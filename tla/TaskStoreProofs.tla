--------------------------- MODULE TaskStoreProofs ---------------------------
(***************************************************************************)
(* Proofs about TaskStore, for any sets of tasks, any number of events and *)
(* any number of failed writes and crashes.                                *)
(***************************************************************************)
EXTENDS TaskStore, SequenceTheorems, WellFoundedInduction, TLAPS

-----------------------------------------------------------------------------
(* Least and greatest numbers.  They stand in for an induction over the     *)
(* lines of a journal.                                                      *)

(* A set of numbers that is not empty has a least one. *)
LEMMA LeastExists ==
  ASSUME NEW T \in SUBSET Nat, T # {}
  PROVE  \E x \in T : \A y \in T : x <= y
<1>1. IsWellFoundedOn(OpToRel(<, Nat), Nat)
  BY NatLessThanWellFounded
<1>2. \E x \in T : \A y \in T : ~ (<<y, x>> \in OpToRel(<, Nat))
  BY <1>1, WFMin
<1>3. PICK x \in T : \A y \in T : ~ (<<y, x>> \in OpToRel(<, Nat))
  BY <1>2
<1>4. \A y \in T : ~ (y < x)
  BY <1>3, Zenon DEF OpToRel
<1> QED
  BY <1>4

(* Max of a bounded set of numbers that is not empty is its greatest one. *)
LEMMA MaxIsGreatest ==
  ASSUME NEW S \in SUBSET Nat, S # {}, NEW n \in Nat, \A x \in S : x <= n
  PROVE  Max(S) \in S /\ \A y \in S : y <= Max(S)
<1> DEFINE B == {b \in Nat : \A x \in S : x <= b}
<1>1. PICK b \in B : \A c \in B : b <= c
  BY LeastExists, Zenon
<1>2. b \in S
  <2>1. CASE b = 0
    <3>1. \A x \in S : x = 0
      BY <1>1, <2>1
    <3> QED
      BY <3>1, <2>1, Zenon
  <2>2. CASE b # 0 /\ b \notin S
    <3>1. b - 1 \in B
      BY <1>1, <2>2
    <3> QED
      BY <3>1, <1>1
  <2> QED
    BY <2>1, <2>2
<1>3. \E x \in S : \A y \in S : x >= y
  BY <1>1, <1>2
<1> QED
  BY <1>3, Zenon DEF Max

-----------------------------------------------------------------------------
(* What readCommittedEvents accepts. *)

(* n lines are accepted: the condition of CommittedLines. *)
Cut(lines, seq, n) ==
  /\ n \in 0..Len(lines)
  /\ \A i \in 1..n : lines[i] \in 1..seq /\ (i < n => lines[i] < seq)
  /\ n < Len(lines) => lines[n + 1] \notin 1..seq \/ (n > 0 /\ lines[n] = seq)

(* Some number of lines is accepted, for every journal and every marker. *)
LEMMA CutExists ==
  ASSUME NEW lines \in Seq(Nat), NEW seq \in Nat
  PROVE  \E n \in 0..Len(lines) : Cut(lines, seq, n)
<1> DEFINE Stop(n) == n = Len(lines) \/ lines[n + 1] \notin 1..seq \/ (n > 0 /\ lines[n] = seq)
           T == {n \in 0..Len(lines) : Stop(n)}
<1>1. Len(lines) \in Nat /\ T \in SUBSET Nat /\ Len(lines) \in T
  OBVIOUS
<1>2. PICK n \in T : \A m \in T : n <= m
  BY <1>1, LeastExists, Zenon
<1>3. n \in 0..Len(lines) /\ Stop(n)
  BY <1>2
<1>4. \A m \in 0..Len(lines) : m < n => ~ Stop(m)
  <2> SUFFICES ASSUME NEW m \in 0..Len(lines), m < n, Stop(m) PROVE FALSE
    OBVIOUS
  <2>1. m \in T
    OBVIOUS
  <2> HIDE DEF T
  <2> QED
    BY <2>1, <1>1, <1>2, <1>3
<1> HIDE DEF T
<1>5. \A i \in 1..n : lines[i] \in 1..seq
  <2> SUFFICES ASSUME NEW i \in 1..n PROVE lines[i] \in 1..seq
    OBVIOUS
  <2>1. i - 1 \in 0..Len(lines) /\ i - 1 < n /\ (i - 1) + 1 = i
    BY <1>1, <1>3
  <2>2. ~ Stop(i - 1)
    BY <2>1, <1>4
  <2> QED
    BY <2>1, <2>2
<1>6. \A i \in 1..n : i < n => lines[i] < seq
  <2> SUFFICES ASSUME NEW i \in 1..n, i < n PROVE lines[i] < seq
    OBVIOUS
  <2>1. i \in 0..Len(lines) /\ i > 0
    BY <1>1, <1>3
  <2>2. ~ Stop(i)
    BY <2>1, <1>4
  <2> QED
    BY <2>1, <2>2, <1>5
<1> QED
  BY <1>3, <1>5, <1>6 DEF Cut

(* And only one. *)
LEMMA CutUnique ==
  ASSUME NEW lines \in Seq(Nat), NEW seq \in Nat, NEW m, NEW n,
         Cut(lines, seq, m), Cut(lines, seq, n)
  PROVE  m = n
<1>1. m \in Nat /\ n \in Nat /\ Len(lines) \in Nat /\ m <= Len(lines) /\ n <= Len(lines)
  BY DEF Cut
<1>2. ~ (m < n)
  BY <1>1 DEF Cut
<1>3. ~ (n < m)
  BY <1>1 DEF Cut
<1> QED
  BY <1>1, <1>2, <1>3

LEMMA CommittedLinesCut ==
  ASSUME NEW lines \in Seq(Nat), NEW seq \in Nat
  PROVE  Cut(lines, seq, CommittedLines(lines, seq))
<1>1. PICK n \in 0..Len(lines) : Cut(lines, seq, n)
  BY CutExists
<1> QED
  BY <1>1, Zenon DEF CommittedLines, Cut

LEMMA CutIsCommitted ==
  ASSUME NEW lines \in Seq(Nat), NEW seq \in Nat, NEW n, Cut(lines, seq, n)
  PROVE  Committed(lines, seq) = SubSeq(lines, 1, n)
BY CommittedLinesCut, CutUnique, Zenon DEF Committed

(* The accepted lines: a prefix, with numbers up to the marker. *)
LEMMA CommittedProperties ==
  ASSUME NEW S \in SUBSET Nat, NEW lines \in Seq(S), NEW seq \in Nat
  PROVE  /\ CommittedLines(lines, seq) \in 0..Len(lines)
         /\ Committed(lines, seq) \in Seq(S)
         /\ Len(Committed(lines, seq)) = CommittedLines(lines, seq)
         /\ \A i \in 1..Len(Committed(lines, seq)) :
              /\ Committed(lines, seq)[i] = lines[i]
              /\ lines[i] \in 1..seq
              /\ i < Len(Committed(lines, seq)) => lines[i] < seq
<1>0. lines \in Seq(Nat)
  BY SeqMonotonic, Zenon
<1>1. lines \in Seq(Nat) /\ Len(lines) \in Nat
  BY <1>0, LenProperties, Zenon
<1>2. Cut(lines, seq, CommittedLines(lines, seq))
  BY <1>1, CommittedLinesCut
<1> DEFINE n == CommittedLines(lines, seq)
<1>3. n \in 0..Len(lines)
  BY <1>2 DEF Cut
<1>4. /\ Committed(lines, seq) \in Seq(S)
      /\ Len(Committed(lines, seq)) = n
      /\ \A i \in 1..n : Committed(lines, seq)[i] = lines[i]
  BY <1>1, <1>3 DEF Committed
<1> QED
  BY <1>2, <1>3, <1>4 DEF Cut

LEMMA CommittedNumbers ==
  ASSUME NEW lines \in Seq(Nat), NEW seq \in Nat
  PROVE  /\ Committed(lines, seq) \in Seq(Nat)
         /\ Len(Committed(lines, seq)) \in Nat
         /\ \A i \in 1..Len(Committed(lines, seq)) :
              /\ Committed(lines, seq)[i] \in 1..seq
              /\ i < Len(Committed(lines, seq)) => Committed(lines, seq)[i] < seq
<1>1. Nat \in SUBSET Nat
  OBVIOUS
<1>2. /\ Committed(lines, seq) \in Seq(Nat)
      /\ \A i \in 1..Len(Committed(lines, seq)) :
           /\ Committed(lines, seq)[i] = lines[i]
           /\ lines[i] \in 1..seq
           /\ i < Len(Committed(lines, seq)) => lines[i] < seq
  BY <1>1, CommittedProperties, Zenon
<1>3. Len(Committed(lines, seq)) \in Nat
  BY <1>2, LenProperties, Zenon
<1> QED
  BY <1>2, <1>3, Zenon

(* A marker that every line respects accepts the whole journal. *)
LEMMA CommittedWhole ==
  ASSUME NEW lines \in Seq(Nat), NEW seq \in Nat,
         \A i \in 1..Len(lines) : lines[i] \in 1..seq /\ (i < Len(lines) => lines[i] < seq)
  PROVE  Committed(lines, seq) = lines
<1>1. Cut(lines, seq, Len(lines))
  BY DEF Cut
<1>2. Committed(lines, seq) = SubSeq(lines, 1, Len(lines))
  BY <1>1, CutIsCommitted
<1> QED
  BY <1>2

(* Cutting the tail off changes nothing that is accepted. *)
LEMMA CommittedOfRepaired ==
  ASSUME NEW lines \in Seq(Nat), NEW seq \in Nat
  PROVE  Committed(Committed(lines, seq), seq) = Committed(lines, seq)
<1> DEFINE c == Committed(lines, seq)
<1>1. /\ c \in Seq(Nat) /\ Len(c) \in Nat
      /\ \A i \in 1..Len(c) : c[i] \in 1..seq /\ (i < Len(c) => c[i] < seq)
  BY CommittedNumbers, Zenon
<1> HIDE DEF c
<1>2. Committed(c, seq) = c
  BY <1>1, CommittedWhole, Zenon
<1> QED
  BY <1>2 DEF c

(* Nor does a tail that begins beyond the marker, or torn. *)
LEMMA CommittedOfTail ==
  ASSUME NEW lines \in Seq(Nat), NEW seq \in Nat, NEW tail \in Seq(Nat),
         tail # <<>> => tail[1] \notin 1..seq
  PROVE  Committed(lines \o tail, seq) = Committed(lines, seq)
<1> DEFINE n == CommittedLines(lines, seq)
<1>1. /\ Len(lines) \in Nat /\ lines \o tail \in Seq(Nat)
      /\ Len(tail) \in Nat /\ Len(lines \o tail) = Len(lines) + Len(tail)
      /\ tail = <<>> <=> Len(tail) = 0
  OBVIOUS
<1>2. Cut(lines, seq, n)
  BY <1>1, CommittedLinesCut
<1>3. n \in 0..Len(lines)
  BY <1>2 DEF Cut
<1>4. /\ \A i \in 1..Len(lines) : (lines \o tail)[i] = lines[i]
      /\ tail # <<>> => (lines \o tail)[Len(lines) + 1] = tail[1]
  BY <1>1
<1> HIDE DEF n
<1> DEFINE long == lines \o tail
<1> HIDE DEF long
<1>5. Cut(long, seq, n)
  BY <1>1, <1>2, <1>3, <1>4 DEF Cut, long
<1>6. Committed(long, seq) = SubSeq(long, 1, n) /\ Committed(lines, seq) = SubSeq(lines, 1, n)
  BY <1>1, <1>2, <1>5, CutIsCommitted, Zenon DEF long
<1>7. SubSeq(long, 1, n) = SubSeq(lines, 1, n)
  BY <1>1, <1>3, <1>4, SMTT(30) DEF long
<1> QED
  BY <1>6, <1>7, Zenon DEF long

(* The last accepted number is the marker, if the journal reaches it. *)
LEMMA ReadableLatest ==
  ASSUME NEW lines \in Seq(Nat), NEW seq \in Nat, Readable(lines, seq)
  PROVE  latestEventSeq(Committed(lines, seq)) = seq
<1> DEFINE c == Committed(lines, seq)
<1>1. /\ c \in Seq(Nat) /\ Len(c) \in Nat
      /\ \A i \in 1..Len(c) : c[i] \in 1..seq /\ (i < Len(c) => c[i] < seq)
  BY CommittedNumbers, Zenon
<1>2. seq = 0 \/ seq \in Range(c)
  BY DEF Readable
<1> HIDE DEF c
<1>3. CASE seq = 0
  <2>1. Len(c) = 0
    BY <1>1, <1>3
  <2>2. c = <<>>
    BY <2>1, <1>1
  <2> QED
    BY <2>2, <1>3 DEF latestEventSeq, c
<1>4. CASE seq \in Range(c)
  <2>1. PICK i \in 1..Len(c) : c[i] = seq
    BY <1>1, <1>4 DEF Range
  <2>2. i = Len(c)
    <3>1. i < Len(c) => c[i] < seq
      BY <1>1, <2>1, Zenon
    <3>2. Len(c) \in Nat
      BY <1>1, Zenon
    <3> QED
      BY <2>1, <3>1, <3>2
  <2>3. c # <<>>
    BY <2>1
  <2> QED
    BY <2>1, <2>2, <2>3, Zenon DEF latestEventSeq, c
<1> QED
  BY <1>2, <1>3, <1>4

(* The latest number of a list that new numbers are appended to. *)
LEMMA LatestOfConcat ==
  ASSUME NEW s \in Seq(Nat), NEW t \in Seq(Nat)
  PROVE  latestEventSeq(s \o t) = IF t = <<>> THEN latestEventSeq(s) ELSE t[Len(t)]
<1>1. CASE t = <<>>
  <2>1. s \o t = s
    BY <1>1
  <2> QED
    BY <2>1, <1>1
<1>2. CASE t # <<>>
  <2>1. Len(t) \in Nat /\ Len(t) # 0 /\ Len(s) \in Nat
    BY <1>2
  <2>2. s \o t # <<>> /\ Len(s \o t) = Len(s) + Len(t) /\ (s \o t)[Len(s) + Len(t)] = t[Len(t)]
    BY <2>1
  <2> QED
    BY <2>2, <1>2 DEF latestEventSeq
<1> QED
  BY <1>1, <1>2

LEMMA LatestType ==
  ASSUME NEW m \in Nat, NEW s \in Seq(1..m)
  PROVE  latestEventSeq(s) \in 0..m
BY DEF latestEventSeq

(* A list begins with itself, whatever is appended. *)
LEMMA PrefixOfConcat ==
  ASSUME NEW s \in Seq(Nat), NEW t \in Seq(Nat)
  PROVE  \E n \in 0..Len(s \o t) : s = SubSeq(s \o t, 1, n)
<1>1. Len(s) \in 0..Len(s \o t)
  OBVIOUS
<1>2. SubSeq(s \o t, 1, Len(s)) = s
  OBVIOUS
<1> QED
  BY <1>1, <1>2, Zenon

LEMMA PrefixOfItself ==
  ASSUME NEW s \in Seq(Nat)
  PROVE  \E n \in 0..Len(s) : s = SubSeq(s, 1, n)
<1>1. Len(s) \in 0..Len(s) /\ SubSeq(s, 1, Len(s)) = s
  OBVIOUS
<1> QED
  BY <1>1, Zenon

(* New numbers beyond one marker and up to the next. *)
Follows(new, seq, marker) ==
  /\ seq <= marker
  /\ new # <<>> => seq < marker
  /\ \A i \in 1..Len(new) : new[i] \in 1..marker /\ (i < Len(new) => new[i] < marker)

(* What a commit accepts: the lines accepted before and the new ones. *)
LEMMA CommittedAfterCommit ==
  ASSUME NEW lines \in Seq(Nat), NEW seq \in Nat, NEW new \in Seq(Nat), NEW marker \in Nat,
         Follows(new, seq, marker)
  PROVE  Committed(Committed(lines, seq) \o new, marker) = Committed(lines, seq) \o new
<1> DEFINE c == Committed(lines, seq)
<1>1. /\ c \in Seq(Nat) /\ Len(c) \in Nat
      /\ \A i \in 1..Len(c) : c[i] \in 1..seq /\ (i < Len(c) => c[i] < seq)
  BY CommittedNumbers, Zenon
<1> HIDE DEF c
<1>2. /\ Len(new) \in Nat /\ (new = <<>> <=> Len(new) = 0)
      /\ seq <= marker /\ (new # <<>> => seq < marker)
  BY DEF Follows
<1>3. /\ c \o new \in Seq(Nat) /\ Len(c \o new) = Len(c) + Len(new)
      /\ \A i \in 1..(Len(c) + Len(new)) :
           (c \o new)[i] = IF i <= Len(c) THEN c[i] ELSE new[i - Len(c)]
  BY <1>1, <1>2
<1>4. ASSUME NEW i \in 1..(Len(c) + Len(new))
      PROVE  /\ (c \o new)[i] \in 1..marker
             /\ i < Len(c) + Len(new) => (c \o new)[i] < marker
  <2> DEFINE x == (c \o new)[i]
  <2>1. x = IF i <= Len(c) THEN c[i] ELSE new[i - Len(c)]
    BY <1>3
  <2> HIDE DEF x
  <2>2. CASE i <= Len(c)
    <3>1. i \in 1..Len(c) /\ x = c[i]
      BY <2>1, <2>2, <1>1, <1>2
    <3>2. x \in 1..seq /\ (i < Len(c) => x < seq)
      BY <3>1, <1>1
    <3> QED
      BY <3>1, <3>2, <1>1, <1>2 DEF x
  <2>3. CASE ~ (i <= Len(c))
    <3>1. i - Len(c) \in 1..Len(new) /\ x = new[i - Len(c)]
      BY <2>1, <2>3, <1>1, <1>2
    <3>2. x \in 1..marker /\ (i - Len(c) < Len(new) => x < marker)
      BY <3>1, Zenon DEF Follows
    <3> QED
      BY <3>1, <3>2, <1>1, <1>2 DEF x
  <2> QED
    BY <2>2, <2>3
<1>5. Committed(c \o new, marker) = c \o new
  BY <1>3, <1>4, CommittedWhole, Zenon
<1> QED
  BY <1>5 DEF c

-----------------------------------------------------------------------------
(***************************************************************************)
(* The inductive invariant.  CommittedTogether and MemoryIsDurable hold    *)
(* after a commit because the journal then ends with the events of the     *)
(* state that is committed; so the invariant follows a save step by step.  *)
(***************************************************************************)
EventsOf(r) == IF memory[r] = None THEN <<>> ELSE memory[r].events
ChangesOf(r) == IF memory[r] = None THEN {} ELSE memory[r].changes

(* The marker of a task is not beyond its latest event in memory, and no    *)
(* number beyond nextSeq is in use: the numbers of a save are new.          *)
Numbered ==
  service = "up" => \A r \in Roots :
    /\ memory[r] = None <=> record[r] = None
    /\ committedEventSeq(r) <= latestEventSeq(EventsOf(r))
    /\ latestEventSeq(EventsOf(r)) <= nextSeq

Delivered ==
  /\ \A r \in delivering : memory[r] # None
  /\ service # "up" => delivering = {}

(* What is being saved: memory and the new events. *)
SavesNext ==
  saving # None =>
    /\ service = "up"
    /\ nextSeq + Len(saving.new) <= MaxSeq
    /\ \A i \in 1..Len(saving.new) : saving.new[i] = nextSeq + i
    /\ saving.next.events = EventsOf(saving.root) \o saving.new
    /\ saving.next.changes = ChangesOf(saving.root) \union Range(saving.new)
    /\ saving.kind = "in place" => memory[saving.root] # None

Reaches(r) == committedEventSeq(r) = 0 \/ committedEventSeq(r) \in Range(CommittedEvents(r))

(* The journal behind the marker, at each step of a save. *)
JournalAtStep ==
  saving # None =>
    /\ saving.step # "repair" => Reaches(saving.root)
    /\ saving.step = "append" => journal[saving.root] = CommittedEvents(saving.root)
    /\ saving.step = "commit" => journal[saving.root] = CommittedEvents(saving.root) \o saving.new

(* MemoryIsDurable, in the middle of a save too. *)
Durable == service = "up" => \A r \in Roots \ kept : memory[r] = Loaded(r)

IInv == /\ TypeOK /\ Numbered /\ Delivered /\ SavesNext /\ JournalAtStep
        /\ Durable /\ CommittedTogether

-----------------------------------------------------------------------------
(* Facts about one state. *)

LEMMA MarkerType ==
  ASSUME TypeOK, NEW r \in Roots
  PROVE  committedEventSeq(r) \in 0..MaxSeq
BY TaskStoreAssumption DEF TypeOK, committedEventSeq, Record

LEMMA JournalType ==
  ASSUME TypeOK, NEW r \in Roots
  PROVE  journal[r] \in Seq(0..MaxSeq) /\ journal[r] \in Seq(Nat)
<1>1. journal[r] \in Seq(0..MaxSeq)
  BY DEF TypeOK
<1>2. 0..MaxSeq \subseteq Nat
  BY TaskStoreAssumption
<1> QED
  BY <1>1, <1>2, SeqMonotonic, Zenon

LEMMA CommittedType ==
  ASSUME TypeOK, NEW r \in Roots
  PROVE  CommittedEvents(r) \in Seq(0..MaxSeq) /\ CommittedEvents(r) \in Seq(Nat)
<1>1. 0..MaxSeq \in SUBSET Nat /\ committedEventSeq(r) \in Nat
  BY TaskStoreAssumption, MarkerType
<1>2. CommittedEvents(r) \in Seq(0..MaxSeq)
  BY <1>1, JournalType, CommittedProperties, Zenon DEF CommittedEvents
<1> QED
  BY <1>1, <1>2, SeqMonotonic, Zenon

LEMMA EventsType ==
  ASSUME TypeOK, NEW r \in Roots
  PROVE  EventsOf(r) \in Seq(1..MaxSeq) /\ EventsOf(r) \in Seq(Nat) /\ ChangesOf(r) \in SUBSET (1..MaxSeq)
<1>1. EventsOf(r) \in Seq(1..MaxSeq) /\ ChangesOf(r) \in SUBSET (1..MaxSeq)
  <2>1. CASE memory[r] = None
    BY <2>1 DEF EventsOf, ChangesOf
  <2>2. CASE memory[r] # None
    <3>1. memory[r] \in Task
      BY <2>2 DEF TypeOK
    <3> QED
      BY <2>2, <3>1 DEF Task, EventsOf, ChangesOf
  <2> QED
    BY <2>1, <2>2
<1>2. 1..MaxSeq \subseteq Nat
  BY TaskStoreAssumption
<1> QED
  BY <1>1, <1>2, SeqMonotonic, Zenon

LEMMA LoadableReaches ==
  ASSUME NEW r \in Roots
  PROVE  /\ Loadable(r) <=> Reaches(r)
         /\ Readable(journal[r], committedEventSeq(r)) <=> Reaches(r)
BY DEF Loadable, Readable, Reaches, committedEventSeq, CommittedEvents

LEMMA ReachesLatest ==
  ASSUME TypeOK, NEW r \in Roots, Reaches(r)
  PROVE  latestEventSeq(CommittedEvents(r)) = committedEventSeq(r)
<1>1. committedEventSeq(r) \in Nat
  BY MarkerType, TaskStoreAssumption
<1>2. journal[r] \in Seq(Nat)
  BY JournalType
<1>3. Readable(journal[r], committedEventSeq(r))
  BY LoadableReaches, Zenon
<1> QED
  BY <1>1, <1>2, <1>3, ReadableLatest, Zenon DEF CommittedEvents

LEMMA SavingType ==
  ASSUME TypeOK, saving # None
  PROVE  /\ saving \in Saving /\ saving.root \in Roots /\ saving.next \in Task
         /\ saving.kind \in {"create", "mutate", "in place"}
         /\ saving.step \in {"repair", "append", "commit"}
<1>1. saving \in Saving
  BY Zenon DEF TypeOK
<1> QED
  BY <1>1 DEF Saving

LEMMA NewType ==
  ASSUME TypeOK, saving # None
  PROVE  saving.new \in Seq(0..MaxSeq) /\ saving.new \in Seq(Nat) /\ Len(saving.new) \in Nat
<1>1. saving.new \in Seq(1..MaxSeq)
  BY SavingType DEF Saving
<1>2. 1..MaxSeq \subseteq Nat /\ 1..MaxSeq \subseteq 0..MaxSeq
  BY TaskStoreAssumption
<1>3. saving.new \in Seq(0..MaxSeq) /\ saving.new \in Seq(Nat)
  BY <1>1, <1>2, SeqMonotonic, Zenon
<1> QED
  BY <1>3, LenProperties, Zenon

-----------------------------------------------------------------------------
(* What a step does to the files.  Every step but Commit leaves the records *)
(* and the committed events as they are.                                    *)
SameFiles ==
  /\ record' = record
  /\ \A r \in Roots : CommittedEvents(r)' = CommittedEvents(r)

JournalTyped == journal' \in [Roots -> Seq(0..MaxSeq)]

LEMMA FilesUntouched ==
  ASSUME TypeOK, record' = record, journal' = journal
  PROVE  SameFiles /\ JournalTyped
BY DEF SameFiles, JournalTyped, CommittedEvents, committedEventSeq, TypeOK

LEMMA OneJournal ==
  ASSUME TypeOK, NEW r \in Roots, NEW lines \in Seq(0..MaxSeq), record' = record,
         journal' = [journal EXCEPT ![r] = lines],
         Committed(lines, committedEventSeq(r)) = CommittedEvents(r)
  PROVE  SameFiles /\ JournalTyped
<1>1. journal \in [Roots -> Seq(0..MaxSeq)]
  BY DEF TypeOK
<1>2. JournalTyped
  BY <1>1 DEF JournalTyped
<1>3. \A q \in Roots : journal'[q] = IF q = r THEN lines ELSE journal[q]
  BY <1>1
<1>4. ASSUME NEW q \in Roots PROVE committedEventSeq(q)' = committedEventSeq(q)
  BY DEF committedEventSeq
<1>5. ASSUME NEW q \in Roots PROVE CommittedEvents(q)' = CommittedEvents(q)
  BY <1>3, <1>4, Zenon DEF CommittedEvents
<1> QED
  BY <1>2, <1>5 DEF SameFiles

LEMMA RepairedJournal ==
  ASSUME TypeOK, NEW r \in Roots, record' = record,
         journal' = [journal EXCEPT ![r] = CommittedEvents(r)]
  PROVE  SameFiles /\ JournalTyped
<1>1. committedEventSeq(r) \in Nat
  BY MarkerType, TaskStoreAssumption
<1>2. journal[r] \in Seq(Nat) /\ CommittedEvents(r) \in Seq(0..MaxSeq)
  BY JournalType, CommittedType, Zenon
<1>3. Committed(CommittedEvents(r), committedEventSeq(r)) = CommittedEvents(r)
  BY <1>1, <1>2, CommittedOfRepaired, Zenon DEF CommittedEvents
<1> QED
  BY <1>2, <1>3, OneJournal, Zenon

(* A tail of numbers that are not committed, or a torn line. *)
LEMMA LongerJournal ==
  ASSUME TypeOK, NEW r \in Roots, record' = record, NEW tail \in Seq(0..MaxSeq),
         tail # <<>> => tail[1] \notin 1..committedEventSeq(r),
         journal' = [journal EXCEPT ![r] = journal[r] \o tail]
  PROVE  SameFiles /\ JournalTyped
<1>1. committedEventSeq(r) \in Nat
  BY MarkerType, TaskStoreAssumption
<1>2. 0..MaxSeq \subseteq Nat
  BY TaskStoreAssumption
<1>3. journal[r] \in Seq(Nat) /\ journal[r] \in Seq(0..MaxSeq) /\ tail \in Seq(Nat)
  BY <1>2, JournalType, SeqMonotonic, Zenon
<1>4. journal[r] \o tail \in Seq(0..MaxSeq)
  BY <1>3, ConcatProperties, Zenon
<1>5. Committed(journal[r] \o tail, committedEventSeq(r)) = CommittedEvents(r)
  BY <1>1, <1>3, CommittedOfTail, Zenon DEF CommittedEvents
<1> QED
  BY <1>4, <1>5, OneJournal, Zenon

(* The numbers of a save are beyond the marker. *)
LEMMA NewBeyondMarker ==
  ASSUME TypeOK, Numbered, SavesNext, saving # None, NEW i \in 1..Len(saving.new)
  PROVE  saving.new[i] \notin 1..committedEventSeq(saving.root)
<1> DEFINE r == saving.root
<1>1. r \in Roots /\ service = "up" /\ saving.new[i] = nextSeq + i
  BY SavingType DEF SavesNext
<1>2. /\ committedEventSeq(r) <= latestEventSeq(EventsOf(r))
      /\ latestEventSeq(EventsOf(r)) <= nextSeq
  BY <1>1, Zenon DEF Numbered
<1>3. committedEventSeq(r) \in Nat
  BY <1>1, MarkerType, TaskStoreAssumption
<1>4. latestEventSeq(EventsOf(r)) \in Nat
  BY <1>1, EventsType, LatestType, TaskStoreAssumption
<1>5. nextSeq \in Nat /\ i \in Nat /\ i > 0
  BY TaskStoreAssumption, NewType DEF TypeOK
<1> HIDE DEF r
<1> QED
  BY <1>1, <1>2, <1>3, <1>4, <1>5 DEF r

LEMMA AppendedJournal ==
  ASSUME TypeOK, Numbered, SavesNext, saving # None, record' = record,
         journal' = [journal EXCEPT ![saving.root] = @ \o saving.new]
  PROVE  SameFiles /\ JournalTyped
<1>1. saving.root \in Roots
  BY SavingType
<1>2. saving.new \in Seq(0..MaxSeq) /\ Len(saving.new) \in Nat
  BY NewType
<1>3. ASSUME saving.new # <<>> PROVE saving.new[1] \notin 1..committedEventSeq(saving.root)
  <2>1. 1 \in 1..Len(saving.new)
    BY <1>2, <1>3
  <2> QED
    BY <2>1, NewBeyondMarker
<1>4. journal' = [journal EXCEPT ![saving.root] = journal[saving.root] \o saving.new]
  BY Zenon
<1> QED
  BY <1>1, <1>2, <1>3, <1>4, LongerJournal, Zenon

(* The lines that a write cut short leaves behind. *)
LEMMA FirstLines ==
  ASSUME NEW S, NEW new \in Seq(S), NEW n \in 0..Len(new)
  PROVE  /\ SubSeq(new, 1, n) \in Seq(S)
         /\ Len(SubSeq(new, 1, n)) = n
         /\ \A i \in 1..n : SubSeq(new, 1, n)[i] = new[i]
OBVIOUS

LEMMA TornLine ==
  ASSUME NEW torn \in {<<>>, <<Torn>>}
  PROVE  torn \in Seq(0..MaxSeq) /\ Len(torn) \in Nat /\ (torn # <<>> => torn[1] = 0)
<1>1. CASE torn = <<>>
  BY <1>1
<1>2. CASE torn = <<Torn>>
  <2>1. torn = <<0>> /\ 0 \in 0..MaxSeq
    BY <1>2, TaskStoreAssumption DEF Torn
  <2> QED
    BY <2>1
<1> QED
  BY <1>1, <1>2

LEMMA FirstOfTail ==
  ASSUME NEW first \in Seq(Nat), NEW torn \in Seq(Nat), first \o torn # <<>>
  PROVE  \/ first # <<>> /\ (first \o torn)[1] = first[1]
         \/ torn # <<>> /\ (first \o torn)[1] = torn[1]
OBVIOUS

LEMMA CutShortJournal ==
  ASSUME TypeOK, Numbered, SavesNext, saving # None, record' = record, PartialAppend
  PROVE  SameFiles /\ JournalTyped
<1> DEFINE r == saving.root
           new == saving.new
<1>1. r \in Roots /\ new \in Seq(0..MaxSeq) /\ Len(new) \in Nat
  BY NewType, SavingType, Zenon
<1>2. PICK n \in 0..Len(new), torn \in {<<>>, <<Torn>>} :
        journal' = [journal EXCEPT ![r] = @ \o SubSeq(new, 1, n) \o torn]
  BY Zenon DEF PartialAppend
<1> DEFINE first == SubSeq(new, 1, n)
           tail == first \o torn
<1>3. \A i \in 1..Len(new) : new[i] \notin 1..committedEventSeq(r)
  BY NewBeyondMarker, Zenon
<1>4. first \in Seq(0..MaxSeq) /\ Len(first) = n /\ \A i \in 1..n : first[i] = new[i]
  BY <1>1, FirstLines, Zenon
<1>5. torn \in Seq(0..MaxSeq) /\ Len(torn) \in Nat /\ (torn # <<>> => torn[1] = 0)
  BY TornLine, Zenon
<1> HIDE DEF r, new, first
<1>6. tail \in Seq(0..MaxSeq)
  BY <1>4, <1>5, ConcatProperties, Zenon
<1>7. ASSUME tail # <<>> PROVE tail[1] \notin 1..committedEventSeq(r)
  <2>1. 0..MaxSeq \subseteq Nat
    BY TaskStoreAssumption
  <2>2. first \in Seq(Nat) /\ torn \in Seq(Nat)
    BY <1>4, <1>5, <2>1, SeqMonotonic, Zenon
  <2>3. \/ first # <<>> /\ tail[1] = first[1]
        \/ torn # <<>> /\ tail[1] = torn[1]
    BY <1>7, <2>2, FirstOfTail, Zenon
  <2>4. CASE first # <<>> /\ tail[1] = first[1]
    <3>1. first # <<>> => Len(first) \in Nat \ {0}
      BY <1>4, EmptySeq, Zenon
    <3>2. n \in Nat \ {0} /\ n <= Len(new)
      BY <1>1, <1>4, <2>4, <3>1
    <3>3. 1 \in 1..n /\ 1 \in 1..Len(new)
      BY <1>1, <3>2
    <3> QED
      BY <1>3, <1>4, <2>4, <3>3, Zenon
  <2>5. CASE torn # <<>> /\ tail[1] = torn[1]
    <3>1. 0 \notin 1..committedEventSeq(r)
      BY <1>1, MarkerType, TaskStoreAssumption
    <3> QED
      BY <1>5, <2>5, <3>1, Zenon
  <2> QED
    BY <2>3, <2>4, <2>5
<1>8. journal[r] \in Seq(0..MaxSeq)
  BY <1>1, JournalType
<1>9. (journal[r] \o first) \o torn = journal[r] \o tail
  <2>1. \A s, t, u \in Seq(0..MaxSeq) : (s \o t) \o u = s \o (t \o u)
    BY ConcatAssociative
  <2>2. first \in Seq(0..MaxSeq) /\ torn \in Seq(0..MaxSeq)
    BY <1>4, <1>5
  <2> QED
    BY <2>1, <2>2, <1>8, Zenon
<1>10. journal' = [journal EXCEPT ![r] = journal[r] \o tail]
  <2>1. journal' = [journal EXCEPT ![r] = (journal[r] \o first) \o torn]
    BY <1>2, Zenon DEF first
  <2> QED
    BY <1>9, <2>1, Zenon
<1> HIDE DEF tail
<1> QED
  BY <1>1, <1>6, <1>7, <1>10, LongerJournal, Zenon

LEMMA SameFilesLoad ==
  ASSUME SameFiles, NEW r \in Roots
  PROVE  /\ CommittedEvents(r)' = CommittedEvents(r)
         /\ committedEventSeq(r)' = committedEventSeq(r)
         /\ Reaches(r)' = Reaches(r)
         /\ Loadable(r)' = Loadable(r)
         /\ Loaded(r)' = Loaded(r)
<1>1. record' = record /\ CommittedEvents(r)' = CommittedEvents(r)
  BY DEF SameFiles
<1>2. committedEventSeq(r)' = committedEventSeq(r)
  BY <1>1 DEF committedEventSeq
<1>3. Reaches(r)' = Reaches(r)
  BY <1>1, <1>2, Zenon DEF Reaches
<1>4. (Loadable(r) <=> Reaches(r)) /\ (Loadable(r)' <=> Reaches(r)')
  BY LoadableReaches DEF Loadable, Readable, Reaches, committedEventSeq, CommittedEvents
<1>5. Loaded(r)' = Loaded(r)
  BY <1>1, Zenon DEF Loaded
<1>6. Loadable(r)' = Loadable(r)
  BY <1>3, <1>4, Zenon DEF Loadable, Readable, Reaches
<1> QED
  BY <1>1, <1>2, <1>3, <1>5, <1>6, Zenon

LEMMA TogetherKept ==
  ASSUME CommittedTogether, SameFiles, kept \subseteq kept'
  PROVE  CommittedTogether'
<1> SUFFICES ASSUME NEW r \in Roots, r \notin kept', record'[r] # None
             PROVE  Loadable(r)' /\ record'[r].changes = Range(CommittedEvents(r)')
  BY Zenon DEF CommittedTogether
<1>1. record'[r] = record[r] /\ r \notin kept
  BY DEF SameFiles
<1>2. Loadable(r) /\ record[r].changes = Range(CommittedEvents(r))
  BY <1>1, Zenon DEF CommittedTogether
<1> QED
  BY <1>1, <1>2, SameFilesLoad, Zenon

LEMMA DurableKept ==
  ASSUME Durable, SameFiles, kept \subseteq kept', service' = service,
         \A r \in Roots : r \notin kept' => memory'[r] = memory[r]
  PROVE  Durable'
<1> SUFFICES ASSUME service' = "up", NEW r \in Roots, r \notin kept'
             PROVE  memory'[r] = Loaded(r)'
  BY Zenon DEF Durable
<1>1. memory[r] = Loaded(r)
  BY Zenon DEF Durable
<1> QED
  BY <1>1, SameFilesLoad, Zenon

LEMMA NumberedKept ==
  ASSUME TypeOK, Numbered, SameFiles, service' = service, memory' = memory, nextSeq' = nextSeq
  PROVE  Numbered'
<1> SUFFICES ASSUME service' = "up", NEW r \in Roots
             PROVE  /\ memory'[r] = None <=> record'[r] = None
                    /\ committedEventSeq(r)' <= latestEventSeq(EventsOf(r))'
                    /\ latestEventSeq(EventsOf(r))' <= nextSeq'
  BY Zenon DEF Numbered
<1>1. latestEventSeq(EventsOf(r))' = latestEventSeq(EventsOf(r))
  BY Zenon DEF latestEventSeq, EventsOf
<1>2. record' = record
  BY DEF SameFiles
<1>3. committedEventSeq(r)' = committedEventSeq(r)
  BY SameFilesLoad, Zenon
<1> QED
  BY <1>1, <1>2, <1>3, Zenon DEF Numbered

-----------------------------------------------------------------------------
(* Preservation, action by action. *)

(* The new events of an operation, and the changes they report. *)
LEMMA NewEventsType ==
  ASSUME TypeOK, NEW n \in Nat, nextSeq + n <= MaxSeq
  PROVE  /\ NewEvents(n) \in Seq(1..MaxSeq) /\ Len(NewEvents(n)) = n
         /\ \A i \in 1..n : NewEvents(n)[i] = nextSeq + i
         /\ Range(NewEvents(n)) = {nextSeq + i : i \in 1..n}
         /\ Range(NewEvents(n)) \in SUBSET (1..MaxSeq)
<1>1. nextSeq \in Nat /\ MaxSeq \in Nat
  BY TaskStoreAssumption DEF TypeOK
<1>2. /\ NewEvents(n) \in Seq(1..MaxSeq) /\ Len(NewEvents(n)) = n
      /\ \A i \in 1..n : NewEvents(n)[i] = nextSeq + i
  BY <1>1 DEF NewEvents
<1>3. Range(NewEvents(n)) = {nextSeq + i : i \in 1..n}
  BY DEF NewEvents, Range
<1>4. {nextSeq + i : i \in 1..n} \in SUBSET (1..MaxSeq)
  BY <1>1
<1> QED
  BY <1>2, <1>3, <1>4

(* An operation begins its save with the task of memory and new events. *)
LEMMA SavePreserves ==
  ASSUME IInv, NEW r \in Roots, NEW kind \in {"create", "mutate", "in place"},
         NEW status \in Statuses, NEW before, NEW n \in Nat,
         Save(kind, r, status, before, n),
         before.changes = ChangesOf(r), before.events = EventsOf(r),
         kind = "in place" => memory[r] # None,
         delivering' \subseteq delivering
  PROVE  IInv'
<1> DEFINE new == NewEvents(n)
           changes == before.changes \union {nextSeq + i : i \in 1..n}
           events == before.events \o new
           next == [status |-> status, changes |-> changes, events |-> events]
<1>1. /\ service = "up" /\ nextSeq + n <= MaxSeq
      /\ saving' = [kind |-> kind, root |-> r, step |-> "repair", new |-> new, next |-> next]
      /\ memory' = memory /\ nextSeq' = nextSeq /\ record' = record /\ journal' = journal
      /\ kept' = kept /\ service' = service
  BY Zenon DEF Save
<1>2. /\ TypeOK /\ Numbered /\ Delivered /\ Durable /\ CommittedTogether
  BY Zenon DEF IInv
<1>3. /\ new \in Seq(1..MaxSeq) /\ Len(new) = n
      /\ \A i \in 1..n : new[i] = nextSeq + i
      /\ Range(new) = {nextSeq + i : i \in 1..n}
      /\ Range(new) \in SUBSET (1..MaxSeq)
  BY <1>1, <1>2, NewEventsType, Zenon
<1> HIDE DEF new
<1>4. events = EventsOf(r) \o new /\ changes = ChangesOf(r) \union Range(new)
  BY <1>3, Zenon
<1>5. events \in Seq(1..MaxSeq) /\ changes \in SUBSET (1..MaxSeq)
  <2>1. EventsOf(r) \in Seq(1..MaxSeq) /\ ChangesOf(r) \in SUBSET (1..MaxSeq)
    BY <1>2, EventsType, Zenon
  <2>2. EventsOf(r) \o new \in Seq(1..MaxSeq)
    BY <1>3, <2>1, ConcatProperties, Zenon
  <2>3. ChangesOf(r) \union Range(new) \in SUBSET (1..MaxSeq)
    BY <1>3, <2>1, Zenon
  <2> QED
    BY <1>4, <2>2, <2>3, Zenon
<1> HIDE DEF events, changes
<1>6. next \in Task
  BY <1>5 DEF Task
<1>7. /\ saving'.kind = kind /\ saving'.root = r /\ saving'.step = "repair"
      /\ saving'.new = new /\ saving'.next = next
      /\ saving'.next.events = events /\ saving'.next.changes = changes
  BY <1>1
<1> HIDE DEF next
<1>8. EventsOf(r)' = EventsOf(r) /\ ChangesOf(r)' = ChangesOf(r)
  BY <1>1, Zenon DEF EventsOf, ChangesOf
<1>9. SavesNext'
  <2>1. Len(saving'.new) = n
    BY <1>3, <1>7, Zenon
  <2>2. nextSeq' + Len(saving'.new) <= MaxSeq
    BY <1>1, <2>1, Zenon
  <2>3. \A i \in 1..Len(saving'.new) : saving'.new[i] = nextSeq' + i
    BY <1>1, <1>3, <1>7, <2>1, Zenon
  <2>4. /\ saving'.next.events = EventsOf(saving.root)' \o saving'.new
        /\ saving'.next.changes = ChangesOf(saving.root)' \union Range(saving'.new)
    BY <1>4, <1>7, <1>8, Zenon DEF EventsOf, ChangesOf
  <2>5. saving'.kind = "in place" => memory'[saving'.root] # None
    BY <1>1, <1>7, Zenon
  <2> QED
    BY <1>1, <2>2, <2>3, <2>4, <2>5, Zenon DEF SavesNext
<1>10. JournalAtStep'
  BY <1>7, Zenon DEF JournalAtStep
<1>11. SameFiles
  BY <1>1, <1>2, FilesUntouched, Zenon
<1>12. TypeOK'
  <2>1. saving' = [kind |-> kind, root |-> r, step |-> "repair", new |-> new, next |-> next]
    BY <1>1, Zenon
  <2>2. new \in Seq(1..MaxSeq)
    BY <1>3, Zenon
  <2>3. saving' \in Saving
    BY <2>1, <2>2, <1>6 DEF Saving
  <2> QED
    BY <1>1, <1>2, <2>3, Zenon DEF TypeOK
<1>13. Delivered'
  BY <1>1, <1>2, Zenon DEF Delivered
<1>14. Numbered' /\ Durable' /\ CommittedTogether'
  BY <1>1, <1>2, <1>11, NumberedKept, DurableKept, TogetherKept, Zenon
<1> QED
  BY <1>9, <1>10, <1>12, <1>13, <1>14, Zenon DEF IInv

LEMMA OperationsPreserve ==
  ASSUME IInv, NEW r \in Roots,
         \/ CreateRoot(r) \/ ChangeInPlace(r) \/ CancelAgentTask(r)
         \/ MarkFailed(r) \/ \E n \in 0..2 : MutateRoom(r, n)
  PROVE  IInv'
<1>1. ASSUME memory[r] # None PROVE memory[r].changes = ChangesOf(r) /\ memory[r].events = EventsOf(r)
  BY <1>1, Zenon DEF ChangesOf, EventsOf
<1>2. 0 \in Nat /\ 1 \in Nat /\ 0..2 \subseteq Nat
  OBVIOUS
<1>3. {"open", "assigned", "failed", "cancelled"} \subseteq Statuses
  BY DEF Statuses
<1>4. CASE CreateRoot(r)
  <2>1. memory[r] = None /\ delivering' = delivering
    BY <1>4, Zenon DEF CreateRoot
  <2>2. Empty.changes = ChangesOf(r) /\ Empty.events = EventsOf(r)
    BY <2>1 DEF Empty, ChangesOf, EventsOf
  <2>3. PICK status \in Statuses : Save("create", r, status, Empty, 1)
    BY <1>3, <1>4, Zenon DEF CreateRoot
  <2> QED
    BY <1>2, <2>1, <2>2, <2>3, SavePreserves
<1>5. CASE ChangeInPlace(r)
  <2>1. memory[r] # None /\ delivering' = delivering
    BY <1>5, Zenon DEF ChangeInPlace
  <2>2. PICK status \in Transition[memory[r].status] : Save("in place", r, status, memory[r], 1)
    BY <1>5, Zenon DEF ChangeInPlace
  <2>3. memory[r].status \in {"open", "assigned", "blocked", "in_progress"}
    BY <1>5 DEF ChangeInPlace, Transition
  <2>4. status \in Statuses
    <3>1. /\ Transition["open"] = {"open"} /\ Transition["assigned"] = {"in_progress"}
          /\ Transition["blocked"] = {"in_progress"}
          /\ Transition["in_progress"] = {"completed", "failed", "blocked"}
      BY DEF Transition
    <3>2. {"open", "in_progress", "completed", "failed", "blocked"} \subseteq Statuses
      BY DEF Statuses
    <3> QED
      BY <2>2, <2>3, <3>1, <3>2, Zenon
  <2> QED
    BY <1>1, <1>2, <2>1, <2>2, <2>4, SavePreserves
<1>6. CASE CancelAgentTask(r)
  <2>1. memory[r] # None /\ delivering' = delivering /\ Save("mutate", r, "cancelled", memory[r], 0)
    BY <1>6, Zenon DEF CancelAgentTask
  <2> QED
    BY <1>1, <1>2, <1>3, <2>1, SavePreserves
<1>7. CASE MarkFailed(r)
  <2>1. memory[r] # None
    BY <1>7, Zenon DEF MarkFailed, IInv, Delivered
  <2>2. delivering' \subseteq delivering /\ Save("mutate", r, "failed", memory[r], 1)
    BY <1>7, Zenon DEF MarkFailed
  <2> QED
    BY <1>1, <1>2, <1>3, <2>1, <2>2, SavePreserves
<1>8. CASE \E n \in 0..2 : MutateRoom(r, n)
  <2>1. PICK n \in 0..2 : MutateRoom(r, n)
    BY <1>8
  <2>2. memory[r] # None /\ delivering' = delivering /\ Save("mutate", r, "open", memory[r], n)
    BY <2>1, Zenon DEF MutateRoom
  <2> QED
    BY <1>1, <1>2, <1>3, <2>2, SavePreserves
<1> QED
  BY <1>4, <1>5, <1>6, <1>7, <1>8, Zenon

(* A step of a save that goes on leaves memory alone; it has to establish   *)
(* what the next step relies on.                                            *)
LEMMA GotoPreserves ==
  ASSUME IInv, saving # None, NEW there \in {"append", "commit"}, Goto(there),
         SameFiles, JournalTyped, Reaches(saving.root),
         there = "append" => journal'[saving.root] = CommittedEvents(saving.root),
         there = "commit" => journal'[saving.root] = CommittedEvents(saving.root) \o saving.new
  PROVE  IInv'
<1>1. /\ memory' = memory /\ nextSeq' = nextSeq /\ delivering' = delivering /\ kept' = kept
      /\ service' = service /\ saving' = [saving EXCEPT !.step = there]
  BY Zenon DEF Goto
<1>2. /\ TypeOK /\ Numbered /\ Delivered /\ Durable /\ CommittedTogether /\ SavesNext
  BY Zenon DEF IInv
<1>3. /\ saving' \in Saving /\ saving'.step = there
      /\ saving'.kind = saving.kind /\ saving'.root = saving.root
      /\ saving'.new = saving.new /\ saving'.next = saving.next
  BY <1>1, <1>2, SavingType DEF Saving
<1>4. saving.root \in Roots
  BY <1>2, SavingType, Zenon
<1>5. TypeOK'
  BY <1>1, <1>2, <1>3, Zenon DEF TypeOK, SameFiles, JournalTyped
<1>6. SavesNext'
  BY <1>1, <1>2, <1>3, Zenon DEF SavesNext, EventsOf, ChangesOf
<1>7. JournalAtStep'
  <2>1. CommittedEvents(saving.root)' = CommittedEvents(saving.root) /\ Reaches(saving.root)'
    BY <1>3, <1>4, SameFilesLoad, Zenon DEF CommittedEvents, committedEventSeq, Reaches
  <2> QED
    BY <1>3, <2>1, Zenon DEF JournalAtStep
<1>8. Delivered'
  BY <1>1, <1>2, Zenon DEF Delivered
<1>9. Numbered' /\ Durable' /\ CommittedTogether'
  BY <1>1, <1>2, NumberedKept, DurableKept, TogetherKept, Zenon
<1> QED
  BY <1>5, <1>6, <1>7, <1>8, <1>9, Zenon DEF IInv

(* The last of the new numbers. *)
LEMMA LastNew ==
  ASSUME TypeOK, SavesNext, saving # None, saving.new # <<>>
  PROVE  saving.new[Len(saving.new)] = nextSeq + Len(saving.new)
<1>1. saving.new \in Seq(Nat) /\ Len(saving.new) \in Nat
  BY NewType, Zenon
<1>2. Len(saving.new) \in 1..Len(saving.new)
  BY <1>1
<1> QED
  BY <1>2, Zenon DEF SavesNext

(* A save that fails.  An operation in place keeps its change, and the task *)
(* is exempted from then on.                                                *)
LEMMA FailurePreserves ==
  ASSUME IInv, saving # None, EndSave(FALSE), SameFiles, JournalTyped
  PROVE  IInv'
<1> DEFINE r == saving.root
<1>1. /\ TypeOK /\ Numbered /\ Delivered /\ Durable /\ CommittedTogether /\ SavesNext
  BY Zenon DEF IInv
<1>2. r \in Roots /\ saving.next \in Task /\ Len(saving.new) \in Nat
  BY <1>1, SavingType, NewType, Zenon
<1>3. /\ memory' = IF saving.kind = "in place" THEN [memory EXCEPT ![r] = saving.next] ELSE memory
      /\ nextSeq' = IF saving.kind # "mutate" THEN nextSeq + Len(saving.new) ELSE nextSeq
      /\ delivering' = delivering /\ saving' = None /\ service' = service
      /\ kept' = IF saving.kind = "in place" THEN kept \union {r} ELSE kept
  BY Zenon DEF EndSave, Publishes, ConsumesSeq
<1>4. /\ memory \in [Roots -> Task \union {None}] /\ nextSeq \in 0..MaxSeq
      /\ delivering \subseteq AgentTasks /\ kept \subseteq Roots
  BY <1>1, Zenon DEF TypeOK
<1>5. /\ memory' \in [Roots -> Task \union {None}]
      /\ \A q \in Roots : memory'[q] =
           IF saving.kind = "in place" /\ q = r THEN saving.next ELSE memory[q]
  BY <1>2, <1>3, <1>4
<1>6. nextSeq + Len(saving.new) <= MaxSeq /\ service = "up"
  BY <1>1, Zenon DEF SavesNext
<1>7. nextSeq' \in 0..MaxSeq /\ nextSeq' >= nextSeq
  <2>1. nextSeq' = nextSeq + Len(saving.new) \/ nextSeq' = nextSeq
    BY <1>3, Zenon
  <2> QED
    BY <1>2, <1>4, <1>6, <2>1, TaskStoreAssumption
<1>8. TypeOK'
  BY <1>1, <1>2, <1>3, <1>5, <1>7, Zenon DEF TypeOK, SameFiles, JournalTyped
<1>9. SavesNext' /\ JournalAtStep'
  BY <1>3, Zenon DEF SavesNext, JournalAtStep
<1>10. Delivered'
  <2> SUFFICES ASSUME NEW q \in delivering PROVE memory'[q] # None
    BY <1>3, <1>6, Zenon DEF Delivered
  <2>1. q \in Roots /\ memory[q] # None
    BY <1>1, <1>4, Zenon DEF Delivered, Roots
  <2> QED
    BY <1>2, <1>5, <2>1, TaskStoreAssumption, Zenon
<1>11. kept \subseteq kept' /\ \A q \in Roots : q \notin kept' => memory'[q] = memory[q]
  BY <1>3, <1>5, Zenon
<1>12. Durable' /\ CommittedTogether'
  BY <1>1, <1>3, <1>11, DurableKept, TogetherKept, Zenon
<1>13. ASSUME NEW q \in Roots
       PROVE  /\ memory'[q] = None <=> record'[q] = None
              /\ committedEventSeq(q)' <= latestEventSeq(EventsOf(q))'
              /\ latestEventSeq(EventsOf(q))' <= nextSeq'
  <2>1. /\ memory[q] = None <=> record[q] = None
        /\ committedEventSeq(q) <= latestEventSeq(EventsOf(q))
        /\ latestEventSeq(EventsOf(q)) <= nextSeq
    BY <1>1, <1>6, Zenon DEF Numbered
  <2>2. committedEventSeq(q)' = committedEventSeq(q) /\ record'[q] = record[q]
    BY SameFilesLoad, Zenon DEF SameFiles
  <2>3. committedEventSeq(q) \in Nat /\ latestEventSeq(EventsOf(q)) \in Nat
    BY <1>1, MarkerType, EventsType, LatestType, TaskStoreAssumption
  <2>4. CASE saving.kind = "in place" /\ q = r
    <3>1. memory'[q] = saving.next /\ memory[q] # None /\ saving.next # None
      BY <1>1, <1>2, <1>5, <2>4, TaskStoreAssumption, Zenon DEF SavesNext
    <3>2. EventsOf(q)' = EventsOf(q) \o saving.new
      BY <1>1, <2>4, <3>1, Zenon DEF SavesNext, EventsOf
    <3>3. EventsOf(q) \in Seq(Nat) /\ saving.new \in Seq(Nat)
      BY <1>1, EventsType, NewType, Zenon
    <3>4. latestEventSeq(EventsOf(q))' =
            IF saving.new = <<>> THEN latestEventSeq(EventsOf(q)) ELSE saving.new[Len(saving.new)]
      <4>1. latestEventSeq(EventsOf(q))' = latestEventSeq(EventsOf(q) \o saving.new)
        BY <3>2 DEF latestEventSeq
      <4> QED
        BY <3>3, <4>1, LatestOfConcat, Zenon
    <3>5. saving.new # <<>> => saving.new[Len(saving.new)] = nextSeq + Len(saving.new)
      BY <1>1, LastNew, Zenon
    <3>6. nextSeq' = nextSeq + Len(saving.new)
      BY <1>3, <2>4, Zenon
    <3> QED
      BY <1>2, <1>4, <2>1, <2>2, <2>3, <3>1, <3>4, <3>5, <3>6
  <2>5. CASE ~ (saving.kind = "in place" /\ q = r)
    <3>1. memory'[q] = memory[q]
      BY <1>5, <2>5, Zenon
    <3>2. latestEventSeq(EventsOf(q))' = latestEventSeq(EventsOf(q))
      BY <3>1, Zenon DEF latestEventSeq, EventsOf
    <3> QED
      BY <1>4, <1>7, <2>1, <2>2, <2>3, <3>1, <3>2
  <2> QED
    BY <2>4, <2>5, Zenon
<1>14. Numbered'
  BY <1>13, Zenon DEF Numbered
<1> QED
  BY <1>8, <1>9, <1>10, <1>12, <1>14, Zenon DEF IInv

(* What a commit writes, and what the files yield after it: the events that *)
(* were committed before and the new ones.                                  *)
LEMMA CommitFiles ==
  ASSUME IInv, Commit
  PROVE  /\ saving # None /\ journal' = journal
         /\ record' \in [Roots -> Record \union {None}]
         /\ record'[saving.root] =
              [status |-> saving.next.status, changes |-> saving.next.changes,
               eventSeq |-> latestEventSeq(saving.next.events)]
         /\ record'[saving.root] # None
         /\ \A q \in Roots : q # saving.root =>
              record'[q] = record[q] /\ CommittedEvents(q)' = CommittedEvents(q)
<1> DEFINE r == saving.root
           file == [status |-> saving.next.status, changes |-> saving.next.changes,
                    eventSeq |-> latestEventSeq(saving.next.events)]
<1>1. /\ TypeOK /\ saving # None /\ journal' = journal
      /\ record' = [record EXCEPT ![r] = file]
  BY Zenon DEF IInv, Commit
<1>2. r \in Roots /\ saving.next \in Task
  BY <1>1, SavingType, Zenon
<1>3. latestEventSeq(saving.next.events) \in 0..MaxSeq
  <2>1. saving.next.events \in Seq(1..MaxSeq)
    BY <1>2 DEF Task
  <2> QED
    BY <2>1, LatestType, TaskStoreAssumption
<1>4. file \in Record
  BY <1>2, <1>3 DEF Task, Record
<1>5. file # None
  BY <1>4, TaskStoreAssumption, Zenon
<1>6. record \in [Roots -> Record \union {None}]
  BY <1>1, Zenon DEF TypeOK
<1> HIDE DEF file
<1>7. /\ record' \in [Roots -> Record \union {None}] /\ record'[r] = file
      /\ \A q \in Roots : q # r => record'[q] = record[q]
  BY <1>1, <1>2, <1>4, <1>6
<1>8. ASSUME NEW q \in Roots, q # r PROVE CommittedEvents(q)' = CommittedEvents(q)
  BY <1>1, <1>7, <1>8, Zenon DEF CommittedEvents, committedEventSeq
<1> QED
  BY <1>1, <1>5, <1>7, <1>8, Zenon DEF file

LEMMA CommitEvents ==
  ASSUME IInv, Commit, NEW r \in Roots, r = saving.root
  PROVE  /\ committedEventSeq(r)' = latestEventSeq(saving.next.events)
         /\ CommittedEvents(r)' = CommittedEvents(r) \o saving.new
         /\ latestEventSeq(saving.next.events) =
              IF saving.new = <<>> THEN latestEventSeq(EventsOf(r)) ELSE nextSeq + Len(saving.new)
<1>1. /\ TypeOK /\ Numbered /\ SavesNext /\ JournalAtStep /\ saving # None /\ service = "up"
  BY Zenon DEF IInv, Commit, SavesNext
<1>2. journal' = journal /\ record'[r].eventSeq = latestEventSeq(saving.next.events) /\ record'[r] # None
  BY CommitFiles
<1>3. committedEventSeq(r)' = latestEventSeq(saving.next.events)
  BY <1>2, Zenon DEF committedEventSeq
<1>4. journal[r] = CommittedEvents(r) \o saving.new
  BY <1>1, Zenon DEF JournalAtStep, Commit
<1>5. saving.next.events = EventsOf(r) \o saving.new
  BY <1>1, Zenon DEF SavesNext
<1>6. EventsOf(r) \in Seq(Nat) /\ saving.new \in Seq(Nat) /\ journal[r] \in Seq(Nat)
  BY <1>1, EventsType, NewType, JournalType, Zenon
<1> DEFINE marker == latestEventSeq(saving.next.events)
<1>7. marker = IF saving.new = <<>> THEN latestEventSeq(EventsOf(r)) ELSE saving.new[Len(saving.new)]
  BY <1>5, <1>6, LatestOfConcat, Zenon
<1>8. /\ committedEventSeq(r) <= latestEventSeq(EventsOf(r))
      /\ latestEventSeq(EventsOf(r)) <= nextSeq
  BY <1>1, Zenon DEF Numbered
<1>9. committedEventSeq(r) \in Nat
  BY <1>1, MarkerType, TaskStoreAssumption
<1>10. latestEventSeq(EventsOf(r)) \in Nat
  BY <1>1, EventsType, LatestType, TaskStoreAssumption
<1>11. nextSeq \in Nat
  <2>1. nextSeq \in 0..MaxSeq
    BY <1>1, Zenon DEF TypeOK
  <2> QED
    BY <2>1, TaskStoreAssumption
<1>12. \A i \in 1..Len(saving.new) : saving.new[i] = nextSeq + i
  BY <1>1, Zenon DEF SavesNext
<1> HIDE DEF marker
<1>13. Committed(CommittedEvents(r) \o saving.new, marker) = CommittedEvents(r) \o saving.new
  <2>1. Len(saving.new) \in Nat /\ (saving.new = <<>> <=> Len(saving.new) = 0)
    BY <1>6
  <2>2. saving.new # <<>> => saving.new[Len(saving.new)] = nextSeq + Len(saving.new)
    BY <1>1, LastNew, Zenon
  <2>3. marker = IF Len(saving.new) = 0 THEN latestEventSeq(EventsOf(r)) ELSE nextSeq + Len(saving.new)
    BY <1>7, <2>1, <2>2, Zenon
  <2>4. /\ marker \in Nat /\ committedEventSeq(r) <= marker
        /\ saving.new # <<>> => committedEventSeq(r) < marker
    BY <1>8, <1>9, <1>10, <1>11, <2>1, <2>3
  <2>5. \A i \in 1..Len(saving.new) :
          saving.new[i] \in 1..marker /\ (i < Len(saving.new) => saving.new[i] < marker)
    BY <1>11, <1>12, <2>1, <2>3
  <2>6. Follows(saving.new, committedEventSeq(r), marker)
    BY <2>4, <2>5, Zenon DEF Follows
  <2>7. Committed(Committed(journal[r], committedEventSeq(r)) \o saving.new, marker)
          = Committed(journal[r], committedEventSeq(r)) \o saving.new
    BY <1>6, <1>9, <2>4, <2>6, CommittedAfterCommit, Zenon
  <2> QED
    BY <2>7, Zenon DEF CommittedEvents
<1>14. CommittedEvents(r)' = CommittedEvents(r) \o saving.new
  <2>1. CommittedEvents(r)' = Committed(journal'[r], committedEventSeq(r)')
    BY Zenon DEF CommittedEvents
  <2> QED
    BY <1>2, <1>3, <1>4, <1>13, <2>1, Zenon DEF marker
<1>15. saving.new # <<>> => saving.new[Len(saving.new)] = nextSeq + Len(saving.new)
  BY <1>1, LastNew, Zenon
<1> QED
  BY <1>3, <1>7, <1>14, <1>15, Zenon DEF marker

(* The two files of the task agree after the commit, and memory with them. *)
LEMMA CommitAgrees ==
  ASSUME IInv, Commit
  PROVE  Durable' /\ CommittedTogether'
<1> DEFINE new == saving.new
<1>1. /\ TypeOK /\ Durable /\ CommittedTogether /\ SavesNext
      /\ JournalAtStep /\ saving # None /\ service = "up"
  BY Zenon DEF IInv, Commit, SavesNext
<1>2. PICK r \in Roots : r = saving.root
  BY <1>1, SavingType, Zenon
<1>3. /\ saving.next \in Task /\ new \in Seq(Nat)
  BY <1>1, SavingType, NewType, Zenon
<1>4. memory' = [memory EXCEPT ![r] = saving.next] /\ kept' = kept
  BY <1>2, Zenon DEF Commit, EndSave, Publishes
<1>5. \A q \in Roots : memory'[q] = IF q = r THEN saving.next ELSE memory[q]
  <2>1. memory \in [Roots -> Task \union {None}]
    BY <1>1, Zenon DEF TypeOK
  <2> QED
    BY <1>3, <1>4, <2>1
<1>6. /\ record'[r] = [status |-> saving.next.status, changes |-> saving.next.changes,
                        eventSeq |-> latestEventSeq(saving.next.events)]
      /\ record'[r] # None
      /\ \A q \in Roots : q # r =>
           record'[q] = record[q] /\ CommittedEvents(q)' = CommittedEvents(q)
  BY <1>2, CommitFiles, Zenon
<1>7. /\ committedEventSeq(r)' = latestEventSeq(saving.next.events)
      /\ CommittedEvents(r)' = CommittedEvents(r) \o new
  BY <1>2, CommitEvents, Zenon
<1>8. /\ saving.next.events = EventsOf(r) \o new
      /\ saving.next.changes = ChangesOf(r) \union Range(new)
  BY <1>1, <1>2, Zenon DEF SavesNext
<1>9. record'[r].changes = saving.next.changes /\ record'[r].status = saving.next.status
  BY <1>6
<1>10. ASSUME r \notin kept PROVE EventsOf(r) = CommittedEvents(r) /\ ChangesOf(r) = Range(CommittedEvents(r))
  <2>1. memory[r] = Loaded(r) /\ (record[r] # None => record[r].changes = Range(CommittedEvents(r)))
    BY <1>1, <1>10, Zenon DEF Durable, CommittedTogether
  <2>2. CASE record[r] = None
    <3>1. memory[r] = None /\ committedEventSeq(r) = 0
      BY <2>1, <2>2, Zenon DEF Loaded, committedEventSeq
    <3>2. CommittedEvents(r) = <<>>
      <4>1. CommittedEvents(r) \in Seq(Nat) /\ journal[r] \in Seq(Nat)
        BY <1>1, CommittedType, JournalType, Zenon
      <4>2. \A i \in 1..Len(CommittedEvents(r)) : CommittedEvents(r)[i] \in 1..0
        BY <3>1, <4>1, CommittedNumbers DEF CommittedEvents
      <4> QED
        BY <4>1, <4>2
    <3>3. Range(<<>>) = {}
      BY DEF Range
    <3> QED
      BY <3>1, <3>2, <3>3, Zenon DEF EventsOf, ChangesOf
  <2>3. CASE record[r] # None
    <3>1. memory[r] = [status |-> record[r].status, changes |-> record[r].changes,
                       events |-> CommittedEvents(r)]
      BY <2>1, <2>3, Zenon DEF Loaded
    <3>2. memory[r].events = CommittedEvents(r) /\ memory[r].changes = record[r].changes
      BY <3>1
    <3>3. memory[r] # None
      BY <1>1, <2>3, Zenon DEF IInv, Numbered
    <3> QED
      BY <2>1, <2>3, <3>2, <3>3, Zenon DEF EventsOf, ChangesOf
  <2> QED
    BY <2>2, <2>3
<1>11. CommittedEvents(r) \in Seq(Nat)
  BY <1>1, CommittedType, Zenon
<1>12. Durable'
  <2> SUFFICES ASSUME NEW q \in Roots, q \notin kept PROVE memory'[q] = Loaded(q)'
    BY <1>4, Zenon DEF Durable
  <2>1. CASE q = r
    <3>1. Loaded(q)' = [status |-> saving.next.status, changes |-> saving.next.changes,
                        events |-> saving.next.events]
      BY <1>6, <1>7, <1>8, <1>9, <1>10, <2>1, Zenon DEF Loaded
    <3>2. saving.next = [status |-> saving.next.status, changes |-> saving.next.changes,
                         events |-> saving.next.events]
      BY <1>3 DEF Task
    <3> QED
      BY <1>5, <2>1, <3>1, <3>2, Zenon
  <2>2. CASE q # r
    BY <1>1, <1>5, <1>6, <2>2, Zenon DEF Durable, Loaded
  <2> QED
    BY <2>1, <2>2
<1>13. CommittedTogether'
  <2> SUFFICES ASSUME NEW q \in Roots, q \notin kept, record'[q] # None
               PROVE  Loadable(q)' /\ record'[q].changes = Range(CommittedEvents(q)')
    BY <1>4, Zenon DEF CommittedTogether
  <2>1. CASE q = r
    <3>1. CommittedEvents(q)' = saving.next.events
      BY <1>7, <1>8, <1>10, <2>1, Zenon
    <3>2. record'[q].changes = Range(saving.next.events)
      <4>1. Range(CommittedEvents(r) \o new) = Range(CommittedEvents(r)) \union Range(new)
        BY <1>3, <1>11, RangeConcatenation
      <4> QED
        BY <1>8, <1>9, <1>10, <2>1, <4>1, Zenon
    <3>3. Reaches(q)'
      <4>1. saving.next.events # <<>> => latestEventSeq(saving.next.events) \in Range(saving.next.events)
        <5>1. saving.next.events \in Seq(1..MaxSeq)
          BY <1>3 DEF Task
        <5> QED
          BY <5>1 DEF latestEventSeq, Range
      <4>2. saving.next.events = <<>> => latestEventSeq(saving.next.events) = 0
        BY DEF latestEventSeq
      <4> QED
        BY <1>7, <2>1, <3>1, <4>1, <4>2, Zenon DEF Reaches
    <3> QED
      BY <3>1, <3>2, <3>3, Zenon DEF Loadable, Readable, Reaches, committedEventSeq, CommittedEvents
  <2>2. CASE q # r
    <3>1. record'[q] = record[q] /\ CommittedEvents(q)' = CommittedEvents(q)
      BY <1>6, <2>2, Zenon
    <3>2. Loadable(q) /\ record[q].changes = Range(CommittedEvents(q))
      BY <1>1, <3>1, Zenon DEF CommittedTogether
    <3>3. journal' = journal
      BY CommitFiles, Zenon
    <3> QED
      BY <3>1, <3>2, <3>3, Zenon DEF Loadable
  <2> QED
    BY <2>1, <2>2
<1> QED
  BY <1>12, <1>13

LEMMA CommitPreserves ==
  ASSUME IInv, Commit
  PROVE  IInv'
<1> DEFINE new == saving.new
<1>1. /\ TypeOK /\ Numbered /\ Delivered /\ Durable /\ CommittedTogether /\ SavesNext
      /\ JournalAtStep /\ saving # None /\ service = "up"
  BY Zenon DEF IInv, Commit, SavesNext
<1>r. PICK r \in Roots : r = saving.root
  BY <1>1, SavingType, Zenon
<1>2. /\ saving.next \in Task /\ Len(new) \in Nat
      /\ saving.next # None
  BY <1>1, SavingType, NewType, TaskStoreAssumption, Zenon
<1>3. /\ memory' = [memory EXCEPT ![r] = saving.next]
      /\ nextSeq' = nextSeq + Len(new)
      /\ delivering' = IF saving.kind = "create" /\ r \in AgentTasks
                       THEN delivering \union {r} ELSE delivering
      /\ kept' = kept /\ saving' = None /\ service' = service
  BY <1>r, Zenon DEF Commit, EndSave, Publishes, ConsumesSeq
<1>4. /\ memory \in [Roots -> Task \union {None}] /\ nextSeq \in 0..MaxSeq
      /\ delivering \subseteq AgentTasks
  BY <1>1, Zenon DEF TypeOK
<1>5. /\ memory' \in [Roots -> Task \union {None}]
      /\ \A q \in Roots : memory'[q] = IF q = r THEN saving.next ELSE memory[q]
  BY <1>2, <1>3, <1>4
<1>6. nextSeq + Len(new) <= MaxSeq
  BY <1>1, Zenon DEF SavesNext
<1>7. nextSeq' \in 0..MaxSeq /\ nextSeq' >= nextSeq
  BY <1>2, <1>3, <1>4, <1>6, TaskStoreAssumption
<1>8. TypeOK'
  <2>1. delivering' \subseteq AgentTasks
    BY <1>3, <1>4, Zenon
  <2>2. record' \in [Roots -> Record \union {None}] /\ journal' = journal
    BY CommitFiles, Zenon
  <2> QED
    BY <1>1, <1>3, <1>5, <1>7, <2>1, <2>2, Zenon DEF TypeOK
<1>9. SavesNext' /\ JournalAtStep'
  BY <1>3, Zenon DEF SavesNext, JournalAtStep
<1>10. Delivered'
  <2> SUFFICES ASSUME NEW q \in delivering' PROVE memory'[q] # None
    BY <1>1, <1>3, Zenon DEF Delivered
  <2>1. q = r \/ (q \in Roots /\ memory[q] # None)
    BY <1>1, <1>3, <1>4, Zenon DEF Delivered, Roots
  <2> QED
    BY <1>2, <1>5, <2>1, Zenon
<1>11. /\ record'[r] = [status |-> saving.next.status, changes |-> saving.next.changes,
                         eventSeq |-> latestEventSeq(saving.next.events)]
       /\ record'[r] # None
       /\ \A q \in Roots : q # r =>
            record'[q] = record[q] /\ CommittedEvents(q)' = CommittedEvents(q)
  BY <1>r, CommitFiles, Zenon
<1>12. /\ committedEventSeq(r)' = latestEventSeq(saving.next.events)
       /\ CommittedEvents(r)' = CommittedEvents(r) \o new
       /\ latestEventSeq(saving.next.events) =
            IF new = <<>> THEN latestEventSeq(EventsOf(r)) ELSE nextSeq + Len(new)
  BY <1>r, CommitEvents, Zenon
<1>13. /\ saving.next.events = EventsOf(r) \o new
       /\ saving.next.changes = ChangesOf(r) \union Range(new)
  BY <1>1, <1>r, Zenon DEF SavesNext
<1>14. EventsOf(r)' = saving.next.events
  BY <1>2, <1>5, Zenon DEF EventsOf
<1>15. ASSUME NEW q \in Roots
       PROVE  /\ memory'[q] = None <=> record'[q] = None
              /\ committedEventSeq(q)' <= latestEventSeq(EventsOf(q))'
              /\ latestEventSeq(EventsOf(q))' <= nextSeq'
  <2>1. /\ memory[q] = None <=> record[q] = None
        /\ committedEventSeq(q) <= latestEventSeq(EventsOf(q))
        /\ latestEventSeq(EventsOf(q)) <= nextSeq
    BY <1>1, Zenon DEF Numbered
  <2>2. committedEventSeq(q) \in Nat /\ latestEventSeq(EventsOf(q)) \in Nat
    BY <1>1, MarkerType, EventsType, LatestType, TaskStoreAssumption
  <2>3. CASE q = r
    <3>1. memory'[q] # None /\ record'[q] # None
      BY <1>2, <1>5, <1>11, <2>3, Zenon
    <3>2. latestEventSeq(EventsOf(q))' = latestEventSeq(saving.next.events)
      BY <1>14, <2>3, Zenon DEF latestEventSeq
    <3>3. committedEventSeq(q)' = latestEventSeq(saving.next.events)
      BY <1>12, <2>3, Zenon
    <3>4. /\ latestEventSeq(saving.next.events) \in Nat
          /\ latestEventSeq(saving.next.events) <= nextSeq + Len(new)
      BY <1>2, <1>4, <1>12, <2>1, <2>2, <2>3
    <3> QED
      BY <1>3, <3>1, <3>2, <3>3, <3>4
  <2>4. CASE q # r
    <3>1. memory'[q] = memory[q] /\ record'[q] = record[q]
      BY <1>5, <1>11, <2>4, Zenon
    <3>2. latestEventSeq(EventsOf(q))' = latestEventSeq(EventsOf(q))
      BY <3>1, Zenon DEF latestEventSeq, EventsOf
    <3>3. committedEventSeq(q)' = committedEventSeq(q)
      BY <3>1, Zenon DEF committedEventSeq
    <3> QED
      BY <1>4, <1>7, <2>1, <2>2, <3>1, <3>2, <3>3
  <2> QED
    BY <2>3, <2>4, Zenon
<1>16. Numbered'
  BY <1>15, Zenon DEF Numbered
<1>17. Durable' /\ CommittedTogether'
  BY CommitAgrees, Zenon
<1> QED
  BY <1>8, <1>9, <1>10, <1>16, <1>17, Zenon DEF IInv

(* A crash empties memory; what it leaves in the journal is not committed. *)
LEMMA CrashPreserves ==
  ASSUME IInv, Crash
  PROVE  IInv' /\ SameFiles
<1>1. /\ TypeOK /\ Numbered /\ SavesNext /\ CommittedTogether
  BY Zenon DEF IInv
<1>2. /\ memory' = [r \in Roots |-> None] /\ nextSeq' = 0 /\ saving' = None /\ delivering' = {}
      /\ service' = "down" /\ kept' = kept /\ record' = record
      /\ (saving # None /\ PartialAppend) \/ journal' = journal
  BY Zenon DEF Crash
<1>3. SameFiles /\ JournalTyped
  BY <1>1, <1>2, CutShortJournal, FilesUntouched, Zenon
<1>4. memory' \in [Roots -> Task \union {None}] /\ nextSeq' \in 0..MaxSeq
  BY <1>2, TaskStoreAssumption
<1>5. service' \in {"up", "down", "panicked"} /\ service' # "up"
  BY <1>2
<1>6. TypeOK'
  BY <1>1, <1>2, <1>3, <1>4, <1>5, Zenon DEF TypeOK, JournalTyped
<1>7. SavesNext' /\ JournalAtStep' /\ Delivered' /\ Numbered' /\ Durable'
  BY <1>2, <1>5, Zenon DEF SavesNext, JournalAtStep, Delivered, Numbered, Durable
<1>8. CommittedTogether'
  BY <1>1, <1>2, <1>3, TogetherKept, Zenon
<1> QED
  BY <1>3, <1>6, <1>7, <1>8, Zenon DEF IInv

LEMMA CommittedInRange ==
  ASSUME TypeOK, NEW r \in Roots
  PROVE  /\ CommittedEvents(r) \in Seq(1..MaxSeq)
         /\ Range(CommittedEvents(r)) \in SUBSET (1..MaxSeq)
         /\ latestEventSeq(CommittedEvents(r)) \in {0} \union Range(CommittedEvents(r))
<1> DEFINE C == CommittedEvents(r)
<1>1. committedEventSeq(r) \in 0..MaxSeq /\ committedEventSeq(r) \in Nat /\ MaxSeq \in Nat
  BY MarkerType, TaskStoreAssumption
<1>2. journal[r] \in Seq(Nat)
  BY JournalType, Zenon
<1>3. C \in Seq(Nat) /\ Len(C) \in Nat /\ \A i \in 1..Len(C) : C[i] \in 1..committedEventSeq(r)
  BY <1>1, <1>2, CommittedNumbers, Zenon DEF CommittedEvents
<1> HIDE DEF C
<1>4. \A i \in 1..Len(C) : C[i] \in 1..MaxSeq
  BY <1>1, <1>3
<1>5. Range(C) \in SUBSET (1..MaxSeq)
  BY <1>3, <1>4 DEF Range
<1>6. C \in Seq(1..MaxSeq)
  <2>1. C \in Seq(Range(C))
    BY <1>3, SeqOfRange, Zenon
  <2>2. Range(C) \subseteq 1..MaxSeq
    BY <1>5, Zenon
  <2> QED
    BY <2>1, <2>2, SeqMonotonic, Zenon
<1>7. latestEventSeq(C) \in {0} \union Range(C)
  BY <1>3 DEF latestEventSeq, Range
<1> QED
  BY <1>5, <1>6, <1>7, Zenon DEF C

(* A restart hands out numbers beyond every marker. *)
LEMMA RestartPreserves ==
  ASSUME IInv, Restart
  PROVE  IInv' /\ SameFiles
<1>1. /\ TypeOK /\ SavesNext /\ Delivered /\ CommittedTogether
  BY Zenon DEF IInv
<1>2. /\ service = "down" /\ record' = record /\ journal' = journal /\ saving' = saving
      /\ delivering' = delivering /\ kept' = kept
  BY Zenon DEF Restart
<1>3. SameFiles /\ JournalTyped
  BY <1>1, <1>2, FilesUntouched, Zenon
<1>4. saving' = None /\ delivering' = {}
  BY <1>1, <1>2, Zenon DEF SavesNext, Delivered
<1>5. SavesNext' /\ JournalAtStep' /\ Delivered'
  BY <1>4, Zenon DEF SavesNext, JournalAtStep, Delivered
<1>6. CommittedTogether'
  BY <1>1, <1>2, <1>3, TogetherKept, Zenon
<1>7. CASE ~ \A r \in Roots : Loadable(r)
  <2>1. service' = "panicked" /\ memory' = memory /\ nextSeq' = nextSeq
    BY <1>7, Zenon DEF Restart
  <2>2. service' # "up" /\ service' \in {"up", "down", "panicked"}
    BY <2>1
  <2>3. TypeOK'
    BY <1>1, <1>2, <2>1, <2>2, Zenon DEF TypeOK
  <2>4. Numbered' /\ Durable'
    BY <2>2, Zenon DEF Numbered, Durable
  <2> QED
    BY <1>3, <1>5, <1>6, <2>3, <2>4, Zenon DEF IInv
<1>8. CASE \A r \in Roots : Loadable(r)
  <2> DEFINE S == {0} \union UNION {Range(CommittedEvents(r)) : r \in Roots}
  <2>1. service' = "up" /\ memory' = [r \in Roots |-> Loaded(r)] /\ nextSeq' = Max(S)
    BY <1>8, Zenon DEF Restart
  <2>2. \A r \in Roots : Range(CommittedEvents(r)) \in SUBSET (1..MaxSeq)
    BY <1>1, CommittedInRange, Zenon
  <2>3. S \in SUBSET Nat /\ S # {} /\ \A x \in S : x \in 0..MaxSeq /\ x <= MaxSeq
    BY <2>2, TaskStoreAssumption
  <2>4. nextSeq' \in S /\ \A y \in S : y <= nextSeq'
    <3> HIDE DEF S
    <3> QED
      BY <2>1, <2>3, MaxIsGreatest, TaskStoreAssumption
  <2>5. nextSeq' \in 0..MaxSeq
    BY <2>3, <2>4, Zenon
  <2>6. ASSUME NEW r \in Roots
        PROVE  /\ memory'[r] \in Task \union {None} /\ memory'[r] = Loaded(r)
               /\ memory'[r] = None <=> record[r] = None
               /\ record[r] # None => memory'[r].events = CommittedEvents(r)
    <3>1. memory'[r] = Loaded(r)
      BY <2>1, Zenon
    <3>2. CASE record[r] = None
      BY <3>1, <3>2, Zenon DEF Loaded
    <3>3. CASE record[r] # None
      <4>1. memory'[r] = [status |-> record[r].status, changes |-> record[r].changes,
                          events |-> CommittedEvents(r)]
        BY <3>1, <3>3, Zenon DEF Loaded
      <4>2. record[r] \in Record
        BY <1>1, <3>3, Zenon DEF TypeOK
      <4>3. CommittedEvents(r) \in Seq(1..MaxSeq)
        BY <1>1, CommittedInRange, Zenon
      <4>4. memory'[r] \in Task /\ memory'[r].events = CommittedEvents(r)
        BY <4>1, <4>2, <4>3 DEF Task, Record
      <4> QED
        BY <3>1, <3>3, <4>4, TaskStoreAssumption, Zenon
    <3> QED
      BY <3>2, <3>3
  <2>7. TypeOK'
    <3>1. memory' \in [Roots -> Task \union {None}]
      BY <2>1, <2>6
    <3>2. service' \in {"up", "down", "panicked"}
      BY <2>1
    <3> QED
      BY <1>1, <1>2, <2>5, <3>1, <3>2, Zenon DEF TypeOK
  <2>8. Durable'
    BY <1>3, <2>6, SameFilesLoad, Zenon DEF Durable
  <2>9. ASSUME NEW r \in Roots
        PROVE  /\ memory'[r] = None <=> record'[r] = None
               /\ committedEventSeq(r)' <= latestEventSeq(EventsOf(r))'
               /\ latestEventSeq(EventsOf(r))' <= nextSeq'
    <3>1. committedEventSeq(r)' = committedEventSeq(r)
      BY <1>3, SameFilesLoad, Zenon
    <3>2. latestEventSeq(CommittedEvents(r)) = committedEventSeq(r)
      BY <1>1, <1>8, LoadableReaches, ReachesLatest, Zenon
    <3>3. latestEventSeq(CommittedEvents(r)) \in S
      BY <1>1, CommittedInRange, Zenon
    <3>4. CASE record[r] = None
      <4>1. EventsOf(r)' = <<>> /\ committedEventSeq(r) = 0
        BY <2>6, <3>4, Zenon DEF EventsOf, committedEventSeq
      <4>2. latestEventSeq(EventsOf(r))' = 0
        BY <4>1, Zenon DEF latestEventSeq
      <4> QED
        BY <1>2, <2>5, <2>6, <3>1, <4>1, <4>2, TaskStoreAssumption
    <3>5. CASE record[r] # None
      <4>1. EventsOf(r)' = CommittedEvents(r)
        BY <2>6, <3>5, Zenon DEF EventsOf
      <4>2. latestEventSeq(EventsOf(r))' = committedEventSeq(r)
        BY <3>2, <4>1, Zenon DEF latestEventSeq
      <4>3. committedEventSeq(r) <= nextSeq'
        BY <2>4, <3>2, <3>3, Zenon
      <4>4. committedEventSeq(r) \in Nat
        BY <1>1, MarkerType, TaskStoreAssumption
      <4> QED
        BY <1>2, <2>6, <3>1, <4>2, <4>3, <4>4
    <3> QED
      BY <3>4, <3>5
  <2>10. Numbered'
    BY <2>9, Zenon DEF Numbered
  <2> QED
    BY <1>3, <1>5, <1>6, <2>7, <2>8, <2>10, Zenon DEF IInv
<1> QED
  BY <1>7, <1>8

-----------------------------------------------------------------------------
(* The steps of a save. *)
LEMMA RepairPreserves ==
  ASSUME IInv, RepairTail \/ RepairFails
  PROVE  IInv' /\ SameFiles
<1>1. /\ TypeOK /\ saving # None /\ record' = record
  BY Zenon DEF IInv, RepairTail, RepairFails
<1>2. PICK r \in Roots : r = saving.root
  BY <1>1, SavingType, Zenon
<1>3. CASE EndSave(FALSE) /\ journal' = journal
  BY <1>1, <1>3, FilesUntouched, FailurePreserves, Zenon
<1>4. CASE /\ Readable(journal[r], committedEventSeq(r)) /\ Goto("append")
           /\ journal' = [journal EXCEPT ![r] = Repaired(r)]
  <2>1. journal' = [journal EXCEPT ![r] = CommittedEvents(r)]
    BY <1>4, Zenon DEF Repaired
  <2>2. SameFiles /\ JournalTyped
    BY <1>1, <2>1, RepairedJournal, Zenon
  <2>3. journal'[r] = CommittedEvents(r)
    BY <1>1, <2>1, Zenon DEF TypeOK
  <2>4. Reaches(r)
    BY <1>4, LoadableReaches, Zenon
  <2>5. "append" \in {"append", "commit"} /\ "append" # "commit"
    OBVIOUS
  <2> QED
    BY <1>1, <1>2, <1>4, <2>2, <2>3, <2>4, <2>5, GotoPreserves, Zenon
<1> QED
  BY <1>2, <1>3, <1>4, Zenon DEF RepairTail, RepairFails

LEMMA AppendPreserves ==
  ASSUME IInv, appendEvents \/ AppendFails
  PROVE  IInv' /\ SameFiles
<1>1. /\ TypeOK /\ Numbered /\ SavesNext /\ JournalAtStep /\ saving # None /\ record' = record
      /\ saving.step = "append"
  BY Zenon DEF IInv, appendEvents, AppendFails
<1>2. PICK r \in Roots : r = saving.root
  BY <1>1, SavingType, Zenon
<1>3. CASE AppendFails
  BY <1>1, <1>3, CutShortJournal, FailurePreserves, Zenon DEF AppendFails
<1>4. CASE appendEvents
  <2>1. journal' = [journal EXCEPT ![saving.root] = @ \o saving.new] /\ Goto("commit")
    BY <1>4, Zenon DEF appendEvents
  <2>2. SameFiles /\ JournalTyped
    BY <1>1, <2>1, AppendedJournal, Zenon
  <2>3. saving.step # "repair" /\ "commit" \in {"append", "commit"} /\ "append" # "commit"
    BY <1>1
  <2>4. journal[r] = CommittedEvents(r) /\ Reaches(r)
    BY <1>1, <1>2, <2>3, Zenon DEF JournalAtStep
  <2>5. journal'[r] = CommittedEvents(r) \o saving.new
    BY <1>1, <1>2, <2>1, <2>4, Zenon DEF TypeOK
  <2> QED
    BY <1>1, <1>2, <2>1, <2>2, <2>3, <2>4, <2>5, GotoPreserves, Zenon
<1> QED
  BY <1>3, <1>4

LEMMA CommitFailsPreserves ==
  ASSUME IInv, CommitFails
  PROVE  IInv' /\ SameFiles
<1>1. /\ TypeOK /\ saving # None /\ record' = record /\ EndSave(FALSE)
  BY Zenon DEF IInv, CommitFails
<1>2. PICK r \in Roots : r = saving.root
  BY <1>1, SavingType, Zenon
<1>3. journal' = [journal EXCEPT ![r] = CommittedEvents(r)] \/ journal' = journal
  BY <1>2, Zenon DEF CommitFails, Repaired
<1>4. SameFiles /\ JournalTyped
  BY <1>1, <1>3, RepairedJournal, FilesUntouched, Zenon
<1> QED
  BY <1>1, <1>4, FailurePreserves, Zenon

LEMMA OperationFiles ==
  ASSUME NEW r \in Roots,
         \/ CreateRoot(r) \/ ChangeInPlace(r) \/ CancelAgentTask(r)
         \/ MarkFailed(r) \/ \E n \in 0..2 : MutateRoom(r, n)
  PROVE  record' = record /\ journal' = journal
BY Zenon DEF CreateRoot, ChangeInPlace, CancelAgentTask, MarkFailed, MutateRoom, Save

(* Deliver, and a step that changes nothing. *)
LEMMA IdlePreserves ==
  ASSUME IInv, delivering' \subseteq delivering,
         UNCHANGED <<memory, nextSeq, record, journal, saving, kept, service>>
  PROVE  IInv' /\ SameFiles
<1>1. /\ TypeOK /\ Numbered /\ Delivered /\ SavesNext /\ JournalAtStep
      /\ Durable /\ CommittedTogether
  BY Zenon DEF IInv
<1>2. SameFiles
  BY <1>1, FilesUntouched, Zenon
<1>3. TypeOK' /\ Delivered'
  BY <1>1, Zenon DEF TypeOK, Delivered
<1>4. SavesNext'
  BY <1>1, Zenon DEF SavesNext, EventsOf, ChangesOf
<1>5. JournalAtStep'
  BY <1>1, Zenon DEF JournalAtStep, Reaches, CommittedEvents, committedEventSeq
<1>6. Numbered' /\ Durable' /\ CommittedTogether'
  BY <1>1, <1>2, NumberedKept, DurableKept, TogetherKept, Zenon
<1> QED
  BY <1>2, <1>3, <1>4, <1>5, <1>6, Zenon DEF IInv

-----------------------------------------------------------------------------
LEMMA InitInv == Init => IInv
<1> SUFFICES ASSUME Init PROVE IInv
  OBVIOUS
<1>1. /\ \A r \in Roots : memory[r] = None /\ record[r] = None
      /\ saving = None /\ delivering = {} /\ nextSeq = 0
  BY Zenon DEF Init
<1>2. TypeOK
  BY TaskStoreAssumption DEF Init, TypeOK
<1>3. Numbered
  <2> SUFFICES ASSUME NEW r \in Roots
               PROVE  /\ memory[r] = None <=> record[r] = None
                      /\ committedEventSeq(r) <= latestEventSeq(EventsOf(r))
                      /\ latestEventSeq(EventsOf(r)) <= nextSeq
    BY Zenon DEF Numbered
  <2>1. committedEventSeq(r) = 0 /\ latestEventSeq(EventsOf(r)) = 0
    BY <1>1, Zenon DEF committedEventSeq, latestEventSeq, EventsOf
  <2> QED
    BY <1>1, <2>1
<1>4. Delivered /\ SavesNext /\ JournalAtStep
  BY <1>1, Zenon DEF Delivered, SavesNext, JournalAtStep
<1>5. Durable /\ CommittedTogether
  BY <1>1, Zenon DEF Durable, CommittedTogether, Loaded
<1> QED
  BY <1>2, <1>3, <1>4, <1>5, Zenon DEF IInv

(* Every step preserves the invariant; every step but Commit leaves what    *)
(* the files yield alone.                                                   *)
LEMMA StepInv ==
  ASSUME IInv, [Next]_vars
  PROVE  IInv' /\ (SameFiles \/ Commit)
<1>1. CASE UNCHANGED vars
  BY <1>1, IdlePreserves, Zenon DEF vars
<1>2. ASSUME NEW r \in Roots, Deliver(r) PROVE IInv' /\ (SameFiles \/ Commit)
  BY <1>2, IdlePreserves, Zenon DEF Deliver
<1>3. ASSUME NEW r \in Roots,
             \/ CreateRoot(r) \/ ChangeInPlace(r) \/ CancelAgentTask(r)
             \/ MarkFailed(r) \/ \E n \in 0..2 : MutateRoom(r, n)
      PROVE  IInv' /\ (SameFiles \/ Commit)
  <2>1. IInv'
    BY <1>3, OperationsPreserve, Zenon
  <2>2. record' = record /\ journal' = journal /\ TypeOK
    BY <1>3, OperationFiles, Zenon DEF IInv
  <2> QED
    BY <2>1, <2>2, FilesUntouched, Zenon
<1>4. CASE RepairTail \/ RepairFails
  BY <1>4, RepairPreserves, Zenon
<1>5. CASE appendEvents \/ AppendFails
  BY <1>5, AppendPreserves, Zenon
<1>6. CASE Commit
  BY <1>6, CommitPreserves, Zenon
<1>7. CASE CommitFails
  BY <1>7, CommitFailsPreserves, Zenon
<1>8. CASE Crash
  BY <1>8, CrashPreserves, Zenon
<1>9. CASE Restart
  BY <1>9, RestartPreserves, Zenon
<1> QED
  BY <1>1, <1>2, <1>3, <1>4, <1>5, <1>6, <1>7, <1>8, <1>9, ZenonT(40) DEF Next

(* The inductive invariant holds in every state of the task repository. *)
THEOREM Invariance == Spec => []IInv
<1>1. IInv /\ [Next]_vars => IInv'
  BY StepInv, Zenon
<1> QED
  BY InitInv, <1>1, PTL DEF Spec

(* Memory, the two files and the save under way keep their types, and no    *)
(* number beyond MaxSeq is handed out.                                      *)
THEOREM TypeCorrect == Spec => []TypeOK
<1>1. IInv => TypeOK
  BY Zenon DEF IInv
<1> QED
  BY Invariance, <1>1, PTL

(* Whatever fails in a save, the two files of a task load and agree: the    *)
(* rename in writeJSONFileAtomic commits state and events together.         *)
THEOREM CommitIsAtomic == Spec => []CommittedTogether
<1>1. IInv => CommittedTogether
  BY Zenon DEF IInv
<1> QED
  BY Invariance, <1>1, PTL

(* Between operations, memory is what NewService would load: Mutate         *)
(* publishes only what it saved, CreateRoot takes back what it could not.   *)
THEOREM MemoryFollowsFiles == Spec => []MemoryIsDurable
<1>1. IInv => MemoryIsDurable
  BY Zenon DEF IInv, Durable, MemoryIsDurable
<1> QED
  BY Invariance, <1>1, PTL

(* No step of a save, no failure, crash or restart loses, rewrites or       *)
(* reorders committed events; a commit only adds the new ones.              *)
THEOREM HistoryOnlyGrows == Spec => HistoryGrows
<1> DEFINE Begins(r) == \E n \in 0..Len(CommittedEvents(r)') :
                          CommittedEvents(r) = SubSeq(CommittedEvents(r)', 1, n)
           Grows == \A r \in Roots : Begins(r)
<1>1. ASSUME IInv, [Next]_vars PROVE Grows
  <2> SUFFICES ASSUME NEW r \in Roots PROVE Begins(r)
    OBVIOUS
  <2>1. TypeOK /\ (SameFiles \/ Commit)
    BY <1>1, StepInv, Zenon DEF IInv
  <2>2. CommittedEvents(r) \in Seq(Nat)
    BY <2>1, CommittedType, Zenon
  <2>3. CASE CommittedEvents(r)' = CommittedEvents(r)
    BY <2>2, <2>3, PrefixOfItself, Zenon
  <2>4. CASE Commit /\ r = saving.root
    <3>1. saving.new \in Seq(Nat)
      BY <2>1, <2>4, NewType, Zenon DEF Commit
    <3>2. CommittedEvents(r)' = CommittedEvents(r) \o saving.new
      BY <1>1, <2>4, CommitEvents, Zenon
    <3> QED
      <4>1. \E n \in 0..Len(CommittedEvents(r) \o saving.new) :
              CommittedEvents(r) = SubSeq(CommittedEvents(r) \o saving.new, 1, n)
        BY <2>2, <3>1, PrefixOfConcat, Zenon
      <4> QED
        BY <3>2, <4>1
  <2>5. CASE Commit /\ r # saving.root
    BY <1>1, <2>3, <2>5, CommitFiles, Zenon
  <2> QED
    BY <2>1, <2>3, <2>4, <2>5, Zenon DEF SameFiles
<1>2. IInv /\ [Next]_vars => [Grows]_vars
  BY <1>1, Zenon
<1> QED
  BY Invariance, <1>2, PTL DEF Spec, HistoryGrows
=============================================================================
