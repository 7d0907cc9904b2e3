--------------------------- MODULE TurnEventsProofs ---------------------------
(***************************************************************************)
(* Proofs about TurnEvents, for any number of images, videos, outputs,     *)
(* progress events and delivery attempts.                                  *)
(***************************************************************************)
EXTENDS TurnEvents, TLAPS

(***************************************************************************)
(* The strengthening.  The emitter that hands an ordered event to the sink *)
(* is the holder of emitMu; the event is its own, the newest of the        *)
(* ordered ones delivered and, of a media task, the latest it recorded and *)
(* the one its phase reports.  A task that told the sink an outcome has    *)
(* ended.                                                                  *)
(***************************************************************************)
HoldsEmitMu == \A e \in Ordered : inFlight[e] # None <=> emitMu = e

Numbered ==
  /\ \A e \in Ordered : inFlight[e] # None => inFlight[e].by = e /\ inFlight[e].seq <= sequence
  /\ \A i \in DOMAIN delivered : delivered[i].by # "detached" => delivered[i].seq <= sequence
  /\ \A e \in Ordered : inFlight[e] # None =>
       \A i \in DOMAIN delivered : delivered[i].by # "detached" => delivered[i].seq < inFlight[e].seq

DetachedApart ==
  /\ detached # "none" => "detached" \in Questions
  /\ "detached" \in Questions /\ inFlight["detached"] # None => inFlight["detached"].by = "detached"

ReportsPhase ==
  \A m \in Media : inFlight[m] # None =>
    /\ phase[m] \in DOMAIN Reports /\ inFlight[m].state = Reports[phase[m]]
    /\ \E i \in DOMAIN events : LatestOf(m, i) /\ events[i] = inFlight[m]

ToldMeansEnded ==
  \A m \in Media : \A i \in DOMAIN delivered :
    delivered[i].by = m /\ delivered[i].state \in Terminal => phase[m] = "ended"

IInv ==
  /\ TypeOK /\ HoldsEmitMu /\ Numbered /\ DetachedApart /\ ReportsPhase /\ ToldMeansEnded
  /\ EmittedInOrder /\ OneOutcome /\ VideoReported

-----------------------------------------------------------------------------
(* The emitters are distinct. *)
LEMMA Apart ==
  /\ None \notin Emitters /\ "detached" \notin Ordered /\ "runtime" \notin Media
  /\ Ordered \subseteq Emitters /\ Media \subseteq Ordered /\ "runtime" \in Ordered
  /\ None \notin Event
BY ZenonT(30), EmittersApart, NoneIsNoEvent DEF Emitters, Ordered, Media

(* What recordAndEmit does under e.mu. *)
LEMMA RecordEffect ==
  ASSUME IInv, NEW e \in Ordered, NEW st \in States, Record(e, st)
  PROVE  /\ sequence' \in Nat /\ events' \in Seq(Event) /\ emitMu' \in Ordered
         /\ inFlight' \in [Emitters -> Event \union {None}]
         /\ HoldsEmitMu' /\ Numbered'
         /\ inFlight'[e] = [seq |-> sequence + 1, by |-> e, state |-> st] /\ inFlight'[e] # None
         /\ \A x \in Emitters : x # e => inFlight'[x] = inFlight[x]
         /\ \E i \in DOMAIN events' : LatestOf(e, i)' /\ events'[i] = inFlight'[e]
         /\ \A m \in Media : m # e => \A i \in DOMAIN events :
              LatestOf(m, i) => LatestOf(m, i)' /\ events'[i] = events[i]
         /\ \A i \in DOMAIN events : i \in DOMAIN events'
<1> DEFINE event == [seq |-> sequence + 1, by |-> e, state |-> st]
<1>1. /\ emitMu = None /\ emitMu' = e /\ sequence' = sequence + 1 /\ delivered' = delivered
      /\ events' = Append(events, event) /\ inFlight' = [inFlight EXCEPT ![e] = event]
      /\ inFlight[e] = None
  BY DEF Record, MayEmit
<1>2. /\ sequence \in Nat /\ events \in Seq(Event) /\ inFlight \in [Emitters -> Event \union {None}]
      /\ e \in Emitters /\ None \notin Event
  BY Apart DEF IInv, TypeOK
<1>3. event \in Event /\ event # None
  BY <1>2 DEF Event
<1>4. /\ inFlight'[e] = event
      /\ \A x \in Emitters : x # e => inFlight'[x] = inFlight[x]
      /\ inFlight' \in [Emitters -> Event \union {None}]
  <2> HIDE DEF event
  <2> QED
    BY <1>1, <1>2, <1>3
<1>5. /\ events' \in Seq(Event) /\ Len(events') = Len(events) + 1 /\ DOMAIN events' = 1..Len(events) + 1
      /\ DOMAIN events = 1..Len(events) /\ Len(events) \in Nat
      /\ \A i \in 1..Len(events) : events'[i] = events[i]
      /\ events'[Len(events) + 1] = event
  <2> HIDE DEF event
  <2> QED
    BY <1>1, <1>2, <1>3
<1>6. \A x \in Ordered : inFlight[x] = None
  BY <1>1, Apart DEF IInv, HoldsEmitMu
<1>7. HoldsEmitMu'
  BY <1>1, <1>3, <1>4, <1>6, Apart DEF HoldsEmitMu
<1>8. Numbered'
  <2>0. \A i \in DOMAIN delivered : delivered[i].seq \in Nat
    <3>1. \A i \in DOMAIN delivered : delivered[i] \in Event
      BY DEF IInv, TypeOK
    <3> QED
      BY <3>1 DEF Event
  <2>1. \A i \in DOMAIN delivered : delivered[i].by # "detached" => delivered[i].seq < sequence + 1
    BY <1>2, <2>0 DEF IInv, Numbered
  <2>2. \A i \in DOMAIN delivered : delivered[i].by # "detached" => delivered[i].seq <= sequence + 1
    BY <1>2, <2>0 DEF IInv, Numbered
  <2>3. \A x \in Ordered : x # e => inFlight'[x] = None
    BY <1>4, <1>6, Apart
  <2> QED
    BY <1>1, <1>2, <1>4, <2>1, <2>2, <2>3 DEF Numbered
<1>9. \E i \in DOMAIN events' : LatestOf(e, i)' /\ events'[i] = inFlight'[e]
  <2>1. event.by = e
    OBVIOUS
  <2> HIDE DEF event
  <2>2. PICK n \in DOMAIN events' : n = Len(events) + 1
    BY <1>5
  <2>3. LatestOf(e, n)' /\ events'[n] = event
    BY <1>5, <2>1, <2>2 DEF LatestOf
  <2> QED
    BY <1>4, <2>3
<1>10. \A m \in Media : m # e => \A i \in DOMAIN events :
         LatestOf(m, i) => LatestOf(m, i)' /\ events'[i] = events[i]
  <2> SUFFICES ASSUME NEW m \in Media, m # e, NEW i \in 1..Len(events), LatestOf(m, i)
               PROVE  LatestOf(m, i)'
    BY <1>5
  <2>1. event.by = e
    OBVIOUS
  <2> HIDE DEF event
  <2>2. ASSUME NEW j \in 1..Len(events) + 1, j > i PROVE events'[j].by # m
    <3>1. CASE j = Len(events) + 1
      BY <1>5, <2>1, <3>1
    <3>2. CASE j # Len(events) + 1
      BY <1>5, <2>2, <3>2 DEF LatestOf
    <3> QED
      BY <3>1, <3>2
  <2> QED
    BY <1>5, <2>2 DEF LatestOf
<1> QED
  BY <1>1, <1>2, <1>3, <1>4, <1>5, <1>7, <1>8, <1>9, <1>10

(* What the sink's answer changes. *)
LEMMA EmitEffect ==
  ASSUME IInv, NEW e \in Ordered, NEW ok \in BOOLEAN, Emit(e, ok)
  PROVE  /\ emitMu' \in Ordered \union {None} /\ delivered' \in Seq(Event)
         /\ inFlight' \in [Emitters -> Event \union {None}]
         /\ HoldsEmitMu' /\ Numbered' /\ EmittedInOrder'
         /\ inFlight[e] \in Event /\ inFlight[e].by = e /\ inFlight'[e] = None
         /\ \A x \in Emitters : x # e => inFlight'[x] = inFlight[x]
         /\ ~ok => delivered' = delivered
         /\ ok => delivered' = Append(delivered, inFlight[e])
<1>1. /\ inFlight[e] # None /\ emitMu = e /\ emitMu' = None
      /\ inFlight' = [inFlight EXCEPT ![e] = None] /\ sequence' = sequence
      /\ delivered' = IF ok THEN Append(delivered, inFlight[e]) ELSE delivered
  BY DEF Emit, ReleasesEmitMu, IInv, HoldsEmitMu
<1>2. /\ sequence \in Nat /\ delivered \in Seq(Event) /\ inFlight \in [Emitters -> Event \union {None}]
      /\ e \in Emitters
  BY Apart DEF IInv, TypeOK
<1>3. inFlight[e] \in Event /\ inFlight[e].by = e /\ inFlight[e].seq <= sequence
  BY <1>1, <1>2 DEF IInv, Numbered
<1>4. /\ inFlight'[e] = None /\ inFlight' \in [Emitters -> Event \union {None}]
      /\ \A x \in Emitters : x # e => inFlight'[x] = inFlight[x]
  BY <1>1, <1>2
<1>5. \A x \in Ordered : inFlight'[x] = None
  BY <1>1, <1>4, Apart DEF IInv, HoldsEmitMu
<1>6. HoldsEmitMu'
  BY <1>1, <1>5, Apart DEF HoldsEmitMu
<1>7. CASE ~ok
  BY <1>1, <1>2, <1>3, <1>4, <1>5, <1>6, <1>7 DEF Numbered, EmittedInOrder, IInv
<1>8. CASE ok
  <2> DEFINE n == Len(delivered)
  <2>1. /\ delivered' \in Seq(Event) /\ DOMAIN delivered' = 1..n + 1 /\ DOMAIN delivered = 1..n /\ n \in Nat
        /\ \A i \in 1..n : delivered'[i] = delivered[i]
        /\ delivered'[n + 1] = inFlight[e]
    BY <1>1, <1>2, <1>3, <1>8
  <2>2. \A i \in 1..n : delivered[i].by # "detached" => delivered[i].seq < inFlight[e].seq
    BY <1>1, <2>1 DEF IInv, Numbered
  <2> HIDE DEF n
  <2>3. Numbered'
    BY <1>1, <1>2, <1>3, <1>5, <2>1 DEF Numbered, IInv
  <2>4. EmittedInOrder'
    BY <2>1, <2>2 DEF EmittedInOrder, IInv
  <2> QED
    BY <1>1, <1>3, <1>4, <1>6, <1>8, <2>1, <2>3, <2>4
<1> QED
  BY <1>7, <1>8

(* Of an ordered emitter, only the runtime and media tasks record and emit, *)
(* and the outcomes of media tasks change with their own reports.           *)
LEMMA RecordPreserves ==
  ASSUME IInv, NEW e \in Ordered, NEW st \in States, Record(e, st),
         UNCHANGED <<turn, phase, detached>>, tries' \in [Ordered -> Nat],
         e \in Media => phase[e] \in DOMAIN Reports /\ st = Reports[phase[e]]
  PROVE  IInv'
<1>1. TypeOK'
  BY ZenonT(30), RecordEffect, Apart DEF IInv, TypeOK, Record
<1>2. HoldsEmitMu' /\ Numbered'
  BY ZenonT(30), RecordEffect
<1>3. DetachedApart'
  BY ZenonT(30), RecordEffect, Apart DEF IInv, DetachedApart, Emitters
<1>4. ReportsPhase'
  <2> SUFFICES ASSUME NEW m \in Media, inFlight'[m] # None
               PROVE  /\ phase[m] \in DOMAIN Reports /\ inFlight'[m].state = Reports[phase[m]]
                      /\ \E i \in DOMAIN events' : LatestOf(m, i)' /\ events'[i] = inFlight'[m]
    BY DEF ReportsPhase
  <2>1. CASE m = e
    <3>1. inFlight'[e].state = st
      <4>1. inFlight'[e] = [seq |-> sequence + 1, by |-> e, state |-> st]
        BY RecordEffect
      <4> QED
        BY <4>1
    <3>2. \E i \in DOMAIN events' : LatestOf(e, i)' /\ events'[i] = inFlight'[e]
      BY ZenonT(30), RecordEffect
    <3> QED
      BY <2>1, <3>1, <3>2 DEF LatestOf
  <2>2. CASE m # e
    <3>1. inFlight'[m] = inFlight[m]
      BY ZenonT(30), <2>2, RecordEffect, Apart
    <3>2. PICK i \in DOMAIN events : LatestOf(m, i) /\ events[i] = inFlight[m]
      BY <3>1 DEF IInv, ReportsPhase
    <3>3. i \in DOMAIN events' /\ LatestOf(m, i)' /\ events'[i] = inFlight[m]
      BY ZenonT(30), <2>2, <3>2, RecordEffect
    <3> QED
      BY <3>1, <3>3 DEF IInv, ReportsPhase
  <2> QED
    BY <2>1, <2>2
<1>5. ToldMeansEnded' /\ EmittedInOrder' /\ OneOutcome'
  BY DEF Record, IInv, ToldMeansEnded, EmittedInOrder, OneOutcome
<1>6. VideoReported'
  <2> SUFFICES ASSUME NEW m \in Videos, phase[m] = "ended"
               PROVE  \E i \in DOMAIN events' : LatestOf(m, i)' /\ events'[i].state \in Terminal
    BY DEF VideoReported
  <2>1. m # e /\ m \in Media
    BY DEF Reports, Media
  <2>2. PICK i \in DOMAIN events : LatestOf(m, i) /\ events[i].state \in Terminal
    BY DEF IInv, VideoReported
  <2>3. i \in DOMAIN events' /\ LatestOf(m, i)' /\ events'[i] = events[i]
    BY ZenonT(30), <2>1, <2>2, RecordEffect
  <2> QED
    BY <2>2, <2>3
<1> QED
  BY <1>1, <1>2, <1>3, <1>4, <1>5, <1>6 DEF IInv

(* A task reports an outcome to the sink at most once: while it has not     *)
(* ended none of the delivered events is one.                               *)
LEMMA EmitPreserves ==
  ASSUME IInv, NEW e \in Ordered, NEW ok \in BOOLEAN, Emit(e, ok), UNCHANGED detached,
         tries' \in [Ordered -> Nat], phase' \in [Media -> Phases],
         \A m \in Media : m # e => phase'[m] = phase[m],
         e \in Media => phase'[e] = AfterReport(e, ok)
  PROVE  IInv'
<1>0. /\ events' = events /\ turn' = turn /\ sequence' = sequence /\ cached' = cached
      /\ completedEvents' = completedEvents
  BY DEF Emit
<1>1. TypeOK'
  BY <1>0, EmitEffect DEF IInv, TypeOK
<1>2. HoldsEmitMu' /\ Numbered' /\ EmittedInOrder'
  BY EmitEffect
<1>3. DetachedApart'
  BY EmitEffect, Apart DEF IInv, DetachedApart, Emitters
<1>4. ReportsPhase'
  <2> SUFFICES ASSUME NEW m \in Media, inFlight'[m] # None
               PROVE  /\ phase'[m] \in DOMAIN Reports /\ inFlight'[m].state = Reports[phase'[m]]
                      /\ \E i \in DOMAIN events' : LatestOf(m, i)' /\ events'[i] = inFlight'[m]
    BY DEF ReportsPhase
  <2>1. m # e /\ inFlight'[m] = inFlight[m] /\ phase'[m] = phase[m]
    BY EmitEffect, Apart
  <2> QED
    BY <1>0, <2>1 DEF IInv, ReportsPhase, LatestOf
<1>5. ASSUME e \in Media
      PROVE  /\ phase[e] \in DOMAIN Reports /\ inFlight[e].state = Reports[phase[e]]
             /\ \E i \in DOMAIN events : LatestOf(e, i) /\ events[i] = inFlight[e]
             /\ \A i \in DOMAIN delivered : delivered[i].by = e => delivered[i].state \notin Terminal
  <2>1. inFlight[e] # None
    BY DEF Emit
  <2> QED
    BY <1>5, <2>1 DEF IInv, ReportsPhase, ToldMeansEnded, Reports
<1>6. ASSUME e \in Media, ok, inFlight[e].state \in Terminal PROVE phase'[e] = "ended"
  BY <1>5, <1>6 DEF AfterReport, DeliverAgain, Reports, Terminal
<1>7. ToldMeansEnded' /\ OneOutcome'
  <2>1. CASE ~ok
    <3>1. delivered' = delivered
      BY <2>1, EmitEffect
    <3>2. OneOutcome'
      BY <3>1 DEF IInv, OneOutcome
    <3>3. ToldMeansEnded'
      BY <1>5, <3>1 DEF IInv, ToldMeansEnded
    <3> QED
      BY <3>2, <3>3
  <2>2. CASE ok
    <3>1. delivered \in Seq(Event) /\ delivered' = Append(delivered, inFlight[e]) /\ inFlight[e] \in Event
          /\ inFlight[e].by = e
      BY ZenonT(30), <2>2, EmitEffect DEF IInv, TypeOK
    <3>2. /\ DOMAIN delivered = 1..Len(delivered) /\ DOMAIN delivered' = 1..Len(delivered) + 1
          /\ Len(delivered) \in Nat
          /\ \A i \in 1..Len(delivered) : delivered'[i] = delivered[i]
          /\ delivered'[Len(delivered) + 1] = inFlight[e]
      BY <3>1
    <3>3. ToldMeansEnded'
      <4> SUFFICES ASSUME NEW m \in Media, NEW i \in 1..Len(delivered) + 1,
                          delivered'[i].by = m, delivered'[i].state \in Terminal
                   PROVE  phase'[m] = "ended"
        BY <3>2 DEF ToldMeansEnded
      <4>1. CASE i = Len(delivered) + 1
        BY <1>6, <2>2, <3>1, <3>2, <4>1
      <4>2. CASE i # Len(delivered) + 1
        <5>1. i \in DOMAIN delivered /\ delivered'[i] = delivered[i]
          BY <3>2, <4>2
        <5>2. m # e
          BY <1>5, <5>1
        <5> QED
          BY <5>1, <5>2 DEF IInv, ToldMeansEnded
      <4> QED
        BY <4>1, <4>2
    <3>4. OneOutcome'
      <4> SUFFICES ASSUME NEW m \in Media,
                          NEW i \in 1..Len(delivered) + 1, NEW j \in 1..Len(delivered) + 1,
                          delivered'[i].by = m, delivered'[i].state \in Terminal,
                          delivered'[j].by = m, delivered'[j].state \in Terminal
                   PROVE  i = j
        BY <3>2 DEF OneOutcome
      <4>1. CASE m = e
        <5>1. i \notin 1..Len(delivered) /\ j \notin 1..Len(delivered)
          BY ZenonT(30), <1>5, <3>2, <4>1
        <5> QED
          BY <3>2, <5>1
      <4>2. CASE m # e
        <5>1. i \in 1..Len(delivered) /\ j \in 1..Len(delivered)
          BY <3>1, <3>2, <4>2
        <5> QED
          BY <3>2, <5>1 DEF IInv, OneOutcome
      <4> QED
        BY <4>1, <4>2
    <3> QED
      BY <3>3, <3>4
  <2> QED
    BY <2>1, <2>2
<1>8. VideoReported'
  <2> SUFFICES ASSUME NEW m \in Videos, phase'[m] = "ended"
               PROVE  \E i \in DOMAIN events : LatestOf(m, i) /\ events[i].state \in Terminal
    BY <1>0 DEF VideoReported, LatestOf
  <2>1. CASE m = e
    <3>1. m \in Media
      BY DEF Media
    <3>2. inFlight[e].state \in Terminal
      BY <1>5, <2>1, <3>1 DEF AfterReport, Reports, Terminal
    <3> QED
      BY <1>5, <2>1, <3>1, <3>2
  <2>2. CASE m # e
    BY <2>2 DEF IInv, VideoReported, Media
  <2> QED
    BY <2>1, <2>2
<1> QED
  BY <1>1, <1>2, <1>3, <1>4, <1>7, <1>8 DEF IInv

LEMMA InitHolds == Init => IInv
<1> SUFFICES ASSUME Init PROVE IInv
  OBVIOUS
<1>1. <<>> \in Seq(Event) /\ DOMAIN delivered = {}
  BY DEF Init
<1>2. TypeOK
  BY ZenonT(30), <1>1 DEF Init, TypeOK, Phases, Ordered
<1>3. \A e \in Ordered : inFlight[e] = None /\ emitMu # e
  BY Apart DEF Init
<1>4. HoldsEmitMu /\ ReportsPhase /\ VideoReported /\ DetachedApart
  BY <1>3, Apart DEF Init, HoldsEmitMu, ReportsPhase, VideoReported, DetachedApart, Media, Emitters
<1>5. Numbered /\ ToldMeansEnded /\ EmittedInOrder /\ OneOutcome
  BY <1>1, <1>3 DEF Numbered, ToldMeansEnded, EmittedInOrder, OneOutcome
<1> QED
  BY <1>2, <1>4, <1>5 DEF IInv

(* The steps that leave the record, the sink and the emitters alone, or     *)
(* move a media task to a phase that reports nothing new.                   *)
LEMMA QuietPreserves ==
  ASSUME IInv, TypeOK', UNCHANGED <<sequence, events, emitMu, inFlight, delivered>>,
         detached' # "none" => "detached" \in Questions,
         \A m \in Media :
           \/ phase'[m] = phase[m]
           \/ phase[m] # "ended" /\ inFlight[m] = None /\ (m \in Videos => phase'[m] # "ended")
  PROVE  IInv'
<1>1. HoldsEmitMu' /\ Numbered' /\ EmittedInOrder' /\ OneOutcome'
  BY DEF IInv, HoldsEmitMu, Numbered, EmittedInOrder, OneOutcome
<1>2. DetachedApart'
  BY DEF IInv, DetachedApart
<1>3. ReportsPhase'
  BY DEF IInv, ReportsPhase, LatestOf
<1>4. ToldMeansEnded'
  BY DEF IInv, ToldMeansEnded
<1>5. VideoReported'
  BY DEF IInv, VideoReported, LatestOf, Media
<1> QED
  BY <1>1, <1>2, <1>3, <1>4, <1>5 DEF IInv

LEMMA TurnSteps ==
  ASSUME IInv, RuntimeSucceeds \/ CreateDetached \/ Evict \/ \E d \in BOOLEAN : Complete(d)
  PROVE  IInv'
<1>1. TypeOK'
  <2>1. <<>> \in Seq(Event)
    OBVIOUS
  <2>2. CASE RuntimeSucceeds \/ CreateDetached \/ Evict
    BY ZenonT(30), <2>1, <2>2 DEF IInv, TypeOK, RuntimeSucceeds, CreateDetached, Evict
  <2>3. ASSUME NEW d \in BOOLEAN, Complete(d) PROVE TypeOK'
    <3>1. completedEvents' = events \/ completedEvents' = <<>>
      BY <2>3 DEF Complete
    <3> QED
      BY <2>1, <2>3, <3>1 DEF IInv, TypeOK, Complete
  <2> QED
    BY <2>2, <2>3
<1>2. UNCHANGED <<sequence, events, emitMu, inFlight, delivered, phase>>
  BY DEF RuntimeSucceeds, CreateDetached, Evict, Complete
<1>3. detached' # "none" => "detached" \in Questions
  BY ZenonT(30), EmittersApart DEF IInv, DetachedApart, RuntimeSucceeds, CreateDetached, Evict, Complete
<1> QED
  BY <1>1, <1>2, <1>3, QuietPreserves

LEMMA RuntimeSteps ==
  ASSUME IInv, RuntimeEmits \/ \E ok \in BOOLEAN : RuntimeEmitted(ok)
  PROVE  IInv'
<1>1. CASE RuntimeEmits
  <2>1. tries' \in [Ordered -> Nat]
    BY <1>1, Apart DEF RuntimeEmits, IInv, TypeOK
  <2> QED
    BY <1>1, <2>1, Apart, RecordPreserves DEF RuntimeEmits, States
<1>2. ASSUME NEW ok \in BOOLEAN, RuntimeEmitted(ok) PROVE IInv'
  BY <1>2, Apart, EmitPreserves DEF RuntimeEmitted, IInv, TypeOK
<1> QED
  BY <1>1, <1>2

(* emitDetached numbers its event and touches neither the record nor what   *)
(* the ordered emitters hand to the sink.                                   *)
LEMMA DetachedSteps ==
  ASSUME IInv, EmitDetached \/ \E ok \in BOOLEAN : DetachedEmitted(ok)
  PROVE  IInv'
<1>1. "detached" \in Emitters /\ "detached" \in Questions /\ "detached" \notin Ordered
  BY Apart DEF IInv, DetachedApart, EmitDetached, DetachedEmitted, Emitters
<1>2. /\ sequence \in Nat /\ delivered \in Seq(Event) /\ inFlight \in [Emitters -> Event \union {None}]
      /\ completedEvents \in Seq(Event)
  BY DEF IInv, TypeOK
<1>3. CASE EmitDetached
  <2> DEFINE event == [seq |-> sequence + 1, by |-> "detached", state |-> "resolved"]
  <2>1. event \in Event /\ event.by = "detached"
    BY <1>1, <1>2 DEF Event, States
  <2>2. /\ inFlight' = [inFlight EXCEPT !["detached"] = event] /\ sequence' = sequence + 1
        /\ completedEvents' = IF cached THEN Append(completedEvents, event) ELSE completedEvents
        /\ detached' = "emitting"
        /\ UNCHANGED <<turn, events, cached, emitMu, delivered, phase, tries>>
    BY <1>3 DEF EmitDetached, NextSequence
  <2> HIDE DEF event
  <2>3. /\ inFlight' \in [Emitters -> Event \union {None}] /\ inFlight'["detached"] = event
        /\ \A e \in Ordered : inFlight'[e] = inFlight[e]
    BY <1>1, <1>2, <2>1, <2>2 DEF Emitters
  <2>4. TypeOK'
    BY <1>2, <2>1, <2>2, <2>3 DEF IInv, TypeOK
  <2>5. HoldsEmitMu' /\ DetachedApart'
    BY <1>1, <2>1, <2>2, <2>3 DEF IInv, HoldsEmitMu, DetachedApart
  <2>6. Numbered'
    <3>1. \A i \in DOMAIN delivered : delivered[i] \in Event
      BY <1>2
    <3>2. \A i \in DOMAIN delivered : delivered[i].seq \in Nat
      BY <3>1 DEF Event
    <3>3. \A e \in Ordered : inFlight[e] # None => inFlight[e].seq \in Nat
      BY <1>2, Apart DEF Event
    <3> QED
      BY <1>2, <2>2, <2>3, <3>2, <3>3 DEF IInv, Numbered
  <2>7. ReportsPhase'
    BY <2>2, <2>3, Apart DEF IInv, ReportsPhase, LatestOf
  <2>8. ToldMeansEnded' /\ EmittedInOrder' /\ OneOutcome' /\ VideoReported'
    BY <2>2 DEF IInv, ToldMeansEnded, EmittedInOrder, OneOutcome, VideoReported, LatestOf
  <2> QED
    BY <2>4, <2>5, <2>6, <2>7, <2>8 DEF IInv
<1>4. ASSUME NEW ok \in BOOLEAN, DetachedEmitted(ok) PROVE IInv'
  <2>1. /\ inFlight["detached"] # None /\ inFlight' = [inFlight EXCEPT !["detached"] = None]
        /\ delivered' = IF ok THEN Append(delivered, inFlight["detached"]) ELSE delivered
        /\ emitMu' = emitMu /\ detached' = "closed"
        /\ UNCHANGED <<turn, sequence, events, cached, completedEvents, phase, tries>>
    BY <1>1, <1>4, Apart DEF DetachedEmitted, Emit, ReleasesEmitMu, IInv, TypeOK
  <2>2. inFlight["detached"] \in Event /\ inFlight["detached"].by = "detached"
    BY <1>1, <1>2, <2>1 DEF IInv, DetachedApart
  <2>3. /\ inFlight' \in [Emitters -> Event \union {None}] /\ inFlight'["detached"] = None
        /\ \A e \in Ordered : inFlight'[e] = inFlight[e]
    BY <1>1, <1>2, <2>1 DEF Emitters
  <2>4. /\ delivered' \in Seq(Event) /\ DOMAIN delivered \subseteq DOMAIN delivered'
        /\ \A i \in DOMAIN delivered : delivered'[i] = delivered[i]
        /\ \A i \in DOMAIN delivered' : i \notin DOMAIN delivered => delivered'[i].by = "detached"
    BY <1>2, <2>1, <2>2
  <2>5. TypeOK'
    BY <2>1, <2>3, <2>4 DEF IInv, TypeOK
  <2>6. HoldsEmitMu' /\ DetachedApart' /\ Numbered'
    BY <1>1, <2>1, <2>3, <2>4 DEF IInv, HoldsEmitMu, DetachedApart, Numbered
  <2>7. ReportsPhase' /\ VideoReported'
    BY <2>1, <2>3, Apart DEF IInv, ReportsPhase, LatestOf, VideoReported
  <2>8. \A i \in DOMAIN delivered' : delivered'[i].by \in Ordered => i \in DOMAIN delivered
    BY <1>1, <2>4
  <2>9. ToldMeansEnded' /\ OneOutcome'
    BY <2>1, <2>4, <2>8, Apart DEF IInv, ToldMeansEnded, OneOutcome
  <2>10. EmittedInOrder'
    BY <2>4 DEF IInv, EmittedInOrder
  <2> QED
    BY <2>5, <2>6, <2>7, <2>9, <2>10 DEF IInv
<1> QED
  BY <1>3, <1>4

LEMMA MediaSteps ==
  ASSUME IInv, NEW m \in Media,
         \/ StartMedia(m) \/ MediaEmits(m) \/ Generated(m)
         \/ \E ok \in BOOLEAN : MediaEmitted(m, ok)
  PROVE  IInv'
<1>0. m \in Ordered /\ phase \in [Media -> Phases] /\ tries \in [Ordered -> Nat]
  BY Apart DEF IInv, TypeOK
<1>1. CASE StartMedia(m)
  <2>1. /\ phase[m] = "none" /\ phase' = [phase EXCEPT ![m] = "announce"]
        /\ UNCHANGED <<turn, sequence, events, cached, completedEvents, emitMu, inFlight, delivered,
                       tries, detached>>
    BY SMTT(30), <1>1 DEF StartMedia
  <2>2. inFlight[m] = None
    BY SMTT(30), <2>1 DEF IInv, ReportsPhase, Reports
  <2>3. TypeOK'
    BY <1>0, <2>1 DEF IInv, TypeOK, Phases, Reports
  <2> QED
    BY <1>0, <2>1, <2>2, <2>3, QuietPreserves DEF IInv, DetachedApart
<1>2. CASE MediaEmits(m)
  <2>1. /\ phase[m] \in DOMAIN Reports /\ Record(m, Reports[phase[m]]) /\ UNCHANGED <<turn, phase, detached>>
        /\ tries' = [tries EXCEPT ![m] = @ + 1]
    BY <1>2 DEF MediaEmits
  <2>2. Reports[phase[m]] \in States
    BY <2>1 DEF Reports, States
  <2>3. tries' \in [Ordered -> Nat]
    BY <1>0, <2>1
  <2> QED
    BY <1>0, <2>1, <2>2, <2>3, RecordPreserves
<1>3. CASE Generated(m)
  <2>1. PICK outcome \in {"reportFailed", "deliver", FileLost(m)} : phase' = [phase EXCEPT ![m] = outcome]
    BY ZenonT(30), <1>3 DEF Generated
  <2>2. outcome \in Phases /\ (m \in Videos => outcome # "ended")
    BY <2>1 DEF FileLost, Phases, Reports
  <2>3. /\ phase[m] = "working" /\ inFlight[m] = None /\ tries' = [tries EXCEPT ![m] = 0]
        /\ UNCHANGED <<turn, sequence, events, cached, completedEvents, emitMu, inFlight, delivered, detached>>
    BY <1>3 DEF Generated
  <2>4. TypeOK'
    BY <1>0, <2>1, <2>2, <2>3 DEF IInv, TypeOK
  <2> QED
    BY <1>0, <2>1, <2>2, <2>3, <2>4, QuietPreserves DEF IInv, DetachedApart
<1>4. ASSUME NEW ok \in BOOLEAN, MediaEmitted(m, ok) PROVE IInv'
  <2>1. /\ Emit(m, ok) /\ phase' = [phase EXCEPT ![m] = AfterReport(m, ok)] /\ UNCHANGED detached
        /\ tries' = IF phase[m] = "announce" THEN [tries EXCEPT ![m] = 0] ELSE tries
    BY <1>4 DEF MediaEmitted
  <2>2. AfterReport(m, ok) \in Phases
    BY DEF AfterReport, Phases, Reports
  <2>3. phase' \in [Media -> Phases] /\ phase'[m] = AfterReport(m, ok)
        /\ \A x \in Media : x # m => phase'[x] = phase[x]
    BY <1>0, <2>1, <2>2
  <2>4. tries' \in [Ordered -> Nat]
    BY <1>0, <2>1
  <2> QED
    BY <1>0, <2>1, <2>3, <2>4, EmitPreserves
<1> QED
  BY <1>1, <1>2, <1>3, <1>4

LEMMA NextPreserves == IInv /\ [Next]_vars => IInv'
<1> SUFFICES ASSUME IInv, [Next]_vars PROVE IInv'
  OBVIOUS
<1>1. CASE UNCHANGED vars
  BY <1>1, QuietPreserves DEF vars, IInv, TypeOK, DetachedApart
<1>2. CASE Next
  BY <1>2, TurnSteps, RuntimeSteps, DetachedSteps, MediaSteps DEF Next
<1> QED
  BY <1>1, <1>2

LEMMA Invariance == Spec => []IInv
BY InitHolds, NextPreserves, PTL DEF Spec

(* The turn, its record and its emitters keep their types.                  *)
THEOREM TypeCorrect == Spec => []TypeOK
<1>1. IInv => TypeOK
  BY DEF IInv
<1> QED
  BY <1>1, Invariance, PTL

(* Whatever goes through recordAndEmit reaches the sink in the order of its *)
(* numbers, for any number of media tasks.                                  *)
THEOREM SinkSeesOrder == Spec => []EmittedInOrder
<1>1. IInv => EmittedInOrder
  BY DEF IInv
<1> QED
  BY <1>1, Invariance, PTL

(* The sink is told one outcome of an image or a video, however often a     *)
(* delivery is repeated.                                                    *)
THEOREM SinkToldOnce == Spec => []OneOutcome
<1>1. IInv => OneOutcome
  BY DEF IInv
<1> QED
  BY <1>1, Invariance, PTL

(* A background video that ends has a terminal state on record.             *)
THEOREM VideosEndOnRecord == Spec => []VideoReported
<1>1. IInv => VideoReported
  BY DEF IInv
<1> QED
  BY <1>1, Invariance, PTL
===============================================================================
