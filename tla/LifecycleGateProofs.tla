------------------------- MODULE LifecycleGateProofs -------------------------
(***************************************************************************)
(* Proofs about LifecycleGate, for any finite set of goroutines and any    *)
(* bounds on nesting and on the number of drained channels.                *)
(***************************************************************************)
EXTENDS LifecycleGate, FiniteSetTheorems, TLAPS

(***************************************************************************)
(* The strengthening: one owner of the token at a time; a granted mutation *)
(* runs ordinary code; channels are numbered in order of creation; and the *)
(* channel captured by a closing or draining mutation is still the current *)
(* one, because nothing is admitted after CloseAdmission.                  *)
(***************************************************************************)
OneOwner ==
  \A p, q \in Procs : OwnsToken(p) /\ OwnsToken(q) => p = q
GrantedRuns == \A p \in Procs : Holding(p) => pc[p] = "run"
ChannelsNumbered == closedChans \subseteq 0 .. drained
CapturedCurrent ==
  \A p \in Procs : pc[p] \in {"closing", "draining"} => captured[p] = drained

IInv ==
  /\ TypeOK
  /\ OneOwner
  /\ GrantedRuns
  /\ ChannelsNumbered
  /\ CapturedCurrent
  /\ DrainedMeansIdle
  /\ FlagsMatchOwner
  /\ Exclusion

(* A gate is created open, idle, with its token and a closed channel. *)
LEMMA InitIInv == Init => IInv
<1> SUFFICES ASSUME Init PROVE IInv
  OBVIOUS
<1> USE DEF Init
<1>1. TypeOK
  <2>1. token \in BOOLEAN /\ closed \in BOOLEAN
    BY ZenonT(30)
  <2>2. active \in Nat /\ drained \in Nat /\ closedChans \in SUBSET Nat
    OBVIOUS
  <2>3. leases \in SUBSET Procs /\ cancelled \in SUBSET leases
    OBVIOUS
  <2>4. pc \in [Procs -> Where]
    BY DEF Where
  <2>5. captured \in [Procs -> Nat] /\ depth \in [Procs -> Nat]
    OBVIOUS
  <2> QED
    BY <2>1, <2>2, <2>3, <2>4, <2>5 DEF TypeOK
<1>2. OneOwner /\ GrantedRuns /\ Exclusion /\ FlagsMatchOwner
  BY DEF OneOwner, GrantedRuns, Exclusion, FlagsMatchOwner, OwnsToken, Holding, ClosedBy
<1>3. ChannelsNumbered /\ CapturedCurrent
  BY DEF ChannelsNumbered, CapturedCurrent
<1>4. DrainedMeansIdle
  BY FS_EmptySet DEF DrainedMeansIdle
<1> QED
  BY <1>1, <1>2, <1>3, <1>4 DEF IInv

(* An admitted execution: the first one opens a fresh channel. *)
LEMMA ExecutionStep ==
  ASSUME IInv, NEW p \in Procs, Execution(p)
  PROVE  IInv'
<1> USE DEF IInv, Execution, AdmissionOpen, FirstLeaseChannel
<1>1. TypeOK'
  BY DEF TypeOK
<1>2. OneOwner' /\ GrantedRuns'
  BY DEF OneOwner, GrantedRuns, OwnsToken, Holding
<1>3. FlagsMatchOwner'
  BY DEF FlagsMatchOwner, OwnsToken, ClosedBy, Holding
<1>4. ChannelsNumbered'
  BY DEF ChannelsNumbered, TypeOK
<1>5. ~ \E q \in Procs : ClosedBy(q)
  BY DEF FlagsMatchOwner
<1>6. CapturedCurrent'
  BY <1>5 DEF CapturedCurrent, ClosedBy
<1>7. Exclusion'
  BY <1>5 DEF Exclusion, ClosedBy, Holding
<1>8. DrainedMeansIdle'
  <2>1. IsFiniteSet(leases)
    BY ProcsFinite, FS_Subset DEF TypeOK
  <2>2. Cardinality(leases') = Cardinality(leases) + 1
    BY <2>1, FS_AddElement
  <2>3. leases # {} => active # 0
    BY <2>1, FS_EmptySet DEF DrainedMeansIdle
  <2>4. drained' \notin closedChans'
    BY <2>3, FS_EmptySet DEF DrainedMeansIdle, ChannelsNumbered, TypeOK
  <2> QED
    BY <2>2, <2>4 DEF DrainedMeansIdle, TypeOK
<1> QED
  BY <1>1, <1>2, <1>3, <1>4, <1>6, <1>7, <1>8

(* A released execution: the last one closes the current channel. *)
LEMMA ReleaseExecutionStep ==
  ASSUME IInv, NEW p \in Procs, ReleaseExecution(p)
  PROVE  IInv'
<1> USE DEF IInv, ReleaseExecution, ReleaseOnce
<1>1. IsFiniteSet(leases) /\ Cardinality(leases) \in Nat
  BY ProcsFinite, FS_Subset, FS_CardinalityType DEF TypeOK
<1>2. Cardinality(leases') = Cardinality(leases) - 1 /\ IsFiniteSet(leases')
  BY <1>1, FS_RemoveElement
<1>3. active - 1 \in Nat /\ active - 1 = Cardinality(leases')
  BY <1>1, <1>2, FS_CardinalityType DEF DrainedMeansIdle
<1>4. TypeOK'
  BY <1>3 DEF TypeOK
<1>5. OneOwner' /\ GrantedRuns'
  BY DEF OneOwner, GrantedRuns, OwnsToken, Holding
<1>6. FlagsMatchOwner'
  BY DEF FlagsMatchOwner, OwnsToken, ClosedBy, Holding
<1>7. ChannelsNumbered' /\ CapturedCurrent'
  BY DEF ChannelsNumbered, CapturedCurrent, TypeOK
<1>8. Exclusion'
  BY DEF Exclusion, Holding
<1>9. leases' = {} <=> active - 1 = 0
  BY ZenonT(30), <1>2, <1>3, FS_EmptySet
<1>10. DrainedMeansIdle'
  BY <1>3, <1>9 DEF DrainedMeansIdle
<1> QED
  BY <1>4, <1>5, <1>6, <1>7, <1>8, <1>10

(* The steps of MutationInterrupt that touch neither leases nor channels. *)
LEMMA MutationStep ==
  ASSUME IInv, NEW p \in Procs,
         \/ RequestMutation(p) \/ NestedMutation(p) \/ ReleaseNested(p)
         \/ TakeToken(p) \/ CancelWait(p) \/ CloseAdmission(p) \/ Interrupt(p)
         \/ DrainTimeout(p) \/ ReleaseMutation(p) \/ ReturnToken(p)
  PROVE  IInv'
<1> USE DEF RequestMutation, NestedMutation, ReleaseNested, TakeToken,
            CancelWait, CloseAdmission, Interrupt, DrainTimeout,
            ReleaseMutation, ReturnToken, gateVars, Goto, IInv,
            ReopenedAdmission
<1>1. TypeOK'
  <2>1. token' \in BOOLEAN /\ closed' \in BOOLEAN
    BY ZenonT(30) DEF TypeOK
  <2>2. active' \in Nat /\ drained' \in Nat /\ closedChans' \in SUBSET Nat
    BY ZenonT(30) DEF TypeOK
  <2>3. leases' \in SUBSET Procs /\ cancelled' \in SUBSET leases'
    BY DEF TypeOK
  <2>4. pc' \in [Procs -> Where]
    BY DEF TypeOK, Where
  <2>5. captured' \in [Procs -> Nat]
    BY DEF TypeOK
  <2>6. depth' \in [Procs -> Nat]
    BY MaxDepthNat DEF TypeOK
  <2> QED
    BY <2>1, <2>2, <2>3, <2>4, <2>5, <2>6 DEF TypeOK
<1>2. OneOwner'
  BY DEF OneOwner, OwnsToken, Holding, TypeOK, FlagsMatchOwner, Where
<1>3. GrantedRuns'
  BY DEF GrantedRuns, Holding, TypeOK
<1>4. ChannelsNumbered'
  BY ZenonT(30) DEF ChannelsNumbered
<1>5. CapturedCurrent'
  BY DEF CapturedCurrent, TypeOK
<1>6. DrainedMeansIdle'
  BY DEF DrainedMeansIdle
<1>7. FlagsMatchOwner'
  BY DEF FlagsMatchOwner, OneOwner, GrantedRuns, OwnsToken, ClosedBy, Holding, TypeOK
<1>8. Exclusion'
  BY DEF Exclusion, OneOwner, GrantedRuns, OwnsToken, Holding, TypeOK
<1> QED
  BY <1>1, <1>2, <1>3, <1>4, <1>5, <1>6, <1>7, <1>8

(* The grant: the captured channel is the current one, so it is closed only *)
(* if no lease is left.                                                     *)
LEMMA DrainedStep ==
  ASSUME IInv, NEW p \in Procs, Drained(p)
  PROVE  IInv'
<1> USE DEF Drained, DrainSignal, gateVars, Goto, IInv
<1>1. leases = {}
  BY DEF CapturedCurrent, DrainedMeansIdle
<1>2. TypeOK'
  BY DEF TypeOK, Where
<1>3. OneOwner' /\ GrantedRuns' /\ Exclusion'
  BY <1>1 DEF OneOwner, GrantedRuns, Exclusion, OwnsToken, Holding, TypeOK
<1>4. ChannelsNumbered' /\ CapturedCurrent' /\ DrainedMeansIdle'
  BY DEF ChannelsNumbered, CapturedCurrent, DrainedMeansIdle, TypeOK
<1>5. FlagsMatchOwner'
  BY DEF FlagsMatchOwner, OwnsToken, ClosedBy, Holding, TypeOK
<1> QED
  BY <1>2, <1>3, <1>4, <1>5

LEMMA StutterStep == IInv /\ UNCHANGED vars => IInv'
BY DEF IInv, vars, TypeOK, OneOwner, GrantedRuns, ChannelsNumbered,
       CapturedCurrent, DrainedMeansIdle, FlagsMatchOwner, Exclusion,
       OwnsToken, ClosedBy, Holding

LEMMA NextIInv == IInv /\ [Next]_vars => IInv'
<1> SUFFICES ASSUME IInv, [Next]_vars PROVE IInv'
  OBVIOUS
<1>1. CASE Next
  <2> PICK p \in Procs :
        \/ Execution(p) \/ ReleaseExecution(p) \/ Drained(p)
        \/ RequestMutation(p) \/ NestedMutation(p) \/ ReleaseNested(p)
        \/ TakeToken(p) \/ CancelWait(p) \/ CloseAdmission(p) \/ Interrupt(p)
        \/ DrainTimeout(p) \/ ReleaseMutation(p) \/ ReturnToken(p)
    BY <1>1 DEF Next
  <2> QED
    BY ExecutionStep, ReleaseExecutionStep, MutationStep, DrainedStep
<1>2. CASE UNCHANGED vars
  BY <1>2, StutterStep
<1> QED
  BY <1>1, <1>2

(* The inductive invariant holds in every reachable state. *)
THEOREM GateInvariant == Spec => []IInv
BY InitIInv, NextIInv, PTL DEF Spec

(***************************************************************************)
(* For any number of goroutines: a granted mutation of an Agent runs alone *)
(* (MutationInterrupt against Execution).                                  *)
(***************************************************************************)
THEOREM MutationExcludesExecution == Spec => []Exclusion
<1>1. IInv => Exclusion
  BY DEF IInv
<1> QED
  BY GateInvariant, <1>1, PTL

(***************************************************************************)
(* Execution's release never closes a closed channel, and the channel a    *)
(* mutation waits on is closed exactly when no lease is left.              *)
(***************************************************************************)
THEOREM ChannelDiscipline == Spec => []DrainedMeansIdle
<1>1. IInv => DrainedMeansIdle
  BY DEF IInv
<1> QED
  BY GateInvariant, <1>1, PTL

(***************************************************************************)
(* Every path of MutationInterrupt and of its release keeps the admission  *)
(* flag and the token in step with the mutation that owns them.            *)
(***************************************************************************)
THEOREM FlagsFollowOwner == Spec => []FlagsMatchOwner
<1>1. IInv => FlagsMatchOwner
  BY DEF IInv
<1> QED
  BY GateInvariant, <1>1, PTL

-----------------------------------------------------------------------------
(* While admission is closed the executions only drain: only Execution adds *)
(* a lease, and it needs an open gate.                                      *)
THEOREM OnlyDrainsWhileClosed == Spec => NoAdmissionWhileClosed
<1>1. [Next]_vars => [closed => leases' \subseteq leases]_vars
  BY DEF Next, vars, Execution, AdmissionOpen, ReleaseExecution,
         RequestMutation, NestedMutation, ReleaseNested, TakeToken,
         CancelWait, CloseAdmission, Interrupt, Drained, DrainTimeout,
         ReleaseMutation, ReturnToken, gateVars
<1> QED
  BY <1>1, PTL DEF Spec, NoAdmissionWhileClosed

(* A new gate is an open Agent without executions or mutations. *)
LEMMA InitRefines == Init => Abstract!Init
BY DEF Init, Abstract!Init, Holding

(* The steps of the gate that the abstract specification sees. *)
LEMMA VisibleSteps ==
  ASSUME IInv, NEW p \in Procs
  PROVE  /\ Execution(p) => Abstract!Enter(p)
         /\ ReleaseExecution(p) => Abstract!Leave(p)
         /\ CloseAdmission(p) => Abstract!Shut
         /\ Drained(p) => Abstract!Grant(p)
         /\ DrainTimeout(p) => Abstract!Reopen
         /\ ReleaseMutation(p) => Abstract!Reopen
<1> USE DEF IInv, Holding
<1>1. Execution(p) => Abstract!Enter(p)
  BY DEF Execution, AdmissionOpen, Abstract!Enter
<1>2. ReleaseExecution(p) => Abstract!Leave(p)
  BY DEF ReleaseExecution, ReleaseOnce, Abstract!Leave
<1>3. CloseAdmission(p) => Abstract!Shut
  <2> SUFFICES ASSUME CloseAdmission(p) PROVE Abstract!Shut
    OBVIOUS
  <2>1. \A q \in Procs : ~ ClosedBy(q)
    BY DEF CloseAdmission, OneOwner, OwnsToken, ClosedBy, GrantedRuns
  <2>2. ~closed
    BY <2>1 DEF FlagsMatchOwner
  <2> QED
    BY <2>2 DEF CloseAdmission, Abstract!Shut
<1>4. Drained(p) => Abstract!Grant(p)
  <2> SUFFICES ASSUME Drained(p) PROVE Abstract!Grant(p)
    OBVIOUS
  <2>1. leases = {} /\ closed
    BY DEF Drained, DrainSignal, CapturedCurrent, DrainedMeansIdle,
           FlagsMatchOwner, ClosedBy
  <2>2. \A q \in Procs : ~(depth[q] > 0)
    BY DEF Drained, OneOwner, OwnsToken, GrantedRuns
  <2>3. \A q \in Procs : depth'[q] > 0 <=> q = p
    BY <2>2 DEF Drained, TypeOK
  <2> QED
    BY <2>1, <2>2, <2>3 DEF Drained, gateVars, Abstract!Grant
<1>5. DrainTimeout(p) => Abstract!Reopen
  <2> SUFFICES ASSUME DrainTimeout(p) PROVE Abstract!Reopen
    OBVIOUS
  <2>1. closed
    BY DEF DrainTimeout, FlagsMatchOwner, ClosedBy
  <2>2. \A q \in Procs : ~(depth[q] > 0)
    BY DEF DrainTimeout, OneOwner, OwnsToken, GrantedRuns
  <2> QED
    BY <2>1, <2>2 DEF DrainTimeout, Abstract!Reopen
<1>6. ReleaseMutation(p) => Abstract!Reopen
  <2> SUFFICES ASSUME ReleaseMutation(p) PROVE Abstract!Reopen
    OBVIOUS
  <2>1. closed
    BY DEF ReleaseMutation, FlagsMatchOwner, ClosedBy, TypeOK
  <2>2. \A q \in Procs : ~(depth'[q] > 0)
    BY DEF ReleaseMutation, Exclusion, TypeOK
  <2> QED
    BY <2>1, <2>2 DEF ReleaseMutation, ReopenedAdmission, Abstract!Reopen
<1> QED
  BY <1>1, <1>2, <1>3, <1>4, <1>5, <1>6

(* The other steps only move tokens and program counters, or the nesting of *)
(* a mutation that is already granted.                                      *)
LEMMA HiddenSteps ==
  ASSUME IInv, NEW p \in Procs,
         \/ RequestMutation(p) \/ NestedMutation(p) \/ ReleaseNested(p)
         \/ TakeToken(p) \/ CancelWait(p) \/ Interrupt(p) \/ ReturnToken(p)
  PROVE  UNCHANGED Abstract!vars
<1>1. leases' = leases /\ closed' = closed
  BY DEF RequestMutation, NestedMutation, ReleaseNested, TakeToken,
         CancelWait, Interrupt, ReturnToken, gateVars
<1>2. \A q \in Procs : depth'[q] > 0 <=> depth[q] > 0
  BY MaxDepthNat DEF IInv, TypeOK, RequestMutation, NestedMutation, ReleaseNested,
         TakeToken, CancelWait, Interrupt, ReturnToken
<1> QED
  BY <1>1, <1>2 DEF Abstract!vars, Holding

(***************************************************************************)
(* MutationInterrupt and Execution implement the readers / writer          *)
(* discipline of AgentExclusion, for any number of goroutines.             *)
(***************************************************************************)
THEOREM GateImplementsExclusion == Spec => ImplementsExclusion
<1>1. IInv /\ [Next]_vars => [Abstract!Next]_(Abstract!vars)
  <2> SUFFICES ASSUME IInv, [Next]_vars PROVE [Abstract!Next]_(Abstract!vars)
    OBVIOUS
  <2>1. CASE Next
    <3> PICK p \in Procs :
          \/ Execution(p) \/ ReleaseExecution(p) \/ CloseAdmission(p)
          \/ Drained(p) \/ DrainTimeout(p) \/ ReleaseMutation(p)
          \/ RequestMutation(p) \/ NestedMutation(p) \/ ReleaseNested(p)
          \/ TakeToken(p) \/ CancelWait(p) \/ Interrupt(p) \/ ReturnToken(p)
      BY <2>1 DEF Next
    <3> QED
      BY VisibleSteps, HiddenSteps DEF Abstract!Next
  <2>2. CASE UNCHANGED vars
    BY <2>2 DEF vars, Abstract!vars, Holding
  <2> QED
    BY <2>1, <2>2
<1> QED
  BY InitRefines, GateInvariant, <1>1, PTL DEF Spec, ImplementsExclusion, Abstract!Spec
=============================================================================
