------------------------ MODULE AdhdDiverge_proofs ------------------------
(***************************************************************************)
(* Proofs about the fan-out of AdhdDiverge, for every number of frames,    *)
(* every semaphore capacity and every set of answers.                      *)
(***************************************************************************)
EXTENDS AdhdDiverge, FiniteSetTheorems, TLAPS

USE NFramesAssumption, ConcurrencyAssumption, OutcomeAssumption

\* The goroutines of a call form a finite set, so that they can be counted.
LEMMA FramesFinite ==
  /\ IsFiniteSet(Frames)
  /\ \A S \in SUBSET Frames : IsFiniteSet(S)
<1>1. 1 \in Int /\ NFrames \in Int
  OBVIOUS
<1>2. IsFiniteSet(Frames)
  BY <1>1, FS_Interval DEF Frames
<1> QED
  BY <1>2, FS_Subset

(***************************************************************************)
(* Counting lemmas: what one goroutine joining or leaving a set of frames  *)
(* does to the set's size.                                                 *)
(***************************************************************************)
LEMMA JoinCount ==
  ASSUME NEW S \in SUBSET Frames, NEW T \in SUBSET Frames, NEW f \in Frames,
         f \notin S, T = S \cup {f}
  PROVE  /\ Cardinality(S) \in Nat
         /\ Cardinality(T) = Cardinality(S) + 1
BY FramesFinite, FS_AddElement, FS_CardinalityType

LEMMA LeaveCount ==
  ASSUME NEW S \in SUBSET Frames, NEW T \in SUBSET Frames, NEW f \in Frames,
         f \in S, T = S \ {f}
  PROVE  /\ Cardinality(S) \in Nat
         /\ Cardinality(T) = Cardinality(S) - 1
BY FramesFinite, FS_RemoveElement, FS_CardinalityType

-----------------------------------------------------------------------------
LEMMA InitIInv == Init => IInv
<1> SUFFICES ASSUME Init PROVE IInv
  OBVIOUS
<1>1. Unfinished = {} /\ Holders = {}
  BY DEF Init, Unfinished, Holders
<1>2. CountersExact
  BY <1>1, FS_EmptySet DEF Init, CountersExact
<1>3. TypeOK
  <2>1. worker \in [Frames -> WorkerStates]
        /\ results \in [Frames -> Outcomes \cup {Unset}]
    BY DEF Init, WorkerStates
  <2>2. next \in 1..(NFrames + 1)
    BY DEF Init
  <2>3. caller \in CallerStates /\ wg \in Int /\ slots \in Int
    BY DEF Init, CallerStates
  <2>4. cancelled \in BOOLEAN /\ failed \in BOOLEAN
    BY Zenon DEF Init
  <2> QED
    BY <2>1, <2>2, <2>3, <2>4 DEF TypeOK
<1>4. SpawnedInOrder /\ OutcomeOnce /\ NoGoroutineOutlivesCall
  BY DEF Init, SpawnedInOrder, OutcomeOnce, NoGoroutineOutlivesCall, Frames
<1> QED
  BY <1>2, <1>3, <1>4 DEF IInv

\* The caller's next goroutine joins the wait group before it can run.
LEMMA SpawnIInv == IInv /\ Spawn => IInv'
<1> SUFFICES ASSUME IInv, Spawn PROVE IInv'
  OBVIOUS
<1> USE DEF IInv
<1>1. next \in Frames /\ worker[next] = "unborn"
  BY DEF Spawn, TypeOK, SpawnedInOrder, Frames
<1>2. TypeOK'
  BY <1>1 DEF Spawn, TypeOK, CallerStates, WorkerStates, Frames
<1>3. CountersExact'
  <2>1. Holders' = Holders
    BY <1>1 DEF Spawn, TypeOK, Holders
  <2>2. Unfinished' = Unfinished \cup {next} /\ next \notin Unfinished
    BY <1>1 DEF Spawn, TypeOK, Unfinished
  <2>3. Cardinality(Unfinished') = Cardinality(Unfinished) + 1
    BY <1>1, <2>2, JoinCount DEF Unfinished
  <2> QED
    BY <2>1, <2>3 DEF Spawn, CountersExact
<1>4. SpawnedInOrder'
  BY <1>1 DEF Spawn, TypeOK, SpawnedInOrder, Frames
<1>5. OutcomeOnce'
  BY <1>1 DEF Spawn, TypeOK, OutcomeOnce
<1>6. NoGoroutineOutlivesCall'
  BY DEF Spawn, NoGoroutineOutlivesCall
<1> QED
  BY <1>2, <1>3, <1>4, <1>5, <1>6

\* Once the counter is back at zero, every goroutine was started and has left.
LEMMA AllFinishedWhenCollected ==
  IInv /\ Collect => \A f \in Frames : worker[f] = "finished"
<1> SUFFICES ASSUME IInv, Collect PROVE \A f \in Frames : worker[f] = "finished"
  OBVIOUS
<1>1. Unfinished = {}
  BY FramesFinite, FS_EmptySet DEF IInv, CountersExact, Collect, Unfinished
<1>2. next = NFrames + 1
  BY DEF IInv, TypeOK, SpawnedInOrder, Collect
<1>3. \A f \in Frames : worker[f] # "unborn"
  BY <1>2 DEF IInv, SpawnedInOrder, Frames
<1> QED
  BY <1>1, <1>3 DEF Unfinished

LEMMA CollectIInv == IInv /\ Collect => IInv'
<1> SUFFICES ASSUME IInv, Collect PROVE IInv'
  OBVIOUS
<1> USE DEF IInv
<1>1. TypeOK'
  BY DEF Collect, TypeOK, CallerStates, AllFramesFailed
<1>2. CountersExact'
  BY DEF Collect, CountersExact, Unfinished, Holders
<1>3. SpawnedInOrder' /\ OutcomeOnce'
  BY DEF Collect, SpawnedInOrder, OutcomeOnce
<1>4. NoGoroutineOutlivesCall'
  BY AllFinishedWhenCollected DEF Collect, NoGoroutineOutlivesCall
<1> QED
  BY <1>1, <1>2, <1>3, <1>4

\* A goroutine takes a slot only when one is free, so the bound is kept.
LEMMA AcquireIInv ==
  ASSUME NEW f \in Frames, IInv, Acquire(f)
  PROVE  IInv'
<1> USE DEF IInv
<1>1. worker' \in [Frames -> WorkerStates] /\ worker'[f] \in {"calling", "doomed"}
      /\ \A g \in Frames \ {f} : worker'[g] = worker[g]
  BY DEF Acquire, TypeOK, WorkerStates
<1>2. TypeOK'
  BY <1>1 DEF Acquire, TypeOK
<1>3. CountersExact'
  <2>1. Unfinished' = Unfinished
    BY <1>1 DEF Acquire, Unfinished
  <2>2. Holders' = Holders \cup {f} /\ f \notin Holders
    BY <1>1 DEF Acquire, Holders
  <2>3. Cardinality(Holders') = Cardinality(Holders) + 1
    BY <2>2, JoinCount DEF Holders
  <2> QED
    BY <2>1, <2>3 DEF Acquire, CountersExact, TypeOK
<1>4. SpawnedInOrder' /\ OutcomeOnce' /\ NoGoroutineOutlivesCall'
  BY <1>1 DEF Acquire, SpawnedInOrder, OutcomeOnce, NoGoroutineOutlivesCall
<1> QED
  BY <1>2, <1>3, <1>4

\* What Answer and Fail have in common: frame f stores outcome o.
LEMMA StoreIInv ==
  ASSUME NEW f \in Frames, NEW o \in Outcomes, IInv,
         worker[f] \in {"calling", "doomed"},
         results' = [results EXCEPT ![f] = o],
         worker' = [worker EXCEPT ![f] = "written"],
         UNCHANGED <<caller, next, wg, slots, cancelled, branches, failed>>
  PROVE  IInv'
<1> USE DEF IInv
<1>1. o # Unset
  BY DEF Outcomes
<1>2. TypeOK'
  BY DEF TypeOK, WorkerStates
<1>3. CountersExact'
  <2>1. Unfinished' = Unfinished
    BY DEF Unfinished, TypeOK
  <2>2. Holders' = Holders
    BY DEF Holders, TypeOK
  <2> QED
    BY <2>1, <2>2 DEF CountersExact
<1>4. SpawnedInOrder' /\ NoGoroutineOutlivesCall'
  BY DEF SpawnedInOrder, NoGoroutineOutlivesCall, TypeOK
<1>5. OutcomeOnce'
  BY <1>1 DEF OutcomeOnce, TypeOK
<1> QED
  BY <1>2, <1>3, <1>4, <1>5

LEMMA ReleaseIInv ==
  ASSUME NEW f \in Frames, IInv, Release(f)
  PROVE  IInv'
<1> USE DEF IInv
<1>1. TypeOK'
  BY DEF Release, TypeOK, WorkerStates
<1>2. CountersExact'
  <2>1. Unfinished' = Unfinished
    BY DEF Release, Unfinished, TypeOK
  <2>2. Holders' = Holders \ {f} /\ f \in Holders
    BY DEF Release, Holders, TypeOK
  <2>3. Cardinality(Holders') = Cardinality(Holders) - 1
        /\ Cardinality(Holders) \in Nat
    BY <2>2, LeaveCount DEF Holders
  <2> QED
    BY <2>1, <2>3 DEF Release, CountersExact, TypeOK
<1>3. SpawnedInOrder' /\ OutcomeOnce' /\ NoGoroutineOutlivesCall'
  BY DEF Release, SpawnedInOrder, OutcomeOnce, NoGoroutineOutlivesCall, TypeOK
<1> QED
  BY <1>1, <1>2, <1>3

LEMMA DoneIInv ==
  ASSUME NEW f \in Frames, IInv, Done(f)
  PROVE  IInv'
<1> USE DEF IInv
<1>1. TypeOK'
  BY DEF Done, TypeOK, WorkerStates
<1>2. CountersExact'
  <2>1. Holders' = Holders
    BY DEF Done, Holders, TypeOK
  <2>2. Unfinished' = Unfinished \ {f} /\ f \in Unfinished
    BY DEF Done, Unfinished, TypeOK
  <2>3. Cardinality(Unfinished') = Cardinality(Unfinished) - 1
    BY <2>2, LeaveCount DEF Unfinished
  <2> QED
    BY <2>1, <2>3 DEF Done, CountersExact, TypeOK
<1>3. SpawnedInOrder' /\ OutcomeOnce' /\ NoGoroutineOutlivesCall'
  BY DEF Done, SpawnedInOrder, OutcomeOnce, NoGoroutineOutlivesCall, TypeOK
<1> QED
  BY <1>1, <1>2, <1>3

\* Steps that leave every goroutine, counter and result alone.
LEMMA IdleIInv ==
  ASSUME IInv, Cancel \/ UNCHANGED vars
  PROVE  IInv'
<1>1. UNCHANGED <<caller, next, worker, wg, slots, results, branches, failed>>
      /\ cancelled' \in BOOLEAN
  BY DEF Cancel, vars, IInv, TypeOK
<1>2. Unfinished' = Unfinished /\ Holders' = Holders
  BY <1>1 DEF Unfinished, Holders
<1> QED
  BY <1>1, <1>2 DEF IInv, TypeOK, CountersExact, SpawnedInOrder, OutcomeOnce,
                    NoGoroutineOutlivesCall

LEMMA NextIInv == IInv /\ [Next]_vars => IInv'
<1> SUFFICES ASSUME IInv, [Next]_vars PROVE IInv'
  OBVIOUS
<1>1. CASE Spawn
  BY <1>1, SpawnIInv
<1>2. CASE Collect
  BY <1>2, CollectIInv
<1>3. ASSUME NEW f \in Frames, Worker(f) PROVE IInv'
  <2>1. CASE Acquire(f)
    BY <2>1, AcquireIInv
  <2>2. ASSUME NEW a \in Answers, Answer(f, a) PROVE IInv'
    BY <2>2, StoreIInv DEF Answer, ResultIndex, Outcomes
  <2>3. CASE Fail(f)
    BY <2>3, StoreIInv DEF Fail, ResultIndex, Outcomes
  <2>4. CASE Release(f)
    BY <2>4, ReleaseIInv
  <2>5. CASE Done(f)
    BY <2>5, DoneIInv
  <2> QED
    BY <1>3, <2>1, <2>2, <2>3, <2>4, <2>5 DEF Worker
<1>4. CASE Cancel \/ UNCHANGED vars
  BY <1>4, IdleIInv
<1> QED
  BY <1>1, <1>2, <1>3, <1>4 DEF Next, Terminated

(***************************************************************************)
(* The invariant holds in every reachable state: the semaphore counts the  *)
(* goroutines that hold a slot, the wait group those that have not left,   *)
(* and every goroutine past its call has stored a real outcome.            *)
(***************************************************************************)
THEOREM Invariant == Spec => []IInv
BY InitIInv, NextIInv, PTL DEF Spec

(***************************************************************************)
(* Type correctness of the state of diverge.                               *)
(***************************************************************************)
THEOREM TypeCorrect == Spec => []TypeOK
<1>1. IInv => TypeOK
  BY DEF IInv
<1> QED
  BY <1>1, Invariant, PTL

(***************************************************************************)
(* At most Concurrency requests are ever in flight at the Claude API.      *)
(***************************************************************************)
THEOREM RequestsBounded == Spec => []InFlightBound
<1>1. IInv => InFlightBound
  <2> SUFFICES ASSUME IInv PROVE InFlightBound
    OBVIOUS
  <2>1. InCall \subseteq Holders /\ IsFiniteSet(Holders)
    BY FramesFinite DEF InCall, Holders
  <2>2. Cardinality(InCall) <= Cardinality(Holders)
        /\ Cardinality(InCall) \in Nat /\ Cardinality(Holders) \in Nat
    BY <2>1, FS_Subset, FS_CardinalityType
  <2> QED
    BY <2>2 DEF IInv, CountersExact, InFlightBound
<1> QED
  BY <1>1, Invariant, PTL

(***************************************************************************)
(* diverge never returns while a goroutine it started is still running.    *)
(***************************************************************************)
THEOREM NoneOutlivesCall == Spec => []NoGoroutineOutlivesCall
<1>1. IInv => NoGoroutineOutlivesCall
  BY DEF IInv
<1> QED
  BY <1>1, Invariant, PTL

(***************************************************************************)
(* No outcome is overwritten once it has been stored.                      *)
(***************************************************************************)
THEOREM OutcomesStoredOnce == Spec => ResultsWrittenOnce
<1>1. IInv /\ [Next]_vars =>
        [\A f \in Frames : results[f] # Unset => results'[f] = results[f]]_vars
  <2> SUFFICES ASSUME IInv, Next, NEW f \in Frames, results[f] # Unset
               PROVE  results'[f] = results[f]
    BY DEF vars
  <2>1. worker[f] \notin {"calling", "doomed"}
    BY DEF IInv, OutcomeOnce
  <2>2. CASE \E g \in Frames : \/ \E a \in Answers : Answer(g, a)
                               \/ Fail(g)
    BY <2>1, <2>2 DEF Answer, Fail, ResultIndex, IInv, TypeOK
  <2>3. CASE UNCHANGED results
    BY <2>3
  <2> QED
    BY <2>2, <2>3 DEF Next, Worker, Spawn, Collect, Acquire, Release, Done,
                      Cancel, Terminated, vars
<1> QED
  BY <1>1, Invariant, PTL DEF Spec, ResultsWrittenOnce

(***************************************************************************)
(* The goroutines, the semaphore and the wait group together implement the *)
(* contract that Diagnose relies on.                                       *)
(***************************************************************************)
THEOREM DivergeImplementsContract == Spec => ImplementsContract
<1>1. Init => Contract!ContractInit
  BY DEF Init, Contract!ContractInit
<1>2. IInv /\ [Next]_vars => [Contract!Return]_(Contract!contractVars)
  <2> SUFFICES ASSUME IInv, [Next]_vars
               PROVE  Contract!Return \/ UNCHANGED Contract!contractVars
    OBVIOUS
  <2>1. CASE Collect
    <3>1. results \in [Contract!Frames -> Contract!Outcomes]
      BY <2>1, AllFinishedWhenCollected
         DEF IInv, TypeOK, OutcomeOnce, Frames, Outcomes,
             Contract!Frames, Contract!Outcomes
    <3>2. branches' = Contract!InFrameOrder(results)
      <4>1. \A s : FlattenSeq(s) = Contract!FlattenSeq(s)
        BY DEF FlattenSeq, Contract!FlattenSeq
      <4> QED BY <2>1, <4>1 DEF Collect, CollectBranches, Contract!InFrameOrder, Frames,
                                Contract!Frames
    <3>3. failed' = Contract!NoneAnswered(results)
      BY <2>1 DEF Collect, AllFramesFailed, Contract!NoneAnswered, Frames,
                  Contract!Frames
    <3>4. caller # "returned" /\ caller' = "returned"
      BY <2>1 DEF Collect
    <3> QED
      BY <3>1, <3>2, <3>3, <3>4 DEF Contract!Return
  <2>2. CASE Spawn
    BY <2>2 DEF Spawn, Contract!contractVars
  <2>3. CASE UNCHANGED <<caller, branches, failed>>
    BY <2>3 DEF Contract!contractVars
  <2> QED
    BY <2>1, <2>2, <2>3 DEF Next, Worker, Acquire, Answer, Fail, Release, Done,
                            Cancel, Terminated, vars
<1> QED
  BY <1>1, <1>2, Invariant, PTL DEF Spec, ImplementsContract, Contract!ContractSpec
=============================================================================
