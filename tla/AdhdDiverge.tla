---------------------------- MODULE AdhdDiverge ----------------------------
(***************************************************************************)
(* The diverge phase of the ADHD engine: Engine.diverge in                 *)
(* src/internal/adhd/engine.go.  The calling goroutine starts one          *)
(* goroutine per frame; each waits for one of Concurrency semaphore slots, *)
(* asks the Claude API, writes its own element of the shared results       *)
(* slice, gives the slot back and leaves the wait group.  The caller       *)
(* passes wg.Wait() and only then reads results.                           *)
(*                                                                         *)
(* An answer is a value of Answers: what parseDivergeResponse makes of the *)
(* text.  It never fails (text that is not a JSON array becomes one        *)
(* fallback hypothesis), so a frame fails exactly when Complete does.      *)
(***************************************************************************)
EXTENDS Integers, Sequences, FiniteSets, SequencesExt

CONSTANTS NFrames, Answers, Failure,
          Concurrency,   \* capacity of the channel used as a semaphore
          Unset          \* zero value of an element of results

ASSUME NFramesAssumption     == NFrames \in Nat \ {0}
ASSUME ConcurrencyAssumption == Concurrency \in Nat \ {0}
ASSUME OutcomeAssumption     == /\ Failure \notin Answers
                                /\ Unset \notin Answers \cup {Failure}

Frames   == 1..NFrames
Outcomes == Answers \cup {Failure}

VARIABLES
  caller,    \* where the goroutine that called diverge is
  next,      \* next frame for which a goroutine is started
  worker,    \* where the goroutine of each frame is
  wg,        \* counter of the wait group
  slots,     \* elements in the semaphore channel
  results,   \* the shared slice: one outcome per frame, Unset before
  cancelled, \* the context given by the caller is cancelled
  branches,  \* value returned: the branches
  failed     \* value returned: the "all frames failed" error

vars == <<caller, next, worker, wg, slots, results, cancelled, branches, failed>>

CallerStates == {"spawning", "waiting", "returned"}
WorkerStates ==
  { "unborn",    \* not started yet
    "queued",    \* blocked on sem <- struct{}{}
    "calling",   \* in Complete, entered while the context was live
    "doomed",    \* in Complete, entered after the context was cancelled
    "written",   \* results[idx] assigned, about to run the deferred calls
    "released",  \* slot given back, about to call wg.Done
    "finished" }

InCall  == {f \in Frames : worker[f] \in {"calling", "doomed"}}
Holders == {f \in Frames : worker[f] \in {"calling", "doomed", "written"}}
Unfinished == {f \in Frames : worker[f] \notin {"unborn", "finished"}}

Init ==
  /\ caller = "spawning"
  /\ next = 1
  /\ worker = [f \in Frames |-> "unborn"]
  /\ wg = 0
  /\ slots = 0
  /\ results = [f \in Frames |-> Unset]
  /\ cancelled = FALSE
  /\ branches = <<>>
  /\ failed = FALSE

-----------------------------------------------------------------------------
(* The caller.                                                             *)

\* Mutant of Spawn: the loop runs once more than there are frames.
SpawnOnceTooOften ==
  /\ caller = "spawning"
  /\ worker' = [worker EXCEPT ![next] = "queued"]
  /\ wg' = wg + 1
  /\ next' = next + 1
  /\ caller' = IF next > NFrames THEN "waiting" ELSE "spawning"
  /\ UNCHANGED <<slots, results, cancelled, branches, failed>>

\* wg.Add(1) and the go statement of one iteration of the loop.
Spawn ==
  /\ caller = "spawning"
  /\ worker' = [worker EXCEPT ![next] = "queued"]
  /\ wg' = wg + 1
  /\ next' = next + 1
  /\ caller' = IF next = NFrames THEN "waiting" ELSE "spawning"
  /\ UNCHANGED <<slots, results, cancelled, branches, failed>>

\* Mutants of CollectBranches: a missing "continue" after an error, and
\* branches appended by the goroutines as they finish (last frame first).
CollectWithoutContinue(r) ==
  [f \in Frames |-> [frame |-> f, answer |-> r[f]]]

\* The loop over results: errors are skipped, the order is the slice's.
CollectBranches(r) ==
  FlattenSeq([f \in Frames |-> IF r[f] = Failure THEN <<>> ELSE <<[frame |-> f, answer |-> r[f]]>>])

AllFramesFailed(r) == \A f \in Frames : r[f] = Failure

\* Mutant of Collect: wg.Wait() is missing.
CollectWithoutWait ==
  /\ caller = "waiting"
  /\ branches' = CollectBranches(results)
  /\ failed' = AllFramesFailed(results)
  /\ caller' = "returned"
  /\ UNCHANGED <<next, worker, wg, slots, results, cancelled>>

\* wg.Wait() returns, the results are collected and diverge returns.
Collect ==
  /\ caller = "waiting"
  /\ wg = 0
  /\ branches' = CollectBranches(results)
  /\ failed' = AllFramesFailed(results)
  /\ caller' = "returned"
  /\ UNCHANGED <<next, worker, wg, slots, results, cancelled>>

-----------------------------------------------------------------------------
(* The goroutine of frame f.                                               *)

\* Mutant of Acquire: the semaphore admits one goroutine too many.
AcquireOneTooMany(f) ==
  /\ worker[f] = "queued"
  /\ slots <= Concurrency
  /\ slots' = slots + 1
  /\ worker' = [worker EXCEPT ![f] = IF cancelled THEN "doomed" ELSE "calling"]
  /\ UNCHANGED <<caller, next, wg, results, cancelled, branches, failed>>

\* sem <- struct{}{}: a plain send, the context does not interrupt it.
\* http.NewRequestWithContext on a cancelled context fails in Do.
Acquire(f) ==
  /\ worker[f] = "queued"
  /\ slots < Concurrency
  /\ slots' = slots + 1
  /\ worker' = [worker EXCEPT ![f] = IF cancelled THEN "doomed" ELSE "calling"]
  /\ UNCHANGED <<caller, next, wg, results, cancelled, branches, failed>>

\* Element of results a goroutine writes: idx is a parameter of the closure.
ResultIndex(f) == f

\* Complete returns text: the branch is parsed and stored.
Answer(f, a) ==
  /\ worker[f] = "calling"
  /\ results' = [results EXCEPT ![ResultIndex(f)] = a]
  /\ worker' = [worker EXCEPT ![f] = "written"]
  /\ UNCHANGED <<caller, next, wg, slots, cancelled, branches, failed>>

\* Complete returns an error: transport, cancellation, the client's timeout
\* of two minutes, an HTTP status other than 200, a body it cannot decode,
\* or an empty content array.
Fail(f) ==
  /\ worker[f] \in {"calling", "doomed"}
  /\ results' = [results EXCEPT ![ResultIndex(f)] = Failure]
  /\ worker' = [worker EXCEPT ![f] = "written"]
  /\ UNCHANGED <<caller, next, wg, slots, cancelled, branches, failed>>

\* Mutant of Release: the slot is given back on the success path only.
ReleaseOnSuccessOnly(f) ==
  /\ worker[f] = "written"
  /\ slots' = IF results[f] = Failure THEN slots ELSE slots - 1
  /\ worker' = [worker EXCEPT ![f] = "released"]
  /\ UNCHANGED <<caller, next, wg, results, cancelled, branches, failed>>

\* Deferred calls run last in, first out: the slot is given back ...
Release(f) ==
  /\ worker[f] = "written"
  /\ slots' = slots - 1
  /\ worker' = [worker EXCEPT ![f] = "released"]
  /\ UNCHANGED <<caller, next, wg, results, cancelled, branches, failed>>

\* ... and then wg.Done() is called.
Done(f) ==
  /\ worker[f] = "released"
  /\ wg' = wg - 1
  /\ worker' = [worker EXCEPT ![f] = "finished"]
  /\ UNCHANGED <<caller, next, slots, results, cancelled, branches, failed>>

-----------------------------------------------------------------------------
\* The context of the caller is cancelled, or its deadline passes.
Cancel ==
  /\ ~cancelled
  /\ caller # "returned"
  /\ cancelled' = TRUE
  /\ UNCHANGED <<caller, next, worker, wg, slots, results, branches, failed>>

\* diverge has returned; its goroutines are gone.
Terminated == caller = "returned" /\ UNCHANGED vars

Worker(f) ==
  \/ Acquire(f)
  \/ \E a \in Answers : Answer(f, a)
  \/ Fail(f)
  \/ Release(f)
  \/ Done(f)

Next ==
  \/ Spawn
  \/ Collect
  \/ \E f \in Frames : Worker(f)
  \/ Cancel
  \/ Terminated

(***************************************************************************)
(* The Go scheduler runs every goroutine that can run, and Complete always *)
(* returns: the HTTP client has a timeout.  Whether it returns an answer   *)
(* is not assumed, and neither is a cancellation.                          *)
(***************************************************************************)
Fairness ==
  /\ WF_vars(Spawn)
  /\ WF_vars(Collect)
  /\ \A f \in Frames : WF_vars(Worker(f))

Spec     == Init /\ [][Next]_vars
FairSpec == Spec /\ Fairness

-----------------------------------------------------------------------------
(* Properties.                                                             *)

TypeOK ==
  /\ caller \in CallerStates
  /\ next \in 1..(NFrames + 1)
  /\ worker \in [Frames -> WorkerStates]
  /\ wg \in Int
  /\ slots \in Int
  /\ results \in [Frames -> Outcomes \cup {Unset}]
  /\ cancelled \in BOOLEAN
  /\ failed \in BOOLEAN

\* Never more than Concurrency requests are with the Claude API: the bound
\* DiagnosisOptions calls "Max parallel frames" holds although goroutines
\* queue, fail and finish in any order.
InFlightBound == Cardinality(InCall) <= Concurrency

\* When diverge has returned no goroutine it started is left running, so none
\* can write results, or use the cluster snapshot, behind Diagnose's back.
NoGoroutineOutlivesCall ==
  caller = "returned" => \A f \in Frames : worker[f] = "finished"

\* A frame's outcome is stored once and survives the other goroutines: its
\* element of results is never overwritten after it was assigned.
ResultsWrittenOnce ==
  [][\A f \in Frames : results[f] # Unset => results'[f] = results[f]]_vars

\* diverge returns, whichever frames fail and whenever the context is
\* cancelled: no goroutine waits forever for a slot.
Termination == <>(caller = "returned")

(***************************************************************************)
(* The inductive invariant: the two counters count what they stand for,    *)
(* goroutines are started in order, and one that has written its outcome   *)
(* has written a real one.                                                 *)
(***************************************************************************)
CountersExact ==
  /\ wg = Cardinality(Unfinished)
  /\ slots = Cardinality(Holders)
  /\ slots <= Concurrency

SpawnedInOrder ==
  /\ \A f \in Frames : worker[f] = "unborn" <=> f >= next
  /\ caller = "spawning" <=> next <= NFrames

OutcomeOnce ==
  \A f \in Frames :
    results[f] = Unset <=> worker[f] \in {"unborn", "queued", "calling", "doomed"}

\* The semaphore and the wait group agree with the goroutines at every moment,
\* which is what makes the bound, the wait and the collected results right.
IInv ==
  /\ TypeOK
  /\ CountersExact
  /\ SpawnedInOrder
  /\ OutcomeOnce
  /\ NoGoroutineOutlivesCall

(***************************************************************************)
(* The fan-out implements the contract: the branches returned are those of *)
(* the frames that answered, in frame order, and failed says that none     *)
(* did.                                                                    *)
(***************************************************************************)
Contract == INSTANCE DivergeContract WITH returned <- (caller = "returned")

ImplementsContract == Contract!ContractSpec
=============================================================================
