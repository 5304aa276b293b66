-------------------------- MODULE DivergeContract --------------------------
(***************************************************************************)
(* What Engine.diverge (src/internal/adhd/engine.go) promises its caller,  *)
(* with the goroutines, the semaphore and the wait group left out: every   *)
(* frame is asked once, the answers come back in the order of the frames   *)
(* whatever the order in which they arrived, frames that failed are left   *)
(* out, and the call fails only when no frame at all answered.             *)
(*                                                                         *)
(* AdhdDiverge implements this module; AdhdDiagnose is built on it.        *)
(***************************************************************************)
EXTENDS Naturals, Sequences, SequencesExt

CONSTANTS NFrames,   \* number of frames SelectFrames returned
          Answers,   \* parsed answers a frame can get from the Claude API
          Failure    \* outcome of a frame whose API call returned an error

\* FrameCount <= 0 is replaced by its default before frames are selected, and
\* SelectFrames clips it to the ten defined frames, so there is at least one.
ASSUME NFramesAssumption == NFrames \in Nat \ {0}
ASSUME FailureAssumption == Failure \notin Answers

Frames   == 1..NFrames
Outcomes == Answers \cup {Failure}

(***************************************************************************)
(* The two values diverge returns, as functions of the frames' outcomes.   *)
(***************************************************************************)
InFrameOrder(o) ==
  FlattenSeq([f \in Frames |-> IF o[f] = Failure THEN <<>> ELSE <<[frame |-> f, answer |-> o[f]]>>])

NoneAnswered(o) == \A f \in Frames : o[f] = Failure

VARIABLES returned,   \* diverge has returned to Diagnose
          branches,   \* the branches it returned
          failed      \* it returned the "all frames failed" error

contractVars == <<returned, branches, failed>>

ContractInit == returned = FALSE /\ branches = <<>> /\ failed = FALSE

Return ==
  /\ ~returned
  /\ \E o \in [Frames -> Outcomes] :
       /\ branches' = InFrameOrder(o)
       /\ failed' = NoneAnswered(o)
  /\ returned' = TRUE

ContractSpec == ContractInit /\ [][Return]_contractVars
=============================================================================
