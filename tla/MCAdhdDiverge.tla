-------------------------- MODULE MCAdhdDiverge --------------------------
(***************************************************************************)
(* Three frames over two slots: one goroutine always has to queue.         *)
(***************************************************************************)
EXTENDS AdhdDiverge, TLC

CONSTANTS a1, a2
MCAnswers == {a1, a2}
AnswerSymmetry == Permutations(MCAnswers)
=============================================================================
