--------------------------- MODULE MCAdhdDiagnose ---------------------------
(***************************************************************************)
(* Two frames, the second one wild.  The answers hold one or two           *)
(* hypotheses; "h1" is an identifier both frames use, as separate calls of *)
(* the API do.  TopK = 2 with up to four hypotheses puts the cut of the    *)
(* shortlist inside, before and after a frame's hypotheses.                *)
(***************************************************************************)
EXTENDS AdhdDiagnose

H(i, t) == [id |-> i, trapText |-> t]

MCAnswers == { <<>>,
               <<H("h1", FALSE)>>,
               <<H("h1", FALSE), H("h2", TRUE)>>,
               <<H("h3", TRUE), H("h4", FALSE)>> }

MCRawScores == { <<2, 2, 2>>, <<0, 1, 3>>, <<-1, 0, 1>> }
=============================================================================
