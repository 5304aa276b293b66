---------------------------- MODULE AdhdDiagnose ----------------------------
(***************************************************************************)
(* One diagnostic cycle of the ADHD engine: Engine.Diagnose in             *)
(* src/internal/adhd/engine.go with the scoring of scoring.go.  The        *)
(* diverge phase is taken from its contract (AdhdDiverge implements it);   *)
(* the phases after it run one after the other, each around one or more    *)
(* calls of the Claude API, any of which may fail or answer with text that *)
(* does not parse.                                                         *)
(*                                                                         *)
(* Text is abstracted to what the phases tell apart: a hypothesis has the  *)
(* identifier the API chose for it (or the one parseDivergeResponse made   *)
(* up), the frame it came from and whether its text matches one of the     *)
(* trap patterns.  Scores are in steps of 0.5, totals in hundredths.       *)
(***************************************************************************)
EXTENDS DivergeContract, Integers, FiniteSetsExt, SequencesExt

CONSTANTS TopK,        \* opts.TopK, 3 when the caller gives none
          WildFrames,  \* frames tagged "wild"
          RawScores,   \* <<likelihood, impact, evidence>> the API may answer, any numbers
          None         \* the nil pointer

ASSUME TopKAssumption == TopK \in Nat \ {0}
ASSUME WildAssumption == WildFrames \subseteq Frames
ASSUME ScoresAssumption == RawScores \subseteq Int \X Int \X Int

VARIABLES
  depth,        \* opts.Depth
  stage,        \* the phase Diagnose is in
  hyps,         \* allHypotheses
  shortlist,    \* prefix of allHypotheses after the sort
  nonObvious,   \* the hypothesis a wild frame adds, or None
  traps,        \* copies of the hypotheses flagged as traps
  clustered,    \* the cluster phase succeeded
  asked,        \* shortlisted hypotheses deepen has asked about
  deepened,     \* identifiers of the hypotheses it got a plan for
  provoked      \* the provocation call succeeded

rankVars == <<shortlist, nonObvious, traps>>
lateVars == <<clustered, asked, deepened, provoked>>
vars == <<contractVars, depth, stage, hyps, rankVars, lateVars>>

Stages == {"diverging", "scoring", "ranking", "clustering", "deepening",
           "provoking", "done", "failed"}

Unscored   == -1     \* Score is the zero struct: no phase has set a total
MidScore   == <<1, 1, 1>>
Clamp(x)   == IF x < 0 THEN 0 ELSE IF x > 2 THEN 2 ELSE x

\* Mutant of Total: scores are used as the API sent them.
TotalUnclamped(s) == (s[1] * 40 + s[2] * 25 + s[3] * 35) \div 2

\* clampFloat on each dimension, then CalculateTotal.
Total(s) == (Clamp(s[1]) * 40 + Clamp(s[2]) * 25 + Clamp(s[3]) * 35) \div 2

Init ==
  /\ ContractInit
  /\ depth \in {"quick", "standard", "deep"}
  /\ stage = "diverging"
  /\ hyps = <<>> /\ shortlist = <<>> /\ nonObvious = None /\ traps = <<>>
  /\ clustered = FALSE /\ asked = 0 /\ deepened = <<>> /\ provoked = FALSE

-----------------------------------------------------------------------------
\* The hypotheses of one branch, as parseDivergeResponse stores them.
OfBranch(b) ==
  [i \in DOMAIN b.answer |->
     [id |-> b.answer[i].id, trapText |-> b.answer[i].trapText,
      frame |-> b.frame, total |-> Unscored, trap |-> FALSE]]

\* diverge returns; the hypotheses of its branches are copied one after the
\* other.  No hypothesis at all ends the cycle without an error.
Diverge ==
  /\ stage = "diverging"
  /\ Return
  /\ hyps' = FlattenSeq([i \in DOMAIN branches' |-> OfBranch(branches'[i])])
  /\ stage' = IF failed' THEN "failed"
              ELSE IF hyps' = <<>> THEN "done" ELSE "scoring"
  /\ UNCHANGED <<depth, rankVars, lateVars>>

Ids == {hyps[i].id : i \in DOMAIN hyps}

\* Mutant of Scored: a score is used up by the first hypothesis with its identifier.
ScoredOnce(hs, t) ==
  [i \in DOMAIN hs |-> [hs[i] EXCEPT !.trap = FALSE,
     !.total = IF \E j \in 1..(i - 1) : hs[j].id = hs[i].id THEN Total(MidScore)
                                                            ELSE t[hs[i].id]]]

Marked(hs)     == [i \in DOMAIN hs |-> [hs[i] EXCEPT !.trap = hs[i].trapText]]
Scored(hs, t)  == [i \in DOMAIN hs |-> [hs[i] EXCEPT !.total = t[hs[i].id], !.trap = FALSE]]
FlaggedOf(hs)  == FlattenSeq([i \in DOMAIN hs |-> IF hs[i].trap THEN <<hs[i]>> ELSE <<>>])

\* Mutant of ScoreThenMark: traps are detected first; storing a score then
\* replaces the whole Score struct, and with it the mark.
MarkThenScore(hs, t) ==
  [hyps |-> Scored(Marked(hs), t), traps |-> FlaggedOf(Marked(hs))]

\* The scores are stored by identifier, t giving the total of each; then
\* DetectTrapsAll marks, in place, every hypothesis whose text is a trap and
\* returns copies of those.
ScoreThenMark(hs, t) ==
  [hyps |-> Marked(Scored(hs, t)), traps |-> FlaggedOf(Marked(Scored(hs, t)))]

\* The scoring call fails, and with it the cycle.
ScoreFails ==
  /\ stage = "scoring"
  /\ stage' = "failed"
  /\ UNCHANGED <<contractVars, depth, hyps, rankVars, lateVars>>

\* The answer of the scoring call gives scores to some identifiers; the others
\* get 0.5 in each dimension.  Text that does not parse scores none.
Score ==
  /\ stage = "scoring"
  /\ \E known \in SUBSET Ids : \E score \in [known -> RawScores] :
       LET total == [id \in Ids |-> IF id \in known THEN Total(score[id])
                                                    ELSE Total(MidScore)]
           after == ScoreThenMark(hyps, total)
       IN  hyps' = after.hyps /\ traps' = after.traps
  /\ stage' = "ranking"
  /\ UNCHANGED <<contractVars, depth, shortlist, nonObvious, lateVars>>

\* sort.Slice is not stable: hypotheses with equal totals come in any order.
Rankings(hs) ==
  {r \in {[i \in DOMAIN hs |-> hs[p[i]]] : p \in Bijection(DOMAIN hs, DOMAIN hs)} :
     \A i, j \in DOMAIN r : i < j => r[i].total >= r[j].total}

Shortlisted(r) == IF Len(r) > TopK THEN SubSeq(r, 1, TopK) ELSE r

\* The first hypothesis of a wild frame, in rank order, whose identifier is
\* not the identifier of a shortlisted one.
NonObviousOf(r) ==
  LET taken == {Shortlisted(r)[i].id : i \in DOMAIN Shortlisted(r)}
      wild  == {i \in DOMAIN r : r[i].id \notin taken /\ r[i].frame \in WildFrames}
  IN  IF wild = {} THEN None ELSE r[Min(wild)]

Rank ==
  /\ stage = "ranking"
  /\ hyps' \in Rankings(hyps)
  /\ shortlist' = Shortlisted(hyps')
  /\ nonObvious' = NonObviousOf(hyps')
  /\ stage' = "clustering"
  /\ UNCHANGED <<contractVars, depth, traps, lateVars>>

\* Mutant of Cluster: the error of the cluster phase is returned.
ClusterOrFail ==
  /\ stage = "clustering"
  /\ clustered' \in BOOLEAN
  /\ stage' = IF ~clustered' THEN "failed"
              ELSE IF depth = "quick" THEN "provoking" ELSE "deepening"
  /\ UNCHANGED <<contractVars, depth, hyps, rankVars, asked, deepened, provoked>>

\* Clustering is best effort: an API error, or text that does not parse,
\* leaves the clusters out.
Cluster ==
  /\ stage = "clustering"
  /\ clustered' \in BOOLEAN
  /\ stage' = IF depth = "quick" THEN "provoking" ELSE "deepening"
  /\ UNCHANGED <<contractVars, depth, hyps, rankVars, asked, deepened, provoked>>

\* deepenOne for the next shortlisted hypothesis.  A failed call skips it.
Deepen ==
  /\ stage = "deepening"
  /\ asked < Len(shortlist)
  /\ asked' = asked + 1
  /\ \/ deepened' = Append(deepened, shortlist[asked'].id)
     \/ deepened' = deepened
  /\ UNCHANGED <<contractVars, depth, stage, hyps, rankVars, clustered, provoked>>

DeepenEnds ==
  /\ stage = "deepening"
  /\ asked = Len(shortlist)
  /\ stage' = "provoking"
  /\ UNCHANGED <<contractVars, depth, hyps, rankVars, lateVars>>

\* The provocation's error is dropped.
Provoke ==
  /\ stage = "provoking"
  /\ provoked' \in BOOLEAN
  /\ stage' = "done"
  /\ UNCHANGED <<contractVars, depth, hyps, rankVars, clustered, asked, deepened>>

Finished == stage \in {"done", "failed"} /\ UNCHANGED vars

Cycle == \/ Diverge \/ ScoreFails \/ Score \/ Rank
         \/ Cluster \/ Deepen \/ DeepenEnds \/ Provoke

Next == Cycle \/ Finished

\* Every call of the Claude API returns, with an answer or with an error.
Spec == Init /\ [][Next]_vars /\ WF_vars(Cycle)

-----------------------------------------------------------------------------
(* Properties.                                                             *)

\* Identifiers that occur in the answers of the diverge phase.
AnswerIds == UNION {{a[i].id : i \in DOMAIN a} : a \in Answers}

Hypothesis == [id : AnswerIds, trapText : BOOLEAN, frame : Frames,
               total : Unscored..100, trap : BOOLEAN]

ASSUME AnswersAssumption == Answers \subseteq Seq([id : AnswerIds, trapText : BOOLEAN])
ASSUME NoneAssumption == None \notin Hypothesis

\* The shape of the cycle's state; a total once given is within 0 and 1.
TypeOK ==
  /\ stage \in Stages
  /\ \A s \in {hyps, shortlist, traps} : \A i \in DOMAIN s : s[i] \in Hypothesis
  /\ nonObvious = None \/ nonObvious \in Hypothesis
  /\ asked \in 0..TopK

Ranked == stage \in {"clustering", "deepening", "provoking"}
            \/ (stage = "done" /\ hyps # <<>>)

\* Trap marks are not lost between the phases: a hypothesis that reaches the user on
\* the shortlist, or as the non-obvious pick, and whose text is a trap carries its mark
\* and is in the list of traps.
TrapMarksSurvive ==
  Ranked =>
    LET trapped == {<<traps[i].frame, traps[i].id, traps[i].total>> : i \in DOMAIN traps}
        shown   == {shortlist[i] : i \in DOMAIN shortlist}
                     \cup (IF nonObvious = None THEN {} ELSE {nonObvious})
    IN  \A h \in shown : h.trapText =>
          h.trap /\ <<h.frame, h.id, h.total>> \in trapped

\* The positions of hyps that a wild frame contributed behind the shortlist.
WildLeft == {i \in DOMAIN hyps : i > Len(shortlist) /\ hyps[i].frame \in WildFrames}

\* The hypothesis at i shares its identifier with a shortlisted one and scored no worse
\* than the last of them.
TiesWithShortlist(i) ==
  /\ \E j \in DOMAIN shortlist : shortlist[j].id = hyps[i].id
  /\ hyps[i].total = shortlist[Len(shortlist)].total

\* The non-obvious pick is behind the shortlist and the best of the wild hypotheses
\* there.  Frames may use the same identifier, and then a wild hypothesis can be passed
\* over as if it were shortlisted; but only one that ties with the end of the shortlist,
\* where the order was arbitrary anyway.
NoWildPassedOver ==
  Ranked =>
    /\ nonObvious # None => \E i \in WildLeft : nonObvious = hyps[i]
    /\ \A i \in WildLeft : \/ nonObvious # None /\ nonObvious.total >= hyps[i].total
                          \/ TiesWithShortlist(i)

\* Once there is a ranking it reaches the user: clustering, deepening and the
\* provocation are best effort, so no failure of theirs discards the shortlist.
RankingDelivered == (stage = "clustering") ~> (stage = "done" /\ shortlist # <<>>)

-----------------------------------------------------------------------------
(* The inductive invariant.                                                *)

\* What diverge returned is of the frames and answers there are.
BranchesTyped == branches \in Seq([frame : Frames, answer : Answers])

\* The shortlist and the pick are taken from the hypotheses.
TakenFromHyps ==
  /\ hyps \in Seq(Hypothesis) /\ traps \in Seq(Hypothesis)
  /\ Ranked => /\ shortlist = Shortlisted(hyps)
               /\ nonObvious = NonObviousOf(hyps)
  /\ ~Ranked => shortlist = <<>> /\ nonObvious = None

\* Once scored, every hypothesis whose text is a trap is marked and listed.
TrapsListed ==
  (Ranked \/ stage = "ranking") =>
    \A i \in DOMAIN hyps : hyps[i].trapText => hyps[i].trap /\ hyps[i] \in ToSet(traps)

\* Once ranked, no hypothesis has a higher total than one before it.
InOrder == Ranked => \A i, j \in DOMAIN hyps : i < j => hyps[i].total >= hyps[j].total

\* A score is of an identifier: hypotheses that share one have the same total.
SameIdSameTotal ==
  (Ranked \/ stage = "ranking") =>
    \A i, j \in DOMAIN hyps : hyps[i].id = hyps[j].id => hyps[i].total = hyps[j].total

\* Past diverge there is something to score, to rank and to show.
SomethingFound == stage \notin {"diverging", "done", "failed"} => hyps # <<>>

IInv == /\ TypeOK /\ BranchesTyped /\ TakenFromHyps
        /\ SomethingFound /\ TrapsListed /\ SameIdSameTotal /\ InOrder
=============================================================================
