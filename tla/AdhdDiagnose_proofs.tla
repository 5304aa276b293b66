------------------------ MODULE AdhdDiagnose_proofs ------------------------
(***************************************************************************)
(* Proofs about one diagnostic cycle of the ADHD engine.                   *)
(***************************************************************************)
EXTENDS AdhdDiagnose, WellFoundedInduction, TLAPS

-----------------------------------------------------------------------------
(* Least numbers and flattened sequences.                                  *)

\* A set of numbers that is not empty has a least one.
LEMMA LeastNumber ==
  ASSUME NEW T, T \subseteq Nat, T # {}
  PROVE  \E n \in T : \A m \in T : n <= m
<1> DEFINE R == {ss \in Nat \X Nat : ss[1] < ss[2]}
<1>1. OpToRel(<, Nat) = R
  BY DEF OpToRel
<1>2. IsWellFoundedOn(R, Nat)
  BY <1>1, NatLessThanWellFounded
<1>3. \E n \in T : \A m \in T : ~(<<m, n>> \in R)
  <2> HIDE DEF R
  <2> QED BY <1>2, WFMin
<1>4. PICK n \in T : \A m \in T : ~(<<m, n>> \in R)
  BY <1>3
<1>5. \A m \in T : ~(m < n)
  <2> SUFFICES ASSUME NEW m \in T, m < n PROVE FALSE
    OBVIOUS
  <2>1. <<m, n>> \in Nat \X Nat
    OBVIOUS
  <2>2. <<m, n>> \in R
    BY <2>1
  <2> QED BY <2>2, <1>4
<1> QED BY <1>5

LEMMA MinIn ==
  ASSUME NEW T, T \subseteq Nat, T # {}
  PROVE  Min(T) \in T
BY LeastNumber DEF Min

\* f is what FlattenSeq computes of the first n sequences.
Flattens(f, ss, n) == f = [i \in 1..n |-> IF i = 1 THEN ss[i] ELSE f[i - 1] \o ss[i]]

LEMMA FlattensOne ==
  ASSUME NEW ss, NEW n \in Nat, NEW f, Flattens(f, ss, n), NEW i \in 1..n
  PROVE  f[i] = IF i = 1 THEN ss[i] ELSE f[i - 1] \o ss[i]
BY DEF Flattens

\* One more sequence can be added to what was flattened.
LEMMA FlattensMore ==
  ASSUME NEW ss, NEW n \in Nat, \E f : Flattens(f, ss, n)
  PROVE  \E f : Flattens(f, ss, n + 1)
<1> PICK f : Flattens(f, ss, n)
  OBVIOUS
<1> DEFINE g == [i \in 1..(n + 1) |-> IF i = 1 THEN ss[i] ELSE f[i - 1] \o ss[i]]
<1>1. \A i \in 1..n : g[i] = f[i]
  <2> SUFFICES ASSUME NEW i \in 1..n PROVE g[i] = f[i]
    OBVIOUS
  <2>1. i \in 1..(n + 1)
    OBVIOUS
  <2> QED BY <2>1, FlattensOne
<1>2. \A i \in 1..(n + 1) : g[i] = IF i = 1 THEN ss[i] ELSE g[i - 1] \o ss[i]
  <2> SUFFICES ASSUME NEW i \in 1..(n + 1)
               PROVE  g[i] = IF i = 1 THEN ss[i] ELSE g[i - 1] \o ss[i]
    OBVIOUS
  <2>1. CASE i = 1
    BY <2>1
  <2>2. CASE i # 1
    <3>1. i - 1 \in 1..n
      BY <2>2
    <3>2. g[i - 1] = f[i - 1]
      BY <3>1, <1>1
    <3>3. g[i] = f[i - 1] \o ss[i]
      BY <2>2
    <3> HIDE DEF g
    <3> QED BY <3>2, <3>3, <2>2
  <2> QED BY <2>1, <2>2
<1>3. g = [i \in 1..(n + 1) |-> g[i]]
  OBVIOUS
<1>4. Flattens(g, ss, n + 1)
  <2> HIDE DEF g
  <2> QED BY <1>2, <1>3 DEF Flattens
<1> QED BY <1>4

LEMMA FlattensExists ==
  ASSUME NEW ss, NEW n \in Nat
  PROVE  \E f : Flattens(f, ss, n)
<1> DEFINE Bad == {m \in Nat : ~\E f : Flattens(f, ss, m)}
<1> SUFFICES Bad = {}
  OBVIOUS
<1> SUFFICES ASSUME Bad # {} PROVE FALSE
  OBVIOUS
<1>1. PICK m \in Bad : \A k \in Bad : m <= k
  <2>1. Bad \subseteq Nat
    OBVIOUS
  <2> HIDE DEF Bad
  <2> QED BY <2>1, LeastNumber
<1>2. m # 0
  <2>1. Flattens([i \in 1..0 |-> ss[i]], ss, 0)
    BY DEF Flattens
  <2> QED BY <2>1
<1>3. m \in Nat /\ m - 1 \in Nat /\ ~(m <= m - 1) /\ (m - 1) + 1 = m
  BY <1>2
<1>4. m - 1 \notin Bad
  <2> HIDE DEF Bad
  <2> QED BY <1>1, <1>3
<1>5. \E f : Flattens(f, ss, m - 1)
  BY <1>3, <1>4
<1>6. \E f : Flattens(f, ss, (m - 1) + 1)
  BY <1>3, <1>5, FlattensMore
<1> QED BY <1>3, <1>6

LEMMA FlattensTyped ==
  ASSUME NEW S, NEW n \in Nat, NEW ss, \A i \in 1..n : ss[i] \in Seq(S),
         NEW f, Flattens(f, ss, n)
  PROVE  \A i \in 1..n : f[i] \in Seq(S)
<1> DEFINE Bad == {i \in 1..n : f[i] \notin Seq(S)}
<1> SUFFICES ASSUME Bad # {} PROVE FALSE
  OBVIOUS
<1>1. PICK m \in Bad : \A k \in Bad : m <= k
  <2>1. Bad \subseteq Nat
    OBVIOUS
  <2> HIDE DEF Bad
  <2> QED BY <2>1, LeastNumber
<1>2. m \in 1..n /\ f[m] = IF m = 1 THEN ss[m] ELSE f[m - 1] \o ss[m]
  BY FlattensOne
<1>3. m # 1
  BY <1>2
<1>4. m - 1 \in 1..n /\ ~(m <= m - 1)
  BY <1>2, <1>3
<1>5. m - 1 \notin Bad
  <2> HIDE DEF Bad
  <2> QED BY <1>1, <1>4
<1>6. f[m - 1] \in Seq(S) /\ ss[m] \in Seq(S)
  BY <1>2, <1>4, <1>5
<1>7. f[m] \in Seq(S)
  BY <1>2, <1>3, <1>6
<1> QED BY <1>7

\* Flattening sequences of members of S gives such a sequence.
LEMMA FlattenTyped ==
  ASSUME NEW S, NEW ss \in Seq(Seq(S))
  PROVE  FlattenSeq(ss) \in Seq(S)
<1> DEFINE n == Len(ss)
           F == CHOOSE f : f = [i \in 1..n |-> IF i = 1 THEN ss[i] ELSE f[i - 1] \o ss[i]]
<1>1. n \in Nat /\ \A i \in 1..n : ss[i] \in Seq(S)
  OBVIOUS
<1>2. Flattens(F, ss, n)
  <2>1. \E f : Flattens(f, ss, n)
    BY <1>1, FlattensExists
  <2> QED BY <2>1 DEF Flattens
<1>3. \A i \in 1..n : F[i] \in Seq(S)
  <2> HIDE DEF F, n
  <2> QED BY <1>1, <1>2, FlattensTyped
<1>4. FlattenSeq(ss) = IF n = 0 THEN ss ELSE F[n]
  BY DEF FlattenSeq
<1>5. n = 0 => ss = <<>>
  OBVIOUS
<1> QED
  <2> HIDE DEF F, n
  <2> QED BY <1>1, <1>3, <1>4, <1>5


LEMMA ConcatHolds ==
  ASSUME NEW S, NEW a \in Seq(S), NEW b \in Seq(S)
  PROVE  ToSet(a) \subseteq ToSet(a \o b) /\ ToSet(b) \subseteq ToSet(a \o b)
<1> DEFINE c == a \o b
<1>1. /\ DOMAIN a = 1..Len(a) /\ DOMAIN b = 1..Len(b) /\ DOMAIN c = 1..(Len(a) + Len(b))
      /\ Len(a) \in Nat /\ Len(b) \in Nat
  OBVIOUS
<1>2. \A i \in 1..Len(a) : c[i] = a[i] /\ i \in DOMAIN c
  OBVIOUS
<1>3. \A i \in 1..Len(b) : c[Len(a) + i] = b[i] /\ Len(a) + i \in DOMAIN c
  OBVIOUS
<1> HIDE DEF c
<1>4. ToSet(a) \subseteq ToSet(c)
  BY <1>1, <1>2 DEF ToSet
<1>5. ToSet(b) \subseteq ToSet(c)
  BY <1>1, <1>3 DEF ToSet
<1> QED BY <1>4, <1>5 DEF c

\* Nothing gets lost in flattening.
LEMMA FlattensHolds ==
  ASSUME NEW S, NEW n \in Nat, NEW ss, \A i \in 1..n : ss[i] \in Seq(S),
         NEW f, Flattens(f, ss, n), NEW k \in 1..n
  PROVE  \A i \in k..n : ToSet(ss[k]) \subseteq ToSet(f[i])
<1> DEFINE Bad == {i \in k..n : ~(ToSet(ss[k]) \subseteq ToSet(f[i]))}
<1> SUFFICES ASSUME Bad # {} PROVE FALSE
  OBVIOUS
<1>1. PICK m \in Bad : \A i \in Bad : m <= i
  <2>1. Bad \subseteq Nat
    OBVIOUS
  <2> HIDE DEF Bad
  <2> QED BY <2>1, LeastNumber
<1>2. m \in 1..n /\ m \in k..n
  OBVIOUS
<1>3. f[m] = IF m = 1 THEN ss[m] ELSE f[m - 1] \o ss[m]
  BY <1>2, FlattensOne
<1>4. CASE m = 1
  BY <1>2, <1>3, <1>4
<1>5. CASE m # 1
  <2>1. f[m - 1] \in Seq(S) /\ ss[m] \in Seq(S)
    BY <1>2, <1>5, FlattensTyped
  <2>2. ToSet(f[m - 1]) \subseteq ToSet(f[m]) /\ ToSet(ss[m]) \subseteq ToSet(f[m])
    BY <1>3, <1>5, <2>1, ConcatHolds
  <2>3. CASE m = k
    BY <2>2, <2>3
  <2>4. CASE m # k
    <3>1. m - 1 \in k..n /\ ~(m <= m - 1)
      BY <1>2, <2>4
    <3>2. m - 1 \notin Bad
      <4> HIDE DEF Bad
      <4> QED BY <1>1, <3>1
    <3>3. ToSet(ss[k]) \subseteq ToSet(f[m - 1])
      BY <3>1, <3>2
    <3> QED BY <2>2, <3>3
  <2> QED BY <2>3, <2>4
<1> QED BY <1>4, <1>5

LEMMA FlattenHolds ==
  ASSUME NEW S, NEW ss \in Seq(Seq(S)), NEW k \in DOMAIN ss
  PROVE  ToSet(ss[k]) \subseteq ToSet(FlattenSeq(ss))
<1> DEFINE n == Len(ss)
           F == CHOOSE f : f = [i \in 1..n |-> IF i = 1 THEN ss[i] ELSE f[i - 1] \o ss[i]]
<1>1. n \in Nat /\ k \in 1..n /\ n \in k..n /\ \A i \in 1..n : ss[i] \in Seq(S)
  OBVIOUS
<1>2. Flattens(F, ss, n)
  <2>1. \E f : Flattens(f, ss, n)
    BY <1>1, FlattensExists
  <2> QED BY <2>1 DEF Flattens
<1>3. ToSet(ss[k]) \subseteq ToSet(F[n])
  <2> HIDE DEF F, n
  <2> QED BY <1>1, <1>2, FlattensHolds
<1>4. FlattenSeq(ss) = IF n = 0 THEN ss ELSE F[n]
  BY DEF FlattenSeq
<1> QED
  <2> HIDE DEF F, n
  <2> QED BY <1>1, <1>3, <1>4

-----------------------------------------------------------------------------
(* The operators of the phases.                                            *)

\* Whatever numbers the API answers, a total is within 0 and 1.
LEMMA TotalInRange ==
  ASSUME NEW s \in Int \X Int \X Int
  PROVE  Total(s) \in 0..100
<1>1. \A x \in Int : Clamp(x) \in 0..2
  BY DEF Clamp
<1>2. s[1] \in Int /\ s[2] \in Int /\ s[3] \in Int
  OBVIOUS
<1>3. Clamp(s[1]) \in 0..2 /\ Clamp(s[2]) \in 0..2 /\ Clamp(s[3]) \in 0..2
  BY <1>1, <1>2
<1>4. \A x, y, z \in 0..2 : (x * 40 + y * 25 + z * 35) \div 2 \in 0..100
  <2> SUFFICES ASSUME NEW x \in 0..2, NEW y \in 0..2, NEW z \in 0..2
               PROVE  (x * 40 + y * 25 + z * 35) \div 2 \in 0..100
    OBVIOUS
  <2>1. x * 40 + y * 25 + z * 35 \in 0..200
    OBVIOUS
  <2>2. \A n \in 0..200 : n \div 2 \in 0..100
    OBVIOUS
  <2> QED BY <2>1, <2>2
<1>5. Total(s) = (Clamp(s[1]) * 40 + Clamp(s[2]) * 25 + Clamp(s[3]) * 35) \div 2
  BY Zenon DEF Total
<1> HIDE DEF Clamp
<1> QED BY <1>3, <1>4, <1>5

\* Hypotheses come out of a branch with nothing scored and nothing marked.
LEMMA OfBranchTyped ==
  ASSUME NEW b \in [frame : Frames, answer : Answers]
  PROVE  OfBranch(b) \in Seq(Hypothesis)
<1> DEFINE a == b.answer
<1>1. b.frame \in Frames /\ a \in Answers /\ a \in Seq([id : AnswerIds, trapText : BOOLEAN])
  BY AnswersAssumption
<1>2. \A i \in DOMAIN a : a[i].id \in AnswerIds /\ a[i].trapText \in BOOLEAN
  <2>1. \A i \in DOMAIN a : a[i] \in [id : AnswerIds, trapText : BOOLEAN]
    <3>1. \A R : \A s \in Seq(R) : \A i \in DOMAIN s : s[i] \in R
      OBVIOUS
    <3> HIDE DEF a
    <3> QED BY <1>1, <3>1, Zenon
  <2>2. \A x \in [id : AnswerIds, trapText : BOOLEAN] : x.id \in AnswerIds
    OBVIOUS
  <2>3. \A x \in [id : AnswerIds, trapText : BOOLEAN] : x.trapText \in BOOLEAN
    OBVIOUS
  <2> QED BY <2>1, <2>2, <2>3, Zenon
<1>3. Unscored \in Unscored..100
  BY DEF Unscored
<1>4. \A i \in DOMAIN a : [id |-> a[i].id, trapText |-> a[i].trapText, frame |-> b.frame,
                           total |-> Unscored, trap |-> FALSE] \in Hypothesis
  BY <1>1, <1>2, <1>3 DEF Hypothesis
<1>5. DOMAIN a = 1..Len(a) /\ Len(a) \in Nat
  BY <1>1
<1> QED BY <1>4, <1>5 DEF OfBranch

\* The branches diverge returns are of its frames and answers.
LEMMA InFrameOrderTyped ==
  ASSUME NEW o \in [Frames -> Outcomes]
  PROVE  InFrameOrder(o) \in Seq([frame : Frames, answer : Answers])
<1> DEFINE B == [frame : Frames, answer : Answers]
           ss == [f \in Frames |-> IF o[f] = Failure THEN <<>>
                                   ELSE <<[frame |-> f, answer |-> o[f]]>>]
<1>1. \A f \in Frames : ss[f] \in Seq(B)
  <2> SUFFICES ASSUME NEW f \in Frames PROVE ss[f] \in Seq(B)
    OBVIOUS
  <2>1. CASE o[f] = Failure
    BY <2>1
  <2>2. CASE o[f] # Failure
    <3>1. o[f] \in Answers
      BY <2>2 DEF Outcomes
    <3>2. [frame |-> f, answer |-> o[f]] \in B
      BY <3>1
    <3> QED BY <2>2, <3>2
  <2> QED BY <2>1, <2>2
<1>2. ss \in Seq(Seq(B))
  <2>1. Frames = 1..NFrames /\ NFrames \in Nat /\ DOMAIN ss = Frames
    BY NFramesAssumption DEF Frames
  <2>2. ss = [f \in 1..NFrames |-> ss[f]]
    BY <2>1
  <2> HIDE DEF ss, B
  <2> QED BY <1>1, <2>1, <2>2
<1>3. FlattenSeq(ss) \in Seq(B)
  <2> HIDE DEF ss, B
  <2> QED BY <1>2, FlattenTyped
<1> QED BY <1>3 DEF InFrameOrder

\* Scoring and marking change nothing but the totals and the marks, and leave
\* a hypothesis marked exactly when its text is a trap.
LEMMA MarkedScored ==
  ASSUME NEW hs \in Seq(Hypothesis),
         NEW t \in [{hs[i].id : i \in DOMAIN hs} -> 0..100]
  PROVE  /\ Marked(Scored(hs, t)) \in Seq(Hypothesis)
         /\ DOMAIN Marked(Scored(hs, t)) = DOMAIN hs
         /\ \A i \in DOMAIN hs : Marked(Scored(hs, t))[i].trapText
                                   => Marked(Scored(hs, t))[i].trap
         /\ \A i \in DOMAIN hs : Marked(Scored(hs, t))[i].total
                                   = t[Marked(Scored(hs, t))[i].id]
<1> DEFINE sc == Scored(hs, t)
           mk == Marked(sc)
<1>1. DOMAIN hs = 1..Len(hs) /\ Len(hs) \in Nat /\ \A i \in DOMAIN hs : hs[i] \in Hypothesis
  OBVIOUS
<1>2. \A x \in 0..100 : x \in Unscored..100
  BY DEF Unscored
<1>3. \A i \in DOMAIN hs : t[hs[i].id] \in Unscored..100
  BY <1>2
<1>4. ASSUME NEW i \in DOMAIN hs PROVE sc[i] \in Hypothesis /\ sc[i].total = t[sc[i].id]
  <2>1. sc[i] = [hs[i] EXCEPT !.total = t[hs[i].id], !.trap = FALSE]
    BY DEF Scored
  <2>2. hs[i] \in Hypothesis /\ t[hs[i].id] \in Unscored..100
    BY <1>1, <1>3
  <2> HIDE DEF sc
  <2> QED BY <2>1, <2>2 DEF Hypothesis
<1>5. DOMAIN sc = DOMAIN hs
  BY DEF Scored
<1>6. ASSUME NEW i \in DOMAIN hs
      PROVE  /\ mk[i] \in Hypothesis /\ (mk[i].trapText => mk[i].trap)
             /\ mk[i].total = t[mk[i].id]
  <2> HIDE DEF sc
  <2>1. mk[i] = [sc[i] EXCEPT !.trap = sc[i].trapText]
    BY <1>5 DEF Marked
  <2>2. sc[i] \in Hypothesis /\ sc[i].total = t[sc[i].id]
    BY <1>4
  <2> HIDE DEF mk
  <2> QED BY <2>1, <2>2 DEF Hypothesis
<1>7. DOMAIN mk = DOMAIN hs /\ mk = [i \in DOMAIN hs |-> mk[i]]
  <2> HIDE DEF sc
  <2> QED BY <1>5 DEF Marked
<1>8. mk \in Seq(Hypothesis)
  <2> HIDE DEF mk
  <2> QED BY <1>1, <1>6, <1>7
<1> QED BY <1>6, <1>7, <1>8

\* The list of traps holds hypotheses, and every marked one.
LEMMA FlaggedHolds ==
  ASSUME NEW hs \in Seq(Hypothesis)
  PROVE  /\ FlaggedOf(hs) \in Seq(Hypothesis)
         /\ \A i \in DOMAIN hs : hs[i].trap => hs[i] \in ToSet(FlaggedOf(hs))
<1> DEFINE ss == [i \in DOMAIN hs |-> IF hs[i].trap THEN <<hs[i]>> ELSE <<>>]
<1>1. DOMAIN hs = 1..Len(hs) /\ Len(hs) \in Nat /\ \A i \in DOMAIN hs : hs[i] \in Hypothesis
  OBVIOUS
<1>2. \A i \in DOMAIN hs : ss[i] \in Seq(Hypothesis)
  BY <1>1
<1>3. DOMAIN ss = DOMAIN hs /\ ss \in Seq(Seq(Hypothesis))
  <2>1. ss = [i \in DOMAIN hs |-> ss[i]] /\ DOMAIN ss = DOMAIN hs
    OBVIOUS
  <2> HIDE DEF ss
  <2> QED BY <1>1, <1>2, <2>1
<1>4. FlaggedOf(hs) = FlattenSeq(ss)
  BY DEF FlaggedOf
<1>5. FlattenSeq(ss) \in Seq(Hypothesis)
  <2> HIDE DEF ss
  <2> QED BY <1>3, FlattenTyped
<1>6. ASSUME NEW i \in DOMAIN hs, hs[i].trap PROVE hs[i] \in ToSet(FlattenSeq(ss))
  <2>1. hs[i] \in ToSet(ss[i])
    <3>1. ss[i] = <<hs[i]>>
      BY <1>6
    <3>2. hs[i] \in ToSet(<<hs[i]>>)
      <4>1. 1 \in DOMAIN <<hs[i]>> /\ <<hs[i]>>[1] = hs[i]
        OBVIOUS
      <4> QED BY <4>1 DEF ToSet
    <3> QED BY <3>1, <3>2
  <2>2. ToSet(ss[i]) \subseteq ToSet(FlattenSeq(ss))
    <3> HIDE DEF ss
    <3> QED BY <1>3, FlattenHolds
  <2> QED BY <2>1, <2>2
<1> QED BY <1>4, <1>5, <1>6

\* The shortlist is the beginning of the ranking, at most TopK of it.
LEMMA ShortlistIsPrefix ==
  ASSUME NEW r \in Seq(Hypothesis)
  PROVE  /\ Shortlisted(r) \in Seq(Hypothesis)
         /\ Len(Shortlisted(r)) \in 0..TopK /\ Len(Shortlisted(r)) <= Len(r)
         /\ DOMAIN Shortlisted(r) = 1..Len(Shortlisted(r))
         /\ \A i \in DOMAIN Shortlisted(r) : i \in DOMAIN r /\ Shortlisted(r)[i] = r[i]
<1>1. CASE Len(r) > TopK
  <2>1. Shortlisted(r) = [i \in 1..TopK |-> r[i]]
    BY <1>1, TopKAssumption DEF Shortlisted
  <2> QED BY <1>1, <2>1, TopKAssumption
<1>2. CASE ~(Len(r) > TopK)
  BY <1>2, TopKAssumption DEF Shortlisted
<1> QED BY <1>1, <1>2

\* The pick is a hypothesis of the ranking, whose identifier is not
\* shortlisted; no eligible one comes before it.
LEMMA PickIsFirst ==
  ASSUME NEW r \in Seq(Hypothesis)
  PROVE  LET taken == {Shortlisted(r)[i].id : i \in DOMAIN Shortlisted(r)}
             wild  == {i \in DOMAIN r : r[i].id \notin taken /\ r[i].frame \in WildFrames}
         IN  IF wild = {} THEN NonObviousOf(r) = None
             ELSE \E i \in wild : /\ NonObviousOf(r) = r[i]
                                  /\ \A j \in wild : i <= j
<1> DEFINE taken == {Shortlisted(r)[i].id : i \in DOMAIN Shortlisted(r)}
           wild  == {i \in DOMAIN r : r[i].id \notin taken /\ r[i].frame \in WildFrames}
<1>1. NonObviousOf(r) = IF wild = {} THEN None ELSE r[Min(wild)]
  BY DEF NonObviousOf
<1>2. wild \subseteq Nat
  OBVIOUS
<1>3. wild # {} => Min(wild) \in wild /\ \A j \in wild : Min(wild) <= j
  <2> HIDE DEF wild
  <2> QED BY <1>2, LeastNumber DEF Min
<1> HIDE DEF wild
<1>4. IF wild = {} THEN NonObviousOf(r) = None
      ELSE \E i \in wild : NonObviousOf(r) = r[i] /\ \A j \in wild : i <= j
  BY <1>1, <1>3
<1> QED BY <1>4 DEF wild

LEMMA PickTyped ==
  ASSUME NEW r \in Seq(Hypothesis)
  PROVE  NonObviousOf(r) = None \/ \E i \in DOMAIN r : NonObviousOf(r) = r[i]
BY PickIsFirst

\* A ranking is made of the hypotheses that were ranked.
LEMMA RankingTyped ==
  ASSUME NEW hs \in Seq(Hypothesis), NEW r \in Rankings(hs)
  PROVE  /\ r \in Seq(Hypothesis)
         /\ DOMAIN r = DOMAIN hs
         /\ \A i \in DOMAIN r : \E j \in DOMAIN hs : r[i] = hs[j]
         /\ \A i, j \in DOMAIN r : i < j => r[i].total >= r[j].total
<1>1. PICK p \in Bijection(DOMAIN hs, DOMAIN hs) : r = [i \in DOMAIN hs |-> hs[p[i]]]
  BY DEF Rankings
<1>2. p \in [DOMAIN hs -> DOMAIN hs]
  BY DEF Bijection, Injection
<1>3. \A i, j \in DOMAIN r : i < j => r[i].total >= r[j].total
  BY DEF Rankings
<1>4. DOMAIN hs = 1..Len(hs) /\ Len(hs) \in Nat
  OBVIOUS
<1>5. \A i \in DOMAIN hs : p[i] \in DOMAIN hs /\ r[i] = hs[p[i]] /\ r[i] \in Hypothesis
  BY <1>1, <1>2
<1>6. r \in Seq(Hypothesis)
  BY <1>1, <1>4, <1>5
<1> QED BY <1>1, <1>3, <1>5, <1>6

-----------------------------------------------------------------------------
(* The invariant, action by action.                                        *)

LEMMA InitInv == Init => IInv
<1> SUFFICES ASSUME Init PROVE IInv
  OBVIOUS
<1>1. TypeOK
  BY TopKAssumption DEF Init, TypeOK, Stages
<1>2. BranchesTyped
  BY DEF Init, ContractInit, BranchesTyped
<1>3. ~Ranked /\ stage = "diverging"
  BY DEF Init, Ranked
<1>4. TakenFromHyps
  BY <1>3 DEF Init, TakenFromHyps
<1>5. SomethingFound /\ TrapsListed /\ SameIdSameTotal /\ InOrder
  BY <1>3 DEF SomethingFound, TrapsListed, SameIdSameTotal, InOrder,
               Init, ContractInit
<1> QED BY <1>1, <1>2, <1>4, <1>5 DEF IInv

\* A step that leaves the ranking alone.
LEMMA SameRanking ==
  ASSUME IInv, Ranked, Ranked', UNCHANGED <<branches, hyps, rankVars>>,
         stage' \in Stages, asked' \in 0..TopK
  PROVE  IInv'
<1> USE DEF IInv, rankVars
<1>1. TypeOK'
  BY DEF TypeOK
<1>2. BranchesTyped'
  BY DEF BranchesTyped
<1>3. TakenFromHyps'
  BY DEF TakenFromHyps, Shortlisted, NonObviousOf
<1>4. hyps # <<>>
  BY DEF Ranked, SomethingFound
<1>5. SomethingFound'
  BY <1>4 DEF SomethingFound
<1>6. TrapsListed'
  BY DEF TrapsListed
<1>7. InOrder'
  BY DEF InOrder
<1>8. SameIdSameTotal'
  BY DEF SameIdSameTotal
<1> QED BY <1>1, <1>2, <1>3, <1>5, <1>6, <1>7, <1>8

LEMMA DivergeStep == IInv /\ Diverge => IInv'
<1> SUFFICES ASSUME IInv, Diverge PROVE IInv'
  OBVIOUS
<1> DEFINE ss == [i \in DOMAIN branches' |-> OfBranch(branches'[i])]
<1>1. /\ stage = "diverging" /\ Return
      /\ hyps' = FlattenSeq(ss)
      /\ stage' = IF failed' THEN "failed" ELSE IF hyps' = <<>> THEN "done" ELSE "scoring"
      /\ UNCHANGED <<shortlist, nonObvious, traps, asked>>
  BY DEF Diverge, rankVars, lateVars
<1>2. branches' \in Seq([frame : Frames, answer : Answers])
  <2>1. PICK o \in [Frames -> Outcomes] : branches' = InFrameOrder(o)
    BY <1>1 DEF Return
  <2> QED BY <2>1, InFrameOrderTyped
<1>3. ss \in Seq(Seq(Hypothesis))
  <2>1. \A i \in DOMAIN branches' : branches'[i] \in [frame : Frames, answer : Answers]
    <3>1. \A R : \A s \in Seq(R) : \A i \in DOMAIN s : s[i] \in R
      OBVIOUS
    <3> QED BY <1>2, <3>1, Zenon
  <2>2. \A i \in DOMAIN branches' : ss[i] \in Seq(Hypothesis)
    BY <2>1, OfBranchTyped
  <2>3. DOMAIN branches' = 1..Len(branches') /\ Len(branches') \in Nat
    BY <1>2
  <2>4. ss = [i \in DOMAIN branches' |-> ss[i]]
    OBVIOUS
  <2> HIDE DEF ss
  <2> QED BY <2>2, <2>3, <2>4
<1>4. hyps' \in Seq(Hypothesis)
  <2> HIDE DEF ss
  <2> QED BY <1>1, <1>3, FlattenTyped
<1> HIDE DEF ss
<1>5. ~Ranked /\ shortlist = <<>> /\ nonObvious = None /\ traps \in Seq(Hypothesis)
  BY <1>1 DEF IInv, Ranked, TakenFromHyps
<1>6. ~Ranked' /\ stage' # "ranking"
  BY <1>1 DEF Ranked
<1>7. TypeOK'
  <2>1. \A i \in DOMAIN hyps' : hyps'[i] \in Hypothesis
    BY <1>4
  <2>2. \A i \in DOMAIN traps' : traps'[i] \in Hypothesis
    BY <1>1, <1>5
  <2>3. \A i \in DOMAIN shortlist' : shortlist'[i] \in Hypothesis
    BY <1>1, <1>5
  <2>4. asked' \in 0..TopK /\ nonObvious' = None /\ stage' \in Stages
    BY <1>1, <1>5 DEF IInv, TypeOK, Stages
  <2> QED BY <2>1, <2>2, <2>3, <2>4 DEF TypeOK
<1>8. BranchesTyped'
  BY <1>2 DEF BranchesTyped
<1>9. TakenFromHyps'
  BY <1>1, <1>4, <1>5, <1>6 DEF TakenFromHyps
<1>10. SomethingFound'
  BY <1>1 DEF SomethingFound
<1>11. TrapsListed' /\ SameIdSameTotal' /\ InOrder'
  BY <1>6 DEF TrapsListed, SameIdSameTotal, InOrder
<1> QED BY <1>7, <1>8, <1>9, <1>10, <1>11 DEF IInv

LEMMA ScoreFailsStep == IInv /\ ScoreFails => IInv'
<1> SUFFICES ASSUME IInv, ScoreFails PROVE IInv'
  OBVIOUS
<1> USE DEF IInv, ScoreFails, contractVars, rankVars, lateVars
<1>1. ~Ranked /\ ~Ranked' /\ stage' = "failed"
  BY DEF Ranked
<1>2. TypeOK'
  BY <1>1 DEF TypeOK, Stages
<1>3. BranchesTyped'
  BY DEF BranchesTyped
<1>4. TakenFromHyps'
  BY <1>1 DEF TakenFromHyps
<1>5. SomethingFound' /\ TrapsListed' /\ SameIdSameTotal' /\ InOrder'
  BY <1>1 DEF SomethingFound, TrapsListed, SameIdSameTotal, InOrder
<1> QED BY <1>2, <1>3, <1>4, <1>5

LEMMA ScoreStep == IInv /\ Score => IInv'
<1> SUFFICES ASSUME IInv, Score PROVE IInv'
  OBVIOUS
<1>1. /\ stage = "scoring" /\ stage' = "ranking"
      /\ UNCHANGED <<branches, shortlist, nonObvious, asked>>
  BY DEF Score, contractVars, lateVars
<1>known. PICK known \in SUBSET Ids : \E score \in [known -> RawScores] :
        LET total == [id \in Ids |-> IF id \in known THEN Total(score[id]) ELSE Total(MidScore)]
        IN  /\ hyps' = ScoreThenMark(hyps, total).hyps
            /\ traps' = ScoreThenMark(hyps, total).traps
  BY DEF Score
<1>2. PICK score \in [known -> RawScores] :
        LET total == [id \in Ids |-> IF id \in known THEN Total(score[id]) ELSE Total(MidScore)]
        IN  /\ hyps' = ScoreThenMark(hyps, total).hyps
            /\ traps' = ScoreThenMark(hyps, total).traps
  BY <1>known
<1> DEFINE total == [id \in Ids |-> IF id \in known THEN Total(score[id]) ELSE Total(MidScore)]
<1>3. hyps' = Marked(Scored(hyps, total)) /\ traps' = FlaggedOf(Marked(Scored(hyps, total)))
  BY <1>2 DEF ScoreThenMark
<1>4. total \in [Ids -> 0..100]
  <2>1. MidScore \in Int \X Int \X Int
    BY DEF MidScore
  <2>2. \A id \in known : score[id] \in Int \X Int \X Int
    BY ScoresAssumption
  <2>3. \A id \in Ids : (IF id \in known THEN Total(score[id]) ELSE Total(MidScore)) \in 0..100
    BY <2>1, <2>2, TotalInRange
  <2> QED BY <2>3
<1>5. Ids = {hyps[i].id : i \in DOMAIN hyps} /\ hyps \in Seq(Hypothesis)
  BY DEF Ids, IInv, TakenFromHyps
<1> HIDE DEF total
<1>6. /\ hyps' \in Seq(Hypothesis) /\ DOMAIN hyps' = DOMAIN hyps
      /\ \A i \in DOMAIN hyps' : hyps'[i].trapText => hyps'[i].trap
      /\ \A i \in DOMAIN hyps' : hyps'[i].total = total[hyps'[i].id]
  BY <1>3, <1>4, <1>5, MarkedScored
<1>7. /\ traps' \in Seq(Hypothesis)
      /\ \A i \in DOMAIN hyps' : hyps'[i].trap => hyps'[i] \in ToSet(traps')
  <2>1. traps' = FlaggedOf(hyps')
    BY <1>3
  <2> QED BY <1>6, <2>1, FlaggedHolds
<1>8. ~Ranked /\ ~Ranked' /\ shortlist = <<>> /\ nonObvious = None /\ hyps # <<>>
  BY <1>1 DEF IInv, Ranked, TakenFromHyps, SomethingFound
<1>9. hyps' # <<>>
  BY <1>5, <1>6, <1>8
<1>10. TypeOK'
  <2>1. \A i \in DOMAIN hyps' : hyps'[i] \in Hypothesis
    BY <1>6
  <2>2. \A i \in DOMAIN traps' : traps'[i] \in Hypothesis
    BY <1>7
  <2>3. \A i \in DOMAIN shortlist' : shortlist'[i] \in Hypothesis
    BY <1>1, <1>8
  <2>4. asked' \in 0..TopK /\ nonObvious' = None /\ stage' \in Stages
    BY <1>1, <1>8 DEF IInv, TypeOK, Stages
  <2> QED BY <2>1, <2>2, <2>3, <2>4 DEF TypeOK
<1>11. BranchesTyped'
  BY <1>1 DEF IInv, BranchesTyped
<1>12. TakenFromHyps'
  BY <1>1, <1>6, <1>7, <1>8 DEF TakenFromHyps
<1>13. SomethingFound'
  BY <1>9 DEF SomethingFound
<1>14. TrapsListed'
  BY <1>6, <1>7 DEF TrapsListed
<1>15. InOrder'
  BY <1>8 DEF InOrder
<1>16. SameIdSameTotal'
  BY <1>6 DEF SameIdSameTotal
<1> QED BY <1>10, <1>11, <1>12, <1>13, <1>14, <1>15, <1>16 DEF IInv

LEMMA RankStep == IInv /\ Rank => IInv'
<1> SUFFICES ASSUME IInv, Rank PROVE IInv'
  OBVIOUS
<1>1. /\ stage = "ranking" /\ stage' = "clustering"
      /\ hyps' \in Rankings(hyps)
      /\ shortlist' = Shortlisted(hyps') /\ nonObvious' = NonObviousOf(hyps')
      /\ UNCHANGED <<branches, traps, asked>>
  BY DEF Rank, contractVars, lateVars
<1>2. hyps \in Seq(Hypothesis) /\ traps \in Seq(Hypothesis) /\ hyps # <<>>
  BY <1>1 DEF IInv, TakenFromHyps, SomethingFound
<1>3. /\ hyps' \in Seq(Hypothesis) /\ DOMAIN hyps' = DOMAIN hyps
      /\ \A i \in DOMAIN hyps' : \E j \in DOMAIN hyps : hyps'[i] = hyps[j]
      /\ \A i, j \in DOMAIN hyps' : i < j => hyps'[i].total >= hyps'[j].total
  BY <1>1, <1>2, RankingTyped
<1>4. Ranked' /\ hyps' # <<>>
  BY <1>1, <1>2, <1>3 DEF Ranked
<1>5. shortlist' \in Seq(Hypothesis)
  BY <1>1, <1>3, ShortlistIsPrefix
<1>6. nonObvious' = None \/ nonObvious' \in Hypothesis
  <2>1. nonObvious' = None \/ \E i \in DOMAIN hyps' : nonObvious' = hyps'[i]
    BY <1>1, <1>3, PickTyped
  <2> QED BY <1>3, <2>1
<1>7. TypeOK'
  <2>1. \A i \in DOMAIN hyps' : hyps'[i] \in Hypothesis
    BY <1>3
  <2>2. \A i \in DOMAIN traps' : traps'[i] \in Hypothesis
    BY <1>1, <1>2
  <2>3. \A i \in DOMAIN shortlist' : shortlist'[i] \in Hypothesis
    BY <1>5
  <2>4. asked' \in 0..TopK /\ stage' \in Stages
    BY <1>1 DEF IInv, TypeOK, Stages
  <2> QED BY <1>6, <2>1, <2>2, <2>3, <2>4 DEF TypeOK
<1>8. BranchesTyped'
  BY <1>1 DEF IInv, BranchesTyped
<1>9. TakenFromHyps'
  BY <1>1, <1>2, <1>3, <1>4 DEF TakenFromHyps, Shortlisted, NonObviousOf
<1>10. SomethingFound'
  BY <1>4 DEF SomethingFound
<1>11. TrapsListed'
  <2>1. \A i \in DOMAIN hyps : hyps[i].trapText => hyps[i].trap /\ hyps[i] \in ToSet(traps)
    BY <1>1 DEF IInv, TrapsListed
  <2>2. traps' = traps
    BY <1>1
  <2>3. \A i \in DOMAIN hyps' : hyps'[i].trapText => hyps'[i].trap /\ hyps'[i] \in ToSet(traps')
    BY <1>3, <2>1, <2>2
  <2> QED BY <2>3 DEF TrapsListed
<1>12. InOrder'
  BY <1>3 DEF InOrder
<1>13. SameIdSameTotal'
  <2>1. \A i, j \in DOMAIN hyps : hyps[i].id = hyps[j].id => hyps[i].total = hyps[j].total
    BY <1>1 DEF IInv, SameIdSameTotal
  <2>2. ASSUME NEW i \in DOMAIN hyps', NEW j \in DOMAIN hyps', hyps'[i].id = hyps'[j].id
        PROVE  hyps'[i].total = hyps'[j].total
    <3>1. PICK k \in DOMAIN hyps : hyps'[i] = hyps[k]
      BY <1>3
    <3>2. PICK m \in DOMAIN hyps : hyps'[j] = hyps[m]
      BY <1>3
    <3>3. hyps[k].id = hyps[m].id
      BY <2>2, <3>1, <3>2
    <3> QED BY <2>1, <3>1, <3>2, <3>3
  <2> QED BY <2>2 DEF SameIdSameTotal
<1> QED BY <1>7, <1>8, <1>9, <1>10, <1>11, <1>12, <1>13 DEF IInv

LEMMA ClusterStep == IInv /\ Cluster => IInv'
<1> SUFFICES ASSUME IInv, Cluster PROVE IInv'
  OBVIOUS
<1>1. /\ stage = "clustering" /\ stage' \in {"provoking", "deepening"}
      /\ UNCHANGED <<branches, hyps, rankVars, asked>>
  BY DEF Cluster, contractVars
<1>2. Ranked /\ Ranked' /\ stage' \in Stages /\ asked' \in 0..TopK
  BY <1>1 DEF Ranked, Stages, IInv, TypeOK
<1> QED BY <1>1, <1>2, SameRanking

LEMMA DeepenStep == IInv /\ Deepen => IInv'
<1> SUFFICES ASSUME IInv, Deepen PROVE IInv'
  OBVIOUS
<1>1. /\ stage = "deepening" /\ asked < Len(shortlist) /\ asked' = asked + 1
      /\ UNCHANGED <<branches, stage, hyps, rankVars>>
  BY DEF Deepen, contractVars
<1>2. Ranked /\ Ranked' /\ stage' \in Stages
  BY <1>1 DEF Ranked, Stages
<1>3. Len(shortlist) \in 0..TopK
  BY <1>2, ShortlistIsPrefix DEF IInv, TakenFromHyps
<1>4. asked' \in 0..TopK
  BY <1>1, <1>3, TopKAssumption DEF IInv, TypeOK
<1> QED BY <1>1, <1>2, <1>4, SameRanking

LEMMA DeepenEndsStep == IInv /\ DeepenEnds => IInv'
<1> SUFFICES ASSUME IInv, DeepenEnds PROVE IInv'
  OBVIOUS
<1>1. /\ stage = "deepening" /\ stage' = "provoking"
      /\ UNCHANGED <<branches, hyps, rankVars, asked>>
  BY DEF DeepenEnds, contractVars, lateVars
<1>2. Ranked /\ Ranked' /\ stage' \in Stages /\ asked' \in 0..TopK
  BY <1>1 DEF Ranked, Stages, IInv, TypeOK
<1> QED BY <1>1, <1>2, SameRanking

LEMMA ProvokeStep == IInv /\ Provoke => IInv'
<1> SUFFICES ASSUME IInv, Provoke PROVE IInv'
  OBVIOUS
<1>1. /\ stage = "provoking" /\ stage' = "done"
      /\ UNCHANGED <<branches, hyps, rankVars, asked>>
  BY DEF Provoke, contractVars
<1>2. hyps # <<>> /\ hyps' = hyps
  BY <1>1 DEF IInv, SomethingFound
<1>3. Ranked /\ Ranked' /\ stage' \in Stages /\ asked' \in 0..TopK
  BY <1>1, <1>2 DEF Ranked, Stages, IInv, TypeOK
<1> QED BY <1>1, <1>3, SameRanking

LEMMA StutterStep == IInv /\ UNCHANGED vars => IInv'
<1> SUFFICES ASSUME IInv, UNCHANGED vars PROVE IInv'
  OBVIOUS
<1> USE DEF IInv, vars, contractVars, rankVars, lateVars
<1>1. Ranked' = Ranked
  BY DEF Ranked
<1>2. TypeOK' /\ BranchesTyped' /\ SomethingFound'
  BY DEF TypeOK, BranchesTyped, SomethingFound
<1>3. TakenFromHyps'
  BY <1>1 DEF TakenFromHyps, Shortlisted, NonObviousOf
<1>4. TrapsListed' /\ SameIdSameTotal' /\ InOrder'
  BY <1>1 DEF TrapsListed, SameIdSameTotal, InOrder
<1> QED BY <1>2, <1>3, <1>4

\* The inductive invariant of the cycle holds throughout every diagnosis,
\* whatever the API answers and whichever of its calls fail.
THEOREM Invariant == Spec => []IInv
<1>1. IInv /\ [Next]_vars => IInv'
  <2> SUFFICES ASSUME IInv, [Next]_vars PROVE IInv'
    OBVIOUS
  <2>1. CASE Diverge
    BY <2>1, DivergeStep
  <2>2. CASE ScoreFails
    BY <2>2, ScoreFailsStep
  <2>3. CASE Score
    BY <2>3, ScoreStep
  <2>4. CASE Rank
    BY <2>4, RankStep
  <2>5. CASE Cluster
    BY <2>5, ClusterStep
  <2>6. CASE Deepen
    BY <2>6, DeepenStep
  <2>7. CASE DeepenEnds
    BY <2>7, DeepenEndsStep
  <2>8. CASE Provoke
    BY <2>8, ProvokeStep
  <2>9. CASE Finished
    BY <2>9, StutterStep DEF Finished
  <2>10. CASE UNCHANGED vars
    BY <2>10, StutterStep
  <2> QED
    BY <2>1, <2>2, <2>3, <2>4, <2>5, <2>6, <2>7, <2>8, <2>9, <2>10 DEF Next, Cycle
<1> QED BY <1>1, InitInv, PTL DEF Spec

\* Every phase of Diagnose keeps its data in shape: a total that was given is
\* within 0 and 1 whatever numbers the API sent, and deepen asks about no more
\* hypotheses than TopK.
THEOREM TypeCorrect == Spec => []TypeOK
<1>1. IInv => TypeOK
  BY DEF IInv
<1> QED BY <1>1, Invariant, PTL

\* A hypothesis that reaches the user, on the shortlist or as the non-obvious
\* pick, and whose text is a trap carries the mark DetectTrapsAll set and is in
\* the list of traps, through the sort and every later phase.
THEOREM MarksSurvive == Spec => []TrapMarksSurvive
<1>1. IInv => TrapMarksSurvive
  <2> SUFFICES ASSUME IInv, Ranked PROVE TrapMarksSurvive
    BY DEF TrapMarksSurvive
  <2> DEFINE trapped == {<<traps[i].frame, traps[i].id, traps[i].total>> : i \in DOMAIN traps}
             shown   == {shortlist[i] : i \in DOMAIN shortlist}
                          \cup (IF nonObvious = None THEN {} ELSE {nonObvious})
  <2>1. /\ hyps \in Seq(Hypothesis)
        /\ shortlist = Shortlisted(hyps) /\ nonObvious = NonObviousOf(hyps)
        /\ \A i \in DOMAIN hyps : hyps[i].trapText => hyps[i].trap /\ hyps[i] \in ToSet(traps)
    BY Zenon DEF IInv, TakenFromHyps, TrapsListed
  <2>2. \A h \in shown : \E i \in DOMAIN hyps : h = hyps[i]
    <3>1. \A i \in DOMAIN shortlist : i \in DOMAIN hyps /\ shortlist[i] = hyps[i]
      BY <2>1, ShortlistIsPrefix
    <3>2. nonObvious = None \/ \E i \in DOMAIN hyps : nonObvious = hyps[i]
      BY <2>1, PickTyped
    <3> QED BY <3>1, <3>2
  <2>3. \A h \in ToSet(traps) : <<h.frame, h.id, h.total>> \in trapped
    BY DEF ToSet
  <2> HIDE DEF shown, trapped
  <2>4. \A h \in shown : h.trapText => h.trap /\ <<h.frame, h.id, h.total>> \in trapped
    BY <2>1, <2>2, <2>3
  <2> QED BY <2>4 DEF TrapMarksSurvive, shown, trapped
<1> QED BY <1>1, Invariant, PTL

\* Totals are numbers.
LEMMA TotalsAreNumbers ==
  ASSUME NEW hs \in Seq(Hypothesis)
  PROVE  \A i \in DOMAIN hs : hs[i].total \in Int
<1>1. \A i \in DOMAIN hs : hs[i] \in Hypothesis
  OBVIOUS
<1>2. \A h \in Hypothesis : h.total \in Unscored..100
  BY DEF Hypothesis
<1>3. \A n \in Unscored..100 : n \in Int
  BY DEF Unscored
<1> QED BY <1>1, <1>2, <1>3

\* A hypothesis behind the shortlist that has the total of a shortlisted one has the
\* total of the last of them.
LEMMA TiesAreAtTheEnd ==
  ASSUME IInv, Ranked, NEW i \in WildLeft, NEW j \in DOMAIN shortlist,
         shortlist[j].id = hyps[i].id
  PROVE  TiesWithShortlist(i)
<1>1. /\ hyps \in Seq(Hypothesis) /\ shortlist = Shortlisted(hyps)
      /\ \A k, m \in DOMAIN hyps : k < m => hyps[k].total >= hyps[m].total
      /\ \A k, m \in DOMAIN hyps : hyps[k].id = hyps[m].id => hyps[k].total = hyps[m].total
  BY Zenon DEF IInv, TakenFromHyps, InOrder, SameIdSameTotal
<1>2. PICK last \in Nat :
        /\ last = Len(shortlist) /\ DOMAIN shortlist = 1..last
        /\ \A k \in DOMAIN shortlist : k \in DOMAIN hyps /\ shortlist[k] = hyps[k]
  BY <1>1, ShortlistIsPrefix
<1>3. /\ i \in DOMAIN hyps /\ DOMAIN hyps \subseteq Nat
      /\ j \in DOMAIN hyps /\ last \in DOMAIN hyps
      /\ j <= last /\ last < i
  BY <1>1, <1>2 DEF WildLeft
<1>4. \A k \in DOMAIN hyps : hyps[k].total \in Int
  BY <1>1, TotalsAreNumbers
<1>5. hyps[i].total = hyps[j].total
  BY <1>1, <1>2, <1>3
<1>6. hyps[j].total >= hyps[last].total
  <2>1. CASE j = last
    BY <1>3, <1>4, <2>1
  <2>2. CASE j < last
    BY <1>1, <1>3, <2>2
  <2>3. j \in Nat /\ last \in Nat
    BY <1>2
  <2> QED BY <1>3, <2>1, <2>2, <2>3
<1>7. hyps[last].total >= hyps[i].total
  BY <1>1, <1>3
<1>8. hyps[i].total = hyps[last].total
  BY <1>3, <1>4, <1>5, <1>6, <1>7
<1>9. shortlist[last] = hyps[last]
  BY <1>2, <1>3
<1> QED BY <1>2, <1>8, <1>9 DEF TiesWithShortlist

\* The non-obvious pick of Diagnose is the best wild hypothesis behind the shortlist,
\* also when frames use the same identifier: what is passed over for its identifier ties
\* with the end of the shortlist, for scores are stored by identifier.
THEOREM PickIsBest == Spec => []NoWildPassedOver
<1>1. IInv => NoWildPassedOver
  <2> SUFFICES ASSUME IInv, Ranked PROVE NoWildPassedOver
    BY DEF NoWildPassedOver
  <2> DEFINE taken == {shortlist[j].id : j \in DOMAIN shortlist}
             wild  == {i \in DOMAIN hyps : hyps[i].id \notin taken /\ hyps[i].frame \in WildFrames}
  <2>1. /\ hyps \in Seq(Hypothesis)
        /\ shortlist = Shortlisted(hyps) /\ nonObvious = NonObviousOf(hyps)
        /\ \A i, j \in DOMAIN hyps : i < j => hyps[i].total >= hyps[j].total
    BY Zenon DEF IInv, TakenFromHyps, InOrder
  <2>2. IF wild = {} THEN nonObvious = None
        ELSE \E i \in wild : nonObvious = hyps[i] /\ \A j \in wild : i <= j
    BY <2>1, PickIsFirst
  <2>3. \A i \in DOMAIN hyps : hyps[i].total \in Int
    BY <2>1, TotalsAreNumbers
  <2>4. \A i \in DOMAIN hyps : hyps[i] # None
    <3>1. \A i \in DOMAIN hyps : hyps[i] \in Hypothesis
      BY <2>1
    <3> QED BY <3>1, NoneAssumption
  <2>5. wild \subseteq WildLeft
    <3>1. /\ Len(shortlist) \in Nat /\ DOMAIN shortlist = 1..Len(shortlist)
          /\ \A j \in DOMAIN shortlist : shortlist[j] = hyps[j]
      BY <2>1, ShortlistIsPrefix
    <3>2. DOMAIN hyps \subseteq Nat \ {0}
      BY <2>1
    <3>3. \A i \in DOMAIN hyps : hyps[i].id \notin taken => i \notin DOMAIN shortlist
      BY <3>1
    <3>4. \A i \in DOMAIN hyps : hyps[i].id \notin taken => i > Len(shortlist)
      BY <3>1, <3>2, <3>3
    <3> HIDE DEF taken
    <3> QED BY <3>4 DEF WildLeft
  <2>6. DOMAIN hyps \subseteq Nat /\ wild \subseteq DOMAIN hyps /\ WildLeft \subseteq DOMAIN hyps
    BY <2>1 DEF WildLeft
  <2>7. nonObvious # None => \E i \in WildLeft : nonObvious = hyps[i]
    <3> HIDE DEF wild
    <3> QED BY <2>2, <2>5
  <2>8. ASSUME NEW i \in WildLeft
        PROVE  \/ nonObvious # None /\ nonObvious.total >= hyps[i].total
               \/ TiesWithShortlist(i)
    <3>1. CASE i \in wild
      <4> HIDE DEF wild
      <4>1. PICK k \in wild : nonObvious = hyps[k] /\ k <= i
        BY <2>2, <3>1
      <4>2. k \in DOMAIN hyps /\ i \in DOMAIN hyps /\ k \in Nat /\ i \in Nat
        BY <2>6
      <4>3. hyps[k].total >= hyps[i].total
        <5>1. CASE k = i
          BY <2>3, <4>2, <5>1
        <5>2. CASE k < i
          BY <2>1, <4>2, <5>2
        <5> QED BY <4>1, <4>2, <5>1, <5>2
      <4> QED BY <2>4, <4>1, <4>2, <4>3
    <3>2. CASE i \notin wild
      <4>1. \E j \in DOMAIN shortlist : shortlist[j].id = hyps[i].id
        BY <3>2 DEF WildLeft
      <4> QED BY <4>1, TiesAreAtTheEnd
    <3> QED BY <3>1, <3>2
  <2> HIDE DEF wild
  <2> QED BY <2>7, <2>8 DEF NoWildPassedOver
<1> QED BY <1>1, Invariant, PTL
=============================================================================
