---------------------- MODULE DiagnosePipeline_proofs ----------------------
(***************************************************************************)
(* Proofs about a run of a command.                                        *)
(*                                                                         *)
(* IInv follows an operator through its steps, OutcomeInv what the results *)
(* and the output hold, CoverInv which directories and targets are still   *)
(* to do.  Each has a lemma per action, and builds on the ones before it.  *)
(***************************************************************************)
EXTENDS DiagnosePipeline, WellFoundedInduction, TLAPS

\* A set of numbers that is not empty has a least one.
LEMMA LeastNumber ==
  ASSUME NEW T, T \subseteq Nat, T # {}
  PROVE  \E n \in T : \A m \in T : n <= m
<1> DEFINE R == {ss \in Nat \X Nat : ss[1] < ss[2]}
<1>1. OpToRel(<, Nat) = R
  BY DEF OpToRel
<1>2. IsWellFoundedOn(R, Nat)
  BY <1>1, NatLessThanWellFounded
<1>3. \E n \in T : \A m \in T : ~(<<m, n>> \in R)
  <2> HIDE DEF R
  <2> QED BY <1>2, WFMin
<1>4. PICK n \in T : \A m \in T : ~(<<m, n>> \in R)
  BY <1>3
<1>5. \A m \in T : ~(m < n)
  <2> SUFFICES ASSUME NEW m \in T, m < n PROVE FALSE
    OBVIOUS
  <2>1. <<m, n>> \in Nat \X Nat
    OBVIOUS
  <2>2. <<m, n>> \in R
    BY <2>1
  <2> QED BY <2>2, <1>4
<1> QED BY <1>5

\* So has one that is bounded a greatest.
LEMMA GreatestNumber ==
  ASSUME NEW n \in Nat, NEW T, T \subseteq 0..n, T # {}
  PROVE  \E m \in T : \A k \in T : k <= m
<1> DEFINE U == {n - k : k \in T}
<1>1. U \subseteq Nat
  OBVIOUS
<1>a. U # {}
  <2>1. PICK k \in T : TRUE
    OBVIOUS
  <2>2. n - k \in U
    OBVIOUS
  <2> QED BY <2>2
<1>2. PICK u \in U : \A v \in U : u <= v
  <2> HIDE DEF U
  <2> QED BY <1>1, <1>a, LeastNumber
<1>3. PICK m \in T : u = n - m
  OBVIOUS
<1>4. \A k \in T : n - m <= n - k
  BY <1>2, <1>3
<1> QED BY <1>4

LEMMA MaxIn ==
  ASSUME NEW n \in Nat, NEW T, T \subseteq 0..n, T # {}
  PROVE  Max(T) \in T
BY GreatestNumber DEF Max

LEMMA MinIn ==
  ASSUME NEW T, T \subseteq Nat, T # {}
  PROVE  Min(T) \in T
BY LeastNumber DEF Min

\* f is what FlattenSeq computes of the first n sequences.
Flattens(f, ss, n) == f = [i \in 1..n |-> IF i = 1 THEN ss[i] ELSE f[i - 1] \o ss[i]]

LEMMA FlattensOne ==
  ASSUME NEW ss, NEW n \in Nat, NEW f, Flattens(f, ss, n), NEW i \in 1..n
  PROVE  f[i] = IF i = 1 THEN ss[i] ELSE f[i - 1] \o ss[i]
BY DEF Flattens

\* One more sequence can be added to what was flattened.
LEMMA FlattensMore ==
  ASSUME NEW ss, NEW n \in Nat, \E f : Flattens(f, ss, n)
  PROVE  \E f : Flattens(f, ss, n + 1)
<1> PICK f : Flattens(f, ss, n)
  OBVIOUS
<1> DEFINE g == [i \in 1..(n + 1) |-> IF i = 1 THEN ss[i] ELSE f[i - 1] \o ss[i]]
<1>1. \A i \in 1..n : g[i] = f[i]
  <2> SUFFICES ASSUME NEW i \in 1..n PROVE g[i] = f[i]
    OBVIOUS
  <2>1. i \in 1..(n + 1)
    OBVIOUS
  <2> QED BY <2>1, FlattensOne
<1>2. \A i \in 1..(n + 1) : g[i] = IF i = 1 THEN ss[i] ELSE g[i - 1] \o ss[i]
  <2> SUFFICES ASSUME NEW i \in 1..(n + 1)
               PROVE  g[i] = IF i = 1 THEN ss[i] ELSE g[i - 1] \o ss[i]
    OBVIOUS
  <2>1. CASE i = 1
    BY <2>1
  <2>2. CASE i # 1
    <3>1. i - 1 \in 1..n
      BY <2>2
    <3>2. g[i - 1] = f[i - 1]
      BY <3>1, <1>1
    <3>3. g[i] = f[i - 1] \o ss[i]
      BY <2>2
    <3> HIDE DEF g
    <3> QED BY <3>2, <3>3, <2>2
  <2> QED BY <2>1, <2>2
<1>3. g = [i \in 1..(n + 1) |-> g[i]]
  OBVIOUS
<1>4. Flattens(g, ss, n + 1)
  <2> HIDE DEF g
  <2> QED BY <1>2, <1>3 DEF Flattens
<1> QED BY <1>4

LEMMA FlattensExists ==
  ASSUME NEW ss, NEW n \in Nat
  PROVE  \E f : Flattens(f, ss, n)
<1> DEFINE Bad == {m \in Nat : ~\E f : Flattens(f, ss, m)}
<1> SUFFICES Bad = {}
  OBVIOUS
<1> SUFFICES ASSUME Bad # {} PROVE FALSE
  OBVIOUS
<1>1. PICK m \in Bad : \A k \in Bad : m <= k
  <2>1. Bad \subseteq Nat
    OBVIOUS
  <2> HIDE DEF Bad
  <2> QED BY <2>1, LeastNumber
<1>2. m # 0
  <2>1. Flattens([i \in 1..0 |-> ss[i]], ss, 0)
    BY DEF Flattens
  <2> QED BY <2>1
<1>3. m \in Nat /\ m - 1 \in Nat /\ ~(m <= m - 1) /\ (m - 1) + 1 = m
  BY <1>2
<1>4. m - 1 \notin Bad
  <2> HIDE DEF Bad
  <2> QED BY <1>1, <1>3
<1>5. \E f : Flattens(f, ss, m - 1)
  BY <1>3, <1>4
<1>6. \E f : Flattens(f, ss, (m - 1) + 1)
  BY <1>3, <1>5, FlattensMore
<1> QED BY <1>3, <1>6

LEMMA FlattensTyped ==
  ASSUME NEW S, NEW n \in Nat, NEW ss, \A i \in 1..n : ss[i] \in Seq(S),
         NEW f, Flattens(f, ss, n)
  PROVE  \A i \in 1..n : f[i] \in Seq(S)
<1> DEFINE Bad == {i \in 1..n : f[i] \notin Seq(S)}
<1> SUFFICES ASSUME Bad # {} PROVE FALSE
  OBVIOUS
<1>1. PICK m \in Bad : \A k \in Bad : m <= k
  <2>1. Bad \subseteq Nat
    OBVIOUS
  <2> HIDE DEF Bad
  <2> QED BY <2>1, LeastNumber
<1>2. m \in 1..n /\ f[m] = IF m = 1 THEN ss[m] ELSE f[m - 1] \o ss[m]
  BY FlattensOne
<1>3. m # 1
  BY <1>2
<1>4. m - 1 \in 1..n /\ ~(m <= m - 1)
  BY <1>2, <1>3
<1>5. m - 1 \notin Bad
  <2> HIDE DEF Bad
  <2> QED BY <1>1, <1>4
<1>6. f[m - 1] \in Seq(S) /\ ss[m] \in Seq(S)
  BY <1>2, <1>4, <1>5
<1>7. f[m] \in Seq(S)
  BY <1>2, <1>3, <1>6
<1> QED BY <1>7

\* Flattening sequences of members of S gives such a sequence.
LEMMA FlattenTyped ==
  ASSUME NEW S, NEW ss \in Seq(Seq(S))
  PROVE  FlattenSeq(ss) \in Seq(S)
<1> DEFINE n == Len(ss)
           F == CHOOSE f : f = [i \in 1..n |-> IF i = 1 THEN ss[i] ELSE f[i - 1] \o ss[i]]
<1>1. n \in Nat /\ \A i \in 1..n : ss[i] \in Seq(S)
  OBVIOUS
<1>2. Flattens(F, ss, n)
  <2>1. \E f : Flattens(f, ss, n)
    BY <1>1, FlattensExists
  <2> QED BY <2>1 DEF Flattens
<1>3. \A i \in 1..n : F[i] \in Seq(S)
  <2> HIDE DEF F, n
  <2> QED BY <1>1, <1>2, FlattensTyped
<1>4. FlattenSeq(ss) = IF n = 0 THEN ss ELSE F[n]
  BY DEF FlattenSeq
<1>5. n = 0 => ss = <<>>
  OBVIOUS
<1> QED
  <2> HIDE DEF F, n
  <2> QED BY <1>1, <1>3, <1>4, <1>5

-----------------------------------------------------------------------------
(* The order of the steps.                                                 *)

LEMMA OperatorStepsAre ==
  ToSet(OperatorSteps) = {"health", "installed", "target", "delta", "code", "claude", "rag",
                          "adhd", "correlation", "similar", "document", "reported"}
<1>1. DOMAIN OperatorSteps = 1..12
  BY DEF OperatorSteps
<1> QED BY <1>1 DEF ToSet, OperatorSteps

LEMMA LiveStepsAre ==
  ToSet(LiveSteps) = {"infra", "rag", "adhd", "correlation", "similar", "document", "written"}
<1>1. DOMAIN LiveSteps = 1..7
  BY DEF LiveSteps
<1> QED BY <1>1 DEF ToSet, LiveSteps

LEMMA StepsAre ==
  /\ Steps = {"infra", "health", "installed", "target", "delta", "code", "claude", "rag",
              "adhd", "correlation", "similar", "document", "reported", "written"}
  /\ \A s \in Steps : Place[s] \in 0..12
<1>1. Steps = {"infra", "health", "installed", "target", "delta", "code", "claude", "rag",
               "adhd", "correlation", "similar", "document", "reported", "written"}
  BY OperatorStepsAre, LiveStepsAre DEF Steps
<1> QED BY <1>1 DEF Place

\* The successor of a step is the next one in its order.
LEMMA AfterOperatorStep ==
  ASSUME ~config.live, NEW i \in 1..11
  PROVE  After(OperatorSteps[i]) = OperatorSteps[i + 1]
<1>1. DOMAIN OperatorSteps = 1..12
  BY DEF OperatorSteps
<1>2. \A j \in 1..12 : OperatorSteps[j] = OperatorSteps[i] <=> j = i
  BY DEF OperatorSteps
<1>3. (CHOOSE j \in DOMAIN OperatorSteps : OperatorSteps[j] = OperatorSteps[i]) = i
  <2> HIDE DEF OperatorSteps
  <2> QED BY <1>1, <1>2
<1>4. After(OperatorSteps[i]) =
        OperatorSteps[1 + CHOOSE j \in DOMAIN OperatorSteps : OperatorSteps[j] = OperatorSteps[i]]
  BY Zenon DEF After
<1>5. 1 + i = i + 1
  OBVIOUS
<1> QED BY <1>3, <1>4, <1>5, Zenon

LEMMA AfterLiveStep ==
  ASSUME config.live, NEW i \in 1..6
  PROVE  After(LiveSteps[i]) = LiveSteps[i + 1]
<1>1. DOMAIN LiveSteps = 1..7
  BY DEF LiveSteps
<1>2. \A j \in 1..7 : LiveSteps[j] = LiveSteps[i] <=> j = i
  BY DEF LiveSteps
<1>3. (CHOOSE j \in DOMAIN LiveSteps : LiveSteps[j] = LiveSteps[i]) = i
  BY <1>1, <1>2
<1>4. After(LiveSteps[i]) =
        LiveSteps[1 + CHOOSE j \in DOMAIN LiveSteps : LiveSteps[j] = LiveSteps[i]]
  BY Zenon DEF After
<1>5. 1 + i = i + 1
  OBVIOUS
<1> QED BY <1>3, <1>4, <1>5, Zenon

\* A step that has a successor is followed by a later one on the same way.
LEMMA AfterIsLater ==
  ASSUME NEW t \in Steps \ {"reported", "written"},
         t \in IF config.live THEN ToSet(LiveSteps) ELSE ToSet(OperatorSteps)
  PROVE  /\ After(t) \in IF config.live THEN ToSet(LiveSteps) ELSE ToSet(OperatorSteps)
         /\ After(t) \in Steps
         /\ Place[t] < Place[After(t)]
         /\ ~config.live => Place[After(t)] = Place[t] + 1
<1>1. CASE config.live
  <2>1. PICK i \in 1..6 : t = LiveSteps[i]
    BY <1>1, LiveStepsAre DEF LiveSteps
  <2>2. After(t) = LiveSteps[i + 1]
    BY <1>1, <2>1, AfterLiveStep
  <2>3. /\ LiveSteps[i + 1] \in ToSet(LiveSteps)
        /\ Place[LiveSteps[i]] < Place[LiveSteps[i + 1]]
    BY LiveStepsAre DEF LiveSteps, Place
  <2> QED BY <1>1, <2>1, <2>2, <2>3 DEF Steps
<1>2. CASE ~config.live
  <2>1. PICK i \in 1..11 : t = OperatorSteps[i]
    BY <1>2, OperatorStepsAre DEF OperatorSteps
  <2>2. After(t) = OperatorSteps[i + 1]
    BY <1>2, <2>1, AfterOperatorStep
  <2>3. /\ OperatorSteps[i + 1] \in ToSet(OperatorSteps)
        /\ Place[OperatorSteps[i + 1]] = i + 1 /\ Place[OperatorSteps[i]] = i
    BY OperatorStepsAre DEF OperatorSteps, Place
  <2> QED BY <1>2, <2>1, <2>2, <2>3 DEF Steps
<1> QED BY <1>1, <1>2

-----------------------------------------------------------------------------
(* The steps of an operator.                                               *)

\* What a report with one more entry holds.
LEMMA ReportWith ==
  ASSUME report \in [got : SUBSET Steps, errors : SUBSET Steps], NEW t \in Steps
  PROVE  /\ [report EXCEPT !.got = @ \cup {t}].got = report.got \cup {t}
         /\ [report EXCEPT !.got = @ \cup {t}].errors = report.errors
         /\ [report EXCEPT !.got = @ \cup {t}] \in [got : SUBSET Steps, errors : SUBSET Steps]
         /\ [report EXCEPT !.errors = @ \cup {t}].got = report.got
         /\ [report EXCEPT !.errors = @ \cup {t}].errors = report.errors \cup {t}
         /\ [report EXCEPT !.errors = @ \cup {t}] \in [got : SUBSET Steps, errors : SUBSET Steps]
OBVIOUS

\* What is asked of the steps up to t does not depend on what t does.
LEMMA AskedBefore ==
  ASSUME NEW t \in Steps, UNCHANGED Kept,
         report.got' \in {report.got, report.got \cup {t}},
         NEW s \in Asked', Place[s] < Place[t]
  PROVE  s \in Asked
<1>1. UNCHANGED <<config, targets, Op, Installed, Target, Comparable>>
  BY DEF Kept, lookup, Op, Installed, Target, Comparable
<1>2. \A u \in {"installed", "target", "delta"} : Place[u] < Place[t] =>
          (u \in report.got' <=> u \in report.got)
  BY StepsAre DEF Place
<1>a. /\ Place["installed"] < Place["delta"] /\ Place["target"] < Place["delta"]
      /\ Place["target"] < Place["code"] /\ Place["delta"] < Place["claude"]
  BY DEF Place
<1>b. Place[t] \in Int /\ \A u \in Steps : Place[u] \in Int
  BY StepsAre
<1> HIDE DEF Op, Installed, Target, Comparable
<1>3. CASE s \in {"health", "installed", "target", "adhd", "correlation", "similar", "document"}
  BY <1>1, <1>3 DEF Asked
<1>4. CASE s = "delta"
  <2>1. Place["installed"] < Place[t] /\ Place["target"] < Place[t]
    BY <1>4, <1>a, <1>b, StepsAre
  <2>2. Has("installed")' /\ Has("target")' /\ Comparable'
    BY <1>4 DEF Asked
  <2> QED BY <1>1, <1>2, <1>4, <2>1, <2>2 DEF Asked, Has
<1>5. CASE s = "code"
  <2>1. Place["target"] < Place[t]
    BY <1>5, <1>a, <1>b, StepsAre
  <2>2. \/ config.source'
        \/ Has("target")' /\ (\A x \in Target' : x.url) /\ buildCodePatterns(Op)'
    BY <1>5 DEF Asked
  <2>3. CASE config.source'
    BY <1>1, <1>5, <2>3 DEF Asked
  <2>4. CASE Has("target")' /\ (\A x \in Target' : x.url) /\ buildCodePatterns(Op)'
    BY <1>1, <1>2, <1>5, <2>1, <2>4 DEF Asked, Has
  <2> QED BY <2>2, <2>3, <2>4
<1>6. CASE s = "claude"
  <2>1. Place["delta"] < Place[t]
    BY <1>6, <1>a, <1>b, StepsAre
  <2>2. Has("delta")'
    BY <1>6 DEF Asked
  <2> QED BY <1>2, <1>6, <2>1, <2>2 DEF Asked, Has
<1> QED BY <1>3, <1>4, <1>5, <1>6 DEF Asked

\* A turn of step t keeps the invariant if it accounts for t itself.
LEMMA TurnInv ==
  ASSUME IInv, NEW t \in Steps \ {"reported", "written"}, NEW after, Turn(t, after),
         \/ after = report
         \/ after = [report EXCEPT !.got = @ \cup {t}]
         \/ after = [report EXCEPT !.errors = @ \cup {t}],
         ~config.live => (t \in Asked' => Accounted(t)')
  PROVE  IInv'
<1>1. /\ at = t /\ report' = after /\ at' = After(t) /\ exit' = exit
      /\ UNCHANGED <<inv, config, dirs, services, targets, result, results, expired,
                     rcaFile, stateDir, shown>>
      /\ UNCHANGED Kept
  BY DEF Turn, Ready, Goto, Kept, lookup, output
<1>2. report \in [got : SUBSET Steps, errors : SUBSET Steps]
  BY DEF IInv, TypeOK
<1>3. /\ report' \in [got : SUBSET Steps, errors : SUBSET Steps]
      /\ \/ report'.got = report.got /\ report'.errors = report.errors
         \/ report'.got = report.got \cup {t} /\ report'.errors = report.errors
         \/ report'.got = report.got /\ report'.errors = report.errors \cup {t}
  BY <1>1, <1>2, ReportWith
<1>4. /\ After(t) \in IF config.live THEN ToSet(LiveSteps) ELSE ToSet(OperatorSteps)
      /\ After(t) \in Steps
      /\ Place[t] < Place[After(t)]
      /\ ~config.live => Place[After(t)] = Place[t] + 1
  <2>1. t \in IF config.live THEN ToSet(LiveSteps) ELSE ToSet(OperatorSteps)
    BY <1>1, StepsAre, OperatorStepsAre, LiveStepsAre DEF IInv, OnItsWay
  <2> HIDE DEF Steps
  <2> QED BY <2>1, AfterIsLater
<1>5. \A s \in Steps : Place[s] \in Int
  BY StepsAre
<1>6. \A s \in report.got \cup report.errors : s \in Steps /\ Place[s] < Place[t]
  BY <1>1, <1>2 DEF IInv, ReportedInOrder
<1>7. t \notin report.got \cup report.errors
  BY <1>5, <1>6
<1>8. TypeOK'
  <2>1. report'.got \cap report'.errors = {}
    BY <1>3, <1>7 DEF IInv, TypeOK
  <2>2. at' \in Steps /\ at' # "end"
    BY <1>1, <1>4, StepsAre
  <2>3. at # "end"
    BY <1>1, StepsAre
  <2> QED BY <1>1, <1>3, <2>1, <2>2, <2>3 DEF IInv, TypeOK
<1>9. OnItsWay'
  BY <1>1, <1>4 DEF OnItsWay
<1>10. ReportedInOrder'
  <2>1. at' \in Steps
    BY <1>1, <1>4
  <2>2. \A s \in report'.got \cup report'.errors : Place[s] < Place[at']
    BY <1>1, <1>3, <1>4, <1>5, <1>6
  <2> QED BY <2>1, <2>2 DEF ReportedInOrder
<1>11. OpeningsKept'
  BY <1>1, <1>4 DEF IInv, OpeningsKept, Needed
<1>12. AccountedSoFar'
  <2> SUFFICES ASSUME ~config.live, NEW s \in Asked', Place[s] < Place[at']
               PROVE  Accounted(s)'
    BY <1>1, <1>4 DEF AccountedSoFar
  <2>1. s \in Steps
    BY StepsAre DEF Asked
  <2>2. Place[s] <= Place[t]
    BY <1>1, <1>4, <1>5, <2>1
  <2>3. CASE s = t
    BY <2>3
  <2>4. CASE Place[s] < Place[t]
    <3>1. s \in Asked
      BY <1>1, <1>3, <2>4, AskedBefore
    <3>2. Accounted(s)
      BY <1>1, <2>4, <3>1 DEF IInv, AccountedSoFar
    <3> QED BY <1>1, <1>3, <3>2 DEF Accounted, Has
  <2>5. Place[s] = Place[t] => s = t
    BY <1>1, <2>1, StepsAre, OperatorStepsAre DEF IInv, OnItsWay, Place, Asked
  <2> QED BY <1>5, <2>1, <2>2, <2>3, <2>4, <2>5
<1>13. SequencesTyped'
  <2> HIDE DEF Steps
  <2> QED BY <1>1 DEF IInv, SequencesTyped
<1> QED BY <1>8, <1>9, <1>10, <1>11, <1>12, <1>13 DEF IInv

LEMMA DoInv ==
  ASSUME IInv, NEW t \in Steps \ {"reported", "written"}, NEW wanted, Do(t, wanted),
         ~config.live => (t \in Asked' => wanted)
  PROVE  IInv'
<1>1. report \in [got : SUBSET Steps, errors : SUBSET Steps]
  BY DEF IInv, TypeOK
<1>2. CASE wanted
  <2>1. Turn(t, [report EXCEPT !.got = @ \cup {t}])
    BY <1>2 DEF Do, Deliver
  <2>2. report' = [report EXCEPT !.got = @ \cup {t}]
    BY <2>1 DEF Turn
  <2>3. Accounted(t)'
    BY <1>1, <2>2, ReportWith DEF Accounted, Has
  <2> QED BY <2>1, <2>3, TurnInv
<1>3. CASE ~wanted
  <2>1. Turn(t, report)
    BY <1>3 DEF Do, Skip
  <2> QED BY <1>3, <2>1, TurnInv
<1> QED BY <1>2, <1>3

LEMMA AttemptInv ==
  ASSUME IInv, NEW t \in Steps \ {"reported", "written"}, NEW wanted, NEW possible,
         Attempt(t, wanted, possible),
         ~config.live =>
           (t \in Asked' => wanted \/ (t \in DOMAIN ServiceOf /\ ServiceOf[t] \in result.errors))
  PROVE  IInv'
<1>1. report \in [got : SUBSET Steps, errors : SUBSET Steps]
  BY DEF IInv, TypeOK
<1>2. CASE ~wanted /\ Skip(t)
  <2>1. Turn(t, report)
    BY <1>2 DEF Skip
  <2>2. result' = result
    BY <2>1 DEF Turn, Kept
  <2>3. ~config.live => (t \in Asked' => Accounted(t)')
    BY <1>2, <2>2 DEF Accounted
  <2> QED BY <2>1, <2>3, TurnInv
<1>3. CASE wanted /\ possible /\ Deliver(t)
  <2>1. Turn(t, [report EXCEPT !.got = @ \cup {t}])
    BY <1>3 DEF Deliver
  <2>2. report' = [report EXCEPT !.got = @ \cup {t}]
    BY <2>1 DEF Turn
  <2>3. Accounted(t)'
    BY <1>1, <2>2, ReportWith DEF Accounted, Has
  <2> QED BY <2>1, <2>3, TurnInv
<1>4. CASE wanted /\ Turn(t, [report EXCEPT !.errors = @ \cup {t}])
  <2>1. report' = [report EXCEPT !.errors = @ \cup {t}]
    BY <1>4 DEF Turn
  <2>2. Accounted(t)'
    BY <1>1, <2>1, ReportWith DEF Accounted
  <2> QED BY <1>4, <2>2, TurnInv
<1> QED BY <1>2, <1>3, <1>4 DEF Attempt

LEMMA EnrichInv ==
  ASSUME IInv, NEW t \in Steps \ {"reported", "written"}, NEW wanted, NEW possible,
         Enrich(t, wanted, possible), ~config.live => t \notin Asked'
  PROVE  IInv'
<1>1. CASE Skip(t)
  <2>1. Turn(t, report)
    BY <1>1 DEF Skip
  <2> QED BY <2>1, TurnInv
<1>2. CASE Deliver(t)
  <2>1. Turn(t, [report EXCEPT !.got = @ \cup {t}])
    BY <1>2 DEF Deliver
  <2> QED BY <2>1, TurnInv
<1> QED BY <1>1, <1>2 DEF Enrich

\* What a turn leaves as it is.
LEMMA TurnKeeps ==
  ASSUME NEW t, NEW after, Turn(t, after)
  PROVE  /\ UNCHANGED <<config, services, result, Op, Installed, Target, Comparable>>
         /\ report' = after
BY DEF Turn, Kept, lookup, Op, Installed, Target, Comparable

LEMMA DoKeeps ==
  ASSUME NEW t, NEW wanted, Do(t, wanted)
  PROVE  UNCHANGED <<config, services, result, Op, Installed, Target, Comparable>>
BY TurnKeeps DEF Do, Skip, Deliver

LEMMA AttemptKeeps ==
  ASSUME NEW t, NEW wanted, NEW possible, Attempt(t, wanted, possible)
  PROVE  UNCHANGED <<config, services, result, Op, Installed, Target, Comparable>>
BY TurnKeeps DEF Attempt, Skip, Deliver

\* A step of the report that is not t was there before.
LEMMA AttemptAddsItself ==
  ASSUME IInv, NEW t \in Steps, NEW wanted, NEW possible, Attempt(t, wanted, possible),
         NEW s, s # t, Has(s)'
  PROVE  Has(s)
<1>1. report \in [got : SUBSET Steps, errors : SUBSET Steps]
  BY DEF IInv, TypeOK
<1>2. \/ report' = report
      \/ report' = [report EXCEPT !.got = @ \cup {t}]
      \/ report' = [report EXCEPT !.errors = @ \cup {t}]
  BY TurnKeeps DEF Attempt, Skip, Deliver
<1> QED BY <1>1, <1>2, ReportWith DEF Has

\* What is wanted and was not opened is an error of the analysis.
LEMMA NotOpened ==
  ASSUME IInv, ~config.live, at \in Steps, NEW service \in Needed \ Tolerated
  PROVE  Opened(service) \/ service \in result.errors
BY DEF IInv, OpeningsKept, Opened

-----------------------------------------------------------------------------
(* The actions on an operator.                                             *)

LEMMA CheckHealthInv ==
  ASSUME IInv, CheckHealth PROVE IInv'
<1>1. Do("health", config.health)
  BY DEF CheckHealth
<1>2. ~config.live => ("health" \in Asked' => config.health)
  BY <1>1, DoKeeps DEF Asked
<1> QED BY <1>1, <1>2, DoInv, StepsAre

LEMMA InspectInstalledInv ==
  ASSUME IInv, InspectInstalled PROVE IInv'
<1>1. Attempt("installed", Bundled /\ Installed # {}, ~expired) /\ at \in Steps
  BY StepsAre DEF InspectInstalled, Ready
<1>2. ASSUME ~config.live, "installed" \in Asked'
      PROVE  (Bundled /\ Installed # {}) \/ "catalog" \in result.errors
  <2>1. config.catalog # NoText /\ Op.package # Idms /\ Installed # {}
    BY <1>1, <1>2, AttemptKeeps DEF Asked
  <2>2. Opened("catalog") \/ "catalog" \in result.errors
    BY <1>1, <1>2, <2>1, NotOpened DEF Needed, Tolerated
  <2> QED BY <2>1, <2>2 DEF Bundled
<1>3. "installed" \in DOMAIN ServiceOf /\ ServiceOf["installed"] = "catalog"
  BY DEF ServiceOf
<1> QED BY <1>1, <1>2, <1>3, AttemptInv, StepsAre

LEMMA InspectTargetInv ==
  ASSUME IInv, InspectTarget PROVE IInv'
<1> DEFINE Wanted == Bundled /\ (config.version # <<>> \/ Op.channel # NoText)
<1>1. Attempt("target", Wanted, ~expired /\ Target # {}) /\ at \in Steps
  BY StepsAre DEF InspectTarget, Ready
<1>2. ASSUME ~config.live, "target" \in Asked'
      PROVE  Wanted \/ "catalog" \in result.errors
  <2>1. /\ config.catalog # NoText /\ Op.package # Idms
        /\ ~(Op.channel = NoText /\ config.version = <<>>)
    BY <1>1, <1>2, AttemptKeeps DEF Asked
  <2>2. Opened("catalog") \/ "catalog" \in result.errors
    BY <1>1, <1>2, <2>1, NotOpened DEF Needed, Tolerated
  <2> QED BY <2>1, <2>2 DEF Bundled
<1>3. "target" \in DOMAIN ServiceOf /\ ServiceOf["target"] = "catalog"
  BY DEF ServiceOf
<1> HIDE DEF Wanted
<1> QED BY <1>1, <1>2, <1>3, AttemptInv, StepsAre

LEMMA CalculateDeltaInv ==
  ASSUME IInv, CalculateDelta PROVE IInv'
<1> DEFINE Wanted == Has("installed") /\ Has("target") /\ Comparable
<1>1. Attempt("delta", Wanted, ~expired)
  BY DEF CalculateDelta
<1>2. "delta" \in Asked' => Wanted
  <2> SUFFICES ASSUME "delta" \in Asked' PROVE Wanted
    OBVIOUS
  <2>1. Has("installed")' /\ Has("target")' /\ Comparable'
    BY DEF Asked
  <2>2. Comparable
    BY <1>1, <2>1, AttemptKeeps
  <2>3. Has("installed") /\ Has("target")
    <3> HIDE DEF Wanted
    <3> QED BY <1>1, <2>1, AttemptAddsItself, StepsAre
  <2> QED BY <2>2, <2>3
<1> HIDE DEF Wanted
<1> QED BY <1>1, <1>2, AttemptInv, StepsAre

LEMMA AnalyzeCodeInv ==
  ASSUME IInv, AnalyzeCode PROVE IInv'
<1> DEFINE Wanted == config.source
                     \/ (Has("target") /\ (\A t \in Target : t.url) /\ buildCodePatterns(Op))
<1>1. Attempt("code", Wanted, config.source \/ ~expired)
  BY DEF AnalyzeCode
<1>2. "code" \in Asked' => Wanted
  <2> SUFFICES ASSUME "code" \in Asked', ~config.source PROVE Wanted
    OBVIOUS
  <2>1. UNCHANGED <<config, Op, Target>>
    <3> HIDE DEF Wanted
    <3> QED BY <1>1, AttemptKeeps
  <2>2. Has("target")' /\ (\A t \in Target' : t.url) /\ buildCodePatterns(Op')
    BY <2>1 DEF Asked
  <2>3. Has("target")
    <3> HIDE DEF Wanted
    <3> QED BY <1>1, <2>2, AttemptAddsItself, StepsAre
  <2> QED BY <2>1, <2>2, <2>3
<1> HIDE DEF Wanted
<1> QED BY <1>1, <1>2, AttemptInv, StepsAre

LEMMA AskClaudeInv ==
  ASSUME IInv, AskClaude PROVE IInv'
<1> DEFINE Wanted == Opened("client") /\ Has("delta")
<1>1. Attempt("claude", Wanted, ~expired) /\ at \in Steps
  BY StepsAre DEF AskClaude, Ready
<1>2. ASSUME ~config.live, "claude" \in Asked' PROVE Wanted \/ "client" \in result.errors
  <2>1. Has("delta")'
    BY <1>2 DEF Asked
  <2>2. Has("delta")
    <3> HIDE DEF Wanted
    <3> QED BY <1>1, <2>1, AttemptAddsItself, StepsAre
  <2>3. Opened("client") \/ "client" \in result.errors
    BY <1>1, <1>2, NotOpened DEF Needed, Tolerated
  <2> QED BY <2>2, <2>3
<1>3. "claude" \in DOMAIN ServiceOf /\ ServiceOf["claude"] = "client"
  BY DEF ServiceOf
<1> HIDE DEF Wanted
<1> QED BY <1>1, <1>2, <1>3, AttemptInv, StepsAre

LEMMA TroubleshootInv ==
  ASSUME IInv, Troubleshoot PROVE IInv'
<1>1. Enrich("rag", IF config.live THEN config.rag ELSE Opened("rag"), TRUE)
  BY DEF Troubleshoot
<1>2. "rag" \notin Asked'
  BY DEF Asked
<1> QED BY <1>1, <1>2, EnrichInv, StepsAre

LEMMA DivergeInv ==
  ASSUME IInv, Diverge PROVE IInv'
<1>1. CASE config.live
  <2>1. Enrich("adhd", config.adhd, ~expired)
    BY <1>1 DEF Diverge
  <2> QED BY <1>1, <2>1, EnrichInv, StepsAre
<1>2. CASE ~config.live
  <2>1. Attempt("adhd", config.adhd /\ Opened("client"), ~expired) /\ at \in Steps
    BY <1>2, StepsAre DEF Diverge, Ready
  <2>2. "adhd" \in Asked' => (config.adhd /\ Opened("client")) \/ "client" \in result.errors
    <3>1. "adhd" \in Asked' => config.adhd
      BY <2>1, AttemptKeeps DEF Asked
    <3>2. Opened("client") \/ "client" \in result.errors
      BY <1>2, <2>1, NotOpened DEF Needed, Tolerated
    <3> QED BY <3>1, <3>2
  <2>3. "adhd" \in DOMAIN ServiceOf /\ ServiceOf["adhd"] = "client"
    BY DEF ServiceOf
  <2> QED BY <2>1, <2>2, <2>3, AttemptInv, StepsAre
<1> QED BY <1>1, <1>2

LEMMA CorrelateRepoInv ==
  ASSUME IInv, CorrelateRepo PROVE IInv'
<1>1. Do("correlation", config.repoCorr /\ (config.live \/ Op.faulty))
  BY DEF CorrelateRepo
<1>2. "correlation" \in Asked' => config.repoCorr /\ Op.faulty
  BY <1>1, DoKeeps DEF Asked
<1> QED BY <1>1, <1>2, DoInv, StepsAre

LEMMA FindSimilarInv ==
  ASSUME IInv, FindSimilar PROVE IInv'
<1>1. CASE config.live
  <2>1. Enrich("similar", config.learning, TRUE)
    BY <1>1 DEF FindSimilar
  <2> QED BY <1>1, <2>1, EnrichInv, StepsAre
<1>2. CASE ~config.live
  <2>1. Attempt("similar", config.learning /\ Opened("store"), TRUE) /\ at \in Steps
    BY <1>2, StepsAre DEF FindSimilar, Ready
  <2>2. "similar" \in Asked' =>
          (config.learning /\ Opened("store")) \/ "store" \in result.errors
    <3>1. "similar" \in Asked' => config.learning
      BY <2>1, AttemptKeeps DEF Asked
    <3>2. config.learning => (Opened("store") \/ "store" \in result.errors)
      BY <1>2, <2>1, NotOpened DEF Needed, Tolerated
    <3> QED BY <3>1, <3>2
  <2>3. "similar" \in DOMAIN ServiceOf /\ ServiceOf["similar"] = "store"
    BY DEF ServiceOf
  <2> QED BY <2>1, <2>2, <2>3, AttemptInv, StepsAre
<1> QED BY <1>1, <1>2

LEMMA DocumentInv ==
  ASSUME IInv, Document PROVE IInv'
<1>1. Do("document", config.rca)
  BY DEF Document
<1>2. "document" \in Asked' => config.rca
  BY <1>1, DoKeeps DEF Asked
<1> QED BY <1>1, <1>2, DoInv, StepsAre

LEMMA RunInfraChecksInv ==
  ASSUME IInv, RunInfraChecks PROVE IInv'
<1>1. Do("infra", config.health)
  BY DEF RunInfraChecks
<1>2. "infra" \notin Asked'
  BY DEF Asked
<1> QED BY <1>1, <1>2, DoInv, StepsAre

-----------------------------------------------------------------------------
(* The command line and the directories.                                   *)

\* What is read of a command line is a beginning of it.
LEMMA ReadIsBeginning ==
  ASSUME NEW A, NEW args \in Seq(A)
  PROVE  \E k \in 0..Len(args) : DOMAIN Read(args) = 1..k
<1> DEFINE stops == {i \in DOMAIN args : Surplus(args[i])}
<1>1. DOMAIN args = 1..Len(args) /\ Len(args) \in Nat
  OBVIOUS
<1>2. CASE stops = {}
  <2>1. Read(args) = args
    BY <1>2, Zenon DEF Read
  <2>2. Len(args) \in 0..Len(args)
    BY <1>1
  <2> HIDE DEF stops
  <2> QED BY <1>1, <2>1, <2>2
<1>3. CASE stops # {}
  <2>1. Min(stops) \in stops
    <3>1. stops \subseteq Nat
      BY <1>1
    <3> HIDE DEF stops
    <3> QED BY <1>3, <3>1, MinIn
  <2>2. Min(stops) \in 1..Len(args)
    BY <1>1, <2>1
  <2>3. Read(args) = SubSeq(args, 1, Min(stops))
    BY <1>3 DEF Read
  <2> HIDE DEF stops
  <2>4. DOMAIN SubSeq(args, 1, Min(stops)) = 1..Min(stops)
    BY <2>2
  <2> QED BY <2>2, <2>3, <2>4
<1> QED BY <1>2, <1>3

\* The words of the flags that take directories are patterns.
LEMMA WordsOfTyped ==
  ASSUME NEW i \in Invocations, NEW flags, flags \subseteq {"must-gather", "m"}
  PROVE  WordsOf(i.args, flags) \in Seq(DOMAIN Glob)
<1> DEFINE args  == i.args
           given == {j \in DOMAIN Read(args) : args[j].flag \in flags}
<1>1. /\ args \in Seq(ToSet(args))
      /\ \A a \in ToSet(args) : a.flag \in {"must-gather", "m"} => a.words \in Seq(DOMAIN Glob)
  BY CommandLineAssumption
<1>2. PICK k \in 0..Len(args) : DOMAIN Read(args) = 1..k
  <2> HIDE DEF args
  <2> QED BY <1>1, ReadIsBeginning
<1>3. CASE given = {}
  <2>1. WordsOf(args, flags) = <<>>
    BY <1>3 DEF WordsOf
  <2> QED BY <2>1
<1>4. CASE given # {}
  <2>1. Max(given) \in given
    <3>1. k \in Nat /\ given \subseteq 0..k
      <4> HIDE DEF args
      <4> QED BY <1>1, <1>2
    <3> HIDE DEF given
    <3> QED BY <1>4, <3>1, MaxIn
  <2> DEFINE last == args[Max(given)]
  <2>2. last \in ToSet(args) /\ last.flag \in flags
    <3>1. Max(given) \in 1..Len(args)
      <4> HIDE DEF args
      <4> QED BY <1>1, <1>2, <2>1
    <3>2. last.flag \in flags
      BY <2>1
    <3>3. args[Max(given)] \in ToSet(args)
      <4> HIDE DEF args, given
      <4> QED BY <1>1, <3>1 DEF ToSet
    <3> QED BY <3>2, <3>3
  <2>3. last.words \in Seq(DOMAIN Glob)
    <3> HIDE DEF last, args
    <3> QED BY <1>1, <2>2
  <2>4. WordsOf(args, flags) = IF Surplus(last) THEN SubSeq(last.words, 1, 1) ELSE last.words
    BY <1>4 DEF WordsOf
  <2>5. Surplus(last) => SubSeq(last.words, 1, 1) \in Seq(DOMAIN Glob)
    <3> DEFINE w == last.words
    <3>1. Surplus(last) => Len(w) > 0
      BY <2>3 DEF Surplus
    <3> HIDE DEF w, last
    <3> QED BY <2>3, <3>1 DEF w
  <2> HIDE DEF last
  <2> QED BY <2>3, <2>4, <2>5
<1> QED BY <1>3, <1>4

\* So are the patterns of a configuration.
LEMMA ConfigurationTyped ==
  ASSUME NEW i \in Invocations, NEW c \in Configuration(i.command, i.args, i.kubeconfig)
  PROVE  c.patterns \in Seq(DOMAIN Glob)
<1>1. i.command \in {"inspect", "telco", "opm"}
  BY CommandLineAssumption DEF KnownFlags
<1>2. \/ i.command = "inspect" /\ c \in ParseArgs(i.args)
      \/ i.command = "telco" /\ c \in ParseTelcoArgs(i.args)
      \/ i.command = "opm" /\ c \in ParseDiagnoseArgs(i.args, i.kubeconfig)
  BY <1>1 DEF Configuration
<1>a. "patterns" \in DOMAIN Common(i.args)
  BY DEF Common
<1>3. CASE c \in ParseArgs(i.args)
  <2>1. c.patterns = WordsOf(i.args, {"must-gather"})
    BY <1>3, <1>a DEF ParseArgs
  <2> QED BY <2>1, WordsOfTyped
<1>4. CASE c \in ParseTelcoArgs(i.args)
  <2>1. c.patterns = WordsOf(i.args, {"must-gather", "m"})
    BY <1>4, <1>a DEF ParseTelcoArgs
  <2> QED BY <2>1, WordsOfTyped
<1>5. CASE c \in ParseDiagnoseArgs(i.args, i.kubeconfig)
  <2>1. c.patterns = WordsOf(i.args, {"must-gather", "m"})
    BY <1>5, <1>a DEF ParseDiagnoseArgs
  <2> QED BY <2>1, WordsOfTyped
<1> QED BY <1>2, <1>3, <1>4, <1>5

\* The directories found are those there are.
LEMMA ExpandTyped ==
  ASSUME NEW patterns \in Seq(DOMAIN Glob), NEW found \in ExpandMustGatherPaths(patterns, Glob)
  PROVE  found \in Seq(DOMAIN Dumps)
<1> DEFINE ss == [i \in DOMAIN patterns |-> CHOOSE m \in Glob[patterns[i]] : TRUE]
<1>1. \A i \in DOMAIN patterns : Glob[patterns[i]] # {}
  BY DEF ExpandMustGatherPaths
<1>2. \A i \in DOMAIN patterns : ss[i] \in Seq(DOMAIN Dumps)
  <2> SUFFICES ASSUME NEW i \in DOMAIN patterns PROVE ss[i] \in Seq(DOMAIN Dumps)
    OBVIOUS
  <2>1. patterns[i] \in DOMAIN Glob
    OBVIOUS
  <2>2. ss[i] \in Glob[patterns[i]]
    BY <1>1
  <2> QED BY <2>1, <2>2, GlobAssumption
<1>3. ss \in Seq(Seq(DOMAIN Dumps))
  <2>1. DOMAIN ss = 1..Len(patterns) /\ Len(patterns) \in Nat
    OBVIOUS
  <2> QED BY <1>2, <2>1
<1>4. found = FlattenSeq(ss)
  BY DEF ExpandMustGatherPaths
<1> HIDE DEF ss
<1> QED BY <1>3, <1>4, FlattenTyped

-----------------------------------------------------------------------------
(* The actions around the operators.                                       *)

\* A step that leaves everything but the place and the exit code, and stays
\* among the steps where no operator is in work, keeps the invariant.
LEMMA ElsewhereInv ==
  ASSUME IInv, OnItsWay', at \notin Steps \cup {"end"}, at' \notin Steps \cup {"end"},
         UNCHANGED <<inv, config, targets, report, results, exit>>,
         dirs' \in Seq(DOMAIN Dumps), expired' \in BOOLEAN, services' \subseteq services,
         result' = result,
         at' \in {"inspect", "expand", "connect", "dump", "services", "merge"},
         at' \in {"dump", "services"} => dirs' # <<>>
  PROVE  IInv'
<1>1. TypeOK'
  <2>1. ToSet(dirs') \subseteq DOMAIN Dumps
    BY DEF ToSet
  <2> HIDE DEF Steps
  <2> QED BY <2>1 DEF IInv, TypeOK
<1>2. ReportedInOrder'
  BY DEF IInv, ReportedInOrder
<1>3. OpeningsKept' /\ AccountedSoFar'
  BY DEF OpeningsKept, AccountedSoFar
<1>4. SequencesTyped'
  <2> HIDE DEF Steps
  <2> QED BY DEF IInv, SequencesTyped
<1> QED BY <1>1, <1>2, <1>3, <1>4 DEF IInv

LEMMA InitInv ==
  ASSUME Init PROVE IInv
<1>1. /\ config.patterns = <<>> /\ config.live = FALSE
      /\ at = "parse" /\ exit = -1 /\ at \notin Steps /\ at # "end"
  <2>1. /\ Common(<<>>).patterns = <<>> /\ Common(<<>>).live = FALSE
        /\ {"patterns", "live"} \subseteq DOMAIN Common(<<>>)
    BY DEF Common
  <2> QED BY <2>1, StepsAre DEF Init
<1>2. /\ dirs = <<>> /\ results = <<>> /\ services = {} /\ report = NoReport
      /\ result = NoResult(NoText) /\ inv \in Invocations /\ expired = FALSE
  BY DEF Init
<1>3. /\ result.errors = {} /\ result.reports = <<>> /\ result.analyzed = 0
  BY <1>2 DEF NoResult
<1>4. TypeOK
  <2>1. ToSet(dirs) = {} /\ DOMAIN results = {}
    BY <1>2 DEF ToSet
  <2>2. report \in [got : SUBSET Steps, errors : SUBSET Steps] /\ report.got = {}
    BY <1>2 DEF NoReport
  <2>3. at \in {"parse"}
    BY <1>1
  <2>4. exit \in -1..2 /\ (exit = -1 <=> at # "end")
    BY <1>1
  <2>5. at \in Steps \cup {"parse", "inspect", "expand", "connect", "dump", "services", "merge",
                           "end"}
    BY <2>3
  <2> HIDE DEF Steps
  <2> QED BY <1>2, <1>3, <2>1, <2>2, <2>4, <2>5 DEF TypeOK
<1>5. OnItsWay
  BY <1>1 DEF OnItsWay
<1>6. ReportedInOrder /\ OpeningsKept /\ AccountedSoFar
  BY <1>1, <1>2 DEF ReportedInOrder, OpeningsKept, AccountedSoFar
<1>7. SequencesTyped
  <2> HIDE DEF Steps
  <2> QED BY <1>1, <1>2, <1>3 DEF SequencesTyped
<1> QED BY <1>4, <1>5, <1>6, <1>7 DEF IInv

LEMMA LeaveInv ==
  ASSUME IInv, at' = "end", exit' \in 0..2, UNCHANGED <<inv, config, work, expired>>
  PROVE  IInv'
<1>1. UNCHANGED <<dirs, services, targets, report, result, results>>
  BY DEF work
<1>2. "end" \notin Steps
  BY StepsAre
<1>3. TypeOK'
  <2> HIDE DEF Steps
  <2> QED BY <1>1 DEF IInv, TypeOK
<1>4. OnItsWay'
  BY DEF OnItsWay
<1>5. ReportedInOrder' /\ OpeningsKept' /\ AccountedSoFar'
  BY <1>2 DEF ReportedInOrder, OpeningsKept, AccountedSoFar
<1>6. SequencesTyped'
  BY <1>1, <1>2 DEF IInv, SequencesTyped
<1> QED BY <1>3, <1>4, <1>5, <1>6 DEF IInv

LEMMA ExpireInv ==
  ASSUME IInv, Expire PROVE IInv'
<1>1. /\ UNCHANGED <<inv, config, at, dirs, services, targets, report, result, results, exit>>
      /\ expired' = TRUE
  BY DEF Expire, lookup, work
<1>2. UNCHANGED <<Asked, Needed>>
  BY <1>1 DEF Asked, Needed, Has, Op, Installed, Target, Comparable
<1>3. TypeOK'
  <2> HIDE DEF Steps
  <2> QED BY <1>1 DEF IInv, TypeOK
<1>4. OnItsWay' /\ ReportedInOrder' /\ OpeningsKept'
  <2> HIDE DEF Steps
  <2> QED BY <1>1, <1>2 DEF IInv, OnItsWay, ReportedInOrder, OpeningsKept
<1>5. AccountedSoFar'
  BY <1>1, <1>2 DEF IInv, AccountedSoFar, Accounted, Has
<1>6. SequencesTyped'
  BY <1>1 DEF IInv, SequencesTyped
<1> QED BY <1>3, <1>4, <1>5, <1>6 DEF IInv

LEMMA ParseInv ==
  ASSUME IInv, Parse PROVE IInv'
<1>1. at = "parse" /\ UNCHANGED <<inv, work, expired>> /\ at \notin Steps /\ at # "end"
  BY StepsAre DEF Parse, Ready
<1>2. CASE (Leave(0) \/ Leave(1)) /\ UNCHANGED config
  BY <1>1, <1>2, LeaveInv DEF Leave
<1>3. CASE /\ config' \in Configuration(inv.command, inv.args, inv.kubeconfig)
           /\ Goto(IF config'.live THEN "connect"
                   ELSE IF config'.patterns # <<>> THEN "expand" ELSE "inspect")
  <2>1. UNCHANGED <<dirs, services, targets, report, result, results>>
    BY <1>1 DEF work
  <2>2. /\ at' \in {"connect", "expand", "inspect"} /\ exit' = exit
        /\ config'.live <=> at' = "connect"
    BY <1>3 DEF Goto
  <2>3. config'.patterns \in Seq(DOMAIN Glob)
    BY <1>3, ConfigurationTyped DEF IInv, TypeOK
  <2>4. TypeOK'
    <3> HIDE DEF Steps
    <3> QED BY <1>1, <2>1, <2>2 DEF IInv, TypeOK
  <2>5. OnItsWay'
    BY <2>2 DEF OnItsWay
  <2>6. at' \notin Steps \cup {"end"}
    BY <2>2, StepsAre
  <2>7. ReportedInOrder' /\ OpeningsKept' /\ AccountedSoFar'
    <3> HIDE DEF Steps
    <3> QED BY <1>1, <2>1, <2>6 DEF IInv, ReportedInOrder, OpeningsKept, AccountedSoFar
  <2>8. SequencesTyped'
    BY <2>1, <2>2, <2>3, <2>6 DEF IInv, SequencesTyped
  <2> QED BY <2>4, <2>5, <2>7, <2>8 DEF IInv
<1> QED BY <1>2, <1>3, Zenon DEF Parse

LEMMA InspectInv ==
  ASSUME IInv, Inspect PROVE IInv'
<1>1. UNCHANGED <<inv, config, work, expired>>
  BY DEF Inspect, lookup
<1>2. \/ Leave(0) \/ Leave(1) \/ Leave(2)
      \/ \E c : Leave(IF isUsageError(Index, config.package, c, config.version) THEN 1 ELSE 2)
  BY Zenon DEF Inspect
<1>3. at' = "end" /\ exit' \in 0..2
  BY <1>2 DEF Leave
<1> QED BY <1>1, <1>3, LeaveInv

LEMMA ExpandInv ==
  ASSUME IInv, Expand PROVE IInv'
<1>1. /\ at = "expand" /\ at \notin Steps \cup {"end"} /\ "dump" \notin Steps \cup {"end"}
      /\ UNCHANGED <<inv, config, services, targets, report, result, results, expired>>
  BY StepsAre DEF Expand, Ready, lookup
<1>2. CASE Leave(1) /\ UNCHANGED dirs
  BY <1>1, <1>2, LeaveInv DEF Leave, work
<1>3. CASE /\ ExpandMustGatherPaths(config.patterns, Glob) \notin {{}, {<<>>}}
           /\ dirs' \in ExpandMustGatherPaths(config.patterns, Glob) /\ Goto("dump")
  <2>1. dirs' \in Seq(DOMAIN Dumps)
    BY <1>3, ExpandTyped DEF IInv, SequencesTyped
  <2>a. dirs' # <<>>
    BY <1>3 DEF ExpandMustGatherPaths
  <2>2. at' = "dump" /\ exit' = exit /\ expired' \in BOOLEAN
    BY <1>1, <1>3 DEF Goto, IInv, TypeOK
  <2>3. OnItsWay'
    BY <1>1, <2>2, LiveStepsAre DEF IInv, OnItsWay
  <2> QED BY <1>1, <2>a, <2>1, <2>2, <2>3, ElsewhereInv
<1> QED BY <1>2, <1>3, Zenon DEF Expand

LEMMA NoResultIs ==
  ASSUME NEW dir
  PROVE  /\ NoResult(dir).errors = {} /\ NoResult(dir).reports = <<>>
         /\ NoResult(dir).analyzed = 0
         /\ DOMAIN NoResult(dir) = {"dir", "cluster", "faulty", "reports", "analyzed", "errors"}
BY DEF NoResult

\* The analysis of a directory ends with one that counts no more than it reports.
LEMMA EndAnalysisInv ==
  ASSUME IInv, ~config.live, dirs # <<>>, at # "end", NEW done, EndAnalysis(done),
         done.analyzed <= Len(done.reports), report' = NoReport,
         UNCHANGED <<inv, config, expired>>
  PROVE  IInv'
<1>1. /\ results' = Append(results, done) /\ dirs' = Tail(dirs) /\ exit' = exit
      /\ at' = IF Tail(dirs) = <<>> THEN "merge" ELSE "dump"
      /\ result' = NoResult(NoText) /\ services' = {}
  BY DEF EndAnalysis, Goto
<1>2. dirs' \in Seq(DOMAIN Dumps) /\ ToSet(dirs') \subseteq DOMAIN Dumps
  BY <1>1 DEF IInv, SequencesTyped, ToSet
<1>3. at' \in {"merge", "dump"} /\ at' \notin Steps \cup {"end"}
  BY <1>1, StepsAre
<1>4. /\ DOMAIN results' = 1..(Len(results) + 1) /\ DOMAIN results = 1..Len(results)
      /\ results'[Len(results) + 1] = done
      /\ \A i \in DOMAIN results : results'[i] = results[i]
  BY <1>1 DEF IInv, SequencesTyped
<1>5. \A i \in DOMAIN results' : results'[i].analyzed <= Len(results'[i].reports)
  <2>1. \A i \in DOMAIN results' : i = Len(results) + 1 \/ i \in DOMAIN results
    BY <1>4 DEF IInv, SequencesTyped
  <2> QED BY <1>4, <2>1 DEF IInv, TypeOK
<1>6. TypeOK'
  <2>1. report' \in [got : SUBSET Steps, errors : SUBSET Steps]
        /\ report'.got \cap report'.errors = {}
    BY DEF NoReport
  <2>2. DOMAIN result' = DOMAIN NoResult(NoText) /\ result'.errors = {}
    BY <1>1, NoResultIs
  <2> HIDE DEF Steps
  <2> QED BY <1>1, <1>2, <1>3, <1>5, <2>1, <2>2 DEF IInv, TypeOK
<1>7. OnItsWay'
  BY <1>3 DEF OnItsWay
<1>8. ReportedInOrder' /\ OpeningsKept' /\ AccountedSoFar'
  BY <1>3 DEF ReportedInOrder, OpeningsKept, AccountedSoFar
<1>9. results' \in Seq(ToSet(results'))
  <2> DEFINE n == Len(results) + 1
  <2>1. results' \in Seq(ToSet(results) \cup {done})
    BY <1>1 DEF IInv, SequencesTyped
  <2>2. ToSet(results) \cup {done} \subseteq ToSet(results')
    BY <1>4 DEF ToSet
  <2>3. ToSet(results') \subseteq ToSet(results) \cup {done}
    BY <2>1 DEF ToSet
  <2>4. ToSet(results') = ToSet(results) \cup {done}
    BY <2>2, <2>3
  <2> QED BY <2>1, <2>4
<1>10. SequencesTyped'
  <2>1. /\ result'.reports = <<>> /\ result'.analyzed = 0
    BY <1>1, NoResultIs
  <2>2. result'.reports \in Seq(ToSet(result'.reports)) /\ result'.analyzed <= Len(result'.reports)
    BY <2>1
  <2>3. at' \in Steps \cup {"dump", "services"} => dirs' # <<>>
    BY <1>1, <1>3
  <2> HIDE DEF Steps
  <2> QED BY <1>2, <1>9, <2>1, <2>2, <2>3 DEF IInv, SequencesTyped
<1> QED BY <1>6, <1>7, <1>8, <1>10 DEF IInv

LEMMA SkipDumpInv ==
  ASSUME IInv, SkipDump PROVE IInv'
<1>1. /\ at = "dump" /\ at \notin Steps \cup {"end"} /\ {"merge", "dump"} \cap (Steps \cup {"end"}) = {}
      /\ UNCHANGED <<inv, config, services, targets, report, result, results, expired>>
      /\ dirs' = Tail(dirs) /\ exit' = exit
      /\ at' = IF Tail(dirs) = <<>> THEN "merge" ELSE "dump"
  BY StepsAre DEF SkipDump, Ready, lookup, Goto
<1>2. ~config.live
  BY <1>1, LiveStepsAre DEF IInv, OnItsWay
<1>3. dirs' \in Seq(DOMAIN Dumps)
  BY <1>1, <1>2 DEF IInv, SequencesTyped
<1>4. OnItsWay' /\ at' \in {"merge", "dump"} /\ (at' = "dump" => dirs' # <<>>)
  BY <1>1, <1>2 DEF OnItsWay
<1>5. expired' \in BOOLEAN
  BY <1>1 DEF IInv, TypeOK
<1> QED BY <1>1, <1>3, <1>4, <1>5, ElsewhereInv

LEMMA ParseDumpInv ==
  ASSUME IInv, ParseDump PROVE IInv'
<1>1. /\ at = "dump" /\ at \notin Steps \cup {"end"}
      /\ UNCHANGED <<inv, config, report, expired>>
  BY StepsAre DEF ParseDump, Ready, lookup
<1>2. ~config.live /\ dirs # <<>>
  BY <1>1, LiveStepsAre DEF IInv, OnItsWay, SequencesTyped
<1>3. report = NoReport
  BY <1>1 DEF IInv, ReportedInOrder
<1>4. PICK operators \in ParseMustGather(Dumps[Head(dirs)]) :
        LET parsed == [NoResult(Head(dirs)) EXCEPT
                         !.cluster = ClusterName,
                         !.faulty = Len(Select(operators, LAMBDA o : o.faulty))]
        IN  \/ targets' = <<>> /\ EndAnalysis(parsed)
            \/ /\ targets' # <<>> /\ Goto("services") /\ result' = parsed
               /\ UNCHANGED <<dirs, services, results>>
  BY DEF ParseDump
<1> DEFINE dir == Head(dirs)
           n   == Len(Select(operators, LAMBDA o : o.faulty))
           parsed == [NoResult(dir) EXCEPT !.cluster = ClusterName, !.faulty = n]
<1>5. /\ parsed.errors = {} /\ parsed.reports = <<>> /\ parsed.analyzed = 0
      /\ DOMAIN parsed = DOMAIN NoResult(NoText)
  <2> HIDE DEF dir, n
  <2> QED BY NoResultIs
<1>6. \/ EndAnalysis(parsed)
      \/ Goto("services") /\ result' = parsed /\ UNCHANGED <<dirs, services, results>>
  BY <1>4
<1> HIDE DEF parsed
<1>7. CASE EndAnalysis(parsed)
  <2>1. parsed.analyzed <= Len(parsed.reports)
    BY <1>5
  <2> QED BY <1>1, <1>2, <1>3, <1>7, <2>1, EndAnalysisInv
<1>8. CASE Goto("services") /\ result' = parsed /\ UNCHANGED <<dirs, services, results>>
  <2>1. at' = "services" /\ exit' = exit /\ at' \notin Steps \cup {"end"}
    BY <1>8, StepsAre DEF Goto
  <2>2. TypeOK'
    <3> HIDE DEF Steps
    <3> QED BY <1>1, <1>5, <1>8, <2>1 DEF IInv, TypeOK
  <2>3. OnItsWay'
    BY <1>1, <1>2, <2>1 DEF OnItsWay
  <2>4. ReportedInOrder' /\ OpeningsKept' /\ AccountedSoFar'
    BY <1>1, <1>3, <2>1 DEF ReportedInOrder, OpeningsKept, AccountedSoFar
  <2>5. SequencesTyped'
    <3>1. result'.reports = <<>> /\ result'.analyzed = 0
      BY <1>5, <1>8
    <3>2. /\ result'.reports \in Seq(ToSet(result'.reports))
          /\ result'.analyzed \in Nat /\ result'.analyzed <= Len(result'.reports)
      BY <3>1
    <3>3. results' \in Seq(ToSet(results')) /\ dirs' \in Seq(DOMAIN Dumps) /\ dirs' # <<>>
          /\ config'.patterns \in Seq(DOMAIN Glob)
      BY <1>1, <1>2, <1>8 DEF IInv, SequencesTyped
    <3> QED BY <3>2, <3>3 DEF SequencesTyped
  <2> QED BY <2>2, <2>3, <2>4, <2>5 DEF IInv
<1> QED BY <1>6, <1>7, <1>8

\* The first step of an operator has nothing to account for.
LEMMA HealthIsFirst ==
  ASSUME NEW s \in Asked'
  PROVE  ~(Place[s] < Place["health"])
BY DEF Asked, Place

LEMMA OpenServicesInv ==
  ASSUME IInv, OpenServices PROVE IInv'
<1>1. /\ at = "services" /\ at \notin Steps \cup {"end"} /\ at' = "health" /\ exit' = exit
      /\ "health" \in Steps /\ "health" # "end"
      /\ UNCHANGED <<inv, config, dirs, targets, report, results, expired>>
  BY StepsAre DEF OpenServices, Ready, lookup, Goto
<1>2. ~config.live /\ dirs # <<>>
  BY <1>1, LiveStepsAre DEF IInv, OnItsWay, SequencesTyped
<1>3. report = NoReport
  BY <1>1 DEF IInv, ReportedInOrder
<1>4. PICK open \in SUBSET Needed :
        services' = open /\ result' = [result EXCEPT !.errors = Needed \ (open \cup Tolerated)]
  BY DEF OpenServices
<1> DEFINE errors == Needed \ (open \cup Tolerated)
<1>5. /\ result'.errors = errors
      /\ result'.reports = result.reports /\ result'.analyzed = result.analyzed
      /\ DOMAIN result' = DOMAIN NoResult(NoText)
  <2>1. {"errors", "reports", "analyzed"} \subseteq DOMAIN result
        /\ DOMAIN result = DOMAIN NoResult(NoText)
    BY NoResultIs DEF IInv, TypeOK
  <2> HIDE DEF errors
  <2> QED BY <1>4, <2>1 DEF errors
<1>6. /\ services' \subseteq {"catalog", "client", "rag", "store"}
      /\ result'.errors \subseteq {"catalog", "client", "store"}
  BY <1>4, <1>5 DEF Needed, Tolerated
<1>7. TypeOK'
  <2> HIDE DEF Steps, errors
  <2> QED BY <1>1, <1>5, <1>6 DEF IInv, TypeOK
<1>8. OnItsWay'
  BY <1>1, <1>2, OperatorStepsAre DEF OnItsWay
<1>9. ReportedInOrder'
  BY <1>1, <1>3 DEF ReportedInOrder, NoReport
<1>10. OpeningsKept'
  BY <1>1, <1>4, <1>5 DEF OpeningsKept, Needed, Tolerated
<1>11. AccountedSoFar'
  BY <1>1, HealthIsFirst DEF AccountedSoFar
<1>12. SequencesTyped'
  <2> HIDE DEF errors
  <2> QED BY <1>1, <1>2, <1>5 DEF IInv, SequencesTyped
<1> QED BY <1>7, <1>8, <1>9, <1>10, <1>11, <1>12 DEF IInv

\* With one more report a result still has its shape.
LEMMA ReportAppended ==
  ASSUME NEW r, r.reports \in Seq(ToSet(r.reports)), r.analyzed \in Nat,
         r.analyzed <= Len(r.reports), {"errors", "reports", "analyzed"} \subseteq DOMAIN r,
         NEW new, NEW more \in {r.analyzed, r.analyzed + 1}, NEW done,
         done = [r EXCEPT !.reports = Append(r.reports, new), !.analyzed = more]
  PROVE  /\ done.errors = r.errors /\ DOMAIN done = DOMAIN r
         /\ done.analyzed \in Nat /\ done.analyzed <= Len(done.reports)
         /\ done.reports \in Seq(ToSet(done.reports))
<1> DEFINE s == r.reports
           t == Append(s, new)
<1>1. done.errors = r.errors /\ DOMAIN done = DOMAIN r
      /\ done.reports = t /\ done.analyzed = more
  <2> HIDE DEF t
  <2> QED BY DEF t
<1>2. /\ t \in Seq(ToSet(s) \cup {new}) /\ Len(t) = Len(s) + 1
      /\ Len(s) \in Nat /\ t[Len(t)] = new /\ \A i \in 1..Len(s) : t[i] = s[i]
  <2> HIDE DEF s
  <2> QED BY DEF s
<1>3. ToSet(t) = ToSet(s) \cup {new}
  <2>1. DOMAIN t = 1..Len(t) /\ DOMAIN s = 1..Len(s)
    <3> HIDE DEF s, t
    <3> QED BY <1>2 DEF s
  <2> HIDE DEF s, t
  <2>2. \A x \in ToSet(s) : x \in ToSet(t)
    BY <1>2, <2>1 DEF ToSet
  <2>3. new \in ToSet(t)
    BY <1>2, <2>1 DEF ToSet
  <2>4. \A x \in ToSet(t) : x \in ToSet(s) \cup {new}
    BY <1>2, <2>1 DEF ToSet
  <2> QED BY <2>2, <2>3, <2>4
<1>4. more \in Nat /\ more <= Len(t)
  <2> HIDE DEF t
  <2> QED BY <1>2
<1> HIDE DEF s, t
<1> QED BY <1>1, <1>2, <1>3, <1>4

LEMMA EndOperatorInv ==
  ASSUME IInv, EndOperator PROVE IInv'
<1> DEFINE new  == [dir |-> result.dir, op |-> Op, documented |-> Has("document")]
           more == IF report.errors = {} THEN result.analyzed + 1 ELSE result.analyzed
           done == [result EXCEPT !.reports = Append(result.reports, new), !.analyzed = more]
<1>1. /\ at = "reported" /\ at \in Steps /\ at # "end" /\ report' = NoReport
      /\ UNCHANGED <<inv, config, expired>>
      /\ \/ EndAnalysis(done)
         \/ result' = done /\ Goto("health") /\ UNCHANGED <<dirs, services, results>>
  <2>1. /\ at = "reported" /\ report' = NoReport /\ UNCHANGED lookup /\ UNCHANGED expired
    BY DEF EndOperator, Ready
  <2>2. \/ EndAnalysis(done)
        \/ result' = done /\ Goto("health") /\ UNCHANGED <<dirs, services, results>>
    BY Zenon DEF EndOperator
  <2> HIDE DEF done
  <2> QED BY <2>1, <2>2, StepsAre DEF lookup
<1>2. ~config.live /\ dirs # <<>>
  BY <1>1, LiveStepsAre DEF IInv, OnItsWay, SequencesTyped
<1>3. /\ done.errors = result.errors /\ DOMAIN done = DOMAIN result
      /\ done.analyzed \in Nat /\ done.analyzed <= Len(done.reports)
      /\ done.reports \in Seq(ToSet(done.reports))
  <2>1. {"errors", "reports", "analyzed"} \subseteq DOMAIN result
    BY NoResultIs DEF IInv, TypeOK
  <2>2. more \in {result.analyzed, result.analyzed + 1}
    OBVIOUS
  <2>3. /\ result.reports \in Seq(ToSet(result.reports))
        /\ result.analyzed \in Nat /\ result.analyzed <= Len(result.reports)
    BY DEF IInv, SequencesTyped
  <2> HIDE DEF new, more
  <2> QED BY <2>1, <2>2, <2>3, ReportAppended
<1> HIDE DEF done
<1>4. CASE EndAnalysis(done)
  BY <1>1, <1>2, <1>3, <1>4, EndAnalysisInv
<1>5. CASE result' = done /\ Goto("health") /\ UNCHANGED <<dirs, services, results>>
  <2>1. at' = "health" /\ exit' = exit /\ "health" \in Steps /\ "health" # "end"
    BY <1>5, StepsAre DEF Goto
  <2>2. TypeOK'
    <3>1. /\ report' \in [got : SUBSET Steps, errors : SUBSET Steps]
          /\ report'.got \cap report'.errors = {}
      BY <1>1 DEF NoReport
    <3> HIDE DEF Steps
    <3> QED BY <1>1, <1>3, <1>5, <2>1, <3>1 DEF IInv, TypeOK
  <2>3. OnItsWay'
    BY <1>1, <1>2, <2>1, OperatorStepsAre DEF OnItsWay
  <2>4. ReportedInOrder'
    BY <1>1, <2>1 DEF ReportedInOrder, NoReport
  <2>5. OpeningsKept'
    BY <1>1, <1>3, <1>5 DEF IInv, OpeningsKept, Needed
  <2>6. AccountedSoFar'
    BY <2>1, HealthIsFirst DEF AccountedSoFar
  <2>7. SequencesTyped'
    BY <1>1, <1>2, <1>3, <1>5, <2>1 DEF IInv, SequencesTyped
  <2> QED BY <2>2, <2>3, <2>4, <2>5, <2>6, <2>7 DEF IInv
<1> QED BY <1>1, <1>4, <1>5

LEMMA WriteResultsInv ==
  ASSUME IInv, WriteResults PROVE IInv'
<1>1. UNCHANGED <<inv, config, work, expired>>
  BY DEF WriteResults, lookup
<1>2. Leave(0) \/ Leave(2)
  BY Zenon DEF WriteResults, WriteRCAFile, WriteStateDir
<1>3. at' = "end" /\ exit' \in 0..2
  BY <1>2 DEF Leave
<1> QED BY <1>1, <1>3, LeaveInv

LEMMA ConnectInv ==
  ASSUME IInv, Connect PROVE IInv'
<1>1. at = "connect" /\ at \notin Steps \cup {"end"} /\ UNCHANGED <<inv, config, work, expired>>
  BY StepsAre DEF Connect, Ready, lookup
<1>2. CASE Leave(2)
  BY <1>1, <1>2, LeaveInv DEF Leave
<1>3. CASE Goto("infra")
  <2>1. UNCHANGED <<dirs, services, targets, report, result, results>>
    BY <1>1 DEF work
  <2>2. at' = "infra" /\ exit' = exit /\ "infra" \in Steps /\ "infra" # "end"
    BY <1>3, StepsAre DEF Goto
  <2>3. config.live
    BY <1>1, OperatorStepsAre DEF IInv, OnItsWay
  <2>4. report = NoReport
    BY <1>1 DEF IInv, ReportedInOrder
  <2>5. TypeOK'
    <3> HIDE DEF Steps
    <3> QED BY <1>1, <2>1, <2>2 DEF IInv, TypeOK
  <2>6. OnItsWay'
    BY <1>1, <2>2, <2>3, LiveStepsAre DEF OnItsWay
  <2>7. ReportedInOrder' /\ OpeningsKept' /\ AccountedSoFar'
    BY <1>1, <2>1, <2>2, <2>3, <2>4
       DEF ReportedInOrder, OpeningsKept, AccountedSoFar, NoReport
  <2>8. SequencesTyped'
    BY <1>1, <2>1, <2>3 DEF IInv, SequencesTyped
  <2> QED BY <2>5, <2>6, <2>7, <2>8 DEF IInv
<1> QED BY <1>2, <1>3 DEF Connect

LEMMA WriteLiveInv ==
  ASSUME IInv, WriteLive PROVE IInv'
<1>1. UNCHANGED <<inv, config, work, expired>>
  BY DEF WriteLive, lookup
<1>2. Leave(0) \/ Leave(2)
  BY Zenon DEF WriteLive
<1>3. at' = "end" /\ exit' \in 0..2
  BY <1>2 DEF Leave
<1> QED BY <1>1, <1>3, LeaveInv

LEMMA UnchangedInv ==
  ASSUME IInv, UNCHANGED vars PROVE IInv'
<1>1. UNCHANGED <<inv, config, at, dirs, services, targets, report, result, results, expired, exit>>
  BY DEF vars, lookup, work
<1>2. UNCHANGED <<Asked, Needed>>
  BY <1>1 DEF Asked, Needed, Has, Op, Installed, Target, Comparable
<1>3. TypeOK'
  <2> HIDE DEF Steps
  <2> QED BY <1>1 DEF IInv, TypeOK
<1>4. OnItsWay' /\ ReportedInOrder' /\ OpeningsKept'
  <2> HIDE DEF Steps
  <2> QED BY <1>1, <1>2 DEF IInv, OnItsWay, ReportedInOrder, OpeningsKept
<1>5. AccountedSoFar'
  BY <1>1, <1>2 DEF IInv, AccountedSoFar, Accounted, Has
<1>6. SequencesTyped'
  BY <1>1 DEF IInv, SequencesTyped
<1> QED BY <1>3, <1>4, <1>5, <1>6 DEF IInv

-----------------------------------------------------------------------------
(* What is found in a catalog.                                             *)

\* There is a first one among those that fit.
LEMMA FirstIndex ==
  ASSUME NEW T, T \subseteq Nat \ {0}, T # {}
  PROVE  \E m \in T : \A j \in 1..(m - 1) : j \notin T
<1>1. PICK m \in T : \A k \in T : m <= k
  BY LeastNumber
<1>2. \A j \in 1..(m - 1) : ~(m <= j)
  OBVIOUS
<1> QED BY <1>1, <1>2

LEMMA IndexIs ==
  /\ Len(Index.packages) \in Nat /\ DOMAIN Index.packages = 1..Len(Index.packages)
  /\ Len(Index.channels) \in Nat /\ DOMAIN Index.channels = 1..Len(Index.channels)
  /\ Len(Index.bundles) \in Nat /\ DOMAIN Index.bundles = 1..Len(Index.bundles)
BY IndexAssumption

\* channelOf finds the channel of this package and name, if there is one.
LEMMA ChannelFound ==
  ASSUME NEW package, NEW name
  PROVE  \A c : c \in channelOf(Index, package, name) <=>
                  c \in ToSet(Index.channels) /\ c.package = package /\ c.name = name
<1> DEFINE s == Index.channels
           T == {i \in DOMAIN s : s[i].package = package /\ s[i].name = name}
<1>1. channelOf(Index, package, name) = {s[i] : i \in {i \in T : \A j \in 1..(i - 1) : ~(s[j].package = package /\ s[j].name = name)}}
  BY DEF channelOf, First
<1>2. ASSUME NEW c \in channelOf(Index, package, name)
      PROVE  c \in ToSet(s) /\ c.package = package /\ c.name = name
  BY <1>1 DEF ToSet
<1>3. ASSUME NEW c \in ToSet(s), c.package = package, c.name = name
      PROVE  c \in channelOf(Index, package, name)
  <2>1. PICK k \in DOMAIN s : s[k] = c
    BY DEF ToSet
  <2>2. T \subseteq Nat \ {0} /\ k \in T
    BY <1>3, <2>1, IndexIs
  <2>3. PICK m \in T : \A j \in 1..(m - 1) : j \notin T
    <3> HIDE DEF T
    <3> QED BY <2>2, FirstIndex
  <2>4. m \in DOMAIN s /\ s[m].package = package /\ s[m].name = name
    BY <2>3
  <2>5. s[m] = c
    <3>1. s[m] \in ToSet(s)
      BY <2>4 DEF ToSet
    <3> HIDE DEF T
    <3> QED BY <1>3, <2>4, <3>1, IndexAssumption
  <2>6. \A j \in 1..(m - 1) : j \in DOMAIN s
    <3> HIDE DEF T
    <3> QED BY <2>4, IndexIs
  <2> QED BY <1>1, <2>3, <2>5, <2>6
<1> HIDE DEF s
<1> QED BY <1>2, <1>3 DEF s

\* findBundleRecord finds the bundle of this package and name, if it has an image.
LEMMA BundleFound ==
  ASSUME NEW package, NEW name
  PROVE  \A b : b \in findBundleRecord(Index, package, name) <=>
                  b \in ToSet(Index.bundles) /\ b.package = package /\ b.name = name /\ b.image
<1> DEFINE s == Index.bundles
           T == {i \in DOMAIN s : s[i].package = package /\ s[i].name = name}
<1>1. findBundleRecord(Index, package, name) =
        {b \in {s[i] : i \in {i \in T : \A j \in 1..(i - 1) : ~(s[j].package = package /\ s[j].name = name)}} : b.image}
  BY DEF findBundleRecord, First
<1>2. ASSUME NEW b \in findBundleRecord(Index, package, name)
      PROVE  b \in ToSet(s) /\ b.package = package /\ b.name = name /\ b.image
  BY <1>1 DEF ToSet
<1>3. ASSUME NEW b \in ToSet(s), b.package = package, b.name = name, b.image
      PROVE  b \in findBundleRecord(Index, package, name)
  <2>1. PICK k \in DOMAIN s : s[k] = b
    BY DEF ToSet
  <2>2. T \subseteq Nat \ {0} /\ k \in T
    BY <1>3, <2>1, IndexIs
  <2>3. PICK m \in T : \A j \in 1..(m - 1) : j \notin T
    <3> HIDE DEF T
    <3> QED BY <2>2, FirstIndex
  <2>4. m \in DOMAIN s /\ s[m].package = package /\ s[m].name = name
    BY <2>3
  <2>5. s[m] = b
    BY <1>3, <2>4, IndexAssumption DEF ToSet
  <2>6. \A j \in 1..(m - 1) : j \in DOMAIN s
    <3> HIDE DEF T
    <3> QED BY <2>4, IndexIs
  <2> QED BY <1>1, <1>3, <2>3, <2>5, <2>6
<1> HIDE DEF s
<1> QED BY <1>2, <1>3 DEF s

\* ResolveDefaultChannel finds the default channel of the package, if it names one.
LEMMA DefaultFound ==
  ASSUME NEW package
  PROVE  \A d : d \in ResolveDefaultChannel(Index, package) <=>
                  d # NoText /\ \E p \in ToSet(Index.packages) : p.name = package /\ p.default = d
<1> DEFINE s == Index.packages
           T == {i \in DOMAIN s : s[i].name = package /\ s[i].default # NoText}
           F == {s[i] : i \in {i \in T : \A j \in 1..(i - 1) : ~(s[j].name = package /\ s[j].default # NoText)}}
<1>1. ResolveDefaultChannel(Index, package) = {p.default : p \in F}
  BY DEF ResolveDefaultChannel, First
<1>2. ASSUME NEW d \in ResolveDefaultChannel(Index, package)
      PROVE  d # NoText /\ \E p \in ToSet(s) : p.name = package /\ p.default = d
  BY <1>1 DEF ToSet
<1>3. ASSUME NEW d, d # NoText, NEW p \in ToSet(s), p.name = package, p.default = d
      PROVE  d \in ResolveDefaultChannel(Index, package)
  <2>1. PICK k \in DOMAIN s : s[k] = p
    BY DEF ToSet
  <2>2. T \subseteq Nat \ {0} /\ k \in T
    BY <1>3, <2>1, IndexIs
  <2>3. PICK m \in T : \A j \in 1..(m - 1) : j \notin T
    <3> HIDE DEF T
    <3> QED BY <2>2, FirstIndex
  <2>4. m \in DOMAIN s /\ s[m].name = package
    BY <2>3
  <2>5. s[m] = p
    <3>1. s[m] \in ToSet(s)
      BY <2>4 DEF ToSet
    <3>2. \A q, r \in ToSet(s) : q.name = r.name => q = r
      BY IndexAssumption
    <3> HIDE DEF s
    <3> QED BY <1>3, <2>4, <3>1, <3>2
  <2>6. \A j \in 1..(m - 1) : j \in DOMAIN s
    BY <2>4, IndexIs
  <2>7. p \in F
    BY <2>3, <2>5, <2>6
  <2> HIDE DEF F
  <2> QED BY <1>1, <1>3, <2>7
<1> HIDE DEF s
<1> QED BY <1>2, <1>3 DEF s

\* A bundle of the channel of this name, of this package, with the version asked for.
Candidate(b, package, channel, query) ==
  /\ b.package = package /\ b.image /\ (query # <<>> => IsPrefix(query, b.version))
  /\ \E c \in ToSet(Index.channels) :
       c.package = package /\ c.name = channel /\ b.name \in ToSet(c.entries)

\* What the lookup resolves to is a candidate.
LEMMA ResolvedFits ==
  ASSUME NEW package, NEW channel, NEW query, NEW b \in Resolve(Index, package, channel, query)
  PROVE  Candidate(b, package, channel, query)
<1>1. CASE query = <<>>
  <2>1. PICK c \in channelOf(Index, package, channel) :
          c.entries # <<>> /\ b \in findBundleRecord(Index, package, Last(c.entries))
    BY <1>1 DEF Resolve, ResolveChannelHead
  <2>2. c \in ToSet(Index.channels) /\ c.package = package /\ c.name = channel
    BY ChannelFound
  <2>3. b.package = package /\ b.name = Last(c.entries) /\ b.image
    BY <2>1, BundleFound
  <2>4. Last(c.entries) \in ToSet(c.entries)
    <3> DEFINE e == c.entries
    <3>1. e \in Seq(ToSet(e)) /\ e # <<>>
      BY <2>1, <2>2, IndexAssumption
    <3> HIDE DEF e
    <3>2. Len(e) \in DOMAIN e /\ Last(e) = e[Len(e)]
      BY <3>1 DEF Last
    <3> QED BY <3>2 DEF ToSet, e
  <2> QED BY <1>1, <2>2, <2>3, <2>4 DEF Candidate
<1>2. CASE query # <<>>
  <2> DEFINE Hit(e) == \E x \in findBundleRecord(Index, package, e) : versionMatches(query, x.version)
             found(c) == {i \in DOMAIN c.entries : Hit(c.entries[i])}
  <2>1. PICK c \in channelOf(Index, package, channel) :
          b \in IF found(c) = {} THEN {}
                ELSE findBundleRecord(Index, package, c.entries[Max(found(c))])
    BY <1>2 DEF Resolve, ResolveChannelVersion
  <2>2. c \in ToSet(Index.channels) /\ c.package = package /\ c.name = channel
    BY ChannelFound
  <2>3. Max(found(c)) \in found(c)
    <3>1. Len(c.entries) \in Nat /\ found(c) \subseteq 0..Len(c.entries)
      BY <2>2, IndexAssumption
    <3>2. found(c) # {}
      BY <2>1
    <3> HIDE DEF found
    <3> QED BY <3>1, <3>2, MaxIn
  <2>4. b \in findBundleRecord(Index, package, c.entries[Max(found(c))])
    BY <2>1
  <2> DEFINE e == c.entries[Max(found(c))]
  <2>5. e \in ToSet(c.entries) /\ Hit(e)
    BY <2>3 DEF ToSet
  <2> HIDE DEF found, e
  <2>6. b.package = package /\ b.name = e /\ b.image /\ b \in ToSet(Index.bundles)
    BY <2>4, BundleFound DEF e
  <2>7. PICK x \in findBundleRecord(Index, package, e) : versionMatches(query, x.version)
    BY <2>5
  <2>8. x = b
    BY <2>6, BundleFound, IndexAssumption
  <2> QED BY <2>2, <2>5, <2>6, <2>7, <2>8 DEF Candidate, versionMatches
<1> QED BY <1>1, <1>2

\* Where no version resolves there is no candidate.
LEMMA UnresolvedFitsNot ==
  ASSUME NEW package, NEW channel, NEW query, query # <<>>,
         Resolve(Index, package, channel, query) = {}, NEW b \in ToSet(Index.bundles)
  PROVE  ~Candidate(b, package, channel, query)
<1> SUFFICES ASSUME Candidate(b, package, channel, query) PROVE FALSE
  OBVIOUS
<1> DEFINE Hit(e) == \E x \in findBundleRecord(Index, package, e) : versionMatches(query, x.version)
           found(c) == {i \in DOMAIN c.entries : Hit(c.entries[i])}
<1>1. PICK c \in ToSet(Index.channels) :
        c.package = package /\ c.name = channel /\ b.name \in ToSet(c.entries)
  BY DEF Candidate
<1>2. c \in channelOf(Index, package, channel)
  BY <1>1, ChannelFound
<1>3. PICK i \in DOMAIN c.entries : c.entries[i] = b.name
  BY <1>1 DEF ToSet
<1>4. b \in findBundleRecord(Index, package, b.name) /\ versionMatches(query, b.version)
  BY BundleFound DEF Candidate, versionMatches
<1>5. i \in found(c)
  BY <1>3, <1>4
<1>6. Max(found(c)) \in found(c)
  <2>1. Len(c.entries) \in Nat /\ found(c) \subseteq 0..Len(c.entries)
    BY <1>1, IndexAssumption
  <2> HIDE DEF found
  <2> QED BY <1>5, <2>1, MaxIn
<1>7. findBundleRecord(Index, package, c.entries[Max(found(c))]) # {}
  BY <1>6
<1>8. Resolve(Index, package, channel, query) = UNION {IF found(d) = {} THEN {}
        ELSE findBundleRecord(Index, package, d.entries[Max(found(d))]) :
          d \in channelOf(Index, package, channel)}
  BY DEF Resolve, ResolveChannelVersion
<1> HIDE DEF found
<1> QED BY <1>2, <1>5, <1>7, <1>8

-----------------------------------------------------------------------------
(* The outcome.                                                            *)

\* Only the document leads to the end of an operator or of a live diagnosis.
LEMMA AfterIsEnd ==
  ASSUME NEW t \in Steps \ {"document", "reported", "written"},
         t \in IF config.live THEN ToSet(LiveSteps) ELSE ToSet(OperatorSteps)
  PROVE  After(t) \notin {"reported", "written"}
<1>1. CASE config.live
  <2>1. PICK i \in 1..5 : t = LiveSteps[i]
    BY <1>1, LiveStepsAre DEF LiveSteps
  <2>2. After(t) = LiveSteps[i + 1]
    BY <1>1, <2>1, AfterLiveStep
  <2> QED BY <2>1, <2>2 DEF LiveSteps
<1>2. CASE ~config.live
  <2>1. PICK i \in 1..10 : t = OperatorSteps[i]
    BY <1>2, OperatorStepsAre DEF OperatorSteps
  <2>2. After(t) = OperatorSteps[i + 1]
    BY <1>2, <2>1, AfterOperatorStep
  <2> QED BY <2>1, <2>2 DEF OperatorSteps
<1> QED BY <1>1, <1>2

\* A step of a run that goes on and puts nothing out.
LEMMA QuietOutcome ==
  ASSUME IInv, OutcomeInv, at # "end", at' # "end", exit' = exit, UNCHANGED output,
         ModeKept', AllDocumented'
  PROVE  OutcomeInv'
<1>1. exit = -1
  BY DEF IInv, TypeOK
<1>2. SilentUntilEnd'
  BY DEF OutcomeInv, SilentUntilEnd, output
<1>3. OutcomeIsRight'
  BY <1>1 DEF OutcomeIsRight
<1> QED BY <1>2, <1>3 DEF OutcomeInv

LEMMA LeavesMode ==
  ASSUME OutcomeInv, at' = "end", UNCHANGED <<config, work>>
  PROVE  ModeKept' /\ AllDocumented' /\ SilentUntilEnd'
<1>1. UNCHANGED <<result, results>> /\ "end" \notin Steps
  BY StepsAre DEF work
<1> QED BY <1>1 DEF OutcomeInv, ModeKept, AllDocumented, SilentUntilEnd

LEMMA ExpireOutcome ==
  ASSUME IInv, OutcomeInv, Expire PROVE OutcomeInv'
<1>1. /\ UNCHANGED <<config, at, report, result, results, exit, output>> /\ at # "end"
  BY DEF Expire, lookup, work
<1>2. ModeKept' /\ AllDocumented'
  <2> HIDE DEF Steps
  <2> QED BY <1>1 DEF OutcomeInv, ModeKept, AllDocumented, Has
<1> QED BY <1>1, <1>2, QuietOutcome

\* Without a command line there is no version.
LEMMA NoVersion == Version(<<>>) = <<>>
<1>1. DOMAIN Read(<<>>) = {}
  <2>1. PICK k \in 0..Len(<<>>) : DOMAIN Read(<<>>) = 1..k
    <3>1. <<>> \in Seq({})
      OBVIOUS
    <3> QED BY <3>1, ReadIsBeginning
  <2> QED BY <2>1
<1>2. WordsOf(<<>>, {"version"}) = <<>>
  BY <1>1 DEF WordsOf
<1> QED BY <1>2 DEF Version

LEMMA InitOutcome ==
  ASSUME Init PROVE OutcomeInv
<1>1. config.version = <<>> /\ config.patterns = <<>> /\ ~config.rca /\ ~config.live
  <2>1. /\ Common(<<>>).version = Version(<<>>) /\ Common(<<>>).live = FALSE
        /\ Common(<<>>).patterns = <<>>
        /\ {"version", "patterns", "live", "rca"} \subseteq DOMAIN Common(<<>>)
    BY DEF Common
  <2> HIDE DEF Version
  <2> QED BY <2>1, NoVersion DEF Init
<1>2. /\ at = "parse" /\ at \notin Steps /\ results = <<>> /\ result.reports = <<>> /\ exit = -1
      /\ shown = <<>> /\ rcaFile = {} /\ stateDir = {}
  BY StepsAre, NoResultIs DEF Init
<1>3. ModeKept /\ AllDocumented /\ SilentUntilEnd
  BY <1>1, <1>2 DEF ModeKept, AllDocumented, SilentUntilEnd
<1>4. OutcomeIsRight
  BY <1>2 DEF OutcomeIsRight
<1> QED BY <1>3, <1>4 DEF OutcomeInv

LEMMA ParseOutcome ==
  ASSUME IInv, OutcomeInv, Parse PROVE OutcomeInv'
<1>1. /\ at = "parse" /\ at \notin Steps /\ at # "end"
      /\ UNCHANGED <<inv, work, output, results, report, result>>
  BY StepsAre DEF Parse, Ready, work
<1>2. /\ results = <<>> /\ result.reports = <<>> /\ config.version = <<>>
      /\ shown = <<>> /\ rcaFile = {} /\ stateDir = {}
  BY <1>1 DEF OutcomeInv, ModeKept, SilentUntilEnd
<1>3. CASE /\ UNCHANGED config /\ (AsksForHelp \/ exit' = 1)
           /\ Leave(0) \/ Leave(1)
  <2>1. at' = "end" /\ exit' \in {0, 1}
    BY <1>3 DEF Leave
  <2>2. ModeKept' /\ AllDocumented' /\ SilentUntilEnd'
    BY <1>1, <1>3, <2>1, LeavesMode
  <2>3. AsksForHelp' <=> AsksForHelp
    BY <1>1 DEF AsksForHelp
  <2>4. OutcomeIsRight'
    BY <1>1, <1>2, <1>3, <2>1, <2>3 DEF OutcomeIsRight, output
  <2> QED BY <2>2, <2>4 DEF OutcomeInv
<1>4. CASE Goto(IF config'.live THEN "connect"
                ELSE IF config'.patterns # <<>> THEN "expand" ELSE "inspect")
  <2>1. /\ at' = IF config'.live THEN "connect"
                 ELSE IF config'.patterns # <<>> THEN "expand" ELSE "inspect"
        /\ exit' = exit /\ at' # "end" /\ at' \notin Steps
    BY <1>4, StepsAre DEF Goto
  <2>2. ModeKept'
    <3> HIDE DEF Steps
    <3> QED BY <1>1, <1>2, <2>1 DEF ModeKept
  <2>3. AllDocumented'
    BY <1>1, <1>2, <2>1 DEF AllDocumented, ToSet
  <2> QED BY <1>1, <2>1, <2>2, <2>3, QuietOutcome
<1>5. \/ AsksForHelp /\ Leave(0) /\ UNCHANGED config
      \/ Leave(1) /\ UNCHANGED config
      \/ Goto(IF config'.live THEN "connect"
              ELSE IF config'.patterns # <<>> THEN "expand" ELSE "inspect")
  BY Zenon DEF Parse
<1> QED BY <1>3, <1>4, <1>5 DEF Leave

\* The one bundle that is printed fits what was asked for; where a name is wrong none does.
LEMMA InspectOutcome ==
  ASSUME IInv, OutcomeInv, Inspect PROVE OutcomeInv'
<1>1. /\ at = "inspect" /\ at \notin Steps /\ at # "end"
      /\ UNCHANGED <<inv, config, work, results>>
  BY StepsAre DEF Inspect, Ready, lookup, work
<1>2. ~config.live /\ config.patterns = <<>> /\ results = <<>>
  BY <1>1, LiveStepsAre DEF IInv, OnItsWay, OutcomeInv, ModeKept
<1>3. shown = <<>> /\ rcaFile = {} /\ stateDir = {}
  BY <1>1 DEF OutcomeInv, SilentUntilEnd
<1> DEFINE channels == IF config.channel # NoText THEN {config.channel}
                       ELSE ResolveDefaultChannel(Index, config.package)
           bundles  == UNION {Resolve(Index, config.package, c, config.version) : c \in channels}
           Code(c)  == IF isUsageError(Index, config.package, c, config.version) THEN 1 ELSE 2
<1>4. \A b : UNCHANGED config => (Fits(b)' <=> Fits(b))
  BY DEF Fits
<1>5. ASSUME at' = "end", exit' = 2, UNCHANGED output PROVE OutcomeInv'
  <2>1. OutcomeIsRight'
    BY <1>3, <1>5 DEF OutcomeIsRight, output
  <2> QED BY <1>1, <1>5, <2>1, LeavesMode DEF OutcomeInv
<1>6. ASSUME at' = "end", exit' = 1, UNCHANGED output,
             config.version # <<>> => \A b \in ToSet(Index.bundles) : ~Fits(b)
      PROVE  OutcomeInv'
  <2>1. OutcomeIsRight'
    BY <1>1, <1>2, <1>3, <1>4, <1>6 DEF OutcomeIsRight, output
  <2> QED BY <1>1, <1>6, <2>1, LeavesMode DEF OutcomeInv
<1>7. ASSUME NEW b \in bundles, at' = "end", exit' = 0, shown' = <<b>>, UNCHANGED <<rcaFile, stateDir>>
      PROVE  OutcomeInv'
  <2>1. PICK c \in channels : b \in Resolve(Index, config.package, c, config.version)
    OBVIOUS
  <2>2. Candidate(b, config.package, c, config.version)
    BY <2>1, ResolvedFits
  <2>3. \/ c = config.channel
        \/ config.channel = NoText /\ \E p \in ToSet(Index.packages) :
                                        p.name = config.package /\ p.default = c
    BY DefaultFound
  <2>4. Fits(b)
    BY <2>2, <2>3 DEF Fits, Candidate
  <2>5. Fits(shown[1])'
    BY <1>1, <1>7, <2>4 DEF Fits
  <2>6. OutcomeIsRight'
    BY <1>1, <1>2, <1>7, <2>5 DEF OutcomeIsRight
  <2> QED BY <1>1, <1>7, <2>6, LeavesMode DEF OutcomeInv
\* Without a channel of that name, or without a default one, nothing fits.
<1>8. ASSUME NEW b \in ToSet(Index.bundles), Fits(b)
      PROVE  \E c \in channels : Candidate(b, config.package, c, config.version)
  <2>1. PICK c \in ToSet(Index.channels) :
          /\ c.package = config.package /\ b.name \in ToSet(c.entries)
          /\ \/ c.name = config.channel
             \/ config.channel = NoText /\ \E p \in ToSet(Index.packages) :
                                             p.name = config.package /\ p.default = c.name
    BY <1>8 DEF Fits
  <2>2. c.name # NoText
    BY IndexAssumption
  <2>3. c.name \in channels
    BY <2>1, <2>2, DefaultFound
  <2>4. Candidate(b, config.package, c.name, config.version)
    BY <1>8, <2>1 DEF Fits, Candidate
  <2> QED BY <2>3, <2>4
<1>9. CASE channels = {} /\ Leave(1) /\ UNCHANGED output
  BY <1>6, <1>8, <1>9 DEF Leave
<1>10. ASSUME NEW c \in channels, bundles = {}, UNCHANGED output, Leave(Code(c))
       PROVE  OutcomeInv'
  <2>1. CASE ~isUsageError(Index, config.package, c, config.version)
    BY <1>5, <1>10, <2>1 DEF Leave
  <2>2. CASE isUsageError(Index, config.package, c, config.version)
    <3>1. at' = "end" /\ exit' = 1
      BY <1>10, <2>2 DEF Leave
    <3>2. ASSUME config.version # <<>>, NEW b \in ToSet(Index.bundles) PROVE ~Fits(b)
      <4>1. \A d \in channels : Resolve(Index, config.package, d, config.version) = {}
        BY <1>10
      <4> HIDE DEF channels
      <4> QED BY <1>8, <3>2, <4>1, UnresolvedFitsNot
    <3> QED BY <1>6, <1>10, <3>1, <3>2
  <2> QED BY <2>1, <2>2
<1>11. \/ at' = "end" /\ exit' = 2 /\ UNCHANGED output
       \/ channels = {} /\ Leave(1) /\ UNCHANGED output
       \/ \E c \in channels : bundles = {} /\ UNCHANGED output /\ Leave(Code(c))
       \/ \E b \in bundles : Leave(0) /\ Show(<<b>>)
  BY Zenon DEF Inspect, Leave
<1> HIDE DEF channels, bundles, Code
<1> QED BY <1>5, <1>7, <1>9, <1>10, <1>11 DEF Leave, Show

LEMMA ExpandOutcome ==
  ASSUME IInv, OutcomeInv, Expand PROVE OutcomeInv'
<1>1. /\ at = "expand" /\ at \notin Steps /\ at # "end" /\ "dump" \notin Steps
      /\ UNCHANGED <<inv, config, report, result, results, output>>
      /\ (Leave(1) \/ Goto("dump"))
  BY StepsAre DEF Expand, Ready, lookup
<1>2. /\ ~config.live /\ config.patterns # <<>> /\ results = <<>>
      /\ shown = <<>> /\ rcaFile = {} /\ stateDir = {}
  BY <1>1, LiveStepsAre DEF IInv, OnItsWay, OutcomeInv, ModeKept, SilentUntilEnd
<1>3. at' \in {"end", "dump"} /\ at' \notin Steps
  BY <1>1, StepsAre DEF Leave, Goto
<1>4. ModeKept' /\ AllDocumented'
  BY <1>1, <1>2, <1>3 DEF OutcomeInv, ModeKept, AllDocumented
<1>5. CASE Leave(1)
  <2>1. OutcomeIsRight'
    BY <1>1, <1>2, <1>5 DEF OutcomeIsRight, Leave, output
  <2> QED BY <1>4, <1>5, <2>1 DEF OutcomeInv, SilentUntilEnd, Leave
<1>6. CASE Goto("dump")
  BY <1>1, <1>4, <1>6, QuietOutcome DEF Goto
<1> QED BY <1>1, <1>5, <1>6

LEMMA SkipDumpOutcome ==
  ASSUME IInv, OutcomeInv, SkipDump PROVE OutcomeInv'
<1>1. /\ at = "dump" /\ at \notin Steps /\ at # "end" /\ exit' = exit
      /\ UNCHANGED <<config, report, result, results, output>>
      /\ at' \in {"merge", "dump"} /\ at' \notin Steps
  BY StepsAre DEF SkipDump, Ready, Goto, lookup
<1>2. ModeKept' /\ AllDocumented'
  <2> HIDE DEF Steps
  <2>1. ~config.live
    BY <1>1, LiveStepsAre DEF IInv, OnItsWay
  <2> QED BY <1>1, <2>1 DEF OutcomeInv, ModeKept, AllDocumented
<1> QED BY <1>1, <1>2, QuietOutcome

\* An analysis is documented if all its reports are.
LEMMA EndAnalysisOutcome ==
  ASSUME IInv, OutcomeInv, ~config.live, at \in Steps \cup {"dump"}, at # "end",
         NEW done, EndAnalysis(done), done.reports \in Seq(ToSet(done.reports)),
         config.rca => \A r \in ToSet(done.reports) : r.documented,
         UNCHANGED <<config, output>>
  PROVE  OutcomeInv'
<1>1. /\ results' = Append(results, done) /\ exit' = exit
      /\ at' \in {"merge", "dump"} /\ at' \notin Steps /\ result' = NoResult(NoText)
  BY StepsAre DEF EndAnalysis, Goto
<1>2. ModeKept'
  BY <1>1 DEF OutcomeInv, ModeKept
<1>3. ToSet(result'.reports) = {}
  BY <1>1, NoResultIs DEF ToSet
<1>4. \A i \in DOMAIN results' : results'[i] = done \/ (i \in DOMAIN results /\ results'[i] = results[i])
  BY <1>1 DEF IInv, SequencesTyped
<1>5. AllDocumented'
  <2>1. \A i \in DOMAIN results' : results'[i].reports \in Seq(ToSet(results'[i].reports))
    BY <1>4 DEF OutcomeInv, AllDocumented
  <2>2. config.rca => \A i \in DOMAIN results' : \A r \in ToSet(results'[i].reports) : r.documented
    BY <1>4 DEF OutcomeInv, AllDocumented
  <2> QED BY <1>1, <1>3, <2>1, <2>2 DEF AllDocumented
<1> QED BY <1>1, <1>2, <1>5, QuietOutcome

LEMMA ParseDumpOutcome ==
  ASSUME IInv, OutcomeInv, ParseDump PROVE OutcomeInv'
<1>1. /\ at = "dump" /\ at # "end" /\ at \notin Steps /\ "services" \notin Steps
      /\ UNCHANGED <<config, report, output>>
  BY StepsAre DEF ParseDump, Ready, lookup
<1>2. ~config.live
  BY <1>1, LiveStepsAre DEF IInv, OnItsWay
<1>3. PICK operators \in ParseMustGather(Dumps[Head(dirs)]) :
        LET parsed == [NoResult(Head(dirs)) EXCEPT
                         !.cluster = ClusterName,
                         !.faulty = Len(Select(operators, LAMBDA o : o.faulty))]
        IN  \/ targets' = <<>> /\ EndAnalysis(parsed)
            \/ /\ targets' # <<>> /\ Goto("services") /\ result' = parsed
               /\ UNCHANGED <<dirs, services, results>>
  BY DEF ParseDump
<1> DEFINE dir == Head(dirs)
           n   == Len(Select(operators, LAMBDA o : o.faulty))
           parsed == [NoResult(dir) EXCEPT !.cluster = ClusterName, !.faulty = n]
<1>4. parsed.reports = <<>>
  <2> HIDE DEF dir, n
  <2> QED BY NoResultIs
<1>5. \/ EndAnalysis(parsed)
      \/ Goto("services") /\ result' = parsed /\ UNCHANGED <<dirs, services, results>>
  BY <1>3
<1> HIDE DEF parsed
<1>6. ToSet(parsed.reports) = {} /\ parsed.reports \in Seq(ToSet(parsed.reports))
  BY <1>4 DEF ToSet
<1>7. CASE EndAnalysis(parsed)
  BY <1>1, <1>2, <1>6, <1>7, EndAnalysisOutcome
<1>8. CASE Goto("services") /\ result' = parsed /\ UNCHANGED <<dirs, services, results>>
  <2>1. at' = "services" /\ exit' = exit
    BY <1>8 DEF Goto
  <2>2. ModeKept' /\ AllDocumented'
    BY <1>1, <1>2, <1>6, <1>8, <2>1 DEF OutcomeInv, ModeKept, AllDocumented
  <2> QED BY <1>1, <2>1, <2>2, QuietOutcome
<1> QED BY <1>5, <1>7, <1>8

LEMMA OpenServicesOutcome ==
  ASSUME IInv, OutcomeInv, OpenServices PROVE OutcomeInv'
<1>1. /\ at = "services" /\ at # "end" /\ at \notin Steps /\ at' = "health" /\ exit' = exit
      /\ "health" \in Steps
      /\ UNCHANGED <<config, report, results, output>>
  BY StepsAre DEF OpenServices, Ready, lookup, Goto
<1>2. ~config.live
  BY <1>1, LiveStepsAre DEF IInv, OnItsWay
<1>3. result'.reports = result.reports
  <2>1. PICK open \in SUBSET Needed :
          result' = [result EXCEPT !.errors = Needed \ (open \cup Tolerated)]
    BY DEF OpenServices
  <2>2. "reports" \in DOMAIN result
    BY NoResultIs DEF IInv, TypeOK
  <2> DEFINE errors == Needed \ (open \cup Tolerated)
  <2> HIDE DEF errors
  <2> QED BY <2>1, <2>2 DEF errors
<1>4. ModeKept' /\ AllDocumented'
  <2> HIDE DEF Steps
  <2> QED BY <1>1, <1>2, <1>3 DEF OutcomeInv, ModeKept, AllDocumented
<1> QED BY <1>1, <1>4, QuietOutcome

\* A turn other than the document's ends nothing.
LEMMA TurnOutcome ==
  ASSUME IInv, OutcomeInv, NEW t \in Steps \ {"reported", "written"}, NEW after, Turn(t, after),
         t = "document" => (config.rca => Has("document")')
  PROVE  OutcomeInv'
<1>1. /\ at = t /\ at' = After(t) /\ exit' = exit
      /\ UNCHANGED <<config, result, results, output>>
  BY DEF Turn, Ready, Goto, Kept, lookup
<1>2. t \in IF config.live THEN ToSet(LiveSteps) ELSE ToSet(OperatorSteps)
  BY <1>1, StepsAre, OperatorStepsAre, LiveStepsAre DEF IInv, OnItsWay
<1>3. After(t) \in Steps /\ "end" \notin Steps
      /\ {"parse", "inspect", "expand"} \cap Steps = {}
  BY <1>2, AfterIsLater, StepsAre
<1>4. at' \in {"reported", "written"} => t = "document"
  BY <1>1, <1>2, AfterIsEnd
<1> HIDE DEF Steps
<1>5. ModeKept'
  BY <1>1, <1>3 DEF OutcomeInv, ModeKept
<1>6. AllDocumented'
  BY <1>1, <1>4 DEF OutcomeInv, AllDocumented
<1> QED BY <1>1, <1>3, <1>5, <1>6, QuietOutcome

LEMMA DoOutcome ==
  ASSUME IInv, OutcomeInv, NEW t \in Steps \ {"document", "reported", "written"},
         \/ \E wanted : Do(t, wanted)
         \/ \E wanted, possible : Attempt(t, wanted, possible)
         \/ \E wanted, possible : Enrich(t, wanted, possible)
  PROVE  OutcomeInv'
<1>1. \E after : Turn(t, after)
  BY Zenon DEF Do, Attempt, Enrich, Skip, Deliver
<1> QED BY <1>1, TurnOutcome

LEMMA DocumentOutcome ==
  ASSUME IInv, OutcomeInv, Document PROVE OutcomeInv'
<1>1. report \in [got : SUBSET Steps, errors : SUBSET Steps]
  BY DEF IInv, TypeOK
<1>2. "document" \in Steps \ {"reported", "written"}
  BY StepsAre
<1>3. CASE config.rca
  <2>1. Turn("document", [report EXCEPT !.got = @ \cup {"document"}])
    BY <1>3 DEF Document, Do, Deliver
  <2>2. report' = [report EXCEPT !.got = @ \cup {"document"}]
    BY <2>1 DEF Turn
  <2>3. Has("document")'
    BY <1>1, <1>2, <2>2, ReportWith DEF Has
  <2> QED BY <1>2, <2>1, <2>3, TurnOutcome
<1>4. CASE ~config.rca
  <2>1. Turn("document", report)
    BY <1>4 DEF Document, Do, Skip
  <2> QED BY <1>2, <1>4, <2>1, TurnOutcome
<1> QED BY <1>3, <1>4

LEMMA StepsOutcome ==
  ASSUME IInv, OutcomeInv, AnalyzeSingleOperator \/ RunInfraChecks PROVE OutcomeInv'
<1>1. CASE Document
  BY <1>1, DocumentOutcome
<1>2. CASE ~Document
  <2>1. \E t \in Steps \ {"document", "reported", "written"} :
          \/ \E wanted : Do(t, wanted)
          \/ \E wanted, possible : Attempt(t, wanted, possible)
          \/ \E wanted, possible : Enrich(t, wanted, possible)
    <3>1. {"infra", "health", "installed", "target", "delta", "code", "claude", "rag", "adhd",
           "correlation", "similar"} \subseteq Steps \ {"document", "reported", "written"}
      BY StepsAre
    <3>2. \/ \E t \in {"health", "correlation", "infra"} : \E wanted : Do(t, wanted)
          \/ \E t \in {"installed", "target", "delta", "code", "claude", "adhd", "similar"} :
               \E wanted, possible : Attempt(t, wanted, possible)
          \/ \E t \in {"rag", "adhd", "similar"} : \E wanted, possible : Enrich(t, wanted, possible)
      BY <1>2, Zenon DEF AnalyzeSingleOperator, RunInfraChecks, CheckHealth, InspectInstalled, InspectTarget,
         CalculateDelta, AnalyzeCode, AskClaude, Troubleshoot, Diverge, CorrelateRepo, FindSimilar
    <3> HIDE DEF Steps
    <3> QED BY <3>1, <3>2
  <2> QED BY <2>1, DoOutcome
<1> QED BY <1>1, <1>2

LEMMA EndOperatorOutcome ==
  ASSUME IInv, OutcomeInv, EndOperator PROVE OutcomeInv'
<1> DEFINE new  == [dir |-> result.dir, op |-> Op, documented |-> Has("document")]
           more == IF report.errors = {} THEN result.analyzed + 1 ELSE result.analyzed
           done == [result EXCEPT !.reports = Append(result.reports, new), !.analyzed = more]
<1>1. /\ at = "reported" /\ at \in Steps /\ at # "end"
      /\ UNCHANGED <<config, output>>
      /\ report' = NoReport
      /\ \/ EndAnalysis(done)
         \/ result' = done /\ Goto("health") /\ UNCHANGED <<dirs, services, results>>
  <2>1. /\ at = "reported" /\ report' = NoReport /\ UNCHANGED <<lookup, output>>
    BY DEF EndOperator, Ready
  <2>2. \/ EndAnalysis(done)
        \/ result' = done /\ Goto("health") /\ UNCHANGED <<dirs, services, results>>
    BY Zenon DEF EndOperator
  <2> HIDE DEF done
  <2> QED BY <2>1, <2>2, StepsAre DEF lookup
<1>2. ~config.live
  BY <1>1, LiveStepsAre DEF IInv, OnItsWay
<1>3. new.documented = Has("document")
  OBVIOUS
<1>4. done.reports = Append(result.reports, new)
  <2>1. {"errors", "reports", "analyzed"} \subseteq DOMAIN result
    BY NoResultIs DEF IInv, TypeOK
  <2> HIDE DEF new, more
  <2> QED BY <2>1
<1>5. result.reports \in Seq(ToSet(result.reports))
  BY DEF IInv, SequencesTyped
<1> HIDE DEF new, done
<1>6. /\ done.reports \in Seq(ToSet(done.reports))
      /\ \A r \in ToSet(done.reports) : r \in ToSet(result.reports) \/ r = new
  <2> DEFINE u == result.reports
             v == Append(u, new)
  <2>1. /\ v \in Seq(ToSet(u) \cup {new}) /\ Len(v) = Len(u) + 1 /\ Len(u) \in Nat
        /\ v[Len(v)] = new /\ \A i \in 1..Len(u) : v[i] = u[i]
        /\ DOMAIN v = 1..Len(v) /\ DOMAIN u = 1..Len(u)
    <3> HIDE DEF u
    <3> QED BY <1>5 DEF u
  <2> HIDE DEF u, v
  <2>2. \A r \in ToSet(v) : r \in ToSet(u) \/ r = new
    BY <2>1 DEF ToSet
  <2>3. ToSet(u) \cup {new} \subseteq ToSet(v)
    BY <2>1 DEF ToSet
  <2>4. v \in Seq(ToSet(v))
    BY <2>1, <2>3
  <2> QED BY <1>4, <2>2, <2>4 DEF u, v
<1>7. config.rca => \A r \in ToSet(done.reports) : r.documented
  BY <1>1, <1>3, <1>6 DEF OutcomeInv, AllDocumented
<1>8. CASE EndAnalysis(done)
  BY <1>1, <1>2, <1>6, <1>7, <1>8, EndAnalysisOutcome
<1>9. CASE result' = done /\ Goto("health") /\ UNCHANGED <<dirs, services, results>>
  <2>1. at' = "health" /\ exit' = exit /\ "health" \in Steps
    BY <1>9, StepsAre DEF Goto
  <2>2. ModeKept' /\ AllDocumented'
    <3> HIDE DEF Steps
    <3> QED BY <1>1, <1>2, <1>7, <1>9, <2>1 DEF OutcomeInv, ModeKept, AllDocumented
  <2> QED BY <1>1, <2>1, <2>2, QuietOutcome
<1> QED BY <1>1, <1>8, <1>9

\* Flattening sequences of one member each gives the sequence of these members.
LEMMA FlattenOnes ==
  ASSUME NEW S, NEW s \in Seq(S)
  PROVE  FlattenSeq([i \in DOMAIN s |-> <<s[i]>>]) = s
<1> DEFINE n  == Len(s)
           ss == [i \in DOMAIN s |-> <<s[i]>>]
           F  == CHOOSE f : f = [i \in 1..n |-> IF i = 1 THEN ss[i] ELSE f[i - 1] \o ss[i]]
           Good(i) == F[i] \in Seq(S) /\ Len(F[i]) = i /\ \A j \in 1..i : F[i][j] = s[j]
           Bad == {i \in 1..n : ~Good(i)}
<1>1. n \in Nat /\ DOMAIN s = 1..n /\ \A i \in 1..n : s[i] \in S
  OBVIOUS
<1>2. \A i \in 1..n : ss[i] = <<s[i]>>
  BY <1>1
<1>3. DOMAIN ss = 1..n /\ ss \in Seq(Seq(S)) /\ Len(ss) = n
  BY <1>1
<1> HIDE DEF ss
<1>4. Flattens(F, ss, n)
  <2>1. \E f : Flattens(f, ss, n)
    BY <1>1, FlattensExists
  <2> QED BY <2>1 DEF Flattens
<1> HIDE DEF F, n
<1>5. Bad = {}
  <2> SUFFICES ASSUME Bad # {} PROVE FALSE
    OBVIOUS
  <2>1. PICK m \in Bad : \A k \in Bad : m <= k
    <3>1. Bad \subseteq Nat
      BY <1>1
    <3> HIDE DEF Bad
    <3> QED BY <3>1, LeastNumber
  <2>2. m \in 1..n /\ F[m] = IF m = 1 THEN ss[m] ELSE F[m - 1] \o ss[m]
    BY <1>1, <1>4, FlattensOne
  <2>3. CASE m = 1
    <3>1. F[m] = <<s[m]>> /\ s[m] \in S
      BY <1>1, <1>2, <2>2, <2>3
    <3>2. Good(m)
      BY <2>3, <3>1
    <3> QED BY <2>1, <3>2
  <2>4. CASE m # 1
    <3>1. m - 1 \in 1..n /\ ~(m <= m - 1) /\ (m - 1) + 1 = m /\ m \in Nat
      BY <1>1, <2>2, <2>4
    <3>2. Good(m - 1)
      <4>1. m - 1 \notin Bad
        <5> HIDE DEF Bad
        <5> QED BY <2>1, <3>1
      <4> QED BY <3>1, <4>1
    <3>3. F[m] = F[m - 1] \o <<s[m]>> /\ s[m] \in S
      BY <1>1, <1>2, <2>2, <2>4
    <3> DEFINE u == F[m - 1]
    <3>4. u \in Seq(S) /\ Len(u) = m - 1 /\ \A j \in 1..(m - 1) : u[j] = s[j]
      BY <3>2
    <3> HIDE DEF u
    <3>5. /\ u \o <<s[m]>> \in Seq(S) /\ Len(u \o <<s[m]>>) = m
          /\ \A j \in 1..m : (u \o <<s[m]>>)[j] = s[j]
      BY <3>1, <3>3, <3>4
    <3>6. Good(m)
      BY <3>3, <3>5 DEF u
    <3> QED BY <2>1, <3>6
  <2> QED BY <2>3, <2>4
<1>6. FlattenSeq(ss) = IF n = 0 THEN ss ELSE F[n]
  BY <1>3 DEF FlattenSeq, F
<1>7. CASE n = 0
  <2>1. s = <<>> /\ ss = <<>>
    BY <1>1, <1>3, <1>7 DEF n
  <2> QED BY <1>6, <1>7, <2>1 DEF ss
<1>8. CASE n # 0
  <2>1. Good(n)
    BY <1>1, <1>5, <1>8
  <2> DEFINE u == F[n]
  <2>2. u \in Seq(S) /\ Len(u) = Len(s) /\ \A j \in 1..Len(s) : u[j] = s[j]
    BY <2>1 DEF n
  <2> HIDE DEF u
  <2>3. u = s
    BY <2>2
  <2> QED BY <1>6, <1>8, <2>3 DEF u, ss
<1> QED BY <1>7, <1>8

\* With RCA documents asked for, the documents are those of all reports.
LEMMA DocumentsAreReports ==
  ASSUME IInv, OutcomeInv, config.rca
  PROVE  Documents = Reports
<1> DEFINE ss == [i \in DOMAIN results |-> results[i].reports]
           S  == UNION {ToSet(results[i].reports) : i \in DOMAIN results}
<1>1. \A i \in DOMAIN results : ss[i] \in Seq(S)
  <2> SUFFICES ASSUME NEW i \in DOMAIN results PROVE results[i].reports \in Seq(S)
    OBVIOUS
  <2>1. results[i].reports \in Seq(ToSet(results[i].reports)) /\ ToSet(results[i].reports) \subseteq S
    BY DEF OutcomeInv, AllDocumented
  <2> HIDE DEF S
  <2> QED BY <2>1
<1>2. \A r \in S : r.documented
  BY DEF OutcomeInv, AllDocumented
<1>3. DOMAIN results = 1..Len(results) /\ Len(results) \in Nat
  BY DEF IInv, SequencesTyped
<1>4. ss \in Seq(Seq(S))
  <2> HIDE DEF S
  <2> QED BY <1>1, <1>3
<1>5. Reports = FlattenSeq(ss)
  BY DEF Reports
<1> HIDE DEF ss, S
<1>6. Reports \in Seq(S)
  BY <1>4, <1>5, FlattenTyped
<1>7. \A i \in DOMAIN Reports : Reports[i].documented
  BY <1>2, <1>6
<1>8. Documents = FlattenSeq([i \in DOMAIN Reports |-> <<Reports[i]>>])
  <2>1. Documents = FlattenSeq([i \in DOMAIN Reports |->
                                  IF Reports[i].documented THEN <<Reports[i]>> ELSE <<>>])
    BY DEF Documents, Select
  <2>2. [i \in DOMAIN Reports |-> IF Reports[i].documented THEN <<Reports[i]>> ELSE <<>>]
          = [i \in DOMAIN Reports |-> <<Reports[i]>>]
    BY <1>7
  <2> QED BY <2>1, <2>2, Zenon
<1> HIDE DEF Reports, Documents
<1> QED BY <1>6, <1>8, FlattenOnes

LEMMA WriteResultsOutcome ==
  ASSUME IInv, OutcomeInv, WriteResults PROVE OutcomeInv'
<1>1. /\ at = "merge" /\ at \notin Steps /\ at # "end" /\ UNCHANGED <<inv, config, work, results>>
      /\ shown = <<>> /\ rcaFile = {} /\ stateDir = {}
  BY StepsAre DEF WriteResults, Ready, lookup, work, OutcomeInv, SilentUntilEnd
<1>2. ~config.live /\ config.patterns # <<>>
  BY <1>1, LiveStepsAre DEF IInv, OnItsWay, OutcomeInv, ModeKept
<1>3. (AsksForHelp' <=> AsksForHelp) /\ Reports' = Reports
  BY <1>1 DEF AsksForHelp, Reports
<1>4. config.rca => Documents = Reports
  BY DocumentsAreReports
<1>5. at' = "end" /\ exit' \in {0, 2}
  BY Zenon DEF WriteResults, WriteRCAFile, WriteStateDir, Leave
<1>6. exit' = 2 => shown' = <<>> /\ rcaFile' = {} /\ stateDir' = {}
  BY <1>1 DEF WriteResults, WriteRCAFile, WriteStateDir, Leave, output
<1>7. exit' = 0 =>
        /\ results # <<>> /\ shown' = Reports
        /\ config.rcaFile # NoText => rcaFile' = {Documents} \/ Documents = <<>>
  BY DEF WriteResults, WriteRCAFile, WriteStateDir, Leave, Show
<1> HIDE DEF Reports, Documents
<1>8. OutcomeIsRight'
  BY <1>1, <1>2, <1>3, <1>4, <1>5, <1>6, <1>7 DEF OutcomeIsRight
<1> QED BY <1>1, <1>5, <1>8, LeavesMode DEF OutcomeInv

LEMMA ConnectOutcome ==
  ASSUME IInv, OutcomeInv, Connect PROVE OutcomeInv'
<1>1. /\ at = "connect" /\ at \notin Steps /\ at # "end" /\ "infra" \in Steps
      /\ UNCHANGED <<inv, config, work, report, result, results, output>>
      /\ Goto("infra") \/ Leave(2)
      /\ shown = <<>> /\ rcaFile = {} /\ stateDir = {}
  BY StepsAre DEF Connect, Ready, lookup, work, OutcomeInv, SilentUntilEnd
<1>2. config.live
  BY <1>1, OperatorStepsAre DEF IInv, OnItsWay
<1>3. CASE Leave(2)
  <2>1. OutcomeIsRight'
    BY <1>1, <1>3 DEF OutcomeIsRight, Leave, output
  <2> QED BY <1>1, <1>3, <2>1, LeavesMode DEF OutcomeInv, Leave
<1>4. CASE Goto("infra")
  <2>1. ModeKept' /\ AllDocumented'
    <3> HIDE DEF Steps
    <3> QED BY <1>1, <1>2, <1>4 DEF OutcomeInv, ModeKept, AllDocumented, Goto
  <2> QED BY <1>1, <1>4, <2>1, QuietOutcome DEF Goto
<1> QED BY <1>1, <1>3, <1>4

LEMMA WriteLiveOutcome ==
  ASSUME IInv, OutcomeInv, WriteLive PROVE OutcomeInv'
<1>1. /\ at = "written" /\ at \in Steps /\ at # "end" /\ UNCHANGED <<inv, config, work, results>>
      /\ shown = <<>> /\ rcaFile = {} /\ stateDir = {}
  BY StepsAre DEF WriteLive, Ready, lookup, work, OutcomeInv, SilentUntilEnd
<1>2. config.live
  BY <1>1, OperatorStepsAre DEF IInv, OnItsWay
<1>3. config.rca => Has("document")
  BY <1>1 DEF OutcomeInv, AllDocumented
<1>4. at' = "end" /\ exit' \in {0, 2}
  BY Zenon DEF WriteLive, Leave
<1>5. exit' = 2 => shown' = <<>> /\ rcaFile' = {} /\ stateDir' = {}
  BY <1>1 DEF WriteLive, Leave, Show, output
<1>6. exit' = 0 /\ Has("document") => rcaFile' = {<<"live">>} \/ shown' = <<"live">>
  BY DEF WriteLive, Leave, Show
<1>7. OutcomeIsRight'
  BY <1>1, <1>2, <1>3, <1>4, <1>5, <1>6 DEF OutcomeIsRight
<1> QED BY <1>1, <1>4, <1>7, LeavesMode DEF OutcomeInv

LEMMA UnchangedOutcome ==
  ASSUME OutcomeInv, UNCHANGED vars PROVE OutcomeInv'
<1>1. UNCHANGED <<inv, config, at, report, result, results, exit, rcaFile, stateDir, shown>>
  BY DEF vars, lookup, work, output
<1>2. ModeKept' /\ AllDocumented' /\ SilentUntilEnd'
  <2> HIDE DEF Steps
  <2> QED BY <1>1 DEF OutcomeInv, ModeKept, AllDocumented, SilentUntilEnd, Has
<1>3. OutcomeIsRight'
  BY <1>1 DEF OutcomeInv, OutcomeIsRight, Fits, AsksForHelp, Reports
<1> QED BY <1>2, <1>3 DEF OutcomeInv

-----------------------------------------------------------------------------
(* Which operators are analysed.                                           *)

LEMMA Joined ==
  ASSUME NEW S, NEW u \in Seq(S), NEW v \in Seq(S)
  PROVE  u \o v \in Seq(S) /\ Len(u \o v) = Len(u) + Len(v)
OBVIOUS

LEMMA ToSetOfJoin ==
  ASSUME NEW S, NEW u \in Seq(S), NEW v \in Seq(S)
  PROVE  ToSet(u \o v) = ToSet(u) \cup ToSet(v)
<1>1. /\ u \o v \in Seq(S) /\ Len(u \o v) = Len(u) + Len(v) /\ Len(u) \in Nat /\ Len(v) \in Nat
      /\ \A i \in 1..Len(u) : (u \o v)[i] = u[i]
      /\ \A i \in 1..Len(v) : (u \o v)[Len(u) + i] = v[i]
      /\ DOMAIN u = 1..Len(u) /\ DOMAIN v = 1..Len(v)
  OBVIOUS
<1> DEFINE w == u \o v
<1>2. DOMAIN w = 1..(Len(u) + Len(v))
  BY <1>1
<1>3. ASSUME NEW x \in ToSet(u) PROVE x \in ToSet(w)
  <2>1. PICK i \in 1..Len(u) : x = u[i]
    BY <1>1 DEF ToSet
  <2>2. i \in DOMAIN w /\ w[i] = x
    BY <1>1, <1>2, <2>1
  <2> HIDE DEF w
  <2> QED BY <2>2 DEF ToSet
<1>4. ASSUME NEW x \in ToSet(v) PROVE x \in ToSet(w)
  <2>1. PICK i \in 1..Len(v) : x = v[i]
    BY <1>1 DEF ToSet
  <2>2. Len(u) + i \in DOMAIN w /\ w[Len(u) + i] = x
    BY <1>1, <1>2, <2>1
  <2> HIDE DEF w
  <2> QED BY <2>2 DEF ToSet
<1>5. ASSUME NEW x \in ToSet(w) PROVE x \in ToSet(u) \cup ToSet(v)
  <2>1. PICK k \in 1..(Len(u) + Len(v)) : x = w[k]
    BY <1>2 DEF ToSet
  <2>2. CASE k \in 1..Len(u)
    <3>1. x = u[k]
      BY <1>1, <2>1, <2>2
    <3> QED BY <1>1, <2>2, <3>1 DEF ToSet
  <2>3. CASE k \notin 1..Len(u)
    <3>1. k - Len(u) \in 1..Len(v) /\ Len(u) + (k - Len(u)) = k
      BY <1>1, <2>3
    <3>2. x = v[k - Len(u)]
      BY <1>1, <2>1, <3>1
    <3> QED BY <1>1, <3>1, <3>2 DEF ToSet
  <2> QED BY <2>2, <2>3
<1> HIDE DEF w
<1>6. ToSet(w) = ToSet(u) \cup ToSet(v)
  BY <1>3, <1>4, <1>5
<1> QED BY <1>6 DEF w

\* Flattening loses no member of any of the sequences.
LEMMA FlattenHolds ==
  ASSUME NEW S, NEW ss \in Seq(Seq(S)), NEW i \in DOMAIN ss, NEW x \in ToSet(ss[i])
  PROVE  x \in ToSet(FlattenSeq(ss))
<1> DEFINE n == Len(ss)
           F == CHOOSE f : f = [j \in 1..n |-> IF j = 1 THEN ss[j] ELSE f[j - 1] \o ss[j]]
           Bad == {j \in i..n : x \notin ToSet(F[j])}
<1>1. n \in Nat /\ i \in 1..n /\ i \in Nat /\ \A j \in 1..n : ss[j] \in Seq(S)
  OBVIOUS
<1>2. FlattenSeq(ss) = IF n = 0 THEN ss ELSE F[n]
  BY DEF FlattenSeq
<1>3. Flattens(F, ss, n)
  <2>1. \E f : Flattens(f, ss, n)
    BY <1>1, FlattensExists
  <2> QED BY <2>1 DEF Flattens
<1> HIDE DEF F, n
<1>4. \A j \in 1..n : F[j] \in Seq(S)
  BY <1>1, <1>3, FlattensTyped
<1>5. Bad = {}
  <2> SUFFICES ASSUME Bad # {} PROVE FALSE
    OBVIOUS
  <2>1. PICK m \in Bad : \A k \in Bad : m <= k
    <3>1. Bad \subseteq Nat
      BY <1>1
    <3> HIDE DEF Bad
    <3> QED BY <3>1, LeastNumber
  <2>2. m \in i..n /\ m \in 1..n /\ m \in Nat
    BY <1>1
  <2>3. F[m] = IF m = 1 THEN ss[m] ELSE F[m - 1] \o ss[m]
    <3> HIDE DEF Bad
    <3> QED BY <1>1, <1>3, <2>2, FlattensOne
  <2>4. CASE m = 1
    <3>1. i = m
      BY <1>1, <2>2, <2>4
    <3> QED BY <2>1, <2>3, <2>4, <3>1
  <2>5. CASE m # 1
    <3>1. m - 1 \in 1..n /\ ~(m <= m - 1)
      <4>1. m > 1 /\ m <= n
        BY <2>2, <2>5
      <4> HIDE DEF Bad
      <4> QED BY <1>1, <2>2, <4>1
    <3>2. ToSet(F[m]) = ToSet(F[m - 1]) \cup ToSet(ss[m])
      <4>1. ss[m] \in Seq(S) /\ F[m - 1] \in Seq(S) /\ F[m] = F[m - 1] \o ss[m]
        BY <1>1, <1>4, <2>2, <2>3, <2>5, <3>1
      <4> HIDE DEF Bad
      <4> QED BY <4>1, ToSetOfJoin
    <3>3. m # i
      BY <2>1, <3>2
    <3>4. m - 1 \in i..n
      BY <1>1, <2>2, <3>1, <3>3
    <3>5. m - 1 \notin Bad
      <4> HIDE DEF Bad
      <4> QED BY <2>1, <3>1
    <3>6. x \in ToSet(F[m - 1])
      BY <3>4, <3>5
    <3> QED BY <2>1, <3>2, <3>6
  <2> QED BY <2>4, <2>5
<1>6. n \in i..n /\ n # 0
  BY <1>1
<1>7. x \in ToSet(F[n])
  BY <1>5, <1>6
<1> QED BY <1>2, <1>6, <1>7

\* Those of a sequence at certain places, in their order.
Picked(s, T) == FlattenSeq([i \in DOMAIN s |-> IF i \in T THEN <<s[i]>> ELSE <<>>])

LEMMA PickedHolds ==
  ASSUME NEW S, NEW s \in Seq(S), NEW T
  PROVE  Picked(s, T) \in Seq(S) /\ \A i \in DOMAIN s : i \in T => s[i] \in ToSet(Picked(s, T))
<1> DEFINE ss == [i \in DOMAIN s |-> IF i \in T THEN <<s[i]>> ELSE <<>>]
<1>1. DOMAIN s = 1..Len(s) /\ Len(s) \in Nat /\ \A i \in DOMAIN s : s[i] \in S
  OBVIOUS
<1>2. \A i \in DOMAIN s : ss[i] \in Seq(S)
  BY <1>1
<1>3. ss \in Seq(Seq(S)) /\ DOMAIN ss = DOMAIN s
  BY <1>1, <1>2
<1>4. \A i \in DOMAIN s : i \in T => ss[i] = <<s[i]>>
  OBVIOUS
<1>5. \A x : x \in ToSet(<<x>>)
  <2> SUFFICES ASSUME NEW x PROVE x \in ToSet(<<x>>)
    OBVIOUS
  <2>1. 1 \in DOMAIN <<x>> /\ <<x>>[1] = x
    OBVIOUS
  <2> QED BY <2>1 DEF ToSet
<1> HIDE DEF ss
<1>6. Picked(s, T) = FlattenSeq(ss)
  BY DEF Picked, ss
<1>7. FlattenSeq(ss) \in Seq(S)
  BY <1>3, FlattenTyped
<1>8. ASSUME NEW i \in DOMAIN s, i \in T PROVE s[i] \in ToSet(FlattenSeq(ss))
  <2>1. s[i] \in ToSet(ss[i])
    BY <1>4, <1>5, <1>8
  <2> QED BY <1>3, <2>1, FlattenHolds
<1> QED BY <1>6, <1>7, <1>8

\* A dump has one list of operators at most.
LEMMA OperatorsOfDump ==
  ASSUME NEW d \in DOMAIN Dumps, NEW operators \in ParseMustGather(Dumps[d])
  PROVE  /\ operators \in Seq(ToSet(operators))
         /\ \A other \in ParseMustGather(Dumps[d]) : other = operators
<1> DEFINE dump == Dumps[d]
           cluster == dump.cluster
           files == dump.namespaced
<1>1. /\ cluster \in Seq(ToSet(cluster)) /\ files \in Seq(ToSet(files))
      /\ \A f \in ToSet(cluster) \cup ToSet(files) : f.operators \in Seq(ToSet(f.operators))
  BY DumpsAssumption
<1> HIDE DEF cluster, files
<1>2. CASE cluster # <<>>
  <2>1. Len(cluster) \in DOMAIN cluster /\ Last(cluster) = cluster[Len(cluster)]
    BY <1>1, <1>2 DEF Last
  <2>2. Last(cluster) \in ToSet(cluster)
    BY <2>1 DEF ToSet
  <2>3. findSubscriptionsFile(dump) = {Last(cluster)}
    BY <1>2 DEF findSubscriptionsFile, cluster
  <2>4. ParseMustGather(dump) \subseteq {Last(cluster).operators}
    BY <2>3 DEF ParseMustGather
  <2> QED BY <1>1, <2>2, <2>4
<1>3. CASE cluster = <<>>
  <2>1. findSubscriptionsFile(dump) = {}
    BY <1>3 DEF findSubscriptionsFile, cluster
  <2>2. operators = findNamespaceScopedSubscriptions(dump)
        /\ \A other \in ParseMustGather(dump) : other = operators
    BY <2>1 DEF ParseMustGather
  <2> DEFINE T == {i \in DOMAIN files : files[i].readable}
             good == Picked(files, T)
  <2>3. good = Select(files, LAMBDA f : f.readable)
    BY DEF Picked, Select
  <2>4. good \in Seq(ToSet(files))
    BY <1>1, PickedHolds
  <2> HIDE DEF T, good
  <2>5. operators = FlattenSeq([i \in DOMAIN good |-> good[i].operators])
    BY <2>2, <2>3 DEF findNamespaceScopedSubscriptions, files
  <2> DEFINE S  == UNION {ToSet(f.operators) : f \in ToSet(files)}
             ss == [i \in DOMAIN good |-> good[i].operators]
  <2>6. \A f \in ToSet(files) : f.operators \in Seq(S)
    <3> SUFFICES ASSUME NEW f \in ToSet(files) PROVE f.operators \in Seq(S)
      OBVIOUS
    <3>1. f.operators \in Seq(ToSet(f.operators)) /\ ToSet(f.operators) \subseteq S
      BY <1>1
    <3> HIDE DEF S
    <3> QED BY <3>1
  <2> HIDE DEF S
  <2>7. ss \in Seq(Seq(S))
    <3>1. \A i \in DOMAIN good : good[i] \in ToSet(files)
      BY <2>4
    <3>2. \A i \in DOMAIN good : ss[i] \in Seq(S)
      BY <2>6, <3>1
    <3>3. DOMAIN good = 1..Len(good) /\ Len(good) \in Nat
      BY <2>4
    <3> QED BY <3>2, <3>3
  <2> HIDE DEF ss
  <2>8. operators \in Seq(S)
    BY <2>5, <2>7, FlattenTyped DEF ss
  <2>9. operators \in Seq(ToSet(operators))
    BY <2>8 DEF ToSet
  <2> QED BY <2>2, <2>9
<1> QED BY <1>2, <1>3

\* What selectTargets selects outside of the suite.
LEMMA TargetsAre ==
  ASSUME NEW S, NEW operators \in Seq(S), ~config.suite
  PROVE  /\ selectTargets(operators, config) \in Seq(S)
         /\ \A op \in ToSet(operators) :
              op.faulty /\ config.package \in {NoText, op.package} =>
                op \in ToSet(selectTargets(operators, config))
<1> DEFINE N == {i \in DOMAIN operators : config.package \in {NoText, operators[i].package}}
           W == {i \in DOMAIN operators :
                   /\ config.package \in {NoText, operators[i].package}
                   /\ operators[i].faulty \/ (config.health /\ config.package # NoText)}
           wanted == Picked(operators, W)
           named  == Picked(operators, N)
<1>1. selectTargets(operators, config) =
        IF config.package # NoText /\ wanted = <<>> /\ named # <<>> THEN <<named[1]>> ELSE wanted
  BY DEF selectTargets, Select, Picked
<1>2. /\ wanted \in Seq(S) /\ named \in Seq(S)
      /\ \A i \in DOMAIN operators : i \in W => operators[i] \in ToSet(wanted)
  BY PickedHolds
<1>3. \A op \in ToSet(operators) : op.faulty /\ config.package \in {NoText, op.package} =>
        \E i \in DOMAIN operators : i \in W /\ operators[i] = op
  BY DEF ToSet
<1> HIDE DEF wanted, named, W
<1>4. ToSet(<<>>) = {}
  BY DEF ToSet
<1>5. named # <<>> => named[1] \in S /\ <<named[1]>> \in Seq(S)
  BY <1>2
<1> QED BY <1>1, <1>2, <1>3, <1>4, <1>5

\* The suite has the operators that are the only ones of their package.
LEMMA SuiteIs ==
  ASSUME NEW S, NEW operators \in Seq(S)
  PROVE  /\ \E R : selectTelcoSuite(operators) \in Seq(R)
         /\ selectTelcoSuite(operators) # <<>>
         /\ \A op \in ToSet(operators) :
              /\ op.package \in ToSet(Registry)
              /\ \A o \in ToSet(operators) : o.package = op.package => o = op
              => op \in ToSet(selectTelcoSuite(operators))
<1> DEFINE its(i) == First(operators, LAMBDA o : o.package = Registry[i])
           g == [i \in DOMAIN Registry |-> IF its(i) = {} THEN NotFound(Registry[i])
                                           ELSE CHOOSE o \in its(i) : TRUE]
           R == {g[i] : i \in DOMAIN Registry} \cup {NotFound(Idms)}
<1>1. selectTelcoSuite(operators) = g \o <<NotFound(Idms)>>
  BY DEF selectTelcoSuite
<1>2. DOMAIN Registry = 1..Len(Registry) /\ Len(Registry) \in Nat
  BY RegistryAssumption
<1>3. DOMAIN g = 1..Len(Registry) /\ \A i \in 1..Len(Registry) : g[i] \in R
  BY <1>2
<1>4. NotFound(Idms) \in R
  OBVIOUS
<1>5. ASSUME NEW op \in ToSet(operators), op.package \in ToSet(Registry),
             \A o \in ToSet(operators) : o.package = op.package => o = op
      PROVE  \E i \in DOMAIN Registry : g[i] = op
  <2>1. PICK i \in DOMAIN Registry : Registry[i] = op.package
    BY <1>5 DEF ToSet
  <2> DEFINE T == {j \in DOMAIN operators : operators[j].package = Registry[i]}
  <2>2. its(i) = {operators[j] : j \in {j \in T : \A k \in 1..(j - 1) : ~(operators[k].package = Registry[i])}}
    BY DEF First
  <2>3. PICK k \in DOMAIN operators : operators[k] = op
    BY DEF ToSet
  <2>4. T \subseteq Nat \ {0} /\ k \in T
    BY <2>1, <2>3
  <2>5. PICK m \in T : \A j \in 1..(m - 1) : j \notin T
    <3> HIDE DEF T
    <3> QED BY <2>4, FirstIndex
  <2>6. \A j \in 1..(m - 1) : j \in DOMAIN operators
    OBVIOUS
  <2>7. operators[m] \in its(i)
    BY <2>2, <2>5, <2>6
  <2>8. \A o \in its(i) : o \in ToSet(operators) /\ o.package = op.package
    BY <2>1, <2>2 DEF ToSet
  <2> HIDE DEF its
  <2>9. (CHOOSE o \in its(i) : TRUE) = op
    BY <1>5, <2>7, <2>8
  <2> QED BY <2>7, <2>9
<1>6. g = [i \in 1..Len(Registry) |-> g[i]]
  BY <1>2
<1> HIDE DEF g, R
<1>7. g \in Seq(R) /\ Len(g) \in Nat
  BY <1>2, <1>3, <1>6
<1> DEFINE tail == <<NotFound(Idms)>>
<1>8. tail \in Seq(R) /\ Len(tail) = 1
  BY <1>4
<1> HIDE DEF tail
<1>b. g \in Seq(R) /\ tail \in Seq(R)
  BY <1>7, <1>8
<1>9. g \o tail \in Seq(R)
  BY <1>b, Joined, Zenon
<1>a. Len(g \o tail) = Len(g) + Len(tail)
  BY <1>b, Joined, Zenon
<1>10. g \o tail # <<>>
  <2>1. Len(g \o tail) # 0
    BY <1>7, <1>8, <1>a
  <2> HIDE DEF g
  <2> QED BY <2>1
<1>11. ToSet(g \o tail) = ToSet(g) \cup ToSet(tail)
  BY <1>7, <1>8, ToSetOfJoin
<1>12. \A i \in DOMAIN Registry : g[i] \in ToSet(g)
  BY <1>2, <1>3 DEF ToSet
<1>13. selectTelcoSuite(operators) = g \o tail
  BY <1>1 DEF tail
<1>14. ASSUME NEW op \in ToSet(operators), op.package \in ToSet(Registry),
              \A o \in ToSet(operators) : o.package = op.package => o = op
       PROVE  op \in ToSet(g \o tail)
  BY <1>5, <1>11, <1>12, <1>14
<1> QED BY <1>9, <1>10, <1>13, <1>14

\* A sequence is one of its members.
LEMMA SeqOfItself ==
  ASSUME NEW S, NEW s \in Seq(S)
  PROVE  s \in Seq(ToSet(s))
<1>1. s = [i \in 1..Len(s) |-> s[i]] /\ Len(s) \in Nat /\ DOMAIN s = 1..Len(s)
  OBVIOUS
<1>2. \A i \in 1..Len(s) : s[i] \in ToSet(s)
  BY <1>1 DEF ToSet
<1> QED BY <1>1, <1>2

LEMMA TargetsTyped ==
  ASSUME NEW d \in DOMAIN Dumps, NEW operators \in ParseMustGather(Dumps[d])
  PROVE  selectTargets(operators, config) \in Seq(ToSet(selectTargets(operators, config)))
<1> DEFINE t == selectTargets(operators, config)
<1>1. operators \in Seq(ToSet(operators))
  BY OperatorsOfDump
<1>2. \E S : t \in Seq(S)
  <2>1. CASE config.suite
    <3>1. t = selectTelcoSuite(operators)
      BY <2>1 DEF selectTargets
    <3> HIDE DEF t
    <3> QED BY <1>1, <3>1, SuiteIs
  <2>2. CASE ~config.suite
    <3>1. t \in Seq(ToSet(operators))
      BY <1>1, <2>2, TargetsAre
    <3> HIDE DEF t
    <3> QED BY <3>1
  <2> QED BY <2>1, <2>2
<1> HIDE DEF t
<1>3. t \in Seq(ToSet(t))
  BY <1>2, SeqOfItself
<1> QED BY <1>3 DEF t

\* The first member of a sequence goes, the others stay.
LEMMA HeadOrTail ==
  ASSUME NEW S, NEW s \in Seq(S), s # <<>>
  PROVE  /\ Tail(s) \in Seq(S)
         /\ \A x \in ToSet(s) : x = Head(s) \/ x \in ToSet(Tail(s))
         /\ Head(s) \in S
<1>1. /\ Len(s) \in Nat \ {0} /\ DOMAIN s = 1..Len(s) /\ Head(s) = s[1] /\ s[1] \in S
      /\ Tail(s) \in Seq(S)
  OBVIOUS
<1>2. Len(Tail(s)) = Len(s) - 1 /\ \A i \in 1..(Len(s) - 1) : Tail(s)[i] = s[i + 1]
  OBVIOUS
<1>3. DOMAIN Tail(s) = 1..(Len(s) - 1)
  BY <1>1, <1>2
<1> DEFINE t == Tail(s)
<1>4. \A i \in 1..(Len(s) - 1) : t[i] = s[i + 1] /\ i \in DOMAIN t
  BY <1>2, <1>3
<1> HIDE DEF t
<1>5. ASSUME NEW x \in ToSet(s), x # Head(s) PROVE x \in ToSet(t)
  <2>1. PICK i \in 1..Len(s) : x = s[i]
    BY <1>1 DEF ToSet
  <2>2. i - 1 \in 1..(Len(s) - 1) /\ (i - 1) + 1 = i
    BY <1>1, <1>5, <2>1
  <2>3. t[i - 1] = x /\ i - 1 \in DOMAIN t
    BY <1>4, <2>1, <2>2
  <2> QED BY <2>3 DEF ToSet
<1> QED BY <1>1, <1>5 DEF t

\* A sequence with one more member has that and those it had.
LEMMA ToSetOfAppend ==
  ASSUME NEW S, NEW s \in Seq(S), NEW x
  PROVE  ToSet(s) \cup {x} \subseteq ToSet(Append(s, x))
<1> DEFINE t == Append(s, x)
<1>1. /\ Len(s) \in Nat /\ DOMAIN s = 1..Len(s) /\ DOMAIN t = 1..(Len(s) + 1)
      /\ t[Len(s) + 1] = x /\ \A i \in 1..Len(s) : t[i] = s[i]
  OBVIOUS
<1> HIDE DEF t
<1>2. Len(s) + 1 \in DOMAIN t /\ \A i \in DOMAIN s : i \in DOMAIN t
  BY <1>1
<1>3. x \in ToSet(t)
  BY <1>1, <1>2 DEF ToSet
<1>4. \A y \in ToSet(s) : y \in ToSet(t)
  BY <1>1, <1>2 DEF ToSet
<1> QED BY <1>3, <1>4 DEF t

-----------------------------------------------------------------------------
(* No directory and no target is lost.                                     *)

\* What is covered stays so while analyses are only added.
LEMMA CoveredStays ==
  ASSUME NEW d, Covered(d), UNCHANGED config,
         \A i \in DOMAIN results : i \in DOMAIN results' /\ results'[i] = results[i]
  PROVE  Covered(d)'
<1> SUFFICES ASSUME NEW operators \in ParseMustGather(Dumps[d]),
                    NEW op \in ToSet(selectTargets(operators, config))
             PROVE  \E i \in DOMAIN results' : \E r \in ToSet(results'[i].reports) :
                      r.dir = d /\ r.op = op
  BY DEF Covered
<1>1. PICK i \in DOMAIN results : \E r \in ToSet(results[i].reports) : r.dir = d /\ r.op = op
  BY DEF Covered
<1> QED BY <1>1

\* With a live cluster there is nothing to cover.
LEMMA LiveCover ==
  ASSUME CoverInv, UNCHANGED <<inv, config>>, config.live
  PROVE  CoverInv'
BY DEF CoverInv, ConfigRead, DirectoriesCovered, TargetsCovered, AsksForHelp

\* A step among those of an operator, or one that leaves the place as it is.
LEMMA SameCover ==
  ASSUME CoverInv, UNCHANGED <<inv, config, dirs, targets, result, results, exit>>,
         at' = at \/ (at \in Steps /\ at' \in Steps)
  PROVE  CoverInv'
<1>1. {"merge", "end"} \cap Steps = {}
  BY StepsAre
<1>2. ConfigRead'
  BY DEF CoverInv, ConfigRead, AsksForHelp
<1>3. \A d : Covered(d) => Covered(d)'
  BY DEF Covered
<1> HIDE DEF Steps
<1>4. DirectoriesCovered'
  <2>1. CASE at' = at
    BY <1>3, <2>1 DEF CoverInv, DirectoriesCovered
  <2>2. CASE at \in Steps /\ at' \in Steps
    BY <1>1, <1>3, <2>2 DEF CoverInv, DirectoriesCovered
  <2> QED BY <2>1, <2>2
<1>5. TargetsCovered'
  BY DEF CoverInv, TargetsCovered
<1> QED BY <1>2, <1>4, <1>5 DEF CoverInv

\* A run that ends where no directory is left.
LEMMA LeaveCover ==
  ASSUME CoverInv, UNCHANGED <<inv, config, dirs, results>>, at' = "end",
         exit' # 0 \/ config.patterns = <<>> \/ (at = "merge" /\ ~config.live)
  PROVE  CoverInv'
<1>1. "end" \notin Steps
  BY StepsAre
<1>2. ConfigRead'
  BY DEF CoverInv, ConfigRead, AsksForHelp
<1>3. \A d : Covered(d) => Covered(d)'
  BY DEF Covered
<1>4. DirectoriesCovered'
  <2>1. CASE at = "merge" /\ ~config.live
    BY <1>1, <1>3, <2>1 DEF CoverInv, DirectoriesCovered
  <2>2. CASE exit' # 0 \/ config.patterns = <<>>
    BY <1>1, <2>2 DEF DirectoriesCovered
  <2> QED BY <2>1, <2>2
<1>5. TargetsCovered'
  BY <1>1 DEF TargetsCovered
<1> QED BY <1>2, <1>4, <1>5 DEF CoverInv

LEMMA InitCover ==
  ASSUME Init PROVE CoverInv
<1>1. config.patterns = <<>> /\ at = "parse" /\ exit = -1 /\ at \notin Steps
  <2>1. Common(<<>>).patterns = <<>> /\ "patterns" \in DOMAIN Common(<<>>)
    BY DEF Common
  <2> QED BY <2>1, StepsAre DEF Init
<1> HIDE DEF Steps
<1> QED BY <1>1 DEF CoverInv, ConfigRead, DirectoriesCovered, TargetsCovered

LEMMA ParseCover ==
  ASSUME IInv, OutcomeInv, CoverInv, Parse PROVE CoverInv'
<1>1. /\ at = "parse" /\ UNCHANGED <<inv, dirs, results>> /\ config.patterns = <<>> /\ exit = -1
  BY DEF Parse, Ready, work, OutcomeInv, ModeKept, IInv, TypeOK
<1>2. CASE (Leave(0) \/ Leave(1)) /\ UNCHANGED config
  BY <1>1, <1>2, LeaveCover DEF Leave
<1>3. CASE /\ ~AsksForHelp
           /\ config' \in Configuration(inv.command, inv.args, inv.kubeconfig)
           /\ Goto(IF config'.live THEN "connect"
                   ELSE IF config'.patterns # <<>> THEN "expand" ELSE "inspect")
  <2>1. at' \in {"connect", "expand", "inspect"} /\ exit' = -1
    BY <1>1, <1>3 DEF Goto
  <2>2. at' \notin Steps \cup {"dump", "services", "merge"}
    BY <2>1, StepsAre
  <2>3. ConfigRead'
    BY <1>1, <1>3 DEF ConfigRead, AsksForHelp
  <2> HIDE DEF Steps
  <2>4. DirectoriesCovered' /\ TargetsCovered'
    BY <2>1, <2>2 DEF DirectoriesCovered, TargetsCovered
  <2> QED BY <2>3, <2>4 DEF CoverInv
<1> QED BY <1>2, <1>3, Zenon DEF Parse

LEMMA InspectCover ==
  ASSUME IInv, OutcomeInv, CoverInv, Inspect PROVE CoverInv'
<1>1. /\ at = "inspect" /\ UNCHANGED <<inv, config, dirs, results>> /\ config.patterns = <<>>
  BY DEF Inspect, Ready, lookup, work, OutcomeInv, ModeKept
<1>2. at' = "end"
  BY Zenon DEF Inspect, Leave
<1> QED BY <1>1, <1>2, LeaveCover

\* All directories of all patterns are found.
LEMMA ExpandHolds ==
  ASSUME NEW patterns \in Seq(DOMAIN Glob), NEW all \in ExpandMustGatherPaths(patterns, Glob),
         NEW p \in ToSet(patterns), NEW found \in Glob[p], NEW d \in ToSet(found)
  PROVE  d \in ToSet(all)
<1> DEFINE ss == [i \in DOMAIN patterns |-> CHOOSE m \in Glob[patterns[i]] : TRUE]
<1>1. PICK k \in DOMAIN patterns : patterns[k] = p
  BY DEF ToSet
<1>2. \A i \in DOMAIN patterns : Glob[patterns[i]] # {}
  BY DEF ExpandMustGatherPaths
<1>3. \A i \in DOMAIN patterns : ss[i] \in Glob[patterns[i]] /\ ss[i] \in Seq(DOMAIN Dumps)
  <2> SUFFICES ASSUME NEW i \in DOMAIN patterns
               PROVE  ss[i] \in Glob[patterns[i]] /\ ss[i] \in Seq(DOMAIN Dumps)
    OBVIOUS
  <2>1. patterns[i] \in DOMAIN Glob
    OBVIOUS
  <2>2. ss[i] \in Glob[patterns[i]]
    BY <1>2
  <2> QED BY <2>1, <2>2, GlobAssumption
<1>4. ss \in Seq(Seq(DOMAIN Dumps)) /\ DOMAIN ss = DOMAIN patterns
  <2>1. DOMAIN ss = 1..Len(patterns) /\ DOMAIN patterns = 1..Len(patterns) /\ Len(patterns) \in Nat
    OBVIOUS
  <2> QED BY <1>3, <2>1
<1>5. all = FlattenSeq(ss)
  BY DEF ExpandMustGatherPaths
<1> HIDE DEF ss
<1>6. ss[k] = found
  <2>1. p \in DOMAIN Glob
    BY <1>1
  <2> QED BY <1>1, <1>3, <2>1, GlobAssumption
<1> QED BY <1>1, <1>4, <1>5, <1>6, FlattenHolds

LEMMA ExpandCover ==
  ASSUME IInv, OutcomeInv, CoverInv, Expand PROVE CoverInv'
<1>1. /\ at = "expand" /\ UNCHANGED <<inv, config, results>> /\ exit = -1
      /\ "dump" \notin Steps \cup {"services"}
  BY StepsAre DEF Expand, Ready, lookup, IInv, TypeOK
<1>2. CASE Leave(1) /\ UNCHANGED dirs
  BY <1>1, <1>2, LeaveCover DEF Leave
<1>3. CASE dirs' \in ExpandMustGatherPaths(config.patterns, Glob) /\ Goto("dump")
  <2>1. at' = "dump"
    BY <1>3 DEF Goto
  <2>2. ConfigRead' /\ TargetsCovered'
    BY <1>1, <2>1 DEF CoverInv, ConfigRead, TargetsCovered, AsksForHelp
  <2>3. config.patterns \in Seq(DOMAIN Glob)
    BY DEF IInv, SequencesTyped
  <2>4. \A p \in ToSet(config.patterns) : \A found \in Glob[p] : \A d \in ToSet(found) :
          d \in ToSet(dirs')
    BY <1>3, <2>3, ExpandHolds
  <2>5. DirectoriesCovered'
    BY <1>1, <2>1, <2>4 DEF DirectoriesCovered
  <2> QED BY <2>2, <2>5 DEF CoverInv
<1> QED BY <1>2, <1>3, Zenon DEF Expand

LEMMA SkipDumpCover ==
  ASSUME IInv, OutcomeInv, CoverInv, SkipDump PROVE CoverInv'
<1>1. /\ at = "dump" /\ UNCHANGED <<inv, config, results>> /\ exit' = -1
      /\ ParseMustGather(Dumps[Head(dirs)]) = {}
      /\ dirs' = Tail(dirs) /\ at' = IF Tail(dirs) = <<>> THEN "merge" ELSE "dump"
      /\ {"dump", "merge", "end"} \cap (Steps \cup {"services"}) = {}
  BY StepsAre DEF SkipDump, Ready, lookup, Goto, IInv, TypeOK
<1>2. ~config.live /\ dirs \in Seq(DOMAIN Dumps) /\ dirs # <<>>
  BY <1>1, LiveStepsAre DEF IInv, OnItsWay, SequencesTyped
<1>3. ConfigRead' /\ TargetsCovered'
  BY <1>1 DEF CoverInv, ConfigRead, TargetsCovered, AsksForHelp
<1>4. \A d : Covered(d) => Covered(d)'
  BY <1>1 DEF Covered
<1>5. Covered(Head(dirs))
  BY <1>1 DEF Covered
<1>6. \A d \in ToSet(dirs) : d = Head(dirs) \/ d \in ToSet(dirs')
  BY <1>1, <1>2, HeadOrTail
<1>7. \A p \in ToSet(config.patterns) : \A found \in Glob[p] : \A d \in ToSet(found) :
        d \in ToSet(dirs) \/ Covered(d)
  BY <1>1, <1>2 DEF CoverInv, DirectoriesCovered
<1>8. DirectoriesCovered'
  BY <1>1, <1>4, <1>5, <1>6, <1>7 DEF DirectoriesCovered
<1> QED BY <1>3, <1>8 DEF CoverInv

\* The analysis that ends covers its directory.
LEMMA EndAnalysisCover ==
  ASSUME IInv, CoverInv, ~config.live, dirs # <<>>, at \in Steps \cup {"dump"}, at # "end",
         NEW done, EndAnalysis(done), UNCHANGED <<inv, config>>,
         \A operators \in ParseMustGather(Dumps[Head(dirs)]) :
           \A op \in ToSet(selectTargets(operators, config)) :
             \E r \in ToSet(done.reports) : r.dir = Head(dirs) /\ r.op = op
  PROVE  CoverInv'
<1>1. /\ results' = Append(results, done) /\ dirs' = Tail(dirs) /\ exit' = -1
      /\ at' = IF Tail(dirs) = <<>> THEN "merge" ELSE "dump"
      /\ {"dump", "merge", "end"} \cap (Steps \cup {"services"}) = {}
  BY StepsAre DEF EndAnalysis, Goto, IInv, TypeOK
<1> HIDE DEF Steps
<1>2. dirs \in Seq(DOMAIN Dumps) /\ results \in Seq(ToSet(results))
  BY DEF IInv, SequencesTyped
<1>3. ConfigRead' /\ TargetsCovered'
  BY <1>1 DEF CoverInv, ConfigRead, TargetsCovered, AsksForHelp
<1>4. /\ Len(results) + 1 \in DOMAIN results' /\ results'[Len(results) + 1] = done
      /\ \A i \in DOMAIN results : i \in DOMAIN results' /\ results'[i] = results[i]
  BY <1>1, <1>2
<1>5. \A d : Covered(d) => Covered(d)'
  BY <1>4, CoveredStays
<1>6. \A h : h = Head(dirs) => Covered(h)'
  <2> SUFFICES ASSUME NEW h, h = Head(dirs),
                      NEW operators \in ParseMustGather(Dumps[h]),
                      NEW op \in ToSet(selectTargets(operators, config))
               PROVE  \E i \in DOMAIN results' : \E r \in ToSet(results'[i].reports) :
                        r.dir = h /\ r.op = op
    BY DEF Covered
  <2> QED BY <1>4
<1>7. \A d \in ToSet(dirs) : d = Head(dirs) \/ d \in ToSet(dirs')
  BY <1>1, <1>2, HeadOrTail
<1>8. \A p \in ToSet(config.patterns) : \A found \in Glob[p] : \A d \in ToSet(found) :
        d \in ToSet(dirs) \/ Covered(d)
  BY DEF CoverInv, DirectoriesCovered
<1>9. \A p \in ToSet(config.patterns) : \A found \in Glob[p] : \A d \in ToSet(found) :
        d \in ToSet(dirs') \/ Covered(d)'
  BY <1>5, <1>6, <1>7, <1>8
<1>10. DirectoriesCovered'
  BY <1>1, <1>9 DEF DirectoriesCovered
<1> QED BY <1>3, <1>10 DEF CoverInv

LEMMA ParseDumpCover ==
  ASSUME IInv, OutcomeInv, CoverInv, ParseDump PROVE CoverInv'
<1>1. /\ at = "dump" /\ at # "end" /\ UNCHANGED <<inv, config>> /\ exit = -1
      /\ {"dump", "services"} \cap (Steps \cup {"merge", "end"}) = {}
  BY StepsAre DEF ParseDump, Ready, lookup, IInv, TypeOK
<1>2. ~config.live /\ dirs \in Seq(DOMAIN Dumps) /\ dirs # <<>>
  BY <1>1, LiveStepsAre DEF IInv, OnItsWay, SequencesTyped
<1> DEFINE dir == Head(dirs)
<1>3. dir \in DOMAIN Dumps
  BY <1>2, HeadOrTail
<1>4. PICK operators \in ParseMustGather(Dumps[dir]) :
        LET parsed == [NoResult(dir) EXCEPT
                         !.cluster = ClusterName,
                         !.faulty = Len(Select(operators, LAMBDA o : o.faulty))]
        IN  /\ targets' = selectTargets(operators, config)
            /\ \/ targets' = <<>> /\ EndAnalysis(parsed)
               \/ /\ targets' # <<>> /\ Goto("services") /\ result' = parsed
                  /\ UNCHANGED <<dirs, services, results>>
  BY DEF ParseDump
<1> DEFINE n   == Len(Select(operators, LAMBDA o : o.faulty))
           parsed == [NoResult(dir) EXCEPT !.cluster = ClusterName, !.faulty = n]
<1>5. parsed.dir = dir
  <2> HIDE DEF dir, n
  <2>1. NoResult(dir).dir = dir
    BY DEF NoResult
  <2> QED BY <2>1, NoResultIs
<1>6. /\ targets' = selectTargets(operators, config)
      /\ \/ targets' = <<>> /\ EndAnalysis(parsed)
         \/ /\ targets' # <<>> /\ Goto("services") /\ result' = parsed
            /\ UNCHANGED <<dirs, services, results>>
  BY <1>4
<1> HIDE DEF parsed, dir
<1>7. \A other \in ParseMustGather(Dumps[dir]) : other = operators
  BY <1>3, OperatorsOfDump
<1>8. CASE targets' = <<>> /\ EndAnalysis(parsed)
  <2>1. ToSet(<<>>) = {}
    BY DEF ToSet
  <2>2. \A other \in ParseMustGather(Dumps[dir]) : ToSet(selectTargets(other, config)) = {}
    BY <1>6, <1>7, <1>8, <2>1
  <2> QED BY <1>1, <1>2, <1>8, <2>2, EndAnalysisCover DEF dir
<1>9. CASE targets' # <<>> /\ Goto("services") /\ result' = parsed
           /\ UNCHANGED <<dirs, services, results>>
  <2>1. at' = "services" /\ exit' = -1
    BY <1>1, <1>9 DEF Goto
  <2>2. ConfigRead'
    BY <1>1 DEF CoverInv, ConfigRead, AsksForHelp
  <2>3. \A d : Covered(d) => Covered(d)'
    BY <1>1, <1>9 DEF Covered
  <2>4. DirectoriesCovered'
    BY <1>1, <1>2, <1>9, <2>1, <2>3 DEF CoverInv, DirectoriesCovered
  <2>5. targets' \in Seq(ToSet(targets'))
    BY <1>3, <1>6, TargetsTyped
  <2>6. result'.dir = Head(dirs')
    BY <1>5, <1>9 DEF dir
  <2>7. \A other \in ParseMustGather(Dumps[Head(dirs')]) :
          \A op \in ToSet(selectTargets(other, config)) : op \in ToSet(targets')
    BY <1>6, <1>7, <1>9 DEF dir
  <2>8. TargetsCovered'
    BY <1>1, <1>9, <2>5, <2>6, <2>7 DEF TargetsCovered
  <2> QED BY <2>2, <2>4, <2>8 DEF CoverInv
<1> QED BY <1>6, <1>8, <1>9

LEMMA OpenServicesCover ==
  ASSUME IInv, OutcomeInv, CoverInv, OpenServices PROVE CoverInv'
<1>1. /\ at = "services" /\ at' = "health" /\ exit' = -1 /\ "health" \in Steps
      /\ UNCHANGED <<inv, config, dirs, targets, results>>
      /\ "health" \notin {"merge", "end"}
  BY StepsAre DEF OpenServices, Ready, lookup, Goto, IInv, TypeOK
<1>2. ~config.live
  BY <1>1, LiveStepsAre DEF IInv, OnItsWay
<1>3. result'.reports = result.reports /\ result'.dir = result.dir
  <2>1. PICK open \in SUBSET Needed :
          result' = [result EXCEPT !.errors = Needed \ (open \cup Tolerated)]
    BY DEF OpenServices
  <2>2. {"reports", "dir"} \subseteq DOMAIN result
    BY NoResultIs DEF IInv, TypeOK
  <2> DEFINE errors == Needed \ (open \cup Tolerated)
  <2> HIDE DEF errors
  <2> QED BY <2>1, <2>2 DEF errors
<1> HIDE DEF Steps
<1>4. ConfigRead'
  BY <1>1 DEF CoverInv, ConfigRead, AsksForHelp
<1>5. \A d : Covered(d) => Covered(d)'
  BY <1>1 DEF Covered
<1>6. DirectoriesCovered'
  BY <1>1, <1>2, <1>5 DEF CoverInv, DirectoriesCovered
<1>7. TargetsCovered'
  BY <1>1, <1>2, <1>3 DEF CoverInv, TargetsCovered
<1> QED BY <1>4, <1>6, <1>7 DEF CoverInv

\* A step of an operator keeps what is to do and what is done.
LEMMA StepsCover ==
  ASSUME IInv, OutcomeInv, CoverInv, AnalyzeSingleOperator \/ RunInfraChecks PROVE CoverInv'
<1>1. \E t \in Steps \ {"reported", "written"} : \E after : Turn(t, after)
  <2>1. {"infra", "health", "installed", "target", "delta", "code", "claude", "rag", "adhd",
         "correlation", "similar", "document"} \subseteq Steps \ {"reported", "written"}
    BY StepsAre
  <2>2. \E t \in {"infra", "health", "installed", "target", "delta", "code", "claude", "rag",
                  "adhd", "correlation", "similar", "document"} : \E after : Turn(t, after)
    <3>1. \/ \E t \in {"health", "correlation", "infra", "document"} : \E wanted : Do(t, wanted)
          \/ \E t \in {"installed", "target", "delta", "code", "claude", "adhd", "similar"} :
               \E wanted, possible : Attempt(t, wanted, possible)
          \/ \E t \in {"rag", "adhd", "similar"} : \E wanted, possible : Enrich(t, wanted, possible)
      BY Zenon DEF AnalyzeSingleOperator, RunInfraChecks, CheckHealth, InspectInstalled,
         InspectTarget, CalculateDelta, AnalyzeCode, AskClaude, Troubleshoot, Diverge,
         CorrelateRepo, FindSimilar, Document
    <3>2. \A t : \/ \E wanted : Do(t, wanted)
                 \/ \E wanted, possible : Attempt(t, wanted, possible)
                 \/ \E wanted, possible : Enrich(t, wanted, possible)
                 => \E after : Turn(t, after)
      BY Zenon DEF Do, Attempt, Enrich, Skip, Deliver
    <3> QED BY <3>1, <3>2
  <2> HIDE DEF Steps
  <2> QED BY <2>1, <2>2
<1>2. PICK t \in Steps \ {"reported", "written"} : \E after : Turn(t, after)
  BY <1>1
<1>3. /\ at = t /\ at' = After(t) /\ exit' = exit
      /\ UNCHANGED <<inv, config, dirs, targets, result, results>>
  BY <1>2 DEF Turn, Ready, Goto, Kept, lookup
<1>4. t \in IF config.live THEN ToSet(LiveSteps) ELSE ToSet(OperatorSteps)
  BY <1>3, StepsAre, OperatorStepsAre, LiveStepsAre DEF IInv, OnItsWay
<1>5. After(t) \in Steps
  BY <1>4, AfterIsLater, StepsAre
<1> QED BY <1>3, <1>5, SameCover

LEMMA EndOperatorCover ==
  ASSUME IInv, OutcomeInv, CoverInv, EndOperator PROVE CoverInv'
<1> DEFINE new  == [dir |-> result.dir, op |-> Op, documented |-> Has("document")]
           more == IF report.errors = {} THEN result.analyzed + 1 ELSE result.analyzed
           done == [result EXCEPT !.reports = Append(result.reports, new), !.analyzed = more]
<1>1. /\ at = "reported" /\ at \in Steps /\ at # "end" /\ exit = -1
      /\ UNCHANGED <<inv, config>> /\ targets' = Tail(targets)
      /\ \/ Tail(targets) = <<>> /\ EndAnalysis(done)
         \/ /\ Tail(targets) # <<>> /\ result' = done /\ Goto("health")
            /\ UNCHANGED <<dirs, services, results>>
  <2>1. at = "reported" /\ targets' = Tail(targets) /\ UNCHANGED lookup
    BY DEF EndOperator, Ready
  <2>2. \/ Tail(targets) = <<>> /\ EndAnalysis(done)
        \/ /\ Tail(targets) # <<>> /\ result' = done /\ Goto("health")
           /\ UNCHANGED <<dirs, services, results>>
    BY Zenon DEF EndOperator
  <2>3. at \in Steps /\ at # "end" /\ exit = -1
    BY <2>1, StepsAre DEF IInv, TypeOK
  <2> HIDE DEF done, Steps
  <2> QED BY <2>1, <2>2, <2>3 DEF lookup
<1>2. ~config.live /\ dirs # <<>>
  BY <1>1, LiveStepsAre DEF IInv, OnItsWay, SequencesTyped
<1>3. new.dir = result.dir /\ new.op = Head(targets)
  BY DEF Op
<1>4. done.reports = Append(result.reports, new) /\ done.dir = result.dir
  <2>1. {"dir", "reports", "analyzed"} \subseteq DOMAIN result
    BY NoResultIs DEF IInv, TypeOK
  <2> HIDE DEF new, more
  <2> QED BY <2>1
<1> HIDE DEF new, done, Steps
<1>5. ToSet(result.reports) \cup {new} \subseteq ToSet(done.reports)
  <2>1. result.reports \in Seq(ToSet(result.reports))
    BY DEF IInv, SequencesTyped
  <2> QED BY <1>4, <2>1, ToSetOfAppend
<1>6. /\ targets \in Seq(ToSet(targets)) /\ targets # <<>> /\ result.dir = Head(dirs)
      /\ \A operators \in ParseMustGather(Dumps[Head(dirs)]) :
           \A op \in ToSet(selectTargets(operators, config)) :
             \/ op \in ToSet(targets)
             \/ \E r \in ToSet(result.reports) : r.dir = Head(dirs) /\ r.op = op
  BY <1>1, <1>2 DEF CoverInv, TargetsCovered
<1>7. /\ targets' \in Seq(ToSet(targets))
      /\ \A op \in ToSet(targets) : op = Head(targets) \/ op \in ToSet(targets')
  BY <1>1, <1>6, HeadOrTail
<1>8. \A operators \in ParseMustGather(Dumps[Head(dirs)]) :
        \A op \in ToSet(selectTargets(operators, config)) :
          \/ op \in ToSet(targets')
          \/ \E r \in ToSet(done.reports) : r.dir = Head(dirs) /\ r.op = op
  BY <1>3, <1>5, <1>6, <1>7
<1>9. CASE targets' = <<>> /\ EndAnalysis(done)
  <2>1. ToSet(<<>>) = {}
    BY DEF ToSet
  <2>2. \A operators \in ParseMustGather(Dumps[Head(dirs)]) :
          \A op \in ToSet(selectTargets(operators, config)) :
            \E r \in ToSet(done.reports) : r.dir = Head(dirs) /\ r.op = op
    BY <1>8, <1>9, <2>1
  <2> QED BY <1>1, <1>2, <1>9, <2>2, EndAnalysisCover
<1>10. CASE /\ targets' # <<>> /\ result' = done /\ Goto("health")
            /\ UNCHANGED <<dirs, services, results>>
  <2>1. at' = "health" /\ exit' = -1 /\ at' \in Steps /\ at' \notin {"merge", "end"}
    BY <1>1, <1>10, StepsAre DEF Goto
  <2>2. ConfigRead'
    BY <1>1 DEF CoverInv, ConfigRead, AsksForHelp
  <2>3. \A d : Covered(d) => Covered(d)'
    BY <1>1, <1>10 DEF Covered
  <2>4. DirectoriesCovered'
    BY <1>1, <1>2, <1>10, <2>1, <2>3 DEF CoverInv, DirectoriesCovered
  <2>5. targets' \in Seq(ToSet(targets'))
    BY <1>7, SeqOfItself
  <2>6. TargetsCovered'
    BY <1>1, <1>4, <1>6, <1>8, <1>10, <2>5 DEF TargetsCovered
  <2> QED BY <2>2, <2>4, <2>6 DEF CoverInv
<1> QED BY <1>1, <1>9, <1>10

LEMMA WriteResultsCover ==
  ASSUME IInv, OutcomeInv, CoverInv, WriteResults PROVE CoverInv'
<1>1. at = "merge" /\ UNCHANGED <<inv, config, dirs, results>>
  BY DEF WriteResults, Ready, lookup, work
<1>2. ~config.live
  BY <1>1, LiveStepsAre DEF IInv, OnItsWay
<1>3. at' = "end"
  BY Zenon DEF WriteResults, WriteRCAFile, WriteStateDir, Leave
<1> QED BY <1>1, <1>2, <1>3, LeaveCover

LEMMA LiveStepsCover ==
  ASSUME IInv, OutcomeInv, CoverInv, Connect \/ WriteLive PROVE CoverInv'
<1>1. at \in {"connect", "written"} /\ UNCHANGED <<inv, config>>
  BY DEF Connect, WriteLive, Ready, lookup
<1>2. config.live
  BY <1>1, OperatorStepsAre DEF IInv, OnItsWay
<1> QED BY <1>1, <1>2, LiveCover

LEMMA ExpireCover ==
  ASSUME CoverInv, Expire \/ UNCHANGED vars PROVE CoverInv'
<1>1. UNCHANGED <<inv, config, at, dirs, targets, result, results, exit>>
  BY DEF Expire, lookup, work, vars
<1> QED BY <1>1, SameCover

-----------------------------------------------------------------------------
(* What was asked for.                                                     *)

\* Without surplus words all of the command line is read as it stands.
LEMMA AllIsRead ==
  ASSUME NEW i \in Invocations, inv = i, WordsFit
  PROVE  /\ Read(i.args) = i.args
         /\ \A k \in DOMAIN i.args : ~Surplus(i.args[k])
         /\ i.args \in Seq(ToSet(i.args))
<1> DEFINE args == i.args
<1>1. args \in Seq(ToSet(args)) /\ \A a \in ToSet(args) : a.words \in Seq(ToSet(a.words))
  BY CommandLineAssumption
<1>2. \A k \in DOMAIN args : args[k].flag # "must-gather" =>
        Len(args[k].words) <= IF args[k].flag \in Switches THEN 0 ELSE 1
  BY DEF WordsFit
<1> HIDE DEF args
<1>3. ASSUME NEW k \in DOMAIN args PROVE ~Surplus(args[k])
  <2>1. args[k] \in ToSet(args)
    BY <1>3 DEF ToSet
  <2>2. Len(args[k].words) \in Nat
    BY <1>1, <2>1
  <2> DEFINE m == Len(args[k].words)
             f == args[k].flag
  <2>3. m \in Nat /\ (f # "must-gather" => m <= IF f \in Switches THEN 0 ELSE 1)
    BY <1>2, <2>2
  <2>4. Surplus(args[k]) <=> f # "must-gather" /\ m > IF f \in Switches THEN 0 ELSE 1
    BY DEF Surplus
  <2> HIDE DEF m, f
  <2>5. CASE f \in Switches
    BY <2>3, <2>4, <2>5
  <2>6. CASE f \notin Switches
    BY <2>3, <2>4, <2>6
  <2> QED BY <2>5, <2>6
<1>4. {k \in DOMAIN args : Surplus(args[k])} = {}
  BY <1>3
<1>5. Read(args) = args
  BY <1>4, Zenon DEF Read
<1> QED BY <1>1, <1>3, <1>5 DEF args

\* Then the words of some flags are those of the last one of them.
LEMMA WordsAre ==
  ASSUME NEW i \in Invocations, inv = i, WordsFit, NEW flags
  PROVE  LET its == {k \in DOMAIN i.args : i.args[k].flag \in flags}
         IN  WordsOf(i.args, flags) = IF its = {} THEN <<>> ELSE i.args[Max(its)].words
<1> DEFINE its == {k \in DOMAIN i.args : i.args[k].flag \in flags}
<1>1. Read(i.args) = i.args /\ (\A k \in DOMAIN i.args : ~Surplus(i.args[k]))
      /\ i.args \in Seq(ToSet(i.args))
  BY AllIsRead
<1>2. WordsOf(i.args, flags) =
        IF its = {} THEN <<>>
        ELSE IF Surplus(i.args[Max(its)]) THEN SubSeq(i.args[Max(its)].words, 1, 1)
        ELSE i.args[Max(its)].words
  BY <1>1, Zenon DEF WordsOf
<1>3. its # {} => Max(its) \in DOMAIN i.args
  <2>1. Len(i.args) \in Nat /\ its \subseteq 0..Len(i.args) /\ its \subseteq DOMAIN i.args
    BY <1>1
  <2> HIDE DEF its
  <2> QED BY <2>1, MaxIn
<1> HIDE DEF its
<1>4. WordsOf(i.args, flags) = IF its = {} THEN <<>> ELSE i.args[Max(its)].words
  BY <1>1, <1>2, <1>3
<1> QED BY <1>4 DEF its

\* The greatest number of a set is that of a smaller one it is in.
LEMMA MaxOfPart ==
  ASSUME NEW n \in Nat, NEW T, T \subseteq 0..n, NEW U \in SUBSET T, Max(T) \in U
  PROVE  Max(U) = Max(T)
<1>1. T # {} /\ U # {} /\ U \subseteq 0..n
  OBVIOUS
<1>2. Max(T) \in T /\ \A k \in T : k <= Max(T)
  BY <1>1, GreatestNumber DEF Max
<1>3. Max(U) \in U /\ \A k \in U : k <= Max(U)
  BY <1>1, GreatestNumber DEF Max
<1>4. Max(U) <= Max(T) /\ Max(T) <= Max(U)
  BY <1>2, <1>3
<1>5. Max(U) \in Nat /\ Max(T) \in Nat
  <2>1. \A k \in 0..n : k \in Nat
    OBVIOUS
  <2> QED BY <1>1, <1>2, <1>3, <2>1, Zenon
<1>6. \A a, b \in Nat : a <= b /\ b <= a => a = b
  OBVIOUS
<1> QED BY <1>4, <1>5, <1>6, Zenon

\* The package is the one that was given.
LEMMA PackageRead ==
  ASSUME NEW i \in Invocations, inv = i, WordsFit
  PROVE  Text(i.args, "package") = GivenPackage
<1> DEFINE its == {k \in DOMAIN i.args : i.args[k].flag \in {"package"}}
<1>1. WordsOf(i.args, {"package"}) = IF its = {} THEN <<>> ELSE i.args[Max(its)].words
  BY WordsAre
<1>2. its = {k \in DOMAIN inv.args : inv.args[k].flag = "package"}
  OBVIOUS
<1>3. Given("package") = WordsOf(i.args, {"package"})
  BY <1>1, <1>2, Zenon DEF Given
<1> QED BY <1>3 DEF Text, GivenPackage

\* So are the patterns, if the short form gives none.
LEMMA PatternsRead ==
  ASSUME NEW i \in Invocations, inv = i, WordsFit, Given("m") = <<>>
  PROVE  /\ WordsOf(i.args, {"must-gather"}) = Given("must-gather")
         /\ WordsOf(i.args, {"must-gather", "m"}) \in {<<>>, Given("must-gather")}
<1> DEFINE G == {k \in DOMAIN i.args : i.args[k].flag \in {"must-gather"}}
           M == {k \in DOMAIN i.args : i.args[k].flag \in {"m"}}
           B == {k \in DOMAIN i.args : i.args[k].flag \in {"must-gather", "m"}}
<1>1. /\ G = {k \in DOMAIN inv.args : inv.args[k].flag = "must-gather"}
      /\ M = {k \in DOMAIN inv.args : inv.args[k].flag = "m"}
      /\ B = G \cup M
  OBVIOUS
<1>2. Given("must-gather") = IF G = {} THEN <<>> ELSE i.args[Max(G)].words
  BY <1>1, Zenon DEF Given
<1>3. Given("m") = IF M = {} THEN <<>> ELSE i.args[Max(M)].words
  BY <1>1, Zenon DEF Given
<1>4. WordsOf(i.args, {"must-gather"}) = IF G = {} THEN <<>> ELSE i.args[Max(G)].words
  BY WordsAre
<1>5. WordsOf(i.args, {"must-gather", "m"}) = IF B = {} THEN <<>> ELSE i.args[Max(B)].words
  BY WordsAre
<1>6. Len(i.args) \in Nat /\ B \subseteq 0..Len(i.args)
  BY AllIsRead
<1>7. G \in SUBSET B /\ M \in SUBSET B
  BY <1>1
<1> HIDE DEF G, M, B
<1>8. B # {} => Max(B) \in G \/ Max(B) \in M
  BY <1>1, <1>6, MaxIn
<1>9. CASE B = {}
  BY <1>2, <1>4, <1>5, <1>9
<1>10. CASE B # {} /\ Max(B) \in G
  <2>1. Max(G) = Max(B)
    BY <1>6, <1>7, <1>10, MaxOfPart
  <2> QED BY <1>2, <1>4, <1>5, <1>10, <2>1
<1>11. CASE B # {} /\ Max(B) \in M
  <2>1. Max(M) = Max(B)
    BY <1>6, <1>7, <1>11, MaxOfPart
  <2>2. WordsOf(i.args, {"must-gather", "m"}) = <<>>
    BY <1>3, <1>5, <1>11, <2>1
  <2> QED BY <1>2, <1>4, <2>2
<1> QED BY <1>8, <1>9, <1>10, <1>11

\* What the configuration holds of the command line, whichever command it is.
LEMMA CommandLineRead ==
  ASSUME inv \in Invocations, WordsFit, Given("m") = <<>>, config.patterns # <<>>,
         config \in Configuration(inv.command, inv.args, inv.kubeconfig)
  PROVE  /\ config.patterns = Given("must-gather")
         /\ config.package = GivenPackage
         /\ config.suite <=> \/ On(inv.args, "telco-suite")
                             \/ inv.command = "telco" /\ GivenPackage = NoText
<1>1. inv.command \in {"inspect", "telco", "opm"}
  BY CommandLineAssumption DEF KnownFlags
<1>2. \/ inv.command = "inspect" /\ config \in ParseArgs(inv.args)
      \/ inv.command = "telco" /\ config \in ParseTelcoArgs(inv.args)
      \/ inv.command = "opm" /\ config \in ParseDiagnoseArgs(inv.args, inv.kubeconfig)
  BY <1>1 DEF Configuration
<1>3. /\ {"patterns", "package", "suite"} \subseteq DOMAIN Common(inv.args)
      /\ Common(inv.args).package = Text(inv.args, "package")
  BY DEF Common
<1>4. Text(inv.args, "package") = GivenPackage
  BY PackageRead
<1>5. /\ WordsOf(inv.args, {"must-gather"}) = Given("must-gather")
      /\ WordsOf(inv.args, {"must-gather", "m"}) \in {<<>>, Given("must-gather")}
  BY PatternsRead
<1>6. CASE inv.command = "inspect" /\ config \in ParseArgs(inv.args)
  <2>1. /\ config.patterns = WordsOf(inv.args, {"must-gather"})
        /\ config.package = Common(inv.args).package
        /\ config.suite = On(inv.args, "telco-suite")
    BY <1>3, <1>6 DEF ParseArgs
  <2> QED BY <1>3, <1>4, <1>5, <1>6, <2>1
<1>7. CASE inv.command = "opm" /\ config \in ParseDiagnoseArgs(inv.args, inv.kubeconfig)
  <2>1. /\ config.patterns = WordsOf(inv.args, {"must-gather", "m"})
        /\ config.package = Common(inv.args).package
        /\ config.suite = On(inv.args, "telco-suite")
    BY <1>3, <1>7 DEF ParseDiagnoseArgs
  <2> QED BY <1>3, <1>4, <1>5, <1>7, <2>1
<1>8. CASE inv.command = "telco" /\ config \in ParseTelcoArgs(inv.args)
  <2>1. /\ config.patterns = WordsOf(inv.args, {"must-gather", "m"})
        /\ config.package = Common(inv.args).package
        /\ config.suite = (Text(inv.args, "package") = NoText)
    BY <1>3, <1>8 DEF ParseTelcoArgs
  <2>2. ~On(inv.args, "telco-suite")
    <3>1. KnownFlags["telco"] = Shared \cup {"m", "no-rca", "no-health-check"}
      BY DEF KnownFlags
    <3>2. "telco-suite" \notin KnownFlags["telco"]
      BY <3>1 DEF Shared
    <3>3. ~\E k \in DOMAIN Read(inv.args) : Read(inv.args)[k].flag \notin KnownFlags[inv.command]
      BY Zenon DEF Configuration
    <3> QED BY <1>8, <3>2, <3>3 DEF On
  <2> QED BY <1>3, <1>4, <1>5, <1>8, <2>1, <2>2
<1> QED BY <1>2, <1>6, <1>7, <1>8

\* A faulty operator that was asked for is a target.
LEMMA FaultyIsTarget ==
  ASSUME NEW d \in DOMAIN Dumps, NEW operators \in ParseMustGather(Dumps[d]),
         NEW op \in ToSet(operators), op.faulty, AskedFor(op, operators),
         config.package = GivenPackage,
         config.suite <=> \/ On(inv.args, "telco-suite")
                          \/ inv.command = "telco" /\ GivenPackage = NoText
  PROVE  op \in ToSet(selectTargets(operators, config))
<1>1. operators \in Seq(ToSet(operators))
  BY OperatorsOfDump
<1>2. CASE config.suite
  <2>1. /\ op.package \in ToSet(Registry)
        /\ \A o \in ToSet(operators) : o.package = op.package => o = op
    BY <1>2 DEF AskedFor
  <2>2. selectTargets(operators, config) = selectTelcoSuite(operators)
    BY <1>2 DEF selectTargets
  <2> QED BY <1>1, <2>1, <2>2, SuiteIs
<1>3. CASE ~config.suite
  <2>1. config.package \in {NoText, op.package}
    BY <1>3 DEF AskedFor
  <2> QED BY <1>1, <1>3, <2>1, TargetsAre
<1> QED BY <1>2, <1>3

\* The reports of the results are those that are printed.
LEMMA ReportsHold ==
  ASSUME IInv, OutcomeInv, NEW i \in DOMAIN results, NEW r \in ToSet(results[i].reports)
  PROVE  r \in ToSet(Reports)
<1> DEFINE ss == [j \in DOMAIN results |-> results[j].reports]
           S  == UNION {ToSet(results[j].reports) : j \in DOMAIN results}
<1>1. \A j \in DOMAIN results : ss[j] \in Seq(S)
  <2> SUFFICES ASSUME NEW j \in DOMAIN results PROVE results[j].reports \in Seq(S)
    OBVIOUS
  <2>1. results[j].reports \in Seq(ToSet(results[j].reports)) /\ ToSet(results[j].reports) \subseteq S
    BY DEF OutcomeInv, AllDocumented
  <2> HIDE DEF S
  <2> QED BY <2>1
<1>2. DOMAIN results = 1..Len(results) /\ Len(results) \in Nat
  BY DEF IInv, SequencesTyped
<1>3. ss \in Seq(Seq(S)) /\ DOMAIN ss = DOMAIN results /\ ss[i] = results[i].reports
  <2> HIDE DEF S
  <2> QED BY <1>1, <1>2
<1>4. Reports = FlattenSeq(ss)
  BY DEF Reports
<1> HIDE DEF ss, S
<1> QED BY <1>3, <1>4, FlattenHolds

\* A run that succeeds has printed the report of every target.
LEMMA CoveredIsShown ==
  ASSUME IInv, OutcomeInv, CoverInv PROVE NoFaultIsSkipped
<1> SUFFICES ASSUME exit = 0, ~config.live, config.patterns # <<>>, Given("m") = <<>>, WordsFit,
                    NEW p \in ToSet(Given("must-gather")), NEW found \in Glob[p],
                    NEW d \in ToSet(found),
                    NEW operators \in ParseMustGather(Dumps[d]), NEW op \in ToSet(operators),
                    op.faulty, AskedFor(op, operators)
             PROVE  \E i \in DOMAIN shown : shown[i].dir = d /\ shown[i].op = op
  BY DEF NoFaultIsSkipped
<1>1. at = "end" /\ inv \in Invocations
  BY DEF IInv, TypeOK
<1>2. ~AsksForHelp /\ config \in Configuration(inv.command, inv.args, inv.kubeconfig)
  BY DEF CoverInv, ConfigRead
<1>3. /\ config.patterns = Given("must-gather") /\ config.package = GivenPackage
      /\ config.suite <=> \/ On(inv.args, "telco-suite")
                          \/ inv.command = "telco" /\ GivenPackage = NoText
  BY <1>1, <1>2, CommandLineRead
<1>4. Covered(d)
  <2>1. dirs = <<>> /\ (d \in ToSet(dirs) \/ Covered(d))
    BY <1>1, <1>3 DEF CoverInv, DirectoriesCovered
  <2> QED BY <2>1 DEF ToSet
<1>5. d \in DOMAIN Dumps
  <2>1. config.patterns \in Seq(DOMAIN Glob)
    BY DEF IInv, SequencesTyped
  <2>2. p \in DOMAIN Glob
    <3> DEFINE s == config.patterns
    <3>1. s \in Seq(DOMAIN Glob) /\ p \in ToSet(s)
      BY <1>3, <2>1
    <3> HIDE DEF s
    <3> QED BY <3>1 DEF ToSet
  <2>3. found \in Seq(DOMAIN Dumps)
    BY <2>2, GlobAssumption
  <2> QED BY <2>3 DEF ToSet
<1>6. op \in ToSet(selectTargets(operators, config))
  BY <1>3, <1>5, FaultyIsTarget
<1>7. PICK i \in DOMAIN results : \E r \in ToSet(results[i].reports) : r.dir = d /\ r.op = op
  BY <1>4, <1>6 DEF Covered
<1>8. PICK r \in ToSet(results[i].reports) : r.dir = d /\ r.op = op
  BY <1>7
<1>9. r \in ToSet(Reports)
  BY <1>8, ReportsHold
<1>10. shown = Reports
  BY <1>2 DEF OutcomeInv, OutcomeIsRight
<1> QED BY <1>8, <1>9, <1>10 DEF ToSet

-----------------------------------------------------------------------------
(* The theorems.                                                           *)

\* The invariant holds throughout a run of a command, over whatever dumps,
\* catalog and command lines there are.
THEOREM Invariant == Spec => []IInv
<1>1. Init => IInv
  BY InitInv
<1>2. IInv /\ [Next]_vars => IInv'
  <2> SUFFICES ASSUME IInv, [Next]_vars PROVE IInv'
    OBVIOUS
  <2>1. CASE AnalyzeSingleOperator
    BY <2>1, CheckHealthInv, InspectInstalledInv, InspectTargetInv, CalculateDeltaInv,
       AnalyzeCodeInv, AskClaudeInv, TroubleshootInv, DivergeInv, CorrelateRepoInv,
       FindSimilarInv, DocumentInv
       DEF AnalyzeSingleOperator
  <2>2. CASE EndOperator \/ WriteResults
    BY <2>2, EndOperatorInv, WriteResultsInv
  <2>3. CASE Expire \/ Parse \/ Inspect \/ Expand \/ SkipDump \/ ParseDump \/ OpenServices
    BY <2>3, ExpireInv, ParseInv, InspectInv, ExpandInv, SkipDumpInv, ParseDumpInv,
       OpenServicesInv
  <2>4. CASE Connect \/ RunInfraChecks \/ WriteLive
    BY <2>4, ConnectInv, RunInfraChecksInv, WriteLiveInv
  <2>5. CASE Done \/ UNCHANGED vars
    BY <2>5, UnchangedInv DEF Done
  <2> QED BY <2>1, <2>2, <2>3, <2>4, <2>5 DEF Next
<1> QED BY <1>1, <1>2, PTL DEF Spec

\* Types hold, no step both delivers and fails, no analysis counts more
\* operators than it reports, and a run has an exit code exactly when it has
\* ended (AnalyzeMustGather in analyze.go, Run in cli.go).
THEOREM TypeCorrect == Spec => []TypeOK
<1>1. IInv => TypeOK
  BY DEF IInv
<1> QED BY <1>1, Invariant, PTL

\* When the report of an operator is complete, everything the flags ask for of
\* it is in it or an error says why not, whichever services could be opened,
\* whichever steps failed and whenever the timeout passed (analyzeSingleOperator
\* in analyze.go).
THEOREM NothingMissing == Spec => []MissingIsAccounted
<1>1. IInv => MissingIsAccounted
  <2> SUFFICES ASSUME IInv, at = "reported", NEW s \in Asked PROVE Accounted(s)
    BY DEF MissingIsAccounted, Ready
  <2>1. at \in Steps /\ ~config.live
    BY StepsAre, LiveStepsAre DEF IInv, OnItsWay
  <2>2. Place[s] < Place[at]
    BY DEF Asked, Place
  <2> QED BY <2>1, <2>2 DEF IInv, AccountedSoFar
<1> QED BY <1>1, Invariant, PTL

\* With it holds what a run has printed and written so far and what its results hold.
THEOREM Outcome == Spec => []OutcomeInv
<1>1. Init => OutcomeInv
  BY InitOutcome
<1>2. IInv /\ OutcomeInv /\ [Next]_vars => OutcomeInv'
  <2> SUFFICES ASSUME IInv, OutcomeInv, [Next]_vars PROVE OutcomeInv'
    OBVIOUS
  <2>1. CASE AnalyzeSingleOperator \/ RunInfraChecks
    BY <2>1, StepsOutcome
  <2>2. CASE EndOperator \/ WriteResults \/ Connect \/ WriteLive
    BY <2>2, EndOperatorOutcome, WriteResultsOutcome, ConnectOutcome, WriteLiveOutcome
  <2>3. CASE Expire \/ Parse \/ Inspect \/ Expand \/ SkipDump \/ ParseDump \/ OpenServices
    BY <2>3, ExpireOutcome, ParseOutcome, InspectOutcome, ExpandOutcome, SkipDumpOutcome,
       ParseDumpOutcome, OpenServicesOutcome
  <2>4. CASE Done \/ UNCHANGED vars
    BY <2>4, UnchangedOutcome DEF Done
  <2> QED BY <2>1, <2>2, <2>3, <2>4 DEF Next
<1> QED BY <1>1, <1>2, Invariant, PTL DEF Spec

\* The exit code tells what there is, whichever way the run took: success means the
\* reports of all directories that could be parsed and, with --rca-file, all their
\* documents in the same order, or a bundle that fits; after any other code nothing is
\* printed, and a version is refused as a usage error only where no bundle has it
\* (Run in cli.go, RunTelcoDiagnose in telco.go, RunDiagnose in diagnose.go).
THEOREM OutcomeTold == Spec => []OutcomeIsRight
<1>1. OutcomeInv => OutcomeIsRight
  BY DEF OutcomeInv
<1> QED BY <1>1, Outcome, PTL

\* A run that succeeds has the report of every faulty operator that was asked for, of
\* every directory named that can be parsed, whatever the command line, however the
\* shell split it after --must-gather, and whatever failed or timed out on the way
\* (preprocessMustGatherArgs and ExpandMustGatherPaths in src/internal/cli,
\* AnalyzeMustGather and selectTargets in analyze.go).
THEOREM NoFaultMissed == Spec => []NoFaultIsSkipped
<1>1. Init => CoverInv
  BY InitCover
<1>2. IInv /\ OutcomeInv /\ CoverInv /\ [Next]_vars => CoverInv'
  <2> SUFFICES ASSUME IInv, OutcomeInv, CoverInv, [Next]_vars PROVE CoverInv'
    OBVIOUS
  <2>1. CASE AnalyzeSingleOperator \/ RunInfraChecks
    BY <2>1, StepsCover
  <2>2. CASE EndOperator \/ WriteResults \/ Connect \/ WriteLive
    BY <2>2, EndOperatorCover, WriteResultsCover, LiveStepsCover
  <2>3. CASE Parse \/ Inspect \/ Expand \/ SkipDump \/ ParseDump \/ OpenServices
    BY <2>3, ParseCover, InspectCover, ExpandCover, SkipDumpCover, ParseDumpCover,
       OpenServicesCover
  <2>4. CASE Expire \/ Done \/ UNCHANGED vars
    BY <2>4, ExpireCover DEF Done
  <2> QED BY <2>1, <2>2, <2>3, <2>4 DEF Next
<1>3. IInv /\ OutcomeInv /\ CoverInv => NoFaultIsSkipped
  BY CoveredIsShown
<1> QED BY <1>1, <1>2, <1>3, Invariant, Outcome, PTL DEF Spec
=============================================================================
