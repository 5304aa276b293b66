------------------------ MODULE LearningLoop_proofs ------------------------
(***************************************************************************)
(* Proofs about the learning loop of LearningLoop, for every number of     *)
(* processes, targets and analyses, and every pattern of failures and      *)
(* kills.                                                                  *)
(***************************************************************************)
EXTENDS LearningLoop, SequenceTheorems, FiniteSetTheorems, WellFoundedInduction, TLAPS

-----------------------------------------------------------------------------
(* Sums over the rows of the table of fingerprints.                        *)

\* A set of numbers that is not empty has a least one.
LEMMA LeastNumber ==
  ASSUME NEW T, T \subseteq Nat, T # {}
  PROVE  \E n \in T : \A m \in T : n <= m
<1> DEFINE R == {ss \in Nat \X Nat : ss[1] < ss[2]}
<1>1. OpToRel(<, Nat) = R
  BY DEF OpToRel
<1>2. IsWellFoundedOn(R, Nat)
  BY <1>1, NatLessThanWellFounded
<1>3. \E n \in T : \A m \in T : ~(<<m, n>> \in R)
  <2> HIDE DEF R
  <2> QED BY <1>2, WFMin
<1>4. PICK n \in T : \A m \in T : ~(<<m, n>> \in R)
  BY <1>3
<1>5. \A m \in T : ~(m < n)
  <2> SUFFICES ASSUME NEW m \in T, m < n PROVE FALSE
    OBVIOUS
  <2>1. <<m, n>> \in Nat \X Nat
    OBVIOUS
  <2>2. <<m, n>> \in R
    BY <2>1
  <2> QED BY <2>2, <1>4
<1> QED BY <1>5

\* Among subsets of a finite set there is one that is in the collection while
\* none of those with one element less is.
LEMMA SmallestSubset ==
  ASSUME NEW S, IsFiniteSet(S), NEW Bad, Bad \subseteq SUBSET S, Bad # {}
  PROVE  \E s \in Bad : \A x \in s : s \ {x} \notin Bad
<1> DEFINE Sizes == {Cardinality(s) : s \in Bad}
<1>1. \A s \in Bad : IsFiniteSet(s) /\ Cardinality(s) \in Nat
  BY FS_Subset, FS_CardinalityType
<1>2. \E n \in Sizes : \A m \in Sizes : n <= m
  <2>1. Sizes \subseteq Nat /\ Sizes # {}
    BY <1>1
  <2> HIDE DEF Sizes
  <2> QED BY <2>1, LeastNumber
<1>3. PICK s \in Bad : \A t \in Bad : Cardinality(s) <= Cardinality(t)
  BY <1>2
<1>4. ASSUME NEW x \in s, s \ {x} \in Bad PROVE FALSE
  <2>1. Cardinality(s \ {x}) = Cardinality(s) - 1 /\ Cardinality(s) \in Nat
    BY <1>1, FS_RemoveElement
  <2> QED BY <1>3, <1>4, <2>1
<1> QED BY <1>3, <1>4

\* The element a sum takes next, and the hits of a row.
Chosen(s) == CHOOSE x \in s : TRUE

\* it holds the sums of the hits of the rows in the sets D of the table T.
Sums(it, T, D) ==
  it = [s \in D |-> IF s = {} THEN 0 ELSE T[Chosen(s)].hits + it[s \ {Chosen(s)}]]

LEMMA SumsOne ==
  ASSUME NEW it, NEW T, NEW D, Sums(it, T, D), NEW s \in D
  PROVE  it[s] = IF s = {} THEN 0 ELSE T[Chosen(s)].hits + it[s \ {Chosen(s)}]
BY DEF Sums

LEMMA ChosenIn ==
  ASSUME NEW s, s # {}
  PROVE  Chosen(s) \in s
BY DEF Chosen

\* The subsets of at most n elements.
UpTo(S, n) == {s \in SUBSET S : Cardinality(s) <= n}

LEMMA SumsMore ==
  ASSUME NEW T, NEW S, IsFiniteSet(S), NEW n \in Nat, \E it : Sums(it, T, UpTo(S, n))
  PROVE  \E it : Sums(it, T, UpTo(S, n + 1))
<1> PICK f : Sums(f, T, UpTo(S, n))
  OBVIOUS
<1> DEFINE D == UpTo(S, n + 1)
           g == [s \in D |-> IF s = {} THEN 0 ELSE T[Chosen(s)].hits + f[s \ {Chosen(s)}]]
<1>1. \A s \in SUBSET S : IsFiniteSet(s) /\ Cardinality(s) \in Nat
  BY FS_Subset, FS_CardinalityType
<1>2. \A s \in D : s # {} => s \ {Chosen(s)} \in UpTo(S, n) /\ s \ {Chosen(s)} \in D
  <2> SUFFICES ASSUME NEW s \in D, s # {}
               PROVE  s \ {Chosen(s)} \in UpTo(S, n) /\ s \ {Chosen(s)} \in D
    OBVIOUS
  <2>1. s \in SUBSET S /\ Cardinality(s) <= n + 1 /\ Chosen(s) \in s
    BY ChosenIn DEF UpTo
  <2>2. Cardinality(s \ {Chosen(s)}) = Cardinality(s) - 1 /\ Cardinality(s) \in Nat
    BY <1>1, <2>1, FS_RemoveElement
  <2> QED BY <2>1, <2>2 DEF UpTo
<1>3. \A s \in UpTo(S, n) : s \in D /\ g[s] = f[s]
  <2> SUFFICES ASSUME NEW s \in UpTo(S, n) PROVE s \in D /\ g[s] = f[s]
    OBVIOUS
  <2>1. s \in D
    BY <1>1 DEF UpTo
  <2> HIDE DEF D
  <2> QED BY <2>1, SumsOne
<1>4. \A s \in D : g[s] = IF s = {} THEN 0 ELSE T[Chosen(s)].hits + g[s \ {Chosen(s)}]
  <2> SUFFICES ASSUME NEW s \in D
               PROVE  g[s] = IF s = {} THEN 0 ELSE T[Chosen(s)].hits + g[s \ {Chosen(s)}]
    OBVIOUS
  <2>1. g[s] = IF s = {} THEN 0 ELSE T[Chosen(s)].hits + f[s \ {Chosen(s)}]
    <3> HIDE DEF D
    <3> QED OBVIOUS
  <2> HIDE DEF g, D
  <2> QED BY <1>2, <1>3, <2>1
<1>5. g = [s \in D |-> g[s]]
  <2> HIDE DEF D
  <2> QED OBVIOUS
<1>6. Sums(g, T, D)
  <2> HIDE DEF g, D
  <2> QED BY <1>4, <1>5 DEF Sums
<1> QED BY <1>6

LEMMA SumsExist ==
  ASSUME NEW T, NEW S, IsFiniteSet(S)
  PROVE  \E it : Sums(it, T, SUBSET S)
<1> DEFINE Bad == {n \in Nat : ~\E it : Sums(it, T, UpTo(S, n))}
<1>1. \A s \in SUBSET S : IsFiniteSet(s) /\ Cardinality(s) \in Nat
  BY FS_Subset, FS_CardinalityType
<1>2. Bad = {}
  <2> SUFFICES ASSUME Bad # {} PROVE FALSE
    OBVIOUS
  <2>1. PICK m \in Bad : \A k \in Bad : m <= k
    <3>1. Bad \subseteq Nat
      OBVIOUS
    <3> HIDE DEF Bad
    <3> QED BY <3>1, LeastNumber
  <2>2. m # 0
    <3>1. UpTo(S, 0) = {{}}
      <4>1. {} \in UpTo(S, 0)
        BY FS_EmptySet DEF UpTo
      <4>2. \A s \in UpTo(S, 0) : s = {}
        BY <1>1, FS_EmptySet DEF UpTo
      <4> QED BY <4>1, <4>2
    <3>2. Sums([s \in {{}} |-> 0], T, {{}})
      BY DEF Sums
    <3> QED BY <3>1, <3>2
  <2>3. m \in Nat /\ m - 1 \in Nat /\ ~(m <= m - 1) /\ (m - 1) + 1 = m
    BY <2>2
  <2>4. m - 1 \notin Bad
    <3> HIDE DEF Bad
    <3> QED BY <2>1, <2>3
  <2>5. \E it : Sums(it, T, UpTo(S, m - 1))
    BY <2>3, <2>4
  <2>6. \E it : Sums(it, T, UpTo(S, (m - 1) + 1))
    BY <2>3, <2>5, SumsMore
  <2> QED BY <2>3, <2>6
<1>3. Cardinality(S) \in Nat /\ UpTo(S, Cardinality(S)) = SUBSET S
  BY FS_Subset, FS_CardinalityType DEF UpTo
<1>4. \E it : Sums(it, T, UpTo(S, Cardinality(S)))
  BY <1>2, <1>3
<1> QED BY <1>3, <1>4

\* Two tables give the rows of a set the same hits.
SameHits(T, U, S) == \A x \in S : T[x].hits = U[x].hits

\* They then give it the same sum.
LEMMA SumsAgree ==
  ASSUME NEW T1, NEW S1, NEW f1, NEW T2, NEW S2, NEW f2, NEW S,
         Sums(f1, T1, SUBSET S1), Sums(f2, T2, SUBSET S2),
         IsFiniteSet(S), S \in SUBSET S1, S \in SUBSET S2, SameHits(T1, T2, S)
  PROVE  f1[S] = f2[S]
<1> DEFINE Bad == {s \in SUBSET S : f1[s] # f2[s]}
<1> SUFFICES ASSUME Bad # {} PROVE FALSE
  OBVIOUS
<1>1. PICK s \in Bad : \A x \in s : s \ {x} \notin Bad
  <2>1. Bad \subseteq SUBSET S
    OBVIOUS
  <2> HIDE DEF Bad
  <2> QED BY <2>1, SmallestSubset
<1>2. /\ f1[s] = IF s = {} THEN 0 ELSE T1[Chosen(s)].hits + f1[s \ {Chosen(s)}]
      /\ f2[s] = IF s = {} THEN 0 ELSE T2[Chosen(s)].hits + f2[s \ {Chosen(s)}]
      /\ s \in SUBSET S
  <2>1. s \in SUBSET S /\ s \in SUBSET S1 /\ s \in SUBSET S2
    OBVIOUS
  <2>2. f1[s] = IF s = {} THEN 0 ELSE T1[Chosen(s)].hits + f1[s \ {Chosen(s)}]
    BY <2>1 DEF Sums
  <2>3. f2[s] = IF s = {} THEN 0 ELSE T2[Chosen(s)].hits + f2[s \ {Chosen(s)}]
    BY <2>1 DEF Sums
  <2> HIDE DEF Bad
  <2> QED BY <2>1, <2>2, <2>3, Zenon
<1>3. s # {}
  BY <1>2
<1>4. Chosen(s) \in s /\ Chosen(s) \in S
  BY <1>2, <1>3, ChosenIn
<1>5. f1[s \ {Chosen(s)}] = f2[s \ {Chosen(s)}]
  BY <1>1, <1>2, <1>4
<1>6. f1[s] = f2[s]
  BY <1>2, <1>3, <1>4, <1>5 DEF SameHits
<1> QED BY <1>6

HitsTyped(T, S) == \A x \in S : T[x].hits \in Nat

LEMMA SumsNat ==
  ASSUME NEW T, NEW S, IsFiniteSet(S), NEW f, Sums(f, T, SUBSET S),
         HitsTyped(T, S)
  PROVE  \A s \in SUBSET S : f[s] \in Nat
<1> DEFINE Bad == {s \in SUBSET S : f[s] \notin Nat}
<1> SUFFICES ASSUME Bad # {} PROVE FALSE
  OBVIOUS
<1>1. PICK s \in Bad : \A x \in s : s \ {x} \notin Bad
  <2>1. Bad \subseteq SUBSET S
    OBVIOUS
  <2> HIDE DEF Bad
  <2> QED BY <2>1, SmallestSubset
<1>2. /\ s \in SUBSET S
      /\ f[s] = IF s = {} THEN 0 ELSE T[Chosen(s)].hits + f[s \ {Chosen(s)}]
  BY SumsOne, ZenonT(30)
<1>3. s # {}
  BY <1>2
<1>4. Chosen(s) \in s /\ Chosen(s) \in S
  BY <1>2, <1>3, ChosenIn
<1>5. f[s \ {Chosen(s)}] \in Nat
  BY <1>1, <1>2, <1>4
<1>6. f[s] \in Nat
  BY <1>2, <1>3, <1>4, <1>5 DEF HitsTyped
<1> QED BY <1>6

\* Any row may be taken from a sum first.
LEMMA SumsTake ==
  ASSUME NEW T, NEW S, IsFiniteSet(S), NEW f, Sums(f, T, SUBSET S),
         HitsTyped(T, S)
  PROVE  \A s \in SUBSET S : \A x \in s : f[s] = T[x].hits + f[s \ {x}]
<1> DEFINE Bad == {s \in SUBSET S : ~\A x \in s : f[s] = T[x].hits + f[s \ {x}]}
<1> SUFFICES ASSUME Bad # {} PROVE FALSE
  OBVIOUS
<1>1. PICK s \in Bad : \A x \in s : s \ {x} \notin Bad
  <2>1. Bad \subseteq SUBSET S
    OBVIOUS
  <2> HIDE DEF Bad
  <2> QED BY <2>1, SmallestSubset
<1>2. s \in SUBSET S
  OBVIOUS
<1>3. PICK x \in s : f[s] # T[x].hits + f[s \ {x}]
  OBVIOUS
<1> DEFINE c == Chosen(s)
<1>4. c \in s /\ f[s] = T[c].hits + f[s \ {c}]
  <2>1. f[s] = IF s = {} THEN 0 ELSE T[Chosen(s)].hits + f[s \ {Chosen(s)}]
    BY <1>2, SumsOne
  <2>2. s # {}
    BY <1>3
  <2> QED BY <2>1, <2>2, ChosenIn
<1>5. c # x
  BY <1>3, <1>4
<1>6. s \ {c} \notin Bad /\ s \ {x} \notin Bad
  <2> HIDE DEF Bad
  <2> QED BY <1>1, <1>4
<1>7. f[s \ {c}] = T[x].hits + f[(s \ {c}) \ {x}]
  BY <1>2, <1>5, <1>6
<1>8. f[s \ {x}] = T[c].hits + f[(s \ {x}) \ {c}]
  BY <1>2, <1>4, <1>5, <1>6
<1>9. (s \ {c}) \ {x} = (s \ {x}) \ {c}
  OBVIOUS
<1>10. T[x].hits \in Nat /\ T[c].hits \in Nat /\ f[(s \ {x}) \ {c}] \in Nat
  BY <1>2, <1>4, SumsNat DEF HitsTyped
<1> QED
  <2> DEFINE hx == T[x].hits
             hc == T[c].hits
             r  == f[(s \ {x}) \ {c}]
  <2>1. hx \in Nat /\ hc \in Nat /\ r \in Nat
    BY <1>10
  <2>2. f[s] = hc + (hx + r) /\ f[s \ {x}] = hc + r
    BY <1>4, <1>7, <1>8, <1>9, Zenon
  <2>3. f[s] # hx + f[s \ {x}]
    BY <1>3
  <2> HIDE DEF hx, hc, r, c, Bad
  <2> QED BY <2>1, <2>2, <2>3

\* The sum of the hits of the rows S of a table T.
SumOf(T, S) == (CHOOSE it : Sums(it, T, SUBSET S))[S]

LEMMA SumIs ==
  ASSUME NEW T, NEW S, IsFiniteSet(S)
  PROVE  \E f : Sums(f, T, SUBSET S) /\ SumOf(T, S) = f[S]
BY SumsExist DEF SumOf

\* Rows that keep their hits keep their sum.
LEMMA SumKept ==
  ASSUME NEW T, NEW U, NEW S, IsFiniteSet(S), \A x \in S : T[x].hits = U[x].hits
  PROVE  SumOf(T, S) = SumOf(U, S)
<1>1. PICK f : Sums(f, T, SUBSET S) /\ SumOf(T, S) = f[S]
  BY SumIs
<1>2. PICK g : Sums(g, U, SUBSET S) /\ SumOf(U, S) = g[S]
  BY SumIs
<1>3. f[S] = g[S]
  <2>1. S \in SUBSET S /\ SameHits(T, U, S)
    BY DEF SameHits
  <2>2. Sums(f, T, SUBSET S) /\ Sums(g, U, SUBSET S)
    BY <1>1, <1>2
  <2>3. IsFiniteSet(S)
    OBVIOUS
  <2> QED BY <2>1, <2>2, <2>3, SumsAgree, SMT
<1> QED BY <1>1, <1>2, <1>3

\* One more hit in a row of the set is one more in the sum.
LEMMA SumOneMore ==
  ASSUME NEW T, NEW U, NEW S, IsFiniteSet(S), NEW y \in S,
         HitsTyped(T, S),
         \A x \in S \ {y} : U[x].hits = T[x].hits, U[y].hits = T[y].hits + 1
  PROVE  SumOf(U, S) = SumOf(T, S) + 1
<1>1. PICK f : Sums(f, T, SUBSET S) /\ SumOf(T, S) = f[S]
  BY SumIs
<1>2. PICK g : Sums(g, U, SUBSET S) /\ SumOf(U, S) = g[S]
  BY SumIs
<1>3. HitsTyped(U, S) /\ T[y].hits \in Nat
  BY DEF HitsTyped
<1>4. S \in SUBSET S /\ S \ {y} \in SUBSET S /\ IsFiniteSet(S \ {y})
  BY FS_Subset
<1>5. f[S] = T[y].hits + f[S \ {y}]
  BY <1>1, <1>4, SumsTake
<1>6. g[S] = U[y].hits + g[S \ {y}]
  BY <1>2, <1>3, <1>4, SumsTake
<1>7. f[S \ {y}] = g[S \ {y}]
  <2>1. SameHits(T, U, S \ {y})
    BY DEF SameHits
  <2> QED BY <2>1, <1>1, <1>2, <1>4, SumsAgree, SMT
<1>8. f[S \ {y}] \in Nat
  BY <1>1, <1>4, SumsNat
<1> QED BY <1>1, <1>2, <1>3, <1>5, <1>6, <1>7, <1>8

\* A new row of one hit is one more in the sum.
LEMMA SumOneRow ==
  ASSUME NEW T, NEW U, NEW S, IsFiniteSet(S), NEW y, y \notin S,
         NEW R, \A x : x \in R <=> x \in S \/ x = y,
         \A x \in S : T[x].hits \in Nat /\ U[x].hits = T[x].hits, U[y].hits = 1
  PROVE  SumOf(U, R) = SumOf(T, S) + 1
<1>1. IsFiniteSet(R) /\ R \in SUBSET R /\ S \in SUBSET R /\ S \in SUBSET S /\ y \in R
  <2>1. R = S \cup {y}
    OBVIOUS
  <2> QED BY <2>1, FS_AddElement
<1>8. R \ {y} = S
  OBVIOUS
<1>2. PICK f : Sums(f, T, SUBSET S) /\ SumOf(T, S) = f[S]
  BY SumIs
<1>3. PICK g : Sums(g, U, SUBSET R) /\ SumOf(U, R) = g[R]
  BY <1>1, SumIs
<1>4. HitsTyped(U, R) /\ HitsTyped(T, S) /\ SameHits(T, U, S)
  BY DEF HitsTyped, SameHits
<1>5. g[R] = U[y].hits + g[S]
  <2>1. \A x \in R : g[R] = U[x].hits + g[R \ {x}]
    <3> SUFFICES ASSUME NEW x \in R PROVE g[R] = U[x].hits + g[R \ {x}]
      OBVIOUS
    <3> QED BY <1>1, <1>3, <1>4, SumsTake
  <2> QED BY <1>8, <2>1
<1>6. f[S] = g[S]
  BY <1>1, <1>2, <1>3, <1>4, SumsAgree
<1>7. f[S] \in Nat
  BY <1>1, <1>2, <1>4, SumsNat
<1> QED BY <1>2, <1>3, <1>5, <1>6, <1>7

LEMMA SumEmpty ==
  ASSUME NEW T
  PROVE  SumOf(T, {}) = 0
<1>1. IsFiniteSet({})
  BY FS_EmptySet
<1>2. PICK f : Sums(f, T, SUBSET {}) /\ SumOf(T, {}) = f[{}]
  BY <1>1, SumIs
<1> QED BY <1>2, SumsOne

\* This is what MapThenSumSet computes.
LEMMA SumIsMapThenSum ==
  ASSUME NEW T, NEW S
  PROVE  MapThenSumSet(LAMBDA i : T[i].hits, S) = SumOf(T, S)
BY DEF MapThenSumSet, MapThenFoldSet, SumOf, Sums, Chosen

USE LoopAssumption, KeepAssumption

-----------------------------------------------------------------------------
(* The stores' operators.                                                  *)

\* Recording a run adds its row and loses none.
LEMMA BagAddDomain ==
  ASSUME NEW B, NEW x
  PROVE  DOMAIN (B (+) SetToBag({x})) = DOMAIN B \cup {x}
BY DEF (+), SetToBag

LEMMA RunsGrow ==
  ASSUME NEW s, NEW a, NEW n, RecordRun(s, a, n)
  PROVE  DOMAIN runs' = DOMAIN runs \cup {[session |-> s, analysis |-> a, num |-> n]}
BY BagAddDomain DEF RecordRun

LEMMA IdBounded ==
  ASSUME NEW a \in 0..MaxAnalyses, NEW i \in 1..a
  PROVE  i \in 1..MaxAnalyses
BY LoopAssumption

LEMMA CountedTyped ==
  ASSUME NEW f \in [Operators -> Nat], NEW o
  PROVE  [f EXCEPT ![o] = @ + 1] \in [Operators -> Nat]
<1>1. ASSUME NEW x \in Operators PROVE (IF x = o THEN f[o] + 1 ELSE f[x]) \in Nat
  <2>1. CASE x = o
    BY <2>1
  <2>2. CASE x # o
    BY <2>2
  <2> QED
    BY <2>1, <2>2
<1>2. [f EXCEPT ![o] = @ + 1] = [x \in Operators |-> IF x = o THEN f[o] + 1 ELSE f[x]]
  OBVIOUS
<1> QED
  BY <1>1, <1>2

\* A target is one of the operators.
LEMMA TargetIsOperator ==
  /\ Len(Targets) \in Nat \ {0}
  /\ \A j \in 1..Len(Targets) : Targets[j] \in Operators
<1>1. Len(Targets) \in Nat /\ DOMAIN Targets = 1..Len(Targets)
  BY LenProperties
<1>2. Len(Targets) # 0
  BY EmptySeq
<1> QED
  BY <1>1, <1>2, ElementOfSeq

\* What the history keeps of a longer one is the end of it, at most Keep entries long.
LEMMA RecentProperties ==
  ASSUME NEW S, NEW h \in Seq(S), Len(h) <= Keep + 1
  PROVE  /\ Recent(h) \in Seq(S)
         /\ Len(Recent(h)) = IF Len(h) > Keep THEN Keep ELSE Len(h)
         /\ \A i \in 1..Len(Recent(h)) :
              Recent(h)[i] = h[Len(h) - Len(Recent(h)) + i]
<1>1. Len(h) \in Nat
  BY LenProperties
<1>2. CASE Len(h) > Keep
  <2>1. Len(h) = Keep + 1 /\ Recent(h) = SubSeq(h, 2, Keep + 1)
    BY <1>1, <1>2 DEF Recent
  <2>2. /\ SubSeq(h, 2, Keep + 1) \in Seq(S)
        /\ Len(SubSeq(h, 2, Keep + 1)) = Keep
        /\ \A i \in 1..Keep : SubSeq(h, 2, Keep + 1)[i] = h[2 + i - 1]
    BY <2>1, SubSeqProperties
  <2> QED
    BY <1>2, <2>1, <2>2
<1>3. CASE ~(Len(h) > Keep)
  BY <1>1, <1>3 DEF Recent
<1> QED
  BY <1>2, <1>3

-----------------------------------------------------------------------------
(* Types.                                                                  *)

LEMMA RecordTyped ==
  ASSUME NEW r \in Records, NEW a \in 1..MaxAnalyses
  PROVE  WithRun(r, a) \in Records
<1> DEFINE e == [num |-> r.count + 1, of |-> a]
<1>1. r.count \in Nat /\ r.history \in Seq(Entries) /\ e \in Entries
  BY DEF Records, Entries
<1>2. Append(r.history, e) \in Seq(Entries)
  <2> HIDE DEF e
  <2> QED BY <1>1, AppendProperties
<1>3. Recent(Append(r.history, e)) \in Seq(Entries)
  <2> DEFINE h == Append(r.history, e)
  <2>1. Len(h) \in Nat
    BY <1>2, LenProperties
  <2> HIDE DEF h
  <2> QED
    BY <1>2, <2>1, SMTT(30) DEF Recent
<1> QED
  BY <1>1, <1>3 DEF WithRun, Records

LEMMA NewRecordTyped == NewRecord \in Records
BY EmptySeq DEF NewRecord, Records

LEMMA InitTyped == Init => TypeOK /\ ProcTyped
<1> SUFFICES ASSUME Init PROVE TypeOK /\ ProcTyped
  OBVIOUS
<1>1. Resting \in ProcStates /\ Resting.at = "idle"
  BY TargetIsOperator, EmptySeq DEF Resting, ProcStates, Places
<1>2. proc = [p \in Procs |-> Resting] /\ analyses = 0
  BY DEF Init
<1>3. ProcTyped
  BY <1>1, <1>2 DEF ProcTyped, Active, At, WithHash
<1>4. TypeOK
  BY <1>2, TargetIsOperator, EmptySeq
  DEF Init, SessionInit, MetadataInit, Resting, TypeOK, SessionTyped, Places
<1> QED
  BY <1>3, <1>4

\* A new row keeps the table well formed, and the rows before it.
LEMMA InsertTyped ==
  ASSUME prints \in Seq(PrintRow), NEW h \in Hashes, NEW o \in Operators, NEW r \in RunsOf,
         InsertPrint(h, o, r)
  PROVE  /\ prints' \in Seq(PrintRow)
         /\ Len(prints') = Len(prints) + 1
         /\ \A i \in DOMAIN prints : prints'[i] = prints[i]
         /\ prints'[Len(prints')].run = r /\ prints'[Len(prints')].first = r
<1> DEFINE new == [hash |-> h, op |-> o, hits |-> 1, run |-> r, first |-> r]
<1>1. new \in PrintRow
  BY DEF PrintRow
<1>2. prints' = Append(prints, new)
  BY DEF InsertPrint
<1> HIDE DEF new
<1>3. /\ Append(prints, new) \in Seq(PrintRow)
      /\ Len(Append(prints, new)) = Len(prints) + 1
      /\ \A i \in 1..Len(prints) : Append(prints, new)[i] = prints[i]
      /\ Append(prints, new)[Len(prints) + 1] = new
  BY <1>1, AppendProperties
<1>4. DOMAIN prints = 1..Len(prints)
  BY LenProperties
<1>5. new.run = r /\ new.first = r
  BY DEF new
<1> QED
  BY <1>2, <1>3, <1>4, <1>5

\* Another hit keeps the table well formed: only the hits and the run of its row change.
LEMMA UpdateTyped ==
  ASSUME prints \in Seq(PrintRow), NEW row \in 1..Len(prints), NEW r \in RunsOf,
         UpdatePrint(row, r)
  PROVE  /\ prints' \in Seq(PrintRow)
         /\ Len(prints') = Len(prints)
         /\ \A i \in DOMAIN prints : /\ prints'[i].first = prints[i].first
                                     /\ prints'[i].run \in {prints[i].run, r}
<1>1. Len(prints) \in Nat /\ DOMAIN prints = 1..Len(prints)
  BY LenProperties
<1>2. prints[row] \in PrintRow
  BY ElementOfSeq
<1> DEFINE old == prints[row]
<1>3. PICK n \in Nat \ {0} : n = old.hits + 1
  BY <1>2 DEF PrintRow
<1> DEFINE new == [old EXCEPT !.hits = n, !.run = r]
<1>4. new \in PrintRow /\ new.first = old.first /\ new.run = r
  BY <1>2 DEF PrintRow
<1>5. prints' = [prints EXCEPT ![row] = new]
  BY <1>3 DEF UpdatePrint
<1> HIDE DEF new
<1>6. prints' \in Seq(PrintRow) /\ Len(prints') = Len(prints)
  BY <1>1, <1>4, <1>5, ExceptSeq
<1>7. \A i \in DOMAIN prints : prints'[i] = IF i = row THEN new ELSE prints[i]
  BY <1>1, <1>5
<1> QED
  BY <1>4, <1>6, <1>7

\* A row that SaveFingerprint finds is one of the table.
LEMMA RowsForTyped ==
  ASSUME prints \in Seq(PrintRow), NEW h, NEW o, NEW row \in RowsFor(h, o)
  PROVE  row \in 0..Len(prints)
<1>1. DOMAIN prints = 1..Len(prints) /\ Len(prints) \in Nat
  BY LenProperties
<1> QED
  BY <1>1 DEF RowsFor, RowsOf

-----------------------------------------------------------------------------
(* How a step changes the state of its process.                            *)

\* One process moves, the others do not.
LEMMA OneMoves ==
  ASSUME ProcTyped, NEW p \in Procs, NEW r \in ProcStates, proc' = [proc EXCEPT ![p] = r]
  PROVE  /\ proc' \in [Procs -> ProcStates]
         /\ proc'[p] = r
         /\ \A q \in Procs : q # p => proc'[q] = proc[q]
BY DEF ProcTyped

LEMMA GotoMoves ==
  ASSUME ProcTyped, NEW p \in Procs, NEW where \in Places, Goto(p, where)
  PROVE  \E r \in ProcStates :
           /\ proc' = [proc EXCEPT ![p] = r] /\ r.at = where
           /\ r.id = proc[p].id /\ r.next = proc[p].next /\ r.todo = proc[p].todo
           /\ r.hash = proc[p].hash /\ r.row = proc[p].row /\ r.match = proc[p].match
<1> DEFINE r == [proc[p] EXCEPT !.at = where]
<1>1. proc[p] \in ProcStates
  BY DEF ProcTyped
<1>2. r \in ProcStates
  BY <1>1 DEF ProcStates
<1>3. /\ r.at = where /\ r.id = proc[p].id /\ r.next = proc[p].next /\ r.todo = proc[p].todo
      /\ r.hash = proc[p].hash /\ r.row = proc[p].row /\ r.match = proc[p].match
  BY <1>1 DEF ProcStates
<1>4. proc' = [proc EXCEPT ![p] = r]
  BY DEF Goto
<1> HIDE DEF r
<1> QED
  BY <1>2, <1>3, <1>4

\* The next target starts afresh, under the analysis's identifier.
LEMMA AdvanceMoves ==
  ASSUME ProcTyped, NEW p \in Procs, Advance(p)
  PROVE  \E r \in ProcStates :
           /\ proc' = [proc EXCEPT ![p] = r]
           /\ r.id = proc[p].id /\ r.match = 0 /\ r.row = 0
           /\ \/ /\ proc[p].next < Len(Targets)
                 /\ r.at = "lookup" /\ r.next = proc[p].next + 1
              \/ /\ proc[p].next = Len(Targets)
                 /\ r.at = "done" /\ r.next = proc[p].next
<1> DEFINE s == proc[p]
<1>1. s \in ProcStates /\ s.next \in 1..Len(Targets)
  BY DEF ProcTyped, ProcStates
<1>2. CASE s.next < Len(Targets)
  <2>1. PICK n \in 1..Len(Targets) : n = s.next + 1
    BY <1>1, <1>2, TargetIsOperator
  <2> DEFINE r == [Resting EXCEPT !.at = "lookup", !.id = s.id, !.next = n]
  <2>2. r \in ProcStates
    BY <1>1, EmptySeq DEF ProcStates, Places, Resting
  <2>3. r.id = s.id /\ r.match = 0 /\ r.row = 0 /\ r.at = "lookup" /\ r.next = n
    BY DEF Resting
  <2>4. proc' = [proc EXCEPT ![p] = r]
    BY <1>2, <2>1 DEF Advance
  <2> HIDE DEF r
  <2> QED
    BY <1>2, <2>1, <2>2, <2>3, <2>4
<1>3. CASE s.next = Len(Targets)
  <2> DEFINE r == [Resting EXCEPT !.at = "done", !.id = s.id, !.next = s.next]
  <2>1. r \in ProcStates
    BY <1>1, EmptySeq DEF ProcStates, Places, Resting
  <2>2. r.id = s.id /\ r.match = 0 /\ r.row = 0 /\ r.at = "done" /\ r.next = s.next
    BY DEF Resting
  <2>3. proc' = [proc EXCEPT ![p] = r]
    <3>1. ~(proc[p].next < Len(Targets))
      BY <1>1, <1>3, TargetIsOperator
    <3> QED
      BY <3>1 DEF Advance
  <2> HIDE DEF r
  <2> QED
    BY <1>3, <2>1, <2>2, <2>3
<1> QED
  BY <1>1, <1>2, <1>3, TargetIsOperator


-----------------------------------------------------------------------------
(* The invariant of the database, step by step.                            *)

RunRow(p) == [session |-> Op(p), analysis |-> proc[p].id, num |-> 0]

\* A step of process p within a target that stores no fingerprint.
LEMMA QuietStep ==
  ASSUME DatabaseInv, NEW p \in Procs, Active(p),
         NEW r \in ProcStates, proc' = [proc EXCEPT ![p] = r],
         r.id = proc[p].id, r.next = proc[p].next, r.at # "idle",
         r.at \in WithHash => r.hash \in Hashes,
         r.at = "writing" => record'[p] \in Records,
         r.row \in 0..Len(prints),
         \/ r.match \in {0, proc[p].match}
         \/ r.match \in DOMAIN prints /\ proc[p].at = "lookup",
         proc[p].at \in PrintPassed => r.at \in PrintPassed,
         r.at \in RunRecorded => proc[p].at \in RunRecorded \/ RunRow(p) \in DOMAIN runs',
         DOMAIN runs \subseteq DOMAIN runs', prints' = prints,
         \/ hypotheses' = hypotheses
         \/ hypotheses' = hypotheses \cup {Run(p)} /\ proc[p].at = "hypotheses",
         sessions' \subseteq Operators \cup {Legacy}, patterns' \in [Operators -> Nat],
         SessionTyped', \A q \in Procs : q # p => record'[q] = record[q],
         analyses' = analyses
  PROVE  DatabaseInv'
<1> USE DEF DatabaseInv
<1>1. /\ proc' \in [Procs -> ProcStates] /\ proc'[p] = r
      /\ \A q \in Procs : q # p => proc'[q] = proc[q]
  BY OneMoves
<1>2. proc[p] \in ProcStates /\ proc[p].id \in 1..analyses
  BY DEF ProcTyped
<1>3. prints \in Seq(PrintRow) /\ Len(prints) \in Nat /\ DOMAIN prints = 1..Len(prints)
  BY LenProperties DEF TypeOK
<1>4. Op(p)' = Op(p) /\ Run(p)' = Run(p) /\ Run(p) \in RunsOf
  <2>1. Op(p) \in Operators
    <3>1. proc[p].next \in 1..Len(Targets)
      BY <1>2 DEF ProcStates
    <3>2. Targets[proc[p].next] \in Operators
      BY <3>1, TargetIsOperator, Zenon
    <3> QED
      BY <3>2 DEF Op
  <2>2. analyses \in 0..MaxAnalyses
    BY DEF ProcTyped
  <2>3. proc[p].id \in 1..MaxAnalyses
    BY <1>2, <2>2, IdBounded, Zenon
  <2>4. Op(p)' = Op(p) /\ proc'[p].id = proc[p].id
    BY <1>1 DEF Op
  <2> HIDE DEF DatabaseInv
  <2> QED
    BY <2>1, <2>3, <2>4 DEF Run, RunsOf
<1>5. \A q \in Procs : q # p => Op(q)' = Op(q) /\ Run(q)' = Run(q)
  BY <1>1 DEF Op, Run
<1>6. TypeOK'
  <2>1. r.match \in 0..Len(prints) /\ r.at \in Places /\ r.next \in 1..Len(Targets)
    <3>1. proc[p].match \in 0..Len(prints)
      BY DEF TypeOK
    <3>2. r.match \in 0..Len(prints)
      BY <1>3, <3>1
    <3> QED
      BY <3>2 DEF ProcStates
  <2>2. hypotheses' \subseteq RunsOf
    BY <1>4 DEF TypeOK
  <2>3. \A q \in Procs : /\ proc'[q].at \in Places
                         /\ proc'[q].next \in 1..Len(Targets)
                         /\ proc'[q].row \in 0..Len(prints')
                         /\ proc'[q].match \in 0..Len(prints')
    BY <1>1, <2>1 DEF TypeOK
  <2> QED
    BY <1>3, <2>2, <2>3 DEF TypeOK
<1>7. ProcTyped'
  BY <1>1, <1>2 DEF ProcTyped, Active, At
<1>8. IdsDistinct'
  BY <1>1 DEF IdsDistinct, Active, At
<1>9. RunFirst'
  <2>1. ASSUME NEW q \in Procs, proc'[q].at \in RunRecorded
        PROVE  RunRow(q)' \in DOMAIN runs'
    BY <1>1, <1>4, <1>5, <2>1 DEF RunFirst, RunRow
  <2> QED
    BY <2>1 DEF RunFirst, RunRow
<1>10. EvidenceHasRun'
  <2>1. CASE hypotheses' = hypotheses
    BY <2>1, ZenonT(30) DEF EvidenceHasRun
  <2>2. CASE hypotheses' = hypotheses \cup {Run(p)} /\ proc[p].at = "hypotheses"
    <3>1. RunRow(p) \in DOMAIN runs
      <4>1. RunFirst
        OBVIOUS
      <4> HIDE DEF DatabaseInv
      <4> QED
        BY <2>2, <4>1 DEF RunFirst, RunRow, RunRecorded
    <3>2. [session |-> Run(p)[2], analysis |-> Run(p)[1], num |-> 0] \in DOMAIN runs
      <4>1. Run(p)[1] = proc[p].id /\ Run(p)[2] = Op(p)
        BY DEF Run
      <4> QED
        BY <3>1, <4>1, Zenon DEF RunRow
    <3>3. EvidenceHasRun
      OBVIOUS
    <3> HIDE DEF DatabaseInv
    <3>4. ASSUME NEW x \in {prints'[i].run : i \in DOMAIN prints'} \cup hypotheses'
          PROVE  [session |-> x[2], analysis |-> x[1], num |-> 0] \in DOMAIN runs'
      <4>1. x = Run(p) \/ x \in {prints[i].run : i \in DOMAIN prints} \cup hypotheses
        BY <2>2
      <4> QED
        BY <3>2, <3>3, <4>1 DEF EvidenceHasRun
    <3> QED
      BY <3>4 DEF EvidenceHasRun
  <2> QED
    BY <2>1, <2>2
<1>11. FirstByTarget'
  BY <1>1, SMTT(30) DEF FirstByTarget, Active, At
<1>12. NotItself'
  <2>1. ASSUME NEW q \in Procs, proc'[q].match # 0
        PROVE  \/ prints[proc'[q].match].first # Run(q)'
               \/ \E j \in 1..(proc'[q].next - 1) : Targets[j] = Op(q)'
    <3>1. CASE q # p
      BY <1>1, <1>5, <2>1, <3>1 DEF NotItself
    <3>2. CASE q = p /\ r.match \in {0, proc[p].match}
      BY <1>1, <1>4, <2>1, <3>2 DEF NotItself
    <3>3. CASE q = p /\ r.match \in DOMAIN prints /\ proc[p].at = "lookup"
      <4>1. ASSUME prints[r.match].first = Run(p)
            PROVE  \E j \in 1..(proc[p].next - 1) : Targets[j] = Op(p)
        <5>1. prints[r.match].first[1] = proc[p].id /\ prints[r.match].first[2] = Op(p)
          BY <4>1 DEF Run
        <5>2. PICK j \in 1..proc[p].next : Targets[j] = Op(p) /\ j < proc[p].next
          BY <3>3, <5>1, ZenonT(30) DEF FirstByTarget, PrintPassed
        <5>3. j \in Nat /\ proc[p].next \in Nat
          <6>1. proc[p].next \in 1..Len(Targets)
            BY <1>2 DEF ProcStates
          <6> QED
            BY <5>2, <6>1
        <5>4. j \in 1..(proc[p].next - 1)
          BY <5>2, <5>3
        <5> QED
          BY <5>2, <5>4
      <4> QED
        BY <1>1, <1>4, <3>3, <4>1
    <3> QED
      BY <3>1, <3>2, <3>3
  <2> QED
    BY <2>1 DEF NotItself
<1> QED
  BY <1>6, <1>7, <1>8, <1>9, <1>10, <1>11, <1>12

\* The statements and saves of a target that only move its process on.
LEMMA GotoStep ==
  ASSUME DatabaseInv, NEW p \in Procs, Active(p), NEW where \in Places \ {"idle"},
         Goto(p, where),
         where \in WithHash => proc[p].at \in WithHash,
         where = "writing" => record'[p] \in Records,
         proc[p].at \in PrintPassed => where \in PrintPassed,
         where \in RunRecorded => proc[p].at \in RunRecorded \/ RunRow(p) \in DOMAIN runs',
         DOMAIN runs \subseteq DOMAIN runs', prints' = prints,
         \/ hypotheses' = hypotheses
         \/ hypotheses' = hypotheses \cup {Run(p)} /\ proc[p].at = "hypotheses",
         sessions' \subseteq Operators \cup {Legacy}, patterns' \in [Operators -> Nat],
         SessionTyped', \A q \in Procs : q # p => record'[q] = record[q],
         analyses' = analyses
  PROVE  DatabaseInv'
<1>1. ProcTyped /\ proc[p].row \in 0..Len(prints)
      /\ (proc[p].at \in WithHash => proc[p].hash \in Hashes)
  BY DEF DatabaseInv, TypeOK, ProcTyped
<1>2. PICK r \in ProcStates :
        /\ proc' = [proc EXCEPT ![p] = r] /\ r.at = where
        /\ r.id = proc[p].id /\ r.next = proc[p].next /\ r.todo = proc[p].todo
        /\ r.hash = proc[p].hash /\ r.row = proc[p].row /\ r.match = proc[p].match
  BY <1>1, GotoMoves
<1> QED
  BY <1>1, <1>2, QuietStep, ZenonT(30)

\* What the steps that only move their process on may assume of the stores.
LEMMA StoresTyped ==
  ASSUME DatabaseInv
  PROVE  /\ SessionTyped /\ sessions \subseteq Operators \cup {Legacy}
         /\ patterns \in [Operators -> Nat] /\ prints \in Seq(PrintRow)
         /\ Len(prints) \in Nat /\ DOMAIN prints = 1..Len(prints)
         /\ ProcTyped /\ proc \in [Procs -> ProcStates]
         /\ \A p \in Procs : proc[p].row \in 0..Len(prints)
BY LenProperties DEF DatabaseInv, TypeOK, ProcTyped

LEMMA ImportSessionInv ==
  ASSUME DatabaseInv, NEW p \in Procs, ImportSession(p)
  PROVE  DatabaseInv'
<1>1. /\ UNCHANGED <<file, record, runs, prints, hypotheses, patterns, analyses>>
      /\ sessions' \subseteq sessions \cup {Legacy}
      /\ Goto(p, "importingRuns") \/ Goto(p, "loading")
      /\ proc[p].at = "importing"
  BY DEF ImportSession, Working, Failing, SaveSession, sessionVars, metadataVars, At
<1>2. SessionTyped' /\ sessions' \subseteq Operators \cup {Legacy}
      /\ patterns' \in [Operators -> Nat]
  BY <1>1, StoresTyped DEF SessionTyped
<1> QED
  BY <1>1, <1>2, GotoStep
  DEF Active, At, Places, WithHash, RunRecorded, PrintPassed

LEMMA ImportRunInv ==
  ASSUME DatabaseInv, NEW p \in Procs, ImportRun(p)
  PROVE  DatabaseInv'
<1> USE DEF Active, At, Places, WithHash, RunRecorded, PrintPassed
<1>1. /\ UNCHANGED <<file, record, sessions, prints, hypotheses, patterns, analyses>>
      /\ proc[p].at = "importingRuns"
      /\ runs' = runs \/ ImportEntry(Head(proc[p].todo))
  BY DEF ImportRun, Working, Failing, ImportEntry, RecordRun, sessionVars, metadataVars
<1>0. DOMAIN runs \subseteq DOMAIN runs'
  BY <1>1, RunsGrow DEF ImportEntry
<1>2. /\ SessionTyped' /\ sessions' \subseteq Operators \cup {Legacy}
      /\ patterns' \in [Operators -> Nat]
  BY <1>1, StoresTyped DEF SessionTyped
<1>3. CASE proc[p].todo = <<>>
  <2>1. Goto(p, "loading")
    BY <1>3 DEF ImportRun
  <2> QED
    BY <1>0, <1>1, <1>2, <2>1, GotoStep
<1>4. CASE proc[p].todo # <<>>
  <2> DEFINE r == [proc[p] EXCEPT !.todo = Tail(@)]
  <2>1. proc' = [proc EXCEPT ![p] = r]
    BY <1>4 DEF ImportRun
  <2>2. proc[p] \in ProcStates /\ proc[p].row \in 0..Len(prints)
    BY StoresTyped
  <2>3. Tail(proc[p].todo) \in Seq(Entries)
    BY <1>4, <2>2, HeadTailProperties DEF ProcStates
  <2>4. r \in ProcStates
    BY <2>2, <2>3 DEF ProcStates
  <2>5. /\ r.at = "importingRuns" /\ r.id = proc[p].id /\ r.next = proc[p].next
        /\ r.row = proc[p].row /\ r.match = proc[p].match
    BY <1>1, <2>2 DEF ProcStates
  <2> HIDE DEF r
  <2> QED
    BY <1>0, <1>1, <1>2, <2>1, <2>2, <2>4, <2>5, QuietStep
<1> QED
  BY <1>3, <1>4

LEMMA LoadSessionInv ==
  ASSUME DatabaseInv, NEW p \in Procs, LoadSession(p)
  PROVE  DatabaseInv'
<1>1. /\ UNCHANGED <<file, sessions, runs, prints, hypotheses, patterns, analyses>>
      /\ record' = [record EXCEPT ![p] = Loaded]
      /\ Goto(p, "lookup") /\ proc[p].at = "loading"
  BY DEF LoadSession, Load, metadataVars, historyVars, At
<1>2. Loaded \in Records \cup {Nil}
  BY StoresTyped, NewRecordTyped DEF Loaded, SessionTyped
<1>3. SessionTyped' /\ \A q \in Procs : q # p => record'[q] = record[q]
  BY <1>1, <1>2, StoresTyped DEF SessionTyped
<1>4. sessions' \subseteq Operators \cup {Legacy} /\ patterns' \in [Operators -> Nat]
  BY <1>1, StoresTyped
<1> QED
  BY <1>1, <1>3, <1>4, GotoStep
  DEF Active, At, Places, WithHash, RunRecorded, PrintPassed

\* The match that a target is shown cannot be a row of its own.
LEMMA LookupInv ==
  ASSUME DatabaseInv, NEW p \in Procs, Lookup(p)
  PROVE  DatabaseInv'
<1>1. /\ UNCHANGED <<file, record, sessions, runs, prints, hypotheses, patterns, analyses>>
      /\ proc[p].at = "lookup"
  BY DEF Lookup, Working, Failing, metadataVars, sessionVars, At
<1>2. /\ SessionTyped' /\ sessions' \subseteq Operators \cup {Legacy}
      /\ patterns' \in [Operators -> Nat]
  BY <1>1, StoresTyped DEF SessionTyped
<1>3. proc[p] \in ProcStates /\ proc[p].row \in 0..Len(prints)
  BY StoresTyped, SMTT(30)
<1>4. PICK h \in Hashes, i \in Nat :
        /\ i \in {0, proc[p].match} \cup DOMAIN prints
        /\ proc' = [proc EXCEPT ![p] = [proc[p] EXCEPT !.at = "session", !.hash = h, !.match = i]]
  <2>1. PICK h \in Hashes :
          \/ \E i \in IF FoundByHash(h) = {} THEN {0} ELSE FoundByHash(h) :
               proc' = [proc EXCEPT ![p].at = "session", ![p].hash = h, ![p].match = i]
          \/ proc' = [proc EXCEPT ![p].at = "session", ![p].hash = h]
    BY DEF Lookup
  <2>2. CASE \E i \in IF FoundByHash(h) = {} THEN {0} ELSE FoundByHash(h) :
               proc' = [proc EXCEPT ![p].at = "session", ![p].hash = h, ![p].match = i]
    <3>1. PICK i \in IF FoundByHash(h) = {} THEN {0} ELSE FoundByHash(h) :
            proc' = [proc EXCEPT ![p].at = "session", ![p].hash = h, ![p].match = i]
      BY <2>2
    <3>2. i \in {0} \cup DOMAIN prints /\ i \in Nat
      <4>1. FoundByHash(h) \subseteq DOMAIN prints
        BY DEF FoundByHash
      <4>2. i \in {0} \cup DOMAIN prints
        BY <4>1
      <4> QED
        BY <4>2, StoresTyped
    <3> QED
      BY <3>1, <3>2
  <2>3. CASE proc' = [proc EXCEPT ![p].at = "session", ![p].hash = h]
    <3>1. proc' = [proc EXCEPT ![p] = [proc[p] EXCEPT !.at = "session", !.hash = h,
                                                      !.match = proc[p].match]]
      BY <1>3, <2>3 DEF ProcStates
    <3> QED
      BY <1>3, <3>1 DEF ProcStates
  <2> QED
    BY <2>1, <2>2, <2>3
<1> DEFINE r == [proc[p] EXCEPT !.at = "session", !.hash = h, !.match = i]
<1>5. r \in ProcStates
  BY <1>3 DEF ProcStates, Places
<1>6. /\ r.at = "session" /\ r.hash = h /\ r.match = i
      /\ r.id = proc[p].id /\ r.next = proc[p].next /\ r.row = proc[p].row
  BY <1>3 DEF ProcStates
<1>7. proc' = [proc EXCEPT ![p] = r]
  BY <1>4
<1> HIDE DEF r
<1> QED
  BY <1>1, <1>2, <1>3, <1>4, <1>5, <1>6, <1>7, QuietStep
  DEF Active, At, WithHash, RunRecorded, PrintPassed

LEMMA StoreSessionInv ==
  ASSUME DatabaseInv, NEW p \in Procs, StoreSession(p)
  PROVE  DatabaseInv'
<1> USE DEF Active, At, Places, WithHash, RunRecorded, PrintPassed
<1>1. /\ UNCHANGED <<file, record, runs, prints, hypotheses, patterns, analyses>>
      /\ sessions' \subseteq sessions \cup {Op(p)}
      /\ Goto(p, "run") /\ proc[p].at = "session"
  BY DEF StoreSession, Working, Failing, SaveSession, sessionVars, metadataVars
<1>2. Op(p) \in Operators
  BY StoresTyped, TargetIsOperator DEF Op, ProcStates
<1>3. SessionTyped' /\ sessions' \subseteq Operators \cup {Legacy}
      /\ patterns' \in [Operators -> Nat]
  BY <1>1, <1>2, StoresTyped DEF SessionTyped
<1> QED
  BY <1>1, <1>3, GotoStep

\* The run is recorded before any evidence of it, or nothing of it is.
LEMMA StoreRunInv ==
  ASSUME DatabaseInv, NEW p \in Procs, StoreRun(p)
  PROVE  DatabaseInv'
<1> USE DEF Active, At, Places, WithHash, RunRecorded, PrintPassed
<1>1. /\ UNCHANGED <<file, record, sessions, prints, hypotheses, patterns, analyses>>
      /\ \/ RecordRun(Op(p), proc[p].id, 0) /\ Goto(p, "select")
         \/ runs' = runs /\ Goto(p, "history")
      /\ proc[p].at = "run"
  BY DEF StoreRun, Working, Failing, RecordRun, sessionVars, metadataVars
<1>2. SessionTyped' /\ sessions' \subseteq Operators \cup {Legacy}
      /\ patterns' \in [Operators -> Nat]
  BY <1>1, StoresTyped DEF SessionTyped
<1>3. CASE RecordRun(Op(p), proc[p].id, 0) /\ Goto(p, "select")
  <2>1. RunRow(p) \in DOMAIN runs' /\ DOMAIN runs \subseteq DOMAIN runs'
    <3>1. runs' = runs (+) SetToBag({RunRow(p)})
      BY <1>3 DEF RecordRun, RunRow
    <3>2. DOMAIN runs' = DOMAIN runs \cup {RunRow(p)}
      BY <3>1, BagAddDomain
    <3> QED
      BY <3>2
  <2> QED
    BY <1>1, <1>2, <1>3, <2>1, GotoStep
<1>4. CASE runs' = runs /\ Goto(p, "history")
  BY <1>1, <1>2, <1>4, GotoStep
<1> QED
  BY <1>1, <1>3, <1>4

LEMMA SelectPrintInv ==
  ASSUME DatabaseInv, NEW p \in Procs, SelectPrint(p)
  PROVE  DatabaseInv'
<1> USE DEF Active, At, Places, WithHash, RunRecorded, PrintPassed
<1>1. /\ UNCHANGED <<file, record, sessions, runs, prints, hypotheses, patterns, analyses>>
      /\ proc[p].at = "select"
  BY DEF SelectPrint, Working, Failing, sessionVars, metadataVars
<1>2. SessionTyped' /\ sessions' \subseteq Operators \cup {Legacy}
      /\ patterns' \in [Operators -> Nat]
  BY <1>1, StoresTyped DEF SessionTyped
<1>3. CASE Goto(p, "hypotheses")
  BY <1>1, <1>2, <1>3, GotoStep
<1>4. CASE \E row \in RowsFor(proc[p].hash, Op(p)) :
             proc' = [proc EXCEPT ![p].at = "print", ![p].row = row]
  <2>1. PICK row \in RowsFor(proc[p].hash, Op(p)) :
          proc' = [proc EXCEPT ![p].at = "print", ![p].row = row]
    BY <1>4
  <2>2. row \in 0..Len(prints) /\ row \in Nat
    BY StoresTyped, RowsForTyped
  <2> DEFINE r == [proc[p] EXCEPT !.at = "print", !.row = row]
  <2>3. proc[p] \in ProcStates /\ proc[p].hash \in Hashes
    BY <1>1, StoresTyped DEF ProcTyped
  <2>4. r \in ProcStates
    BY <2>2, <2>3 DEF ProcStates
  <2>5. /\ r.at = "print" /\ r.row = row /\ r.id = proc[p].id /\ r.next = proc[p].next
        /\ r.hash = proc[p].hash /\ r.match = proc[p].match
    BY <2>3 DEF ProcStates
  <2>6. proc' = [proc EXCEPT ![p] = r]
    BY <2>1
  <2> HIDE DEF r
  <2> QED
    BY <1>1, <1>2, <2>2, <2>3, <2>4, <2>5, <2>6, QuietStep
<1> QED
  BY <1>3, <1>4 DEF SelectPrint

LEMMA StoreHypothesesInv ==
  ASSUME DatabaseInv, NEW p \in Procs, StoreHypotheses(p)
  PROVE  DatabaseInv'
<1> USE DEF Active, At, Places, WithHash, RunRecorded, PrintPassed
<1>1. /\ UNCHANGED <<file, record, sessions, runs, prints, patterns, analyses>>
      /\ Goto(p, "patterns") /\ proc[p].at = "hypotheses"
      /\ hypotheses' = hypotheses \/ hypotheses' = hypotheses \cup {Run(p)}
  BY DEF StoreHypotheses, RecordHypotheses, Working, Failing, sessionVars, metadataVars
<1>2. SessionTyped' /\ sessions' \subseteq Operators \cup {Legacy}
      /\ patterns' \in [Operators -> Nat]
  BY <1>1, StoresTyped DEF SessionTyped
<1> QED
  BY <1>1, <1>2, GotoStep

LEMMA StorePatternInv ==
  ASSUME DatabaseInv, NEW p \in Procs, StorePattern(p)
  PROVE  DatabaseInv'
<1> USE DEF Active, At, Places, WithHash, RunRecorded, PrintPassed
<1>1. /\ UNCHANGED <<file, record, sessions, runs, prints, hypotheses, analyses>>
      /\ Goto(p, "history") /\ proc[p].at = "patterns"
      /\ patterns' = patterns \/ patterns' = [patterns EXCEPT ![Op(p)] = @ + 1]
  BY DEF StorePattern, RecordPattern, Working, Failing, sessionVars, metadataVars
<1>2. patterns' \in [Operators -> Nat]
  <2>1. patterns \in [Operators -> Nat]
    BY StoresTyped
  <2>2. CASE patterns' = patterns
    BY <2>1, <2>2
  <2>3. CASE patterns' = [patterns EXCEPT ![Op(p)] = @ + 1]
    BY <2>1, <2>3, CountedTyped
  <2> QED
    BY <1>1, <2>2, <2>3
<1>3. SessionTyped' /\ sessions' \subseteq Operators \cup {Legacy}
  BY <1>1, StoresTyped DEF SessionTyped
<1> QED
  BY <1>1, <1>2, <1>3, GotoStep

\* A fingerprint names a run that is recorded; its first run is its own target's when
\* the row is new, and unchanged when it is not.
LEMMA StorePrintInv ==
  ASSUME DatabaseInv, NEW p \in Procs, StorePrint(p)
  PROVE  DatabaseInv'
<1> USE DEF Active, At, Places, WithHash, RunRecorded, PrintPassed
<1>1. /\ UNCHANGED <<file, record, sessions, runs, hypotheses, patterns, analyses>>
      /\ Goto(p, "hypotheses") /\ proc[p].at = "print"
  BY DEF StorePrint, InsertPrint, UpdatePrint, Working, Failing, sessionVars, metadataVars
<1>2. SessionTyped' /\ sessions' \subseteq Operators \cup {Legacy}
      /\ patterns' \in [Operators -> Nat]
  BY <1>1, StoresTyped DEF SessionTyped
<1>3. CASE prints' = prints
  BY <1>1, <1>2, <1>3, GotoStep
<1>4. CASE prints' # prints
  <2>1. /\ proc[p] \in ProcStates /\ proc[p].hash \in Hashes /\ proc[p].row \in 0..Len(prints)
        /\ proc[p].next \in 1..Len(Targets) /\ proc[p].id \in 1..analyses
        /\ analyses \in 0..MaxAnalyses
    BY <1>1, StoresTyped DEF ProcTyped, ProcStates
  <2>2. Op(p) \in Operators /\ Run(p) \in RunsOf /\ Run(p)[1] = proc[p].id /\ Run(p)[2] = Op(p)
    BY <2>1, TargetIsOperator DEF Op, Run, RunsOf, ProcStates
  <2>3. \/ proc[p].row = 0 /\ InsertPrint(proc[p].hash, Op(p), Run(p))
        \/ proc[p].row # 0 /\ UpdatePrint(proc[p].row, Run(p))
    BY <1>4 DEF StorePrint, Failing, metadataVars
  \* Every row is an old one with its first run and at most a new latest run, or new.
  <2>4. /\ prints' \in Seq(PrintRow) /\ Len(prints) <= Len(prints')
        /\ \A i \in DOMAIN prints : /\ prints'[i].first = prints[i].first
                                    /\ prints'[i].run \in {prints[i].run, Run(p)}
        /\ \A i \in DOMAIN prints' : i \notin DOMAIN prints =>
             prints'[i].first = Run(p) /\ prints'[i].run = Run(p)
    <3>0. prints \in Seq(PrintRow) /\ DOMAIN prints = 1..Len(prints) /\ Len(prints) \in Nat
      BY StoresTyped
    <3>1. CASE proc[p].row = 0 /\ InsertPrint(proc[p].hash, Op(p), Run(p))
      <4>1. /\ prints' \in Seq(PrintRow) /\ Len(prints') = Len(prints) + 1
            /\ \A i \in DOMAIN prints : prints'[i] = prints[i]
            /\ prints'[Len(prints')].run = Run(p) /\ prints'[Len(prints')].first = Run(p)
        BY <2>1, <2>2, <3>0, <3>1, InsertTyped
      <4>2. DOMAIN prints' = 1..Len(prints')
        BY <4>1, LenProperties
      <4> QED
        BY <3>0, <4>1, <4>2
    <3>2. CASE proc[p].row # 0 /\ UpdatePrint(proc[p].row, Run(p))
      <4>0. proc[p].row \in 1..Len(prints)
        BY <2>1, <3>0, <3>2
      <4>1. /\ prints' \in Seq(PrintRow) /\ Len(prints') = Len(prints)
            /\ \A i \in DOMAIN prints : /\ prints'[i].first = prints[i].first
                                        /\ prints'[i].run \in {prints[i].run, Run(p)}
        BY <2>2, <3>0, <3>2, <4>0, UpdateTyped
      <4>2. DOMAIN prints' = 1..Len(prints')
        BY <4>1, LenProperties
      <4> QED
        BY <3>0, <4>1, <4>2
    <3> QED
      BY <2>3, <3>1, <3>2
  <2>5. /\ DOMAIN prints = 1..Len(prints) /\ DOMAIN prints' = 1..Len(prints')
        /\ Len(prints) \in Nat /\ Len(prints') \in Nat
    BY <2>4, StoresTyped, LenProperties
  <2>6. PICK r \in ProcStates :
          /\ proc' = [proc EXCEPT ![p] = r] /\ r.at = "hypotheses"
          /\ r.id = proc[p].id /\ r.next = proc[p].next /\ r.todo = proc[p].todo
          /\ r.hash = proc[p].hash /\ r.row = proc[p].row /\ r.match = proc[p].match
    BY <1>1, GotoMoves, StoresTyped
  <2>7. /\ proc' \in [Procs -> ProcStates] /\ proc'[p] = r
        /\ \A q \in Procs : q # p => proc'[q] = proc[q]
    BY <2>6, OneMoves, StoresTyped
  <2>8. \A q \in Procs : /\ Op(q)' = Op(q) /\ Run(q)' = Run(q) /\ proc'[q].match = proc[q].match
                         /\ proc'[q].next = proc[q].next /\ proc'[q].row = proc[q].row
                         /\ proc'[q].id = proc[q].id /\ Active(q)' = Active(q)
    BY <1>1, <2>6, <2>7 DEF Op, Run
  <2>9. TypeOK'
    <3>1. \A q \in Procs : /\ proc'[q].at \in Places
                           /\ proc'[q].next \in 1..Len(Targets)
                           /\ proc'[q].row \in 0..Len(prints')
                           /\ proc'[q].match \in 0..Len(prints')
      <4>1. \A q \in Procs : proc'[q] \in ProcStates
        BY <2>7
      <4>2. \A q \in Procs : proc[q].row \in 0..Len(prints) /\ proc[q].match \in 0..Len(prints)
        BY DEF DatabaseInv, TypeOK
      <4>3. \A n \in 0..Len(prints) : n \in 0..Len(prints')
        BY <2>4, <2>5
      <4>4. \A q \in Procs : proc'[q].at \in Places /\ proc'[q].next \in 1..Len(Targets)
        BY <4>1 DEF ProcStates
      <4> QED
        BY <2>8, <4>2, <4>3, <4>4
    <3>2. hypotheses' \subseteq RunsOf
      BY <1>1 DEF DatabaseInv, TypeOK
    <3> QED
      BY <1>2, <2>4, <3>1, <3>2 DEF TypeOK
  <2>10. ProcTyped'
    BY <1>1, <2>6, <2>7 DEF DatabaseInv, ProcTyped
  <2>11. IdsDistinct'
    BY <2>8 DEF DatabaseInv, IdsDistinct
  <2>12. RunFirst'
    BY <1>1, <2>6, <2>7, <2>8 DEF DatabaseInv, RunFirst
  <2>13. EvidenceHasRun'
    <3>1. [session |-> Run(p)[2], analysis |-> Run(p)[1], num |-> 0] \in DOMAIN runs
      BY <1>1, <2>2 DEF DatabaseInv, RunFirst
    <3>2. {prints'[i].run : i \in DOMAIN prints'}
            \subseteq {prints[i].run : i \in DOMAIN prints} \cup {Run(p)}
      BY <2>4
    <3> QED
      BY <1>1, <3>1, <3>2 DEF DatabaseInv, EvidenceHasRun
  <2>14. FirstByTarget'
    <3>1. ASSUME NEW i \in DOMAIN prints'
          PROVE  /\ prints'[i].first[1] <= analyses
                 /\ \A q \in Procs : Active(q)' /\ prints'[i].first[1] = proc'[q].id =>
                      \E j \in 1..proc'[q].next :
                        /\ Targets[j] = prints'[i].first[2]
                        /\ j < proc'[q].next \/ proc'[q].at \in PrintPassed
      <4>1. CASE i \in DOMAIN prints
        <5>1. prints'[i].first = prints[i].first /\ prints[i].first[1] <= analyses
          BY <2>4, <4>1 DEF DatabaseInv, FirstByTarget
        <5>2. ASSUME NEW q \in Procs, Active(q)', prints'[i].first[1] = proc'[q].id
              PROVE  \E j \in 1..proc'[q].next :
                       /\ Targets[j] = prints'[i].first[2]
                       /\ j < proc'[q].next \/ proc'[q].at \in PrintPassed
          <6>1. PICK j \in 1..proc[q].next :
                  /\ Targets[j] = prints[i].first[2]
                  /\ j < proc[q].next \/ proc[q].at \in PrintPassed
            BY <2>8, <4>1, <5>1, <5>2 DEF DatabaseInv, FirstByTarget
          <6>2. proc[q].at \in PrintPassed => proc'[q].at \in PrintPassed
            BY <2>6, <2>7
          <6> QED
            BY <2>8, <5>1, <6>1, <6>2
        <5> QED
          BY <5>1, <5>2
      <4>2. CASE i \notin DOMAIN prints
        <5>1. prints'[i].first = Run(p)
          BY <2>4, <4>2
        <5>2. ASSUME NEW q \in Procs, Active(q)', prints'[i].first[1] = proc'[q].id
              PROVE  q = p
          <6>1. prints'[i].first[1] = proc[p].id
            BY <5>1 DEF Run
          <6> QED
            BY <1>1, <2>2, <2>8, <5>2, <6>1 DEF DatabaseInv, IdsDistinct
        <5>3. Targets[proc[p].next] = prints'[i].first[2] /\ proc[p].next \in 1..proc[p].next
          BY <2>1, <2>2, <5>1, TargetIsOperator DEF Op
        <5> QED
          BY <2>1, <2>2, <2>6, <2>7, <5>1, <5>2, <5>3
      <4> QED
        BY <4>1, <4>2
    <3> QED
      BY <1>1, <3>1 DEF FirstByTarget
  <2>15. NotItself'
    <3>1. \A q \in Procs : proc[q].match # 0 => proc[q].match \in DOMAIN prints
      BY <2>5 DEF DatabaseInv, TypeOK
    <3> QED
      BY <2>4, <2>8, <3>1 DEF DatabaseInv, NotItself
  <2> QED
    BY <2>9, <2>10, <2>11, <2>12, <2>13, <2>14, <2>15 DEF DatabaseInv
<1> QED
  BY <1>3, <1>4

\* A target is done with: the next one has stored nothing, or all are done.
LEMMA AdvanceStep ==
  ASSUME DatabaseInv, NEW p \in Procs, Advance(p), proc[p].at \in {"history", "writing"},
         UNCHANGED <<sessions, runs, prints, hypotheses, patterns, analyses>>,
         SessionTyped', \A q \in Procs : q # p => record'[q] = record[q]
  PROVE  DatabaseInv'
<1>1. PICK r \in ProcStates :
        /\ proc' = [proc EXCEPT ![p] = r]
        /\ r.id = proc[p].id /\ r.match = 0 /\ r.row = 0
        /\ \/ /\ proc[p].next < Len(Targets)
              /\ r.at = "lookup" /\ r.next = proc[p].next + 1
           \/ /\ proc[p].next = Len(Targets)
              /\ r.at = "done" /\ r.next = proc[p].next
  BY AdvanceMoves, StoresTyped
<1>2. /\ proc' \in [Procs -> ProcStates] /\ proc'[p] = r
      /\ \A q \in Procs : q # p => proc'[q] = proc[q]
  BY <1>1, OneMoves, StoresTyped
<1>3. /\ proc[p].at # "idle" /\ r.at \in {"lookup", "done"} /\ r.at # "idle"
      /\ proc[p].next \in 1..Len(Targets) /\ Len(Targets) \in Nat
      /\ r.next \in 1..Len(Targets)
  BY <1>1, StoresTyped, TargetIsOperator DEF ProcStates
<1>4. \A q \in Procs : q # p => Op(q)' = Op(q) /\ Run(q)' = Run(q)
  BY <1>2 DEF Op, Run
<1>5. TypeOK'
  <2>1. \A q \in Procs : /\ proc'[q].at \in Places
                         /\ proc'[q].next \in 1..Len(Targets)
                         /\ proc'[q].row \in 0..Len(prints)
                         /\ proc'[q].match \in 0..Len(prints)
    <3>1. Len(prints) \in Nat /\ r.at \in Places
      BY StoresTyped DEF ProcStates
    <3> QED
      BY <1>1, <1>2, <1>3, <3>1 DEF DatabaseInv, TypeOK
  <2> QED
    BY <2>1 DEF DatabaseInv, TypeOK
<1>6. ProcTyped'
  BY <1>1, <1>2, <1>3 DEF DatabaseInv, ProcTyped, Active, At, WithHash
<1>7. IdsDistinct'
  BY <1>1, <1>2, <1>3 DEF DatabaseInv, IdsDistinct, Active, At
<1>8. EvidenceHasRun'
  BY DEF DatabaseInv, EvidenceHasRun
<1>9. RunFirst'
  BY <1>2, <1>3, <1>4 DEF DatabaseInv, RunFirst, RunRecorded
<1>10. FirstByTarget'
  <2>1. ASSUME NEW i \in DOMAIN prints, NEW q \in Procs, Active(q)',
               prints[i].first[1] = proc'[q].id
        PROVE  \E j \in 1..proc'[q].next :
                 /\ Targets[j] = prints[i].first[2]
                 /\ j < proc'[q].next \/ proc'[q].at \in PrintPassed
    <3>1. PICK j \in 1..proc[q].next :
            /\ Targets[j] = prints[i].first[2]
            /\ j < proc[q].next \/ proc[q].at \in PrintPassed
      BY <1>1, <1>2, <1>3, <2>1 DEF DatabaseInv, FirstByTarget, Active, At
    <3>2. CASE q # p
      BY <1>2, <3>1, <3>2
    <3>3. CASE q = p
      BY <1>1, <1>2, <1>3, <3>1, <3>3 DEF PrintPassed
    <3> QED
      BY <3>2, <3>3
  <2> QED
    BY <2>1 DEF DatabaseInv, FirstByTarget
<1>11. NotItself'
  BY <1>1, <1>2, <1>4 DEF DatabaseInv, NotItself
<1> QED
  BY <1>5, <1>6, <1>7, <1>8, <1>9, <1>10, <1>11 DEF DatabaseInv

LEMMA UpdateHistoryInv ==
  ASSUME DatabaseInv, NEW p \in Procs, UpdateHistory(p)
  PROVE  DatabaseInv'
<1>1. /\ UNCHANGED <<sessions, runs, prints, hypotheses, patterns, analyses>>
      /\ proc[p].at = "history"
      /\ \/ /\ record[p] = Nil /\ Advance(p) /\ UNCHANGED <<file, record>>
         \/ /\ record[p] # Nil /\ record' = [record EXCEPT ![p] = WithRun(@, proc[p].id)]
            /\ file' \in {file, Empty}
            /\ Goto(p, "writing") \/ Advance(p)
  BY DEF UpdateHistory, RecordAndTruncate, RecordUnsaved, Working, Failing, sessionVars,
         metadataVars, At
<1>2. proc[p].id \in 1..MaxAnalyses
  BY <1>1 DEF DatabaseInv, ProcTyped, Active, At
<1>3. CASE record[p] = Nil /\ Advance(p) /\ UNCHANGED <<file, record>>
  BY <1>1, <1>3, AdvanceStep, StoresTyped DEF SessionTyped
<1>4. CASE /\ record[p] # Nil /\ record' = [record EXCEPT ![p] = WithRun(@, proc[p].id)]
           /\ file' \in {file, Empty}
           /\ Goto(p, "writing") \/ Advance(p)
  <2>1. record \in [Procs -> Records \cup {Nil}] /\ file \in Records \cup Unreadable \cup {Absent}
    BY StoresTyped DEF SessionTyped
  <2>2. WithRun(record[p], proc[p].id) \in Records
    BY <1>2, <1>4, <2>1, RecordTyped
  <2>3. /\ SessionTyped' /\ \A q \in Procs : q # p => record'[q] = record[q]
        /\ record'[p] \in Records
    BY <1>4, <2>1, <2>2 DEF SessionTyped, Unreadable
  <2>4. CASE Advance(p)
    BY <1>1, <2>3, <2>4, AdvanceStep
  <2>5. CASE Goto(p, "writing")
    <3>1. sessions' \subseteq Operators \cup {Legacy} /\ patterns' \in [Operators -> Nat]
      BY <1>1, StoresTyped
    <3> QED
      BY <1>1, <2>3, <2>5, <3>1, GotoStep
      DEF Active, At, Places, WithHash, RunRecorded, PrintPassed
  <2> QED
    BY <1>4, <2>4, <2>5
<1> QED
  BY <1>1, <1>3, <1>4

LEMMA WriteSessionInv ==
  ASSUME DatabaseInv, NEW p \in Procs, WriteSession(p)
  PROVE  DatabaseInv'
<1>1. /\ UNCHANGED <<record, sessions, runs, prints, hypotheses, patterns, analyses>>
      /\ proc[p].at = "writing" /\ Advance(p)
      /\ file' \in {file, record[p], Torn}
  BY DEF WriteSession, Write, WriteCut, Working, Failing, metadataVars, At
<1>2. record[p] \in Records
  BY <1>1 DEF DatabaseInv, ProcTyped, At
<1>3. SessionTyped'
  BY <1>1, <1>2, StoresTyped DEF SessionTyped, Unreadable
<1> QED
  BY <1>1, <1>3, AdvanceStep

\* A process ends, or is killed wherever it is: its memory is lost, the stores are not.
LEMMA LeaveStep ==
  ASSUME DatabaseInv, NEW p \in Procs, NEW midWrite \in BOOLEAN, Forget(p, midWrite),
         proc' = [proc EXCEPT ![p] = Resting],
         UNCHANGED <<sessions, runs, prints, hypotheses, patterns, analyses>>
  PROVE  DatabaseInv'
<1>1. Resting \in ProcStates
  BY TargetIsOperator, EmptySeq DEF Resting, ProcStates, Places
<1>2. Resting.at = "idle" /\ Resting.next = 1 /\ Resting.row = 0 /\ Resting.match = 0
  BY DEF Resting
<1>3. /\ proc' \in [Procs -> ProcStates] /\ proc'[p] = Resting
      /\ \A q \in Procs : q # p => proc'[q] = proc[q]
  BY <1>1, OneMoves, StoresTyped
<1>4. SessionTyped' /\ \A q \in Procs : q # p => record'[q] = record[q]
  BY StoresTyped DEF Forget, SessionTyped, Unreadable
<1>5. \A q \in Procs : q # p => Op(q)' = Op(q) /\ Run(q)' = Run(q)
  BY <1>3 DEF Op, Run
<1>6. TypeOK'
  BY <1>2, <1>3, <1>4, StoresTyped, TargetIsOperator, SMTT(30) DEF DatabaseInv, TypeOK, Places
<1>7. ProcTyped' /\ IdsDistinct'
  BY <1>2, <1>3, <1>4
  DEF DatabaseInv, ProcTyped, IdsDistinct, Active, At, WithHash
<1>8. EvidenceHasRun' /\ RunFirst'
  BY <1>2, <1>3, <1>5 DEF DatabaseInv, EvidenceHasRun, RunFirst, RunRecorded
<1>9. FirstByTarget'
  BY <1>2, <1>3 DEF DatabaseInv, FirstByTarget, Active, At
<1>10. NotItself'
  BY <1>2, <1>3, <1>5 DEF DatabaseInv, NotItself
<1> QED
  BY <1>6, <1>7, <1>8, <1>9, <1>10 DEF DatabaseInv

\* A new analysis has an identifier that no running analysis and no row has.
LEMMA BeginInv ==
  ASSUME DatabaseInv, NEW p \in Procs, Begin(p)
  PROVE  DatabaseInv'
<1>1. /\ analyses \in 0..MaxAnalyses /\ analyses < MaxAnalyses /\ analyses' = analyses + 1
      /\ proc[p].at = "idle"
      /\ UNCHANGED <<file, record, sessions, runs, prints, hypotheses, patterns>>
  BY DEF DatabaseInv, ProcTyped, Begin, At, sessionVars, metadataVars
<1>2. PICK n \in 1..MaxAnalyses : n = analyses'
  BY <1>1
<1>0. n \in 0..MaxAnalyses /\ 1 \in 1..Len(Targets)
  BY TargetIsOperator
<1>3. PICK r \in ProcStates :
        /\ proc' = [proc EXCEPT ![p] = r] /\ r.id = n /\ r.at \in {"importing", "loading"}
        /\ r.next = 1 /\ r.row = 0 /\ r.match = 0
  <2>1. CASE file \in Unreadable \cup {Absent}
    <3> DEFINE r == [Resting EXCEPT !.id = n, !.at = "loading"]
    <3>1. r \in ProcStates
      BY <1>0, EmptySeq DEF Resting, ProcStates, Places
    <3>2. r.id = n /\ r.at = "loading" /\ r.next = 1 /\ r.row = 0 /\ r.match = 0
      BY DEF Resting
    <3>3. proc' = [proc EXCEPT ![p] = r]
      BY <1>2, <2>1 DEF Begin
    <3> HIDE DEF r
    <3> QED
      BY <3>1, <3>2, <3>3
  <2>2. CASE file \notin Unreadable \cup {Absent}
    <3> DEFINE r == [Resting EXCEPT !.id = n, !.at = "importing", !.todo = file.history]
    <3>0. file.history \in Seq(Entries)
      BY <2>2, StoresTyped DEF SessionTyped, Records
    <3>1. r \in ProcStates
      BY <1>0, <3>0 DEF Resting, ProcStates, Places
    <3>2. r.id = n /\ r.at = "importing" /\ r.next = 1 /\ r.row = 0 /\ r.match = 0
      BY DEF Resting
    <3>3. proc' = [proc EXCEPT ![p] = r]
      BY <1>2, <2>2 DEF Begin
    <3> HIDE DEF r
    <3> QED
      BY <3>1, <3>2, <3>3
  <2> QED
    BY <2>1, <2>2
<1>4. /\ proc' \in [Procs -> ProcStates] /\ proc'[p] = r
      /\ \A q \in Procs : q # p => proc'[q] = proc[q]
  BY <1>3, OneMoves, StoresTyped
<1>5. \A q \in Procs : q # p => Op(q)' = Op(q) /\ Run(q)' = Run(q)
  BY <1>4 DEF Op, Run
<1>6. TypeOK'
  <2>1. r.at \in Places /\ r.next \in 1..Len(Targets) /\ Len(prints) \in Nat
    BY StoresTyped DEF ProcStates
  <2>2. \A q \in Procs : /\ proc'[q].at \in Places
                         /\ proc'[q].next \in 1..Len(Targets)
                         /\ proc'[q].row \in 0..Len(prints)
                         /\ proc'[q].match \in 0..Len(prints)
    BY <1>3, <1>4, <2>1 DEF DatabaseInv, TypeOK
  <2> QED
    BY <1>1, <2>2 DEF DatabaseInv, TypeOK, SessionTyped
<1>7. ProcTyped'
  <2>1. analyses' \in 0..MaxAnalyses /\ n \in 1..analyses'
    BY <1>1, <1>2
  <2>2. \A q \in Procs : q # p /\ Active(q) => proc[q].id \in 1..analyses'
    BY <1>1 DEF DatabaseInv, ProcTyped
  <2>3. ASSUME NEW q \in Procs
        PROVE  /\ Active(q)' => proc'[q].id \in 1..analyses'
               /\ proc'[q].at \in WithHash => proc'[q].hash \in Hashes
               /\ At(q, "writing")' => record'[q] \in Records
    BY <1>1, <1>3, <1>4, <2>1, <2>2 DEF DatabaseInv, ProcTyped, Active, At, WithHash
  <2> QED
    BY <1>4, <2>1, <2>3 DEF ProcTyped
<1>8. IdsDistinct'
  <2>1. \A q \in Procs : q # p /\ Active(q)' => proc'[q].id # n
    BY <1>1, <1>2, <1>4 DEF DatabaseInv, ProcTyped, Active, At
  <2> QED
    BY <1>3, <1>4, <2>1 DEF DatabaseInv, IdsDistinct, Active, At
<1>9. EvidenceHasRun' /\ RunFirst'
  BY <1>1, <1>3, <1>4, <1>5 DEF DatabaseInv, EvidenceHasRun, RunFirst, RunRecorded
<1>10. FirstByTarget'
  <2>1. \A i \in DOMAIN prints : prints[i].first[1] \in Nat
    <3>1. \A i \in DOMAIN prints : prints[i] \in PrintRow
      BY StoresTyped, ElementOfSeq
    <3>2. \A i \in DOMAIN prints : prints[i].first \in RunsOf
      BY <3>1 DEF PrintRow
    <3> QED
      BY <3>2 DEF RunsOf
  <2>2. \A i \in DOMAIN prints : prints[i].first[1] <= analyses' /\ prints[i].first[1] # n
    BY <1>1, <1>2, <2>1 DEF DatabaseInv, FirstByTarget
  <2> QED
    BY <1>1, <1>3, <1>4, <2>2 DEF DatabaseInv, FirstByTarget, Active, At
<1>11. NotItself'
  BY <1>1, <1>3, <1>4, <1>5 DEF DatabaseInv, NotItself
<1> QED
  BY <1>6, <1>7, <1>8, <1>9, <1>10, <1>11 DEF DatabaseInv

LEMMA StepInv ==
  ASSUME DatabaseInv, NEW p \in Procs, Step(p)
  PROVE  DatabaseInv'
<1>1. CASE Finish(p)
  BY <1>1, LeaveStep DEF Finish, metadataVars, historyVars
<1> QED
  BY <1>1, ImportSessionInv, ImportRunInv, LoadSessionInv, LookupInv, StoreSessionInv,
     StoreRunInv, SelectPrintInv, StorePrintInv, StoreHypothesesInv, StorePatternInv,
     UpdateHistoryInv, WriteSessionInv
  DEF Step

LEMMA KillInv ==
  ASSUME DatabaseInv, NEW p \in Procs, Kill(p)
  PROVE  DatabaseInv'
<1>1. At(p, "writing") \in BOOLEAN
  BY DEF At
<1> QED
  BY <1>1, LeaveStep DEF Kill, metadataVars

LEMMA StutterInv == DatabaseInv /\ UNCHANGED vars => DatabaseInv'
<1> SUFFICES ASSUME DatabaseInv, UNCHANGED vars PROVE DatabaseInv'
  OBVIOUS
<1>1. UNCHANGED <<file, record, sessions, runs, prints, hypotheses, patterns, proc, analyses>>
  BY DEF vars, sessionVars, metadataVars, historyVars
<1>2. TypeOK' /\ ProcTyped' /\ IdsDistinct'
  BY <1>1 DEF DatabaseInv, TypeOK, SessionTyped, ProcTyped, IdsDistinct, Active, At
<1>3. EvidenceHasRun' /\ RunFirst' /\ FirstByTarget' /\ NotItself'
  BY <1>1 DEF DatabaseInv, EvidenceHasRun, RunFirst, FirstByTarget, NotItself, Active, At,
              Op, Run
<1> QED
  BY <1>2, <1>3 DEF DatabaseInv

LEMMA InitInv == Init => DatabaseInv
<1> SUFFICES ASSUME Init PROVE DatabaseInv
  OBVIOUS
<1>1. \A p \in Procs : proc[p].at = "idle" /\ proc[p].match = 0
  BY DEF Init, Resting
<1>2. prints = <<>> /\ hypotheses = {}
  BY DEF Init, MetadataInit
<1>3. DOMAIN prints = {}
  BY <1>2, EmptySeq
<1>4. IdsDistinct /\ RunFirst /\ EvidenceHasRun /\ FirstByTarget /\ NotItself
  BY <1>1, <1>2, <1>3
  DEF IdsDistinct, RunFirst, EvidenceHasRun, FirstByTarget, NotItself, Active, At, RunRecorded
<1> QED
  BY <1>4, InitTyped DEF DatabaseInv

-----------------------------------------------------------------------------
(* The history of analyses that run one after another.                     *)

\* The number of an entry tells its analysis.
LEMMA Division ==
  ASSUME NEW a \in Nat, NEW m \in Nat \ {0}, NEW k \in 0..(m - 1)
  PROVE  (a * m + k) \div m = a
OBVIOUS

LEMMA Product ==
  ASSUME NEW a \in Nat, NEW m \in Nat
  PROVE  a * m \in Nat /\ (a + 1) * m = a * m + m
OBVIOUS

\* Recording the next run in a whole record leaves a whole record.
LEMMA WholeGrows ==
  ASSUME NEW a \in 1..MaxAnalyses, NEW c \in Nat, 1 + c \div Len(Targets) = a,
         NEW r, Whole(r, c)
  PROVE  Whole(WithRun(r, a), c + 1)
<1> DEFINE e == [num |-> c + 1, of |-> a]
           h == Append(r.history, e)
           k == Recent(h)
<1>1. /\ r \in Records /\ r.count = c /\ r.history \in Seq(Entries)
      /\ Len(r.history) = IF c < Keep THEN c ELSE Keep
      /\ \A i \in 1..Len(r.history) : r.history[i] = Entry(c - Len(r.history) + i)
  <2>1. r \in Records
    BY DEF Whole
  <2>2. r.history \in Seq(Entries)
    BY <2>1 DEF Records
  <2> HIDE DEF e, h, k
  <2> QED BY <2>1, <2>2, Zenon DEF Whole
<1>2. e \in Entries /\ e = Entry(c + 1) /\ c + 1 \in Nat
  <2>1. c + 1 \in Nat \ {0} /\ (c + 1) - 1 = c
    OBVIOUS
  <2> QED
    BY <2>1 DEF Entries, Entry
<1>3. WithRun(r, a) = [count |-> c + 1, history |-> k]
  BY <1>1 DEF WithRun
<1> HIDE DEF e
<1>4. /\ h \in Seq(Entries) /\ Len(h) = Len(r.history) + 1
      /\ \A i \in 1..Len(r.history) : h[i] = r.history[i]
      /\ h[Len(r.history) + 1] = e
  BY <1>1, <1>2, AppendProperties, SMTT(30)
<1>5. PICK n \in Nat : n = Len(r.history) /\ n + 1 <= Keep + 1
  BY <1>1
<1> HIDE DEF h
<1>6. /\ k \in Seq(Entries)
      /\ Len(k) = IF n + 1 > Keep THEN Keep ELSE n + 1
      /\ \A i \in 1..Len(k) : k[i] = h[n + 1 - Len(k) + i]
  <2>1. Len(h) = n + 1 /\ Len(h) <= Keep + 1
    BY <1>4, <1>5
  <2>2. /\ k \in Seq(Entries)
        /\ Len(k) = IF Len(h) > Keep THEN Keep ELSE Len(h)
        /\ \A i \in 1..Len(k) : k[i] = h[Len(h) - Len(k) + i]
    BY <1>4, <2>1, RecentProperties, Zenon
  <2> HIDE DEF k
  <2> QED
    BY <2>1, <2>2
<1> HIDE DEF k
<1>7. PICK m \in Nat : m = Len(k) /\ m <= n + 1
  BY <1>6
<1>8. m = IF c + 1 < Keep THEN c + 1 ELSE Keep
  BY <1>1, <1>5, <1>6, <1>7
<1>9. \A i \in 1..(n + 1) : h[i] = Entry(c - n + i)
  <2> TAKE i \in 1..(n + 1)
  <2>1. CASE i \in 1..n
    BY <1>1, <1>4, <1>5, <2>1
  <2>2. CASE i = n + 1
    <3>1. c - n + i = c + 1
      BY <2>2
    <3> QED
      BY <1>2, <1>4, <1>5, <2>2, <3>1
  <2> QED
    BY <2>1, <2>2
<1>10. \A i \in 1..m : k[i] = Entry(c + 1 - m + i)
  <2> TAKE i \in 1..m
  <2>0. m <= n + 1
    BY <1>7
  <2> DEFINE d == n + 1 - m + i
  <2> d \in 1..(n + 1)
    BY <2>0
  <2>1. PICK j \in 1..(n + 1) : j = d
    OBVIOUS
  <2>2. k[i] = h[j] /\ h[j] = Entry(c - n + j)
    BY <1>6, <1>7, <1>9, <2>1
  <2>3. c - n + j = c + 1 - m + i
    BY <2>1
  <2> QED
    BY <2>2, <2>3
<1>11. [count |-> c + 1, history |-> k] \in Records
  BY <1>2, <1>6 DEF Records
<1>12. WithRun(r, a).count = c + 1 /\ WithRun(r, a).history = k
  BY <1>3
<1>13. Len(k) = IF c + 1 < Keep THEN c + 1 ELSE Keep
  BY <1>7, <1>8
<1>14. \A i \in 1..Len(k) : k[i] = Entry(c + 1 - Len(k) + i)
  BY <1>7, <1>10
<1> DEFINE R == WithRun(r, a)
<1>15. R \in Records /\ R.count = c + 1
  BY <1>3, <1>11, <1>12
<1>16. Len(R.history) = IF c + 1 < Keep THEN c + 1 ELSE Keep
  BY <1>12, <1>13
<1>17. \A i \in 1..Len(R.history) : R.history[i] = Entry(c + 1 - Len(R.history) + i)
  BY <1>12, <1>14
<1> HIDE DEF R
<1>18. Whole(R, c + 1)
  BY <1>15, <1>16, <1>17 DEF Whole
<1> QED
  BY <1>18 DEF R

\* What is known of the entry that a target is to add.
LEMMA RecordedFacts ==
  ASSUME NEW p \in Procs, proc[p].id \in 1..MaxAnalyses, proc[p].next \in 1..Len(Targets)
  PROVE  /\ Recorded(p) \in Nat
         /\ 1 + Recorded(p) \div Len(Targets) = proc[p].id
         /\ proc[p].next = 1 => Recorded(p) = (proc[p].id - 1) * Len(Targets)
         /\ proc[p].next = Len(Targets) => Recorded(p) + 1 = proc[p].id * Len(Targets)
<1>1. PICK a \in Nat : a = proc[p].id - 1 /\ proc[p].id = a + 1
  OBVIOUS
<1>2. PICK k \in Nat : k = proc[p].next - 1 /\ proc[p].next = k + 1
  BY TargetIsOperator, SMTT(30)
<1>3. PICK m \in Nat : m = a * Len(Targets) /\ (a + 1) * Len(Targets) = m + Len(Targets)
  BY Product, TargetIsOperator
<1>4. Recorded(p) = m + k
  BY <1>1, <1>2, <1>3 DEF Recorded
<1>5. (m + k) \div Len(Targets) = a
  <2>1. k \in 0..(Len(Targets) - 1)
    BY <1>2, TargetIsOperator
  <2> QED
    BY <1>3, <2>1, Division, TargetIsOperator
<1>6. Recorded(p) \in Nat /\ 1 + Recorded(p) \div Len(Targets) = proc[p].id
  BY <1>1, <1>4, <1>5
<1>7. proc[p].next = 1 => Recorded(p) = (proc[p].id - 1) * Len(Targets)
  <2>1. proc[p].next = 1 => m + k = m
    BY <1>2
  <2>2. (proc[p].id - 1) * Len(Targets) = m
    BY <1>1, <1>3
  <2> QED
    BY <1>4, <2>1, <2>2
<1>8. proc[p].next = Len(Targets) => Recorded(p) + 1 = proc[p].id * Len(Targets)
  <2>1. k + 1 = Len(Targets) => m + k + 1 = m + Len(Targets)
    BY TargetIsOperator
  <2> QED
    BY <1>1, <1>2, <1>3, <1>4, <2>1
<1> QED
  BY <1>6, <1>7, <1>8

\* A statement of the database leaves the session alone, whether it works or fails.
LEMMA DatabaseSteps ==
  ASSUME ProcTyped, NEW p \in Procs,
         \/ ImportSession(p) \/ ImportRun(p) \/ Lookup(p) \/ StoreSession(p) \/ StoreRun(p)
         \/ SelectPrint(p) \/ StorePrint(p) \/ StoreHypotheses(p) \/ StorePattern(p)
  PROVE  /\ UNCHANGED <<file, record, analyses, kills, overlap>>
         /\ failures' \in {failures, failures + 1}
         /\ \A q \in Procs : q # p => proc'[q] = proc[q]
         /\ proc'[p].id = proc[p].id /\ proc'[p].next = proc[p].next
         /\ \/ {proc[p].at, proc'[p].at} \subseteq BeforeLoad
            \/ {proc[p].at, proc'[p].at} \subseteq InTarget
<1> USE DEF ProcTyped, ProcStates, Working, Failing, Goto, At, InTarget, BeforeLoad,
            sessionVars, metadataVars
<1>1. CASE ImportSession(p)
  BY <1>1 DEF ImportSession
<1>2. CASE ImportRun(p)
  BY <1>2, SMTT(30) DEF ImportRun
<1>3. CASE Lookup(p)
  <2>1. /\ UNCHANGED <<file, record, analyses, kills, overlap>>
        /\ failures' \in {failures, failures + 1} /\ proc[p].at = "lookup"
    BY <1>3 DEF Lookup
  <2>2. \E h, i : \/ proc' = [proc EXCEPT ![p].at = "session", ![p].hash = h, ![p].match = i]
                 \/ proc' = [proc EXCEPT ![p].at = "session", ![p].hash = h]
    BY <1>3 DEF Lookup
  <2>3. /\ \A q \in Procs : q # p => proc'[q] = proc[q]
        /\ proc'[p].id = proc[p].id /\ proc'[p].next = proc[p].next
        /\ proc'[p].at = "session"
    BY <2>2, SMTT(30)
  <2> QED
    BY <2>1, <2>3
<1>4. CASE StoreSession(p)
  BY <1>4, SMTT(20) DEF StoreSession
<1>5. CASE StoreRun(p)
  BY <1>5, SMTT(20) DEF StoreRun
<1>6. CASE SelectPrint(p)
  BY <1>6, SMTT(30) DEF SelectPrint
<1>7. CASE StorePrint(p)
  BY <1>7 DEF StorePrint
<1>8. CASE StoreHypotheses(p)
  BY <1>8 DEF StoreHypotheses
<1>9. CASE StorePattern(p)
  BY <1>9 DEF StorePattern
<1> QED
  BY <1>1, <1>2, <1>3, <1>4, <1>5, <1>6, <1>7, <1>8, <1>9

\* While nothing has gone wrong, a step of the one process that runs keeps the history
\* whole if it does so for that process.
LEMMA ContinueStep ==
  ASSUME DatabaseInv, Continuity, NEW p \in Procs, Active(p),
         analyses' = analyses, kills' = kills, overlap' = overlap,
         failures' \in {failures, failures + 1},
         \A q \in Procs : q # p => proc'[q] = proc[q],
         proc'[p].at # "idle", proc'[p].id = proc[p].id,
         failures' = failures /\ Unharmed /\ Continues(p) => Continues(p)'
  PROVE  Continuity'
<1> USE DEF Active, At
<1>1. failures' \in Nat /\ kills' \in Nat
  BY DEF Continuity
<1>2. ASSUME Unharmed'
      PROVE  /\ \A q \in Procs : Active(q)' => proc'[q].id = analyses' /\ Continues(q)'
             /\ ~(\A q \in Procs : ~Active(q)')
  <2>1. failures' = failures /\ Unharmed
    BY <1>2 DEF Continuity, Unharmed
  <2>2. proc[p].id = analyses /\ Continues(p)'
    BY <2>1 DEF Continuity
  <2>3. \A q \in Procs : Active(q) => q = p
    BY <2>1, <2>2 DEF Continuity, DatabaseInv, IdsDistinct
  <2> QED
    BY <2>2, <2>3
<1> QED
  BY <1>1, <1>2 DEF Continuity

LEMMA DatabaseContinuity ==
  ASSUME DatabaseInv, Continuity, NEW p \in Procs,
         \/ ImportSession(p) \/ ImportRun(p) \/ Lookup(p) \/ StoreSession(p) \/ StoreRun(p)
         \/ SelectPrint(p) \/ StorePrint(p) \/ StoreHypotheses(p) \/ StorePattern(p)
  PROVE  Continuity'
<1>1. /\ UNCHANGED <<file, record, analyses, kills, overlap>>
      /\ failures' \in {failures, failures + 1}
      /\ \A q \in Procs : q # p => proc'[q] = proc[q]
      /\ proc'[p].id = proc[p].id /\ proc'[p].next = proc[p].next
      /\ \/ {proc[p].at, proc'[p].at} \subseteq BeforeLoad
         \/ {proc[p].at, proc'[p].at} \subseteq InTarget
  BY DatabaseSteps DEF DatabaseInv
<1>2. Continues(p) => Continues(p)'
  BY <1>1 DEF Continues, Recorded, Left, Whole, At, BeforeLoad, InTarget
<1>3. Active(p) /\ proc'[p].at # "idle"
  BY <1>1 DEF Active, At, BeforeLoad, InTarget
<1> QED
  BY <1>1, <1>2, <1>3, ContinueStep

LEMMA NewRecordWhole == Whole(NewRecord, 0)
BY NewRecordTyped, EmptySeq DEF Whole, NewRecord

\* What the analyses before have left is loaded as it is.
LEMMA LoadContinuity ==
  ASSUME DatabaseInv, Continuity, NEW p \in Procs, LoadSession(p)
  PROVE  Continuity'
<1> DEFINE before == proc[p].id - 1
<1>1. /\ UNCHANGED <<file, analyses, failures, kills, overlap>>
      /\ record' = [record EXCEPT ![p] = Loaded]
      /\ Goto(p, "lookup") /\ proc[p].at = "loading"
  BY DEF LoadSession, Load, historyVars, At
<1>2. /\ proc[p].id \in 1..MaxAnalyses /\ before \in Nat
      /\ record \in [Procs -> Records \cup {Nil}]
      /\ proc \in [Procs -> ProcStates]
  <2>1. proc[p].id \in 1..analyses /\ analyses \in 0..MaxAnalyses
    BY <1>1 DEF DatabaseInv, ProcTyped, Active, At
  <2> QED
    BY <2>1, StoresTyped DEF SessionTyped
<1>3. /\ \A q \in Procs : q # p => proc'[q] = proc[q]
      /\ proc'[p].at = "lookup" /\ proc'[p].id = proc[p].id /\ proc'[p].next = proc[p].next
  BY <1>1, <1>2 DEF Goto, ProcStates
<1>4. ASSUME Continues(p) PROVE Continues(p)'
  <2>1. proc[p].next = 1 /\ Left(before)
    BY <1>1, <1>4 DEF Continues, BeforeLoad
  <2>2. Whole(Loaded, before * Len(Targets))
    <3>1. CASE before = 0
      <4>1. Loaded = NewRecord
        BY <2>1, <3>1, MarksAssumption DEF Left, Loaded
      <4>2. before * Len(Targets) = 0
        BY <3>1, TargetIsOperator
      <4> QED
        BY <4>1, <4>2, NewRecordWhole
    <3>2. CASE before # 0
      <4>1. Whole(file, before * Len(Targets)) /\ file \in Records
        BY <2>1, <3>2 DEF Left, Whole
      <4>2. Loaded = file
        BY <4>1, MarksAssumption DEF Loaded, Unreadable
      <4> QED
        BY <4>1, <4>2
    <3> QED
      BY <3>1, <3>2
  <2>3. Recorded(p) = before * Len(Targets) /\ Recorded(p)' = Recorded(p)
    BY <1>2, <1>3, <2>1, RecordedFacts, TargetIsOperator DEF Recorded
  <2>4. Whole(record'[p], Recorded(p)')
    BY <1>1, <1>2, <2>2, <2>3
  <2>5. proc'[p].at \notin BeforeLoad /\ proc'[p].at # "writing" /\ proc'[p].at # "done"
    BY <1>3 DEF BeforeLoad
  <2> QED
    BY <2>4, <2>5 DEF Continues, At
<1>5. Active(p)
  BY <1>1 DEF Active, At
<1> QED
  BY <1>1, <1>3, <1>4, <1>5, ContinueStep

\* The session file is only emptied to be written at once with one more run.
LEMMA UpdateContinuity ==
  ASSUME DatabaseInv, Continuity, NEW p \in Procs, UpdateHistory(p)
  PROVE  Continuity'
<1> USE DEF Active, At
<1>1. /\ proc[p].at = "history" /\ UNCHANGED <<analyses, kills, overlap>>
      /\ failures' \in {failures, failures + 1}
      /\ (record[p] = Nil /\ Advance(p)) \/ Goto(p, "writing") \/ Advance(p)
  BY DEF UpdateHistory, Working, Failing
<1>2. /\ proc[p].id \in 1..MaxAnalyses /\ proc \in [Procs -> ProcStates]
      /\ proc[p].next \in 1..Len(Targets)
      /\ record \in [Procs -> Records \cup {Nil}]
  <2>1. ProcTyped /\ SessionTyped
    BY StoresTyped
  <2>2. proc[p] \in ProcStates /\ proc[p].id \in 1..analyses /\ analyses \in 0..MaxAnalyses
    BY <1>1, <2>1 DEF ProcTyped, DatabaseInv, TypeOK
  <2>3. proc[p].id \in 1..MaxAnalyses
    BY <2>2, IdBounded, Zenon
  <2> HIDE DEF DatabaseInv
  <2> QED
    BY <2>1, <2>2, <2>3 DEF ProcTyped, ProcStates, SessionTyped
<1>3. \E r \in ProcStates : /\ proc' = [proc EXCEPT ![p] = r] /\ r.id = proc[p].id
                            /\ r.at \in {"writing", "lookup", "done"}
  BY <1>1, GotoMoves, AdvanceMoves, StoresTyped DEF Places
<1>4. /\ \A q \in Procs : q # p => proc'[q] = proc[q]
      /\ proc'[p].at # "idle" /\ proc'[p].id = proc[p].id
  BY <1>3, OneMoves, StoresTyped
<1>5. ASSUME failures' = failures, Unharmed, Continues(p)
      PROVE  Continues(p)'
  <2>1. Whole(record[p], Recorded(p))
    BY <1>1, <1>5 DEF Continues, InTarget
  <2>2. record[p] # Nil
    BY <2>1, MarksAssumption DEF Whole
  <2>3. RecordAndTruncate(p, proc[p].id) /\ Goto(p, "writing")
    BY <1>5, <2>2 DEF UpdateHistory, Failing, Continuity
  <2>4. /\ file' = Empty /\ record'[p] = WithRun(record[p], proc[p].id)
        /\ proc'[p].at = "writing" /\ proc'[p].next = proc[p].next
    BY <1>2, <2>3 DEF RecordAndTruncate, Goto, ProcStates
  <2>5. Whole(WithRun(record[p], proc[p].id), Recorded(p) + 1)
    BY <1>2, <2>1, WholeGrows, RecordedFacts
  <2>6. Whole(record'[p], Recorded(p)' + 1)
    BY <1>4, <2>4, <2>5 DEF Recorded
  <2>7. proc'[p].at \notin BeforeLoad /\ proc'[p].at \notin InTarget /\ proc'[p].at # "done"
    BY <2>4 DEF BeforeLoad, InTarget
  <2> QED
    BY <2>4, <2>6, <2>7 DEF Continues
<1> QED
  BY <1>1, <1>4, <1>5, ContinueStep

\* Nobody else has written to the file, so that it holds the record as it was written.
LEMMA WriteContinuity ==
  ASSUME DatabaseInv, Continuity, NEW p \in Procs, WriteSession(p)
  PROVE  Continuity'
<1> USE DEF Active, At
<1>1. /\ proc[p].at = "writing" /\ Advance(p) /\ UNCHANGED <<record, analyses, kills, overlap>>
      /\ failures' \in {failures, failures + 1}
      /\ failures' = failures => Write(p) \/ failures \notin Nat
  BY DEF WriteSession, Write, WriteCut, Working, Failing
<1>2. /\ proc[p].id \in 1..MaxAnalyses /\ proc[p].next \in 1..Len(Targets)
      /\ Len(Targets) \in Nat
  BY <1>1, StoresTyped, TargetIsOperator DEF DatabaseInv, ProcTyped, ProcStates
<1>3. PICK r \in ProcStates :
        /\ proc' = [proc EXCEPT ![p] = r] /\ r.id = proc[p].id
        /\ \/ proc[p].next < Len(Targets) /\ r.at = "lookup" /\ r.next = proc[p].next + 1
           \/ proc[p].next = Len(Targets) /\ r.at = "done" /\ r.next = proc[p].next
  BY <1>1, AdvanceMoves, StoresTyped
<1>4. proc'[p] = r /\ \A q \in Procs : q # p => proc'[q] = proc[q]
  BY <1>3, OneMoves, StoresTyped
<1>5. ASSUME failures' = failures, Unharmed, Continues(p)
      PROVE  Continues(p)'
  <2>1. file = Empty /\ Whole(record[p], Recorded(p) + 1)
    BY <1>1, <1>5 DEF Continues
  <2>2. file' = record[p] /\ record'[p] = record[p]
    BY <1>1, <1>5, <2>1 DEF Write, Continuity
  <2>3. CASE proc[p].next < Len(Targets)
    <3>1. r.at = "lookup" /\ r.next = proc[p].next + 1
      BY <1>2, <1>3, <2>3
    <3>2. Recorded(p)' = Recorded(p) + 1
      <4> DEFINE Before(id) == (id - 1) * Len(Targets)
      <4>1. Recorded(p) = Before(proc[p].id) + (proc[p].next - 1)
        BY Zenon DEF Recorded
      <4>2. Recorded(p)' = Before(proc'[p].id) + (proc'[p].next - 1)
        BY Zenon DEF Recorded
      <4>3. Before(proc[p].id) \in Nat
        BY <1>2, Product, SMTT(30)
      <4>4. proc'[p].id = proc[p].id /\ proc'[p].next = proc[p].next + 1
        BY <1>3, <1>4, <3>1
      <4> HIDE DEF Before
      <4>5. Before(proc'[p].id) = Before(proc[p].id)
        BY <4>4
      <4> QED
        BY <1>2, <4>1, <4>2, <4>3, <4>4, <4>5
    <3>3. Whole(record'[p], Recorded(p)')
      BY <2>1, <2>2, <3>2
    <3>4. proc'[p].at \notin BeforeLoad /\ proc'[p].at # "writing" /\ proc'[p].at # "done"
      BY <1>4, <3>1 DEF BeforeLoad
    <3> QED
      BY <3>3, <3>4 DEF Continues
  <2>4. CASE proc[p].next = Len(Targets)
    <3>1. r.at = "done"
      BY <1>2, <1>3, <2>4
    <3>2. Recorded(p) + 1 = proc[p].id * Len(Targets)
      BY <1>2, <2>4, RecordedFacts
    <3>3. Whole(file', proc'[p].id * Len(Targets)) /\ proc'[p].id # 0
      BY <1>2, <1>3, <1>4, <2>1, <2>2, <2>4, <3>2
    <3>4. /\ proc'[p].at \notin BeforeLoad /\ proc'[p].at \notin InTarget
          /\ proc'[p].at # "writing"
      BY <1>4, <3>1 DEF BeforeLoad, InTarget
    <3> QED
      BY <3>3, <3>4 DEF Continues, Left
  <2> QED
    BY <1>2, <2>3, <2>4
<1>6. proc'[p].at # "idle" /\ proc'[p].id = proc[p].id
  BY <1>3, <1>4
<1> QED
  BY <1>1, <1>4, <1>5, <1>6, ContinueStep

LEMMA FinishContinuity ==
  ASSUME DatabaseInv, Continuity, NEW p \in Procs, Finish(p)
  PROVE  Continuity'
<1> USE DEF Active, At
<1>1. /\ UNCHANGED <<analyses, failures, kills, overlap, file>> /\ proc[p].at = "done"
      /\ proc' = [proc EXCEPT ![p] = Resting]
  BY DEF Finish, Forget, historyVars
<1>2. proc'[p].at = "idle" /\ \A q \in Procs : q # p => proc'[q] = proc[q]
  BY <1>1, StoresTyped DEF Resting
<1>3. ASSUME Unharmed'
      PROVE  (\A q \in Procs : ~Active(q)') /\ Left(analyses)'
  <2>1. proc[p].id = analyses /\ Continues(p)
    BY <1>1, <1>3 DEF Continuity, Unharmed
  <2>2. \A q \in Procs : Active(q) => q = p
    BY <1>1, <1>3, <2>1 DEF Continuity, Unharmed, DatabaseInv, IdsDistinct
  <2>3. Left(analyses)
    BY <1>1, <2>1 DEF Continues
  <2> QED
    BY <1>1, <1>2, <2>2, <2>3 DEF Left
<1> QED
  BY <1>1, <1>3 DEF Continuity

\* An analysis that begins while none runs finds what those before it have left.
LEMMA BeginContinuity ==
  ASSUME DatabaseInv, Continuity, NEW p \in Procs, Begin(p)
  PROVE  Continuity'
<1> USE DEF Active, At
<1>1. /\ UNCHANGED <<failures, kills, file, record>> /\ proc[p].at = "idle"
      /\ analyses' = analyses + 1 /\ analyses \in Nat
      /\ overlap' = (overlap \/ \E q \in Procs : proc[q].at # "idle")
  BY DEF Begin, sessionVars, DatabaseInv, ProcTyped
<1>2. /\ \A q \in Procs : q # p => proc'[q] = proc[q]
      /\ proc'[p].id = analyses + 1 /\ proc'[p].next = 1
      /\ proc'[p].at \in {"importing", "loading"}
  BY <1>1, StoresTyped DEF Begin, Resting
<1>3. ASSUME Unharmed'
      PROVE  /\ \A q \in Procs : Active(q)' => proc'[q].id = analyses' /\ Continues(q)'
             /\ ~(\A q \in Procs : ~Active(q)')
  <2>1. Unharmed /\ \A q \in Procs : proc[q].at = "idle"
    BY <1>1, <1>3 DEF Unharmed
  <2>2. Left(analyses)
    BY <2>1 DEF Continuity
  <2>3. Left(proc[p].id - 1)'
    <3>1. proc'[p].id - 1 = analyses
      BY <1>1, <1>2
    <3> QED
      BY <1>1, <2>2, <3>1 DEF Left
  <2>4. Continues(p)'
    BY <1>2, <2>3 DEF Continues, BeforeLoad, InTarget
  <2> QED
    BY <1>1, <1>2, <2>1, <2>4
<1>4. failures' \in Nat /\ kills' \in Nat
  BY <1>1 DEF Continuity
<1> QED
  BY <1>3, <1>4 DEF Continuity

\* What a kill leaves behind is not the whole history.
LEMMA KillContinuity ==
  ASSUME Continuity, NEW p \in Procs, Kill(p)
  PROVE  Continuity'
<1>1. kills' = kills + 1 /\ failures' = failures /\ kills \in Nat /\ failures \in Nat
  BY DEF Kill, Continuity
<1>2. ~Unharmed'
  BY <1>1 DEF Unharmed
<1> QED
  BY <1>1, <1>2 DEF Continuity

LEMMA StutterContinuity == Continuity /\ UNCHANGED vars => Continuity'
BY DEF vars, sessionVars, metadataVars, historyVars, Continuity, Unharmed, Active, At, Left,
       Continues, Recorded, Whole

LEMMA InitContinuity == Init => Continuity
BY DEF Init, SessionInit, Continuity, Active, At, Resting, Left

-----------------------------------------------------------------------------
(* The sessions that can be read, whatever overlaps, fails or dies.        *)

\* The end of a sequence that an entry was appended to, for entries like those here.
LEMMA AppendedLine ==
  ASSUME NEW r \in Records, NEW a \in 1..MaxAnalyses, Together(r), EndsWith(r, a),
         NEW e \in Entries, e.of = a
  PROVE  LET n == Len(r.history)
             h == Append(r.history, e)
         IN  /\ \A i, k \in 1..(n + 1) : h[i].of = h[k].of => \A j \in i..k : h[j].of = h[i].of
             /\ \A i, k \in 1..(n + 1) : i <= k /\ h[i].of = a => h[k].of = a
<1> DEFINE n == Len(r.history)
           h == Append(r.history, e)
<1>0. /\ n \in Nat /\ h[n + 1].of = a
      /\ \A i \in 1..n : h[i] = r.history[i]
  <2>1. r.history \in Seq(Entries)
    BY DEF Records
  <2> QED
    BY <2>1, AppendProperties
<1>1. DOMAIN r.history = 1..n
  BY DEF Records
<1> HIDE DEF n, h
<1>2. ASSUME NEW i \in 1..(n + 1), NEW k \in 1..(n + 1), i <= k, h[i].of = a
      PROVE  h[k].of = a
  <2>1. CASE k = n + 1
    BY <1>0, <2>1
  <2>2. CASE k # n + 1
    <3>1. i \in 1..n /\ k \in 1..n
      BY <1>0, <1>2, <2>2
    <3>2. r.history[i].of = a
      BY <1>0, <1>2, <3>1
    <3>3. r.history[k].of = a
      BY <1>1, <1>2, <3>1, <3>2 DEF EndsWith
    <3> QED
      BY <1>0, <3>1, <3>3
  <2> QED
    BY <2>1, <2>2
<1>3. ASSUME NEW i \in 1..(n + 1), NEW k \in 1..(n + 1), h[i].of = h[k].of, NEW j \in i..k
      PROVE  h[j].of = h[i].of
  <2>1. CASE k = n + 1
    <3>1. h[i].of = a /\ j \in 1..(n + 1) /\ i <= j
      BY <1>0, <1>3, <2>1
    <3> QED
      BY <1>2, <3>1
  <2>2. CASE k # n + 1
    <3>1. k \in 1..n /\ i \in 1..n /\ j \in 1..n
      BY <1>0, <2>2
    <3>2. r.history[i].of = r.history[k].of
      BY <1>0, <1>3, <3>1
    <3>3. r.history[j].of = r.history[i].of
      BY <1>1, <3>1, <3>2 DEF Together
    <3> QED
      BY <1>0, <3>1, <3>3
  <2> QED
    BY <2>1, <2>2
<1> QED
  BY <1>2, <1>3 DEF n, h

\* Recording one more run of an analysis whose entries are the last ones.
LEMMA LineGrows ==
  ASSUME NEW r \in Records, NEW a \in 1..MaxAnalyses, OneLine(r), EndsWith(r, a)
  PROVE  /\ OneLine(WithRun(r, a)) /\ EndsWith(WithRun(r, a), a)
         /\ \A i \in DOMAIN WithRun(r, a).history :
              \/ WithRun(r, a).history[i].of = a
              \/ \E j \in DOMAIN r.history : WithRun(r, a).history[i].of = r.history[j].of
<1> DEFINE e == [num |-> r.count + 1, of |-> a]
           h == Append(r.history, e)
           R == WithRun(r, a)
           k == R.history
<1>1. /\ r.count \in Nat /\ r.history \in Seq(Entries) /\ e \in Entries
      /\ Len(r.history) = IF r.count < Keep THEN r.count ELSE Keep
      /\ \A i \in DOMAIN r.history : r.history[i].num = r.count - Len(r.history) + i
      /\ Together(r)
  BY DEF Records, Entries, OneLine, Numbered
<1>2. PICK n \in Nat : n = Len(r.history) /\ n <= Keep /\ DOMAIN r.history = 1..n
  BY <1>1, KeepAssumption
<1>3. e.num = r.count + 1 /\ e.of = a
  OBVIOUS
<1>4. R.count = r.count + 1 /\ k = Recent(h)
  BY DEF WithRun
<1> HIDE DEF e
<1>5. /\ h \in Seq(Entries) /\ Len(h) = n + 1
      /\ \A i \in 1..n : h[i] = r.history[i]
      /\ h[n + 1] = e
  BY <1>1, <1>2, AppendProperties
<1> HIDE DEF h, R
<1>6. /\ k \in Seq(Entries)
      /\ Len(k) = IF n + 1 > Keep THEN Keep ELSE n + 1
      /\ \A i \in 1..Len(k) : k[i] = h[n + 1 - Len(k) + i]
  <2>1. Len(h) <= Keep + 1
    BY <1>2, <1>5, KeepAssumption
  <2>2. /\ Recent(h) \in Seq(Entries)
        /\ Len(Recent(h)) = IF Len(h) > Keep THEN Keep ELSE Len(h)
        /\ \A i \in 1..Len(Recent(h)) : Recent(h)[i] = h[Len(h) - Len(Recent(h)) + i]
    BY <1>5, <2>1, RecentProperties, Zenon
  <2> QED
    BY <1>4, <1>5, <2>2
<1> HIDE DEF k
<1>7. PICK m \in Nat : m = Len(k) /\ m <= n + 1 /\ DOMAIN k = 1..m
  BY <1>6, KeepAssumption
<1>8. PICK d \in Nat : d = n + 1 - m
  BY <1>7
<1>9. \A i \in 1..m : d + i \in 1..(n + 1) /\ k[i] = h[d + i]
  BY <1>6, <1>7, <1>8
<1>10. /\ \A i, l \in 1..(n + 1) : h[i].of = h[l].of => \A j \in i..l : h[j].of = h[i].of
       /\ \A i, l \in 1..(n + 1) : i <= l /\ h[i].of = a => h[l].of = a
  <2> DEFINE N == Len(r.history)
  <2>1. /\ \A i, l \in 1..(N + 1) : h[i].of = h[l].of => \A j \in i..l : h[j].of = h[i].of
        /\ \A i, l \in 1..(N + 1) : i <= l /\ h[i].of = a => h[l].of = a
    BY <1>1, <1>3, AppendedLine, ZenonT(40) DEF h
  <2>2. N = n
    BY <1>2
  <2> HIDE DEF N
  <2> QED
    BY <2>1, <2>2
<1>11. Numbered(R)
  <2>1. \A i \in 1..(n + 1) : h[i].num = r.count - n + i
    <3> TAKE i \in 1..(n + 1)
    <3>1. CASE i \in 1..n
      BY <1>1, <1>2, <1>5, <3>1
    <3>2. CASE i = n + 1
      BY <1>1, <1>3, <1>5, <3>2
    <3> QED
      BY <3>1, <3>2
  <2>2. ASSUME NEW i \in 1..m PROVE k[i].num = R.count - m + i
    <3>1. k[i].num = r.count - n + (d + i)
      BY <1>9, <2>1
    <3>2. r.count - n + (d + i) = (r.count + 1) - m + i
      BY <1>1, <1>8
    <3> QED
      BY <1>4, <3>1, <3>2
  <2>3. m = IF R.count < Keep THEN R.count ELSE Keep
    BY <1>1, <1>2, <1>4, <1>6, <1>7, KeepAssumption
  <2> QED
    BY <1>7, <2>2, <2>3 DEF Numbered, k
<1>12. Together(R)
  <2>1. ASSUME NEW i \in 1..m, NEW l \in 1..m, k[i].of = k[l].of, NEW j \in i..l
        PROVE  k[j].of = k[i].of
    <3>1. j \in 1..m /\ d + j \in (d + i)..(d + l)
      OBVIOUS
    <3>2. h[d + i].of = h[d + l].of /\ d + i \in 1..(n + 1) /\ d + l \in 1..(n + 1)
      BY <1>9, <2>1
    <3>3. h[d + j].of = h[d + i].of
      BY <1>10, <3>1, <3>2
    <3> QED
      BY <1>9, <3>1, <3>3
  <2> QED
    BY <1>7, <2>1 DEF Together, k
<1>13. EndsWith(R, a)
  <2>1. ASSUME NEW i \in 1..m, NEW l \in 1..m, i <= l, k[i].of = a
        PROVE  k[l].of = a
    <3>1. d + i \in 1..(n + 1) /\ d + l \in 1..(n + 1) /\ h[d + i].of = a
      BY <1>9, <2>1
    <3>2. d + i <= d + l
      BY <2>1
    <3>3. h[d + l].of = a
      BY <1>10, <3>1, <3>2
    <3> QED
      BY <1>9, <3>3
  <2> QED
    BY <1>7, <2>1 DEF EndsWith, k
<1>14. \A i \in DOMAIN k : k[i].of = a \/ \E j \in DOMAIN r.history : k[i].of = r.history[j].of
  <2> SUFFICES ASSUME NEW i \in 1..m
               PROVE  k[i].of = a \/ \E j \in DOMAIN r.history : k[i].of = r.history[j].of
    BY <1>7
  <2>1. d + i \in 1..(n + 1) /\ k[i] = h[d + i]
    BY <1>9
  <2>2. CASE d + i = n + 1
    BY <1>3, <1>5, <2>1, <2>2
  <2>3. CASE d + i # n + 1
    <3>1. d + i \in 1..n
      BY <2>1, <2>3
    <3> QED
      BY <1>2, <1>5, <2>1, <3>1
  <2> QED
    BY <2>2, <2>3
<1> QED
  BY <1>11, <1>12, <1>13, <1>14 DEF OneLine, R, k

LEMMA NewRecordLine ==
  /\ OneLine(NewRecord) /\ DOMAIN NewRecord.history = {}
  /\ \A a : ~Mentions(NewRecord, a) /\ EndsWith(NewRecord, a)
<1>1. /\ NewRecord.count = 0 /\ Len(NewRecord.history) = 0 /\ DOMAIN NewRecord.history = {}
  BY EmptySeq DEF NewRecord
<1> QED
  BY <1>1, KeepAssumption DEF OneLine, Numbered, Together, Mentions, EndsWith

\* A step that adds no entry.
LEMMA QuietHistory ==
  ASSUME HistoryInv, analyses' = analyses, Kept' \subseteq Kept \cup {NewRecord},
         \A p \in Procs : proc'[p].at \in BeforeLoad =>
           proc[p].at \in BeforeLoad /\ proc'[p].id = proc[p].id,
         \A p \in Procs : Active(p)' /\ proc'[p].at \notin BeforeLoad /\ record'[p] \in Records =>
           EndsWith(record'[p], proc'[p].id)
  PROVE  HistoryInv'
<1>1. \A r \in Kept' : OneLine(r) /\ \A i \in DOMAIN r.history : r.history[i].of <= analyses'
  BY NewRecordLine DEF HistoryInv
<1>2. \A p \in Procs : proc'[p].at \in BeforeLoad => \A r \in Kept' : ~Mentions(r, proc'[p].id)
  BY NewRecordLine DEF HistoryInv
<1> QED
  BY <1>1, <1>2 DEF HistoryInv

\* A step that leaves the memory of the running processes alone.
LEMMA UntouchedHistory ==
  ASSUME HistoryInv, NEW p \in Procs, analyses' = analyses,
         Kept' \subseteq Kept,
         \A q \in Procs : q # p => proc'[q] = proc[q] /\ record'[q] = record[q],
         proc'[p].at \in BeforeLoad => proc[p].at \in BeforeLoad /\ proc'[p].id = proc[p].id,
         \/ proc'[p].at = "idle"
         \/ proc'[p].at \in BeforeLoad
         \/ /\ proc[p].at \notin BeforeLoad \cup {"idle"}
            /\ proc'[p].id = proc[p].id /\ record'[p] = record[p]
  PROVE  HistoryInv'
<1>1. \A q \in Procs : proc'[q].at \in BeforeLoad =>
        proc[q].at \in BeforeLoad /\ proc'[q].id = proc[q].id
  OBVIOUS
<1>2. ASSUME NEW q \in Procs, Active(q)', proc'[q].at \notin BeforeLoad, record'[q] \in Records
      PROVE  EndsWith(record'[q], proc'[q].id)
  <2>1. /\ proc'[q].at # "idle" /\ proc'[q].id = proc[q].id /\ record'[q] = record[q]
        /\ proc[q].at \notin BeforeLoad \cup {"idle"}
    BY <1>2 DEF Active, At
  <2> QED
    BY <1>2, <2>1 DEF HistoryInv, Active, At
<1> QED
  BY <1>1, <1>2, QuietHistory

LEMMA SameKept == UNCHANGED <<file, record>> => Kept' = Kept
BY DEF Kept

LEMMA DatabaseHistory ==
  ASSUME DatabaseInv, HistoryInv, NEW p \in Procs,
         \/ ImportSession(p) \/ ImportRun(p) \/ Lookup(p) \/ StoreSession(p) \/ StoreRun(p)
         \/ SelectPrint(p) \/ StorePrint(p) \/ StoreHypotheses(p) \/ StorePattern(p)
  PROVE  HistoryInv'
<1>1. /\ UNCHANGED <<file, record, analyses>>
      /\ \A q \in Procs : q # p => proc'[q] = proc[q]
      /\ proc'[p].id = proc[p].id
      /\ \/ {proc[p].at, proc'[p].at} \subseteq BeforeLoad
         \/ {proc[p].at, proc'[p].at} \subseteq InTarget
  BY DatabaseSteps DEF DatabaseInv
<1>2. InTarget \cap (BeforeLoad \cup {"idle"}) = {}
  BY DEF InTarget, BeforeLoad
<1>3. /\ Kept' \subseteq Kept
      /\ proc'[p].at \in BeforeLoad => proc[p].at \in BeforeLoad
      /\ \/ proc'[p].at \in BeforeLoad
         \/ proc[p].at \notin BeforeLoad \cup {"idle"}
  BY <1>1, <1>2, SameKept
<1> QED
  BY <1>1, <1>3, UntouchedHistory

\* A record is loaded from a file that has no entry of the analysis yet.
LEMMA LoadHistory ==
  ASSUME DatabaseInv, HistoryInv, NEW p \in Procs, LoadSession(p)
  PROVE  HistoryInv'
<1>1. /\ UNCHANGED <<file, analyses>> /\ record' = [record EXCEPT ![p] = Loaded]
      /\ Goto(p, "lookup") /\ proc[p].at \in BeforeLoad
  BY DEF LoadSession, Load, historyVars, At, BeforeLoad
<1>2. /\ record \in [Procs -> Records \cup {Nil}] /\ proc \in [Procs -> ProcStates]
      /\ file \in Records \cup Unreadable \cup {Absent}
  BY StoresTyped DEF SessionTyped
<1>3. /\ \A q \in Procs : q # p => proc'[q] = proc[q]
      /\ proc'[p].at = "lookup" /\ proc'[p].id = proc[p].id
  BY <1>1, <1>2 DEF Goto, ProcStates
<1>4. Loaded \in {Nil, NewRecord} \/ (Loaded = file /\ file \in Kept)
  BY <1>2 DEF Loaded, Kept
<1>5. Nil \notin Records
  BY MarksAssumption
<1>6. record'[p] = Loaded /\ \A q \in Procs : q # p => record'[q] = record[q]
  BY <1>1, <1>2
<1>7. Kept' \subseteq Kept \cup {NewRecord}
  BY <1>1, <1>4, <1>5, <1>6 DEF Kept
<1>8. "lookup" \notin BeforeLoad
  BY DEF BeforeLoad
<1>9. ASSUME NEW q \in Procs, Active(q)', proc'[q].at \notin BeforeLoad, record'[q] \in Records
      PROVE  EndsWith(record'[q], proc'[q].id)
  <2>1. CASE q = p
    <3>1. CASE Loaded = NewRecord
      BY <1>6, <2>1, <3>1, NewRecordLine
    <3>2. CASE Loaded = file /\ file \in Kept
      <4>1. ~Mentions(file, proc[p].id)
        BY <1>1, <3>2 DEF HistoryInv
      <4> QED
        BY <1>3, <1>6, <2>1, <3>2, <4>1 DEF Mentions, EndsWith
    <3> QED
      BY <1>4, <1>5, <1>6, <1>9, <2>1, <3>1, <3>2
  <2>2. CASE q # p
    BY <1>3, <1>6, <1>9, <2>2 DEF HistoryInv, Active, At
  <2> QED
    BY <2>1, <2>2
<1>10. \A q \in Procs : proc'[q].at \in BeforeLoad =>
         proc[q].at \in BeforeLoad /\ proc'[q].id = proc[q].id
  BY <1>3, <1>8
<1> QED
  BY <1>1, <1>7, <1>9, <1>10, QuietHistory

\* The one step that adds an entry adds it behind those of the same analysis.
LEMMA UpdateHistoryLine ==
  ASSUME DatabaseInv, HistoryInv, NEW p \in Procs, UpdateHistory(p)
  PROVE  HistoryInv'
<1> DEFINE a == proc[p].id
           r == record[p]
<1>1. /\ analyses' = analyses /\ proc[p].at = "history"
      /\ \/ r = Nil /\ UNCHANGED <<file, record>>
         \/ /\ r # Nil /\ record' = [record EXCEPT ![p] = WithRun(r, a)]
            /\ file' \in {file, Empty}
      /\ Goto(p, "writing") \/ Advance(p)
  BY DEF UpdateHistory, RecordAndTruncate, RecordUnsaved, Working, Failing, sessionVars, At
<1>2. /\ record \in [Procs -> Records \cup {Nil}] /\ ProcTyped
      /\ a \in 1..MaxAnalyses /\ a <= analyses
  <2>1. ProcTyped /\ SessionTyped
    BY StoresTyped
  <2>2. a \in 1..analyses /\ analyses \in 0..MaxAnalyses
    BY <1>1, <2>1 DEF ProcTyped, Active, At
  <2>3. a \in 1..MaxAnalyses
    BY <2>2, IdBounded, Zenon
  <2> QED
    BY <2>1, <2>2, <2>3 DEF SessionTyped
<1>3. \E s \in ProcStates : /\ proc' = [proc EXCEPT ![p] = s] /\ s.id = a
                            /\ s.at \in {"writing", "lookup", "done"}
  BY <1>1, <1>2, GotoMoves, AdvanceMoves DEF Places
<1>4. /\ \A q \in Procs : q # p => proc'[q] = proc[q]
      /\ proc'[p].id = a /\ proc'[p].at \notin BeforeLoad
      /\ proc[p].at \notin BeforeLoad \cup {"idle"}
  BY <1>1, <1>2, <1>3, OneMoves DEF BeforeLoad
<1>5. CASE r = Nil /\ UNCHANGED <<file, record>>
  <2>1. Kept' \subseteq Kept
    BY <1>5, SameKept
  <2> QED
    BY <1>1, <1>4, <1>5, <2>1, UntouchedHistory
<1>6. CASE /\ r # Nil /\ record' = [record EXCEPT ![p] = WithRun(r, a)]
           /\ file' \in {file, Empty}
  <2> DEFINE R == WithRun(r, a)
  <2>1. r \in Records /\ r \in Kept
    BY <1>2, <1>6 DEF Kept
  <2>2. OneLine(r) /\ EndsWith(r, a)
    BY <1>1, <1>4, <2>1 DEF HistoryInv, Active, At
  <2>3. /\ OneLine(R) /\ EndsWith(R, a)
        /\ \A i \in DOMAIN R.history : \/ R.history[i].of = a
                                       \/ \E j \in DOMAIN r.history : R.history[i].of = r.history[j].of
    BY <1>2, <2>1, <2>2, LineGrows
  <2> HIDE DEF R
  <2>4. record'[p] = R /\ \A q \in Procs : q # p => record'[q] = record[q]
    BY <1>2, <1>6 DEF R
  <2>5. Kept' \subseteq Kept \cup {R}
    <3>1. Empty \notin Records
      BY MarksAssumption
    <3> QED
      BY <1>6, <2>4, <3>1 DEF Kept
  <2>6. \A s \in Kept' : OneLine(s) /\ \A i \in DOMAIN s.history : s.history[i].of <= analyses'
    <3>1. \A i \in DOMAIN R.history : R.history[i].of <= analyses
      BY <1>2, <2>1, <2>3 DEF HistoryInv
    <3> QED
      BY <1>1, <2>3, <2>5, <3>1 DEF HistoryInv
  <2>7. ASSUME NEW q \in Procs, proc'[q].at \in BeforeLoad
        PROVE  \A s \in Kept' : ~Mentions(s, proc'[q].id)
    <3>1. q # p /\ proc'[q] = proc[q]
      BY <1>4, <2>7
    <3>2. proc[q].id # a
      BY <1>1, <2>7, <3>1 DEF DatabaseInv, IdsDistinct, Active, At, BeforeLoad
    <3>3. \A s \in Kept : ~Mentions(s, proc[q].id)
      BY <2>7, <3>1 DEF HistoryInv
    <3>4. ~Mentions(R, proc[q].id)
      BY <2>1, <2>3, <3>2, <3>3 DEF Mentions
    <3> QED
      BY <2>5, <3>1, <3>3, <3>4
  <2>8. ASSUME NEW q \in Procs, Active(q)', proc'[q].at \notin BeforeLoad, record'[q] \in Records
        PROVE  EndsWith(record'[q], proc'[q].id)
    <3>1. CASE q = p
      BY <1>4, <2>3, <2>4, <3>1
    <3>2. CASE q # p
      BY <1>4, <2>4, <2>8, <3>2 DEF HistoryInv, Active, At
    <3> QED
      BY <3>1, <3>2
  <2> QED
    BY <2>6, <2>7, <2>8 DEF HistoryInv
<1> QED
  BY <1>1, <1>5, <1>6

\* What is written over another record is that record, the process's own, or unreadable.
LEMMA WriteHistory ==
  ASSUME DatabaseInv, HistoryInv, NEW p \in Procs, WriteSession(p)
  PROVE  HistoryInv'
<1>1. /\ UNCHANGED <<record, analyses>> /\ proc[p].at = "writing" /\ Advance(p)
      /\ file' \in {file, record[p], Torn}
  BY DEF WriteSession, Write, WriteCut, Working, Failing, At
<1>2. \E s \in ProcStates : /\ proc' = [proc EXCEPT ![p] = s] /\ s.id = proc[p].id
                            /\ s.at \in {"lookup", "done"}
  BY <1>1, AdvanceMoves, StoresTyped
<1>3. /\ \A q \in Procs : q # p => proc'[q] = proc[q]
      /\ proc'[p].id = proc[p].id /\ proc'[p].at \notin BeforeLoad
      /\ proc[p].at \notin BeforeLoad \cup {"idle"}
  BY <1>1, <1>2, OneMoves, StoresTyped DEF BeforeLoad
<1>4. Kept' \subseteq Kept
  BY <1>1, MarksAssumption DEF Kept
<1> QED
  BY <1>1, <1>3, <1>4, UntouchedHistory

LEMMA LeaveHistory ==
  ASSUME DatabaseInv, HistoryInv, NEW p \in Procs, NEW midWrite \in BOOLEAN,
         Forget(p, midWrite), proc' = [proc EXCEPT ![p] = Resting], analyses' = analyses
  PROVE  HistoryInv'
<1>1. /\ proc'[p].at = "idle" /\ \A q \in Procs : q # p => proc'[q] = proc[q]
  BY StoresTyped DEF Resting
<1>2. /\ record'[p] = Nil /\ \A q \in Procs : q # p => record'[q] = record[q]
      /\ file' \in {file, Torn}
  BY StoresTyped DEF Forget, SessionTyped
<1>3. Kept' \subseteq Kept
  BY <1>2, MarksAssumption DEF Kept
<1>4. proc'[p].at \notin BeforeLoad
  BY <1>1 DEF BeforeLoad
<1> QED
  BY <1>1, <1>2, <1>3, <1>4, UntouchedHistory

\* A new analysis is mentioned nowhere: its number is larger than any there is.
LEMMA BeginHistory ==
  ASSUME DatabaseInv, HistoryInv, NEW p \in Procs, Begin(p)
  PROVE  HistoryInv'
<1>1. /\ UNCHANGED <<file, record>> /\ analyses' = analyses + 1 /\ analyses \in Nat
  BY DEF Begin, sessionVars, DatabaseInv, ProcTyped
<1>2. /\ \A q \in Procs : q # p => proc'[q] = proc[q]
      /\ proc'[p].id = analyses + 1
      /\ proc'[p].at \in BeforeLoad
  BY <1>1, StoresTyped DEF Begin, Resting, BeforeLoad
<1>3. Kept' = Kept
  BY <1>1, SameKept
<1>4. \A r \in Kept : \A i \in DOMAIN r.history : r.history[i].of \in Nat
  <2>1. \A r \in Kept : r.history \in Seq(Entries)
    BY DEF Kept, Records
  <2>2. \A e \in Entries : e.of \in Nat
    BY LoopAssumption DEF Entries
  <2>3. \A r \in Kept : \A i \in DOMAIN r.history : r.history[i] \in Entries
    BY <2>1, ElementOfSeq
  <2> QED
    BY <2>2, <2>3
<1>5. \A r \in Kept' : OneLine(r) /\ \A i \in DOMAIN r.history : r.history[i].of <= analyses'
  BY <1>1, <1>3, <1>4 DEF HistoryInv
<1>6. \A r \in Kept : ~Mentions(r, analyses + 1)
  BY <1>1, <1>4 DEF HistoryInv, Mentions
<1>7. \A q \in Procs : proc'[q].at \in BeforeLoad => \A r \in Kept' : ~Mentions(r, proc'[q].id)
  BY <1>2, <1>3, <1>6 DEF HistoryInv
<1>8. ASSUME NEW q \in Procs, Active(q)', proc'[q].at \notin BeforeLoad, record'[q] \in Records
      PROVE  EndsWith(record'[q], proc'[q].id)
  <2>1. q # p /\ proc'[q] = proc[q] /\ record'[q] = record[q]
    BY <1>1, <1>2, <1>8
  <2> QED
    BY <1>8, <2>1 DEF HistoryInv, Active, At
<1> QED
  BY <1>5, <1>7, <1>8 DEF HistoryInv

LEMMA StepHistory ==
  ASSUME DatabaseInv, HistoryInv, NEW p \in Procs, Begin(p) \/ Step(p) \/ Kill(p)
  PROVE  HistoryInv'
<1>1. CASE Finish(p)
  BY <1>1, LeaveHistory DEF Finish, historyVars
<1>2. CASE Kill(p)
  <2>1. At(p, "writing") \in BOOLEAN
    BY DEF At
  <2> QED
    BY <1>2, <2>1, LeaveHistory DEF Kill
<1> QED
  BY <1>1, <1>2, BeginHistory, DatabaseHistory, LoadHistory, UpdateHistoryLine, WriteHistory
  DEF Step

LEMMA StutterHistory == HistoryInv /\ UNCHANGED vars => HistoryInv'
BY DEF vars, sessionVars, historyVars, HistoryInv, Kept, Active, At

LEMMA InitHistory == Init => HistoryInv
<1> SUFFICES ASSUME Init PROVE HistoryInv
  OBVIOUS
<1>1. Kept = {}
  BY MarksAssumption DEF Init, SessionInit, Kept
<1>2. \A p \in Procs : proc[p].at = "idle"
  BY DEF Init, Resting
<1> QED
  BY <1>1, <1>2 DEF HistoryInv, Active, At, BeforeLoad

-----------------------------------------------------------------------------
(* The hits that are counted.                                              *)

LEMMA RowsAreFinite ==
  ASSUME prints \in Seq(PrintRow), NEW h, NEW o
  PROVE  /\ IsFiniteSet(RowsOf(h, o))
         /\ \A i \in RowsOf(h, o) : i \in 1..Len(prints) /\ prints[i].hits \in Nat
<1>1. /\ Len(prints) \in Nat /\ DOMAIN prints = 1..Len(prints)
      /\ \A i \in 1..Len(prints) : prints[i] \in PrintRow
  BY LenProperties, ElementOfSeq
<1>2. IsFiniteSet(1..Len(prints))
  BY <1>1, FS_Interval
<1>3. RowsOf(h, o) \subseteq 1..Len(prints)
  BY <1>1 DEF RowsOf
<1> QED BY <1>1, <1>2, <1>3, FS_Subset DEF PrintRow

\* HitsCounted, as a statement about the sums above.
Counted == \A k \in Hashes \X Operators : SumOf(prints, RowsOf(k[1], k[2])) = saved[k]

LEMMA HitsAreSums == (HitsCounted <=> Counted) /\ (HitsCounted' <=> Counted')
<1>1. HitsCounted <=> Counted
  BY SumIsMapThenSum DEF HitsCounted, Counted
<1>2. HitsCounted' <=> Counted'
  BY DEF HitsCounted, Counted, MapThenSumSet, MapThenFoldSet, SumOf, Sums, Chosen, RowsOf
<1> QED BY <1>1, <1>2

\* A step that stores no fingerprint and selects no row.
LEMMA QuietHits ==
  ASSUME ProcTyped, HitsInv, NEW p \in Procs,
         \A q \in Procs : q # p => proc'[q] = proc[q],
         prints' = prints, saved' = saved,
         \/ proc'[p].at # "print"
         \/ proc'[p].row # 0 => proc'[p].row \in RowsOf(proc'[p].hash, Targets[proc'[p].next])
  PROVE  HitsInv'
<1>1. SelectedStands'
  BY DEF HitsInv, SelectedStands, At, Op, RowsOf
<1>2. Counted'
  BY HitsAreSums DEF HitsInv, Counted, RowsOf
<1>3. saved' \in [Hashes \X Operators -> Nat]
  BY DEF HitsInv
<1> QED BY <1>1, <1>2, <1>3, HitsAreSums DEF HitsInv

\* Every action but the two of SaveFingerprint is such a step.
LEMMA OtherHits ==
  ASSUME DatabaseInv, HitsInv, NEW p \in Procs,
         \/ Begin(p) \/ Kill(p) \/ ImportSession(p) \/ ImportRun(p) \/ LoadSession(p)
         \/ Lookup(p) \/ StoreSession(p) \/ StoreRun(p) \/ StoreHypotheses(p)
         \/ StorePattern(p) \/ UpdateHistory(p) \/ WriteSession(p) \/ Finish(p)
  PROVE  HitsInv'
<1> DEFINE Moves == \E r \in ProcStates : proc' = [proc EXCEPT ![p] = r] /\ r.at # "print"
           Same  == prints' = prints /\ saved' = saved
<1> USE DEF Working, Failing, metadataVars, historyVars
<1>0. ProcTyped /\ proc[p] \in ProcStates
  BY StoresTyped DEF ProcTyped
<1>1. ASSUME Moves, Same PROVE HitsInv'
  <2>1. PICK r \in ProcStates : proc' = [proc EXCEPT ![p] = r] /\ r.at # "print"
    BY <1>1
  <2>2. proc'[p] = r /\ \A q \in Procs : q # p => proc'[q] = proc[q]
    BY <1>0, <2>1, OneMoves
  <2> HIDE DEF HitsInv
  <2> QED
    BY <1>0, <1>1, <2>1, <2>2, QuietHits
<1>2. ASSUME NEW where \in Places \ {"print"}, Goto(p, where) PROVE Moves
  BY <1>0, <1>2, GotoMoves
<1>3. ASSUME Advance(p) PROVE Moves
  BY <1>0, <1>3, AdvanceMoves
<1>4. Resting \in ProcStates /\ Resting.at = "idle"
  BY TargetIsOperator, EmptySeq DEF Resting, ProcStates, Places
<1> HIDE DEF Moves
<1> USE DEF Places
<1>5. CASE Begin(p)
  <2> DEFINE r == IF file \in Unreadable \cup {Absent}
                  THEN [Resting EXCEPT !.id = analyses', !.at = "loading"]
                  ELSE [Resting EXCEPT !.id = analyses', !.at = "importing", !.todo = file.history]
  <2>1. proc' = [proc EXCEPT ![p] = r] /\ Same
    BY <1>5 DEF Begin
  <2>2. r.at \in {"loading", "importing"}
    BY DEF Resting
  <2>3. proc'[p] = r /\ \A q \in Procs : q # p => proc'[q] = proc[q]
    BY <1>0, <2>1 DEF ProcTyped
  <2> HIDE DEF r
  <2> QED BY <1>0, <2>1, <2>2, <2>3, QuietHits
<1>6. CASE Kill(p)
  BY <1>1, <1>4, <1>6 DEF Kill, Moves
<1>7. CASE ImportSession(p)
  BY <1>1, <1>2, <1>7 DEF ImportSession, SaveSession
<1>8. CASE ImportRun(p)
  <2>1. CASE Goto(p, "loading")
    BY <1>1, <1>2, <1>8, <2>1 DEF ImportRun, ImportEntry, RecordRun
  <2>2. CASE proc' = [proc EXCEPT ![p].todo = Tail(@)]
    <3>1. proc[p].at = "importingRuns" /\ Same
      BY <1>8 DEF ImportRun, ImportEntry, RecordRun, At
    <3>2. /\ proc'[p].at = proc[p].at
          /\ \A q \in Procs : q # p => proc'[q] = proc[q]
      BY <1>0, <2>2 DEF ProcTyped, ProcStates
    <3> QED BY <1>0, <3>1, <3>2, QuietHits
  <2> QED BY <1>8, <2>1, <2>2 DEF ImportRun
<1>9. CASE LoadSession(p)
  BY <1>1, <1>2, <1>9 DEF LoadSession
<1>10. CASE Lookup(p)
  <2>1. PICK h \in Hashes :
          \/ \E i \in IF FoundByHash(h) = {} THEN {0} ELSE FoundByHash(h) :
               proc' = [proc EXCEPT ![p].at = "session", ![p].hash = h, ![p].match = i]
          \/ proc' = [proc EXCEPT ![p].at = "session", ![p].hash = h]
    BY <1>10 DEF Lookup
  <2>2. /\ proc'[p].at = "session"
        /\ \A q \in Procs : q # p => proc'[q] = proc[q]
    BY <1>0, <2>1 DEF ProcTyped, ProcStates
  <2>3. Same
    BY <1>10 DEF Lookup
  <2> QED BY <1>0, <2>2, <2>3, QuietHits
<1>11. CASE StoreSession(p)
  BY <1>1, <1>2, <1>11 DEF StoreSession, SaveSession
<1>12. CASE StoreRun(p)
  BY <1>1, <1>2, <1>12 DEF StoreRun, RecordRun
<1>13. CASE StoreHypotheses(p)
  BY <1>1, <1>2, <1>13 DEF StoreHypotheses, RecordHypotheses
<1>14. CASE StorePattern(p)
  BY <1>1, <1>2, <1>14 DEF StorePattern, RecordPattern
<1>15. CASE UpdateHistory(p)
  BY <1>1, <1>2, <1>3, <1>15 DEF UpdateHistory
<1>16. CASE WriteSession(p)
  BY <1>1, <1>3, <1>16 DEF WriteSession
<1>17. CASE Finish(p)
  BY <1>1, <1>4, <1>17 DEF Finish, Moves
<1> QED
  BY <1>5, <1>6, <1>7, <1>8, <1>9, <1>10, <1>11, <1>12, <1>13, <1>14, <1>15, <1>16, <1>17

\* SelectPrint finds a row of its hash and operator, or none.
LEMMA SelectHits ==
  ASSUME DatabaseInv, HitsInv, NEW p \in Procs, SelectPrint(p)
  PROVE  HitsInv'
<1>1. /\ ProcTyped /\ proc[p] \in ProcStates /\ proc[p].at = "select"
      /\ prints' = prints /\ saved' = saved
  BY StoresTyped DEF ProcTyped, SelectPrint, At, Working, Failing, metadataVars
<1>2. CASE Goto(p, "hypotheses")
  <2>1. proc'[p].at = "hypotheses" /\ \A q \in Procs : q # p => proc'[q] = proc[q]
    BY <1>1, <1>2 DEF Goto, ProcTyped, ProcStates
  <2> QED BY <1>1, <2>1, QuietHits
<1>3. CASE \E row \in RowsFor(proc[p].hash, Op(p)) :
             proc' = [proc EXCEPT ![p].at = "print", ![p].row = row]
  <2>1. PICK row \in RowsFor(proc[p].hash, Op(p)) :
          proc' = [proc EXCEPT ![p].at = "print", ![p].row = row]
    BY <1>3
  <2>2. /\ proc'[p].row = row /\ proc'[p].hash = proc[p].hash /\ proc'[p].next = proc[p].next
        /\ \A q \in Procs : q # p => proc'[q] = proc[q]
    BY <1>1, <2>1 DEF ProcTyped, ProcStates
  <2>3. row # 0 => row \in RowsOf(proc[p].hash, Targets[proc[p].next])
    BY DEF RowsFor, Op
  <2> QED BY <1>1, <2>2, <2>3, QuietHits
<1> QED BY <1>2, <1>3 DEF SelectPrint

\* What InsertPrint and UpdatePrint do to the rows.
LEMMA InsertRows ==
  ASSUME prints \in Seq(PrintRow), NEW h, NEW o, NEW r, InsertPrint(h, o, r),
         NEW n, n = Len(prints) + 1
  PROVE  /\ n \notin DOMAIN prints /\ \A i : i \in DOMAIN prints' <=> i \in DOMAIN prints \/ i = n
         /\ \A i \in DOMAIN prints : prints'[i] = prints[i]
         /\ prints'[n].hash = h /\ prints'[n].op = o /\ prints'[n].hits = 1
<1> DEFINE new == [hash |-> h, op |-> o, hits |-> 1, run |-> r, first |-> r]
<1>1. prints' = Append(prints, new)
  BY DEF InsertPrint
<1>2. new.hash = h /\ new.op = o /\ new.hits = 1
  OBVIOUS
<1>3. Len(prints) \in Nat /\ DOMAIN prints = 1..Len(prints)
  BY LenProperties
<1> HIDE DEF new
<1>4. /\ DOMAIN Append(prints, new) = 1..(Len(prints) + 1)
      /\ \A i \in 1..Len(prints) : Append(prints, new)[i] = prints[i]
      /\ Append(prints, new)[Len(prints) + 1] = new
  BY <1>3
<1> QED BY <1>1, <1>2, <1>3, <1>4

LEMMA UpdateRows ==
  ASSUME prints \in Seq(PrintRow), NEW row \in DOMAIN prints, NEW r, UpdatePrint(row, r)
  PROVE  /\ DOMAIN prints' = DOMAIN prints
         /\ \A i \in DOMAIN prints : /\ prints'[i].hash = prints[i].hash
                                     /\ prints'[i].op = prints[i].op
                                     /\ i # row => prints'[i].hits = prints[i].hits
         /\ prints'[row].hits = prints[row].hits + 1
<1>1. prints[row] \in PrintRow
  BY ElementOfSeq, LenProperties
<1> DEFINE new == [prints[row] EXCEPT !.hits = prints[row].hits + 1, !.run = r]
<1>2. prints' = [prints EXCEPT ![row] = new]
  BY DEF UpdatePrint
<1>3. /\ new.hash = prints[row].hash /\ new.op = prints[row].op
      /\ new.hits = prints[row].hits + 1
  BY <1>1 DEF PrintRow
<1> HIDE DEF new
<1>4. prints'[row] = new /\ DOMAIN prints' = DOMAIN prints
  BY <1>2
<1>5. \A i \in DOMAIN prints : i # row => prints'[i] = prints[i]
  BY <1>2
<1> QED BY <1>3, <1>4, <1>5

\* The call of SaveFingerprint that goes through is counted in its rows, and in no others.
LEMMA StoreHits ==
  ASSUME DatabaseInv, HitsInv, NEW p \in Procs, StorePrint(p)
  PROVE  HitsInv'
<1> DEFINE h0 == proc[p].hash
           o0 == Op(p)
           k0 == <<h0, o0>>
           Rows(h, o) == {i \in DOMAIN prints' : prints'[i].hash = h /\ prints'[i].op = o}
<1>1. /\ ProcTyped /\ proc[p] \in ProcStates /\ proc[p].at = "print" /\ h0 \in Hashes
      /\ prints \in Seq(PrintRow)
  BY StoresTyped DEF ProcTyped, StorePrint, At, WithHash
<1>2. /\ proc'[p].at = "hypotheses"
      /\ \A q \in Procs : q # p => proc'[q] = proc[q]
  BY <1>1 DEF StorePrint, Goto, ProcTyped, ProcStates
<1>3. o0 \in Operators /\ k0 \in Hashes \X Operators
  BY <1>1, TargetIsOperator DEF Op, ProcStates
<1>4. CASE prints' = prints /\ saved' = saved
  BY <1>1, <1>2, <1>4, QuietHits
<1> DEFINE Counts == saved' = [saved EXCEPT ![k0] = @ + 1]
           Stays  == \A h, o : RowsOf(h, o) \subseteq Rows(h, o)
           Others == \A h, o : ~(h = h0 /\ o = o0) => SumOf(prints', Rows(h, o)) = SumOf(prints, RowsOf(h, o))
           Grows  == SumOf(prints', Rows(h0, o0)) = SumOf(prints, RowsOf(h0, o0)) + 1
<1>5. ASSUME Counts, Stays, Others, Grows
      PROVE  HitsInv'
  <2> USE DEF HitsInv
  <2>1. /\ saved' \in [Hashes \X Operators -> Nat]
        /\ \A k \in Hashes \X Operators : saved'[k] = IF k = k0 THEN saved[k] + 1 ELSE saved[k]
    <3>1. saved' = [saved EXCEPT ![k0] = @ + 1]
      BY <1>5
    <3>2. saved \in [Hashes \X Operators -> Nat]
      OBVIOUS
    <3> HIDE DEF HitsInv, k0
    <3> QED BY <1>3, <3>1, <3>2
  <2>2. SelectedStands'
    <3> SUFFICES ASSUME NEW q \in Procs, proc'[q].at = "print", proc'[q].row # 0
                 PROVE  proc'[q].row \in Rows(proc'[q].hash, Targets[proc'[q].next])
      BY DEF SelectedStands, At, Op, RowsOf
    <3>1. q # p /\ proc'[q] = proc[q]
      BY <1>2
    <3>2. proc[q].row \in RowsOf(proc[q].hash, Targets[proc[q].next])
      BY <3>1 DEF SelectedStands, At, Op
    <3>3. Stays
      BY <1>5
    <3> QED BY <3>1, <3>2, <3>3
  <2>3. Counted'
    <3> SUFFICES ASSUME NEW k \in Hashes \X Operators
                 PROVE  SumOf(prints', Rows(k[1], k[2])) = saved'[k]
      BY DEF Counted, RowsOf
    <3>1. SumOf(prints, RowsOf(k[1], k[2])) = saved[k]
      BY HitsAreSums DEF Counted
    <3>2. k = k0 <=> k[1] = h0 /\ k[2] = o0
      OBVIOUS
    <3>3. Others /\ Grows
      BY <1>5
    <3> HIDE DEF HitsInv, Rows, h0, o0, k0
    <3>4. CASE k = k0
      BY <2>1, <3>1, <3>2, <3>3, <3>4
    <3>5. CASE k # k0
      <4>1. SumOf(prints', Rows(k[1], k[2])) = SumOf(prints, RowsOf(k[1], k[2]))
        BY <3>2, <3>3, <3>5
      <4> QED BY <2>1, <3>1, <3>5, <4>1
    <3> QED BY <3>4, <3>5
  <2> QED BY <2>1, <2>2, <2>3, HitsAreSums
<1>6. CASE proc[p].row = 0 /\ InsertPrint(h0, o0, Run(p)) /\ Counts
  <2> DEFINE n == Len(prints) + 1
  <2>1. /\ n \notin DOMAIN prints
        /\ \A i : i \in DOMAIN prints' <=> i \in DOMAIN prints \/ i = n
        /\ \A i \in DOMAIN prints : prints'[i] = prints[i]
        /\ prints'[n].hash = h0 /\ prints'[n].op = o0 /\ prints'[n].hits = 1
    BY <1>1, <1>6, InsertRows
  <2> HIDE DEF n, h0, o0
  <2>2. Stays
    BY <2>1 DEF RowsOf
  <2>3. Others
    <3> SUFFICES ASSUME NEW h, NEW o, ~(h = h0 /\ o = o0)
                 PROVE  SumOf(prints', Rows(h, o)) = SumOf(prints, RowsOf(h, o))
      OBVIOUS
    <3>1. Rows(h, o) = RowsOf(h, o)
      BY <2>1 DEF RowsOf
    <3>2. \A i \in RowsOf(h, o) : prints[i].hits = prints'[i].hits
      BY <2>1 DEF RowsOf
    <3>3. SumOf(prints, RowsOf(h, o)) = SumOf(prints', RowsOf(h, o))
      <4>1. IsFiniteSet(RowsOf(h, o))
        BY <1>1, RowsAreFinite
      <4> QED BY <3>2, <4>1, SumKept
    <3> QED BY <3>1, <3>3
  <2>4. Grows
    <3>1. \A i : i \in Rows(h0, o0) <=> i \in RowsOf(h0, o0) \/ i = n
      BY <2>1 DEF RowsOf
    <3>2. n \notin RowsOf(h0, o0)
      BY <2>1 DEF RowsOf
    <3>3. \A i \in RowsOf(h0, o0) : prints[i].hits \in Nat /\ prints'[i].hits = prints[i].hits
      BY <1>1, <2>1, RowsAreFinite DEF RowsOf
    <3>4. IsFiniteSet(RowsOf(h0, o0))
      BY <1>1, RowsAreFinite
    <3> HIDE DEF Rows
    <3> QED BY <2>1, <3>1, <3>2, <3>3, <3>4, SumOneRow
  <2> QED
    <3> HIDE DEF Counts, Stays, Others, Grows
    <3> QED BY <1>5, <1>6, <2>2, <2>3, <2>4
<1>7. CASE proc[p].row # 0 /\ UpdatePrint(proc[p].row, Run(p)) /\ Counts
  <2> DEFINE row == proc[p].row
  <2>1. row \in RowsOf(h0, o0)
    BY <1>1, <1>7 DEF HitsInv, SelectedStands, At
  <2>2. row \in DOMAIN prints /\ prints[row].hash = h0 /\ prints[row].op = o0
    BY <2>1 DEF RowsOf
  <2>3. /\ DOMAIN prints' = DOMAIN prints
        /\ \A i \in DOMAIN prints : /\ prints'[i].hash = prints[i].hash
                                    /\ prints'[i].op = prints[i].op
                                    /\ i # row => prints'[i].hits = prints[i].hits
        /\ prints'[row].hits = prints[row].hits + 1
    BY <1>1, <1>7, <2>2, UpdateRows
  <2> HIDE DEF row, h0, o0
  <2>4. \A h, o : Rows(h, o) = RowsOf(h, o)
    BY <2>3 DEF RowsOf
  <2>5. Others
    <3> SUFFICES ASSUME NEW h, NEW o, ~(h = h0 /\ o = o0)
                 PROVE  SumOf(prints', Rows(h, o)) = SumOf(prints, RowsOf(h, o))
      OBVIOUS
    <3>1. \A i \in RowsOf(h, o) : prints[i].hits = prints'[i].hits
      BY <2>2, <2>3 DEF RowsOf
    <3>2. IsFiniteSet(RowsOf(h, o))
      BY <1>1, RowsAreFinite
    <3>3. SumOf(prints, RowsOf(h, o)) = SumOf(prints', RowsOf(h, o))
      BY <3>1, <3>2, SumKept
    <3> HIDE DEF Rows
    <3> QED BY <2>4, <3>3
  <2>6. Grows
    <3> DEFINE S == RowsOf(h0, o0)
    <3>1. IsFiniteSet(S) /\ HitsTyped(prints, S)
      BY <1>1, RowsAreFinite DEF HitsTyped
    <3>2. \A x \in S \ {row} : prints'[x].hits = prints[x].hits
      BY <2>3 DEF RowsOf
    <3>3. row \in S
      BY <2>1
    <3>4. Rows(h0, o0) = S
      BY <2>4
    <3> HIDE DEF S, Rows
    <3>5. SumOf(prints', S) = SumOf(prints, S) + 1
      BY <2>3, <3>1, <3>2, <3>3, SumOneMore
    <3> QED BY <3>4, <3>5 DEF S
  <2>7. Stays
    BY <2>4
  <2> QED
    <3> HIDE DEF Counts, Stays, Others, Grows
    <3> QED BY <1>5, <1>7, <2>5, <2>6, <2>7
<1> QED
  <2> HIDE DEF HitsInv
  <2> QED BY <1>4, <1>6, <1>7 DEF StorePrint, Failing, metadataVars

-----------------------------------------------------------------------------
(* The theorems.                                                           *)

LEMMA StutterHits == HitsInv /\ UNCHANGED vars => HitsInv'
<1> SUFFICES ASSUME HitsInv, UNCHANGED vars PROVE HitsInv'
  OBVIOUS
<1>1. prints' = prints /\ saved' = saved /\ proc' = proc
  BY DEF vars, metadataVars, historyVars
<1>2. SelectedStands'
  BY <1>1 DEF HitsInv, SelectedStands, At, Op, RowsOf
<1>3. Counted'
  BY <1>1, HitsAreSums DEF HitsInv, Counted, RowsOf
<1> QED BY <1>1, <1>2, <1>3, HitsAreSums DEF HitsInv

LEMMA InitHits == Init => HitsInv
<1> SUFFICES ASSUME Init PROVE HitsInv
  OBVIOUS
<1>1. prints = <<>> /\ saved = [k \in Hashes \X Operators |-> 0]
  BY DEF Init, MetadataInit
<1>2. \A h, o : RowsOf(h, o) = {}
  BY <1>1 DEF RowsOf
<1>3. Counted
  BY <1>1, <1>2, SumEmpty DEF Counted
<1>4. SelectedStands
  BY DEF Init, SelectedStands, At, Resting
<1> QED BY <1>1, <1>3, <1>4, HitsAreSums DEF HitsInv

LEMMA NextIInv == IInv /\ [Next]_vars => IInv'
<1> SUFFICES ASSUME DatabaseInv, Continuity, HitsInv, HistoryInv, [Next]_vars
             PROVE  (DatabaseInv' /\ Continuity') /\ HitsInv' /\ HistoryInv'
  BY DEF IInv
<1>1. ASSUME NEW p \in Procs, Begin(p) PROVE DatabaseInv' /\ Continuity'
  BY <1>1, BeginInv, BeginContinuity
<1>2. ASSUME NEW p \in Procs, Step(p) PROVE DatabaseInv' /\ Continuity'
  BY <1>2, StepInv, DatabaseContinuity, LoadContinuity, UpdateContinuity, WriteContinuity,
     FinishContinuity
  DEF Step
<1>3. ASSUME NEW p \in Procs, Kill(p) PROVE DatabaseInv' /\ Continuity'
  BY <1>3, KillInv, KillContinuity
<1>4. ASSUME NEW p \in Procs, Begin(p) \/ Step(p) \/ Kill(p) PROVE HitsInv'
  BY <1>4, OtherHits, SelectHits, StoreHits DEF Step
<1>5. CASE \E p \in Procs : Begin(p) \/ Step(p) \/ Kill(p)
  BY <1>1, <1>2, <1>3, <1>4, <1>5, StepHistory
<1>6. CASE UNCHANGED vars
  BY <1>6, StutterInv, StutterContinuity, StutterHits, StutterHistory
<1> QED
  BY <1>5, <1>6 DEF Next, AllDone

\* Whatever analyses do at the same time, and whichever statements, saves and processes
\* fail, the invariant of database and session file holds.
THEOREM Invariant == Spec => []IInv
<1>1. Init => IInv
  BY InitInv, InitContinuity, InitHits, InitHistory DEF IInv
<1> QED
  BY <1>1, NextIInv, PTL DEF Spec

\* File, records, tables and processes keep their types (store.go, fingerprints.go).
THEOREM TypeCorrect == Spec => []TypeOK
<1>1. IInv => TypeOK
  BY DEF IInv, DatabaseInv
<1> QED
  BY <1>1, Invariant, PTL

\* Every fingerprint and every batch of hypotheses names a run that was recorded: what
\* recordToMetadata stores under an operator can be traced to its analysis.
THEOREM EvidenceTraced == Spec => []EvidenceHasRun
<1>1. IInv => EvidenceHasRun
  BY DEF IInv, DatabaseInv
<1> QED
  BY <1>1, Invariant, PTL

\* FindSimilarIssues never shows a target what this very target has stored, however the
\* analyses interleave: the lookup comes before the record, and rows keep their first run.
THEOREM MatchIsAnother == Spec => []NotItself
<1>1. IInv => NotItself
  BY DEF IInv, DatabaseInv
<1> QED
  BY <1>1, Invariant, PTL

\* SaveFingerprint counts every call that went through exactly once, although its SELECT
\* and its UPDATE or INSERT are two statements: analyses that race may add a second row
\* for a hash and an operator, and never lose or invent a hit.
THEOREM HitsAddUp == Spec => []HitsCounted
<1>1. IInv => HitsCounted
  BY DEF IInv, HitsInv
<1> QED
  BY <1>1, Invariant, PTL

\* What can be read of the session file is the unbroken history of one line of analyses,
\* whatever overlaps, fails or dies (store.go loads once and writes the whole file back);
\* analyses that run one after another without a failure or a kill lose no entry and
\* number them all in order, whatever Keep and the targets are.
THEOREM HistoryContinues == Spec => []SessionContinues
<1>1. IInv => HistoryIsOneLine
  BY DEF IInv, HistoryInv, Kept, HistoryIsOneLine
<1>2. IInv => ContinuityIfSequential
  <2> SUFFICES ASSUME IInv, Unharmed, analyses > 0, \A p \in Procs : At(p, "idle")
               PROVE  Whole(file, analyses * Len(Targets))
    BY DEF ContinuityIfSequential
  <2>1. Left(analyses)
    BY DEF IInv, Continuity, Active
  <2>2. analyses # 0
    BY DEF IInv, DatabaseInv, ProcTyped
  <2> QED
    BY <2>1, <2>2 DEF Left
<1>3. IInv => SessionContinues
  BY <1>1, <1>2 DEF SessionContinues
<1> QED
  BY <1>3, Invariant, PTL
=============================================================================
