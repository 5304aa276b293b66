---------------------- MODULE ClusterDiagnosis_proofs ----------------------
(***************************************************************************)
(* The properties of ClusterDiagnosis for every cluster, whatever changes  *)
(* and stops to answer while it is read.                                   *)
(*                                                                         *)
(* Nothing is kept between two reads, and that is the invariant: each      *)
(* result and each part of the snapshot is what one state the cluster was  *)
(* in gives.  What a single state gives is then compared with that state.  *)
(***************************************************************************)
EXTENDS ClusterDiagnosis, FiniteSetTheorems, SequenceTheorems, TLAPS

Moments == [cluster : Clusters, readable : Readable]

AskAt(s) == Ask(source, s.cluster, s.readable)

Typed ==
  /\ source \in Sources /\ cluster \in Clusters /\ readable \in Readable
  /\ at \in 1..9
  /\ \A n \in noise : n.env \in Environments
  /\ seen \in SUBSET Moments /\ IsFiniteSet(seen)
  /\ [cluster |-> cluster, readable |-> readable] \in seen
  /\ DOMAIN snapshot = DOMAIN NoSnapshot

Dimensions == {InfraDimensionIDs[i] : i \in 1..13}

Results ==
  {checkInfraDimension(dim, Ask(src, c, r)) :
     dim \in Dimensions, src \in Sources, c \in Clusters, r \in Readable}

\* Every result is what a check made of one moment.
ResultsOfMoments ==
  /\ results \in Seq(Results) /\ Len(results) <= 13
  /\ \A i \in 1..Len(results) :
       \E s \in seen : results[i] = checkInfraDimension(InfraDimensionIDs[i], AskAt(s))

\* Every part of the snapshot is what a read returned at one moment; none has
\* been read before the first or after the filter has ended a run without ADHD.
PartsOfMoments ==
  /\ at = 1 => snapshot = NoSnapshot
  /\ \/ at = 9 /\ snapshot = NoSnapshot
     \/ \A k \in 1..8 : k < at =>
          \E s \in seen : snapshot[SnapshotReads[k]] = SnapshotPart(SnapshotReads[k], AskAt(s))

IInv == Typed /\ ResultsOfMoments /\ PartsOfMoments
-----------------------------------------------------------------------------
(* What the dimensions make of one moment.                                 *)

LEMMA StatusesDiffer ==
  /\ Pass.status = "Pass" /\ Pass.severity = "Healthy"
  /\ Skip.status = "Skip" /\ Skip.severity = NoText
  /\ \A t : /\ Fail(t).status = "Fail" /\ Fail(t).severity = "Critical"
            /\ Warn(t).status = "Warn" /\ Warn(t).severity = "Warning"
BY DEF Pass, Skip, Fail, Warn, Result

\* Both sources derive their flags from the conditions of the object, under the same rule.
LEMMA SameHolds ==
  ASSUME NEW o, NEW type
  PROVE  L!Holds(o, type) = Holds(o, type) /\ G!Holds(o, type) = Holds(o, type)
BY DEF L!Holds, G!Holds, Holds

\* The dimensions of the objects that are read from one list.
LEMMA NodesOfMoment ==
  ASSUME NEW src \in Sources, NEW c, NEW r
  PROVE  \A n \in UNION Ask(src, c, r).nodes :
            \E o \in c.nodes : /\ n.ready <=> Holds(o, "Ready")
                               /\ n.conditions = o.conditions
                               /\ "nodes" \in r
<1>1. CASE src = "live-cluster"
  BY <1>1, SameHolds DEF Ask, L!Answers, L!GetNodes, L!List
<1>2. CASE src = "must-gather"
  BY <1>2, SameHolds DEF Ask, G!Answers, G!GetNodes, G!findClusterScopedResources
<1> QED
  BY <1>1, <1>2 DEF Sources

LEMMA OperatorsOfMoment ==
  ASSUME NEW src \in Sources, NEW c, NEW r
  PROVE  \A x \in UNION Ask(src, c, r).operators :
            \E o \in c.operators : /\ x.name = o.name
                                   /\ x.available <=> Holds(o, "Available")
                                   /\ x.progressing <=> Holds(o, "Progressing")
                                   /\ x.degraded <=> Holds(o, "Degraded")
                                   /\ "operators" \in r
<1>1. CASE src = "live-cluster"
  BY <1>1, SameHolds DEF Ask, L!Answers, L!GetClusterOperators, L!List
<1>2. CASE src = "must-gather"
  BY <1>2, SameHolds DEF Ask, G!Answers, G!GetClusterOperators, G!findClusterScopedResources
<1> QED
  BY <1>1, <1>2 DEF Sources

LEMMA VersionOfMoment ==
  ASSUME NEW src \in Sources, NEW c, NEW r
  PROVE  \A x \in Ask(src, c, r).version :
            \E v \in c.version : /\ x.progressing <=> Holds(v, "Progressing")
                                 /\ x.failing <=> Holds(v, "Failing")
                                 /\ "version" \in r
<1>1. CASE src = "live-cluster"
  <2>1. UNION L!List("version", c, r) = IF "version" \in r THEN c.version ELSE {}
    BY DEF L!List
  <2>2. \A x \in L!GetClusterVersion(c, r) :
           \E v \in UNION L!List("version", c, r) :
              /\ x.progressing = L!Holds(v, "Progressing") /\ x.failing = L!Holds(v, "Failing")
    BY DEF L!GetClusterVersion
  <2> QED
    BY <1>1, <2>1, <2>2, SameHolds DEF Ask, L!Answers
<1>2. CASE src = "must-gather"
  <2>1. \A x \in G!GetClusterVersion(c, r) :
           \E v \in G!findClusterScopedResources("version", c, r) :
              /\ x.progressing = G!Holds(v, "Progressing") /\ x.failing = G!Holds(v, "Failing")
    BY DEF G!GetClusterVersion
  <2> QED
    BY <1>2, <2>1, SameHolds DEF Ask, G!Answers, G!findClusterScopedResources
<1> QED
  BY <1>1, <1>2 DEF Sources

LEMMA PoolsOfMoment ==
  ASSUME NEW src \in Sources, NEW c, NEW r
  PROVE  \A x \in UNION Ask(src, c, r).pools :
            \E p \in c.pools : /\ x.degraded <=> Holds(p, "Degraded")
                               /\ x.updating <=> Holds(p, "Updating")
                               /\ "pools" \in r
<1>1. CASE src = "live-cluster"
  BY <1>1, SameHolds DEF Ask, L!Answers, L!GetMachineConfigPools, L!List
<1>2. CASE src = "must-gather"
  BY <1>2, SameHolds DEF Ask, G!Answers, G!GetMachineConfigPools, G!findClusterScopedResources
<1> QED
  BY <1>1, <1>2 DEF Sources

\* A must-gather without volumes answers with an empty list, a live cluster with an error.
LEMMA VolumesOfMoment ==
  ASSUME NEW src \in Sources, NEW c, NEW r
  PROVE  /\ UNION Ask(src, c, r).volumes \subseteq c.volumes
         /\ Ask(src, c, r).volumes # {} => src = "must-gather" \/ "volumes" \in r
<1>1. CASE src = "live-cluster"
  BY <1>1 DEF Ask, L!Answers, L!GetPVs, L!List
<1>2. CASE src = "must-gather"
  BY <1>2 DEF Ask, G!Answers, G!GetPVs, G!findClusterScopedResources
<1> QED
  BY <1>1, <1>2 DEF Sources

\* Each source asks the operators for the API server, in its own way.
LEMMA APIOfMoment ==
  ASSUME NEW src \in Sources, NEW c, NEW r, FALSE \in Ask(src, c, r).api
  PROVE  \E o \in c.operators : /\ o.name \in {"kube-apiserver", "openshift-apiserver"}
                                /\ ~Holds(o, "Available")
<1> DEFINE ops == UNION Ask(src, c, r).operators
<1>1. \E x \in ops : x.name \in {"kube-apiserver", "openshift-apiserver"} /\ ~x.available
  <2>1. CASE src = "live-cluster"
    BY <2>1 DEF Ask, L!Answers, L!GetAPIServerStatus
  <2>2. CASE src = "must-gather"
    BY <2>2 DEF Ask, G!Answers, G!GetAPIServerStatus
  <2> QED
    BY <2>1, <2>2 DEF Sources
<1> QED
  BY <1>1, OperatorsOfMoment

LEMMA NoCertificates ==
  ASSUME NEW src \in Sources, NEW c, NEW r
  PROVE  UNION Ask(src, c, r).certificates = {}
BY DEF Sources, Ask, L!Answers, G!Answers, L!GetCertificates, G!GetCertificates
-----------------------------------------------------------------------------
(* One dimension, one moment.                                              *)

\* What there is to say of a result of dimension dim, read from src in state c.
Sound(res, dim, src, c, r) ==
  /\ res.status \in {"Pass", "Skip", "Fail", "Warn"} /\ res.severity \in Severities
  /\ res.status \in {"Fail", "Warn"} => Wrong(dim, c)
  /\ res.status = "Pass" /\ KindOf(dim) \notin r =>
        \/ dim = "api_server_health"
        \/ dim = "pv_health" /\ src = "must-gather"

LEMMA DimensionIsSound ==
  ASSUME NEW src \in Sources, NEW c, NEW r, NEW dim \in Dimensions
  PROVE  Sound(checkInfraDimension(dim, Ask(src, c, r)), dim, src, c, r)
<1> DEFINE a == Ask(src, c, r)
           res == checkInfraDimension(dim, a)
<1> SUFFICES Sound(res, dim, src, c, r)
  OBVIOUS
<1>0. /\ Pass.severity \in Severities /\ Skip.severity \in Severities
      /\ \A t : Fail(t).severity \in Severities /\ Warn(t).severity \in Severities
  BY StatusesDiffer DEF Severities
<1>1. CASE dim = "node_health"
  <2>1. res = checkNodeHealth(a) /\ KindOf(dim) = "nodes"
    BY <1>1 DEF checkInfraDimension, KindOf
  <2>2. Wrong(dim, c) <=> \E n \in c.nodes : ~Holds(n, "Ready") \/ Pressured(n)
    BY <1>1 DEF Wrong
  <2>3. \A n \in UNION a.nodes : \E o \in c.nodes :
          /\ n.ready <=> Holds(o, "Ready")
          /\ Pressured(n) <=> Pressured(o)
          /\ "nodes" \in r
    BY NodesOfMoment DEF Pressured, Holds
  <2> HIDE DEF a
  <2> QED
    BY <1>0, <2>1, <2>2, <2>3, StatusesDiffer DEF checkNodeHealth, Sound
<1>2. CASE dim = "etcd_health"
  <2>1. res = checkEtcdHealth(a) /\ KindOf(dim) = "operators" /\ OperatorsOf(dim) = {"etcd"}
    BY <1>2 DEF checkInfraDimension, KindOf, OperatorsOf, ByName
  <2>2. Wrong(dim, c) <=> \E o \in c.operators : /\ o.name \in OperatorsOf(dim)
                                                 /\ \/ Holds(o, "Degraded") \/ ~Holds(o, "Available")
                                                    \/ Holds(o, "Progressing")
    BY <1>2 DEF Wrong
  <2> HIDE DEF a
  <2>3. \A x \in Named(UNION a.operators, "etcd") :
          \E o \in c.operators : /\ o.name = "etcd" /\ "operators" \in r
                                 /\ Broken(x) <=> Holds(o, "Degraded") \/ ~Holds(o, "Available")
    BY OperatorsOfMoment DEF a, Named, Broken
  <2> QED
    BY <1>0, <2>1, <2>2, <2>3, StatusesDiffer DEF checkEtcdHealth, Sound
<1>3. CASE dim = "api_server_health"
  <2>1. /\ res = checkAPIServerHealthInfra(a)
        /\ OperatorsOf(dim) = {"kube-apiserver", "openshift-apiserver"}
    BY <1>3 DEF checkInfraDimension, OperatorsOf, ByName
  <2>2. Wrong(dim, c) <=> \E o \in c.operators : /\ o.name \in OperatorsOf(dim)
                                                 /\ \/ Holds(o, "Degraded") \/ ~Holds(o, "Available")
                                                    \/ Holds(o, "Progressing")
    BY <1>3 DEF Wrong
  <2>3. FALSE \in a.api => Wrong(dim, c)
    BY <2>1, <2>2, APIOfMoment
  <2> HIDE DEF a
  <2> QED
    BY <1>0, <1>3, <2>1, <2>3, StatusesDiffer DEF checkAPIServerHealthInfra, Sound
<1>4. CASE dim = "cluster_version"
  <2>1. res = checkClusterVersionHealth(a) /\ KindOf(dim) = "version"
    BY <1>4 DEF checkInfraDimension, KindOf
  <2>2. Wrong(dim, c) <=> \E v \in c.version : Holds(v, "Failing") \/ Holds(v, "Progressing")
    BY <1>4 DEF Wrong
  <2>3. \A x \in a.version : \E v \in c.version : /\ x.progressing <=> Holds(v, "Progressing")
                                                  /\ x.failing <=> Holds(v, "Failing")
                                                  /\ "version" \in r
    BY VersionOfMoment
  <2> HIDE DEF a
  <2>4. /\ res.status \in {"Pass", "Skip", "Fail", "Warn"} /\ res.severity \in Severities
        /\ res.status \in {"Fail", "Warn"} => Wrong(dim, c)
    BY <1>0, <2>1, <2>2, <2>3, StatusesDiffer DEF checkClusterVersionHealth
  <2>5. res.status = "Pass" => KindOf(dim) \in r
    BY <2>1, <2>3, StatusesDiffer DEF checkClusterVersionHealth
  <2> QED
    BY <2>4, <2>5 DEF Sound
<1>5. CASE dim = "pv_health"
  <2>1. res = checkPVHealthInfra(a) /\ KindOf(dim) = "volumes"
    BY <1>5 DEF checkInfraDimension, KindOf
  <2>2. Wrong(dim, c) <=> \E v \in c.volumes : v.phase \in {"Failed", "Released"}
    BY <1>5 DEF Wrong
  <2>3. UNION a.volumes \subseteq c.volumes /\ (a.volumes # {} => src = "must-gather" \/ "volumes" \in r)
    BY VolumesOfMoment
  <2> HIDE DEF a
  <2> QED
    BY <1>0, <1>5, <2>1, <2>2, <2>3, StatusesDiffer DEF checkPVHealthInfra, Sound
<1>6. CASE dim = "certificate_expiry"
  <2>1. res = Skip
    BY <1>6, NoCertificates DEF checkInfraDimension, checkCertExpiry
  <2> QED
    BY <1>0, <2>1, StatusesDiffer DEF Sound
<1>7. CASE dim = "mcp_health"
  <2>1. res = checkMCPHealthInfra(a) /\ KindOf(dim) = "pools"
    BY <1>7 DEF checkInfraDimension, KindOf
  <2>2. Wrong(dim, c) <=> \E p \in c.pools : Holds(p, "Degraded") \/ Holds(p, "Updating")
    BY <1>7 DEF Wrong
  <2>3. \A x \in UNION a.pools : \E p \in c.pools : /\ x.degraded <=> Holds(p, "Degraded")
                                                    /\ x.updating <=> Holds(p, "Updating")
                                                    /\ "pools" \in r
    BY PoolsOfMoment
  <2> HIDE DEF a
  <2>4. /\ res.status \in {"Pass", "Skip", "Fail", "Warn"} /\ res.severity \in Severities
        /\ res.status \in {"Fail", "Warn"} => Wrong(dim, c)
    BY <1>0, <2>1, <2>2, <2>3, StatusesDiffer DEF checkMCPHealthInfra
  <2>5. res.status = "Pass" => KindOf(dim) \in r
    BY <2>1, <2>3, StatusesDiffer DEF checkMCPHealthInfra
  <2> QED
    BY <2>4, <2>5 DEF Sound
<1>8. CASE dim \in DOMAIN ByName
  <2>1. dim \notin {"node_health", "etcd_health", "api_server_health", "cluster_version",
                   "pv_health", "certificate_expiry", "mcp_health"}
    BY <1>8 DEF ByName
  <2>2. /\ res = checkClusterOperatorByName(a, dim) /\ KindOf(dim) = "operators"
        /\ OperatorsOf(dim) = {ByName[dim][1]}
    BY <1>8, <2>1 DEF checkInfraDimension, KindOf, OperatorsOf
  <2>3. Wrong(dim, c) <=> \E o \in c.operators : /\ o.name \in OperatorsOf(dim)
                                                 /\ \/ Holds(o, "Degraded") \/ ~Holds(o, "Available")
                                                    \/ Holds(o, "Progressing")
    BY <2>1 DEF Wrong
  <2> HIDE DEF a
  <2>4. \A x \in Named(UNION a.operators, ByName[dim][1]) :
          \E o \in c.operators : /\ o.name = ByName[dim][1] /\ "operators" \in r
                                 /\ Broken(x) <=> Holds(o, "Degraded") \/ ~Holds(o, "Available")
                                 /\ x.progressing <=> Holds(o, "Progressing")
    BY OperatorsOfMoment DEF a, Named, Broken
  <2> DEFINE found  == Named(UNION a.operators, ByName[dim][1])
             topics == ByName[dim][2]
  <2>5. \/ res = Skip
        \/ (\E x \in found : Broken(x)) /\ res = Fail(topics)
        \/ (\E x \in found : x.progressing) /\ res = Warn(topics \cup {"upgrade"})
        \/ found # {} /\ res = Pass
    BY <2>2 DEF checkClusterOperatorByName
  <2>6. /\ (\E x \in found : Broken(x) \/ x.progressing) => Wrong(dim, c)
        /\ found # {} => KindOf(dim) \in r
    BY <2>2, <2>3, <2>4
  <2> HIDE DEF found, topics
  <2>7. /\ res.status \in {"Pass", "Skip", "Fail", "Warn"}
        /\ res.status \in {"Fail", "Warn"} => Wrong(dim, c)
        /\ res.status = "Pass" => KindOf(dim) \in r
    BY <2>5, <2>6, StatusesDiffer
  <2>8. res.severity \in Severities
    BY <1>0, <2>5
  <2> HIDE DEF res
  <2> QED
    BY <2>7, <2>8 DEF Sound
<1> QED
  BY <1>1, <1>2, <1>3, <1>4, <1>5, <1>6, <1>7, <1>8 DEF Dimensions, InfraDimensionIDs, ByName

\* The two lists name thirteen dimensions and eight reads, each once.
LEMMA DimensionsOnce ==
  /\ Len(InfraDimensionIDs) = 13 /\ DOMAIN InfraDimensionIDs = 1..13
  /\ \A i, j \in 1..13 : InfraDimensionIDs[i] = InfraDimensionIDs[j] => i = j
<1>1. Len(InfraDimensionIDs) = 13 /\ DOMAIN InfraDimensionIDs = 1..13
  BY DEF InfraDimensionIDs
<1>2. \A i, j \in 1..13 : InfraDimensionIDs[i] = InfraDimensionIDs[j] => i = j
  BY SMTT(60) DEF InfraDimensionIDs
<1> QED
  BY <1>1, <1>2

LEMMA ReadsOnce ==
  /\ Len(SnapshotReads) = 8
  /\ \A k \in 1..8 : SnapshotReads[k] \in DOMAIN NoSnapshot
  /\ \A i, j \in 1..8 : SnapshotReads[i] = SnapshotReads[j] => i = j
BY DEF SnapshotReads, NoSnapshot

\* Of finds the result of a dimension that was checked.
LEMMA ResultOf ==
  ASSUME ResultsOfMoments, NEW dim \in Infra
  PROVE  /\ dim \in Dimensions
         /\ \E s \in seen : Of(dim) = checkInfraDimension(dim, AskAt(s))
<1>1. PICK i \in 1..Len(results) : dim = InfraDimensionIDs[i]
  BY DEF Infra
<1>2. i \in 1..13
  BY <1>1 DEF ResultsOfMoments
<1>3. (CHOOSE j \in DOMAIN InfraDimensionIDs : InfraDimensionIDs[j] = dim) = i
  BY <1>1, <1>2, DimensionsOnce
<1>4. Of(dim) = results[i]
  BY <1>3 DEF Of
<1> QED
  BY <1>1, <1>2, <1>4 DEF ResultsOfMoments, Dimensions
-----------------------------------------------------------------------------
(* The steps.                                                              *)

LEMMA Starts == Init => IInv
<1> SUFFICES ASSUME Init PROVE IInv
  OBVIOUS
<1>1. Typed
  <2>1. IsFiniteSet(seen)
    BY FS_Singleton DEF Init
  <2> QED
    BY <2>1 DEF Init, Typed, Moments
<1>2. ResultsOfMoments /\ PartsOfMoments
  BY DEF Init, ResultsOfMoments, PartsOfMoments
<1> QED
  BY <1>1, <1>2 DEF IInv

\* What was of some moment stays so when more moments are seen.
LEMMA MomentsStay ==
  ASSUME IInv, UNCHANGED <<source, results, snapshot, at>>, seen \subseteq seen'
  PROVE  ResultsOfMoments' /\ PartsOfMoments'
<1>1. \A s : AskAt(s)' = AskAt(s)
  BY DEF AskAt
<1> QED
  BY <1>1 DEF IInv, ResultsOfMoments, PartsOfMoments

LEMMA ChangeStep == IInv /\ Change => IInv'
<1> SUFFICES ASSUME IInv, Change PROVE IInv'
  OBVIOUS
<1>1. seen \subseteq seen' /\ IsFiniteSet(seen')
  BY FS_AddElement DEF IInv, Typed, Change
<1>2. Typed'
  BY <1>1 DEF IInv, Typed, Change, Moments
<1> QED
  BY <1>1, <1>2, MomentsStay DEF IInv, Change

LEMMA RunInfraStep == IInv /\ RunInfra => IInv'
<1> SUFFICES ASSUME IInv, RunInfra PROVE IInv'
  OBVIOUS
<1> DEFINE n == Len(results)
           now == [cluster |-> cluster, readable |-> readable]
           res == checkInfraDimension(InfraDimensionIDs[n + 1], Ask(source, cluster, readable))
<1>0. n \in 0..12
  <2>1. n # 13 /\ n <= 13 /\ n \in Nat
    BY DimensionsOnce DEF IInv, ResultsOfMoments, RunInfra, Checked
  <2> HIDE DEF n
  <2> QED
    BY <2>1
<1>1. /\ results \in Seq(Results) /\ results' = Append(results, res) /\ now \in seen
      /\ UNCHANGED <<source, cluster, readable, snapshot, at, noise, seen>>
  <2>1. results' = Append(results, res)
    BY DEF RunInfra
  <2>2. UNCHANGED <<source, cluster, readable, snapshot, at, noise, seen>>
    BY DEF RunInfra
  <2> HIDE DEF res
  <2> QED
    BY <2>1, <2>2 DEF IInv, Typed, ResultsOfMoments
<1>2. res \in Results
  <2> DEFINE d == InfraDimensionIDs[n + 1]
  <2>1. d \in Dimensions
    <3>1. n + 1 \in 1..13
      <4> HIDE DEF n
      <4> QED
        BY <1>0
    <3> QED
      BY <3>1 DEF Dimensions
  <2>2. source \in Sources /\ cluster \in Clusters /\ readable \in Readable
    BY DEF IInv, Typed
  <2> HIDE DEF d
  <2>3. checkInfraDimension(d, Ask(source, cluster, readable)) \in Results
    BY <2>1, <2>2 DEF Results
  <2> QED
    BY <2>3 DEF d
<1>3. res = checkInfraDimension(InfraDimensionIDs[n + 1], AskAt(now))
  BY DEF AskAt
<1> HIDE DEF res, now
<1>4. /\ results' \in Seq(Results) /\ Len(results') = n + 1 /\ results'[n + 1] = res
      /\ \A i \in 1..n : results'[i] = results[i]
  BY <1>0, <1>1, <1>2
<1>5. \A s : AskAt(s)' = AskAt(s)
  BY <1>1 DEF AskAt
<1>6. \A i \in 1..(n + 1) : \E s \in seen :
         results'[i] = checkInfraDimension(InfraDimensionIDs[i], AskAt(s))
  <2> SUFFICES ASSUME NEW i \in 1..(n + 1)
               PROVE  \E s \in seen :
                        results'[i] = checkInfraDimension(InfraDimensionIDs[i], AskAt(s))
    OBVIOUS
  <2>1. CASE i = n + 1
    BY <1>1, <1>3, <1>4, <2>1
  <2>2. CASE i # n + 1
    <3>1. i \in 1..n
      <4> HIDE DEF n
      <4> QED
        BY <1>0, <2>2
    <3> QED
      BY <1>4, <3>1 DEF IInv, ResultsOfMoments
  <2> QED
    BY <2>1, <2>2
<1>7. ResultsOfMoments'
  <2>1. n + 1 <= 13
    <3> HIDE DEF n
    <3> QED
      BY <1>0
  <2>2. seen' = seen
    BY <1>1
  <2> QED
    BY <1>4, <1>5, <1>6, <2>1, <2>2 DEF ResultsOfMoments
<1>8. PartsOfMoments'
  BY <1>1, <1>5 DEF IInv, PartsOfMoments
<1>9. Typed'
  BY <1>1 DEF IInv, Typed
<1> QED
  BY <1>7, <1>8, <1>9 DEF IInv

LEMMA BuildClusterSnapshotStep == IInv /\ BuildClusterSnapshot => IInv'
<1> SUFFICES ASSUME IInv, BuildClusterSnapshot PROVE IInv'
  OBVIOUS
<1> DEFINE now == [cluster |-> cluster, readable |-> readable]
           kind == SnapshotReads[at]
           part == SnapshotPart(kind, Ask(source, cluster, readable))
<1>1. /\ at \in 1..8 /\ at' = at + 1 /\ snapshot' = [snapshot EXCEPT ![kind] = part]
      /\ now \in seen /\ UNCHANGED <<source, cluster, readable, results, noise, seen>>
  BY ReadsOnce DEF IInv, Typed, BuildClusterSnapshot, Collected
<1>2. part = SnapshotPart(SnapshotReads[at], AskAt(now))
  BY DEF AskAt
<1> HIDE DEF part, now
<1>3. /\ DOMAIN snapshot' = DOMAIN NoSnapshot /\ snapshot'[SnapshotReads[at]] = part
      /\ \A k \in 1..8 : k # at => snapshot'[SnapshotReads[k]] = snapshot[SnapshotReads[k]]
  BY <1>1, ReadsOnce DEF IInv, Typed
<1>4. \A s : AskAt(s)' = AskAt(s)
  BY <1>1 DEF AskAt
<1>5. \A k \in 1..8 : k < at =>
         \E s \in seen : snapshot[SnapshotReads[k]] = SnapshotPart(SnapshotReads[k], AskAt(s))
  BY <1>1 DEF IInv, PartsOfMoments
<1>6. \A k \in 1..8 : k < at + 1 =>
         \E s \in seen : snapshot'[SnapshotReads[k]] = SnapshotPart(SnapshotReads[k], AskAt(s))
  BY <1>1, <1>2, <1>3, <1>5
<1>7. PartsOfMoments'
  BY <1>1, <1>4, <1>6 DEF PartsOfMoments
<1>8. ResultsOfMoments'
  BY <1>1, <1>4 DEF IInv, ResultsOfMoments
<1>9. Typed'
  BY <1>1, <1>3 DEF IInv, Typed
<1> QED
  BY <1>7, <1>8, <1>9 DEF IInv

LEMMA FilterFindingsStep == IInv /\ FilterFindings => IInv'
<1> SUFFICES ASSUME IInv, FilterFindings PROVE IInv'
  OBVIOUS
<1>1. /\ at \in {1, 9} /\ at' = 9
      /\ UNCHANGED <<source, cluster, readable, results, snapshot, seen>>
  BY ReadsOnce DEF IInv, Typed, FilterFindings, Collected
<1>2. Typed'
  BY <1>1 DEF IInv, Typed, FilterFindings
<1>3. \A s : AskAt(s)' = AskAt(s)
  BY <1>1 DEF AskAt
<1>4. ResultsOfMoments' /\ PartsOfMoments'
  BY <1>1, <1>3 DEF IInv, ResultsOfMoments, PartsOfMoments
<1> QED
  BY <1>2, <1>4 DEF IInv

\* In every state, whatever changed and failed to answer meanwhile, every result and
\* every part of the snapshot is what RunInfra and BuildClusterSnapshot made of one moment.
THEOREM Invariant == Spec => []IInv
<1>1. IInv /\ UNCHANGED vars => IInv'
  <2> SUFFICES ASSUME IInv, UNCHANGED vars PROVE IInv'
    OBVIOUS
  <2>1. Typed'
    BY DEF IInv, vars, Typed
  <2> QED
    BY <2>1, MomentsStay DEF IInv, vars
<1>2. IInv /\ [Next]_vars => IInv'
  BY <1>1, ChangeStep, RunInfraStep, BuildClusterSnapshotStep, FilterFindingsStep DEF Next, Done
<1> QED
  BY Starts, <1>2, PTL DEF Spec
-----------------------------------------------------------------------------
(* The properties.                                                         *)

\* Types; whatever cluster is diagnosed, no dimension is left Unknown and no severity
\* outside of the known ones (checkInfraDimension in infra_checks.go).
THEOREM TypeCorrect == Spec => []TypeOK
<1>1. IInv => TypeOK
  <2> SUFFICES ASSUME IInv PROVE TypeOK
    OBVIOUS
  <2>1. ASSUME NEW i \in DOMAIN results
        PROVE  results[i].status \in Statuses \ {"Unknown"} /\ results[i].severity \in Severities
    <3>1. results[i] \in Results
      BY <2>1 DEF IInv, ResultsOfMoments
    <3>2. PICK dim \in Dimensions, src \in Sources, c \in Clusters, r \in Readable :
             results[i] = checkInfraDimension(dim, Ask(src, c, r))
      BY <3>1 DEF Results
    <3> QED
      BY <3>2, DimensionIsSound DEF Sound, Statuses
  <2> QED
    BY <2>1, ReadsOnce DEF IInv, Typed, TypeOK
<1> QED
  BY <1>1, Invariant, PTL

\* What a dimension fails or warns about was wrong at some moment of the run, although
\* every check of RunInfra reads the cluster anew.
THEOREM AlarmIsReal == Spec => []NoFalseAlarm
<1>1. IInv => NoFalseAlarm
  <2> SUFFICES ASSUME IInv, NEW dim \in Infra, Of(dim).status \in {"Fail", "Warn"}
               PROVE  \E s \in seen : Wrong(dim, s.cluster)
    BY DEF NoFalseAlarm
  <2>1. PICK s \in seen : Of(dim) = checkInfraDimension(dim, AskAt(s))
    BY ResultOf DEF IInv
  <2>2. Sound(Of(dim), dim, source, s.cluster, s.readable)
    BY <2>1, ResultOf, DimensionIsSound DEF IInv, Typed, AskAt
  <2> QED
    BY <2>2 DEF Sound
<1> QED
  BY <1>1, Invariant, PTL

\* A dimension passes on data, but for the API server and the volumes of a must-gather,
\* whichever calls of the data source fail and whichever files are missing.
THEOREM PassOnData == Spec => []PassNeedsData
<1>1. IInv => PassNeedsData
  <2> SUFFICES ASSUME IInv, NEW dim \in Infra, Of(dim).status = "Pass",
                      \A s \in seen : KindOf(dim) \notin s.readable
               PROVE  \/ dim = "api_server_health"
                      \/ dim = "pv_health" /\ source = "must-gather"
    BY DEF PassNeedsData
  <2>1. PICK s \in seen : Of(dim) = checkInfraDimension(dim, AskAt(s))
    BY ResultOf DEF IInv
  <2>2. Sound(Of(dim), dim, source, s.cluster, s.readable)
    BY <2>1, ResultOf, DimensionIsSound DEF IInv, Typed, AskAt
  <2> QED
    BY <2>2 DEF Sound
<1> QED
  BY <1>1, Invariant, PTL
-----------------------------------------------------------------------------
(* The prompt: symptoms and snapshot of moments that agree on one kind.    *)

\* An answer of one kind is made of the objects of that kind and nothing else.
LEMMA SteadyAnswers ==
  ASSUME source \in Sources, NEW s \in seen, NEW t \in seen
  PROVE  /\ Steady("nodes") => AskAt(s).nodes = AskAt(t).nodes
         /\ Steady("operators") => AskAt(s).operators = AskAt(t).operators
         /\ Steady("volumes") => AskAt(s).volumes = AskAt(t).volumes
         /\ Steady("pools") => AskAt(s).pools = AskAt(t).pools
<1> DEFINE Same(kind) == /\ s.cluster[kind] = t.cluster[kind]
                         /\ kind \in s.readable <=> kind \in t.readable
<1>1. \A kind : Steady(kind) => Same(kind)
  BY DEF Steady
<1>2. \A kind : Same(kind) =>
        /\ L!List(kind, s.cluster, s.readable) = L!List(kind, t.cluster, t.readable)
        /\ G!findClusterScopedResources(kind, s.cluster, s.readable)
             = G!findClusterScopedResources(kind, t.cluster, t.readable)
  BY DEF L!List, G!findClusterScopedResources
<1> HIDE DEF Same
<1>3. CASE source = "live-cluster"
  <2>1. \A m : AskAt(m) = L!Answers(m.cluster, m.readable)
    BY <1>3 DEF AskAt, Ask
  <2> QED
    BY <1>1, <1>2, <2>1
       DEF L!Answers, L!GetNodes, L!GetClusterOperators, L!GetPVs, L!GetMachineConfigPools
<1>4. CASE source = "must-gather"
  <2>1. \A m : AskAt(m) = G!Answers(m.cluster, m.readable)
    BY <1>4 DEF AskAt, Ask
  <2> QED
    BY <1>1, <1>2, <2>1
       DEF G!Answers, G!GetNodes, G!GetClusterOperators, G!GetPVs, G!GetMachineConfigPools
<1> QED
  BY <1>3, <1>4 DEF Sources

\* What a check makes of the objects of a kind and what the snapshot keeps of the same.
LEMMA NodesAgree ==
  ASSUME NEW a, NEW b, a.nodes = b.nodes
  PROVE  checkInfraDimension("node_health", a).status = "Fail" <=> SnapshotPart("nodes", b) # {}
<1>1. /\ checkInfraDimension("node_health", a) = checkNodeHealth(a)
      /\ SnapshotPart("nodes", b) = {n \in UNION a.nodes : ~n.ready}
  BY DEF checkInfraDimension, SnapshotPart
<1> QED
  BY <1>1, StatusesDiffer DEF checkNodeHealth

LEMMA OperatorsAgree ==
  ASSUME NEW a, NEW b, a.operators = b.operators
  PROVE  /\ \A dim \in DOMAIN ByName : checkInfraDimension(dim, a).status = "Fail"
                                        <=> ByName[dim][1] \in SnapshotPart("operators", b)
         /\ checkInfraDimension("etcd_health", a).status = "Fail"
              <=> "etcd" \in SnapshotPart("operators", b)
<1>1. /\ SnapshotPart("operators", b) = DegradedOperators(UNION a.operators)
      /\ \A name : name \in DegradedOperators(UNION a.operators) <=>
                     \E o \in Named(UNION a.operators, name) : Broken(o)
  BY DEF SnapshotPart, DegradedOperators, Named
<1>2. ASSUME NEW dim \in DOMAIN ByName
      PROVE  checkInfraDimension(dim, a).status = "Fail"
               <=> ByName[dim][1] \in SnapshotPart("operators", b)
  <2>1. dim \notin {"node_health", "etcd_health", "api_server_health", "cluster_version",
                   "pv_health", "certificate_expiry", "mcp_health"}
    BY <1>2 DEF ByName
  <2>2. checkInfraDimension(dim, a) = checkClusterOperatorByName(a, dim)
    BY <2>1 DEF checkInfraDimension
  <2> QED
    BY <1>1, <2>2, StatusesDiffer DEF checkClusterOperatorByName
<1>3. checkInfraDimension("etcd_health", a) = checkEtcdHealth(a)
  BY DEF checkInfraDimension
<1>4. checkInfraDimension("etcd_health", a).status = "Fail"
        <=> "etcd" \in SnapshotPart("operators", b)
  BY <1>1, <1>3, StatusesDiffer DEF checkEtcdHealth
<1> QED
  BY <1>2, <1>4

LEMMA VolumesAgree ==
  ASSUME NEW a, NEW b, a.volumes = b.volumes,
         checkInfraDimension("pv_health", a).status \in {"Fail", "Warn"}
  PROVE  SnapshotPart("volumes", b) # {}
<1>1. /\ checkInfraDimension("pv_health", a) = checkPVHealthInfra(a)
      /\ SnapshotPart("volumes", b) = {v \in UNION a.volumes : v.phase \in {"Failed", "Released"}}
  BY DEF checkInfraDimension, SnapshotPart
<1> QED
  BY <1>1, StatusesDiffer DEF checkPVHealthInfra

LEMMA PoolsAgree ==
  ASSUME NEW a, NEW b, a.pools = b.pools
  PROVE  checkInfraDimension("mcp_health", a).status = "Fail"
           <=> "DEGRADED" \in SnapshotPart("pools", b)
<1>1. /\ checkInfraDimension("mcp_health", a) = checkMCPHealthInfra(a)
      /\ SnapshotPart("pools", b) = {PoolStatus(p) : p \in UNION a.pools}
  BY DEF checkInfraDimension, SnapshotPart
<1>2. \A p : PoolStatus(p) = "DEGRADED" <=> p.degraded
  BY DEF PoolStatus
<1> QED
  BY <1>1, <1>2, StatusesDiffer DEF checkMCPHealthInfra

\* The checks of RunInfra and the snapshot that BuildClusterSnapshot takes for the prompt
\* agree on every kind of objects that stayed the same, whatever else changed between them.
THEOREM SymptomsAgree == Spec => []PromptAgrees
<1>1. IInv => PromptAgrees
  <2> SUFFICES ASSUME IInv, Checked, at = Len(SnapshotReads) + 1, snapshot # NoSnapshot
               PROVE  PromptAgrees
    BY DEF PromptAgrees
  <2>1. ASSUME NEW dim \in Dimensions
        PROVE  \E s \in seen : Of(dim) = checkInfraDimension(dim, AskAt(s))
    <3>1. Infra = Dimensions
      BY DimensionsOnce DEF Infra, Dimensions, Checked
    <3> QED
      BY <3>1, ResultOf DEF IInv
  <2>2. /\ {"node_health", "etcd_health", "pv_health", "mcp_health"} \subseteq Dimensions
        /\ DOMAIN ByName \subseteq Dimensions
    BY DEF Dimensions, InfraDimensionIDs, ByName
  <2>3. ASSUME NEW kind \in {"nodes", "operators", "pools", "volumes"}
        PROVE  \E t \in seen : snapshot[kind] = SnapshotPart(kind, AskAt(t))
    <3>1. \A k \in 1..8 : \E t \in seen :
             snapshot[SnapshotReads[k]] = SnapshotPart(SnapshotReads[k], AskAt(t))
      BY ReadsOnce DEF IInv, PartsOfMoments
    <3>2. \E k \in 1..8 : SnapshotReads[k] = kind
      <4>1. /\ SnapshotReads[2] = "nodes" /\ SnapshotReads[3] = "operators"
            /\ SnapshotReads[6] = "pools" /\ SnapshotReads[7] = "volumes"
        BY DEF SnapshotReads
      <4> QED
        BY <4>1
    <3> QED
      BY <3>1, <3>2
  <2>4. source \in Sources
    BY DEF IInv, Typed
  <2>5. ASSUME Steady("nodes") PROVE Of("node_health").status = "Fail" <=> snapshot.nodes # {}
    <3>1. PICK s \in seen : Of("node_health") = checkInfraDimension("node_health", AskAt(s))
      BY <2>1, <2>2
    <3>2. PICK t \in seen : snapshot["nodes"] = SnapshotPart("nodes", AskAt(t))
      BY <2>3
    <3>3. AskAt(s).nodes = AskAt(t).nodes
      BY <2>4, <2>5, SteadyAnswers
    <3> QED
      BY <3>1, <3>2, <3>3, NodesAgree
  <2>6. ASSUME Steady("operators")
        PROVE  /\ \A dim \in DOMAIN ByName :
                    Of(dim).status = "Fail" <=> ByName[dim][1] \in snapshot.operators
               /\ Of("etcd_health").status = "Fail" <=> "etcd" \in snapshot.operators
    <3>1. PICK t \in seen : snapshot["operators"] = SnapshotPart("operators", AskAt(t))
      BY <2>3
    <3>2. \A s \in seen : AskAt(s).operators = AskAt(t).operators
      BY <2>4, <2>6, SteadyAnswers
    <3>3. ASSUME NEW dim \in DOMAIN ByName
          PROVE  Of(dim).status = "Fail" <=> ByName[dim][1] \in snapshot.operators
      <4>1. PICK s \in seen : Of(dim) = checkInfraDimension(dim, AskAt(s))
        BY <2>1, <2>2
      <4>2. AskAt(s).operators = AskAt(t).operators
        BY <3>2
      <4>3. checkInfraDimension(dim, AskAt(s)).status = "Fail"
              <=> ByName[dim][1] \in SnapshotPart("operators", AskAt(t))
        BY <4>2, OperatorsAgree
      <4> QED
        BY <3>1, <4>1, <4>3
    <3>4. Of("etcd_health").status = "Fail" <=> "etcd" \in snapshot.operators
      <4>1. PICK s \in seen : Of("etcd_health") = checkInfraDimension("etcd_health", AskAt(s))
        BY <2>1, <2>2
      <4>2. AskAt(s).operators = AskAt(t).operators
        BY <3>2
      <4>3. checkInfraDimension("etcd_health", AskAt(s)).status = "Fail"
              <=> "etcd" \in SnapshotPart("operators", AskAt(t))
        BY <4>2, OperatorsAgree
      <4> QED
        BY <3>1, <4>1, <4>3
    <3> QED
      BY <3>3, <3>4
  <2>7. ASSUME Steady("volumes"), Of("pv_health").status \in {"Fail", "Warn"}
        PROVE  snapshot.volumes # {}
    <3>1. PICK s \in seen : Of("pv_health") = checkInfraDimension("pv_health", AskAt(s))
      BY <2>1, <2>2
    <3>2. PICK t \in seen : snapshot["volumes"] = SnapshotPart("volumes", AskAt(t))
      BY <2>3
    <3>3. AskAt(s).volumes = AskAt(t).volumes
      BY <2>4, <2>7, SteadyAnswers
    <3> QED
      BY <2>7, <3>1, <3>2, <3>3, VolumesAgree
  <2>8. ASSUME Steady("pools")
        PROVE  Of("mcp_health").status = "Fail" <=> "DEGRADED" \in snapshot.pools
    <3>1. PICK s \in seen : Of("mcp_health") = checkInfraDimension("mcp_health", AskAt(s))
      BY <2>1, <2>2
    <3>2. PICK t \in seen : snapshot["pools"] = SnapshotPart("pools", AskAt(t))
      BY <2>3
    <3>3. AskAt(s).pools = AskAt(t).pools
      BY <2>4, <2>8, SteadyAnswers
    <3> QED
      BY <3>1, <3>2, <3>3, PoolsAgree
  <2> QED
    BY <2>5, <2>6, <2>7, <2>8 DEF PromptAgrees
<1> QED
  BY <1>1, Invariant, PTL
-----------------------------------------------------------------------------
(* The two implementations of ClusterDataSource.                           *)

LEMMA SameHistory ==
  ASSUME NEW h
  PROVE  L!Completed(h) = G!Completed(h)
BY DEF L!Completed, G!Completed

LEMMA SamePodFile ==
  ASSUME NEW p
  PROVE  L!parsePodFile(p) = G!parsePodFile(p)
BY DEF L!parsePodFile, G!parsePodFile, L!Restarts, G!Restarts, L!Reported, G!Reported,
       L!Waiting, G!Waiting, L!NoText, G!NoText

\* A list that the API returns and the list that is read from files.
LEMMA SameLists ==
  ASSUME NEW c
  PROVE  /\ \A kind \in Kinds : /\ L!List(kind, c, Kinds) = {c[kind]}
                               /\ G!findClusterScopedResources(kind, c, Kinds) = c[kind]
         /\ {"nodes", "operators", "version", "pools", "volumes", "claims", "pods", "events"} \subseteq Kinds
BY DEF L!List, G!findClusterScopedResources, Kinds

LEMMA SameObjects ==
  ASSUME NEW c
  PROVE  LET live == Ask("live-cluster", c, Kinds)
             files == Ask("must-gather", c, Kinds)
         IN  /\ live.nodes = files.nodes /\ live.operators = files.operators
             /\ live.version = files.version /\ live.pools = files.pools
             /\ live.volumes = files.volumes /\ live.claims = files.claims
             /\ live.events = files.events /\ live.certificates = files.certificates
<1> DEFINE live == Ask("live-cluster", c, Kinds)
           files == Ask("must-gather", c, Kinds)
<1>0. \A o, type : L!Holds(o, type) = G!Holds(o, type)
  BY DEF L!Holds, G!Holds
<1>1. /\ live = L!Answers(c, Kinds) /\ files = G!Answers(c, Kinds)
  BY DEF Ask
<1>2. L!GetNodes(c, Kinds) = G!GetNodes(c, Kinds)
  <2> DEFINE of_api(o) == [ready |-> L!Holds(o, "Ready"), conditions |-> o.conditions]
             of_file(o) == [ready |-> G!Holds(o, "Ready"), conditions |-> o.conditions]
  <2>1. \A o : of_api(o) = of_file(o)
    BY DEF L!Holds, G!Holds
  <2>2. /\ L!GetNodes(c, Kinds) = {{of_api(o) : o \in list} : list \in L!List("nodes", c, Kinds)}
        /\ G!GetNodes(c, Kinds) =
             {{of_file(o) : o \in G!findClusterScopedResources("nodes", c, Kinds)}}
    BY DEF L!GetNodes, G!GetNodes
  <2>3. /\ L!List("nodes", c, Kinds) = {c["nodes"]}
        /\ G!findClusterScopedResources("nodes", c, Kinds) = c["nodes"]
    BY SameLists
  <2> HIDE DEF of_api, of_file
  <2> QED
    BY <2>1, <2>2, <2>3
<1>3. L!GetClusterOperators(c, Kinds) = G!GetClusterOperators(c, Kinds)
  <2> DEFINE of_api(o) == [ name |-> o.name, available |-> L!Holds(o, "Available"),
                            progressing |-> L!Holds(o, "Progressing"), degraded |-> L!Holds(o, "Degraded") ]
             of_file(o) == [ name |-> o.name, available |-> G!Holds(o, "Available"),
                            progressing |-> G!Holds(o, "Progressing"), degraded |-> G!Holds(o, "Degraded") ]
  <2>1. \A o : of_api(o) = of_file(o)
    BY DEF L!Holds, G!Holds
  <2>2. /\ L!GetClusterOperators(c, Kinds) = {{of_api(o) : o \in list} : list \in L!List("operators", c, Kinds)}
        /\ G!GetClusterOperators(c, Kinds) =
             {{of_file(o) : o \in G!findClusterScopedResources("operators", c, Kinds)}}
    BY DEF L!GetClusterOperators, G!GetClusterOperators
  <2>3. /\ L!List("operators", c, Kinds) = {c["operators"]}
        /\ G!findClusterScopedResources("operators", c, Kinds) = c["operators"]
    BY SameLists
  <2> HIDE DEF of_api, of_file
  <2> QED
    BY <2>1, <2>2, <2>3
<1>4. L!GetClusterVersion(c, Kinds) = G!GetClusterVersion(c, Kinds)
  <2>1. L!NoText = G!NoText
    BY DEF L!NoText, G!NoText
  <2>2. UNION L!List("version", c, Kinds) = G!findClusterScopedResources("version", c, Kinds)
    BY SameLists
  <2> QED
    BY <1>0, <2>1, <2>2, SameHistory DEF L!GetClusterVersion, G!GetClusterVersion
<1>5. L!GetMachineConfigPools(c, Kinds) = G!GetMachineConfigPools(c, Kinds)
  <2> DEFINE of_api(o) == [ degraded |-> L!Holds(o, "Degraded"), updating |-> L!Holds(o, "Updating"),
                            paused |-> o.paused ]
             of_file(o) == [ degraded |-> G!Holds(o, "Degraded"), updating |-> G!Holds(o, "Updating"),
                            paused |-> o.paused ]
  <2>1. \A o : of_api(o) = of_file(o)
    BY DEF L!Holds, G!Holds
  <2>2. /\ L!GetMachineConfigPools(c, Kinds) = {{of_api(o) : o \in list} : list \in L!List("pools", c, Kinds)}
        /\ G!GetMachineConfigPools(c, Kinds) =
             {{of_file(o) : o \in G!findClusterScopedResources("pools", c, Kinds)}}
    BY DEF L!GetMachineConfigPools, G!GetMachineConfigPools
  <2>3. /\ L!List("pools", c, Kinds) = {c["pools"]}
        /\ G!findClusterScopedResources("pools", c, Kinds) = c["pools"]
    BY SameLists
  <2> HIDE DEF of_api, of_file
  <2> QED
    BY <2>1, <2>2, <2>3
<1>6. L!GetPVs(c, Kinds) = G!GetPVs(c, Kinds)
  BY SameLists DEF L!GetPVs, G!GetPVs
<1>7. L!GetPVCs(c, Kinds) = G!GetPVCs(c, Kinds)
  BY SameLists DEF L!GetPVCs, G!GetPVCs
<1>8. L!GetEvents(c, Kinds) = G!GetEvents(c, Kinds)
  <2>1. G!GetEvents(c, Kinds) = {{e \in c.events : e.type = "Warning"}}
    BY SameLists DEF G!GetEvents, G!parseEventsFile
  <2>2. L!GetEvents(c, Kinds) = {{e \in c.events : e.type = "Warning"}}
    BY SameLists DEF L!GetEvents
  <2> QED
    BY <2>1, <2>2
<1>9. L!GetCertificates(c, Kinds) = G!GetCertificates(c, Kinds)
  BY DEF L!GetCertificates, G!GetCertificates
<1> HIDE DEF live, files
<1>10. /\ live.nodes = files.nodes /\ live.operators = files.operators
       /\ live.version = files.version /\ live.pools = files.pools
       /\ live.volumes = files.volumes /\ live.claims = files.claims
       /\ live.events = files.events /\ live.certificates = files.certificates
  BY <1>1, <1>2, <1>3, <1>4, <1>5, <1>6, <1>7, <1>8, <1>9 DEF L!Answers, G!Answers
<1> QED
  BY <1>10 DEF live, files

\* The live cluster asks the operator kube-apiserver alone, the must-gather falls back on
\* the other API server if that one is not there.
LEMMA SameAPI ==
  ASSUME NEW c, Named(c.operators, "kube-apiserver") # {}
  PROVE  Ask("live-cluster", c, Kinds).api = Ask("must-gather", c, Kinds).api
<1> DEFINE live == UNION L!GetClusterOperators(c, Kinds)
           files == UNION G!GetClusterOperators(c, Kinds)
<1>1. live = files
  <2>1. /\ Ask("live-cluster", c, Kinds).operators = L!GetClusterOperators(c, Kinds)
        /\ Ask("must-gather", c, Kinds).operators = G!GetClusterOperators(c, Kinds)
    BY DEF Ask, L!Answers, G!Answers
  <2> QED
    BY <2>1, SameObjects
<1>2. {o \in live : o.name = "kube-apiserver"} # {}
  <2>1. L!GetClusterOperators(c, Kinds) =
          {{[ name |-> o.name, available |-> L!Holds(o, "Available"),
              progressing |-> L!Holds(o, "Progressing"), degraded |-> L!Holds(o, "Degraded") ] :
                o \in c.operators}}
    BY SameLists DEF L!GetClusterOperators
  <2>2. PICK o \in c.operators : o.name = "kube-apiserver"
    BY DEF Named
  <2> DEFINE x == [ name |-> o.name, available |-> L!Holds(o, "Available"),
                    progressing |-> L!Holds(o, "Progressing"), degraded |-> L!Holds(o, "Degraded") ]
  <2>3. x \in live /\ x.name = "kube-apiserver"
    BY <2>1, <2>2
  <2> QED
    BY <2>3
<1> HIDE DEF live, files
<1>3. L!GetAPIServerStatus(c, Kinds) = G!GetAPIServerStatus(c, Kinds)
  BY <1>1, <1>2 DEF L!GetAPIServerStatus, G!GetAPIServerStatus, live, files
<1> QED
  BY <1>3 DEF Ask, L!Answers, G!Answers

\* A dimension looks at the objects it is about and at nothing else.
LEMMA SameDimension ==
  ASSUME NEW a, NEW b, NEW dim \in Dimensions,
         a.nodes = b.nodes, a.operators = b.operators, a.version = b.version,
         a.pools = b.pools, a.volumes = b.volumes, a.certificates = b.certificates,
         dim = "api_server_health" => a.api = b.api
  PROVE  checkInfraDimension(dim, a) = checkInfraDimension(dim, b)
<1>1. /\ checkNodeHealth(a) = checkNodeHealth(b)
      /\ checkEtcdHealth(a) = checkEtcdHealth(b)
      /\ checkClusterVersionHealth(a) = checkClusterVersionHealth(b)
      /\ checkPVHealthInfra(a) = checkPVHealthInfra(b)
      /\ checkCertExpiry(a) = checkCertExpiry(b)
      /\ checkMCPHealthInfra(a) = checkMCPHealthInfra(b)
      /\ checkClusterOperatorByName(a, dim) = checkClusterOperatorByName(b, dim)
  BY DEF checkNodeHealth, checkEtcdHealth, checkClusterVersionHealth, checkPVHealthInfra,
         checkCertExpiry, checkMCPHealthInfra, checkClusterOperatorByName
<1>2. dim = "api_server_health" => checkAPIServerHealthInfra(a) = checkAPIServerHealthInfra(b)
  BY DEF checkAPIServerHealthInfra
<1> QED
  BY <1>1, <1>2 DEF checkInfraDimension

LEMMA ReadyReplaced ==
  ASSUME NEW a, NEW b, NEW n, NEW w, NEW v
  PROVE  [[phase |-> a, ready |-> b, restarts |-> n, waiting |-> w] EXCEPT !.ready = v]
            = [phase |-> a, ready |-> v, restarts |-> n, waiting |-> w]
OBVIOUS

\* The live cluster derives readiness from the containers, the must-gather reads the condition.
LEMMA SamePods ==
  ASSUME NEW c, \A pod \in c.pods : Coherent(pod)
  PROVE  Listed(SnapshotPart("pods", Ask("live-cluster", c, Kinds)))
            = Listed(SnapshotPart("pods", Ask("must-gather", c, Kinds)))
<1> DEFINE file(p) == G!parsePodFile(p)
           ready(p) == \A i \in DOMAIN p.containers : p.containers[i].ready
           live(p) == [file(p) EXCEPT !.ready = ready(p)]
           unready(x) == [x EXCEPT !.ready = FALSE]
           pods == c.pods
<1>1. /\ UNION Ask("live-cluster", c, Kinds).pods = {live(p) : p \in pods}
      /\ UNION Ask("must-gather", c, Kinds).pods = {file(p) : p \in pods}
  <2>1. \A p : L!LivePod(p) = live(p)
    BY SamePodFile DEF L!LivePod
  <2>2. /\ L!GetPods(c, Kinds) = {{L!LivePod(p) : p \in list} : list \in L!List("pods", c, Kinds)}
        /\ G!GetPods(c, Kinds) = {{file(p) : p \in pods}}
    BY SameLists DEF L!GetPods, G!GetPods
  <2>3. L!List("pods", c, Kinds) = {pods}
    BY SameLists
  <2> HIDE DEF live, file, pods
  <2> QED
    BY <2>1, <2>2, <2>3 DEF Ask, L!Answers, G!Answers
<1>2. ASSUME NEW p \in pods
      PROVE  /\ FailedPod(live(p)) <=> FailedPod(file(p))
             /\ unready(live(p)) = unready(file(p))
  <2> DEFINE n == G!Restarts(p.containers)
             w == {[reason |-> p.containers[i].waiting,
                    topics |-> p.containers[i].topics] : i \in G!Reported(p.containers)}
  <2>1. file(p) = [phase |-> p.phase, ready |-> p.ready, restarts |-> n, waiting |-> w]
    BY DEF G!parsePodFile
  <2> HIDE DEF file, n, w
  <2>2. /\ file(p).phase = p.phase /\ file(p).ready = p.ready
        /\ live(p).phase = file(p).phase /\ live(p).waiting = file(p).waiting
        /\ live(p).ready = ready(p) /\ unready(live(p)) = unready(file(p))
    <3> HIDE DEF ready
    <3>1. live(p) = [phase |-> p.phase, ready |-> ready(p), restarts |-> n, waiting |-> w]
      BY <2>1
    <3> HIDE DEF live
    <3>2. /\ unready(live(p)) = [phase |-> p.phase, ready |-> FALSE, restarts |-> n, waiting |-> w]
          /\ unready(file(p)) = [phase |-> p.phase, ready |-> FALSE, restarts |-> n, waiting |-> w]
      <4>1. /\ unready(live(p)) = [[phase |-> p.phase, ready |-> ready(p), restarts |-> n,
                                   waiting |-> w] EXCEPT !.ready = FALSE]
            /\ unready(file(p)) = [[phase |-> p.phase, ready |-> p.ready, restarts |-> n,
                                   waiting |-> w] EXCEPT !.ready = FALSE]
        BY <2>1, <3>1, Zenon
      <4> HIDE DEF unready
      <4> QED
        BY <4>1, ReadyReplaced
    <3> HIDE DEF unready
    <3> QED
      BY <2>1, <3>1, <3>2
  <2>3. p.phase = "Running" => (p.ready <=> ready(p))
    BY DEF Coherent
  <2> HIDE DEF live, ready, unready
  <2> QED
    BY <2>2, <2>3 DEF FailedPod
<1>3. /\ SnapshotPart("pods", Ask("live-cluster", c, Kinds))
            = {x \in {live(p) : p \in pods} : FailedPod(x)}
      /\ SnapshotPart("pods", Ask("must-gather", c, Kinds))
            = {x \in {file(p) : p \in pods} : FailedPod(x)}
  <2> HIDE DEF live, file, pods
  <2> QED
    BY <1>1 DEF SnapshotPart
<1>4. \A S : Listed(S) = {unready(x) : x \in S}
  BY DEF Listed
<1> HIDE DEF live, file, unready, pods
<1> DEFINE Failed == {p \in pods : FailedPod(file(p))}
<1>5. {unready(x) : x \in {y \in {file(p) : p \in pods} : FailedPod(y)}} = {unready(file(p)) : p \in Failed}
  OBVIOUS
<1>6. {unready(x) : x \in {y \in {live(p) : p \in pods} : FailedPod(y)}} = {unready(file(p)) : p \in Failed}
  BY <1>2
<1> QED
  BY <1>3, <1>4, <1>5, <1>6

\* LiveClusterSource and MustGatherSource are interchangeable for every cluster that can
\* be read completely: the same verdicts, the same failed pods and the same snapshot,
\* with the exceptions that SourcesAgree names.
THEOREM SourcesInterchange == Spec => []SourcesAgree
<1>1. SourcesAgree
  <2> DEFINE live == Ask("live-cluster", cluster, Kinds)
             files == Ask("must-gather", cluster, Kinds)
  <2>1. ASSUME NEW dim \in {InfraDimensionIDs[i] : i \in DOMAIN InfraDimensionIDs},
               checkInfraDimension(dim, live) # checkInfraDimension(dim, files)
        PROVE  dim = "api_server_health" /\ Named(cluster.operators, "kube-apiserver") = {}
    <3>1. dim \in Dimensions
      BY DimensionsOnce DEF Dimensions
    <3>2. live.api # files.api /\ dim = "api_server_health"
      BY <2>1, <3>1, SameObjects, SameDimension
    <3> QED
      BY <3>2, SameAPI
  <2>2. ASSUME NEW kind \in Kinds \ {"pods"}
        PROVE  SnapshotPart(kind, live) = SnapshotPart(kind, files)
    <3>1. /\ live.nodes = files.nodes /\ live.operators = files.operators
          /\ live.version = files.version /\ live.pools = files.pools
          /\ live.volumes = files.volumes /\ live.claims = files.claims
          /\ live.events = files.events
      BY SameObjects
    <3> HIDE DEF live, files
    <3> QED
      BY <3>1 DEF SnapshotPart, Kinds
  <2> QED
    BY <2>1, <2>2, SamePods DEF SourcesAgree
<1> QED
  BY <1>1, PTL
=============================================================================
