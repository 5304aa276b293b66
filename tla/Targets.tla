------------------------------ MODULE Targets ------------------------------
(***************************************************************************)
(* Which subscriptions a must-gather has (ParseMustGather in               *)
(* src/internal/mustgather/parse.go) and which of them are analysed        *)
(* (selectTargets in src/internal/analysis/analyze.go).                    *)
(*                                                                         *)
(* A file is readable or not and has subscriptions.  Whether an operator   *)
(* is faulty, and that it has a reason exactly then, is FaultDetection's.  *)
(***************************************************************************)
EXTENDS Naturals, Sequences, Catalog, FiniteSets

CONSTANT Registry   \* packages of the telco suite, in its order

ASSUME RegistryAssumption == Registry \in Seq(ToSet(Registry)) /\ IsInjective(Registry)

Idms == "idms-mirror-check"

\* The walk goes on after the first file it wants, so the last one counts.
findSubscriptionsFile(dump) == IF dump.cluster = <<>> THEN {} ELSE {Last(dump.cluster)}

\* Files of namespaces that cannot be read are passed over.
findNamespaceScopedSubscriptions(dump) ==
    LET good == Select(dump.namespaced, LAMBDA f : f.readable)
    IN  FlattenSeq([i \in DOMAIN good |-> good[i].operators])

\* The operators of a dump, none if it is refused: the walk fails, the
\* cluster-wide list cannot be read, or there is nothing in the namespaces.
ParseMustGather(dump) ==
    IF ~dump.walkable THEN {}
    ELSE IF findSubscriptionsFile(dump) # {}
         THEN {f.operators : f \in {f \in findSubscriptionsFile(dump) : f.readable}}
         ELSE {findNamespaceScopedSubscriptions(dump)} \ {<<>>}

\* An operator that no subscription names, and the one that stands for IDMS.
NotFound(package) == [package |-> package, namespace |-> NoText, channel |-> NoText, installed |-> NoText,
                      faulty |-> FALSE, telling |-> FALSE]

\* The first subscription of every package of the suite, and IDMS.
selectTelcoSuite(operators) ==
    [i \in DOMAIN Registry |->
        LET its == First(operators, LAMBDA o : o.package = Registry[i])
        IN  IF its = {} THEN NotFound(Registry[i]) ELSE CHOOSE o \in its : TRUE]
    \o <<NotFound(Idms)>>

\* The faulty ones of the package named, or of all; with health checks all of
\* the package; if that leaves none, the first of the package.
selectTargets(operators, config) ==
    LET Named(o)  == config.package \in {NoText, o.package}
        Wanted(o) == Named(o) /\ (o.faulty \/ (config.health /\ config.package # NoText))
        wanted    == Select(operators, Wanted)
        named     == Select(operators, Named)
    IN  IF config.suite THEN selectTelcoSuite(operators)
        ELSE IF config.package # NoText /\ wanted = <<>> /\ named # <<>> THEN <<named[1]>>
        ELSE wanted

\* The operator of the registry has a profile, and so has IDMS.
Profiled(op) == op.package \in ToSet(Registry) \cup {Idms}

\* The profile's texts and parts of the failure text are searched for in code.
buildCodePatterns(op) == Profiled(op) \/ op.telling
=============================================================================
