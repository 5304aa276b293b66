---------------------------- MODULE NoiseFilter ----------------------------
(***************************************************************************)
(* internal/noise: which findings of a health report are cosmetic in the   *)
(* environment the user names.  A topic stands for the words of one or     *)
(* more rules; a text is the set of the topics it mentions.                *)
(***************************************************************************)
EXTENDS HealthChecks

Environments == {"production", "disconnected", "lab", "kvm"}

\* Where the words of a topic are noise.  "upgrade" is in the rule of cluster
\* upgrades, "approval" in that of plans that wait for approval.
noiseRules ==
    [ network    |-> {"kvm", "lab"},          machine    |-> {"kvm", "lab"},
      pull       |-> {"disconnected", "lab"}, catalog    |-> {"disconnected"},
      x509       |-> {"lab"},                 dns        |-> {"kvm", "lab"},
      approval   |-> {"lab"},                 etcd       |-> {"kvm", "lab"},
      paused     |-> {"lab"},                 notready   |-> {"kvm", "lab"},
      upgrade    |-> {"lab"},                 monitoring |-> {"disconnected"} ]

\* A lab also takes the rules of kvm.
envMatches(env, targets) ==
    env \in targets \/ (env = "lab" /\ "kvm" \in targets)

matchNoise(env, topics) ==
    \E t \in topics \cap DOMAIN noiseRules : envMatches(env, noiseRules[t])

Findings(dimensions) ==
    {d \in DOMAIN dimensions : dimensions[d].status \notin {"Pass", "Skip"}}

Classify(env, result) ==
    IF matchNoise(env, result.topics) THEN "cosmetic"
    ELSE IF result.severity = "Warning" /\ env # "production" THEN "ambiguous"
    ELSE "real"

Filter(env, dimensions) ==
    LET class == [d \in Findings(dimensions) |-> Classify(env, dimensions[d])]
        Of(c) == {d \in DOMAIN class : class[d] = c}
    IN  [ real |-> Of("real"), cosmetic |-> Of("cosmetic"), ambiguous |-> Of("ambiguous") ]
=============================================================================
