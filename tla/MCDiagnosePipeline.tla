------------------------ MODULE MCDiagnosePipeline ------------------------
(***************************************************************************)
(* Three dumps that can be parsed and three that cannot, one catalog, and  *)
(* command lines of every command and mode.                                *)
(***************************************************************************)
EXTENDS DiagnosePipeline

MCRegistry == <<"nmstate", "oadp">>

Operator(package, namespace, channel, installed, faulty) ==
    [package |-> package, namespace |-> namespace, channel |-> channel,
     installed |-> installed, faulty |-> faulty, telling |-> package = "acme"]

File(readable, operators) == [readable |-> readable, operators |-> operators]
Dump(walkable, cluster, namespaced) ==
    [walkable |-> walkable, cluster |-> cluster, namespaced |-> namespaced]

NMState == Operator("nmstate", "ns1", "stable", "nmstate.v4.1", TRUE)
Acme    == Operator("acme", "ns2", "fast", "acme.v1", TRUE)
Quiet   == Operator("quiet", "ns3", "", "quiet.v1", FALSE)

MCDumps ==
    [ namespaced |-> Dump(TRUE, <<>>, <<File(TRUE, <<NMState>>), File(FALSE, <<Quiet>>), File(TRUE, <<Acme>>)>>),
      twoLists   |-> Dump(TRUE, <<File(FALSE, <<>>), File(TRUE, <<Quiet, Acme>>)>>, <<>>),
      twice      |-> Dump(TRUE, <<File(TRUE, <<[NMState EXCEPT !.faulty = FALSE],
                                               [NMState EXCEPT !.namespace = "ns4"]>>)>>, <<>>),
      healthy    |-> Dump(TRUE, <<File(TRUE, <<Quiet>>)>>, <<>>),
      cutOff     |-> Dump(TRUE, <<File(TRUE, <<Quiet>>), File(FALSE, <<>>)>>, <<File(TRUE, <<Acme>>)>>),
      empty      |-> Dump(TRUE, <<>>, <<File(FALSE, <<Acme>>)>>),
      locked     |-> Dump(FALSE, <<File(TRUE, <<Acme>>)>>, <<>>) ]

\* A pattern "all" matches several, "none" nothing, "[" is malformed.
MCGlob == [d \in DOMAIN MCDumps |-> {<<d>>}]
          @@ ("all" :> {<<"cutOff", "twoLists">>}) @@ ("bad" :> {<<"empty", "locked">>})
          @@ ("none" :> {<<>>}) @@ ("[" :> {})

Channel(package, name, entries) == [package |-> package, name |-> name, entries |-> entries]
Bundle(package, name, version, image, commit, url) ==
    [package |-> package, name |-> name, version |-> version, image |-> image,
     commit |-> commit, url |-> url]

MCIndex ==
    [ packages |-> <<[name |-> "nmstate", default |-> "stable"], [name |-> "acme", default |-> ""]>>,
      channels |-> <<Channel("nmstate", "stable", <<"nmstate.v4.1", "nmstate.v4.2", "nmstate.v4.2.509">>),
                     Channel("nmstate", "old", <<>>), Channel("acme", "fast", <<"acme.v1", "acme.v2">>)>>,
      bundles  |-> <<Bundle("nmstate", "nmstate.v4.1", <<4, 1>>, TRUE, "c1", TRUE),
                     Bundle("nmstate", "nmstate.v4.2", <<4, 2>>, TRUE, "c2", TRUE),
                     Bundle("nmstate", "nmstate.v4.2.509", <<4, 2, 509>>, TRUE, "c3", TRUE),
                     Bundle("acme", "acme.v1", <<1>>, TRUE, "", FALSE),
                     Bundle("acme", "acme.v2", <<2>>, FALSE, "c4", TRUE)>> ]

F(flag)       == [flag |-> flag, words |-> <<>>]
W(flag, word) == [flag |-> flag, words |-> <<word>>]
Paths(words)  == [flag |-> "must-gather", words |-> words]
Run(command, args)  == [command |-> command, args |-> args, kubeconfig |-> FALSE]
Home(command, args) == [command |-> command, args |-> args, kubeconfig |-> TRUE]
Quick == <<F("adhd=false"), F("learning=false"), F("repo-correlation=false")>>

MCInvocations ==
    { Run("inspect", <<F("help")>>),
      Run("telco",   <<F("adhd=false"), F("help")>>),
      Run("inspect", <<W("package", "nmstate")>>),
      Run("inspect", <<W("catalog", "idx"), W("package", "acme")>>),
      Run("inspect", <<W("catalog", "idx"), W("package", "nmstate")>>),
      Run("inspect", <<W("catalog", "idx"), W("package", "acme"), W("channel", "fast")>>),
      Run("inspect", <<W("catalog", "idx"), W("package", "nmstate"), W("version", <<4, 2>>)>>),
      Run("inspect", <<W("catalog", "idx"), W("package", "nmstate"), W("version", <<4, 5>>)>>),
      Run("inspect", <<W("catalog", "idx"), W("package", "nmstate"), W("channel", "old"), W("version", <<4>>)>>),
      Run("inspect", <<Paths(<<"namespaced">>)>>),
      Run("inspect", <<Paths(<<"none">>), F("telco-suite")>>),
      Run("inspect", <<Paths(<<"namespaced", "[">>), W("package", "acme")>>),
      Run("inspect", <<Paths(<<"bad">>), W("package", "acme")>>),
      Run("inspect", <<Paths(<<"namespaced", "cutOff", "twoLists">>), W("package", "acme"), W("rca-file", "r")>>),
      Run("inspect", <<Paths(<<"healthy", "twice">>), W("package", "quiet"), F("health-check=false"),
                       W("rca-file", "r")>>),
      Run("telco",   <<Paths(<<"healthy">>), W("package", "acme"), W("rca-file", "r")>>),
      Run("telco",   <<Paths(<<"twice", "all">>), W("catalog", "idx"), W("state-dir", "s")>>),
      Run("telco",   <<[flag |-> "m", words |-> <<"healthy", "twice">>], W("package", "nmstate")>>),
      Run("opm",     <<Paths(<<"namespaced">>), W("depth", "odd")>>),
      Run("opm",     <<Paths(<<"twoLists", "namespaced">>), W("cluster-name", "edge"), W("state-dir", "s"), F("rag")>>),
      Home("opm",    <<Paths(<<"namespaced">>), W("package", "nmstate"), W("catalog", "idx"),
                       W("version", <<4, 2>>), F("rag"), W("rca-file", "r")>>),
      Run("opm",     <<Paths(<<"twice", "twoLists">>), W("catalog", "idx"), W("source-repo", "src")>> \o Quick),
      Home("opm",    <<F("rag"), W("rca-file", "r")>>),
      Home("opm",    <<F("rca=false")>> \o Quick),
      Run("opm",     <<W("kubeconfig", "k"), Paths(<<"namespaced">>)>>) }
=============================================================================
