------------------------------ MODULE Commands ------------------------------
(***************************************************************************)
(* The command lines of src/internal/cli: catalog-bundle-inspect (cli.go), *)
(* telco-diagnose (telco.go) and opm-diagnose (diagnose.go).               *)
(*                                                                         *)
(* A command line is a sequence of flags, each with the words that follow  *)
(* it up to the next flag, as a shell leaves them: after a flag with a     *)
(* pattern the shell expands there may be several.  An absent text is      *)
(* NoText; a boolean flag that is switched off has a name of its own.      *)
(***************************************************************************)
EXTENDS Naturals, Sequences, Catalog, FiniteSetsExt

Shared == {"must-gather", "catalog", "package", "version", "environment", "source-repo",
           "rca-file", "cluster-name", "state-dir", "timeout", "json", "help"}

KnownFlags ==
    [ inspect |-> Shared \cup {"channel", "telco-suite", "health-check=false", "rca"},
      telco   |-> Shared \cup {"m", "no-rca", "no-health-check"},
      opm     |-> Shared \cup {"m", "kubeconfig", "context", "telco-suite", "health-check=false",
                               "rca=false", "adhd=false", "frames", "depth", "metadata-dir",
                               "learning=false", "repo-correlation=false", "github-token",
                               "rag", "rag-config", "rag-data"} ]

Switches == {"json", "help", "telco-suite", "health-check=false", "rca", "no-rca", "rca=false",
             "no-health-check", "adhd=false", "learning=false", "repo-correlation=false", "rag"}

\* Mutant of Surplus: without the joining, --must-gather takes one word as well.
Surplus_NotJoined(arg) == Len(arg.words) > (IF arg.flag \in Switches THEN 0 ELSE 1)

\* Words that nothing takes: preprocessMustGatherArgs joins those after
\* --must-gather, a switch takes none, any other flag one.
Surplus(arg) == /\ arg.flag # "must-gather"
                /\ Len(arg.words) > (IF arg.flag \in Switches THEN 0 ELSE 1)

\* Package flag stops reading at the first such word; nobody looks at the rest.
Read(args) ==
    LET stops == {i \in DOMAIN args : Surplus(args[i])}
    IN  IF stops = {} THEN args ELSE SubSeq(args, 1, Min(stops))

\* The words of the flag as read last.
WordsOf(args, flags) ==
    LET given == {i \in DOMAIN Read(args) : args[i].flag \in flags}
        last  == args[Max(given)]
    IN  IF given = {} THEN <<>>
        ELSE IF Surplus(last) THEN SubSeq(last.words, 1, 1) ELSE last.words

Text(args, flag) == LET w == WordsOf(args, {flag}) IN IF w = <<>> THEN NoText ELSE w[1]
On(args, switch) == \E i \in DOMAIN Read(args) : Read(args)[i].flag = switch

\* The word after --version is the sequence of parts that Catalog compares.
Version(args) == LET w == WordsOf(args, {"version"}) IN IF w = <<>> THEN <<>> ELSE w[1]

\* What all commands pass on; each of them fills in the rest.
Common(args) ==
    [ live |-> FALSE, patterns |-> <<>>, catalog |-> Text(args, "catalog"),
      package |-> Text(args, "package"), channel |-> NoText, version |-> Version(args),
      suite |-> FALSE, health |-> TRUE, source |-> Text(args, "source-repo") # NoText,
      rca |-> TRUE, rcaFile |-> Text(args, "rca-file"), cluster |-> Text(args, "cluster-name"),
      stateDir |-> Text(args, "state-dir"), adhd |-> FALSE, learning |-> FALSE,
      repoCorr |-> FALSE, metadataDir |-> FALSE, rag |-> FALSE ]

\* catalog-bundle-inspect: a report file implies a report; a dump needs a
\* package or the suite, without a dump both catalog and package are needed.
ParseArgs(args) ==
    LET c == [Common(args) EXCEPT
                !.patterns = WordsOf(args, {"must-gather"}), !.channel = Text(args, "channel"),
                !.suite = On(args, "telco-suite"), !.health = ~On(args, "health-check=false"),
                !.rca = On(args, "rca") \/ Text(args, "rca-file") # NoText]
    IN  {x \in {c} : IF x.patterns # <<>> THEN x.package # NoText \/ x.suite
                                          ELSE x.catalog # NoText /\ x.package # NoText}

\* telco-diagnose: the suite unless a package is named.
ParseTelcoArgs(args) ==
    LET c == [Common(args) EXCEPT
                !.patterns = WordsOf(args, {"must-gather", "m"}), !.suite = Text(args, "package") = NoText,
                !.health = ~On(args, "no-health-check"), !.rca = ~On(args, "no-rca")]
    IN  {x \in {c} : x.patterns # <<>>}

\* opm-diagnose: a kubeconfig named goes before a dump, one found only where
\* no dump is named; everything is on unless switched off.
ParseDiagnoseArgs(args, kubeconfigFound) ==
    LET patterns == WordsOf(args, {"must-gather", "m"})
        c == [Common(args) EXCEPT
                !.live = Text(args, "kubeconfig") # NoText \/ (patterns = <<>> /\ kubeconfigFound),
                !.patterns = patterns, !.suite = On(args, "telco-suite"),
                !.health = ~On(args, "health-check=false"), !.rca = ~On(args, "rca=false"),
                !.adhd = ~On(args, "adhd=false"), !.learning = ~On(args, "learning=false"),
                !.repoCorr = ~On(args, "repo-correlation=false"),
                !.metadataDir = Text(args, "metadata-dir") # NoText, !.rag = On(args, "rag")]
    IN  {x \in {c} : /\ x.live \/ x.patterns # <<>>
                     /\ Text(args, "depth") \in {NoText, "quick", "standard", "deep"}}

\* The configuration of a command line; none if it is refused.
Configuration(command, args, kubeconfigFound) ==
    IF \E i \in DOMAIN Read(args) : Read(args)[i].flag \notin KnownFlags[command] THEN {}
    ELSE CASE command = "inspect" -> ParseArgs(args)
           [] command = "telco"   -> ParseTelcoArgs(args)
           [] command = "opm"     -> ParseDiagnoseArgs(args, kubeconfigFound)

\* The directories of all patterns, in order; a directory that two patterns
\* match comes twice.  "glob" maps a pattern to what it matches, {} if malformed.
ExpandMustGatherPaths(patterns, glob) ==
    IF \E i \in DOMAIN patterns : glob[patterns[i]] = {} THEN {}
    ELSE {FlattenSeq([i \in DOMAIN patterns |-> CHOOSE m \in glob[patterns[i]] : TRUE])}
=============================================================================
