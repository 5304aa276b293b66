-------------------------- MODULE DiagnosePipeline --------------------------
(***************************************************************************)
(* One run of a command, from its flags to its exit code: Run and          *)
(* runMustGatherAnalysis (src/internal/cli/cli.go), RunTelcoDiagnose       *)
(* (telco.go), RunDiagnose and runDataSourceAnalysis (diagnose.go), with   *)
(* AnalyzeMustGather and analyzeSingleOperator (src/internal/analysis).    *)
(*                                                                         *)
(* The evidence of a report is the set of steps that delivered theirs.     *)
(* What the steps do is in the other modules: faults and health checks in  *)
(* FaultDetection, infrastructure checks, snapshot and noise in            *)
(* ClusterDiagnosis, hypotheses in AdhdDiagnose, correlation in            *)
(* Correlation, and what is looked up and recorded in LearningLoop.        *)
(* One timeout covers the whole run; once it has expired whatever needs    *)
(* the network or git fails, and nothing else stops.                       *)
(***************************************************************************)
EXTENDS Integers, FiniteSets, Catalog, Commands, Targets

CONSTANTS Invocations,  \* command lines: [command, args, kubeconfig]
          Dumps,        \* the must-gather directories there are, and what they hold
          Glob,         \* what a pattern matches, see ExpandMustGatherPaths
          Index         \* the catalog every reference to one renders to

\* What a pattern matches, if it is well formed, are directories there are.
ASSUME GlobAssumption ==
  \A p \in DOMAIN Glob : /\ Glob[p] \subseteq Seq(DOMAIN Dumps)
                         /\ \A f, g \in Glob[p] : f = g

\* A dump has lists of files, and each of them a list of operators.
ASSUME DumpsAssumption ==
  \A d \in DOMAIN Dumps : \A files \in {Dumps[d].cluster, Dumps[d].namespaced} :
    /\ files \in Seq(ToSet(files))
    /\ \A f \in ToSet(files) : f.operators \in Seq(ToSet(f.operators))

\* A command line is a sequence of flags with their words; the words after the
\* ones that take directories are patterns.  A flag that takes a word has one: without
\* it package flag takes the next flag for the word, which is left out.
ASSUME CommandLineAssumption ==
  \A i \in Invocations :
    /\ i.command \in DOMAIN KnownFlags
    /\ i.args \in Seq(ToSet(i.args))
    /\ \A a \in ToSet(i.args) :
         /\ a.words \in Seq(ToSet(a.words))
         /\ a.flag \in KnownFlags[i.command] \ Switches => a.words # <<>>
         /\ a.flag \in {"must-gather", "m"} => a.words \in Seq(DOMAIN Glob)

\* The catalog has what "opm validate" asks of one: a package has its name for itself,
\* a channel and a bundle theirs within the package, and names are not empty.
ASSUME IndexAssumption ==
  /\ Index.packages \in Seq(ToSet(Index.packages))
  /\ Index.channels \in Seq(ToSet(Index.channels))
  /\ Index.bundles \in Seq(ToSet(Index.bundles))
  /\ \A p, q \in ToSet(Index.packages) : p.name = q.name => p = q
  /\ \A c, d \in ToSet(Index.channels) : c.package = d.package /\ c.name = d.name => c = d
  /\ \A a, b \in ToSet(Index.bundles) : a.package = b.package /\ a.name = b.name => a = b
  /\ \A c \in ToSet(Index.channels) :
       c.name # NoText /\ c.entries \in Seq(ToSet(c.entries))

VARIABLES
  inv,       \* the command line
  config,    \* its configuration
  at,        \* the step to do next
  dirs,      \* directories to analyse, from the one in work on
  services,  \* what could be opened: "catalog", "client", "rag", "store"
  targets,   \* operators to analyse, from the one in work on
  report,    \* evidence and errors of the operator in work
  result,    \* the analysis of the directory in work
  results,   \* analyses that went through
  expired,   \* the timeout of the run has passed
  rcaFile,   \* what --rca-file holds: the documents in order, or nothing
  stateDir,  \* documents written next to the session files, by name
  shown,     \* what standard output holds
  exit       \* the exit code: 0 success, 1 usage, 2 operation; -1 while running

lookup == <<inv, config>>
work   == <<dirs, services, targets, report, result, results>>
output == <<rcaFile, stateDir, shown>>
vars   == <<lookup, at, work, expired, output, exit>>

NoReport == [got |-> {}, errors |-> {}]
NoResult(dir) == [dir |-> dir, cluster |-> NoText, faulty |-> 0, reports |-> <<>>, analyzed |-> 0,
                  errors |-> {}]

\* The steps of analyzeSingleOperator and of runDataSourceAnalysis, in order.
OperatorSteps == <<"health", "installed", "target", "delta", "code", "claude", "rag",
                   "adhd", "correlation", "similar", "document", "reported">>
LiveSteps     == <<"infra", "rag", "adhd", "correlation", "similar", "document", "written">>
After(step) ==
    LET steps == IF config.live THEN LiveSteps ELSE OperatorSteps
    IN  steps[1 + CHOOSE i \in DOMAIN steps : steps[i] = step]

Init ==
  /\ inv \in Invocations
  /\ config = [Common(<<>>) EXCEPT !.rca = FALSE]
  /\ at = "parse"
  /\ dirs = <<>> /\ services = {} /\ targets = <<>>
  /\ report = NoReport /\ result = NoResult(NoText) /\ results = <<>>
  /\ expired = FALSE
  /\ rcaFile = {} /\ stateDir = {} /\ shown = <<>>
  /\ exit = -1

\* Mutant of Leave: a branch returns without its exit code.
Leave_NoCode(code) == at' = "end" /\ exit' = exit

Ready(step)  == at = step
Goto(step)   == at' = step /\ exit' = exit
Leave(code)  == at' = "end" /\ exit' = code
Show(what)   == shown' = what /\ UNCHANGED <<rcaFile, stateDir>>

\* The timeout passes while a run is in work.
Expire ==
  /\ ~expired /\ at \notin {"parse", "end"}
  /\ expired' = TRUE
  /\ UNCHANGED <<lookup, at, work, output, exit>>

-----------------------------------------------------------------------------
(* The command.                                                            *)

\* Flags are read from the left: one that is not known ends it before a later "help".
AsksForHelp ==
  \E i \in DOMAIN Read(inv.args) :
    /\ inv.args[i].flag = "help"
    /\ \A j \in 1..(i - 1) : inv.args[j].flag \in KnownFlags[inv.command]

\* Flags are read and checked; the mode follows from them.
Parse ==
  /\ Ready("parse")
  /\ LET found == Configuration(inv.command, inv.args, inv.kubeconfig)
     IN  \/ AsksForHelp /\ Leave(0) /\ UNCHANGED config
         \/ ~AsksForHelp /\ found = {} /\ Leave(1) /\ UNCHANGED config
         \/ /\ ~AsksForHelp
            /\ config' \in found
            /\ Goto(IF config'.live THEN "connect"
                    ELSE IF config'.patterns # <<>> THEN "expand" ELSE "inspect")
  /\ UNCHANGED <<inv, work, expired, output>>

\* Without a dump: one bundle of the catalog is looked up, inspected, printed.
Inspect ==
  /\ Ready("inspect")
  /\ \/ Leave(2) /\ UNCHANGED output                     \* the catalog does not render
     \/ /\ ~expired
        /\ LET channels == IF config.channel # NoText THEN {config.channel}
                           ELSE ResolveDefaultChannel(Index, config.package)
               bundles  == UNION {Resolve(Index, config.package, c, config.version) : c \in channels}
           IN  \/ channels = {} /\ Leave(1) /\ UNCHANGED output
               \/ \E c \in channels :
                    /\ bundles = {} /\ UNCHANGED output
                    /\ Leave(IF isUsageError(Index, config.package, c, config.version) THEN 1 ELSE 2)
               \/ \E b \in bundles : Leave(0) /\ Show(<<b>>)
               \/ bundles # {} /\ Leave(2) /\ UNCHANGED output   \* the image cannot be inspected
  /\ UNCHANGED <<lookup, work, expired>>

\* Directories are collected from all patterns.
Expand ==
  /\ Ready("expand")
  /\ LET found == ExpandMustGatherPaths(config.patterns, Glob)
     IN  \/ found \in {{}, {<<>>}} /\ Leave(1) /\ UNCHANGED dirs
         \/ found \notin {{}, {<<>>}} /\ dirs' \in found /\ Goto("dump")
  /\ UNCHANGED <<lookup, services, targets, report, result, results, expired, output>>

-----------------------------------------------------------------------------
(* AnalyzeMustGather.                                                      *)

ClusterName == IF config.cluster # NoText THEN config.cluster ELSE Head(dirs)

\* The analysis is added to the results; without targets it ends early.
EndAnalysis(done) ==
  /\ results' = Append(results, done)
  /\ dirs' = Tail(dirs)
  /\ Goto(IF Tail(dirs) = <<>> THEN "merge" ELSE "dump")
  /\ result' = NoResult(NoText) /\ services' = {}

\* A dump that cannot be parsed is a warning; the other directories follow.
SkipDump ==
  /\ Ready("dump")
  /\ ParseMustGather(Dumps[Head(dirs)]) = {}
  /\ dirs' = Tail(dirs)
  /\ Goto(IF Tail(dirs) = <<>> THEN "merge" ELSE "dump")
  /\ UNCHANGED <<lookup, services, targets, report, result, results, expired, output>>

\* Operators and targets of a dump that can.
ParseDump ==
  /\ Ready("dump")
  /\ \E operators \in ParseMustGather(Dumps[Head(dirs)]) :
       LET parsed == [NoResult(Head(dirs)) EXCEPT
                        !.cluster = ClusterName,
                        !.faulty = Len(Select(operators, LAMBDA o : o.faulty))]
       IN  /\ targets' = selectTargets(operators, config)
           /\ \/ targets' = <<>> /\ EndAnalysis(parsed)
              \/ /\ targets' # <<>> /\ Goto("services") /\ result' = parsed
                 /\ UNCHANGED <<dirs, services, results>>
  /\ UNCHANGED <<lookup, report, expired, output>>

\* Mutant of Tolerated: a missing API key is only warned about as well.
Tolerated_Client == {"rag", "client"}

\* What must be opened; the failures but those of the knowledge base are kept.
Needed == (IF config.catalog # NoText THEN {"catalog"} ELSE {}) \cup {"client"}
          \cup (IF config.rag THEN {"rag"} ELSE {})
          \cup (IF config.metadataDir \/ config.learning \/ config.repoCorr THEN {"store"} ELSE {})
Tolerated == {"rag"}

\* Catalog, API client, knowledge base and databases, each if it can be had.
OpenServices ==
  /\ Ready("services")
  /\ \E open \in SUBSET Needed :
       /\ expired => "catalog" \notin open
       /\ services' = open
       /\ result' = [result EXCEPT !.errors = Needed \ (open \cup Tolerated)]
  /\ Goto("health")
  /\ UNCHANGED <<lookup, dirs, targets, report, results, expired, output>>

-----------------------------------------------------------------------------
(* analyzeSingleOperator, and the steps a live diagnosis shares with it.   *)

Op   == Head(targets)
Kept == <<lookup, dirs, services, targets, result, results, expired, output>>

Turn(step, after) == Ready(step) /\ report' = after /\ Goto(After(step)) /\ UNCHANGED Kept
Skip(step)        == Turn(step, report)
Deliver(step)     == Turn(step, [report EXCEPT !.got = @ \cup {step}])

\* A step that cannot fail.
Do(step, wanted) == IF wanted THEN Deliver(step) ELSE Skip(step)

\* A step whose failure is an error of the report.
Attempt(step, wanted, possible) ==
  \/ ~wanted /\ Skip(step)
  \/ wanted /\ possible /\ Deliver(step)
  \/ wanted /\ Turn(step, [report EXCEPT !.errors = @ \cup {step}])

\* A step whose failure is at most a warning on standard error.
Enrich(step, wanted, possible) ==
  \/ Skip(step)
  \/ wanted /\ possible /\ Deliver(step)

Opened(service) == service \in services
Has(step)       == step \in report.got
Bundled         == Op.package # Idms /\ Opened("catalog")
Installed       == findBundleImageForCSV(Index, Op.package, Op.installed)
Target          == Resolve(Index, Op.package, Op.channel, config.version)

\* The profile and the patterns of the failure text, then the health dimensions.
CheckHealth == Ready("health") /\ Do("health", config.health)

InspectInstalled == Ready("installed") /\ Attempt("installed", Bundled /\ Installed # {}, ~expired)

InspectTarget ==
  /\ Ready("target")
  /\ Attempt("target", Bundled /\ (config.version # <<>> \/ Op.channel # NoText),
             ~expired /\ Target # {})

\* Both bundles must tell their commits, and the target where they are.
Comparable == \A i \in Installed, t \in Target : i.commit # NoText /\ t.commit # NoText /\ t.url

CalculateDelta ==
  /\ Ready("delta")
  /\ Attempt("delta", Has("installed") /\ Has("target") /\ Comparable, ~expired)

\* In the repository given, or else in a clone of the target's.
AnalyzeCode ==
  /\ Ready("code")
  /\ Attempt("code",
             config.source \/ (Has("target") /\ (\A t \in Target : t.url) /\ buildCodePatterns(Op)),
             config.source \/ ~expired)

AskClaude == Ready("claude") /\ Attempt("claude", Opened("client") /\ Has("delta"), ~expired)

\* With a live cluster the knowledge base, the client and the database are
\* opened where they are needed.
Troubleshoot ==
  /\ Ready("rag")
  /\ Enrich("rag", IF config.live THEN config.rag ELSE Opened("rag"), TRUE)

Diverge ==
  /\ Ready("adhd")
  /\ IF config.live THEN Enrich("adhd", config.adhd, ~expired)
                    ELSE Attempt("adhd", config.adhd /\ Opened("client"), ~expired)

\* Correlate answers whatever happens to it.
CorrelateRepo ==
  /\ Ready("correlation")
  /\ Do("correlation", config.repoCorr /\ (config.live \/ Op.faulty))

FindSimilar ==
  /\ Ready("similar")
  /\ IF config.live THEN Enrich("similar", config.learning, TRUE)
                    ELSE Attempt("similar", config.learning /\ Opened("store"), TRUE)

Document == Ready("document") /\ Do("document", config.rca)

\* The report is complete; the next target follows.
EndOperator ==
  /\ Ready("reported")
  /\ LET new  == [dir |-> result.dir, op |-> Op, documented |-> Has("document")]
         done == [result EXCEPT !.reports = Append(@, new),
                                !.analyzed = IF report.errors = {} THEN @ + 1 ELSE @]
     IN  \/ Tail(targets) = <<>> /\ EndAnalysis(done)
         \/ /\ Tail(targets) # <<>> /\ result' = done /\ Goto("health")
            /\ UNCHANGED <<dirs, services, results>>
  /\ targets' = Tail(targets)
  /\ report' = NoReport
  /\ UNCHANGED <<lookup, expired, output>>

-----------------------------------------------------------------------------
(* What becomes of the results.                                            *)

\* mergeAnalysisResults: in order; the cluster is the one of the last.
Reports       == FlattenSeq([i \in DOMAIN results |-> results[i].reports])
Documents     == Select(Reports, LAMBDA r : r.documented)
MergedCluster == Last(results).cluster

\* Mutant of WriteRCAFile: a file that cannot be written is only warned about.
WriteRCAFile_Warns ==
  /\ Documents # <<>> /\ config.rcaFile # NoText
  /\ rcaFile' \in {{}, {Documents}} /\ shown' = Reports /\ Leave(0)
  /\ UNCHANGED stateDir

\* An RCA file that cannot be written ends the run, ...
WriteRCAFile ==
  /\ Documents # <<>> /\ config.rcaFile # NoText
  /\ \/ rcaFile' = {Documents} /\ shown' = Reports /\ Leave(0)
     \/ UNCHANGED <<rcaFile, shown>> /\ Leave(2)
  /\ UNCHANGED stateDir

\* ... one in the state directory that cannot is left out.
WriteStateDir ==
  /\ config.rcaFile = NoText
  /\ \E written \in SUBSET (IF config.stateDir = NoText THEN {} ELSE DOMAIN Documents) :
       stateDir' = {[cluster |-> MergedCluster, number |-> n, of |-> Documents[n]] : n \in written}
  /\ shown' = Reports /\ Leave(0)
  /\ UNCHANGED rcaFile

WriteResults ==
  /\ Ready("merge")
  /\ \/ results = <<>> /\ Leave(2) /\ UNCHANGED output
     \/ results # <<>> /\ WriteRCAFile
     \/ results # <<>> /\ WriteStateDir
     \/ /\ results # <<>> /\ Documents = <<>> /\ config.rcaFile # NoText
        /\ Show(Reports) /\ Leave(0)
  /\ UNCHANGED <<lookup, work, expired>>

-----------------------------------------------------------------------------
(* A live cluster.                                                         *)

Connect ==
  /\ Ready("connect")
  /\ \/ Goto("infra")
     \/ Leave(2)
  /\ UNCHANGED <<lookup, work, expired, output>>

RunInfraChecks == Ready("infra") /\ Do("infra", config.health)

\* Without an RCA document nothing is printed at all.
WriteLive ==
  /\ Ready("written")
  /\ LET doc == <<"live">>
     IN  \/ ~Has("document") /\ Leave(0) /\ UNCHANGED output
         \/ Has("document") /\ config.rcaFile = NoText /\ Show(doc) /\ Leave(0)
         \/ /\ Has("document") /\ config.rcaFile # NoText /\ UNCHANGED <<stateDir, shown>>
            /\ \/ rcaFile' = {doc} /\ Leave(0)
               \/ UNCHANGED rcaFile /\ Leave(2)
  /\ UNCHANGED <<lookup, work, expired>>

Done == at = "end" /\ UNCHANGED vars

AnalyzeSingleOperator ==
  \/ CheckHealth \/ InspectInstalled \/ InspectTarget \/ CalculateDelta \/ AnalyzeCode
  \/ AskClaude \/ Troubleshoot \/ Diverge \/ CorrelateRepo \/ FindSimilar \/ Document

Next ==
  \/ Expire \/ Parse \/ Inspect \/ Expand \/ SkipDump \/ ParseDump \/ OpenServices
  \/ AnalyzeSingleOperator \/ EndOperator \/ WriteResults
  \/ Connect \/ RunInfraChecks \/ WriteLive \/ Done

Spec == Init /\ [][Next]_vars

-----------------------------------------------------------------------------
(* Properties.                                                             *)

Steps == ToSet(OperatorSteps) \cup ToSet(LiveSteps)

\* Types; a run has an exit code exactly when it has ended.
TypeOK ==
  /\ inv \in Invocations
  /\ at \in Steps \cup {"parse", "inspect", "expand", "connect", "dump", "services", "merge", "end"}
  /\ ToSet(dirs) \subseteq DOMAIN Dumps
  /\ services \subseteq {"catalog", "client", "rag", "store"}
  /\ report \in [got : SUBSET Steps, errors : SUBSET Steps]
  /\ report.got \cap report.errors = {}
  /\ DOMAIN result = DOMAIN NoResult(NoText) /\ result.errors \subseteq {"catalog", "client", "store"}
  /\ \A i \in DOMAIN results : results[i].analyzed <= Len(results[i].reports)
  /\ expired \in BOOLEAN
  /\ exit \in -1..2 /\ (exit = -1 <=> at # "end")

\* The words of a flag as they stand on the command line, read or not.
Given(flag) ==
    LET its == {i \in DOMAIN inv.args : inv.args[i].flag = flag}
    IN  IF its = {} THEN <<>> ELSE inv.args[Max(its)].words

GivenPackage == IF Given("package") = <<>> THEN NoText ELSE Given("package")[1]

\* Of an operator with several subscriptions the suite takes the first.
AskedFor(op, operators) ==
    IF On(inv.args, "telco-suite") \/ (inv.command = "telco" /\ GivenPackage = NoText)
    THEN /\ op.package \in ToSet(Registry)
         /\ \A o \in ToSet(operators) : o.package = op.package => o = op
    ELSE GivenPackage \in {NoText, op.package}

\* No flag but --must-gather has more words than it takes.
WordsFit ==
    \A i \in DOMAIN inv.args :
      LET a == inv.args[i]
      IN  a.flag # "must-gather" => Len(a.words) <= IF a.flag \in Switches THEN 0 ELSE 1

\* However the shell split the command line after --must-gather, a run that
\* succeeds reports every faulty operator that was asked for, of every
\* directory named that can be parsed, whatever else failed on the way.
NoFaultIsSkipped ==
  exit = 0 /\ ~config.live /\ config.patterns # <<>> /\ Given("m") = <<>> /\ WordsFit =>
    \A p \in ToSet(Given("must-gather")) : \A found \in Glob[p] : \A d \in ToSet(found) :
      \A operators \in ParseMustGather(Dumps[d]) : \A op \in ToSet(operators) :
        op.faulty /\ AskedFor(op, operators) =>
          \E i \in DOMAIN shown : shown[i].dir = d /\ shown[i].op = op

\* What the flags ask for of an operator, as far as there is data for it.
Asked ==
  (IF config.health THEN {"health"} ELSE {})
  \cup (IF config.catalog # NoText /\ Op.package # Idms
        THEN (IF Installed = {} THEN {} ELSE {"installed"})
             \cup (IF Op.channel = NoText /\ config.version = <<>> THEN {} ELSE {"target"})
        ELSE {})
  \cup (IF Has("installed") /\ Has("target") /\ Comparable THEN {"delta"} ELSE {})
  \cup (IF Has("target") /\ (\A t \in Target : t.url) /\ buildCodePatterns(Op)
        THEN {"code"} ELSE {})
  \cup (IF Has("delta") THEN {"claude"} ELSE {})
  \cup (IF config.source THEN {"code"} ELSE {})
  \cup (IF config.adhd THEN {"adhd"} ELSE {})
  \cup (IF config.repoCorr /\ Op.faulty THEN {"correlation"} ELSE {})
  \cup (IF config.learning THEN {"similar"} ELSE {})
  \cup (IF config.rca THEN {"document"} ELSE {})

\* What a step takes that was to be opened before.
ServiceOf == [installed |-> "catalog", target |-> "catalog", claude |-> "client",
              adhd |-> "client", similar |-> "store"]

\* Delivered, or an error of the report or of the analysis says why not.
Accounted(s) ==
  Has(s) \/ s \in report.errors \/ (s \in DOMAIN ServiceOf /\ ServiceOf[s] \in result.errors)

\* Nothing that was asked for is missing from a report without an error that
\* says so, in the report or in the analysis, also once the timeout has passed.
MissingIsAccounted == Ready("reported") => \A s \in Asked : Accounted(s)

\* A bundle of the package asked for, on the channel or the default one, with the version.
Fits(b) ==
  /\ b.package = config.package /\ b.image
  /\ config.version # <<>> => IsPrefix(config.version, b.version)
  /\ \E c \in ToSet(Index.channels) :
       /\ c.package = config.package /\ b.name \in ToSet(c.entries)
       /\ c.name = config.channel
          \/ (config.channel = NoText /\ \E p \in ToSet(Index.packages) :
                                        p.name = config.package /\ p.default = c.name)

\* The exit code tells what there is.  Success: the reports of all directories
\* that could be parsed, at least one, and with --rca-file all their documents
\* in the same order; or the document of a live cluster; or a bundle that fits.
\* Otherwise nothing is printed, and after a usage error nothing was analysed
\* and, with a version of a catalog asked for, no bundle fits.
OutcomeIsRight ==
  /\ exit = 1 =>
       /\ results = <<>> /\ shown = <<>> /\ rcaFile = {}
       /\ config.patterns = <<>> /\ config.version # <<>> =>
            \A b \in ToSet(Index.bundles) : ~Fits(b)
  /\ exit = 2 => shown = <<>> /\ rcaFile = {} /\ stateDir = {}
  /\ exit = 0 /\ ~AsksForHelp =>
       IF config.live
       THEN config.rca => (rcaFile = {<<"live">>} \/ shown = <<"live">>)
       ELSE IF config.patterns = <<>> THEN Fits(shown[1])
       ELSE /\ results # <<>>
            /\ shown = Reports
            /\ config.rca /\ config.rcaFile # NoText /\ Reports # <<>> => rcaFile = {Reports}

-----------------------------------------------------------------------------
(* The inductive invariant.                                                *)

\* Where a step stands; the two orders agree on the steps they share.
Place == [infra |-> 0, health |-> 1, installed |-> 2, target |-> 3, delta |-> 4, code |-> 5,
          claude |-> 6, rag |-> 7, adhd |-> 8, correlation |-> 9, similar |-> 10,
          document |-> 11, reported |-> 12, written |-> 12]

\* A live diagnosis and the analysis of dumps do not share a way.
OnItsWay ==
  at \in IF config.live THEN ToSet(LiveSteps) \cup {"connect", "end"}
         ELSE ToSet(OperatorSteps)
              \cup {"parse", "inspect", "expand", "dump", "services", "merge", "end"}

\* A report holds what the steps so far made of it, and none is carried over.
ReportedInOrder ==
  /\ at \in Steps => \A s \in report.got \cup report.errors : Place[s] < Place[at]
  /\ at \notin Steps \cup {"end"} => report = NoReport

\* What was needed and not opened is an error of the analysis.
OpeningsKept ==
  ~config.live /\ at \in Steps => result.errors = Needed \ (services \cup Tolerated)

\* What was asked of the steps so far is there or is accounted for.
AccountedSoFar ==
  ~config.live /\ at \in Steps => \A s \in Asked : Place[s] < Place[at] => Accounted(s)

\* What is in the sequences a run works on.
SequencesTyped ==
  /\ config.patterns \in Seq(DOMAIN Glob)
  /\ dirs \in Seq(DOMAIN Dumps)
  /\ ~config.live /\ at \in Steps \cup {"dump", "services"} => dirs # <<>>
  /\ results \in Seq(ToSet(results))
  /\ result.reports \in Seq(ToSet(result.reports))
  /\ result.analyzed \in Nat /\ result.analyzed <= Len(result.reports)

\* The way a run takes tells its mode; only the analysis of dumps has results.
ModeKept ==
  /\ at = "parse" => config.version = <<>> /\ result.reports = <<>> /\ ~config.rca
  /\ at \in {"parse", "inspect"} => config.patterns = <<>>
  /\ ~config.live /\ at \in Steps \cup {"expand", "dump", "services", "merge"} =>
       config.patterns # <<>>
  /\ config.live \/ at \in {"parse", "inspect", "expand"} => results = <<>>

\* With RCA documents asked for, every report that is complete has one.
AllDocumented ==
  /\ \A i \in DOMAIN results : results[i].reports \in Seq(ToSet(results[i].reports))
  /\ config.rca =>
       /\ at \in {"reported", "written"} => Has("document")
       /\ \A r \in ToSet(result.reports) : r.documented
       /\ \A i \in DOMAIN results : \A r \in ToSet(results[i].reports) : r.documented

\* Nothing is printed or written before the run ends.
SilentUntilEnd == at # "end" => shown = <<>> /\ rcaFile = {} /\ stateDir = {}

\* The configuration is the one of the command line.
ConfigRead ==
  config.patterns # <<>> =>
    ~AsksForHelp /\ config \in Configuration(inv.command, inv.args, inv.kubeconfig)

\* Every target of the directory has its report.
Covered(d) ==
  \A operators \in ParseMustGather(Dumps[d]) : \A op \in ToSet(selectTargets(operators, config)) :
    \E i \in DOMAIN results : \E r \in ToSet(results[i].reports) : r.dir = d /\ r.op = op

\* A directory named is still to be analysed or covered; in the end all of them are.
DirectoriesCovered ==
  ~config.live /\ (at \in Steps \cup {"dump", "services", "merge"}
                   \/ (exit = 0 /\ config.patterns # <<>>)) =>
    /\ \A p \in ToSet(config.patterns) : \A found \in Glob[p] : \A d \in ToSet(found) :
         d \in ToSet(dirs) \/ Covered(d)
    /\ at \in {"merge", "end"} => dirs = <<>>

\* A target of the directory in work is still to be analysed or has its report.
TargetsCovered ==
  ~config.live /\ at \in Steps \cup {"services"} =>
    /\ targets \in Seq(ToSet(targets)) /\ targets # <<>> /\ result.dir = Head(dirs)
    /\ \A operators \in ParseMustGather(Dumps[Head(dirs)]) :
         \A op \in ToSet(selectTargets(operators, config)) :
           op \in ToSet(targets) \/ \E r \in ToSet(result.reports) : r.dir = Head(dirs) /\ r.op = op

\* Each is inductive with the ones before it.
IInv == /\ TypeOK /\ OnItsWay /\ ReportedInOrder /\ OpeningsKept /\ AccountedSoFar /\ SequencesTyped
OutcomeInv == ModeKept /\ AllDocumented /\ SilentUntilEnd /\ OutcomeIsRight
CoverInv == ConfigRead /\ DirectoriesCovered /\ TargetsCovered
=============================================================================
