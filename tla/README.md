# Formal models of opm-troubleshooting

TLA+ modules, TLC runs and TLAPS proofs about the program in `src/`: a set of Go
commands that diagnose OpenShift operators from must-gather archives or a live
cluster, ask the Claude API for hypotheses, remember past analyses and answer
questions from a local knowledge base.

`PROJECT.json` maps every definition to the source lines it stands for and lists
the runs, the mutants, the findings, the hazards and the theorems.

## Inventory

| Part (source) | State it keeps | Operations | Talks to |
|---|---|---|---|
| ADHD engine (`internal/adhd`) | results slice, semaphore, wait group; the hypotheses of a cycle | `Diagnose`: diverge, score, detect traps, rank, cluster, deepen, provoke | Claude API client |
| RAG store (`internal/rag/store.go`) | chromem database on disk, map of collection objects, mutex | `NewStore`, `AddDocuments`, `Search*`, `Reset` | chromem-go, Ollama |
| Ingestion, freshness (`internal/rag/ingest`, `freshness.go`) | clones, documentation repository, metadata file | `RunIngestion`, `CheckFreshness` | git, RAG store |
| RAG engine (`internal/rag/engine.go`, `retrieval.go`, `embeddings.go`) | resolved endpoint | `Troubleshoot`, searches in parallel | RAG store, Ollama |
| RAG server and tools (`internal/rag/mcp`, `cmd/ocp-rag-*`) | one engine per process | MCP tools, handled concurrently; `update_rag` | RAG engine, ingestion |
| Session store (`internal/session`) | one JSON file per cluster and package | `Load`, `RecordRun`, `Save` | analysis |
| Metadata store (`internal/metadata`) | SQLite tables | statements and one transaction, `MigrateFromJSON` | analysis, learning |
| Learning (`internal/learning`) | none | fingerprints, three tiers of similar issues, boosts (no caller) | metadata store |
| Analysis pipeline (`internal/analysis`) | the report of a run | `AnalyzeMustGather`, `analyzeSingleOperator`, `recordToMetadata` | everything below |
| Repository correlation (`internal/openshift`) | clone cache shared by processes | `Correlate`, `CloneOrUpdate`, `ClassifyEnhanced`, the grade | git, GitHub, code analysis |
| Code analysis, commit delta (`internal/codeanalysis`, `gitdelta`) | temporary clone | `CloneAndAnalyze`, `CalculateDelta` | git |
| Must-gather parser (`internal/mustgather`) | none | `ParseMustGather`, install plans, workloads | files |
| Health checks, noise filter (`internal/healthcheck`, `noise`) | none | 20 dimensions, infrastructure checks, classification of alerts | data source |
| Root causes, report (`internal/rca`) | none | pattern detection, report text | - |
| Catalog, bundles (`internal/catalog`, `imageinspect`, `workflow`, `bundlecsv`) | none | channel heads, versions, labels of bundle images | registry |
| Data sources (`internal/datasource`, `livecluster`) | none | typed lists of cluster objects | files, Kubernetes |
| Telco registry (`internal/telco`) | none | the table of operators of the suite | - |
| Claude client (`internal/claudeapi`) | none | one HTTP request per call | Claude API |
| Command line (`internal/cli`, `cmd/*`) | none | flags, several directories, exit codes | analysis |

What is hard in it, and what makes each part correct:

* **ADHD engine.** One goroutine per frame behind a semaphore; frames fail, finish
  out of order, and the context may be cancelled at any moment. Correct when never
  more requests are in flight than allowed, the branches come back in frame order,
  nothing outlives the call, and the call always returns. The later phases match
  hypotheses by an identifier that the API chose per frame, store marks in a struct
  that scoring replaces, and fail independently.
* **Knowledge base.** `update_rag` runs while other tool calls search, and twice at
  the same time; a collection is replaced by deleting and creating it; every failing
  step is a warning; a killed process leaves a directory the database refuses, which
  makes `NewStore` remove it, but not the clones and the metadata file beside it. Correct
  when searches never ask for more than there is, an undisturbed ingestion leaves every
  collection complete in memory and on disk, and a base that is called fresh holds nothing
  newer than its record; it should also not be empty, which the code misses.
* **What analyses remember.** Processes share a JSON file that is read once and
  rewritten whole, and a database in which a fingerprint takes two statements; errors
  are dropped almost everywhere. Correct when hits are not lost, evidence belongs to
  a recorded run, an issue is not similar to itself, and the history, although analyses
  that overlap lose entries, is always that of one line of analyses.
* **Clones.** A `.git` directory stands for a usable clone, although another process
  may be making it, or a timeout or a kill may have left it half made. Correct when
  one process at most makes it, and matches and commits of a report are of one commit.
* **Classes and grades.** Weights, thresholds and precedences spread over several
  functions. Correct when a class has grounds and a good grade takes good evidence.
* **Faults.** The verdict on an operator, the reason for it, the health dimensions, the
  noise filter and two derived statuses read the same files through different code, in
  different orders, with files missing. Correct when they do not contradict each other:
  a fault is also a finding, a cause comes from the plan that decided, a message is lost
  only when there is nothing to say.
* **A cluster.** Thirteen dimensions and eight reads for a prompt go one after the other
  through one interface with two implementations, over a cluster that changes and an API
  that fails. Correct when a finding was once true, a pass had data, prompt and findings
  tell the same of every kind of objects that did not change, and the two sources agree.
* **A run.** Three commands share flags, directories, optional services, a dozen optional
  steps per operator, one timeout and several outputs. Correct when no faulty operator
  asked for is left out, what is missing has an error, and the exit code tells the truth.

## Modules

| Module | Models |
|---|---|
| `DivergeContract` | abstract: what `Engine.diverge` promises to `Diagnose` |
| `AdhdDiverge` | `Engine.diverge`: caller, goroutines, semaphore, wait group, cancellation |
| `AdhdDiagnose` | the phases of `Engine.Diagnose`, on top of `DivergeContract` |
| `*_proofs` | the proofs about the module of that name, see *Proofs* |
| `RagStore` | `rag.Store` over the external database |
| `RagIngest` | `RunIngestion` and `CheckFreshness`, over `RagStore`, with crashes and restarts |
| `SessionStore` | the session file |
| `MetadataStore` | the tables of the SQLite store |
| `LearningLoop` | concurrent analyses over `SessionStore` and `MetadataStore` |
| `Classifier` | `ClassifyEnhanced` and `computeGrade` as operators on the evidence |
| `Correlation` | concurrent `Correlate` calls over the cached clone, with `Classifier` |
| `MustGather` | what the parser makes of a subscription, its CSV, its plan and its workloads |
| `HealthChecks` | the twenty dimensions of an operator; EXTENDS `MustGather` |
| `NoiseFilter` | rules, environments and classes of findings; EXTENDS `HealthChecks` |
| `FaultDetection` | one operator from its subscription to the two statuses; EXTENDS `NoiseFilter` |
| `LiveClusterSource`, `MustGatherSource` | the two implementations of the data source |
| `InfraChecks` | the thirteen dimensions of a cluster and its snapshot, over both sources |
| `ClusterDiagnosis` | these reads one by one over a cluster that changes |
| `Catalog` | channel heads, versions and bundles of a rendered catalog |
| `Commands` | command lines and the configurations they become |
| `Targets` | subscriptions of a must-gather and the operators selected from it |
| `DiagnosePipeline` | a run of a command from its flags to its exit code; EXTENDS the three above |
| `MC*` | constants for the runs |

### AdhdDiverge and AdhdDiagnose

`worker[f]` is the program counter of the goroutine of frame `f`: unborn, queued at
the semaphore, in `Complete` (`calling`, or `doomed` when the context was already
cancelled), result written, slot released, finished. `slots` is the fill of the
channel, `wg` the wait group, `results` the shared slice. `Spawn` is one turn of the
loop that starts goroutines, `Collect` is `wg.Wait()` with the loop that builds the
branches. What a frame's answer parses to is a model value; it fails exactly when
the API call does. `DivergeContract` replaces all of that by one step, `Return`.

`AdhdDiagnose` EXTENDS the contract and adds one action per phase. Totals are in
hundredths and scores in steps of one half; a hypothesis is its identifier, its
frame, its total, whether its text matches a trap pattern, and its mark. Ties of the
unstable sort come out in every order.

### RagStore and RagIngest

`current` is the map of the store, `objects` the documents of every collection object ever
made, `disk` the directory of each collection. A search holds an object across its steps
(take the pointer, count, query). `Reset` is split where it can fail. `update[u].at` is
the place of a call of `RunIngestion`. A crash leaves part of a directory that was being
removed, a cut-off document where documents were added, or a torn metadata file. `Restart`
is `NewStore`, which empties `disk` when the database refuses it (`Corrupted`) and leaves
`clone` and `meta` as they are. Repositories are one repository, its commits numbers; a
document is an identifier and the version of its source. `clone` says whether the clone is
there, its HEAD and whether its tree is complete: a clone or pull that its timeout kills
leaves `.git` without a HEAD or a tree that is incomplete, and later ingestions pull in
it. The git command of one ingestion is one step.

### SessionStore, MetadataStore and LearningLoop

`file` is the session file, `record[p]` the record of process `p`; `Save` empties the
file and then writes it, and a write over another process's write may leave a mixture.
Fingerprints are a sequence of rows by identifier, runs a bag of rows. `LearningLoop`
composes both: `proc[p].at` follows `AnalyzeMustGather`: import of the session file,
load, and per target the lookup, the statements of `recordToMetadata` and the session
update. Each statement may fail; what the code does then is in the action. Left out:
the database that cannot be opened (nothing of it is then used), timestamps, the list
of cosmetic alerts in the session, and rows that nothing in the program writes.
Learning is taken to be switched on, as it is by default.

### Classifier and Correlation

`Classifier` takes the failure text and the delta as what the keyword lists find in
them and the files as counts; its weights are integers (a confidence of 1 is 600).
In `Correlation`, `cache` is the clone of `CloneOrUpdate`, absent, being made, cut off
or whole at a commit, and `proc[p].at` follows `Correlate`: the private clone pinned
to a commit, or the check for `.git`, clone or fetch, search, log; then the
classification. Between any two of these steps other processes may act, and upstream
may publish. `searched` and `logged` record which commit the matches and the commit
list came from. `Finds` leaves open how many of the matches of a commit are found,
since the walk that replaces a failing `git grep` skips some file types.

### MustGather, HealthChecks, NoiseFilter and FaultDetection

The first three are the pure functions of the packages, one operator per function. A
text is the set of *topics* it mentions, a topic standing for the words of one noise
rule; what a check writes into its findings therefore decides what the filter does with
them. A list of conditions is a set where the code looks for any that matches; the
containers of a pod are a sequence, since the last one that waits wins.

`FaultDetection` runs them in the order of `AnalyzeMustGather`: `pc` goes through `csv`
(the CSV is enriched, or its file is missing or broken), `fault` (`isFaulty`), `reason`
(`buildFailureReason`), `health`, `filter`, `record` and `done`. `op` is the operator
record that the code mutates on the way; that `isFaulty` leaves a message in
`op.reason`, which `buildFailureReason` replaces, is visible in it. `plan`, `report` and
`noise` are sets of at most one, empty when there is none. The workload files are chosen
where they are read.

### LiveClusterSource, MustGatherSource, InfraChecks and ClusterDiagnosis

The answer of a source is a set of at most one list: empty is an error. The live source
turns some errors into empty lists and passes others on; the must-gather source has
none, a missing file is an empty list. For the readiness of a pod the live source looks
at its containers, the must-gather source at the condition of the pod. `InfraChecks`
has one operator per dimension over such answers, and `SnapshotPart` for the parts of
the ADHD snapshot. In `ClusterDiagnosis` each dimension and each part is a step;
`Change` moves a live cluster, or what its API answers, between any two of them;
`seen` is a history variable with the states so far. The filter runs for a live cluster
only, as in `diagnose.go`.

### Catalog, Commands, Targets and DiagnosePipeline

A command line is a sequence of flags, each with the words up to the next flag, so that a
pattern expanded by the shell gives a flag several words. `Commands` says which of them
package flag reads, what `ExpandMustGatherPaths` and the loop over surplus words rescue,
and which configuration and mode result. A flag that takes a word has one; without it
package flag takes the next flag for the word, which is left out. In `Targets` a dump has
files that may be unreadable; `selectTargets` is the suite, the package, or the faulty
ones with the fallbacks. `Catalog` compares versions as sequences of parts.

`DiagnosePipeline` is the whole run. `at` is the next step: flags, directories, parse,
services (catalog, client, knowledge base, database: each opens or not), then for each
target the steps of `analyzeSingleOperator` in the order of `OperatorSteps`, each skipped,
delivered (`report.got`) or failed (`report.errors`), then the merge and the files; the
session file is left to `LearningLoop`, with the error of one that cannot be opened
(`analyze.go:131`); a live cluster takes `LiveSteps` instead. `expired` is the one
timeout: it may pass at any moment, and from then on steps that need the network or git
fail while the run goes on. What a step finds is in the modules above; here only whether
it delivered counts.

Behaviours of the code that the models keep and a reader may not expect:

* `findSubscriptionsFile` returns `SkipDir`, which skips the rest of a directory but
  does not end the walk, so the last file wins although `mustgather/parse.go:89` says
  it stops at the first.
* Hypotheses are recorded with the scores of the branches, which are copies made before
  scoring, hence with zero (`analyze.go:624`).
* `NewStore` removes a database it cannot open, but not the metadata file, so that an
  emptied knowledge base is called up to date (`wiped_is_fresh`).
* The noise rule on paused pools has the keyword "machineconfigpool", which the text of
  every finding about pools contains: in a lab a degraded pool is cosmetic
  (`noise/filter.go:104`, `infra_checks.go:444`).
* No pod is in a phase `CrashLoopBackOff`, which is a reason of a container; the test for
  it (`engine.go:583`) decides nothing and `FailedPod` has only the others.
* The text output tells the errors of an analysis as a count called "Parse Errors"
  (`cli.go:563`), and JSON encodes each as an empty object. `MissingIsAccounted` is about
  the errors of the result in memory.
* A live cluster ignores `--telco-suite`, `--package` and `--json`, and prints nothing
  without a document. A run without targets writes no RCA file and succeeds.
* After `-m` with words that the shell expanded, later flags are lost; only
  `--must-gather` is repaired.
* Merged results carry the cluster name of the last directory.
* The branch for GitLab commit URLs in `extractRepoURL` cannot be reached: the search
  for `/commit/` above it finds them too, and leaves `/-` at the end (`analyze.go:680`).

## Runs

| Run | Instance | Shows |
|---|---|---|
| `adhd_diverge` | 3 frames, 2 slots, 2 answers | the request bound, no goroutine left over, the call returns, and the refinement of `DivergeContract` |
| `adhd_diagnose` | 2 frames, one wild, up to 4 hypotheses, shortlist of 2 | a trap shown is marked and listed, no wild hypothesis is passed over although two frames use one identifier, best-effort phases deliver the ranking |
| `rag_ingest` | 2 collections, 1 document each, 2 upstream versions, 2 ingestions, 1 crash | what an undisturbed ingestion leaves, which commit is recorded, what a fresh base holds |
| `rag_concurrent` | 1 collection of 2 documents, 2 updaters, 1 searcher | counts stay valid while collections are replaced; every call ends |
| `correlation` | 2 processes, 2 analyses, 2 commits, 7 kinds of evidence, 1 kill | one cloner, one commit per report, what a pinned report, a class and a grade take |
| `learning_loop` | 2 analyses of 2 targets in 2 processes, 1 failure, 1 kill, history of 3 | hits, evidence and runs, an issue does not match itself, the history is one line of analyses and whole if nothing disturbed them |
| `fault_detection` | 134 subscriptions, 2 CSVs, no plan or one of 72, 4 namespaces, 4 environments | the cause comes from the plan that decided, when a reason is unknown, faults are also findings, the two statuses agree |
| `cluster_diagnosis` | 18 clusters, 3 sets of readable kinds, 1 change at any of 21 reads, both sources | no alarm without a ground, no pass without data, prompt and findings agree on each kind of objects that did not change, the sources agree |
| `diagnose_pipeline` | 25 command lines of the three commands, 7 dumps, 1 catalog, timeout at any step | no faulty operator skipped, what is missing is accounted for, exit code and outputs |

Runs that refute what a comment or a message says (each with its finding in
`PROJECT.json`): `pinned_is_head` (a report called pinned was searched in the newest
tree), `waiting_plan_is_fault` (a plan that waits for approval makes an operator
faulty), `wiped_is_fresh` (on the instance of `rag_ingest`: an ingestion whose reset failed
half way leaves a directory without its metadata, the process ends, the next one removes
the database, and the metadata file still records the HEAD of the clone).

Why the bounds are enough. Three frames over two slots make one goroutine queue while
others finish and fail; a fourth would only queue longer. Four hypotheses around a
shortlist of two put the cut inside, before and after a frame's answers. Two collections
separate the ingested one from the one being reset, and a second ingestion meets
everything the first left (with one updater: what `RecordNeverAhead` says of ingestions
that overlap is shown by its proof only); one crash suffices because a restart reads only
the disk. The history bound (3 in place of 50) is smaller than the four entries that two
analyses of two targets write, so trimming happens; the second target of an analysis meets
whatever both analyses have left behind. MaxObjects is exactly the number of objects the
ingestions can create. In `correlation` the commits have three and one matches, either
side of the threshold of three, and the evidence has one member for every branch of the
classification. MaxFailures and MaxKills (1 each) cover every place for a single fault.
`fault_detection` takes every combination of what the decisions look at: the states, the
three conditions, references and CSVs present or not, phases, approval and steps of a
plan; more operators would change nothing, since they do not interact. The clusters of
`cluster_diagnosis` put each kind of object into each state a check tells apart, and one
change suffices to fall between any two reads; each check reads once, so a second change
shows nothing new to it. The command lines of `diagnose_pipeline` cover every command and
mode, patterns that match several, none, or are malformed, and the dumps every way a parse
ends.

Every property of a passing run has a mutant in the module that breaks it: the
definition named *Mutant of ...* is the code with a plausible mistake in it.

## Fairness

* `AdhdDiverge`: weak fairness of the caller and of every goroutine (the Go scheduler
  runs what is runnable; `Complete` returns, its HTTP client has a timeout). Weak
  fairness is enough to get a slot: a holder that releases is never replaced for ever,
  since every goroutine asks once. Nothing makes a frame succeed or the context be
  cancelled.
* `AdhdDiagnose`: weak fairness of the cycle, for `RankingDelivered`.
* `RagIngest`: weak fairness of each ingestion once started. Git commands of the
  operator repositories and embedding requests have timeouts; the clone of the
  documentation has none (`docs.go:101` ignores its parameter), and that it returns is
  an assumption. Publications, crashes and restarts are not fair.
* `LearningLoop`, `Correlation`, `FaultDetection`, `ClusterDiagnosis` and
  `DiagnosePipeline` state safety only; the last three are sequential, and end.

## Proofs

Every invariant that a passing run checks is proved, for every value of the constants,
and so are the refinement of `DivergeContract` and two action properties. Each proof
module has an inductive invariant, one lemma per action that preserves it, and theorems
that follow from it; TLC has checked the inductive invariants on the instances of the
runs. The sections say what an invariant adds, since no property below is inductive as
it stands, and which assumptions on the constants are used.

**`AdhdDiverge_proofs`**, for every number of frames, every capacity and every set of
answers (`NFramesAssumption`, `ConcurrencyAssumption`, `OutcomeAssumption`):

* `Invariant`: that a goroutine may enter the channel is known from `slots`, so `IInv`
  says that `slots` counts the holders, that `wg` counts the unfinished goroutines (hence
  all have finished once the caller passes the wait), that goroutines are started in
  order, and that a result is set exactly from the write on.
* `TypeCorrect`, `RequestsBounded`, `NoneOutlivesCall` follow from it,
  `OutcomesStoredOnce` is the action property, from the same invariant.
* `DivergeImplementsContract`: the initial states and every step map to
  `DivergeContract`; the step that matters is `Collect`, where all results are set.

**`AdhdDiagnose_proofs`**, for all frames, answers, raw scores and shortlist lengths
(`TopKAssumption`, `WildAssumption`, `ScoresAssumption`: scores are integers of any size;
`AnswersAssumption`: an answer is a sequence of hypotheses; `NoneAssumption`):

* `IInv` says that the shortlist and the pick are functions of the ranked hypotheses,
  that totals fall, and that from scoring on every hypothesis with the text of a trap is
  marked and listed. The order in which `DetectTrapsAll` and the cut come is what
  `MarksSurvive` needs. `PickIsBest` needs the order of totals and that hypotheses with
  one identifier have one total (`SameIdSameTotal`): a wild hypothesis that is passed over
  because its identifier is in the shortlist then ties with the end of the shortlist.

**`RagIngest_proofs`**, for any collections, documents, updaters and searchers
(`IngestAssumption`, `OrderAssumption`: each collection is populated once per ingestion;
`MarksAssumption`, `StoreAssumption`):

* `CountStaysValid`: an object that a search holds only grows, since `Reset` replaces
  objects and never empties one; `StoreInv` says which objects are current and that
  identifiers are unique in each.
* `RecordIsBehind`: `RecordInv` orders the commits of the metadata file, the clone, every
  ingestion in work and the remote repository, and `DocsInv` says that no document, on
  disk, in memory or on its way there, is newer than the HEAD of a clone never cut.
* `CleanIsComplete`: `CleanInv` says for an ingestion without a mishap what is stored at
  each of its places, collection by collection.

**`LearningLoop_proofs`**, for any processes, targets, lengths of the history and bounds on
failures and kills (`LoopAssumption`: an analysis has a target, and targets are operators;
`MarksAssumption`, `KeepAssumption`):

* `EvidenceTraced`: a target past `RecordRun` has its run (`RunFirst`).
* `MatchIsAnother`: `FirstByTarget` says who stored a row first: an analysis that has
  begun and, if it still runs, had the row's operator as an earlier target.
* `HitsAddUp`: `SelectedStands`, the row that a SELECT found is there when the UPDATE
  comes; then the hits of the rows of one key are a sum over a finite set of rows, which
  grows by one with every call that goes through.
* `HistoryContinues`: `HistoryInv` says of every record, on disk and in memory, that its
  numbers run up to its count and the entries of an analysis stand together; that no one
  mentions an analysis that has not loaded yet, and that the entries of one in work are the
  last of its record. `Continuity` says what file and record hold at each place of an
  analysis that nothing disturbed.

**`Correlation_proofs`**, for every number of processes and analyses, every history of
the repository and all evidence (`CorrelationAssumption`: commits have numbers of
matches, the deployed commit is one of them, an analysis starts without matches):

* Bounds of every score (`ShareBounded` to `ConfidenceBounded`), and from them
  `GradesNeedEvidence`: no sum of weights reaches an A without a verified repository,
  a pinned analysis and matches, nor a B without matches (`GradesEarned`).
* `CodeBugsGrounded` compares the scores of all classes in every branch of
  `ClassifyEnhanced`.
* `Invariant`: `Sound` adds that a process about to read the log searched the clone that
  is still there, since only the one process in `cloning` changes it and it is then not
  whole (`OneCloner`), and that nothing was searched before. `QuietStep` and
  `CloningStep` carry the steps to `ClonerUnique` and `VersionsAgree`.

**`FaultDetection_proofs`**, for all subscriptions, conditions, versions, plans, pods and
namespaces (`InputAssumption`: their shape, and that an operator that is not installed has
no conditions): `Verdict` says when the plan decides and what it leaves in the operator
(`CauseFromPlan`, `UnknownIsSilent`), `Reports` and `Noises` that a certain fault has a
finding in the dimensions and, in production, a real one after the filter
(`FaultReported`). `StatusesConsistent` and `PullHidden` are about single functions,
the latter for pods with any number of containers.

**`ClusterDiagnosis_proofs`**, for any clusters, any sets of readable kinds and any number
of changes; no assumption. The invariant is that nothing is kept between two reads: each
result and each part of the snapshot is what one of the states seen so far gives. The
rest compares what each of the thirteen dimensions makes of a state with that state
(`AlarmIsReal`, `PassOnData`), with the snapshot of any state with the same objects of that
kind (`SymptomsAgree`) and the two sources with each other (`SourcesInterchange`).

**`DiagnosePipeline_proofs`**, for all command lines, dumps, patterns, catalogs and suites
(`CommandLineAssumption`, `DumpsAssumption`: their shape, and that a flag that takes a word
has one; `GlobAssumption`: a pattern
matches one list of directories; `RegistryAssumption`: no package twice; `IndexAssumption`:
what `opm validate` demands of a catalog, no two packages, channels or bundles of one
name and no empty channel names):

* `NothingMissing`: `AccountedSoFar` says it of the steps behind `at` only, and a lemma
  per kind of step that a later delivery does not raise a demand on an earlier step;
  `OpeningsKept` ties the errors of the analysis to the services that are not open.
* `OutcomeTold`: `OutcomeInv` adds that the way tells the mode, that with documents asked
  for every complete report has one (so that the documents are all reports, in their
  order), and that nothing is put out before the end. `ResolvedFits` and
  `UnresolvedFitsNot` say of the catalog that what it finds fits, and that it finds
  something with the version if anything fits.
* `NoFaultMissed`: `CoverInv` says that every directory named is still to do or covered,
  and every target of the directory in work still to do or reported. `FaultyIsTarget`
  says that the selection keeps every faulty operator asked for, `CommandLineRead` that
  the configuration is what was written on the command line.

Sequences that the code filters and joins are `Select` and `FlattenSeq`. The latter is a
recursive function in the community modules; what it keeps and returns (`FlattenTyped`,
`FlattenHolds`, `FlattenOnes`) is proved with the least number for which it would fail,
as the library's induction theorems cannot be applied. `First` and `Select` stand in
place of `SelectSeq`, whose definition the prover does not know; a bag of runs is
extended with `(+)` for the same reason.

The proofs corrected four properties. With two subscriptions of one package an analysis is
shown what it stored itself for the first of them, so `NotItself` allows a match with an
earlier target of the same package. `ContinuityIfSequential` (the part of
`SessionContinues` on undisturbed analyses) says how many entries are left and which: one
per target, the latest `Keep` of them (`Whole`).
`OutcomeIsRight` claimed of every usage error that no bundle fits, which a dump that is
not there refutes, so it is now said of a version asked of a catalog. `NoFaultIsSkipped`
held of command lines with surplus words behind another flag only because no instance
had one: a package flag then drops the directories, so `WordsFit` excludes them.

Proved and not run: the action properties behind `OutcomesStoredOnce` (a result is
written once) and `PinnedApart` (no step of another process touches a private clone).

Only model-checked: liveness (`Termination`, `UpdateEnds`, `RankingDelivered`), since
fairness and ENABLED are beyond the prover; and that what the three violation runs state
is false.

## Plan

Modelled: the ADHD engine, the knowledge base, what analyses remember, the correlation
with the source repository, fault detection and health checks, the cluster behind both
data sources, and the run of a command that composes them. Their safety is proved. Left:

1. More refinements: an abstract history for `LearningLoop` (what undisturbed analyses
   append) and an abstract index for `RagIngest`, in the way of `DivergeContract`.
2. Action properties from the invariants there are: the recorded commit of `RagIngest`
   only moves forward where one replaces another; the hits of a row of `LearningLoop`
   never fall; the errors of a report of `DiagnosePipeline` are never taken back.
3. That `AdhdDiagnose` over `AdhdDiverge` is what it is over the contract.

## Not modelled

* The text of prompts, reports and tool answers; YAML and Kubernetes readers; HTTP and
  registry protocols. Their answers and failures are inputs.
* **Root cause patterns and report** (`internal/rca`): regular expressions over a failure
  text and the layout of a document; whether it is made and written is in
  `DiagnosePipeline`.
* **Document sources** (`internal/rag/ingest` but for the pipeline): chunking is text
  processing. The documentation repository is cloned in three git commands, and what is
  left when one fails only git defines.
* **Retrieval** (`internal/rag/engine.go`, `retrieval.go`, `embeddings.go`):
  floating-point scores of texts; concurrent searches of the store are in `RagStore`.
* **Claude client**: one request per call.
* **Similarity and frames**: the similarity of symptom texts (`learning/matcher.go`) is
  arithmetic over words, of which the exact match is modelled; the choice of frames by
  category (`adhd/frames.go`) is a table. `CalculateDelta` works in a directory of its
  own; its outcome is an input.
* `batch-validate`, a loop over resolved bundles for developers.
* Code without effect: the search for GitHub issues only adds text, `Classify` is
  superseded by `ClassifyEnhanced`, no caller passes the repository URLs of a CSV or an
  operator without a failure text, confirmations and resolutions are never written and
  boosts never applied.

`PROJECT.json` lists each part with its reason.
