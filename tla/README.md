# Formal models of OrbitKB

OrbitKB indexes the microservices of one or more repositories into a SQLite
file: detectors and a static analyzer read the sources, an LLM writes summaries
of endpoints, components, persistence, messaging and of the service, and an MCP
server answers questions about the result.  This directory holds TLA+ models of
the parts whose correctness depends on order, interleaving and failure, the TLC
configurations that check them and TLAPS proofs about them.

Source paths are relative to `src/`; line numbers refer to the commit beside
this directory.  `PROJECT.json` maps every definition to the lines it models,
and lists runs, hazards, findings and theorems.

## The system

| component | state it keeps | operations | talks to | hard because |
|---|---|---|---|---|
| index commands (`cli.py`, `generation/orchestrator.py`) | none between runs | `index`, `update` | everything below | several OS processes on one file, Ctrl-C, kill, LLM failures |
| service lock, run ledger (`db/repositories/index_runs.py`) | `service_index_locks`, `index_runs` | acquire, take over, release; start, finish, recover | `os.kill(pid, 0)` | dead holders, reused pids, open implicit transactions |
| services, repositories (`db/repositories/services.py`, `repositories.py`) | `services`, `repositories` | ensure (insert, refresh, rename in place, adopt), delete | foreign keys | two lookup rules, NULL repositories, reused rowids |
| unit generators, hashes (`orchestrator.py`, `indexed_files.py`, `apis.py`, `components.py`, `persistence.py`, `messages.py`) | one row per unit, `indexed_files` | generate, skip, prune, store hashes | LLM backends | rows are committed one by one, hashes at the end |
| static analysis snapshots (`static_analysis.py`, `flows.py`) | facts, snapshot row | digest, reuse, replace | depth provider | inputs are read three times while they change |
| service calls (`service_calls.py`) | `service_calls` | replace per API, reconcile | services | renames, deletions, SQL NULL |
| architecture view (`generation/architecture.py`, `db/repositories/architecture.py`) | runs, findings | recompute, diff, detectors, cycle search | facts of all services | readers between the commits of one run; some forty detectors that must not contradict each other |
| review units of a plan (the `derive_*` functions of `generation/change_plan.py`) | none | derive | findings, rows of the plan's services | findings silence each other; ids are a few fields joined |
| infrastructure as code (`iac/`, `cloud_iac.py`, `kubernetes_configuration.py`) | declarations per checkout | scan, attribute, replace | detectors of cloud and configuration findings | declared once per checkout, attributed to services by root |
| depth provider (`analysis/depth.py`) | cache, circuit breaker | enrich | external process | time, failures, bounded cache |
| bounded flow resolution (`analysis/resolution.py`) | none | resolve | depth provider | names that several callables bear |
| retrieval, change surface, verification (`generation/retrieval.py`, `change_surface.py`, `change_context.py`, `verification.py`) | runs, briefings, verifications, feedback | query, brief, verify, learn | LLM, git, search | names and rowids that outlive the rows they meant |
| change plans (`generation/change_plan.py`, `change_assessment.py`) | plans, validation results | plan, refine, validate, review | change surface | results that outlive the plan they were made for |
| MCP server, queries (`mcp/`) | context telemetry | reads, plus the writes above | an agent | results of several commits |
| search index (`search.py`, `embeddings.py`) | FTS rows, vectors | rebuild | | rebuilt in several commits |
| connection, migrations, backup (`db/connection.py`, `backup.py`) | schema | open, migrate, back up | | an interrupted table rebuild |
| analysis engine, discovery, CI, security, export, freshness, benchmark | none | parse, format | | nothing concurrent; text processing |

What makes each modelled component correct is stated by the properties below.

## Modules

```
ServiceTable    rows of `services`: lookups and ensure_service     (operators)
ServiceMutex    what the index lock promises                       (abstract)
IndexRuns       commands, lock rows, ledger       EXTENDS ServiceTable, implements ServiceMutex
IndexRunsProofs                          theorems about the two
IncrementalIndex  one service's run: units, skips, hashes
IncrementalIndexProofs                   theorems about it
StaticSnapshot    one service's run: digest, facts, snapshot
ServiceCalls    calls against services, over whole commands   EXTENDS ServiceTable
ServiceCallsProofs                       theorems about it
ChangePlans     plans, refinement, reported results, closure
ChangePlansProofs                        theorems about it

StaticFacts       the rows of a source scan                      (state of the next)
ServiceGraph      cycles and fans                                EXTENDS StaticFacts
FlowFindings      writes, publications, retries, consumers       EXTENDS StaticFacts
FlowReviewUnits   what a plan asks about them                    EXTENDS FlowFindings
ErrorFindings     errors, mappings, timeouts, calls              EXTENDS StaticFacts
ErrorReviewUnits  what a plan asks about them                    EXTENDS ErrorFindings
RepositoryIac     infrastructure of a checkout                   EXTENDS ErrorReviewUnits
DeploymentFindings, DeploymentReviewUnits   cloud, configuration, ownership
PlanReviews       all units of one plan                          EXTENDS both kinds
PlanReviewsProofs                        theorems about the rows, the detectors and the units
ArchitectureRuns  runs of findings under concurrent commands     (findings are a parameter)
StoredFactsProofs                        theorems about it and StaticSnapshot
FlowResolution    BoundedFlowResolver                            (operators)
DepthProvider     sessions, cache, circuit                       EXTENDS FlowResolution
DepthProviderProofs                      theorems about the two
CandidateRetrieval  lexical, semantic, hybrid candidates         EXTENDS ServiceTable
ChangeSurface     find, brief, verify, feedback                  EXTENDS CandidateRetrieval
ChangeSurfaceProofs                      theorems about the two
MC*             instances of the above for TLC
```

`IndexRuns` shows that runs of one service exclude each other under the
assumption `OneKeyPerService`; `IncrementalIndex` and `StaticSnapshot` model one
run at a time on that ground.  `ServiceCalls` takes the lock for granted and looks
at several services, repositories and commands at once.  `PlanReviews` composes the
detectors with the scans that feed them and the functions that turn their findings
into questions; `ArchitectureRuns` is about when detectors run, and takes what they
find as a parameter.

### IndexRuns

A process is a `pc` with the local variables of `index_service`: its command, its
`service_id`, its `run_id`.  A step is what happens up to the next commit.
`acquire` is the INSERT of `acquire_service_lock`, which either commits
(`InsertLock`) or fails on the primary key and leaves Python's implicit
transaction, and with it SQLite's only write lock, open (`InsertConflicts`,
`writer`).  `inspect` is the branch after the SELECT: `DeleteDeadLock` removes the
row of a dead process and tries again, `RefuseLock` gives up.  `ensure`,
`analyze`, `recover`, `start`, `generate` are the body of
`_index_service_unlocked` as far as locks and runs can see it; everything the
generators do between `start` and `finish` is `IncrementalIndex`.  `Fail` is an
exception anywhere in the body (the `finally` clause follows), `Crash` a kill
anywhere (SQLite rolls back), `BusyExit` the busy timeout.  `Procs` are pids: a
pid that has ended may be given to a later command, so that the probe of a dead
holder may find a stranger.

`index` over a path with several services is several commands here; the writes
of `index_path` after its list of services are in `ServiceCalls` (deletions) and
`ArchitectureRuns` (infrastructure, last view).  The SELECT and the write of `ensure_service` are one step.

`ServiceTable` has the two lookup rules.  `index` finds a row by name in its
repository, else by root path, and renames it in place; `update` has no
repository and finds a row by name anywhere.  Rowids are SQLite's: one more than
the largest in use.

### IncrementalIndex

A row holds the versions of the files it was generated from instead of text.
`BeginRun` is the scan for hints (`ctx.seen`), `HashFiles` the comparison with the
stored hashes, then one step per endpoint and component, the two list units, the
overview and the hashes.  The LLM may answer or fail in each, and the run may die
between any two.  Files change at any time except between the scan and the hashes
(`EditsBeforeHash`), and only `Deletable` files come and go.  An edit gives a file
a content it never had unless `Reverts`.

The configuration excerpts added to the persistence and messaging prompts, the
folder tree in the overview prompt and embeddings are left out: no hash follows
them, so nothing can be said of them.  Files with outbound calls only are hashed
but belong to no unit.  The three commits of an endpoint (row, validations, calls)
are one step; its file's hash is stored after all of them.

### StaticSnapshot

`work` is what the run's open transaction sees, `store` what others see.  The two
digests and the analysis read the inputs file by file (`ReadInput`) with edits in
between.  The snapshot and the facts are committed together by
`recover_unfinished_runs`, the next statement that commits; an exception before
that is followed by the commit in `release_service_lock` (`Interrupt`), a kill by a
rollback (`Crash`).  `Interrupts` allows an exception between the statements of
`replace_analysis` itself.  A stack without an analyzer has no digest and is never
cached; it is not in the model.  The set of inputs is fixed: a file that appears or
disappears changes the digest just as an edit does.

### ServiceCalls

`calls` maps a calling service and the name it calls to a row: the service linked
and the target kind.  A service has one endpoint here; several would be several rows
with the same fate.  `Reconciled` is `reconcile_service_call_targets`, one operator for
its scoped and whole variants, statement by statement: `Relinked` is the UPDATE of
`to_service_id` with SQL's three-valued comparison, `Rekinded` the UPDATEs of
`target_kind` and the heuristic.  `index` is `index_path` with the services its scan
found: `EnsureRepository`, then for each service `TakeService`, `EnsureService`,
`WriteCalls` with its two commits (or `SkipCalls`), `ReconcileAll`; then
`PruneServices` and, if it deleted something, `ReconcileAfterDeletion`.  `remove` is
`RemoveRepository` and the same reconciliation, without any lock.  `WithoutCalls` is
what the foreign keys do on a deletion.  An exception and a kill are both `Crash`.
`lost` remembers that a process died between a commit and the reconciliation it
owed; the next whole reconciliation, whoever runs it, clears it.

Left out: `resource_type`, which no link depends on, the renaming of a repository, and
the lock protocol itself (`Locked` is its mutex; `TakeService` refused ends the command,
as the RuntimeError does).

### ChangePlans

A tool call is a value of `call`: what it has read so far, or its answer.  Calls of the
MCP server have a connection each and may run on different threads, so every read and
every write of a call is a step of its own: `RefineRead` and `RefineWrite` are
`refine_change_plan` around its decision to write (`RefineAnswer` is every path that does
not), `RecordCiRead`, `RecordCiWrite`, `RecordCheckRead`, `RecordCheckWrite` the two
reports.  `describe_change_validation_status` reads the commands three times and then
the results (`AskCi`, `ReadCommands`, `ReadResults`); `review_change_closure` does the
same between the assessment of the diff (`Review`) and the manual results (`ReadChecks`).
`ReplaceCommands` is the index command that replaces `ci_commands` meanwhile.

A surface is what `plan_change` gets from `find_change_surface`: contracts at risk,
primary services, and the review units that the `derive_*` functions would make of the
findings.  `DecisionPoints`, `Selections` and `ChangeUnits` are translated as functions.  A
unit is its service, dependencies, evidence files and number of checks; a CI command's
kind and text are one value `text` with `KindOf`.  The diff is a set of files, and what the
comparison of public error contracts finds is chosen freely.

Left out: the derivation of review units (which is `PlanReviews`), the runtime
configuration follow-up, the listing of a unit and its context, services whose root is the repository's, several
repositories, and calls whose arguments are malformed, which change nothing.

### StaticFacts, and the detectors over it

`facts` maps every indexed service to the rows its last scan left:
`ReplaceAnalysis` is a scan, `ReplaceRelations` a reconciliation of its calls,
`DeleteServices` a deletion.  The detectors of `generation/architecture.py` are
operators on `facts`, one per function, with the queries they use
(`EntrypointSymbols`, `FlowEdgesBySource`, ...): their joins, their `LOWER`, their
LIMITs and the order that decides what a LIMIT cuts.  Names are numbers so that they
can be sorted.  A finding keeps its kind, services, symbols and confidence; severity,
wording and evidence are left out unless a later function selects by them.

`ServiceGraph` has the graph detectors.  `TarjanScc` is the algorithm with its stack,
indices and lowlinks, as a recursive function over its rounds: the calls of
`strongconnect` that have not returned are a stack of their own, and `ConnectRound` calls,
looks at one neighbor or returns.  `CyclesAreMutual` compares it with
`MutuallyReachable`, where what a node reaches is the least set with it that no edge leaves, over every
graph of three services.  `ErrorFindings.ListReachableEdges` is `list_reachable_edges`,
breadth first, bounded by edges, again over its rounds (`WalkRound`);
`ErrorReviewUnits.Flow`, the least set that no edge leaves, is what it is compared with.

The `derive_*` functions of `generation/change_plan.py` are operators from findings and the
services of a plan to units; a unit is its id, its dependencies and its contracts.  The
code joins the fields of an id by colons; the model keeps them apart in a tuple, so fields
that hold colons themselves are outside of `UnitIdsUnique`.  The tables of
`DerivePersistenceMigration` are the rows of `persistence_entities`, one per name.  `PlanUnits` is the part of `plan_change`
that puts the families together.  The properties quantify over every choice of services
of a plan.

### RepositoryIac

`tree[r]` is what the last scan of checkout `r` read, `iac[r]` the rows it left.
`ScanRepository` is `scan_repository_facts` with the replacement of all rows:
each format's contribution (`ParseTerraform`, `ParseCompose`, ...), the settings folded
over one file, and `Attributed`, which gives a declaration to the service whose root
alone contains the file.  Services are scanned separately, so code and declarations
get out of step, and the properties hold in every such state.  A declaration of a
ConfigMap or Secret carries the file and line it is at: the scan counts declarations, so that
a base and an overlay with the same entries are two, and no binding is held against either.

### ArchitectureRuns

A command is `index`, `update` or `remove`; its `stage` is where it is in
`index_path` or its counterpart, seen from the facts and the view.  `StoreAnalysis` and
`StoreGenerated` are the two commits of one service, each of which detectors of other
processes may read between; `StartRun` commits an empty run,
`RunDetector` reads, `RecordFinding` commits one finding.  `ReplaceIac` is one of
the `replace_*` commits at the end of `index_path` (`orchestrator.py` 723-739): `IacTables`
of them, each leaving other infrastructure for the detectors of other processes to read,
precede the last run.  `Abort` is a kill or an exception anywhere.  `DiffArchitectureRuns` is the
comparison behind the trend, by identity of findings.

### FlowResolution and DepthProvider

`FlowResolution` is `BoundedFlowResolver`: `ResolveEdge` tries its rules in the order
of the code (imports, injected fields with qualifiers and primaries, own class, bare
names).  Names are sequences of segments.  Two symbols of equal name collapse, as they
do in its dictionaries, and the last one wins.

`DepthProvider` adds the sessions: `StartSession`, one `Answer` per symbol,
`CompleteSession` or `FailSession`; `HitCache` and `SkipRequest` are the requests that
need none; `Tick` is time, no session outliving its timeout.  An item of an answer may leave out its source, kind and confidence (`GetOr`), and without
a target it is none (`IsEdge`).  `ReadCircuit` is what
`_circuit_is_open` does to the breaker when it is asked.  The commands ask once
per root; what the cache does is seen by a process that keeps its provider, as the tests
do.  The key of the cache names the service and its symbols, so a
kept provider answers for files as they were; the commands build a new one, and
no property speaks about file contents.

Left out: latency and counters, KeyboardInterrupt (it passes through without counting as
a failure), and the parsing of a line of output.

### CandidateRetrieval and ChangeSurface

`LexicalCandidates` is the walk over calls, callers and channels with its hops and cap,
`SemanticCandidates` the ranking, `HybridCandidates` their interleaving.  What the search
answers, the ranking and the LLM's answer are chosen from given sets.

`ChangeSurface` splits a find where other processes can come between: `Retrieve`,
`BuildContext` (which reads the candidates again), `Answer`, `RecordRun`, and for a
briefing `ShowCards` and `RecordTelemetry`.  `StartVerify` reads the run and the files of
git, `RecordFeedback` is one commit per service, `RecordVerification` the last;
`InterruptVerify` ends it between two of them.  `VerifyContext` is the verification of a
briefing.  `Ensure` and `DeleteRow` are the index runs of others.

Left out: confidence and evidence, similar past tasks, the cache of synthesized
answers, the other sections of the answer, feedback on briefings, and query
executions.  Retrieval reads the services table in one step.  The root of a repository is the git
toplevel.  Two services of one repository may share a root: an index that finds a service where
another one was moves its row there, and deletes the other's only at its end.  A file then belongs to the
first of the two by name (`Attributed`), as in the code, whose longest root wins only if it is longer.

## Runs

| run | checks | result |
|---|---|---|
| `index_exclusion` | `ServiceExclusion`, `LiveRunIsOpen`, `OneOpenRun`, `ClosedRunStays`: three processes, three `index` commands on two services of one repository | holds |
| `index_commands` | `TypeOK`, `LockRowIsMine`, `ImplementsMutex`, and `EveryCommandEnds` under fairness: `index`, `update`, a second checkout with a service of the same name, and an `index --service` that renames | holds |
| `index_update` | `ServiceExclusion` with `update` beside `index` | violated |
| `incremental` | `RowsTrusted`, `QuietRunCallsNothing`, `SettledRowsCurrent`: edits, deletions, LLM failures, crashes around two endpoints of one component | holds |
| `snapshot` | `TypeOK`, `SnapshotTrusted`, `NewSnapshotIsTrue`, `StillRunIsReusable` | holds |
| `calls` | `TypeOK`, `LinksAreNamed`, `CallsReconciled`: index of two services or one, update, a second repository, remove | holds |
| `change_plans` | `TypeOK`, `PlansAgree`, `ResultsNameChecks`, `ClosureSeesChecks`, `PassedWasRun`: two clients, one plan, a plan with a decision, without one, or insufficient | holds |
| `reviews` | `EndpointErrorsAccounted`, `RetryBlamesOneCheckout`, `DownstreamUnitsRestOnFlow`, `UnitIdsUnique`, `CloudNamesReconciled`, `ConfigurationReviewed`, `OwnershipReviewedOnce`, `NonAtomicPublishReportedOnce`, `ChannelsReviewed`, `CyclesAreMutual`: four workspaces, in every mixture of old and new scans | holds |
| `architecture_runs` | `QuietViewCurrent`, and `ViewSettles` under fairness: two commands, two services, two detectors | holds |
| `trend_baseline` | `TrendSinceLastCommand`: the same with the view before the last command remembered | violated |
| `depth` | `CircuitBreaks`, `FlowsEnrichedWholly`, `UnrelatedSymbolsIgnored`: four requests, three units of time, both modes | holds |
| `change_surface` | `CandidatesKeepBoth`, `VerdictsFollowFiles`: five names in two repositories, one change of the table at any point of a find and a verification | holds |

The violated runs are disagreements between the code and what its documentation
says of it; `findings` in `PROJECT.json` quotes both sides.  Five more configurations
give counterexamples of the same kind and are run by hand
(`tlc -config MCPlanChoice.cfg MCChangePlans`):

| configuration | property | what the trace shows |
|---|---|---|
| `MCIncrementalRetry` (`MCIncrementalIndex`) | `OverviewIsRetried` | A failed unit's hash "is deliberately NOT persisted to indexed_files below, so next run sees them as 'changed' again" (`orchestrator.py` 596).  The older hash stays in place; when the overview was due because an endpoint was regenerated, its entry file is unchanged, its old hash still matches, and the overview that failed is not retried. |
| `MCStaticInterrupt` (`MCStaticSnapshot`) | `FactsAreWhole` | "Atomically replace one service's static analysis" (`flows.py` 12): an exception between its statements reaches `release_service_lock`, whose commit stores half of the replacement. |
| `MCCallsRename` (`MCServiceCalls`) | `LinksSettle` | "Resolve to_service_id by exact name within the caller's repository" (`service_calls.py` 46): after a rename in place no service has the old name, the subquery is NULL, `to_service_id != NULL` is not true, and the call keeps its link. |
| `MCPlanChoice` (`MCChangePlans`) | `ChoiceStays` | "changing a finalized choice is rejected" (`INTERFACE.md` 310): two refinements that both read the open plan are both accepted, and the second replaces the first. |
| `MCPlanRetry` (`MCChangePlans`) | `RetryIsSafe` | "Retrying the same finalized selections is safe" (same line): the accepted call, listing its decisions in another order than the plan's, is refused when repeated. |

Bounds of the index models.  Three launches (`MaxLaunches`) are enough for a holder that dies, a
process that takes over and a third that races with it; with a pid used twice they
include a probe that finds a stranger.  `IndexRuns` uses up to three rowids, one more
than the services its commands can create, except for the renaming instance, which
uses them all.  Three versions per file (`MaxClock = 3`) allow two edits: one before and
one during a run, or one in each of two runs.  Two endpoints of one component in two
files, the first with an excerpt of the second file, make every unit share a file
with another; both files come and go, so the component's key, which has the file of its
first endpoint, changes.  The overview's text is hidden from TLC's view of a state (`VIEW`), since no
step and no property of that run reads more than whether there is one.  For snapshots, three edits over two files can hit all three passes, and
two analyzer versions one upgrade.  For calls, three commands of two processes let any
command run between the commits of another and a third clean up after a crash; three
rowids let a deleted id be given out again; the LLM answers with two rows out of
{resolved, vendor, suffix, nothing known} with right and wrong kinds.

Bounds of the plans.  Two clients let a report overlap a refinement, and a review overlap a report;
the decision surface repeats a contract and has one of another service, so that both
filters of `derive_decision_points` matter; one hint out of two commands (`MaxHints = 1`)
lets the limit cut, and the second table adds a command and takes one away.

Bounds of the reviews (14,822 states, each a large disjunction of queries).  A database holds one of four
workspaces: calls and errors across two checkouts that bear one service name; cloud
resources and configuration of a nested service and of a second checkout, a source being
declared nowhere, in an unrendered chart, once, or twice with other entries or the same; retried writes
and publications with consumers; and all call graphs of three services.  A walk stops
after three edges (`MaxEdges`), which one of the flows exceeds and one with a cycle
does not; `MaxVisible = 3` is the number of rows a finding shows in the code, and four
rows of three channels are published; thresholds of one make every edge of a graph a
finding.

Bounds of the view (889,219 states).  Two commands of which each indexes one or two services are enough for
a run started before and completed after another; two detectors, one on code and one on
infrastructure, for facts that change between them, and two tables of
infrastructure for a run between their commits.  The depth provider (135,720 states) has a threshold of
two failures, a cooldown of two units of time and a cache of one service, so that it
opens, closes and evicts within four requests; seven other analyses of the service
vary what a name can resolve to.  `UnrelatedSymbolsIgnored` is about calls with a receiver:
a bare call is matched by name on purpose.  The change surface (363,810 states) has one change of the table, one run
and one verification, which is every place where one change can hit; the change may leave two
services with one root.  `Hops` and `Cap`
are two and three, so that a walk of five names is cut.

Some properties hold only under a condition that the instances state.  Where an edit may be
taken back (`Reverts`), `SettledRowsCurrent` and `SnapshotTrusted` fail: rows are committed before
hashes and hashes compare contents, so a crash and a revert, or an edit and a revert between
two digests, leave a stored hash that equals the file and facts of other content.  Where a line of
a workflow gets another command (`MovedTables`), `PassedWasRun` fails, because results are found by
their line.  Where a file may be edited between the scan and the hashes (`EditsBeforeHash`),
`RowsTrusted` fails, because the hash is that of a version nobody read.

Fairness.  `EveryCommandEnds` assumes weak fairness of each process's own steps
(`FairSpec`): the operating system runs every runnable process, and SQLite's
busy handler gives up after its timeout, so that a process waiting for the write
lock has `BusyExit` as a step.  `ViewSettles` assumes the same of the steps of a command;
starting a command is not assumed, so that the view settles when commands
stop coming.  Failures and crashes are not assumed to happen, and `ViewSettles`
speaks only of behaviours without one.

Deadlock is checked where processes may wait for each other.  `IndexRuns` ends in `AllDone`, a
stutter when all launches are used, and so does `ServiceCalls`.  `ArchitectureRuns`,
`DepthProvider` and `ChangeSurface` end when their commands, requests or bounds are used up, where the
system simply stops, and their configurations say so.

## What the models do not promise

Behaviour of the code that the models have and no property claims to exclude, or that a
reader of the properties should know:

- The newest run is what readers take for the view, complete or not: until its command
  ends, or for good if it is aborted, it is partial.  `PlanReviews` takes the view as up
  to date, which `QuietViewCurrent` justifies only while no command runs.  A detector that
  reads service names before a service is inserted and its rows afterwards raises KeyError
  and aborts its command.
- The trend collapses findings of one identity, which those without an entrypoint
  easily share.  `list_findings` orders severities as text, so `critical` comes last.
- `find_fan_imbalance` counts calls of a service to itself.
- `find_unmapped_downstream_errors` joins by `LOWER(name)` and has no guard against a
  name that several checkouts have; `replace_analysis` keeps the last entrypoint only
  where two have one symbol.
- Facts an external provider contributed (`origin` other than static) count in neither
  non-atomic detector.  Terraform settings of a bucket are folded in only from
  the same file.  Declarations outside every root, or inside several, are in no
  finding about a single service.
- Of several routes or calls that share a unit, the unit shows the contract of the first.
  `derive_retry_write_publish_review_units` makes units of visible rows only; a channel
  with a retried consumer finding silences the whole channel, where its docstring
  speaks of one delivery.  `derive_aggregate_ownership_review_units` speaks of names in its
  docstring and is called with the unambiguous ones.
- In require mode the first failed session ends the command, so an open circuit never
  silently degrades one.
- A diff that git fails to give counts as an empty one: precision is 0 and every
  predicted service is rejected, which `_describe_outcome` says is never fabricated.
- Feedback is kept by name: it counts for a service of that name in any repository, a
  run's names may be judged in any repository, and verifying a run twice gives its feedback
  twice.  Telemetry is kept by rowid, which a later service may be given.
- The alphabetical cut at the cap may drop the very services the search found.
- `find_change_surface` without a repository refuses duplicate names only at its start.

## Proofs

`IndexRunsProofs` proves for all values of the constants (any number of processes,
commands, keys, launches):

- `TypeCorrect`, `LockSafety` and `MutexRefinement` without any assumption on what
  users run.  The inductive invariant is `LockInv`: `TypeOK`, the processes at
  inspect, refused and recover hold the write lock (`HoldsWriter`), a live process has a command (`LiveState`), and
  `LockRowIsMine`.  `HoldsWriter` is what makes take-over safe: between the failed
  INSERT and the DELETE of a dead holder's row no other process can have taken the row
  over, since the DELETE runs in the transaction the failed INSERT left open.
  Refinement follows: `Inside` changes only in `InsertLock`, and when a holder ends.
- `IndexExclusion` under `OneKeyPerService`: only `index` commands, and one service
  name per root path of a repository.  `ServiceInv` adds that every row of `services` is
  one a command made (`RowsAreCommanded`) and that a working process's row has its
  name and repository (`OwnRow`); equal rows then mean equal lock keys, and
  `LockRowIsMine` does the rest.  Without the assumption the property is false, as the
  run `index_update` shows.
- `LiveRunStaysOpen`, `AtMostOneOpenRun`, `HistoryIsAppendOnly` under the same
  assumption.  `RunInv` adds that between recovery and start a service has no open
  run (`RecoveredBeforeStart`).

`StoredFactsProofs` is about what the source scans store.  Of `StaticSnapshot` it proves, for any
inputs, edits and releases:

- `SnapshotsAreTrusted` and `SnapshotsAreTrue` where no content comes back
  (`~Reverts`) and no statement of `replace_analysis` is interrupted (`~Interrupts`);
  without either they are false: `MCStaticInterrupt.cfg` shows the
  one, the same instance with `Reverts = TRUE` the other.  The argument of `TrustInv`: what each
  pass read is ordered in time (`Ordered`), versions only grow, so equal digests around the
  analysis mean the analysis read the same.
- `StillRunsAreReusable` without assumptions: a plain run during which nothing
  changes read the same three times (`StillRead`).

Of `ArchitectureRuns`, the findings in the facts of all services, it proves for any commands, detectors and facts:

- `ViewTypeCorrect`, and `QuietViewsAreCurrent`.  The inductive invariant `ViewInv` says when the
  newest run can be trusted: no command aborted since it was started, and none is between a
  store of facts and a run of its own (`AllReported`).  Then the command that fills the newest
  run, if there is one, has in it and in hand what the detectors up to its present one find in the
  facts as they are; if there is none, the run holds all findings (`NewestRun`).  That two
  commands never fill one run (`OwnRuns`) makes the first case a single one.

`ServiceCallsProofs` proves, for any processes, commands, services and calls:

- `TypeCorrect` with no assumption; it includes that no call outlives its service.
- `LinksAlwaysNamed` and `CallsAreReconciled` where no two scans find one root path
  under two names (`OneNamePerRoot`); `MCCallsRename.cfg` shows what happens
  otherwise.  The inductive invariant `LinkInv` adds to types and `LinksAreNamed` that
  every row and every service about to become one was found by some scan
  (`RowsAreFound`); hence `ensure_service` reaches a row by root path only under its own
  name, and neither renames it nor moves it to another repository (`EnsureKeepsName`).
  `ReconciledLinks` is the lemma on one reconciliation: it keeps
  links named and, over the whole table, leaves nothing to reconcile.

`ChangePlansProofs` proves, for any clients, plans, surfaces and command tables:

- `TypeCorrect`, and `PlansAlwaysAgree`: what `refine_change_plan` writes is made of the decision
  points it read, and these never change, so that an overwritten plan is still a whole one.
- `ResultsAreOfChecks` and `ClosuresSeeChecks`.  The argument is `ChecksDependOnPoints`: the checks of an
  event unit are the consumers of its contract, whichever option is chosen, so two
  refinements of one plan have the same checks and a check validated against an earlier
  reading is still one.  The inductive invariant `IInv` carries it through the calls in progress
  (`RefineReads`, `ReportsNameChecks`) and says that only ready plans have results (`ResultsOfReady`).
- `PassedCommandsWereRun` where a line of a workflow keeps its command (`LinesKeepCommands`; with
  the instance `MovedTables` of `MCChangePlans` the property fails).  The invariant `ResultsLocated` says that a CI
  result stands at the place of an indexed row with the command it was reported for.  `Located` is
  what the walk over the readings needs: the hint, the row it is matched with and the result that is
  looked up have one path and one line, hence one command.  The hints are read at one commit and
  the results at another; results that were read are still there when the answer is told
  (`ToldByReadResults`).

`IncrementalIndexProofs` proves, for any files, endpoints, components and imports:

- `TypeCorrect` without assumptions.
- `TrustedRows` where no content comes back (`~Reverts`) and a file does not change between
  the scan that reads it and the comparison of hashes (`~EditsBeforeHash`): the hashes are
  computed from the files again, so that otherwise the hash of one version can be stored for the
  summary of another (the hazard at `orchestrator.py:537`).  The invariant `RowInv` is built up along the pipeline.
  `ReadInv` is about the files: versions only grow and what is stored is never newer
  (`Moved`), and a file counts as changed exactly when its stored hash is not the one just
  computed (`Hashed`).  `ApiInv`, `ComponentInv` and `ListInv` then say of each kind of unit
  that a row whose files are all hashed as they were read was made from them, and that a unit
  the run is done with is current or has its files among the failed ones, whose
  hashes `StoreHashes` clears.  A component's rows take three facts: its endpoints are
  done, its key still names its group, and the rows of other groups are pruned.
- `QuietRuns` and `SettledRows` under the same assumptions.  `SettledInv` adds that since
  a run without failures over files that stood still, the hashes are those of the tree, and a
  run that is not forced finds nothing changed in any of its steps.

`PlanReviewsProofs` is about the detectors and the derive functions, for any rows that have the
columns of a scan and any files.  The invariant `ReviewInv` (theorem `RowsAgree`) is
the only part that looks at steps: the rows of every service have the form `AreRows`, and the
infrastructure rows of a checkout are those that the files of its last scan give, but for the services
they are attributed to, which may have been deleted since.  From it follow, state by state:

- `RetriesBlameOneCheckout`: the candidates of the callee's name are ranked by checkout before one
  is taken.
- `CloudNamesAlwaysReconciled`: both detectors compare lower-cased names of the same rows.
- `ConfigurationAlwaysReviewed`: what the scan stores as unknown or as a mismatch is
  recomputed from the manifests; declarations are told apart by their place, and a binding
  is one of the scan's mismatches exactly when its source is declared in one place.
- `OwnershipAlwaysReviewedOnce`: the owner of a name is the least of those that are in the
  plan, hence one, and the others are what the unit lists.
- `NonAtomicAlwaysReportedOnce`: the first detector takes the symbols that are entrypoints, the second
  the rest, and each groups its rows by symbol.
- `ChannelsAlwaysReviewed`: by cases on which finding silences which; each finding about a
  channel becomes a unit that names the channel.
- `EndpointErrorsAlwaysAccounted` and `DownstreamUnitsAlwaysRestOnFlow`: both compare the walk of
  `list_reachable_edges` with `Flow`, the least set with the entrypoint's symbol that no edge leaves.  The
  invariant of a round (`WalkFacts`) says that edges are listed once, that what was met is the first symbol and the
  targets of the listed edges, that below the limit all edges of a visited symbol are listed, and
  that every round uses up a pending symbol while every edge adds one: hence `MaxEdges + 1` rounds end
  the loop.  Then what was visited is closed if the limit was not met, and if it was met by no more
  edges than the flow has, the edges are all of them (`ReachableOnFlow`).  `EdgesFromAre` says that the
  query lists every edge that leaves a symbol once.
- `CyclesAlwaysMutual`: Tarjan's algorithm is correct on every finite graph (`TarjanFindsComponents`).
  The invariant of a round, `SearchInv`, has the classical argument in `Core`.  Call gray the nodes whose
  calls have not returned and open those on the stack: a gray node reaches all that are later on the stack, a lowlink
  is the index of an open node that is reached, an open node whose call has returned has a lowlink below itself and
  no lower than that of the last gray node before it, and what is closed are whole components that
  nothing leaves.  A node is entered (`CoreEntered`), a lowlink lowered (`CoreLowered`), a
  neighbor crossed off (`CoreShrink`), and a call returns without (`CorePop`) or with a component:
  in `CoreClose` the nodes from the returning one on reach it, by descent along lowlinks, and nothing else
  does, since they and the closed ones together are closed.  `Steps` counts two rounds for a node and one for
  an edge, which bounds the rounds.  The rest is that relations lead to indexed services
  (`RelationsInv`), that names tell services apart and that two nodes of a cycle have an edge out and an edge in.
- `UnitIdsAlwaysUnique`: a unit's id is its role, its service and a key.  Roles tell
  the derive functions apart except for the families that several detectors feed; for these the keys are shown to be apart
  (`PlacedFindings`), and for every family the remaining fields, dependencies and contracts, to be a
  function of the id.

`DepthProviderProofs` proves, for any analyses, limits and behaviour of the provider:

- `TypeCorrect`, the bounds of the cache and of the failure count included, and
  `CircuitAlwaysBreaks`.  The failures in a row of the property are read off the history, the count in
  the code is reset when a cooldown is over, so the two differ.  `CircuitInv` relates them: while the circuit is
  open, a row of at least `Threshold` failures lies behind it, the last of them at
  `openedAt` (`OpenCircuitInv`); while it is closed, the `failures` that are counted are the latest of
  the row, and those before them lie a cooldown back (`ClosedCircuitInv`, `Counted`).  Then
  `Threshold` failures that end with a new one reach back before the cooldown.
- `UnrelatedAlwaysIgnored`: it holds in every state because it holds for every analysis.
  `WithSymbol` says that a callable of a new name changes no other one and
  `ContractIsSequence` and `OwnerOfMember` that no rule can compose its name; `SameEvidence` then
  compares the rules one by one.
- `FlowsAlwaysEnrichedWholly`.  `FlowInv` says of the flow that it is a sequence,
  of the session in progress that its edges are what the answers it has hold that is
  valid, as far as there was room (`SessionInv`), and of every cached flow that a session that
  was answered gave it to a service with that key (`CacheInv`); `AnswerAdded` is the step: an answer adds
  its valid items while there is room.  The property speaks of the edges each answer
  added by their places (`Behind`,
  `AddedBy`), so that no list of lists has to be flattened.  It is stronger than it was: an
  answered request has heard every symbol unless its budget was full before.

`ChangeSurfaceProofs` proves, for any services, relations, searches and answers, and any overlap of
index runs, finds and verifications:

- `CandidatesAlwaysKeepBoth` where the walk has two hops (`Hops = 2`, which no caller of
  `KeywordGraphRetrieval` changes).  The lists are functions on places: what is selected of a
  list stands at the rank of its place among those selected (`SortedPlaces`, `SelectedPlaces`).  A name that
  one of the lists has at place k stands at 2k - 1 or 2k of the interleaving; the place where it first stands
  is no later, and the rank of a place among the first places is no greater than the place, so
  that it is before the cap (`HybridKeeps`).  `WalkMeetsNear` is about the early end of the walk: the loop ends
  when the cap is reached, and if all that two relations lead to fits under the cap, then what was
  visited is all of it.
- `VerdictsAlwaysFollowFiles`.  The inductive invariant `VerdictInv` is about the verification in
  progress: what it has said and what it still owes are together one outcome for each service it
  judges, all true of the rows and files it has read (`JobInv`); feedback carries the number of the
  verification in progress or of an earlier one (`FeedbackInv`), so that rows recorded now change no
  earlier verdict.  `AttributedOwns` says whose a file is.  It corrected the property, which at first named
  only the innermost service: an index of a service that another one's root has moved to leaves two
  services with one root, and then `_actually_changed_services` takes the first by name.  The instance
  has such an index now.

Assumptions about the constants are `TableAssumption`, `CommandAssumption`,
`SnapshotAssumption`, `CallAssumption`, `SurfaceAssumption`, `NoPlanAssumption`,
`TreeAssumption`, `ArchitectureAssumption`, `RetrievalAssumption`,
`ChangeAssumption`, `ServiceIdsAssumption`, `NamesAssumption`,
`AnalysesAssumption` of `StaticFacts` (what a scan finds has the columns of the tables, and its edges are finitely many),
`RelationsAssumption` (a reconciliation finds finitely many relations), and that of
`DepthProvider` (names have segments, lists and answers are sequences), `LinesAssumption` (lines are numbers),
`LimitsAssumption`, `RootsAssumption`,
`TreesAssumption` (what a checkout holds is files of the known formats), `MaxVisibleAssumption`
and `MaxEdgesAssumption`; TLC evaluates them.

Only model-checked, and why:

- `EveryCommandEnds` and `ViewSettles`: liveness is out of TLAPS's reach.

What is recursive in the code and proved about is a function over rounds; that rounds keep their
invariant is shown by a least round that does not (`LeastNumber`), since the induction theorems of
the library cannot be used.


## Plan

Every safety invariant and action property that a run checks is a theorem now.  What is left to model, in this
order: the synthesis cache and similar past tasks of the change surface, the three commits of
one endpoint, the runtime configuration follow-up of a plan.  Each would bring properties of its own, which
TLC should check before they are proved.

## Not modelled

- The MCP server and the readers of `mcp/queries.py` that only select and format rows: there is no state
  to check.  Queries that write or that findings are made of are in the modules above.
- The search index: a rebuild deletes and inserts rows of one table; what it answers is an input
  of `ChangeSurface`.
- Migrations: a list of ALTER and CREATE statements, each skipped where it is applied.
- The parsers (engine, discovery, CI, security, the files of `iac/`): their output is a function of text
  and is a value in the models.
- Exports, telemetry of use, benchmark, scripts: formatting and reporting.
- SQLite, git and the LLMs appear as external steps.
