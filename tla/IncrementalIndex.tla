-------------------------- MODULE IncrementalIndex --------------------------
(***************************************************************************)
(* Incremental indexing of one service: which LLM-derived rows a run       *)
(* writes, which it skips, and which file hashes it remembers              *)
(* (orbitkb/generation/orchestrator.py, _index_service_unlocked and its    *)
(* unit generators; orbitkb/db/repositories/indexed_files.py).             *)
(*                                                                         *)
(* A row holds the versions of the files it was generated from, in place   *)
(* of generated text.  Each unit commits on its own; the hashes are        *)
(* committed together at the end.  Files may be edited or deleted between  *)
(* any two steps, the LLM may fail on any unit, the run may die anywhere.  *)
(* Runs of one service exclude each other (IndexRuns).                     *)
(***************************************************************************)
EXTENDS Naturals, FiniteSets

CONSTANTS
    Files,            \* files of the service
    Endpoints,        \* endpoints the service may have, in the detector's order
    Components,       \* classes, controllers or modules of endpoints
    RouteFile,        \* endpoint -> the file that declares it
    ExtraFiles,       \* endpoint -> the other files its excerpts come from
    ComponentOf,      \* endpoint -> its component
    HintFiles,        \* "persistence", "messaging" -> the files with such hints
    EntryFile,        \* the file of the entry excerpt
    Nothing,          \* no row
    Deletable,        \* the files that come and go; the others only change
    MaxClock,         \* bound on the versions files may take
    Reverts,          \* may an edit bring back an older content?
    EditsBeforeHash   \* may files change between reading and hashing them?

Kinds == {"persistence", "messaging"}

NoFile == 0           \* an absent file, and an absent hash

Versions == 1..MaxClock

\* The rows: what they were generated from.
Inputs == UNION {[S -> Versions] : S \in SUBSET Files}

Summaries == UNION {[S -> Inputs] : S \in SUBSET Endpoints}

Overviews == Inputs \X [Components \X Files -> Summaries \cup {Nothing}]

ASSUME TreeAssumption ==
    /\ Endpoints \subseteq Nat
    /\ RouteFile \in [Endpoints -> Files]
    /\ ExtraFiles \in [Endpoints -> SUBSET Files]
    /\ ComponentOf \in [Endpoints -> Components]
    /\ HintFiles \in [Kinds -> SUBSET Files]
    /\ EntryFile \in Files
    /\ Deletable \subseteq Files
    /\ MaxClock \in Nat \ {0}
    /\ Reverts \in BOOLEAN /\ EditsBeforeHash \in BOOLEAN
    /\ Nothing \notin Inputs \cup Summaries \cup Overviews

VARIABLES
    tree,       \* the working tree: file -> version, or NoFile
    clock,      \* the newest version any file has had
    known,      \* the services row exists
    hashes,     \* indexed_files: file -> version, or NoFile
    apis,       \* apis: endpoint -> the inputs of its row
    comps,      \* components: (name, file) -> the api rows its summary is composed of
    lists,      \* persistence_entities and messages: kind -> the inputs
    overview,   \* services.short_desc and long_desc: what they are composed of
    pc,         \* where the run is
    ctx,        \* the run's IndexContext
    called,     \* the run has asked the LLM
    settled     \* the last run to finish had no failure, and no file changed since
                \* it read them

db == <<known, hashes, apis, comps, lists, overview>>
vars == <<tree, clock, known, hashes, apis, comps, lists, overview, pc, ctx, called, settled>>

(***************************************************************************)
(* Hints, as functions of the tree they were collected from                *)
(***************************************************************************)

Present(files, seen) == {f \in files : seen[f] # NoFile}

\* EndpointHint.dependency_files
DependencyFiles(e, seen) == Present({RouteFile[e]} \cup ExtraFiles[e], seen)

EndpointHints(seen) == {e \in Endpoints : seen[RouteFile[e]] # NoFile}

\* _group_endpoints_by_component
Group(c, seen) == {e \in EndpointHints(seen) : ComponentOf[e] = c}

ComponentGroups(seen) == {c \in Components : Group(c, seen) # {}}

\* group[0]
FirstOf(c, seen) == CHOOSE e \in Group(c, seen) : \A d \in Group(c, seen) : e <= d

\* The key of a component row: its name and the file of its first endpoint.
ComponentKey(c, seen) == <<c, RouteFile[FirstOf(c, seen)]>>

GroupFiles(c, seen) == UNION {DependencyFiles(e, seen) : e \in Group(c, seen)}

KindFiles(k, seen) == Present(HintFiles[k], seen)

EntryFiles(seen) == Present({EntryFile}, seen)

\* ServiceHints.relevant_files
RelevantFiles(seen) ==
    EntryFiles(seen)
        \cup (UNION {KindFiles(k, seen) : k \in Kinds})
        \cup (UNION {DependencyFiles(e, seen) : e \in EndpointHints(seen)})

\* What the excerpts of these files say.
Excerpts(files, seen) == [f \in files |-> seen[f]]

Trees == [Files -> Versions \cup {NoFile}]

Contexts ==
    [force : BOOLEAN, isNew : BOOLEAN, described : BOOLEAN, seen : Trees, new : Trees,
     changed : SUBSET Files, todo : SUBSET (Endpoints \cup Components),
     failed : SUBSET Files, hadFailure : BOOLEAN, regenerated : BOOLEAN]

PCs == {"idle", "hash", "endpoints", "components", "persistence", "messaging",
        "overview", "store"}

TypeOK ==
    /\ tree \in Trees /\ hashes \in Trees
    /\ clock \in Versions
    /\ known \in BOOLEAN /\ called \in BOOLEAN /\ settled \in BOOLEAN
    /\ apis \in [Endpoints -> Inputs \cup {Nothing}]
    /\ comps \in [Components \X Files -> Summaries \cup {Nothing}]
    /\ lists \in [Kinds -> Inputs]
    /\ overview \in Overviews \cup {Nothing}
    /\ pc \in PCs
    /\ ctx \in Contexts

NoContext ==
    [force |-> FALSE, isNew |-> FALSE, described |-> FALSE,
     seen |-> [f \in Files |-> NoFile], new |-> [f \in Files |-> NoFile],
     changed |-> {}, todo |-> {}, failed |-> {}, hadFailure |-> FALSE, regenerated |-> FALSE]

Init ==
    /\ \E there \in SUBSET Files :
         /\ Files \ Deletable \subseteq there
         /\ tree = [f \in Files |-> IF f \in there THEN 1 ELSE NoFile]
    /\ clock = 1
    /\ known = FALSE
    /\ hashes = [f \in Files |-> NoFile]
    /\ apis = [e \in Endpoints |-> Nothing]
    /\ comps = [key \in Components \X Files |-> Nothing]
    /\ lists = [k \in Kinds |-> Excerpts({}, tree)]
    /\ overview = Nothing
    /\ pc = "idle"
    /\ ctx = NoContext
    /\ called = FALSE
    /\ settled = FALSE

(***************************************************************************)
(* The files change under the program                                      *)
(***************************************************************************)

\* A file gets a new content, or an older one when Reverts, or is deleted.
Edit(f) ==
    /\ pc = "hash" => EditsBeforeHash
    /\ \/ /\ clock < MaxClock
          /\ clock' = clock + 1
          /\ \/ tree' = [tree EXCEPT ![f] = clock + 1]
             \/ tree[f] # NoFile /\ f \in Deletable /\ tree' = [tree EXCEPT ![f] = NoFile]
       \/ /\ Reverts
          /\ \E v \in 1..clock \ {tree[f]} : tree' = [tree EXCEPT ![f] = v]
          /\ UNCHANGED clock
    /\ settled' = FALSE
    /\ UNCHANGED <<known, hashes, apis, comps, lists, overview, pc, ctx, called>>

(***************************************************************************)
(* _index_service_unlocked up to the unit generators                       *)
(***************************************************************************)

\* detector.collect_hints reads the tree; the row is looked up, then ensured.
BeginRun(force) ==
    /\ pc = "idle"
    /\ ctx' = [NoContext EXCEPT !.force = force, !.isNew = ~known, !.seen = tree,
                                !.described = overview # Nothing]
    /\ known' = TRUE
    /\ called' = FALSE
    /\ pc' = "hash"
    /\ UNCHANGED <<tree, clock, hashes, apis, comps, lists, overview, settled>>

\* The relevant files are hashed from the tree as it is by now.
HashFiles ==
    /\ pc = "hash"
    /\ LET new == [f \in Files |-> IF f \in RelevantFiles(ctx.seen) THEN tree[f] ELSE NoFile]
       IN  ctx' = [ctx EXCEPT !.new = new,
                              !.changed = {f \in Files : /\ new[f] # NoFile
                                                         /\ ctx.force \/ hashes[f] # new[f]},
                              !.todo = EndpointHints(ctx.seen)]
    /\ pc' = "endpoints"
    /\ UNCHANGED <<tree, clock, known, hashes, apis, comps, lists, overview, called, settled>>

\* removed = set(old_hashes) - set(new_hashes)
Removed == {f \in Files : hashes[f] # NoFile /\ ctx.new[f] = NoFile}

(***************************************************************************)
(* The unit generators                                                     *)
(***************************************************************************)

Touches(files) == ctx.changed \cap files # {}

\* What a failed unit adds to its UnitOutcome.
Failed(context, files) ==
    [context EXCEPT !.failed = @ \cup files, !.hadFailure = TRUE]

Regenerated(context) == [context EXCEPT !.regenerated = TRUE]

EndpointDue(e) ==
    \/ ctx.force
    \/ apis[e] = Nothing
    \/ Touches(DependencyFiles(e, ctx.seen))

\* Faulty variant of GenerateEndpoint: a failure leaves its files out of failed_files.
ForgetFailure(e) ==
    /\ pc = "endpoints"
    /\ e \in ctx.todo /\ \A d \in ctx.todo : e <= d
    /\ \/ apis' = [apis EXCEPT ![e] = Excerpts(DependencyFiles(e, ctx.seen), ctx.seen)]
       \/ UNCHANGED apis
    /\ ctx' = Regenerated([ctx EXCEPT !.todo = @ \ {e}])
    /\ called' = TRUE
    /\ UNCHANGED <<tree, clock, known, hashes, comps, lists, overview, pc, settled>>

\* One iteration of EndpointGenerator.run.  The LLM may answer or fail.
GenerateEndpoint(e) ==
    /\ pc = "endpoints"
    /\ e \in ctx.todo /\ \A d \in ctx.todo : e <= d
    /\ LET files == DependencyFiles(e, ctx.seen)
           rest == [ctx EXCEPT !.todo = @ \ {e}]
       IN  \/ /\ ~EndpointDue(e)
              /\ ctx' = rest
              /\ UNCHANGED <<apis, called>>
           \/ /\ EndpointDue(e)
              /\ called' = TRUE
              /\ \/ /\ apis' = [apis EXCEPT ![e] = Excerpts(files, ctx.seen)]
                    /\ ctx' = Regenerated(rest)
                 \/ /\ ctx' = Failed(rest, files)
                    /\ UNCHANGED apis
    /\ UNCHANGED <<tree, clock, known, hashes, comps, lists, overview, pc, settled>>

\* prune_apis_not_in
PruneApis ==
    /\ pc = "endpoints"
    /\ ctx.todo = {}
    /\ apis' = [e \in Endpoints |-> IF e \in EndpointHints(ctx.seen) THEN apis[e] ELSE Nothing]
    /\ ctx' = [ctx EXCEPT !.todo = ComponentGroups(ctx.seen)]
    /\ pc' = "components"
    /\ UNCHANGED <<tree, clock, known, hashes, comps, lists, overview, called, settled>>

\* Faulty variant of ComponentDue: only the component's own file counts.
OwnFileDue(c) ==
    ctx.force \/ ctx.isNew \/ Touches({RouteFile[FirstOf(c, ctx.seen)]})

ComponentDue(c) == ctx.force \/ ctx.isNew \/ Touches(GroupFiles(c, ctx.seen))

\* The summaries of the group that the apis table holds by now.
GroupSummaries(c) ==
    [e \in {d \in Group(c, ctx.seen) : apis[d] # Nothing} |-> apis[e]]

\* One iteration of ComponentGenerator.run.
GenerateComponent(c) ==
    /\ pc = "components"
    /\ c \in ctx.todo
    /\ \A d \in ctx.todo : FirstOf(c, ctx.seen) <= FirstOf(d, ctx.seen)
    /\ LET rest == [ctx EXCEPT !.todo = @ \ {c}]
       IN  \/ /\ ~ComponentDue(c)
              /\ ctx' = rest
              /\ UNCHANGED <<comps, called>>
           \/ /\ ComponentDue(c)
              /\ called' = TRUE
              /\ \/ /\ comps' = [comps EXCEPT ![ComponentKey(c, ctx.seen)] = GroupSummaries(c)]
                    /\ ctx' = Regenerated(rest)
                 \/ /\ ctx' = Failed(rest, GroupFiles(c, ctx.seen))
                    /\ UNCHANGED comps
    /\ UNCHANGED <<tree, clock, known, hashes, apis, lists, overview, pc, settled>>

\* prune_components_not_in
PruneComponents ==
    /\ pc = "components"
    /\ ctx.todo = {}
    /\ LET keep == {ComponentKey(c, ctx.seen) : c \in ComponentGroups(ctx.seen)}
       IN  comps' = [key \in Components \X Files |->
                        IF key \in keep THEN comps[key] ELSE Nothing]
    /\ pc' = "persistence"
    /\ UNCHANGED <<tree, clock, known, hashes, apis, lists, overview, ctx, called, settled>>

\* Faulty variant of ListDue: only the removed files count.
RemovedDue(k) == ctx.force \/ ctx.isNew \/ Removed \cap KindFiles(k, ctx.seen) # {}

ListDue(k) ==
    LET files == KindFiles(k, ctx.seen)
    IN  ctx.force \/ ctx.isNew \/ Touches(files) \/ Removed \cap files # {}

\* PersistenceGenerator.run and MessagingGenerator.run: one LLM call for all
\* hints of the kind, and its rows replaced together.
ReplaceList(k) ==
    /\ pc = k
    /\ LET files == KindFiles(k, ctx.seen)
       IN  \/ /\ files = {}
              /\ lists' = [lists EXCEPT ![k] = Excerpts({}, ctx.seen)]
              /\ UNCHANGED <<ctx, called>>
           \/ /\ files # {} /\ ~ListDue(k)
              /\ UNCHANGED <<lists, ctx, called>>
           \/ /\ files # {} /\ ListDue(k)
              /\ called' = TRUE
              /\ \/ /\ lists' = [lists EXCEPT ![k] = Excerpts(files, ctx.seen)]
                    /\ UNCHANGED ctx
                 \/ /\ ctx' = Failed(ctx, files)
                    /\ UNCHANGED lists
    /\ pc' = IF k = "persistence" THEN "messaging" ELSE "overview"
    /\ UNCHANGED <<tree, clock, known, hashes, apis, comps, overview, settled>>

OverviewDue ==
    \/ ctx.force \/ ctx.isNew
    \/ Touches(EntryFiles(ctx.seen))
    \/ ~ctx.described
    \/ ctx.regenerated

\* What an overview generated now is composed of.
Composition(seen) == <<Excerpts(EntryFiles(seen), seen), comps>>

\* OverviewGenerator.run
GenerateOverview ==
    /\ pc = "overview"
    /\ \/ /\ ~OverviewDue
          /\ UNCHANGED <<overview, ctx, called>>
       \/ /\ OverviewDue
          /\ called' = TRUE
          /\ \/ /\ overview' = Composition(ctx.seen)
                /\ UNCHANGED ctx
             \/ /\ ctx' = Failed(ctx, EntryFiles(ctx.seen))
                /\ UNCHANGED overview
    /\ pc' = "store"
    /\ UNCHANGED <<tree, clock, known, hashes, apis, comps, lists, settled>>

(***************************************************************************)
(* The hashes, and the end of the run                                      *)
(***************************************************************************)

\* Faulty variant of StoredHashes: only files with hints are remembered.
HintFileHashes(done) ==
    [f \in Files |-> IF f \in done \ ({EntryFile} \cup ctx.failed) /\ ctx.new[f] # NoFile
                     THEN ctx.new[f] ELSE hashes[f]]

\* The hash rows after the loop has gone over `done`.
StoredHashes(done) ==
    [f \in Files |-> IF f \in done /\ ctx.new[f] # NoFile /\ f \notin ctx.failed
                     THEN ctx.new[f] ELSE hashes[f]]

Ends ==
    /\ pc' = "idle"
    /\ ctx' = NoContext
    /\ called' = FALSE

\* Every hash of a file no failed unit read, and the removal of files that are
\* gone, in one transaction.
StoreHashes ==
    /\ pc = "store"
    /\ hashes' = [f \in Files |-> IF f \in Removed THEN NoFile ELSE StoredHashes(Files)[f]]
    /\ settled' = (~ctx.hadFailure /\ tree = ctx.seen)
    /\ Ends
    /\ UNCHANGED <<tree, clock, known, apis, comps, lists, overview>>

\* An exception in the loop: release_service_lock, in the finally clause of
\* index_service, commits the rows written so far.
InterruptStore(done) ==
    /\ pc = "store"
    /\ hashes' = StoredHashes(done)
    /\ Ends
    /\ UNCHANGED <<tree, clock, known, apis, comps, lists, overview, settled>>

\* The run is killed or raises: what its units committed stays.
Crash ==
    /\ pc # "idle"
    /\ Ends
    /\ UNCHANGED <<tree, clock, known, hashes, apis, comps, lists, overview, settled>>

Next ==
    \/ \E f \in Files : Edit(f)
    \/ \E force \in BOOLEAN : BeginRun(force)
    \/ HashFiles
    \/ \E e \in Endpoints : GenerateEndpoint(e)
    \/ PruneApis
    \/ \E c \in Components : GenerateComponent(c)
    \/ PruneComponents
    \/ \E k \in Kinds : ReplaceList(k)
    \/ GenerateOverview
    \/ StoreHashes
    \/ \E done \in SUBSET Files : InterruptStore(done)
    \/ Crash

Spec == Init /\ [][Next]_vars

(***************************************************************************)
(* Properties                                                              *)
(***************************************************************************)

\* The next run will find these files unchanged.
Unchanged(files) == \A f \in files : hashes[f] = tree[f]

\* row was generated from these files as they are now.
MadeFrom(row, files) == \A f \in files : f \in DOMAIN row /\ row[f] = tree[f]

\* When the hashes say that an endpoint's files are unchanged, so that the next
\* run skips it, its row was generated from the files as they are: whatever
\* failed, died or was edited meanwhile, no stale row is locked in
\* (orchestrator.py:596, "retries instead of silently skipping").
ApiRowsTrusted ==
    \A e \in EndpointHints(tree) :
        LET files == DependencyFiles(e, tree)
        IN  Unchanged(files) => apis[e] # Nothing /\ MadeFrom(apis[e], files)

\* When the hashes say that a component's files are unchanged, its summary, if
\* it has one, is composed from a summary of each of its endpoints that was
\* generated from the files as they are.
ComponentRowsTrusted ==
    \A c \in ComponentGroups(tree) :
        LET row == comps[ComponentKey(c, tree)]
        IN  Unchanged(GroupFiles(c, tree)) /\ row # Nothing =>
              \A e \in Group(c, tree) : e \in DOMAIN row /\ MadeFrom(row[e], DependencyFiles(e, tree))

\* When the hashes say that the files with persistence (or messaging) hints are
\* unchanged, the rows describe every one of them as it is.
ListRowsTrusted ==
    \A k \in Kinds :
        LET files == KindFiles(k, tree)
        IN  Unchanged(files) => MadeFrom(lists[k], files)

\* Whatever failed, died or was edited meanwhile, what the stored hashes let the
\* next run skip is current: endpoints, component summaries and lists.
RowsTrusted == ApiRowsTrusted /\ ComponentRowsTrusted /\ ListRowsTrusted

\* A run over files that did not change since a run without failures asks the
\* LLM nothing, whatever crashed in between (README.md:287, and the test
\* test_reindexing_unchanged_files_skips_generation).
QuietRunCallsNothing ==
    settled /\ pc # "idle" /\ ~ctx.force => ~called

\* After a run without failures, over files that stood still, every endpoint's row
\* was generated from the files as they are: what the run skipped had not changed
\* (README.md:287).  Only without Reverts.
SettledRowsCurrent ==
    settled => \A e \in EndpointHints(tree) :
                  apis[e] # Nothing /\ MadeFrom(apis[e], DependencyFiles(e, tree))

\* After a run without failures over unchanged files, the overview describes the
\* components as they are: an overview that failed earlier has been retried.
OverviewIsRetried ==
    settled /\ pc = "idle" => overview = Composition(tree)
=============================================================================
