----------------------- MODULE IncrementalIndexProofs -----------------------
(***************************************************************************)
(* What IncrementalIndex guarantees for any files, endpoints and           *)
(* components, any number of edits and runs.                               *)
(***************************************************************************)
EXTENDS IncrementalIndex, WellFoundedInduction, TLAPS

(***************************************************************************)
(* Types                                                                   *)
(***************************************************************************)

\* A unit reads files of the service, and only those that are there.
LEMMA UnitFiles ==
    ASSUME NEW seen \in Trees
    PROVE  /\ \A e \in Endpoints : DependencyFiles(e, seen) \in SUBSET Files
           /\ \A c \in Components : GroupFiles(c, seen) \in SUBSET Files
           /\ \A k \in Kinds : KindFiles(k, seen) \in SUBSET Files
           /\ EntryFiles(seen) \in SUBSET Files
           /\ EndpointHints(seen) \in SUBSET Endpoints
           /\ ComponentGroups(seen) \in SUBSET Components
  <1>1. \A e \in Endpoints : DependencyFiles(e, seen) \in SUBSET Files
    BY TreeAssumption DEF DependencyFiles, Present
  <1>2. \A c \in Components : GroupFiles(c, seen) \in SUBSET Files
    BY <1>1 DEF GroupFiles, Group, EndpointHints
  <1> QED
    BY <1>1, <1>2, TreeAssumption
    DEF KindFiles, EntryFiles, Present, EndpointHints, ComponentGroups

\* What a unit writes is generated from versions of files that are there.
LEMMA ExcerptsType ==
    ASSUME NEW seen \in Trees, NEW files \in SUBSET Files
    PROVE  Excerpts(Present(files, seen), seen) \in Inputs
  <1>1. Excerpts(Present(files, seen), seen) \in [Present(files, seen) -> Versions]
    BY DEF Excerpts, Present, Trees
  <1>2. Present(files, seen) \in SUBSET Files
    BY DEF Present
  <1> QED
    BY <1>1, <1>2 DEF Inputs

LEMMA UnitExcerptsType ==
    ASSUME NEW seen \in Trees
    PROVE  /\ \A e \in Endpoints : Excerpts(DependencyFiles(e, seen), seen) \in Inputs
           /\ \A k \in Kinds : Excerpts(KindFiles(k, seen), seen) \in Inputs
           /\ Excerpts(EntryFiles(seen), seen) \in Inputs
           /\ Excerpts({}, seen) \in Inputs
  <1>1. \A e \in Endpoints : {RouteFile[e]} \cup ExtraFiles[e] \in SUBSET Files
    BY TreeAssumption
  <1>2. \A k \in Kinds : HintFiles[k] \in SUBSET Files
    BY TreeAssumption
  <1>3. {EntryFile} \in SUBSET Files
    BY TreeAssumption
  <1>4. Present({}, seen) = {}
    BY DEF Present
  <1> QED
    BY <1>1, <1>2, <1>3, <1>4, ExcerptsType DEF DependencyFiles, KindFiles, EntryFiles

\* A component summary is composed of rows of endpoints.
LEMMA SummariesType ==
    ASSUME TypeOK, NEW c \in Components
    PROVE  GroupSummaries(c) \in Summaries
  <1> DEFINE S == {d \in Group(c, ctx.seen) : apis[d] # Nothing}
  <1>1. S \in SUBSET Endpoints
    BY DEF Group, EndpointHints
  <1>2. GroupSummaries(c) \in [S -> Inputs]
    BY <1>1 DEF GroupSummaries, TypeOK
  <1> QED
    BY <1>1, <1>2 DEF Summaries

LEMMA NoContextType == NoContext \in Contexts
  BY DEF NoContext, Contexts, Trees

LEMMA LeastNumber ==
    ASSUME NEW S \in SUBSET Nat, S # {}
    PROVE  \E m \in S : \A d \in S : m <= d
  <1> DEFINE R == OpToRel(<, Nat)
  <1>1. IsWellFoundedOn(R, Nat)
    BY NatLessThanWellFounded
  <1>2. \A d, e \in Nat : d < e => <<d, e>> \in R
    BY DEF OpToRel
  <1> HIDE DEF R
  <1>3. PICK m \in S : \A d \in S : ~ (<<d, m>> \in R)
    BY <1>1, WFMin
  <1>4. \A d \in S : m <= d
    <2> TAKE d \in S
    <2>1. d \in Nat /\ m \in Nat /\ ~(d < m)
      BY <1>2, <1>3
    <2> QED
      BY <2>1
  <1> QED
    BY <1>4

\* A group has a first endpoint.
LEMMA FirstOfGroup ==
    ASSUME NEW seen, NEW c, Group(c, seen) # {}
    PROVE  FirstOf(c, seen) \in Group(c, seen)
  <1>1. Group(c, seen) \in SUBSET Nat
    BY TreeAssumption DEF Group, EndpointHints
  <1>2. \E m \in Group(c, seen) : \A d \in Group(c, seen) : m <= d
    BY <1>1, LeastNumber
  <1> QED
    BY <1>2 DEF FirstOf

LEMMA InitType == Init => TypeOK
  <1> SUFFICES ASSUME Init PROVE TypeOK
    OBVIOUS
  <1>1. tree \in Trees /\ hashes \in Trees /\ clock \in Versions
    BY TreeAssumption DEF Init, Trees, Versions
  <1>2. Excerpts({}, tree) \in Inputs
    BY <1>1, UnitExcerptsType
  <1> QED
    BY <1>1, <1>2, NoContextType DEF Init, TypeOK, PCs

\* What a failed unit, or a unit that wrote, makes of the context.
LEMMA ContextType ==
    ASSUME TypeOK, NEW todo \in SUBSET (Endpoints \cup Components), NEW files \in SUBSET Files
    PROVE  LET rest == [ctx EXCEPT !.todo = todo]
           IN  /\ rest \in Contexts
               /\ Failed(rest, files) \in Contexts
               /\ Failed(ctx, files) \in Contexts
               /\ Regenerated(rest) \in Contexts
  BY DEF TypeOK, Contexts, Failed, Regenerated

LEMMA NextType == TypeOK /\ [Next]_vars => TypeOK'
  <1> SUFFICES ASSUME TypeOK, [Next]_vars PROVE TypeOK'
    OBVIOUS
  <1>c. ctx \in Contexts /\ ctx.seen \in Trees /\ ctx.new \in Trees
        /\ ctx.todo \in SUBSET (Endpoints \cup Components)
    BY DEF TypeOK, Contexts
  <1>1. ASSUME NEW f \in Files, Edit(f) PROVE TypeOK'
    <2>1. clock' \in Versions
      BY <1>1, TreeAssumption DEF Edit, Versions, TypeOK
    <2>2. tree' \in Trees
      <3>1. clock \in Nat /\ MaxClock \in Nat /\ clock <= MaxClock
        BY TreeAssumption DEF Versions, TypeOK
      <3>2. (clock < MaxClock => clock + 1 \in Versions) /\ 1..clock \subseteq Versions
        BY <3>1 DEF Versions
      <3>3. PICK v \in Versions \cup {NoFile} : tree' = [tree EXCEPT ![f] = v]
        BY <1>1, <3>2 DEF Edit
      <3> QED
        BY <3>3 DEF TypeOK, Trees
    <2> QED
      BY <1>1, <2>1, <2>2 DEF Edit, TypeOK
  <1>2. ASSUME NEW force \in BOOLEAN, BeginRun(force) PROVE TypeOK'
    <2>1. ctx' \in Contexts
      BY <1>2, NoContextType DEF BeginRun, TypeOK, Contexts
    <2> QED
      BY <1>2, <2>1 DEF BeginRun, TypeOK, PCs
  <1>3. CASE HashFiles
    <2>1. EndpointHints(ctx.seen) \in SUBSET Endpoints
      BY <1>c, UnitFiles
    <2>2. ctx' \in Contexts
      <3> DEFINE new == [f \in Files |-> IF f \in RelevantFiles(ctx.seen) THEN tree[f] ELSE NoFile]
                 changed == {f \in Files : new[f] # NoFile /\ (ctx.force \/ hashes[f] # new[f])}
                 todo == EndpointHints(ctx.seen)
      <3>1. new \in Trees /\ changed \in SUBSET Files
        BY DEF TypeOK, Trees
      <3>2. ctx' = [ctx EXCEPT !.new = new, !.changed = changed, !.todo = todo]
        BY <1>3 DEF HashFiles
      <3> HIDE DEF new, changed, todo
      <3>3. todo \in SUBSET (Endpoints \cup Components)
        BY <2>1 DEF todo
      <3> QED
        BY <1>c, <3>1, <3>2, <3>3 DEF Contexts
    <2> QED
      BY <1>3, <2>2 DEF HashFiles, TypeOK, PCs
  <1>4. ASSUME NEW e \in Endpoints, GenerateEndpoint(e) PROVE TypeOK'
    <2>1. /\ DependencyFiles(e, ctx.seen) \in SUBSET Files
          /\ Excerpts(DependencyFiles(e, ctx.seen), ctx.seen) \in Inputs
      BY <1>c, UnitFiles, UnitExcerptsType
    <2>2. ctx.todo \ {e} \in SUBSET (Endpoints \cup Components)
      BY <1>c
    <2>3. ctx' \in Contexts
      BY <1>4, <2>1, <2>2, ContextType DEF GenerateEndpoint
    <2>4. apis' \in [Endpoints -> Inputs \cup {Nothing}] /\ called' \in BOOLEAN
      BY <1>4, <2>1 DEF GenerateEndpoint, TypeOK
    <2> QED
      BY <1>4, <2>3, <2>4 DEF GenerateEndpoint, TypeOK
  <1>5. CASE PruneApis
    <2>1. ComponentGroups(ctx.seen) \in SUBSET (Endpoints \cup Components)
      BY <1>c, UnitFiles
    <2>2. ctx' \in Contexts
      BY <1>5, <2>1, <1>c, ContextType DEF PruneApis
    <2> QED
      BY <1>5, <2>2 DEF PruneApis, TypeOK, PCs
  <1>6. ASSUME NEW c \in Components, GenerateComponent(c) PROVE TypeOK'
    <2>1. GroupFiles(c, ctx.seen) \in SUBSET Files /\ GroupSummaries(c) \in Summaries
      BY <1>c, UnitFiles, SummariesType
    <2>2. ctx.todo \ {c} \in SUBSET (Endpoints \cup Components)
      BY <1>c
    <2>3. ctx' \in Contexts
      BY <1>6, <2>1, <2>2, ContextType DEF GenerateComponent
    <2>4. comps' \in [Components \X Files -> Summaries \cup {Nothing}] /\ called' \in BOOLEAN
      BY <1>6, <2>1 DEF GenerateComponent, TypeOK
    <2> QED
      BY <1>6, <2>3, <2>4 DEF GenerateComponent, TypeOK
  <1>7. CASE PruneComponents
    BY <1>7 DEF PruneComponents, TypeOK, PCs
  <1>8. ASSUME NEW k \in Kinds, ReplaceList(k) PROVE TypeOK'
    <2>1. /\ KindFiles(k, ctx.seen) \in SUBSET Files
          /\ Excerpts(KindFiles(k, ctx.seen), ctx.seen) \in Inputs
          /\ Excerpts({}, ctx.seen) \in Inputs
      BY <1>c, UnitFiles, UnitExcerptsType
    <2>2. ctx' \in Contexts
      BY <1>8, <1>c, <2>1, ContextType DEF ReplaceList
    <2>3. lists' \in [Kinds -> Inputs] /\ called' \in BOOLEAN
      BY <1>8, <2>1 DEF ReplaceList, TypeOK
    <2> QED
      BY <1>8, <2>2, <2>3 DEF ReplaceList, TypeOK, PCs
  <1>9. CASE GenerateOverview
    <2>1. EntryFiles(ctx.seen) \in SUBSET Files
      BY <1>c, UnitFiles
    <2>2. Composition(ctx.seen) \in Overviews
      BY <1>c, UnitExcerptsType DEF Composition, Overviews, TypeOK
    <2>3. ctx' \in Contexts
      BY <1>9, <1>c, <2>1, ContextType DEF GenerateOverview
    <2>4. overview' \in Overviews \cup {Nothing} /\ called' \in BOOLEAN
      BY <1>9, <2>2 DEF GenerateOverview, TypeOK
    <2> QED
      BY <1>9, <2>3, <2>4 DEF GenerateOverview, TypeOK, PCs
  <1>10. \A done \in SUBSET Files : StoredHashes(done) \in Trees
    BY <1>c DEF StoredHashes, TypeOK, Trees
  <1>11. CASE StoreHashes
    <2>1. hashes' \in Trees
      BY <1>11, <1>10 DEF StoreHashes, Trees
    <2> QED
      BY <1>11, <2>1, NoContextType DEF StoreHashes, Ends, TypeOK, PCs
  <1>12. ASSUME NEW done \in SUBSET Files, InterruptStore(done) PROVE TypeOK'
    BY <1>12, <1>10, NoContextType DEF InterruptStore, Ends, TypeOK, PCs
  <1>13. CASE Crash
    BY <1>13, NoContextType DEF Crash, Ends, TypeOK, PCs
  <1>14. CASE UNCHANGED vars
    BY <1>14 DEF vars, TypeOK
  <1> QED
    BY <1>1, <1>2, <1>3, <1>4, <1>5, <1>6, <1>7, <1>8, <1>9, <1>11, <1>12, <1>13, <1>14 DEF Next

\* Type correctness: the rows are composed of versions that files have had, whatever
\* fails, dies or is edited (orchestrator.py, indexed_files.py).
THEOREM TypeCorrect == Spec => []TypeOK
  BY InitType, NextType, PTL DEF Spec

(***************************************************************************)
(* What a run has read, and what changed since.  When no old content comes *)
(* back, a file that changed has a version nobody has seen; when nothing   *)
(* changes before the files are hashed, the hashes are of what was read.   *)
(***************************************************************************)

\* The tree that the rows are being made from.
Base == IF pc = "idle" THEN tree ELSE ctx.seen

\* The stored hash of f is the one of the file as it was read.
Kept(f) == Base[f] # NoFile /\ hashes[f] = Base[f]

Active == {"endpoints", "components", "persistence", "messaging", "overview", "store"}

Moved ==
    \A f \in Files :
        /\ tree[f] <= clock /\ hashes[f] <= clock /\ Base[f] <= clock
        /\ tree[f] \in {Base[f], NoFile} \/ tree[f] # hashes[f]

NewHashes(seen) == [f \in Files |-> IF f \in RelevantFiles(seen) THEN seen[f] ELSE NoFile]

Hashed ==
    /\ pc = "hash" => ctx.seen = tree
    /\ pc \in Active =>
          /\ ctx.new = NewHashes(ctx.seen)
          /\ ctx.changed = {f \in Files : /\ ctx.new[f] # NoFile
                                          /\ ctx.force \/ hashes[f] # ctx.new[f]}

ReadInv == TypeOK /\ Moved /\ Hashed

\* Every relevant file is hashed as it was read.
LEMMA HashSteps ==
    ASSUME ReadInv, HashFiles
    PROVE  /\ pc = "hash" /\ pc' = "endpoints"
           /\ ctx'.seen = ctx.seen /\ ctx'.new = NewHashes(ctx.seen)
           /\ ctx'.changed = {f \in Files : /\ ctx'.new[f] # NoFile
                                            /\ ctx'.force \/ hashes[f] # ctx'.new[f]}
           /\ ctx'.todo = EndpointHints(ctx.seen)
           /\ ctx'.force = ctx.force /\ ctx'.isNew = ctx.isNew
           /\ ctx'.described = ctx.described /\ ctx'.regenerated = ctx.regenerated
           /\ ctx'.failed = ctx.failed /\ ctx'.hadFailure = ctx.hadFailure
           /\ UNCHANGED <<tree, clock, known, hashes, apis, comps, lists, overview, called, settled>>
  BY DEF HashFiles, TypeOK, Contexts, NewHashes, ReadInv, Hashed

\* What every unit of a run leaves alone.
LEMMA UnitSteps ==
    ASSUME TypeOK,
           \/ \E e \in Endpoints : GenerateEndpoint(e)
           \/ PruneApis
           \/ \E c \in Components : GenerateComponent(c)
           \/ PruneComponents
           \/ \E k \in Kinds : ReplaceList(k)
           \/ GenerateOverview
    PROVE  /\ pc \in Active /\ pc' \in Active
           /\ UNCHANGED <<tree, clock, known, hashes, settled>>
           /\ ctx'.seen = ctx.seen /\ ctx'.new = ctx.new /\ ctx'.changed = ctx.changed
           /\ ctx'.force = ctx.force /\ ctx'.isNew = ctx.isNew
           /\ ctx'.described = ctx.described
           /\ ctx.failed \subseteq ctx'.failed
           /\ ctx.hadFailure => ctx'.hadFailure
           /\ ~ctx'.hadFailure => ctx'.failed = ctx.failed
  <1> DEFINE Carries(next) ==
                 /\ next.seen = ctx.seen /\ next.new = ctx.new /\ next.changed = ctx.changed
                 /\ next.force = ctx.force /\ next.isNew = ctx.isNew
                 /\ next.described = ctx.described
                 /\ ctx.failed \subseteq next.failed
                 /\ ctx.hadFailure => next.hadFailure
                 /\ ~next.hadFailure => next.failed = ctx.failed
             Rest == UNCHANGED <<tree, clock, known, hashes, settled>>
  <1>1. ASSUME NEW todo, NEW files
        PROVE  /\ Carries(ctx)
               /\ Carries([ctx EXCEPT !.todo = todo])
               /\ Carries(Failed([ctx EXCEPT !.todo = todo], files))
               /\ Carries(Failed(ctx, files))
               /\ Carries(Regenerated([ctx EXCEPT !.todo = todo]))
    BY DEF TypeOK, Contexts, Failed, Regenerated
  <1> HIDE DEF Carries
  <1>2. ASSUME NEW e \in Endpoints, GenerateEndpoint(e)
        PROVE  Rest /\ Carries(ctx') /\ pc = "endpoints" /\ pc' = "endpoints"
    BY <1>1, <1>2 DEF GenerateEndpoint
  <1>3. ASSUME NEW c \in Components, GenerateComponent(c)
        PROVE  Rest /\ Carries(ctx') /\ pc = "components" /\ pc' = "components"
    BY <1>1, <1>3 DEF GenerateComponent
  <1>4. ASSUME NEW k \in Kinds, ReplaceList(k)
        PROVE  Rest /\ Carries(ctx') /\ pc \in Active /\ pc' \in Active
    BY <1>1, <1>4 DEF ReplaceList, Kinds, Active
  <1>5. ASSUME PruneApis \/ PruneComponents \/ GenerateOverview
        PROVE  Rest /\ Carries(ctx') /\ pc \in Active /\ pc' \in Active
    BY <1>1, <1>5 DEF PruneApis, PruneComponents, GenerateOverview, Active
  <1>6. Rest /\ Carries(ctx') /\ pc \in Active /\ pc' \in Active
    BY <1>2, <1>3, <1>4, <1>5 DEF Active
  <1> QED
    BY <1>6 DEF Carries

\* What ends a run stores the hashes of what was read, or keeps the old ones.
Ending == StoreHashes \/ (\E done \in SUBSET Files : InterruptStore(done)) \/ Crash

LEMMA EndSteps ==
    ASSUME TypeOK, Ending
    PROVE  /\ pc # "idle" /\ pc' = "idle" /\ ctx' = NoContext /\ ~called'
           /\ UNCHANGED <<tree, clock, known, apis, comps, lists, overview>>
           /\ \A f \in Files :
                 \/ hashes'[f] \in {hashes[f], NoFile}
                 \/ /\ pc = "store" /\ f \notin ctx.failed /\ ctx.new[f] # NoFile
                    /\ hashes'[f] = ctx.new[f]
  <1>1. CASE StoreHashes
    BY <1>1 DEF StoreHashes, Ends, StoredHashes
  <1>2. ASSUME NEW done \in SUBSET Files, InterruptStore(done)
        PROVE  /\ pc = "store" /\ pc' = "idle" /\ ctx' = NoContext /\ ~called'
               /\ UNCHANGED <<tree, clock, known, apis, comps, lists, overview>>
               /\ \A f \in Files :
                     \/ hashes'[f] = hashes[f]
                     \/ /\ f \notin ctx.failed /\ ctx.new[f] # NoFile
                        /\ hashes'[f] = ctx.new[f]
    BY <1>2 DEF InterruptStore, Ends, StoredHashes
  <1>3. CASE Crash
    BY <1>3 DEF Crash, Ends
  <1> QED
    BY <1>1, <1>2, <1>3 DEF Ending

LEMMA InitRead == Init => ReadInv
  <1> SUFFICES ASSUME Init PROVE ReadInv
    OBVIOUS
  <1>1. Moved /\ Hashed
    BY DEF Init, Moved, Hashed, Base, Active, NoFile
  <1> QED
    BY <1>1, InitType DEF ReadInv

LEMMA NextRead ==
    ASSUME ~Reverts, ~EditsBeforeHash, ReadInv, [Next]_vars
    PROVE  ReadInv'
  <1>t. TypeOK /\ TypeOK'
    BY NextType DEF ReadInv
  <1>n. /\ clock \in Nat
        /\ \A f \in Files : tree[f] \in Nat /\ hashes[f] \in Nat /\ Base[f] \in Nat
    BY <1>t DEF TypeOK, Trees, Versions, Contexts, NoFile, Base
  <1>u. ASSUME UNCHANGED <<tree, clock, hashes>>, Base' = Base
        PROVE  Moved'
    BY <1>u DEF ReadInv, Moved
  <1> SUFFICES Moved' /\ Hashed'
    BY <1>t DEF ReadInv
  <1> USE DEF Active
  <1>1. ASSUME NEW f \in Files, Edit(f) PROVE Moved' /\ Hashed'
    <2>1. /\ clock' = clock + 1
          /\ tree' = [tree EXCEPT ![f] = clock + 1] \/ tree' = [tree EXCEPT ![f] = NoFile]
          /\ pc # "hash"
          /\ UNCHANGED <<hashes, pc, ctx>>
      BY <1>1 DEF Edit
    <2>2. \A g \in Files : tree'[g] = IF g # f THEN tree[g] ELSE tree'[f]
      BY <2>1, <1>t DEF TypeOK, Trees
    <2>3. tree'[f] \in {clock + 1, NoFile}
      BY <2>1, <1>t DEF TypeOK, Trees
    <2>4. Base' = IF pc = "idle" THEN tree' ELSE Base
      BY <2>1 DEF Base
    <2>5. Moved'
      BY <2>1, <2>2, <2>3, <2>4, <1>n DEF ReadInv, Moved, NoFile
    <2> QED
      BY <2>1, <2>5 DEF ReadInv, Hashed
  <1>2. ASSUME NEW force \in BOOLEAN, BeginRun(force) PROVE Moved' /\ Hashed'
    <2>1. pc = "idle" /\ pc' = "hash" /\ ctx'.seen = tree /\ UNCHANGED <<tree, clock, hashes>>
      BY <1>2, NoContextType DEF BeginRun, Contexts
    <2> QED
      BY <2>1, <1>u DEF Hashed, Base
  <1>3. CASE HashFiles
    BY <1>3, <1>u, HashSteps DEF Hashed, Base
  <1>4. ASSUME \/ \E e \in Endpoints : GenerateEndpoint(e)
               \/ PruneApis
               \/ \E c \in Components : GenerateComponent(c)
               \/ PruneComponents
               \/ \E k \in Kinds : ReplaceList(k)
               \/ GenerateOverview
        PROVE  Moved' /\ Hashed'
    <2>1. Base' = Base
      BY <1>4, <1>t, UnitSteps DEF Base
    <2> QED
      BY <2>1, <1>4, <1>t, <1>u, UnitSteps DEF ReadInv, Hashed
  <1>5. CASE Ending
    <2>1. \A f \in Files : hashes'[f] \in {hashes[f], NoFile, Base[f]}
      BY <1>5, <1>t, EndSteps DEF ReadInv, Hashed, NewHashes, Base
    <2>2. Base' = tree /\ tree' = tree /\ clock' = clock
      BY <1>5, <1>t, EndSteps DEF Base
    <2> QED
      BY <2>1, <2>2, <1>5, <1>t, <1>n, EndSteps DEF ReadInv, Moved, Hashed, NoFile
  <1>6. CASE UNCHANGED vars
    BY <1>6 DEF vars, ReadInv, Moved, Hashed, Base
  <1> QED
    BY <1>1, <1>2, <1>3, <1>4, <1>5, <1>6 DEF Next, Ending

\* A file whose hash is kept after a step had it kept before, or the hash was
\* stored by the step, from what the run read.
LEMMA KeptSteps ==
    ASSUME ~Reverts, ~EditsBeforeHash, ReadInv, [Next]_vars, NEW f \in Files, Kept(f)'
    PROVE  /\ ~Ending => Kept(f) /\ Base'[f] = Base[f]
           /\ Ending => /\ Base'[f] = ctx.seen[f] /\ ctx.seen[f] # NoFile
                        /\ Kept(f) \/ (pc = "store" /\ f \notin ctx.failed)
  <1>t. TypeOK /\ TypeOK' /\ ReadInv'
    BY NextType, NextRead DEF ReadInv
  <1>n. clock \in Nat /\ hashes[f] \in Nat /\ hashes[f] <= clock
    BY <1>t DEF ReadInv, Moved, TypeOK, Trees, Versions, NoFile
  <1> USE DEF Active
  <1>1. ASSUME NEW g \in Files, Edit(g) PROVE Kept(f) /\ Base'[f] = Base[f]
    <2>1. /\ tree' = [tree EXCEPT ![g] = clock + 1] \/ tree' = [tree EXCEPT ![g] = NoFile]
          /\ UNCHANGED <<hashes, pc, ctx>>
      BY <1>1 DEF Edit
    <2>2. tree'[f] # tree[f] => tree'[f] \in {clock + 1, NoFile}
      BY <2>1, <1>t DEF TypeOK, Trees
    <2>3. Base' = IF pc = "idle" THEN tree' ELSE Base
      BY <2>1 DEF Base
    <2> QED
      BY <2>1, <2>2, <2>3, <1>n DEF Kept, Base
  <1>2. ASSUME NEW force \in BOOLEAN, BeginRun(force) PROVE Kept(f) /\ Base'[f] = Base[f]
    <2>1. Base' = Base /\ hashes' = hashes
      BY <1>2, NoContextType DEF BeginRun, Contexts, Base
    <2> QED
      BY <2>1 DEF Kept
  <1>3. ASSUME HashFiles PROVE Kept(f) /\ Base'[f] = Base[f]
    <2>1. Base' = Base /\ hashes' = hashes
      BY <1>3, <1>t, HashSteps DEF Base
    <2> QED
      BY <2>1 DEF Kept
  <1>4. ASSUME \/ \E e \in Endpoints : GenerateEndpoint(e)
               \/ PruneApis
               \/ \E c \in Components : GenerateComponent(c)
               \/ PruneComponents
               \/ \E k \in Kinds : ReplaceList(k)
               \/ GenerateOverview
        PROVE  Kept(f) /\ Base'[f] = Base[f]
    <2>1. Base' = Base /\ hashes' = hashes
      BY <1>4, <1>t, UnitSteps DEF Base
    <2> QED
      BY <2>1 DEF Kept
  <1>5. CASE Ending
    <2>1. /\ pc # "idle" /\ Base' = tree /\ Base = ctx.seen
          /\ hashes'[f] \in {hashes[f], NoFile}
                \/ (/\ pc = "store" /\ f \notin ctx.failed /\ ctx.new[f] # NoFile
                    /\ hashes'[f] = ctx.new[f])
      BY <1>5, <1>t, EndSteps DEF Base
    <2>2. pc = "store" /\ ctx.new[f] # NoFile => ctx.new[f] = ctx.seen[f]
      BY DEF ReadInv, Hashed, NewHashes
    <2>3. tree[f] = hashes'[f] /\ tree[f] # NoFile
      BY <2>1 DEF Kept
    <2>4. tree[f] \in {ctx.seen[f], NoFile} \/ tree[f] # hashes[f]
      BY <2>1 DEF ReadInv, Moved
    <2> QED
      BY <1>5, <2>1, <2>2, <2>3, <2>4 DEF Kept
  <1>6. CASE UNCHANGED vars
    <2>1. Base' = Base /\ hashes' = hashes
      BY <1>6 DEF vars, Base
    <2>2. Ending => pc # "idle" /\ pc' = "idle"
      BY <1>t, EndSteps
    <2> QED
      BY <2>1, <2>2, <1>6 DEF Kept, vars
  <1>7. Ending => pc # "idle" /\ pc' = "idle"
    BY <1>t, EndSteps
  <1> QED
    BY <1>1, <1>2, <1>3, <1>4, <1>5, <1>6, <1>7 DEF Next, Ending

\* Nothing that a unit reads has changed: its files are as hashed.
LEMMA UntouchedFiles ==
    ASSUME ReadInv, pc \in Active, ~ctx.force,
           NEW files \in SUBSET (Files \cap RelevantFiles(ctx.seen)), ~Touches(files),
           NEW f \in files, ctx.seen[f] # NoFile
    PROVE  Kept(f)
  <1>1. ctx.new[f] = ctx.seen[f] /\ f \notin ctx.changed
    BY DEF ReadInv, Hashed, NewHashes, Touches
  <1> QED
    BY <1>1 DEF ReadInv, Hashed, Kept, Base, Active

(***************************************************************************)
(* Rows of endpoints                                                       *)
(***************************************************************************)

\* Where the excerpts of an endpoint may come from.
Sources(e) == {RouteFile[e]} \cup ExtraFiles[e]

\* The row was made from this content of f.
Says(row, f, now) == f \in DOMAIN row /\ row[f] = now[f]

ApiCurrent(e) ==
    Kept(RouteFile[e]) =>
        /\ apis[e] # Nothing
        /\ \A f \in Sources(e) : Kept(f) => Says(apis[e], f, Base)

\* The run has failed on endpoint e, or its row says what the run read.
EndpointDone(e) ==
    LET files == DependencyFiles(e, ctx.seen)
    IN  \/ files \subseteq ctx.failed
        \/ apis[e] # Nothing /\ \A f \in files : Says(apis[e], f, ctx.seen)

EndpointsDone ==
    /\ pc = "endpoints" => \A e \in EndpointHints(ctx.seen) \ ctx.todo : EndpointDone(e)
    /\ pc \in Active \ {"endpoints"} => \A e \in EndpointHints(ctx.seen) : EndpointDone(e)

ApiInv == ReadInv /\ (\A e \in Endpoints : ApiCurrent(e)) /\ EndpointsDone

\* The files a unit reads are hashed by its run.
LEMMA UnitRelevant ==
    ASSUME NEW seen \in Trees
    PROVE  /\ \A e \in EndpointHints(seen) :
                 /\ DependencyFiles(e, seen) \in SUBSET (Files \cap RelevantFiles(seen))
                 /\ RouteFile[e] \in DependencyFiles(e, seen)
                 /\ DependencyFiles(e, seen) = {f \in Sources(e) : seen[f] # NoFile}
           /\ \A c \in Components :
                 GroupFiles(c, seen) \in SUBSET (Files \cap RelevantFiles(seen))
           /\ \A k \in Kinds :
                 /\ KindFiles(k, seen) \in SUBSET (Files \cap RelevantFiles(seen))
                 /\ KindFiles(k, seen) = {f \in HintFiles[k] : seen[f] # NoFile}
           /\ EntryFiles(seen) \in SUBSET (Files \cap RelevantFiles(seen))
  <1>r. \A f : f \in RelevantFiles(seen) <=>
                  \/ f \in EntryFiles(seen)
                  \/ \E k \in Kinds : f \in KindFiles(k, seen)
                  \/ \E e \in EndpointHints(seen) : f \in DependencyFiles(e, seen)
    BY DEF RelevantFiles
  <1>1. \A e \in EndpointHints(seen) :
           /\ DependencyFiles(e, seen) \in SUBSET (Files \cap RelevantFiles(seen))
           /\ RouteFile[e] \in DependencyFiles(e, seen)
           /\ DependencyFiles(e, seen) = {f \in Sources(e) : seen[f] # NoFile}
    <2> TAKE e \in EndpointHints(seen)
    <2>1. e \in Endpoints /\ seen[RouteFile[e]] # NoFile
      BY DEF EndpointHints
    <2>2. DependencyFiles(e, seen) = {f \in Sources(e) : seen[f] # NoFile}
      BY DEF DependencyFiles, Present, Sources
    <2> QED
      BY <1>r, <2>1, <2>2, UnitFiles DEF Sources
  <1>2. \A c \in Components : GroupFiles(c, seen) \in SUBSET (Files \cap RelevantFiles(seen))
    BY <1>1 DEF GroupFiles, Group
  <1>3. \A k \in Kinds : /\ KindFiles(k, seen) \in SUBSET (Files \cap RelevantFiles(seen))
                         /\ KindFiles(k, seen) = {f \in HintFiles[k] : seen[f] # NoFile}
    <2> TAKE k \in Kinds
    <2>1. KindFiles(k, seen) \subseteq RelevantFiles(seen)
      BY <1>r
    <2> QED
      BY <2>1, UnitFiles DEF KindFiles, Present
  <1>4. EntryFiles(seen) \in SUBSET (Files \cap RelevantFiles(seen))
    BY <1>r, UnitFiles
  <1> QED
    BY <1>1, <1>2, <1>3, <1>4

\* The endpoints when the run starts, goes on elsewhere, or ends.
LEMMA ApisElsewhere ==
    ASSUME ~Reverts, ~EditsBeforeHash, ApiInv, [Next]_vars, ~Ending, apis' = apis,
           NEW e \in Endpoints
    PROVE  ApiCurrent(e)'
  <1>1. \A f \in Files : Kept(f)' => Kept(f) /\ Base'[f] = Base[f]
    BY KeptSteps DEF ApiInv
  <1>2. Sources(e) \subseteq Files
    BY TreeAssumption DEF Sources
  <1> QED
    BY <1>1, <1>2 DEF ApiInv, ApiCurrent, Says, Sources

LEMMA ApisAtEnd ==
    ASSUME ~Reverts, ~EditsBeforeHash, ApiInv, [Next]_vars, Ending, NEW e \in Endpoints
    PROVE  ApiCurrent(e)'
  <1>1. \A f \in Files : Kept(f)' => /\ Base'[f] = ctx.seen[f] /\ ctx.seen[f] # NoFile
                                     /\ Kept(f) \/ (pc = "store" /\ f \notin ctx.failed)
    BY KeptSteps DEF ApiInv
  <1>2. /\ Sources(e) \subseteq Files /\ RouteFile[e] \in Sources(e)
        /\ apis' = apis /\ Base = ctx.seen /\ ctx.seen \in Trees
    BY EndSteps, TreeAssumption DEF Sources, ApiInv, ReadInv, Base, TypeOK, Contexts
  <1> SUFFICES ASSUME Kept(RouteFile[e])'
               PROVE  /\ apis[e] # Nothing
                      /\ \A f \in Sources(e) : Kept(f)' => Says(apis[e], f, Base')
    BY <1>2 DEF ApiCurrent
  <1>3. e \in EndpointHints(ctx.seen)
    BY <1>1, <1>2 DEF EndpointHints
  <1>4. CASE pc = "store" /\ ~(DependencyFiles(e, ctx.seen) \subseteq ctx.failed)
    <2>1. /\ apis[e] # Nothing
          /\ \A f \in DependencyFiles(e, ctx.seen) : Says(apis[e], f, ctx.seen)
      BY <1>3, <1>4 DEF ApiInv, EndpointsDone, EndpointDone, Active
    <2> QED
      BY <1>1, <1>2, <1>3, <2>1, UnitRelevant DEF Says
  <1>5. CASE pc # "store" \/ DependencyFiles(e, ctx.seen) \subseteq ctx.failed
    <2>1. \A f \in Sources(e) : Kept(f)' => Kept(f)
      BY <1>1, <1>2, <1>3, <1>5, UnitRelevant
    <2> QED
      BY <1>1, <1>2, <2>1 DEF ApiInv, ApiCurrent, Says
  <1> QED
    BY <1>4, <1>5

LEMMA NextApi ==
    ASSUME ~Reverts, ~EditsBeforeHash, ApiInv, [Next]_vars
    PROVE  ApiInv'
  <1>t. TypeOK /\ TypeOK' /\ ReadInv /\ ReadInv' /\ ctx.seen \in Trees
    BY NextType, NextRead DEF ApiInv, ReadInv, TypeOK, Contexts
  <1>k. ~Ending => \A f \in Files : Kept(f)' => Kept(f) /\ Base'[f] = Base[f]
    BY KeptSteps DEF ApiInv
  <1> SUFFICES (\A e \in Endpoints : ApiCurrent(e)') /\ EndpointsDone'
    BY <1>t DEF ApiInv
  <1>1. ASSUME NEW f \in Files, Edit(f)
        PROVE  (\A e \in Endpoints : ApiCurrent(e)') /\ EndpointsDone'
    <2>1. ~Ending /\ UNCHANGED <<apis, pc, ctx>>
      BY <1>1, <1>t, EndSteps DEF Edit
    <2> QED
      BY <2>1, ApisElsewhere DEF ApiInv, EndpointsDone, EndpointDone
  <1>2. ASSUME NEW force \in BOOLEAN, BeginRun(force)
        PROVE  (\A e \in Endpoints : ApiCurrent(e)') /\ EndpointsDone'
    <2>1. ~Ending /\ apis' = apis /\ pc' = "hash"
      BY <1>2, <1>t, EndSteps DEF BeginRun
    <2> QED
      BY <2>1, ApisElsewhere DEF EndpointsDone, Active
  <1>3. ASSUME HashFiles
        PROVE  (\A e \in Endpoints : ApiCurrent(e)') /\ EndpointsDone'
    <2>1. ~Ending /\ apis' = apis /\ pc' = "endpoints" /\ ctx'.todo = EndpointHints(ctx'.seen)
      BY <1>3, <1>t, EndSteps, HashSteps
    <2> QED
      BY <2>1, ApisElsewhere DEF EndpointsDone
  <1>4. ASSUME NEW e \in Endpoints, GenerateEndpoint(e)
        PROVE  (\A d \in Endpoints : ApiCurrent(d)') /\ EndpointsDone'
    <2>1. /\ pc = "endpoints" /\ pc' = "endpoints" /\ ctx'.todo = ctx.todo \ {e}
          /\ ctx'.seen = ctx.seen /\ ctx.failed \subseteq ctx'.failed
          /\ Base' = Base /\ Base = ctx.seen /\ hashes' = hashes
          /\ \A f \in Files : Kept(f)' <=> Kept(f)
      <3>1. ctx'.todo = ctx.todo \ {e}
        BY <1>4, <1>t DEF GenerateEndpoint, Failed, Regenerated, TypeOK, Contexts
      <3> QED
        BY <1>4, <1>t, <3>1, UnitSteps DEF GenerateEndpoint, Base, Kept
    <2>2. \A d \in Endpoints \ {e} : apis'[d] = apis[d]
      BY <1>4, <1>t DEF GenerateEndpoint, TypeOK
    <2>3. /\ Sources(e) \subseteq Files /\ RouteFile[e] \in Sources(e)
          /\ \A d \in Endpoints : Sources(d) \subseteq Files /\ RouteFile[d] \in Sources(d)
      BY TreeAssumption DEF Sources
    <2>4. \A d \in Endpoints \ {e} : ApiCurrent(d)' /\ (EndpointDone(d) => EndpointDone(d)')
      BY <2>1, <2>2, <2>3 DEF ApiInv, ApiCurrent, EndpointDone
    <2>8. ASSUME ApiCurrent(e)', e \in EndpointHints(ctx.seen) => EndpointDone(e)'
          PROVE  (\A d \in Endpoints : ApiCurrent(d)') /\ EndpointsDone'
      <3>1. \A d \in EndpointHints(ctx.seen) \ ctx'.todo :
               d \in Endpoints /\ (d = e \/ d \notin ctx.todo)
        BY <2>1 DEF EndpointHints
      <3>2. \A d \in EndpointHints(ctx.seen) \ ctx'.todo : EndpointDone(d)'
        BY <2>1, <2>4, <2>8, <3>1 DEF ApiInv, EndpointsDone
      <3> QED
        BY <2>1, <2>4, <2>8, <3>2 DEF EndpointsDone
    <2>5. CASE ~EndpointDue(e)
      <3>1. apis' = apis
        BY <1>4, <2>5 DEF GenerateEndpoint
      <3>2. ApiCurrent(e)'
        BY <2>1, <2>3, <3>1 DEF ApiInv, ApiCurrent
      <3>3. ASSUME e \in EndpointHints(ctx.seen) PROVE EndpointDone(e)
        <4>1. \A f \in DependencyFiles(e, ctx.seen) : Kept(f)
          BY <1>t, <2>1, <2>5, <3>3, UnitRelevant, UntouchedFiles DEF EndpointDue, Active
        <4> QED
          BY <1>t, <2>1, <3>3, <4>1, UnitRelevant DEF ApiInv, ApiCurrent, EndpointDone
      <3>4. e \in EndpointHints(ctx.seen) => EndpointDone(e)'
        BY <2>1, <3>1, <3>3 DEF EndpointDone
      <3> QED
        BY <2>8, <3>2, <3>4
    <2>6. CASE apis' = [apis EXCEPT ![e] = Excerpts(DependencyFiles(e, ctx.seen), ctx.seen)]
      <3>1. /\ apis'[e] = Excerpts(DependencyFiles(e, ctx.seen), ctx.seen)
            /\ apis'[e] # Nothing
        BY <1>t, <2>6, UnitExcerptsType, TreeAssumption DEF TypeOK
      <3>2. \A f \in DependencyFiles(e, ctx.seen) : Says(apis'[e], f, ctx.seen)
        BY <3>1 DEF Says, Excerpts
      <3>3. EndpointDone(e)'
        BY <2>1, <3>1, <3>2 DEF EndpointDone
      <3>4. ApiCurrent(e)'
        <4>1. \A f \in Sources(e) : Kept(f) => f \in DependencyFiles(e, ctx.seen)
          BY <2>1 DEF Kept, DependencyFiles, Present, Sources
        <4> QED
          BY <2>1, <2>3, <3>1, <3>2, <4>1 DEF ApiCurrent
      <3> QED
        BY <2>8, <3>3, <3>4
    <2>7. CASE /\ apis' = apis
               /\ ctx' = Failed([ctx EXCEPT !.todo = @ \ {e}], DependencyFiles(e, ctx.seen))
      <3>1. DependencyFiles(e, ctx.seen) \subseteq ctx'.failed
        BY <1>t, <2>7 DEF Failed, TypeOK, Contexts
      <3>2. ApiCurrent(e)' /\ EndpointDone(e)'
        BY <2>1, <2>3, <2>7, <3>1 DEF ApiInv, ApiCurrent, EndpointDone
      <3> QED
        BY <2>8, <3>2
    <2> QED
      BY <1>4, <2>5, <2>6, <2>7 DEF GenerateEndpoint
  <1>5. ASSUME PruneApis
        PROVE  (\A e \in Endpoints : ApiCurrent(e)') /\ EndpointsDone'
    <2>1. /\ pc = "endpoints" /\ pc' = "components" /\ ctx.todo = {}
          /\ ctx'.seen = ctx.seen /\ ctx.failed \subseteq ctx'.failed
          /\ Base' = Base /\ Base = ctx.seen
          /\ \A f \in Files : Kept(f)' <=> Kept(f)
      BY <1>5, <1>t, UnitSteps DEF PruneApis, Base, Kept
    <2>2. \A e \in EndpointHints(ctx.seen) : apis'[e] = apis[e] /\ e \in Endpoints
      BY <1>5 DEF PruneApis, EndpointHints
    <2>3. \A e \in Endpoints : Sources(e) \subseteq Files /\ RouteFile[e] \in Sources(e)
      BY TreeAssumption DEF Sources
    <2>4. \A e \in EndpointHints(ctx.seen) : ApiCurrent(e)' /\ EndpointDone(e)'
      BY <2>1, <2>2, <2>3 DEF ApiInv, ApiCurrent, EndpointDone, EndpointsDone
    <2>5. \A e \in Endpoints \ EndpointHints(ctx.seen) : ApiCurrent(e)'
      BY <2>1, <2>3 DEF ApiCurrent, Kept, EndpointHints
    <2> QED
      BY <2>1, <2>4, <2>5 DEF EndpointsDone
  <1>6. ASSUME \/ \E c \in Components : GenerateComponent(c)
               \/ PruneComponents
               \/ \E k \in Kinds : ReplaceList(k)
               \/ GenerateOverview
        PROVE  (\A e \in Endpoints : ApiCurrent(e)') /\ EndpointsDone'
    <2>1. /\ apis' = apis /\ pc \in Active \ {"endpoints"} /\ pc' \in Active \ {"endpoints"}
          /\ ctx'.seen = ctx.seen /\ ctx.failed \subseteq ctx'.failed
      <3>1. pc \in Active /\ pc' \in Active /\ ctx'.seen = ctx.seen /\ ctx.failed \subseteq ctx'.failed
        BY <1>6, <1>t, UnitSteps
      <3> QED
        BY <1>6, <3>1
        DEF GenerateComponent, PruneComponents, ReplaceList, GenerateOverview, Kinds
    <2>2. ~Ending
      BY <2>1, <1>t, EndSteps DEF Active
    <2> QED
      BY <2>1, <2>2, ApisElsewhere DEF ApiInv, EndpointsDone, EndpointDone
  <1>7. ASSUME Ending
        PROVE  (\A e \in Endpoints : ApiCurrent(e)') /\ EndpointsDone'
    BY <1>7, <1>t, ApisAtEnd, EndSteps DEF EndpointsDone, Active
  <1>8. ASSUME UNCHANGED vars
        PROVE  (\A e \in Endpoints : ApiCurrent(e)') /\ EndpointsDone'
    <2>1. ~Ending /\ UNCHANGED <<apis, pc, ctx>>
      BY <1>8, <1>t, EndSteps DEF vars
    <2> QED
      BY <2>1, ApisElsewhere DEF ApiInv, EndpointsDone, EndpointDone
  <1> QED
    BY <1>1, <1>2, <1>3, <1>4, <1>5, <1>6, <1>7, <1>8 DEF Next, Ending

(***************************************************************************)
(* Summaries of components.  Whatever key they are stored under, since a   *)
(* key that the groups no longer have is pruned before hashes are stored.  *)
(***************************************************************************)

Summary(c, F) == comps[<<c, F>>]

ComponentCurrent(e, F) ==
    Summary(ComponentOf[e], F) # Nothing /\ Kept(RouteFile[e]) =>
        /\ e \in DOMAIN Summary(ComponentOf[e], F)
        /\ \A f \in Sources(e) : Kept(f) => Says(Summary(ComponentOf[e], F)[e], f, Base)

\* The summary of e says what the run read, unless the run failed on e.
SummaryDone(e, F) ==
    LET row == Summary(ComponentOf[e], F)
        files == DependencyFiles(e, ctx.seen)
    IN  \/ row = Nothing
        \/ files \subseteq ctx.failed
        \/ e \in DOMAIN row /\ \A f \in files : Says(row[e], f, ctx.seen)

ComponentDone(c) ==
    \A F \in Files : ComponentKey(c, ctx.seen) = <<c, F>> =>
        \A e \in Group(c, ctx.seen) : SummaryDone(e, F)

Pruned ==
    \A c \in Components, F \in Files :
        Summary(c, F) # Nothing =>
            c \in ComponentGroups(ctx.seen) /\ ComponentKey(c, ctx.seen) = <<c, F>>

AfterComponents == {"persistence", "messaging", "overview", "store"}

ComponentsDone ==
    /\ pc = "components" =>
          \A c \in ComponentGroups(ctx.seen) \ ctx.todo : ComponentDone(c)
    /\ pc \in AfterComponents =>
          Pruned /\ \A c \in ComponentGroups(ctx.seen) : ComponentDone(c)

ComponentInv ==
    /\ ApiInv
    /\ \A e \in Endpoints, F \in Files : ComponentCurrent(e, F)
    /\ ComponentsDone

LEMMA ComponentsElsewhere ==
    ASSUME ~Reverts, ~EditsBeforeHash, ComponentInv, [Next]_vars, ~Ending, comps' = comps,
           NEW e \in Endpoints, NEW F \in Files
    PROVE  ComponentCurrent(e, F)'
  <1>1. \A f \in Files : Kept(f)' => Kept(f) /\ Base'[f] = Base[f]
    BY KeptSteps DEF ComponentInv, ApiInv
  <1>2. Sources(e) \subseteq Files /\ RouteFile[e] \in Sources(e)
    BY TreeAssumption DEF Sources
  <1>3. ComponentCurrent(e, F) /\ Summary(ComponentOf[e], F)' = Summary(ComponentOf[e], F)
    BY DEF ComponentInv, Summary
  <1> QED
    BY <1>1, <1>2, <1>3 DEF ComponentCurrent, Says

LEMMA ComponentsAtEnd ==
    ASSUME ~Reverts, ~EditsBeforeHash, ComponentInv, [Next]_vars, Ending,
           NEW e \in Endpoints, NEW F \in Files
    PROVE  ComponentCurrent(e, F)'
  <1>1. \A f \in Files : Kept(f)' => /\ Base'[f] = ctx.seen[f] /\ ctx.seen[f] # NoFile
                                     /\ Kept(f) \/ (pc = "store" /\ f \notin ctx.failed)
    BY KeptSteps DEF ComponentInv, ApiInv
  <1>2. /\ Sources(e) \subseteq Files /\ RouteFile[e] \in Sources(e)
        /\ comps' = comps /\ Base = ctx.seen /\ ctx.seen \in Trees
        /\ ComponentOf[e] \in Components
    BY EndSteps, TreeAssumption
    DEF Sources, ComponentInv, ApiInv, ReadInv, Base, TypeOK, Contexts
  <1> DEFINE row == Summary(ComponentOf[e], F)
  <1>3. Summary(ComponentOf[e], F)' = row
    BY <1>2 DEF Summary
  <1> SUFFICES ASSUME row # Nothing, Kept(RouteFile[e])'
               PROVE  /\ e \in DOMAIN row
                      /\ \A f \in Sources(e) : Kept(f)' => Says(row[e], f, Base')
    BY <1>2, <1>3 DEF ComponentCurrent
  <1> HIDE DEF row
  <1>4. e \in EndpointHints(ctx.seen) /\ e \in Group(ComponentOf[e], ctx.seen)
    BY <1>1, <1>2 DEF EndpointHints, Group
  <1>5. CASE pc = "store" /\ ~(DependencyFiles(e, ctx.seen) \subseteq ctx.failed)
    <2>1. ComponentKey(ComponentOf[e], ctx.seen) = <<ComponentOf[e], F>>
      BY <1>2, <1>5 DEF ComponentInv, ComponentsDone, Pruned, AfterComponents, row
    <2>2. ComponentOf[e] \in ComponentGroups(ctx.seen)
      BY <1>2, <1>4 DEF ComponentGroups
    <2>3. SummaryDone(e, F)
      BY <1>4, <1>5, <2>1, <2>2 DEF ComponentInv, ComponentsDone, ComponentDone, AfterComponents
    <2>4. /\ e \in DOMAIN row
          /\ \A f \in DependencyFiles(e, ctx.seen) : Says(row[e], f, ctx.seen)
      BY <1>5, <2>3 DEF SummaryDone, row
    <2> QED
      BY <1>1, <1>2, <1>4, <2>4, UnitRelevant DEF Says
  <1>6. CASE pc # "store" \/ DependencyFiles(e, ctx.seen) \subseteq ctx.failed
    <2>1. \A f \in Sources(e) : Kept(f)' => Kept(f)
      BY <1>1, <1>2, <1>4, <1>6, UnitRelevant
    <2>2. /\ e \in DOMAIN row
          /\ \A f \in Sources(e) : Kept(f) => Says(row[e], f, Base)
      BY <1>2, <2>1 DEF ComponentInv, ComponentCurrent, row
    <2> QED
      BY <1>1, <1>2, <2>1, <2>2 DEF Says
  <1> QED
    BY <1>5, <1>6

\* What a summary composed now says of an endpoint of its group.
LEMMA GroupSummariesSay ==
    ASSUME ApiInv, pc = "components", NEW c \in Components, NEW e \in Group(c, ctx.seen)
    PROVE  /\ Kept(RouteFile[e]) =>
                 /\ e \in DOMAIN GroupSummaries(c)
                 /\ \A f \in Sources(e) : Kept(f) => Says(GroupSummaries(c)[e], f, Base)
           /\ \/ DependencyFiles(e, ctx.seen) \subseteq ctx.failed
              \/ /\ e \in DOMAIN GroupSummaries(c)
                 /\ \A f \in DependencyFiles(e, ctx.seen) :
                       Says(GroupSummaries(c)[e], f, ctx.seen)
  <1>1. e \in EndpointHints(ctx.seen) /\ e \in Endpoints
    BY DEF Group, EndpointHints
  <1>2. apis[e] # Nothing => e \in DOMAIN GroupSummaries(c) /\ GroupSummaries(c)[e] = apis[e]
    BY DEF GroupSummaries
  <1>3. ApiCurrent(e) /\ EndpointDone(e)
    BY <1>1 DEF ApiInv, EndpointsDone, Active
  <1> QED
    BY <1>2, <1>3 DEF ApiCurrent, EndpointDone

LEMMA NextComponent ==
    ASSUME ~Reverts, ~EditsBeforeHash, ComponentInv, [Next]_vars
    PROVE  ComponentInv'
  <1>t. TypeOK /\ TypeOK' /\ ReadInv /\ ReadInv' /\ ApiInv /\ ApiInv' /\ ctx.seen \in Trees
    BY NextType, NextApi DEF ComponentInv, ApiInv, ReadInv, TypeOK, Contexts
  <1> DEFINE Goal == /\ \A e \in Endpoints, F \in Files : ComponentCurrent(e, F)'
                     /\ ComponentsDone'
  <1> SUFFICES Goal
    BY <1>t DEF ComponentInv
  <1>s. \A e \in Endpoints : /\ Sources(e) \subseteq Files /\ RouteFile[e] \in Sources(e)
                             /\ ComponentOf[e] \in Components
    BY TreeAssumption DEF Sources
  <1>1. ASSUME NEW f \in Files, Edit(f) PROVE Goal
    <2>1. ~Ending /\ UNCHANGED <<comps, pc, ctx>>
      BY <1>1, <1>t, EndSteps DEF Edit
    <2> QED
      BY <2>1, ComponentsElsewhere
      DEF ComponentInv, ComponentsDone, ComponentDone, SummaryDone, Pruned, Summary
  <1>2. ASSUME NEW force \in BOOLEAN, BeginRun(force) PROVE Goal
    <2>1. ~Ending /\ comps' = comps /\ pc' = "hash"
      BY <1>2, <1>t, EndSteps DEF BeginRun
    <2> QED
      BY <2>1, ComponentsElsewhere DEF ComponentsDone, AfterComponents
  <1>3. ASSUME HashFiles PROVE Goal
    <2>1. ~Ending /\ comps' = comps /\ pc' = "endpoints"
      BY <1>3, <1>t, EndSteps, HashSteps
    <2> QED
      BY <2>1, ComponentsElsewhere DEF ComponentsDone, AfterComponents
  <1>4. ASSUME NEW e \in Endpoints, GenerateEndpoint(e) PROVE Goal
    <2>1. ~Ending /\ comps' = comps /\ pc' = "endpoints"
      BY <1>4, <1>t, EndSteps DEF GenerateEndpoint
    <2> QED
      BY <2>1, ComponentsElsewhere DEF ComponentsDone, AfterComponents
  <1>5. ASSUME PruneApis PROVE Goal
    <2>1. /\ ~Ending /\ comps' = comps /\ pc' = "components"
          /\ ctx'.seen = ctx.seen /\ ctx'.todo = ComponentGroups(ctx.seen)
      BY <1>5, <1>t, EndSteps DEF PruneApis, TypeOK, Contexts
    <2> QED
      BY <2>1, ComponentsElsewhere DEF ComponentsDone, AfterComponents
  <1>6. ASSUME NEW c \in Components, GenerateComponent(c) PROVE Goal
    <2>1. /\ pc = "components" /\ pc' = "components" /\ ctx'.todo = ctx.todo \ {c}
          /\ ctx'.seen = ctx.seen /\ ctx.failed \subseteq ctx'.failed
          /\ Base' = Base /\ Base = ctx.seen /\ hashes' = hashes
          /\ \A f \in Files : Kept(f)' <=> Kept(f)
      <3>1. ctx'.todo = ctx.todo \ {c}
        BY <1>6, <1>t DEF GenerateComponent, Failed, Regenerated, TypeOK, Contexts
      <3> QED
        BY <1>6, <1>t, <3>1, UnitSteps DEF GenerateComponent, Base, Kept
    <2>2. \A d \in Components, F \in Files :
             <<d, F>> # ComponentKey(c, ctx.seen) => Summary(d, F)' = Summary(d, F)
      BY <1>6, <1>t DEF GenerateComponent, TypeOK, Summary
    <2>3. ASSUME NEW e \in Endpoints, NEW F \in Files,
                 Summary(ComponentOf[e], F)' = Summary(ComponentOf[e], F)
          PROVE  ComponentCurrent(e, F)' /\ (SummaryDone(e, F) => SummaryDone(e, F)')
      <3>1. ComponentCurrent(e, F)
        BY DEF ComponentInv
      <3> QED
        BY <1>s, <2>1, <2>3, <3>1 DEF ComponentCurrent, SummaryDone
    <2>4. \A d \in Components : ComponentKey(d, ctx.seen)[1] = d
      BY DEF ComponentKey
    <2>5. \A d \in Components : \A e \in Group(d, ctx.seen) :
             e \in Endpoints /\ ComponentOf[e] = d /\ e \in EndpointHints(ctx.seen)
      BY DEF Group, EndpointHints
    <2>6. ASSUME NEW d \in (ComponentGroups(ctx.seen) \ ctx'.todo) \ {c} PROVE ComponentDone(d)'
      <3>1. ComponentDone(d) /\ d \in Components
        BY <2>1, <2>6 DEF ComponentInv, ComponentsDone, ComponentGroups
      <3>2. \A F \in Files : Summary(d, F)' = Summary(d, F)
        BY <2>2, <2>4, <2>6, <3>1 DEF ComponentKey
      <3> QED
        BY <2>1, <2>3, <2>5, <3>1, <3>2 DEF ComponentDone
    <2>7. ASSUME ComponentDone(c)',
                 \A e \in Endpoints, F \in Files : ComponentCurrent(e, F)'
          PROVE  Goal
      BY <2>1, <2>6, <2>7 DEF ComponentsDone, AfterComponents
    <2>8. CASE /\ comps' = comps
               /\ \/ ~ComponentDue(c)
                  \/ ctx' = Failed([ctx EXCEPT !.todo = @ \ {c}], GroupFiles(c, ctx.seen))
      <3>1. \A e \in Endpoints, F \in Files :
               ComponentCurrent(e, F)' /\ (SummaryDone(e, F) => SummaryDone(e, F)')
        BY <2>3, <2>8 DEF Summary
      <3>2. CASE ~ComponentDue(c)
        <4>1. \A f \in GroupFiles(c, ctx.seen) : ctx.seen[f] # NoFile => Kept(f)
          BY <1>t, <2>1, <3>2, UnitRelevant, UntouchedFiles DEF ComponentDue, Active
        <4>2. ASSUME NEW e \in Group(c, ctx.seen), NEW F \in Files PROVE SummaryDone(e, F)
          <5>1. \A f \in DependencyFiles(e, ctx.seen) : Kept(f)
            BY <1>t, <2>5, <4>1, UnitRelevant DEF GroupFiles
          <5>2. RouteFile[e] \in DependencyFiles(e, ctx.seen)
                /\ DependencyFiles(e, ctx.seen) \subseteq Sources(e)
            BY <1>t, <2>5, UnitRelevant
          <5>3. ComponentCurrent(e, F)
            BY <2>5 DEF ComponentInv
          <5> QED
            BY <2>1, <5>1, <5>2, <5>3 DEF ComponentCurrent, SummaryDone
        <4> QED
          BY <2>1, <2>5, <2>7, <3>1, <4>2 DEF ComponentDone
      <3>3. CASE ctx' = Failed([ctx EXCEPT !.todo = @ \ {c}], GroupFiles(c, ctx.seen))
        <4>1. \A e \in Group(c, ctx.seen) : DependencyFiles(e, ctx.seen) \subseteq ctx'.failed
          <5>1. GroupFiles(c, ctx.seen) \subseteq ctx'.failed
            BY <1>t, <3>3 DEF Failed, TypeOK, Contexts
          <5> QED
            BY <5>1 DEF GroupFiles
        <4> QED
          BY <2>1, <2>7, <3>1, <4>1 DEF ComponentDone, SummaryDone
      <3> QED
        BY <2>8, <3>2, <3>3
    <2>9. CASE comps' = [comps EXCEPT ![ComponentKey(c, ctx.seen)] = GroupSummaries(c)]
      <3>1. \A F \in Files : ComponentKey(c, ctx.seen) = <<c, F>> =>
                                 Summary(c, F)' = GroupSummaries(c)
        BY <1>t, <2>9 DEF TypeOK, Summary
      <3>2. ASSUME NEW e \in Endpoints, NEW F \in Files,
                   ComponentKey(c, ctx.seen) = <<ComponentOf[e], F>>
            PROVE  ComponentCurrent(e, F)'
        <4>1. ComponentOf[e] = c /\ Summary(c, F)' = GroupSummaries(c)
          BY <2>4, <3>1, <3>2 DEF ComponentKey
        <4>2. Kept(RouteFile[e]) => e \in Group(c, ctx.seen)
          BY <2>1, <4>1 DEF Kept, Group, EndpointHints
        <4> QED
          BY <1>s, <1>t, <2>1, <4>1, <4>2, GroupSummariesSay DEF ComponentCurrent
      <3>3. \A e \in Endpoints, F \in Files : ComponentCurrent(e, F)'
        BY <1>s, <2>2, <2>3, <3>2
      <3>4. ComponentDone(c)'
        BY <1>t, <2>1, <2>5, <3>1, GroupSummariesSay DEF ComponentDone, SummaryDone
      <3> QED
        BY <2>7, <3>3, <3>4
    <2> QED
      BY <1>6, <2>8, <2>9 DEF GenerateComponent
  <1>7. ASSUME PruneComponents PROVE Goal
    <2>1. /\ pc = "components" /\ pc' = "persistence" /\ ctx.todo = {} /\ ctx' = ctx
          /\ Base' = Base /\ \A f \in Files : Kept(f)' <=> Kept(f)
      BY <1>7 DEF PruneComponents, Base, Kept
    <2>2. \A c \in Components, F \in Files :
             Summary(c, F)' # Nothing =>
                 /\ Summary(c, F)' = Summary(c, F)
                 /\ \E d \in ComponentGroups(ctx.seen) : <<c, F>> = ComponentKey(d, ctx.seen)
      BY <1>7 DEF PruneComponents, Summary
    <2>3. Pruned'
      BY <2>1, <2>2 DEF Pruned, ComponentKey
    <2>4. \A e \in Endpoints, F \in Files :
             ComponentCurrent(e, F)' /\ (SummaryDone(e, F) => SummaryDone(e, F)')
      BY <1>s, <2>1, <2>2 DEF ComponentInv, ComponentCurrent, SummaryDone
    <2>5. \A c \in ComponentGroups(ctx.seen) : ComponentDone(c)'
      BY <2>1, <2>4 DEF ComponentInv, ComponentsDone, ComponentDone, Group, EndpointHints
    <2> QED
      BY <2>1, <2>3, <2>4, <2>5 DEF ComponentsDone
  <1>8. ASSUME (\E k \in Kinds : ReplaceList(k)) \/ GenerateOverview PROVE Goal
    <2>1. /\ comps' = comps /\ pc \in AfterComponents /\ pc' \in AfterComponents
          /\ ctx'.seen = ctx.seen /\ ctx.failed \subseteq ctx'.failed
      <3>1. ctx'.seen = ctx.seen /\ ctx.failed \subseteq ctx'.failed
        BY <1>8, <1>t, UnitSteps
      <3> QED
        BY <1>8, <3>1 DEF ReplaceList, GenerateOverview, Kinds, AfterComponents
    <2>2. ~Ending
      BY <2>1, <1>t, EndSteps DEF AfterComponents
    <2> QED
      BY <2>1, <2>2, ComponentsElsewhere
      DEF ComponentInv, ComponentsDone, ComponentDone, SummaryDone, Pruned, Summary,
          AfterComponents
  <1>9. ASSUME Ending PROVE Goal
    BY <1>9, <1>t, ComponentsAtEnd, EndSteps DEF ComponentsDone, AfterComponents
  <1>10. ASSUME UNCHANGED vars PROVE Goal
    <2>1. ~Ending /\ UNCHANGED <<comps, pc, ctx>>
      BY <1>10, <1>t, EndSteps DEF vars
    <2> QED
      BY <2>1, ComponentsElsewhere
      DEF ComponentInv, ComponentsDone, ComponentDone, SummaryDone, Pruned, Summary
  <1> QED
    BY <1>1, <1>2, <1>3, <1>4, <1>5, <1>6, <1>7, <1>8, <1>9, <1>10 DEF Next, Ending

(***************************************************************************)
(* Entities and messages                                                   *)
(***************************************************************************)

ListCurrent(k) == \A f \in HintFiles[k] : Kept(f) => Says(lists[k], f, Base)

ListDone(k) ==
    \/ KindFiles(k, ctx.seen) \subseteq ctx.failed
    \/ \A f \in KindFiles(k, ctx.seen) : Says(lists[k], f, ctx.seen)

ListsDone ==
    /\ pc \in {"messaging", "overview", "store"} => ListDone("persistence")
    /\ pc \in {"overview", "store"} => ListDone("messaging")

ListInv == ReadInv /\ (\A k \in Kinds : ListCurrent(k)) /\ ListsDone

LEMMA ListsElsewhere ==
    ASSUME ~Reverts, ~EditsBeforeHash, ListInv, [Next]_vars, ~Ending, NEW k \in Kinds,
           lists'[k] = lists[k]
    PROVE  ListCurrent(k)'
  <1>1. \A f \in Files : Kept(f)' => Kept(f) /\ Base'[f] = Base[f]
    BY KeptSteps DEF ListInv
  <1>2. HintFiles[k] \subseteq Files
    BY TreeAssumption
  <1> QED
    BY <1>1, <1>2 DEF ListInv, ListCurrent, Says

LEMMA ListsAtEnd ==
    ASSUME ~Reverts, ~EditsBeforeHash, ListInv, [Next]_vars, Ending, NEW k \in Kinds
    PROVE  ListCurrent(k)'
  <1>1. \A f \in Files : Kept(f)' => /\ Base'[f] = ctx.seen[f] /\ ctx.seen[f] # NoFile
                                     /\ Kept(f) \/ (pc = "store" /\ f \notin ctx.failed)
    BY KeptSteps DEF ListInv
  <1>2. /\ HintFiles[k] \subseteq Files /\ lists' = lists
        /\ Base = ctx.seen /\ ctx.seen \in Trees
    BY EndSteps, TreeAssumption DEF ListInv, ReadInv, Base, TypeOK, Contexts
  <1>3. \A f \in HintFiles[k] : Kept(f)' => f \in KindFiles(k, ctx.seen)
    BY <1>1, <1>2, UnitRelevant
  <1>4. CASE pc = "store" /\ ~(KindFiles(k, ctx.seen) \subseteq ctx.failed)
    <2>1. \A f \in KindFiles(k, ctx.seen) : Says(lists[k], f, ctx.seen)
      BY <1>4 DEF ListInv, ListsDone, ListDone, Kinds
    <2> QED
      BY <1>1, <1>2, <1>3, <2>1 DEF ListCurrent, Says
  <1>5. CASE pc # "store" \/ KindFiles(k, ctx.seen) \subseteq ctx.failed
    <2>1. \A f \in HintFiles[k] : Kept(f)' => Kept(f)
      BY <1>1, <1>2, <1>3, <1>5
    <2> QED
      BY <1>1, <1>2, <2>1 DEF ListInv, ListCurrent, Says
  <1> QED
    BY <1>4, <1>5

LEMMA NextList ==
    ASSUME ~Reverts, ~EditsBeforeHash, ListInv, [Next]_vars
    PROVE  ListInv'
  <1>t. TypeOK /\ TypeOK' /\ ReadInv /\ ReadInv' /\ ctx.seen \in Trees
    BY NextType, NextRead DEF ListInv, ReadInv, TypeOK, Contexts
  <1> DEFINE Goal == (\A k \in Kinds : ListCurrent(k)') /\ ListsDone'
  <1> SUFFICES Goal
    BY <1>t DEF ListInv
  <1>1. ASSUME ~Ending, lists' = lists,
               pc' \in {"hash", "endpoints", "components", "persistence"}
        PROVE  Goal
    BY <1>1, ListsElsewhere DEF ListsDone
  <1>2. ASSUME NEW f \in Files, Edit(f) PROVE Goal
    <2>1. ~Ending /\ UNCHANGED <<lists, pc, ctx>>
      BY <1>2, <1>t, EndSteps DEF Edit
    <2> QED
      BY <2>1, ListsElsewhere DEF ListInv, ListsDone, ListDone
  <1>3. ASSUME \/ \E force \in BOOLEAN : BeginRun(force)
               \/ HashFiles
               \/ \E e \in Endpoints : GenerateEndpoint(e)
               \/ PruneApis
               \/ \E c \in Components : GenerateComponent(c)
               \/ PruneComponents
        PROVE  Goal
    <2>1. lists' = lists /\ pc' \in {"hash", "endpoints", "components", "persistence"}
      BY <1>3
      DEF BeginRun, HashFiles, GenerateEndpoint, PruneApis, GenerateComponent, PruneComponents
    <2>2. ~Ending
      BY <2>1, <1>t, EndSteps
    <2> QED
      BY <1>1, <2>1, <2>2
  <1>4. ASSUME NEW k \in Kinds, ReplaceList(k) PROVE Goal
    <2>1. /\ pc = k /\ pc' = (IF k = "persistence" THEN "messaging" ELSE "overview")
          /\ ctx'.seen = ctx.seen /\ ctx.failed \subseteq ctx'.failed
          /\ Base' = Base /\ Base = ctx.seen
          /\ \A f \in Files : Kept(f)' <=> Kept(f)
      <3>1. pc = k /\ pc' = (IF k = "persistence" THEN "messaging" ELSE "overview")
        BY <1>4 DEF ReplaceList
      <3> QED
        BY <1>4, <1>t, <3>1, UnitSteps DEF Base, Kept, Kinds
    <2>2. ~Ending
      BY <2>1, <1>t, EndSteps
    <2>3. \A j \in Kinds \ {k} : lists'[j] = lists[j]
      BY <1>4, <1>t DEF ReplaceList, TypeOK
    <2>4. \A j \in Kinds \ {k} : ListCurrent(j)' /\ (ListDone(j) => ListDone(j)')
      BY <2>1, <2>2, <2>3, ListsElsewhere DEF ListDone
    <2>5. ASSUME ListCurrent(k)', ListDone(k)' PROVE Goal
      BY <2>1, <2>4, <2>5 DEF ListInv, ListsDone, Kinds
    <2>6. /\ \A f \in HintFiles[k] : Kept(f) => f \in KindFiles(k, ctx.seen)
          /\ KindFiles(k, ctx.seen) \subseteq HintFiles[k] /\ HintFiles[k] \subseteq Files
      BY <1>t, <2>1, UnitRelevant, TreeAssumption DEF Kept
    <2>7. CASE KindFiles(k, ctx.seen) = {}
      BY <2>1, <2>5, <2>6, <2>7 DEF ListCurrent, ListDone
    <2>8. CASE KindFiles(k, ctx.seen) # {} /\ ~ListDue(k)
      <3>1. lists' = lists
        BY <1>4, <2>8 DEF ReplaceList
      <3>2. \A f \in KindFiles(k, ctx.seen) : Kept(f)
        BY <1>t, <2>1, <2>8, UnitRelevant, UntouchedFiles DEF ListDue, Kinds, Active
      <3>3. ListCurrent(k)
        BY DEF ListInv
      <3> QED
        BY <2>1, <2>5, <2>6, <3>1, <3>2, <3>3 DEF ListCurrent, ListDone
    <2>9. CASE lists' = [lists EXCEPT ![k] = Excerpts(KindFiles(k, ctx.seen), ctx.seen)]
      <3>1. \A f \in KindFiles(k, ctx.seen) : Says(lists'[k], f, ctx.seen)
        BY <1>t, <2>9 DEF TypeOK, Says, Excerpts
      <3> QED
        BY <2>1, <2>5, <2>6, <3>1 DEF ListCurrent, ListDone
    <2>10. CASE lists' = lists /\ ctx' = Failed(ctx, KindFiles(k, ctx.seen))
      <3>1. KindFiles(k, ctx.seen) \subseteq ctx'.failed
        BY <1>t, <2>10 DEF Failed, TypeOK, Contexts
      <3>2. ListCurrent(k)
        BY DEF ListInv
      <3> QED
        BY <2>1, <2>5, <2>6, <2>10, <3>1, <3>2 DEF ListCurrent, ListDone
    <2> QED
      BY <1>4, <2>7, <2>8, <2>9, <2>10 DEF ReplaceList
  <1>5. ASSUME GenerateOverview PROVE Goal
    <2>1. /\ lists' = lists /\ pc = "overview" /\ pc' = "store"
          /\ ctx'.seen = ctx.seen /\ ctx.failed \subseteq ctx'.failed
      BY <1>5, <1>t, UnitSteps DEF GenerateOverview
    <2>2. ~Ending
      BY <2>1, <1>t, EndSteps
    <2> QED
      BY <2>1, <2>2, ListsElsewhere DEF ListInv, ListsDone, ListDone
  <1>6. ASSUME Ending PROVE Goal
    BY <1>6, <1>t, ListsAtEnd, EndSteps DEF ListsDone
  <1>7. ASSUME UNCHANGED vars PROVE Goal
    <2>1. ~Ending /\ UNCHANGED <<lists, pc, ctx>>
      BY <1>7, <1>t, EndSteps DEF vars
    <2> QED
      BY <2>1, ListsElsewhere DEF ListInv, ListsDone, ListDone
  <1> QED
    BY <1>2, <1>3, <1>4, <1>5, <1>6, <1>7 DEF Next, Ending

(***************************************************************************)
(* Trust                                                                   *)
(***************************************************************************)

RowInv == ComponentInv /\ ListInv

LEMMA InitRows == Init => RowInv
  <1> SUFFICES ASSUME Init PROVE RowInv
    OBVIOUS
  <1>1. ReadInv /\ pc = "idle" /\ \A f \in Files : ~Kept(f)
    BY InitRead DEF Init, Kept, NoFile
  <1>2. (\A e \in Endpoints : RouteFile[e] \in Files) /\ \A k \in Kinds : HintFiles[k] \subseteq Files
    BY TreeAssumption
  <1>3. ApiInv
    BY <1>1, <1>2 DEF ApiInv, ApiCurrent, EndpointsDone, Active
  <1>4. ComponentInv
    BY <1>1, <1>2, <1>3 DEF ComponentInv, ComponentCurrent, ComponentsDone, AfterComponents
  <1>5. ListInv
    BY <1>1, <1>2 DEF ListInv, ListCurrent, ListsDone
  <1> QED
    BY <1>4, <1>5 DEF RowInv

\* A file whose hash is that of the file as it is, is as it was read.
LEMMA UnchangedKept ==
    ASSUME ReadInv, NEW f \in Files, hashes[f] = tree[f], tree[f] # NoFile
    PROVE  Kept(f) /\ Base[f] = tree[f]
  BY DEF ReadInv, Moved, Kept

LEMMA RowsHold ==
    ASSUME RowInv
    PROVE  RowsTrusted
  <1>t. ReadInv /\ tree \in Trees
    BY DEF RowInv, ListInv, ReadInv, TypeOK
  <1>s. \A e \in Endpoints : RouteFile[e] \in Files /\ Sources(e) \subseteq Files
    BY TreeAssumption DEF Sources
  <1>1. ApiRowsTrusted
    <2> SUFFICES ASSUME NEW e \in EndpointHints(tree), Unchanged(DependencyFiles(e, tree))
                 PROVE  apis[e] # Nothing /\ MadeFrom(apis[e], DependencyFiles(e, tree))
      BY DEF ApiRowsTrusted
    <2>1. /\ e \in Endpoints /\ RouteFile[e] \in DependencyFiles(e, tree)
          /\ \A f \in DependencyFiles(e, tree) :
                f \in Sources(e) /\ f \in Files /\ tree[f] # NoFile /\ hashes[f] = tree[f]
      BY <1>t, <1>s, UnitRelevant DEF EndpointHints, Unchanged
    <2>2. \A f \in DependencyFiles(e, tree) : Kept(f) /\ Base[f] = tree[f]
      BY <1>t, <2>1, UnchangedKept
    <2>3. ApiCurrent(e)
      BY <2>1 DEF RowInv, ComponentInv, ApiInv
    <2> QED
      BY <2>1, <2>2, <2>3 DEF ApiCurrent, Says, MadeFrom
  <1>2. ComponentRowsTrusted
    <2> SUFFICES ASSUME NEW c \in ComponentGroups(tree), Unchanged(GroupFiles(c, tree)),
                        comps[ComponentKey(c, tree)] # Nothing,
                        NEW e \in Group(c, tree)
                 PROVE  LET row == comps[ComponentKey(c, tree)]
                        IN  e \in DOMAIN row /\ MadeFrom(row[e], DependencyFiles(e, tree))
      BY DEF ComponentRowsTrusted
    <2>1. PICK F \in Files : ComponentKey(c, tree) = <<c, F>>
      BY <1>s, FirstOfGroup DEF ComponentGroups, ComponentKey, Group, EndpointHints
    <2>2. e \in EndpointHints(tree) /\ e \in Endpoints /\ ComponentOf[e] = c
      BY DEF Group, EndpointHints
    <2>3. /\ RouteFile[e] \in DependencyFiles(e, tree)
          /\ \A f \in DependencyFiles(e, tree) :
                f \in Sources(e) /\ f \in Files /\ tree[f] # NoFile /\ hashes[f] = tree[f]
      <3>1. DependencyFiles(e, tree) \subseteq GroupFiles(c, tree)
        BY DEF GroupFiles
      <3> QED
        BY <1>t, <1>s, <2>2, <3>1, UnitRelevant DEF Unchanged
    <2>4. \A f \in DependencyFiles(e, tree) : Kept(f) /\ Base[f] = tree[f]
      BY <1>t, <2>3, UnchangedKept
    <2>5. ComponentCurrent(e, F)
      BY <2>1, <2>2 DEF RowInv, ComponentInv
    <2> QED
      BY <2>1, <2>2, <2>3, <2>4, <2>5 DEF ComponentCurrent, Summary, Says, MadeFrom
  <1>3. ListRowsTrusted
    <2> SUFFICES ASSUME NEW k \in Kinds, Unchanged(KindFiles(k, tree))
                 PROVE  MadeFrom(lists[k], KindFiles(k, tree))
      BY DEF ListRowsTrusted
    <2>1. \A f \in KindFiles(k, tree) :
             f \in HintFiles[k] /\ f \in Files /\ tree[f] # NoFile /\ hashes[f] = tree[f]
      BY <1>t, UnitRelevant DEF Unchanged
    <2>2. \A f \in KindFiles(k, tree) : Kept(f) /\ Base[f] = tree[f]
      BY <1>t, <2>1, UnchangedKept
    <2>3. ListCurrent(k)
      BY DEF RowInv, ListInv
    <2> QED
      BY <2>1, <2>2, <2>3 DEF ListCurrent, Says, MadeFrom
  <1> QED
    BY <1>1, <1>2, <1>3 DEF RowsTrusted

LEMMA AlwaysRows ==
    ASSUME ~Reverts, ~EditsBeforeHash
    PROVE  Spec => []RowInv
  <1>1. RowInv /\ [Next]_vars => RowInv'
    BY NextComponent, NextList DEF RowInv
  <1> QED
    BY <1>1, InitRows, PTL DEF Spec

\* When no old content comes back and no file changes between being read and being
\* hashed: whatever units failed, wherever runs died and whatever was edited, what
\* the stored hashes let the next run skip is current (orchestrator.py:596).
THEOREM TrustedRows ==
    ASSUME ~Reverts, ~EditsBeforeHash
    PROVE  Spec => []RowsTrusted
  BY AlwaysRows, RowsHold, PTL

(***************************************************************************)
(* A run over files that stood still since one without failures            *)
(***************************************************************************)

\* What the context of the run knows.
Informed ==
    /\ pc # "idle" => known
    /\ pc # "idle" /\ ctx.described => overview # Nothing
    /\ pc # "idle" /\ ~ctx.hadFailure => ctx.failed = {}
    /\ pc = "endpoints" => ctx.todo \subseteq EndpointHints(ctx.seen)
    /\ pc = "store" /\ ~ctx.hadFailure => overview # Nothing

Settled ==
    settled =>
        /\ known /\ overview # Nothing
        /\ Base = tree /\ hashes = NewHashes(tree)
        /\ pc # "idle" /\ ~ctx.force =>
              ~called /\ ~ctx.isNew /\ ctx.described /\ ~ctx.regenerated

SettledInv == RowInv /\ Informed /\ Settled

LEMMA InitSettled == Init => SettledInv
  BY InitRows DEF Init, SettledInv, Informed, Settled

\* No step takes the overview away.
LEMMA OverviewStays ==
    ASSUME TypeOK, [Next]_vars, overview # Nothing
    PROVE  overview' # Nothing
  <1>1. CASE GenerateOverview
    <2>1. Composition(ctx.seen) \in Overviews
      BY UnitExcerptsType DEF Composition, Overviews, TypeOK, Contexts
    <2> QED
      BY <1>1, <2>1, TreeAssumption DEF GenerateOverview
  <1>2. CASE ~GenerateOverview
    BY <1>2
    DEF Next, vars, Edit, BeginRun, HashFiles, GenerateEndpoint, PruneApis, GenerateComponent,
        PruneComponents, ReplaceList, StoreHashes, InterruptStore, Crash
  <1> QED
    BY <1>1, <1>2

LEMMA NextInformed ==
    ASSUME TypeOK, ReadInv, Informed, [Next]_vars
    PROVE  Informed'
  <1>t. TypeOK' /\ ctx.seen \in Trees
    BY NextType DEF TypeOK, Contexts
  <1>o. overview # Nothing => overview' # Nothing
    BY OverviewStays
  <1>1. ASSUME NEW f \in Files, Edit(f) PROVE Informed'
    BY <1>1 DEF Edit, Informed
  <1>2. ASSUME NEW force \in BOOLEAN, BeginRun(force) PROVE Informed'
    <2>1. /\ pc' = "hash" /\ known' = TRUE /\ overview' = overview
          /\ ctx'.described = (overview # Nothing) /\ ctx'.failed = {}
      BY <1>2 DEF BeginRun, NoContext
    <2> QED
      BY <2>1 DEF Informed
  <1>3. ASSUME HashFiles PROVE Informed'
    BY <1>3, HashSteps DEF Informed
  <1>4. ASSUME \/ \E e \in Endpoints : GenerateEndpoint(e)
               \/ PruneApis
               \/ \E c \in Components : GenerateComponent(c)
               \/ PruneComponents
               \/ \E k \in Kinds : ReplaceList(k)
        PROVE  Informed'
    <2>1. /\ pc # "idle" /\ known' = known /\ ctx'.described = ctx.described
          /\ ctx'.seen = ctx.seen
          /\ ctx.hadFailure => ctx'.hadFailure
          /\ ~ctx'.hadFailure => ctx'.failed = ctx.failed
      BY <1>4, UnitSteps DEF Active
    <2>2. pc' # "store"
      BY <1>4
      DEF GenerateEndpoint, PruneApis, GenerateComponent, PruneComponents, ReplaceList
    <2>3. pc' = "endpoints" => pc = "endpoints" /\ ctx'.todo \subseteq ctx.todo
      <3>1. ASSUME NEW e \in Endpoints, GenerateEndpoint(e) PROVE ctx'.todo \subseteq ctx.todo
        BY <3>1 DEF GenerateEndpoint, Failed, Regenerated, TypeOK, Contexts
      <3> QED
        BY <1>4, <3>1
        DEF GenerateEndpoint, PruneApis, GenerateComponent, PruneComponents, ReplaceList
    <2> QED
      BY <1>o, <2>1, <2>2, <2>3 DEF Informed
  <1>5. ASSUME GenerateOverview PROVE Informed'
    <2>1. /\ pc # "idle" /\ pc' = "store" /\ known' = known /\ ctx'.described = ctx.described
          /\ ctx.hadFailure => ctx'.hadFailure
          /\ ~ctx'.hadFailure => ctx'.failed = ctx.failed
      BY <1>5, UnitSteps DEF GenerateOverview
    <2>2. Composition(ctx.seen) # Nothing
      BY <1>t, UnitExcerptsType, TreeAssumption DEF Composition, Overviews, TypeOK
    <2>3. Failed(ctx, EntryFiles(ctx.seen)).hadFailure
      BY DEF Failed, TypeOK, Contexts
    <2>4. ~ctx'.hadFailure => overview' # Nothing
      BY <1>5, <1>o, <2>1, <2>2, <2>3 DEF GenerateOverview, OverviewDue, Informed
    <2> QED
      BY <1>o, <2>1, <2>4 DEF Informed
  <1>6. ASSUME Ending PROVE Informed'
    BY <1>6, EndSteps DEF Informed
  <1>7. ASSUME UNCHANGED vars PROVE Informed'
    BY <1>7 DEF vars, Informed
  <1> QED
    BY <1>1, <1>2, <1>3, <1>4, <1>5, <1>6, <1>7 DEF Next, Ending

\* When the hashes are those of the files as they are, a run that is not forced
\* finds that nothing changed.
LEMMA NothingDue ==
    ASSUME SettledInv, settled, pc \in Active, ~ctx.force
    PROVE  /\ ctx.changed = {} /\ Removed = {}
           /\ \A e \in EndpointHints(ctx.seen) : ~EndpointDue(e)
           /\ \A c \in Components : ~ComponentDue(c)
           /\ \A k \in Kinds : ~ListDue(k)
           /\ ~OverviewDue
  <1>t. TypeOK /\ ctx.seen \in Trees
    BY DEF SettledInv, RowInv, ListInv, ReadInv, TypeOK, Contexts
  <1>1. /\ ctx.seen = tree /\ hashes = NewHashes(tree) /\ ctx.new = hashes
        /\ ~ctx.isNew /\ ctx.described /\ ~ctx.regenerated
    BY DEF SettledInv, Settled, RowInv, ListInv, ReadInv, Hashed, Base, Active
  <1>2. ctx.changed = {} /\ Removed = {}
    BY <1>1 DEF SettledInv, RowInv, ListInv, ReadInv, Hashed, Removed
  <1>3. ASSUME NEW e \in EndpointHints(ctx.seen) PROVE apis[e] # Nothing
    <2>1. e \in Endpoints /\ RouteFile[e] \in Files /\ RouteFile[e] \in RelevantFiles(tree)
      BY <1>t, <1>1, UnitRelevant DEF EndpointHints
    <2>2. Kept(RouteFile[e])
      BY <1>1, <2>1 DEF Kept, Base, NewHashes, EndpointHints, Active
    <2> QED
      BY <2>1, <2>2 DEF SettledInv, RowInv, ComponentInv, ApiInv, ApiCurrent
  <1> QED
    BY <1>1, <1>2, <1>3 DEF EndpointDue, ComponentDue, ListDue, OverviewDue, Touches

LEMMA NextSettled ==
    ASSUME ~Reverts, ~EditsBeforeHash, SettledInv, [Next]_vars
    PROVE  SettledInv'
  <1>t. TypeOK /\ TypeOK' /\ ReadInv /\ ReadInv' /\ RowInv'
    BY NextType, NextRead, NextComponent, NextList DEF SettledInv, RowInv, ListInv, ReadInv
  <1>i. Informed'
    BY <1>t, NextInformed DEF SettledInv
  <1> SUFFICES Settled'
    BY <1>t, <1>i DEF SettledInv
  <1>o. overview # Nothing => overview' # Nothing
    BY <1>t, OverviewStays
  <1> USE DEF SettledInv
  <1>1. ASSUME NEW f \in Files, Edit(f) PROVE Settled'
    BY <1>1 DEF Edit, Settled
  <1>2. ASSUME NEW force \in BOOLEAN, BeginRun(force) PROVE Settled'
    <2>1. /\ pc = "idle" /\ pc' = "hash" /\ known' = TRUE /\ ~called'
          /\ UNCHANGED <<tree, hashes, overview, settled>>
          /\ ctx'.seen = tree /\ ctx'.isNew = ~known /\ ctx'.described = (overview # Nothing)
          /\ ~ctx'.regenerated
      BY <1>2 DEF BeginRun, NoContext
    <2> QED
      BY <2>1 DEF Settled, Base
  <1>3. ASSUME HashFiles PROVE Settled'
    BY <1>3, <1>t, HashSteps DEF Settled, Base
  <1>4. ASSUME \/ \E e \in Endpoints : GenerateEndpoint(e)
               \/ PruneApis
               \/ \E c \in Components : GenerateComponent(c)
               \/ PruneComponents
               \/ \E k \in Kinds : ReplaceList(k)
               \/ GenerateOverview
        PROVE  Settled'
    <2>1. /\ pc \in Active /\ pc' \in Active
          /\ UNCHANGED <<tree, known, hashes, settled>> /\ ctx'.seen = ctx.seen
          /\ ctx'.force = ctx.force /\ ctx'.isNew = ctx.isNew /\ ctx'.described = ctx.described
      BY <1>4, <1>t, UnitSteps
    <2>2. Base' = Base
      BY <2>1 DEF Base, Active
    <2>3. ASSUME settled, ~ctx.force PROVE called' = called /\ ctx'.regenerated = ctx.regenerated
      <3>1. ASSUME NEW e \in Endpoints, GenerateEndpoint(e)
            PROVE  called' = called /\ ctx'.regenerated = ctx.regenerated
        <4>1. e \in EndpointHints(ctx.seen)
          BY <3>1 DEF GenerateEndpoint, Informed
        <4>2. ~EndpointDue(e)
          BY <2>1, <2>3, <4>1, NothingDue
        <4> QED
          BY <1>t, <3>1, <4>2 DEF GenerateEndpoint, TypeOK, Contexts
      <3>2. ASSUME NEW c \in Components, GenerateComponent(c)
            PROVE  called' = called /\ ctx'.regenerated = ctx.regenerated
        <4>1. ~ComponentDue(c)
          BY <2>1, <2>3, NothingDue
        <4> QED
          BY <1>t, <3>2, <4>1 DEF GenerateComponent, TypeOK, Contexts
      <3>3. ASSUME NEW k \in Kinds, ReplaceList(k)
            PROVE  called' = called /\ ctx'.regenerated = ctx.regenerated
        <4>1. ~ListDue(k)
          BY <2>1, <2>3, NothingDue
        <4> QED
          BY <3>3, <4>1 DEF ReplaceList
      <3>4. ASSUME PruneApis \/ PruneComponents
            PROVE  called' = called /\ ctx'.regenerated = ctx.regenerated
        BY <1>t, <3>4 DEF PruneApis, PruneComponents, TypeOK, Contexts
      <3>5. ASSUME GenerateOverview
            PROVE  called' = called /\ ctx'.regenerated = ctx.regenerated
        <4>1. ~OverviewDue
          BY <2>1, <2>3, NothingDue
        <4> QED
          BY <3>5, <4>1 DEF GenerateOverview
      <3> QED
        BY <1>4, <3>1, <3>2, <3>3, <3>4, <3>5
    <2> QED
      BY <1>o, <2>1, <2>2, <2>3 DEF Settled, Active
  <1>5. ASSUME StoreHashes PROVE Settled'
    <2>1. /\ pc = "store" /\ pc' = "idle" /\ UNCHANGED <<tree, known, overview>>
          /\ settled' = (~ctx.hadFailure /\ tree = ctx.seen)
          /\ hashes' = [f \in Files |-> IF f \in Removed THEN NoFile ELSE StoredHashes(Files)[f]]
      BY <1>5 DEF StoreHashes, Ends
    <2> SUFFICES ASSUME ~ctx.hadFailure, tree = ctx.seen
                 PROVE  known /\ overview # Nothing /\ hashes' = NewHashes(tree)
      BY <2>1 DEF Settled, Base
    <2>2. ctx.failed = {} /\ known /\ overview # Nothing /\ ctx.new = NewHashes(tree)
      BY <2>1, <1>t DEF Informed, ReadInv, Hashed, Active
    <2>3. \A f \in Files : hashes'[f] = NewHashes(tree)[f]
      BY <2>1, <2>2 DEF Removed, StoredHashes
    <2> QED
      BY <2>1, <2>2, <2>3 DEF NewHashes
  <1>6. ASSUME NEW done \in SUBSET Files, InterruptStore(done) PROVE Settled'
    <2>1. /\ pc = "store" /\ pc' = "idle" /\ UNCHANGED <<tree, known, overview, settled>>
          /\ hashes' = StoredHashes(done)
      BY <1>6 DEF InterruptStore, Ends
    <2>2. settled => hashes' = hashes
      <3>1. settled => ctx.new = hashes
        BY <2>1, <1>t DEF Settled, ReadInv, Hashed, Active, Base
      <3>2. settled => \A f \in Files : hashes'[f] = hashes[f]
        BY <2>1, <3>1 DEF StoredHashes
      <3> QED
        BY <2>1, <3>2, <1>t DEF StoredHashes, TypeOK, Trees
    <2> QED
      BY <2>1, <2>2 DEF Settled, Base
  <1>7. ASSUME Crash PROVE Settled'
    BY <1>7 DEF Crash, Ends, Settled, Base
  <1>8. ASSUME UNCHANGED vars PROVE Settled'
    BY <1>8 DEF vars, Settled, Base
  <1> QED
    BY <1>1, <1>2, <1>3, <1>4, <1>5, <1>6, <1>7, <1>8 DEF Next

LEMMA AlwaysSettled ==
    ASSUME ~Reverts, ~EditsBeforeHash
    PROVE  Spec => []SettledInv
  <1>1. SettledInv /\ [Next]_vars => SettledInv'
    BY NextSettled
  <1> QED
    BY <1>1, InitSettled, PTL DEF Spec

\* Under the same assumptions, a run that is not forced, over files that did not
\* change since a run without failures, asks the LLM nothing, whatever crashed in
\* between (README.md:287).
THEOREM QuietRuns ==
    ASSUME ~Reverts, ~EditsBeforeHash
    PROVE  Spec => []QuietRunCallsNothing
  <1>1. SettledInv => QuietRunCallsNothing
    BY DEF SettledInv, Settled, QuietRunCallsNothing
  <1> QED
    BY <1>1, AlwaysSettled, PTL

\* Under the same assumptions, after a run without failures over files that stood
\* still, every endpoint has a row that was generated from the files as they are
\* (README.md:287).
THEOREM SettledRows ==
    ASSUME ~Reverts, ~EditsBeforeHash
    PROVE  Spec => []SettledRowsCurrent
  <1>1. ASSUME SettledInv PROVE SettledRowsCurrent
    <2> SUFFICES ASSUME settled, NEW e \in EndpointHints(tree)
                 PROVE  apis[e] # Nothing /\ MadeFrom(apis[e], DependencyFiles(e, tree))
      BY DEF SettledRowsCurrent
    <2>1. tree \in Trees /\ hashes = NewHashes(tree) /\ RowInv
      BY <1>1 DEF SettledInv, Settled, RowInv, ListInv, ReadInv, TypeOK
    <2>2. Unchanged(DependencyFiles(e, tree))
      BY <2>1, UnitRelevant DEF Unchanged, NewHashes
    <2> QED
      BY <2>1, <2>2, RowsHold DEF RowsTrusted, ApiRowsTrusted
  <1> QED
    BY <1>1, AlwaysSettled, PTL
=============================================================================
