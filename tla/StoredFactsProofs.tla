-------------------------- MODULE StoredFactsProofs --------------------------
(***************************************************************************)
(* What is promised of the facts that the source scans store: by           *)
(* StaticSnapshot, of the facts of one service, that they are those of its *)
(* files, for any set of inputs, any number of edits and any number of     *)
(* releases; and by ArchitectureRuns, of the findings in the facts of all  *)
(* services, that they are those of the facts, for any services and        *)
(* checkouts, any number of commands and detectors, and whatever the       *)
(* detectors find.                                                         *)
(***************************************************************************)
EXTENDS StaticSnapshot, ArchitectureRuns, SequenceTheorems, TLAPS

(***************************************************************************)
(* The facts of one service: types                                         *)
(***************************************************************************)

LEMMA InitType == Init => TypeOK
  BY SnapshotAssumption DEF Init, TypeOK, Trees, Versions, Tables, PCs

\* The facts of an analysis are facts.
LEMMA AnalysisType ==
    ASSUME TypeOK, NEW whole \in BOOLEAN
    PROVE  Analysis(whole) \in Facts
  BY DEF TypeOK, Analysis, Facts

LEMMA NextType == TypeOK /\ [Next]_vars => TypeOK'
  <1> SUFFICES ASSUME TypeOK, [Next]_vars PROVE TypeOK'
    OBVIOUS
  <1> USE DEF TypeOK, PCs
  <1>1. ASSUME NEW f \in Inputs, Edit(f) PROVE TypeOK'
    <2>1. clock' \in Versions
      BY <1>1, SnapshotAssumption DEF Edit, Versions
    <2>2. PICK v \in Versions : tree' = [tree EXCEPT ![f] = v]
      BY <1>1, SnapshotAssumption DEF Edit, Versions
    <2>3. tree' \in Trees
      BY <2>2 DEF Trees
    <2> QED
      BY <1>1, <2>1, <2>3 DEF Edit
  <1>2. ASSUME NEW f \in Inputs, ReadInput(f) PROVE TypeOK'
    BY <1>2 DEF ReadInput, Trees
  <1>3. CASE Upgrade
    BY <1>3, SnapshotAssumption DEF Upgrade
  <1>4. ASSUME NEW force \in BOOLEAN, NEW external \in BOOLEAN, BeginRun(force, external)
        PROVE  TypeOK'
    BY <1>4 DEF BeginRun, Pass
  <1>5. CASE Reuse
    BY <1>5 DEF Reuse
  <1>6. CASE Bypass
    BY <1>6 DEF Bypass, Pass, Tables
  <1>7. CASE DeleteFacts
    BY <1>7, AnalysisType DEF DeleteFacts, Tables
  <1>8. CASE InsertFacts
    BY <1>8, AnalysisType DEF InsertFacts, Pass, Tables
  <1>9. CASE RecordSnapshot
    <2>1. [digest |-> first, by |-> analyzer] \in Snapshot
      BY DEF Snapshot
    <2> QED
      BY <1>9, <2>1 DEF RecordSnapshot, Tables
  <1>10. CASE Commit
    BY <1>10 DEF Commit
  <1>11. CASE Crash
    BY <1>11 DEF Crash
  <1>12. CASE Interrupt
    BY <1>12 DEF Interrupt
  <1>13. CASE UNCHANGED vars
    BY <1>13 DEF vars
  <1> QED
    BY <1>1, <1>2, <1>3, <1>4, <1>5, <1>6, <1>7, <1>8, <1>9, <1>10, <1>11, <1>12, <1>13 DEF Next

\* Type correctness: the tables hold facts and snapshots of the inputs, whatever
\* is interrupted (static_analysis.py, flows.py).
THEOREM TypeCorrect == Spec => []TypeOK
  BY InitType, NextType, PTL DEF Spec

(***************************************************************************)
(* Trust.  When no old content comes back, versions only grow; then every  *)
(* reading lies between the reading before it and the tree.                *)
(***************************************************************************)

\* No input is newer in the first tree than in the second.
NoNewer(old, new) == \A f \in Inputs : old[f] <= new[f]

\* A digest, if any, is no newer than the facts, and these are no newer than the
\* inputs `now` and the release `by`; they are whole and plain.
Ordered(tables, now, by) ==
    tables.snapshot # Nothing =>
        /\ tables.facts # Nothing
        /\ NoNewer(tables.snapshot.digest, tables.facts.made)
        /\ NoNewer(tables.facts.made, now)
        /\ tables.snapshot.by <= tables.facts.by
        /\ tables.facts.by <= by
        /\ tables.facts.whole /\ ~tables.facts.deep

\* What the passes have read so far.
Readings ==
    /\ \A f \in Inputs : tree[f] <= clock
    /\ pc = "digest" => \A f \in Inputs \ todo : first[f] <= tree[f]
    /\ pc = "analyze" => /\ NoNewer(first, tree)
                         /\ \A f \in Inputs \ todo :
                               /\ first[f] <= seen[f] /\ seen[f] <= tree[f]
                               /\ work.snapshot # Nothing => work.snapshot.digest[f] <= seen[f]
    /\ pc \in {"insert", "recheck"} =>
          /\ NoNewer(first, seen) /\ NoNewer(seen, tree)
          /\ work.snapshot # Nothing => NoNewer(work.snapshot.digest, seen)
    /\ pc = "recheck" => \A f \in Inputs \ todo : seen[f] <= again[f]

\* What the transaction holds.
Transaction ==
    /\ pc \in {"idle", "digest"} => work = store
    /\ pc \in {"analyze", "insert", "recheck"} =>
          /\ mode.external => work.snapshot = Nothing
          /\ work.snapshot # Nothing => work.snapshot.by <= analyzer
    /\ pc = "recheck" => ~mode.external /\ work.facts = Analysis(TRUE)
    /\ pc # "insert" => Ordered(work, tree, analyzer)

TrustInv == TypeOK /\ Readings /\ Transaction /\ Ordered(store, tree, analyzer)

\* Versions are numbers, and a digest has one for every input.
LEMMA VersionsAreNumbers ==
    ASSUME NEW t \in Trees, NEW f \in Inputs
    PROVE  t[f] \in Nat
  BY SnapshotAssumption DEF Trees, Versions

LEMMA InitTrust == Init => TrustInv
  <1> SUFFICES ASSUME Init PROVE TrustInv
    OBVIOUS
  <1>1. TypeOK
    BY InitType
  <1>2. Readings /\ Transaction /\ Ordered(store, tree, analyzer)
    BY DEF Init, Readings, Transaction, Ordered
  <1> QED
    BY <1>1, <1>2 DEF TrustInv

\* Without old content, an edit makes no input older.
LEMMA EditGrows ==
    ASSUME ~Reverts, TrustInv, NEW f \in Inputs, Edit(f)
    PROVE  /\ NoNewer(tree, tree')
           /\ \A g \in Inputs : tree'[g] <= clock'
  <1>1. tree' = [tree EXCEPT ![f] = clock + 1] /\ clock' = clock + 1
    BY DEF Edit
  <1>2. clock \in Nat /\ \A g \in Inputs : tree[g] \in Nat /\ tree[g] <= clock
    BY VersionsAreNumbers, SnapshotAssumption DEF TrustInv, TypeOK, Readings, Versions
  <1>3. \A g \in Inputs : tree'[g] = IF g = f THEN clock + 1 ELSE tree[g]
    BY <1>1 DEF TrustInv, TypeOK, Trees
  <1> QED
    BY <1>1, <1>2, <1>3 DEF NoNewer

\* Tables in order stay in order when inputs and analyzer grow.
LEMMA OrderedLater ==
    ASSUME TypeOK, TypeOK', NEW tables \in Tables, Ordered(tables, tree, analyzer),
           NoNewer(tree, tree'), analyzer <= analyzer'
    PROVE  Ordered(tables, tree', analyzer')
  <1> SUFFICES ASSUME tables.snapshot # Nothing
               PROVE  /\ tables.facts # Nothing
                      /\ NoNewer(tables.snapshot.digest, tables.facts.made)
                      /\ NoNewer(tables.facts.made, tree')
                      /\ tables.snapshot.by <= tables.facts.by
                      /\ tables.facts.by <= analyzer'
                      /\ tables.facts.whole /\ ~tables.facts.deep
    BY DEF Ordered
  <1>1. tables.facts \in Facts
    BY DEF Tables, Ordered
  <1>2. \A f \in Inputs : tables.facts.made[f] <= tree'[f]
    <2> TAKE f \in Inputs
    <2>1. tables.facts.made[f] \in Nat /\ tree[f] \in Nat /\ tree'[f] \in Nat
      BY <1>1, VersionsAreNumbers DEF Facts, TypeOK
    <2> QED
      BY <2>1 DEF Ordered, NoNewer
  <1>3. tables.facts.by <= analyzer'
    BY <1>1, SnapshotAssumption DEF Ordered, Facts, TypeOK
  <1> QED
    BY <1>2, <1>3 DEF Ordered, NoNewer

LEMMA NextTrust == ~Reverts /\ ~Interrupts /\ TrustInv /\ [Next]_vars => TrustInv'
  <1> SUFFICES ASSUME ~Reverts, ~Interrupts, TrustInv, [Next]_vars PROVE TrustInv'
    OBVIOUS
  <1>t. TypeOK /\ TypeOK'
    BY NextType DEF TrustInv
  <1>n. /\ \A f \in Inputs : /\ tree[f] \in Nat /\ first[f] \in Nat
                              /\ seen[f] \in Nat /\ again[f] \in Nat
        /\ work.snapshot # Nothing => work.snapshot \in Snapshot
        /\ work.facts # Nothing => work.facts \in Facts
    BY <1>t, VersionsAreNumbers DEF TypeOK, Tables
  <1>s. work.snapshot # Nothing => \A f \in Inputs : work.snapshot.digest[f] \in Nat
    BY <1>n, VersionsAreNumbers DEF Snapshot
  <1>a. analyzer \in Nat
    BY <1>t, SnapshotAssumption DEF TypeOK
  <1> USE DEF TrustInv, NoNewer
  <1>1. ASSUME NEW f \in Inputs, Edit(f) PROVE TrustInv'
    <2>1. NoNewer(tree, tree') /\ \A g \in Inputs : tree'[g] <= clock'
      BY <1>1, EditGrows
    <2>u. UNCHANGED <<analyzer, store, work, pc, mode, todo, first, seen, again>>
      BY <1>1 DEF Edit
    <2>n. \A g \in Inputs : tree[g] \in Nat /\ tree'[g] \in Nat
      BY <1>t, VersionsAreNumbers DEF TypeOK
    <2>2. Readings'
      BY <2>1, <2>u, <2>n, <1>n DEF Readings
    <2>3. Ordered(store, tree', analyzer') /\ (pc # "insert" => Ordered(work, tree', analyzer'))
      BY <2>1, <2>u, <1>t, <1>a, OrderedLater DEF Transaction, TypeOK
    <2>4. Transaction'
      BY <2>3, <2>u DEF Transaction, Analysis
    <2> QED
      BY <1>t, <2>2, <2>3, <2>4, <2>u
  <1>2. ASSUME NEW f \in Inputs, ReadInput(f) PROVE TrustInv'
    <2>u. UNCHANGED <<tree, clock, analyzer, store, work, pc, mode>> /\ todo' = todo \ {f}
      BY <1>2 DEF ReadInput
    <2>1. CASE pc = "digest"
      <3>1. first' = [first EXCEPT ![f] = tree[f]]
        BY <1>2, <2>1 DEF ReadInput
      <3>2. \A g \in Inputs \ todo' : first'[g] <= tree[g]
        BY <3>1, <2>u, <2>1, <1>t, <1>n DEF Readings, TypeOK, Trees
      <3> QED
        BY <3>2, <2>u, <2>1, <1>t DEF Readings, Transaction
    <2>2. CASE pc = "analyze"
      <3>1. seen' = [seen EXCEPT ![f] = tree[f]] /\ UNCHANGED first
        BY <1>2, <2>2 DEF ReadInput
      <3>2. work.snapshot # Nothing => work.snapshot.digest[f] <= tree[f]
        <4> SUFFICES ASSUME work.snapshot # Nothing
                     PROVE  work.snapshot.digest[f] <= tree[f]
          OBVIOUS
        <4>1. /\ work.facts # Nothing
              /\ work.snapshot.digest[f] <= work.facts.made[f]
              /\ work.facts.made[f] <= tree[f]
          BY <2>2 DEF Transaction, Ordered
        <4>2. work.facts.made[f] \in Nat
          BY <4>1, <1>n, VersionsAreNumbers DEF Facts
        <4> QED
          BY <4>1, <4>2, <1>n, <1>s
      <3>3. \A g \in Inputs \ todo' :
               /\ first[g] <= seen'[g] /\ seen'[g] <= tree[g]
               /\ work.snapshot # Nothing => work.snapshot.digest[g] <= seen'[g]
        BY <3>1, <3>2, <2>u, <2>2, <1>t, <1>n DEF Readings, TypeOK, Trees
      <3> QED
        BY <3>1, <3>3, <2>u, <2>2, <1>t DEF Readings, Transaction
    <2>3. CASE pc = "recheck"
      <3>1. again' = [again EXCEPT ![f] = tree[f]] /\ UNCHANGED <<first, seen>>
        BY <1>2, <2>3 DEF ReadInput
      <3>2. \A g \in Inputs \ todo' : seen[g] <= again'[g]
        BY <3>1, <2>u, <2>3, <1>t, <1>n DEF Readings, TypeOK, Trees
      <3> QED
        BY <3>1, <3>2, <2>u, <2>3, <1>t DEF Readings, Transaction, Analysis
    <2> QED
      BY <1>2, <2>1, <2>2, <2>3 DEF ReadInput
  <1>3. CASE Upgrade
    <2>1. analyzer <= analyzer' /\ UNCHANGED tree /\ NoNewer(tree, tree')
      BY <1>3, <1>t, <1>n, SnapshotAssumption DEF Upgrade, TypeOK
    <2>2. Ordered(store, tree', analyzer') /\ Ordered(work, tree', analyzer')
      BY <2>1, <1>3, <1>t, OrderedLater DEF Upgrade, Transaction, TypeOK
    <2> QED
      BY <2>2, <1>3, <1>t DEF Upgrade, Readings, Transaction
  <1>4. ASSUME NEW force \in BOOLEAN, NEW external \in BOOLEAN, BeginRun(force, external)
        PROVE  TrustInv'
    BY <1>4, <1>t DEF BeginRun, Pass, Readings, Transaction
  <1>5. CASE Reuse
    BY <1>5, <1>t DEF Reuse, Readings, Transaction
  <1>6. CASE Bypass
    <2>1. Readings'
      BY <1>6 DEF Bypass, Pass, Readings
    <2>2. work'.snapshot # Nothing => work' = work
      BY <1>6, <1>t DEF Bypass, TypeOK, Tables
    <2>3. work.snapshot # Nothing => work.snapshot.by <= analyzer
      BY <1>6, <1>n, <1>a, SnapshotAssumption
      DEF Bypass, Transaction, Ordered, Snapshot, Facts
    <2>4. Ordered(work', tree', analyzer')
      BY <2>2, <1>6 DEF Bypass, Transaction, Ordered
    <2>5. mode.external => work'.snapshot = Nothing
      BY <1>6, <1>t DEF Bypass, TypeOK, Tables
    <2>6. Transaction'
      BY <2>2, <2>3, <2>4, <2>5, <1>6 DEF Bypass, Pass, Transaction
    <2> QED
      BY <2>1, <2>6, <1>6, <1>t DEF Bypass
  <1>7. CASE DeleteFacts
    <2>1. work' = [work EXCEPT !.facts = Analysis(FALSE)] /\ work'.snapshot = work.snapshot
      BY <1>7, <1>t DEF DeleteFacts, TypeOK, Tables
    <2>2. Readings'
      BY <2>1, <1>7 DEF DeleteFacts, Readings
    <2> QED
      BY <2>1, <2>2, <1>7, <1>t DEF DeleteFacts, Transaction
  <1>8. CASE InsertFacts
    <2>1. /\ work' = [work EXCEPT !.facts = Analysis(TRUE)]
          /\ work'.snapshot = work.snapshot /\ work'.facts = Analysis(TRUE)
      BY <1>8, <1>t DEF InsertFacts, TypeOK, Tables
    <2>2. Readings'
      BY <2>1, <1>8 DEF InsertFacts, Pass, Readings
    <2>3. Ordered(work', tree', analyzer')
      <3> SUFFICES ASSUME work.snapshot # Nothing PROVE Ordered(work', tree', analyzer')
        BY <2>1 DEF Ordered
      <3>1. Analysis(TRUE) # Nothing
        BY <1>t, AnalysisType, SnapshotAssumption
      <3>2. ~mode.external /\ work.snapshot.by <= analyzer
        BY <1>8 DEF InsertFacts, Transaction
      <3>3. NoNewer(work.snapshot.digest, seen) /\ NoNewer(seen, tree)
        BY <1>8 DEF InsertFacts, Readings
      <3> QED
        BY <2>1, <3>1, <3>2, <3>3, <1>8, <1>a DEF InsertFacts, Ordered, Analysis
    <2>4. Transaction'
      BY <2>1, <2>3, <1>8 DEF InsertFacts, Pass, Transaction, Analysis
    <2> QED
      BY <2>2, <2>4, <1>8, <1>t DEF InsertFacts
  <1>9. CASE RecordSnapshot
    <2>1. Readings'
      BY <1>9 DEF RecordSnapshot, Readings
    <2>2. work.facts = Analysis(TRUE) /\ ~mode.external
      BY <1>9 DEF RecordSnapshot, Transaction
    <2>3. Ordered(work', tree, analyzer)
      <3>1. CASE again = first
        <4>1. first = seen
          <5>1. \A f \in Inputs : first[f] = seen[f]
            BY <3>1, <1>9, <1>n DEF RecordSnapshot, Readings
          <5> QED
            BY <5>1, <1>t DEF TypeOK, Trees
        <4>2. work'.snapshot = [digest |-> seen, by |-> analyzer] /\ work'.facts = work.facts
          BY <3>1, <4>1, <1>9, <1>t DEF RecordSnapshot, TypeOK, Tables
        <4>3. Analysis(TRUE) # Nothing
          BY <1>t, AnalysisType, SnapshotAssumption
        <4> QED
          BY <4>2, <4>3, <2>2, <1>9, <1>n, <1>a DEF RecordSnapshot, Readings, Ordered, Analysis
      <3>2. CASE again # first
        BY <3>2, <1>9 DEF RecordSnapshot, Transaction
      <3> QED
        BY <3>1, <3>2
    <2> QED
      BY <2>1, <2>3, <1>9, <1>t DEF RecordSnapshot, Transaction
  <1>10. CASE Commit
    BY <1>10, <1>t DEF Commit, Readings, Transaction
  <1>11. CASE Crash
    BY <1>11, <1>t DEF Crash, Readings, Transaction
  <1>12. CASE Interrupt
    BY <1>12, <1>t DEF Interrupt, Readings, Transaction
  <1>13. CASE UNCHANGED vars
    BY <1>13, <1>t DEF vars, Readings, Transaction, Analysis, Ordered
  <1> QED
    BY <1>1, <1>2, <1>3, <1>4, <1>5, <1>6, <1>7, <1>8, <1>9, <1>10, <1>11, <1>12, <1>13 DEF Next

LEMMA TrustHolds == TrustInv => SnapshotTrusted
  <1> SUFFICES ASSUME TrustInv, store.snapshot = [digest |-> tree, by |-> analyzer]
               PROVE  store.facts = [made |-> tree, by |-> analyzer, deep |-> FALSE, whole |-> TRUE]
    BY DEF SnapshotTrusted
  <1>1. TypeOK /\ store.snapshot # Nothing
    <2>1. [digest |-> tree, by |-> analyzer] \in Snapshot
      BY DEF TrustInv, TypeOK, Snapshot
    <2> QED
      BY <2>1, SnapshotAssumption DEF TrustInv
  <1>2. store.facts \in Facts
    BY <1>1 DEF TrustInv, Ordered, TypeOK, Tables
  <1>3. /\ NoNewer(tree, store.facts.made) /\ NoNewer(store.facts.made, tree)
        /\ analyzer <= store.facts.by /\ store.facts.by <= analyzer
        /\ store.facts.whole /\ ~store.facts.deep
    BY <1>1 DEF TrustInv, Ordered
  <1>4. store.facts.made = tree
    <2>1. \A f \in Inputs : store.facts.made[f] \in Nat /\ tree[f] \in Nat
      BY <1>1, <1>2, VersionsAreNumbers DEF Facts, TypeOK
    <2>2. ASSUME NEW f \in Inputs PROVE store.facts.made[f] = tree[f]
      <3>1. tree[f] <= store.facts.made[f] /\ store.facts.made[f] <= tree[f]
        BY <1>3 DEF NoNewer
      <3> QED
        BY <2>1, <3>1
    <2>3. store.facts.made \in Trees /\ tree \in Trees
      BY <1>1, <1>2 DEF Facts, TypeOK
    <2> QED
      BY <2>2, <2>3 DEF Trees
  <1>5. store.facts.by = analyzer
    BY <1>1, <1>2, <1>3, SnapshotAssumption DEF Facts, TypeOK
  <1> QED
    BY <1>2, <1>3, <1>4, <1>5 DEF Facts

LEMMA AlwaysTrust ==
    ASSUME ~Reverts, ~Interrupts
    PROVE  Spec => []TrustInv
  <1>1. TrustInv /\ [Next]_vars => TrustInv'
    BY NextTrust
  <1> QED
    BY <1>1, InitTrust, PTL DEF Spec

\* When no content comes back and replace_analysis is not interrupted halfway, a
\* run never reuses facts that differ from what it would compute
\* (orchestrator.py:554-567).
THEOREM SnapshotsAreTrusted ==
    ASSUME ~Reverts, ~Interrupts
    PROVE  Spec => []SnapshotTrusted
  BY AlwaysTrust, TrustHolds, PTL

(***************************************************************************)
(* A new snapshot is true                                                  *)
(***************************************************************************)

\* A snapshot that only the transaction has belongs to its facts.
Fresh ==
    \/ work.snapshot \in {store.snapshot, Nothing}
    \/ /\ work.facts.whole /\ ~work.facts.deep
       /\ [digest |-> work.facts.made, by |-> work.facts.by] = work.snapshot
       /\ pc = "commit"

LEMMA NextFresh ==
    ASSUME TrustInv, Fresh, [Next]_vars
    PROVE  Fresh'
  <1>t. TypeOK
    BY DEF TrustInv
  <1> USE DEF Fresh
  <1>1. ASSUME NEW f \in Inputs, Edit(f) PROVE Fresh'
    BY <1>1 DEF Edit
  <1>2. ASSUME NEW f \in Inputs, ReadInput(f) PROVE Fresh'
    BY <1>2 DEF ReadInput
  <1>3. CASE Upgrade
    BY <1>3 DEF Upgrade
  <1>4. ASSUME NEW force \in BOOLEAN, NEW external \in BOOLEAN, BeginRun(force, external)
        PROVE  Fresh'
    BY <1>4 DEF BeginRun, Pass
  <1>5. CASE Reuse
    BY <1>5 DEF Reuse
  <1>6. CASE Bypass
    BY <1>6, <1>t DEF Bypass, Pass, TypeOK, Tables
  <1>7. CASE DeleteFacts
    BY <1>7, <1>t DEF DeleteFacts, TypeOK, Tables
  <1>8. CASE InsertFacts
    BY <1>8, <1>t DEF InsertFacts, Pass, TypeOK, Tables
  <1>9. CASE RecordSnapshot
    <2>1. CASE again = first
      <3>1. \A f \in Inputs : first[f] = seen[f]
        <4>1. \A f \in Inputs : first[f] \in Nat /\ seen[f] \in Nat
          BY <1>t, VersionsAreNumbers DEF TypeOK
        <4> QED
          BY <2>1, <4>1, <1>9 DEF TrustInv, RecordSnapshot, Readings, NoNewer
      <3>2. first = seen
        BY <3>1, <1>t DEF TypeOK, Trees
      <3>3. /\ work'.snapshot = [digest |-> first, by |-> analyzer]
            /\ work'.facts = [made |-> first, by |-> analyzer, deep |-> FALSE, whole |-> TRUE]
        BY <2>1, <3>2, <1>9, <1>t
        DEF RecordSnapshot, TrustInv, Transaction, Analysis, TypeOK, Tables
      <3> QED
        BY <3>3, <1>9 DEF RecordSnapshot
    <2>2. CASE again # first
      BY <2>2, <1>9 DEF RecordSnapshot
    <2> QED
      BY <2>1, <2>2
  <1>10. CASE Commit
    BY <1>10 DEF Commit
  <1>11. CASE Crash
    BY <1>11 DEF Crash
  <1>12. CASE Interrupt
    BY <1>12 DEF Interrupt
  <1>13. CASE UNCHANGED vars
    BY <1>13 DEF vars
  <1> QED
    BY <1>1, <1>2, <1>3, <1>4, <1>5, <1>6, <1>7, <1>8, <1>9, <1>10, <1>11, <1>12, <1>13 DEF Next

\* Only a commit changes the committed tables, and it commits the transaction.
LEMMA StoreSteps ==
    ASSUME [Next]_vars
    PROVE  store' \in {store, work}
  BY DEF Next, vars, Edit, ReadInput, Upgrade, BeginRun, Reuse, Bypass, DeleteFacts,
         InsertFacts, RecordSnapshot, Commit, Crash, Interrupt

\* Under the same assumptions, a snapshot appears only together with the facts of
\* a whole plain analysis of the very inputs it names (orchestrator.py:563-567).
THEOREM SnapshotsAreTrue ==
    ASSUME ~Reverts, ~Interrupts
    PROVE  Spec => NewSnapshotIsTrue
  <1>1. Init => Fresh
    BY DEF Init, Fresh
  <1>2. TrustInv /\ Fresh /\ [Next]_vars => Fresh'
    BY NextFresh
  <1>3. TrustInv /\ Fresh /\ [Next]_vars =>
          [store'.snapshot \notin {store.snapshot, Nothing} =>
             /\ store'.facts.whole /\ ~store'.facts.deep
             /\ [digest |-> store'.facts.made, by |-> store'.facts.by] = store'.snapshot]_vars
    <2> SUFFICES ASSUME Fresh, [Next]_vars, store'.snapshot \notin {store.snapshot, Nothing}
                 PROVE  /\ store'.facts.whole /\ ~store'.facts.deep
                        /\ [digest |-> store'.facts.made, by |-> store'.facts.by] = store'.snapshot
      OBVIOUS
    <2>1. store' = work
      BY StoreSteps
    <2> QED
      BY <2>1 DEF Fresh
  <1> QED
    BY <1>1, <1>2, <1>3, AlwaysTrust, PTL DEF Spec, NewSnapshotIsTrue

(***************************************************************************)
(* A run over inputs that stand still can be reused.  No assumption is     *)
(* needed: `still` says it all.                                            *)
(***************************************************************************)

\* While the inputs stand still, what has been read is what is there.
StillRead ==
    /\ pc = "recheck" => ~mode.external
    /\ pc # "idle" /\ still =>
          /\ \A f \in Inputs : pc # "digest" \/ f \notin todo => first[f] = tree[f]
          /\ pc = "recheck" => \A f \in Inputs \ todo : again[f] = tree[f]
          /\ pc = "commit" /\ ~mode.external =>
                work.snapshot = [digest |-> tree, by |-> analyzer]

StillInv == TypeOK /\ StillRead

LEMMA NextStill == StillInv /\ [Next]_vars => StillInv'
  <1> SUFFICES ASSUME StillInv, [Next]_vars PROVE StillInv'
    OBVIOUS
  <1>t. TypeOK /\ TypeOK'
    BY NextType DEF StillInv
  <1> USE DEF StillInv, StillRead
  <1>1. ASSUME NEW f \in Inputs, Edit(f) PROVE StillInv'
    BY <1>1, <1>t DEF Edit
  <1>2. ASSUME NEW f \in Inputs, ReadInput(f) PROVE StillInv'
    BY <1>2, <1>t DEF ReadInput, TypeOK, Trees
  <1>3. CASE Upgrade
    BY <1>3, <1>t DEF Upgrade
  <1>4. ASSUME NEW force \in BOOLEAN, NEW external \in BOOLEAN, BeginRun(force, external)
        PROVE  StillInv'
    BY <1>4, <1>t DEF BeginRun, Pass
  <1>5. CASE Reuse
    <2>1. pc = "digest" /\ todo = {} /\ work.snapshot = [digest |-> first, by |-> analyzer]
      BY <1>5 DEF Reuse, Current
    <2>2. still => first = tree
      BY <2>1, <1>t DEF TypeOK, Trees
    <2> QED
      BY <2>1, <2>2, <1>5, <1>t DEF Reuse
  <1>6. CASE Bypass
    BY <1>6, <1>t DEF Bypass, Pass
  <1>7. CASE DeleteFacts
    BY <1>7, <1>t DEF DeleteFacts
  <1>8. CASE InsertFacts
    BY <1>8, <1>t DEF InsertFacts, Pass
  <1>9. CASE RecordSnapshot
    <2>1. still => first = tree /\ again = tree
      <3>1. still => \A f \in Inputs : first[f] = tree[f] /\ again[f] = tree[f]
        BY <1>9 DEF RecordSnapshot
      <3> QED
        BY <3>1, <1>t DEF TypeOK, Trees
    <2>2. still => work'.snapshot = [digest |-> tree, by |-> analyzer]
      BY <2>1, <1>9, <1>t DEF RecordSnapshot, TypeOK, Tables
    <2> QED
      BY <2>2, <1>9, <1>t DEF RecordSnapshot
  <1>10. CASE Commit
    BY <1>10, <1>t DEF Commit
  <1>11. CASE Crash
    BY <1>11, <1>t DEF Crash
  <1>12. CASE Interrupt
    BY <1>12, <1>t DEF Interrupt
  <1>13. CASE UNCHANGED vars
    BY <1>13, <1>t DEF vars
  <1> QED
    BY <1>1, <1>2, <1>3, <1>4, <1>5, <1>6, <1>7, <1>8, <1>9, <1>10, <1>11, <1>12, <1>13 DEF Next

\* A run without depth provider over inputs that stood still leaves a snapshot of
\* them, so that the next run skips the analysis (README.md:287), whatever was
\* interrupted or taken back before.
THEOREM StillRunsAreReusable == Spec => StillRunIsReusable
  <1>1. Init => StillInv
    BY InitType DEF Init, StillInv, StillRead
  <1>2. StillInv /\ [Next]_vars =>
          [pc = "commit" /\ store' = work /\ still /\ ~mode.external =>
             store'.snapshot = [digest |-> tree, by |-> analyzer]]_vars
    BY DEF StillInv, StillRead
  <1> QED
    BY <1>1, <1>2, NextStill, PTL DEF Spec, StillRunIsReusable

(***************************************************************************)
(* The findings in the facts of all services: types                        *)
(***************************************************************************)

\* A detector finds findings, whatever rows it reads.
LEMMA FindingsType ==
    ASSUME NEW d \in 1..Detectors, NEW codeThen \in Code, NEW iacThen \in Iac
    PROVE  FindingsOf(d, codeThen, iacThen) \in SUBSET Findings
  BY DEF Findings

LEMMA InitViewType == ViewInit => ViewTypeOK
  <1> SUFFICES ASSUME ViewInit PROVE ViewTypeOK
    OBVIOUS
  <1>1. NoJob \in Jobs
    BY ArchitectureAssumption DEF NoJob, Jobs
  <1>2. NoView \in Views
    BY ArchitectureAssumption DEF NoView, Views
  <1> QED
    BY <1>1, <1>2
    DEF ViewInit, ViewTypeOK, Code, Iac, Stages, NoJob, NoView

\* The types of a state in which command c has got another job.
LEMMA NewJobType ==
    ASSUME ViewTypeOK, NEW c \in Commands, NEW j \in Jobs, j.left \subseteq j.found,
           job' = [job EXCEPT ![c] = j], stage' = [stage EXCEPT ![c] = "analyze"],
           UNCHANGED <<code, iac, runs, view, lastAbort>>
    PROVE  ViewTypeOK'
  BY DEF ViewTypeOK, Stages

LEMMA NextViewType == ViewTypeOK /\ [ViewNext]_viewVars => ViewTypeOK'
  <1> SUFFICES ASSUME ViewTypeOK, [ViewNext]_viewVars PROVE ViewTypeOK'
    OBVIOUS
  <1> USE DEF ViewTypeOK
  <1>1. ASSUME NEW c \in Commands, NEW r \in Checkouts,
               NEW found \in SUBSET ServicesIn(r), LaunchIndex(c, r, found)
        PROVE  ViewTypeOK'
    <2> DEFINE j == [checkout |-> r, found |-> found, left |-> found,
                     current |-> "none", tables |-> IacTables]
    <2>1. j \in Jobs /\ j.left \subseteq j.found
      BY ArchitectureAssumption DEF Jobs, ServicesIn
    <2> QED
      BY <1>1, <2>1, NewJobType DEF LaunchIndex
  <1>2. ASSUME NEW c \in Commands, NEW s \in Services, LaunchUpdate(c, s) PROVE ViewTypeOK'
    <2> DEFINE j == [checkout |-> CheckoutOf[s], found |-> {s}, left |-> {s},
                     current |-> "none", tables |-> 0]
    <2>1. j \in Jobs /\ j.left \subseteq j.found
      BY ArchitectureAssumption DEF Jobs, Checkouts
    <2> QED
      BY <1>2, <2>1, NewJobType DEF LaunchUpdate
  <1>3. ASSUME NEW c \in Commands, NEW r \in Checkouts, LaunchRemove(c, r) PROVE ViewTypeOK'
    BY <1>3 DEF LaunchRemove, Code, Iac, Stages
  <1>4. ASSUME NEW c \in Commands, NEW s \in Services, StoreAnalysis(c, s) PROVE ViewTypeOK'
    <2>1. code' \in Code
      BY <1>4 DEF StoreAnalysis, Code
    <2>2. /\ job' = [job EXCEPT ![c] = job'[c]]
          /\ job'[c] = [job[c] EXCEPT !.left = @ \ {s}, !.current = s]
      BY <1>4 DEF StoreAnalysis
    <2>5. job[c] \in Jobs /\ job'[c] \in Jobs
      BY <2>2 DEF Jobs
    <2>3. /\ job' \in [Commands -> Jobs]
          /\ job'[c].current = s
          /\ \A o \in Commands : job'[o].left \subseteq job'[o].found
      BY <2>2, <2>5 DEF Jobs
    <2>4. \A o \in Commands \ {c} : job'[o] = job[o] /\ stage'[o] = stage[o]
      BY <1>4, <2>2 DEF StoreAnalysis
    <2> QED
      BY <1>4, <2>1, <2>3, <2>4 DEF StoreAnalysis, Stages
  <1>5. ASSUME NEW c \in Commands, StoreGenerated(c) PROVE ViewTypeOK'
    BY <1>5 DEF StoreGenerated, Code, Stages
  <1>6. ASSUME NEW c \in Commands, DeleteAbsent(c) PROVE ViewTypeOK'
    BY <1>6 DEF DeleteAbsent, Code, Stages
  <1>7. ASSUME NEW c \in Commands, ReplaceIac(c) PROVE ViewTypeOK'
    <2>1. iac' \in Iac
      BY <1>7 DEF ReplaceIac, ReplaceTable, Iac
    <2>2. job' = [job EXCEPT ![c] = [@ EXCEPT !.tables = job[c].tables - 1]]
      BY <1>7 DEF ReplaceIac, ReplaceTable
    <2>3. job[c].tables \in 0..IacTables /\ job[c].tables > 0
      BY <1>7 DEF ReplaceIac, ReplaceTable, Jobs
    <2>4. job[c].tables - 1 \in 0..IacTables
      BY <2>3, ArchitectureAssumption
    <2>5. /\ job' \in [Commands -> Jobs]
          /\ job'[c].tables = job[c].tables - 1
          /\ \A o \in Commands : /\ job'[o].left \subseteq job'[o].found
                                 /\ job'[o].current = job[o].current
                                 /\ o # c => job'[o] = job[o]
      BY <2>2, <2>4 DEF Jobs
    <2>6. job[c].tables > 1 => job'[c].tables > 0
      BY <2>3, <2>5, ArchitectureAssumption
    <2>7. /\ stage' \in [Commands -> Stages]
          /\ \A o \in Commands : stage'[o] \in {"delete", "scan"} => job'[o].tables > 0
          /\ \A o \in Commands : stage'[o] \in {"generate", "detect"} => stage'[o] = stage[o]
      BY <1>7, <2>5, <2>6 DEF ReplaceIac, ReplaceTable, Stages
    <2> QED
      BY <1>7, <2>1, <2>5, <2>7 DEF ReplaceIac, ReplaceTable
  <1>8. ASSUME NEW c \in Commands, StartRun(c) PROVE ViewTypeOK'
    <2>1. runs' \in Seq(SUBSET Findings) /\ Len(runs') = Len(runs) + 1
      BY <1>8 DEF StartRun
    <2>2. [run |-> Len(runs) + 1, next |-> 1, found |-> {}] \in Views
      BY ArchitectureAssumption DEF Views
    <2> QED
      BY <1>8, <2>1, <2>2 DEF StartRun, Stages
  <1>9. ASSUME NEW c \in Commands, RunDetector(c) PROVE ViewTypeOK'
    <2>1. view[c] \in Views /\ view[c].next \in 1..Detectors
      BY <1>9, ArchitectureAssumption DEF RunDetector, Views
    <2>2. FindingsOf(view[c].next, code, iac) \in SUBSET Findings
      BY <2>1, FindingsType
    <2>3. /\ view' = [view EXCEPT ![c] = view'[c]]
          /\ view'[c] = [view[c] EXCEPT !.next = @ + 1,
                                        !.found = FindingsOf(view[c].next, code, iac)]
      BY <1>9 DEF RunDetector
    <2>4. view[c].next + 1 \in 1..(Detectors + 1)
      BY <2>1, ArchitectureAssumption
    <2>6. view'[c] \in Views
      <3> DEFINE next == view[c].next + 1
                 found == FindingsOf(view[c].next, code, iac)
      <3>1. view'[c] = [view[c] EXCEPT !.next = next, !.found = found]
        BY <2>3
      <3>2. next \in 1..(Detectors + 1) /\ found \in SUBSET Findings
        BY <2>2, <2>4
      <3> HIDE DEF next, found
      <3> QED
        BY <2>1, <3>1, <3>2 DEF Views
    <2>7. view'[c].run = view[c].run
      BY <2>1, <2>3 DEF Views
    <2>5. view' \in [Commands -> Views] /\ \A o \in Commands : view'[o].run = view[o].run
      BY <2>3, <2>6, <2>7
    <2> QED
      BY <1>9, <2>5 DEF RunDetector
  <1>10. ASSUME NEW c \in Commands, RecordFinding(c) PROVE ViewTypeOK'
    <2>1. PICK f \in view[c].found :
             /\ runs' = [runs EXCEPT ![view[c].run] = @ \cup {f}]
             /\ view' = [view EXCEPT ![c].found = @ \ {f}]
      BY <1>10 DEF RecordFinding
    <2>2. f \in Findings
      BY <2>1 DEF Views
    <2>3. runs' \in Seq(SUBSET Findings) /\ Len(runs') = Len(runs)
      <3>1. view[c].run \in 1..Len(runs)
        BY <1>10 DEF RecordFinding
      <3>2. runs[view[c].run] \cup {f} \in SUBSET Findings
        BY <2>2, <3>1
      <3> QED
        BY <2>1, <3>1, <3>2, ExceptSeq
    <2>4. view' \in [Commands -> Views] /\ \A o \in Commands : view'[o].run = view[o].run
      BY <2>1 DEF Views
    <2> QED
      BY <1>10, <2>3, <2>4 DEF RecordFinding
  <1>11. ASSUME NEW c \in Commands, FinishRun(c) PROVE ViewTypeOK'
    BY <1>11 DEF FinishRun, Stages
  <1>12. ASSUME NEW c \in Commands, Abort(c) PROVE ViewTypeOK'
    BY <1>12 DEF Abort, Stages
  <1>13. CASE UNCHANGED viewVars
    BY <1>13 DEF viewVars
  <1> QED
    BY <1>1, <1>2, <1>3, <1>4, <1>5, <1>6, <1>7, <1>8, <1>9, <1>10, <1>11, <1>12, <1>13
    DEF ViewNext, Launch, Step

\* Type correctness: whatever commands overlap or fail, every run a command fills
\* exists and holds findings of the detectors, and a command that stores generated
\* rows knows the service they are about (architecture.py, orchestrator.py).
THEOREM ViewTypeCorrect == ViewSpec => []ViewTypeOK
  <1>1. ViewInit => ViewTypeOK
    BY InitViewType
  <1>2. ViewTypeOK /\ [ViewNext]_viewVars => ViewTypeOK'
    BY NextViewType
  <1> QED
    BY <1>1, <1>2, PTL DEF ViewSpec

(***************************************************************************)
(* The newest run.  A command that has stored a fact since the newest run  *)
(* was started owes a run of its own, so that while no command is on its   *)
(* way to one, the facts are those of when the newest run was started: it  *)
(* holds what the detectors called so far find in them.                    *)
(***************************************************************************)

\* Command c neither stores a fact nor starts a run before it is launched or
\* leaves its present run.
StoresNothing(c) == stage[c] \in {"idle", "detect", "ended", "aborted"}

\* Every fact stored is one that the newest run was started after.
AllReported == Len(runs) > lastAbort /\ \A c \in Commands : StoresNothing(c)

\* Command c fills the newest run.
Fills(c) == stage[c] = "detect" /\ view[c].run = Len(runs)

\* What the detectors before the n-th find in these facts.
FoundBefore(n, codeThen, iacThen) == UNION {FindingsOf(d, codeThen, iacThen) : d \in 1..(n - 1)}

\* Two commands never fill the same run.
OwnRuns ==
    \A c, o \in Commands :
        stage[c] = "detect" /\ stage[o] = "detect" /\ view[c].run = view[o].run => c = o

NewestRun ==
    AllReported =>
        /\ \A c \in Commands : Fills(c) =>
               runs[Len(runs)] \cup view[c].found = FoundBefore(view[c].next, code, iac)
        /\ (\A c \in Commands : ~Fills(c)) => runs[Len(runs)] = CurrentFindings

ViewInv == ViewTypeOK /\ OwnRuns /\ NewestRun

\* No detector finds nothing; one more adds its findings; all find all there is.
LEMMA FoundByNone ==
    ASSUME NEW codeThen, NEW iacThen
    PROVE  FoundBefore(1, codeThen, iacThen) = {}
  BY DEF FoundBefore

LEMMA FoundByNext ==
    ASSUME NEW n \in Nat \ {0}, NEW codeThen, NEW iacThen
    PROVE  FoundBefore(n + 1, codeThen, iacThen) =
               FoundBefore(n, codeThen, iacThen) \cup FindingsOf(n, codeThen, iacThen)
  <1>1. 1..((n + 1) - 1) = (1..(n - 1)) \cup {n}
    OBVIOUS
  <1> QED
    BY <1>1 DEF FoundBefore

LEMMA FoundByAll == FoundBefore(Detectors + 1, code, iac) = CurrentFindings
  <1>1. (Detectors + 1) - 1 = Detectors
    BY ArchitectureAssumption
  <1> QED
    BY <1>1 DEF FoundBefore, CurrentFindings

LEMMA InitView == ViewInit => ViewInv
  <1> SUFFICES ASSUME ViewInit PROVE ViewInv
    OBVIOUS
  <1>1. OwnRuns /\ NewestRun
    BY DEF ViewInit, OwnRuns, NewestRun, AllReported
  <1> QED
    BY <1>1, InitViewType DEF ViewInv

\* A command on its way to a run of its own takes the promise back.
LEMMA OwesRun ==
    ASSUME ViewInv, NEW c \in Commands,
           NEW s \in {"analyze", "generate", "start", "delete", "scan"},
           stage' = [stage EXCEPT ![c] = s], UNCHANGED <<runs, view>>
    PROVE  OwnRuns' /\ NewestRun'
  <1>1. stage'[c] = s /\ \A o \in Commands : stage'[o] = "detect" => stage[o] = "detect"
    BY DEF ViewInv, ViewTypeOK
  <1>2. ~AllReported'
    BY <1>1 DEF AllReported, StoresNothing
  <1> QED
    BY <1>1, <1>2 DEF ViewInv, OwnRuns, NewestRun

LEMMA NextView == ViewInv /\ [ViewNext]_viewVars => ViewInv'
  <1> SUFFICES ASSUME ViewInv, [ViewNext]_viewVars
               PROVE  OwnRuns' /\ NewestRun'
    BY NextViewType DEF ViewInv
  <1>t. ViewTypeOK /\ ViewTypeOK'
    BY NextViewType DEF ViewInv
  <1>l. Len(runs) \in Nat /\ lastAbort \in Nat
    BY <1>t DEF ViewTypeOK
  <1>1. ASSUME NEW c \in Commands, NEW r \in Checkouts,
               NEW found \in SUBSET ServicesIn(r), LaunchIndex(c, r, found)
        PROVE  OwnRuns' /\ NewestRun'
    BY <1>1, OwesRun DEF LaunchIndex
  <1>2. ASSUME NEW c \in Commands, NEW s \in Services, LaunchUpdate(c, s)
        PROVE  OwnRuns' /\ NewestRun'
    BY <1>2, OwesRun DEF LaunchUpdate
  <1>3. ASSUME NEW c \in Commands, NEW r \in Checkouts, LaunchRemove(c, r)
        PROVE  OwnRuns' /\ NewestRun'
    BY <1>3, OwesRun DEF LaunchRemove
  <1>4. ASSUME NEW c \in Commands, NEW s \in Services, StoreAnalysis(c, s)
        PROVE  OwnRuns' /\ NewestRun'
    BY <1>4, OwesRun DEF StoreAnalysis
  <1>5. ASSUME NEW c \in Commands, StoreGenerated(c) PROVE OwnRuns' /\ NewestRun'
    BY <1>5, OwesRun DEF StoreGenerated
  <1>6. ASSUME NEW c \in Commands, DeleteAbsent(c) PROVE OwnRuns' /\ NewestRun'
    BY <1>6, OwesRun DEF DeleteAbsent
  <1>7. ASSUME NEW c \in Commands, ReplaceIac(c) PROVE OwnRuns' /\ NewestRun'
    <2>1. PICK s \in {"scan", "start"} : stage' = [stage EXCEPT ![c] = s]
      BY <1>7 DEF ReplaceIac, ReplaceTable
    <2> QED
      BY <1>7, <2>1, OwesRun DEF ReplaceIac, ReplaceTable
  <1>8. ASSUME NEW c \in Commands, StartRun(c) PROVE OwnRuns' /\ NewestRun'
    <2>1. Len(runs') = Len(runs) + 1 /\ runs'[Len(runs')] = {}
      BY <1>8, <1>t, AppendProperties DEF StartRun, ViewTypeOK
    <2>2. /\ view'[c].run = Len(runs') /\ view'[c].next = 1 /\ view'[c].found = {}
          /\ stage'[c] = "detect"
      BY <1>8, <1>t, <2>1 DEF StartRun, ViewTypeOK
    <2>3. ASSUME NEW o \in Commands \ {c}, stage'[o] = "detect"
          PROVE  /\ stage[o] = "detect" /\ view'[o] = view[o]
                 /\ view'[o].run # Len(runs')
      BY <1>8, <1>t, <1>l, <2>1, <2>3 DEF StartRun, ViewTypeOK
    <2>4. OwnRuns'
      BY <2>2, <2>3 DEF OwnRuns, ViewInv
    <2>5. FoundBefore(1, code', iac') = {}
      BY FoundByNone
    <2> QED
      BY <2>1, <2>2, <2>3, <2>4, <2>5 DEF NewestRun, Fills
  <1>9. ASSUME NEW c \in Commands, RunDetector(c) PROVE OwnRuns' /\ NewestRun'
    <2>1. view[c].next \in Nat \ {0} /\ UNCHANGED <<code, iac, runs, stage, lastAbort>>
      BY <1>9, <1>t, ArchitectureAssumption DEF RunDetector, ViewTypeOK, Views
    <2>2. /\ view'[c].next = view[c].next + 1
          /\ view'[c].run = view[c].run
          /\ view[c].found = {}
          /\ view'[c].found = FindingsOf(view[c].next, code, iac)
      BY <1>9, <1>t DEF RunDetector, ViewTypeOK, Views
    <2>3. \A o \in Commands \ {c} : view'[o] = view[o]
      BY <1>9, <1>t DEF RunDetector, ViewTypeOK
    <2>4. OwnRuns' /\ (AllReported' => AllReported) /\ \A o \in Commands : (Fills(o)' <=> Fills(o))
      BY <2>1, <2>2, <2>3 DEF ViewInv, OwnRuns, AllReported, StoresNothing, Fills
    <2>5. FoundBefore(view'[c].next, code', iac') =
              FoundBefore(view[c].next, code, iac) \cup view'[c].found
      BY <2>1, <2>2, FoundByNext
    <2> QED
      BY <2>1, <2>2, <2>3, <2>4, <2>5 DEF ViewInv, NewestRun, CurrentFindings
  <1>10. ASSUME NEW c \in Commands, RecordFinding(c) PROVE OwnRuns' /\ NewestRun'
    <2>1. PICK f \in view[c].found :
             /\ runs' = [runs EXCEPT ![view[c].run] = @ \cup {f}]
             /\ view' = [view EXCEPT ![c].found = @ \ {f}]
      BY <1>10 DEF RecordFinding
    <2>2. /\ stage[c] = "detect" /\ view[c].run \in 1..Len(runs)
          /\ UNCHANGED <<code, iac, stage, lastAbort>>
      BY <1>10, <1>t DEF RecordFinding, ViewTypeOK
    <2>3. /\ Len(runs') = Len(runs)
          /\ \A i \in 1..Len(runs) :
                runs'[i] = IF i = view[c].run THEN runs[i] \cup {f} ELSE runs[i]
      <3>1. f \in Findings /\ runs[view[c].run] \cup {f} \in SUBSET Findings
        BY <2>1, <2>2, <1>t DEF ViewTypeOK, Views
      <3>2. runs \in Seq(SUBSET Findings) /\ DOMAIN runs = 1..Len(runs)
        BY <1>t DEF ViewTypeOK
      <3>3. Len(runs') = Len(runs)
        BY <2>1, <2>2, <3>1, <3>2, ExceptSeq
      <3> QED
        BY <2>1, <3>2, <3>3
    <2>4. /\ view'[c].next = view[c].next
          /\ view'[c].run = view[c].run
          /\ view'[c].found = view[c].found \ {f}
          /\ \A o \in Commands \ {c} : view'[o] = view[o]
      BY <2>1, <1>t DEF ViewTypeOK, Views
    <2>5. /\ OwnRuns' /\ (AllReported' => AllReported)
          /\ \A o \in Commands : (Fills(o)' <=> Fills(o))
          /\ CurrentFindings' = CurrentFindings
      BY <2>2, <2>3, <2>4
      DEF ViewInv, OwnRuns, AllReported, StoresNothing, Fills, CurrentFindings
    <2>6. CASE Fills(c)
      <3>1. \A o \in Commands : Fills(o) => o = c
        BY <2>6 DEF Fills, ViewInv, OwnRuns
      <3>2. runs'[Len(runs')] \cup view'[c].found = runs[Len(runs)] \cup view[c].found
        BY <2>1, <2>2, <2>3, <2>4, <2>6 DEF Fills
      <3> QED
        BY <2>2, <2>4, <2>5, <2>6, <3>1, <3>2 DEF ViewInv, NewestRun
    <2>7. CASE ~Fills(c)
      <3>1. AllReported => runs'[Len(runs')] = runs[Len(runs)]
        <4>1. AllReported => Len(runs) \in 1..Len(runs)
          BY <1>l DEF AllReported
        <4>2. view[c].run # Len(runs)
          BY <2>2, <2>7 DEF Fills
        <4> QED
          BY <2>3, <4>1, <4>2
      <3>2. \A o \in Commands : Fills(o) => view'[o] = view[o]
        BY <2>4, <2>7
      <3> QED
        BY <2>2, <2>5, <3>1, <3>2 DEF ViewInv, NewestRun
    <2> QED
      BY <2>6, <2>7
  <1>11. ASSUME NEW c \in Commands, FinishRun(c) PROVE OwnRuns' /\ NewestRun'
    <2>1. CASE job[c].left # {} \/ job[c].tables > 0
      BY <1>11, <2>1, OwesRun DEF FinishRun
    <2>2. CASE job[c].left = {} /\ ~(job[c].tables > 0)
      <3>1. /\ stage' = [stage EXCEPT ![c] = "ended"]
            /\ UNCHANGED <<code, iac, runs, view, lastAbort>>
        BY <1>11, <2>2 DEF FinishRun
      <3>2. stage'[c] = "ended" /\ \A o \in Commands \ {c} : stage'[o] = stage[o]
        BY <3>1, <1>t DEF ViewTypeOK
      <3>3. /\ OwnRuns'
            /\ AllReported' => AllReported
            /\ ~Fills(c)' /\ \A o \in Commands \ {c} : (Fills(o)' <=> Fills(o))
            /\ CurrentFindings' = CurrentFindings
          <4>1. AllReported' => AllReported
          BY <1>11, <3>1, <3>2 DEF FinishRun, AllReported, StoresNothing
        <4> QED
          BY <3>1, <3>2, <4>1
          DEF ViewInv, OwnRuns, Fills, CurrentFindings
      <3>4. CASE Fills(c)
        <4>1. view[c].found = {} /\ view[c].next = Detectors + 1
          BY <1>11, <1>t, ArchitectureAssumption DEF FinishRun, ViewTypeOK, Views
        <4>2. AllReported => runs[Len(runs)] = CurrentFindings
          BY <3>4, <4>1, FoundByAll DEF ViewInv, NewestRun
        <4>3. \A o \in Commands \ {c} : ~Fills(o)
          BY <3>4 DEF Fills, ViewInv, OwnRuns
        <4> QED
          BY <3>1, <3>3, <4>2, <4>3 DEF NewestRun
      <3>5. CASE ~Fills(c)
        BY <3>1, <3>3, <3>5 DEF ViewInv, NewestRun
      <3> QED
        BY <3>4, <3>5
    <2> QED
      BY <2>1, <2>2
  <1>12. ASSUME NEW c \in Commands, Abort(c) PROVE OwnRuns' /\ NewestRun'
    <2>1. ~AllReported'
      BY <1>12, <1>l DEF Abort, AllReported
    <2>2. \A o \in Commands : stage'[o] = "detect" => stage[o] = "detect"
      BY <1>12, <1>t DEF Abort, ViewTypeOK
    <2> QED
      BY <1>12, <2>1, <2>2 DEF Abort, ViewInv, OwnRuns, NewestRun
  <1>13. CASE UNCHANGED viewVars
    BY <1>13 DEF viewVars, ViewInv, OwnRuns, NewestRun, AllReported, StoresNothing, Fills,
       CurrentFindings
  <1> QED
    BY <1>1, <1>2, <1>3, <1>4, <1>5, <1>6, <1>7, <1>8, <1>9, <1>10, <1>11, <1>12, <1>13
    DEF ViewNext, Launch, Step

LEMMA ViewHolds == ViewInv => QuietViewCurrent
  <1> SUFFICES ASSUME ViewInv, \A c \in Commands : ~Running(c), Len(runs) > lastAbort
               PROVE  runs[Len(runs)] = CurrentFindings
    BY DEF QuietViewCurrent, ViewCurrent
  <1>1. \A c \in Commands : stage[c] \in {"idle", "ended", "aborted"}
    BY DEF Running
  <1> QED
    BY <1>1 DEF ViewInv, NewestRun, AllReported, StoresNothing, Fills

\* However index, update and remove commands of several processes overlap: once
\* none is running, and none failed since the newest run was started, the newest
\* run holds exactly what the detectors find in the stored facts
\* (architecture.py, recompute_architecture_view).
THEOREM QuietViewsAreCurrent == ViewSpec => []QuietViewCurrent
  <1>1. ViewInit => ViewInv
    BY InitView
  <1>2. ViewInv /\ [ViewNext]_viewVars => ViewInv'
    BY NextView
  <1>3. ViewInv => QuietViewCurrent
    BY ViewHolds
  <1> QED
    BY <1>1, <1>2, <1>3, PTL DEF ViewSpec
=============================================================================
