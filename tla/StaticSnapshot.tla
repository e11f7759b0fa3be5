--------------------------- MODULE StaticSnapshot ---------------------------
(***************************************************************************)
(* Reuse of the static analysis of one service: the digest of the          *)
(* analyzer's inputs, the snapshot row that remembers it, and the SQLite   *)
(* transaction that facts and snapshot are written in                      *)
(* (orbitkb/generation/orchestrator.py:550-568, input_digest in            *)
(* orbitkb/analysis/engine.py, orbitkb/db/repositories/static_analysis.py  *)
(* and flows.py).                                                          *)
(*                                                                         *)
(* Digests and analysis read the input files one by one while others edit  *)
(* them.  A digest is the versions it was computed from.  Runs of one      *)
(* service exclude each other (IndexRuns).                                 *)
(***************************************************************************)
EXTENDS Naturals

CONSTANTS
    Inputs,      \* the local artifacts the analyzer reads
    Nothing,     \* no row
    MaxClock,    \* bound on the versions files may take
    MaxAnalyzer, \* bound on STATIC_ANALYSIS_INPUT_VERSION
    Reverts,     \* may an edit bring back an older content?
    Interrupts   \* may an exception end replace_analysis between its statements?

Versions == 1..MaxClock

Trees == [Inputs -> Versions]

\* What the analysis of these inputs by this analyzer yields; deep when an
\* external depth provider added edges, whole unless rows are missing.
Facts == [made : Trees, by : 1..MaxAnalyzer, deep : BOOLEAN, whole : BOOLEAN]

Snapshot == [digest : Trees, by : 1..MaxAnalyzer]

Tables == [facts : Facts \cup {Nothing}, snapshot : Snapshot \cup {Nothing}]

ASSUME SnapshotAssumption ==
    /\ MaxClock \in Nat \ {0} /\ MaxAnalyzer \in Nat \ {0}
    /\ Reverts \in BOOLEAN /\ Interrupts \in BOOLEAN
    /\ Nothing \notin Facts \cup Snapshot

VARIABLES
    tree,      \* the inputs on disk
    clock,     \* the newest version any input has had
    analyzer,  \* STATIC_ANALYSIS_INPUT_VERSION of the installed program
    store,     \* the committed tables
    work,      \* the tables as the run's open transaction sees them
    pc,        \* where the run is
    mode,      \* --force, and whether a depth provider is configured
    todo,      \* inputs still to read in the current pass
    first,     \* static_digest
    seen,      \* the inputs as the analysis read them
    again,     \* the digest computed after the analysis
    still      \* no input has changed since the run began

vars == <<tree, clock, analyzer, store, work, pc, mode, todo, first, seen, again, still>>

PCs == {"idle", "digest", "analyze", "insert", "recheck", "commit"}

TypeOK ==
    /\ tree \in Trees /\ first \in Trees /\ seen \in Trees /\ again \in Trees
    /\ clock \in Versions
    /\ analyzer \in 1..MaxAnalyzer
    /\ store \in Tables /\ work \in Tables
    /\ pc \in PCs
    /\ mode \in [force : BOOLEAN, external : BOOLEAN]
    /\ todo \in SUBSET Inputs
    /\ still \in BOOLEAN

Init ==
    /\ tree = [f \in Inputs |-> 1]
    /\ clock = 1
    /\ analyzer = 1
    /\ store = [facts |-> Nothing, snapshot |-> Nothing]
    /\ work = store
    /\ pc = "idle"
    /\ mode = [force |-> FALSE, external |-> FALSE]
    /\ todo = {}
    /\ first = tree /\ seen = tree /\ again = tree
    /\ still = TRUE

(***************************************************************************)
(* The world around a run                                                  *)
(***************************************************************************)

\* An input gets a new content, or an older one when Reverts.
Edit(f) ==
    /\ \/ /\ clock < MaxClock
          /\ clock' = clock + 1
          /\ tree' = [tree EXCEPT ![f] = clock + 1]
       \/ /\ Reverts
          /\ \E v \in 1..clock \ {tree[f]} : tree' = [tree EXCEPT ![f] = v]
          /\ UNCHANGED clock
    /\ still' = FALSE
    /\ UNCHANGED <<analyzer, store, work, pc, mode, todo, first, seen, again>>

\* A new release of the program, between two runs.
Upgrade ==
    /\ pc = "idle"
    /\ analyzer < MaxAnalyzer
    /\ analyzer' = analyzer + 1
    /\ UNCHANGED <<tree, clock, store, work, pc, mode, todo, first, seen, again, still>>

(***************************************************************************)
(* _index_service_unlocked, lines 550 to 567                               *)
(***************************************************************************)

\* The next pass over the inputs.
Pass(label) ==
    /\ pc' = label
    /\ todo' = Inputs

BeginRun(force, external) ==
    /\ pc = "idle"
    /\ mode' = [force |-> force, external |-> external]
    /\ still' = TRUE
    /\ Pass("digest")
    /\ UNCHANGED <<tree, clock, analyzer, store, work, first, seen, again>>

\* One file of input_digest, before or after the analysis, or of analyze.
ReadInput(f) ==
    /\ f \in todo
    /\ todo' = todo \ {f}
    /\ \/ pc = "digest" /\ first' = [first EXCEPT ![f] = tree[f]] /\ UNCHANGED <<seen, again>>
       \/ pc = "analyze" /\ seen' = [seen EXCEPT ![f] = tree[f]] /\ UNCHANGED <<first, again>>
       \/ pc = "recheck" /\ again' = [again EXCEPT ![f] = tree[f]] /\ UNCHANGED <<first, seen>>
    /\ UNCHANGED <<tree, clock, analyzer, store, work, pc, mode, still>>

\* static_analysis_is_current
Current ==
    /\ ~mode.external /\ ~mode.force
    /\ work.snapshot = [digest |-> first, by |-> analyzer]

\* The stored facts are reused.
Reuse ==
    /\ pc = "digest" /\ todo = {}
    /\ Current
    /\ pc' = "commit"
    /\ UNCHANGED <<tree, clock, analyzer, store, work, mode, todo, first, seen, again, still>>

\* Faulty variant of Bypass: an external provider leaves the snapshot in place.
KeepSnapshot ==
    /\ pc = "digest" /\ todo = {}
    /\ ~Current
    /\ Pass("analyze")
    /\ UNCHANGED <<tree, clock, analyzer, store, work, mode, first, seen, again, still>>

\* They are not; facts with external enrichment never keep a snapshot.
Bypass ==
    /\ pc = "digest" /\ todo = {}
    /\ ~Current
    /\ work' = IF mode.external THEN [work EXCEPT !.snapshot = Nothing] ELSE work
    /\ Pass("analyze")
    /\ UNCHANGED <<tree, clock, analyzer, store, mode, first, seen, again, still>>

Analysis(whole) ==
    [made |-> seen, by |-> analyzer, deep |-> mode.external, whole |-> whole]

\* replace_analysis deletes the old rows, then inserts the new ones.
DeleteFacts ==
    /\ pc = "analyze" /\ todo = {}
    /\ work' = [work EXCEPT !.facts = Analysis(FALSE)]
    /\ pc' = "insert"
    /\ UNCHANGED <<tree, clock, analyzer, store, mode, todo, first, seen, again, still>>

InsertFacts ==
    /\ pc = "insert"
    /\ work' = [work EXCEPT !.facts = Analysis(TRUE)]
    /\ IF mode.external THEN pc' = "commit" /\ UNCHANGED todo ELSE Pass("recheck")
    /\ UNCHANGED <<tree, clock, analyzer, store, mode, first, seen, again, still>>

\* Faulty variants of RecordSnapshot: without the second digest, without a
\* snapshot, and without the analyzer's version.
Record(work2) ==
    /\ pc = "recheck" /\ todo = {}
    /\ work' = work2
    /\ pc' = "commit"
    /\ UNCHANGED <<tree, clock, analyzer, store, mode, todo, first, seen, again, still>>

RecordFirstDigest == Record([work EXCEPT !.snapshot = [digest |-> first, by |-> analyzer]])

RecordNothing == Record(work)

RecordNoVersion == Record([work EXCEPT !.snapshot = [digest |-> first]])

\* replace_snapshot, only when the second digest equals the first.
RecordSnapshot ==
    /\ pc = "recheck" /\ todo = {}
    /\ work' = IF again = first
               THEN [work EXCEPT !.snapshot = [digest |-> first, by |-> analyzer]]
               ELSE work
    /\ pc' = "commit"
    /\ UNCHANGED <<tree, clock, analyzer, store, mode, todo, first, seen, again, still>>

\* recover_unfinished_runs is the next to commit; the run goes on elsewhere.
Commit ==
    /\ pc = "commit"
    /\ store' = work
    /\ pc' = "idle"
    /\ UNCHANGED <<tree, clock, analyzer, work, mode, todo, first, seen, again, still>>

(***************************************************************************)
(* Failures                                                                *)
(***************************************************************************)

\* The process is killed: SQLite rolls the transaction back.
Crash ==
    /\ pc # "idle"
    /\ pc' = "idle"
    /\ work' = store
    /\ todo' = {}
    /\ UNCHANGED <<tree, clock, analyzer, store, mode, first, seen, again, still>>

\* An exception, Ctrl-C included: release_service_lock in the finally clause of
\* index_service commits what the transaction holds by then.
Interrupt ==
    /\ pc # "idle"
    /\ pc = "insert" => Interrupts
    /\ pc' = "idle"
    /\ store' = work
    /\ todo' = {}
    /\ UNCHANGED <<tree, clock, analyzer, work, mode, first, seen, again, still>>

Next ==
    \/ \E f \in Inputs : Edit(f) \/ ReadInput(f)
    \/ Upgrade
    \/ \E force, external \in BOOLEAN : BeginRun(force, external)
    \/ Reuse \/ Bypass \/ DeleteFacts \/ InsertFacts \/ RecordSnapshot \/ Commit
    \/ Crash \/ Interrupt

Spec == Init /\ [][Next]_vars

(***************************************************************************)
(* Properties                                                              *)
(***************************************************************************)

\* What a plain run over the inputs as they are would reuse is what it would
\* compute: whole, by this analyzer, from these inputs and without enrichment.
\* Neither an edit during any of the three passes, nor a crash, nor an external
\* run in between, nor a new release leaves a snapshot that lies (INTERFACE.md:38).
SnapshotTrusted ==
    store.snapshot = [digest |-> tree, by |-> analyzer] =>
        store.facts = [made |-> tree, by |-> analyzer, deep |-> FALSE, whole |-> TRUE]

\* A snapshot that is new describes the facts it is committed with, although the
\* digest and the analysis read the files at different times: this is what the
\* second digest is for (orchestrator.py:563-567).
NewSnapshotIsTrue ==
    [][store'.snapshot \notin {store.snapshot, Nothing} =>
         /\ store'.facts.whole /\ ~store'.facts.deep
         /\ [digest |-> store'.facts.made, by |-> store'.facts.by] = store'.snapshot]_vars

\* A run without depth provider that commits while the inputs stood still leaves
\* a snapshot of them, so that the next one skips the analysis (README.md:287).
StillRunIsReusable ==
    [][pc = "commit" /\ store' = work /\ still /\ ~mode.external =>
         store'.snapshot = [digest |-> tree, by |-> analyzer]]_vars

\* Other readers of the database see the facts of a whole scan: what the docstring
\* of replace_analysis calls atomic (flows.py:12).
FactsAreWhole == store.facts # Nothing => store.facts.whole
=============================================================================
