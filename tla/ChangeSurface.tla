---------------------------- MODULE ChangeSurface ----------------------------
(***************************************************************************)
(* The life of a change surface: find_change_surface retrieves candidates, *)
(* has an LLM give them roles and records a run; get_change_context goes   *)
(* on to a briefing and its telemetry; later `orbitkb verify` compares a   *)
(* run, and `orbitkb context-verify` a briefing, with the files that git   *)
(* says have changed, and feedback is kept with the run.                   *)
(*                                                                         *)
(* Index runs of other processes change the services table between any two *)
(* of these steps.  A run remembers services by name, the telemetry by     *)
(* rowid.  Roots and files are paths, as sequences of segments.  Retrieval *)
(* reads the table in one step.  Confidence, evidence and the other        *)
(* sections of the answer are left out.                                    *)
(***************************************************************************)
EXTENDS CandidateRetrieval

CONSTANTS
    StartTables,      \* the table at the start
    Indexings,        \* [name, root, repo] that index runs may store
    Found,            \* sets of names a search may answer, of which the indexed ones count
    HintLists,        \* hint_services
    Rankings,         \* names by similarity, of which the indexed ones count
    Answers,          \* what the LLM may answer: [primary, secondary, no_change]
    StaticCallsOf,    \* StaticCallsOf[n]: names called, in the order of the source
    MaxDependencies,  \* static dependencies added to a run
    MaxServices,      \* cards of a briefing
    Diffs,            \* sets of changed files
    Unreadable,       \* a diff that git did not give
    MaxChanges,       \* bound of the model: changes of the table
    MaxRuns,          \* bound of the model: runs recorded
    MaxVerdicts       \* bound of the model: verifications started

ASSUME ChangeAssumption ==
    /\ StartTables \subseteq Tables
    /\ Indexings \subseteq Row
    /\ Found \subseteq SUBSET Names
    /\ HintLists \subseteq Seq(Names) /\ Rankings \subseteq Seq(Names)
    /\ \A root \in Roots : Len(root) \in Nat

VARIABLES
    services,  \* the services table
    changes,   \* how often it has changed
    find,      \* the find in progress, or Idle
    runs,      \* sequence of recorded runs
    contexts,  \* sequence of recorded briefings
    job,       \* the verification in progress, or Idle
    verdicts,  \* sequence of verifications: of a run, with what it had read
    feedback   \* sequence of [run, service, outcome, by]

vars == <<services, changes, find, runs, contexts, job, verdicts, feedback>>

Idle == [stage |-> "idle"]

Init ==
    /\ services \in StartTables
    /\ changes = 0
    /\ find = Idle
    /\ runs = <<>>
    /\ contexts = <<>>
    /\ job = Idle
    /\ verdicts = <<>>
    /\ feedback = <<>>

-----------------------------------------------------------------------------
(* Other processes.                                                         *)

Ensure(x) ==
    /\ changes < MaxChanges
    /\ \E i \in Ids : EnsuresRow(services, x.name, x.root, x.repo, i, services')
    /\ services' # services
    /\ changes' = changes + 1
    /\ UNCHANGED <<find, runs, contexts, job, verdicts, feedback>>

DeleteRow(i) ==
    /\ changes < MaxChanges
    /\ services[i] # None
    /\ services' = [services EXCEPT ![i] = None]
    /\ changes' = changes + 1
    /\ UNCHANGED <<find, runs, contexts, job, verdicts, feedback>>

-----------------------------------------------------------------------------
(* find_change_surface, and get_change_context which begins with it.        *)

\* Without the embeddings extra there is only the lexical list.
Retrieve(wanted, scope, found, hints, ranked, hybrid) ==
    LET known == IndexedNames(services, scope)
        lexical == LexicalCandidates(services, found \cap known, hints, scope)
        semantic == SemanticCandidates(services, Among(ranked, known), hints, scope)
        candidates == IF hybrid THEN HybridCandidates(lexical, semantic) ELSE lexical
    IN  /\ find = Idle
        /\ Len(runs) < MaxRuns
        /\ scope = NoRepo => DuplicateNames(services) = {}
        /\ candidates # <<>>
        /\ find' = [stage |-> "retrieved", wanted |-> wanted, scope |-> scope,
                    candidates |-> candidates, lexical |-> lexical,
                    semantic |-> IF hybrid THEN semantic ELSE <<>>,
                    known |-> known,
                    near |-> WithinTwoHops(services, (found \cap known) \cup ToSet(hints), scope)]
        /\ UNCHANGED <<services, changes, runs, contexts, job, verdicts, feedback>>

\* _build_context subscripts the row of every candidate: one that has gone, or
\* whose name has become ambiguous, ends the call with a TypeError.
BuildContext ==
    /\ find.stage = "retrieved"
    /\ find' = IF ToSet(find.candidates) \subseteq IndexedNames(services, find.scope)
               THEN [stage |-> "asking", wanted |-> find.wanted, scope |-> find.scope,
                     candidates |-> find.candidates]
               ELSE Idle
    /\ UNCHANGED <<services, changes, runs, contexts, job, verdicts, feedback>>

\* _filter_known
FilterKnown(names, known) == SelectSeq(names, LAMBDA n : n \in known)

\* resolve_service_reference: the only one of that name, or the only one of it
\* in the repository of the caller.
ResolvedReference(i, name) ==
    LET all == NamedRows(services, name, NoRepo)
        local == {j \in all : services[j].repo = services[i].repo}
    IN  IF Cardinality(all) = 1 THEN all
        ELSE IF services[i].repo # NoRepo /\ Cardinality(local) = 1 THEN local ELSE {}

\* _derive_static_dependency_findings: the rows called, each once, cut at the limit.
StaticDependencies(primary, excluded, scope) ==
    LET eligible(i, name) ==
            {j \in ResolvedReference(i, name) : /\ services[j].name \notin excluded
                                                /\ scope # NoRepo => services[j].repo = scope}
        called(n) ==
            FlattenSeq([k \in DOMAIN StaticCallsOf[n] |->
                SetToSeq(UNION {eligible(i, StaticCallsOf[n][k]) : i \in Meant(services, n, scope)})])
        targets ==
            FoldLeft(LAMBDA kept, j : IF Len(kept) = MaxDependencies \/ j \in ToSet(kept)
                                      THEN kept ELSE Append(kept, j),
                     <<>>, FlattenSeq([k \in DOMAIN primary |-> called(primary[k])]))
    IN  [k \in DOMAIN targets |-> services[targets[k]].name]

Answer(a) ==
    LET known == ToSet(find.candidates)
        primary == FilterKnown(a.primary, known)
        secondary == FilterKnown(a.secondary, known)
        noChange == FilterKnown(a.no_change, known)
        given == ToSet(primary) \cup ToSet(secondary) \cup ToSet(noChange)
    IN  /\ find.stage = "asking"
        /\ find' = [stage |-> "answered", wanted |-> find.wanted, scope |-> find.scope,
                    primary |-> primary,
                    secondary |-> secondary \o StaticDependencies(primary, given, find.scope),
                    no_change |-> noChange]
        /\ UNCHANGED <<services, changes, runs, contexts, job, verdicts, feedback>>

\* No answer that fits the schema after the retries, or the caller gives up.
FailFind ==
    /\ find.stage \in {"asking", "answered", "shown"}
    /\ find' = Idle
    /\ UNCHANGED <<services, changes, runs, contexts, job, verdicts, feedback>>

\* _selected_service_names
SelectedNames(run) ==
    LET names == FoldLeft(LAMBDA kept, n : IF n \in ToSet(kept) THEN kept ELSE Append(kept, n),
                          <<>>, run.primary \o run.secondary)
    IN  SubSeq(names, 1, IF Len(names) < MaxServices THEN Len(names) ELSE MaxServices)

\* record_change_surface_run
RecordRun ==
    /\ find.stage = "answered"
    /\ runs' = Append(runs, [primary |-> find.primary, secondary |-> find.secondary,
                             no_change |-> find.no_change])
    /\ find' = IF find.wanted = "surface" THEN Idle
               ELSE [stage |-> "selecting", scope |-> find.scope, run |-> Len(runs) + 1]
    /\ UNCHANGED <<services, changes, contexts, job, verdicts, feedback>>

\* build_change_context: a card for every selected service that is still there.
ShowCards ==
    /\ find.stage = "selecting"
    /\ find' = [stage |-> "shown", scope |-> find.scope, run |-> find.run,
                cards |-> SelectSeq(SelectedNames(runs[find.run]),
                                    LAMBDA n : n \in IndexedNames(services, find.scope))]
    /\ UNCHANGED <<services, changes, runs, contexts, job, verdicts, feedback>>

\* _record_context_telemetry resolves the names of the cards once more.
RecordTelemetry ==
    /\ find.stage = "shown"
    /\ contexts' = Append(contexts,
           [run |-> find.run,
            included |-> UNION {Meant(services, n, find.scope) : n \in ToSet(find.cards)}])
    /\ find' = Idle
    /\ UNCHANGED <<services, changes, runs, job, verdicts, feedback>>

-----------------------------------------------------------------------------
(* Verification against git.                                               *)

\* git_changed_files: a diff that could not be read is an empty one.
ChangedFiles(diff) == IF diff = Unreadable THEN {} ELSE diff

Holders(rows, file) == {r \in rows : IsPrefix(r.root, file)}

\* Faulty variant of Attributed: the shortest root wins.
AttributedOutermost(rows, file) ==
    {n \in Names : \E r \in Holders(rows, file) :
        r.name = n /\ \A q \in Holders(rows, file) : Len(r.root) <= Len(q.root)}

\* The name of the service with the longest root that holds the file; of two
\* with the same root, the first in the order of names.
Attributed(rows, file) ==
    LET deepest == {r \in Holders(rows, file) : \A q \in Holders(rows, file) : Len(q.root) <= Len(r.root)}
    IN  {n \in Names : (\E r \in deepest : r.name = n) /\ \A q \in deepest : n <= q.name}

ActuallyChanged(rows, diff) == UNION {Attributed(rows, f) : f \in ChangedFiles(diff)}

ServicesIn(repo) == {services[i] : i \in {k \in RowIds(services) : services[k].repo = repo}}

\* The services that a run predicted: by name, in primary or secondary role.
Predicted(run) == ToSet(run.primary) \cup ToSet(run.secondary)

PredictedIn(run, rows) == Predicted(run) \cap {r.name : r \in rows}

Outcomes(predicted, actual) ==
    LET said(names, outcome) == [k \in 1..Cardinality(names) |->
            [service |-> Sorted(names)[k], outcome |-> outcome]]
    IN  said(predicted \cap actual, "confirmed") \o said(predicted \ actual, "rejected")

\* verify_change_surface, up to its first write.  The verification in progress
\* keeps what it has read; its number ties its feedback to its row.
StartVerify(r, repo, diff, recording) ==
    LET rows == ServicesIn(repo)
        predicted == PredictedIn(runs[r], rows)
        actual == ActuallyChanged(rows, diff)
    IN  /\ job = Idle
        /\ Len(verdicts) < MaxVerdicts
        /\ job' = [stage |-> "verifying", run |-> r, rows |-> rows, diff |-> diff,
                   true_positives |-> predicted \cap actual,
                   false_positives |-> predicted \ actual,
                   false_negatives |-> actual \ predicted,
                   recording |-> recording,
                   owed |-> IF recording THEN Outcomes(predicted, actual) ELSE <<>>]
        /\ UNCHANGED <<services, changes, find, runs, contexts, verdicts, feedback>>

\* record_change_surface_feedback of the repository module, one commit per service.
RecordFeedback ==
    /\ job.stage = "verifying"
    /\ job.owed # <<>>
    /\ feedback' = Append(feedback,
           [run |-> job.run, service |-> Head(job.owed).service,
            outcome |-> Head(job.owed).outcome, by |-> Len(verdicts) + 1])
    /\ job' = [job EXCEPT !.owed = Tail(@)]
    /\ UNCHANGED <<services, changes, find, runs, contexts, verdicts>>

RecordVerification ==
    /\ job.stage = "verifying"
    /\ job.owed = <<>>
    /\ verdicts' = Append(verdicts, job)
    /\ job' = Idle
    /\ UNCHANGED <<services, changes, find, runs, contexts, feedback>>

\* The process ends before the verification row: the feedback given stays.
InterruptVerify ==
    /\ job.stage = "verifying"
    /\ verdicts' = Append(verdicts, [job EXCEPT !.stage = "interrupted"])
    /\ job' = Idle
    /\ UNCHANGED <<services, changes, find, runs, contexts, feedback>>

\* verify_context_budget: reads, and one commit.
VerifyContext(c, repo, diff) ==
    LET rows == {i \in RowIds(services) : services[i].repo = repo}
        changed == {i \in rows : services[i].name \in ActuallyChanged(ServicesIn(repo), diff)}
    IN  /\ job = Idle
        /\ Len(verdicts) < MaxVerdicts
        /\ verdicts' = Append(verdicts, [stage |-> "context", run |-> contexts[c].run,
                                         predicted |-> contexts[c].included \cap rows,
                                         actual |-> changed])
        /\ UNCHANGED <<services, changes, find, runs, contexts, job, feedback>>

\* The tool record_change_surface_feedback: an agent says how a finding of a run
\* turned out.  The model is bounded to one report.
ReportFeedback(r, name, outcome) ==
    /\ \A k \in DOMAIN feedback : feedback[k].by # 0
    /\ name \in Predicted(runs[r]) \cup ToSet(runs[r].no_change)
    /\ feedback' = Append(feedback, [run |-> r, service |-> name, outcome |-> outcome, by |-> 0])
    /\ UNCHANGED <<services, changes, find, runs, contexts, job, verdicts>>

-----------------------------------------------------------------------------

Next ==
    \/ \E x \in Indexings : Ensure(x)
    \/ \E i \in Ids : DeleteRow(i)
    \/ \E wanted \in {"surface", "context"}, scope \in Scopes, found \in Found,
         hints \in HintLists, ranked \in Rankings, hybrid \in BOOLEAN :
            Retrieve(wanted, scope, found, hints, ranked, hybrid)
    \/ BuildContext
    \/ \E a \in Answers : Answer(a)
    \/ FailFind
    \/ RecordRun
    \/ ShowCards
    \/ RecordTelemetry
    \/ \E r \in DOMAIN runs, repo \in Repos, diff \in Diffs \cup {Unreadable}, recording \in BOOLEAN :
            StartVerify(r, repo, diff, recording)
    \/ RecordFeedback
    \/ RecordVerification
    \/ InterruptVerify
    \/ \E c \in DOMAIN contexts, repo \in Repos, diff \in Diffs \cup {Unreadable} :
            VerifyContext(c, repo, diff)
    \/ \E r \in DOMAIN runs, name \in Names, outcome \in {"confirmed", "rejected"} :
            ReportFeedback(r, name, outcome)

Spec == Init /\ [][Next]_vars

-----------------------------------------------------------------------------
(* Properties.                                                              *)

(* The candidates of a task are indexed services of its scope, without      *)
(* repetitions and never more than the cap.  Neither strategy can crowd out *)
(* the other: the better half of each list is kept.  And as long as what    *)
(* two relations lead to fits under the cap, none of it is missing.         *)
CandidatesKeepBoth ==
    find.stage = "retrieved" =>
        LET c == find.candidates
            kept(s, k) == k \in DOMAIN s => s[k] \in ToSet(c)
        IN  /\ Len(c) <= Cap /\ Cardinality(ToSet(c)) = Len(c) /\ ToSet(c) \subseteq find.known
            /\ \A k \in 1..Cap : 2 * k - 1 <= Cap => kept(find.lexical, k)
            /\ \A k \in 1..Cap : 2 * k <= Cap => kept(find.semantic, k)
            /\ Cardinality(find.near) <= Cap => ToSet(find.lexical) = find.near \cap find.known

\* The feedback that verification v has given.
GivenBy(v) == {feedback[k] : k \in {j \in DOMAIN feedback : feedback[j].by = v}}

(* What a verification says of a service rests on the files: the service is *)
(* one its run predicted and its repository held, it is confirmed only if a *)
(* changed file lies in it and in no service nested in it, and rejected     *)
(* only if there is no such file; of two services with one root, which an   *)
(* index may leave for a while, the first by name has the files. Whatever   *)
(* index runs do meanwhile, a verification that was completed with feedback *)
(* has given exactly one outcome for every such service, those of its       *)
(* stored precision.                                                        *)
VerdictsFollowFiles ==
    \A v \in DOMAIN verdicts :
        LET d == verdicts[v]
            owns(r, f) == /\ IsPrefix(r.root, f)
                          /\ \A q \in d.rows : IsPrefix(q.root, f) =>
                                 /\ Len(q.root) <= Len(r.root)
                                 /\ Len(q.root) = Len(r.root) => r.name <= q.name
            touched(n) == \E r \in d.rows, f \in ChangedFiles(d.diff) : r.name = n /\ owns(r, f)
            judged == {n \in Predicted(runs[d.run]) : \E r \in d.rows : r.name = n}
        IN  d.stage # "context" =>
                /\ \A g \in GivenBy(v) : /\ g.run = d.run /\ g.service \in judged
                                         /\ g.outcome = "confirmed" <=> touched(g.service)
                /\ d.stage = "verifying" =>
                        /\ d.true_positives \cup d.false_positives = judged
                        /\ d.true_positives = {n \in judged : touched(n)}
                        /\ d.recording => {g.service : g \in GivenBy(v)} = judged
                        /\ ~d.recording => GivenBy(v) = {}
=============================================================================
