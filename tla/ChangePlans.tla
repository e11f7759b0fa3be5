---------------------------- MODULE ChangePlans ----------------------------
(***************************************************************************)
(* The life of a change plan: planned, refined by explicit decisions,      *)
(* validated by reported results, reviewed for closure                     *)
(* (orbitkb/mcp/queries.py; orbitkb/generation/change_plan.py and          *)
(* change_assessment.py; the tables change_plan_runs, ci_commands and the  *)
(* two tables of validation results).                                      *)
(*                                                                         *)
(* Each tool call has a connection of its own and may run on a thread of   *)
(* its own (server.py), each SELECT sees the commits before it, and no     *)
(* call holds a transaction from its reads to its write: calls interleave  *)
(* between them, and with `orbitkb index`, which replaces the CI commands. *)
(* One repository.  Calls with malformed arguments change nothing and are  *)
(* left out.                                                               *)
(***************************************************************************)
EXTENDS Naturals, Sequences, FiniteSets

CONSTANTS
    Clients,          \* tool calls in progress
    Plans,            \* change_plan_runs rows there may be
    Surfaces,         \* what find_change_surface may return
    Tables,           \* the sets of rows ci_commands may hold
    KindOf,           \* command text -> "test", "build" or another kind
    Tree,             \* the files a diff may name
    Owner,            \* file -> the service it is below the root of; none has the repository as its root
    MaxHints,         \* MAX_PLAN_CI_VALIDATION_COMMANDS
    MaxDecisions,     \* bound on the selections of one call
    NoPlan            \* no row

ASSUME SurfaceAssumption ==
    \A s \in Surfaces :
        /\ s.contracts \in Seq({s.contracts[i] : i \in 1..Len(s.contracts)})
        /\ s.reviews \in Seq({s.reviews[k] : k \in 1..Len(s.reviews)})

ASSUME LinesAssumption == \A table \in Tables : \A r \in table : r.line \in Nat

Options == {"preserve", "version"}

Results == {"passed", "failed"}

Verdicts == {"none", "failed", "pending", "reported_passed"}

VARIABLES
    plans,      \* change_plan_runs
    commands,   \* ci_commands: rows of path, line and text
    ciResults,  \* change_plan_ci_validation_results: plan -> location -> text and status
    manual,     \* change_plan_manual_validation_results: plan -> unit and check -> status
    call        \* the tool call of each client: its reads so far, or its answer

tables == <<plans, commands, ciResults, manual>>
vars == <<plans, commands, ciResults, manual, call>>

(***************************************************************************)
(* Decisions and units                                                     *)
(***************************************************************************)

DecisionId(contract) == <<contract.producer, contract.name>>

\* The contracts at risk that need a decision.
Blocking(surface) ==
    {i \in 1..Len(surface.contracts) :
        /\ surface.contracts[i].producer \in surface.primary
        /\ surface.contracts[i].consumers # {}}

\* Of several with one producer and name, the first.
Kept(surface) ==
    {i \in Blocking(surface) :
        \A j \in Blocking(surface) :
            DecisionId(surface.contracts[j]) = DecisionId(surface.contracts[i]) => i <= j}

Rank(S, i) == Cardinality({j \in S : j <= i})

\* derive_decision_points: the kept contracts, in their order
DecisionPoints(surface) ==
    [n \in 1..Cardinality(Kept(surface)) |->
        surface.contracts[CHOOSE i \in Kept(surface) : Rank(Kept(surface), i) = n]]

Ids(points) == {DecisionId(points[i]) : i \in 1..Len(points)}

\* What validate_decision_selections accepts.
IsSelection(points, decisions) ==
    /\ \A i, j \in 1..Len(decisions) : decisions[i].id = decisions[j].id => i = j
    /\ {decisions[i].id : i \in 1..Len(decisions)} = Ids(points)
    /\ \A i \in 1..Len(decisions) : decisions[i].option \in Options

\* What it returns: the selections in the order of the decision points.
Selections(points, decisions) ==
    [i \in 1..Len(points) |->
        [id |-> DecisionId(points[i]),
         option |-> (CHOOSE d \in {decisions[j] : j \in 1..Len(decisions)} :
                        d.id = DecisionId(points[i])).option]]

\* Faulty variant of EventUnit: nothing to verify when compatibility is preserved.
UncheckedEventUnit(contract, option) ==
    [id |-> <<"event-contract", contract.producer, contract.name>>,
     service |-> contract.producer,
     action |-> IF option = "preserve" THEN "validate" ELSE "modify",
     deps |-> contract.consumers,
     files |-> contract.files,
     checks |-> IF option = "preserve" THEN 0 ELSE Cardinality(contract.consumers)]

EventUnit(contract, option) ==
    [id |-> <<"event-contract", contract.producer, contract.name>>,
     service |-> contract.producer,
     action |-> IF option = "preserve" THEN "validate" ELSE "modify",
     deps |-> contract.consumers,
     files |-> contract.files,
     checks |-> Cardinality(contract.consumers)]

PointOf(points, id) == CHOOSE c \in {points[i] : i \in 1..Len(points)} : DecisionId(c) = id

\* derive_change_units
ChangeUnits(points, selections) ==
    [i \in 1..Len(selections) |->
        EventUnit(PointOf(points, selections[i].id), selections[i].option)]

(***************************************************************************)
(* Validation                                                              *)
(***************************************************************************)

\* The checks of a plan that can have a manual result.
ChecksOf(unit) == {<<unit.id, n>> : n \in 0..(unit.checks - 1)}

Checks(units) == UNION {ChecksOf(units[k]) : k \in 1..Len(units)}

\* _manual_validation_status and the aggregate of the CI summary
Aggregate(statuses) ==
    IF statuses = {} THEN "none"
    ELSE IF "failed" \in statuses THEN "failed"
    ELSE IF "pending" \in statuses THEN "pending"
    ELSE "reported_passed"

Reported(results, key) == IF key \in DOMAIN results THEN results[key] ELSE "pending"

ManualVerdict(units, results) == Aggregate({Reported(results, k) : k \in Checks(units)})

\* ORDER BY workflow_path, start_line, kind, command
Precedes(r, s) ==
    \/ r.path < s.path
    \/ r.path = s.path /\ r.line < s.line
    \/ r.path = s.path /\ r.line = s.line /\ r.text < s.text

IsHintKind(text) == KindOf[text] \in {"test", "build"}

\* The first row of each command that may be suggested.
Leads(table) ==
    {r \in table : IsHintKind(r.text) /\ \A s \in table : s.text = r.text => s = r \/ Precedes(r, s)}

\* _compact_ci_validation_commands
Hints(table) ==
    {r \in Leads(table) : Cardinality({s \in Leads(table) : Precedes(s, r)}) < MaxHints}

\* The rows of the same command in the same workflow.
SameCommand(table, h) == {r \in table : r.path = h.path /\ r.text = h.text}

FirstLine(rows) == (CHOOSE r \in rows : \A s \in rows : r.line <= s.line).line

\* Faulty variant of HintStatus: the result of whatever command the workflow has.
AnyLineStatus(table, results, h) ==
    LET passed == {k \in DOMAIN results : k[1] = h.path /\ results[k].status = "passed"}
    IN  IF passed # {} THEN "passed" ELSE "pending"

\* _ci_validation_result_summaries, for one hint
HintStatus(table, results, h) ==
    LET rows == SameCommand(table, h)
        at == <<h.path, FirstLine(rows)>>
    IN  IF rows # {} /\ at \in DOMAIN results THEN results[at].status ELSE "pending"

\* describe_change_validation_status.  It reads the commands three times; a hint
\* that the second reading does not have is a KeyError.
CiVerdict(first, second, third, results) ==
    IF \E h \in Hints(first) : SameCommand(second, h) = {} THEN "error"
    ELSE Aggregate({HintStatus(third, results, h) : h \in Hints(first)})

(***************************************************************************)
(* Assessment of a diff: the set of changed files                          *)
(***************************************************************************)

Planned(units) == UNION {{units[k].service} \cup units[k].deps : k \in 1..Len(units)}

Omitted(units, diff) ==
    {k \in 1..Len(units) : units[k].files # {} /\ units[k].files \cap diff = {}}

Unassessable(units) == {k \in 1..Len(units) : units[k].files = {}}

OutsideFiles(units, diff) == {f \in diff : Owner[f] \notin Planned(units)}

\* assess_change_units, as far as the closure needs it.  `contracts` is what the
\* comparison of public error contracts found: nothing, a risk or a break.
Assess(units, diff, contracts) ==
    IF Omitted(units, diff) # {} \/ contracts = "break" THEN "attention"
    ELSE IF Unassessable(units) # {} \/ OutsideFiles(units, diff) # {} \/ contracts = "risk"
         THEN "review"
    ELSE "clear"

\* Faulty variant of Closure: only CI failures need attention.
CiClosure(assessed, ci, checks) ==
    IF assessed = "attention" \/ ci = "failed" THEN "needs_attention"
    ELSE IF assessed = "review" \/ ci \in {"pending", "none"} THEN "needs_review"
    ELSE "ready_for_manual_review"

\* summarize_change_closure
Closure(assessed, ci, checks) ==
    IF assessed = "attention" \/ ci = "failed" \/ checks = "failed" THEN "needs_attention"
    ELSE IF assessed = "review" \/ ci \in {"pending", "none"} \/ checks = "pending"
         THEN "needs_review"
    ELSE "ready_for_manual_review"

(***************************************************************************)
(* Types                                                                   *)
(***************************************************************************)

Rows == UNION Tables

Locations == {<<r.path, r.line>> : r \in Rows}

Texts == {r.text : r \in Rows}

DecisionIds == UNION {Ids(DecisionPoints(s)) : s \in Surfaces}

Selection == [id : DecisionIds, option : Options]

Decisions == UNION {[1..n -> Selection] : n \in 0..MaxDecisions}

\* What record_plan stores for a surface.
Planning(surface) ==
    LET points == DecisionPoints(surface)
    IN  [status |-> IF surface.primary = {} THEN "insufficient_evidence"
                    ELSE IF points # <<>> THEN "needs_decision" ELSE "ready",
         points |-> points,
         selected |-> <<>>,
         units |-> IF points # <<>> THEN <<>> ELSE surface.reviews]

\* Faulty variant of Finalized: the status is left as it was.
StillOpen(plan, selections) ==
    [plan EXCEPT !.selected = selections,
                 !.units = ChangeUnits(plan.points, selections)]

\* What finalize_decisions makes of it.
Finalized(plan, selections) ==
    [plan EXCEPT !.status = "ready",
                 !.selected = selections,
                 !.units = ChangeUnits(plan.points, selections)]

BlockingContracts(surface) == {surface.contracts[i] : i \in Blocking(surface)}

ReviewUnits(surface) == {surface.reviews[k] : k \in 1..Len(surface.reviews)}

EventUnits(surface) == {EventUnit(c, o) : c \in BlockingContracts(surface), o \in Options}

Units == UNION {ReviewUnits(s) \cup EventUnits(s) : s \in Surfaces}

StoredPlan ==
    [status : {"insufficient_evidence", "needs_decision", "ready"},
     points : {DecisionPoints(s) : s \in Surfaces},
     selected : Seq(Selection),
     units : Seq(Units)]

ASSUME NoPlanAssumption == NoPlan \notin StoredPlan

CiRow == [text : {t \in Texts : IsHintKind(t)}, status : Results]

PossibleChecks == UNION {ChecksOf(u) : u \in Units}

CiReport == UNION {[D -> CiRow] : D \in SUBSET Locations}

CheckReport == UNION {[D -> Results] : D \in SUBSET PossibleChecks}

\* Calls that have read and have not written or answered yet.
RefineCalls == [op : {"refine"}, plan : Plans, read : StoredPlan, decisions : Decisions]

CiReports == [op : {"record_ci"}, plan : Plans, row : Rows, status : Results]

CheckReports == [op : {"record_check"}, plan : Plans, check : PossibleChecks, status : Results]

Reviews ==
    [op : {"ci_status", "closure"}, plan : Plans, assessed : {"attention", "review", "clear"},
     seen : Seq(Tables), ci : Verdicts \cup {"unknown"}]

\* Answers, as long as the client makes no other call.
Refinements ==
    [op : {"refined"}, plan : Plans, decisions : Decisions, result : {"accepted", "refused"}]

CiAnswers ==
    [op : {"ci_told"}, plan : Plans, hints : SUBSET Rows, result : Verdicts \cup {"error"}]

Closures ==
    [op : {"closed"}, plan : Plans,
     result : {"needs_attention", "needs_review", "ready_for_manual_review", "error"}]

Idle == [op |-> "idle"]

TypeOK ==
    /\ plans \in [Plans -> StoredPlan \cup {NoPlan}]
    /\ commands \in Tables
    /\ ciResults \in [Plans -> CiReport]
    /\ manual \in [Plans -> CheckReport]
    /\ call \in [Clients -> RefineCalls \cup CiReports \cup CheckReports \cup Reviews
                              \cup Refinements \cup CiAnswers \cup Closures \cup {Idle}]

Init ==
    /\ plans = [p \in Plans |-> NoPlan]
    /\ commands \in Tables
    /\ ciResults = [p \in Plans |-> <<>>]
    /\ manual = [p \in Plans |-> <<>>]
    /\ call = [c \in Clients |-> Idle]

(***************************************************************************)
(* Actions                                                                 *)
(***************************************************************************)

IsFree(c) == call[c].op \in {"idle", "refined", "ci_told", "closed"}

Says(c, answer) == call' = [call EXCEPT ![c] = answer]

IsReady(p) == plans[p] # NoPlan /\ plans[p].status = "ready"

\* An upsert.
With(rows, key, value) == [k \in DOMAIN rows \cup {key} |-> IF k = key THEN value ELSE rows[k]]

\* plan_change: one INSERT once everything is derived.  The measurements that a
\* second commit adds to the row are read by nobody.
PlanChange(p, surface) ==
    /\ plans[p] = NoPlan
    /\ plans' = [plans EXCEPT ![p] = Planning(surface)]
    /\ UNCHANGED <<commands, ciResults, manual, call>>

\* replace_ci_commands, at the end of an index command
ReplaceCommands(table) ==
    /\ commands # table
    /\ commands' = table
    /\ UNCHANGED <<plans, ciResults, manual, call>>

Refined(p, decisions, accepted) ==
    [op |-> "refined", plan |-> p, decisions |-> decisions,
     result |-> IF accepted THEN "accepted" ELSE "refused"]

\* refine_change_plan answers from the row it has read.
RefineAnswer(c, p, decisions) ==
    LET plan == plans[p]
    IN  /\ IsFree(c)
        /\ plan # NoPlan
        /\ \/ /\ plan.selected # <<>>
              /\ Says(c, Refined(p, decisions, decisions = plan.selected))
           \/ /\ plan.selected = <<>>
              /\ plan.points = <<>> \/ ~IsSelection(plan.points, decisions)
              /\ Says(c, Refined(p, decisions, IsSelection(plan.points, decisions)))
        /\ UNCHANGED tables

\* refine_change_plan has read a plan whose decisions are open ...
RefineRead(c, p, decisions) ==
    /\ IsFree(c)
    /\ plans[p] # NoPlan
    /\ plans[p].selected = <<>>
    /\ plans[p].points # <<>>
    /\ IsSelection(plans[p].points, decisions)
    /\ Says(c, [op |-> "refine", plan |-> p, read |-> plans[p], decisions |-> decisions])
    /\ UNCHANGED tables

\* ... and writes what follows from that reading, whatever the row holds now.
RefineWrite(c) ==
    /\ call[c].op = "refine"
    /\ LET p == call[c].plan
           points == call[c].read.points
       IN  /\ plans' = [plans EXCEPT ![p] =
                            Finalized(@, Selections(points, call[c].decisions))]
           /\ Says(c, Refined(p, call[c].decisions, TRUE))
    /\ UNCHANGED <<commands, ciResults, manual>>

\* Faulty variant of RecordCiRead: any command may be reported.
RecordAnyCiRead(c, p, r, status) ==
    /\ IsFree(c)
    /\ IsReady(p)
    /\ {s \in commands : s.path = r.path /\ s.line = r.line} = {r}
    /\ Says(c, [op |-> "record_ci", plan |-> p, row |-> r, status |-> status])
    /\ UNCHANGED tables

\* record_ci_validation_result: one row at the location, of a kind to report
RecordCiRead(c, p, r, status) ==
    /\ IsFree(c)
    /\ IsReady(p)
    /\ {s \in commands : s.path = r.path /\ s.line = r.line} = {r}
    /\ IsHintKind(r.text)
    /\ Says(c, [op |-> "record_ci", plan |-> p, row |-> r, status |-> status])
    /\ UNCHANGED tables

RecordCiWrite(c) ==
    /\ call[c].op = "record_ci"
    /\ LET r == call[c].row
       IN  ciResults' = [ciResults EXCEPT ![call[c].plan] =
               With(@, <<r.path, r.line>>, [text |-> r.text, status |-> call[c].status])]
    /\ Says(c, Idle)
    /\ UNCHANGED <<plans, commands, manual>>

\* record_change_unit_validation_result: a check of the units it reads
RecordCheckRead(c, p, check, status) ==
    /\ IsFree(c)
    /\ IsReady(p)
    /\ check \in Checks(plans[p].units)
    /\ Says(c, [op |-> "record_check", plan |-> p, check |-> check, status |-> status])
    /\ UNCHANGED tables

RecordCheckWrite(c) ==
    /\ call[c].op = "record_check"
    /\ manual' = [manual EXCEPT ![call[c].plan] = With(@, call[c].check, call[c].status)]
    /\ Says(c, Idle)
    /\ UNCHANGED <<plans, commands, ciResults>>

Reading(op, p, assessed) ==
    [op |-> op, plan |-> p, assessed |-> assessed, seen |-> <<>>, ci |-> "unknown"]

\* describe_change_validation_status is called.
AskCi(c, p) ==
    /\ IsFree(c)
    /\ IsReady(p)
    /\ Says(c, Reading("ci_status", p, "clear"))
    /\ UNCHANGED tables

\* review_change_closure assesses the diff first: assess_working_change
Review(c, p, diff, contracts) ==
    /\ IsFree(c)
    /\ IsReady(p)
    /\ Says(c, Reading("closure", p, Assess(plans[p].units, diff, contracts)))
    /\ UNCHANGED tables

\* One of the three readings of the commands.
ReadCommands(c) ==
    /\ call[c].op \in {"ci_status", "closure"}
    /\ Len(call[c].seen) < 3
    /\ Says(c, [call[c] EXCEPT !.seen = Append(@, commands)])
    /\ UNCHANGED tables

\* The results are read after the commands.
ReadResults(c) ==
    /\ call[c].op \in {"ci_status", "closure"}
    /\ Len(call[c].seen) = 3
    /\ call[c].ci = "unknown"
    /\ LET seen == call[c].seen
           verdict == CiVerdict(seen[1], seen[2], seen[3], ciResults[call[c].plan])
       IN  \/ /\ call[c].op = "ci_status"
              /\ Says(c, [op |-> "ci_told", plan |-> call[c].plan, hints |-> Hints(seen[1]),
                          result |-> verdict])
           \/ /\ call[c].op = "closure"
              /\ verdict = "error"
              /\ Says(c, [op |-> "closed", plan |-> call[c].plan, result |-> "error"])
           \/ /\ call[c].op = "closure"
              /\ verdict # "error"
              /\ Says(c, [call[c] EXCEPT !.ci = verdict])
    /\ UNCHANGED tables

\* Last, review_change_closure reads the plan again and the manual results.
ReadChecks(c) ==
    /\ call[c].op = "closure"
    /\ call[c].ci # "unknown"
    /\ LET p == call[c].plan
       IN  Says(c, [op |-> "closed", plan |-> p, result |->
                Closure(call[c].assessed, call[c].ci, ManualVerdict(plans[p].units, manual[p]))])
    /\ UNCHANGED tables

Step(c) ==
    \/ \E p \in Plans, decisions \in Decisions :
          RefineAnswer(c, p, decisions) \/ RefineRead(c, p, decisions)
    \/ RefineWrite(c)
    \/ \E p \in Plans, r \in Rows, status \in Results : RecordCiRead(c, p, r, status)
    \/ RecordCiWrite(c)
    \/ \E p \in Plans, check \in PossibleChecks, status \in Results :
          RecordCheckRead(c, p, check, status)
    \/ RecordCheckWrite(c)
    \/ \E p \in Plans : AskCi(c, p)
    \/ \E p \in Plans, diff \in SUBSET Tree, contracts \in {"same", "risk", "break"} :
          Review(c, p, diff, contracts)
    \/ ReadCommands(c)
    \/ ReadResults(c)
    \/ ReadChecks(c)

Next ==
    \/ \E p \in Plans, s \in Surfaces : PlanChange(p, s)
    \/ \E table \in Tables : ReplaceCommands(table)
    \/ \E c \in Clients : Step(c)

Spec == Init /\ [][Next]_vars

(***************************************************************************)
(* Properties                                                              *)
(***************************************************************************)

\* A plan is what its selections make of its decision points, and waits for a
\* decision exactly as long as it has none (refine_change_plan; finalize_decisions
\* writes status, selections and units in one UPDATE).  Overlapping calls may each
\* write it, never half of each.
PlansAgree ==
    \A p \in Plans :
        LET plan == plans[p]
        IN  plan # NoPlan =>
                /\ plan.status = "needs_decision" <=> plan.points # <<>> /\ plan.selected = <<>>
                /\ plan.selected # <<>> =>
                       /\ [i \in 1..Len(plan.selected) |-> plan.selected[i].id]
                            = [i \in 1..Len(plan.points) |-> DecisionId(plan.points[i])]
                       /\ \A i \in 1..Len(plan.points) :
                              /\ plan.units[i].service = plan.points[i].producer
                              /\ plan.units[i].action = "validate"
                                     <=> plan.selected[i].option = "preserve"

\* Every recorded manual result is of a check the plan has now; one that is not
\* would be counted by no review, a failure among them
\* (record_change_unit_validation_result validates against an earlier reading).
ResultsNameChecks ==
    \A p \in Plans :
        DOMAIN manual[p] # {} => plans[p] # NoPlan /\ DOMAIN manual[p] \subseteq Checks(plans[p].units)

\* A choice once finalized stays: refine_change_plan refuses every other one.  It
\* does not, for two calls that both read the plan while it was open.
ChoiceStays ==
    [][\A p \in Plans : plans[p] # NoPlan /\ plans[p].selected # <<>>
           => plans'[p].selected = plans[p].selected]_vars

\* Retrying the finalized selections is safe, whatever order they are given in.  It is
\* not: they are compared with the list that was stored in the order of the points.
RetryIsSafe ==
    [][\A c \in Clients :
           call'[c] # call[c] /\ call'[c].op = "refined" /\ call'[c].result = "refused"
               => LET plan == plans[call'[c].plan]
                  IN  plan.selected # <<>> /\ IsSelection(plan.points, call'[c].decisions)
                          => Selections(plan.points, call'[c].decisions) # plan.selected]_vars

\* When a closure does not ask for attention, no manual result of the plan is a
\* failure at that moment, and when it is ready, every check has passed, though the
\* units it assessed were read before (review_change_closure, summarize_change_closure).
ClosureSeesChecks ==
    [][\A c \in Clients :
           call'[c] # call[c] /\ call'[c].op = "closed" /\ call'[c].result # "error"
               => LET p == call'[c].plan
                      statuses == {manual[p][k] : k \in DOMAIN manual[p]}
                  IN  /\ call'[c].result # "needs_attention" => "failed" \notin statuses
                      /\ call'[c].result = "ready_for_manual_review"
                             => Checks(plans[p].units) \subseteq DOMAIN manual[p]]_vars

\* When the CI validation is told to have passed, each command it names has a
\* recorded result of that very command, and it passed
\* (describe_change_validation_status, _ci_validation_result_summaries).
PassedWasRun ==
    [][\A c \in Clients :
           call'[c] # call[c] /\ call'[c].op = "ci_told" /\ call'[c].result = "reported_passed"
               => \A h \in call'[c].hints :
                      \E k \in DOMAIN ciResults[call'[c].plan] :
                          ciResults[call'[c].plan][k] = [text |-> h.text, status |-> "passed"]]_vars

==============================================================================
