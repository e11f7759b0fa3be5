--------------------------- MODULE ArchitectureRuns ---------------------------
(***************************************************************************)
(* The architecture view: runs of findings that every index, update and    *)
(* remove command recomputes from the facts of all services.  Commands of  *)
(* several processes interleave at each commit.  A run is committed empty  *)
(* and its findings one by one; a detector reads the facts of the moment   *)
(* it runs.                                                                *)
(*                                                                         *)
(* code and iac stand for all rows about a service and about a checkout.   *)
(* An index command stores the rows of its services, each in two commits   *)
(* and followed by a run, then deletes the services it did not find, scans *)
(* the infrastructure of the checkout, replaces its tables in a commit     *)
(* each and makes one more run.                                            *)
(***************************************************************************)
EXTENDS Naturals, Sequences

CONSTANTS
    Services,           \* services that may be indexed
    CheckoutOf,         \* CheckoutOf[s]: the checkout s is in
    CodeFacts,          \* what the source of a service may be found to hold
    IacFacts,           \* what the infrastructure of a checkout may hold
    IacTables,          \* how many tables it is kept in
    NoCode,             \* code[s] of a service that is not indexed
    NoInfrastructure,   \* iac[r] of a checkout that no scan has read
    Commands,           \* index, update and remove processes
    Detectors,          \* how many detectors a run calls, in order
    FindingsOf(_, _, _) \* FindingsOf(d, code, iac): what detector d returns

Checkouts == {CheckoutOf[s] : s \in Services}

ASSUME ArchitectureAssumption ==
    /\ Detectors \in Nat /\ IacTables \in Nat \ {0}
    /\ NoCode \notin CodeFacts
    /\ NoInfrastructure \notin IacFacts
    /\ DOMAIN CheckoutOf = Services

VARIABLES
    code,       \* code[s]: the committed facts of a service
    iac,        \* iac[r]: the committed infrastructure of a checkout
    runs,       \* sequence of runs, each the set of findings committed so far
    stage,      \* stage[c]: what command c does next
    job,        \* job[c]: the checkout of c, its services, those left, the tables left
    view,       \* view[c]: the run c fills, its next detector, findings to record
    lastAbort   \* how many runs there were when a command last failed

viewVars == <<code, iac, runs, stage, job, view, lastAbort>>

Stages == {"idle", "analyze", "generate", "start", "detect", "delete", "scan",
           "ended", "aborted"}

Running(c) == stage[c] \notin {"idle", "ended", "aborted"}

NoJob == [checkout |-> "none", found |-> {}, left |-> {}, current |-> "none", tables |-> 0]

NoView == [run |-> 0, next |-> 1, found |-> {}]

ServicesIn(r) == {s \in Services : CheckoutOf[s] = r}

ViewInit ==
    /\ code = [s \in Services |-> NoCode]
    /\ iac = [r \in Checkouts |-> NoInfrastructure]
    /\ runs = <<>>
    /\ stage = [c \in Commands |-> "idle"]
    /\ job = [c \in Commands |-> NoJob]
    /\ view = [c \in Commands |-> NoView]
    /\ lastAbort = 0

-----------------------------------------------------------------------------
(* The commands.                                                            *)

\* Index the services found in a checkout, which then are all it has.
LaunchIndex(c, r, found) ==
    /\ stage[c] = "idle"
    /\ found # {}
    /\ job' = [job EXCEPT ![c] = [checkout |-> r, found |-> found, left |-> found,
                                  current |-> "none", tables |-> IacTables]]
    /\ stage' = [stage EXCEPT ![c] = "analyze"]
    /\ UNCHANGED <<code, iac, runs, view, lastAbort>>

\* Index one service again, without its checkout.
LaunchUpdate(c, s) ==
    /\ stage[c] = "idle"
    /\ code[s] # NoCode
    /\ job' = [job EXCEPT ![c] = [checkout |-> CheckoutOf[s], found |-> {s}, left |-> {s},
                                  current |-> "none", tables |-> 0]]
    /\ stage' = [stage EXCEPT ![c] = "analyze"]
    /\ UNCHANGED <<code, iac, runs, view, lastAbort>>

\* Delete a checkout with its services and infrastructure in one transaction.
LaunchRemove(c, r) ==
    /\ stage[c] = "idle"
    /\ \E s \in ServicesIn(r) : code[s] # NoCode
    /\ code' = [s \in Services |-> IF CheckoutOf[s] = r THEN NoCode ELSE code[s]]
    /\ iac' = [iac EXCEPT ![r] = NoInfrastructure]
    /\ stage' = [stage EXCEPT ![c] = "start"]
    /\ UNCHANGED <<runs, job, view, lastAbort>>

\* The scan of the source of a service, committed before its calls.
StoreAnalysis(c, s) ==
    /\ stage[c] = "analyze"
    /\ s \in job[c].left
    /\ \E facts \in CodeFacts : code' = [code EXCEPT ![s] = facts]
    /\ job' = [job EXCEPT ![c].left = @ \ {s}, ![c].current = s]
    /\ stage' = [stage EXCEPT ![c] = "generate"]
    /\ UNCHANGED <<iac, runs, view, lastAbort>>

\* The rows of the generators and the resolved calls.
StoreGenerated(c) ==
    /\ stage[c] = "generate"
    /\ \E facts \in CodeFacts : code' = [code EXCEPT ![job[c].current] = facts]
    /\ stage' = [stage EXCEPT ![c] = "start"]
    /\ UNCHANGED <<iac, runs, job, view, lastAbort>>

DeleteAbsent(c) ==
    /\ stage[c] = "delete"
    /\ code' = [s \in Services |->
                   IF s \in ServicesIn(job[c].checkout) \ job[c].found THEN NoCode ELSE code[s]]
    /\ stage' = [stage EXCEPT ![c] = "scan"]
    /\ UNCHANGED <<iac, runs, job, view, lastAbort>>

\* One table of the checkout; after the last one the command goes on.
ReplaceTable(c, next) ==
    /\ stage[c] = "scan"
    /\ \E facts \in IacFacts : iac' = [iac EXCEPT ![job[c].checkout] = facts]
    /\ job' = [job EXCEPT ![c].tables = @ - 1]
    /\ stage' = [stage EXCEPT ![c] = IF job[c].tables > 1 THEN "scan" ELSE next]
    /\ UNCHANGED <<code, runs, view, lastAbort>>

\* A scan as if the runs of the services were enough.
ScanWithoutRun(c) == ReplaceTable(c, "ended")

ReplaceIac(c) == ReplaceTable(c, "start")

-----------------------------------------------------------------------------
(* Recomputing the view.                                                    *)

\* Filling the newest run there is, instead of a run of its own.
StartOrJoinRun(c) ==
    /\ stage[c] = "start"
    /\ runs' = IF runs = <<>> THEN <<{}>> ELSE [runs EXCEPT ![Len(runs)] = {}]
    /\ view' = [view EXCEPT ![c] = [run |-> Len(runs'), next |-> 1, found |-> {}]]
    /\ stage' = [stage EXCEPT ![c] = "detect"]
    /\ UNCHANGED <<code, iac, job, lastAbort>>

StartRun(c) ==
    /\ stage[c] = "start"
    /\ runs' = Append(runs, {})
    /\ view' = [view EXCEPT ![c] = [run |-> Len(runs) + 1, next |-> 1, found |-> {}]]
    /\ stage' = [stage EXCEPT ![c] = "detect"]
    /\ UNCHANGED <<code, iac, job, lastAbort>>

RunDetector(c) ==
    /\ stage[c] = "detect"
    /\ view[c].found = {}
    /\ view[c].next <= Detectors
    /\ view' = [view EXCEPT ![c].next = @ + 1,
                            ![c].found = FindingsOf(view[c].next, code, iac)]
    /\ UNCHANGED <<code, iac, runs, stage, job, lastAbort>>

RecordFinding(c) ==
    /\ stage[c] = "detect"
    /\ \E f \in view[c].found :
           /\ runs' = [runs EXCEPT ![view[c].run] = @ \cup {f}]
           /\ view' = [view EXCEPT ![c].found = @ \ {f}]
    /\ UNCHANGED <<code, iac, stage, job, lastAbort>>

FinishRun(c) ==
    /\ stage[c] = "detect"
    /\ view[c].found = {}
    /\ view[c].next > Detectors
    /\ stage' = [stage EXCEPT ![c] = IF job[c].left # {} THEN "analyze"
                                     ELSE IF job[c].tables > 0 THEN "delete" ELSE "ended"]
    /\ UNCHANGED <<code, iac, runs, job, view, lastAbort>>

\* The process is killed, or an exception ends it: a detector that reads the
\* names before a service is added and its rows after raises one.
Abort(c) ==
    /\ Running(c)
    /\ stage' = [stage EXCEPT ![c] = "aborted"]
    /\ lastAbort' = Len(runs)
    /\ UNCHANGED <<code, iac, runs, job, view>>

Step(c) ==
    \/ \E s \in Services : StoreAnalysis(c, s)
    \/ StoreGenerated(c) \/ DeleteAbsent(c) \/ ReplaceIac(c)
    \/ StartRun(c) \/ RunDetector(c) \/ RecordFinding(c) \/ FinishRun(c)

Launch(c) ==
    \/ \E r \in Checkouts :
           LaunchRemove(c, r) \/ \E found \in SUBSET ServicesIn(r) : LaunchIndex(c, r, found)
    \/ \E s \in Services : LaunchUpdate(c, s)

ViewNext == \E c \in Commands : Launch(c) \/ Step(c) \/ Abort(c)

ViewSpec == ViewInit /\ [][ViewNext]_viewVars

\* A process that is neither killed nor failed goes on.
FairSpec == ViewSpec /\ \A c \in Commands : WF_viewVars(Step(c))

-----------------------------------------------------------------------------
(* Comparing two runs: findings are compared by kind, services, entrypoint. *)

Identity(f) == <<f.kind, f.services, f.entry>>

Identities(findings) == {Identity(f) : f \in findings}

\* Of findings with one identity a run counts for one.
CountOf(findings, identity) ==
    (CHOOSE f \in findings : Identity(f) = identity).count

DiffOfFindings(previous, current) ==
    [new |-> Identities(current \ previous), resolved |-> Identities(previous \ current),
     deltas |-> {}]

DiffArchitectureRuns(previous, current) ==
    [new |-> Identities(current) \ Identities(previous),
     resolved |-> Identities(previous) \ Identities(current),
     deltas |-> {i \in Identities(current) \cap Identities(previous) :
                    CountOf(previous, i) # CountOf(current, i)}]

-----------------------------------------------------------------------------
(* Properties.                                                              *)

Code == [Services -> CodeFacts \cup {NoCode}]

Iac == [Checkouts -> IacFacts \cup {NoInfrastructure}]

\* Whatever the detectors may ever find.
Findings == UNION {FindingsOf(d, codeThen, iacThen) :
                      d \in 1..Detectors, codeThen \in Code, iacThen \in Iac}

Jobs ==
    [checkout : Checkouts \cup {"none"}, found : SUBSET Services, left : SUBSET Services,
     current : Services \cup {"none"}, tables : 0..IacTables]

Views == [run : Nat, next : 1..(Detectors + 1), found : SUBSET Findings]

ViewTypeOK ==
    /\ code \in Code
    /\ iac \in Iac
    /\ runs \in Seq(SUBSET Findings)
    /\ stage \in [Commands -> Stages]
    /\ job \in [Commands -> Jobs]
    /\ view \in [Commands -> Views]
    /\ lastAbort \in 0..Len(runs)
    /\ \A c \in Commands :
           /\ job[c].left \subseteq job[c].found
           /\ stage[c] = "detect" => view[c].run \in 1..Len(runs)
           /\ stage[c] = "generate" => job[c].current \in Services
           /\ stage[c] \in {"delete", "scan"} => job[c].tables > 0

CurrentFindings == UNION {FindingsOf(d, code, iac) : d \in 1..Detectors}

\* The newest run is what every reader takes for the system as it is.
ViewCurrent == runs # <<>> => runs[Len(runs)] = CurrentFindings

\* When no command is running, the view is up to date: whatever commands
\* overlapped, and in whatever order they stored facts, started runs and
\* recorded findings, the newest run holds exactly what the detectors find in
\* the facts that are stored.  A command that was killed or failed may leave a
\* view that is not, but only until another one starts a run and completes.
QuietViewCurrent ==
    /\ \A c \in Commands : ~Running(c)
    /\ Len(runs) > lastAbort
    => ViewCurrent

\* A recomputation reports a fact once it is stored, however the commands
\* overlap: unless one fails, the newest run ends up current and stays so.
ViewSettles == <>[](ViewCurrent \/ \E c \in Commands : stage[c] = "aborted")

=============================================================================
