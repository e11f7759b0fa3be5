---------------------------- MODULE ServiceCalls ----------------------------
(***************************************************************************)
(* The `service_calls` table against the `services` table: calls written   *)
(* by an index run, resolved to services by name, and resolved again when  *)
(* services appear, are renamed or go away                                 *)
(* (orbitkb/db/repositories/service_calls.py, services.py, repositories.py,*)
(* index_path in orbitkb/generation/orchestrator.py, _cmd_remove in        *)
(* orbitkb/cli.py).                                                        *)
(*                                                                         *)
(* Several processes run commands; a step is what one of them commits.     *)
(* Reconciliation is a single transaction, but it always follows the       *)
(* commit of what makes it necessary.  The index lock is the mutex that    *)
(* IndexRuns implements.  resource_type is left out: no link depends on it.*)
(***************************************************************************)
EXTENDS ServiceTable

CONSTANTS
    Procs,        \* processes
    Commands,     \* the commands users run
    MaxLaunches,  \* bound on the number of commands run
    Targets,      \* names that calls give to what they call
    Answers,      \* what the LLM may say an endpoint calls: target -> kind
    Folded,       \* name or target -> its spelling in lower case
    Suffix,       \* name or target -> its naming suffix, or None
    Vendors       \* targets that match a known vendor

TargetKinds == {"internal", "external", "unknown"}

IndexCommand == [kind : {"index"}, repo : Repos, found : SUBSET (Names \X Roots)]

UpdateCommand == [kind : {"update"}, repo : {NoRepo}, name : Names]

RemoveCommand == [kind : {"remove"}, repo : Repos]

ASSUME CallAssumption ==
    /\ Commands \subseteq IndexCommand \cup UpdateCommand \cup RemoveCommand
    /\ Names \subseteq Targets
    /\ Answers \subseteq UNION {[T -> TargetKinds] : T \in SUBSET Targets}
    /\ Vendors \subseteq Targets
    /\ MaxLaunches \in Nat

VARIABLES
    repositories,  \* the ids in the repositories table
    services,      \* the services table
    calls,         \* service_calls: (from_service_id, to_service_name) -> row, or None
    pc,            \* where each process is
    cmd,           \* the command it runs
    todo,          \* services index_path still has to index
    name,          \* the service it is indexing
    root,          \* and its root path
    sid,           \* service_id
    lost,          \* a process ended between such a commit and its reconciliation
    launches       \* commands run so far

local == <<pc, cmd, todo, name, root, sid>>
vars == <<repositories, services, calls, local, lost, launches>>

CallRow == [to : Ids \cup {None}, kind : TargetKinds]

Calls == [Ids \X Targets -> CallRow \cup {None}]

\* The process has committed a change to services or calls and has not yet
\* reconciled the whole table.
Pending == {"generate", "scoped", "resolve", "cleanup"}

Indexing == {"ensure", "generate", "scoped", "resolve"}

PCs == {"ended", "repository", "lookup", "next", "prune", "remove"} \cup Pending \cup Indexing

TypeOK ==
    /\ repositories \subseteq Repos
    /\ services \in Tables
    /\ calls \in Calls
    /\ \A i \in Ids, target \in Targets : calls[<<i, target>>] # None => services[i] # None
    /\ pc \in [Procs -> PCs]
    /\ cmd \in [Procs -> Commands \cup {None}]
    /\ todo \in [Procs -> SUBSET (Names \X Roots)]
    /\ name \in [Procs -> Names \cup {None}]
    /\ root \in [Procs -> Roots \cup {None}]
    /\ sid \in [Procs -> Ids \cup {None}]
    /\ lost \in BOOLEAN
    /\ launches \in 0..MaxLaunches

Init ==
    /\ repositories = {}
    /\ services = EmptyTable
    /\ calls = [key \in Ids \X Targets |-> None]
    /\ pc = [p \in Procs |-> "ended"]
    /\ cmd = [p \in Procs |-> None]
    /\ todo = [p \in Procs |-> {}]
    /\ name = [p \in Procs |-> None]
    /\ root = [p \in Procs |-> None]
    /\ sid = [p \in Procs |-> None]
    /\ lost = FALSE
    /\ launches = 0

(***************************************************************************)
(* reconcile_service_call_targets                                          *)
(***************************************************************************)

\* Faulty variant of Peers: names are looked up across repositories.
PeersAnywhere(tbl, i, target) == NamedRows(tbl, target, NoRepo)

\* The rows of services that a call of service i to this name resolves to:
\* `target.repository_id IS source.repository_id`.
Peers(tbl, i, target) == {j \in NamedRows(tbl, target, NoRepo) : tbl[j].repo = tbl[i].repo}

\* The scalar subquery: the first row the scan meets, or NULL.  Only services without
\* a repository may share a name.
Resolved(tbl, i, target) ==
    IF Peers(tbl, i, target) = {} THEN None ELSE CHOOSE j \in Peers(tbl, i, target) : TRUE

\* SELECT name FROM services WHERE repository_id IS ?
KnownNames(tbl, i) == {tbl[j].name : j \in {k \in RowIds(tbl) : tbl[k].repo = tbl[i].repo}}

\* classify_target_kind
Classified(target, known) ==
    IF \E n \in known : Folded[n] = Folded[target] THEN "internal"
    ELSE IF target \in Vendors THEN "external"
    ELSE IF Suffix[target] # None /\ \E n \in known : Suffix[n] = Suffix[target] THEN "internal"
    ELSE "unknown"

\* The first UPDATE.  With a NULL subquery, `to_service_id != NULL` is not true,
\* and a call that has a target keeps it.
Relinked(to, target) ==
    IF to = None \/ (target # None /\ to # target) THEN target ELSE to

\* Faulty variant of Rekinded: no reset of 'internal' before the heuristic.
RekindedAgain(to, kind, target, known) ==
    IF to # None THEN "internal"
    ELSE IF kind = "unknown" THEN Classified(target, known)
    ELSE kind

\* The UPDATEs of target_kind: 'internal' with a target; without one, 'internal'
\* is taken back to 'unknown', and 'unknown' goes to the heuristic.
Rekinded(to, kind, target, known) ==
    IF to # None THEN "internal"
    ELSE IF kind \in {"internal", "unknown"} THEN Classified(target, known)
    ELSE kind

ReconciledRow(tbl, i, target, row) ==
    LET to == Relinked(row.to, Resolved(tbl, i, target))
    IN  [to |-> to, kind |-> Rekinded(to, row.kind, target, KnownNames(tbl, i))]

\* Reconciliation of the calls of the services in `scope`.
Reconciled(tbl, cs, scope) ==
    [key \in Ids \X Targets |->
        IF cs[key] # None /\ key[1] \in scope
        THEN ReconciledRow(tbl, key[1], key[2], cs[key]) ELSE cs[key]]

\* DELETE FROM services.
WithoutServices(tbl, gone) == [i \in Ids |-> IF i \in gone THEN None ELSE tbl[i]]

\* Faulty variant of WithoutCalls: the connection does not enforce foreign keys.
ForeignKeysOff(cs, gone) == cs

\* The foreign keys remove the calls of the deleted services, and clear
\* to_service_id where it names one of them.
WithoutCalls(cs, gone) ==
    [key \in Ids \X Targets |->
        IF key[1] \in gone THEN None
        ELSE IF cs[key] # None /\ cs[key].to \in gone THEN [cs[key] EXCEPT !.to = None]
        ELSE cs[key]]

(***************************************************************************)
(* Commands                                                                *)
(***************************************************************************)

Goto(p, label) == pc' = [pc EXCEPT ![p] = label]

\* The process is gone, with what it had in memory.
Ends(p) ==
    /\ Goto(p, "ended")
    /\ cmd' = [cmd EXCEPT ![p] = None]
    /\ todo' = [todo EXCEPT ![p] = {}]
    /\ name' = [name EXCEPT ![p] = None]
    /\ root' = [root EXCEPT ![p] = None]
    /\ sid' = [sid EXCEPT ![p] = None]

Launch(p, c) ==
    /\ pc[p] = "ended"
    /\ launches < MaxLaunches
    /\ launches' = launches + 1
    /\ cmd' = [cmd EXCEPT ![p] = c]
    /\ Goto(p, CASE c.kind = "index" -> "repository"
                 [] c.kind = "update" -> "lookup"
                 [] c.kind = "remove" -> "remove")
    /\ UNCHANGED <<repositories, services, calls, todo, name, root, sid, lost>>

\* ensure_repository, and what discovery found below the path.
EnsureRepository(p) ==
    /\ pc[p] = "repository"
    /\ repositories' = repositories \cup {cmd[p].repo}
    /\ todo' = [todo EXCEPT ![p] = cmd[p].found]
    /\ Goto(p, "next")
    /\ UNCHANGED <<services, calls, cmd, name, root, sid, lost, launches>>

\* _cmd_update: the root path of the one row of this name.
LookupRow(p) ==
    /\ pc[p] = "lookup"
    /\ \/ \E i \in RowIds(services) :
            /\ NamedRows(services, cmd[p].name, NoRepo) = {i}
            /\ todo' = [todo EXCEPT ![p] = {<<cmd[p].name, services[i].root>>}]
            /\ Goto(p, "next")
            /\ UNCHANGED <<cmd, name, root, sid>>
       \/ /\ Cardinality(NamedRows(services, cmd[p].name, NoRepo)) # 1
          /\ Ends(p)
    /\ UNCHANGED <<repositories, services, calls, lost, launches>>

\* Another process is inside the same lock key.
Locked(p, n) ==
    \E q \in Procs \ {p} : pc[q] \in Indexing /\ cmd[q].repo = cmd[p].repo /\ name[q] = n

\* index_service for the next service, behind its lock; a locked service ends the
\* whole command with RuntimeError.
TakeService(p) ==
    /\ pc[p] = "next"
    /\ \E s \in todo[p] :
         \/ /\ ~Locked(p, s[1])
            /\ todo' = [todo EXCEPT ![p] = @ \ {s}]
            /\ name' = [name EXCEPT ![p] = s[1]]
            /\ root' = [root EXCEPT ![p] = s[2]]
            /\ Goto(p, "ensure")
            /\ UNCHANGED <<cmd, sid>>
         \/ /\ Locked(p, s[1])
            /\ Ends(p)
    /\ UNCHANGED <<repositories, services, calls, lost, launches>>

\* ensure_service.  The foreign key refuses a repository that is gone.
EnsureService(p) ==
    /\ pc[p] = "ensure"
    /\ cmd[p].repo \in repositories \cup {NoRepo}
    /\ \E i \in Ids :
         /\ EnsuresRow(services, name[p], root[p], cmd[p].repo, i, services')
         /\ sid' = [sid EXCEPT ![p] = i]
    /\ Goto(p, "generate")
    /\ UNCHANGED <<repositories, calls, cmd, todo, name, root, lost, launches>>

\* replace_calls_for_api up to its first commit.  The foreign key refuses calls of
\* a service that is gone.
WriteCalls(p, answer) ==
    /\ pc[p] = "generate"
    /\ services[sid[p]] # None
    /\ calls' = [key \in Ids \X Targets |->
                   IF key[1] # sid[p] THEN calls[key]
                   ELSE IF key[2] \in DOMAIN answer THEN [to |-> None, kind |-> answer[key[2]]]
                   ELSE None]
    /\ Goto(p, "scoped")
    /\ UNCHANGED <<repositories, services, cmd, todo, name, root, sid, lost, launches>>

\* Its last call: the calls of this service only.
ReconcileScoped(p) ==
    /\ pc[p] = "scoped"
    /\ calls' = Reconciled(services, calls, {sid[p]})
    /\ Goto(p, "resolve")
    /\ UNCHANGED <<repositories, services, cmd, todo, name, root, sid, lost, launches>>

\* No endpoint was regenerated.
SkipCalls(p) ==
    /\ pc[p] = "generate"
    /\ Goto(p, "resolve")
    /\ UNCHANGED <<repositories, services, calls, cmd, todo, name, root, sid, lost, launches>>

\* The end of _index_service_unlocked: every call of every service.
ReconcileAll(p) ==
    /\ pc[p] = "resolve"
    /\ calls' = Reconciled(services, calls, Ids)
    /\ lost' = FALSE
    /\ Goto(p, "next")
    /\ UNCHANGED <<repositories, services, cmd, todo, name, root, sid, launches>>

\* delete_services_not_in: what the scan of the repository no longer found.
Unfound(p) ==
    {i \in RowIds(services) : services[i].repo = cmd[p].repo
                              /\ services[i].name \notin {s[1] : s \in cmd[p].found}}

\* The end of index_path and of _cmd_update.
EndIndex(p) ==
    /\ pc[p] = "next"
    /\ todo[p] = {}
    /\ IF cmd[p].kind = "index" THEN Goto(p, "prune") /\ UNCHANGED <<cmd, todo, name, root, sid>>
       ELSE Ends(p)
    /\ UNCHANGED <<repositories, services, calls, lost, launches>>

PruneServices(p) ==
    /\ pc[p] = "prune"
    /\ services' = WithoutServices(services, Unfound(p))
    /\ calls' = WithoutCalls(calls, Unfound(p))
    /\ IF Unfound(p) # {} THEN Goto(p, "cleanup") /\ UNCHANGED <<cmd, todo, name, root, sid>>
       ELSE Ends(p)
    /\ UNCHANGED <<repositories, lost, launches>>

\* delete_repository; an unknown name ends the command.
RemoveRepository(p) ==
    /\ pc[p] = "remove"
    /\ LET gone == {i \in RowIds(services) : services[i].repo = cmd[p].repo}
       IN  \/ /\ cmd[p].repo \in repositories
              /\ repositories' = repositories \ {cmd[p].repo}
              /\ services' = WithoutServices(services, gone)
              /\ calls' = WithoutCalls(calls, gone)
              /\ Goto(p, "cleanup")
              /\ UNCHANGED <<cmd, todo, name, root, sid>>
           \/ /\ cmd[p].repo \notin repositories
              /\ Ends(p)
              /\ UNCHANGED <<repositories, services, calls>>
    /\ UNCHANGED <<lost, launches>>

\* The reconciliation after a deletion.
ReconcileAfterDeletion(p) ==
    /\ pc[p] = "cleanup"
    /\ calls' = Reconciled(services, calls, Ids)
    /\ lost' = FALSE
    /\ Ends(p)
    /\ UNCHANGED <<repositories, services, launches>>

\* The process is killed, or an exception ends the command: a foreign key that
\* fails, a locked database, Ctrl-C.
Crash(p) ==
    /\ pc[p] # "ended"
    /\ lost' = (lost \/ pc[p] \in Pending)
    /\ Ends(p)
    /\ UNCHANGED <<repositories, services, calls, launches>>

AllDone ==
    /\ launches = MaxLaunches
    /\ \A p \in Procs : pc[p] = "ended"
    /\ UNCHANGED vars

Next ==
    \/ \E p \in Procs :
         \/ \E c \in Commands : Launch(p, c)
         \/ \E answer \in Answers : WriteCalls(p, answer)
         \/ EnsureRepository(p) \/ LookupRow(p) \/ TakeService(p) \/ EnsureService(p)
         \/ ReconcileScoped(p) \/ SkipCalls(p) \/ ReconcileAll(p) \/ EndIndex(p)
         \/ PruneServices(p) \/ RemoveRepository(p) \/ ReconcileAfterDeletion(p)
         \/ Crash(p)
    \/ AllDone

Spec == Init /\ [][Next]_vars

(***************************************************************************)
(* Properties                                                              *)
(***************************************************************************)

\* The service of this name in the repository of service i.
IsNamed(j, i, target) ==
    /\ services[j] # None
    /\ services[j].name = target
    /\ services[j].repo = services[i].repo

\* A call that is linked is linked to a service of the name it gives, in the
\* repository of its caller: "by exact name within the caller's repository"
\* (service_calls.py:46).
LinksAreNamed ==
    \A i \in Ids, target \in Targets :
        LET call == calls[<<i, target>>]
        IN  call # None /\ call.to # None => IsNamed(call.to, i, target)

\* A change of services or calls is committed and its reconciliation is still to
\* come, or never came.
Unsettled == lost \/ \E p \in Procs : pc[p] \in Pending

\* What reconciliation promises of the calls and services there are now.
Settled ==
    \A i \in Ids, target \in Targets :
        LET call == calls[<<i, target>>]
        IN  call # None =>
                /\ (\E j \in Ids : IsNamed(j, i, target)) <=> call.to # None
                /\ call.to # None => call.kind = "internal"
                /\ call.to = None =>
                       call.kind \in {"external", Classified(target, KnownNames(services, i))}

\* Unless a reconciliation is outstanding, however commands interleaved: a call that
\* names a service of its repository is linked and 'internal'; without a link, what
\* is 'internal' or 'unknown' is what the heuristic makes of the services there are
\* (reconcile_service_call_targets, service_calls.py:46).
CallsReconciled == Unsettled \/ Settled

\* The same of LinksAreNamed when services may be renamed in place.
LinksSettle == Unsettled \/ LinksAreNamed
=============================================================================
