------------------------------ MODULE IndexRuns ------------------------------
(***************************************************************************)
(* `orbitkb index` and `orbitkb update` as concurrent operating-system     *)
(* processes over one SQLite file: the per-service lock row, the run       *)
(* ledger, and the write lock SQLite gives to one transaction at a time    *)
(* (orbitkb/db/repositories/index_runs.py and index_service in             *)
(* orbitkb/generation/orchestrator.py).                                    *)
(*                                                                         *)
(* A process takes one step per committed transaction.  A process may be   *)
(* killed anywhere (Crash), a statement may fail or be interrupted         *)
(* anywhere in the body (Fail), and a statement that waits for another     *)
(* process's write transaction may give up (BusyExit).  A process       *)
(* identifier is reused by a later command, as an operating system may do. *)
(***************************************************************************)
EXTENDS ServiceTable, Sequences

CONSTANTS
    Procs,        \* process identifiers
    Commands,     \* the commands users run
    MaxLaunches   \* bound on the number of commands run

IndexCommand == [kind : {"index"}, name : Names, root : Roots, repo : Repos]

UpdateCommand == [kind : {"update"}, name : Names, root : {None}, repo : {NoRepo}]

ASSUME CommandAssumption ==
    /\ Commands \subseteq IndexCommand \cup UpdateCommand
    /\ None \notin Procs \cup Roots \cup Names
    /\ MaxLaunches \in Nat

VARIABLES
    services,   \* the services table
    locks,      \* service_index_locks: lock key -> process_id, or None
    runs,       \* index_runs: the rows in id order
    writer,     \* the process whose open transaction holds SQLite's write lock
    pc,         \* where each process is
    cmd,        \* the command it runs
    sid,        \* service_id of its index_service call
    run,        \* run_id of its index_service call
    launches    \* commands run so far

vars == <<services, locks, runs, writer, pc, cmd, sid, run, launches>>

\* What a process was asked to index; an update learns its root path from the row.
CallOf == [kind : {"index", "update"}, name : Names,
           root : Roots \cup {None}, repo : Repos \cup {NoRepo}]

\* f"{repository_id if repository_id is not None else 'standalone'}:{name}"
LockKey(c) == <<c.repo, c.name>>

Keys == (Repos \cup {NoRepo}) \X Names

\* The part of index_service that runs inside try/finally.
Body == {"ensure", "analyze", "recover", "start", "generate"}

\* The process holds the lock row of its key.
Holding == Body \cup {"release"}

\* From ensure_service on, the process works on one row of `services`.
Working == {"analyze", "recover", "start", "generate"}

PCs == {"ended", "lookup", "acquire", "inspect", "refused"} \cup Holding

\* os.kill(process_id, 0) succeeds.
ProcessExists(p) == pc[p] # "ended"

\* A transaction of p may write now; any other process that tries waits.
CanWrite(p) == writer \in {None, p}

RunRow == [svc : Ids, status : {"partial", "ok", "failed"}, open : BOOLEAN]

\* The row once finished_at is set.
Closed(row, status) == [svc |-> row.svc, status |-> status, open |-> FALSE]

TypeOK ==
    /\ services \in Tables
    /\ locks \in [Keys -> Procs \cup {None}]
    /\ runs \in Seq(RunRow)
    /\ writer \in Procs \cup {None}
    /\ pc \in [Procs -> PCs]
    /\ cmd \in [Procs -> CallOf \cup {None}]
    /\ sid \in [Procs -> Ids \cup {None}]
    /\ run \in [Procs -> Nat]
    /\ launches \in 0..MaxLaunches

Init ==
    /\ services = EmptyTable
    /\ locks = [k \in Keys |-> None]
    /\ runs = <<>>
    /\ writer = None
    /\ pc = [p \in Procs |-> "ended"]
    /\ cmd = [p \in Procs |-> None]
    /\ sid = [p \in Procs |-> None]
    /\ run = [p \in Procs |-> 0]
    /\ launches = 0

(***************************************************************************)
(* Starting and ending                                                     *)
(***************************************************************************)

Goto(p, label) == pc' = [pc EXCEPT ![p] = label]

\* The process is gone: SQLite rolls back its open transaction, and nothing
\* of its memory is left.  A lock row it committed stays.
Ends(p) ==
    /\ Goto(p, "ended")
    /\ cmd' = [cmd EXCEPT ![p] = None]
    /\ sid' = [sid EXCEPT ![p] = None]
    /\ run' = [run EXCEPT ![p] = 0]
    /\ writer' = IF writer = p THEN None ELSE writer

\* _cmd_index goes straight to index_service; _cmd_update looks the row up first.
Launch(p, c) ==
    /\ pc[p] = "ended"
    /\ launches < MaxLaunches
    /\ launches' = launches + 1
    /\ cmd' = [cmd EXCEPT ![p] = c]
    /\ Goto(p, IF c.kind = "update" THEN "lookup" ELSE "acquire")
    /\ UNCHANGED <<services, locks, runs, writer, sid, run>>

\* _cmd_update: an unknown or ambiguous name ends the command, otherwise the
\* root path comes from the row and index_service gets no repository_id.
LookupRow(p) ==
    /\ pc[p] = "lookup"
    /\ \/ \E i \in RowIds(services) :
            /\ NamedRows(services, cmd[p].name, NoRepo) = {i}
            /\ cmd' = [cmd EXCEPT ![p].root = services[i].root]
            /\ Goto(p, "acquire")
            /\ UNCHANGED <<sid, run, writer>>
       \/ /\ Cardinality(NamedRows(services, cmd[p].name, NoRepo)) # 1
          /\ Ends(p)
    /\ UNCHANGED <<services, locks, runs, launches>>

(***************************************************************************)
(* Faulty variants: what a plausible slip in the code would do instead.    *)
(* Each breaks a property below; none is part of Next.                     *)
(***************************************************************************)

\* INSERT OR REPLACE instead of INSERT.
InsertOrReplaceLock(p) ==
    /\ pc[p] = "acquire"
    /\ CanWrite(p)
    /\ locks' = [locks EXCEPT ![LockKey(cmd[p])] = p]
    /\ Goto(p, "ensure")
    /\ UNCHANGED <<services, runs, writer, cmd, sid, run, launches>>

\* No pid probe before the DELETE.
DeleteAnyLock(p) ==
    /\ pc[p] = "inspect"
    /\ locks' = [locks EXCEPT ![LockKey(cmd[p])] = None]
    /\ writer' = None
    /\ Goto(p, "acquire")
    /\ UNCHANGED <<services, runs, cmd, sid, run, launches>>

\* Waiting for the holder instead of refusing, with the transaction still open.
RetryLock(p) ==
    /\ pc[p] = "inspect"
    /\ Goto(p, "acquire")
    /\ UNCHANGED <<services, locks, runs, writer, cmd, sid, run, launches>>

RecoverAs(p, status, Abandoned(_)) ==
    /\ pc[p] = "recover"
    /\ runs' = [r \in DOMAIN runs |->
                 IF Abandoned(r) THEN Closed(runs[r], status)
                 ELSE runs[r]]
    /\ writer' = None
    /\ Goto(p, "start")
    /\ UNCHANGED <<services, locks, cmd, sid, run, launches>>

\* Nothing is recovered.
RecoverNothing(p) == RecoverAs(p, "failed", LAMBDA r : FALSE)

\* Without `finished_at IS NULL`.
RecoverFinished(p) == RecoverAs(p, "failed", LAMBDA r : runs[r].svc = sid[p])

\* A status outside the CHECK constraint.
RecoverAsAbandoned(p) ==
    RecoverAs(p, "abandoned", LAMBDA r : runs[r].svc = sid[p] /\ runs[r].open)

(***************************************************************************)
(* acquire_service_lock                                                    *)
(***************************************************************************)

\* The INSERT succeeds and is committed.
InsertLock(p) ==
    /\ pc[p] = "acquire"
    /\ CanWrite(p)
    /\ locks[LockKey(cmd[p])] = None
    /\ locks' = [locks EXCEPT ![LockKey(cmd[p])] = p]
    /\ Goto(p, "ensure")
    /\ UNCHANGED <<services, runs, writer, cmd, sid, run, launches>>

\* The INSERT hits the primary key.  IntegrityError undoes the statement and
\* leaves the implicit transaction, with SQLite's write lock, open.
InsertConflicts(p) ==
    /\ pc[p] = "acquire"
    /\ CanWrite(p)
    /\ locks[LockKey(cmd[p])] # None
    /\ writer' = p
    /\ Goto(p, "inspect")
    /\ UNCHANGED <<services, locks, runs, cmd, sid, run, launches>>

\* The recorded process is gone: DELETE, COMMIT and a second attempt.
DeleteDeadLock(p) ==
    /\ pc[p] = "inspect"
    /\ ~ProcessExists(locks[LockKey(cmd[p])])
    /\ locks' = [locks EXCEPT ![LockKey(cmd[p])] = None]
    /\ writer' = None
    /\ Goto(p, "acquire")
    /\ UNCHANGED <<services, runs, cmd, sid, run, launches>>

\* The recorded process exists: False, "index already in progress", and the
\* transaction stays open until the connection goes.
RefuseLock(p) ==
    /\ pc[p] = "inspect"
    /\ ProcessExists(locks[LockKey(cmd[p])])
    /\ Goto(p, "refused")
    /\ UNCHANGED <<services, locks, runs, writer, cmd, sid, run, launches>>

ExitRefused(p) ==
    /\ pc[p] = "refused"
    /\ Ends(p)
    /\ UNCHANGED <<services, locks, runs, launches>>

(***************************************************************************)
(* _index_service_unlocked, as far as locks and runs see it                *)
(***************************************************************************)

\* ensure_service, committed.
EnsureService(p) ==
    /\ pc[p] = "ensure"
    /\ CanWrite(p)
    /\ \E i \in Ids :
         /\ EnsuresRow(services, cmd[p].name, cmd[p].root, cmd[p].repo, i, services')
         /\ sid' = [sid EXCEPT ![p] = i]
    /\ Goto(p, "analyze")
    /\ UNCHANGED <<locks, runs, writer, cmd, run, launches>>

\* Without a repository the name may mean several rows: ValueError.
EnsureAmbiguous(p) ==
    /\ pc[p] = "ensure"
    /\ cmd[p].repo = NoRepo
    /\ Cardinality(NamedRows(services, cmd[p].name, NoRepo)) > 1
    /\ Goto(p, "release")
    /\ UNCHANGED <<services, locks, runs, writer, cmd, sid, run, launches>>

\* The first write of the static facts opens a transaction that stays open
\* while the security scan and the file hashes are computed.
OpenAnalysisWrite(p) ==
    /\ pc[p] = "analyze"
    /\ CanWrite(p)
    /\ writer' = p
    /\ Goto(p, "recover")
    /\ UNCHANGED <<services, locks, runs, cmd, sid, run, launches>>

\* recover_unfinished_runs: its commit also ends the analysis transaction.
RecoverUnfinishedRuns(p) ==
    /\ pc[p] = "recover"
    /\ runs' = [r \in DOMAIN runs |->
                 IF runs[r].svc = sid[p] /\ runs[r].open
                 THEN Closed(runs[r], "failed")
                 ELSE runs[r]]
    /\ writer' = None
    /\ Goto(p, "start")
    /\ UNCHANGED <<services, locks, cmd, sid, run, launches>>

\* start_index_run: a new row, 'partial' and without finished_at.
StartIndexRun(p) ==
    /\ pc[p] = "start"
    /\ CanWrite(p)
    /\ runs' = Append(runs, [svc |-> sid[p], status |-> "partial", open |-> TRUE])
    /\ run' = [run EXCEPT ![p] = Len(runs) + 1]
    /\ Goto(p, "generate")
    /\ UNCHANGED <<services, locks, writer, cmd, sid, launches>>

\* The generators have run; finish_index_run updates the row by its id.
FinishIndexRun(p) ==
    /\ pc[p] = "generate"
    /\ CanWrite(p)
    /\ \E status \in {"ok", "partial"} :
         runs' = [runs EXCEPT ![run[p]] = Closed(@, status)]
    /\ Goto(p, "release")
    /\ UNCHANGED <<services, locks, writer, cmd, sid, run, launches>>

\* An exception in the body, Ctrl-C included: on to the finally clause.  What
\* the open transaction holds is committed there, together with the DELETE.
Fail(p) ==
    /\ pc[p] \in Body
    /\ Goto(p, "release")
    /\ UNCHANGED <<services, locks, runs, writer, cmd, sid, run, launches>>

\* release_service_lock deletes by key, whoever the row names; the command ends.
ReleaseLock(p) ==
    /\ pc[p] = "release"
    /\ CanWrite(p)
    /\ locks' = [locks EXCEPT ![LockKey(cmd[p])] = None]
    /\ Ends(p)
    /\ UNCHANGED <<services, runs, launches>>

(***************************************************************************)
(* Failures                                                                *)
(***************************************************************************)

\* "database is locked": the busy timeout runs out before the INSERT of the
\* lock, or before the DELETE that releases it.  Neither is caught, so the
\* command ends, in the second case with its lock row in place.
BusyExit(p) ==
    /\ pc[p] \in {"acquire", "release"}
    /\ ~CanWrite(p)
    /\ Ends(p)
    /\ UNCHANGED <<services, locks, runs, launches>>

\* The process is killed.
Crash(p) ==
    /\ ProcessExists(p)
    /\ Ends(p)
    /\ UNCHANGED <<services, locks, runs, launches>>

\* What a process does by itself; Fail and Crash are done to it.
Step(p) ==
    \/ LookupRow(p)
    \/ InsertLock(p) \/ InsertConflicts(p) \/ DeleteDeadLock(p) \/ RefuseLock(p)
    \/ ExitRefused(p)
    \/ EnsureService(p) \/ EnsureAmbiguous(p) \/ OpenAnalysisWrite(p)
    \/ RecoverUnfinishedRuns(p) \/ StartIndexRun(p) \/ FinishIndexRun(p)
    \/ ReleaseLock(p) \/ BusyExit(p)

\* Every command has been run and has ended: nothing is left to do.
AllDone ==
    /\ launches = MaxLaunches
    /\ \A p \in Procs : ~ProcessExists(p)
    /\ UNCHANGED vars

Next ==
    \/ \E p \in Procs :
         \/ \E c \in Commands : Launch(p, c)
         \/ Step(p) \/ Fail(p) \/ Crash(p)
    \/ AllDone

Spec == Init /\ [][Next]_vars

\* The operating system schedules every process that can run.
FairSpec == Spec /\ \A p \in Procs : WF_vars(Step(p))

(***************************************************************************)
(* Properties                                                              *)
(***************************************************************************)

\* No two commands that can reach the same row of `services` differ in lock key:
\* only `index`, and one service name per root path of a repository.  Commands
\* is what the users run; the code does not enforce this.
OneKeyPerService ==
    /\ \A c \in Commands : c.kind = "index"
    /\ \A c, d \in Commands : c.repo = d.repo /\ c.root = d.root => c.name = d.name

\* A process between acquire and release finds its own pid in the lock row, no
\* matter which commands died or took over around it, so that releasing by key
\* (index_runs.py:35) never deletes the lock of another process.
LockRowIsMine ==
    \A p \in Procs : pc[p] \in Holding => locks[LockKey(cmd[p])] = p

\* Two processes never index the same row of `services` at the same time: what
\* the docstring of index_service calls "serialize one service identity".
ServiceExclusion ==
    \A p, q \in Procs :
        pc[p] \in Working /\ pc[q] \in Working /\ sid[p] = sid[q] => p = q

\* While a process generates, its own index_runs row is unfinished: no other
\* command closed it as 'failed' under its feet (recover_unfinished_runs).
LiveRunIsOpen ==
    \A p \in Procs : pc[p] = "generate" =>
        run[p] \in DOMAIN runs /\ runs[run[p]].open /\ runs[run[p]].svc = sid[p]

\* Whatever crashed or failed before, a service has at most one unfinished run.
OneOpenRun ==
    \A r, s \in DOMAIN runs :
        runs[r].open /\ runs[s].open /\ runs[r].svc = runs[s].svc => r = s

\* History is append-only: a run that is finished is never finished again, so an
\* attempt recorded as 'failed' does not turn 'ok' later.
ClosedRunStays ==
    [][\A r \in DOMAIN runs :
        /\ r \in DOMAIN runs'
        /\ ~runs[r].open => runs'[r] = runs[r]]_vars

\* Seen from outside, the lock rows, the pid probe and the crashes are a mutex
\* that a client's death releases.
Inside == [k \in Keys |-> {p \in Procs : pc[p] \in Holding /\ LockKey(cmd[p]) = k}]

Mutex == INSTANCE ServiceMutex WITH Clients <- Procs, inside <- Inside

ImplementsMutex == Mutex!Spec

\* Every command ends, refused, failed or finished: nobody waits forever for the
\* lock of a dead process or for a write transaction nobody closes.
EveryCommandEnds == \A p \in Procs : ProcessExists(p) ~> ~ProcessExists(p)
=============================================================================
