-------------------------- MODULE IndexRunsProofs --------------------------
(***************************************************************************)
(* What IndexRuns guarantees for any number of processes, commands and     *)
(* services.                                                               *)
(***************************************************************************)
EXTENDS IndexRuns, SequenceTheorems, TLAPS

\* ensure_service leaves a table of rows, with the row it returns in it.
LEMMA EnsureKeepsTable ==
    ASSUME NEW tbl \in Tables, NEW name \in Names, NEW root \in Roots,
           NEW repo \in Repos \cup {NoRepo}, NEW i \in Ids, NEW new,
           EnsuresRow(tbl, name, root, repo, i, new)
    PROVE  /\ new \in Tables
           /\ new[i] # None
           /\ new[i].name = name
           /\ new[i].root = root
           /\ repo # NoRepo => new[i].repo = repo
           /\ \A j \in Ids \ {i} : new[j] = tbl[j]
  <1> DEFINE inserted == [name |-> name, root |-> root, repo |-> repo]
             updated  == Refreshed(tbl[i], name, root, repo)
  <1>1. inserted \in Row
    BY DEF Row
  <1>2. CASE /\ i \in EnsureCandidates(tbl, name, root, repo)
             /\ new = [tbl EXCEPT ![i] = updated]
    <2>1. tbl[i] \in Row
      BY <1>2 DEF EnsureCandidates, NamedRows, RootedRows, RowIds, Tables
    <2>2. updated \in Row
      BY <2>1 DEF Row, Refreshed
    <2> QED
      BY <1>2, <2>2, TableAssumption DEF Tables, Refreshed
  <1>3. CASE new = [tbl EXCEPT ![i] = inserted]
    BY <1>1, <1>3, TableAssumption DEF Tables
  <1> QED
    BY <1>2, <1>3 DEF EnsuresRow

\* A command as the process sees it names one lock row.
LEMMA KeyOfCall ==
    ASSUME NEW c \in CallOf
    PROVE  LockKey(c) \in Keys
  BY DEF CallOf, LockKey, Keys

\* What a process that has not ended keeps in memory.
LiveState ==
    \A p \in Procs :
        /\ pc[p] # "ended" => cmd[p] \in CallOf
        /\ pc[p] \notin {"ended", "lookup"} => cmd[p].root \in Roots
        /\ pc[p] \in Working => sid[p] \in Ids
        /\ pc[p] = "generate" => run[p] \in DOMAIN runs /\ runs[run[p]].svc = sid[p]

\* The states in which a process has left a transaction open.
HoldsWriter ==
    \A p \in Procs : pc[p] \in {"inspect", "refused", "recover"} => writer = p

\* The inductive invariant of the lock table.
LockInv == TypeOK /\ LiveState /\ HoldsWriter /\ LockRowIsMine

LEMMA InitLockInv == Init => LockInv
  <1> SUFFICES ASSUME Init PROVE LockInv
    OBVIOUS
  <1> USE DEF Init
  <1>1. TypeOK
    BY TableAssumption, CommandAssumption
    DEF TypeOK, EmptyTable, Tables, PCs, Holding, Body
  <1>2. LiveState /\ HoldsWriter /\ LockRowIsMine
    BY DEF LiveState, HoldsWriter, LockRowIsMine, Working, Holding, Body
  <1> QED
    BY <1>1, <1>2 DEF LockInv

\* Rewriting rows in place keeps the ledger a sequence of rows of the same length.
LEMMA LedgerRewrite ==
    ASSUME NEW s \in Seq(RunRow), NEW t \in [DOMAIN s -> RunRow]
    PROVE  t \in Seq(RunRow) /\ DOMAIN t = DOMAIN s /\ Len(t) = Len(s)
  <1>1. Len(s) \in Nat /\ DOMAIN s = 1..Len(s)
    OBVIOUS
  <1>2. t \in Seq(RunRow)
    BY <1>1, SeqDef
  <1> QED
    BY <1>1, <1>2, LenProperties

\* One step of any process keeps the lock table's invariant.
LEMMA NextLockInv == LockInv /\ [Next]_vars => LockInv'
  <1> SUFFICES ASSUME LockInv, [Next]_vars PROVE LockInv'
    OBVIOUS
  <1>t. TypeOK /\ LiveState /\ HoldsWriter /\ LockRowIsMine
    BY DEF LockInv
  <1>1. CASE UNCHANGED vars
    BY <1>1, <1>t DEF vars, LockInv, TypeOK, LiveState, HoldsWriter, LockRowIsMine
  <1>2. ASSUME NEW p \in Procs, NEW c \in Commands, Launch(p, c) PROVE LockInv'
    <2>0. c \in CallOf /\ (c.kind # "update" => c.root \in Roots)
      BY CommandAssumption DEF IndexCommand, UpdateCommand, CallOf
    <2>1. TypeOK'
      BY <1>2, <2>0, <1>t, CommandAssumption DEF Launch, Goto, TypeOK, PCs, Holding, Body, Working
    <2>2. LiveState'
      BY <1>2, <2>0, <1>t, CommandAssumption DEF Launch, Goto, TypeOK, LiveState, PCs, Holding, Body, Working
    <2>3. HoldsWriter'
      BY <1>2, <1>t DEF Launch, Goto, TypeOK, HoldsWriter, PCs, Holding, Body, Working
    <2>4. LockRowIsMine'
      BY <1>2, <2>0, <1>t, CommandAssumption DEF Launch, Goto, TypeOK, LiveState, LockRowIsMine, PCs, Holding, Body, Working
    <2> QED
      BY <2>1, <2>2, <2>3, <2>4 DEF LockInv
  <1>3. ASSUME NEW p \in Procs, LookupRow(p) PROVE LockInv'
    <2>1. CASE Ends(p)
      <3>1. TypeOK'
        BY <1>3, <2>1, <1>t DEF LookupRow, Ends, Goto, TypeOK, PCs
      <3>2. LiveState'
        BY <1>3, <2>1, <1>t DEF LookupRow, Ends, Goto, TypeOK, LiveState, Working
      <3>3. HoldsWriter'
        BY <1>3, <2>1, <1>t DEF LookupRow, Ends, Goto, TypeOK, HoldsWriter
      <3>4. LockRowIsMine'
        BY <1>3, <2>1, <1>t DEF LookupRow, Ends, Goto, TypeOK, LockRowIsMine, Holding, Body
      <3> QED
        BY <3>1, <3>2, <3>3, <3>4 DEF LockInv
    <2>2. ASSUME NEW i \in RowIds(services),
                 cmd' = [cmd EXCEPT ![p].root = services[i].root],
                 Goto(p, "acquire"), UNCHANGED <<sid, run, writer>>
          PROVE  LockInv'
      <3>1. services[i] \in Row /\ cmd[p] \in CallOf
        BY <1>3, <2>2, <1>t DEF TypeOK, Tables, RowIds, LookupRow, LiveState
      <3>2. /\ cmd'[p] \in CallOf /\ cmd'[p].root \in Roots
            /\ cmd' = [cmd EXCEPT ![p] = cmd'[p]]
        BY <2>2, <3>1, <1>t DEF Row, CallOf, TypeOK
      <3>3. UNCHANGED <<services, locks, runs, launches>>
        BY <1>3 DEF LookupRow
      <3>4. TypeOK'
        BY <2>2, <3>2, <3>3, <1>t DEF Goto, TypeOK, PCs
      <3>5. LiveState'
        BY <2>2, <3>2, <3>3, <1>t DEF Goto, TypeOK, LiveState, Working
      <3>6. HoldsWriter'
        BY <2>2, <3>3, <1>t DEF Goto, TypeOK, HoldsWriter
      <3>7. LockRowIsMine'
        BY <2>2, <3>2, <3>3, <1>t DEF Goto, TypeOK, LockRowIsMine, Holding, Body
      <3> QED
        BY <3>4, <3>5, <3>6, <3>7 DEF LockInv
    <2> QED
      BY <1>3, <2>1, <2>2 DEF LookupRow
  <1>4. ASSUME NEW p \in Procs, InsertLock(p) PROVE LockInv'
    <2>0. cmd[p] \in CallOf /\ LockKey(cmd[p]) \in Keys
      BY <1>4, <1>t, KeyOfCall DEF InsertLock, LiveState, Holding, Body
    <2>1. TypeOK'
      BY <1>4, <2>0, <1>t DEF InsertLock, Goto, TypeOK, PCs, Holding, Body, Working
    <2>2. LiveState'
      BY <1>4, <2>0, <1>t DEF InsertLock, Goto, TypeOK, LiveState, PCs, Holding, Body, Working
    <2>3. HoldsWriter'
      BY <1>4, <1>t DEF InsertLock, Goto, TypeOK, HoldsWriter, PCs, Holding, Body, Working
    <2>4. LockRowIsMine'
      BY <1>4, <2>0, <1>t, CommandAssumption DEF InsertLock, Goto, TypeOK, LiveState, LockRowIsMine, PCs, Holding, Body, Working
    <2> QED
      BY <2>1, <2>2, <2>3, <2>4 DEF LockInv
  <1>5. ASSUME NEW p \in Procs, InsertConflicts(p) PROVE LockInv'
    <2>1. TypeOK'
      BY <1>5, <1>t DEF InsertConflicts, Goto, TypeOK, PCs, Holding, Body, Working
    <2>2. LiveState'
      BY <1>5, <1>t DEF InsertConflicts, Goto, TypeOK, LiveState, PCs, Holding, Body, Working
    <2>3. HoldsWriter'
      BY <1>5, <1>t, CommandAssumption DEF InsertConflicts, Goto, TypeOK, HoldsWriter, PCs, Holding, Body, Working, CanWrite
    <2>4. LockRowIsMine'
      BY <1>5, <1>t DEF InsertConflicts, Goto, TypeOK, LiveState, LockRowIsMine, PCs, Holding, Body, Working
    <2> QED
      BY <2>1, <2>2, <2>3, <2>4 DEF LockInv
  <1>6. ASSUME NEW p \in Procs, DeleteDeadLock(p) PROVE LockInv'
    <2>0. cmd[p] \in CallOf /\ LockKey(cmd[p]) \in Keys
      BY <1>6, <1>t, KeyOfCall DEF DeleteDeadLock, LiveState, Holding, Body
    <2>1. TypeOK'
      BY <1>6, <2>0, <1>t DEF DeleteDeadLock, Goto, TypeOK, PCs, Holding, Body, Working
    <2>2. LiveState'
      BY <1>6, <2>0, <1>t DEF DeleteDeadLock, Goto, TypeOK, LiveState, PCs, Holding, Body, Working
    <2>3. HoldsWriter'
      BY <1>6, <1>t DEF DeleteDeadLock, Goto, TypeOK, HoldsWriter, PCs, Holding, Body, Working
    <2>4. LockRowIsMine'
      BY <1>6, <2>0, <1>t DEF DeleteDeadLock, Goto, TypeOK, LiveState, LockRowIsMine, PCs, Holding, Body, Working, ProcessExists
    <2> QED
      BY <2>1, <2>2, <2>3, <2>4 DEF LockInv
  <1>7. ASSUME NEW p \in Procs, RefuseLock(p) PROVE LockInv'
    <2>1. TypeOK'
      BY <1>7, <1>t DEF RefuseLock, Goto, TypeOK, PCs, Holding, Body, Working
    <2>2. LiveState'
      BY <1>7, <1>t DEF RefuseLock, Goto, TypeOK, LiveState, PCs, Holding, Body, Working
    <2>3. HoldsWriter'
      BY <1>7, <1>t DEF RefuseLock, Goto, TypeOK, HoldsWriter, PCs, Holding, Body, Working
    <2>4. LockRowIsMine'
      BY <1>7, <1>t DEF RefuseLock, Goto, TypeOK, LiveState, LockRowIsMine, PCs, Holding, Body, Working
    <2> QED
      BY <2>1, <2>2, <2>3, <2>4 DEF LockInv
  <1>8. ASSUME NEW p \in Procs, ExitRefused(p) \/ BusyExit(p) \/ Crash(p) PROVE LockInv'
    <2>0. Ends(p) /\ UNCHANGED <<services, locks, runs, launches>>
      BY <1>8 DEF ExitRefused, BusyExit, Crash
    <2>1. TypeOK'
      BY <2>0, <1>t DEF Ends, Goto, TypeOK, PCs, Holding, Body, Working
    <2>2. LiveState'
      BY <2>0, <1>t DEF Ends, Goto, TypeOK, LiveState, PCs, Holding, Body, Working
    <2>3. HoldsWriter'
      BY <2>0, <1>t DEF Ends, Goto, TypeOK, HoldsWriter, PCs, Holding, Body, Working
    <2>4. LockRowIsMine'
      BY <2>0, <1>t DEF Ends, Goto, TypeOK, LiveState, LockRowIsMine, PCs, Holding, Body, Working
    <2> QED
      BY <2>1, <2>2, <2>3, <2>4 DEF LockInv
  <1>9. ASSUME NEW p \in Procs, EnsureService(p) PROVE LockInv'
    <2>0. services' \in Tables
      <3>1. cmd[p] \in CallOf /\ services \in Tables
        BY <1>9, <1>t DEF EnsureService, LiveState, TypeOK
      <3>2. cmd[p].root \in Roots
        BY <1>9, <1>t DEF EnsureService, LiveState
      <3> QED
        BY <1>9, <3>1, <3>2, EnsureKeepsTable DEF EnsureService, CallOf
    <2>1. TypeOK'
      BY <1>9, <2>0, <1>t DEF EnsureService, Goto, TypeOK, PCs, Holding, Body, Working
    <2>2. LiveState'
      BY <1>9, <2>0, <1>t DEF EnsureService, Goto, TypeOK, LiveState, PCs, Holding, Body, Working
    <2>3. HoldsWriter'
      BY <1>9, <1>t DEF EnsureService, Goto, TypeOK, HoldsWriter, PCs, Holding, Body, Working
    <2>4. LockRowIsMine'
      BY <1>9, <2>0, <1>t DEF EnsureService, Goto, TypeOK, LiveState, LockRowIsMine, PCs, Holding, Body, Working
    <2> QED
      BY <2>1, <2>2, <2>3, <2>4 DEF LockInv
  <1>10. ASSUME NEW p \in Procs, EnsureAmbiguous(p) \/ Fail(p) PROVE LockInv'
    <2>1. TypeOK'
      BY <1>10, <1>t DEF EnsureAmbiguous, Fail, Goto, TypeOK, PCs, Holding, Body, Working
    <2>2. LiveState'
      BY <1>10, <1>t DEF EnsureAmbiguous, Fail, Goto, TypeOK, LiveState, PCs, Holding, Body, Working
    <2>3. HoldsWriter'
      BY <1>10, <1>t DEF EnsureAmbiguous, Fail, Goto, TypeOK, HoldsWriter, PCs, Holding, Body, Working
    <2>4. LockRowIsMine'
      BY <1>10, <1>t DEF EnsureAmbiguous, Fail, Goto, TypeOK, LiveState, LockRowIsMine, PCs, Holding, Body, Working
    <2> QED
      BY <2>1, <2>2, <2>3, <2>4 DEF LockInv
  <1>11. ASSUME NEW p \in Procs, OpenAnalysisWrite(p) PROVE LockInv'
    <2>1. TypeOK'
      BY <1>11, <1>t DEF OpenAnalysisWrite, Goto, TypeOK, PCs, Holding, Body, Working
    <2>2. LiveState'
      BY <1>11, <1>t DEF OpenAnalysisWrite, Goto, TypeOK, LiveState, PCs, Holding, Body, Working
    <2>3. HoldsWriter'
      BY <1>11, <1>t, CommandAssumption DEF OpenAnalysisWrite, Goto, TypeOK, HoldsWriter, PCs, Holding, Body, Working, CanWrite
    <2>4. LockRowIsMine'
      BY <1>11, <1>t DEF OpenAnalysisWrite, Goto, TypeOK, LiveState, LockRowIsMine, PCs, Holding, Body, Working
    <2> QED
      BY <2>1, <2>2, <2>3, <2>4 DEF LockInv
  <1>12. ASSUME NEW p \in Procs, RecoverUnfinishedRuns(p) PROVE LockInv'
    <2>0. /\ runs' \in Seq(RunRow) /\ DOMAIN runs' = DOMAIN runs
          /\ \A r \in DOMAIN runs : runs'[r].svc = runs[r].svc
      <3>1. \A r \in DOMAIN runs : runs[r] \in RunRow
        BY <1>t DEF TypeOK
      <3>2. \A r \in DOMAIN runs : Closed(runs[r], "failed") \in RunRow
        BY <3>1 DEF Closed, RunRow
      <3>3. runs' \in [DOMAIN runs -> RunRow]
        BY <1>12, <3>1, <3>2 DEF RecoverUnfinishedRuns
      <3> QED
        BY <1>12, <1>t, <3>3, LedgerRewrite DEF RecoverUnfinishedRuns, Closed, TypeOK
    <2>1. TypeOK'
      BY <1>12, <2>0, <1>t DEF RecoverUnfinishedRuns, Goto, TypeOK, PCs, Holding, Body, Working
    <2>2. LiveState'
      BY <1>12, <2>0, <1>t DEF RecoverUnfinishedRuns, Goto, TypeOK, LiveState, PCs, Holding, Body, Working
    <2>3. HoldsWriter'
      BY <1>12, <1>t DEF RecoverUnfinishedRuns, Goto, TypeOK, HoldsWriter, PCs, Holding, Body, Working
    <2>4. LockRowIsMine'
      BY <1>12, <1>t DEF RecoverUnfinishedRuns, Goto, TypeOK, LiveState, LockRowIsMine, PCs, Holding, Body, Working
    <2> QED
      BY <2>1, <2>2, <2>3, <2>4 DEF LockInv
  <1>13. ASSUME NEW p \in Procs, StartIndexRun(p) PROVE LockInv'
    <2>0. /\ runs' \in Seq(RunRow) /\ DOMAIN runs \subseteq DOMAIN runs'
          /\ Len(runs) + 1 \in DOMAIN runs' /\ Len(runs) \in Nat
          /\ \A r \in DOMAIN runs : runs'[r] = runs[r]
          /\ runs'[Len(runs) + 1].svc = sid[p]
      <3>1. [svc |-> sid[p], status |-> "partial", open |-> TRUE] \in RunRow
        BY <1>13, <1>t DEF StartIndexRun, LiveState, Working, RunRow
      <3> QED
        BY <1>13, <1>t, <3>1, AppendProperties DEF StartIndexRun, TypeOK
    <2>1. TypeOK'
      BY <1>13, <2>0, <1>t DEF StartIndexRun, Goto, TypeOK, PCs, Holding, Body, Working
    <2>2. LiveState'
      BY <1>13, <2>0, <1>t DEF StartIndexRun, Goto, TypeOK, LiveState, PCs, Holding, Body, Working
    <2>3. HoldsWriter'
      BY <1>13, <1>t DEF StartIndexRun, Goto, TypeOK, HoldsWriter, PCs, Holding, Body, Working
    <2>4. LockRowIsMine'
      BY <1>13, <1>t DEF StartIndexRun, Goto, TypeOK, LiveState, LockRowIsMine, PCs, Holding, Body, Working
    <2> QED
      BY <2>1, <2>2, <2>3, <2>4 DEF LockInv
  <1>14. ASSUME NEW p \in Procs, FinishIndexRun(p) PROVE LockInv'
    <2>0. /\ runs' \in Seq(RunRow) /\ DOMAIN runs' = DOMAIN runs
          /\ \A r \in DOMAIN runs : runs'[r].svc = runs[r].svc
      <3>1. \A r \in DOMAIN runs : runs[r] \in RunRow
        BY <1>t DEF TypeOK
      <3>2. PICK status \in {"ok", "partial"} :
              runs' = [runs EXCEPT ![run[p]] = Closed(@, status)]
        BY <1>14 DEF FinishIndexRun
      <3>3. \A r \in DOMAIN runs : Closed(runs[r], status) \in RunRow
        BY <3>1 DEF Closed, RunRow
      <3>4. runs' \in [DOMAIN runs -> RunRow]
        BY <3>1, <3>2, <3>3
      <3> QED
        BY <1>t, <3>2, <3>4, LedgerRewrite DEF Closed, TypeOK
    <2>1. TypeOK'
      BY <1>14, <2>0, <1>t DEF FinishIndexRun, Goto, TypeOK, PCs, Holding, Body, Working
    <2>2. LiveState'
      BY <1>14, <2>0, <1>t DEF FinishIndexRun, Goto, TypeOK, LiveState, PCs, Holding, Body, Working
    <2>3. HoldsWriter'
      BY <1>14, <1>t DEF FinishIndexRun, Goto, TypeOK, HoldsWriter, PCs, Holding, Body, Working
    <2>4. LockRowIsMine'
      BY <1>14, <1>t DEF FinishIndexRun, Goto, TypeOK, LiveState, LockRowIsMine, PCs, Holding, Body, Working
    <2> QED
      BY <2>1, <2>2, <2>3, <2>4 DEF LockInv
  <1>15. ASSUME NEW p \in Procs, ReleaseLock(p) PROVE LockInv'
    <2>0. cmd[p] \in CallOf /\ LockKey(cmd[p]) \in Keys
      BY <1>15, <1>t, KeyOfCall DEF ReleaseLock, LiveState, Holding, Body
    <2>1. TypeOK'
      BY <1>15, <2>0, <1>t DEF ReleaseLock, Ends, Goto, TypeOK, PCs, Holding, Body, Working
    <2>2. LiveState'
      BY <1>15, <2>0, <1>t DEF ReleaseLock, Ends, Goto, TypeOK, LiveState, PCs, Holding, Body, Working
    <2>3. HoldsWriter'
      BY <1>15, <1>t DEF ReleaseLock, Ends, Goto, TypeOK, HoldsWriter, PCs, Holding, Body, Working
    <2>4. LockRowIsMine'
      BY <1>15, <2>0, <1>t DEF ReleaseLock, Ends, Goto, TypeOK, LiveState, LockRowIsMine, PCs, Holding, Body, Working
    <2> QED
      BY <2>1, <2>2, <2>3, <2>4 DEF LockInv
  <1> QED
    BY <1>1, <1>2, <1>3, <1>4, <1>5, <1>6, <1>7, <1>8, <1>9, <1>10, <1>11, <1>12, <1>13,
       <1>14, <1>15 DEF Next, Step, AllDone

\* The invariant holds in every reachable state.
LEMMA AlwaysLockInv == Spec => []LockInv
  BY InitLockInv, NextLockInv, PTL DEF Spec

\* Every variable keeps its type: in particular the ledger and the services
\* table stay tables of rows through every crash (TypeOK).
THEOREM TypeCorrect == Spec => []TypeOK
  BY AlwaysLockInv, PTL DEF LockInv

\* The lock row of a process between acquire and release names that process,
\* for any number of processes and commands and any pattern of crashes.
THEOREM LockSafety == Spec => []LockRowIsMine
  BY AlwaysLockInv, PTL DEF LockInv

(***************************************************************************)
(* The lock refines the abstract mutex.                                    *)
(***************************************************************************)

\* A step that changes neither who holds what nor any held key is a stutter.
LEMMA SameHolders ==
    ASSUME \A q \in Procs : (pc'[q] \in Holding) <=> (pc[q] \in Holding),
           \A q \in Procs : pc[q] \in Holding => LockKey(cmd'[q]) = LockKey(cmd[q])
    PROVE  Inside' = Inside
  BY DEF Inside

\* A process that stops holding leaves the key it held.
LEMMA LeavesKey ==
    ASSUME NEW p \in Procs, pc[p] \in Holding, pc'[p] \notin Holding,
           LockKey(cmd[p]) \in Keys,
           \A q \in Procs \ {p} : pc'[q] = pc[q] /\ cmd'[q] = cmd[q]
    PROVE  Mutex!Leave(p, LockKey(cmd[p]))
  <1>1. \A k \in Keys : Inside[k] = {q \in Procs : pc[q] \in Holding /\ LockKey(cmd[q]) = k}
    BY DEF Inside
  <1>2. \A k \in Keys : Inside'[k] = {q \in Procs : pc'[q] \in Holding /\ LockKey(cmd'[q]) = k}
    BY DEF Inside
  <1>3. \A k \in Keys :
          Inside'[k] = IF k = LockKey(cmd[p]) THEN Inside[k] \ {p} ELSE Inside[k]
    <2> SUFFICES ASSUME NEW k \in Keys, NEW q
                 PROVE  q \in Inside'[k] <=>
                          q \in Inside[k] /\ (k = LockKey(cmd[p]) => q # p)
      OBVIOUS
    <2>1. CASE q = p
      BY <1>1, <1>2, <2>1
    <2>2. CASE q # p
      BY <1>1, <1>2, <2>2
    <2> QED
      BY <2>1, <2>2
  <1>4. Inside' = [Inside EXCEPT ![LockKey(cmd[p])] = @ \ {p}]
    BY <1>3 DEF Inside
  <1> QED
    BY <1>1, <1>4 DEF Mutex!Leave

\* Every step of the processes is a step of the mutex or changes nothing of it.
LEMMA StepImplements == LockInv /\ [Next]_vars => [Mutex!Next]_Inside
  <1> SUFFICES ASSUME LockInv, [Next]_vars PROVE [Mutex!Next]_Inside
    OBVIOUS
  <1>t. TypeOK /\ LiveState /\ HoldsWriter /\ LockRowIsMine
    BY DEF LockInv
  <1>s. ASSUME Inside' = Inside PROVE [Mutex!Next]_Inside
    BY <1>s
  <1>l. ASSUME NEW p \in Procs, pc[p] # "ended", Ends(p) PROVE [Mutex!Next]_Inside
    <2>1. /\ pc'[p] = "ended"
          /\ \A q \in Procs \ {p} : pc'[q] = pc[q] /\ cmd'[q] = cmd[q]
      BY <1>l, <1>t DEF Ends, Goto, TypeOK
    <2>2. CASE pc[p] \in Holding
      <3>1. LockKey(cmd[p]) \in Keys
        BY <2>2, <1>t, KeyOfCall DEF LiveState, Holding, Body
      <3>2. Mutex!Leave(p, LockKey(cmd[p]))
        BY <2>1, <2>2, <3>1, LeavesKey DEF Holding, Body
      <3> QED
        BY <3>1, <3>2 DEF Mutex!Next
    <2>3. CASE pc[p] \notin Holding
      BY <2>1, <2>3, <1>s, SameHolders DEF Holding, Body
    <2> QED
      BY <2>2, <2>3
  <1>1. CASE UNCHANGED vars
    BY <1>1, <1>s DEF vars, Inside
  <1>2. ASSUME NEW p \in Procs, NEW c \in Commands, Launch(p, c) PROVE [Mutex!Next]_Inside
    BY <1>2, <1>s, <1>t, SameHolders DEF Launch, Goto, TypeOK, Holding, Body
  <1>3. ASSUME NEW p \in Procs, LookupRow(p) PROVE [Mutex!Next]_Inside
    <2>1. CASE Ends(p)
      BY <1>3, <2>1, <1>l DEF LookupRow
    <2>2. CASE Goto(p, "acquire") /\ \E r : cmd' = [cmd EXCEPT ![p].root = r]
      BY <1>3, <2>2, <1>s, <1>t, SameHolders DEF LookupRow, Goto, TypeOK, Holding, Body
    <2> QED
      BY <1>3, <2>1, <2>2 DEF LookupRow
  <1>4. ASSUME NEW p \in Procs, InsertLock(p) PROVE [Mutex!Next]_Inside
    <2> DEFINE k == LockKey(cmd[p])
    <2>1. k \in Keys
      BY <1>4, <1>t, KeyOfCall DEF InsertLock, LiveState
    <2>2. \A q \in Procs : ~(pc[q] \in Holding /\ LockKey(cmd[q]) = k)
      BY <1>4, <1>t, CommandAssumption DEF InsertLock, LockRowIsMine
    <2>3. /\ pc'[p] \in Holding /\ cmd' = cmd
          /\ \A q \in Procs \ {p} : pc'[q] = pc[q]
          /\ pc[p] \notin Holding
      BY <1>4, <1>t DEF InsertLock, Goto, TypeOK, Holding, Body
    <2>4. \A j \in Keys : Inside'[j] = IF j = k THEN {p} ELSE Inside[j]
      BY <2>2, <2>3 DEF Inside
    <2>5. Inside' = [Inside EXCEPT ![k] = {p}] /\ Inside[k] = {}
      BY <2>1, <2>2, <2>4 DEF Inside
    <2> QED
      BY <2>1, <2>5 DEF Mutex!Next, Mutex!Enter
  <1>5. ASSUME NEW p \in Procs,
               \/ InsertConflicts(p) \/ DeleteDeadLock(p) \/ RefuseLock(p)
               \/ EnsureService(p) \/ EnsureAmbiguous(p) \/ OpenAnalysisWrite(p)
               \/ RecoverUnfinishedRuns(p) \/ StartIndexRun(p) \/ FinishIndexRun(p) \/ Fail(p)
        PROVE  [Mutex!Next]_Inside
    <2>1. cmd' = cmd
      BY <1>5 DEF InsertConflicts, DeleteDeadLock, RefuseLock, EnsureService, EnsureAmbiguous,
         OpenAnalysisWrite, RecoverUnfinishedRuns, StartIndexRun, FinishIndexRun, Fail
    <2>2. \A q \in Procs : (pc'[q] \in Holding) <=> (pc[q] \in Holding)
      BY <1>5, <1>t DEF InsertConflicts, DeleteDeadLock, RefuseLock, EnsureService,
         EnsureAmbiguous, OpenAnalysisWrite, RecoverUnfinishedRuns, StartIndexRun,
         FinishIndexRun, Fail, Goto, TypeOK, Holding, Body
    <2> QED
      BY <2>1, <2>2, <1>s, SameHolders
  <1>6. ASSUME NEW p \in Procs,
               ExitRefused(p) \/ ReleaseLock(p) \/ BusyExit(p) \/ Crash(p)
        PROVE  [Mutex!Next]_Inside
    BY <1>6, <1>l DEF ExitRefused, ReleaseLock, BusyExit, Crash, ProcessExists, Holding, Body
  <1> QED
    BY <1>1, <1>2, <1>3, <1>4, <1>5, <1>6 DEF Next, Step, AllDone

\* The lock table with its pid probe and crashes implements the mutex of
\* ServiceMutex: clients enter a key alone and leave by finishing or dying.
THEOREM MutexRefinement == Spec => ImplementsMutex
  <1>1. Init => Mutex!Init
    BY DEF Init, Mutex!Init, Inside, Holding, Body
  <1> QED
    BY <1>1, AlwaysLockInv, StepImplements, PTL DEF Spec, ImplementsMutex, Mutex!Spec

(***************************************************************************)
(* One lock key per service: exclusion, and the ledger of runs.            *)
(***************************************************************************)

\* Only commands the users run are running, and none of them is an update.
CommandsRun ==
    \A p \in Procs : pc[p] # "ended" => pc[p] # "lookup" /\ cmd[p] \in Commands

\* Every row was written for some command.
RowsAreCommanded ==
    \A i \in RowIds(services) : \E c \in Commands :
        /\ services[i].name = c.name
        /\ services[i].root = c.root
        /\ services[i].repo = c.repo

\* The row a process works on still carries the name and the repository that
\* the process locked.
OwnRow ==
    \A p \in Procs : pc[p] \in Working =>
        /\ sid[p] \in RowIds(services)
        /\ services[sid[p]].name = cmd[p].name
        /\ services[sid[p]].repo = cmd[p].repo

ServiceInv == LockInv /\ CommandsRun /\ RowsAreCommanded /\ OwnRow

LEMMA InitServiceInv == Init => ServiceInv
  BY InitLockInv DEF Init, ServiceInv, CommandsRun, RowsAreCommanded, OwnRow, RowIds,
     EmptyTable, Working

\* Steps that neither write `services` nor start to work on a row.
LEMMA QuietStep ==
    ASSUME ServiceInv, LockInv', CommandsRun', services' = services,
           \A q \in Procs : pc'[q] \in Working =>
               pc[q] \in Working /\ sid'[q] = sid[q] /\ cmd'[q] = cmd[q]
    PROVE  ServiceInv'
  <1>1. RowsAreCommanded'
    BY DEF ServiceInv, RowsAreCommanded, RowIds
  <1>2. OwnRow'
    BY DEF ServiceInv, OwnRow, RowIds
  <1> QED
    BY <1>1, <1>2 DEF ServiceInv

\* ensure_service inside a repository whose services have one name per root:
\* the row it returns is the caller's, and no other row changes its name.
LEMMA EnsureOwnRow ==
    ASSUME OneKeyPerService, ServiceInv, NEW p \in Procs, EnsureService(p)
    PROVE  /\ RowsAreCommanded'
           /\ OwnRow'
  <1> USE DEF ServiceInv
  <1>1. /\ cmd[p] \in Commands /\ cmd[p] \in CallOf /\ cmd[p].root \in Roots
        /\ services \in Tables
    BY DEF EnsureService, CommandsRun, LockInv, LiveState, TypeOK
  <1>2. cmd[p].repo \in Repos /\ cmd[p].repo # NoRepo
    BY <1>1, CommandAssumption, TableAssumption DEF OneKeyPerService, IndexCommand, UpdateCommand
  <1>3. PICK i \in Ids :
          /\ EnsuresRow(services, cmd[p].name, cmd[p].root, cmd[p].repo, i, services')
          /\ sid' = [sid EXCEPT ![p] = i]
    BY DEF EnsureService
  <1>4. /\ services' \in Tables
        /\ services'[i] # None
        /\ services'[i].name = cmd[p].name
        /\ services'[i].root = cmd[p].root
        /\ services'[i].repo = cmd[p].repo
        /\ \A j \in Ids \ {i} : services'[j] = services[j]
    BY <1>1, <1>2, <1>3, EnsureKeepsTable DEF CallOf
  <1>5. RowsAreCommanded'
    <2> SUFFICES ASSUME NEW j \in RowIds(services)'
                 PROVE  \E c \in Commands :
                            /\ services'[j].name = c.name
                            /\ services'[j].root = c.root
                            /\ services'[j].repo = c.repo
      BY DEF RowsAreCommanded
    <2>1. CASE j = i
      BY <1>1, <1>4, <2>1
    <2>2. CASE j # i
      BY <1>4, <2>2 DEF RowsAreCommanded, RowIds
    <2> QED
      BY <2>1, <2>2
  <1>6. \/ i \notin RowIds(services)
        \/ services[i].name = cmd[p].name /\ services[i].repo = cmd[p].repo
    <2>1. CASE i \in NamedRows(services, cmd[p].name, cmd[p].repo)
      BY <1>2, <2>1 DEF NamedRows
    <2>2. CASE i \in RootedRows(services, cmd[p].root, cmd[p].repo)
      BY <1>1, <2>2 DEF RootedRows, RowsAreCommanded, OneKeyPerService
    <2>3. CASE IsNextRowid(services, i)
      BY <2>3, TableAssumption DEF IsNextRowid, RowIds
    <2> QED
      BY <1>3, <2>1, <2>2, <2>3 DEF EnsuresRow, EnsureCandidates
  <1>7. OwnRow'
    <2> SUFFICES ASSUME NEW q \in Procs, pc'[q] \in Working
                 PROVE  /\ sid'[q] \in RowIds(services)'
                        /\ services'[sid'[q]].name = cmd'[q].name
                        /\ services'[sid'[q]].repo = cmd'[q].repo
      BY DEF OwnRow
    <2>0. cmd' = cmd /\ pc' = [pc EXCEPT ![p] = "analyze"]
      BY DEF EnsureService, Goto
    <2>1. CASE q = p
      BY <1>3, <1>4, <2>0, <2>1 DEF LockInv, TypeOK, RowIds
    <2>2. CASE q # p
      <3>1. /\ sid'[q] = sid[q] /\ sid[q] \in RowIds(services)
            /\ services[sid[q]].name = cmd[q].name
            /\ services[sid[q]].repo = cmd[q].repo
        BY <1>3, <2>0, <2>2 DEF LockInv, TypeOK, OwnRow
      <3>2. CASE sid[q] = i
        BY <1>4, <1>6, <2>0, <3>1, <3>2 DEF RowIds
      <3>3. CASE sid[q] # i
        BY <1>4, <2>0, <3>1, <3>3 DEF RowIds
      <3> QED
        BY <3>2, <3>3
    <2> QED
      BY <2>1, <2>2
  <1> QED
    BY <1>5, <1>7

\* One step of any process keeps the row a process works on its own.
LEMMA NextServiceInv ==
    ASSUME OneKeyPerService, ServiceInv, [Next]_vars
    PROVE  ServiceInv'
  <1>1. LockInv'
    BY NextLockInv DEF ServiceInv
  <1>t. TypeOK /\ CommandsRun
    BY DEF ServiceInv, LockInv
  <1>2. CASE UNCHANGED vars
    <2>1. CommandsRun'
      BY <1>t, <1>2 DEF vars, CommandsRun
    <2> QED
      BY <1>1, <1>2, <2>1, QuietStep DEF vars
  <1>3. ASSUME NEW p \in Procs, NEW c \in Commands, Launch(p, c) PROVE ServiceInv'
    <2>1. CommandsRun'
      BY <1>t, <1>3 DEF Launch, Goto, TypeOK, CommandsRun, OneKeyPerService
    <2> QED
      BY <1>1, <1>t, <1>3, <2>1, QuietStep DEF Launch, Goto, TypeOK, Working
  <1>4. ASSUME NEW p \in Procs, LookupRow(p) PROVE ServiceInv'
    BY <1>t, <1>4 DEF LookupRow, CommandsRun
  <1>5. ASSUME NEW p \in Procs, EnsureService(p) PROVE ServiceInv'
    <2>1. CommandsRun'
      BY <1>t, <1>5 DEF EnsureService, Goto, TypeOK, CommandsRun
    <2> QED
      BY <1>1, <1>5, <2>1, EnsureOwnRow DEF ServiceInv
  <1>6. ASSUME NEW p \in Procs, Ends(p), services' = services PROVE ServiceInv'
    <2>1. CommandsRun'
      BY <1>t, <1>6 DEF Ends, Goto, TypeOK, CommandsRun
    <2> QED
      BY <1>1, <1>t, <1>6, <2>1, QuietStep DEF Ends, Goto, TypeOK, Working
  <1>7. ASSUME NEW p \in Procs,
               \/ ExitRefused(p) \/ ReleaseLock(p) \/ BusyExit(p) \/ Crash(p)
        PROVE  ServiceInv'
    BY <1>6, <1>7 DEF ExitRefused, ReleaseLock, BusyExit, Crash
  <1>8. ASSUME NEW p \in Procs,
               \/ InsertLock(p) \/ InsertConflicts(p) \/ DeleteDeadLock(p) \/ RefuseLock(p)
               \/ EnsureAmbiguous(p) \/ OpenAnalysisWrite(p) \/ RecoverUnfinishedRuns(p)
               \/ StartIndexRun(p) \/ FinishIndexRun(p) \/ Fail(p)
        PROVE  ServiceInv'
    <2>1. services' = services /\ cmd' = cmd /\ sid' = sid
      BY <1>8 DEF InsertLock, InsertConflicts, DeleteDeadLock, RefuseLock, EnsureAmbiguous,
         OpenAnalysisWrite, RecoverUnfinishedRuns, StartIndexRun, FinishIndexRun, Fail
    <2>2. /\ \A q \in Procs : pc'[q] \in Working => pc[q] \in Working
          /\ \A q \in Procs : pc'[q] # "ended" => pc[q] # "ended" /\ pc'[q] # "lookup"
      BY <1>t, <1>8 DEF InsertLock, InsertConflicts, DeleteDeadLock, RefuseLock,
         EnsureAmbiguous, OpenAnalysisWrite, RecoverUnfinishedRuns, StartIndexRun,
         FinishIndexRun, Fail, Goto, TypeOK, Working, Body, CommandsRun
    <2>3. CommandsRun'
      BY <1>t, <2>1, <2>2 DEF CommandsRun
    <2> QED
      BY <1>1, <2>1, <2>2, <2>3, QuietStep
  <1> QED
    BY <1>2, <1>3, <1>4, <1>5, <1>7, <1>8 DEF Next, Step, AllDone

\* Two workers on one row would hold one lock row.
LEMMA ExclusionHolds == ServiceInv => ServiceExclusion
  <1> SUFFICES ASSUME ServiceInv, NEW p \in Procs, NEW q \in Procs,
                      pc[p] \in Working, pc[q] \in Working, sid[p] = sid[q]
               PROVE  p = q
    BY DEF ServiceExclusion
  <1>1. LockKey(cmd[p]) = LockKey(cmd[q])
    BY DEF ServiceInv, OwnRow, LockKey
  <1>2. locks[LockKey(cmd[p])] = p /\ locks[LockKey(cmd[q])] = q
    BY DEF ServiceInv, LockInv, LockRowIsMine, Working, Holding, Body
  <1> QED
    BY <1>1, <1>2

\* When the users keep one name per root path, no row is ever indexed by two
\* processes at once: index_service's "serialize one service identity".
THEOREM IndexExclusion ==
    ASSUME OneKeyPerService
    PROVE  Spec => []ServiceExclusion
  BY InitServiceInv, NextServiceInv, ExclusionHolds, PTL DEF Spec

\* Between recover_unfinished_runs and start_index_run of a service there is no
\* unfinished run of it.
RecoveredBeforeStart ==
    \A p \in Procs : pc[p] = "start" =>
        \A r \in DOMAIN runs : runs[r].svc = sid[p] => ~runs[r].open

RunInv == RecoveredBeforeStart /\ LiveRunIsOpen /\ OneOpenRun

LEMMA InitRunInv == Init => RunInv
  BY DEF Init, RunInv, RecoveredBeforeStart, LiveRunIsOpen, OneOpenRun

\* Steps that leave the ledger alone and start no run.
LEMMA LedgerUntouched ==
    ASSUME RunInv, runs' = runs,
           \A q \in Procs : pc'[q] \in {"start", "generate"} =>
               pc[q] = pc'[q] /\ sid'[q] = sid[q] /\ run'[q] = run[q]
    PROVE  RunInv'
  BY DEF RunInv, RecoveredBeforeStart, LiveRunIsOpen, OneOpenRun

\* recover_unfinished_runs closes no run that is being generated.
LEMMA RecoverKeepsRuns ==
    ASSUME ServiceInv, RunInv, NEW p \in Procs, RecoverUnfinishedRuns(p)
    PROVE  RunInv'
  <1> USE DEF ServiceInv, RunInv
  <1>t. TypeOK
    BY DEF LockInv
  <1>1. /\ pc' = [pc EXCEPT ![p] = "start"] /\ sid' = sid /\ run' = run
        /\ DOMAIN runs' = DOMAIN runs
        /\ \A r \in DOMAIN runs :
             /\ runs'[r].svc = runs[r].svc
             /\ runs'[r].open <=> runs[r].open /\ runs[r].svc # sid[p]
    BY <1>t DEF RecoverUnfinishedRuns, Goto, Closed, TypeOK, RunRow
  <1>2. RecoveredBeforeStart'
    BY <1>1, <1>t DEF RecoveredBeforeStart, TypeOK
  <1>3. OneOpenRun'
    BY <1>1 DEF OneOpenRun
  <1>4. LiveRunIsOpen'
    <2> SUFFICES ASSUME NEW q \in Procs, pc'[q] = "generate"
                 PROVE  /\ run[q] \in DOMAIN runs /\ runs'[run[q]].open
                        /\ runs'[run[q]].svc = sid[q]
      BY <1>1 DEF LiveRunIsOpen
    <2>1. q # p /\ pc[q] = "generate" /\ pc[p] = "recover"
      BY <1>1, <1>t DEF TypeOK, RecoverUnfinishedRuns
    <2>2. sid[q] # sid[p]
      BY <2>1, ExclusionHolds DEF ServiceExclusion, Working
    <2> QED
      BY <1>1, <2>1, <2>2 DEF LiveRunIsOpen
  <1> QED
    BY <1>2, <1>3, <1>4

\* start_index_run adds the only unfinished run of its service.
LEMMA StartKeepsRuns ==
    ASSUME ServiceInv, RunInv, NEW p \in Procs, StartIndexRun(p)
    PROVE  RunInv'
  <1> USE DEF ServiceInv, RunInv
  <1>t. TypeOK
    BY DEF LockInv
  <1> DEFINE n == Len(runs) + 1
  <1>1. /\ pc' = [pc EXCEPT ![p] = "generate"] /\ sid' = sid
        /\ run' = [run EXCEPT ![p] = n] /\ pc[p] = "start"
    BY DEF StartIndexRun, Goto
  <1>2. /\ DOMAIN runs' = DOMAIN runs \cup {n} /\ n \notin DOMAIN runs
        /\ \A r \in DOMAIN runs : runs'[r] = runs[r]
        /\ runs'[n].svc = sid[p] /\ runs'[n].open
    <2>1. [svc |-> sid[p], status |-> "partial", open |-> TRUE] \in RunRow
      BY <1>1 DEF LockInv, LiveState, Working, RunRow
    <2> QED
      BY <1>t, <2>1, AppendProperties, LenProperties DEF StartIndexRun, TypeOK
  <1>3. RecoveredBeforeStart'
    <2> SUFFICES ASSUME NEW q \in Procs, pc'[q] = "start", NEW r \in DOMAIN runs',
                        runs'[r].svc = sid[q]
                 PROVE  ~runs'[r].open
      BY <1>1 DEF RecoveredBeforeStart
    <2>1. q # p /\ pc[q] = "start"
      BY <1>1, <1>t DEF TypeOK
    <2>2. sid[q] # sid[p]
      BY <1>1, <2>1, ExclusionHolds DEF ServiceExclusion, Working
    <2> QED
      BY <1>2, <2>1, <2>2 DEF RecoveredBeforeStart
  <1>4. LiveRunIsOpen'
    BY <1>1, <1>2, <1>t DEF LiveRunIsOpen, TypeOK
  <1>5. OneOpenRun'
    BY <1>1, <1>2 DEF OneOpenRun, RecoveredBeforeStart
  <1> QED
    BY <1>3, <1>4, <1>5

\* finish_index_run closes the run of its own process and no other.
LEMMA FinishKeepsRuns ==
    ASSUME ServiceInv, RunInv, NEW p \in Procs, FinishIndexRun(p)
    PROVE  RunInv'
  <1> USE DEF ServiceInv, RunInv
  <1>t. TypeOK
    BY DEF LockInv
  <1>1. /\ pc' = [pc EXCEPT ![p] = "release"] /\ sid' = sid /\ run' = run
        /\ pc[p] = "generate"
    BY DEF FinishIndexRun, Goto
  <1>2. /\ DOMAIN runs' = DOMAIN runs
        /\ \A r \in DOMAIN runs : runs'[r].svc = runs[r].svc
        /\ \A r \in DOMAIN runs \ {run[p]} : runs'[r] = runs[r]
        /\ run[p] \in DOMAIN runs => ~runs'[run[p]].open
    BY <1>t DEF FinishIndexRun, Closed, TypeOK
  <1>3. RecoveredBeforeStart'
    BY <1>1, <1>2, <1>t DEF RecoveredBeforeStart, TypeOK
  <1>4. LiveRunIsOpen'
    <2> SUFFICES ASSUME NEW q \in Procs, pc'[q] = "generate"
                 PROVE  /\ run[q] \in DOMAIN runs /\ runs'[run[q]].open
                        /\ runs'[run[q]].svc = sid[q]
      BY <1>1, <1>2 DEF LiveRunIsOpen
    <2>1. q # p /\ pc[q] = "generate"
      BY <1>1, <1>t DEF TypeOK
    <2>2. sid[q] # sid[p]
      BY <1>1, <2>1, ExclusionHolds DEF ServiceExclusion, Working
    <2>3. run[q] # run[p]
      BY <1>1, <2>1, <2>2 DEF LiveRunIsOpen
    <2> QED
      BY <1>2, <2>1, <2>3 DEF LiveRunIsOpen
  <1>5. OneOpenRun'
    BY <1>2 DEF OneOpenRun
  <1> QED
    BY <1>3, <1>4, <1>5

\* A step that writes the ledger is one of three.
LEMMA LedgerSteps ==
    ASSUME TypeOK, [Next]_vars
    PROVE  \/ \E p \in Procs :
                 RecoverUnfinishedRuns(p) \/ StartIndexRun(p) \/ FinishIndexRun(p)
           \/ /\ runs' = runs
              /\ \A q \in Procs : pc'[q] \in {"start", "generate"} =>
                   pc[q] = pc'[q] /\ sid'[q] = sid[q] /\ run'[q] = run[q]
  <1> DEFINE Quiet == /\ runs' = runs
                      /\ \A q \in Procs : pc'[q] \in {"start", "generate"} =>
                           pc[q] = pc'[q] /\ sid'[q] = sid[q] /\ run'[q] = run[q]
  <1>1. CASE UNCHANGED vars
    BY <1>1 DEF vars
  <1>2. ASSUME NEW p \in Procs, NEW c \in Commands, Launch(p, c) PROVE Quiet
    BY <1>2 DEF Launch, Goto, TypeOK
  <1>3. ASSUME NEW p \in Procs,
               \/ LookupRow(p) \/ ExitRefused(p) \/ ReleaseLock(p) \/ BusyExit(p) \/ Crash(p)
        PROVE  Quiet
    BY <1>3 DEF LookupRow, ExitRefused, ReleaseLock, BusyExit, Crash, Ends, Goto, TypeOK
  <1>4. ASSUME NEW p \in Procs,
               \/ InsertLock(p) \/ InsertConflicts(p) \/ DeleteDeadLock(p) \/ RefuseLock(p)
               \/ EnsureAmbiguous(p) \/ OpenAnalysisWrite(p) \/ Fail(p)
        PROVE  Quiet
    BY <1>4 DEF InsertLock, InsertConflicts, DeleteDeadLock, RefuseLock, EnsureAmbiguous,
       OpenAnalysisWrite, Fail, Goto, TypeOK
  <1>5. ASSUME NEW p \in Procs, EnsureService(p) PROVE Quiet
    BY <1>5 DEF EnsureService, Goto, TypeOK
  <1> QED
    BY <1>1, <1>2, <1>3, <1>4, <1>5 DEF Next, Step, AllDone

LEMMA NextRunInv ==
    ASSUME ServiceInv, RunInv, [Next]_vars
    PROVE  RunInv'
  BY LedgerSteps, LedgerUntouched, RecoverKeepsRuns, StartKeepsRuns, FinishKeepsRuns
  DEF ServiceInv, LockInv

\* While a process generates, its own run is unfinished: no command that took
\* over, crashed or recovered around it has closed it.
THEOREM LiveRunStaysOpen ==
    ASSUME OneKeyPerService
    PROVE  Spec => []LiveRunIsOpen
  BY InitServiceInv, NextServiceInv, InitRunInv, NextRunInv, PTL DEF Spec, RunInv

\* A service has at most one unfinished run, whatever died before.
THEOREM AtMostOneOpenRun ==
    ASSUME OneKeyPerService
    PROVE  Spec => []OneOpenRun
  BY InitServiceInv, NextServiceInv, InitRunInv, NextRunInv, PTL DEF Spec, RunInv

\* A finished run is never rewritten and no run disappears.
THEOREM HistoryIsAppendOnly ==
    ASSUME OneKeyPerService
    PROVE  Spec => ClosedRunStays
  <1> DEFINE Kept == \A r \in DOMAIN runs :
                       /\ r \in DOMAIN runs'
                       /\ ~runs[r].open => runs'[r] = runs[r]
  <1>1. ServiceInv /\ RunInv /\ [Next]_vars => [Kept]_vars
    <2> SUFFICES ASSUME ServiceInv, RunInv, [Next]_vars PROVE Kept
      OBVIOUS
    <2>t. TypeOK
      BY DEF ServiceInv, LockInv
    <2>1. ASSUME NEW p \in Procs, RecoverUnfinishedRuns(p) PROVE Kept
      BY <2>1, <2>t DEF RecoverUnfinishedRuns, TypeOK
    <2>2. ASSUME NEW p \in Procs, StartIndexRun(p) PROVE Kept
      BY <2>2, <2>t, AppendProperties DEF StartIndexRun, TypeOK
    <2>3. ASSUME NEW p \in Procs, FinishIndexRun(p) PROVE Kept
      BY <2>3, <2>t DEF FinishIndexRun, TypeOK, RunInv, LiveRunIsOpen
    <2> QED
      BY <2>1, <2>2, <2>3, <2>t, LedgerSteps
  <1>2. ServiceInv /\ RunInv /\ [Next]_vars => [\A r \in DOMAIN runs :
                                                  /\ r \in DOMAIN runs'
                                                  /\ ~runs[r].open => runs'[r] = runs[r]]_vars
    BY <1>1
  <1> QED
    BY <1>2, InitServiceInv, NextServiceInv, InitRunInv, NextRunInv, PTL
    DEF Spec, ClosedRunStays
=============================================================================
