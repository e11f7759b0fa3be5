------------------------- MODULE ServiceCallsProofs -------------------------
(***************************************************************************)
(* What ServiceCalls guarantees for any number of processes, commands,     *)
(* services and calls.                                                     *)
(***************************************************************************)
EXTENDS ServiceCalls, TLAPS

(***************************************************************************)
(* The services table                                                      *)
(***************************************************************************)

\* ensure_service leaves a table of rows, with the row it returns in it.
LEMMA EnsureKeepsTable ==
    ASSUME NEW tbl \in Tables, NEW n \in Names, NEW r \in Roots,
           NEW repo \in Repos \cup {NoRepo}, NEW i \in Ids, NEW new,
           EnsuresRow(tbl, n, r, repo, i, new)
    PROVE  /\ new \in Tables
           /\ new[i] # None
           /\ new[i].name = n
           /\ new[i].root = r
           /\ repo # NoRepo => new[i].repo = repo
           /\ \A j \in Ids \ {i} : new[j] = tbl[j]
  <1> DEFINE inserted == [name |-> n, root |-> r, repo |-> repo]
             updated  == Refreshed(tbl[i], n, r, repo)
  <1>1. inserted \in Row
    BY DEF Row
  <1>2. CASE /\ i \in EnsureCandidates(tbl, n, r, repo)
             /\ new = [tbl EXCEPT ![i] = updated]
    <2>1. tbl[i] \in Row
      BY <1>2 DEF EnsureCandidates, NamedRows, RootedRows, RowIds, Tables
    <2>2. updated \in Row
      BY <2>1 DEF Row, Refreshed
    <2> QED
      BY <1>2, <2>2, TableAssumption DEF Tables, Refreshed
  <1>3. CASE new = [tbl EXCEPT ![i] = inserted]
    BY <1>1, <1>3, TableAssumption DEF Tables
  <1> QED
    BY <1>2, <1>3 DEF EnsuresRow

\* Where a root path always goes with the same name, ensure_service renames no row
\* and moves none to another repository.
LEMMA EnsureKeepsName ==
    ASSUME NEW tbl \in Tables, NEW n \in Names, NEW r \in Roots,
           NEW repo \in Repos \cup {NoRepo}, NEW i \in Ids, NEW new,
           EnsuresRow(tbl, n, r, repo, i, new),
           \A j \in RowIds(tbl) : tbl[j].root = r => tbl[j].name = n
    PROVE  \A j \in RowIds(tbl) : /\ new[j] # None
                                  /\ new[j].name = tbl[j].name
                                  /\ new[j].repo = tbl[j].repo
  <1> SUFFICES ASSUME NEW j \in RowIds(tbl)
               PROVE  new[j] # None /\ new[j].name = tbl[j].name /\ new[j].repo = tbl[j].repo
    OBVIOUS
  <1>0. j \in Ids /\ tbl[j] # None
    BY DEF RowIds
  <1>1. CASE j # i
    BY <1>0, <1>1, EnsureKeepsTable
  <1>2. CASE j = i
    <2>1. ~IsNextRowid(tbl, i)
      BY <1>2, TableAssumption DEF IsNextRowid, RowIds
    <2>2. /\ i \in EnsureCandidates(tbl, n, r, repo)
          /\ new = [tbl EXCEPT ![i] = Refreshed(tbl[i], n, r, repo)]
      BY <2>1 DEF EnsuresRow
    <2>3. tbl[i].name = n /\ (repo # NoRepo => tbl[i].repo = repo)
      BY <2>2, <1>2 DEF EnsureCandidates, NamedRows, RootedRows
    <2>4. new[i] = Refreshed(tbl[i], n, r, repo)
      BY <2>2 DEF Tables
    <2> QED
      BY <1>2, <2>3, <2>4, EnsureKeepsTable DEF Refreshed
  <1> QED
    BY <1>1, <1>2

(***************************************************************************)
(* Types                                                                   *)
(***************************************************************************)

\* What a process that has not ended keeps in memory.
LiveState ==
    \A p \in Procs :
        /\ pc[p] # "ended" => cmd[p] \in Commands
        /\ pc[p] \in {"repository", "prune"} => cmd[p].kind = "index"
        /\ pc[p] = "lookup" => cmd[p].kind = "update"
        /\ pc[p] = "remove" => cmd[p].kind = "remove"
        /\ pc[p] \in Indexing => name[p] \in Names /\ root[p] \in Roots
        /\ pc[p] \in {"generate", "scoped", "resolve"} => sid[p] \in Ids

TypeInv == TypeOK /\ LiveState

LEMMA CommandShape ==
    ASSUME NEW c \in Commands
    PROVE  /\ c.kind \in {"index", "update", "remove"}
           /\ c.repo \in Repos \cup {NoRepo}
           /\ c.kind = "index" => c.found \subseteq Names \X Roots
           /\ c.kind = "update" => c.name \in Names
  BY CallAssumption DEF IndexCommand, UpdateCommand, RemoveCommand

\* What a call resolves to is a service of the name in the repository of the caller.
LEMMA ResolvedIsPeer ==
    ASSUME NEW tbl, NEW i, NEW target
    PROVE  /\ Resolved(tbl, i, target) \in Peers(tbl, i, target) \cup {None}
           /\ Peers(tbl, i, target) # {} => Resolved(tbl, i, target) \in Peers(tbl, i, target)
           /\ Peers(tbl, i, target) \subseteq Ids
  BY DEF Resolved, Peers, NamedRows, RowIds

\* The heuristic answers with a target kind.
LEMMA ClassifiedKind ==
    ASSUME NEW target, NEW known
    PROVE  Classified(target, known) \in TargetKinds
  BY DEF Classified, TargetKinds

\* Reconciliation rewrites rows and adds none.
LEMMA ReconciledCalls ==
    ASSUME NEW tbl, NEW cs \in Calls, NEW scope
    PROVE  /\ Reconciled(tbl, cs, scope) \in Calls
           /\ \A key \in Ids \X Targets :
                  Reconciled(tbl, cs, scope)[key] # None => cs[key] # None
  <1>1. ASSUME NEW key \in Ids \X Targets, cs[key] # None
        PROVE  ReconciledRow(tbl, key[1], key[2], cs[key]) \in CallRow
    <2>1. cs[key] \in CallRow
      BY <1>1 DEF Calls
    <2>2. Relinked(cs[key].to, Resolved(tbl, key[1], key[2])) \in Ids \cup {None}
      BY <2>1, ResolvedIsPeer DEF Relinked, CallRow
    <2>3. ASSUME NEW to PROVE Rekinded(to, cs[key].kind, key[2], KnownNames(tbl, key[1])) \in TargetKinds
      BY <2>1, ClassifiedKind DEF Rekinded, CallRow, TargetKinds
    <2> QED
      BY <2>2, <2>3 DEF ReconciledRow, CallRow
  <1> QED
    BY <1>1 DEF Reconciled, Calls

\* A deletion removes the services and, by the foreign keys, the calls from them.
LEMMA DeletionType ==
    ASSUME services \in Tables, calls \in Calls, NEW gone,
           \A i \in Ids, target \in Targets : calls[<<i, target>>] # None => services[i] # None
    PROVE  /\ WithoutServices(services, gone) \in Tables
           /\ WithoutCalls(calls, gone) \in Calls
           /\ \A i \in Ids, target \in Targets :
                  WithoutCalls(calls, gone)[<<i, target>>] # None =>
                      WithoutServices(services, gone)[i] # None
  <1>1. WithoutServices(services, gone) \in Tables
    BY DEF WithoutServices, Tables
  <1>2. WithoutCalls(calls, gone) \in Calls
    BY DEF WithoutCalls, Calls, CallRow
  <1>3. ASSUME NEW i \in Ids, NEW target \in Targets,
               WithoutCalls(calls, gone)[<<i, target>>] # None
        PROVE  WithoutServices(services, gone)[i] # None
    BY <1>3 DEF WithoutCalls, WithoutServices
  <1> QED
    BY <1>1, <1>2, <1>3

LEMMA EndsType ==
    ASSUME TypeInv, NEW p \in Procs, Ends(p)
    PROVE  /\ LiveState'
           /\ pc' \in [Procs -> PCs] /\ cmd' \in [Procs -> Commands \cup {None}]
           /\ todo' \in [Procs -> SUBSET (Names \X Roots)]
           /\ name' \in [Procs -> Names \cup {None}]
           /\ root' \in [Procs -> Roots \cup {None}]
           /\ sid' \in [Procs -> Ids \cup {None}]
  <1>1. \A q \in Procs : q # p => /\ pc'[q] = pc[q] /\ cmd'[q] = cmd[q] /\ name'[q] = name[q]
                                 /\ root'[q] = root[q] /\ sid'[q] = sid[q]
    BY DEF Ends, Goto, TypeInv, TypeOK
  <1>2. pc'[p] = "ended"
    BY DEF Ends, Goto, TypeInv, TypeOK
  <1>3. LiveState'
    BY <1>1, <1>2 DEF LiveState, TypeInv, Indexing
  <1> QED
    BY <1>3 DEF Ends, Goto, TypeInv, TypeOK, PCs

LEMMA InitTypeInv == Init => TypeInv
  <1> SUFFICES ASSUME Init PROVE TypeInv
    OBVIOUS
  <1>1. services \in Tables /\ calls \in Calls
    BY DEF Init, EmptyTable, Tables, Calls
  <1>2. \A i \in Ids, target \in Targets : calls[<<i, target>>] = None
    BY DEF Init
  <1>3. TypeOK
    <2>1. 0 \in 0..MaxLaunches
      BY CallAssumption
    <2>2. /\ pc \in [Procs -> PCs] /\ cmd \in [Procs -> Commands \cup {None}]
          /\ todo \in [Procs -> SUBSET (Names \X Roots)]
          /\ name \in [Procs -> Names \cup {None}]
          /\ root \in [Procs -> Roots \cup {None}]
          /\ sid \in [Procs -> Ids \cup {None}]
      BY DEF Init, PCs
    <2> QED
      BY <1>1, <1>2, <2>1, <2>2 DEF Init, TypeOK
  <1>4. LiveState
    BY DEF Init, LiveState, Indexing
  <1> QED
    BY <1>3, <1>4 DEF TypeInv

LEMMA NextTypeInv == TypeInv /\ [Next]_vars => TypeInv'
  <1> SUFFICES ASSUME TypeInv, [Next]_vars PROVE TypeInv'
    OBVIOUS
  <1> USE DEF TypeInv, TypeOK, LiveState, Goto, PCs, Indexing, Pending
  <1>1. ASSUME NEW p \in Procs, NEW c \in Commands, Launch(p, c) PROVE TypeInv'
    BY <1>1, CommandShape, CallAssumption DEF Launch
  <1>2. ASSUME NEW p \in Procs, NEW answer \in Answers, WriteCalls(p, answer) PROVE TypeInv'
    <2>1. \A target \in DOMAIN answer : answer[target] \in TargetKinds
      BY CallAssumption
    <2>2. calls' \in Calls
      BY <1>2, <2>1 DEF WriteCalls, Calls, CallRow
    <2>3. \A i \in Ids, target \in Targets : calls'[<<i, target>>] # None => services[i] # None
      BY <1>2 DEF WriteCalls
    <2> QED
      BY <1>2, <2>2, <2>3 DEF WriteCalls
  <1>3. ASSUME NEW p \in Procs, EnsureRepository(p) PROVE TypeInv'
    <2>1. cmd[p].found \subseteq Names \X Roots /\ cmd[p].repo \in Repos
      BY <1>3, CallAssumption DEF EnsureRepository, IndexCommand, UpdateCommand, RemoveCommand
    <2> QED
      BY <1>3, <2>1 DEF EnsureRepository
  <1>4. ASSUME NEW p \in Procs, LookupRow(p) PROVE TypeInv'
    <2>1. CASE Ends(p)
      BY <1>4, <2>1, EndsType DEF LookupRow
    <2>2. ASSUME NEW i \in RowIds(services),
                 todo' = [todo EXCEPT ![p] = {<<cmd[p].name, services[i].root>>}],
                 Goto(p, "next"), UNCHANGED <<cmd, name, root, sid>>
          PROVE  TypeInv'
      <3>1. services[i].root \in Roots
        BY DEF RowIds, Tables, Row
      <3>2. cmd[p].name \in Names
        BY <1>4, CommandShape DEF LookupRow
      <3>3. {<<cmd[p].name, services[i].root>>} \subseteq Names \X Roots
        BY <3>1, <3>2
      <3>4. todo' \in [Procs -> SUBSET (Names \X Roots)]
        BY <2>2, <3>3
      <3> QED
        BY <1>4, <2>2, <3>4 DEF LookupRow
    <2> QED
      BY <1>4, <2>1, <2>2 DEF LookupRow
  <1>5. ASSUME NEW p \in Procs, TakeService(p) PROVE TypeInv'
    <2>1. CASE Ends(p)
      BY <1>5, <2>1, EndsType DEF TakeService
    <2>2. ASSUME NEW s \in todo[p], todo' = [todo EXCEPT ![p] = @ \ {s}],
                 name' = [name EXCEPT ![p] = s[1]], root' = [root EXCEPT ![p] = s[2]],
                 Goto(p, "ensure"), UNCHANGED <<cmd, sid>>
          PROVE  TypeInv'
      <3>1. s[1] \in Names /\ s[2] \in Roots
        OBVIOUS
      <3>2. todo' \in [Procs -> SUBSET (Names \X Roots)]
        BY <2>2
      <3> QED
        BY <1>5, <2>2, <3>1, <3>2 DEF TakeService
    <2> QED
      BY <1>5, <2>1, <2>2 DEF TakeService
  <1>6. ASSUME NEW p \in Procs, EnsureService(p) PROVE TypeInv'
    <2>1. PICK i \in Ids : /\ EnsuresRow(services, name[p], root[p], cmd[p].repo, i, services')
                           /\ sid' = [sid EXCEPT ![p] = i]
      BY <1>6 DEF EnsureService
    <2>2. name[p] \in Names /\ root[p] \in Roots /\ cmd[p].repo \in Repos \cup {NoRepo}
      BY <1>6, CommandShape DEF EnsureService
    <2>3. /\ services' \in Tables /\ services'[i] # None
          /\ \A j \in Ids \ {i} : services'[j] = services[j]
      <3> DEFINE n == name[p]
                 r == root[p]
                 repo == cmd[p].repo
      <3>1. n \in Names /\ r \in Roots /\ repo \in Repos \cup {NoRepo}
        BY <2>2
      <3>2. EnsuresRow(services, n, r, repo, i, services') /\ services \in Tables
        BY <2>1
      <3> HIDE DEF n, r, repo
      <3> QED
        BY <3>1, <3>2, EnsureKeepsTable
    <2>4. \A j \in Ids, target \in Targets : calls[<<j, target>>] # None => services'[j] # None
      BY <2>3
    <2> QED
      BY <1>6, <2>1, <2>3, <2>4 DEF EnsureService
  <1>7. ASSUME NEW p \in Procs, ReconcileScoped(p) PROVE TypeInv'
    <2>1. /\ calls' \in Calls
          /\ \A i \in Ids, target \in Targets : calls'[<<i, target>>] # None => services[i] # None
      BY <1>7, ReconciledCalls DEF ReconcileScoped
    <2> QED
      BY <1>7, <2>1 DEF ReconcileScoped
  <1>8. ASSUME NEW p \in Procs, SkipCalls(p) PROVE TypeInv'
    BY <1>8 DEF SkipCalls
  <1>9. ASSUME NEW p \in Procs, ReconcileAll(p) PROVE TypeInv'
    <2>1. /\ calls' \in Calls
          /\ \A i \in Ids, target \in Targets : calls'[<<i, target>>] # None => services[i] # None
      BY <1>9, ReconciledCalls DEF ReconcileAll
    <2> QED
      BY <1>9, <2>1 DEF ReconcileAll
  <1>10. ASSUME NEW p \in Procs, EndIndex(p) PROVE TypeInv'
    <2>1. CASE Ends(p)
      BY <1>10, <2>1, EndsType DEF EndIndex
    <2>2. CASE cmd[p].kind = "index" /\ Goto(p, "prune") /\ UNCHANGED <<cmd, todo, name, root, sid>>
      BY <1>10, <2>2 DEF EndIndex
    <2> QED
      BY <1>10, <2>1, <2>2 DEF EndIndex
  <1>11. ASSUME NEW p \in Procs, PruneServices(p) PROVE TypeInv'
    <2>1. /\ services' \in Tables /\ calls' \in Calls
          /\ \A i \in Ids, target \in Targets : calls'[<<i, target>>] # None => services'[i] # None
      BY <1>11, DeletionType DEF PruneServices
    <2>2. CASE Ends(p)
      BY <1>11, <2>1, <2>2, EndsType DEF PruneServices
    <2>3. CASE Goto(p, "cleanup") /\ UNCHANGED <<cmd, todo, name, root, sid>>
      BY <1>11, <2>1, <2>3 DEF PruneServices
    <2> QED
      BY <1>11, <2>2, <2>3 DEF PruneServices
  <1>12. ASSUME NEW p \in Procs, RemoveRepository(p) PROVE TypeInv'
    <2>1. CASE UNCHANGED <<repositories, services, calls>> /\ Ends(p)
      BY <1>12, <2>1, EndsType DEF RemoveRepository
    <2>2. CASE cmd[p].repo \in repositories
      <3>1. /\ services' \in Tables /\ calls' \in Calls
            /\ \A i \in Ids, target \in Targets : calls'[<<i, target>>] # None => services'[i] # None
        BY <1>12, <2>2, DeletionType DEF RemoveRepository
      <3> QED
        BY <1>12, <2>2, <3>1 DEF RemoveRepository
    <2> QED
      BY <1>12, <2>1, <2>2 DEF RemoveRepository
  <1>13. ASSUME NEW p \in Procs, ReconcileAfterDeletion(p) PROVE TypeInv'
    <2>1. /\ calls' \in Calls
          /\ \A i \in Ids, target \in Targets : calls'[<<i, target>>] # None => services[i] # None
      BY <1>13, ReconciledCalls DEF ReconcileAfterDeletion
    <2> QED
      BY <1>13, <2>1, EndsType DEF ReconcileAfterDeletion
  <1>14. ASSUME NEW p \in Procs, Crash(p) PROVE TypeInv'
    <2>1. lost' \in BOOLEAN
      BY <1>14 DEF Crash
    <2> QED
      BY <1>14, <2>1, EndsType DEF Crash
  <1>15. CASE UNCHANGED vars
    BY <1>15 DEF vars, local
  <1> QED
    BY <1>1, <1>2, <1>3, <1>4, <1>5, <1>6, <1>7, <1>8, <1>9, <1>10, <1>11, <1>12, <1>13,
       <1>14, <1>15 DEF Next, AllDone

\* Every state is a state of the tables and processes it speaks of, and no call
\* outlives its service, whatever is deleted under a running index
\* (service_calls in schema.sql, lines 70 to 89).
THEOREM TypeCorrect == Spec => []TypeOK
  <1>1. TypeInv => TypeOK
    BY DEF TypeInv
  <1> QED
    BY <1>1, InitTypeInv, NextTypeInv, PTL DEF Spec

(***************************************************************************)
(* Links, where no service is renamed                                      *)
(***************************************************************************)

\* What the scans of all index commands find.
Found == UNION {c.found : c \in {d \in Commands : d.kind = "index"}}

\* No two scans give one root path two names: nobody renames a service.
OneNamePerRoot == \A s, t \in Found : s[2] = t[2] => s[1] = t[1]

\* Every row, and every service about to become one, was found under its name.
RowsAreFound ==
    /\ \A i \in RowIds(services) : <<services[i].name, services[i].root>> \in Found
    /\ \A p \in Procs : todo[p] \subseteq Found
    /\ \A p \in Procs : pc[p] \in Indexing => <<name[p], root[p]>> \in Found

LinkInv == TypeInv /\ RowsAreFound /\ LinksAreNamed

\* Reconciliation links what can be linked, within its scope, and nothing else.
LEMMA ReconciledLinks ==
    ASSUME LinkInv, NEW scope, services' = services,
           calls' = Reconciled(services, calls, scope)
    PROVE  LinksAreNamed' /\ (scope = Ids => Settled')
  <1> DEFINE new(i, target) == calls'[<<i, target>>]
             Linked(i, target) ==
                 new(i, target).to # None => IsNamed(new(i, target).to, i, target)
             Right(i, target) ==
                 /\ (\E j \in Ids : IsNamed(j, i, target)) <=> new(i, target).to # None
                 /\ new(i, target).to # None => new(i, target).kind = "internal"
                 /\ new(i, target).to = None =>
                        new(i, target).kind \in {"external", Classified(target, KnownNames(services, i))}
  <1>a. ASSUME NEW i \in Ids, NEW target \in Targets, new(i, target) # None
        PROVE  Linked(i, target) /\ (scope = Ids => Right(i, target))
    <2> DEFINE old == calls[<<i, target>>]
               peer == Resolved(services, i, target)
               known == KnownNames(services, i)
    <2>0. <<i, target>> \in Ids \X Targets
      OBVIOUS
    <2>1. old # None /\ old \in CallRow
      BY <1>a, <2>0 DEF Reconciled, LinkInv, TypeInv, TypeOK, Calls
    <2>2. \A j \in Ids : j \in Peers(services, i, target) <=> IsNamed(j, i, target)
      BY DEF Peers, NamedRows, RowIds, IsNamed
    <2>3. old.to # None => IsNamed(old.to, i, target) /\ old.to \in Ids
      BY <2>1 DEF LinkInv, LinksAreNamed, CallRow
    <2>4. /\ peer # None => IsNamed(peer, i, target)
          /\ (\E j \in Ids : IsNamed(j, i, target)) => peer # None
          /\ peer = None \/ peer \in Ids
      BY <2>2, ResolvedIsPeer, TableAssumption
    <2>5. /\ i \in scope => new(i, target) = ReconciledRow(services, i, target, old)
          /\ i \notin scope => new(i, target) = old
      BY <2>1 DEF Reconciled
    <2>6. CASE i \notin scope
      BY <2>3, <2>5, <2>6
    <2>7. CASE i \in scope
      <3>1. new(i, target).to = Relinked(old.to, peer) /\ new(i, target).kind = Rekinded(new(i, target).to, old.kind, target, known)
        BY <2>5, <2>7 DEF ReconciledRow
      <3>2. /\ new(i, target).to # None => IsNamed(new(i, target).to, i, target) /\ new(i, target).to \in Ids
            /\ (\E j \in Ids : IsNamed(j, i, target)) => new(i, target).to # None
        BY <2>3, <2>4, <3>1 DEF Relinked
      <3>3. /\ new(i, target).to # None => new(i, target).kind = "internal"
            /\ new(i, target).to = None => new(i, target).kind \in {"external", Classified(target, known)}
        BY <2>1, <3>1 DEF Rekinded, CallRow, TargetKinds
      <3> QED
        BY <3>2, <3>3
    <2> QED
      BY <2>6, <2>7
  <1>b. UNCHANGED services /\ \A i \in Ids, target \in Targets, j \in Ids \cup {None} :
                                IsNamed(j, i, target)' <=> IsNamed(j, i, target)
    BY DEF IsNamed
  <1>c. LinksAreNamed'
    BY <1>a, <1>b DEF LinksAreNamed, IsNamed
  <1>d. scope = Ids => Settled'
    BY <1>a, <1>b DEF Settled
  <1> QED
    BY <1>c, <1>d

\* A deletion takes the links to what it deletes with it.
LEMMA DeletionLinks ==
    ASSUME LinkInv, NEW gone, services' = WithoutServices(services, gone),
           calls' = WithoutCalls(calls, gone)
    PROVE  LinksAreNamed' /\ \A i \in RowIds(services)' : i \in RowIds(services) /\ services'[i] = services[i]
  <1>1. \A i \in RowIds(services)' : i \in RowIds(services) /\ services'[i] = services[i]
    BY DEF WithoutServices, RowIds
  <1>2. ASSUME NEW i \in Ids, NEW target \in Targets,
               calls'[<<i, target>>] # None, calls'[<<i, target>>].to # None
        PROVE  IsNamed(calls[<<i, target>>].to, i, target)'
    <2> DEFINE to == calls[<<i, target>>].to
    <2>1. calls[<<i, target>>] # None /\ calls[<<i, target>>] \in CallRow /\ i \notin gone
      BY <1>2 DEF WithoutCalls, LinkInv, TypeInv, TypeOK, Calls
    <2>2. to \notin gone /\ calls'[<<i, target>>].to = to
      <3>1. calls'[<<i, target>>] =
                IF to \in gone THEN [calls[<<i, target>>] EXCEPT !.to = None] ELSE calls[<<i, target>>]
        BY <2>1 DEF WithoutCalls
      <3> QED
        BY <1>2, <2>1, <3>1 DEF CallRow
    <2>3. IsNamed(to, i, target) /\ to \in Ids
      BY <1>2, <2>1, <2>2 DEF LinkInv, LinksAreNamed, CallRow
    <2> QED
      BY <2>1, <2>2, <2>3 DEF IsNamed, WithoutServices
  <1>3. LinksAreNamed'
    BY <1>2 DEF LinksAreNamed
  <1> QED
    BY <1>1, <1>3

LEMMA InitLinkInv == Init => LinkInv /\ CallsReconciled
  <1> SUFFICES ASSUME Init PROVE LinkInv /\ CallsReconciled
    OBVIOUS
  <1>1. TypeInv
    BY InitTypeInv
  <1>2. RowIds(services) = {} /\ \A i \in Ids, target \in Targets : calls[<<i, target>>] = None
    BY DEF Init, RowIds, EmptyTable
  <1>3. RowsAreFound
    BY <1>2 DEF Init, RowsAreFound, Indexing
  <1>4. LinksAreNamed /\ Settled
    BY <1>2 DEF LinksAreNamed, Settled
  <1> QED
    BY <1>1, <1>3, <1>4 DEF LinkInv, CallsReconciled

\* The process that is gone, or goes on without a service, leaves the others theirs.
LEMMA EndsFound ==
    ASSUME LinkInv, NEW p \in Procs, Ends(p),
           \A i \in RowIds(services)' : i \in RowIds(services) /\ services'[i] = services[i]
    PROVE  RowsAreFound'
  <1>1. \A q \in Procs : q # p => /\ pc'[q] = pc[q] /\ todo'[q] = todo[q]
                                 /\ name'[q] = name[q] /\ root'[q] = root[q]
    BY DEF Ends, Goto, LinkInv, TypeInv, TypeOK
  <1>2. pc'[p] = "ended" /\ todo'[p] = {}
    BY DEF Ends, Goto, LinkInv, TypeInv, TypeOK
  <1>3. \A i \in RowIds(services)' : <<services'[i].name, services'[i].root>> \in Found
    BY DEF LinkInv, RowsAreFound
  <1> QED
    BY <1>1, <1>2, <1>3 DEF LinkInv, RowsAreFound, Indexing

\* ensure_service for a service the scan found: no row changes its name.
LEMMA EnsureRenamesNothing ==
    ASSUME OneNamePerRoot, LinkInv, NEW p \in Procs, EnsureService(p)
    PROVE  RowsAreFound' /\ LinksAreNamed'
  <1> DEFINE n == name[p]
             r == root[p]
             repo == cmd[p].repo
  <1>1. n \in Names /\ r \in Roots /\ repo \in Repos \cup {NoRepo} /\ services \in Tables
    BY CommandShape DEF EnsureService, LinkInv, TypeInv, TypeOK, LiveState, Indexing
  <1>2. PICK i \in Ids : EnsuresRow(services, n, r, repo, i, services')
    BY DEF EnsureService
  <1>3. <<n, r>> \in Found
    BY DEF EnsureService, LinkInv, RowsAreFound, Indexing
  <1>4. \A j \in RowIds(services) : services[j].root = r => services[j].name = n
    BY <1>3 DEF LinkInv, RowsAreFound, OneNamePerRoot
  <1> HIDE DEF n, r, repo
  <1>5. /\ services'[i].name = n /\ services'[i].root = r
        /\ \A j \in Ids \ {i} : services'[j] = services[j]
    BY <1>1, <1>2, EnsureKeepsTable
  <1>6. \A j \in RowIds(services) : /\ services'[j] # None
                                    /\ services'[j].name = services[j].name
                                    /\ services'[j].repo = services[j].repo
    BY <1>1, <1>2, <1>4, EnsureKeepsName
  <1>7. \A j \in RowIds(services)' : <<services'[j].name, services'[j].root>> \in Found
    BY <1>3, <1>5 DEF LinkInv, RowsAreFound, RowIds
  <1>8. /\ \A q \in Procs : todo'[q] = todo[q]
        /\ \A q \in Procs : pc'[q] \in Indexing => pc[q] \in Indexing /\ name'[q] = name[q] /\ root'[q] = root[q]
    BY DEF EnsureService, Goto, LinkInv, TypeInv, TypeOK, Indexing
  <1>9. RowsAreFound'
    BY <1>7, <1>8 DEF LinkInv, RowsAreFound
  <1>10. ASSUME NEW j \in Ids, NEW target \in Targets,
                calls[<<j, target>>] # None, calls[<<j, target>>].to # None
         PROVE  IsNamed(calls[<<j, target>>].to, j, target)'
    <2>1. j \in RowIds(services)
      BY <1>10 DEF LinkInv, TypeInv, TypeOK, RowIds
    <2>2. IsNamed(calls[<<j, target>>].to, j, target) /\ calls[<<j, target>>].to \in RowIds(services)
      BY <1>10 DEF LinkInv, TypeInv, TypeOK, Calls, CallRow, LinksAreNamed, IsNamed, RowIds
    <2> QED
      BY <2>1, <2>2, <1>6 DEF IsNamed, EnsureService
  <1>11. LinksAreNamed'
    BY <1>10 DEF LinksAreNamed, EnsureService
  <1> QED
    BY <1>9, <1>11

\* Steps that leave both tables alone.
LEMMA QuietLinks ==
    ASSUME LinkInv, UNCHANGED <<services, calls>>
    PROVE  LinksAreNamed' /\ (Settled => Settled')
           /\ \A i \in RowIds(services)' : i \in RowIds(services) /\ services'[i] = services[i]
  BY DEF LinkInv, LinksAreNamed, Settled, IsNamed, KnownNames, RowIds

LEMMA NextLinkInv ==
    ASSUME OneNamePerRoot
    PROVE  LinkInv /\ [Next]_vars => LinkInv'
  <1> SUFFICES ASSUME LinkInv, [Next]_vars PROVE LinkInv'
    OBVIOUS
  <1>0. TypeInv'
    BY NextTypeInv DEF LinkInv
  <1> SUFFICES RowsAreFound' /\ LinksAreNamed'
    BY <1>0 DEF LinkInv
  <1> USE DEF LinkInv, TypeInv, TypeOK, RowsAreFound, Goto, Indexing
  <1>1. ASSUME NEW p \in Procs, NEW c \in Commands, Launch(p, c) PROVE RowsAreFound' /\ LinksAreNamed'
    BY <1>1, QuietLinks, CommandShape DEF Launch
  <1>2. ASSUME NEW p \in Procs, NEW answer \in Answers, WriteCalls(p, answer)
        PROVE  RowsAreFound' /\ LinksAreNamed'
    <2>1. ASSUME NEW i \in Ids, NEW target \in Targets,
                 calls'[<<i, target>>] # None, calls'[<<i, target>>].to # None
          PROVE  calls'[<<i, target>>] = calls[<<i, target>>]
      BY <1>2, <2>1 DEF WriteCalls
    <2>2. LinksAreNamed'
      BY <1>2, <2>1 DEF LinksAreNamed, IsNamed, WriteCalls
    <2> QED
      BY <1>2, <2>2 DEF WriteCalls
  <1>3. ASSUME NEW p \in Procs, EnsureRepository(p) PROVE RowsAreFound' /\ LinksAreNamed'
    <2>1. cmd[p].found \subseteq Found
      BY <1>3 DEF EnsureRepository, LiveState, Found
    <2> QED
      BY <1>3, <2>1, QuietLinks DEF EnsureRepository
  <1>4. ASSUME NEW p \in Procs, LookupRow(p) PROVE RowsAreFound' /\ LinksAreNamed'
    <2>1. CASE Ends(p)
      BY <1>4, <2>1, EndsFound, QuietLinks DEF LookupRow
    <2>2. ASSUME NEW i \in RowIds(services), NamedRows(services, cmd[p].name, NoRepo) = {i},
                 todo' = [todo EXCEPT ![p] = {<<cmd[p].name, services[i].root>>}],
                 Goto(p, "next"), UNCHANGED <<cmd, name, root, sid>>
          PROVE  RowsAreFound' /\ LinksAreNamed'
      <3>1. services[i].name = cmd[p].name
        BY <2>2 DEF NamedRows
      <3>2. {<<cmd[p].name, services[i].root>>} \subseteq Found
        BY <3>1
      <3>3. UNCHANGED <<services, calls>>
        BY <1>4 DEF LookupRow
      <3> QED
        BY <2>2, <3>2, <3>3, QuietLinks
    <2> QED
      BY <1>4, <2>1, <2>2 DEF LookupRow
  <1>5. ASSUME NEW p \in Procs, TakeService(p) PROVE RowsAreFound' /\ LinksAreNamed'
    <2>1. CASE Ends(p)
      BY <1>5, <2>1, EndsFound, QuietLinks DEF TakeService
    <2>2. ASSUME NEW s \in todo[p], todo' = [todo EXCEPT ![p] = @ \ {s}],
                 name' = [name EXCEPT ![p] = s[1]], root' = [root EXCEPT ![p] = s[2]],
                 Goto(p, "ensure"), UNCHANGED <<cmd, sid>>
          PROVE  RowsAreFound' /\ LinksAreNamed'
      <3>1. s = <<s[1], s[2]>> /\ s \in Found
        OBVIOUS
      <3>2. UNCHANGED <<services, calls>>
        BY <1>5 DEF TakeService
      <3> QED
        BY <2>2, <3>1, <3>2, QuietLinks
    <2> QED
      BY <1>5, <2>1, <2>2 DEF TakeService
  <1>6. ASSUME NEW p \in Procs, EnsureService(p) PROVE RowsAreFound' /\ LinksAreNamed'
    BY <1>6, EnsureRenamesNothing
  <1>7. ASSUME NEW p \in Procs, ReconcileScoped(p) PROVE RowsAreFound' /\ LinksAreNamed'
    <2>1. LinksAreNamed'
      BY <1>7, ReconciledLinks DEF ReconcileScoped
    <2> QED
      BY <1>7, <2>1 DEF ReconcileScoped
  <1>8. ASSUME NEW p \in Procs, SkipCalls(p) PROVE RowsAreFound' /\ LinksAreNamed'
    BY <1>8, QuietLinks DEF SkipCalls
  <1>9. ASSUME NEW p \in Procs, ReconcileAll(p) PROVE RowsAreFound' /\ LinksAreNamed'
    <2>1. LinksAreNamed'
      BY <1>9, ReconciledLinks DEF ReconcileAll
    <2> QED
      BY <1>9, <2>1 DEF ReconcileAll
  <1>10. ASSUME NEW p \in Procs, EndIndex(p) PROVE RowsAreFound' /\ LinksAreNamed'
    <2>1. CASE Ends(p)
      BY <1>10, <2>1, EndsFound, QuietLinks DEF EndIndex
    <2>2. CASE Goto(p, "prune") /\ UNCHANGED <<cmd, todo, name, root, sid>>
      BY <1>10, <2>2, QuietLinks DEF EndIndex
    <2> QED
      BY <1>10, <2>1, <2>2 DEF EndIndex
  <1>11. ASSUME NEW p \in Procs, PruneServices(p) PROVE RowsAreFound' /\ LinksAreNamed'
    <2>1. LinksAreNamed' /\ \A i \in RowIds(services)' : i \in RowIds(services) /\ services'[i] = services[i]
      BY <1>11, DeletionLinks DEF PruneServices
    <2>2. CASE Ends(p)
      BY <2>1, <2>2, EndsFound
    <2>3. CASE Goto(p, "cleanup") /\ UNCHANGED <<cmd, todo, name, root, sid>>
      BY <2>1, <2>3
    <2> QED
      BY <1>11, <2>2, <2>3 DEF PruneServices
  <1>12. ASSUME NEW p \in Procs, RemoveRepository(p) PROVE RowsAreFound' /\ LinksAreNamed'
    <2>1. CASE UNCHANGED <<repositories, services, calls>> /\ Ends(p)
      BY <2>1, EndsFound, QuietLinks
    <2>2. CASE cmd[p].repo \in repositories
      <3>1. LinksAreNamed' /\ \A i \in RowIds(services)' : i \in RowIds(services) /\ services'[i] = services[i]
        BY <1>12, <2>2, DeletionLinks DEF RemoveRepository
      <3>2. Goto(p, "cleanup") /\ UNCHANGED <<cmd, todo, name, root, sid>>
        BY <1>12, <2>2 DEF RemoveRepository
      <3> QED
        BY <3>1, <3>2
    <2> QED
      BY <1>12, <2>1, <2>2 DEF RemoveRepository
  <1>13. ASSUME NEW p \in Procs, ReconcileAfterDeletion(p) PROVE RowsAreFound' /\ LinksAreNamed'
    <2>1. LinksAreNamed' /\ UNCHANGED services
      BY <1>13, ReconciledLinks DEF ReconcileAfterDeletion
    <2> QED
      BY <1>13, <2>1, EndsFound DEF ReconcileAfterDeletion, RowIds
  <1>14. ASSUME NEW p \in Procs, Crash(p) PROVE RowsAreFound' /\ LinksAreNamed'
    BY <1>14, EndsFound, QuietLinks DEF Crash
  <1>15. CASE UNCHANGED vars
    BY <1>15, QuietLinks DEF vars, local
  <1> QED
    BY <1>1, <1>2, <1>3, <1>4, <1>5, <1>6, <1>7, <1>8, <1>9, <1>10, <1>11, <1>12, <1>13,
       <1>14, <1>15 DEF Next, AllDone

\* A process in front of a reconciliation stays there, reconciles or is noticed dying.
LEMMA NextSettles ==
    LinkInv /\ CallsReconciled /\ [Next]_vars => CallsReconciled'
  <1> SUFFICES ASSUME LinkInv, CallsReconciled, [Next]_vars PROVE CallsReconciled'
    OBVIOUS
  <1> USE DEF Goto, Pending
  <1>t. /\ pc \in [Procs -> PCs]
    BY DEF LinkInv, TypeInv, TypeOK
  \* A step of p to a place before a reconciliation.
  <1>a. ASSUME NEW p \in Procs, pc'[p] \in Pending PROVE CallsReconciled'
    BY <1>a DEF CallsReconciled, Unsettled
  \* A step of p from a place without one to another that leaves the tables alone.
  <1>b. ASSUME NEW p \in Procs, pc[p] \notin Pending, UNCHANGED <<services, calls, lost>>,
               \A q \in Procs \ {p} : pc'[q] = pc[q]
        PROVE  CallsReconciled'
    BY <1>b, QuietLinks DEF CallsReconciled, Unsettled
  \* A reconciliation of the whole table.
  <1>c. ASSUME UNCHANGED services, calls' = Reconciled(services, calls, Ids) PROVE CallsReconciled'
    BY <1>c, ReconciledLinks DEF CallsReconciled
  <1>d. ASSUME NEW p \in Procs, Ends(p) PROVE pc' = [pc EXCEPT ![p] = "ended"]
    BY <1>d DEF Ends
  <1>1. ASSUME NEW p \in Procs, NEW c \in Commands, Launch(p, c) PROVE CallsReconciled'
    BY <1>1, <1>b, <1>t DEF Launch
  <1>2. ASSUME NEW p \in Procs, NEW answer \in Answers, WriteCalls(p, answer) PROVE CallsReconciled'
    BY <1>2, <1>a, <1>t DEF WriteCalls
  <1>3. ASSUME NEW p \in Procs, EnsureRepository(p) PROVE CallsReconciled'
    BY <1>3, <1>b, <1>t DEF EnsureRepository
  <1>4. ASSUME NEW p \in Procs, LookupRow(p) PROVE CallsReconciled'
    BY <1>4, <1>b, <1>d, <1>t DEF LookupRow
  <1>5. ASSUME NEW p \in Procs, TakeService(p) PROVE CallsReconciled'
    BY <1>5, <1>b, <1>d, <1>t DEF TakeService
  <1>6. ASSUME NEW p \in Procs, EnsureService(p) PROVE CallsReconciled'
    BY <1>6, <1>a, <1>t DEF EnsureService
  <1>7. ASSUME NEW p \in Procs, ReconcileScoped(p) PROVE CallsReconciled'
    BY <1>7, <1>a, <1>t DEF ReconcileScoped
  <1>8. ASSUME NEW p \in Procs, SkipCalls(p) PROVE CallsReconciled'
    BY <1>8, <1>a, <1>t DEF SkipCalls
  <1>9. ASSUME NEW p \in Procs, ReconcileAll(p) PROVE CallsReconciled'
    BY <1>9, <1>c DEF ReconcileAll
  <1>10. ASSUME NEW p \in Procs, EndIndex(p) PROVE CallsReconciled'
    BY <1>10, <1>b, <1>d, <1>t DEF EndIndex
  <1>11. ASSUME NEW p \in Procs, PruneServices(p) PROVE CallsReconciled'
    <2>1. CASE Unfound(p) = {}
      <3>1. services' = services
        BY <1>11, <2>1 DEF PruneServices, WithoutServices, LinkInv, TypeInv, TypeOK, Tables
      <3>2. calls' = [key \in Ids \X Targets |-> calls[key]]
        <4>1. calls' = WithoutCalls(calls, {})
          BY <1>11, <2>1 DEF PruneServices
        <4>2. WithoutCalls(calls, {}) = [key \in Ids \X Targets |-> calls[key]]
          BY DEF WithoutCalls
        <4> QED
          BY <4>1, <4>2
      <3>3. calls' = calls
        BY Zenon, <3>2 DEF LinkInv, TypeInv, TypeOK, Calls
      <3> QED
        BY <1>11, <1>b, <1>d, <1>t, <2>1, <3>1, <3>3 DEF PruneServices
    <2>2. CASE Unfound(p) # {}
      BY <1>11, <1>a, <1>t, <2>2 DEF PruneServices
    <2> QED
      BY <2>1, <2>2
  <1>12. ASSUME NEW p \in Procs, RemoveRepository(p) PROVE CallsReconciled'
    <2>1. CASE cmd[p].repo \in repositories
      BY <1>12, <1>a, <1>t, <2>1 DEF RemoveRepository
    <2>2. CASE cmd[p].repo \notin repositories
      BY <1>12, <1>b, <1>d, <1>t, <2>2 DEF RemoveRepository
    <2> QED
      BY <2>1, <2>2
  <1>13. ASSUME NEW p \in Procs, ReconcileAfterDeletion(p) PROVE CallsReconciled'
    BY <1>13, <1>c DEF ReconcileAfterDeletion
  <1>14. ASSUME NEW p \in Procs, Crash(p) PROVE CallsReconciled'
    <2>1. CASE pc[p] \in Pending
      BY <1>14, <2>1 DEF Crash, CallsReconciled, Unsettled
    <2>2. CASE pc[p] \notin Pending /\ lost
      BY <1>14, <2>2 DEF Crash, CallsReconciled, Unsettled
    <2>3. CASE pc[p] \notin Pending /\ ~lost
      <3>1. lost' = lost
        <4>1. lost' = (lost \/ pc[p] \in Pending)
          BY <1>14 DEF Crash
        <4>2. lost \in BOOLEAN
          BY DEF LinkInv, TypeInv, TypeOK
        <4> QED
          BY Zenon, <2>3, <4>1, <4>2
      <3>2. UNCHANGED <<services, calls>> /\ \A q \in Procs \ {p} : pc'[q] = pc[q]
        BY <1>14, <1>d, <1>t DEF Crash
      <3> QED
        BY <1>b, <2>3, <3>1, <3>2
    <2> QED
      BY <2>1, <2>2, <2>3
  <1>15. CASE UNCHANGED vars
    BY <1>15, QuietLinks DEF vars, local, CallsReconciled, Unsettled
  <1> QED
    BY <1>1, <1>2, <1>3, <1>4, <1>5, <1>6, <1>7, <1>8, <1>9, <1>10, <1>11, <1>12, <1>13,
       <1>14, <1>15 DEF Next, AllDone

\* Where no service is renamed, a link always names its target, at every commit of
\* every interleaving (service_calls.py:46).
THEOREM LinksAlwaysNamed ==
    ASSUME OneNamePerRoot
    PROVE  Spec => []LinksAreNamed
  <1>1. Init => LinkInv
    BY InitLinkInv
  <1>2. LinkInv /\ [Next]_vars => LinkInv'
    BY NextLinkInv
  <1>3. LinkInv => LinksAreNamed
    BY DEF LinkInv
  <1> QED
    BY <1>1, <1>2, <1>3, PTL DEF Spec

\* And all calls are reconciled with all services whenever no process has its
\* reconciliation before it, or died before it: none is lost between the commits of
\* several processes (service_calls.py:56).
THEOREM CallsAreReconciled ==
    ASSUME OneNamePerRoot
    PROVE  Spec => []CallsReconciled
  <1>1. Init => LinkInv /\ CallsReconciled
    BY InitLinkInv
  <1>2. LinkInv /\ [Next]_vars => LinkInv'
    BY NextLinkInv
  <1>3. LinkInv /\ CallsReconciled /\ [Next]_vars => CallsReconciled'
    BY NextSettles
  <1> QED
    BY <1>1, <1>2, <1>3, PTL DEF Spec
=============================================================================
