---------------------------- MODULE StaticFacts ----------------------------
(***************************************************************************)
(* The tables that one source scan of a service rewrites, with the         *)
(* relations another command resolves between services, as the             *)
(* architecture detectors read them.  facts maps every indexed service to  *)
(* its current rows.  Names of symbols, queues, channels and persisted     *)
(* targets are natural numbers, a smaller one standing for a name that     *)
(* sorts earlier, because the queries order their rows by name.            *)
(*                                                                         *)
(* The rows of a service:                                                  *)
(*   entries     sequence of [kind, method, name, symbol]                  *)
(*   contracts   set of [symbol, transport, direction, recovers]           *)
(*   edges       set of [from, to, kind, origin, line]                     *)
(*   boundaries  set of [source, kind]                                     *)
(*   policies    set of [source, kind]                                     *)
(*   consumes    set of [channel, line]                                    *)
(*   calls       set of [source, target, protocol, method, path, line],    *)
(*               line being the place of the row in the order of the query *)
(*   errors      set of [source, role, kind, type, protocol, code,         *)
(*               exposes, retry], code being a number and 0 none           *)
(*   relations   set of [to, kind, method, path], the calls of the service *)
(*               that are resolved to an indexed service                   *)
(*   cloud       set of [type, target], cloud resources the code uses      *)
(*   owned       set of [name, kind, owner], persisted declarations        *)
(*   stored      set of [name, kind, engine], persisted entities as the    *)
(*               backend names them, one of a name                         *)
(*   vendors     set of names of external services it integrates with      *)
(*   environment set of environment keys the code reads                    *)
(*   flags       set of [provider, key, place], feature flags it reads     *)
(*   migrations  set of [table, destructive]                               *)
(* Persisted names are pairs of a folded name and a spelling.              *)
(***************************************************************************)
EXTENDS Naturals, Sequences, FiniteSets

CONSTANTS
    ServiceIds,     \* ids of the services that may be indexed, natural numbers
    NameOf,         \* NameOf[s]: the name of the service
    RepositoryOf,   \* RepositoryOf[s]: the name of its repository
    AnalysesOf,     \* AnalysesOf[s]: the results a scan of s may have
    RelationsOf,    \* RelationsOf[s]: the relations a reconciliation may find
    OwnerOf         \* OwnerOf[x]: the class or receiver a symbol belongs to

ASSUME ServiceIdsAssumption == ServiceIds \subseteq Nat
ASSUME NamesAssumption ==
    /\ DOMAIN NameOf = ServiceIds
    /\ DOMAIN RepositoryOf = ServiceIds
    /\ \A s, t \in ServiceIds :
           NameOf[s] = NameOf[t] /\ RepositoryOf[s] = RepositoryOf[t] => s = t

VARIABLE facts

Indexed == DOMAIN facts

NoRows == [entries |-> <<>>, contracts |-> {}, edges |-> {}, boundaries |-> {},
           policies |-> {}, consumes |-> {}, calls |-> {}, errors |-> {},
           relations |-> {}, cloud |-> {}, owned |-> {}, stored |-> {},
           vendors |-> {}, environment |-> {}, flags |-> {}, migrations |-> {}]

\* Rows as a scan returns them: every table, the entries in their order, and
\* of the columns those that are compared as numbers or as whole rows.
AreRows(rows) ==
    /\ rows = [table \in DOMAIN NoRows |-> rows[table]]
    /\ Len(rows.entries) \in Nat /\ DOMAIN rows.entries = 1..Len(rows.entries)
    /\ \A e \in rows.edges \cup rows.calls : e.line \in Nat
    /\ IsFiniteSet(rows.edges) /\ \A e \in rows.edges : e.to \in Nat
    /\ \A c \in rows.cloud : c = [type |-> c.type, target |-> c.target]
    /\ \A d, e \in rows.stored : d.name = e.name => d = e

ASSUME AnalysesAssumption ==
    \A s \in ServiceIds : \A rows \in AnalysesOf[s] : AreRows(rows)
ASSUME RelationsAssumption ==
    \A s \in ServiceIds : \A found \in RelationsOf[s] : IsFiniteSet(found)

-----------------------------------------------------------------------------
(* The scan of a service replaces all its rows and a reconciliation its     *)
(* relations.  A deleted service takes its rows with it, and the relations  *)
(* to it are left without a target.                                         *)

FactsInit == facts = [s \in {} |-> NoRows]

ReplaceAnalysis(s) ==
    \E rows \in AnalysesOf[s] :
        facts' = [t \in Indexed \cup {s} |->
                     IF t # s THEN facts[t]
                     ELSE [rows EXCEPT !.relations =
                               IF s \in Indexed THEN facts[s].relations ELSE {}]]

ReplaceRelations(s) ==
    /\ s \in Indexed
    /\ \E found \in RelationsOf[s] :
           facts' = [facts EXCEPT ![s].relations = {r \in found : r.to \in Indexed}]

DeleteServices(gone) ==
    facts' = [t \in Indexed \ gone |->
                  [facts[t] EXCEPT !.relations = {r \in @ : r.to \notin gone}]]

Candidates(r) == {s \in Indexed : RepositoryOf[s] = r}

\* A completed scan, which found and indexed some services of the checkout,
\* deletes the others.
DeleteServicesNotIn(r, found) ==
    /\ found # {} /\ Candidates(r) \ found # {}
    /\ DeleteServices(Candidates(r) \ found)

\* A removed repository takes all its services with it.
RemoveRepository(r) == Candidates(r) # {} /\ DeleteServices(Candidates(r))

Repositories == {RepositoryOf[s] : s \in ServiceIds}

FactsNext ==
    \/ \E s \in ServiceIds : ReplaceAnalysis(s) \/ ReplaceRelations(s)
    \/ \E r \in Repositories :
           \/ \E found \in SUBSET Candidates(r) : DeleteServicesNotIn(r, found)
           \/ RemoveRepository(r)

-----------------------------------------------------------------------------
(* A service is called by its name while no other indexed service has it,   *)
(* and by repository and name otherwise.                                    *)

Unambiguous(s) == \A t \in Indexed : NameOf[t] = NameOf[s] => t = s

ServiceName(s) ==
    IF Unambiguous(s) THEN <<NameOf[s]>> ELSE <<RepositoryOf[s], NameOf[s]>>

AllNames == {NameOf[s] : s \in Indexed}

\* The services of a plan whose name only one indexed service has.
PlanServices(primary) ==
    {<<n>> : n \in {m \in primary : \E s \in Indexed : NameOf[s] = m /\ Unambiguous(s)}}

\* Edges are tied to the entrypoint that was inserted last under their
\* source symbol; 0 stands for none.
EntrypointIdOf(s, symbol) ==
    LET ids == {i \in DOMAIN facts[s].entries : facts[s].entries[i].symbol = symbol}
    IN  IF ids = {} THEN 0 ELSE CHOOSE i \in ids : \A j \in ids : j <= i

EntrypointSymbols(s) ==
    {facts[s].entries[i].symbol : i \in DOMAIN facts[s].entries}

FlowEdgesBySource(s, symbol, kind) ==
    {e \in facts[s].edges : e.from = symbol /\ e.kind = kind}

PoliciesBySource(s, symbol, kinds) ==
    {p \in facts[s].policies : p.source = symbol /\ p.kind \in kinds}

HasBoundary(s, symbol, kind) == [source |-> symbol, kind |-> kind] \in facts[s].boundaries

=============================================================================
