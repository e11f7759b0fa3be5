------------------------- MODULE CandidateRetrieval -------------------------
(***************************************************************************)
(* Candidate retrieval for a task: which indexed services a change surface *)
(* is asked about.  A lexical strategy walks the relations of the services *)
(* that a search found, a semantic one ranks services by the similarity of *)
(* their embeddings, and a hybrid one interleaves the two lists.  What the *)
(* search and the ranking answer are arguments.                            *)
(*                                                                         *)
(* Names are numbers, in the order in which the code sorts them.           *)
(***************************************************************************)
EXTENDS ServiceTable, SequencesExt

CONSTANTS
    CallsOf,       \* CallsOf[n]: the names that service n calls
    PublishesTo,   \* PublishesTo[n]: channels
    ConsumesFrom,  \* ConsumesFrom[n]: channels
    Hops,          \* relations the lexical walk follows
    Cap            \* candidates of one task

ASSUME RetrievalAssumption ==
    /\ Names \subseteq Nat /\ IsFiniteSet(Names)
    /\ CallsOf \in [Names -> SUBSET Names]
    /\ {Hops, Cap} \subseteq Nat \ {0}

Scopes == Repos \cup {NoRepo}

\* The numbers of a finite set, in order.
Sorted(S) ==
    [k \in 1..Cardinality(S) |-> CHOOSE n \in S : Cardinality({m \in S : m <= n}) = k]

\* What s has at the given places, in order.
Selection(s, places) == [k \in 1..Cardinality(places) |-> s[Sorted(places)[k]]]

\* The elements of s that are among the names, in order.
Among(s, names) == Selection(s, {i \in DOMAIN s : s[i] \in names})

\* get_service_by_name: the row that a name means, when it means only one.
Meant(tbl, name, scope) ==
    IF Cardinality(NamedRows(tbl, name, scope)) = 1 THEN NamedRows(tbl, name, scope) ELSE {}

IndexedNames(tbl, scope) == {n \in Names : Meant(tbl, n, scope) # {}}

\* Names that several rows have.
DuplicateNames(tbl) == {n \in Names : Cardinality(NamedRows(tbl, n, NoRepo)) > 1}

-----------------------------------------------------------------------------
(* The relations of one service.  A call is attributed to the service it   *)
(* was resolved to, in the repository of its caller; channels are matched  *)
(* across repositories.                                                    *)

Callers(tbl, i) ==
    {tbl[j].name : j \in {k \in RowIds(tbl) : /\ tbl[k].repo = tbl[i].repo
                                              /\ tbl[i].name \in CallsOf[tbl[k].name]}}

MessageLinks(tbl, i) ==
    {tbl[j].name : j \in {k \in RowIds(tbl) \ {i} :
        \/ PublishesTo[tbl[i].name] \cap ConsumesFrom[tbl[k].name] # {}
        \/ ConsumesFrom[tbl[i].name] \cap PublishesTo[tbl[k].name] # {}}}

Related(tbl, name, scope) ==
    UNION {CallsOf[name] \cup Callers(tbl, i) \cup MessageLinks(tbl, i) :
              i \in Meant(tbl, name, scope)}

RelatedToAny(tbl, names, scope) == UNION {Related(tbl, n, scope) : n \in names}

-----------------------------------------------------------------------------
(* KeywordGraphRetrieval                                                   *)

\* One round: the frontier has been visited, and what it leads to is the next.
WalkRound(tbl, scope, walk) ==
    LET visited == walk.visited \cup walk.frontier
    IN  IF walk.frontier = {} \/ Cardinality(walk.visited) >= Cap THEN walk
        ELSE [visited |-> visited,
              frontier |-> RelatedToAny(tbl, walk.frontier, scope) \ visited]

\* The names met; the last frontier is not expanded.
Walk(tbl, seeds, scope) ==
    LET walk[h \in 0..Hops] ==
            IF h = 0 THEN [visited |-> {}, frontier |-> seeds]
            ELSE WalkRound(tbl, scope, walk[h - 1])
    IN  walk[Hops].visited \cup walk[Hops].frontier

UpToCap(s) == SubSeq(s, 1, IF Len(s) < Cap THEN Len(s) ELSE Cap)

ExpandCandidates(tbl, seeds, scope) ==
    UpToCap(Sorted(Walk(tbl, seeds, scope) \cap IndexedNames(tbl, scope)))

LexicalCandidates(tbl, found, hints, scope) == ExpandCandidates(tbl, found \cup ToSet(hints), scope)

-----------------------------------------------------------------------------
(* SemanticRetrieval: the hints that exist come first.                      *)

SemanticCandidates(tbl, ranked, hints, scope) ==
    LET known == Among(hints, IndexedNames(tbl, scope))
    IN  UpToCap(known \o Among(ranked, ToSet(ranked) \ ToSet(known)))

-----------------------------------------------------------------------------
(* HybridRetrieval: one of each list in turn, without repetitions.          *)

\* Faulty variant of Interleaved: one list after the other.
Concatenated(lexical, semantic) == lexical \o semantic

Interleaved(lexical, semantic) ==
    [p \in {2 * k - 1 : k \in DOMAIN lexical} \cup {2 * k : k \in DOMAIN semantic} |->
        IF p % 2 = 1 THEN lexical[(p + 1) \div 2] ELSE semantic[p \div 2]]

\* The places whose name no earlier place has.
FirstPlaces(list) == {p \in DOMAIN list : \A q \in DOMAIN list : q < p => list[q] # list[p]}

HybridCandidates(lexical, semantic) ==
    LET list == Interleaved(lexical, semantic)
    IN  UpToCap(Selection(list, FirstPlaces(list)))

-----------------------------------------------------------------------------
(* What is promised of a list of candidates.                               *)

\* Reference: the names that at most two relations of indexed services lead to.
WithinTwoHops(tbl, seeds, scope) ==
    LET near == seeds \cup RelatedToAny(tbl, seeds, scope)
    IN  near \cup RelatedToAny(tbl, near, scope)
=============================================================================
