--------------------------- MODULE FlowResolution ---------------------------
(***************************************************************************)
(* The resolution of the calls one scan of a service has observed, as      *)
(* BoundedFlowResolver links them to the callables the scan has declared.  *)
(*                                                                         *)
(* A dotted name is the sequence of its segments: "this.repo.save" is      *)
(* <<"this", "repo", "save">>, a bare call has one segment.  An analysis   *)
(* is a record of                                                          *)
(*   symbols     sequence of [name, implements, imports, qualifiers,       *)
(*               primary], imports mapping a local name to a dotted name   *)
(*   injections  sequence of [consumer, contract, qualifier]               *)
(*   edges       sequence of [source, target, kind, confidence, origin]    *)
(*   entrypoints sequence of the symbols where work enters                 *)
(***************************************************************************)
EXTENDS Naturals, Sequences, FiniteSets, SequencesExt

(* The form of an analysis: its lists are sequences, and what names a      *)
(* callable or a type has a segment.                                       *)
IsSequenceOf(q, Is(_)) ==
    Len(q) \in Nat /\ q \in Seq({q[i] : i \in 1..Len(q)}) /\ \A i \in 1..Len(q) : Is(q[i])

IsName(name) == name # <<>> /\ IsSequenceOf(name, LAMBDA segment : TRUE)

IsAnalysis(a) ==
    /\ DOMAIN a = {"symbols", "injections", "edges", "entrypoints"}
    /\ IsSequenceOf(a.symbols, LAMBDA s : IsName(s.name))
    /\ IsSequenceOf(a.injections, LAMBDA i : IsName(i.contract))
    /\ IsSequenceOf(a.edges, LAMBDA e : IsName(e.source) /\ IsName(e.target))
    /\ IsSequenceOf(a.entrypoints, LAMBDA name : IsName(name))

NoContract == <<>>
NoQualifier == "none"

(* symbols is a dictionary by name: of two callables of one name the later *)
(* one is known.                                                           *)
Known(a) == {a.symbols[i].name : i \in DOMAIN a.symbols}

Latest(rows, at) == rows[CHOOSE i \in at : \A j \in at : j <= i]

SymbolNamed(a, name) ==
    Latest(a.symbols, {i \in DOMAIN a.symbols : a.symbols[i].name = name})

Owner(name) == Front(name)

(* What a field is wired to: its declared injection if there is one, or    *)
(* else an injects edge of it, and the later of several.                   *)
Injections(a, consumer) == {i \in DOMAIN a.injections : a.injections[i].consumer = consumer}

InjectsEdges(a, consumer) ==
    {i \in DOMAIN a.edges : /\ a.edges[i].kind = "injects"
                            /\ a.edges[i].source = consumer
                            /\ Len(a.edges[i].source) > 1}

InjectedType(a, consumer) ==
    CASE Injections(a, consumer) # {}   -> Latest(a.injections, Injections(a, consumer)).contract
      [] /\ Injections(a, consumer) = {}
         /\ InjectsEdges(a, consumer) # {} -> Latest(a.edges, InjectsEdges(a, consumer)).target
      [] OTHER -> NoContract

Qualifier(a, consumer) ==
    IF Injections(a, consumer) = {} THEN NoQualifier
    ELSE Latest(a.injections, Injections(a, consumer)).qualifier

(* The receiver of a call without a leading "this.", and the field of the  *)
(* calling class it names.                                                 *)
Method(edge) == <<Last(edge.target)>>

HasReceiver(edge) == Len(edge.target) > 1

Receiver(edge) ==
    LET receiver == Front(edge.target)
    IN  IF Len(receiver) > 1 /\ Head(receiver) = "this" THEN Tail(receiver) ELSE receiver

Field(edge) == <<Head(edge.source)>> \o Receiver(edge)

(* What the receiver is injected with; a bare call has none.               *)
Contract(a, edge) ==
    IF HasReceiver(edge) THEN InjectedType(a, Field(edge)) ELSE NoContract

-----------------------------------------------------------------------------
(* The callables an edge may mean, by the evidence that names them.        *)
Imported(a, edge) ==
    LET imports == IF edge.source \in Known(a) THEN SymbolNamed(a, edge.source).imports
                   ELSE << >>
        local == Head(edge.target)
    IN  IF local \in DOMAIN imports
        THEN {imports[local] \o Tail(edge.target)} \cap Known(a) ELSE {}

InjectedCallable(a, edge) ==
    IF Contract(a, edge) = NoContract THEN {}
    ELSE {Contract(a, edge) \o Method(edge)} \cap Known(a)

Implementing(a, edge) ==
    LET types == {Owner(name) : name \in {n \in Known(a) :
                     Contract(a, edge) \in SymbolNamed(a, n).implements}}
    IN  {type \o Method(edge) : type \in types} \cap Known(a)

Qualified(a, edge) ==
    {c \in Implementing(a, edge) :
        /\ Qualifier(a, Field(edge)) # NoQualifier
        /\ Qualifier(a, Field(edge)) \in SymbolNamed(a, c).qualifiers}

Primary(a, edge) == {c \in Implementing(a, edge) : SymbolNamed(a, c).primary}

NamedAlike(a, edge) ==
    {n \in Known(a) : Len(n) > 1 /\ Last(n) = Last(edge.target)}

(* In a plausible variant the name of the method alone decides.            *)
SameMemberAnywhere(a, edge) == NamedAlike(a, edge)

(* A bare call may mean the only method of its name; a call with a receiver *)
(* stays what was observed.                                                *)
SameMember(a, edge) == IF HasReceiver(edge) THEN {} ELSE NamedAlike(a, edge)

ByEvidence(a, edge) ==
    <<Imported(a, edge), InjectedCallable(a, edge), Implementing(a, edge),
      Qualified(a, edge), Primary(a, edge)>>

-----------------------------------------------------------------------------
(* Persistence edges, injections and calls that already name a callable    *)
(* are left alone; another edge goes to the first choice of one element.   *)
Settled(a, edge) ==
    edge.kind \in {"injects", "reads", "writes"} \/ edge.target \in Known(a)

Only(S) == CHOOSE x \in S : TRUE

Single(choices) == SelectSeq(choices, LAMBDA c : Cardinality(c) = 1)

ResolveEdge(a, edge) ==
    LET single == Single(ByEvidence(a, edge))
    IN  CASE Settled(a, edge) -> edge
          [] ~Settled(a, edge) /\ single # <<>> ->
               [edge EXCEPT !.target = Only(Head(single)), !.confidence = "high"]
          [] /\ ~Settled(a, edge)
             /\ single = <<>>
             /\ Cardinality(SameMember(a, edge)) = 1 ->
               [edge EXCEPT !.target = Only(SameMember(a, edge)), !.confidence = "medium"]
          [] OTHER -> edge

ResolvedEdges(a) == [i \in DOMAIN a.edges |-> ResolveEdge(a, a.edges[i])]

-----------------------------------------------------------------------------
(* A callable that has nothing to do with a call: it is not what the call  *)
(* names, nor imported by it, nor a member of what its receiver is         *)
(* injected with, and its class does not implement that contract.          *)
Unrelated(a, edge, symbol) ==
    /\ symbol.name \notin Known(a)
    /\ symbol.name \notin {edge.source, edge.target}
    /\ Contract(a, edge) \notin symbol.implements
    /\ Owner(symbol.name) # Contract(a, edge)
    /\ \A name \in Known(a) : Owner(name) # Owner(symbol.name)
    /\ LET with == [a EXCEPT !.symbols = Append(@, symbol)]
       IN  Imported(with, edge) = Imported(a, edge)
=============================================================================
