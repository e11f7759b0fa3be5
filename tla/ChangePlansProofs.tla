------------------------- MODULE ChangePlansProofs -------------------------
(***************************************************************************)
(* What ChangePlans guarantees for any surfaces, clients and CI commands,  *)
(* whatever calls overlap.                                                 *)
(***************************************************************************)
EXTENDS ChangePlans, FiniteSetTheorems, WellFoundedInduction, TLAPS

(***************************************************************************)
(* Decision points and units                                               *)
(***************************************************************************)

\* A finite set of numbers has an element of every rank.
LEMMA NthExists ==
    ASSUME NEW S \in SUBSET Nat, IsFiniteSet(S), NEW n \in 1..Cardinality(S)
    PROVE  \E i \in S : Rank(S, i) = n
  <1> DEFINE upto(i) == {j \in S : j <= i}
             rank == [i \in S |-> Rank(S, i)]
             N == Cardinality(S)
  <1>1. N \in Nat
    BY FS_CardinalityType
  <1>2. \A i \in S : IsFiniteSet(upto(i)) /\ Cardinality(upto(i)) \in 1..N
    <2> TAKE i \in S
    <2>1. IsFiniteSet(upto(i)) /\ Cardinality(upto(i)) <= N
      BY FS_Subset
    <2>2. Cardinality(upto(i)) \in Nat
      BY <2>1, FS_CardinalityType
    <2>3. i \in upto(i)
      OBVIOUS
    <2>4. Cardinality(upto(i)) # 0
      BY <2>1, <2>3, FS_EmptySet
    <2> QED
      BY <1>1, <2>1, <2>2, <2>4
  <1>3. ASSUME NEW i \in S, NEW j \in S, i < j PROVE Rank(S, i) # Rank(S, j)
    <2> i \in Nat /\ j \in Nat
      OBVIOUS
    <2>1. upto(i) \in SUBSET upto(j)
      <3> SUFFICES ASSUME NEW k \in S, k <= i PROVE k <= j
        OBVIOUS
      <3> k \in Nat
        OBVIOUS
      <3> QED
        BY <1>3
    <2>2. j \in upto(j) /\ j \notin upto(i)
      BY <1>3
    <2>3. IsFiniteSet(upto(j))
      BY <1>2
    <2>4. Cardinality(upto(j)) = Cardinality(upto(i)) => upto(j) = upto(i)
      BY <2>1, <2>3, FS_Subset
    <2>5. Cardinality(upto(i)) # Cardinality(upto(j))
      BY <2>2, <2>4
    <2> QED
      BY <2>5 DEF Rank
  <1>4. rank \in [S -> 1..N]
    BY <1>2 DEF Rank
  <1>5. rank \in Injection(S, 1..N)
    BY <1>3, <1>4 DEF Injection, IsInjective
  <1>6. IsFiniteSet(1..N) /\ Cardinality(1..N) = N
    BY <1>1, FS_Interval
  <1>7. rank \in Surjection(S, 1..N)
    BY <1>5, <1>6, FS_Injection
  <1> QED
    BY <1>7 DEF Surjection

\* Decision points are blocking contracts.
LEMMA PointsType ==
    ASSUME NEW s \in Surfaces
    PROVE  /\ DecisionPoints(s) \in Seq(BlockingContracts(s))
           /\ Cardinality(Kept(s)) \in Nat
  <1> DEFINE K == Kept(s)
             N == Cardinality(K)
  <1>1. Len(s.contracts) \in Nat
    BY SurfaceAssumption
  <1>2. K \in SUBSET (1..Len(s.contracts)) /\ K \in SUBSET Nat
    BY <1>1 DEF Kept, Blocking
  <1>3. IsFiniteSet(K)
    <2>1. IsFiniteSet(1..Len(s.contracts))
      BY <1>1, FS_Interval
    <2> QED
      BY <1>2, <2>1, FS_Subset
  <1>4. N \in Nat
    BY <1>3, FS_CardinalityType
  <1>5. ASSUME NEW n \in 1..N
        PROVE  s.contracts[CHOOSE i \in K : Rank(K, i) = n] \in BlockingContracts(s)
    <2>1. \E i \in K : Rank(K, i) = n
      BY <1>2, <1>3, NthExists
    <2>2. (CHOOSE i \in K : Rank(K, i) = n) \in K
      BY <2>1
    <2> QED
      BY <2>2 DEF Kept, BlockingContracts
  <1> HIDE DEF K, N
  <1>6. [n \in 1..N |-> s.contracts[CHOOSE i \in K : Rank(K, i) = n]]
            \in [1..N -> BlockingContracts(s)]
    BY <1>5
  <1>7. [n \in 1..N |-> s.contracts[CHOOSE i \in K : Rank(K, i) = n]] \in Seq(BlockingContracts(s))
    BY <1>4, <1>6
  <1> QED
    BY <1>4, <1>7 DEF DecisionPoints, K, N

\* The selections kept for a plan are one for each of its points.
LEMMA SelectionsType ==
    ASSUME NEW s \in Surfaces, NEW d \in Decisions, IsSelection(DecisionPoints(s), d)
    PROVE  LET points == DecisionPoints(s)
           IN  /\ Selections(points, d) \in Seq(Selection)
               /\ Len(Selections(points, d)) = Len(points)
               /\ \A i \in 1..Len(points) :
                      Selections(points, d)[i].id = DecisionId(points[i])
  <1> DEFINE points == DecisionPoints(s)
             chosen(i) == CHOOSE e \in {d[j] : j \in 1..Len(d)} : e.id = DecisionId(points[i])
  <1>1. Len(points) \in Nat /\ points \in Seq(BlockingContracts(s))
    BY PointsType
  <1>2. ASSUME NEW i \in 1..Len(points)
        PROVE  DecisionId(points[i]) \in DecisionIds /\ chosen(i).option \in Options
    <2>1. DecisionId(points[i]) \in Ids(points)
      BY DEF Ids
    <2>2. \E e \in {d[j] : j \in 1..Len(d)} : e.id = DecisionId(points[i])
      BY <2>1 DEF IsSelection
    <2>3. chosen(i) \in {d[j] : j \in 1..Len(d)}
      BY <2>2
    <2> QED
      BY <2>1, <2>3 DEF IsSelection, DecisionIds
  <1>3. Selections(points, d) = [i \in 1..Len(points) |->
            [id |-> DecisionId(points[i]), option |-> chosen(i).option]]
    BY DEF Selections
  <1> HIDE DEF chosen, points
  <1>4. Selections(points, d) \in [1..Len(points) -> Selection]
    BY <1>2, <1>3 DEF Selection
  <1>5. Selections(points, d) \in Seq(Selection) /\ Len(Selections(points, d)) = Len(points)
    BY <1>1, <1>4
  <1>6. \A i \in 1..Len(points) : Selections(points, d)[i].id = DecisionId(points[i])
    BY <1>3
  <1> QED
    BY <1>5, <1>6 DEF points

\* The point of an id is a blocking contract of that id.
LEMMA PointOfType ==
    ASSUME NEW s \in Surfaces, NEW i \in 1..Len(DecisionPoints(s))
    PROVE  LET point == PointOf(DecisionPoints(s), DecisionId(DecisionPoints(s)[i]))
           IN  point \in BlockingContracts(s) /\ DecisionId(point) = DecisionId(DecisionPoints(s)[i])
  <1> DEFINE points == DecisionPoints(s)
             all == {points[j] : j \in 1..Len(points)}
  <1>1. points \in Seq(BlockingContracts(s))
    BY PointsType
  <1>2. points[i] \in all /\ all \subseteq BlockingContracts(s)
    BY <1>1
  <1> HIDE DEF points, all
  <1>3. \E c \in all : DecisionId(c) = DecisionId(points[i])
    BY <1>2
  <1>4. LET point == CHOOSE c \in all : DecisionId(c) = DecisionId(points[i])
        IN  point \in all /\ DecisionId(point) = DecisionId(points[i])
    BY <1>3
  <1> QED
    BY <1>2, <1>4 DEF PointOf, points, all

LEMMA EventUnitType ==
    ASSUME NEW s \in Surfaces, NEW c \in BlockingContracts(s), NEW o \in Options
    PROVE  EventUnit(c, o) \in Units
  BY DEF Units, EventUnits

\* The units of a finalized plan: one for each point, in their order.
LEMMA ChangeUnitsType ==
    ASSUME NEW s \in Surfaces, NEW d \in Decisions, IsSelection(DecisionPoints(s), d)
    PROVE  LET points == DecisionPoints(s)
               selected == Selections(points, d)
               units == ChangeUnits(points, selected)
           IN  /\ units \in Seq(Units)
               /\ Len(units) = Len(points)
               /\ \A i \in 1..Len(points) :
                      units[i] = EventUnit(PointOf(points, DecisionId(points[i])),
                                           selected[i].option)
  <1> DEFINE points == DecisionPoints(s)
             selected == Selections(points, d)
             units == ChangeUnits(points, selected)
  <1>1. /\ selected \in Seq(Selection)
        /\ Len(selected) = Len(points)
        /\ \A i \in 1..Len(points) : selected[i].id = DecisionId(points[i])
    BY SelectionsType
  <1>2. Len(points) \in Nat
    BY PointsType
  <1>3. \A i \in 1..Len(points) : selected[i].option \in Options
    <2> TAKE i \in 1..Len(points)
    <2>1. selected[i] \in Selection
      BY <1>1
    <2> QED
      BY <2>1 DEF Selection
  <1>4. \A i \in 1..Len(points) :
            EventUnit(PointOf(points, DecisionId(points[i])), selected[i].option) \in Units
    BY <1>3, PointOfType, EventUnitType
  <1> HIDE DEF points, selected
  <1>5. units = [i \in 1..Len(points) |->
                    EventUnit(PointOf(points, DecisionId(points[i])), selected[i].option)]
    BY <1>1 DEF ChangeUnits
  <1>6. units \in [1..Len(points) -> Units]
    BY <1>4, <1>5
  <1> QED
    BY <1>2, <1>5, <1>6 DEF points, selected

\* The checks of the units of a plan, as its points alone determine them.
PointChecks(points) ==
    UNION {ChecksOf(EventUnit(PointOf(points, DecisionId(points[k])), "preserve")) :
               k \in 1..Len(points)}

\* Whichever options are selected, the checks are the same.
LEMMA ChecksDependOnPoints ==
    ASSUME NEW s \in Surfaces, NEW d \in Decisions, IsSelection(DecisionPoints(s), d)
    PROVE  Checks(ChangeUnits(DecisionPoints(s), Selections(DecisionPoints(s), d)))
               = PointChecks(DecisionPoints(s))
  <1> DEFINE points == DecisionPoints(s)
             selected == Selections(points, d)
             units == ChangeUnits(points, selected)
             point(k) == PointOf(points, DecisionId(points[k]))
  <1>1. /\ Len(units) = Len(points)
        /\ \A k \in 1..Len(points) : units[k] = EventUnit(point(k), selected[k].option)
    BY ChangeUnitsType
  <1>2. \A c, o : ChecksOf(EventUnit(c, o)) = ChecksOf(EventUnit(c, "preserve"))
    BY DEF ChecksOf, EventUnit
  <1> HIDE DEF units, selected
  <1>3. \A k \in 1..Len(points) : ChecksOf(units[k]) = ChecksOf(EventUnit(point(k), "preserve"))
    BY <1>1, <1>2
  <1>4. Checks(units) = PointChecks(points)
    BY <1>1, <1>3 DEF Checks, PointChecks
  <1> QED
    BY <1>4 DEF units, selected

LEMMA ChecksType ==
    ASSUME NEW units \in Seq(Units)
    PROVE  Checks(units) \subseteq PossibleChecks
  BY DEF Checks, PossibleChecks

(***************************************************************************)
(* Stored plans                                                            *)
(***************************************************************************)

\* A plan as planned, or as finalized by some selection.
PlanShape(plan, s) ==
    \/ plan = Planning(s)
    \/ /\ DecisionPoints(s) # <<>>
       /\ \E d \in Decisions :
             /\ IsSelection(DecisionPoints(s), d)
             /\ plan = Finalized(Planning(s), Selections(DecisionPoints(s), d))

IsStored(plan) == \E s \in Surfaces : PlanShape(plan, s)

LEMMA NoPointsWithoutPrimary ==
    ASSUME NEW s \in Surfaces, s.primary = {}
    PROVE  DecisionPoints(s) = <<>>
  <1>1. Kept(s) = {}
    BY DEF Kept, Blocking
  <1>2. Cardinality(Kept(s)) = 0
    BY <1>1, FS_EmptySet
  <1>3. DecisionPoints(s) \in Seq(BlockingContracts(s)) /\ Len(DecisionPoints(s)) = 0
    BY <1>2, PointsType DEF DecisionPoints
  <1> QED
    BY <1>3

LEMMA PlanningType ==
    ASSUME NEW s \in Surfaces
    PROVE  /\ Planning(s) \in StoredPlan
           /\ Planning(s).points = DecisionPoints(s)
           /\ Planning(s).selected = <<>>
           /\ Planning(s).status = "ready" => DecisionPoints(s) = <<>>
           /\ Planning(s).status = "needs_decision" <=> DecisionPoints(s) # <<>>
  <1>1. s.reviews \in Seq(Units)
    <2>1. s.reviews \in Seq(ReviewUnits(s))
      BY SurfaceAssumption DEF ReviewUnits
    <2>2. ReviewUnits(s) \subseteq Units
      BY DEF Units
    <2> QED
      BY <2>1, <2>2
  <1>2. <<>> \in Seq(Units) /\ <<>> \in Seq(Selection)
    OBVIOUS
  <1> QED
    BY <1>1, <1>2, NoPointsWithoutPrimary DEF Planning, StoredPlan

LEMMA StoredType ==
    ASSUME NEW plan, NEW s \in Surfaces, PlanShape(plan, s)
    PROVE  plan \in StoredPlan /\ plan.points = DecisionPoints(s)
  <1>1. CASE plan = Planning(s)
    BY <1>1, PlanningType
  <1>2. ASSUME NEW d \in Decisions, IsSelection(DecisionPoints(s), d),
               plan = Finalized(Planning(s), Selections(DecisionPoints(s), d))
        PROVE  plan \in StoredPlan /\ plan.points = DecisionPoints(s)
    <2>1. Selections(DecisionPoints(s), d) \in Seq(Selection)
      BY <1>2, SelectionsType
    <2>2. ChangeUnits(DecisionPoints(s), Selections(DecisionPoints(s), d)) \in Seq(Units)
      BY <1>2, ChangeUnitsType
    <2> QED
      BY <1>2, <2>1, <2>2, PlanningType DEF Finalized, StoredPlan
  <1> QED
    BY <1>1, <1>2 DEF PlanShape

\* Refining a stored plan leaves a stored plan of the same points and, if it was
\* ready before, of the same checks.
LEMMA Refining ==
    ASSUME NEW plan, NEW s \in Surfaces, PlanShape(plan, s), plan.points # <<>>,
           NEW d \in Decisions, IsSelection(plan.points, d)
    PROVE  LET new == Finalized(plan, Selections(plan.points, d))
           IN  /\ PlanShape(new, s)
               /\ new.points = plan.points
               /\ new.status = "ready"
               /\ plan.status = "ready" => Checks(new.units) = Checks(plan.units)
  <1> DEFINE new == Finalized(plan, Selections(plan.points, d))
             points == DecisionPoints(s)
             fresh == Finalized(Planning(s), Selections(points, d))
  <1>1. plan.points = points
    BY StoredType
  <1>2. new = fresh
    <2>1. CASE plan = Planning(s)
      BY <1>1, <2>1
    <2>2. ASSUME NEW selected, plan = Finalized(Planning(s), selected) PROVE new = fresh
      <3>1. \A any : Finalized(Finalized(Planning(s), selected), any) = Finalized(Planning(s), any)
        BY DEF Finalized, Planning
      <3> QED
        BY <1>1, <2>2, <3>1
    <2> QED
      BY <2>1, <2>2 DEF PlanShape
  <1>3. PlanShape(new, s)
    BY <1>1, <1>2 DEF PlanShape
  <1>4. /\ new.units = ChangeUnits(points, Selections(points, d))
        /\ new.points = points
        /\ new.status = "ready"
    BY <1>1, <1>2 DEF Finalized, Planning
  <1>5. ASSUME plan.status = "ready" PROVE Checks(plan.units) = PointChecks(points)
    <2>1. plan # Planning(s)
      BY <1>1, <1>5, PlanningType
    <2>2. PICK e \in Decisions : /\ IsSelection(points, e)
                                 /\ plan = Finalized(Planning(s), Selections(points, e))
      BY <2>1 DEF PlanShape
    <2>3. plan.units = ChangeUnits(points, Selections(points, e))
      BY <2>2 DEF Finalized, Planning
    <2> QED
      BY <2>2, <2>3, ChecksDependOnPoints
  <1>6. Checks(new.units) = PointChecks(points)
    BY <1>1, <1>4, ChecksDependOnPoints
  <1> QED
    BY <1>1, <1>3, <1>4, <1>5, <1>6

(***************************************************************************)
(* The invariant                                                           *)
(***************************************************************************)

\* A call to refine a plan has read its points, which do not change.
RefineReads ==
    \A c \in Clients :
        call[c].op = "refine" =>
            /\ plans[call[c].plan] # NoPlan
            /\ plans[call[c].plan].points = call[c].read.points
            /\ call[c].read.points # <<>>
            /\ IsSelection(call[c].read.points, call[c].decisions)

\* A command about to be recorded is of a kind that may be.
ReportsHints ==
    \A c \in Clients : call[c].op = "record_ci" => IsHintKind(call[c].row.text)

\* A check about to be recorded is one the plan has.
ReportsNameChecks ==
    \A c \in Clients :
        call[c].op = "record_check" =>
            /\ IsReady(call[c].plan)
            /\ call[c].check \in Checks(plans[call[c].plan].units)

\* Results are of plans that are ready, and of their checks.
ResultsOfReady ==
    \A p \in Plans :
        DOMAIN manual[p] # {} => IsReady(p) /\ DOMAIN manual[p] \subseteq Checks(plans[p].units)

IInv ==
    /\ TypeOK
    /\ \A p \in Plans : plans[p] # NoPlan => IsStored(plans[p])
    /\ RefineReads
    /\ ReportsHints
    /\ ReportsNameChecks
    /\ ResultsOfReady

\* Every call is of one of the kinds, told apart by its operation.
LEMMA CallKinds ==
    ASSUME TypeOK, NEW c \in Clients
    PROVE  /\ call[c].op = "refine" => call[c] \in RefineCalls
           /\ call[c].op = "record_ci" => call[c] \in CiReports
           /\ call[c].op = "record_check" => call[c] \in CheckReports
           /\ call[c].op \in {"ci_status", "closure"} => call[c] \in Reviews
  <1>1. call[c] \in RefineCalls \cup CiReports \cup CheckReports \cup Reviews
                        \cup Refinements \cup CiAnswers \cup Closures \cup {Idle}
    BY DEF TypeOK
  <1> QED
    BY <1>1 DEF RefineCalls, CiReports, CheckReports, Reviews, Refinements, CiAnswers,
                Closures, Idle

LEMMA InitInv == Init => IInv
  <1> SUFFICES ASSUME Init PROVE IInv
    OBVIOUS
  <1>1. <<>> \in CiReport /\ <<>> \in CheckReport /\ DOMAIN <<>> = {}
    BY DEF CiReport, CheckReport
  <1> QED
    BY <1>1 DEF Init, IInv, TypeOK, Idle, RefineReads, ReportsHints, ReportsNameChecks,
                ResultsOfReady

\* An upsert keeps the type of a table and adds one key.
LEMMA WithCi ==
    ASSUME NEW rows \in CiReport, NEW k \in Locations, NEW v \in CiRow
    PROVE  With(rows, k, v) \in CiReport
  <1>1. PICK D \in SUBSET Locations : rows \in [D -> CiRow]
    BY DEF CiReport
  <1>2. With(rows, k, v) \in [D \cup {k} -> CiRow] /\ D \cup {k} \in SUBSET Locations
    BY <1>1 DEF With
  <1> QED
    BY <1>2 DEF CiReport

LEMMA WithCheck ==
    ASSUME NEW rows \in CheckReport, NEW k \in PossibleChecks, NEW v \in Results
    PROVE  With(rows, k, v) \in CheckReport /\ DOMAIN With(rows, k, v) = DOMAIN rows \cup {k}
  <1>1. PICK D \in SUBSET PossibleChecks : rows \in [D -> Results]
    BY DEF CheckReport
  <1>2. /\ With(rows, k, v) \in [D \cup {k} -> Results]
        /\ D \cup {k} \in SUBSET PossibleChecks
    BY <1>1 DEF With
  <1> QED
    BY <1>1, <1>2 DEF CheckReport, With

\* A step of a client that leaves the tables alone: its new call must be of a type, and
\* justified if it is about to write.
LEMMA CallStep ==
    ASSUME IInv, NEW c \in Clients, NEW next, Says(c, next), UNCHANGED tables,
           next \in RefineCalls \cup CiReports \cup CheckReports \cup Reviews
                        \cup Refinements \cup CiAnswers \cup Closures \cup {Idle},
           next.op = "refine" =>
               /\ plans[next.plan] # NoPlan
               /\ plans[next.plan].points = next.read.points
               /\ next.read.points # <<>>
               /\ IsSelection(next.read.points, next.decisions),
           next.op = "record_ci" => IsHintKind(next.row.text),
           next.op = "record_check" =>
               IsReady(next.plan) /\ next.check \in Checks(plans[next.plan].units)
    PROVE  IInv'
  <1>1. call' = [call EXCEPT ![c] = next] /\ call \in [Clients -> RefineCalls \cup CiReports
            \cup CheckReports \cup Reviews \cup Refinements \cup CiAnswers \cup Closures \cup {Idle}]
    BY DEF Says, IInv, TypeOK
  <1>2. UNCHANGED <<plans, commands, ciResults, manual>>
    BY DEF tables
  <1>3. TypeOK'
    BY <1>1, <1>2 DEF IInv, TypeOK
  <1>4. \A d \in Clients : call'[d] = IF d = c THEN next ELSE call[d]
    BY <1>1
  <1>5. \A p : IsReady(p)' <=> IsReady(p)
    BY <1>2 DEF IsReady
  <1>6. RefineReads'
    BY <1>2, <1>4 DEF IInv, RefineReads
  <1>7. ReportsNameChecks'
    BY <1>2, <1>4, <1>5 DEF IInv, ReportsNameChecks
  <1>8. ResultsOfReady'
    BY <1>2, <1>5 DEF IInv, ResultsOfReady
  <1>9. (\A p \in Plans : plans[p] # NoPlan => IsStored(plans[p]))'
    BY <1>2 DEF IInv
  <1>10. ReportsHints'
    BY <1>4 DEF IInv, ReportsHints
  <1> QED
    BY <1>3, <1>6, <1>7, <1>8, <1>9, <1>10 DEF IInv

LEMMA ReadsKeepInv ==
    ASSUME IInv, NEW c \in Clients, NEW p \in Plans
    PROVE  /\ \A d \in Decisions : RefineAnswer(c, p, d) \/ RefineRead(c, p, d) => IInv'
           /\ \A r \in Rows, s \in Results : RecordCiRead(c, p, r, s) => IInv'
           /\ \A k \in PossibleChecks, s \in Results : RecordCheckRead(c, p, k, s) => IInv'
           /\ AskCi(c, p) => IInv'
           /\ \A diff, contracts : Review(c, p, diff, contracts) => IInv'
  <1>0. TypeOK /\ plans[p] \in StoredPlan \cup {NoPlan}
    BY DEF IInv, TypeOK
  <1>1. ASSUME NEW d \in Decisions, RefineAnswer(c, p, d) PROVE IInv'
    <2>1. \A a \in BOOLEAN : Refined(p, d, a) \in Refinements /\ Refined(p, d, a).op = "refined"
      BY DEF Refined, Refinements
    <2>2. \E a \in BOOLEAN : Says(c, Refined(p, d, a))
      <3>1. IsSelection(plans[p].points, d) \in BOOLEAN /\ (d = plans[p].selected) \in BOOLEAN
        BY DEF IsSelection
      <3> QED
        BY <1>1, <3>1 DEF RefineAnswer
    <2>3. UNCHANGED tables
      BY <1>1 DEF RefineAnswer
    <2> QED
      BY <2>1, <2>2, <2>3, CallStep
  <1>2. ASSUME NEW d \in Decisions, RefineRead(c, p, d) PROVE IInv'
    <2> DEFINE next == [op |-> "refine", plan |-> p, read |-> plans[p], decisions |-> d]
    <2>1. next \in RefineCalls
      BY <1>0, <1>2 DEF RefineRead, RefineCalls
    <2>2. /\ Says(c, next) /\ UNCHANGED tables
          /\ plans[p] # NoPlan /\ plans[p].points # <<>> /\ IsSelection(plans[p].points, d)
      BY <1>2 DEF RefineRead
    <2>3. next.op = "refine" /\ next.plan = p /\ next.read = plans[p] /\ next.decisions = d
      OBVIOUS
    <2> HIDE DEF next
    <2> QED
      BY <2>1, <2>2, <2>3, CallStep
  <1>3. ASSUME NEW r \in Rows, NEW s \in Results, RecordCiRead(c, p, r, s) PROVE IInv'
    <2> DEFINE next == [op |-> "record_ci", plan |-> p, row |-> r, status |-> s]
    <2>1. next \in CiReports /\ next.op = "record_ci" /\ next.row = r
      BY DEF CiReports
    <2>2. Says(c, next) /\ UNCHANGED tables /\ IsHintKind(r.text)
      BY <1>3 DEF RecordCiRead
    <2> HIDE DEF next
    <2> QED
      BY <2>1, <2>2, CallStep
  <1>4. ASSUME NEW k \in PossibleChecks, NEW s \in Results, RecordCheckRead(c, p, k, s)
        PROVE  IInv'
    <2> DEFINE next == [op |-> "record_check", plan |-> p, check |-> k, status |-> s]
    <2>1. next \in CheckReports /\ next.op = "record_check" /\ next.plan = p /\ next.check = k
      BY DEF CheckReports
    <2>2. Says(c, next) /\ UNCHANGED tables /\ IsReady(p) /\ k \in Checks(plans[p].units)
      BY <1>4 DEF RecordCheckRead
    <2> HIDE DEF next
    <2> QED
      BY <2>1, <2>2, CallStep
  <1>5. ASSUME NEW op \in {"ci_status", "closure"}, NEW a \in {"attention", "review", "clear"},
               Says(c, Reading(op, p, a)), UNCHANGED tables
        PROVE  IInv'
    <2>1. Reading(op, p, a) \in Reviews /\ Reading(op, p, a).op = op
      BY DEF Reading, Reviews
    <2> QED
      BY <1>5, <2>1, CallStep
  <1>6. CASE AskCi(c, p)
    BY <1>5, <1>6 DEF AskCi
  <1>7. ASSUME NEW diff, NEW contracts, Review(c, p, diff, contracts) PROVE IInv'
    <2>1. Assess(plans[p].units, diff, contracts) \in {"attention", "review", "clear"}
      BY DEF Assess
    <2> QED
      BY <1>5, <1>7, <2>1 DEF Review
  <1> QED
    BY <1>1, <1>2, <1>3, <1>4, <1>6, <1>7

LEMMA ReviewsKeepInv ==
    ASSUME IInv, NEW c \in Clients, ReadCommands(c) \/ ReadResults(c) \/ ReadChecks(c)
    PROVE  IInv'
  <1>1. call[c] \in Reviews
    BY CallKinds DEF IInv, ReadCommands, ReadResults, ReadChecks
  <1>2. commands \in Tables
    BY DEF IInv, TypeOK
  <1>3. CASE ReadCommands(c)
    <2> DEFINE next == [call[c] EXCEPT !.seen = Append(@, commands)]
    <2>1. next \in Reviews /\ next.op \in {"ci_status", "closure"}
      BY <1>1, <1>2 DEF Reviews
    <2>2. Says(c, next) /\ UNCHANGED tables
      BY <1>3 DEF ReadCommands
    <2> HIDE DEF next
    <2> QED
      BY <2>1, <2>2, CallStep
  <1>4. CASE ReadResults(c)
    <2> DEFINE seen == call[c].seen
               verdict == CiVerdict(seen[1], seen[2], seen[3], ciResults[call[c].plan])
               told == [op |-> "ci_told", plan |-> call[c].plan, hints |-> Hints(seen[1]),
                        result |-> verdict]
               failed == [op |-> "closed", plan |-> call[c].plan, result |-> "error"]
               kept == [call[c] EXCEPT !.ci = verdict]
    <2>1. seen[1] \in Tables /\ call[c].plan \in Plans
      BY <1>1, <1>4 DEF Reviews, ReadResults
    <2>2. Hints(seen[1]) \subseteq Rows
      BY <2>1 DEF Hints, Leads, Rows
    <2>3. verdict \in Verdicts \cup {"error"}
      BY DEF CiVerdict, Aggregate, Verdicts
    <2>4. /\ UNCHANGED tables
           /\ \/ Says(c, told)
              \/ Says(c, failed)
              \/ verdict # "error" /\ Says(c, kept)
      <3>1. CASE call[c].op = "ci_status"
        BY <1>4, <3>1 DEF ReadResults
      <3>2. CASE call[c].op = "closure" /\ verdict = "error"
        BY <1>4, <3>2 DEF ReadResults
      <3>3. CASE call[c].op = "closure" /\ verdict # "error"
        BY <1>4, <3>3 DEF ReadResults
      <3> QED
        BY <1>4, <3>1, <3>2, <3>3 DEF ReadResults
    <2> HIDE DEF seen, verdict
    <2>5. told \in CiAnswers /\ told.op = "ci_told"
      BY <2>1, <2>2, <2>3 DEF CiAnswers
    <2>6. failed \in Closures /\ failed.op = "closed"
      BY <2>1 DEF Closures
    <2>7. verdict # "error" => kept \in Reviews /\ kept.op \in {"ci_status", "closure"}
      BY <1>1, <2>3 DEF Reviews
    <2> HIDE DEF told, failed, kept
    <2>8. CASE Says(c, told)
      BY <2>5, <2>8, <2>4, CallStep
    <2>9. CASE Says(c, failed)
      BY <2>6, <2>9, <2>4, CallStep
    <2>10. CASE verdict # "error" /\ Says(c, kept)
      BY <2>7, <2>10, <2>4, CallStep
    <2> QED
      BY <2>8, <2>9, <2>10, <2>4
  <1>5. CASE ReadChecks(c)
    <2> DEFINE p == call[c].plan
               result == Closure(call[c].assessed, call[c].ci,
                                 ManualVerdict(plans[p].units, manual[p]))
               next == [op |-> "closed", plan |-> p, result |-> result]
    <2>1. result \in {"needs_attention", "needs_review", "ready_for_manual_review"}
      BY DEF Closure
    <2>2. p \in Plans
      BY <1>1 DEF Reviews
    <2>3. Says(c, next) /\ UNCHANGED tables
      BY <1>5 DEF ReadChecks
    <2> HIDE DEF p, result
    <2>4. next \in Closures /\ next.op = "closed"
      BY <2>1, <2>2 DEF Closures
    <2> HIDE DEF next
    <2> QED
      BY <2>3, <2>4, CallStep
  <1> QED
    BY <1>3, <1>4, <1>5

\* A client that ends its call has nothing left to justify.
LEMMA EndsCall ==
    ASSUME IInv, NEW c \in Clients, NEW next \in Refinements \cup {Idle}, Says(c, next)
    PROVE  /\ call' \in [Clients -> RefineCalls \cup CiReports \cup CheckReports \cup Reviews
                                        \cup Refinements \cup CiAnswers \cup Closures \cup {Idle}]
           /\ \A d \in Clients :
                 call'[d].op \in {"refine", "record_check", "record_ci"} => call'[d] = call[d]
  <1>1. next.op \in {"refined", "idle"}
    BY DEF Refinements, Idle
  <1> QED
    BY <1>1 DEF IInv, TypeOK, Says

\* A client has written a result and is done.
LEMMA IdleStep ==
    ASSUME IInv, NEW c \in Clients, Says(c, Idle), UNCHANGED <<plans, commands>>,
           ciResults' \in [Plans -> CiReport], manual' \in [Plans -> CheckReport],
           \A p \in Plans : DOMAIN manual'[p] # {} =>
               IsReady(p) /\ DOMAIN manual'[p] \subseteq Checks(plans[p].units)
    PROVE  IInv'
  <1>1. /\ call' \in [Clients -> RefineCalls \cup CiReports \cup CheckReports \cup Reviews
                                     \cup Refinements \cup CiAnswers \cup Closures \cup {Idle}]
        /\ \A e \in Clients :
              call'[e].op \in {"refine", "record_check", "record_ci"} => call'[e] = call[e]
    BY EndsCall
  <1>2. TypeOK'
    BY <1>1 DEF IInv, TypeOK
  <1>3. \A p : IsReady(p)' <=> IsReady(p)
    BY DEF IsReady
  <1>4. RefineReads' /\ ReportsHints'
    BY <1>1 DEF IInv, RefineReads, ReportsHints
  <1>5. ReportsNameChecks'
    BY <1>1, <1>3 DEF IInv, ReportsNameChecks
  <1>6. ResultsOfReady'
    BY <1>3 DEF ResultsOfReady
  <1>7. (\A p \in Plans : plans[p] # NoPlan => IsStored(plans[p]))'
    BY DEF IInv
  <1> QED
    BY <1>2, <1>4, <1>5, <1>6, <1>7 DEF IInv

LEMMA WritesKeepInv ==
    ASSUME IInv, NEW c \in Clients,
           RefineWrite(c) \/ RecordCiWrite(c) \/ RecordCheckWrite(c)
    PROVE  IInv'
  <1>0. TypeOK
    BY DEF IInv
  <1>1. CASE RefineWrite(c)
    <2> DEFINE p == call[c].plan
               d == call[c].decisions
               new == Finalized(plans[p], Selections(plans[p].points, d))
    <2>1. call[c] \in RefineCalls /\ p \in Plans /\ d \in Decisions
      BY <1>0, <1>1, CallKinds DEF RefineWrite, RefineCalls
    <2>2. /\ plans[p] # NoPlan
          /\ plans[p].points = call[c].read.points
          /\ plans[p].points # <<>>
          /\ IsSelection(plans[p].points, d)
      BY <1>1 DEF IInv, RefineReads, RefineWrite
    <2>3. PICK s \in Surfaces : PlanShape(plans[p], s)
      BY <2>1, <2>2 DEF IInv, IsStored
    <2>4. /\ PlanShape(new, s)
          /\ new.points = plans[p].points
          /\ new.status = "ready"
          /\ plans[p].status = "ready" => Checks(new.units) = Checks(plans[p].units)
      BY <2>1, <2>2, <2>3, Refining
    <2>5. new \in StoredPlan /\ new # NoPlan
      BY <2>4, StoredType, NoPlanAssumption
    <2>6. /\ plans' = [plans EXCEPT ![p] = new]
          /\ Says(c, Refined(p, d, TRUE))
          /\ UNCHANGED <<commands, ciResults, manual>>
      BY <1>1, <2>2 DEF RefineWrite
    <2> HIDE DEF p, d, new
    <2>7. Refined(p, d, TRUE) \in Refinements
      BY <2>1 DEF Refined, Refinements
    <2>8. /\ call' \in [Clients -> RefineCalls \cup CiReports \cup CheckReports \cup Reviews
                                       \cup Refinements \cup CiAnswers \cup Closures \cup {Idle}]
          /\ \A e \in Clients :
                call'[e].op \in {"refine", "record_check", "record_ci"} => call'[e] = call[e]
      BY <2>6, <2>7, EndsCall
    <2>9. plans \in [Plans -> StoredPlan \cup {NoPlan}]
      BY <1>0 DEF TypeOK
    <2>10. plans'[p] = new /\ \A q \in Plans \ {p} : plans'[q] = plans[q]
      BY <2>1, <2>6, <2>9
    <2>11. TypeOK'
      BY <1>0, <2>5, <2>6, <2>8 DEF TypeOK
    <2>12. \A q \in Plans : plans'[q] # NoPlan => IsStored(plans'[q])
      BY <2>4, <2>10 DEF IInv, IsStored
    <2>13. \A q \in Plans : IsReady(q) => IsReady(q)' /\ Checks(plans'[q].units) = Checks(plans[q].units)
      BY <2>4, <2>5, <2>10 DEF IsReady
    <2>14. \A e \in Clients : call'[e].op \in {"refine", "record_check"} => call[e].plan \in Plans
      BY <1>0, <2>8, CallKinds DEF RefineCalls, CheckReports
    <2>15. RefineReads'
      BY <2>4, <2>5, <2>8, <2>10, <2>14 DEF IInv, RefineReads
    <2>16. ReportsNameChecks'
      BY <2>8, <2>13, <2>14 DEF IInv, ReportsNameChecks
    <2>17. ResultsOfReady'
      BY <2>6, <2>13 DEF IInv, ResultsOfReady
    <2>18. ReportsHints'
      BY <2>8 DEF IInv, ReportsHints
    <2> QED
      BY <2>11, <2>12, <2>15, <2>16, <2>17, <2>18 DEF IInv
  <1>2. CASE RecordCiWrite(c)
    <2> DEFINE p == call[c].plan
               r == call[c].row
    <2>1. call[c] \in CiReports /\ p \in Plans /\ r \in Rows /\ call[c].status \in Results
      BY <1>0, <1>2, CallKinds DEF RecordCiWrite, CiReports
    <2>2. IsHintKind(r.text)
      BY <1>2 DEF IInv, ReportsHints, RecordCiWrite
    <2>3. <<r.path, r.line>> \in Locations /\ [text |-> r.text, status |-> call[c].status] \in CiRow
      BY <2>1, <2>2 DEF Locations, CiRow, Texts
    <2>4. ciResults[p] \in CiReport
      BY <1>0, <2>1 DEF TypeOK
    <2>5. With(ciResults[p], <<r.path, r.line>>, [text |-> r.text, status |-> call[c].status])
              \in CiReport
      BY <2>3, <2>4, WithCi
    <2>6. /\ ciResults' = [ciResults EXCEPT ![p] = With(@, <<r.path, r.line>>,
                               [text |-> r.text, status |-> call[c].status])]
          /\ Says(c, Idle)
          /\ UNCHANGED <<plans, commands, manual>>
      BY <1>2 DEF RecordCiWrite
    <2> HIDE DEF p, r
    <2>7. ciResults' \in [Plans -> CiReport]
      BY <1>0, <2>1, <2>5, <2>6 DEF TypeOK
    <2>8. manual' \in [Plans -> CheckReport]
      BY <1>0, <2>6 DEF TypeOK
    <2>9. \A q \in Plans : DOMAIN manual'[q] # {} =>
              IsReady(q) /\ DOMAIN manual'[q] \subseteq Checks(plans[q].units)
      BY <2>6 DEF IInv, ResultsOfReady
    <2> QED
      BY <2>6, <2>7, <2>8, <2>9, IdleStep
  <1>3. CASE RecordCheckWrite(c)
    <2> DEFINE p == call[c].plan
               k == call[c].check
               new == With(manual[p], k, call[c].status)
    <2>1. /\ call[c] \in CheckReports /\ p \in Plans /\ k \in PossibleChecks
          /\ call[c].status \in Results
      BY <1>0, <1>3, CallKinds DEF RecordCheckWrite, CheckReports
    <2>2. IsReady(p) /\ k \in Checks(plans[p].units)
      BY <1>3 DEF IInv, ReportsNameChecks, RecordCheckWrite
    <2>3. manual[p] \in CheckReport
      BY <1>0, <2>1 DEF TypeOK
    <2>4. new \in CheckReport /\ DOMAIN new = DOMAIN manual[p] \cup {k}
      BY <2>1, <2>3, WithCheck
    <2>5. /\ manual' = [manual EXCEPT ![p] = new]
          /\ Says(c, Idle)
          /\ UNCHANGED <<plans, commands, ciResults>>
      BY <1>3 DEF RecordCheckWrite
    <2> HIDE DEF p, k, new
    <2>6. manual' \in [Plans -> CheckReport]
      BY <1>0, <2>1, <2>4, <2>5 DEF TypeOK
    <2>7. \A q \in Plans : manual'[q] = IF q = p THEN new ELSE manual[q]
      BY <1>0, <2>5 DEF TypeOK
    <2>8. \A q \in Plans : DOMAIN manual'[q] # {} =>
              IsReady(q) /\ DOMAIN manual'[q] \subseteq Checks(plans[q].units)
      BY <2>2, <2>4, <2>7 DEF IInv, ResultsOfReady
    <2>9. ciResults' \in [Plans -> CiReport]
      BY <1>0, <2>5 DEF TypeOK
    <2> QED
      BY <2>5, <2>6, <2>8, <2>9, IdleStep
  <1> QED
    BY <1>1, <1>2, <1>3

LEMMA NextInv == IInv /\ [Next]_vars => IInv'
  <1> SUFFICES ASSUME IInv, [Next]_vars PROVE IInv'
    OBVIOUS
  <1>1. ASSUME NEW p \in Plans, NEW s \in Surfaces, PlanChange(p, s) PROVE IInv'
    <2>1. plans[p] = NoPlan /\ plans' = [plans EXCEPT ![p] = Planning(s)]
          /\ UNCHANGED <<commands, ciResults, manual, call>>
      BY <1>1 DEF PlanChange
    <2>2. Planning(s) \in StoredPlan /\ IsStored(Planning(s))
      BY PlanningType DEF IsStored, PlanShape
    <2>3. \A q \in Plans : plans'[q] = IF q = p THEN Planning(s) ELSE plans[q]
      BY <2>1 DEF IInv, TypeOK
    <2>4. \A q \in Plans : plans[q] # NoPlan => plans'[q] = plans[q]
      BY <2>1, <2>3
    <2>5. TypeOK'
      BY <2>1, <2>2 DEF IInv, TypeOK
    <2>6. (\A q \in Plans : plans[q] # NoPlan => IsStored(plans[q]))'
      BY <2>2, <2>3 DEF IInv
    <2>7. \A d \in Clients : call[d].op \in {"refine", "record_check"} => call[d].plan \in Plans
      BY CallKinds DEF IInv, RefineCalls, CheckReports
    <2>8. RefineReads' /\ ReportsHints'
      BY <2>1, <2>4, <2>7 DEF IInv, RefineReads, ReportsHints
    <2>9. \A q \in Plans : IsReady(q) => IsReady(q)' /\ plans'[q] = plans[q]
      BY <2>4 DEF IsReady
    <2>10. ReportsNameChecks'
      BY <2>1, <2>7, <2>9 DEF IInv, ReportsNameChecks
    <2>11. ResultsOfReady'
      BY <2>1, <2>9 DEF IInv, ResultsOfReady
    <2> QED
      BY <2>5, <2>6, <2>8, <2>10, <2>11 DEF IInv
  <1>2. ASSUME NEW table \in Tables, ReplaceCommands(table) PROVE IInv'
    BY <1>2 DEF ReplaceCommands, IInv, TypeOK, RefineReads, ReportsHints, ReportsNameChecks,
                ResultsOfReady, IsReady
  <1>3. ASSUME NEW c \in Clients, Step(c) PROVE IInv'
    <2>1. CASE RefineWrite(c) \/ RecordCiWrite(c) \/ RecordCheckWrite(c)
      BY <2>1, WritesKeepInv
    <2>2. CASE ReadCommands(c) \/ ReadResults(c) \/ ReadChecks(c)
      BY <2>2, ReviewsKeepInv
    <2>3. ASSUME NEW p \in Plans, NEW d \in Decisions, RefineAnswer(c, p, d) \/ RefineRead(c, p, d)
          PROVE  IInv'
      BY <2>3, ReadsKeepInv
    <2>4. ASSUME NEW p \in Plans, NEW r \in Rows, NEW s \in Results, RecordCiRead(c, p, r, s)
          PROVE  IInv'
      BY <2>4, ReadsKeepInv
    <2>5. ASSUME NEW p \in Plans, NEW k \in PossibleChecks, NEW s \in Results,
                 RecordCheckRead(c, p, k, s)
          PROVE  IInv'
      BY <2>5, ReadsKeepInv
    <2>6. ASSUME NEW p \in Plans, AskCi(c, p) PROVE IInv'
      BY <2>6, ReadsKeepInv
    <2>7. ASSUME NEW p \in Plans, NEW diff, NEW contracts, Review(c, p, diff, contracts)
          PROVE  IInv'
      BY <2>7, ReadsKeepInv
    <2> QED
      BY <1>3, <2>1, <2>2, <2>3, <2>4, <2>5, <2>6, <2>7 DEF Step
  <1>4. CASE UNCHANGED vars
    BY <1>4 DEF vars, IInv, TypeOK, RefineReads, ReportsHints, ReportsNameChecks,
                ResultsOfReady, IsReady
  <1> QED
    BY <1>1, <1>2, <1>3, <1>4 DEF Next

(***************************************************************************)
(* Theorems                                                                *)
(***************************************************************************)

LEMMA Invariant == Spec => []IInv
  BY InitInv, NextInv, PTL DEF Spec

\* Type correctness: plans, results and calls keep their form, and no result is kept
\* of a command that is neither a test nor a build.
THEOREM TypeCorrect == Spec => []TypeOK
  <1>1. IInv => TypeOK
    BY DEF IInv
  <1> QED
    BY <1>1, Invariant, PTL

\* Manual results name checks of the plan as it is now, although they were validated
\* against an earlier reading and other calls may have refined the plan meanwhile: the
\* selected option changes no unit's id and no number of checks.
THEOREM ResultsAreOfChecks == Spec => []ResultsNameChecks
  <1>1. IInv => ResultsNameChecks
    BY DEF IInv, ResultsOfReady, ResultsNameChecks, IsReady
  <1> QED
    BY <1>1, Invariant, PTL

\* Status, selections and units of every plan agree, whatever calls overlap.
THEOREM PlansAlwaysAgree == Spec => []PlansAgree
  <1>1. ASSUME IInv PROVE PlansAgree
    <2> SUFFICES ASSUME NEW p \in Plans, plans[p] # NoPlan
                 PROVE  LET plan == plans[p]
                        IN  /\ plan.status = "needs_decision"
                                   <=> plan.points # <<>> /\ plan.selected = <<>>
                            /\ plan.selected # <<>> =>
                                 /\ [i \in 1..Len(plan.selected) |-> plan.selected[i].id]
                                      = [i \in 1..Len(plan.points) |-> DecisionId(plan.points[i])]
                                 /\ \A i \in 1..Len(plan.points) :
                                        /\ plan.units[i].service = plan.points[i].producer
                                        /\ plan.units[i].action = "validate"
                                               <=> plan.selected[i].option = "preserve"
      BY DEF PlansAgree
    <2>1. PICK s \in Surfaces : PlanShape(plans[p], s)
      BY <1>1 DEF IInv, IsStored
    <2>2. CASE plans[p] = Planning(s)
      BY <2>2, PlanningType
    <2>3. ASSUME NEW d \in Decisions, DecisionPoints(s) # <<>>, IsSelection(DecisionPoints(s), d),
                 plans[p] = Finalized(Planning(s), Selections(DecisionPoints(s), d))
          PROVE  LET plan == plans[p]
                 IN  /\ plan.status = "ready"
                     /\ plan.points # <<>> /\ plan.selected # <<>>
                     /\ [i \in 1..Len(plan.selected) |-> plan.selected[i].id]
                            = [i \in 1..Len(plan.points) |-> DecisionId(plan.points[i])]
                     /\ \A i \in 1..Len(plan.points) :
                            /\ plan.units[i].service = plan.points[i].producer
                            /\ plan.units[i].action = "validate"
                                   <=> plan.selected[i].option = "preserve"
      <3> DEFINE points == DecisionPoints(s)
                 selected == Selections(points, d)
                 units == ChangeUnits(points, selected)
      <3>1. /\ plans[p].status = "ready"
            /\ plans[p].points = points
            /\ plans[p].selected = selected
            /\ plans[p].units = units
        BY <2>3 DEF Finalized, Planning
      <3>2. /\ selected \in Seq(Selection) /\ Len(selected) = Len(points)
            /\ \A i \in 1..Len(points) : selected[i].id = DecisionId(points[i])
        BY <2>3, SelectionsType
      <3>3. points # <<>> /\ points \in Seq(BlockingContracts(s))
        BY <2>3, PointsType
      <3>4. \A i \in 1..Len(points) :
                units[i] = EventUnit(PointOf(points, DecisionId(points[i])), selected[i].option)
        BY <2>3, ChangeUnitsType
      <3>5. \A i \in 1..Len(points) :
                PointOf(points, DecisionId(points[i])).producer = points[i].producer
        BY PointOfType DEF DecisionId
      <3> HIDE DEF points, selected, units
      <3>6. \A i \in 1..Len(points) :
                /\ units[i].service = points[i].producer
                /\ units[i].action = "validate" <=> selected[i].option = "preserve"
        <4> TAKE i \in 1..Len(points)
        <4> DEFINE point == PointOf(points, DecisionId(points[i]))
        <4>1. units[i] = EventUnit(point, selected[i].option) /\ point.producer = points[i].producer
          BY <3>4, <3>5
        <4> HIDE DEF point
        <4> QED
          BY <4>1 DEF EventUnit
      <3>7. selected # <<>>
        BY <3>2, <3>3
      <3>8. [i \in 1..Len(selected) |-> selected[i].id]
                = [i \in 1..Len(points) |-> DecisionId(points[i])]
        BY <3>2
      <3> QED
        BY <3>1, <3>3, <3>6, <3>7, <3>8
    <2> QED
      BY <2>1, <2>2, <2>3 DEF PlanShape
  <1> QED
    BY <1>1, Invariant, PTL

\* A review is answered where it reads the results or the checks.
LEMMA AnsweredByReading ==
    ASSUME IInv, Next, NEW c \in Clients, call'[c] # call[c],
           call'[c].op \in {"closed", "ci_told"}
    PROVE  (ReadResults(c) \/ ReadChecks(c)) /\ call[c] \in Reviews
  <1>0. TypeOK
    BY DEF IInv
  <1>1. PICK d \in Clients : Step(d)
    BY DEF Next, PlanChange, ReplaceCommands
  <1>2. \A next : Says(d, next) => d = c /\ next = call'[c]
    BY <1>0 DEF TypeOK, Says
  <1>3. ASSUME NEW p \in Plans, NEW x \in Decisions, RefineAnswer(d, p, x) PROVE FALSE
    BY <1>2, <1>3 DEF RefineAnswer, Refined
  <1>4. ASSUME NEW p \in Plans, NEW x \in Decisions, RefineRead(d, p, x) PROVE FALSE
    BY <1>2, <1>4 DEF RefineRead
  <1>5. CASE RefineWrite(d)
    BY <1>2, <1>5 DEF RefineWrite, Refined
  <1>6. ASSUME NEW p \in Plans, NEW r \in Rows, NEW s \in Results, RecordCiRead(d, p, r, s)
        PROVE  FALSE
    BY <1>2, <1>6 DEF RecordCiRead
  <1>7. ASSUME RecordCiWrite(d) \/ RecordCheckWrite(d) PROVE FALSE
    BY <1>2, <1>7 DEF RecordCiWrite, RecordCheckWrite, Idle
  <1>8. ASSUME NEW p \in Plans, NEW k \in PossibleChecks, NEW s \in Results,
               RecordCheckRead(d, p, k, s)
        PROVE  FALSE
    BY <1>2, <1>8 DEF RecordCheckRead
  <1>9. ASSUME NEW p \in Plans, AskCi(d, p) PROVE FALSE
    BY <1>2, <1>9 DEF AskCi, Reading
  <1>10. ASSUME NEW p \in Plans, NEW diff, NEW contracts, Review(d, p, diff, contracts) PROVE FALSE
    BY <1>2, <1>10 DEF Review, Reading
  <1>11. ASSUME ReadCommands(d) PROVE FALSE
    <2>1. call[d] \in Reviews /\ call[d].op \in {"ci_status", "closure"}
      BY <1>0, <1>11, CallKinds DEF ReadCommands
    <2>2. \A v : [call[d] EXCEPT !.seen = v].op = call[d].op
      BY <2>1 DEF Reviews
    <2> QED
      BY <1>2, <1>11, <2>1, <2>2 DEF ReadCommands
  <1>12. CASE ReadResults(d)
    <2>1. \E next : Says(d, next)
      BY <1>12 DEF ReadResults
    <2>2. d = c
      BY <1>2, <2>1
    <2> QED
      BY <1>0, <1>12, <2>2, CallKinds DEF ReadResults
  <1>13. CASE ReadChecks(d)
    <2>1. d = c
      BY <1>2, <1>13 DEF ReadChecks
    <2> QED
      BY <1>0, <1>13, <2>1, CallKinds DEF ReadChecks
  <1> QED
    BY <1>1, <1>3, <1>4, <1>5, <1>6, <1>7, <1>8, <1>9, <1>10, <1>11, <1>12, <1>13 DEF Step

\* The CI status that follows from what a review has read.
CiTold(review) ==
    LET seen == review.seen
    IN  [op |-> "ci_told", plan |-> review.plan, hints |-> Hints(seen[1]),
         result |-> CiVerdict(seen[1], seen[2], seen[3], ciResults[review.plan])]

\* What a reading of the results says: the CI status, an error, or to go on.
LEMMA ResultsAnswer ==
    ASSUME TypeOK, NEW c \in Clients, ReadResults(c), call[c] \in Reviews,
           call'[c].op \in {"closed", "ci_told"}
    PROVE  \/ call'[c] = CiTold(call[c])
           \/ call'[c] = [op |-> "closed", plan |-> call[c].plan, result |-> "error"]
  <1> DEFINE seen == call[c].seen
             verdict == CiVerdict(seen[1], seen[2], seen[3], ciResults[call[c].plan])
  <1>1. \A next : Says(c, next) => call'[c] = next
    BY DEF TypeOK, Says
  <1>2. [call[c] EXCEPT !.ci = verdict].op = call[c].op
    BY DEF Reviews
  <1>3. CASE call[c].op = "ci_status"
    <2>1. Says(c, [op |-> "ci_told", plan |-> call[c].plan, hints |-> Hints(seen[1]),
                   result |-> verdict])
      BY <1>3 DEF ReadResults
    <2> QED
      BY <1>1, <2>1 DEF CiTold
  <1>4. CASE call[c].op = "closure" /\ verdict = "error"
    <2>1. Says(c, [op |-> "closed", plan |-> call[c].plan, result |-> "error"])
      BY <1>4 DEF ReadResults
    <2> QED
      BY <1>1, <2>1
  <1>5. CASE call[c].op = "closure" /\ verdict # "error"
    <2>1. Says(c, [call[c] EXCEPT !.ci = verdict])
      BY <1>5 DEF ReadResults
    <2> QED
      BY <1>1, <1>2, <1>5, <2>1
  <1>6. call[c].op \in {"ci_status", "closure"}
    BY DEF ReadResults
  <1> QED
    BY <1>3, <1>4, <1>5, <1>6

\* A closure is answered by reading the checks, or with an error.
LEMMA ClosedByReadChecks ==
    ASSUME IInv, Next, NEW c \in Clients, call'[c] # call[c],
           call'[c].op = "closed", call'[c].result # "error"
    PROVE  ReadChecks(c) /\ call[c] \in Reviews
  <1>1. (ReadResults(c) \/ ReadChecks(c)) /\ call[c] \in Reviews
    BY AnsweredByReading
  <1>2. CASE ReadResults(c)
    <2>1. \/ call'[c] = CiTold(call[c])
          \/ call'[c] = [op |-> "closed", plan |-> call[c].plan, result |-> "error"]
      BY <1>1, <1>2, ResultsAnswer DEF IInv
    <2>2. CiTold(call[c]).op = "ci_told"
      BY DEF CiTold
    <2> QED
      BY <2>1, <2>2
  <1> QED
    BY <1>1, <1>2

\* The CI status is told by reading the results.
LEMMA ToldByReadResults ==
    ASSUME IInv, Next, NEW c \in Clients, call'[c] # call[c], call'[c].op = "ci_told"
    PROVE  /\ call[c] \in Reviews /\ Len(call[c].seen) = 3
           /\ call'[c] = CiTold(call[c])
  <1>0. TypeOK
    BY DEF IInv
  <1>1. (ReadResults(c) \/ ReadChecks(c)) /\ call[c] \in Reviews
    BY AnsweredByReading
  <1>2. CASE ReadChecks(c)
    BY <1>0, <1>2 DEF ReadChecks, Says, TypeOK
  <1>3. CASE ReadResults(c)
    <2>1. Len(call[c].seen) = 3
      BY <1>3 DEF ReadResults
    <2>2. \/ call'[c] = CiTold(call[c])
          \/ call'[c] = [op |-> "closed", plan |-> call[c].plan, result |-> "error"]
      BY <1>0, <1>1, <1>3, ResultsAnswer
    <2> QED
      BY <1>1, <2>1, <2>2
  <1> QED
    BY <1>1, <1>2, <1>3

\* A closure that does not ask for attention is given when no manual result of the
\* plan is a failure, and one that is ready when every check has a result: none is of
\* a check the plan does not have, where the closure would not look.
THEOREM ClosuresSeeChecks == Spec => ClosureSeesChecks
  <1> DEFINE Sees(c) ==
          LET p == call'[c].plan
              statuses == {manual[p][k] : k \in DOMAIN manual[p]}
          IN  /\ call'[c].result # "needs_attention" => "failed" \notin statuses
              /\ call'[c].result = "ready_for_manual_review"
                     => Checks(plans[p].units) \subseteq DOMAIN manual[p]
  <1>1. ASSUME IInv, [Next]_vars, NEW c \in Clients, call'[c] # call[c],
               call'[c].op = "closed", call'[c].result # "error"
        PROVE  Sees(c)
    <2> DEFINE p == call[c].plan
               units == plans[p].units
               verdict == ManualVerdict(units, manual[p])
               result == Closure(call[c].assessed, call[c].ci, verdict)
    <2>1. ReadChecks(c) /\ call[c] \in Reviews
      BY <1>1, ClosedByReadChecks DEF vars
    <2>2. p \in Plans
      BY <2>1 DEF Reviews
    <2>3. call'[c] = [op |-> "closed", plan |-> p, result |-> result]
      BY <1>1, <2>1 DEF IInv, TypeOK, ReadChecks, Says
    <2>4. call'[c].plan = p /\ call'[c].result = result
      BY <2>3
    <2>5. DOMAIN manual[p] \subseteq Checks(units)
      BY <1>1, <2>2 DEF IInv, ResultsOfReady
    <2>6. result # "needs_attention" => verdict # "failed"
      BY DEF Closure
    <2>7. result = "ready_for_manual_review" => verdict # "pending" /\ verdict # "failed"
      BY DEF Closure
    <2>8. ASSUME NEW k \in DOMAIN manual[p], manual[p][k] = "failed" PROVE verdict = "failed"
      BY <2>5, <2>8 DEF ManualVerdict, Aggregate, Reported
    <2>9. ASSUME NEW k \in Checks(units), k \notin DOMAIN manual[p]
          PROVE  verdict \in {"failed", "pending"}
      BY <2>9 DEF ManualVerdict, Aggregate, Reported
    <2> HIDE DEF p, units, verdict, result
    <2> QED
      BY <2>4, <2>6, <2>7, <2>8, <2>9 DEF units
  <1>2. IInv /\ [Next]_vars => [\A c \in Clients :
            call'[c] # call[c] /\ call'[c].op = "closed" /\ call'[c].result # "error"
                => Sees(c)]_vars
    BY <1>1
  <1> QED
    BY <1>2, Invariant, PTL DEF Spec, ClosureSeesChecks

(***************************************************************************)
(* Commands that have passed                                               *)
(***************************************************************************)

\* Among all workflows that are indexed, a line keeps its command.
LinesKeepCommands ==
    \A r, s \in Rows : r.path = s.path /\ r.line = s.line => r.text = s.text

\* A result is of a command that was indexed where the result is found.
ResultsLocated ==
    \A p \in Plans : \A k \in DOMAIN ciResults[p] :
        \E r \in Rows : k = <<r.path, r.line>> /\ ciResults[p][k].text = r.text

LEMMA CiResultsStep ==
    ASSUME IInv, [Next]_vars
    PROVE  \/ ciResults' = ciResults
           \/ \E c \in Clients : RecordCiWrite(c)
  <1>1. CASE UNCHANGED vars
    BY <1>1 DEF vars
  <1>2. ASSUME NEW p \in Plans, NEW s \in Surfaces, PlanChange(p, s) PROVE ciResults' = ciResults
    BY <1>2 DEF PlanChange
  <1>3. ASSUME NEW table \in Tables, ReplaceCommands(table) PROVE ciResults' = ciResults
    BY <1>3 DEF ReplaceCommands
  <1>4. ASSUME NEW c \in Clients, Step(c) PROVE ciResults' = ciResults \/ RecordCiWrite(c)
    BY <1>4 DEF Step, RefineAnswer, RefineRead, RefineWrite, RecordCiRead, RecordCheckRead,
                RecordCheckWrite, AskCi, Review, ReadCommands, ReadResults, ReadChecks, tables
  <1> QED
    BY <1>1, <1>2, <1>3, <1>4 DEF Next

LEMMA LocatedStep == IInv /\ ResultsLocated /\ [Next]_vars => ResultsLocated'
  <1> SUFFICES ASSUME IInv, ResultsLocated, [Next]_vars PROVE ResultsLocated'
    OBVIOUS
  <1>1. CASE ciResults' = ciResults
    BY <1>1 DEF ResultsLocated
  <1>2. ASSUME NEW c \in Clients, RecordCiWrite(c) PROVE ResultsLocated'
    <2> DEFINE p == call[c].plan
               r == call[c].row
               row == [text |-> r.text, status |-> call[c].status]
               new == With(ciResults[p], <<r.path, r.line>>, row)
    <2>1. p \in Plans /\ r \in Rows
      BY <1>2, CallKinds DEF IInv, RecordCiWrite, CiReports
    <2>2. ciResults' = [ciResults EXCEPT ![p] = new]
      BY <1>2 DEF RecordCiWrite
    <2>3. \A k \in DOMAIN new : \E x \in Rows : k = <<x.path, x.line>> /\ new[k].text = x.text
      BY <2>1 DEF With, ResultsLocated
    <2> HIDE DEF p, r, new
    <2>4. \A q \in Plans : ciResults'[q] = IF q = p THEN new ELSE ciResults[q]
      BY <2>2 DEF IInv, TypeOK
    <2> QED
      BY <2>3, <2>4 DEF ResultsLocated
  <1> QED
    BY <1>1, <1>2, CiResultsStep

LEMMA Located == Spec => [](IInv /\ ResultsLocated)
  <1>1. Init => ResultsLocated
    BY DEF Init, ResultsLocated
  <1> QED
    BY <1>1, InitInv, NextInv, LocatedStep, PTL DEF Spec

\* The first line of some rows is the line of one of them.
LEMMA FirstLineOfRow ==
    ASSUME NEW rows, rows \subseteq Rows, rows # {}
    PROVE  \E r \in rows : FirstLine(rows) = r.line
  <1> DEFINE lines == {r.line : r \in rows}
             R == OpToRel(<, Nat)
  <1>1. lines \in SUBSET Nat /\ lines # {}
    BY LinesAssumption DEF Rows
  <1>2. IsWellFoundedOn(R, Nat)
    BY NatLessThanWellFounded
  <1>3. \A d, e \in Nat : d < e => <<d, e>> \in R
    BY DEF OpToRel
  <1> HIDE DEF R
  <1>4. PICK m \in lines : \A d \in lines : ~ (<<d, m>> \in R)
    BY <1>1, <1>2, WFMin
  <1>5. \A d \in lines : m <= d
    <2> TAKE d \in lines
    <2>1. d \in Nat /\ m \in Nat /\ ~(d < m)
      BY <1>1, <1>3, <1>4
    <2> QED
      BY <2>1
  <1>6. \E r \in rows : \A s \in rows : r.line <= s.line
    BY <1>5
  <1> QED
    BY <1>6 DEF FirstLine

\* Where a line keeps its command, a hint that counts as passed has a result of its own.
LEMMA PassedHint ==
    ASSUME LinesKeepCommands, IInv, ResultsLocated, NEW p \in Plans, NEW table \in Tables, NEW h,
           HintStatus(table, ciResults[p], h) = "passed"
    PROVE  \E k \in DOMAIN ciResults[p] : ciResults[p][k] = [text |-> h.text, status |-> "passed"]
  <1> DEFINE rows == SameCommand(table, h)
             at == <<h.path, FirstLine(rows)>>
             results == ciResults[p]
  <1>1. rows # {} /\ at \in DOMAIN results /\ results[at].status = "passed"
    BY DEF HintStatus
  <1>2. rows \subseteq Rows
    BY DEF SameCommand, Rows
  <1>3. PICK r \in rows : FirstLine(rows) = r.line
    BY <1>1, <1>2, FirstLineOfRow
  <1>4. r \in Rows /\ r.path = h.path /\ r.text = h.text
    BY <1>2 DEF SameCommand
  <1>5. PICK x \in Rows : at = <<x.path, x.line>> /\ results[at].text = x.text
    BY <1>1 DEF ResultsLocated
  <1>6. x.text = h.text
    BY <1>3, <1>4, <1>5 DEF LinesKeepCommands
  <1>7. results[at] \in CiRow
    BY <1>1 DEF IInv, TypeOK, CiReport
  <1>8. results[at] = [text |-> h.text, status |-> "passed"]
    BY <1>1, <1>5, <1>6, <1>7 DEF CiRow
  <1> QED
    BY <1>1, <1>8

\* Where a line keeps its command: when the CI validation is told to have passed, a
\* result of each command it names was reported, and it passed, although the commands
\* are read three times while an index may replace them
\* (describe_change_validation_status).
THEOREM PassedCommandsWereRun ==
    ASSUME LinesKeepCommands
    PROVE  Spec => PassedWasRun
  <1> DEFINE Ran(c) ==
          \A h \in call'[c].hints : \E k \in DOMAIN ciResults[call'[c].plan] :
              ciResults[call'[c].plan][k] = [text |-> h.text, status |-> "passed"]
  <1>1. ASSUME IInv, ResultsLocated, [Next]_vars, NEW c \in Clients, call'[c] # call[c],
               call'[c].op = "ci_told", call'[c].result = "reported_passed"
        PROVE  Ran(c)
    <2> DEFINE seen == call[c].seen
               p == call[c].plan
               verdict == CiVerdict(seen[1], seen[2], seen[3], ciResults[p])
               statuses == {HintStatus(seen[3], ciResults[p], h) : h \in Hints(seen[1])}
    <2>1. /\ call[c] \in Reviews /\ Len(seen) = 3
          /\ call'[c] = [op |-> "ci_told", plan |-> p, hints |-> Hints(seen[1]),
                         result |-> verdict]
      BY <1>1, ToldByReadResults DEF vars, CiTold
    <2>2. p \in Plans /\ seen \in Seq(Tables) /\ seen[3] \in Tables
      BY <2>1 DEF Reviews
    <2>3. verdict = "reported_passed"
      BY <1>1, <2>1
    <2>4. Aggregate(statuses) = "reported_passed"
      BY <2>3 DEF CiVerdict
    <2>5. "failed" \notin statuses /\ "pending" \notin statuses
      BY <2>4 DEF Aggregate
    <2>6. ASSUME NEW h \in Hints(seen[1])
          PROVE  HintStatus(seen[3], ciResults[p], h) = "passed"
      <3>1. HintStatus(seen[3], ciResults[p], h) \in {"passed", "failed", "pending"}
        <4> DEFINE at == <<h.path, FirstLine(SameCommand(seen[3], h))>>
        <4>1. at \in DOMAIN ciResults[p] => ciResults[p][at] \in CiRow
          BY <1>1, <2>2 DEF IInv, TypeOK, CiReport
        <4> QED
          BY <4>1 DEF HintStatus, CiRow, Results
      <3> QED
        BY <2>5, <3>1
    <2>7. call'[c].hints = Hints(seen[1]) /\ call'[c].plan = p
      BY <2>1
    <2> HIDE DEF seen, p
    <2> QED
      BY <1>1, <2>2, <2>6, <2>7, PassedHint
  <1>2. IInv /\ ResultsLocated /\ [Next]_vars => [\A c \in Clients :
            call'[c] # call[c] /\ call'[c].op = "ci_told" /\ call'[c].result = "reported_passed"
                => Ran(c)]_vars
    BY <1>1
  <1> QED
    BY <1>2, Located, PTL DEF Spec, PassedWasRun

==============================================================================
