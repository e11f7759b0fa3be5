--------------------------- MODULE PlanReviewsProofs ---------------------------
(***************************************************************************)
(* What the detectors report and the derive functions ask, for any         *)
(* services, rows and files.  The invariant is about the rows: they have   *)
(* the columns of a scan, and those of a checkout agree with the files of  *)
(* its last scan, whatever services have gone since.  The properties       *)
(* follow from it without another look at the steps.                       *)
(***************************************************************************)
EXTENDS PlanReviews, ServiceGraph, FiniteSetTheorems, SequenceTheorems, WellFoundedInduction, TLAPS

FactsInv ==
    /\ Indexed \subseteq ServiceIds
    /\ IsFiniteSet(Indexed)
    /\ \A s \in Indexed : AreRows(facts[s])

RelationsInv ==
    \A s \in Indexed : /\ IsFiniteSet(facts[s].relations)
                       /\ \A r \in facts[s].relations : r.to \in Indexed

AttributedRows(rows) == \A x \in rows : x = [service |-> x.service, row |-> x.row]

Contents(rows) == {x.row : x \in rows}

ResourcesIn(files) == UNION {ParseResources(f) : f \in files}

BindingsIn(files) == UNION {ParseBindings(f) : f \in files}

ScannedRows(files, rows) ==
    /\ rows = [table \in DOMAIN NoIac |-> rows[table]]
    /\ \A table \in DOMAIN NoIac : AttributedRows(rows[table])
    /\ Contents(rows.resources) = ResourcesIn(files)
    /\ Contents(rows.bindings) = BindingsIn(files)
    /\ rows.importUnknowns = Undeclared(files, rows.imports)
    /\ rows.mismatches = KeyMismatches(files, rows.bindings)
    /\ rows.sourceUnknowns = Undeclared(files, rows.bindings)

IacInv ==
    /\ DOMAIN tree = Repositories /\ DOMAIN iac = Repositories
    /\ \A r \in Repositories : AreFiles(tree[r]) /\ ScannedRows(tree[r], iac[r])

ReviewInv == FactsInv /\ RelationsInv /\ IacInv

-----------------------------------------------------------------------------
(* The rows of a service keep the shape of a scan.                         *)

LEMMA RelatedRows ==
    ASSUME NEW rows, AreRows(rows), NEW found
    PROVE  AreRows([rows EXCEPT !.relations = found])
<1> DEFINE new == [rows EXCEPT !.relations = found]
<1>1. "relations" \in DOMAIN rows
  BY DEF AreRows, NoRows
<1>2. DOMAIN new = DOMAIN NoRows
  BY DEF AreRows
<1>3. new = [table \in DOMAIN NoRows |-> new[table]]
  BY <1>2
<1>4. new.entries = rows.entries /\ new.edges = rows.edges
      /\ new.calls = rows.calls /\ new.cloud = rows.cloud /\ new.stored = rows.stored
  BY <1>2 DEF NoRows
<1> QED BY <1>3, <1>4 DEF AreRows

LEMMA FactsStep ==
    ASSUME FactsInv, ReviewNext
    PROVE  FactsInv'
<1> USE DEF Indexed
<1>1. ASSUME NEW s \in ServiceIds, ReplaceAnalysis(s)
      PROVE  FactsInv'
  <2>1. PICK rows \in AnalysesOf[s] :
            facts' = [t \in Indexed \cup {s} |->
                         IF t # s THEN facts[t]
                         ELSE [rows EXCEPT !.relations =
                                   IF s \in Indexed THEN facts[s].relations ELSE {}]]
    BY <1>1 DEF ReplaceAnalysis
  <2>2. Indexed' = Indexed \cup {s}
    BY <2>1
  <2>3. AreRows([rows EXCEPT !.relations = IF s \in Indexed THEN facts[s].relations ELSE {}])
    BY AnalysesAssumption, RelatedRows
  <2>4. \A t \in Indexed' : AreRows(facts'[t])
    BY <2>1, <2>2, <2>3 DEF FactsInv
  <2>5. IsFiniteSet(Indexed \cup {s})
    BY FS_AddElement DEF FactsInv
  <2> QED BY <2>2, <2>4, <2>5 DEF FactsInv, AreRows
<1>2. ASSUME NEW s \in ServiceIds, ReplaceRelations(s)
      PROVE  FactsInv'
  <2>1. PICK found \in RelationsOf[s] :
            facts' = [facts EXCEPT ![s].relations = {r \in found : r.to \in Indexed}]
    BY <1>2 DEF ReplaceRelations
  <2>2. Indexed' = Indexed
    BY <2>1
  <2>3. \A t \in Indexed' : AreRows(facts'[t])
    BY <2>1, <2>2, RelatedRows DEF FactsInv
  <2> QED BY <2>2, <2>3 DEF FactsInv, AreRows
<1>3. ASSUME NEW gone, DeleteServices(gone)
      PROVE  FactsInv'
  <2>1. Indexed' = Indexed \ gone
    BY <1>3 DEF DeleteServices
  <2>2. \A t \in Indexed' : AreRows(facts'[t])
    BY <1>3, <2>1, RelatedRows DEF DeleteServices, FactsInv
  <2>3. IsFiniteSet(Indexed \ gone)
    BY FS_Subset DEF FactsInv
  <2> QED BY <2>1, <2>2, <2>3 DEF FactsInv, AreRows
<1>4. CASE facts' = facts
  BY <1>4 DEF FactsInv, AreRows
<1> QED
  BY <1>1, <1>2, <1>3, <1>4
     DEF ReviewNext, ScanRepository, RemoveWithIac, DeleteWithIac, DeleteServicesNotIn,
         RemoveRepository, iacVars

(* Relations lead to indexed services: a reconciliation stores no others and *)
(* a deletion takes the targets away.                                       *)
LEMMA RelationsStep ==
    ASSUME FactsInv, RelationsInv, ReviewNext
    PROVE  RelationsInv'
<1>1. ASSUME NEW s \in ServiceIds, ReplaceAnalysis(s)
      PROVE  RelationsInv'
  <2>1. PICK rows \in AnalysesOf[s] :
            facts' = [t \in Indexed \cup {s} |->
                         IF t # s THEN facts[t]
                         ELSE [rows EXCEPT !.relations =
                                   IF s \in Indexed THEN facts[s].relations ELSE {}]]
    BY <1>1 DEF ReplaceAnalysis
  <2>2. Indexed' = Indexed \cup {s}
    BY <2>1 DEF Indexed
  <2>3. "relations" \in DOMAIN rows
    BY AnalysesAssumption DEF AreRows, NoRows
  <2>4. facts'[s].relations = IF s \in Indexed THEN facts[s].relations ELSE {}
    BY <2>1, <2>3
  <2>5. \A t \in Indexed : t # s => facts'[t].relations = facts[t].relations
    BY <2>1
  <2>6. IsFiniteSet({})
    BY FS_EmptySet
  <2> QED BY <2>2, <2>4, <2>5, <2>6 DEF RelationsInv
<1>2. ASSUME NEW s \in ServiceIds, ReplaceRelations(s)
      PROVE  RelationsInv'
  <2>1. PICK found \in RelationsOf[s] :
            facts' = [facts EXCEPT ![s].relations = {r \in found : r.to \in Indexed}]
    BY <1>2 DEF ReplaceRelations
  <2>2. Indexed' = Indexed /\ s \in Indexed
    BY <1>2, <2>1 DEF ReplaceRelations, Indexed
  <2>3. "relations" \in DOMAIN facts[s]
    BY <2>2 DEF FactsInv, AreRows, NoRows
  <2>4. facts'[s].relations = {r \in found : r.to \in Indexed}
    BY <2>1, <2>2, <2>3 DEF Indexed
  <2>5. IsFiniteSet({r \in found : r.to \in Indexed})
    <3>1. IsFiniteSet(found)
      BY RelationsAssumption
    <3> QED BY <3>1, FS_Subset
  <2>6. \A t \in Indexed : t # s => facts'[t].relations = facts[t].relations
    BY <2>1 DEF Indexed
  <2> QED BY <2>2, <2>4, <2>5, <2>6 DEF RelationsInv
<1>3. ASSUME NEW gone, DeleteServices(gone)
      PROVE  RelationsInv'
  <2>1. Indexed' = Indexed \ gone
    BY <1>3 DEF DeleteServices, Indexed
  <2>2. ASSUME NEW t \in Indexed'
        PROVE  IsFiniteSet(facts'[t].relations) /\ \A r \in facts'[t].relations : r.to \in Indexed'
    <3>1. t \in Indexed /\ "relations" \in DOMAIN facts[t]
      BY <2>1, <2>2 DEF FactsInv, AreRows, NoRows
    <3>2. facts'[t].relations = {r \in facts[t].relations : r.to \notin gone}
      BY <1>3, <2>1, <2>2, <3>1 DEF DeleteServices
    <3>3. IsFiniteSet(facts'[t].relations)
      BY <3>1, <3>2, FS_Subset DEF RelationsInv
    <3> QED BY <2>1, <3>1, <3>2, <3>3 DEF RelationsInv
  <2> QED BY <2>2 DEF RelationsInv
<1>4. CASE facts' = facts
  BY <1>4 DEF RelationsInv, Indexed
<1> QED
  BY <1>1, <1>2, <1>3, <1>4
     DEF ReviewNext, ScanRepository, RemoveWithIac, DeleteWithIac, DeleteServicesNotIn,
         RemoveRepository, iacVars

-----------------------------------------------------------------------------
(* The rows of a checkout agree with its files after a scan, and go on to   *)
(* do so when services are deleted: only their attribution is taken away.  *)

LEMMA AttributedAre ==
    ASSUME NEW r, NEW files, NEW RowsIn, NEW rows,
           \A x : x \in rows <=>
               \E f \in files : \E row \in RowsIn[f] :
                   x = [service |-> MatchingService(r, f.place), row |-> row]
    PROVE  /\ AttributedRows(rows)
           /\ \A row : row \in Contents(rows) <=> \E f \in files : row \in RowsIn[f]
<1>1. AttributedRows(rows)
  BY DEF AttributedRows
<1>2. ASSUME NEW f \in files, NEW row \in RowsIn[f]
      PROVE  row \in Contents(rows)
  <2> DEFINE x == [service |-> MatchingService(r, f.place), row |-> row]
  <2>1. x \in rows /\ x.row = row
    OBVIOUS
  <2> QED BY <2>1 DEF Contents
<1>3. ASSUME NEW row \in Contents(rows)
      PROVE  \E f \in files : row \in RowsIn[f]
  BY DEF Contents
<1> QED BY <1>1, <1>2, <1>3

LEMMA ScansAgree ==
    ASSUME NEW r, NEW files
    PROVE  ScannedRows(files, ScanRepositoryFacts(r, files))
<1> DEFINE
      bindings == Attributed(r, files, ParseBindings)
      imports == Attributed(r, files, ParseImports)
      resources == Attributed(r, files, ParseResources)
      rows == ScanRepositoryFacts(r, files)
<1>1. rows = [resources |-> resources, bindings |-> bindings, imports |-> imports,
              importUnknowns |-> Undeclared(files, imports),
              mismatches |-> KeyMismatches(files, bindings),
              sourceUnknowns |-> Undeclared(files, bindings)]
  BY DEF ScanRepositoryFacts
<1>2. AttributedRows(bindings) /\ Contents(bindings) = BindingsIn(files)
  <2> DEFINE F == [f \in files |-> ParseBindings(f)]
  <2>1. \A x : x \in bindings <=>
            \E f \in files : \E row \in F[f] :
                x = [service |-> MatchingService(r, f.place), row |-> row]
    BY DEF Attributed
  <2>2. \A row : row \in BindingsIn(files) <=> \E f \in files : row \in F[f]
    BY DEF BindingsIn
  <2> HIDE DEF F, bindings, imports, resources, rows
  <2> QED BY <2>1, <2>2, AttributedAre
<1>3. AttributedRows(imports)
  <2>1. \A x \in imports :
            \E f \in files : \E row \in ParseImports(f) :
                x = [service |-> MatchingService(r, f.place), row |-> row]
    BY DEF Attributed
  <2> HIDE DEF bindings, imports, resources, rows
  <2> QED BY <2>1 DEF AttributedRows
<1>4. AttributedRows(resources) /\ Contents(resources) = ResourcesIn(files)
  <2> DEFINE F == [f \in files |-> ParseResources(f)]
  <2>1. \A x : x \in resources <=>
            \E f \in files : \E row \in F[f] :
                x = [service |-> MatchingService(r, f.place), row |-> row]
    BY DEF Attributed
  <2>2. \A row : row \in ResourcesIn(files) <=> \E f \in files : row \in F[f]
    BY DEF ResourcesIn
  <2> HIDE DEF F, bindings, imports, resources, rows
  <2> QED BY <2>1, <2>2, AttributedAre
<1> HIDE DEF bindings, imports, resources, rows
<1>5. /\ AttributedRows(Undeclared(files, imports))
      /\ AttributedRows(KeyMismatches(files, bindings))
      /\ AttributedRows(Undeclared(files, bindings))
  BY <1>2, <1>3 DEF AttributedRows, Undeclared, KeyMismatches
<1>6. rows = [table \in DOMAIN NoIac |-> rows[table]]
  BY <1>1 DEF NoIac
<1>7. \A table \in DOMAIN NoIac : AttributedRows(rows[table])
  BY <1>1, <1>2, <1>3, <1>4, <1>5 DEF NoIac
<1>8. /\ rows.resources = resources /\ rows.bindings = bindings /\ rows.imports = imports
      /\ rows.importUnknowns = Undeclared(files, imports)
      /\ rows.mismatches = KeyMismatches(files, bindings)
      /\ rows.sourceUnknowns = Undeclared(files, bindings)
  BY <1>1
<1>9. ScannedRows(files, rows)
  BY <1>2, <1>4, <1>6, <1>7, <1>8 DEF ScannedRows
<1> QED BY <1>9 DEF rows

LEMMA RowsWithoutServices ==
    ASSUME NEW rows, AttributedRows(rows), NEW gone, NEW files
    PROVE  /\ AttributedRows(WithoutServices(rows, gone))
           /\ Contents(WithoutServices(rows, gone)) = Contents(rows)
           /\ Undeclared(files, WithoutServices(rows, gone))
              = WithoutServices(Undeclared(files, rows), gone)
           /\ KeyMismatches(files, WithoutServices(rows, gone))
              = WithoutServices(KeyMismatches(files, rows), gone)
<1> DEFINE new(x) == [x EXCEPT !.service = IF @ \in gone THEN NoService ELSE @]
<1>1. \A x \in rows : new(x) = [service |-> new(x).service, row |-> x.row]
                      /\ new(x).row = x.row
  BY DEF AttributedRows
<1>2. \A part : WithoutServices(part, gone) = {new(x) : x \in part}
  BY DEF WithoutServices
<1> HIDE DEF new
<1>3. AttributedRows(WithoutServices(rows, gone))
  BY <1>1, <1>2 DEF AttributedRows
<1>4. Contents(WithoutServices(rows, gone)) = Contents(rows)
  BY <1>1, <1>2 DEF Contents
<1>5. Undeclared(files, WithoutServices(rows, gone))
      = WithoutServices(Undeclared(files, rows), gone)
  BY <1>1, <1>2 DEF Undeclared
<1>6. KeyMismatches(files, WithoutServices(rows, gone))
      = WithoutServices(KeyMismatches(files, rows), gone)
  <2> DEFINE Mismatched(b) == \E d \in Declarations(files, b.row.source) :
                                  /\ Declarations(files, b.row.source) = {d}
                                  /\ b.row.entry \notin d.entries
  <2>1. \A part : KeyMismatches(files, part) = {b \in part : Mismatched(b)}
    BY DEF KeyMismatches
  <2>2. \A x \in rows : Mismatched(new(x)) <=> Mismatched(x)
    BY <1>1
  <2> HIDE DEF Mismatched
  <2>3. ASSUME NEW x \in rows
        PROVE  new(x) \in KeyMismatches(files, WithoutServices(rows, gone))
               <=> x \in KeyMismatches(files, rows)
    BY <1>2, <2>1, <2>2
  <2>4. KeyMismatches(files, rows) \subseteq rows
    BY <2>1
  <2>5. KeyMismatches(files, WithoutServices(rows, gone)) \subseteq {new(x) : x \in rows}
    BY <1>2, <2>1
  <2>6. WithoutServices(KeyMismatches(files, rows), gone)
        = {new(x) : x \in KeyMismatches(files, rows)}
    BY <1>2
  <2> QED BY <2>3, <2>4, <2>5, <2>6
<1> QED BY <1>3, <1>4, <1>5, <1>6

LEMMA DeletionsAgree ==
    ASSUME NEW files, NEW rows, ScannedRows(files, rows), NEW gone
    PROVE  ScannedRows(files, [table \in DOMAIN rows |-> WithoutServices(rows[table], gone)])
<1> DEFINE new == [table \in DOMAIN rows |-> WithoutServices(rows[table], gone)]
<1>1. DOMAIN rows = DOMAIN NoIac
  BY DEF ScannedRows
<1>2. \A table \in DOMAIN NoIac :
          new[table] = WithoutServices(rows[table], gone) /\ AttributedRows(rows[table])
  BY <1>1 DEF ScannedRows
<1>3. new = [table \in DOMAIN NoIac |-> new[table]]
  BY <1>1
<1> HIDE DEF new
<1>4. \A table \in DOMAIN NoIac : AttributedRows(new[table])
  BY <1>2, RowsWithoutServices
<1>5. DOMAIN NoIac = {"resources", "bindings", "imports", "importUnknowns", "mismatches",
                      "sourceUnknowns"}
  BY DEF NoIac
<1>6. /\ new.resources = WithoutServices(rows.resources, gone)
      /\ new.bindings = WithoutServices(rows.bindings, gone)
      /\ new.imports = WithoutServices(rows.imports, gone)
      /\ new.importUnknowns = WithoutServices(rows.importUnknowns, gone)
      /\ new.mismatches = WithoutServices(rows.mismatches, gone)
      /\ new.sourceUnknowns = WithoutServices(rows.sourceUnknowns, gone)
      /\ AttributedRows(rows.resources) /\ AttributedRows(rows.bindings)
      /\ AttributedRows(rows.imports)
  BY <1>2, <1>5
<1>7. /\ rows.importUnknowns = Undeclared(files, rows.imports)
      /\ rows.mismatches = KeyMismatches(files, rows.bindings)
      /\ rows.sourceUnknowns = Undeclared(files, rows.bindings)
      /\ Contents(rows.resources) = ResourcesIn(files)
      /\ Contents(rows.bindings) = BindingsIn(files)
  BY DEF ScannedRows
<1>8. /\ Contents(new.resources) = ResourcesIn(files)
      /\ Contents(new.bindings) = BindingsIn(files)
  BY <1>6, <1>7, RowsWithoutServices
<1>9. /\ new.importUnknowns = Undeclared(files, new.imports)
      /\ new.mismatches = KeyMismatches(files, new.bindings)
      /\ new.sourceUnknowns = Undeclared(files, new.bindings)
  BY <1>6, <1>7, RowsWithoutServices
<1>10. ScannedRows(files, new)
  BY <1>3, <1>4, <1>8, <1>9 DEF ScannedRows
<1> QED BY <1>10 DEF new

LEMMA EmptyAgrees == AreFiles({}) /\ ScannedRows({}, NoIac)
<1>1. AreFiles({})
  BY DEF AreFiles
<1>2. NoIac = [table \in DOMAIN NoIac |-> NoIac[table]]
      /\ \A table \in DOMAIN NoIac : NoIac[table] = {}
  BY DEF NoIac
<1>3. /\ Contents({}) = {} /\ ResourcesIn({}) = {} /\ BindingsIn({}) = {}
      /\ Undeclared({}, {}) = {} /\ KeyMismatches({}, {}) = {} /\ AttributedRows({})
  BY DEF Contents, ResourcesIn, BindingsIn, Undeclared, KeyMismatches, AttributedRows
<1>4. /\ NoIac.resources = {} /\ NoIac.bindings = {} /\ NoIac.imports = {}
      /\ NoIac.importUnknowns = {} /\ NoIac.mismatches = {} /\ NoIac.sourceUnknowns = {}
  BY DEF NoIac
<1> QED BY <1>1, <1>2, <1>3, <1>4 DEF ScannedRows

LEMMA IacStep ==
    ASSUME IacInv, ReviewNext
    PROVE  IacInv'
<1>1. ASSUME NEW r \in Repositories, ScanRepository(r)
      PROVE  IacInv'
  <2>1. PICK files \in TreesOf[r] :
            /\ tree' = [tree EXCEPT ![r] = files]
            /\ iac' = [iac EXCEPT ![r] = ScanRepositoryFacts(r, files)]
    BY <1>1 DEF ScanRepository
  <2>2. AreFiles(files) /\ ScannedRows(files, ScanRepositoryFacts(r, files))
    BY TreesAssumption, ScansAgree
  <2> QED BY <2>1, <2>2 DEF IacInv
<1>2. ASSUME NEW r \in Repositories, RemoveWithIac(r)
      PROVE  IacInv'
  BY <1>2, EmptyAgrees DEF RemoveWithIac, IacInv
<1>3. ASSUME NEW r \in Repositories, NEW found, DeleteWithIac(r, found)
      PROVE  IacInv'
  <2> DEFINE gone == Candidates(r) \ found
  <2>1. iac' = [iac EXCEPT ![r] = [table \in DOMAIN iac[r] |->
                                       WithoutServices(iac[r][table], gone)]]
        /\ tree' = tree
    BY <1>3 DEF DeleteWithIac
  <2> HIDE DEF gone
  <2>2. ScannedRows(tree[r], [table \in DOMAIN iac[r] |->
                                  WithoutServices(iac[r][table], gone)])
    BY DeletionsAgree DEF IacInv
  <2> QED BY <2>1, <2>2 DEF IacInv
<1>4. CASE UNCHANGED iacVars
  BY <1>4 DEF IacInv, iacVars
<1> QED BY <1>1, <1>2, <1>3, <1>4 DEF ReviewNext

(* The rows of an indexed service are those of a scan, and the              *)
(* infrastructure rows of a checkout are those that its files give, but for *)
(* the services they are attributed to, after any scans, deletions and      *)
(* removals (StaticFacts, RepositoryIac).                                   *)
THEOREM RowsAgree == ReviewSpec => []ReviewInv
<1>1. ReviewInit => ReviewInv
  <2> SUFFICES ASSUME ReviewInit PROVE ReviewInv
    OBVIOUS
  <2>1. Indexed = {}
    BY DEF ReviewInit, FactsInit, Indexed
  <2>2. FactsInv
    BY <2>1, FS_EmptySet DEF FactsInv
  <2>3. IacInv
    BY EmptyAgrees DEF ReviewInit, IacInit, IacInv
  <2> QED BY <2>1, <2>2, <2>3 DEF ReviewInv, RelationsInv
<1>2. ReviewInv /\ [ReviewNext]_<<facts, tree, iac>> => ReviewInv'
  <2> SUFFICES ASSUME ReviewInv, [ReviewNext]_<<facts, tree, iac>> PROVE ReviewInv'
    OBVIOUS
  <2>1. CASE ReviewNext
    BY <2>1, FactsStep, RelationsStep, IacStep DEF ReviewInv
  <2>2. CASE UNCHANGED <<facts, tree, iac>>
    BY <2>2 DEF ReviewInv, FactsInv, RelationsInv, IacInv, Indexed, AreRows
  <2> QED BY <2>1, <2>2
<1> QED BY <1>1, <1>2, PTL DEF ReviewSpec

-----------------------------------------------------------------------------
(* Names.                                                                   *)

(* The name a service is called by belongs to no other.                     *)
LEMMA NamesDiffer ==
    ASSUME FactsInv, NEW s \in Indexed, NEW t \in Indexed, ServiceName(s) = ServiceName(t)
    PROVE  s = t
<1>1. CASE Unambiguous(s) /\ Unambiguous(t)
  BY <1>1 DEF ServiceName, Unambiguous
<1>2. CASE ~Unambiguous(s) /\ ~Unambiguous(t)
  BY <1>2, NamesAssumption DEF ServiceName, FactsInv
<1>3. CASE Unambiguous(s) <=> ~Unambiguous(t)
  <2>1. Len(<<NameOf[s]>>) = 1 /\ Len(<<RepositoryOf[t], NameOf[t]>>) = 2
        /\ Len(<<NameOf[t]>>) = 1 /\ Len(<<RepositoryOf[s], NameOf[s]>>) = 2
    OBVIOUS
  <2> QED BY <1>3, <2>1 DEF ServiceName
<1> QED BY <1>1, <1>2, <1>3

(* A set with at most one element has at most that cardinality.             *)
LEMMA AtMostOne ==
    ASSUME NEW S, \A x, y \in S : x = y
    PROVE  Cardinality(S) <= 1
<1>1. CASE S = {}
  BY <1>1, FS_EmptySet
<1>2. CASE S # {}
  <2>1. PICK x : x \in S
    BY <1>2
  <2>2. S = {x}
    BY <2>1
  <2> QED BY <2>2, FS_Singleton
<1> QED BY <1>1, <1>2

-----------------------------------------------------------------------------
(* Retries.                                                                 *)

(* A call is retried against one service at most.                           *)
LEMMA OneRetryTarget ==
    ASSUME NEW s, NEW name, NEW t \in RetryTargets(s, name), NEW u \in RetryTargets(s, name)
    PROVE  t = u
<1>1. t \in Named(name) /\ u \in Named(name)
  BY DEF RetryTargets
<1>2. InCheckoutOf(s, name) \subseteq Named(name)
  BY DEF InCheckoutOf
<1> QED BY <1>1, <1>2 DEF RetryTargets

LEMMA RetriedCall ==
    ASSUME NEW f \in FindRetriesOnDownstreamClientErrors
    PROVE  \E s \in Indexed : \E call \in HttpCalls(s) : \E t \in RetryTargets(s, call.target) :
               /\ f.services = <<ServiceName(s), ServiceName(t)>>
               /\ f.symbol = call.source
               /\ f.contract = <<call.method, call.path>>
  BY DEF FindRetriesOnDownstreamClientErrors, PerService, DownstreamFindings, Downstream,
         RetryTargets, Named

LEMMA RetryBlamesHolds ==
    ASSUME FactsInv
    PROVE  RetryBlamesOneCheckout
<1> SUFFICES
      ASSUME NEW s \in Indexed, NEW call \in HttpCalls(s)
      PROVE  LET blamed == {t \in Named(call.target) :
                          \E f \in FindRetriesOnDownstreamClientErrors :
                              /\ f.services = <<ServiceName(s), ServiceName(t)>>
                              /\ f.symbol = call.source
                              /\ f.contract = <<call.method, call.path>>}
             IN  /\ Cardinality(blamed) <= 1
                 /\ InCheckoutOf(s, call.target) # {}
                    => blamed \subseteq InCheckoutOf(s, call.target)
  BY DEF RetryBlamesOneCheckout
<1> DEFINE blamed == {t \in Named(call.target) :
                          \E f \in FindRetriesOnDownstreamClientErrors :
                              /\ f.services = <<ServiceName(s), ServiceName(t)>>
                              /\ f.symbol = call.source
                              /\ f.contract = <<call.method, call.path>>}
<1>1. blamed \subseteq RetryTargets(s, call.target)
  <2> SUFFICES ASSUME NEW t \in blamed PROVE t \in RetryTargets(s, call.target)
    OBVIOUS
  <2>1. t \in Named(call.target)
        /\ \E f \in FindRetriesOnDownstreamClientErrors :
               f.services = <<ServiceName(s), ServiceName(t)>>
    OBVIOUS
  <2> HIDE DEF blamed
  <2>2. \E s2 \in Indexed : \E c2 \in HttpCalls(s2) : \E t2 \in RetryTargets(s2, c2.target) :
            <<ServiceName(s), ServiceName(t)>> = <<ServiceName(s2), ServiceName(t2)>>
    BY <2>1, RetriedCall
  <2>3. PICK s2 \in Indexed : \E c2 \in HttpCalls(s2) : \E t2 \in RetryTargets(s2, c2.target) :
            ServiceName(s) = ServiceName(s2) /\ ServiceName(t) = ServiceName(t2)
    BY <2>2
  <2>4. PICK c2 \in HttpCalls(s2) : \E t2 \in RetryTargets(s2, c2.target) :
            ServiceName(s) = ServiceName(s2) /\ ServiceName(t) = ServiceName(t2)
    BY <2>3
  <2>5. PICK t2 \in RetryTargets(s2, c2.target) :
            ServiceName(s) = ServiceName(s2) /\ ServiceName(t) = ServiceName(t2)
    BY <2>4
  <2>6. t \in Indexed /\ t2 \in Indexed /\ NameOf[t] = call.target /\ NameOf[t2] = c2.target
    BY <2>1, <2>5 DEF Named, RetryTargets
  <2>7. s = s2 /\ t = t2
    BY <2>3, <2>5, <2>6, NamesDiffer
  <2> QED BY <2>5, <2>6, <2>7
<1>2. \A t, u \in blamed : t = u
  BY <1>1, OneRetryTarget
<1> HIDE DEF blamed
<1>3. Cardinality(blamed) <= 1
  BY <1>2, AtMostOne
<1>4. InCheckoutOf(s, call.target) # {}
      => RetryTargets(s, call.target) \subseteq InCheckoutOf(s, call.target)
  BY DEF RetryTargets, InCheckoutOf
<1> QED BY <1>1, <1>3, <1>4 DEF blamed

(* Whatever is indexed, a retried call is held against one service at most, *)
(* and that is in the caller's checkout if this has one of the called name  *)
(* (architecture.py, the detector of retries on downstream client errors).  *)
THEOREM RetriesBlameOneCheckout == ReviewSpec => []RetryBlamesOneCheckout
<1>1. ReviewInv => RetryBlamesOneCheckout
  BY RetryBlamesHolds DEF ReviewInv
<1> QED BY <1>1, RowsAgree, PTL

-----------------------------------------------------------------------------
(* Code against infrastructure.                                            *)

(* A name counts as declared when a Terraform or CloudFormation file of the *)
(* checkout has it, whatever rows are attributed to whom.                   *)
LEMMA DeclaredRows ==
    ASSUME IacInv, NEW r \in Repositories, NEW type, NEW name, name # NoName
    PROVE  DeclaredIn(r, type, name) <=> <<type, name>> \in DeclaredNames(r)
<1>1. AreFiles(tree[r]) /\ Contents(iac[r].resources) = ResourcesIn(tree[r])
  BY DEF IacInv, ScannedRows
<1>2. DeclaredIn(r, type, name)
      <=> \E x \in ResourcesIn(tree[r]) : x.type = type /\ x.name = name
  BY <1>1 DEF DeclaredIn, Contents
<1>3. ASSUME NEW f \in tree[r], NEW x \in ParseResources(f), x.type = type, x.name = name
      PROVE  f.format \in {"terraform", "cloudformation"}
             /\ \E y \in f.resources : y.type = type /\ y.name = name
  <2>1. CASE f.format = "terraform"
    BY <2>1, <1>1, <1>3 DEF ParseResources, ParseTerraform, AreFiles
  <2>2. CASE f.format = "cloudformation"
    BY <2>2, <1>3 DEF ParseResources
  <2>3. CASE f.format = "compose"
    BY <2>3, <1>1, <1>3 DEF ParseResources, ParseCompose, AreFiles
  <2> QED BY <2>1, <2>2, <2>3, <1>3 DEF ParseResources
<1>4. ASSUME NEW f \in tree[r], f.format \in {"terraform", "cloudformation"},
             NEW y \in f.resources, y.type = type, y.name = name
      PROVE  \E x \in ParseResources(f) : x.type = type /\ x.name = name
  <2>1. CASE f.format = "terraform"
    <3> DEFINE x == [y EXCEPT !.settings = @ \cup
                        IF y.type = "s3_bucket"
                        THEN {q.setting : q \in {p \in f.refinements : p.bucket = y.logical}}
                        ELSE {}]
    <3>1. x \in ParseResources(f)
      BY <2>1, <1>4 DEF ParseResources, ParseTerraform
    <3>2. x.type = y.type /\ x.name = y.name
      BY <1>1, <1>4 DEF AreFiles
    <3> HIDE DEF x
    <3> QED BY <3>1, <3>2, <1>4
  <2>2. CASE f.format = "cloudformation"
    BY <2>2, <1>4 DEF ParseResources
  <2> QED BY <2>1, <2>2, <1>4
<1>5. <<type, name>> \in DeclaredNames(r)
      <=> \E f \in tree[r] : /\ f.format \in {"terraform", "cloudformation"}
                             /\ \E y \in f.resources : y.type = type /\ y.name = name
  BY DEF DeclaredNames
<1>6. (\E x \in ResourcesIn(tree[r]) : x.type = type /\ x.name = name)
      <=> \E f \in tree[r] : \E x \in ParseResources(f) : x.type = type /\ x.name = name
  BY DEF ResourcesIn
<1> QED BY <1>2, <1>3, <1>4, <1>5, <1>6

LEMMA UsedRows ==
    ASSUME FactsInv, NEW r, NEW type, NEW name
    PROVE  UsedIn(r, type, name) <=> <<type, name>> \in UsedNames(r)
<1>1. \A s \in Candidates(r) : \A c \in facts[s].cloud : c = [type |-> c.type, target |-> c.target]
  BY DEF FactsInv, AreRows, Candidates
<1>2. <<type, name>> \in UsedNames(r)
      <=> \E s \in Candidates(r) : \E c \in facts[s].cloud : c.type = type /\ c.target = name
  BY DEF UsedNames
<1>3. ASSUME NEW s \in Candidates(r), NEW c \in facts[s].cloud, c.type = type, c.target = name
      PROVE  [type |-> type, target |-> name] \in facts[s].cloud
  BY <1>1, <1>3
<1> QED BY <1>2, <1>3 DEF UsedIn

LEMMA UndeclaredFindings ==
    ASSUME NEW f
    PROVE  f \in FindCloudCodeWithoutIac
           <=> \E s \in Indexed : \E c \in facts[s].cloud :
                   /\ c.target # NoName /\ ~DeclaredIn(RepositoryOf[s], c.type, c.target)
                   /\ f = DeploymentFinding("cloud_dependency_without_iac", s,
                                            <<c.type, c.target>>, 70)
<1> DEFINE Of(s) == {DeploymentFinding("cloud_dependency_without_iac", s, <<c.type, c.target>>, 70) :
                        c \in {d \in facts[s].cloud :
                                  d.target # NoName /\ ~DeclaredIn(RepositoryOf[s], d.type, d.target)}}
<1>1. FindCloudCodeWithoutIac = UNION {Of(s) : s \in Indexed}
  BY DEF FindCloudCodeWithoutIac, PerService
<1>2. f \in UNION {Of(s) : s \in Indexed} <=> \E s \in Indexed : f \in Of(s)
  OBVIOUS
<1>3. \A s : f \in Of(s) <=> \E c \in facts[s].cloud :
                   /\ c.target # NoName /\ ~DeclaredIn(RepositoryOf[s], c.type, c.target)
                   /\ f = DeploymentFinding("cloud_dependency_without_iac", s,
                                            <<c.type, c.target>>, 70)
  OBVIOUS
<1> HIDE DEF Of
<1> QED BY <1>1, <1>2, <1>3

LEMMA UnusedFindings ==
    ASSUME NEW f \in FindCloudIacUnusedInCode
    PROVE  \E s \in Indexed : \E x \in iac[RepositoryOf[s]].resources :
               /\ x.row.name # NoName /\ ~UsedIn(RepositoryOf[s], x.row.type, x.row.name)
               /\ f.services = <<ServiceName(s)>> /\ f.key = <<x.row.type, x.row.name>>
  BY DEF FindCloudIacUnusedInCode, PerService, ResourcesOf, DeploymentFinding

LEMMA CloudNamesHold ==
    ASSUME FactsInv, IacInv
    PROVE  CloudNamesReconciled
<1> SUFFICES ASSUME NEW r \in Repositories
    PROVE  LET here == {ServiceName(s) : s \in Candidates(r)}
               undeclared == {f \in FindCloudCodeWithoutIac : f.services[1] \in here}
               unused == {f \in FindCloudIacUnusedInCode : f.services[1] \in here}
           IN  /\ {f.key : f \in undeclared} \cap {f.key : f \in unused} = {}
               /\ {f.key : f \in unused} \subseteq DeclaredNames(r) \ UsedNames(r)
               /\ \A s \in Candidates(r) :
                      {f.key : f \in {g \in undeclared : g.services = <<ServiceName(s)>>}}
                      = {<<c.type, c.target>> : c \in {d \in facts[s].cloud : d.target # NoName}}
                        \ DeclaredNames(r)
  BY DEF CloudNamesReconciled
<1> DEFINE
      here == {ServiceName(s) : s \in Candidates(r)}
      undeclared == {f \in FindCloudCodeWithoutIac : f.services[1] \in here}
      unused == {f \in FindCloudIacUnusedInCode : f.services[1] \in here}
<1>1. \A s \in Indexed : ServiceName(s) \in here => RepositoryOf[s] = r
  BY NamesDiffer DEF Candidates
<1>2. \A s \in Candidates(r) : s \in Indexed /\ RepositoryOf[s] = r /\ ServiceName(s) \in here
  BY DEF Candidates
<1> HIDE DEF here
<1>3. ASSUME NEW f \in undeclared
      PROVE  \E c \in UNION {facts[s].cloud : s \in Candidates(r)} :
                 /\ c.target # NoName /\ ~DeclaredIn(r, c.type, c.target)
                 /\ f.key = <<c.type, c.target>>
  <2>1. PICK s \in Indexed : \E c \in facts[s].cloud :
                   /\ c.target # NoName /\ ~DeclaredIn(RepositoryOf[s], c.type, c.target)
                   /\ f = DeploymentFinding("cloud_dependency_without_iac", s,
                                            <<c.type, c.target>>, 70)
    BY UndeclaredFindings
  <2>2. f.services[1] = ServiceName(s)
    BY <2>1 DEF DeploymentFinding
  <2>3. s \in Candidates(r)
    BY <1>1, <2>2 DEF Candidates
  <2> QED BY <2>1, <2>3, <1>2 DEF DeploymentFinding
<1>4. ASSUME NEW f \in unused
      PROVE  \E x \in iac[r].resources :
                 /\ x.row.name # NoName /\ ~UsedIn(r, x.row.type, x.row.name)
                 /\ f.key = <<x.row.type, x.row.name>>
  <2>1. PICK s \in Indexed : \E x \in iac[RepositoryOf[s]].resources :
               /\ x.row.name # NoName /\ ~UsedIn(RepositoryOf[s], x.row.type, x.row.name)
               /\ f.services = <<ServiceName(s)>> /\ f.key = <<x.row.type, x.row.name>>
    BY UnusedFindings
  <2>2. RepositoryOf[s] = r
    BY <2>1, <1>1
  <2> QED BY <2>1, <2>2
<1>5. ASSUME NEW f \in unused
      PROVE  f.key \in DeclaredNames(r) \ UsedNames(r)
             /\ \A g \in undeclared : g.key # f.key
  <2>1. PICK x \in iac[r].resources :
                 /\ x.row.name # NoName /\ ~UsedIn(r, x.row.type, x.row.name)
                 /\ f.key = <<x.row.type, x.row.name>>
    BY <1>4
  <2>2. DeclaredIn(r, x.row.type, x.row.name)
    BY DEF DeclaredIn
  <2> QED BY <2>1, <2>2, <1>3, DeclaredRows, UsedRows
<1>6. ASSUME NEW s \in Candidates(r)
      PROVE  {f.key : f \in {g \in undeclared : g.services = <<ServiceName(s)>>}}
             = {<<c.type, c.target>> : c \in {d \in facts[s].cloud : d.target # NoName}}
               \ DeclaredNames(r)
  <2>1. ASSUME NEW f \in undeclared, f.services = <<ServiceName(s)>>
        PROVE  \E c \in facts[s].cloud : /\ c.target # NoName
                                         /\ <<c.type, c.target>> \notin DeclaredNames(r)
                                         /\ f.key = <<c.type, c.target>>
    <3>1. PICK t \in Indexed : \E c \in facts[t].cloud :
                   /\ c.target # NoName /\ ~DeclaredIn(RepositoryOf[t], c.type, c.target)
                   /\ f = DeploymentFinding("cloud_dependency_without_iac", t,
                                            <<c.type, c.target>>, 70)
      BY UndeclaredFindings
    <3>2. t = s
      BY <2>1, <3>1, <1>2, NamesDiffer DEF DeploymentFinding
    <3> QED BY <3>1, <3>2, <1>2, DeclaredRows DEF DeploymentFinding
  <2>2. ASSUME NEW c \in facts[s].cloud, c.target # NoName,
               <<c.type, c.target>> \notin DeclaredNames(r)
        PROVE  \E f \in undeclared : f.services = <<ServiceName(s)>>
                                     /\ f.key = <<c.type, c.target>>
    <3> DEFINE f == DeploymentFinding("cloud_dependency_without_iac", s, <<c.type, c.target>>, 70)
    <3>1. f \in FindCloudCodeWithoutIac
      BY <2>2, <1>2, DeclaredRows, UndeclaredFindings
    <3>2. f.services = <<ServiceName(s)>> /\ f.key = <<c.type, c.target>>
      BY DEF DeploymentFinding
    <3> HIDE DEF f
    <3> QED BY <3>1, <3>2, <1>2
  <2> HIDE DEF undeclared
  <2> QED BY <2>1, <2>2
<1> HIDE DEF undeclared, unused
<1>7. {f.key : f \in undeclared} \cap {f.key : f \in unused} = {}
      /\ {f.key : f \in unused} \subseteq DeclaredNames(r) \ UsedNames(r)
  BY <1>5
<1> QED BY <1>6, <1>7 DEF undeclared, unused, here

(* In every checkout, what the code uses and no file declares and what a    *)
(* file declares and no code uses are told apart by the same names, however *)
(* the scans, deletions and removals came about (architecture.py, the       *)
(* detectors of cloud code without IaC and of IaC unused in code).          *)
THEOREM CloudNamesAlwaysReconciled == ReviewSpec => []CloudNamesReconciled
<1>1. ReviewInv => CloudNamesReconciled
  BY CloudNamesHold DEF ReviewInv
<1> QED BY <1>1, RowsAgree, PTL

-----------------------------------------------------------------------------
(* Identities of units.                                                    *)

(* An identity is made of the role, the service and the parts of the key.  *)
LEMMA UnitIs ==
    ASSUME NEW role, NEW service, NEW S, NEW key \in Seq(S), NEW dependencies
    PROVE  /\ Unit(role, service, key, dependencies).service = service
           /\ Unit(role, service, key, dependencies).dependencies = dependencies
           /\ Unit(role, service, key, dependencies).id = <<role, service>> \o key
           /\ Len(<<role, service>> \o key) = 2 + Len(key)
           /\ (<<role, service>> \o key)[1] = role
           /\ (<<role, service>> \o key)[2] = service
           /\ \A i \in 1..Len(key) : (<<role, service>> \o key)[i + 2] = key[i]
<1> DEFINE T == S \cup {role, service}
           front == <<role, service>>
<1>1. front \in Seq(T) /\ Len(front) = 2 /\ front[1] = role /\ front[2] = service
  OBVIOUS
<1>2. key \in Seq(T) /\ Len(key) \in Nat
  BY SeqMonotonic, LenProperties
<1> HIDE DEF T, front
<1>3. /\ Len(front \o key) = 2 + Len(key)
      /\ \A i \in 1..(2 + Len(key)) :
             (front \o key)[i] = IF i <= 2 THEN front[i] ELSE key[i - 2]
  <2>1. front \in Seq(T) /\ key \in Seq(T)
    BY <1>1, <1>2
  <2>2. /\ Len(front \o key) = Len(front) + Len(key)
        /\ \A i \in 1..Len(front) + Len(key) :
               (front \o key)[i] = IF i <= Len(front) THEN front[i] ELSE key[i - Len(front)]
    BY <2>1, ConcatProperties, Zenon
  <2> QED BY <1>1, <2>2
<1>4. (front \o key)[1] = role /\ (front \o key)[2] = service
  BY <1>1, <1>2, <1>3
<1>5. ASSUME NEW i \in 1..Len(key)
      PROVE  (front \o key)[i + 2] = key[i]
  <2>1. i + 2 \in 1..(2 + Len(key)) /\ ~(i + 2 <= 2) /\ (i + 2) - 2 = i
    BY <1>2
  <2> QED BY <1>3, <2>1
<1>6. /\ Len(front \o key) = 2 + Len(key)
      /\ (front \o key)[1] = role /\ (front \o key)[2] = service
      /\ \A i \in 1..Len(key) : (front \o key)[i + 2] = key[i]
  BY <1>3, <1>4, <1>5
<1>7. /\ Unit(role, service, key, dependencies).service = service
      /\ Unit(role, service, key, dependencies).dependencies = dependencies
      /\ Unit(role, service, key, dependencies).id = front \o key
  BY DEF Unit, front
<1> QED BY <1>6, <1>7 DEF front

LEMMA SameKey ==
    ASSUME NEW role, NEW service, NEW S, NEW key \in Seq(S),
           NEW role2, NEW service2, NEW S2, NEW key2 \in Seq(S2),
           <<role, service>> \o key = <<role2, service2>> \o key2
    PROVE  role = role2 /\ service = service2 /\ key = key2
<1> DEFINE id == <<role, service>> \o key
           id2 == <<role2, service2>> \o key2
<1>0. /\ id[1] = role /\ id[2] = service /\ Len(id) = 2 + Len(key)
      /\ \A i \in 1..Len(key) : id[i + 2] = key[i]
      /\ id2[1] = role2 /\ id2[2] = service2 /\ Len(id2) = 2 + Len(key2)
      /\ \A i \in 1..Len(key2) : id2[i + 2] = key2[i]
      /\ id = id2
  BY UnitIs
<1> HIDE DEF id, id2
<1>1. role = role2 /\ service = service2 /\ 2 + Len(key) = 2 + Len(key2)
  BY <1>0
<1>2. Len(key) = Len(key2)
  BY <1>1, LenProperties
<1>3. \A i \in 1..Len(key) : key[i] = key2[i]
  BY <1>0, <1>2
<1>4. key \in Seq(S \cup S2) /\ key2 \in Seq(S \cup S2)
  BY SeqMonotonic
<1> QED BY <1>1, <1>2, <1>3, <1>4, SeqEqual

LEMMA Keys ==
    /\ \A a : \E S : <<a>> \in Seq(S)
    /\ \A a, b : \E S : <<a, b>> \in Seq(S)
    /\ \A a, b, c : \E S : <<a, b, c>> \in Seq(S)
    /\ \A a, b, c, d : \E S : <<a, b, c, d>> \in Seq(S)
<1>1. \A a : <<a>> \in Seq({a})
  OBVIOUS
<1>2. \A a, b : <<a, b>> \in Seq({a, b})
  OBVIOUS
<1>3. \A a, b, c : <<a, b, c>> \in Seq({a, b, c})
  OBVIOUS
<1>4. \A a, b, c, d : <<a, b, c, d>> \in Seq({a, b, c, d})
  OBVIOUS
<1> QED BY <1>1, <1>2, <1>3, <1>4

-----------------------------------------------------------------------------
(* Configuration.                                                          *)

SourceImportUnit(s, source) ==
    [id |-> <<"runtime-configuration-source-import-unknown", NameOf[s], source>>,
     service |-> NameOf[s], dependencies |-> {},
     availability |-> Availability(ImportsOf(s, source)),
     initializes |-> \E i \in ImportsOf(s, source) : i.role = "initialization"]

(* What the rows of a service ask for, as the role and the key of a unit.  *)
RowQuestion(s, role, key) ==
    \/ role = "feature-flag" /\ \E f \in facts[s].flags : key = <<f.provider, f.key>>
    \/ /\ role = "runtime-configuration"
       /\ \E k \in facts[s].environment \cap {b.key : b \in RowsOf(s, "bindings")} : key = <<k>>
    \/ /\ role = "runtime-configuration-mismatch"
       /\ \E b \in RowsOf(s, "mismatches") : key = BindingKey(b)
    \/ /\ role = "runtime-configuration-source-unknown"
       /\ \E b \in RowsOf(s, "sourceUnknowns") : key = BindingKey(b)

LEMMA ConfigurationUnitsAre ==
    ASSUME NEW services, NEW u
    PROVE  u \in ConfigurationUnits(services) <=>
           \E s \in services :
               \/ \E role, key : RowQuestion(s, role, key) /\ u = Unit(role, NameOf[s], key, {})
               \/ \E i \in RowsOf(s, "importUnknowns") : u = SourceImportUnit(s, i.source)
<1>1. u \in DeriveFeatureFlag(services) <=>
          \E s \in services : \E f \in facts[s].flags :
              u = Unit("feature-flag", NameOf[s], <<f.provider, f.key>>, {})
  <2>1. u \in DeriveFeatureFlag(services) <=>
          \E s \in services : \E key \in {<<f.provider, f.key>> : f \in facts[s].flags} :
              u = Unit("feature-flag", NameOf[s], key, {})
    BY DEF DeriveFeatureFlag, RowUnits
  <2> QED BY <2>1
<1>2. u \in DeriveRuntimeConfiguration(services) <=>
          \E s \in services :
              \E key \in facts[s].environment \cap {b.key : b \in RowsOf(s, "bindings")} :
                  u = Unit("runtime-configuration", NameOf[s], <<key>>, {})
  <2>1. u \in DeriveRuntimeConfiguration(services) <=>
          \E s \in services : \E key \in {<<k>> : k \in facts[s].environment
                                          \cap {b.key : b \in RowsOf(s, "bindings")}} :
              u = Unit("runtime-configuration", NameOf[s], key, {})
    BY DEF DeriveRuntimeConfiguration, RowUnits
  <2> QED BY <2>1
<1>3. u \in DeriveRuntimeConfigurationMismatch(services) <=>
          \E s \in services : \E b \in RowsOf(s, "mismatches") :
              u = Unit("runtime-configuration-mismatch", NameOf[s], BindingKey(b), {})
  BY DEF DeriveRuntimeConfigurationMismatch, RowUnits
<1>4. u \in DeriveRuntimeConfigurationSourceUnknown(services) <=>
          \E s \in services : \E b \in RowsOf(s, "sourceUnknowns") :
              u = Unit("runtime-configuration-source-unknown", NameOf[s], BindingKey(b), {})
  BY DEF DeriveRuntimeConfigurationSourceUnknown, RowUnits
<1>5. u \in DeriveRuntimeConfigurationSourceImportUnknown(services) <=>
          \E s \in services : \E i \in RowsOf(s, "importUnknowns") :
              u = SourceImportUnit(s, i.source)
  BY DEF DeriveRuntimeConfigurationSourceImportUnknown, SourceImportUnit
<1>6. \A s : (\E role, key : RowQuestion(s, role, key) /\ u = Unit(role, NameOf[s], key, {}))
          <=>
          \/ \E f \in facts[s].flags :
                 u = Unit("feature-flag", NameOf[s], <<f.provider, f.key>>, {})
          \/ \E key \in facts[s].environment \cap {b.key : b \in RowsOf(s, "bindings")} :
                 u = Unit("runtime-configuration", NameOf[s], <<key>>, {})
          \/ \E b \in RowsOf(s, "mismatches") :
                 u = Unit("runtime-configuration-mismatch", NameOf[s], BindingKey(b), {})
          \/ \E b \in RowsOf(s, "sourceUnknowns") :
                 u = Unit("runtime-configuration-source-unknown", NameOf[s], BindingKey(b), {})
  BY DEF RowQuestion
<1> QED BY <1>1, <1>2, <1>3, <1>4, <1>5, <1>6 DEF ConfigurationUnits

LEMMA TripleIs ==
    ASSUME NEW a, NEW b, NEW c
    PROVE  <<a, b>> \o <<c>> = <<a, b, c>>
<1> DEFINE S == {a, b, c}
<1>1. <<a, b>> \in Seq(S) /\ <<c>> \in Seq(S) /\ <<a, b, c>> \in Seq(S)
  OBVIOUS
<1>2. <<a, b>> \o <<c>> \in Seq(S) /\ Len(<<a, b>> \o <<c>>) = 3
  BY <1>1
<1>3. \A i \in 1..3 : (<<a, b>> \o <<c>>)[i] = <<a, b, c>>[i]
  BY <1>1
<1> QED BY <1>1, <1>2, <1>3, SeqEqual

ConfigurationIds(s) == {u.id : u \in ConfigurationUnits({s})}

(* A question about a binding or an import is in the plan exactly when the  *)
(* scan left a row for it: no other unit has its identity.                  *)
LEMMA QuestionsAreRows ==
    ASSUME NEW s, NEW S, NEW key \in Seq(S)
    PROVE  /\ <<"runtime-configuration-mismatch", NameOf[s]>> \o key \in ConfigurationIds(s)
              <=> \E b \in RowsOf(s, "mismatches") : BindingKey(b) = key
           /\ <<"runtime-configuration-source-unknown", NameOf[s]>> \o key
                  \in ConfigurationIds(s)
              <=> \E b \in RowsOf(s, "sourceUnknowns") : BindingKey(b) = key
           /\ <<"runtime-configuration-source-import-unknown", NameOf[s]>> \o key
                  \in ConfigurationIds(s)
              <=> \E i \in RowsOf(s, "importUnknowns") : <<i.source>> = key
<1> DEFINE
      import == "runtime-configuration-source-import-unknown"
      Id(role, k) == <<role, NameOf[s]>> \o k
      IsKey(k) == \E T : k \in Seq(T)
      Question(role, k) ==
          \/ RowQuestion(s, role, k)
          \/ role = import /\ \E i \in RowsOf(s, "importUnknowns") : k = <<i.source>>
<1>1. (\A a : IsKey(<<a>>)) /\ (\A a, c : IsKey(<<a, c>>)) /\ (\A b : IsKey(BindingKey(b)))
  BY Keys DEF BindingKey
<1> HIDE DEF IsKey
<1>2. \A role, k : Question(role, k) => IsKey(k)
  BY <1>1 DEF RowQuestion
<1>3. ASSUME NEW role, NEW role2, NEW k, IsKey(k), Id(role, key) = Id(role2, k)
      PROVE  role = role2 /\ key = k
  BY <1>3, SameKey DEF IsKey
<1>4. \A role, k : Unit(role, NameOf[s], k, {}).id = Id(role, k)
  BY DEF Unit
<1>5. \A source : SourceImportUnit(s, source).id = Id(import, <<source>>)
  BY TripleIs DEF SourceImportUnit
<1> HIDE DEF Id
<1>6. \A u : u \in ConfigurationUnits({s}) <=>
          \/ \E role, k : RowQuestion(s, role, k) /\ u = Unit(role, NameOf[s], k, {})
          \/ \E i \in RowsOf(s, "importUnknowns") : u = SourceImportUnit(s, i.source)
  BY ConfigurationUnitsAre
<1>7. \A id : id \in ConfigurationIds(s) <=> \E role, k : Question(role, k) /\ id = Id(role, k)
  <2>1. ASSUME NEW u \in ConfigurationUnits({s})
        PROVE  \E role, k : Question(role, k) /\ u.id = Id(role, k)
    <3>1. CASE \E role, k : RowQuestion(s, role, k) /\ u = Unit(role, NameOf[s], k, {})
      BY <3>1, <1>4
    <3>2. CASE \E i \in RowsOf(s, "importUnknowns") : u = SourceImportUnit(s, i.source)
      BY <3>2, <1>5
    <3> QED BY <1>6, <3>1, <3>2
  <2>2. ASSUME NEW role, NEW k, Question(role, k)
        PROVE  \E u \in ConfigurationUnits({s}) : u.id = Id(role, k)
    <3>1. CASE RowQuestion(s, role, k)
      BY <3>1, <1>4, <1>6
    <3>2. CASE role = import /\ \E i \in RowsOf(s, "importUnknowns") : k = <<i.source>>
      BY <3>2, <1>5, <1>6
    <3> QED BY <2>2, <3>1, <3>2
  <2>3. \A id : id \in ConfigurationIds(s) <=> \E u \in ConfigurationUnits({s}) : id = u.id
    BY DEF ConfigurationIds
  <2> HIDE DEF Question, import
  <2>4. ASSUME NEW id \in ConfigurationIds(s)
        PROVE  \E role, k : Question(role, k) /\ id = Id(role, k)
    <3>1. PICK u \in ConfigurationUnits({s}) : id = u.id
      BY <2>3
    <3>2. PICK role, k : Question(role, k) /\ u.id = Id(role, k)
      BY <2>1
    <3> QED BY <3>1, <3>2
  <2>5. ASSUME NEW role, NEW k, Question(role, k)
        PROVE  Id(role, k) \in ConfigurationIds(s)
    BY <2>2, <2>3, <2>5
  <2> QED BY <2>4, <2>5
<1> HIDE DEF Question
<1>8. \A role : Id(role, key) \in ConfigurationIds(s) <=> Question(role, key)
  BY <1>2, <1>3, <1>7
<1> QED BY <1>8 DEF Id, Question, RowQuestion

(* The rows that the questions are asked of, among the bindings and imports *)
(* of a service.                                                           *)
LEMMA QuestionedRows ==
    ASSUME FactsInv, IacInv, NEW s \in Indexed, NEW files, files = tree[RepositoryOf[s]]
    PROVE  /\ RowsOf(s, "sourceUnknowns")
              = {b \in RowsOf(s, "bindings") : Declarations(files, b.source) = {}}
           /\ RowsOf(s, "importUnknowns")
              = {i \in RowsOf(s, "imports") : Declarations(files, i.source) = {}}
           /\ RowsOf(s, "mismatches")
              = {b \in RowsOf(s, "bindings") :
                    \E d \in Declarations(files, b.source) :
                        Declarations(files, b.source) = {d} /\ b.entry \notin d.entries}
           /\ \A b \in RowsOf(s, "bindings") :
                  b = [key |-> b.key, source |-> b.source, entry |-> b.entry]
<1> DEFINE r == RepositoryOf[s]
<1>1. r \in Repositories
  BY DEF Repositories, FactsInv
<1>2. AreFiles(files) /\ ScannedRows(files, iac[r])
  BY <1>1 DEF IacInv
<1> HIDE DEF r
<1>3. RowsOf(s, "sourceUnknowns")
      = {b \in RowsOf(s, "bindings") : Declarations(files, b.source) = {}}
  BY <1>2 DEF RowsOf, ScannedRows, Undeclared, r
<1>4. RowsOf(s, "importUnknowns")
      = {i \in RowsOf(s, "imports") : Declarations(files, i.source) = {}}
  BY <1>2 DEF RowsOf, ScannedRows, Undeclared, r
<1>5. RowsOf(s, "mismatches")
      = {b \in RowsOf(s, "bindings") :
            \E d \in Declarations(files, b.source) :
                Declarations(files, b.source) = {d} /\ b.entry \notin d.entries}
  <2> DEFINE Mismatched(b) == \E d \in Declarations(files, b.source) :
                 Declarations(files, b.source) = {d} /\ b.entry \notin d.entries
  <2>1. iac[r].mismatches = {x \in iac[r].bindings : Mismatched(x.row)}
    BY <1>2 DEF ScannedRows, KeyMismatches
  <2> HIDE DEF Mismatched
  <2>2. RowsOf(s, "mismatches") = {b \in RowsOf(s, "bindings") : Mismatched(b)}
    BY <2>1 DEF RowsOf, r
  <2> QED BY <2>2 DEF Mismatched
<1>6. \A b \in RowsOf(s, "bindings") : b \in BindingsIn(files)
  BY <1>2 DEF RowsOf, ScannedRows, Contents, r
<1>7. \A b \in BindingsIn(files) : b = [key |-> b.key, source |-> b.source, entry |-> b.entry]
  BY <1>2 DEF BindingsIn, ParseBindings, ParseReferences, AreFiles
<1> QED BY <1>3, <1>4, <1>5, <1>6, <1>7

LEMMA DeclarationsInTree ==
    ASSUME NEW r, NEW source
    PROVE  DeclarationsIn(r, source) = Declarations(tree[r], source)
<1>1. DeclaredSources(tree[r])
      = UNION {f.sources : f \in {g \in tree[r] : g.format = "manifest"}}
  BY DEF DeclaredSources, ParseReferences
<1> QED BY <1>1 DEF DeclarationsIn, Declarations

LEMMA ConfigurationHolds ==
    ASSUME FactsInv, IacInv
    PROVE  ConfigurationReviewed
<1> SUFFICES ASSUME NEW s \in Indexed
    PROVE  LET r == RepositoryOf[s]
               ids == {u.id : u \in ConfigurationUnits({s})}
               Asked(role, key) == <<role, NameOf[s]>> \o key \in ids
           IN  /\ \A b \in RowsOf(s, "bindings") :
                      LET declared == DeclarationsIn(r, b.source)
                          unknown == Asked("runtime-configuration-source-unknown", BindingKey(b))
                          mismatch == Asked("runtime-configuration-mismatch", BindingKey(b))
                      IN  /\ unknown <=> declared = {}
                          /\ mismatch <=> /\ declared # {}
                                          /\ \A d, e \in declared : d = e
                                          /\ \A d \in declared : b.entry \notin d.entries
               /\ \A i \in RowsOf(s, "imports") :
                      Asked("runtime-configuration-source-import-unknown", <<i.source>>)
                      <=> DeclarationsIn(r, i.source) = {}
  BY DEF ConfigurationReviewed
<1> DEFINE r == RepositoryOf[s]
           files == tree[r]
           Asked(role, key) == <<role, NameOf[s]>> \o key \in ConfigurationIds(s)
<1>2. ASSUME NEW b \in RowsOf(s, "bindings")
      PROVE  /\ Asked("runtime-configuration-source-unknown", BindingKey(b))
                <=> Declarations(files, b.source) = {}
             /\ Asked("runtime-configuration-mismatch", BindingKey(b))
                <=> \E d \in Declarations(files, b.source) :
                        Declarations(files, b.source) = {d} /\ b.entry \notin d.entries
  <2>1. \A c \in RowsOf(s, "bindings") : BindingKey(c) = BindingKey(b) => c = b
    BY QuestionedRows DEF BindingKey
  <2>2. \E S : BindingKey(b) \in Seq(S)
    BY Keys DEF BindingKey
  <2>3. /\ Asked("runtime-configuration-source-unknown", BindingKey(b))
           <=> \E c \in RowsOf(s, "sourceUnknowns") : BindingKey(c) = BindingKey(b)
        /\ Asked("runtime-configuration-mismatch", BindingKey(b))
           <=> \E c \in RowsOf(s, "mismatches") : BindingKey(c) = BindingKey(b)
    BY <2>2, QuestionsAreRows
  <2>4. /\ RowsOf(s, "sourceUnknowns")
           = {c \in RowsOf(s, "bindings") : Declarations(files, c.source) = {}}
        /\ RowsOf(s, "mismatches")
           = {c \in RowsOf(s, "bindings") :
                 \E d \in Declarations(files, c.source) :
                     Declarations(files, c.source) = {d} /\ c.entry \notin d.entries}
    BY QuestionedRows
  <2> HIDE DEF Asked, files
  <2> QED BY <2>1, <2>3, <2>4
<1>3. ASSUME NEW i \in RowsOf(s, "imports")
      PROVE  Asked("runtime-configuration-source-import-unknown", <<i.source>>)
             <=> Declarations(files, i.source) = {}
  <2>1. \E S : <<i.source>> \in Seq(S)
    BY Keys
  <2>2. Asked("runtime-configuration-source-import-unknown", <<i.source>>)
        <=> \E j \in RowsOf(s, "importUnknowns") : <<j.source>> = <<i.source>>
    BY <2>1, QuestionsAreRows
  <2>3. RowsOf(s, "importUnknowns")
        = {j \in RowsOf(s, "imports") : Declarations(files, j.source) = {}}
    BY QuestionedRows
  <2> HIDE DEF Asked, files
  <2> QED BY <2>2, <2>3
<1>4. \A source : DeclarationsIn(r, source) = Declarations(files, source)
  BY DeclarationsInTree
<1> HIDE DEF files, Asked
\* One declaration is what any two of them are the same of.
<1>5. \A b \in RowsOf(s, "bindings") :
          Asked("runtime-configuration-mismatch", BindingKey(b))
          <=> LET declared == DeclarationsIn(r, b.source)
              IN  /\ declared # {}
                  /\ \A d, e \in declared : d = e
                  /\ \A d \in declared : b.entry \notin d.entries
  BY <1>2, <1>4
<1>6. \A b \in RowsOf(s, "bindings") :
          Asked("runtime-configuration-source-unknown", BindingKey(b))
          <=> DeclarationsIn(r, b.source) = {}
  BY <1>2, <1>4
<1>7. \A i \in RowsOf(s, "imports") :
          Asked("runtime-configuration-source-import-unknown", <<i.source>>)
          <=> DeclarationsIn(r, i.source) = {}
  BY <1>3, <1>4
<1> QED BY <1>5, <1>6, <1>7 DEF Asked, ConfigurationIds

(* Whatever a checkout holds, a plan asks about the source of a variable as *)
(* unknown exactly when no manifest declares it, and as a mismatch exactly  *)
(* when it is declared in one place only and without the entry; equal       *)
(* declarations in two places are as ambiguous as different ones.  It stays *)
(* so when services of the checkout have been deleted since its scan        *)
(* (scanner.py, scan_repository_facts, kubernetes_configuration.py and the  *)
(* derive functions of change_plan.py).                                     *)
THEOREM ConfigurationAlwaysReviewed == ReviewSpec => []ConfigurationReviewed
<1>1. ReviewInv => ConfigurationReviewed
  BY ConfigurationHolds DEF ReviewInv
<1> QED BY <1>1, RowsAgree, PTL

-----------------------------------------------------------------------------
(* Ownership of persisted names.                                           *)

LEMMA LeastNumber ==
    ASSUME NEW S \in SUBSET Nat, S # {}
    PROVE  \E m \in S : \A d \in S : m <= d
<1> DEFINE R == OpToRel(<, Nat)
<1>1. IsWellFoundedOn(R, Nat)
  BY NatLessThanWellFounded
<1>2. \A d, e \in Nat : d < e => <<d, e>> \in R
  BY DEF OpToRel
<1> HIDE DEF R
<1>3. PICK m \in S : \A d \in S : ~(<<d, m>> \in R)
  BY <1>1, WFMin
<1>4. ASSUME NEW d \in S
      PROVE  m <= d
  <2>1. d \in Nat /\ m \in Nat /\ ~(d < m)
    BY <1>2, <1>3
  <2> QED BY <2>1
<1> QED BY <1>4

(* The spelling of a finding is one of its name.                            *)
LEMMA SpellingOfGroup ==
    ASSUME FactsInv, NEW group, NEW s \in Indexed, Owners(s, group) # {}
    PROVE  Fold(AggregateSpelling(group)) = group[1]
<1> DEFINE owners == {t \in Indexed : Owners(t, group) # {}}
           first == CHOOSE t \in Indexed :
                        /\ Owners(t, group) # {}
                        /\ \A u \in Indexed : Owners(u, group) # {} => t <= u
           spellings == {d.name : d \in {c \in facts[first].owned :
                                            <<Fold(c.name), c.kind>> = group}}
<1>1. owners \in SUBSET Nat /\ owners # {}
  BY ServiceIdsAssumption DEF FactsInv
<1>2. PICK m \in owners : \A d \in owners : m <= d
  BY <1>1, LeastNumber
<1>3. Owners(first, group) # {}
  BY <1>2
<1> HIDE DEF first
<1>4. spellings # {}
  BY <1>3 DEF Owners
<1>5. \A n \in spellings : Fold(n) = group[1]
  OBVIOUS
<1> HIDE DEF spellings
<1>6. (CHOOSE n \in spellings : TRUE) \in spellings
  BY <1>4
<1> QED BY <1>5, <1>6 DEF AggregateSpelling, spellings, first

OwnersOf(group) == {ServiceName(s) : s \in {t \in Indexed : Owners(t, group) # {}}}

LEMMA OverlapIs ==
    ASSUME FactsInv, NEW f \in FindAggregateOwnershipOverlap
    PROVE  \E group : /\ group = <<group[1], group[2]>>
                      /\ f.services = OwnersOf(group) /\ f.aggregate = AggregateSpelling(group)
                      /\ f.persistence = group[2] /\ Fold(f.aggregate) = group[1]
<1> DEFINE owning(g) == ServicesWith(LAMBDA t : Owners(t, g) # {})
           all == {<<Fold(d.name), d.kind>> : d \in UNION {facts[s].owned : s \in Indexed}}
           groups == {g \in all : Cardinality(owning(g)) > 1}
           finding(g) == [kind |-> "possible_aggregate_ownership_overlap", confidence |-> 65,
                          services |-> {ServiceName(s) : s \in owning(g)},
                          aggregate |-> AggregateSpelling(g), persistence |-> g[2],
                          owners |-> UNION {{<<ServiceName(s), o>> : o \in Owners(s, g)} :
                                               s \in Indexed}]
<1>1. FindAggregateOwnershipOverlap = {finding(g) : g \in groups}
  BY DEF FindAggregateOwnershipOverlap
<1>2. \A g : owning(g) = {t \in Indexed : Owners(t, g) # {}}
  BY DEF ServicesWith
<1>3. \A g : /\ finding(g).services = {ServiceName(s) : s \in owning(g)}
             /\ finding(g).aggregate = AggregateSpelling(g)
             /\ finding(g).persistence = g[2]
  OBVIOUS
<1>4. \A g \in all : g = <<g[1], g[2]>>
  OBVIOUS
<1> HIDE DEF finding, all, owning
<1>5. PICK group \in groups : f = finding(group)
  BY <1>1
<1>6. owning(group) # {}
  <2>1. Cardinality({}) = 0
    BY FS_EmptySet
  <2>2. Cardinality(owning(group)) > 1
    BY <1>5
  <2>3. CASE owning(group) = {}
    <3>1. 0 > 1
      BY <2>1, <2>2, <2>3
    <3> QED BY <3>1
  <2> QED BY <2>3
<1>7. PICK s \in Indexed : Owners(s, group) # {}
  BY <1>2, <1>6
<1>8. Fold(AggregateSpelling(group)) = group[1]
  BY <1>7, SpellingOfGroup
<1>9. f.services = OwnersOf(group)
  BY <1>2, <1>3, <1>5 DEF OwnersOf
<1>10. group = <<group[1], group[2]>>
  BY <1>4, <1>5
<1> HIDE DEF groups
<1> QED BY <1>3, <1>5, <1>8, <1>9, <1>10

LEMMA OwnersFinite ==
    ASSUME FactsInv, NEW group
    PROVE  IsFiniteSet(OwnersOf(group))
<1> DEFINE S == {t \in Indexed : Owners(t, group) # {}}
           f == [s \in S |-> ServiceName(s)]
<1>1. IsFiniteSet(S)
  BY FS_Subset DEF FactsInv
<1>2. f \in Surjection(S, OwnersOf(group))
  BY DEF Surjection, OwnersOf
<1> HIDE DEF S, f
<1> QED BY <1>1, <1>2, FS_Surjection

LEMMA PairUnitIs ==
    ASSUME NEW role, NEW service, NEW a, NEW b, NEW dependencies
    PROVE  LET u == Unit(role, service, <<a, b>>, dependencies)
           IN  /\ u.id[1] = role /\ u.id[2] = service /\ u.id[3] = a /\ u.id[4] = b
               /\ u.service = service /\ u.dependencies = dependencies
<1> DEFINE key == <<a, b>>
           id == <<role, service>> \o key
<1>1. PICK S : key \in Seq(S)
  BY Keys
<1>2. Len(key) = 2 /\ key[1] = a /\ key[2] = b
  OBVIOUS
<1> HIDE DEF key
<1>3. id[1] = role /\ id[2] = service
  BY <1>1, UnitIs
<1>4. \A i \in 1..Len(key) : id[i + 2] = key[i]
  BY <1>1, UnitIs
<1> HIDE DEF id
<1>5. id[1 + 2] = key[1] /\ id[2 + 2] = key[2]
  BY <1>2, <1>4
<1> USE DEF id
<1>6. Unit(role, service, key, dependencies).id = id
      /\ Unit(role, service, key, dependencies).service = service
      /\ Unit(role, service, key, dependencies).dependencies = dependencies
  BY <1>1, UnitIs
<1>7. id[3] = a /\ id[4] = b
  BY <1>2, <1>5
<1> HIDE DEF id
<1> QED BY <1>3, <1>6, <1>7 DEF key

OwnershipUnit(owner, group) ==
    Unit("aggregate-ownership", owner, <<group[2], AggregateSpelling(group)>>,
         OwnersOf(group) \ {owner})

(* The unit u asks one service of a plan who owns the names of a group.     *)
AsksAbout(u, group, services) ==
    /\ group = <<group[1], group[2]>>
    /\ u.id[3] = group[2] /\ Fold(u.id[4]) = group[1]
    /\ \E owner \in services :
           OwnersOf(group) \cap services = {owner} /\ u = OwnershipUnit(owner, group)

LEMMA OwnershipUnits ==
    ASSUME FactsInv, NEW services,
           NEW u \in DeriveAggregateOwnership(FindAggregateOwnershipOverlap, services)
    PROVE  \E group : AsksAbout(u, group, services)
<1>1. PICK f \in FindAggregateOwnershipOverlap :
          /\ Cardinality(f.services \cap services) = 1
          /\ \E s \in f.services \cap services :
                 u = Unit("aggregate-ownership", s, <<f.persistence, f.aggregate>>,
                          f.services \ {s})
  BY DEF DeriveAggregateOwnership
<1>2. PICK owner \in f.services \cap services :
          u = Unit("aggregate-ownership", owner, <<f.persistence, f.aggregate>>,
                   f.services \ {owner})
  BY <1>1
<1>3. PICK group : /\ group = <<group[1], group[2]>>
                   /\ f.services = OwnersOf(group) /\ f.aggregate = AggregateSpelling(group)
                   /\ f.persistence = group[2] /\ Fold(f.aggregate) = group[1]
  BY OverlapIs
<1>4. OwnersOf(group) \cap services = {owner}
  <2>1. IsFiniteSet(f.services \cap services)
    BY <1>3, OwnersFinite, FS_Subset
  <2> QED BY <1>1, <1>2, <1>3, <2>1, FS_Singleton
<1>5. u.id[3] = f.persistence /\ u.id[4] = f.aggregate
  BY <1>2, PairUnitIs
<1> QED BY <1>2, <1>3, <1>4, <1>5 DEF AsksAbout, OwnershipUnit

LEMMA NameReviewedOnce ==
    ASSUME FactsInv, NEW services, NEW name
    PROVE  LET asked == {u \in DeriveAggregateOwnership(FindAggregateOwnershipOverlap, services) :
                            /\ u.id[3] = name.kind
                            /\ Fold(u.id[4]) = Fold(name.name)}
               owners == OwnersOf(<<Fold(name.name), name.kind>>)
           IN  /\ Cardinality(asked) <= 1
               /\ \A u \in asked : /\ u.service \in services
                                   /\ {u.service} \cup u.dependencies = owners
<1> DEFINE units == DeriveAggregateOwnership(FindAggregateOwnershipOverlap, services)
           asked == {u \in units : /\ u.id[3] = name.kind
                                   /\ Fold(u.id[4]) = Fold(name.name)}
           group == <<Fold(name.name), name.kind>>
<1>1. ASSUME NEW u \in asked
      PROVE  \E owner \in services :
                 OwnersOf(group) \cap services = {owner} /\ u = OwnershipUnit(owner, group)
  <2>1. u \in units /\ u.id[3] = group[2] /\ Fold(u.id[4]) = group[1]
    OBVIOUS
  <2> HIDE DEF asked, group
  <2>2. PICK g : AsksAbout(u, g, services)
    BY <2>1, OwnershipUnits
  <2>3. g = group
    BY <2>1, <2>2 DEF AsksAbout, group
  <2> QED BY <2>2, <2>3 DEF AsksAbout
<1>2. \A owner : OwnershipUnit(owner, group).service = owner
                 /\ OwnershipUnit(owner, group).dependencies = OwnersOf(group) \ {owner}
  BY PairUnitIs DEF OwnershipUnit
<1> HIDE DEF asked, group
<1>3. \A u, v \in asked : u = v
  BY <1>1
<1>4. Cardinality(asked) <= 1
  BY <1>3, AtMostOne
<1>5. \A u \in asked : /\ u.service \in services
                       /\ {u.service} \cup u.dependencies = OwnersOf(group)
  BY <1>1, <1>2
<1> QED BY <1>4, <1>5 DEF asked, group

LEMMA OwnershipHolds ==
    ASSUME FactsInv
    PROVE  OwnershipReviewedOnce
<1> SUFFICES ASSUME NEW primary \in SUBSET AllNames,
                    NEW name \in UNION {facts[s].owned : s \in Indexed}
             PROVE  LET units == DeriveAggregateOwnership(FindAggregateOwnershipOverlap,
                                                          PlanServices(primary))
                        asked == {u \in units : /\ u.id[3] = name.kind
                                                /\ Fold(u.id[4]) = Fold(name.name)}
                        owners == {ServiceName(s) : s \in
                                      {t \in Indexed :
                                          Owners(t, <<Fold(name.name), name.kind>>) # {}}}
                    IN  /\ Cardinality(asked) <= 1
                        /\ \A u \in asked : /\ u.service \in PlanServices(primary)
                                            /\ {u.service} \cup u.dependencies = owners
  BY DEF OwnershipReviewedOnce
<1> DEFINE units == DeriveAggregateOwnership(FindAggregateOwnershipOverlap,
                                             PlanServices(primary))
           asked == {u \in units : /\ u.id[3] = name.kind
                                   /\ Fold(u.id[4]) = Fold(name.name)}
           owners == OwnersOf(<<Fold(name.name), name.kind>>)
<1>1. /\ Cardinality(asked) <= 1
      /\ \A u \in asked : /\ u.service \in PlanServices(primary)
                          /\ {u.service} \cup u.dependencies = owners
  BY NameReviewedOnce, Zenon
<1>2. owners = {ServiceName(s) : s \in
                   {t \in Indexed : Owners(t, <<Fold(name.name), name.kind>>) # {}}}
  BY DEF OwnersOf
<1> QED BY <1>1, <1>2, Zenon

(* Whatever services a plan is about, it asks once at most who owns a       *)
(* persisted name, of a service of the plan, and lists the others that      *)
(* declare the name (find_aggregate_ownership_overlap and the derive        *)
(* function of change_plan.py).                                             *)
THEOREM OwnershipAlwaysReviewedOnce == ReviewSpec => []OwnershipReviewedOnce
<1>1. ReviewInv => OwnershipReviewedOnce
  BY OwnershipHolds DEF ReviewInv
<1> QED BY <1>1, RowsAgree, PTL

-----------------------------------------------------------------------------
(* Publications outside a transaction.                                     *)

LEMMA GreatestNumber ==
    ASSUME NEW n \in Nat, NEW S \in SUBSET (1..n), S # {}
    PROVE  \E m \in S : \A d \in S : d <= m
<1> DEFINE gaps == {n - d : d \in S}
<1>1. gaps \in SUBSET Nat /\ gaps # {}
  <2>1. \A d \in S : d \in 1..n
    OBVIOUS
  <2>2. \A d \in 1..n : n - d \in Nat
    OBVIOUS
  <2>3. \A d \in S : n - d \in Nat
    BY <2>1, <2>2
  <2> QED BY <2>3
<1>2. PICK g \in gaps : \A h \in gaps : g <= h
  BY <1>1, LeastNumber
<1>3. PICK m \in S : g = n - m
  OBVIOUS
<1>4. ASSUME NEW d \in S
      PROVE  d <= m
  <2>1. n - d \in gaps /\ d \in Int /\ m \in Int
    OBVIOUS
  <2>2. n - m <= n - d
    BY <1>2, <1>3, <2>1
  <2> QED BY <2>1, <2>2
<1> QED BY <1>4

(* The entrypoint that the edges of a symbol are tied to has that symbol.   *)
LEMMA EntrypointTied ==
    ASSUME FactsInv, NEW s \in Indexed, NEW symbol
    PROVE  /\ 0 \notin DOMAIN facts[s].entries
           /\ EntrypointIdOf(s, symbol) \in DOMAIN facts[s].entries
              => facts[s].entries[EntrypointIdOf(s, symbol)].symbol = symbol
           /\ symbol \in EntrypointSymbols(s)
              => EntrypointIdOf(s, symbol) \in DOMAIN facts[s].entries
<1> DEFINE entries == facts[s].entries
           ids == {i \in DOMAIN entries : entries[i].symbol = symbol}
           last == CHOOSE i \in ids : \A j \in ids : j <= i
<1>1. Len(entries) \in Nat /\ DOMAIN entries = 1..Len(entries)
  BY DEF FactsInv, AreRows
<1>2. EntrypointIdOf(s, symbol) = IF ids = {} THEN 0 ELSE last
  BY DEF EntrypointIdOf
<1>3. symbol \in EntrypointSymbols(s) <=> ids # {}
  BY DEF EntrypointSymbols
<1>4. ids # {} => last \in ids
  <2>1. ids # {} => \E m \in ids : \A j \in ids : j <= m
    BY <1>1, GreatestNumber
  <2> HIDE DEF ids
  <2> QED BY <2>1
<1>5. ids \subseteq DOMAIN entries /\ \A i \in ids : entries[i].symbol = symbol
  OBVIOUS
<1> HIDE DEF ids, last
<1> QED BY <1>1, <1>2, <1>3, <1>4, <1>5

LEMMA EntrypointIdIs ==
    ASSUME NEW id \in EntrypointIds
    PROVE  /\ id = <<id[1], id[2]>>
           /\ id[1] \in Indexed /\ id[2] \in DOMAIN facts[id[1]].entries
  BY DEF EntrypointIds

EntrypointPublishes(s, symbol) ==
    {g \in FindNonAtomicPublish : g.service = ServiceName(s) /\ g.entrypoint.symbol = symbol}

ServicePublishes(s, symbol) ==
    {g \in FindNonAtomicServicePublish : g.service = ServiceName(s) /\ g.symbol = symbol}

LEMMA EntrypointPublishesAre ==
    ASSUME FactsInv, NEW s \in Indexed, NEW symbol,
           StaticFlowEdges(<<s, symbol>>, "writes") # {},
           StaticFlowEdges(<<s, symbol>>, "publishes") # {},
           ~HasBoundary(s, symbol, "transaction")
    PROVE  EntrypointPublishes(s, symbol)
           = IF symbol \in EntrypointSymbols(s)
             THEN {EntrypointFinding("possible_non_atomic_publish",
                                     <<s, EntrypointIdOf(s, symbol)>>, 50)}
             ELSE {}
<1> DEFINE finding(id) == EntrypointFinding("possible_non_atomic_publish", id, 50)
           found == <<s, EntrypointIdOf(s, symbol)>>
<1>1. \A id : /\ finding(id).service = ServiceName(id[1])
              /\ finding(id).entrypoint = EntrypointOf(id)
  BY DEF EntrypointFinding
<1>2. \A g : g \in FindNonAtomicPublish
             <=> \E id \in EntrypointIds :
                     /\ g = finding(id)
                     /\ DirectOperations(id, "writes") # {}
                     /\ DirectOperations(id, "publishes") # {}
                     /\ ~HasBoundary(id[1], EntrypointOf(id).symbol, "transaction")
  BY DEF FindNonAtomicPublish
<1> HIDE DEF finding
<1>3. ASSUME NEW g \in EntrypointPublishes(s, symbol)
      PROVE  symbol \in EntrypointSymbols(s) /\ g = finding(found)
  <2>1. PICK id \in EntrypointIds : g = finding(id) /\ DirectOperations(id, "writes") # {}
    BY <1>2 DEF EntrypointPublishes
  <2>2. /\ id = <<id[1], id[2]>> /\ id[1] \in Indexed
        /\ id[2] \in DOMAIN facts[id[1]].entries
    BY EntrypointIdIs
  <2>3. id[1] = s /\ EntrypointOf(id).symbol = symbol
    BY <1>1, <2>1, <2>2, NamesDiffer DEF EntrypointPublishes
  <2>4. PICK e \in facts[s].edges : EntrypointIdOf(s, e.from) = id[2]
    BY <2>1, <2>3 DEF DirectOperations
  <2>5. facts[s].entries[id[2]].symbol = e.from
    BY <2>2, <2>3, <2>4, EntrypointTied
  <2>6. e.from = symbol
    BY <2>3, <2>5 DEF EntrypointOf
  <2>7. id = found
    BY <2>2, <2>3, <2>4, <2>6
  <2>8. symbol \in EntrypointSymbols(s)
    BY <2>2, <2>3 DEF EntrypointSymbols, EntrypointOf
  <2> QED BY <2>1, <2>7, <2>8
<1>4. ASSUME symbol \in EntrypointSymbols(s)
      PROVE  finding(found) \in EntrypointPublishes(s, symbol)
  <2>1. found[1] = s /\ found[2] = EntrypointIdOf(s, symbol)
    OBVIOUS
  <2>2. EntrypointIdOf(s, symbol) \in DOMAIN facts[s].entries
        /\ facts[s].entries[EntrypointIdOf(s, symbol)].symbol = symbol
    BY <1>4, EntrypointTied
  <2>3. found \in EntrypointIds
    BY <2>2 DEF EntrypointIds
  <2> HIDE DEF found
  <2>4. EntrypointOf(found).symbol = symbol
    BY <2>1, <2>2 DEF EntrypointOf
  <2>5. ASSUME NEW kind, StaticFlowEdges(<<s, symbol>>, kind) # {}
        PROVE  DirectOperations(found, kind) # {}
    <3>1. PICK e \in facts[s].edges : e.from = symbol /\ e.kind = kind /\ e.origin = "static"
      BY <2>5 DEF StaticFlowEdges, FlowEdgesBySource
    <3> QED BY <2>1, <3>1 DEF DirectOperations
  <2>6. DirectOperations(found, "writes") # {} /\ DirectOperations(found, "publishes") # {}
    BY <2>5
  <2>7. finding(found) \in FindNonAtomicPublish
    BY <1>2, <2>1, <2>3, <2>4, <2>6
  <2> QED BY <1>1, <2>1, <2>4, <2>7 DEF EntrypointPublishes
<1> HIDE DEF found
<1>5. CASE symbol \in EntrypointSymbols(s)
  <2>1. EntrypointPublishes(s, symbol) = {finding(found)}
    BY <1>3, <1>4, <1>5
  <2> QED BY <1>5, <2>1 DEF found, finding
<1>6. CASE symbol \notin EntrypointSymbols(s)
  BY <1>3, <1>6
<1> QED BY <1>5, <1>6

LEMMA ServicePublishesAre ==
    ASSUME FactsInv, NEW s \in Indexed, NEW symbol, <<s, symbol>> \in Flows,
           StaticFlowEdges(<<s, symbol>>, "writes") # {},
           StaticFlowEdges(<<s, symbol>>, "publishes") # {},
           ~HasBoundary(s, symbol, "transaction")
    PROVE  /\ symbol \in EntrypointSymbols(s) => ServicePublishes(s, symbol) = {}
           /\ symbol \notin EntrypointSymbols(s) => \E g : ServicePublishes(s, symbol) = {g}
<1> DEFINE finding(f) ==
               [kind |-> "possible_non_atomic_service_publish", service |-> ServiceName(f[1]),
                others |-> {}, symbol |-> f[2], publishes |-> Targets(Visible(Publishes(f))),
                confidence |-> 50]
           flow == <<s, symbol>>
<1>1. \A f : finding(f).service = ServiceName(f[1]) /\ finding(f).symbol = f[2]
  OBVIOUS
<1>2. \A g : g \in FindNonAtomicServicePublish
             <=> \E f \in Flows :
                     /\ g = finding(f)
                     /\ Writes(f) # {} /\ Publishes(f) # {}
                     /\ f[2] \notin EntrypointSymbols(f[1])
                     /\ ~HasBoundary(f[1], f[2], "transaction")
  BY DEF FindNonAtomicServicePublish
<1> HIDE DEF finding
<1>3. \A f \in Flows : f = <<f[1], f[2]>> /\ f[1] \in Indexed
  BY DEF Flows
<1>4. ASSUME NEW g \in ServicePublishes(s, symbol)
      PROVE  symbol \notin EntrypointSymbols(s) /\ g = finding(flow)
  <2>1. PICK f \in Flows : g = finding(f) /\ f[2] \notin EntrypointSymbols(f[1])
    BY <1>2 DEF ServicePublishes
  <2>2. f[1] = s /\ f[2] = symbol
    BY <1>1, <1>3, <2>1, NamesDiffer DEF ServicePublishes
  <2>3. f = flow
    BY <1>3, <2>2
  <2> QED BY <2>1, <2>2, <2>3
<1>5. ASSUME symbol \notin EntrypointSymbols(s)
      PROVE  finding(flow) \in ServicePublishes(s, symbol)
  <2>1. flow[1] = s /\ flow[2] = symbol /\ flow \in Flows
    OBVIOUS
  <2>2. Writes(flow) # {} /\ Publishes(flow) # {}
    BY DEF Writes, Publishes, StaticFlowEdges
  <2> HIDE DEF flow
  <2>3. finding(flow) \in FindNonAtomicServicePublish
    BY <1>2, <1>5, <2>1, <2>2
  <2> QED BY <1>1, <2>1, <2>3 DEF ServicePublishes
<1> HIDE DEF flow
<1>6. symbol \notin EntrypointSymbols(s) => ServicePublishes(s, symbol) = {finding(flow)}
  BY <1>4, <1>5
<1> QED BY <1>4, <1>6

LEMMA NonAtomicHolds ==
    ASSUME FactsInv
    PROVE  NonAtomicPublishReportedOnce
<1> SUFFICES ASSUME NEW f \in Flows,
                    StaticFlowEdges(f, "writes") # {}, StaticFlowEdges(f, "publishes") # {},
                    ~HasBoundary(f[1], f[2], "transaction")
             PROVE  Cardinality(EntrypointPublishes(f[1], f[2]))
                    + Cardinality(ServicePublishes(f[1], f[2])) = 1
  BY DEF NonAtomicPublishReportedOnce, EntrypointPublishes, ServicePublishes
<1>1. f = <<f[1], f[2]>> /\ f[1] \in Indexed
  BY DEF Flows
<1>2. Cardinality({}) = 0 /\ \A x : Cardinality({x}) = 1
  BY FS_EmptySet, FS_Singleton
<1>3. CASE f[2] \in EntrypointSymbols(f[1])
  <2>1. \E g : EntrypointPublishes(f[1], f[2]) = {g}
    BY <1>1, <1>3, EntrypointPublishesAre
  <2>2. ServicePublishes(f[1], f[2]) = {}
    BY <1>1, <1>3, ServicePublishesAre
  <2>3. Cardinality(EntrypointPublishes(f[1], f[2])) = 1
        /\ Cardinality(ServicePublishes(f[1], f[2])) = 0
    BY <1>2, <2>1, <2>2
  <2> QED BY <2>3
<1>4. CASE f[2] \notin EntrypointSymbols(f[1])
  <2>1. EntrypointPublishes(f[1], f[2]) = {}
    BY <1>1, <1>4, EntrypointPublishesAre
  <2>2. \E g : ServicePublishes(f[1], f[2]) = {g}
    BY <1>1, <1>4, ServicePublishesAre
  <2>3. Cardinality(EntrypointPublishes(f[1], f[2])) = 0
        /\ Cardinality(ServicePublishes(f[1], f[2])) = 1
    BY <1>2, <2>1, <2>2
  <2> QED BY <2>3
<1> QED BY <1>3, <1>4

(* Whatever is indexed, a symbol that writes and publishes outside a        *)
(* transaction is reported once, as an entrypoint or as a method that one   *)
(* delegates to (find_flow_hypotheses and                                   *)
(* find_non_atomic_service_publish_flows of architecture.py).               *)
THEOREM NonAtomicAlwaysReportedOnce == ReviewSpec => []NonAtomicPublishReportedOnce
<1>1. ReviewInv => NonAtomicPublishReportedOnce
  BY NonAtomicHolds DEF ReviewInv
<1> QED BY <1>1, RowsAgree, PTL

-----------------------------------------------------------------------------
(* Channels of flows that are retried, and their consumers.                *)

LEMMA DetectorKinds ==
    /\ \A g \in FindBffDomainLeakage : g.kind = "possible_bff_domain_leakage"
    /\ \A g \in FindNonAtomicPublish : g.kind = "possible_non_atomic_publish"
    /\ \A g \in FindReadEntrypointSideEffects : g.kind = "possible_read_entrypoint_side_effect"
    /\ \A g \in FindResiliencePoliciesOnWriteFlows :
           g.kind = "possible_resilience_policy_on_partial_write_flow"
    /\ \A g \in FindRetriesOnWritePublishFlows :
           g.kind = "possible_retry_on_write_publish_flow" /\ g.confidence = 70
    /\ \A g \in FindNonAtomicServicePublish :
           g.kind = "possible_non_atomic_service_publish" /\ g.confidence = 50
    /\ \A g \in FindConsumersWithoutRecovery :
           g.kind = "possible_message_consumer_without_recovery_policy"
<1>1. \A g \in FindBffDomainLeakage : g.kind = "possible_bff_domain_leakage"
  BY DEF FindBffDomainLeakage, EntrypointFinding
<1>2. \A g \in FindNonAtomicPublish : g.kind = "possible_non_atomic_publish"
  BY DEF FindNonAtomicPublish, EntrypointFinding
<1>3. \A g \in FindReadEntrypointSideEffects : g.kind = "possible_read_entrypoint_side_effect"
  BY DEF FindReadEntrypointSideEffects, EntrypointFinding
<1>4. \A g \in FindResiliencePoliciesOnWriteFlows :
          g.kind = "possible_resilience_policy_on_partial_write_flow"
  <2> DEFINE Calls(s) == {d \in facts[s].calls :
                             /\ d.protocol = "http"
                             /\ PoliciesBySource(s, d.source, {"retry", "timeout"}) # {}
                             /\ Writes(<<s, d.source>>) # {}}
             finding(s, c) == [kind |-> "possible_resilience_policy_on_partial_write_flow",
                               service |-> ServiceName(s), others |-> {}, symbol |-> c.source,
                               target |-> c.target, contract |-> <<c.method, c.path>>,
                               line |-> c.line, confidence |-> 70]
  <2>1. FindResiliencePoliciesOnWriteFlows
        = UNION {{finding(s, c) : c \in Calls(s)} : s \in Indexed}
    BY DEF FindResiliencePoliciesOnWriteFlows
  <2>2. \A s, c : finding(s, c).kind = "possible_resilience_policy_on_partial_write_flow"
    OBVIOUS
  <2> HIDE DEF Calls, finding
  <2> QED BY <2>1, <2>2
<1>5. \A g \in FindRetriesOnWritePublishFlows :
          g.kind = "possible_retry_on_write_publish_flow" /\ g.confidence = 70
  BY DEF FindRetriesOnWritePublishFlows
<1>6. \A g \in FindNonAtomicServicePublish :
          g.kind = "possible_non_atomic_service_publish" /\ g.confidence = 50
  BY DEF FindNonAtomicServicePublish
<1>7. \A g \in FindConsumersWithoutRecovery :
          g.kind = "possible_message_consumer_without_recovery_policy"
  BY DEF FindConsumersWithoutRecovery
<1> QED BY <1>1, <1>2, <1>3, <1>4, <1>5, <1>6, <1>7

(* What a finding about a channel says of its flow and its place.           *)
AboutChannel(g, kind, confidence) ==
    /\ g.kind = kind /\ g.confidence = confidence
    /\ g.line \in Nat
    /\ \E f \in RetryingWritePublishFlows : g.service = ServiceName(f[1]) /\ g.symbol = f[2]

LEMMA PublishedLines ==
    ASSUME FactsInv, NEW f \in RetryingWritePublishFlows, NEW p \in Publishes(f)
    PROVE  p.line \in Nat /\ f = <<f[1], f[2]>> /\ f[1] \in Indexed
<1>1. f = <<f[1], f[2]>> /\ f[1] \in Indexed
  BY DEF RetryingWritePublishFlows, Flows
<1>2. p \in facts[f[1]].edges
  BY DEF Publishes, FlowEdgesBySource
<1> QED BY <1>1, <1>2 DEF FactsInv, AreRows

LEMMA ConsumerFindings ==
    ASSUME FactsInv
    PROVE  /\ \A g \in FindRetryFlowsWithConsumers : AboutChannel(g, ConsumerKind, 75)
           /\ \A f \in RetryingWritePublishFlows : \A p \in Publishes(f) :
                  (\E c \in Consumers(p.to) : c.service # f[1])
                  => \E g \in FindRetryFlowsWithConsumers :
                         g.service = ServiceName(f[1]) /\ g.symbol = f[2] /\ g.channel = p.to
<1>1. ASSUME NEW g \in FindRetryFlowsWithConsumers
      PROVE  \E f \in RetryingWritePublishFlows : \E p \in Publishes(f) :
                 /\ g.kind = ConsumerKind /\ g.confidence = 75 /\ g.line = p.line
                 /\ g.service = ServiceName(f[1]) /\ g.symbol = f[2]
  BY DEF FindRetryFlowsWithConsumers, ReachingFindings, ConsumerKind
<1>2. ASSUME NEW g \in FindRetryFlowsWithConsumers
      PROVE  AboutChannel(g, ConsumerKind, 75)
  BY <1>1, PublishedLines DEF AboutChannel
<1>3. ASSUME NEW f \in RetryingWritePublishFlows, NEW p \in Publishes(f),
             \E c \in Consumers(p.to) : c.service # f[1]
      PROVE  \E g \in FindRetryFlowsWithConsumers :
                 g.service = ServiceName(f[1]) /\ g.symbol = f[2] /\ g.channel = p.to
  <2> DEFINE fp == <<f, p>>
  <2>1. fp[1] = f /\ fp[2] = p /\ fp \in UNION {{h} \X Publishes(h) : h \in RetryingWritePublishFlows}
    OBVIOUS
  <2> DEFINE elsewhere(q) == {c \in Consumers(q[2].to) : c.service # q[1][1]}
             Listed(c) == [service |-> ServiceName(c.service)]
             finding(q) ==
                 [kind |-> "possible_retry_write_publish_reaches_consumer",
                  service |-> ServiceName(q[1][1]),
                  others |-> {ServiceName(c.service) : c \in FirstConsumers(elsewhere(q))},
                  symbol |-> q[1][2], channel |-> q[2].to, line |-> q[2].line,
                  consumers |-> {Listed(c) : c \in FirstConsumers(elsewhere(q))},
                  confidence |-> 75]
  <2>2. FindRetryFlowsWithConsumers
        = {finding(q) : q \in {g \in UNION {{h} \X Publishes(h) : h \in RetryingWritePublishFlows} :
                                  \E c \in Consumers(g[2].to) : c.service # g[1][1]}}
    BY DEF FindRetryFlowsWithConsumers, ReachingFindings
  <2>3. \A q : /\ finding(q).service = ServiceName(q[1][1]) /\ finding(q).symbol = q[1][2]
               /\ finding(q).channel = q[2].to
    OBVIOUS
  <2> HIDE DEF fp, finding
  <2>4. finding(fp) \in FindRetryFlowsWithConsumers
    BY <1>3, <2>1, <2>2
  <2> QED BY <2>1, <2>3, <2>4
<1> QED BY <1>2, <1>3

LEMMA PersistentFindings ==
    ASSUME FactsInv
    PROVE  \A g \in FindRetryFlowsWithPersistentConsumers : AboutChannel(g, PersistentKind, 80)
<1>1. ASSUME NEW g \in FindRetryFlowsWithPersistentConsumers
      PROVE  \E f \in RetryingWritePublishFlows : \E p \in Publishes(f) :
                 /\ g.kind = PersistentKind /\ g.confidence = 80 /\ g.line = p.line
                 /\ g.service = ServiceName(f[1]) /\ g.symbol = f[2]
  BY DEF FindRetryFlowsWithPersistentConsumers, ReachingFindings, PersistentKind
<1> QED BY <1>1, PublishedLines DEF AboutChannel

(* The consumers that a finding about an unrecovered channel lists.         *)
UnrecoveredListed(s, channel) ==
    {[service |-> ServiceName(c.service), symbol |-> c.symbol,
      queue |-> UnrecoveredQueue(c.service, c.symbol)] :
        c \in FirstConsumers({d \in UnrecoveredConsumers(channel) : d.service # s})}

LEMMA UnrecoveredFindings ==
    ASSUME FactsInv
    PROVE  \A g \in FindRetryFlowsWithUnrecoveredConsumers :
               /\ AboutChannel(g, UnrecoveredKind, 65)
               /\ \E s \in Indexed : /\ g.service = ServiceName(s)
                                     /\ g.consumers = UnrecoveredListed(s, g.channel)
<1>1. ASSUME NEW g \in FindRetryFlowsWithUnrecoveredConsumers
      PROVE  \E f \in RetryingWritePublishFlows : \E p \in Publishes(f) :
                 /\ g.kind = UnrecoveredKind /\ g.confidence = 65 /\ g.line = p.line
                 /\ g.service = ServiceName(f[1]) /\ g.symbol = f[2]
                 /\ g.consumers = UnrecoveredListed(f[1], g.channel)
  BY DEF FindRetryFlowsWithUnrecoveredConsumers, ReachingFindings, UnrecoveredKind,
         UnrecoveredListed
<1> QED BY <1>1, PublishedLines DEF AboutChannel

(* The kind of a finding tells which detector returned it.                  *)
LEMMA DetectedBy ==
    ASSUME FactsInv, NEW g \in FlowDetectors
    PROVE  /\ g.kind = UnrecoveredKind => g \in FindRetryFlowsWithUnrecoveredConsumers
           /\ g.kind = PersistentKind => g \in FindRetryFlowsWithPersistentConsumers
           /\ g.kind = ConsumerKind => g \in FindRetryFlowsWithConsumers
           /\ g.kind = "possible_retry_on_write_publish_flow"
              => g \in FindRetriesOnWritePublishFlows
           /\ g.kind = "possible_non_atomic_service_publish" => g \in FindNonAtomicServicePublish
<1>1. /\ \A h \in FindRetryFlowsWithUnrecoveredConsumers : h.kind = UnrecoveredKind
      /\ \A h \in FindRetryFlowsWithPersistentConsumers : h.kind = PersistentKind
      /\ \A h \in FindRetryFlowsWithConsumers : h.kind = ConsumerKind
  BY ConsumerFindings, PersistentFindings, UnrecoveredFindings DEF AboutChannel
<1> QED BY <1>1, DetectorKinds DEF FlowDetectors, UnrecoveredKind, PersistentKind, ConsumerKind

(* Units about flows and channels, one for each of the keys.                *)
OneUnitPerKey(units, keys) ==
    /\ \A u \in units : \E k \in keys : u.service = k[1] /\ u.id[3] = <<k[2], k[3]>>
    /\ \A k \in keys : \E u \in units : u.service = k[1] /\ u.id[3] = <<k[2], k[3]>>
    /\ \A u, v \in units : u.service = v.service /\ u.id[3] = v.id[3] => u = v
    /\ \A k \in keys : k = <<k[1], k[2], k[3]>>

Keyed(units, keys, U) ==
    /\ \A u : u \in units <=> \E k \in keys : u = U[k]
    /\ \A k \in keys : /\ k = <<k[1], k[2], k[3]>>
                       /\ U[k].service = k[1] /\ U[k].id[3] = <<k[2], k[3]>>

LEMMA KeyedUnits ==
    ASSUME NEW keys, NEW U, NEW units, Keyed(units, keys, U)
    PROVE  OneUnitPerKey(units, keys)
<1> USE DEF Keyed
<1>1. \A u \in units : \E k \in keys : u.service = k[1] /\ u.id[3] = <<k[2], k[3]>>
  OBVIOUS
<1>2. ASSUME NEW k \in keys
      PROVE  \E u \in units : u.service = k[1] /\ u.id[3] = <<k[2], k[3]>>
  <2>1. U[k] \in units
    OBVIOUS
  <2> QED BY <2>1
<1>3. ASSUME NEW u \in units, NEW v \in units, u.service = v.service, u.id[3] = v.id[3]
      PROVE  u = v
  <2>1. PICK k \in keys : u = U[k]
    OBVIOUS
  <2>2. PICK l \in keys : v = U[l]
    OBVIOUS
  <2>3. k[1] = l[1] /\ <<k[2], k[3]>> = <<l[2], l[3]>>
    BY <1>3, <2>1, <2>2
  <2>4. k = l
    BY <2>3
  <2> QED BY <2>1, <2>2, <2>4
<1> QED BY <1>1, <1>2, <1>3 DEF OneUnitPerKey

LEMMA FirstHasKey ==
    ASSUME NEW selected, \A f \in selected : f.line \in Nat,
           NEW key \in {ChannelKey(f) : f \in selected}
    PROVE  LET first == FirstOf({f \in selected : ChannelKey(f) = key})
           IN  first \in selected /\ ChannelKey(first) = key
<1> DEFINE same == {f \in selected : ChannelKey(f) = key}
           lines == {f.line : f \in same}
<1>1. lines \in SUBSET Nat /\ lines # {}
  OBVIOUS
<1>2. PICK m \in lines : \A l \in lines : m <= l
  BY <1>1, LeastNumber
<1>3. \E f \in same : \A g \in same : f.line <= g.line
  BY <1>2
<1> HIDE DEF same
<1>4. FirstOf(same) \in same
  BY <1>3 DEF FirstOf
<1> QED BY <1>4 DEF same

LEMMA SelectedLines ==
    ASSUME FactsInv, NEW services, NEW confidence,
           NEW kind \in {UnrecoveredKind, PersistentKind, ConsumerKind},
           NEW f \in SelectedFlows(FlowDetectors, kind, services, confidence)
    PROVE  f.line \in Nat
<1>1. f \in FlowDetectors /\ f.kind = kind
  BY DEF SelectedFlows
<1> QED BY <1>1, DetectedBy, ConsumerFindings, PersistentFindings, UnrecoveredFindings
        DEF AboutChannel

ChannelKeys(kind, services, confidence, covered) ==
    {ChannelKey(f) : f \in SelectedFlows(FlowDetectors, kind, services, confidence)} \ covered

FirstWith(kind, services, confidence, key) ==
    FirstOf({f \in SelectedFlows(FlowDetectors, kind, services, confidence) :
                ChannelKey(f) = key})

MadeOfFirst(units, role, kind, services, confidence, covered, contracts, dependencies) ==
    \A u : u \in units
           <=> \E key \in ChannelKeys(kind, services, confidence, covered) :
                   LET first == FirstWith(kind, services, confidence, key)
                   IN  u = FlowUnit(role, first.service, <<first.symbol, first.channel>>,
                                    contracts[key], dependencies[key])

LEMMA ChannelUnitsAre ==
    ASSUME FactsInv, NEW role, NEW services, NEW confidence, NEW covered,
           NEW kind \in {UnrecoveredKind, PersistentKind, ConsumerKind},
           NEW contracts, NEW dependencies, NEW units,
           MadeOfFirst(units, role, kind, services, confidence, covered, contracts,
                       dependencies)
    PROVE  OneUnitPerKey(units, ChannelKeys(kind, services, confidence, covered))
<1> DEFINE keys == ChannelKeys(kind, services, confidence, covered)
           first(key) == FirstWith(kind, services, confidence, key)
           U == [key \in keys |-> FlowUnit(role, first(key).service,
                                           <<first(key).symbol, first(key).channel>>,
                                           contracts[key], dependencies[key])]
<1>1. ASSUME NEW key \in keys
      PROVE  ChannelKey(first(key)) = key
  <2>1. key \in {ChannelKey(f) : f \in SelectedFlows(FlowDetectors, kind, services, confidence)}
    BY DEF ChannelKeys
  <2> QED BY <2>1, FirstHasKey, SelectedLines DEF FirstWith
<1>2. \A key \in keys : U[key] = FlowUnit(role, first(key).service,
                                          <<first(key).symbol, first(key).channel>>,
                                          contracts[key], dependencies[key])
  OBVIOUS
<1>3. \A u : u \in units <=> \E key \in keys : u = U[key]
  BY <1>2 DEF MadeOfFirst
<1> HIDE DEF keys, U, first
<1>4. ASSUME NEW key \in keys
      PROVE  /\ key = <<key[1], key[2], key[3]>>
             /\ U[key].service = key[1] /\ U[key].id[3] = <<key[2], key[3]>>
  <2>1. key = <<first(key).service, first(key).symbol, first(key).channel>>
    BY <1>1 DEF ChannelKey
  <2>2. U[key] = FlowUnit(role, first(key).service, <<first(key).symbol, first(key).channel>>,
                          contracts[key], dependencies[key])
    BY <1>2
  <2>3. /\ U[key].service = first(key).service
        /\ U[key].id[3] = <<first(key).symbol, first(key).channel>>
    BY <2>2 DEF FlowUnit
  <2> QED BY <2>1, <2>3
<1>5. Keyed(units, keys, U)
  BY <1>3, <1>4 DEF Keyed
<1>6. OneUnitPerKey(units, keys)
  BY <1>5, KeyedUnits
<1> QED BY <1>6 DEF keys

LEMMA DeliveryUnits ==
    ASSUME FactsInv, NEW services
    PROVE  OneUnitPerKey(DeriveRetryDelivery(FlowDetectors, services),
                         ChannelKeys(PersistentKind, services, 80, ChannelsWithUnrecovered(FlowDetectors)))
<1> DEFINE keys == ChannelKeys(PersistentKind, services, 80, ChannelsWithUnrecovered(FlowDetectors))
           first(key) == FirstWith(PersistentKind, services, 80, key)
           contracts == [key \in keys |-> {Message(first(key).channel)}]
           dependencies == [key \in keys |-> {c.service : c \in first(key).consumers}]
           units == DeriveRetryDelivery(FlowDetectors, services)
<1>1. units = {FlowUnit("retry-delivery", first(key).service,
                        <<first(key).symbol, first(key).channel>>,
                        {Message(first(key).channel)},
                        {c.service : c \in first(key).consumers}) : key \in keys}
  BY DEF DeriveRetryDelivery, ChannelUnits, ChannelKeys, FirstWith
<1>2. \A key \in keys : /\ contracts[key] = {Message(first(key).channel)}
                       /\ dependencies[key] = {c.service : c \in first(key).consumers}
  OBVIOUS
<1> HIDE DEF keys, first, contracts, dependencies, units
<1>3. \A u : u \in units
             <=> \E key \in keys :
                     u = FlowUnit("retry-delivery", first(key).service,
                                  <<first(key).symbol, first(key).channel>>,
                                  contracts[key], dependencies[key])
  BY <1>1, <1>2
<1>4. MadeOfFirst(units, "retry-delivery", PersistentKind, services, 80,
                  ChannelsWithUnrecovered(FlowDetectors), contracts, dependencies)
  BY <1>3 DEF MadeOfFirst, keys, first
<1> QED BY <1>4, ChannelUnitsAre DEF units

LEMMA UnrecoveredDeliveryUnits ==
    ASSUME FactsInv, NEW services
    PROVE  OneUnitPerKey(DeriveRetryUnrecoveredDelivery(FlowDetectors, services),
                         ChannelKeys(UnrecoveredKind, services, 65, {}))
<1> DEFINE keys == ChannelKeys(UnrecoveredKind, services, 65, {})
           first(key) == FirstWith(UnrecoveredKind, services, 65, key)
           contracts == [key \in keys |-> {Message(first(key).channel)} \cup {Queue(c.queue) : c \in first(key).consumers}]
           dependencies == [key \in keys |-> {c.service : c \in first(key).consumers}]
           units == DeriveRetryUnrecoveredDelivery(FlowDetectors, services)
<1>1. units = {FlowUnit("retry-unrecovered-consumer-delivery", first(key).service,
                        <<first(key).symbol, first(key).channel>>,
                        {Message(first(key).channel)} \cup {Queue(c.queue) : c \in first(key).consumers},
                        {c.service : c \in first(key).consumers}) : key \in keys}
  BY DEF DeriveRetryUnrecoveredDelivery, ChannelUnits, ChannelKeys, FirstWith
<1>2. \A key \in keys : /\ contracts[key] = {Message(first(key).channel)} \cup {Queue(c.queue) : c \in first(key).consumers}
                       /\ dependencies[key] = {c.service : c \in first(key).consumers}
  OBVIOUS
<1> HIDE DEF keys, first, contracts, dependencies, units
<1>3. \A u : u \in units
             <=> \E key \in keys :
                     u = FlowUnit("retry-unrecovered-consumer-delivery", first(key).service,
                                  <<first(key).symbol, first(key).channel>>,
                                  contracts[key], dependencies[key])
  BY <1>1, <1>2
<1>4. MadeOfFirst(units, "retry-unrecovered-consumer-delivery", UnrecoveredKind, services, 65,
                  {}, contracts, dependencies)
  BY <1>3 DEF MadeOfFirst, keys, first
<1> QED BY <1>4, ChannelUnitsAre DEF units

LEMMA ConsumerDeliveryUnits ==
    ASSUME FactsInv, NEW services
    PROVE  OneUnitPerKey(DeriveRetryConsumerDelivery(FlowDetectors, services),
                         ChannelKeys(ConsumerKind, services, 75, ChannelsWithPersistent(FlowDetectors)))
<1> DEFINE keys == ChannelKeys(ConsumerKind, services, 75, ChannelsWithPersistent(FlowDetectors))
           first(key) == FirstWith(ConsumerKind, services, 75, key)
           contracts == [key \in keys |-> {Message(first(key).channel)}]
           dependencies == [key \in keys |-> {c.service : c \in first(key).consumers}]
           units == DeriveRetryConsumerDelivery(FlowDetectors, services)
<1>1. units = {FlowUnit("retry-consumer-delivery", first(key).service,
                        <<first(key).symbol, first(key).channel>>,
                        {Message(first(key).channel)},
                        {c.service : c \in first(key).consumers}) : key \in keys}
  BY DEF DeriveRetryConsumerDelivery, ChannelUnits, ChannelKeys, FirstWith
<1>2. \A key \in keys : /\ contracts[key] = {Message(first(key).channel)}
                       /\ dependencies[key] = {c.service : c \in first(key).consumers}
  OBVIOUS
<1> HIDE DEF keys, first, contracts, dependencies, units
<1>3. \A u : u \in units
             <=> \E key \in keys :
                     u = FlowUnit("retry-consumer-delivery", first(key).service,
                                  <<first(key).symbol, first(key).channel>>,
                                  contracts[key], dependencies[key])
  BY <1>1, <1>2
<1>4. MadeOfFirst(units, "retry-consumer-delivery", ConsumerKind, services, 75,
                  ChannelsWithPersistent(FlowDetectors), contracts, dependencies)
  BY <1>3 DEF MadeOfFirst, keys, first
<1> QED BY <1>4, ChannelUnitsAre DEF units

PublishedKeys(kind, services, confidence, covered) ==
    (UNION {{<<f.service, f.symbol, c>> : c \in f.publishes} :
               f \in SelectedFlows(FlowDetectors, kind, services, confidence)}) \ covered

LEMMA PublishedUnitsAre ==
    ASSUME NEW role, NEW selected, NEW covered
    PROVE  OneUnitPerKey(PublishedUnits(role, selected, covered),
                         (UNION {{<<f.service, f.symbol, c>> : c \in f.publishes} :
                                    f \in selected}) \ covered)
<1> DEFINE all == UNION {{<<f.service, f.symbol, c>> : c \in f.publishes} : f \in selected}
           keys == all \ covered
           units == PublishedUnits(role, selected, covered)
           U == [key \in keys |-> FlowUnit(role, key[1], <<key[2], key[3]>>,
                                           {Message(key[3])}, {})]
<1>1. \A u : u \in units <=> \E key \in keys : u = U[key]
  BY DEF PublishedUnits
<1>2. \A key \in keys : U[key].service = key[1] /\ U[key].id[3] = <<key[2], key[3]>>
  BY DEF FlowUnit
<1>3. \A key \in all : key = <<key[1], key[2], key[3]>>
  OBVIOUS
<1> HIDE DEF all, units, U
<1>4. Keyed(units, keys, U)
  BY <1>1, <1>2, <1>3 DEF Keyed
<1>5. OneUnitPerKey(units, keys)
  BY <1>4, KeyedUnits
<1> QED BY <1>5 DEF units, all

LEMMA WritePublishUnits ==
    ASSUME NEW services
    PROVE  /\ OneUnitPerKey(DeriveRetryWritePublish(FlowDetectors, services),
                            PublishedKeys("possible_retry_on_write_publish_flow", services, 70,
                                          ChannelsWithConsumers(FlowDetectors)))
           /\ OneUnitPerKey(DeriveNonAtomicServicePublish(FlowDetectors, services),
                            PublishedKeys("possible_non_atomic_service_publish", services, 50,
                                          RetryWritePublishChannels(FlowDetectors)))
BY PublishedUnitsAre DEF DeriveRetryWritePublish, DeriveNonAtomicServicePublish, PublishedKeys

-----------------------------------------------------------------------------
(* The keys of the units are apart, and none is missing.                   *)

PublishedBy(kind) ==
    UNION {{<<f.service, f.symbol, c>> : c \in f.publishes} :
           f \in {g \in FlowDetectors : g.kind = kind}}

LEMMA SelectedAre ==
    ASSUME NEW services, NEW kind, NEW confidence \in Nat,
           \A f \in FlowDetectors : f.kind = kind => f.confidence = confidence
    PROVE  \A f : f \in SelectedFlows(FlowDetectors, kind, services, confidence)
                  <=> f \in FlowDetectors /\ f.kind = kind /\ f.service \in services
  BY DEF SelectedFlows

LEMMA SelectedKeys ==
    ASSUME NEW services, NEW kind, NEW confidence \in Nat, NEW covered, NEW key,
           key[1] \in services,
           \A f \in FlowDetectors : f.kind = kind => f.confidence = confidence
    PROVE  key \in ChannelKeys(kind, services, confidence, covered)
           <=> key \in CoveredChannels(FlowDetectors, {kind}) /\ key \notin covered
<1> DEFINE selected == SelectedFlows(FlowDetectors, kind, services, confidence)
<1>1. \A f : f \in selected <=> f \in FlowDetectors /\ f.kind = kind /\ f.service \in services
  BY SelectedAre
<1> HIDE DEF selected
<1>2. key \in {ChannelKey(f) : f \in selected}
      <=> key \in CoveredChannels(FlowDetectors, {kind})
  BY <1>1 DEF ChannelKey, CoveredChannels
<1> QED BY <1>2 DEF ChannelKeys, selected

LEMMA SelectedPublications ==
    ASSUME NEW services, NEW kind, NEW confidence \in Nat, NEW covered, NEW key,
           key[1] \in services,
           \A f \in FlowDetectors : f.kind = kind => f.confidence = confidence
    PROVE  key \in PublishedKeys(kind, services, confidence, covered)
           <=> key \in PublishedBy(kind) /\ key \notin covered
<1> DEFINE selected == SelectedFlows(FlowDetectors, kind, services, confidence)
<1>1. \A f : f \in selected <=> f \in FlowDetectors /\ f.kind = kind /\ f.service \in services
  BY SelectedAre
<1> HIDE DEF selected
<1>2. (\E f \in selected : \E c \in f.publishes : key = <<f.service, f.symbol, c>>)
      <=> key \in PublishedBy(kind)
  BY <1>1 DEF PublishedBy
<1> QED BY <1>2 DEF PublishedKeys, selected

LEMMA Confidences ==
    ASSUME FactsInv, NEW f \in FlowDetectors
    PROVE  /\ f.kind = UnrecoveredKind => f.confidence = 65
           /\ f.kind = PersistentKind => f.confidence = 80
           /\ f.kind = ConsumerKind => f.confidence = 75
           /\ f.kind = "possible_retry_on_write_publish_flow" => f.confidence = 70
           /\ f.kind = "possible_non_atomic_service_publish" => f.confidence = 50
BY DetectedBy, DetectorKinds, ConsumerFindings, PersistentFindings, UnrecoveredFindings
   DEF AboutChannel

(* A flow that is retried and listed as one that publishes outside a        *)
(* transaction is listed with the same channels as a retried one.           *)
LEMMA RetriedPublications ==
    ASSUME FactsInv, NEW f \in RetryingWritePublishFlows
    PROVE  /\ \A c \in Targets(Visible(Publishes(f))) :
                  <<ServiceName(f[1]), f[2], c>>
                  \in PublishedBy("possible_retry_on_write_publish_flow")
           /\ \A c : <<ServiceName(f[1]), f[2], c>>
                     \in PublishedBy("possible_non_atomic_service_publish")
                     => c \in Targets(Visible(Publishes(f)))
<1> DEFINE retried(g) == [kind |-> "possible_retry_on_write_publish_flow",
                          service |-> ServiceName(g[1]), others |-> {}, symbol |-> g[2],
                          publishes |-> Targets(Visible(Publishes(g))), confidence |-> 70]
<1>1. f = <<f[1], f[2]>> /\ f[1] \in Indexed
  BY DEF RetryingWritePublishFlows, Flows
<1>2. FindRetriesOnWritePublishFlows = {retried(g) : g \in RetryingWritePublishFlows}
  BY DEF FindRetriesOnWritePublishFlows
<1>3. /\ retried(f).kind = "possible_retry_on_write_publish_flow"
      /\ retried(f).service = ServiceName(f[1]) /\ retried(f).symbol = f[2]
      /\ retried(f).publishes = Targets(Visible(Publishes(f)))
  OBVIOUS
<1> HIDE DEF retried
<1>4. retried(f) \in FlowDetectors
  BY <1>2 DEF FlowDetectors
<1>5. \A c \in Targets(Visible(Publishes(f))) :
          <<ServiceName(f[1]), f[2], c>> \in PublishedBy("possible_retry_on_write_publish_flow")
  BY <1>3, <1>4 DEF PublishedBy
<1>6. ASSUME NEW c, <<ServiceName(f[1]), f[2], c>>
                    \in PublishedBy("possible_non_atomic_service_publish")
      PROVE  c \in Targets(Visible(Publishes(f)))
  <2>1. PICK g \in FlowDetectors :
            /\ g.kind = "possible_non_atomic_service_publish"
            /\ g.service = ServiceName(f[1]) /\ g.symbol = f[2] /\ c \in g.publishes
    BY <1>6 DEF PublishedBy
  <2>2. g \in FindNonAtomicServicePublish
    BY <2>1, DetectedBy
  <2>3. \E h \in Flows : /\ g.service = ServiceName(h[1]) /\ g.symbol = h[2]
                         /\ g.publishes = Targets(Visible(Publishes(h)))
    BY <2>2 DEF FindNonAtomicServicePublish
  <2>4. PICK h \in Flows : /\ g.service = ServiceName(h[1]) /\ g.symbol = h[2]
                           /\ g.publishes = Targets(Visible(Publishes(h)))
    BY <2>3
  <2>5. h = <<h[1], h[2]>> /\ h[1] \in Indexed
    BY DEF Flows
  <2>6. h = f
    BY <1>1, <2>1, <2>4, <2>5, NamesDiffer
  <2> QED BY <2>1, <2>4, <2>6
<1> QED BY <1>5, <1>6

RetriedKeys(services) ==
    <<ChannelKeys(UnrecoveredKind, services, 65, {}),
      ChannelKeys(PersistentKind, services, 80, ChannelsWithUnrecovered(FlowDetectors)),
      ChannelKeys(ConsumerKind, services, 75, ChannelsWithPersistent(FlowDetectors)),
      PublishedKeys("possible_retry_on_write_publish_flow", services, 70,
                    ChannelsWithConsumers(FlowDetectors)),
      PublishedKeys("possible_non_atomic_service_publish", services, 50,
                    RetryWritePublishChannels(FlowDetectors))>>

LEMMA OneFamilyAsks ==
    ASSUME FactsInv, NEW services, NEW f \in RetryingWritePublishFlows, NEW p \in Publishes(f),
           ServiceName(f[1]) \in services,
           \/ p \in Visible(Publishes(f))
           \/ \E c \in Consumers(p.to) : c.service # f[1]
    PROVE  \E i \in 1..5 : \A j \in 1..5 :
               <<ServiceName(f[1]), f[2], p.to>> \in RetriedKeys(services)[j] <=> i = j
<1> DEFINE key == <<ServiceName(f[1]), f[2], p.to>>
           D == FlowDetectors
           unrecovered == key \in CoveredChannels(D, {UnrecoveredKind})
           persistent == key \in CoveredChannels(D, {PersistentKind})
           consumer == key \in CoveredChannels(D, {ConsumerKind})
           retried == key \in PublishedBy("possible_retry_on_write_publish_flow")
           published == key \in PublishedBy("possible_non_atomic_service_publish")
<1>1. key[1] \in services /\ 65 \in Nat /\ 80 \in Nat /\ 75 \in Nat /\ 70 \in Nat /\ 50 \in Nat
  OBVIOUS
<1>2. /\ key \in ChannelsWithUnrecovered(D) <=> unrecovered
      /\ key \in ChannelsWithPersistent(D) <=> persistent \/ unrecovered
      /\ key \in ChannelsWithConsumers(D) <=> consumer \/ persistent \/ unrecovered
      /\ key \in RetryWritePublishChannels(D) <=> retried
  <2> HIDE DEF key, D
  <2>1. \A kinds : key \in CoveredChannels(D, kinds)
                   <=> \E g \in D : g.kind \in kinds /\ ChannelKey(g) = key
    BY DEF CoveredChannels
  <2>2. key \in RetryWritePublishChannels(D) <=> retried
    BY DEF RetryWritePublishChannels, PublishedBy, D
  <2> QED
    BY <2>1, <2>2 DEF ChannelsWithUnrecovered, ChannelsWithPersistent, ChannelsWithConsumers
<1>3. published => retried
  <2>1. published => p.to \in Targets(Visible(Publishes(f)))
    BY RetriedPublications
  <2> QED BY <2>1, RetriedPublications
<1>4. p \in Visible(Publishes(f)) => retried
  <2>1. p \in Visible(Publishes(f)) => p.to \in Targets(Visible(Publishes(f)))
    BY DEF Targets
  <2> QED BY <2>1, RetriedPublications
<1>5. (\E c \in Consumers(p.to) : c.service # f[1]) => consumer
  <2>1. (\E c \in Consumers(p.to) : c.service # f[1])
        => \E g \in FindRetryFlowsWithConsumers :
               /\ g.kind = ConsumerKind
               /\ g.service = ServiceName(f[1]) /\ g.symbol = f[2] /\ g.channel = p.to
    BY ConsumerFindings DEF AboutChannel
  <2> QED BY <2>1 DEF CoveredChannels, ChannelKey, FlowDetectors
<1> HIDE DEF key, D, unrecovered, persistent, consumer, retried, published
<1>6. /\ key \in RetriedKeys(services)[1] <=> unrecovered
      /\ key \in RetriedKeys(services)[2] <=> persistent /\ ~unrecovered
      /\ key \in RetriedKeys(services)[3] <=> consumer /\ ~persistent /\ ~unrecovered
      /\ key \in RetriedKeys(services)[4]
         <=> retried /\ ~consumer /\ ~persistent /\ ~unrecovered
      /\ key \in RetriedKeys(services)[5] <=> published /\ ~retried
  <2>1. key \in RetriedKeys(services)[1] <=> unrecovered
    BY <1>1, Confidences, SelectedKeys DEF RetriedKeys, unrecovered, D
  <2>2. key \in RetriedKeys(services)[2] <=> persistent /\ ~unrecovered
    BY <1>1, <1>2, Confidences, SelectedKeys DEF RetriedKeys, persistent, D
  <2>3. key \in RetriedKeys(services)[3] <=> consumer /\ ~persistent /\ ~unrecovered
    BY <1>1, <1>2, Confidences, SelectedKeys DEF RetriedKeys, consumer, D
  <2>4. key \in RetriedKeys(services)[4]
        <=> retried /\ ~consumer /\ ~persistent /\ ~unrecovered
    <3> DEFINE kind == "possible_retry_on_write_publish_flow"
               covered == ChannelsWithConsumers(FlowDetectors)
    <3>1. \A g \in FlowDetectors : g.kind = kind => g.confidence = 70
      BY Confidences
    <3>2. retried <=> key \in PublishedBy(kind)
      BY DEF retried
    <3> HIDE DEF kind, covered
    <3>3. key \in PublishedKeys(kind, services, 70, covered)
          <=> key \in PublishedBy(kind) /\ key \notin covered
      BY <1>1, <3>1, SelectedPublications
    <3> QED BY <1>2, <3>2, <3>3 DEF RetriedKeys, D, kind, covered
  <2>5. key \in RetriedKeys(services)[5] <=> published /\ ~retried
    <3> DEFINE kind == "possible_non_atomic_service_publish"
               covered == RetryWritePublishChannels(FlowDetectors)
    <3>1. \A g \in FlowDetectors : g.kind = kind => g.confidence = 50
      BY Confidences
    <3>2. published <=> key \in PublishedBy(kind)
      BY DEF published
    <3> HIDE DEF kind, covered
    <3>3. key \in PublishedKeys(kind, services, 50, covered)
          <=> key \in PublishedBy(kind) /\ key \notin covered
      BY <1>1, <3>1, SelectedPublications
    <3> QED BY <1>2, <3>2, <3>3 DEF RetriedKeys, D, kind, covered
  <2> QED BY <2>1, <2>2, <2>3, <2>4, <2>5
<1>7. retried \/ consumer
  BY <1>4, <1>5
<1>8. \E i \in 1..5 : \A j \in 1..5 : key \in RetriedKeys(services)[j] <=> i = j
  <2>1. \A j \in 1..5 : j = 1 \/ j = 2 \/ j = 3 \/ j = 4 \/ j = 5
    OBVIOUS
  <2>2. CASE unrecovered
    BY <1>3, <1>6, <2>1, <2>2
  <2>3. CASE persistent /\ ~unrecovered
    BY <1>3, <1>6, <2>1, <2>3
  <2>4. CASE consumer /\ ~persistent /\ ~unrecovered
    BY <1>3, <1>6, <2>1, <2>4
  <2>5. CASE ~consumer /\ ~persistent /\ ~unrecovered
    BY <1>3, <1>6, <1>7, <2>1, <2>5
  <2> QED BY <2>2, <2>3, <2>4, <2>5
<1> QED BY <1>8 DEF key

RetriedUnits(services) ==
    <<DeriveRetryUnrecoveredDelivery(FlowDetectors, services),
      DeriveRetryDelivery(FlowDetectors, services),
      DeriveRetryConsumerDelivery(FlowDetectors, services),
      DeriveRetryWritePublish(FlowDetectors, services),
      DeriveNonAtomicServicePublish(FlowDetectors, services)>>

LEMMA RetriedFamilies ==
    ASSUME FactsInv, NEW services
    PROVE  /\ \A i \in 1..5 : OneUnitPerKey(RetriedUnits(services)[i], RetriedKeys(services)[i])
           /\ \A u : u \in RetryReviewUnits(FlowDetectors, services)
                           \cup DeriveNonAtomicServicePublish(FlowDetectors, services)
                     <=> \E i \in 1..5 : u \in RetriedUnits(services)[i]
<1> DEFINE units == RetriedUnits(services)
           keys == RetriedKeys(services)
<1>1. \A i \in 1..5 : i = 1 \/ i = 2 \/ i = 3 \/ i = 4 \/ i = 5
  OBVIOUS
<1>2. OneUnitPerKey(units[1], keys[1])
  BY UnrecoveredDeliveryUnits DEF RetriedUnits, RetriedKeys
<1>3. OneUnitPerKey(units[2], keys[2])
  BY DeliveryUnits DEF RetriedUnits, RetriedKeys
<1>4. OneUnitPerKey(units[3], keys[3])
  BY ConsumerDeliveryUnits DEF RetriedUnits, RetriedKeys
<1>5. OneUnitPerKey(units[4], keys[4]) /\ OneUnitPerKey(units[5], keys[5])
  BY WritePublishUnits DEF RetriedUnits, RetriedKeys
<1>6. \A u : u \in RetryReviewUnits(FlowDetectors, services)
                   \cup DeriveNonAtomicServicePublish(FlowDetectors, services)
             <=> u \in units[1] \/ u \in units[2] \/ u \in units[3] \/ u \in units[4]
                 \/ u \in units[5]
  BY DEF RetriedUnits, RetryReviewUnits
<1> HIDE DEF units, keys
<1>7. \A i \in 1..5 : OneUnitPerKey(units[i], keys[i])
  BY <1>1, <1>2, <1>3, <1>4, <1>5
<1>8. \A u : u \in RetryReviewUnits(FlowDetectors, services)
                   \cup DeriveNonAtomicServicePublish(FlowDetectors, services)
             <=> \E i \in 1..5 : u \in units[i]
  BY <1>1, <1>6
<1> QED BY <1>7, <1>8 DEF units, keys

AreFamilies(units, keys, all) ==
    /\ \A i \in 1..5 : OneUnitPerKey(units[i], keys[i])
    /\ \A u : u \in all <=> \E i \in 1..5 : u \in units[i]

LEMMA OnePerFamily ==
    ASSUME NEW units, NEW keys, NEW all, AreFamilies(units, keys, all),
           NEW service, NEW symbol, NEW channel,
           \E i \in 1..5 : \A j \in 1..5 : <<service, symbol, channel>> \in keys[j] <=> i = j
    PROVE  Cardinality({u \in all : u.service = service /\ u.id[3] = <<symbol, channel>>}) = 1
<1> DEFINE key == <<service, symbol, channel>>
           asked == {u \in all : u.service = service /\ u.id[3] = <<symbol, channel>>}
<1> USE DEF AreFamilies
<1>1. key[1] = service /\ key[2] = symbol /\ key[3] = channel
  OBVIOUS
<1>2. PICK i \in 1..5 : \A j \in 1..5 : key \in keys[j] <=> i = j
  OBVIOUS
<1>3. ASSUME NEW u \in asked
      PROVE  u \in units[i]
  <2>1. PICK j \in 1..5 : u \in units[j]
    OBVIOUS
  <2>2. OneUnitPerKey(units[j], keys[j])
    OBVIOUS
  <2>3. PICK k \in keys[j] : u.service = k[1] /\ u.id[3] = <<k[2], k[3]>>
    BY <2>1, <2>2 DEF OneUnitPerKey
  <2>4. k = <<k[1], k[2], k[3]>>
    BY <2>2 DEF OneUnitPerKey
  <2>5. k = key
    BY <2>3, <2>4
  <2> QED BY <1>2, <2>1, <2>5
<1>4. OneUnitPerKey(units[i], keys[i])
  OBVIOUS
<1>5. ASSUME NEW u \in asked, NEW v \in asked
      PROVE  u = v
  <2>1. u \in units[i] /\ v \in units[i]
    BY <1>3
  <2>2. u.service = v.service /\ u.id[3] = v.id[3]
    OBVIOUS
  <2> HIDE DEF asked
  <2> QED BY <1>4, <2>1, <2>2 DEF OneUnitPerKey
<1>6. PICK u \in units[i] : u.service = service /\ u.id[3] = <<symbol, channel>>
  <2>1. key \in keys[i]
    BY <1>2
  <2>2. \A k \in keys[i] : \E u \in units[i] : u.service = k[1] /\ u.id[3] = <<k[2], k[3]>>
    BY <1>4 DEF OneUnitPerKey
  <2> QED BY <1>1, <2>1, <2>2
<1>7. u \in asked
  BY <1>6
<1> HIDE DEF asked
<1>8. asked = {u}
  BY <1>5, <1>7
<1>9. Cardinality(asked) = 1
  BY <1>8, FS_Singleton
<1> QED BY <1>9 DEF asked

LEMMA RetriedChannelHolds ==
    ASSUME FactsInv
    PROVE  RetriedChannelReviewedOnce
<1> SUFFICES
      ASSUME NEW primary \in SUBSET AllNames,
             NEW f \in RetryingWritePublishFlows, NEW p \in Publishes(f),
             ServiceName(f[1]) \in PlanServices(primary),
             \/ p \in Visible(Publishes(f))
             \/ \E c \in Consumers(p.to) : c.service # f[1]
      PROVE  Cardinality({u \in RetryReviewUnits(FlowDetectors, PlanServices(primary))
                                \cup DeriveNonAtomicServicePublish(FlowDetectors,
                                                                   PlanServices(primary)) :
                             /\ u.service = ServiceName(f[1])
                             /\ u.id[3] = <<f[2], p.to>>}) = 1
  BY DEF RetriedChannelReviewedOnce
<1> DEFINE services == PlanServices(primary)
           units == RetriedUnits(services)
           keys == RetriedKeys(services)
           all == RetryReviewUnits(FlowDetectors, services)
                  \cup DeriveNonAtomicServicePublish(FlowDetectors, services)
<1>1. \E i \in 1..5 : \A j \in 1..5 :
          <<ServiceName(f[1]), f[2], p.to>> \in keys[j] <=> i = j
  BY OneFamilyAsks
<1>2. AreFamilies(units, keys, all)
  BY RetriedFamilies DEF AreFamilies
<1> HIDE DEF units, keys, all
<1>3. Cardinality({u \in all : u.service = ServiceName(f[1]) /\ u.id[3] = <<f[2], p.to>>}) = 1
  BY <1>1, <1>2, OnePerFamily
<1> QED BY <1>3 DEF all

LEMMA UnrecoveredConsumerHolds ==
    ASSUME FactsInv
    PROVE  UnrecoveredConsumerReviewed
<1> SUFFICES
      ASSUME NEW services, NEW s \in Indexed, NEW e \in RecoveryRows(s),
             ServiceName(s) \in services
      PROVE  \E u \in FlowReviewUnits(FlowDetectors, services) :
                 /\ ServiceName(s) \in {u.service} \cup u.dependencies
                 /\ Queue(e.name) \in u.contracts
  BY DEF UnrecoveredConsumerReviewed
<1> DEFINE key == <<ServiceName(s), e.symbol, e.name>>
<1>1. CASE key \notin ConsumersOfPrimaryProducers(FlowDetectors, services)
  <2> DEFINE finding(r, d) == [kind |-> "possible_message_consumer_without_recovery_policy",
                               service |-> ServiceName(r), others |-> {}, symbol |-> d.symbol,
                               queue |-> d.name, confidence |-> 45]
             g == finding(s, e)
             u == FlowUnit("message-consumer-recovery", g.service, <<g.symbol, g.queue>>,
                           {Queue(g.queue)}, {})
  <2>1. g \in FindConsumersWithoutRecovery
    <3>1. FindConsumersWithoutRecovery
          = UNION {{finding(r, d) : d \in RecoveryRows(r)} : r \in Indexed}
      BY DEF FindConsumersWithoutRecovery
    <3> HIDE DEF finding
    <3> QED BY <3>1
  <2>2. /\ g.kind = "possible_message_consumer_without_recovery_policy"
        /\ g.service = ServiceName(s) /\ g.symbol = e.symbol /\ g.queue = e.name
        /\ g.confidence = 45
    OBVIOUS
  <2> HIDE DEF g
  <2>3. g \in SelectedFlows(FlowDetectors, "possible_message_consumer_without_recovery_policy",
                            services, 45)
    BY <2>1, <2>2 DEF SelectedFlows, FlowDetectors
  <2>4. u \in DeriveConsumerRecovery(FlowDetectors, services)
    BY <1>1, <2>2, <2>3 DEF DeriveConsumerRecovery
  <2>5. u.service = ServiceName(s) /\ u.contracts = {Queue(e.name)}
    BY <2>2 DEF FlowUnit
  <2>6. u \in FlowReviewUnits(FlowDetectors, services)
    BY <2>4 DEF FlowReviewUnits
  <2> QED BY <2>5, <2>6
<1>2. CASE key \in ConsumersOfPrimaryProducers(FlowDetectors, services)
  <2>1. PICK h \in FlowDetectors :
            /\ h.kind = UnrecoveredKind /\ h.service \in services
            /\ \E c \in h.consumers : key = <<c.service, c.symbol, c.queue>>
    BY <1>2 DEF ConsumersOfPrimaryProducers
  <2>2. PICK c \in h.consumers : c.service = ServiceName(s) /\ c.queue = e.name
    BY <2>1
  <2> DEFINE selected == SelectedFlows(FlowDetectors, UnrecoveredKind, services, 65)
             channel == ChannelKey(h)
             first == FirstWith(UnrecoveredKind, services, 65, channel)
             u == FlowUnit("retry-unrecovered-consumer-delivery", first.service,
                           <<first.symbol, first.channel>>,
                           {Message(first.channel)} \cup {Queue(d.queue) : d \in first.consumers},
                           {d.service : d \in first.consumers})
  <2>3. h \in selected /\ channel \in {ChannelKey(f) : f \in selected}
    BY <2>1, Confidences DEF SelectedFlows
  <2>4. \A f \in selected : f.line \in Nat
    BY SelectedLines
  <2>5. first \in selected /\ ChannelKey(first) = channel
    BY <2>3, <2>4, FirstHasKey DEF FirstWith
  <2>6. u \in DeriveRetryUnrecoveredDelivery(FlowDetectors, services)
    BY <2>3 DEF DeriveRetryUnrecoveredDelivery, ChannelUnits, FirstWith
  <2> HIDE DEF first, channel
  <2>7. first \in FlowDetectors /\ first.kind = UnrecoveredKind
    BY <2>5 DEF SelectedFlows
  <2>8. PICK r \in Indexed : h.service = ServiceName(r)
                             /\ h.consumers = UnrecoveredListed(r, h.channel)
    BY <2>1, DetectedBy, UnrecoveredFindings
  <2>9. PICK t \in Indexed : first.service = ServiceName(t)
                             /\ first.consumers = UnrecoveredListed(t, first.channel)
    BY <2>7, DetectedBy, UnrecoveredFindings
  <2>10. first.service = h.service /\ first.channel = h.channel
    BY <2>5 DEF ChannelKey, channel
  <2>11. r = t
    BY <2>8, <2>9, <2>10, NamesDiffer
  <2>12. c \in first.consumers
    BY <2>2, <2>8, <2>9, <2>10, <2>11
  <2>13. ServiceName(s) \in u.dependencies /\ Queue(e.name) \in u.contracts
    BY <2>2, <2>12 DEF FlowUnit
  <2>14. u \in FlowReviewUnits(FlowDetectors, services)
    BY <2>6 DEF FlowReviewUnits, RetryReviewUnits
  <2> HIDE DEF u
  <2> QED BY <2>13, <2>14
<1> QED BY <1>1, <1>2

(* Whatever is indexed and whatever a plan is about, the findings that      *)
(* silence each other leave each retried publication one review, and each   *)
(* consumer whose recovery no source shows at least one (the derive         *)
(* functions of change_plan.py about retries and consumers).                *)
THEOREM ChannelsAlwaysReviewed == ReviewSpec => []ChannelsReviewed
<1>1. ReviewInv => ChannelsReviewed
  BY RetriedChannelHolds, UnrecoveredConsumerHolds DEF ReviewInv, ChannelsReviewed
<1> QED BY <1>1, RowsAgree, PTL

-----------------------------------------------------------------------------
(* The identities of the units of a plan.  What most of them hold follows   *)
(* from the identity; the others hold it once by the way they are chosen.   *)

IdsUnique(units) == \A u, v \in units : u.id = v.id => u = v

CallRoles == {"http-resilience-policy", "retry-http-idempotency", "timeout-local-fallback"}

DownstreamRoles == {"downstream-error-mapping", "retry-downstream-error"}

CallKinds == {"possible_missing_http_resilience_policy",
              "possible_retry_on_non_idempotent_http_call",
              "possible_timeout_without_local_fallback"}

FallbackKey(f) == <<f.symbol, f.type, f.code>>

FirstFallback(fallbacks, service, key) ==
    CHOOSE g \in fallbacks : g.services = <<service>> /\ FallbackKey(g) = key

Dependencies(fallbacks, role, service, key) ==
    IF role \in CallRoles THEN {<<key[2]>>}
    ELSE IF role \in DownstreamRoles THEN {key[2]}
    ELSE IF role = "timeout-fallback" THEN {<<FirstFallback(fallbacks, service, key).target>>}
    ELSE {}

Describes(fallbacks, u, role, service, key) ==
    /\ \E S : key \in Seq(S)
    /\ u = Unit(role, service, key, Dependencies(fallbacks, role, service, key))

Described(fallbacks, units) ==
    \A u \in units : \E role, service, key : Describes(fallbacks, u, role, service, key)

LEMMA DescribedUnique ==
    ASSUME NEW fallbacks, NEW units, Described(fallbacks, units)
    PROVE  IdsUnique(units)
<1> SUFFICES ASSUME NEW u \in units, NEW v \in units, u.id = v.id
             PROVE  u = v
  BY DEF IdsUnique
<1>1. PICK role, service, key : Describes(fallbacks, u, role, service, key)
  BY DEF Described
<1>2. PICK role2, service2, key2 : Describes(fallbacks, v, role2, service2, key2)
  BY DEF Described
<1>3. PICK S : key \in Seq(S)
  BY <1>1 DEF Describes
<1>4. PICK S2 : key2 \in Seq(S2)
  BY <1>2 DEF Describes
<1>5. u.id = <<role, service>> \o key /\ v.id = <<role2, service2>> \o key2
  BY <1>1, <1>2, <1>3, <1>4, UnitIs DEF Describes
<1>6. role = role2 /\ service = service2 /\ key = key2
  <2>1. <<role, service>> \o key = <<role2, service2>> \o key2
    BY <1>5
  <2> QED BY <1>3, <1>4, <2>1, SameKey
<1> QED BY <1>1, <1>2, <1>6 DEF Describes

PlainRoles ==
    {"error-exposure", "timeout-error-mapping", "broad-error-handler", "error-mapping-gap",
     "error-mapping", "broad-timeout-handler", "retry-policy", "cloud-dependency-iac",
     "cloud-dead-letter-queue", "cloud-encryption", "cloud-versioning",
     "public-object-storage", "persistence-migration", "feature-flag",
     "runtime-configuration", "runtime-configuration-mismatch",
     "runtime-configuration-source-unknown"}

(* A unit without dependencies.                                             *)
Plain(u, role, service, key) ==
    /\ role \in PlainRoles
    /\ \E S : key \in Seq(S)
    /\ u = Unit(role, service, key, {})

LEMMA PlainUnit ==
    ASSUME NEW fallbacks, NEW u, NEW role, NEW service, NEW key, Plain(u, role, service, key)
    PROVE  \E r, s, k : Describes(fallbacks, u, r, s, k)
<1>1. role \notin CallRoles \cup DownstreamRoles \cup {"timeout-fallback"}
  BY DEF Plain, PlainRoles, CallRoles, DownstreamRoles
<1>2. Dependencies(fallbacks, role, service, key) = {}
  BY <1>1 DEF Dependencies
<1>3. Describes(fallbacks, u, role, service, key)
  BY <1>2 DEF Describes, Plain
<1> QED BY <1>3

(* The symbol and the place of an error contract.                           *)
LEMMA PlaceKey ==
    ASSUME NEW symbol, NEW place, place = <<place[1], place[2]>>
    PROVE  \E S : <<symbol>> \o place \in Seq(S)
<1> DEFINE S == {symbol, place[1], place[2]}
<1>1. <<symbol>> \in Seq(S) /\ <<place[1], place[2]>> \in Seq(S)
  OBVIOUS
<1>2. place \in Seq(S)
  BY <1>1
<1> HIDE DEF S
<1> QED BY <1>1, <1>2, ConcatProperties

LEMMA CallKeys ==
    ASSUME NEW f, f.contract = <<f.contract[1], f.contract[2]>>
    PROVE  (\E S : CallKey(f) \in Seq(S)) /\ CallKey(f)[2] = f.target
<1> DEFINE S == {f.symbol, f.target, f.contract[1], f.contract[2]}
           front == <<f.symbol, f.target>>
           contract == f.contract
<1>1. front \in Seq(S) /\ Len(front) = 2 /\ front[2] = f.target
      /\ <<f.contract[1], f.contract[2]>> \in Seq(S)
  OBVIOUS
<1>2. contract \in Seq(S)
  BY <1>1
<1>3. front \o contract = CallKey(f)
  BY DEF CallKey
<1> HIDE DEF S, front, contract
<1>4. front \o contract \in Seq(S)
      /\ Len(front \o contract) = Len(front) + Len(contract)
      /\ \A i \in 1..Len(front) + Len(contract) :
             (front \o contract)[i]
             = IF i <= Len(front) THEN front[i] ELSE contract[i - Len(front)]
  BY <1>1, <1>2, ConcatProperties, Zenon
<1>5. Len(contract) \in Nat
  BY <1>2, LenProperties
<1>6. (front \o contract)[2] = front[2]
  <2>1. 2 \in 1..Len(front) + Len(contract) /\ 2 <= Len(front)
    BY <1>1, <1>5
  <2> QED BY <1>4, <2>1
<1> QED BY <1>1, <1>3, <1>4, <1>6

(* Findings about errors of one service and the place of a contract.       *)
PlacedFindings ==
    FindErrorSemanticsLost \cup FindInternalErrorExposures \cup FindUnhandledEndpointErrors
    \cup FindOverbroadExceptionHandlers \cup FindTimeoutsMappedAsInternalServerErrors

LEMMA ErrorPlaces ==
    ASSUME NEW f \in PlacedFindings
    PROVE  f.place = <<f.place[1], f.place[2]>>
<1> DEFINE Placed(g) == \E kind, s, symbol, type, a, b, confidence :
                            g = Local(kind, s, symbol, type, <<a, b>>, confidence)
<1>1. ASSUME NEW g \in FindErrorSemanticsLost
      PROVE  Placed(g)
  <2>1. \E s, c, d :
            g = Local("possible_error_semantics_lost", s,
                       d.source, c.type, <<"http", d.code>>, 85)
    BY DEF FindErrorSemanticsLost, PerService
  <2> QED BY <2>1
<1>2. ASSUME NEW g \in FindInternalErrorExposures
      PROVE  Placed(g)
  <2>1. \E s, c :
            g = Local("possible_internal_error_exposure", s,
                       c.source, c.type, <<c.protocol, c.code>>, 90)
    BY DEF FindInternalErrorExposures, PerService
  <2> QED BY <2>1
<1>3. ASSUME NEW g \in FindUnhandledEndpointErrors
      PROVE  Placed(g)
  <2>1. PICK s \in Indexed :
            g \in UNION {{Local("possible_unhandled_endpoint_error", s, e.symbol, type,
                                <<e.method, e.name>>, 75) :
                             type \in {c.type : c \in UnhandledErrors(s, e.symbol)}} :
                         e \in HttpEntries(s)}
    BY DEF FindUnhandledEndpointErrors, PerService
  <2>2. PICK e \in HttpEntries(s) :
            g \in {Local("possible_unhandled_endpoint_error", s, e.symbol, type,
                         <<e.method, e.name>>, 75) :
                      type \in {c.type : c \in UnhandledErrors(s, e.symbol)}}
    BY <2>1
  <2> QED BY <2>2
<1>4. ASSUME NEW g \in FindOverbroadExceptionHandlers
      PROVE  Placed(g)
  <2>1. \E s, c :
            g = Local("possible_overbroad_exception_handler", s,
                       c.source, c.type, <<c.protocol, c.code>>, 75)
    BY DEF FindOverbroadExceptionHandlers, PerService
  <2> QED BY <2>1
<1>5. ASSUME NEW g \in FindTimeoutsMappedAsInternalServerErrors
      PROVE  Placed(g)
  <2>1. \E s, c :
            g = Local("possible_timeout_mapped_as_internal_server_error", s,
                       c.source, c.type, <<"http", c.code>>, 80)
    BY DEF FindTimeoutsMappedAsInternalServerErrors, PerService
  <2> QED BY <2>1
<1>6. Placed(f)
  <2> HIDE DEF Placed
  <2> QED BY <1>1, <1>2, <1>3, <1>4, <1>5 DEF PlacedFindings
<1>7. PICK kind, s, symbol, type, a, b, confidence :
          f = Local(kind, s, symbol, type, <<a, b>>, confidence)
  BY <1>6
<1>8. f.place = <<a, b>>
  BY <1>7 DEF Local
<1> QED BY <1>8

LEMMA ErrorMappingDescribed ==
    ASSUME NEW fallbacks, NEW findings, NEW services,
           \A f \in findings : f.place = <<f.place[1], f.place[2]>>
    PROVE  Described(fallbacks, DeriveErrorMapping(findings, services))
<1> DEFINE Known(u) == \E role, service, key : Describes(fallbacks, u, role, service, key)
<1>1. ASSUME NEW u \in DeriveErrorExposure(findings, services)
      PROVE  Known(u)
  <2>1. PICK f \in findings :
            u = Unit("error-exposure", f.services[1], <<f.symbol>> \o f.place, {})
    BY DEF DeriveErrorExposure, Units, NoDependency, Selected
  <2>2. \E S : <<f.symbol>> \o f.place \in Seq(S)
    BY PlaceKey
  <2>3. Plain(u, "error-exposure", f.services[1], <<f.symbol>> \o f.place)
    BY <2>1, <2>2 DEF Plain, PlainRoles
  <2> QED BY <2>3, PlainUnit
<1>2. ASSUME NEW u \in DeriveTimeoutMapping(findings, services)
      PROVE  Known(u)
  <2>1. PICK f \in findings :
            u = Unit("timeout-error-mapping", f.services[1], <<f.symbol, f.type>>, {})
    BY DEF DeriveTimeoutMapping, Units, NoDependency, Selected, TypedSelected
  <2>2. \E S : <<f.symbol, f.type>> \in Seq(S)
    BY Keys
  <2>3. Plain(u, "timeout-error-mapping", f.services[1], <<f.symbol, f.type>>)
    BY <2>1, <2>2 DEF Plain, PlainRoles
  <2> QED BY <2>3, PlainUnit
<1>3. ASSUME NEW u \in DeriveBroadHandler(findings, services)
      PROVE  Known(u)
  <2>1. PICK f \in findings :
            u = Unit("broad-error-handler", f.services[1], <<f.symbol, f.type>> \o f.place, {})
    BY DEF DeriveBroadHandler, Units, NoDependency, Selected, TypedSelected
  <2>2. \E S : <<f.symbol, f.type>> \o f.place \in Seq(S)
    <3> DEFINE S == {f.symbol, f.type, f.place[1], f.place[2]}
    <3>1. <<f.symbol, f.type>> \in Seq(S) /\ <<f.place[1], f.place[2]>> \in Seq(S)
      OBVIOUS
    <3>2. f.place \in Seq(S)
      BY <3>1
    <3> HIDE DEF S
    <3> QED BY <3>1, <3>2, ConcatProperties
  <2>3. Plain(u, "broad-error-handler", f.services[1], <<f.symbol, f.type>> \o f.place)
    BY <2>1, <2>2 DEF Plain, PlainRoles
  <2> QED BY <2>3, PlainUnit
<1>4. ASSUME NEW u \in DeriveUnmappedDownstream(findings, services)
      PROVE  Known(u)
  <2>1. PICK f \in findings :
            u = Unit("downstream-error-mapping", f.services[1],
                     <<f.symbol, f.services[2], f.type, f.code>>, {f.services[2]})
    BY DEF DeriveUnmappedDownstream, Units, OnSecond, OnEndpointFlow, Selected
  <2> DEFINE key == <<f.symbol, f.services[2], f.type, f.code>>
  <2>2. (\E S : key \in Seq(S)) /\ key[2] = f.services[2]
    BY Keys
  <2> HIDE DEF key
  <2>3. Dependencies(fallbacks, "downstream-error-mapping", f.services[1], key) = {key[2]}
    BY DEF Dependencies, CallRoles, DownstreamRoles
  <2>4. Describes(fallbacks, u, "downstream-error-mapping", f.services[1], key)
    BY <2>1, <2>2, <2>3 DEF Describes, key
  <2> QED BY <2>4
<1>5. ASSUME NEW u \in DeriveUnhandledEndpoint(findings, services)
      PROVE  Known(u)
  <2>1. PICK f \in findings :
            u = Unit("error-mapping-gap", f.services[1], <<f.symbol, f.type>>, {})
    BY DEF DeriveUnhandledEndpoint, Units, NoDependency, Selected
  <2>2. \E S : <<f.symbol, f.type>> \in Seq(S)
    BY Keys
  <2>3. Plain(u, "error-mapping-gap", f.services[1], <<f.symbol, f.type>>)
    BY <2>1, <2>2 DEF Plain, PlainRoles
  <2> QED BY <2>3, PlainUnit
<1>6. ASSUME NEW u \in DeriveErrorSemantics(findings, services)
      PROVE  Known(u)
  <2>1. PICK f \in findings :
            u = Unit("error-mapping", f.services[1], <<f.type, f.symbol, f.place[2]>>, {})
    BY DEF DeriveErrorSemantics, Units, NoDependency, Selected
  <2>2. \E S : <<f.type, f.symbol, f.place[2]>> \in Seq(S)
    BY Keys
  <2>3. Plain(u, "error-mapping", f.services[1], <<f.type, f.symbol, f.place[2]>>)
    BY <2>1, <2>2 DEF Plain, PlainRoles
  <2> QED BY <2>3, PlainUnit
<1> QED BY <1>1, <1>2, <1>3, <1>4, <1>5, <1>6 DEF DeriveErrorMapping, Described

LEMMA BroadTimeoutDescribed ==
    ASSUME NEW fallbacks, NEW findings, NEW services
    PROVE  Described(fallbacks, DeriveBroadTimeoutHandler(findings, services))
<1> SUFFICES ASSUME NEW u \in DeriveBroadTimeoutHandler(findings, services)
             PROVE  \E role, service, key : Describes(fallbacks, u, role, service, key)
  BY DEF Described
<1>1. PICK f \in findings :
          u = Unit("broad-timeout-handler", f.services[1], <<f.symbol, f.place[1]>>, {})
  BY DEF DeriveBroadTimeoutHandler, Units, NoDependency, Selected
<1>2. \E S : <<f.symbol, f.place[1]>> \in Seq(S)
  BY Keys
<1>3. Plain(u, "broad-timeout-handler", f.services[1], <<f.symbol, f.place[1]>>)
  BY <1>1, <1>2 DEF Plain, PlainRoles
<1> QED BY <1>3, PlainUnit

LEMMA DownstreamDescribed ==
    ASSUME NEW fallbacks, NEW findings, NEW services
    PROVE  Described(fallbacks, DownstreamReviewUnits(findings, services))
<1> SUFFICES ASSUME NEW u \in DownstreamReviewUnits(findings, services)
             PROVE  \E role, service, key : Describes(fallbacks, u, role, service, key)
  BY DEF Described
<1>1. PICK role \in DownstreamRoles :
          \E f \in findings : u = Unit(role, f.services[1],
                                       <<f.symbol, f.services[2], f.type, f.code>>,
                                       {f.services[2]})
  <2>1. CASE u \in DeriveUnmappedDownstream(findings, services)
    <3>1. \E f \in findings : u = Unit("downstream-error-mapping", f.services[1],
                                       <<f.symbol, f.services[2], f.type, f.code>>,
                                       {f.services[2]})
      BY <2>1 DEF DeriveUnmappedDownstream, Units, OnSecond, OnEndpointFlow, Selected
    <3> QED BY <3>1 DEF DownstreamRoles
  <2>2. CASE u \in DeriveRetryDownstreamError(findings, services)
    <3>1. \E f \in findings : u = Unit("retry-downstream-error", f.services[1],
                                       <<f.symbol, f.services[2], f.type, f.code>>,
                                       {f.services[2]})
      BY <2>2 DEF DeriveRetryDownstreamError, Units, OnSecond, OnEndpointFlow, Selected
    <3> QED BY <3>1 DEF DownstreamRoles
  <2> QED BY <2>1, <2>2 DEF DownstreamReviewUnits
<1>2. PICK f \in findings : u = Unit(role, f.services[1],
                                     <<f.symbol, f.services[2], f.type, f.code>>,
                                     {f.services[2]})
  BY <1>1
<1> DEFINE key == <<f.symbol, f.services[2], f.type, f.code>>
<1>3. (\E S : key \in Seq(S)) /\ key[2] = f.services[2]
  BY Keys
<1> HIDE DEF key
<1>4. Dependencies(fallbacks, role, f.services[1], key) = {key[2]}
  BY DEF Dependencies, CallRoles, DownstreamRoles
<1>5. Describes(fallbacks, u, role, f.services[1], key)
  BY <1>2, <1>3, <1>4 DEF Describes, key
<1> QED BY <1>5

(* Calls of one kind, whatever the detector that found them.               *)
LEMMA CallUnitsDescribed ==
    ASSUME NEW fallbacks, NEW role \in CallRoles, NEW f,
           f.contract = <<f.contract[1], f.contract[2]>>,
           NEW u, u = Unit(role, f.services[1], CallKey(f), {<<f.target>>})
    PROVE  \E r, service, key : Describes(fallbacks, u, r, service, key)
<1>1. (\E S : CallKey(f) \in Seq(S)) /\ CallKey(f)[2] = f.target
  BY CallKeys
<1>2. Dependencies(fallbacks, role, f.services[1], CallKey(f)) = {<<CallKey(f)[2]>>}
  BY DEF Dependencies
<1>3. Describes(fallbacks, u, role, f.services[1], CallKey(f))
  BY <1>1, <1>2 DEF Describes
<1> QED BY <1>3

FallbacksIn(findings, services) ==
    TypedSelected(findings, "possible_timeout_fallback_masks_failure", services, 80)

LEMMA CallReviewsDescribed ==
    ASSUME NEW fallbacks, NEW findings, NEW services,
           \A f \in findings : f.kind \in CallKinds
                               => f.contract = <<f.contract[1], f.contract[2]>>,
           \A f \in findings : f.services = <<f.services[1]>>,
           FallbacksIn(findings, services) \in {{}, fallbacks}
    PROVE  Described(fallbacks, CallReviewUnits(findings, services))
<1> DEFINE Known(u) == \E role, service, key : Describes(fallbacks, u, role, service, key)
<1>1. ASSUME NEW u \in DeriveHttpResiliencePolicy(findings, services)
      PROVE  Known(u)
  <2>1. PICK f \in findings :
            /\ f.kind = "possible_missing_http_resilience_policy"
            /\ u = Unit("http-resilience-policy", f.services[1], CallKey(f), {<<f.target>>})
    BY DEF DeriveHttpResiliencePolicy, Units, OnTarget, Selected
  <2>2. f.contract = <<f.contract[1], f.contract[2]>>
    BY <2>1 DEF CallKinds
  <2>3. "http-resilience-policy" \in CallRoles
    BY DEF CallRoles
  <2> QED BY <2>1, <2>2, <2>3, CallUnitsDescribed
<1>2. ASSUME NEW u \in DeriveRetryHttpIdempotency(findings, services)
      PROVE  Known(u)
  <2>1. PICK f \in findings :
            /\ f.kind = "possible_retry_on_non_idempotent_http_call"
            /\ u = Unit("retry-http-idempotency", f.services[1], CallKey(f), {<<f.target>>})
    BY DEF DeriveRetryHttpIdempotency, Units, OnTarget, Selected
  <2>2. f.contract = <<f.contract[1], f.contract[2]>>
    BY <2>1 DEF CallKinds
  <2>3. "retry-http-idempotency" \in CallRoles
    BY DEF CallRoles
  <2> QED BY <2>1, <2>2, <2>3, CallUnitsDescribed
<1>3. ASSUME NEW u \in DeriveTimeoutLocalFallback(findings, services)
      PROVE  Known(u)
  <2>1. PICK f \in findings :
            /\ f.kind = "possible_timeout_without_local_fallback"
            /\ u = Unit("timeout-local-fallback", f.services[1], CallKey(f), {<<f.target>>})
    BY DEF DeriveTimeoutLocalFallback, Units, OnTarget, Selected
  <2>2. f.contract = <<f.contract[1], f.contract[2]>>
    BY <2>1 DEF CallKinds
  <2>3. "timeout-local-fallback" \in CallRoles
    BY DEF CallRoles
  <2> QED BY <2>1, <2>2, <2>3, CallUnitsDescribed
<1>4. ASSUME NEW u \in DeriveRetryPolicy(findings, services)
      PROVE  Known(u)
  <2>1. PICK f \in findings :
            u = Unit("retry-policy", f.services[1], <<f.symbol, f.type>>, {})
    BY DEF DeriveRetryPolicy, Units, NoDependency, Selected, TypedSelected
  <2>2. \E S : <<f.symbol, f.type>> \in Seq(S)
    BY Keys
  <2>3. Plain(u, "retry-policy", f.services[1], <<f.symbol, f.type>>)
    BY <2>1, <2>2 DEF Plain, PlainRoles
  <2> QED BY <2>3, PlainUnit
<1>5. ASSUME NEW u \in DeriveTimeoutFallback(findings, services)
      PROVE  Known(u)
  <2> DEFINE selected == FallbacksIn(findings, services)
             First(f) == CHOOSE g \in selected :
                             g.services = f.services /\ FallbackKey(g) = FallbackKey(f)
  <2>0. DeriveTimeoutFallback(findings, services)
        = {Unit("timeout-fallback", g.services[1], FallbackKey(g), {<<g.target>>}) :
              g \in {First(f) : f \in selected}}
    BY DEF DeriveTimeoutFallback, Units, OnTarget, FallbackKey, FallbacksIn
  <2>1. PICK f \in selected :
            u = Unit("timeout-fallback", First(f).services[1], FallbackKey(First(f)),
                     {<<First(f).target>>})
    <3> HIDE DEF First, selected
    <3> QED BY <2>0
  <2>2. selected = fallbacks /\ selected \subseteq findings
    BY DEF FallbacksIn, TypedSelected, Selected
  <2> HIDE DEF selected
  <2> DEFINE g == First(f)
             service == g.services[1]
             key == FallbackKey(g)
  <2>3. g \in selected /\ g.services = f.services /\ key = FallbackKey(f)
    OBVIOUS
  <2>4. g.services = <<service>> /\ f.services = <<service>>
    BY <2>2, <2>3
  <2>5. g = FirstFallback(fallbacks, service, key)
    BY <2>2, <2>3, <2>4 DEF FirstFallback
  <2>6. \E S : key \in Seq(S)
    BY Keys DEF FallbackKey
  <2> HIDE DEF g, key, service
  <2>7. Dependencies(fallbacks, "timeout-fallback", service, key) = {<<g.target>>}
    BY <2>5 DEF Dependencies, CallRoles, DownstreamRoles
  <2>8. u = Unit("timeout-fallback", service, key, {<<g.target>>})
    BY <2>1 DEF service, key, g
  <2>9. Describes(fallbacks, u, "timeout-fallback", service, key)
    BY <2>6, <2>7, <2>8 DEF Describes
  <2> QED BY <2>9
<1> QED BY <1>1, <1>2, <1>3, <1>4, <1>5 DEF CallReviewUnits, Described

LEMMA DescribedUnion ==
    ASSUME NEW fallbacks, NEW A, NEW B, Described(fallbacks, A), Described(fallbacks, B)
    PROVE  Described(fallbacks, A \cup B)
BY DEF Described

LEMMA ErrorUnitsUnique ==
    ASSUME NEW services
    PROVE  IdsUnique(ErrorUnits(services))
<1> DEFINE retries == FindRetriesOnNonRetryableErrors
           timeouts == FindBroadHandlersThatCanSwallowTimeouts
<1>1. Described({}, DeriveErrorMapping(PlacedFindings, services))
  BY ErrorPlaces, ErrorMappingDescribed
<1>2. Described({}, DeriveBroadTimeoutHandler(timeouts, services))
  BY BroadTimeoutDescribed
<1>3. ASSUME NEW f \in retries
      PROVE  f.kind = "possible_retry_on_non_retryable_error" /\ f.services = <<f.services[1]>>
  <2>1. \E s, c : f = Local("possible_retry_on_non_retryable_error", s, c.source, c.type,
                            <<c.protocol, c.code>>, 80)
    BY DEF FindRetriesOnNonRetryableErrors, PerService
  <2>2. PICK s, c : f = Local("possible_retry_on_non_retryable_error", s, c.source, c.type,
                              <<c.protocol, c.code>>, 80)
    BY <2>1
  <2> QED BY <2>2 DEF Local
<1>4. FallbacksIn(retries, services) = {}
  BY <1>3 DEF FallbacksIn, TypedSelected, Selected
<1>5. \A f \in retries : f.kind \notin CallKinds
  BY <1>3 DEF CallKinds
<1> HIDE DEF retries, timeouts
<1>6. Described({}, CallReviewUnits(retries, services))
  BY <1>3, <1>4, <1>5, CallReviewsDescribed
<1>7. ErrorUnits(services)
      = (DeriveErrorMapping(PlacedFindings, services)
         \cup DeriveBroadTimeoutHandler(timeouts, services)) \cup CallReviewUnits(retries, services)
  BY DEF ErrorUnits, PlacedFindings, retries, timeouts
<1> QED BY <1>1, <1>2, <1>6, <1>7, DescribedUnion, DescribedUnique

LEMMA CallUnitsUnique ==
    ASSUME NEW services
    PROVE  IdsUnique(CallUnits(services))
<1> DEFINE calls == FindStaticHttpCallsWithoutResiliencePolicy
                    \cup FindRetriesOnNonIdempotentHttpCalls \cup FindTimeoutsWithoutLocalFallback
           masked == FindTimeoutFallbacksMaskingFailures
           fallbacks == FallbacksIn(masked, services)
           Made(f) == \E kind \in CallKinds : \E s, c, confidence :
                          f = CallFinding(kind, s, c, confidence)
<1>1. ASSUME NEW f \in calls
      PROVE  Made(f)
  <2>1. CASE f \in FindStaticHttpCallsWithoutResiliencePolicy
    <3>1. \E s, c : f = CallFinding("possible_missing_http_resilience_policy", s, c, 50)
      BY <2>1 DEF FindStaticHttpCallsWithoutResiliencePolicy, PerService
    <3> QED BY <3>1 DEF CallKinds
  <2>2. CASE f \in FindRetriesOnNonIdempotentHttpCalls
    <3>1. \E s, c : f = CallFinding("possible_retry_on_non_idempotent_http_call", s, c, 65)
      BY <2>2 DEF FindRetriesOnNonIdempotentHttpCalls, PerService
    <3> QED BY <3>1 DEF CallKinds
  <2>3. CASE f \in FindTimeoutsWithoutLocalFallback
    <3>1. \E s, c : f = CallFinding("possible_timeout_without_local_fallback", s, c, 55)
      BY <2>3 DEF FindTimeoutsWithoutLocalFallback, PerService
    <3> QED BY <3>1 DEF CallKinds
  <2> QED BY <2>1, <2>2, <2>3
<1>2. ASSUME NEW f \in calls
      PROVE  /\ f.kind \in CallKinds /\ f.services = <<f.services[1]>>
             /\ f.contract = <<f.contract[1], f.contract[2]>>
  <2>1. PICK kind \in CallKinds : \E s, c, confidence : f = CallFinding(kind, s, c, confidence)
    BY <1>1
  <2>2. PICK s, c, confidence : f = CallFinding(kind, s, c, confidence)
    BY <2>1
  <2> QED BY <2>2 DEF CallFinding
<1>3. ASSUME NEW f \in masked
      PROVE  f.kind = "possible_timeout_fallback_masks_failure" /\ f.services = <<f.services[1]>>
  BY DEF FindTimeoutFallbacksMaskingFailures, PerService
<1> HIDE DEF calls, masked
<1>4. FallbacksIn(calls, services) = {}
  BY <1>2 DEF FallbacksIn, TypedSelected, Selected, CallKinds
<1>5. \A f \in masked : f.kind \notin CallKinds
  BY <1>3 DEF CallKinds
<1> HIDE DEF fallbacks
<1>6. Described(fallbacks, CallReviewUnits(calls, services))
  BY <1>2, <1>4, CallReviewsDescribed
<1>7. FallbacksIn(masked, services) = fallbacks
  BY DEF fallbacks
<1>8. Described(fallbacks, CallReviewUnits(masked, services))
  BY <1>3, <1>5, <1>7, CallReviewsDescribed
<1>9. CallUnits(services) = CallReviewUnits(calls, services) \cup CallReviewUnits(masked, services)
  BY DEF CallUnits, calls, masked
<1> QED BY <1>6, <1>8, <1>9, DescribedUnion, DescribedUnique

LEMMA DownstreamUnitsUnique ==
    ASSUME NEW services
    PROVE  IdsUnique(DownstreamUnits(services))
BY DownstreamDescribed, DescribedUnique DEF DownstreamUnits

LEMMA CloudUnitsUnique ==
    ASSUME NEW services
    PROVE  IdsUnique(CloudUnits(CloudFindings, services))
<1>1. \A kind, s, key, confidence : DeploymentFinding(kind, s, key, confidence).key = key
  BY DEF DeploymentFinding
<1>2. ASSUME NEW f \in CloudFindings
      PROVE  (\E a : f.key = <<a>>) \/ (\E a, b : f.key = <<a, b>>)
  <2>1. CASE f \in FindCloudCodeWithoutIac
    <3>1. \E s, c : f = DeploymentFinding("cloud_dependency_without_iac", s,
                                          <<c.type, c.target>>, 70)
      BY <2>1 DEF FindCloudCodeWithoutIac, PerService
    <3> QED BY <1>1, <3>1
  <2>2. CASE f \in FindCloudDeadLetterQueueMissing
    <3>1. \E s, x : f = DeploymentFinding("possible_missing_dead_letter_queue", s,
                                          <<Label(x)>>, 45)
      BY <2>2 DEF FindCloudDeadLetterQueueMissing, SettingFindings, PerService
    <3> QED BY <1>1, <3>1
  <2>3. CASE f \in FindUnencryptedCloudResource
    <3>1. \E s, x : f = DeploymentFinding("possible_unencrypted_cloud_resource", s,
                                          <<Label(x)>>, 40)
      BY <2>3 DEF FindUnencryptedCloudResource, SettingFindings, PerService
    <3> QED BY <1>1, <3>1
  <2>4. CASE f \in FindMissingBucketVersioning
    <3>1. \E s, x : f = DeploymentFinding("possible_missing_bucket_versioning", s,
                                          <<Label(x)>>, 40)
      BY <2>4 DEF FindMissingBucketVersioning, SettingFindings, PerService
    <3> QED BY <1>1, <3>1
  <2>5. CASE f \in FindPublicObjectStorage
    <3>1. \E s, x : f = DeploymentFinding("possible_public_object_storage", s,
                                          <<Label(x)>>, 85)
      BY <2>5 DEF FindPublicObjectStorage, SettingFindings, PerService
    <3> QED BY <1>1, <3>1
  <2> QED BY <2>1, <2>2, <2>3, <2>4, <2>5 DEF CloudFindings
<1>3. ASSUME NEW u \in CloudUnits(CloudFindings, services)
      PROVE  \E role, service, key : Plain(u, role, service, key)
  <2>1. PICK role \in PlainRoles : \E f \in CloudFindings : u = Unit(role, f.services[1], f.key, {})
    BY <1>3 DEF CloudUnits, DeriveCloudDependencyIac, DeriveCloudDeadLetterQueue,
           DeriveCloudEncryption, DeriveCloudVersioning, DerivePublicObjectStorage,
           Units, NoDependency, KeyOf, Selected, PlainRoles
  <2>2. PICK f \in CloudFindings : u = Unit(role, f.services[1], f.key, {})
    BY <2>1
  <2>3. \E S : f.key \in Seq(S)
    <3>1. ASSUME NEW a, f.key = <<a>>
          PROVE  f.key \in Seq({a})
      BY <3>1
    <3>2. ASSUME NEW a, NEW b, f.key = <<a, b>>
          PROVE  f.key \in Seq({a, b})
      BY <3>2
    <3> QED BY <1>2, <3>1, <3>2
  <2>4. Plain(u, role, f.services[1], f.key)
    BY <2>2, <2>3 DEF Plain
  <2> QED BY <2>4
<1>4. Described({}, CloudUnits(CloudFindings, services))
  BY <1>3, PlainUnit DEF Described
<1> QED BY <1>4, DescribedUnique

LEMMA MigrationUnitsUnique ==
    ASSUME NEW affected, NEW services
    PROVE  IdsUnique(DerivePersistenceMigration(affected, services))
<1>1. ASSUME NEW u \in DerivePersistenceMigration(affected, services)
      PROVE  \E role, service, key : Plain(u, role, service, key)
  <2>1. PICK a \in affected :
            u = Unit("persistence-migration", NameOf[a[1]], <<a[2].name>>, {})
    BY DEF DerivePersistenceMigration
  <2>2. \E S : <<a[2].name>> \in Seq(S)
    BY Keys
  <2>3. Plain(u, "persistence-migration", NameOf[a[1]], <<a[2].name>>)
    BY <2>1, <2>2 DEF Plain, PlainRoles
  <2> QED BY <2>3
<1>2. Described({}, DerivePersistenceMigration(affected, services))
  BY <1>1, PlainUnit DEF Described
<1> QED BY <1>2, DescribedUnique

LEMMA ContractUnitsUnique ==
    ASSUME NEW services
    PROVE  IdsUnique(DeriveHttpContract(services))
<1> DEFINE units == HttpContractPerCall(services)
           ids == {u.id : u \in units}
           chosen == [id \in ids |-> CHOOSE u \in units : u.id = id]
<1>1. DeriveHttpContract(services) = {chosen[id] : id \in ids}
  BY DEF DeriveHttpContract
<1>2. \A id \in ids : chosen[id].id = id
  OBVIOUS
<1> HIDE DEF chosen, ids
<1> QED BY <1>1, <1>2 DEF IdsUnique

LEMMA OwnershipUnitsUnique ==
    ASSUME FactsInv, NEW services
    PROVE  IdsUnique(DeriveAggregateOwnership(FindAggregateOwnershipOverlap, services))
<1> SUFFICES ASSUME NEW u \in DeriveAggregateOwnership(FindAggregateOwnershipOverlap, services),
                    NEW v \in DeriveAggregateOwnership(FindAggregateOwnershipOverlap, services),
                    u.id = v.id
             PROVE  u = v
  BY DEF IdsUnique
<1>1. PICK g : AsksAbout(u, g, services)
  BY OwnershipUnits
<1>2. PICK h : AsksAbout(v, h, services)
  BY OwnershipUnits
<1>3. g = h
  BY <1>1, <1>2 DEF AsksAbout
<1> QED BY <1>1, <1>2, <1>3 DEF AsksAbout

LEMMA ConfigurationUnitsUnique ==
    ASSUME FactsInv, NEW services, services \subseteq Indexed,
           \A s, t \in services : NameOf[s] = NameOf[t] => s = t
    PROVE  IdsUnique(ConfigurationUnits(services))
<1> DEFINE IsPlain(u) == \E role, service, key : Plain(u, role, service, key)
           Imported(u) == \E s \in services : \E source : u = SourceImportUnit(s, source)
<1>1. ASSUME NEW u \in ConfigurationUnits(services)
      PROVE  IsPlain(u) \/ Imported(u)
  <2>1. PICK s \in services :
            \/ \E role, key : RowQuestion(s, role, key) /\ u = Unit(role, NameOf[s], key, {})
            \/ \E i \in RowsOf(s, "importUnknowns") : u = SourceImportUnit(s, i.source)
    BY ConfigurationUnitsAre
  <2>2. CASE \E i \in RowsOf(s, "importUnknowns") : u = SourceImportUnit(s, i.source)
    BY <2>2
  <2>3. ASSUME NEW role, NEW key, RowQuestion(s, role, key), u = Unit(role, NameOf[s], key, {})
        PROVE  IsPlain(u)
    <3>1. role \in PlainRoles
      BY <2>3 DEF RowQuestion, PlainRoles
    <3>2. \/ \E f : key = <<f.provider, f.key>>
          \/ \E k : key = <<k>>
          \/ \E b : key = <<b.source, b.entry, b.key>>
      BY <2>3 DEF RowQuestion, BindingKey
    <3>3. \E S : key \in Seq(S)
      <4>1. ASSUME NEW a, key = <<a>>
            PROVE  key \in Seq({a})
        BY <4>1
      <4>2. ASSUME NEW a, NEW b, key = <<a, b>>
            PROVE  key \in Seq({a, b})
        BY <4>2
      <4>3. ASSUME NEW a, NEW b, NEW c, key = <<a, b, c>>
            PROVE  key \in Seq({a, b, c})
        BY <4>3
      <4> QED BY <3>2, <4>1, <4>2, <4>3
    <3>4. Plain(u, role, NameOf[s], key)
      BY <2>3, <3>1, <3>3 DEF Plain
    <3> QED BY <3>4
  <2> HIDE DEF IsPlain, Imported
  <2> QED BY <2>1, <2>2, <2>3 DEF Imported
<1>2. ASSUME NEW u, IsPlain(u)
      PROVE  u.id[1] # "runtime-configuration-source-import-unknown"
  <2>1. PICK role, service, key : Plain(u, role, service, key)
    BY <1>2
  <2>2. PICK S : key \in Seq(S)
    BY <2>1 DEF Plain
  <2>3. u.id = <<role, service>> \o key
    BY <2>1, <2>2, UnitIs DEF Plain
  <2>4. (<<role, service>> \o key)[1] = role
    BY <2>2, UnitIs
  <2>5. u.id[1] = role
    BY <2>3, <2>4
  <2> QED BY <2>1, <2>5 DEF Plain, PlainRoles
<1>3. \A s, source :
          /\ SourceImportUnit(s, source).id
             = <<"runtime-configuration-source-import-unknown", NameOf[s], source>>
          /\ SourceImportUnit(s, source).id[1] = "runtime-configuration-source-import-unknown"
  BY DEF SourceImportUnit
<1>4. ASSUME NEW u, NEW v, IsPlain(u), IsPlain(v), u.id = v.id
      PROVE  u = v
  <2>1. Described({}, {u, v})
    BY <1>4, PlainUnit DEF Described
  <2>2. IdsUnique({u, v})
    BY <2>1, DescribedUnique
  <2> QED BY <1>4, <2>2 DEF IdsUnique
<1>5. ASSUME NEW u, NEW v, Imported(u), Imported(v), u.id = v.id
      PROVE  u = v
  <2>1. PICK s \in services : \E source : u = SourceImportUnit(s, source)
    BY <1>5
  <2>2. PICK source : u = SourceImportUnit(s, source)
    BY <2>1
  <2>3. PICK t \in services : \E other : v = SourceImportUnit(t, other)
    BY <1>5
  <2>4. PICK other : v = SourceImportUnit(t, other)
    BY <2>3
  <2>5. NameOf[s] = NameOf[t] /\ source = other
    BY <1>3, <1>5, <2>2, <2>4
  <2> QED BY <2>2, <2>4, <2>5
<1>6. ASSUME NEW u, Imported(u)
      PROVE  u.id[1] = "runtime-configuration-source-import-unknown"
  BY <1>3, <1>6
<1> HIDE DEF IsPlain, Imported
<1> QED BY <1>1, <1>2, <1>4, <1>5, <1>6 DEF IdsUnique

UniqueIn(units, roles) == IdsUnique(units) /\ \A u \in units : u.id[1] \in roles

LEMMA UniqueUnion ==
    ASSUME NEW A, NEW roles, UniqueIn(A, roles), NEW B, NEW others, UniqueIn(B, others),
           roles \cap others = {}
    PROVE  UniqueIn(A \cup B, roles \cup others)
BY DEF UniqueIn, IdsUnique

(* A unit of a flow, but for what it holds beside its identity.             *)
HasFlowId(u, role) == \E key : u.id = <<role, u.service, key>>

LEMMA FlowUnitIs ==
    ASSUME NEW role, NEW service, NEW key, NEW contracts, NEW dependencies
    PROVE  LET u == FlowUnit(role, service, key, contracts, dependencies)
           IN  /\ u.id = <<role, service, key>> /\ u.service = service
               /\ u.id[1] = role /\ u.id[3] = key
               /\ HasFlowId(u, role)
BY DEF FlowUnit, HasFlowId

LEMMA UniquePerKey ==
    ASSUME NEW units, NEW keys, OneUnitPerKey(units, keys), NEW role,
           \A u \in units : HasFlowId(u, role)
    PROVE  UniqueIn(units, {role})
<1>1. ASSUME NEW u \in units, NEW v \in units, u.id = v.id
      PROVE  u = v
  <2>1. PICK key : u.id = <<role, u.service, key>>
    BY DEF HasFlowId
  <2>2. PICK other : v.id = <<role, v.service, other>>
    BY DEF HasFlowId
  <2>3. <<role, u.service, key>> = <<role, v.service, other>>
    BY <1>1, <2>1, <2>2
  <2>4. u.service = v.service
    BY <2>3
  <2>5. u.id[3] = v.id[3]
    BY <1>1
  <2>6. \A x, y \in units : x.service = y.service /\ x.id[3] = y.id[3] => x = y
    BY DEF OneUnitPerKey
  <2> QED BY <2>4, <2>5, <2>6
<1>2. \A u \in units : u.id[1] = role
  BY DEF HasFlowId
<1> QED BY <1>1, <1>2 DEF UniqueIn, IdsUnique

(* The families about channels, which differ in the findings they select.   *)
LEMMA ChannelFamiliesUnique ==
    ASSUME FactsInv, NEW services
    PROVE  /\ UniqueIn(DeriveRetryUnrecoveredDelivery(FlowDetectors, services), {"retry-unrecovered-consumer-delivery"})
           /\ UniqueIn(DeriveRetryDelivery(FlowDetectors, services), {"retry-delivery"})
           /\ UniqueIn(DeriveRetryConsumerDelivery(FlowDetectors, services), {"retry-consumer-delivery"})
           /\ UniqueIn(DeriveRetryWritePublish(FlowDetectors, services), {"retry-write-publish"})
           /\ UniqueIn(DeriveNonAtomicServicePublish(FlowDetectors, services), {"non-atomic-service-publish"})
<1>1. UniqueIn(DeriveRetryUnrecoveredDelivery(FlowDetectors, services), {"retry-unrecovered-consumer-delivery"})
  <2>1. ASSUME NEW u \in DeriveRetryUnrecoveredDelivery(FlowDetectors, services)
        PROVE  HasFlowId(u, "retry-unrecovered-consumer-delivery")
    <3>1. \E service, key, contracts, dependencies :
              u = FlowUnit("retry-unrecovered-consumer-delivery", service, key, contracts, dependencies)
      BY DEF DeriveRetryUnrecoveredDelivery, ChannelUnits
    <3> QED BY <3>1, FlowUnitIs
  <2>2. \E keys : OneUnitPerKey(DeriveRetryUnrecoveredDelivery(FlowDetectors, services), keys)
    BY UnrecoveredDeliveryUnits
  <2> QED BY <2>1, <2>2, UniquePerKey
<1>2. UniqueIn(DeriveRetryDelivery(FlowDetectors, services), {"retry-delivery"})
  <2>1. ASSUME NEW u \in DeriveRetryDelivery(FlowDetectors, services)
        PROVE  HasFlowId(u, "retry-delivery")
    <3>1. \E service, key, contracts, dependencies :
              u = FlowUnit("retry-delivery", service, key, contracts, dependencies)
      BY DEF DeriveRetryDelivery, ChannelUnits
    <3> QED BY <3>1, FlowUnitIs
  <2>2. \E keys : OneUnitPerKey(DeriveRetryDelivery(FlowDetectors, services), keys)
    BY DeliveryUnits
  <2> QED BY <2>1, <2>2, UniquePerKey
<1>3. UniqueIn(DeriveRetryConsumerDelivery(FlowDetectors, services), {"retry-consumer-delivery"})
  <2>1. ASSUME NEW u \in DeriveRetryConsumerDelivery(FlowDetectors, services)
        PROVE  HasFlowId(u, "retry-consumer-delivery")
    <3>1. \E service, key, contracts, dependencies :
              u = FlowUnit("retry-consumer-delivery", service, key, contracts, dependencies)
      BY DEF DeriveRetryConsumerDelivery, ChannelUnits
    <3> QED BY <3>1, FlowUnitIs
  <2>2. \E keys : OneUnitPerKey(DeriveRetryConsumerDelivery(FlowDetectors, services), keys)
    BY ConsumerDeliveryUnits
  <2> QED BY <2>1, <2>2, UniquePerKey
<1>4. UniqueIn(DeriveRetryWritePublish(FlowDetectors, services), {"retry-write-publish"})
  <2>1. ASSUME NEW u \in DeriveRetryWritePublish(FlowDetectors, services)
        PROVE  HasFlowId(u, "retry-write-publish")
    <3>1. \E service, key, contracts, dependencies :
              u = FlowUnit("retry-write-publish", service, key, contracts, dependencies)
      BY DEF DeriveRetryWritePublish, PublishedUnits
    <3> QED BY <3>1, FlowUnitIs
  <2>2. \E keys : OneUnitPerKey(DeriveRetryWritePublish(FlowDetectors, services), keys)
    BY WritePublishUnits
  <2> QED BY <2>1, <2>2, UniquePerKey
<1>5. UniqueIn(DeriveNonAtomicServicePublish(FlowDetectors, services), {"non-atomic-service-publish"})
  <2>1. ASSUME NEW u \in DeriveNonAtomicServicePublish(FlowDetectors, services)
        PROVE  HasFlowId(u, "non-atomic-service-publish")
    <3>1. \E service, key, contracts, dependencies :
              u = FlowUnit("non-atomic-service-publish", service, key, contracts, dependencies)
      BY DEF DeriveNonAtomicServicePublish, PublishedUnits
    <3> QED BY <3>1, FlowUnitIs
  <2>2. \E keys : OneUnitPerKey(DeriveNonAtomicServicePublish(FlowDetectors, services), keys)
    BY WritePublishUnits
  <2> QED BY <2>1, <2>2, UniquePerKey
<1> QED BY <1>1, <1>2, <1>3, <1>4, <1>5

LEMMA OtherDetectedBy ==
    ASSUME FactsInv, NEW g \in FlowDetectors
    PROVE  /\ g.kind = "possible_resilience_policy_on_partial_write_flow"
              => g \in FindResiliencePoliciesOnWriteFlows
           /\ g.kind = "possible_read_entrypoint_side_effect"
              => g \in FindReadEntrypointSideEffects
<1>1. /\ \A h \in FindRetryFlowsWithUnrecoveredConsumers : h.kind = UnrecoveredKind
      /\ \A h \in FindRetryFlowsWithPersistentConsumers : h.kind = PersistentKind
      /\ \A h \in FindRetryFlowsWithConsumers : h.kind = ConsumerKind
  BY ConsumerFindings, PersistentFindings, UnrecoveredFindings DEF AboutChannel
<1> QED BY <1>1, DetectorKinds DEF FlowDetectors, UnrecoveredKind, PersistentKind, ConsumerKind

LEMMA ConsumerRecoveryUnique ==
    ASSUME NEW findings, NEW services
    PROVE  UniqueIn(DeriveConsumerRecovery(findings, services), {"message-consumer-recovery"})
<1>1. ASSUME NEW u \in DeriveConsumerRecovery(findings, services)
      PROVE  \E service, symbol, queue :
                 u = FlowUnit("message-consumer-recovery", service, <<symbol, queue>>,
                              {Queue(queue)}, {})
  BY DEF DeriveConsumerRecovery
<1>2. ASSUME NEW u \in DeriveConsumerRecovery(findings, services),
             NEW v \in DeriveConsumerRecovery(findings, services), u.id = v.id
      PROVE  u = v
  <2>1. PICK service, symbol, queue :
            u = FlowUnit("message-consumer-recovery", service, <<symbol, queue>>,
                         {Queue(queue)}, {})
    BY <1>1
  <2>2. PICK service2, symbol2, queue2 :
            v = FlowUnit("message-consumer-recovery", service2, <<symbol2, queue2>>,
                         {Queue(queue2)}, {})
    BY <1>1
  <2>3. <<"message-consumer-recovery", service, <<symbol, queue>>>>
        = <<"message-consumer-recovery", service2, <<symbol2, queue2>>>>
    BY <1>2, <2>1, <2>2, FlowUnitIs
  <2>4. service = service2 /\ symbol = symbol2 /\ queue = queue2
    BY <2>3
  <2> QED BY <2>1, <2>2, <2>4
<1>3. ASSUME NEW u \in DeriveConsumerRecovery(findings, services)
      PROVE  u.id[1] = "message-consumer-recovery"
  <2>1. PICK service, symbol, queue :
            u = FlowUnit("message-consumer-recovery", service, <<symbol, queue>>,
                         {Queue(queue)}, {})
    BY <1>1
  <2> QED BY <2>1, FlowUnitIs
<1> QED BY <1>2, <1>3 DEF UniqueIn, IdsUnique

LEMMA FirstMember ==
    ASSUME NEW S, S # {}, \A f \in S : f.line \in Nat
    PROVE  FirstOf(S) \in S
<1> DEFINE lines == {f.line : f \in S}
<1>1. PICK m \in lines : \A l \in lines : m <= l
  <2>1. lines \in SUBSET Nat /\ lines # {}
    OBVIOUS
  <2> QED BY <2>1, LeastNumber
<1>2. \E f \in S : \A g \in S : f.line <= g.line
  BY <1>1
<1> QED BY <1>2 DEF FirstOf

LEMMA PartialWriteUnique ==
    ASSUME FactsInv, NEW services
    PROVE  UniqueIn(DerivePartialWriteResilience(FlowDetectors, services),
                    {"partial-write-resilience"})
<1> DEFINE selected == SelectedFlows(FlowDetectors,
                           "possible_resilience_policy_on_partial_write_flow", services, 70)
           Key(f) == <<f.service, f.symbol, f.target>>
           First(key) == FirstOf({f \in selected : Key(f) = key})
           Made(f) == FlowUnit("partial-write-resilience", f.service, <<f.symbol, f.target>>,
                               {f.contract}, {<<f.target>>})
           keys == {Key(f) : f \in selected}
           units == DerivePartialWriteResilience(FlowDetectors, services)
<1>1. units = {Made(First(key)) : key \in keys}
  BY DEF DerivePartialWriteResilience
<1>2. ASSUME NEW f \in selected
      PROVE  f.line \in Nat
  <2>1. f \in FindResiliencePoliciesOnWriteFlows
    BY OtherDetectedBy DEF SelectedFlows
  <2>2. \E s \in Indexed : \E c \in facts[s].calls : f.line = c.line
    <3> DEFINE Calls(s) == {d \in facts[s].calls :
                               /\ d.protocol = "http"
                               /\ PoliciesBySource(s, d.source, {"retry", "timeout"}) # {}
                               /\ Writes(<<s, d.source>>) # {}}
               finding(s, c) == [kind |-> "possible_resilience_policy_on_partial_write_flow",
                                 service |-> ServiceName(s), others |-> {}, symbol |-> c.source,
                                 target |-> c.target, contract |-> <<c.method, c.path>>,
                                 line |-> c.line, confidence |-> 70]
    <3>1. FindResiliencePoliciesOnWriteFlows
          = UNION {{finding(s, c) : c \in Calls(s)} : s \in Indexed}
      BY DEF FindResiliencePoliciesOnWriteFlows
    <3>2. \A s, c : finding(s, c).line = c.line
      OBVIOUS
    <3>3. \A s : Calls(s) \subseteq facts[s].calls
      OBVIOUS
    <3> HIDE DEF Calls, finding
    <3>4. PICK s \in Indexed : \E c \in Calls(s) : f = finding(s, c)
      BY <2>1, <3>1
    <3> QED BY <3>2, <3>3, <3>4
  <2> QED BY <2>2 DEF FactsInv, AreRows
<1>3. ASSUME NEW key \in keys
      PROVE  Key(First(key)) = key
  <2> DEFINE same == {f \in selected : Key(f) = key}
  <2>1. same # {}
    OBVIOUS
  <2>2. \A f \in same : f.line \in Nat /\ Key(f) = key
    BY <1>2
  <2> HIDE DEF same
  <2>3. FirstOf(same) \in same
    BY <2>1, <2>2, FirstMember
  <2> QED BY <2>2, <2>3 DEF same
<1> HIDE DEF keys, selected, First, units
<1>4. \A f : /\ Made(f).id = <<"partial-write-resilience", f.service, <<f.symbol, f.target>>>>
             /\ Made(f).id[1] = "partial-write-resilience"
  BY FlowUnitIs
<1> HIDE DEF Made
<1>5. ASSUME NEW u \in units, NEW v \in units, u.id = v.id
      PROVE  u = v
  <2>1. PICK k \in keys : u = Made(First(k))
    BY <1>1
  <2>2. PICK l \in keys : v = Made(First(l))
    BY <1>1
  <2>3. <<"partial-write-resilience", First(k).service, <<First(k).symbol, First(k).target>>>>
        = <<"partial-write-resilience", First(l).service, <<First(l).symbol, First(l).target>>>>
    BY <1>4, <1>5, <2>1, <2>2
  <2>4. Key(First(k)) = Key(First(l))
    BY <2>3
  <2>5. k = l
    BY <1>3, <2>4
  <2> QED BY <2>1, <2>2, <2>5
<1>6. \A u \in units : u.id[1] = "partial-write-resilience"
  BY <1>1, <1>4
<1> QED BY <1>5, <1>6 DEF UniqueIn, IdsUnique, units

LEMMA ReadSideEffectUnique ==
    ASSUME FactsInv, NEW services
    PROVE  UniqueIn(DeriveReadSideEffect(FlowDetectors, services), {"read-entrypoint-side-effect"})
<1> DEFINE units == DeriveReadSideEffect(FlowDetectors, services)
           finding(id) == EntrypointFinding("possible_read_entrypoint_side_effect", id, 80)
           Made(f) == FlowUnit("read-entrypoint-side-effect", f.service,
                          <<f.entrypoint.kind, f.entrypoint.method, f.entrypoint.symbol>>,
                          {<<f.entrypoint.kind, f.entrypoint.method, f.entrypoint.name>>}, {})
<1>1. \A u \in units : \E f \in FindReadEntrypointSideEffects : u = Made(f)
  BY OtherDetectedBy DEF DeriveReadSideEffect, SelectedFlows
<1>2. \A id : finding(id).service = ServiceName(id[1])
              /\ finding(id).entrypoint = EntrypointOf(id)
  BY DEF EntrypointFinding
<1>3. \A f \in FindReadEntrypointSideEffects :
          \E id \in EntrypointIds :
              /\ f = finding(id)
              /\ DirectOperations(id, "writes") \cup DirectOperations(id, "publishes") # {}
  BY DEF FindReadEntrypointSideEffects
<1> HIDE DEF finding
<1>4. ASSUME NEW f \in FindReadEntrypointSideEffects
      PROVE  \E s \in Indexed : /\ f.service = ServiceName(s)
                                /\ f = finding(<<s, EntrypointIdOf(s, f.entrypoint.symbol)>>)
  <2>1. PICK id \in EntrypointIds :
            /\ f = finding(id)
            /\ DirectOperations(id, "writes") \cup DirectOperations(id, "publishes") # {}
    BY <1>3
  <2>2. /\ id = <<id[1], id[2]>> /\ id[1] \in Indexed
        /\ id[2] \in DOMAIN facts[id[1]].entries
    BY EntrypointIdIs
  <2>3. PICK e \in facts[id[1]].edges : EntrypointIdOf(id[1], e.from) = id[2]
    BY <2>1 DEF DirectOperations
  <2>4. facts[id[1]].entries[id[2]].symbol = e.from
    BY <2>2, <2>3, EntrypointTied
  <2>5. f.entrypoint.symbol = e.from
    BY <1>2, <2>1, <2>4 DEF EntrypointOf
  <2> QED BY <1>2, <2>1, <2>2, <2>3, <2>5
<1>5. \A f : /\ Made(f).id
                = <<"read-entrypoint-side-effect", f.service,
                    <<f.entrypoint.kind, f.entrypoint.method, f.entrypoint.symbol>>>>
             /\ Made(f).id[1] = "read-entrypoint-side-effect"
  BY FlowUnitIs
<1> HIDE DEF Made, units
<1>6. ASSUME NEW u \in units, NEW v \in units, u.id = v.id
      PROVE  u = v
  <2>1. PICK f \in FindReadEntrypointSideEffects : u = Made(f)
    BY <1>1
  <2>2. PICK g \in FindReadEntrypointSideEffects : v = Made(g)
    BY <1>1
  <2>3. <<"read-entrypoint-side-effect", f.service,
          <<f.entrypoint.kind, f.entrypoint.method, f.entrypoint.symbol>>>>
        = <<"read-entrypoint-side-effect", g.service,
            <<g.entrypoint.kind, g.entrypoint.method, g.entrypoint.symbol>>>>
    BY <1>5, <1>6, <2>1, <2>2
  <2>4. f.service = g.service /\ f.entrypoint.symbol = g.entrypoint.symbol
    BY <2>3
  <2>5. PICK s \in Indexed : /\ f.service = ServiceName(s)
                             /\ f = finding(<<s, EntrypointIdOf(s, f.entrypoint.symbol)>>)
    BY <1>4
  <2>6. PICK t \in Indexed : /\ g.service = ServiceName(t)
                             /\ g = finding(<<t, EntrypointIdOf(t, g.entrypoint.symbol)>>)
    BY <1>4
  <2>7. s = t
    BY <2>4, <2>5, <2>6, NamesDiffer
  <2> QED BY <2>1, <2>2, <2>4, <2>5, <2>6, <2>7
<1>7. \A u \in units : u.id[1] = "read-entrypoint-side-effect"
  BY <1>1, <1>5
<1> QED BY <1>6, <1>7 DEF UniqueIn, IdsUnique, units

LEMMA FlowUnitsUnique ==
    ASSUME FactsInv, NEW services
    PROVE  IdsUnique(FlowReviewUnits(FlowDetectors, services))
<1> DEFINE A == DeriveRetryUnrecoveredDelivery(FlowDetectors, services)
           B == DeriveRetryDelivery(FlowDetectors, services)
           C == DeriveRetryConsumerDelivery(FlowDetectors, services)
           D == DeriveRetryWritePublish(FlowDetectors, services)
           E == DeriveNonAtomicServicePublish(FlowDetectors, services)
           F == DeriveConsumerRecovery(FlowDetectors, services)
           G == DerivePartialWriteResilience(FlowDetectors, services)
           H == DeriveReadSideEffect(FlowDetectors, services)
<1>1. /\ UniqueIn(A, {"retry-unrecovered-consumer-delivery"})
      /\ UniqueIn(B, {"retry-delivery"})
      /\ UniqueIn(C, {"retry-consumer-delivery"})
      /\ UniqueIn(D, {"retry-write-publish"})
      /\ UniqueIn(E, {"non-atomic-service-publish"})
  BY ChannelFamiliesUnique
<1>2. /\ UniqueIn(F, {"message-consumer-recovery"})
      /\ UniqueIn(G, {"partial-write-resilience"})
      /\ UniqueIn(H, {"read-entrypoint-side-effect"})
  BY ConsumerRecoveryUnique, PartialWriteUnique, ReadSideEffectUnique
<1>3. FlowReviewUnits(FlowDetectors, services)
      = ((A \cup B) \cup (C \cup D)) \cup ((E \cup F) \cup (G \cup H))
  BY DEF FlowReviewUnits, RetryReviewUnits
<1> HIDE DEF A, B, C, D, E, F, G, H
<1>4. UniqueIn(A \cup B, {"retry-unrecovered-consumer-delivery"} \cup {"retry-delivery"})
  BY <1>1, UniqueUnion
<1>5. UniqueIn(C \cup D, {"retry-consumer-delivery"} \cup {"retry-write-publish"})
  BY <1>1, UniqueUnion
<1>6. UniqueIn(E \cup F, {"non-atomic-service-publish"} \cup {"message-consumer-recovery"})
  BY <1>1, <1>2, UniqueUnion
<1>7. UniqueIn(G \cup H, {"partial-write-resilience"} \cup {"read-entrypoint-side-effect"})
  BY <1>2, UniqueUnion
<1> DEFINE retried == ({"retry-unrecovered-consumer-delivery"} \cup {"retry-delivery"})
                      \cup ({"retry-consumer-delivery"} \cup {"retry-write-publish"})
           rest == ({"non-atomic-service-publish"} \cup {"message-consumer-recovery"})
                   \cup ({"partial-write-resilience"} \cup {"read-entrypoint-side-effect"})
<1>8. UniqueIn((A \cup B) \cup (C \cup D), retried)
  BY <1>4, <1>5, UniqueUnion
<1>9. UniqueIn((E \cup F) \cup (G \cup H), rest)
  BY <1>6, <1>7, UniqueUnion
<1>10. retried \cap rest = {}
  OBVIOUS
<1> HIDE DEF retried, rest
<1>11. UniqueIn(FlowReviewUnits(FlowDetectors, services), retried \cup rest)
  BY <1>3, <1>8, <1>9, <1>10, UniqueUnion
<1> QED BY <1>11 DEF UniqueIn

(* The rows of a plan have one service for each name.                       *)
LEMMA PlanRowsNamed ==
    ASSUME NEW primary, NEW scope
    PROVE  /\ PlanRows(primary, scope) \subseteq Indexed
           /\ \A s, t \in PlanRows(primary, scope) : NameOf[s] = NameOf[t] => s = t
<1>1. ASSUME NEW s \in PlanRows(primary, scope)
      PROVE  \E n : InScope(n, scope) = {s} /\ NameOf[s] = n
  <2>1. PICK n : InScope(n, scope) = {s}
    BY DEF PlanRows
  <2>2. s \in Named(n)
    BY <2>1 DEF InScope
  <2> QED BY <2>1, <2>2 DEF Named
<1>2. ASSUME NEW s \in PlanRows(primary, scope), NEW t \in PlanRows(primary, scope),
             NameOf[s] = NameOf[t]
      PROVE  s = t
  <2>1. InScope(NameOf[s], scope) = {s} /\ InScope(NameOf[t], scope) = {t}
    BY <1>1
  <2> QED BY <1>2, <2>1
<1> QED BY <1>2 DEF PlanRows

LEMMA FamiliesUnique ==
    ASSUME FactsInv, NEW primary, NEW scope
    PROVE  \A i \in DOMAIN PlanUnits(primary, scope) : IdsUnique(PlanUnits(primary, scope)[i])
<1> DEFINE services == PlanServices(primary)
           rows == PlanRows(primary, scope)
           families == <<DeriveHttpContract(rows),
                         DeriveAggregateOwnership(FindAggregateOwnershipOverlap, services),
                         CloudUnits(CloudFindings, services),
                         ErrorUnits(services), CallUnits(services), DownstreamUnits(services),
                         FlowReviewUnits(FlowDetectors, services),
                         DerivePersistenceMigration(AffectedTables(rows), rows),
                         ConfigurationUnits(rows)>>
<1>1. PlanUnits(primary, scope) = families
  BY DEF PlanUnits
<1>2. IdsUnique(ConfigurationUnits(rows))
  BY PlanRowsNamed, ConfigurationUnitsUnique
<1>3. /\ IdsUnique(DeriveHttpContract(rows))
      /\ IdsUnique(DeriveAggregateOwnership(FindAggregateOwnershipOverlap, services))
      /\ IdsUnique(CloudUnits(CloudFindings, services))
      /\ IdsUnique(ErrorUnits(services)) /\ IdsUnique(CallUnits(services))
      /\ IdsUnique(DownstreamUnits(services))
      /\ IdsUnique(FlowReviewUnits(FlowDetectors, services))
      /\ IdsUnique(DerivePersistenceMigration(AffectedTables(rows), rows))
  BY ContractUnitsUnique, OwnershipUnitsUnique, CloudUnitsUnique, ErrorUnitsUnique,
     CallUnitsUnique, DownstreamUnitsUnique, FlowUnitsUnique, MigrationUnitsUnique
<1> HIDE DEF services, rows
<1>4. DOMAIN families = 1..9
  OBVIOUS
<1>5. \A i \in 1..9 : i = 1 \/ i = 2 \/ i = 3 \/ i = 4 \/ i = 5 \/ i = 6 \/ i = 7 \/ i = 8 \/ i = 9
  OBVIOUS
<1>6. /\ IdsUnique(families[1]) /\ IdsUnique(families[2]) /\ IdsUnique(families[3])
      /\ IdsUnique(families[4]) /\ IdsUnique(families[5]) /\ IdsUnique(families[6])
      /\ IdsUnique(families[7]) /\ IdsUnique(families[8]) /\ IdsUnique(families[9])
  BY <1>2, <1>3
<1> HIDE DEF families
<1>7. \A i \in DOMAIN families : IdsUnique(families[i])
  BY <1>4, <1>5, <1>6
<1> QED BY <1>1, <1>7

(* The results and the assessments of a plan name its units by id: whatever *)
(* is indexed, and whatever a plan is about, no two of its units that differ *)
(* share one (the derive functions of change_plan.py).                      *)
THEOREM UnitIdsAlwaysUnique == ReviewSpec => []UnitIdsUnique
<1>1. ReviewInv => UnitIdsUnique
  BY FamiliesUnique DEF ReviewInv, UnitIdsUnique, IdsUnique
<1> QED BY <1>1, RowsAgree, PTL

-----------------------------------------------------------------------------
(* The walk of an endpoint.                                                 *)

Before(d, e) == d.line < e.line \/ (d.line = e.line /\ d.to < e.to)

IsOrdering(q, S) ==
    /\ q \in [1..Cardinality(S) -> S]
    /\ \A i, j \in 1..Cardinality(S) : i < j => q[i] # q[j] /\ ~Before(q[j], q[i])

(* A set of edges has one that comes before or with all others.             *)
LEMMA FirstEdge ==
    ASSUME NEW S, S # {}, \A e \in S : e.line \in Nat /\ e.to \in Nat
    PROVE  \E d \in S : \A e \in S : ~Before(e, d)
<1> DEFINE lines == {e.line : e \in S}
<1>1. lines \in SUBSET Nat /\ lines # {}
  OBVIOUS
<1>2. PICK l \in lines : \A k \in lines : l <= k
  BY <1>1, LeastNumber
<1> DEFINE tos == {e.to : e \in {d \in S : d.line = l}}
<1>3. tos \in SUBSET Nat /\ tos # {}
  BY <1>2
<1>4. PICK t \in tos : \A k \in tos : t <= k
  BY <1>3, LeastNumber
<1>5. PICK d \in S : d.line = l /\ d.to = t
  BY <1>4
<1>6. ASSUME NEW e \in S, Before(e, d) PROVE FALSE
  <2>1. e.line \in lines /\ l <= e.line /\ l \in Nat /\ e.line \in Nat
    BY <1>1, <1>2
  <2>2. e.line = l => e.to \in tos /\ t <= e.to
    BY <1>4
  <2>3. t \in Nat /\ e.to \in Nat
    BY <1>5
  <2> HIDE DEF lines, tos
  <2> QED BY <1>5, <1>6, <2>1, <2>2, <2>3 DEF Before
<1> QED BY <1>5, <1>6

(* The edges that leave a symbol can be ordered as the query orders them, however*)
(* many there are.                                                          *)
LEMMA Orderings ==
    ASSUME NEW S, IsFiniteSet(S), \A e \in S : e.line \in Nat /\ e.to \in Nat
    PROVE  \E q : IsOrdering(q, S)
<1> DEFINE Good(T) == IsFiniteSet(T) /\ \A e \in T : e.line \in Nat /\ e.to \in Nat
           Bad == {n \in Nat : \E T : Good(T) /\ Cardinality(T) = n /\ ~\E q : IsOrdering(q, T)}
<1>1. ASSUME Bad # {} PROVE FALSE
  <2>1. PICK n \in Bad : \A k \in Bad : n <= k
    <3>1. Bad \in SUBSET Nat
      OBVIOUS
    <3> HIDE DEF Bad
    <3> QED BY <1>1, <3>1, LeastNumber
  <2>2. PICK T : Good(T) /\ Cardinality(T) = n /\ ~\E q : IsOrdering(q, T)
    BY <2>1
  <2>3. CASE T = {}
    <3>1. n = 0
      BY <2>2, <2>3, FS_EmptySet
    <3>2. IsOrdering([i \in 1..0 |-> 0], T)
      BY <2>2, <2>3, <3>1 DEF IsOrdering
    <3> QED BY <2>2, <3>2
  <2>4. CASE T # {}
    <3>1. PICK d \in T : \A e \in T : ~Before(e, d)
      BY <2>2, <2>4, FirstEdge
    <3> DEFINE R == T \ {d}
    <3>2. IsFiniteSet(R) /\ Cardinality(R) = n - 1 /\ n \in Nat \ {0}
      BY <2>2, <2>4, FS_RemoveElement, FS_EmptySet, FS_CardinalityType
    <3>3. n - 1 \notin Bad /\ n - 1 \in Nat
      BY <2>1, <3>2
    <3>4. PICK q : IsOrdering(q, R)
      BY <2>2, <3>2, <3>3
    <3> DEFINE p == [i \in 1..n |-> IF i = 1 THEN d ELSE q[i - 1]]
    <3>5. q \in [1..(n - 1) -> R] /\ \A i, j \in 1..(n - 1) : i < j => q[i] # q[j] /\ ~Before(q[j], q[i])
      BY <3>2, <3>4 DEF IsOrdering
    <3>6. \A i \in 1..n : i = 1 \/ i - 1 \in 1..(n - 1)
      BY <3>2
    <3>7. p \in [1..n -> T] /\ \A i \in 1..n : i # 1 => p[i] = q[i - 1] /\ p[i] \in R
      BY <3>5, <3>6
    <3>8. ASSUME NEW i \in 1..n, NEW j \in 1..n, i < j
          PROVE  p[i] # p[j] /\ ~Before(p[j], p[i])
      <4>1. j # 1 /\ j - 1 \in 1..(n - 1) /\ p[j] = q[j - 1] /\ p[j] \in R
        BY <3>6, <3>7, <3>8, <3>2
      <4>2. CASE i = 1
        <5>1. p[i] = d
          BY <4>2
        <5> HIDE DEF p
        <5> QED BY <3>1, <4>1, <5>1
      <4>3. CASE i # 1
        <5>1. i - 1 \in 1..(n - 1) /\ p[i] = q[i - 1] /\ i - 1 < j - 1
          BY <3>2, <3>6, <3>7, <3>8, <4>3
        <5> HIDE DEF p
        <5> QED BY <3>5, <4>1, <5>1
      <4> QED BY <4>2, <4>3
    <3> HIDE DEF p
    <3> QED BY <2>2, <3>7, <3>8 DEF IsOrdering
  <2> QED BY <2>3, <2>4
<1>2. Cardinality(S) \in Nat
  BY FS_CardinalityType
<1> QED BY <1>1, <1>2

(* The edges of a service are rows with numbers.                            *)
LEMMA EdgeRows ==
    ASSUME FactsInv, NEW s \in Indexed
    PROVE  /\ IsFiniteSet(facts[s].edges)
           /\ \A e \in facts[s].edges : e.line \in Nat /\ e.to \in Nat
  BY DEF FactsInv, AreRows

LEMMA SameInterval ==
    ASSUME NEW k \in Nat, NEW l \in Nat, 1..k = 1..l
    PROVE  k = l
<1>1. ASSUME k < l PROVE FALSE
  <2>1. l \in 1..l /\ l \notin 1..k
    BY <1>1
  <2> QED BY <2>1
<1>2. ASSUME l < k PROVE FALSE
  <2>1. k \in 1..k /\ k \notin 1..l
    BY <1>2
  <2> QED BY <2>1
<1> QED BY <1>1, <1>2

Leaving(s, symbol) == {e \in facts[s].edges : e.from = symbol}

(* The query returns each edge that leaves the symbol once.                 *)
LEMMA EdgesFromAre ==
    ASSUME FactsInv, NEW s \in Indexed, NEW symbol
    PROVE  LET q == EdgesFrom(s, symbol)
           IN  /\ Len(q) \in Nat /\ q \in [1..Len(q) -> Leaving(s, symbol)]
               /\ q \in Seq(Leaving(s, symbol))
               /\ \A e \in Leaving(s, symbol) : \E i \in 1..Len(q) : q[i] = e
               /\ \A i, j \in 1..Len(q) : q[i] = q[j] => i = j
<1> DEFINE found == {e \in facts[s].edges : e.from = symbol}
           c == Cardinality(found)
           q == EdgesFrom(s, symbol)
<1>1. IsFiniteSet(found) /\ \A e \in found : e.line \in Nat /\ e.to \in Nat
  BY EdgeRows, FS_Subset
<1>2. c \in Nat
  BY <1>1, FS_CardinalityType
<1>3. \E p : IsOrdering(p, found)
  <2> HIDE DEF found
  <2> QED BY <1>1, Orderings
<1>4. \E p \in [1..c -> found] :
          \A i, j \in DOMAIN p : i < j => p[i] # p[j] /\ ~Before(p[j], p[i])
  <2>1. PICK p : IsOrdering(p, found)
    BY <1>3
  <2>2. p \in [1..c -> found] /\ DOMAIN p = 1..c
    BY <2>1 DEF IsOrdering
  <2> HIDE DEF found
  <2> QED BY <2>1, <2>2 DEF IsOrdering
<1>5. /\ q \in [1..c -> found]
      /\ \A i, j \in DOMAIN q : i < j => q[i] # q[j] /\ ~Before(q[j], q[i])
  <2> DEFINE P(p) == \A i, j \in DOMAIN p : i < j => p[i] # p[j] /\ ~Before(p[j], p[i])
  <2>1. q = CHOOSE p \in [1..c -> found] : P(p)
    BY DEF EdgesFrom, Before
  <2>2. \E p \in [1..c -> found] : P(p)
    BY <1>4
  <2> HIDE DEF q, P, c, found
  <2>3. q \in [1..c -> found] /\ P(q)
    BY <2>1, <2>2
  <2> QED BY <2>3 DEF P
<1>6. \A i, j \in 1..c : q[i] = q[j] => i = j
  <2> HIDE DEF q, c, found
  <2>1. DOMAIN q = 1..c
    BY <1>5
  <2> QED BY <1>2, <1>5, <2>1
<1>7. q \in Seq(found) /\ Len(q) = c
  <2> HIDE DEF q, c, found
  <2>1. q \in Seq(found)
    BY <1>2, <1>5, SeqDef
  <2>2. DOMAIN q = 1..Len(q) /\ Len(q) \in Nat /\ DOMAIN q = 1..c
    BY <1>5, <2>1, LenProperties
  <2>3. 1..c = 1..Len(q)
    BY <2>2
  <2> QED BY <1>2, <2>1, <2>2, <2>3, SameInterval
<1>8. \A e \in found : \E i \in 1..c : q[i] = e
  <2>1. q \in Injection(1..c, found)
    <3> HIDE DEF q, c, found
    <3> QED BY <1>5, <1>6 DEF Injection, IsInjective
  <2>2. IsFiniteSet(1..c) /\ Cardinality(1..c) = c
    BY <1>2, FS_Interval
  <2>3. q \in Surjection(1..c, found)
    <3> HIDE DEF q, found
    <3> QED BY <1>1, <1>2, <2>1, <2>2, FS_Injection
  <2> QED BY <2>3 DEF Surjection
<1> HIDE DEF q, c, found
<1> QED BY <1>2, <1>5, <1>6, <1>7, <1>8 DEF q, found, Leaving

Members(q) == {q[k] : k \in 1..Len(q)}

LEMMA MembersTail ==
    ASSUME NEW P, NEW q \in Seq(P), q # <<>>
    PROVE  /\ Head(q) \in P /\ Tail(q) \in Seq(P) /\ Len(q) \in Nat
           /\ Len(Tail(q)) = Len(q) - 1
           /\ Members(q) = {Head(q)} \cup Members(Tail(q))
<1>1. /\ Head(q) \in P /\ Tail(q) \in Seq(P) /\ Len(q) \in Nat \ {0}
      /\ Len(Tail(q)) = Len(q) - 1 /\ Head(q) = q[1]
      /\ \A i \in 1..(Len(q) - 1) : Tail(q)[i] = q[i + 1]
  BY HeadTailProperties
<1>2. ASSUME NEW k \in 1..Len(q) PROVE q[k] \in {Head(q)} \cup Members(Tail(q))
  <2>1. CASE k = 1
    BY <1>1, <2>1
  <2>2. CASE k # 1
    <3>1. k - 1 \in 1..(Len(q) - 1) /\ (k - 1) + 1 = k
      BY <1>1, <2>2
    <3>2. Tail(q)[k - 1] = q[k]
      BY <1>1, <3>1
    <3> QED BY <1>1, <3>1, <3>2 DEF Members
  <2> QED BY <2>1, <2>2
<1>3. ASSUME NEW k \in 1..Len(Tail(q)) PROVE Tail(q)[k] \in Members(q)
  <2>1. k \in 1..(Len(q) - 1) /\ k + 1 \in 1..Len(q)
    BY <1>1
  <2>2. Tail(q)[k] = q[k + 1]
    BY <1>1, <2>1
  <2> QED BY <2>1, <2>2 DEF Members
<1>4. Head(q) \in Members(q)
  <2>1. 1 \in 1..Len(q)
    BY <1>1
  <2> QED BY <1>1, <2>1 DEF Members
<1> QED BY <1>1, <1>2, <1>3, <1>4 DEF Members

LEMMA MembersJoined ==
    ASSUME NEW P, NEW p \in Seq(P), NEW q \in Seq(P)
    PROVE  /\ p \o q \in Seq(P) /\ Len(p \o q) = Len(p) + Len(q)
           /\ Len(p) \in Nat /\ Len(q) \in Nat
           /\ \A k \in 1..Len(p) : (p \o q)[k] = p[k]
           /\ \A k \in 1..Len(q) : (p \o q)[Len(p) + k] = q[k]
           /\ \A k \in 1..Len(p \o q) :
                  k \in 1..Len(p) \/ \E i \in 1..Len(q) : k = Len(p) + i
           /\ Members(p \o q) = Members(p) \cup Members(q)
<1>1. /\ p \o q \in Seq(P) /\ Len(p \o q) = Len(p) + Len(q)
      /\ Len(p) \in Nat /\ Len(q) \in Nat
      /\ \A k \in 1..Len(p) : (p \o q)[k] = p[k]
      /\ \A k \in 1..Len(q) : (p \o q)[Len(p) + k] = q[k]
  OBVIOUS
<1>2. \A k \in 1..Len(p \o q) : k \in 1..Len(p) \/ \E i \in 1..Len(q) : k = Len(p) + i
  <2> SUFFICES ASSUME NEW k \in 1..Len(p \o q), k \notin 1..Len(p)
               PROVE  \E i \in 1..Len(q) : k = Len(p) + i
    OBVIOUS
  <2>1. k - Len(p) \in 1..Len(q) /\ k = Len(p) + (k - Len(p))
    BY <1>1
  <2> QED BY <2>1
<1>3. /\ 1..Len(p) \subseteq 1..Len(p \o q)
      /\ \A i \in 1..Len(q) : Len(p) + i \in 1..Len(p \o q)
  BY <1>1
<1>4. ASSUME NEW k \in 1..Len(p \o q) PROVE (p \o q)[k] \in Members(p) \cup Members(q)
  BY <1>1, <1>2 DEF Members
<1>5. ASSUME NEW k \in 1..Len(p) PROVE p[k] \in Members(p \o q)
  <2>1. k \in 1..Len(p \o q) /\ (p \o q)[k] = p[k]
    BY <1>1, <1>3
  <2> QED BY <2>1 DEF Members
<1>6. ASSUME NEW k \in 1..Len(q) PROVE q[k] \in Members(p \o q)
  <2>1. Len(p) + k \in 1..Len(p \o q) /\ (p \o q)[Len(p) + k] = q[k]
    BY <1>1, <1>3
  <2> QED BY <2>1 DEF Members
<1>7. Members(p \o q) = Members(p) \cup Members(q)
  BY <1>4, <1>5, <1>6 DEF Members
<1> QED BY <1>1, <1>2, <1>7

(* The flow is closed, and the least set that is.                           *)
LEMMA FlowIs ==
    ASSUME NEW s, NEW symbol
    PROVE  /\ symbol \in Flow(s, symbol)
           /\ \A e \in facts[s].edges : e.from \in Flow(s, symbol) => e.to \in Flow(s, symbol)
           /\ \A C : /\ symbol \in C
                     /\ \A e \in facts[s].edges : e.from \in C => e.to \in C
                     => Flow(s, symbol) \subseteq C
<1> DEFINE edges == facts[s].edges
           nodes == {symbol} \cup UNION {{e.from, e.to} : e \in edges}
           closed == {C \in SUBSET nodes :
                         symbol \in C /\ \A e \in edges : e.from \in C => e.to \in C}
<1>1. Flow(s, symbol) = {n \in nodes : \A C \in closed : n \in C}
  BY DEF Flow
<1>2. ASSUME NEW e \in edges, e.from \in Flow(s, symbol) PROVE e.to \in Flow(s, symbol)
  <2>1. e.to \in nodes
    OBVIOUS
  <2>2. ASSUME NEW C \in closed PROVE e.to \in C
    BY <1>1, <1>2
  <2> HIDE DEF nodes, closed
  <2> QED BY <1>1, <2>1, <2>2
<1>3. ASSUME NEW C, symbol \in C, \A e \in edges : e.from \in C => e.to \in C
      PROVE  Flow(s, symbol) \subseteq C
  <2>1. C \cap nodes \in closed
    BY <1>3
  <2> HIDE DEF nodes, closed
  <2> QED BY <1>1, <2>1
<1> QED BY <1>1, <1>2, <1>3

Start(symbol) == [pending |-> <<symbol>>, seen |-> {}, edges |-> <<>>]

(* What holds of a walk of service s from a symbol after n rounds.  Every round*)
(* takes a symbol from the pending ones, and every edge adds one to them.   *)
WalkFacts(s, symbol, pending, seen, edges, n) ==
    /\ pending \in Seq(Flow(s, symbol)) /\ seen \in SUBSET Flow(s, symbol)
    /\ edges \in Seq(facts[s].edges) /\ Len(edges) <= MaxEdges
    /\ \A i, j \in 1..Len(edges) : edges[i] = edges[j] => i = j
    /\ \A e \in Members(edges) : e.from \in seen
    /\ seen \cup Members(pending) = {symbol} \cup {e.to : e \in Members(edges)}
    /\ Len(edges) < MaxEdges =>
           /\ \A e \in facts[s].edges : e.from \in seen => e \in Members(edges)
           /\ pending # <<>> => Len(pending) + n <= 1 + Len(edges)

WalkInv(s, symbol, walk, n) ==
    \E pending, seen, edges :
        /\ walk = [pending |-> pending, seen |-> seen, edges |-> edges]
        /\ WalkFacts(s, symbol, pending, seen, edges, n)

LEMMA WalkStarts ==
    ASSUME NEW s, NEW symbol
    PROVE  WalkInv(s, symbol, Start(symbol), 0)
<1>1. /\ <<symbol>> \in Seq(Flow(s, symbol)) /\ Len(<<symbol>>) = 1 /\ <<symbol>>[1] = symbol
      /\ <<>> \in Seq(facts[s].edges) /\ Len(<<>>) = 0
  BY FlowIs
<1>2. 1..1 = {1} /\ 1..0 = {}
  OBVIOUS
<1>3. Members(<<symbol>>) = {symbol} /\ Members(<<>>) = {}
  BY <1>1, <1>2 DEF Members
<1>4. WalkFacts(s, symbol, <<symbol>>, {}, <<>>, 0)
  BY <1>1, <1>2, <1>3, MaxEdgesAssumption DEF WalkFacts
<1> QED BY <1>4 DEF WalkInv, Start

(* A symbol that was met before is passed over.                             *)
LEMMA PassedRound ==
    ASSUME NEW s, NEW symbol, NEW pending, NEW seen, NEW edges, NEW n \in Nat,
           WalkFacts(s, symbol, pending, seen, edges, n),
           pending # <<>>, Head(pending) \in seen
    PROVE  WalkFacts(s, symbol, Tail(pending), seen, edges, n + 1)
<1>1. pending \in Seq(Flow(s, symbol)) /\ edges \in Seq(facts[s].edges)
  BY DEF WalkFacts
<1>2. /\ Tail(pending) \in Seq(Flow(s, symbol)) /\ Len(pending) \in Nat
      /\ Len(Tail(pending)) = Len(pending) - 1
      /\ Members(pending) = {Head(pending)} \cup Members(Tail(pending))
  BY <1>1, MembersTail
<1>3. seen \cup Members(Tail(pending)) = seen \cup Members(pending)
  BY <1>2
<1>4. Len(edges) \in Nat
  BY <1>1, LenProperties
<1>5. Len(edges) < MaxEdges => Len(Tail(pending)) + (n + 1) <= 1 + Len(edges)
  <2> SUFFICES ASSUME Len(edges) < MaxEdges PROVE Len(Tail(pending)) + (n + 1) <= 1 + Len(edges)
    OBVIOUS
  <2>1. Len(pending) + n <= 1 + Len(edges)
    BY DEF WalkFacts
  <2> QED BY <1>2, <1>4, <2>1
<1> QED BY <1>2, <1>3, <1>5 DEF WalkFacts

(* What a round takes of the edges that leave a symbol.                     *)
Taken(found, room) == SubSeq(found, 1, IF Len(found) < room THEN Len(found) ELSE room)

LEMMA TakenAre ==
    ASSUME NEW P, NEW found \in Seq(P), NEW room \in Nat
    PROVE  LET taken == Taken(found, room)
           IN  /\ taken \in Seq(P) /\ Len(taken) \in Nat
               /\ Len(taken) <= room /\ Len(taken) <= Len(found) /\ Len(found) \in Nat
               /\ Len(taken) < room => Len(taken) = Len(found)
               /\ \A i \in 1..Len(taken) : taken[i] = found[i] /\ i \in 1..Len(found)
<1> DEFINE m == IF Len(found) < room THEN Len(found) ELSE room
           taken == Taken(found, room)
<1>1. Len(found) \in Nat /\ m \in Nat /\ m <= Len(found) /\ m <= room
      /\ (m < room => m = Len(found))
  BY LenProperties
<1>2. taken = [i \in 1..m |-> found[i]] /\ taken \in Seq(P) /\ Len(taken) = m
  <2>1. taken = SubSeq(found, 1, m)
    BY DEF Taken
  <2>2. found \in [1..Len(found) -> P]
    BY LenProperties
  <2> HIDE DEF m, taken
  <2>3. \A i \in 1..m : i \in 1..Len(found)
    BY <1>1
  <2>4. taken = [i \in 1..m |-> found[i]]
    BY <1>1, <2>1
  <2>5. taken \in [1..m -> P]
    BY <2>2, <2>3, <2>4
  <2>6. taken \in Seq(P)
    BY <1>1, <2>5, SeqDef
  <2>7. DOMAIN taken = 1..Len(taken) /\ Len(taken) \in Nat
    BY <2>6, LenProperties
  <2>8. 1..m = 1..Len(taken)
    BY <2>5, <2>7
  <2> QED BY <1>1, <2>4, <2>6, <2>7, <2>8, SameInterval
<1> HIDE DEF m, taken
<1> QED BY <1>1, <1>2 DEF taken

(* A symbol that is met for the first time adds the edges that leave it, as *)
(* many as there is room for.                                               *)
LEMMA FreshRound ==
    ASSUME FactsInv, NEW s \in Indexed, NEW symbol, NEW pending, NEW seen, NEW edges,
           NEW n \in Nat, WalkFacts(s, symbol, pending, seen, edges, n),
           pending # <<>>, Len(edges) < MaxEdges, Head(pending) \notin seen
    PROVE  LET taken == Taken(EdgesFrom(s, Head(pending)), MaxEdges - Len(edges))
           IN  WalkFacts(s, symbol, Tail(pending) \o [i \in DOMAIN taken |-> taken[i].to],
                         seen \cup {Head(pending)}, edges \o taken, n + 1)
<1> DEFINE source == Head(pending)
           all == facts[s].edges
           flow == Flow(s, symbol)
           found == EdgesFrom(s, source)
           leaving == Leaving(s, source)
           room == MaxEdges - Len(edges)
           taken == Taken(found, room)
           tos == [i \in DOMAIN taken |-> taken[i].to]
<1>1. pending \in Seq(flow) /\ edges \in Seq(all) /\ seen \in SUBSET flow /\ Len(edges) \in Nat
  BY LenProperties DEF WalkFacts
<1>2. /\ source \in flow /\ Tail(pending) \in Seq(flow) /\ Len(pending) \in Nat
      /\ Len(Tail(pending)) = Len(pending) - 1
      /\ Members(pending) = {source} \cup Members(Tail(pending))
  BY <1>1, MembersTail
<1>3. room \in Nat /\ room # 0 /\ MaxEdges \in Nat /\ Len(edges) + room = MaxEdges
  BY <1>1, MaxEdgesAssumption
<1>4. /\ Len(found) \in Nat /\ found \in Seq(leaving) /\ found \in [1..Len(found) -> leaving]
      /\ \A e \in leaving : \E i \in 1..Len(found) : found[i] = e
      /\ \A i, j \in 1..Len(found) : found[i] = found[j] => i = j
  BY EdgesFromAre
<1>5. /\ taken \in Seq(leaving) /\ Len(taken) \in Nat /\ Len(taken) <= room
      /\ Len(taken) < room => Len(taken) = Len(found)
      /\ \A i \in 1..Len(taken) : taken[i] = found[i] /\ i \in 1..Len(found)
  <2> HIDE DEF room, found, leaving
  <2> QED BY <1>3, <1>4, TakenAre
<1>6. \A i \in 1..Len(taken) : taken[i] \in leaving
  <2> HIDE DEF found, leaving, taken
  <2> QED BY <1>4, <1>5
<1>7. \A e \in leaving : e.to \in flow /\ e \in all /\ e.from = source
  BY <1>2, FlowIs DEF Leaving
<1>8. taken \in Seq(all)
  <2>1. leaving \subseteq all
    BY DEF Leaving
  <2> HIDE DEF leaving, taken, all
  <2> QED BY <1>5, <2>1
<1>9. DOMAIN taken = 1..Len(taken)
  <2> HIDE DEF leaving, taken
  <2> QED BY <1>5, LenProperties
<1>10. /\ tos \in Seq(flow) /\ Len(tos) = Len(taken)
       /\ \A i \in 1..Len(taken) : tos[i] = taken[i].to
  <2>1. \A i \in 1..Len(taken) : tos[i] = taken[i].to /\ tos[i] \in flow
    BY <1>6, <1>7, <1>9
  <2>2. tos \in [1..Len(taken) -> flow]
    BY <1>9, <2>1
  <2> HIDE DEF tos, taken, flow
  <2>3. tos \in Seq(flow)
    BY <1>5, <2>2, SeqDef
  <2>4. DOMAIN tos = 1..Len(tos) /\ Len(tos) \in Nat
    BY <2>3, LenProperties
  <2>5. 1..Len(tos) = 1..Len(taken)
    BY <2>2, <2>4
  <2> QED BY <1>5, <2>1, <2>3, <2>4, <2>5, SameInterval
<1> HIDE DEF source, all, flow, found, leaving, room, taken, tos
<1>11. Members(tos) = {e.to : e \in Members(taken)}
  BY <1>10 DEF Members
<1>12. Members(taken) \subseteq leaving
  BY <1>6 DEF Members
<1>13. /\ Tail(pending) \o tos \in Seq(flow)
       /\ Len(Tail(pending) \o tos) = Len(pending) - 1 + Len(taken)
       /\ Members(Tail(pending) \o tos) = Members(Tail(pending)) \cup Members(tos)
  <2>1. Len(Tail(pending) \o tos) = Len(Tail(pending)) + Len(tos)
    BY <1>2, <1>10, MembersJoined
  <2>2. Len(Tail(pending) \o tos) = Len(pending) - 1 + Len(taken)
    BY <1>2, <1>10, <2>1
  <2>3. Tail(pending) \in Seq(flow) /\ tos \in Seq(flow)
    BY <1>2, <1>10
  <2>4. Tail(pending) \o tos \in Seq(flow)
    BY <2>3, MembersJoined
  <2>5. Members(Tail(pending) \o tos) = Members(Tail(pending)) \cup Members(tos)
    BY <2>3, MembersJoined
  <2> QED BY <2>2, <2>4, <2>5
<1>14. /\ edges \o taken \in Seq(all) /\ Len(edges \o taken) = Len(edges) + Len(taken)
       /\ \A k \in 1..Len(edges) : (edges \o taken)[k] = edges[k]
       /\ \A k \in 1..Len(taken) : (edges \o taken)[Len(edges) + k] = taken[k]
       /\ \A k \in 1..Len(edges \o taken) :
              k \in 1..Len(edges) \/ \E i \in 1..Len(taken) : k = Len(edges) + i
       /\ Members(edges \o taken) = Members(edges) \cup Members(taken)
  BY <1>1, <1>8, MembersJoined
<1>15. /\ \A e \in Members(edges) : e.from \in seen
       /\ \A i, j \in 1..Len(edges) : edges[i] = edges[j] => i = j
       /\ \A k \in 1..Len(edges) : edges[k] \in Members(edges)
       /\ seen \cup Members(pending) = {symbol} \cup {e.to : e \in Members(edges)}
       /\ \A e \in all : e.from \in seen => e \in Members(edges)
       /\ Len(pending) + n <= 1 + Len(edges)
  BY DEF WalkFacts, Members, all
<1>16. Len(edges \o taken) <= MaxEdges
  BY <1>1, <1>3, <1>5, <1>14
<1>17. ASSUME NEW i \in 1..Len(edges \o taken), NEW j \in 1..Len(edges \o taken),
             (edges \o taken)[i] = (edges \o taken)[j]
       PROVE  i = j
  <2> DEFINE OldPlace(k) == k \in 1..Len(edges)
             NewPlace(k) == \E p \in 1..Len(taken) : k = Len(edges) + p
  <2>1. \A k \in 1..Len(edges \o taken) : OldPlace(k) \/ NewPlace(k)
    BY <1>14
  <2>2. ASSUME NEW k, OldPlace(k) PROVE (edges \o taken)[k].from \in seen
    BY <1>14, <1>15, <2>2
  <2>3. ASSUME NEW k, NewPlace(k) PROVE (edges \o taken)[k].from = source
    BY <1>6, <1>7, <1>14, <2>3
  <2>4. source \notin seen
    BY DEF source
  <2>5. CASE OldPlace(i) /\ OldPlace(j)
    BY <1>14, <1>15, <1>17, <2>5
  <2>6. CASE NewPlace(i) /\ NewPlace(j)
    <3>1. PICK p \in 1..Len(taken), r \in 1..Len(taken) : i = Len(edges) + p /\ j = Len(edges) + r
      BY <2>6
    <3>2. taken[p] = taken[r]
      BY <1>14, <1>17, <3>1
    <3>3. p = r
      BY <1>4, <1>5, <3>2
    <3> QED BY <3>1, <3>3
  <2>7. CASE OldPlace(i) /\ NewPlace(j)
    BY <1>17, <2>2, <2>3, <2>4, <2>7
  <2>8. CASE NewPlace(i) /\ OldPlace(j)
    BY <1>17, <2>2, <2>3, <2>4, <2>8
  <2> HIDE DEF OldPlace, NewPlace
  <2> QED BY <2>1, <2>5, <2>6, <2>7, <2>8
<1>18. \A e \in Members(edges \o taken) : e.from \in seen \cup {source}
  BY <1>7, <1>12, <1>14, <1>15
<1>19. (seen \cup {source}) \cup Members(Tail(pending) \o tos)
         = {symbol} \cup {e.to : e \in Members(edges \o taken)}
  BY <1>2, <1>11, <1>13, <1>14, <1>15
<1>20. ASSUME Len(edges \o taken) < MaxEdges, NEW e \in all, e.from \in seen \cup {source}
       PROVE  e \in Members(edges \o taken)
  <2>1. CASE e.from \in seen
    BY <1>14, <1>15, <2>1
  <2>2. CASE e.from = source
    <3>1. e \in leaving
      BY <2>2 DEF leaving, Leaving, all
    <3>2. PICK i \in 1..Len(found) : found[i] = e
      BY <1>4, <3>1
    <3>3. Len(taken) = Len(found)
      BY <1>1, <1>3, <1>5, <1>14, <1>20
    <3>4. taken[i] = e /\ i \in 1..Len(taken)
      BY <1>5, <3>2, <3>3
    <3> QED BY <1>14, <3>4 DEF Members
  <2> QED BY <1>20, <2>1, <2>2
<1>21. Len(Tail(pending) \o tos) + (n + 1) <= 1 + Len(edges \o taken)
  BY <1>1, <1>2, <1>5, <1>13, <1>14, <1>15
<1>22. seen \cup {source} \in SUBSET flow
  BY <1>1, <1>2
<1>23. WalkFacts(s, symbol, Tail(pending) \o tos, seen \cup {source}, edges \o taken, n + 1)
  BY <1>13, <1>14, <1>16, <1>17, <1>18, <1>19, <1>20, <1>21, <1>22 DEF WalkFacts, flow, all
<1> QED BY <1>23 DEF source, found, room, taken, tos

LEMMA RoundKeepsWalk ==
    ASSUME FactsInv, NEW s \in Indexed, NEW symbol, NEW walk, NEW n \in Nat,
           WalkInv(s, symbol, walk, n)
    PROVE  WalkInv(s, symbol, WalkRound(s, walk), n + 1)
<1>1. PICK pending, seen, edges :
         /\ walk = [pending |-> pending, seen |-> seen, edges |-> edges]
         /\ WalkFacts(s, symbol, pending, seen, edges, n)
  BY DEF WalkInv
<1>2. walk.pending = pending /\ walk.seen = seen /\ walk.edges = edges
  BY <1>1
<1>3. CASE pending = <<>> \/ Len(edges) >= MaxEdges
  <2>1. WalkRound(s, walk) = walk
    BY <1>2, <1>3 DEF WalkRound
  <2>2. Len(edges) \in Nat /\ MaxEdges \in Nat
    BY <1>1, MaxEdgesAssumption, LenProperties DEF WalkFacts
  <2>3. WalkFacts(s, symbol, pending, seen, edges, n + 1)
    BY <1>1, <1>3, <2>2 DEF WalkFacts
  <2> QED BY <1>1, <2>1, <2>3 DEF WalkInv
<1>4. CASE pending # <<>> /\ ~(Len(edges) >= MaxEdges) /\ Head(pending) \in seen
  <2>1. WalkRound(s, walk) = [walk EXCEPT !.pending = Tail(@)]
    BY <1>2, <1>4 DEF WalkRound
  <2>2. [walk EXCEPT !.pending = Tail(@)]
          = [pending |-> Tail(pending), seen |-> seen, edges |-> edges]
    <3>1. [walk EXCEPT !.pending = Tail(@)] = [walk EXCEPT !.pending = Tail(pending)]
      BY <1>2
    <3>2. ASSUME NEW rest
          PROVE  [walk EXCEPT !.pending = rest]
                   = [pending |-> rest, seen |-> seen, edges |-> edges]
      BY <1>1
    <3>3. [walk EXCEPT !.pending = Tail(pending)]
            = [pending |-> Tail(pending), seen |-> seen, edges |-> edges]
      BY <3>2
    <3> QED BY <3>1, <3>3
  <2>3. WalkFacts(s, symbol, Tail(pending), seen, edges, n + 1)
    BY <1>1, <1>4, PassedRound
  <2> QED BY <2>1, <2>2, <2>3 DEF WalkInv
<1>5. CASE pending # <<>> /\ ~(Len(edges) >= MaxEdges) /\ Head(pending) \notin seen
  <2> DEFINE taken == Taken(EdgesFrom(s, Head(pending)), MaxEdges - Len(edges))
             next == Tail(pending) \o [i \in DOMAIN taken |-> taken[i].to]
  <2>1. WalkRound(s, walk)
          = [pending |-> next, seen |-> seen \cup {Head(pending)}, edges |-> edges \o taken]
    BY <1>2, <1>5 DEF WalkRound, Taken
  <2>2. Len(edges) < MaxEdges
    <3>1. Len(edges) \in Nat /\ MaxEdges \in Nat
      BY <1>1, MaxEdgesAssumption, LenProperties DEF WalkFacts
    <3> QED BY <1>5, <3>1
  <2>3. WalkFacts(s, symbol, next, seen \cup {Head(pending)}, edges \o taken, n + 1)
    BY <1>1, <1>5, <2>2, FreshRound
  <2> HIDE DEF next, taken
  <2> QED BY <2>1, <2>3 DEF WalkInv
<1> QED BY <1>3, <1>4, <1>5

IsWalk(s, symbol, f, N) ==
    f = [n \in 0..N |-> IF n = 0 THEN Start(symbol) ELSE WalkRound(s, f[n - 1])]

(* The loop can be run for any number of rounds.                            *)
LEMMA WalkExists ==
    ASSUME NEW s, NEW symbol, NEW N \in Nat
    PROVE  \E f : IsWalk(s, symbol, f, N)
<1> DEFINE Bad == {n \in Nat : ~\E f : IsWalk(s, symbol, f, n)}
<1>1. ASSUME Bad # {} PROVE FALSE
  <2>1. PICK n \in Bad : \A k \in Bad : n <= k
    <3>1. Bad \in SUBSET Nat
      OBVIOUS
    <3> HIDE DEF Bad
    <3> QED BY <1>1, <3>1, LeastNumber
  <2>2. n \in Nat /\ ~\E f : IsWalk(s, symbol, f, n)
    BY <2>1
  <2>3. CASE n = 0
    <3> DEFINE f == [k \in 0..0 |-> Start(symbol)]
    <3>1. f = [k \in 0..n |-> IF k = 0 THEN Start(symbol) ELSE WalkRound(s, f[k - 1])]
      <4>1. \A k \in 0..0 : k = 0
        OBVIOUS
      <4> HIDE DEF f
      <4>2. f = [k \in 0..0 |-> Start(symbol)]
        BY DEF f
      <4> QED BY <2>3, <4>1, <4>2
    <3> HIDE DEF f
    <3> QED BY <2>2, <3>1 DEF IsWalk
  <2>4. CASE n # 0
    <3>1. n - 1 \in Nat /\ n - 1 \notin Bad
      BY <2>1, <2>2, <2>4
    <3>2. PICK g : IsWalk(s, symbol, g, n - 1)
      BY <3>1
    <3> DEFINE f == [k \in 0..n |-> IF k = n THEN WalkRound(s, g[n - 1]) ELSE g[k]]
    <3>3. DOMAIN f = 0..n /\ \A k \in 0..n : k # n => k \in 0..(n - 1) /\ f[k] = g[k]
      BY <2>2, <2>4
    <3>4. f[n] = WalkRound(s, g[n - 1]) /\ n - 1 \in 0..(n - 1) /\ n - 1 \in 0..n /\ n - 1 # n
      BY <2>2, <2>4
    <3>5. f = [k \in 0..n |-> f[k]]
      OBVIOUS
    <3>6. \A k \in 0..(n - 1) : g[k] = IF k = 0 THEN Start(symbol) ELSE WalkRound(s, g[k - 1])
      <4>1. g = [k \in 0..(n - 1) |-> IF k = 0 THEN Start(symbol) ELSE WalkRound(s, g[k - 1])]
        BY <3>2 DEF IsWalk
      <4> QED BY <4>1
    <3> HIDE DEF f
    <3>7. ASSUME NEW k \in 0..n
          PROVE  f[k] = IF k = 0 THEN Start(symbol) ELSE WalkRound(s, f[k - 1])
      <4>1. CASE k = n
        BY <2>4, <3>3, <3>4, <4>1
      <4>2. CASE k # n
        <5>1. k \in 0..(n - 1) /\ f[k] = g[k]
          BY <3>3, <4>2
        <5>2. k # 0 => k - 1 \in 0..n /\ k - 1 # n
          BY <2>2, <4>2
        <5>3. k # 0 => f[k - 1] = g[k - 1]
          BY <3>3, <5>2
        <5> QED BY <3>6, <5>1, <5>3
      <4> QED BY <4>1, <4>2
    <3>8. f = [k \in 0..n |-> IF k = 0 THEN Start(symbol) ELSE WalkRound(s, f[k - 1])]
      BY <3>5, <3>7
    <3> QED BY <2>2, <3>8 DEF IsWalk
  <2> QED BY <2>3, <2>4
<1> QED BY <1>1

LEMMA WalkKeepsInv ==
    ASSUME FactsInv, NEW s \in Indexed, NEW symbol, NEW N \in Nat, NEW f,
           IsWalk(s, symbol, f, N)
    PROVE  WalkInv(s, symbol, f[N], N)
<1>1. \A n \in 0..N : f[n] = IF n = 0 THEN Start(symbol) ELSE WalkRound(s, f[n - 1])
  <2>1. f = [n \in 0..N |-> IF n = 0 THEN Start(symbol) ELSE WalkRound(s, f[n - 1])]
    BY DEF IsWalk
  <2> QED BY <2>1
<1> DEFINE Bad == {n \in 0..N : ~WalkInv(s, symbol, f[n], n)}
<1>2. ASSUME Bad # {} PROVE FALSE
  <2>1. PICK n \in Bad : \A k \in Bad : n <= k
    <3>1. Bad \in SUBSET Nat
      OBVIOUS
    <3> HIDE DEF Bad
    <3> QED BY <1>2, <3>1, LeastNumber
  <2>2. n \in 0..N /\ ~WalkInv(s, symbol, f[n], n)
    BY <2>1
  <2>3. n # 0
    BY <1>1, <2>2, WalkStarts
  <2>4. n - 1 \in 0..N /\ n - 1 \in Nat /\ n - 1 \notin Bad /\ (n - 1) + 1 = n
    BY <2>1, <2>2, <2>3
  <2>5. WalkInv(s, symbol, f[n - 1], n - 1)
    BY <2>4
  <2>6. f[n] = WalkRound(s, f[n - 1])
    BY <1>1, <2>2, <2>3
  <2>7. WalkInv(s, symbol, WalkRound(s, f[n - 1]), (n - 1) + 1)
    BY <2>4, <2>5, RoundKeepsWalk
  <2> QED BY <2>2, <2>4, <2>6, <2>7
<1>3. N \in 0..N
  OBVIOUS
<1> QED BY <1>2, <1>3

LEMMA ListedEdges ==
    ASSUME FactsInv, NEW s \in Indexed, NEW symbol
    PROVE  \E pending, seen :
               WalkFacts(s, symbol, pending, seen, ListReachableEdges(s, symbol), MaxEdges + 1)
<1> DEFINE N == MaxEdges + 1
           walk == CHOOSE f : IsWalk(s, symbol, f, N)
<1>1. N \in Nat
  BY MaxEdgesAssumption
<1>2. ListReachableEdges(s, symbol) = walk[N].edges
  BY DEF ListReachableEdges, IsWalk, Start
<1>3. IsWalk(s, symbol, walk, N)
  <2> HIDE DEF N
  <2> QED BY <1>1, WalkExists
<1> HIDE DEF N, walk
<1>4. WalkInv(s, symbol, walk[N], N)
  BY <1>1, <1>3, WalkKeepsInv
<1> QED BY <1>2, <1>4 DEF WalkInv, N

(* The walk of an endpoint stays on its flow, and covers it unless more edges*)
(* leave the flow's symbols than a walk returns.                            *)
LEMMA ReachableOnFlow ==
    ASSUME FactsInv, NEW s \in Indexed, NEW symbol
    PROVE  /\ ReachableSymbols(s, symbol) \subseteq Flow(s, symbol)
           /\ WithinLimit(s, symbol) => ReachableSymbols(s, symbol) = Flow(s, symbol)
<1> DEFINE all == facts[s].edges
           flow == Flow(s, symbol)
           onFlow == {e \in all : e.from \in flow}
           reached == ReachableSymbols(s, symbol)
<1>1. PICK pending, seen, edges :
         /\ edges = ListReachableEdges(s, symbol)
         /\ WalkFacts(s, symbol, pending, seen, edges, MaxEdges + 1)
  BY ListedEdges
<1>2. /\ pending \in Seq(flow) /\ seen \in SUBSET flow
      /\ edges \in Seq(all) /\ Len(edges) <= MaxEdges
      /\ \A i, j \in 1..Len(edges) : edges[i] = edges[j] => i = j
      /\ \A e \in Members(edges) : e.from \in seen
      /\ seen \cup Members(pending) = {symbol} \cup {e.to : e \in Members(edges)}
      /\ Len(edges) < MaxEdges =>
             /\ \A e \in all : e.from \in seen => e \in Members(edges)
             /\ pending # <<>> => Len(pending) + (MaxEdges + 1) <= 1 + Len(edges)
  BY <1>1 DEF WalkFacts
<1>3. Len(edges) \in Nat /\ DOMAIN edges = 1..Len(edges) /\ \A i \in 1..Len(edges) : edges[i] \in all
  <2> HIDE DEF all
  <2> QED BY <1>2, LenProperties, ElementOfSeq
<1>4. reached = {symbol} \cup {e.from : e \in Members(edges)} \cup {e.to : e \in Members(edges)}
  BY <1>1, <1>3 DEF ReachableSymbols, Members
<1>5. /\ symbol \in flow
      /\ \A e \in all : e.from \in flow => e.to \in flow
      /\ \A C : symbol \in C /\ (\A e \in all : e.from \in C => e.to \in C) => flow \subseteq C
  BY FlowIs
<1> HIDE DEF all, flow, reached
<1>6. Members(edges) \subseteq onFlow
  BY <1>2, <1>3 DEF Members
<1>7. reached \subseteq flow
  BY <1>4, <1>5, <1>6
<1>8. ASSUME WithinLimit(s, symbol) PROVE flow \subseteq reached
  <2> DEFINE known == {symbol} \cup {e.to : e \in Members(edges)}
  <2>1. known \subseteq reached /\ known \subseteq flow
    BY <1>4, <1>7
  <2>2. CASE Len(edges) < MaxEdges
    <3>1. pending = <<>>
      <4>1. Len(pending) \in Nat /\ MaxEdges \in Nat
        BY <1>2, LenProperties, MaxEdgesAssumption
      <4>2. ASSUME pending # <<>> PROVE FALSE
        <5>1. Len(pending) + (MaxEdges + 1) <= 1 + Len(edges)
          BY <1>2, <2>2, <4>2
        <5> QED BY <1>3, <2>2, <4>1, <5>1
      <4> QED BY <4>2
    <3>2. Members(pending) = {}
      <4>1. Len(pending) = 0 /\ 1..0 = {}
        BY <3>1
      <4> QED BY <4>1 DEF Members
    <3>3. seen = known
      BY <1>2, <3>2
    <3>4. \A e \in all : e.from \in seen => e.to \in seen
      BY <1>2, <2>2, <3>3
    <3> QED BY <1>5, <2>1, <3>3, <3>4
  <2>3. CASE ~(Len(edges) < MaxEdges)
    <3>1. IsFiniteSet(onFlow) /\ Cardinality(onFlow) \in Nat
      <4>1. IsFiniteSet(all)
        BY EdgeRows DEF all
      <4> QED BY <4>1, FS_Subset, FS_CardinalityType
    <3>2. Cardinality(onFlow) <= Len(edges)
      <4>1. Cardinality(onFlow) <= MaxEdges
        BY <1>8 DEF WithinLimit, all, flow
      <4> QED BY <1>3, <2>3, <3>1, <4>1, MaxEdgesAssumption
    <3>3. edges \in [1..Len(edges) -> Members(edges)]
      <4>1. \A i \in 1..Len(edges) : edges[i] \in Members(edges)
        BY DEF Members
      <4>2. edges = [i \in 1..Len(edges) |-> edges[i]]
        BY <1>2, <1>3
      <4> QED BY <4>1, <4>2
    <3>4. edges \in Bijection(1..Len(edges), Members(edges))
      <4>1. \A e \in Members(edges) : \E i \in 1..Len(edges) : edges[i] = e
        BY DEF Members
      <4> QED BY <1>2, <3>3, <4>1
            DEF Bijection, Injection, Surjection, IsInjective
    <3>5. IsFiniteSet(1..Len(edges)) /\ Cardinality(1..Len(edges)) = Len(edges)
      BY <1>3, FS_Interval
    <3>6. Cardinality(Members(edges)) = Len(edges)
      BY <3>4, <3>5, FS_Bijection DEF ExistsBijection
    <3>7. Members(edges) = onFlow
      <4> HIDE DEF onFlow
      <4>1. Cardinality(Members(edges)) <= Cardinality(onFlow)
        BY <1>6, <3>1, FS_Subset
      <4>2. Cardinality(Members(edges)) = Cardinality(onFlow)
        BY <1>3, <3>1, <3>2, <3>6, <4>1
      <4> QED BY <1>6, <3>1, <4>2, FS_Subset
    <3>8. \A e \in all : e.from \in known => e.to \in known
      BY <2>1, <3>7
    <3> QED BY <1>5, <2>1, <3>8
  <2> QED BY <2>2, <2>3
<1> QED BY <1>7, <1>8 DEF reached, flow

LEMMA LocalIs ==
    ASSUME NEW kind, NEW s, NEW symbol, NEW type, NEW place, NEW confidence
    PROVE  /\ Local(kind, s, symbol, type, place, confidence).services[1] = ServiceName(s)
           /\ Local(kind, s, symbol, type, place, confidence).symbol = symbol
           /\ Local(kind, s, symbol, type, place, confidence).type = type
BY DEF Local

(* What is reported for an endpoint is what its walk meets.                 *)
LEMMA UnhandledFindings ==
    ASSUME FactsInv, NEW s \in Indexed, NEW e \in HttpEntries(s)
    PROVE  {f.type : f \in {g \in FindUnhandledEndpointErrors :
                               g.services[1] = ServiceName(s) /\ g.symbol = e.symbol}}
             = {c.type : c \in UnhandledErrors(s, e.symbol)}
<1> DEFINE Finding(t, d, type) ==
               Local("possible_unhandled_endpoint_error", t, d.symbol, type,
                     <<d.method, d.name>>, 75)
           findings == {g \in FindUnhandledEndpointErrors :
                           g.services[1] = ServiceName(s) /\ g.symbol = e.symbol}
           met == {c.type : c \in UnhandledErrors(s, e.symbol)}
<1>1. FindUnhandledEndpointErrors
        = UNION {UNION {{Finding(t, d, type) : type \in {c.type : c \in UnhandledErrors(t, d.symbol)}} :
                        d \in HttpEntries(t)} : t \in Indexed}
  BY DEF FindUnhandledEndpointErrors, PerService
<1>2. \A t, d, type : /\ Finding(t, d, type).services[1] = ServiceName(t)
                      /\ Finding(t, d, type).symbol = d.symbol
                      /\ Finding(t, d, type).type = type
  BY LocalIs
<1> HIDE DEF Finding
<1>3. ASSUME NEW f \in findings PROVE f.type \in met
  <2>0. \E t \in Indexed : \E d \in HttpEntries(t) : \E c \in UnhandledErrors(t, d.symbol) :
            f = Finding(t, d, c.type)
    BY <1>1
  <2>1. PICK t, d, c : /\ t \in Indexed /\ d \in HttpEntries(t)
                       /\ c \in UnhandledErrors(t, d.symbol) /\ f = Finding(t, d, c.type)
    BY <2>0
  <2>2. ServiceName(t) = ServiceName(s) /\ d.symbol = e.symbol /\ f.type = c.type
    BY <1>2, <2>1
  <2>3. t = s
    BY <2>1, <2>2, NamesDiffer
  <2> QED BY <2>1, <2>2, <2>3
<1>4. ASSUME NEW c \in UnhandledErrors(s, e.symbol)
      PROVE  \E f \in findings : f.type = c.type
  <2>1. Finding(s, e, c.type) \in FindUnhandledEndpointErrors
    BY <1>1
  <2>2. Finding(s, e, c.type) \in findings /\ Finding(s, e, c.type).type = c.type
    BY <1>2, <2>1
  <2> QED BY <2>2
<1> HIDE DEF findings
<1> QED BY <1>3, <1>4 DEF findings

LEMMA EndpointErrorsHold ==
    ASSUME FactsInv
    PROVE  EndpointErrorsAccounted
<1> SUFFICES
      ASSUME NEW s \in Indexed, NEW e \in HttpEntries(s)
      PROVE  LET raised == {c \in ErrorsOf(s, Flow(s, e.symbol)) :
                               c.role = "raises" /\ c.kind \in ClientErrorKinds /\ c.type # NoName}
                 mapped == {m.type : m \in HttpMappings(s)}
                 asServer == {m.type : m \in {n \in HttpMappings(s) : IsServerCode(n.code)}}
                 unhandled == {f.type : f \in {g \in FindUnhandledEndpointErrors :
                                   g.services[1] = ServiceName(s) /\ g.symbol = e.symbol}}
                 lost == {f.type : f \in {g \in FindErrorSemanticsLost :
                                   g.services[1] = ServiceName(s)}}
                 types == {c.type : c \in raised}
             IN  /\ unhandled \subseteq types \ mapped
                 /\ WithinLimit(s, e.symbol) => unhandled = types \ mapped
                 /\ types \cap asServer \subseteq lost
  BY DEF EndpointErrorsAccounted
<1> DEFINE raised == {c \in ErrorsOf(s, Flow(s, e.symbol)) :
                         c.role = "raises" /\ c.kind \in ClientErrorKinds /\ c.type # NoName}
           mapped == {m.type : m \in HttpMappings(s)}
           asServer == {m.type : m \in {n \in HttpMappings(s) : IsServerCode(n.code)}}
           unhandled == {f.type : f \in {g \in FindUnhandledEndpointErrors :
                             g.services[1] = ServiceName(s) /\ g.symbol = e.symbol}}
           lost == {f.type : f \in {g \in FindErrorSemanticsLost :
                             g.services[1] = ServiceName(s)}}
           types == {c.type : c \in raised}
           Unmapped(symbols) == {c.type : c \in {d \in ErrorsOf(s, symbols) :
                                     /\ d.role = "raises" /\ d.kind \in ClientErrorKinds
                                     /\ d.type \notin {NoName} \cup mapped}}
<1>1. unhandled = Unmapped(ReachableSymbols(s, e.symbol))
  BY UnhandledFindings DEF UnhandledErrors
<1>2. types \ mapped = Unmapped(Flow(s, e.symbol))
  OBVIOUS
<1>3. \A S, T : S \subseteq T => Unmapped(S) \subseteq Unmapped(T)
  BY DEF ErrorsOf
<1>4. types \cap asServer \subseteq lost
  <2> SUFFICES ASSUME NEW c \in raised, NEW m \in HttpMappings(s),
                      IsServerCode(m.code), m.type = c.type
               PROVE  c.type \in lost
    OBVIOUS
  <2> DEFINE f == Local("possible_error_semantics_lost", s, m.source, c.type,
                        <<"http", m.code>>, 85)
             Pairs(t) == {p \in facts[t].errors \X HttpMappings(t) :
                            /\ p[1].role = "raises" /\ p[1].kind \in ClientErrorKinds
                            /\ p[1].type # NoName /\ p[1].type = p[2].type
                            /\ IsServerCode(p[2].code)}
             Lost(t) == {Local("possible_error_semantics_lost", t, rm[2].source, rm[1].type,
                               <<"http", rm[2].code>>, 85) : rm \in Pairs(t)}
  <2>1. <<c, m>> \in Pairs(s)
    BY DEF ErrorsOf
  <2>2. f \in Lost(s)
    <3> HIDE DEF Pairs, raised
    <3>1. <<c, m>>[1] = c /\ <<c, m>>[2] = m
      OBVIOUS
    <3> QED BY <2>1, <3>1
  <2>3. f \in FindErrorSemanticsLost
    <3>1. FindErrorSemanticsLost = UNION {Lost(t) : t \in Indexed}
      BY DEF FindErrorSemanticsLost, PerService
    <3> HIDE DEF Lost, f
    <3> QED BY <2>2, <3>1
  <2>4. f.services[1] = ServiceName(s) /\ f.type = c.type
    BY LocalIs
  <2> HIDE DEF f
  <2> QED BY <2>3, <2>4
<1> HIDE DEF raised, mapped, asServer, unhandled, lost, types, Unmapped
<1>5. unhandled \subseteq types \ mapped
  BY <1>1, <1>2, <1>3, ReachableOnFlow
<1>6. WithinLimit(s, e.symbol) => unhandled = types \ mapped
  BY <1>1, <1>2, ReachableOnFlow
<1> QED BY <1>4, <1>5, <1>6 DEF raised, mapped, asServer, unhandled, lost, types

(* The scope of a call whose endpoint is indexed lies on the flow of an endpoint*)
(* with its method and path.                                                *)
LEMMA ScopeOnFlow ==
    ASSUME FactsInv, NEW t \in Indexed, NEW method, NEW path,
           DownstreamContractScope(t, method, path)[1] = "endpoint_flow"
    PROVE  \E e \in HttpEntries(t) :
               /\ e.method = method /\ e.name = path
               /\ DownstreamContractScope(t, method, path)[2]
                    \subseteq ErrorsOf(t, Flow(t, e.symbol))
<1> DEFINE entries == facts[t].entries
           matches == GetEntrypoint(t, method, path)
           first == CHOOSE i \in matches : \A j \in matches : i <= j
           onFlow == ErrorsOf(t, ReachableSymbols(t, entries[first].symbol))
<1>1. matches # {}
      /\ DownstreamContractScope(t, method, path) = <<"endpoint_flow", onFlow>>
  <2>1. <<"service_contracts", facts[t].errors>>[1] = "service_contracts"
    OBVIOUS
  <2> QED BY <2>1 DEF DownstreamContractScope
<1>2. matches \in SUBSET Nat
  <2>1. DOMAIN facts[t].entries = 1..Len(facts[t].entries) /\ Len(facts[t].entries) \in Nat
    BY DEF FactsInv, AreRows
  <2>2. matches \subseteq DOMAIN facts[t].entries
    BY DEF GetEntrypoint
  <2> HIDE DEF matches
  <2> QED BY <2>1, <2>2
<1>3. first \in matches
  <2> HIDE DEF matches
  <2> QED BY <1>1, <1>2, LeastNumber
<1>4. /\ entries[first] \in HttpEntries(t)
      /\ entries[first].method = method /\ entries[first].name = path
  <2> HIDE DEF first
  <2> QED BY <1>3 DEF GetEntrypoint, HttpEntries
<1>5. ReachableSymbols(t, entries[first].symbol) \subseteq Flow(t, entries[first].symbol)
  BY ReachableOnFlow
<1>6. onFlow \subseteq ErrorsOf(t, Flow(t, entries[first].symbol))
  BY <1>5 DEF ErrorsOf
<1>7. <<"endpoint_flow", onFlow>>[2] = onFlow
  OBVIOUS
<1> HIDE DEF first, onFlow, entries
<1> QED BY <1>1, <1>4, <1>6, <1>7

(* What a finding across two services says if its error is on an endpoint's flow.*)
OnFlowOf(f, s, t, call, c) ==
    /\ f.services = <<ServiceName(s), ServiceName(t)>> /\ f.symbol = call.source
    /\ f.contract = <<call.method, call.path>> /\ f.type = c.type /\ f.code = c.code
    /\ \E e \in HttpEntries(t) :
           /\ e.method = call.method /\ e.name = call.path
           /\ c \in ErrorsOf(t, Flow(t, e.symbol))

LEMMA DownstreamIs ==
    ASSUME NEW kind, NEW s, NEW t, NEW call, NEW c, NEW scope, NEW confidence
    PROVE  LET f == Downstream(kind, s, t, call, c, scope, confidence)
           IN  /\ f.services = <<ServiceName(s), ServiceName(t)>> /\ f.symbol = call.source
               /\ f.contract = <<call.method, call.path>> /\ f.type = c.type
               /\ f.code = c.code /\ f.scope = scope
BY DEF Downstream

DownstreamFinding(f) ==
    \/ f.scope = NoName
    \/ \E s \in Indexed : \E call \in HttpCalls(s) : \E t \in Named(call.target) :
           LET scope == DownstreamContractScope(t, call.method, call.path)
           IN  \E kind, confidence : \E c \in scope[2] :
                   f = Downstream(kind, s, t, call, c, scope[1], confidence)

LEMMA DownstreamFindingsAre ==
    ASSUME NEW f \in FindRetriesOnDownstreamClientErrors \cup FindUnmappedDownstreamErrors
    PROVE  DownstreamFinding(f)
<1>1. CASE f \in FindRetriesOnDownstreamClientErrors
  <2>1. PICK s \in Indexed :
          f \in DownstreamFindings("possible_retry_on_downstream_client_error", s,
                    {c \in HttpCalls(s) : HasPolicy(s, c.source, "retry")},
                    LAMBDA name : RetryTargets(s, name), LAMBDA c : TRUE, 80, 65)
    BY <1>1 DEF FindRetriesOnDownstreamClientErrors, PerService
  <2>2. PICK ct \in {c \in HttpCalls(s) : HasPolicy(s, c.source, "retry")} \X Indexed :
          /\ ct[2] \in RetryTargets(s, ct[1].target)
          /\ \E confidence :
                 \E c \in DownstreamContractScope(ct[2], ct[1].method, ct[1].path)[2] :
                     f = Downstream("possible_retry_on_downstream_client_error", s, ct[2], ct[1], c,
                             DownstreamContractScope(ct[2], ct[1].method, ct[1].path)[1],
                             confidence)
    BY <2>1 DEF DownstreamFindings
  <2>3. ct[1] \in HttpCalls(s) /\ ct[2] \in Named(ct[1].target)
    BY <2>2 DEF RetryTargets
  <2> QED BY <2>2, <2>3 DEF DownstreamFinding
<1>2. CASE f \in StaticUnmappedDownstreamErrorFindings
  <2>1. PICK s \in Indexed :
          f \in DownstreamFindings("possible_unmapped_downstream_error", s, HttpCalls(s), Named,
                    LAMBDA c : c.type \notin MappedClientErrorTypes(s), 75, 60)
    BY <1>2 DEF StaticUnmappedDownstreamErrorFindings, PerService
  <2>2. PICK ct \in HttpCalls(s) \X Indexed :
          /\ ct[2] \in Named(ct[1].target)
          /\ \E confidence :
                 \E c \in DownstreamContractScope(ct[2], ct[1].method, ct[1].path)[2] :
                     f = Downstream("possible_unmapped_downstream_error", s, ct[2], ct[1], c,
                             DownstreamContractScope(ct[2], ct[1].method, ct[1].path)[1],
                             confidence)
    BY <2>1 DEF DownstreamFindings
  <2>3. ct[1] \in HttpCalls(s)
    BY <2>2
  <2> QED BY <2>2, <2>3 DEF DownstreamFinding
<1>3. CASE f \in RelatedUnmappedDownstreamErrorFindings
  <2>1. \E s, t, call, c : f = Downstream("possible_unmapped_downstream_error", s, t, call, c,
                                          NoName, 35)
    <3> DEFINE Call(r) == [source |-> 0, method |-> r.method, path |-> r.path]
    <3>1. \E s : \E r \in facts[s].relations : \E c \in facts[r.to].errors :
              f = Downstream("possible_unmapped_downstream_error", s, r.to, Call(r), c,
                             NoName, 35)
      BY <1>3 DEF RelatedUnmappedDownstreamErrorFindings, PerService
    <3> HIDE DEF Call
    <3> QED BY <3>1
  <2> QED BY <2>1, DownstreamIs DEF DownstreamFinding
<1> QED BY <1>1, <1>2, <1>3 DEF FindUnmappedDownstreamErrors

LEMMA DownstreamOnFlow ==
    ASSUME FactsInv,
           NEW f \in FindRetriesOnDownstreamClientErrors \cup FindUnmappedDownstreamErrors,
           f.scope = "endpoint_flow"
    PROVE  \E s \in Indexed : \E call \in HttpCalls(s) : \E t \in Named(call.target) :
               \E c : OnFlowOf(f, s, t, call, c)
<1>1. PICK s \in Indexed : \E call \in HttpCalls(s) : \E t \in Named(call.target) :
           LET scope == DownstreamContractScope(t, call.method, call.path)
           IN  \E kind, confidence : \E c \in scope[2] :
                   f = Downstream(kind, s, t, call, c, scope[1], confidence)
  BY DownstreamFindingsAre DEF DownstreamFinding, NoName
<1>2. PICK call \in HttpCalls(s) : \E t \in Named(call.target) :
           LET scope == DownstreamContractScope(t, call.method, call.path)
           IN  \E kind, confidence : \E c \in scope[2] :
                   f = Downstream(kind, s, t, call, c, scope[1], confidence)
  BY <1>1
<1>3. PICK t \in Named(call.target) :
           LET scope == DownstreamContractScope(t, call.method, call.path)
           IN  \E kind, confidence : \E c \in scope[2] :
                   f = Downstream(kind, s, t, call, c, scope[1], confidence)
  BY <1>2
<1> DEFINE scope == DownstreamContractScope(t, call.method, call.path)
<1>4. PICK kind, confidence, c :
          c \in scope[2] /\ f = Downstream(kind, s, t, call, c, scope[1], confidence)
  BY <1>3
<1> HIDE DEF scope
<1>5. /\ f.services = <<ServiceName(s), ServiceName(t)>> /\ f.symbol = call.source
      /\ f.contract = <<call.method, call.path>> /\ f.type = c.type /\ f.code = c.code
      /\ f.scope = scope[1]
  BY <1>4, DownstreamIs
<1>6. t \in Indexed /\ scope[1] = "endpoint_flow"
  BY <1>3, <1>5 DEF Named
<1>7. \E e \in HttpEntries(t) :
          /\ e.method = call.method /\ e.name = call.path
          /\ c \in ErrorsOf(t, Flow(t, e.symbol))
  BY <1>4, <1>6, ScopeOnFlow DEF scope
<1> QED BY <1>5, <1>7 DEF OnFlowOf

LEMMA DownstreamUnitIs ==
    ASSUME NEW role, NEW service, NEW symbol, NEW target, NEW type, NEW code, NEW dependencies
    PROVE  LET u == Unit(role, service, <<symbol, target, type, code>>, dependencies)
           IN  /\ u.service = service /\ u.id[3] = symbol /\ u.id[4] = target
               /\ u.id[5] = type /\ u.id[6] = code
<1> DEFINE key == <<symbol, target, type, code>>
           u == Unit(role, service, key, dependencies)
           S == {symbol, target, type, code}
           id == <<role, service>> \o key
<1>1. key \in Seq(S) /\ Len(key) = 4 /\ key[1] = symbol /\ key[2] = target
      /\ key[3] = type /\ key[4] = code
  OBVIOUS
<1>2. /\ 1 \in 1..4 /\ 2 \in 1..4 /\ 3 \in 1..4 /\ 4 \in 1..4
      /\ 1 + 2 = 3 /\ 2 + 2 = 4 /\ 3 + 2 = 5 /\ 4 + 2 = 6
  OBVIOUS
<1> HIDE DEF key, S
<1>3. u.service = service /\ u.id = id /\ \A i \in 1..Len(key) : id[i + 2] = key[i]
  <2>1. key \in Seq(S)
    BY <1>1
  <2>2. u.service = service
    BY DEF Unit
  <2>3. u.id = <<role, service>> \o key
    BY <2>1, UnitIs
  <2>4. \A i \in 1..Len(key) : (<<role, service>> \o key)[i + 2] = key[i]
    BY <2>1, UnitIs
  <2> QED BY <2>2, <2>3, <2>4
<1> HIDE DEF u, id
<1>4. id[3] = symbol /\ id[4] = target /\ id[5] = type /\ id[6] = code
  BY <1>1, <1>2, <1>3
<1>5. u.service = service /\ u.id[3] = symbol /\ u.id[4] = target
      /\ u.id[5] = type /\ u.id[6] = code
  BY <1>3, <1>4
<1> QED BY <1>5 DEF u, key

LEMMA DownstreamUnitsHold ==
    ASSUME FactsInv
    PROVE  DownstreamUnitsRestOnFlow
<1> DEFINE findings == FindRetriesOnDownstreamClientErrors \cup FindUnmappedDownstreamErrors
           services == PlanServices(AllNames)
<1> SUFFICES
      ASSUME NEW u \in DownstreamReviewUnits(findings, services)
      PROVE  \E s, t \in Indexed : \E call \in HttpCalls(s) : \E e \in HttpEntries(t) :
                 /\ <<u.service, u.id[3], u.id[4]>>
                      = <<ServiceName(s), call.source, ServiceName(t)>>
                 /\ call.target = NameOf[t]
                 /\ <<e.method, e.name>> = <<call.method, call.path>>
                 /\ \E c \in ErrorsOf(t, Flow(t, e.symbol)) :
                        <<c.type, c.code>> = <<u.id[5], u.id[6]>>
  BY DEF DownstreamUnitsRestOnFlow
<1> HIDE DEF findings, services
<1>1. PICK role, f : /\ f \in findings /\ f.scope = "endpoint_flow"
                     /\ u = Unit(role, f.services[1],
                                 <<f.symbol, f.services[2], f.type, f.code>>, OnSecond(f))
  <2>1. CASE u \in DeriveUnmappedDownstream(findings, services)
    BY <2>1 DEF DeriveUnmappedDownstream, Units, OnEndpointFlow, Selected
  <2>2. CASE u \in DeriveRetryDownstreamError(findings, services)
    BY <2>2 DEF DeriveRetryDownstreamError, Units, OnEndpointFlow, Selected
  <2> QED BY <2>1, <2>2 DEF DownstreamReviewUnits
<1>2. /\ u.service = f.services[1] /\ u.id[3] = f.symbol /\ u.id[4] = f.services[2]
      /\ u.id[5] = f.type /\ u.id[6] = f.code
  <2> DEFINE unit == Unit(role, f.services[1], <<f.symbol, f.services[2], f.type, f.code>>,
                          OnSecond(f))
  <2>1. /\ unit.service = f.services[1] /\ unit.id[3] = f.symbol
        /\ unit.id[4] = f.services[2] /\ unit.id[5] = f.type /\ unit.id[6] = f.code
    BY DownstreamUnitIs
  <2>2. u = unit
    BY <1>1
  <2> HIDE DEF unit
  <2> QED BY <2>1, <2>2
<1>3. \E s \in Indexed : \E call \in HttpCalls(s) : \E t \in Named(call.target) :
          \E c : OnFlowOf(f, s, t, call, c)
  BY <1>1, DownstreamOnFlow DEF findings
<1>4. PICK s, t, call, c : /\ s \in Indexed /\ call \in HttpCalls(s)
                           /\ t \in Named(call.target) /\ OnFlowOf(f, s, t, call, c)
  BY <1>3
<1>5. PICK e \in HttpEntries(t) : /\ e.method = call.method /\ e.name = call.path
                                  /\ c \in ErrorsOf(t, Flow(t, e.symbol))
  BY <1>4 DEF OnFlowOf
<1>6. t \in Indexed /\ NameOf[t] = call.target
  BY <1>4 DEF Named
<1>7. f.services[1] = ServiceName(s) /\ f.services[2] = ServiceName(t)
      /\ f.symbol = call.source /\ f.type = c.type /\ f.code = c.code
  BY <1>4 DEF OnFlowOf
<1>8. <<u.service, u.id[3], u.id[4]>> = <<ServiceName(s), call.source, ServiceName(t)>>
      /\ <<e.method, e.name>> = <<call.method, call.path>>
      /\ <<c.type, c.code>> = <<u.id[5], u.id[6]>>
  BY <1>2, <1>5, <1>7
<1> QED BY <1>4, <1>5, <1>6, <1>8

(* What is asked about the errors of an endpoint rests on its flow, and     *)
(* within the limit of the walk on all of it: a client error it raises is   *)
(* reported as unhandled exactly when the service maps its type nowhere     *)
(* (list_reachable_edges and the detectors of architecture.py).             *)
THEOREM EndpointErrorsAlwaysAccounted == ReviewSpec => []EndpointErrorsAccounted
<1>1. ReviewInv => EndpointErrorsAccounted
  BY EndpointErrorsHold DEF ReviewInv
<1> QED BY <1>1, RowsAgree, PTL

(* A plan asks for a change across services only about an error on the flow *)
(* of the endpoint that the caller's source names, whatever else is indexed *)
(* (_downstream_contract_scope and the derive functions of change_plan.py). *)
THEOREM DownstreamUnitsAlwaysRestOnFlow == ReviewSpec => []DownstreamUnitsRestOnFlow
<1>1. ReviewInv => DownstreamUnitsRestOnFlow
  BY DownstreamUnitsHold DEF ReviewInv
<1> QED BY <1>1, RowsAgree, PTL

-----------------------------------------------------------------------------
(* Cycles.                                                                  *)

(* What a node reaches is closed, and the least set that is.                *)
LEMMA ReachedIs ==
    ASSUME NEW edges, NEW node \in Nodes(edges)
    PROVE  /\ node \in ReachedFrom(edges, node)
           /\ ReachedFrom(edges, node) \subseteq Nodes(edges)
           /\ \A e \in edges : e[1] \in ReachedFrom(edges, node) => e[2] \in ReachedFrom(edges, node)
           /\ \A C : node \in C /\ (\A e \in edges : e[1] \in C => e[2] \in C)
                     => ReachedFrom(edges, node) \subseteq C
<1> DEFINE nodes == Nodes(edges)
           closed == {C \in SUBSET nodes :
                         node \in C /\ \A e \in edges : e[1] \in C => e[2] \in C}
           reached == ReachedFrom(edges, node)
<1>1. reached = {n \in nodes : \A C \in closed : n \in C}
  BY DEF ReachedFrom
<1>2. \A e \in edges : e[1] \in nodes /\ e[2] \in nodes
  BY DEF Nodes
<1>3. ASSUME NEW e \in edges, e[1] \in reached PROVE e[2] \in reached
  <2>1. ASSUME NEW C \in closed PROVE e[2] \in C
    BY <1>1, <1>3
  <2> HIDE DEF nodes, closed
  <2> QED BY <1>1, <1>2, <2>1
<1>4. ASSUME NEW C, node \in C, \A e \in edges : e[1] \in C => e[2] \in C
      PROVE  reached \subseteq C
  <2>1. C \cap nodes \in closed
    BY <1>2, <1>4
  <2> HIDE DEF nodes, closed
  <2> QED BY <1>1, <2>1
<1> QED BY <1>1, <1>3, <1>4

LEMMA ReachTransitive ==
    ASSUME NEW edges, NEW a \in Nodes(edges), NEW b \in ReachedFrom(edges, a)
    PROVE  b \in Nodes(edges) /\ ReachedFrom(edges, b) \subseteq ReachedFrom(edges, a)
<1>1. b \in Nodes(edges)
  BY ReachedIs
<1>2. \A e \in edges : e[1] \in ReachedFrom(edges, a) => e[2] \in ReachedFrom(edges, a)
  BY ReachedIs
<1> QED BY <1>1, <1>2, ReachedIs

LEMMA EdgeReaches ==
    ASSUME NEW edges, NEW a \in Nodes(edges), NEW b \in ReachedFrom(edges, a),
           NEW c \in Neighbors(edges, b)
    PROVE  c \in ReachedFrom(edges, a)
<1>1. PICK e \in edges : e[1] = b /\ e[2] = c
  BY DEF Neighbors
<1> QED BY <1>1, ReachedIs

(* What holds of the walk between two steps.  Open are the nodes on the     *)
(* stack and gray those whose calls have not returned.  A gray node reaches *)
(* all that are later on the stack; a node reaches the one its lowlink      *)
(* names; one whose call has returned has a lowlink below itself and no     *)
(* lower than that of the last gray node before it; nothing leaves what is  *)
(* closed, which are whole components.                                      *)
Core(edges, I, L, rest, counter, open, gray, result) ==
    /\ counter \in Nat /\ DOMAIN I \subseteq Nodes(edges)
    /\ L = [x \in DOMAIN I |-> L[x]] /\ rest = [x \in DOMAIN I |-> rest[x]]
    /\ \A x \in DOMAIN I : I[x] \in Nat /\ I[x] < counter /\ L[x] \in Nat /\ L[x] <= I[x]
    /\ gray \subseteq open /\ open \subseteq DOMAIN I
    /\ \A x, y \in open : I[x] = I[y] => x = y
    /\ \A x \in DOMAIN I : /\ rest[x] \subseteq Neighbors(edges, x)
                           /\ x \notin gray => rest[x] = {}
    /\ \A g \in gray, x \in open : I[g] <= I[x] => x \in ReachedFrom(edges, g)
    /\ \A x \in open : \E y \in open : I[y] = L[x] /\ y \in ReachedFrom(edges, x)
    /\ \A x \in open \ gray :
           /\ L[x] < I[x]
           /\ \E g \in gray : /\ I[g] < I[x] /\ L[g] <= L[x]
                              /\ \A h \in gray : I[h] < I[x] => I[h] <= I[g]
    /\ \A e \in edges : e[1] \in open /\ e[2] \notin rest[e[1]]
                        => e[2] \in DOMAIN I /\ (e[2] \in open => L[e[1]] <= I[e[2]])
    /\ \A e \in edges : e[1] \in DOMAIN I \ open => e[2] \in DOMAIN I \ open
    /\ UNION result = DOMAIN I \ open
    /\ \A c \in result : \E n \in c : c = Component(edges, n)

(* A new node is visited, by a call of the last gray one or by itself.      *)
LEMMA CoreEntered ==
    ASSUME NEW edges, NEW I, NEW L, NEW rest, NEW counter, NEW open, NEW gray, NEW result,
           Core(edges, I, L, rest, counter, open, gray, result),
           NEW v \in Nodes(edges), v \notin DOMAIN I,
           gray = {} \/ \E t \in gray : /\ v \in Neighbors(edges, t)
                                       /\ \A g \in gray : I[g] <= I[t]
    PROVE  Core(edges, With(I, v, counter), With(L, v, counter),
                With(rest, v, Neighbors(edges, v)), counter + 1,
                open \cup {v}, gray \cup {v}, result)
<1> DEFINE I1 == With(I, v, counter)
           L1 == With(L, v, counter)
           rest1 == With(rest, v, Neighbors(edges, v))
<1>1. /\ counter \in Nat /\ DOMAIN I \subseteq Nodes(edges)
      /\ DOMAIN L = DOMAIN I /\ DOMAIN rest = DOMAIN I
      /\ \A x \in DOMAIN I : I[x] \in Nat /\ I[x] < counter /\ L[x] \in Nat /\ L[x] <= I[x]
      /\ gray \subseteq open /\ open \subseteq DOMAIN I
      /\ \A x, y \in open : I[x] = I[y] => x = y
      /\ \A x \in DOMAIN I : /\ rest[x] \subseteq Neighbors(edges, x)
                             /\ x \notin gray => rest[x] = {}
  BY DEF Core
<1>2. /\ \A g \in gray, x \in open : I[g] <= I[x] => x \in ReachedFrom(edges, g)
      /\ \A x \in open : \E y \in open : I[y] = L[x] /\ y \in ReachedFrom(edges, x)
      /\ \A x \in open \ gray :
           /\ L[x] < I[x]
           /\ \E g \in gray : /\ I[g] < I[x] /\ L[g] <= L[x]
                              /\ \A h \in gray : I[h] < I[x] => I[h] <= I[g]
      /\ \A e \in edges : e[1] \in open /\ e[2] \notin rest[e[1]]
                          => e[2] \in DOMAIN I /\ (e[2] \in open => L[e[1]] <= I[e[2]])
      /\ \A e \in edges : e[1] \in DOMAIN I \ open => e[2] \in DOMAIN I \ open
      /\ UNION result = DOMAIN I \ open
      /\ \A c \in result : \E n \in c : c = Component(edges, n)
  BY DEF Core
<1>3. /\ DOMAIN I1 = DOMAIN I \cup {v} /\ I1[v] = counter /\ \A x \in DOMAIN I : I1[x] = I[x]
      /\ DOMAIN L1 = DOMAIN I \cup {v} /\ L1[v] = counter /\ \A x \in DOMAIN I : L1[x] = L[x]
      /\ DOMAIN rest1 = DOMAIN I \cup {v} /\ rest1[v] = Neighbors(edges, v)
      /\ \A x \in DOMAIN I : rest1[x] = rest[x]
      /\ L1 = [x \in DOMAIN I1 |-> L1[x]] /\ rest1 = [x \in DOMAIN I1 |-> rest1[x]]
  <2>1. DOMAIN I1 = DOMAIN I \cup {v} /\ I1[v] = counter /\ \A x \in DOMAIN I : I1[x] = I[x]
    BY DEF With
  <2>2. /\ DOMAIN L1 = DOMAIN I \cup {v} /\ L1[v] = counter /\ \A x \in DOMAIN I : L1[x] = L[x]
        /\ L1 = [x \in DOMAIN L1 |-> L1[x]]
    <3>1. DOMAIN L1 = DOMAIN L \cup {v} /\ L1 = [x \in DOMAIN L \cup {v} |-> L1[x]]
          /\ L1[v] = counter /\ \A x \in DOMAIN L : x # v => L1[x] = L[x]
      BY DEF With
    <3> HIDE DEF L1
    <3> QED BY <1>1, <3>1
  <2>3. /\ DOMAIN rest1 = DOMAIN I \cup {v} /\ rest1[v] = Neighbors(edges, v)
        /\ \A x \in DOMAIN I : rest1[x] = rest[x]
        /\ rest1 = [x \in DOMAIN rest1 |-> rest1[x]]
    <3>1. DOMAIN rest1 = DOMAIN rest \cup {v} /\ rest1 = [x \in DOMAIN rest \cup {v} |-> rest1[x]]
          /\ rest1[v] = Neighbors(edges, v) /\ \A x \in DOMAIN rest : x # v => rest1[x] = rest[x]
      BY DEF With
    <3> HIDE DEF rest1
    <3> QED BY <1>1, <3>1
  <2> HIDE DEF I1, L1, rest1
  <2> QED BY <2>1, <2>2, <2>3
<1> HIDE DEF I1, L1, rest1
<1>4. \A x \in DOMAIN I1 :
          I1[x] \in Nat /\ I1[x] < counter + 1 /\ L1[x] \in Nat /\ L1[x] <= I1[x]
  <2> SUFFICES ASSUME NEW x \in DOMAIN I1
               PROVE  I1[x] \in Nat /\ I1[x] < counter + 1 /\ L1[x] \in Nat /\ L1[x] <= I1[x]
    OBVIOUS
  <2>1. CASE x = v
    BY <1>1, <1>3, <2>1
  <2>2. CASE x \in DOMAIN I
    BY <1>1, <1>3, <2>2
  <2> QED BY <1>3, <2>1, <2>2
<1>5. \A x, y \in open \cup {v} : I1[x] = I1[y] => x = y
  <2>1. \A x \in open : I1[x] = I[x] /\ I[x] # counter
    BY <1>1, <1>3
  <2> QED BY <1>1, <1>3, <2>1
<1>6. \A x \in DOMAIN I1 : /\ rest1[x] \subseteq Neighbors(edges, x)
                           /\ x \notin gray \cup {v} => rest1[x] = {}
  BY <1>1, <1>3
<1>7. ASSUME NEW g \in gray \cup {v}, NEW x \in open \cup {v}, I1[g] <= I1[x]
      PROVE  x \in ReachedFrom(edges, g)
  <2>1. CASE g = v /\ x = v
    BY <2>1, ReachedIs
  <2>2. CASE g = v /\ x \in open
    BY <1>1, <1>3, <1>7, <2>2
  <2>3. CASE g \in gray /\ x \in open
    BY <1>1, <1>2, <1>3, <1>7, <2>3
  <2>4. CASE g \in gray /\ x = v
    <3>1. PICK t \in gray : v \in Neighbors(edges, t) /\ \A h \in gray : I[h] <= I[t]
      BY <2>4
    <3>2. t \in ReachedFrom(edges, g)
      BY <1>1, <1>2, <2>4, <3>1
    <3>3. g \in Nodes(edges)
      BY <1>1, <2>4
    <3> QED BY <2>4, <3>1, <3>2, <3>3, EdgeReaches
  <2> QED BY <2>1, <2>2, <2>3, <2>4
<1>8. \A x \in open \cup {v} : \E y \in open \cup {v} : I1[y] = L1[x] /\ y \in ReachedFrom(edges, x)
  <2>1. v \in ReachedFrom(edges, v) /\ I1[v] = L1[v]
    BY <1>3, ReachedIs
  <2> QED BY <1>1, <1>2, <1>3, <2>1
<1>9. ASSUME NEW x \in (open \cup {v}) \ (gray \cup {v})
      PROVE  /\ L1[x] < I1[x]
             /\ \E g \in gray \cup {v} : /\ I1[g] < I1[x] /\ L1[g] <= L1[x]
                                         /\ \A h \in gray \cup {v} : I1[h] < I1[x] => I1[h] <= I1[g]
  <2>1. x \in open \ gray /\ x \in DOMAIN I
    BY <1>1
  <2>2. PICK g \in gray : /\ I[g] < I[x] /\ L[g] <= L[x]
                          /\ \A h \in gray : I[h] < I[x] => I[h] <= I[g]
    BY <1>2, <2>1
  <2>3. I1[x] = I[x] /\ L1[x] = L[x] /\ I1[g] = I[g] /\ L1[g] = L[g]
        /\ \A h \in gray : I1[h] = I[h]
    BY <1>1, <1>3, <2>1
  <2>4. ~(I1[v] < I1[x])
    BY <1>1, <1>3, <2>1, <2>3
  <2>5. \A h \in gray \cup {v} : I1[h] < I1[x] => I1[h] <= I1[g]
    BY <2>2, <2>3, <2>4
  <2> QED BY <1>2, <2>1, <2>2, <2>3, <2>5
<1>10. ASSUME NEW e \in edges, e[1] \in open \cup {v}, e[2] \notin rest1[e[1]]
       PROVE  e[2] \in DOMAIN I1 /\ (e[2] \in open \cup {v} => L1[e[1]] <= I1[e[2]])
  <2>1. e[2] \in Neighbors(edges, e[1])
    BY DEF Neighbors
  <2>2. e[1] \in open /\ e[1] \in DOMAIN I
    BY <1>1, <1>3, <1>10, <2>1
  <2>3. e[2] \in DOMAIN I /\ (e[2] \in open => L[e[1]] <= I[e[2]])
    BY <1>2, <1>3, <1>10, <2>2
  <2> QED BY <1>3, <2>2, <2>3
<1>11. DOMAIN I1 \ (open \cup {v}) = DOMAIN I \ open
  BY <1>3
<1>12. DOMAIN I1 \subseteq Nodes(edges) /\ counter + 1 \in Nat
       /\ gray \cup {v} \subseteq open \cup {v} /\ open \cup {v} \subseteq DOMAIN I1
  BY <1>1, <1>3
<1>13. \A e \in edges : e[1] \in DOMAIN I1 \ (open \cup {v}) => e[2] \in DOMAIN I1 \ (open \cup {v})
  BY <1>2, <1>11
<1>14. UNION result = DOMAIN I1 \ (open \cup {v}) /\ \A c \in result : \E n \in c : c = Component(edges, n)
  BY <1>2, <1>11
<1>15. Core(edges, I1, L1, rest1, counter + 1, open \cup {v}, gray \cup {v}, result)
  BY <1>3, <1>4, <1>5, <1>6, <1>7, <1>8, <1>9, <1>10, <1>12, <1>13, <1>14 DEF Core
<1> QED BY <1>15 DEF I1, L1, rest1

(* A gray node has looked at a neighbor.                                    *)
LEMMA CoreShrink ==
    ASSUME NEW edges, NEW I, NEW L, NEW rest, NEW counter, NEW open, NEW gray, NEW result,
           Core(edges, I, L, rest, counter, open, gray, result),
           NEW node \in gray, NEW neighbor \in DOMAIN I,
           neighbor \in open => L[node] <= I[neighbor]
    PROVE  Core(edges, I, L, [rest EXCEPT ![node] = @ \ {neighbor}], counter, open, gray, result)
<1> DEFINE rest1 == [rest EXCEPT ![node] = @ \ {neighbor}]
<1>1. /\ gray \subseteq open /\ open \subseteq DOMAIN I
      /\ rest = [x \in DOMAIN I |-> rest[x]]
      /\ \A x \in DOMAIN I : /\ rest[x] \subseteq Neighbors(edges, x)
                             /\ x \notin gray => rest[x] = {}
      /\ \A e \in edges : e[1] \in open /\ e[2] \notin rest[e[1]]
                          => e[2] \in DOMAIN I /\ (e[2] \in open => L[e[1]] <= I[e[2]])
  BY DEF Core
<1>2. /\ rest1 = [x \in DOMAIN I |-> rest1[x]]
      /\ rest1[node] = rest[node] \ {neighbor}
      /\ \A x \in DOMAIN I : x # node => rest1[x] = rest[x]
  BY <1>1
<1> HIDE DEF rest1
<1>3. \A x \in DOMAIN I : /\ rest1[x] \subseteq Neighbors(edges, x)
                          /\ x \notin gray => rest1[x] = {}
  BY <1>1, <1>2
<1>4. ASSUME NEW e \in edges, e[1] \in open, e[2] \notin rest1[e[1]]
      PROVE  e[2] \in DOMAIN I /\ (e[2] \in open => L[e[1]] <= I[e[2]])
  <2>1. CASE e[1] = node /\ e[2] = neighbor
    BY <2>1
  <2>2. CASE ~(e[1] = node /\ e[2] = neighbor)
    <3>1. e[2] \notin rest[e[1]]
      BY <1>1, <1>2, <1>4, <2>2
    <3> QED BY <1>1, <1>4, <3>1
  <2> QED BY <2>1, <2>2
<1>5. Core(edges, I, L, rest1, counter, open, gray, result)
  BY <1>2, <1>3, <1>4 DEF Core
<1> QED BY <1>5 DEF rest1

(* A gray node learns of an open node that it reaches.                      *)
LEMMA CoreLowered ==
    ASSUME NEW edges, NEW I, NEW L, NEW rest, NEW counter, NEW open, NEW gray, NEW result,
           Core(edges, I, L, rest, counter, open, gray, result),
           NEW node \in gray, NEW y \in open, y \in ReachedFrom(edges, node)
    PROVE  /\ Core(edges, I, [L EXCEPT ![node] = Lower(@, I[y])], rest, counter, open, gray, result)
           /\ [L EXCEPT ![node] = Lower(@, I[y])][node] <= I[y]
<1> DEFINE L1 == [L EXCEPT ![node] = Lower(@, I[y])]
<1>1. /\ gray \subseteq open /\ open \subseteq DOMAIN I
      /\ L = [x \in DOMAIN I |-> L[x]]
      /\ \A x \in DOMAIN I : I[x] \in Nat /\ I[x] < counter /\ L[x] \in Nat /\ L[x] <= I[x]
  BY DEF Core
<1>2. /\ \A x \in open : \E z \in open : I[z] = L[x] /\ z \in ReachedFrom(edges, x)
      /\ \A x \in open \ gray :
           /\ L[x] < I[x]
           /\ \E g \in gray : /\ I[g] < I[x] /\ L[g] <= L[x]
                              /\ \A h \in gray : I[h] < I[x] => I[h] <= I[g]
      /\ \A e \in edges : e[1] \in open /\ e[2] \notin rest[e[1]]
                          => e[2] \in DOMAIN I /\ (e[2] \in open => L[e[1]] <= I[e[2]])
  BY DEF Core
<1>3. /\ L1 = [x \in DOMAIN I |-> L1[x]]
      /\ L1[node] = Lower(L[node], I[y])
      /\ \A x \in DOMAIN I : x # node => L1[x] = L[x]
  BY <1>1
<1> HIDE DEF L1
<1>4. /\ L1[node] \in {L[node], I[y]} /\ L1[node] <= L[node] /\ L1[node] <= I[y]
      /\ node \in DOMAIN I /\ y \in DOMAIN I
  BY <1>1, <1>3 DEF Lower
<1>5. \A x \in DOMAIN I : L1[x] \in Nat /\ L1[x] <= L[x] /\ L1[x] <= I[x]
  <2> SUFFICES ASSUME NEW x \in DOMAIN I
               PROVE  L1[x] \in Nat /\ L1[x] <= L[x] /\ L1[x] <= I[x]
    OBVIOUS
  <2>1. CASE x = node
    BY <1>1, <1>4, <2>1
  <2>2. CASE x # node
    BY <1>1, <1>3, <2>2
  <2> QED BY <2>1, <2>2
<1>6. \A x \in open : \E z \in open : I[z] = L1[x] /\ z \in ReachedFrom(edges, x)
  BY <1>1, <1>2, <1>3, <1>4
<1>7. ASSUME NEW x \in open \ gray
      PROVE  /\ L1[x] < I[x]
             /\ \E g \in gray : /\ I[g] < I[x] /\ L1[g] <= L1[x]
                                /\ \A h \in gray : I[h] < I[x] => I[h] <= I[g]
  <2>1. L1[x] = L[x] /\ x \in DOMAIN I
    BY <1>1, <1>3
  <2>2. PICK g \in gray : /\ I[g] < I[x] /\ L[g] <= L[x]
                          /\ \A h \in gray : I[h] < I[x] => I[h] <= I[g]
    BY <1>2
  <2>3. L1[g] <= L1[x]
    BY <1>1, <1>5, <2>1, <2>2
  <2> QED BY <1>2, <2>1, <2>2, <2>3
<1>8. ASSUME NEW e \in edges, e[1] \in open, e[2] \notin rest[e[1]]
      PROVE  e[2] \in DOMAIN I /\ (e[2] \in open => L1[e[1]] <= I[e[2]])
  <2>1. e[2] \in DOMAIN I /\ (e[2] \in open => L[e[1]] <= I[e[2]])
    BY <1>2, <1>8
  <2>2. L1[e[1]] <= L[e[1]] /\ L1[e[1]] \in Nat /\ L[e[1]] \in Nat /\ I[e[2]] \in Nat
    BY <1>1, <1>5, <1>8, <2>1
  <2> QED BY <2>1, <2>2
<1>9. Core(edges, I, L1, rest, counter, open, gray, result)
  BY <1>1, <1>3, <1>5, <1>6, <1>7, <1>8 DEF Core
<1> QED BY <1>4, <1>9 DEF L1

(* The last gray node returns while its component stays open.               *)
LEMMA CorePop ==
    ASSUME NEW edges, NEW I, NEW L, NEW rest, NEW counter, NEW open, NEW gray, NEW result,
           Core(edges, I, L, rest, counter, open, gray, result),
           NEW top \in gray, \A g \in gray : I[g] <= I[top],
           rest[top] = {}, L[top] < I[top],
           NEW caller \in gray \ {top}, \A g \in gray \ {top} : I[g] <= I[caller],
           L[caller] <= L[top]
    PROVE  Core(edges, I, L, rest, counter, open, gray \ {top}, result)
<1>1. /\ gray \subseteq open /\ open \subseteq DOMAIN I
      /\ \A x \in DOMAIN I : I[x] \in Nat /\ L[x] \in Nat
      /\ \A x, y \in open : I[x] = I[y] => x = y
      /\ \A x \in DOMAIN I : /\ rest[x] \subseteq Neighbors(edges, x)
                             /\ x \notin gray => rest[x] = {}
      /\ \A x \in open \ gray :
           /\ L[x] < I[x]
           /\ \E g \in gray : /\ I[g] < I[x] /\ L[g] <= L[x]
                              /\ \A h \in gray : I[h] < I[x] => I[h] <= I[g]
  BY DEF Core
<1>2. I[caller] < I[top]
  BY <1>1
<1>3. ASSUME NEW x \in open \ (gray \ {top})
      PROVE  /\ L[x] < I[x]
             /\ \E g \in gray \ {top} : /\ I[g] < I[x] /\ L[g] <= L[x]
                                        /\ \A h \in gray \ {top} : I[h] < I[x] => I[h] <= I[g]
  <2>1. CASE x = top
    BY <1>2, <2>1
  <2>2. CASE x # top
    <3>1. x \in open \ gray
      BY <2>2
    <3>2. PICK g \in gray : /\ I[g] < I[x] /\ L[g] <= L[x]
                            /\ \A h \in gray : I[h] < I[x] => I[h] <= I[g]
      BY <1>1, <3>1
    <3>3. CASE g = top
      <4>1. I[caller] < I[x] /\ L[caller] <= L[x]
        BY <1>1, <1>2, <3>2, <3>3
      <4> QED BY <1>1, <3>1, <4>1
    <3>4. CASE g # top
      BY <1>1, <3>1, <3>2, <3>4
    <3> QED BY <3>3, <3>4
  <2> QED BY <2>1, <2>2
<1>4. \A x \in DOMAIN I : /\ rest[x] \subseteq Neighbors(edges, x)
                          /\ x \notin gray \ {top} => rest[x] = {}
  BY <1>1
<1>5. gray \ {top} \subseteq open
  BY <1>1
<1> QED BY <1>3, <1>4, <1>5 DEF Core

(* The last gray node returns and closes its component.                     *)
LEMMA CoreClose ==
    ASSUME NEW edges, NEW I, NEW L, NEW rest, NEW counter, NEW open, NEW gray, NEW result,
           Core(edges, I, L, rest, counter, open, gray, result),
           NEW top \in gray, \A g \in gray : I[g] <= I[top],
           rest[top] = {}, L[top] = I[top],
           NEW C, C = {x \in open : I[top] <= I[x]}
    PROVE  Core(edges, I, L, rest, counter, open \ C, gray \ {top}, result \cup {C})
<1>1. /\ gray \subseteq open /\ open \subseteq DOMAIN I /\ DOMAIN I \subseteq Nodes(edges)
      /\ \A x \in DOMAIN I : I[x] \in Nat /\ L[x] \in Nat /\ L[x] <= I[x]
      /\ \A x, y \in open : I[x] = I[y] => x = y
      /\ \A x \in DOMAIN I : /\ rest[x] \subseteq Neighbors(edges, x)
                             /\ x \notin gray => rest[x] = {}
  BY DEF Core
<1>2. /\ \A g \in gray, x \in open : I[g] <= I[x] => x \in ReachedFrom(edges, g)
      /\ \A x \in open : \E y \in open : I[y] = L[x] /\ y \in ReachedFrom(edges, x)
  BY DEF Core
<1>3. \A x \in open \ gray :
           /\ L[x] < I[x]
           /\ \E g \in gray : /\ I[g] < I[x] /\ L[g] <= L[x]
                              /\ \A h \in gray : I[h] < I[x] => I[h] <= I[g]
  BY DEF Core
<1>4. /\ \A e \in edges : e[1] \in open /\ e[2] \notin rest[e[1]]
                          => e[2] \in DOMAIN I /\ (e[2] \in open => L[e[1]] <= I[e[2]])
      /\ \A e \in edges : e[1] \in DOMAIN I \ open => e[2] \in DOMAIN I \ open
      /\ UNION result = DOMAIN I \ open
      /\ \A c \in result : \E n \in c : c = Component(edges, n)
  BY DEF Core
<1>5. top \in C /\ C \subseteq open /\ \A x \in C : x # top => I[top] < I[x]
  BY <1>1
<1>6. \A x \in C : x # top => x \notin gray
  BY <1>1, <1>5
<1>7. \A x \in C : I[top] <= L[x]
  <2> SUFFICES ASSUME NEW x \in C, x # top PROVE I[top] <= L[x]
    BY <1>1
  <2>1. x \in open \ gray
    BY <1>5, <1>6
  <2>2. PICK g \in gray : /\ I[g] < I[x] /\ L[g] <= L[x]
                          /\ \A h \in gray : I[h] < I[x] => I[h] <= I[g]
    BY <1>3, <2>1
  <2>3. I[top] <= I[g] /\ I[g] <= I[top]
    BY <1>5, <2>2
  <2>4. g = top
    BY <1>1, <2>3
  <2> QED BY <2>2, <2>4
<1>8. \A e \in edges : e[1] \in C => e[2] \in C \cup (DOMAIN I \ open)
  <2> SUFFICES ASSUME NEW e \in edges, e[1] \in C, e[2] \in open \/ e[2] \notin DOMAIN I
               PROVE  e[2] \in C
    OBVIOUS
  <2>1. rest[e[1]] = {}
    BY <1>1, <1>5, <1>6
  <2>2. e[2] \in open /\ L[e[1]] <= I[e[2]]
    BY <1>1, <1>4, <1>5, <2>1
  <2>3. I[top] <= I[e[2]]
    BY <1>1, <1>5, <1>7, <2>2
  <2> QED BY <2>2, <2>3
<1>9. \A x \in C : top \in ReachedFrom(edges, x)
  <2> DEFINE bad == {x \in C : top \notin ReachedFrom(edges, x)}
             places == {I[x] : x \in bad}
  <2> SUFFICES ASSUME bad # {} PROVE FALSE
    OBVIOUS
  <2>1. places \in SUBSET Nat /\ places # {}
    BY <1>1, <1>5
  <2>2. PICK m \in places : \A n \in places : m <= n
    BY <2>1, LeastNumber
  <2>3. PICK x \in bad : m = I[x]
    OBVIOUS
  <2>4. x # top
    BY <1>1, <2>3, ReachedIs
  <2>5. PICK y \in open : I[y] = L[x] /\ y \in ReachedFrom(edges, x)
    BY <1>2, <1>5
  <2>6. y \in C
    BY <1>7, <2>5
  <2>7. I[y] < I[x]
    BY <1>3, <1>5, <1>6, <2>4, <2>5
  <2>8. y \notin bad
    <3>1. y \in bad => m <= I[y]
      BY <2>2
    <3>2. I[y] \in Nat /\ I[x] \in Nat
      BY <1>1, <1>5, <2>3
    <3> QED BY <2>3, <2>7, <3>1, <3>2
  <2>9. ReachedFrom(edges, y) \subseteq ReachedFrom(edges, x)
    BY <1>1, <1>5, <2>5, ReachTransitive
  <2> QED BY <2>6, <2>8, <2>9
<1>10. C = Component(edges, top)
  <2>1. \A x \in C : x \in Component(edges, top)
    BY <1>1, <1>2, <1>5, <1>9 DEF Component
  <2>2. ASSUME NEW n \in Component(edges, top) PROVE n \in C
    <3>1. n \in Nodes(edges) /\ n \in ReachedFrom(edges, top) /\ top \in ReachedFrom(edges, n)
      BY DEF Component
    <3>2. \A e \in edges : e[1] \in C \cup (DOMAIN I \ open) => e[2] \in C \cup (DOMAIN I \ open)
      BY <1>4, <1>8
    <3>3. top \in Nodes(edges)
      BY <1>1
    <3>4. n \in C \cup (DOMAIN I \ open)
      <4> DEFINE D == C \cup (DOMAIN I \ open)
      <4>1. top \in D /\ \A e \in edges : e[1] \in D => e[2] \in D
        BY <1>5, <3>2
      <4> HIDE DEF D
      <4>2. ReachedFrom(edges, top) \subseteq D
        BY <3>3, <4>1, ReachedIs
      <4> QED BY <3>1, <4>2 DEF D
    <3>5. n \notin DOMAIN I \ open
      <4> DEFINE D == DOMAIN I \ open
      <4>1. \A e \in edges : e[1] \in D => e[2] \in D
        BY <1>4
      <4>2. top \notin D
        BY <1>1
      <4> HIDE DEF D
      <4>3. n \in D => ReachedFrom(edges, n) \subseteq D
        BY <3>1, <4>1, ReachedIs
      <4> QED BY <3>1, <4>2, <4>3 DEF D
    <3> QED BY <3>4, <3>5
  <2> QED BY <2>1, <2>2
<1>11. \A x \in open \ C : I[x] < I[top]
  BY <1>1
<1>12. gray \ {top} \subseteq open \ C /\ open \ C \subseteq DOMAIN I
  BY <1>1, <1>6
<1>13. \A x \in open \ C : \E y \in open \ C : I[y] = L[x] /\ y \in ReachedFrom(edges, x)
  <2> SUFFICES ASSUME NEW x \in open \ C
               PROVE  \E y \in open \ C : I[y] = L[x] /\ y \in ReachedFrom(edges, x)
    OBVIOUS
  <2>1. PICK y \in open : I[y] = L[x] /\ y \in ReachedFrom(edges, x)
    BY <1>2
  <2>2. I[y] < I[top]
    BY <1>1, <1>11, <2>1
  <2>3. y \notin C
    BY <1>1, <2>2
  <2> QED BY <2>1, <2>3
<1>14. ASSUME NEW x \in (open \ C) \ (gray \ {top})
       PROVE  /\ L[x] < I[x]
              /\ \E g \in gray \ {top} : /\ I[g] < I[x] /\ L[g] <= L[x]
                                         /\ \A h \in gray \ {top} : I[h] < I[x] => I[h] <= I[g]
  <2>1. x \in open \ gray
    BY <1>5
  <2>2. PICK g \in gray : /\ I[g] < I[x] /\ L[g] <= L[x]
                          /\ \A h \in gray : I[h] < I[x] => I[h] <= I[g]
    BY <1>3, <2>1
  <2>3. g # top
    BY <1>1, <1>11, <2>1, <2>2
  <2> QED BY <1>3, <2>1, <2>2, <2>3
<1>15. \A e \in edges : e[1] \in DOMAIN I \ (open \ C) => e[2] \in DOMAIN I \ (open \ C)
  BY <1>1, <1>4, <1>5, <1>8
<1>16. UNION (result \cup {C}) = DOMAIN I \ (open \ C)
  BY <1>1, <1>4, <1>5
<1>17. \A c \in result \cup {C} : \E n \in c : c = Component(edges, n)
  BY <1>4, <1>5, <1>10
<1>18. \A x \in DOMAIN I : /\ rest[x] \subseteq Neighbors(edges, x)
                           /\ x \notin gray \ {top} => rest[x] = {}
  BY <1>1
<1>19. /\ \A x, y \in open \ C : I[x] = I[y] => x = y
       /\ \A g \in gray \ {top}, x \in open \ C : I[g] <= I[x] => x \in ReachedFrom(edges, g)
       /\ \A e \in edges : e[1] \in open \ C /\ e[2] \notin rest[e[1]]
                           => e[2] \in DOMAIN I /\ (e[2] \in open \ C => L[e[1]] <= I[e[2]])
  BY <1>1, <1>2, <1>4
<1> HIDE DEF Core
<1> QED BY <1>12, <1>13, <1>14, <1>15, <1>16, <1>17, <1>18, <1>19 DEF Core

LEMMA MembersAppend ==
    ASSUME NEW S, NEW q \in Seq(S), NEW v
    PROVE  Members(Append(q, v)) = Members(q) \cup {v}
<1>1. \A k \in 1..(Len(q) + 1) : Append(q, v)[k] = IF k = Len(q) + 1 THEN v ELSE q[k]
  OBVIOUS
<1>2. Len(Append(q, v)) = Len(q) + 1 /\ Len(q) \in Nat
  OBVIOUS
<1>3. 1..(Len(q) + 1) = 1..Len(q) \cup {Len(q) + 1} /\ \A k \in 1..Len(q) : k # Len(q) + 1
  BY <1>2
<1> QED BY <1>1, <1>2, <1>3 DEF Members

LEMMA MembersFront ==
    ASSUME NEW S, NEW q \in Seq(S), NEW k \in 0..Len(q)
    PROVE  /\ SubSeq(q, 1, k) \in Seq(S) /\ Len(SubSeq(q, 1, k)) = k
           /\ \A i \in 1..k : SubSeq(q, 1, k)[i] = q[i]
           /\ Members(SubSeq(q, 1, k)) = {q[i] : i \in 1..k}
<1>1. SubSeq(q, 1, k) = [i \in 1..k |-> q[i]] /\ Len(SubSeq(q, 1, k)) = k
  OBVIOUS
<1>2. \A i \in 1..k : q[i] \in S
  OBVIOUS
<1>3. SubSeq(q, 1, k) \in Seq(S)
  BY <1>1, <1>2
<1>4. Members(SubSeq(q, 1, k)) = {q[i] : i \in 1..k}
  BY <1>1 DEF Members
<1> QED BY <1>1, <1>3, <1>4

(* Stack and calls hold the nodes in the order in which they were visited.  *)
Rising(I, q) == \A i, j \in 1..Len(q) : i < j => I[q[i]] < I[q[j]]

SearchInv(edges, w) ==
    /\ w = [index |-> w.index, lowlink |-> w.lowlink, rest |-> w.rest, counter |-> w.counter,
            stack |-> w.stack, calls |-> w.calls, result |-> w.result]
    /\ w.stack \in Seq(Nodes(edges)) /\ w.calls \in Seq(Nodes(edges))
    /\ Rising(w.index, w.stack) /\ Rising(w.index, w.calls)
    /\ Core(edges, w.index, w.lowlink, w.rest, w.counter, Members(w.stack), Members(w.calls),
            w.result)

LEMMA RisingAppend ==
    ASSUME NEW S, NEW q \in Seq(S), NEW I, NEW v, NEW value \in Nat, Rising(I, q),
           \A x \in Members(q) : x \in DOMAIN I /\ x # v /\ I[x] \in Nat /\ I[x] < value
    PROVE  Rising(With(I, v, value), Append(q, v))
<1> DEFINE I1 == With(I, v, value)
           q1 == Append(q, v)
<1>1. /\ Len(q1) = Len(q) + 1 /\ Len(q) \in Nat /\ q1[Len(q) + 1] = v
      /\ \A k \in 1..Len(q) : q1[k] = q[k] /\ q[k] \in Members(q)
  BY DEF Members
<1>2. I1[v] = value /\ \A x \in Members(q) : I1[x] = I[x]
  BY DEF With
<1> HIDE DEF I1, q1
<1>3. ASSUME NEW i \in 1..Len(q1), NEW j \in 1..Len(q1), i < j PROVE I1[q1[i]] < I1[q1[j]]
  <2>1. i \in 1..Len(q)
    BY <1>1, <1>3
  <2>2. CASE j \in 1..Len(q)
    BY <1>1, <1>2, <1>3, <2>1, <2>2 DEF Rising
  <2>3. CASE j = Len(q) + 1
    BY <1>1, <1>2, <2>1, <2>3
  <2> QED BY <1>1, <2>2, <2>3
<1>4. Rising(I1, q1)
  BY <1>3 DEF Rising
<1> QED BY <1>4 DEF I1, q1

LEMMA RisingFront ==
    ASSUME NEW S, NEW q \in Seq(S), NEW I, NEW k \in 0..Len(q), Rising(I, q)
    PROVE  Rising(I, SubSeq(q, 1, k))
<1>1. Len(SubSeq(q, 1, k)) = k /\ \A i \in 1..k : SubSeq(q, 1, k)[i] = q[i]
  BY MembersFront
<1>2. \A i \in 1..k : i \in 1..Len(q)
  OBVIOUS
<1> QED BY <1>1, <1>2 DEF Rising

(* The last call is the newest gray node.                                   *)
LEMMA NewestCall ==
    ASSUME NEW edges, NEW w, SearchInv(edges, w), w.calls # <<>>,
           NEW node, node = w.calls[Len(w.calls)]
    PROVE  /\ Len(w.calls) \in Nat \ {0} /\ node \in Members(w.calls)
           /\ \A g \in Members(w.calls) : w.index[g] <= w.index[node]
           /\ Members(w.calls) \subseteq Members(w.stack)
           /\ Members(w.stack) \subseteq DOMAIN w.index
           /\ node \in DOMAIN w.index /\ node \in Nodes(edges)
<1>1. w.calls \in Seq(Nodes(edges)) /\ Rising(w.index, w.calls)
  BY DEF SearchInv
<1>2. /\ Members(w.calls) \subseteq Members(w.stack) /\ Members(w.stack) \subseteq DOMAIN w.index
      /\ \A x \in DOMAIN w.index : w.index[x] \in Nat
      /\ DOMAIN w.index \subseteq Nodes(edges)
  BY DEF SearchInv, Core
<1>3. Len(w.calls) \in Nat \ {0}
  BY <1>1
<1>4. node \in Members(w.calls)
  BY <1>3 DEF Members
<1>5. ASSUME NEW g \in Members(w.calls) PROVE w.index[g] <= w.index[node]
  <2>1. PICK k \in 1..Len(w.calls) : g = w.calls[k]
    BY DEF Members
  <2>2. k < Len(w.calls) => w.index[g] < w.index[node]
    BY <1>1, <1>3, <2>1 DEF Rising
  <2>3. w.index[g] \in Nat /\ w.index[node] \in Nat
    BY <1>2, <1>4
  <2>4. k = Len(w.calls) => g = node
    BY <2>1
  <2>5. k < Len(w.calls) \/ k = Len(w.calls)
    BY <1>3
  <2> QED BY <2>2, <2>3, <2>4, <2>5
<1> QED BY <1>2, <1>3, <1>4, <1>5

LEMMA EnterKeeps ==
    ASSUME NEW edges, NEW w, SearchInv(edges, w), NEW v \in Nodes(edges), v \notin DOMAIN w.index,
           w.calls # <<>> => v \in Neighbors(edges, w.calls[Len(w.calls)])
    PROVE  SearchInv(edges, Enter(w, v, edges))
<1> DEFINE w1 == Enter(w, v, edges)
<1>1. w1 = [index |-> With(w.index, v, w.counter), lowlink |-> With(w.lowlink, v, w.counter),
            rest |-> With(w.rest, v, Neighbors(edges, v)), counter |-> w.counter + 1,
            stack |-> Append(w.stack, v), calls |-> Append(w.calls, v), result |-> w.result]
  BY DEF Enter
<1> HIDE DEF w1
<1>2. /\ w1.index = With(w.index, v, w.counter) /\ w1.lowlink = With(w.lowlink, v, w.counter)
      /\ w1.rest = With(w.rest, v, Neighbors(edges, v)) /\ w1.counter = w.counter + 1
      /\ w1.stack = Append(w.stack, v) /\ w1.calls = Append(w.calls, v) /\ w1.result = w.result
      /\ w1 = [index |-> w1.index, lowlink |-> w1.lowlink, rest |-> w1.rest, counter |-> w1.counter,
               stack |-> w1.stack, calls |-> w1.calls, result |-> w1.result]
  BY <1>1
<1>3. /\ w.stack \in Seq(Nodes(edges)) /\ w.calls \in Seq(Nodes(edges))
      /\ Rising(w.index, w.stack) /\ Rising(w.index, w.calls)
      /\ Core(edges, w.index, w.lowlink, w.rest, w.counter, Members(w.stack), Members(w.calls),
              w.result)
  BY DEF SearchInv
<1>4. /\ w.counter \in Nat
      /\ \A x \in DOMAIN w.index : w.index[x] \in Nat /\ w.index[x] < w.counter
      /\ Members(w.calls) \subseteq Members(w.stack) /\ Members(w.stack) \subseteq DOMAIN w.index
  BY <1>3 DEF Core
<1>5. Members(w1.stack) = Members(w.stack) \cup {v} /\ Members(w1.calls) = Members(w.calls) \cup {v}
  BY <1>2, <1>3, MembersAppend
<1>6. Rising(w1.index, w1.stack)
  <2>1. \A x \in Members(w.stack) : x \in DOMAIN w.index /\ x # v /\ w.index[x] \in Nat
                                    /\ w.index[x] < w.counter
    BY <1>4
  <2> QED BY <1>2, <1>3, <1>4, <2>1, RisingAppend
<1>7. Rising(w1.index, w1.calls)
  <2>1. \A x \in Members(w.calls) : x \in DOMAIN w.index /\ x # v /\ w.index[x] \in Nat
                                    /\ w.index[x] < w.counter
    BY <1>4
  <2> QED BY <1>2, <1>3, <1>4, <2>1, RisingAppend
<1>8. \/ Members(w.calls) = {}
      \/ \E t \in Members(w.calls) : /\ v \in Neighbors(edges, t)
                                     /\ \A g \in Members(w.calls) : w.index[g] <= w.index[t]
  <2>1. CASE w.calls = <<>>
    BY <2>1 DEF Members
  <2>2. CASE w.calls # <<>>
    BY <2>2, NewestCall
  <2> QED BY <2>1, <2>2
<1>9. Core(edges, w1.index, w1.lowlink, w1.rest, w1.counter, Members(w1.stack), Members(w1.calls),
           w1.result)
  <2>1. Core(edges, With(w.index, v, w.counter), With(w.lowlink, v, w.counter),
             With(w.rest, v, Neighbors(edges, v)), w.counter + 1,
             Members(w.stack) \cup {v}, Members(w.calls) \cup {v}, w.result)
    BY <1>3, <1>8, CoreEntered
  <2> QED BY <1>2, <1>5, <2>1
<1>10. w1.stack \in Seq(Nodes(edges)) /\ w1.calls \in Seq(Nodes(edges))
  BY <1>2, <1>3
<1> HIDE DEF Core, Rising
<1>11. SearchInv(edges, w1)
  BY <1>2, <1>6, <1>7, <1>9, <1>10 DEF SearchInv
<1> QED BY <1>11 DEF w1

(* The edges that were looked at.                                           *)
Seen(edges, w) == {e \in edges : e[1] \in DOMAIN w.index /\ e[2] \notin w.rest[e[1]]}

LEMMA EnterSees ==
    ASSUME NEW edges, NEW w, SearchInv(edges, w), NEW v \in Nodes(edges), v \notin DOMAIN w.index
    PROVE  LET w1 == Enter(w, v, edges)
           IN  /\ DOMAIN w1.index = DOMAIN w.index \cup {v}
               /\ Len(w1.calls) = Len(w.calls) + 1
               /\ Seen(edges, w) \subseteq Seen(edges, w1)
<1> DEFINE w1 == Enter(w, v, edges)
<1>1. /\ w1.index = With(w.index, v, w.counter)
      /\ w1.rest = With(w.rest, v, Neighbors(edges, v)) /\ w1.calls = Append(w.calls, v)
  BY DEF Enter
<1>2. w.calls \in Seq(Nodes(edges))
  BY DEF SearchInv
<1>3. DOMAIN w.rest = DOMAIN w.index
  BY DEF SearchInv, Core
<1>4. DOMAIN w1.index = DOMAIN w.index \cup {v} /\ Len(w1.calls) = Len(w.calls) + 1
  BY <1>1, <1>2 DEF With
<1>5. \A x \in DOMAIN w.index : w1.rest[x] = w.rest[x]
  BY <1>1, <1>3 DEF With
<1> HIDE DEF w1
<1>6. Seen(edges, w) \subseteq Seen(edges, w1)
  BY <1>4, <1>5 DEF Seen
<1> QED BY <1>4, <1>6 DEF w1

LEMMA LookKeeps ==
    ASSUME NEW edges, NEW w, SearchInv(edges, w), w.calls # <<>>,
           NEW node, node = w.calls[Len(w.calls)], w.rest[node] # {}
    PROVE  LET w1 == LookAtNeighbor(w, node, edges)
           IN  /\ SearchInv(edges, w1)
               /\ \/ DOMAIN w1.index = DOMAIN w.index /\ w1.calls = w.calls
                  \/ \E v \in Nodes(edges) \ DOMAIN w.index :
                         /\ DOMAIN w1.index = DOMAIN w.index \cup {v}
                         /\ Len(w1.calls) = Len(w.calls) + 1
               /\ Seen(edges, w) \subseteq Seen(edges, w1)
               /\ \E e \in Seen(edges, w1) : e \notin Seen(edges, w)
<1> DEFINE neighbor == CHOOSE n \in w.rest[node] : TRUE
           looking == [w EXCEPT !.rest[node] = @ \ {neighbor}]
           shrunk == [w.rest EXCEPT ![node] = @ \ {neighbor}]
           w1 == LookAtNeighbor(w, node, edges)
<1>1. neighbor \in w.rest[node]
  OBVIOUS
<1>2. w1 = IF neighbor \in DOMAIN w.index
           THEN MeetVisited(looking, node, neighbor)
           ELSE Enter(looking, neighbor, edges)
  <2>1. looking.index = w.index
    BY DEF SearchInv
  <2> QED BY <2>1 DEF LookAtNeighbor
<1> HIDE DEF neighbor, w1
<1>3. /\ w = [index |-> w.index, lowlink |-> w.lowlink, rest |-> w.rest, counter |-> w.counter,
              stack |-> w.stack, calls |-> w.calls, result |-> w.result]
      /\ w.stack \in Seq(Nodes(edges)) /\ w.calls \in Seq(Nodes(edges))
      /\ Rising(w.index, w.stack) /\ Rising(w.index, w.calls)
      /\ Core(edges, w.index, w.lowlink, w.rest, w.counter, Members(w.stack), Members(w.calls),
              w.result)
  BY DEF SearchInv
<1>4. looking = [index |-> w.index, lowlink |-> w.lowlink, rest |-> shrunk, counter |-> w.counter,
                 stack |-> w.stack, calls |-> w.calls, result |-> w.result]
  <2>1. looking = [w EXCEPT !.rest = shrunk]
    OBVIOUS
  <2> HIDE DEF looking, shrunk
  <2> QED BY <1>3, <2>1
<1> HIDE DEF looking
<1>5. /\ node \in Members(w.calls) /\ node \in DOMAIN w.index /\ node \in Nodes(edges)
      /\ Members(w.calls) \subseteq Members(w.stack) /\ Members(w.stack) \subseteq DOMAIN w.index
  BY NewestCall
<1>6. /\ w.rest = [x \in DOMAIN w.index |-> w.rest[x]]
      /\ \A x \in DOMAIN w.index : w.rest[x] \subseteq Neighbors(edges, x)
      /\ w.lowlink = [x \in DOMAIN w.index |-> w.lowlink[x]]
      /\ \A x \in DOMAIN w.index : /\ w.index[x] \in Nat /\ w.index[x] < w.counter
                                   /\ w.lowlink[x] \in Nat /\ w.lowlink[x] <= w.index[x]
      /\ w.counter \in Nat
  BY <1>3 DEF Core
<1>7. /\ shrunk[node] = w.rest[node] \ {neighbor} /\ DOMAIN shrunk = DOMAIN w.index
      /\ \A x \in DOMAIN w.index : x # node => shrunk[x] = w.rest[x]
      /\ shrunk = [x \in DOMAIN w.index |-> shrunk[x]]
  BY <1>5, <1>6
<1>8. PICK e \in edges : e[1] = node /\ e[2] = neighbor
  <2>1. neighbor \in Neighbors(edges, node)
    BY <1>1, <1>5, <1>6
  <2> QED BY <2>1 DEF Neighbors
<1>9. neighbor \in Nodes(edges) /\ neighbor \in Neighbors(edges, node)
  BY <1>8 DEF Nodes, Neighbors
<1>10. e \notin Seen(edges, w)
  BY <1>1, <1>8 DEF Seen
<1>11. CASE neighbor \in DOMAIN w.index
  <2>1. w1 = MeetVisited(looking, node, neighbor)
    BY <1>2, <1>11
  <2>2. w1.index = w.index /\ w1.calls = w.calls /\ w1.rest = shrunk
    BY <2>1, <1>4 DEF MeetVisited, Lowered
  <2>3. SearchInv(edges, w1)
    <3>1. CASE neighbor \in Members(w.stack)
      <4> DEFINE L1 == [w.lowlink EXCEPT ![node] = Lower(@, w.index[neighbor])]
      <4>1. w1 = [index |-> w.index, lowlink |-> L1, rest |-> shrunk, counter |-> w.counter,
                  stack |-> w.stack, calls |-> w.calls, result |-> w.result]
        <5>1. \E i \in DOMAIN looking.stack : looking.stack[i] = neighbor
          BY <1>3, <1>4, <3>1 DEF Members
        <5>2. w1 = [looking EXCEPT !.lowlink[node] = Lower(@, looking.index[neighbor])]
          BY <2>1, <5>1 DEF MeetVisited, Lowered
        <5> QED BY <1>4, <5>2
      <4>2. neighbor \in ReachedFrom(edges, node)
        BY <1>5, <1>9, ReachedIs, EdgeReaches
      <4>3. /\ Core(edges, w.index, L1, w.rest, w.counter, Members(w.stack), Members(w.calls),
                    w.result)
            /\ L1[node] <= w.index[neighbor]
        BY <1>3, <1>5, <3>1, <4>2, CoreLowered
      <4> HIDE DEF L1
      <4>4. Core(edges, w.index, L1, shrunk, w.counter, Members(w.stack), Members(w.calls),
                 w.result)
        BY <1>5, <1>11, <4>3, CoreShrink
      <4> HIDE DEF shrunk
      <4> QED BY <1>3, <4>1, <4>4 DEF SearchInv
    <3>2. CASE neighbor \notin Members(w.stack)
      <4>1. w1 = [index |-> w.index, lowlink |-> w.lowlink, rest |-> shrunk, counter |-> w.counter,
                  stack |-> w.stack, calls |-> w.calls, result |-> w.result]
        <5>1. ~ \E i \in DOMAIN looking.stack : looking.stack[i] = neighbor
          BY <1>3, <1>4, <3>2 DEF Members
        <5> QED BY <1>4, <2>1, <5>1 DEF MeetVisited
      <4>2. Core(edges, w.index, w.lowlink, shrunk, w.counter, Members(w.stack),
                 Members(w.calls), w.result)
        BY <1>3, <1>5, <1>11, <3>2, CoreShrink
      <4> HIDE DEF shrunk
      <4> QED BY <1>3, <4>1, <4>2 DEF SearchInv
    <3> QED BY <3>1, <3>2
  <2> HIDE DEF shrunk
  <2>4. Seen(edges, w) \subseteq Seen(edges, w1)
    BY <1>7, <2>2 DEF Seen
  <2>5. e \in Seen(edges, w1)
    BY <1>5, <1>7, <1>8, <2>2 DEF Seen
  <2>6. DOMAIN w1.index = DOMAIN w.index /\ w1.calls = w.calls
    BY <2>2
  <2> QED BY <1>10, <2>3, <2>4, <2>5, <2>6 DEF w1
<1>12. CASE neighbor \notin DOMAIN w.index
  <2> DEFINE w2 == Enter(w, neighbor, edges)
             rest2 == [w2.rest EXCEPT ![node] = @ \ {neighbor}]
  <2>1. w1 = Enter(looking, neighbor, edges)
    BY <1>2, <1>12
  <2>2. w2 = [index |-> With(w.index, neighbor, w.counter),
              lowlink |-> With(w.lowlink, neighbor, w.counter),
              rest |-> With(w.rest, neighbor, Neighbors(edges, neighbor)),
              counter |-> w.counter + 1, stack |-> Append(w.stack, neighbor),
              calls |-> Append(w.calls, neighbor), result |-> w.result]
    BY DEF Enter
  <2>3. w1 = [index |-> With(w.index, neighbor, w.counter),
              lowlink |-> With(w.lowlink, neighbor, w.counter),
              rest |-> With(shrunk, neighbor, Neighbors(edges, neighbor)),
              counter |-> w.counter + 1, stack |-> Append(w.stack, neighbor),
              calls |-> Append(w.calls, neighbor), result |-> w.result]
    BY <1>4, <2>1 DEF Enter
  <2>4. SearchInv(edges, w2)
    BY <1>9, <1>12, EnterKeeps
  <2> HIDE DEF w2
  <2>5. With(shrunk, neighbor, Neighbors(edges, neighbor)) = rest2
    <3>1. node # neighbor
      BY <1>5, <1>12
    <3>2. w2.rest = With(w.rest, neighbor, Neighbors(edges, neighbor))
      BY <2>2
    <3>3. w2.rest = [x \in DOMAIN w.index \cup {neighbor} |->
                        IF x = neighbor THEN Neighbors(edges, neighbor) ELSE w.rest[x]]
      BY <1>6, <3>2 DEF With
    <3>4. rest2 = [x \in DOMAIN w.index \cup {neighbor} |->
                      IF x = neighbor THEN Neighbors(edges, neighbor) ELSE shrunk[x]]
      BY <1>5, <1>7, <3>1, <3>3
    <3> HIDE DEF rest2, shrunk
    <3> QED BY <1>7, <3>4 DEF With
  <2>6. w1 = [index |-> w2.index, lowlink |-> w2.lowlink, rest |-> rest2, counter |-> w2.counter,
              stack |-> w2.stack, calls |-> w2.calls, result |-> w2.result]
    <3> HIDE DEF rest2, shrunk
    <3> QED BY <2>2, <2>3, <2>5
  <2>7. /\ w2.stack \in Seq(Nodes(edges)) /\ w2.calls \in Seq(Nodes(edges))
        /\ Rising(w2.index, w2.stack) /\ Rising(w2.index, w2.calls)
        /\ Core(edges, w2.index, w2.lowlink, w2.rest, w2.counter, Members(w2.stack),
                Members(w2.calls), w2.result)
    BY <2>4 DEF SearchInv
  <2>8. Members(w2.calls) = Members(w.calls) \cup {neighbor}
    BY <1>3, <2>2, MembersAppend
  <2>9. /\ w2.lowlink[node] = w.lowlink[node] /\ w2.index[neighbor] = w.counter
        /\ neighbor \in DOMAIN w2.index
    BY <1>5, <1>6, <1>12, <2>2 DEF With
  <2>10. Core(edges, w2.index, w2.lowlink, rest2, w2.counter, Members(w2.stack),
              Members(w2.calls), w2.result)
    <3>1. w2.lowlink[node] <= w2.index[neighbor]
      <4>1. /\ w.lowlink[node] \in Nat /\ w.index[node] \in Nat /\ w.counter \in Nat
            /\ w.lowlink[node] <= w.index[node] /\ w.index[node] < w.counter
        BY <1>5, <1>6
      <4> QED BY <2>9, <4>1
    <3>2. node \in Members(w2.calls)
      BY <1>5, <2>8
    <3> QED BY <2>7, <2>9, <3>1, <3>2, CoreShrink
  <2>11. /\ DOMAIN w2.index = DOMAIN w.index \cup {neighbor}
         /\ Len(w2.calls) = Len(w.calls) + 1
         /\ Seen(edges, w) \subseteq Seen(edges, w2)
    BY <1>9, <1>12, EnterSees DEF w2
  <2>12. /\ DOMAIN w2.rest = DOMAIN w2.index /\ rest2[node] = w2.rest[node] \ {neighbor}
         /\ \A x \in DOMAIN w2.index : x # node => rest2[x] = w2.rest[x]
    <3>1. w2.rest = [x \in DOMAIN w2.index |-> w2.rest[x]]
      BY <2>7 DEF Core
    <3> QED BY <1>5, <2>11, <3>1
  <2> HIDE DEF rest2
  <2>13. SearchInv(edges, w1)
    BY <2>6, <2>7, <2>10 DEF SearchInv
  <2>14. w1.index = w2.index /\ w1.rest = rest2 /\ w1.calls = w2.calls
    BY <2>6
  <2>15. Seen(edges, w2) \subseteq Seen(edges, w1)
    BY <2>12, <2>14 DEF Seen
  <2>16. e \in Seen(edges, w1)
    BY <1>5, <1>8, <2>11, <2>12, <2>14 DEF Seen
  <2>17. /\ DOMAIN w1.index = DOMAIN w.index \cup {neighbor}
         /\ Len(w1.calls) = Len(w.calls) + 1
         /\ neighbor \in Nodes(edges) \ DOMAIN w.index
    BY <1>9, <1>12, <2>11, <2>14
  <2> QED BY <1>10, <2>11, <2>13, <2>15, <2>16, <2>17 DEF w1
<1> QED BY <1>11, <1>12

(* The calls below the last one.                                            *)
LEMMA CallersAre ==
    ASSUME NEW edges, NEW w, SearchInv(edges, w), w.calls # <<>>
    PROVE  LET node == w.calls[Len(w.calls)]
               callers == SubSeq(w.calls, 1, Len(w.calls) - 1)
               caller == callers[Len(callers)]
           IN  /\ callers \in Seq(Nodes(edges)) /\ Len(callers) = Len(w.calls) - 1
               /\ Rising(w.index, callers) /\ Members(callers) = Members(w.calls) \ {node}
               /\ callers # <<>> =>
                      /\ caller \in Members(callers) /\ w.index[caller] < w.index[node]
                      /\ \A g \in Members(callers) : w.index[g] <= w.index[caller]
<1> DEFINE last == Len(w.calls)
           node == w.calls[last]
           callers == SubSeq(w.calls, 1, last - 1)
           caller == callers[Len(callers)]
<1>1. w.calls \in Seq(Nodes(edges)) /\ Rising(w.index, w.calls)
  BY DEF SearchInv
<1>2. /\ last \in Nat \ {0} /\ \A x \in Members(w.calls) : w.index[x] \in Nat
  BY NewestCall DEF SearchInv, Core
<1>3. /\ callers \in Seq(Nodes(edges)) /\ Len(callers) = last - 1
      /\ \A i \in 1..(last - 1) : callers[i] = w.calls[i]
      /\ Members(callers) = {w.calls[i] : i \in 1..(last - 1)}
  <2>1. last - 1 \in 0..Len(w.calls)
    BY <1>2
  <2> QED BY <1>1, <2>1, MembersFront
<1>4. Rising(w.index, callers)
  <2>1. last - 1 \in 0..Len(w.calls)
    BY <1>2
  <2> QED BY <1>1, <2>1, RisingFront
<1> HIDE DEF callers
<1>5. \A i \in 1..(last - 1) : /\ i \in 1..last /\ w.calls[i] \in Members(w.calls)
                               /\ w.index[w.calls[i]] < w.index[node]
  <2> SUFFICES ASSUME NEW i \in 1..(last - 1)
               PROVE  /\ i \in 1..last /\ w.calls[i] \in Members(w.calls)
                      /\ w.index[w.calls[i]] < w.index[node]
    OBVIOUS
  <2>1. i \in 1..last /\ last \in 1..last /\ i < last
    BY <1>2
  <2> QED BY <1>1, <2>1 DEF Rising, Members
<1>6. Members(callers) = Members(w.calls) \ {node}
  <2>1. ASSUME NEW x \in Members(callers) PROVE x \in Members(w.calls) /\ x # node
    <3>1. PICK i \in 1..(last - 1) : x = w.calls[i]
      BY <1>3, <2>1
    <3>2. x \in Members(w.calls) /\ w.index[x] < w.index[node]
      BY <1>5, <3>1
    <3>3. w.index[x] \in Nat
      BY <1>2, <3>2
    <3> QED BY <3>2, <3>3
  <2>2. ASSUME NEW x \in Members(w.calls), x # node PROVE x \in Members(callers)
    <3>1. PICK i \in 1..last : x = w.calls[i]
      BY DEF Members
    <3>2. i # last
      BY <2>2, <3>1
    <3>3. i \in 1..(last - 1)
      BY <1>2, <3>2
    <3> QED BY <1>3, <3>1, <3>3
  <2> QED BY <2>1, <2>2
<1>7. ASSUME callers # <<>>
      PROVE  /\ caller \in Members(callers) /\ w.index[caller] < w.index[node]
             /\ \A g \in Members(callers) : w.index[g] <= w.index[caller]
  <2>1. Len(callers) \in Nat \ {0} /\ Len(callers) \in 1..(last - 1)
    <3>1. callers \in Seq(Nodes(edges))
      BY <1>3
    <3>2. Len(callers) \in Nat \ {0}
      BY <1>7, <3>1
    <3>3. Len(callers) = last - 1 /\ last \in Nat
      BY <1>2, <1>3
    <3> HIDE DEF last
    <3> QED BY <3>2, <3>3
  <2>2. caller = w.calls[last - 1] /\ caller \in Members(callers)
    BY <1>3, <2>1
  <2>3. w.index[caller] < w.index[node]
    BY <1>3, <1>5, <2>1, <2>2
  <2>4. ASSUME NEW g \in Members(callers) PROVE w.index[g] <= w.index[caller]
    <3>1. PICK i \in 1..(last - 1) : g = w.calls[i]
      BY <1>3
    <3>2. CASE i = last - 1
      <4>1. g = caller /\ w.index[g] \in Nat
        BY <1>2, <1>6, <2>2, <3>1, <3>2
      <4> QED BY <4>1
    <3>3. CASE i # last - 1
      <4>1. i \in 1..last /\ last - 1 \in 1..last /\ i < last - 1
        BY <1>2, <3>1, <3>3
      <4>2. w.index[g] < w.index[caller]
        BY <1>1, <2>2, <3>1, <4>1 DEF Rising
      <4>3. w.index[g] \in Nat /\ w.index[caller] \in Nat
        BY <1>2, <1>6, <2>2
      <4> QED BY <4>2, <4>3
    <3> QED BY <3>2, <3>3
  <2> QED BY <2>2, <2>3, <2>4
<1>8. /\ callers \in Seq(Nodes(edges)) /\ Len(callers) = Len(w.calls) - 1
      /\ Rising(w.index, callers) /\ Members(callers) = Members(w.calls) \ {node}
      /\ callers # <<>> => /\ caller \in Members(callers) /\ w.index[caller] < w.index[node]
                           /\ \A g \in Members(callers) : w.index[g] <= w.index[caller]
  BY <1>3, <1>4, <1>6, <1>7
<1> QED BY <1>8 DEF callers

(* What the stack is cut into at a node.                                    *)
LEMMA StackCut ==
    ASSUME NEW S, NEW q \in Seq(S), NEW I, Rising(I, q), NEW root \in 1..Len(q),
           \A x \in Members(q) : I[x] \in Nat
    PROVE  LET above == {q[i] : i \in root..Len(q)}
           IN  /\ above = {x \in Members(q) : I[q[root]] <= I[x]}
               /\ Members(SubSeq(q, 1, root - 1)) = Members(q) \ above
               /\ SubSeq(q, 1, root - 1) \in Seq(S) /\ Rising(I, SubSeq(q, 1, root - 1))
<1> DEFINE above == {q[i] : i \in root..Len(q)}
<1>1. root - 1 \in 0..Len(q) /\ Len(q) \in Nat /\ root \in Nat
  OBVIOUS
<1>2. \A i \in 1..Len(q) : q[i] \in Members(q) /\ I[q[i]] \in Nat
  BY DEF Members
<1>3. \A i \in 1..Len(q) : i < root => I[q[i]] < I[q[root]]
  BY DEF Rising
<1>4. \A i \in root..Len(q) : i \in 1..Len(q) /\ I[q[root]] <= I[q[i]]
  <2> SUFFICES ASSUME NEW i \in root..Len(q) PROVE i \in 1..Len(q) /\ I[q[root]] <= I[q[i]]
    OBVIOUS
  <2>1. i \in 1..Len(q) /\ (i = root \/ root < i)
    BY <1>1
  <2>2. root < i => I[q[root]] < I[q[i]]
    BY <2>1 DEF Rising
  <2>3. I[q[root]] \in Nat /\ I[q[i]] \in Nat
    BY <1>2, <2>1
  <2> QED BY <2>1, <2>2, <2>3
<1>5. \A x \in above : x \in Members(q) /\ I[q[root]] <= I[x]
  BY <1>2, <1>4
<1>6. ASSUME NEW x \in Members(q), I[q[root]] <= I[x] PROVE x \in above
  <2>1. PICK i \in 1..Len(q) : x = q[i]
    BY DEF Members
  <2>2. ~(i < root)
    <3>1. I[q[root]] \in Nat /\ I[q[i]] \in Nat
      BY <1>2
    <3> QED BY <1>3, <1>6, <2>1, <3>1
  <2>3. i \in root..Len(q)
    BY <1>1, <2>2
  <2> QED BY <2>1, <2>3
<1>7. /\ Members(SubSeq(q, 1, root - 1)) = {q[i] : i \in 1..(root - 1)}
      /\ SubSeq(q, 1, root - 1) \in Seq(S)
  BY <1>1, MembersFront
<1>8. \A i \in 1..(root - 1) : q[i] \in Members(q) /\ q[i] \notin above
  <2> SUFFICES ASSUME NEW i \in 1..(root - 1) PROVE q[i] \in Members(q) /\ q[i] \notin above
    OBVIOUS
  <2>1. i \in 1..Len(q) /\ i < root
    BY <1>1
  <2>2. I[q[i]] < I[q[root]] /\ I[q[i]] \in Nat /\ I[q[root]] \in Nat
    BY <1>2, <1>3, <2>1
  <2>3. ~(I[q[root]] <= I[q[i]])
    BY <2>2
  <2> HIDE DEF above
  <2> QED BY <1>2, <1>5, <2>1, <2>3
<1>9. \A x \in Members(q) \ above : \E i \in 1..(root - 1) : x = q[i]
  <2> SUFFICES ASSUME NEW x \in Members(q), x \notin above
               PROVE  \E i \in 1..(root - 1) : x = q[i]
    OBVIOUS
  <2>1. PICK i \in 1..Len(q) : x = q[i]
    BY DEF Members
  <2>2. i \notin root..Len(q)
    BY <2>1
  <2>3. i \in 1..(root - 1)
    BY <1>1, <2>2
  <2> QED BY <2>1, <2>3
<1>10. Members(SubSeq(q, 1, root - 1)) = Members(q) \ above
  <2> HIDE DEF above
  <2> QED BY <1>7, <1>8, <1>9
<1>11. above = {x \in Members(q) : I[q[root]] <= I[x]}
  <2> HIDE DEF above
  <2> QED BY <1>5, <1>6
<1>12. Rising(I, SubSeq(q, 1, root - 1))
  BY <1>1, RisingFront
<1> QED BY <1>7, <1>10, <1>11, <1>12

LEMMA ReturnKeeps ==
    ASSUME NEW edges, NEW w, SearchInv(edges, w), w.calls # <<>>,
           NEW node, node = w.calls[Len(w.calls)], w.rest[node] = {}
    PROVE  LET w1 == Return(w, node)
           IN  /\ SearchInv(edges, w1)
               /\ w1.index = w.index /\ Len(w1.calls) = Len(w.calls) - 1
               /\ Seen(edges, w1) = Seen(edges, w)
<1> DEFINE callers == SubSeq(w.calls, 1, Len(w.calls) - 1)
           caller == callers[Len(callers)]
           closed == IF w.lowlink[node] = w.index[node] THEN CloseComponent(w, node) ELSE w
           returned == [closed EXCEPT !.calls = callers]
           w1 == Return(w, node)
<1>1. w1 = IF callers = <<>> THEN returned ELSE Lowered(returned, caller, w.lowlink[node])
  BY DEF Return
<1> HIDE DEF w1
<1>2. /\ w = [index |-> w.index, lowlink |-> w.lowlink, rest |-> w.rest, counter |-> w.counter,
              stack |-> w.stack, calls |-> w.calls, result |-> w.result]
      /\ w.stack \in Seq(Nodes(edges)) /\ w.calls \in Seq(Nodes(edges))
      /\ Rising(w.index, w.stack) /\ Rising(w.index, w.calls)
      /\ Core(edges, w.index, w.lowlink, w.rest, w.counter, Members(w.stack), Members(w.calls),
              w.result)
  BY DEF SearchInv
<1>3. /\ node \in Members(w.calls) /\ node \in DOMAIN w.index /\ node \in Nodes(edges)
      /\ Members(w.calls) \subseteq Members(w.stack) /\ Members(w.stack) \subseteq DOMAIN w.index
      /\ \A g \in Members(w.calls) : w.index[g] <= w.index[node]
  BY NewestCall
<1>4. /\ \A x \in DOMAIN w.index : /\ w.index[x] \in Nat
                                   /\ w.lowlink[x] \in Nat /\ w.lowlink[x] <= w.index[x]
      /\ w.lowlink = [x \in DOMAIN w.index |-> w.lowlink[x]]
      /\ DOMAIN w.index \subseteq Nodes(edges)
  BY <1>2 DEF Core
<1>5. /\ callers \in Seq(Nodes(edges)) /\ Len(callers) = Len(w.calls) - 1
      /\ Rising(w.index, callers) /\ Members(callers) = Members(w.calls) \ {node}
      /\ callers # <<>> => /\ caller \in Members(callers) /\ w.index[caller] < w.index[node]
                           /\ \A g \in Members(callers) : w.index[g] <= w.index[caller]
  BY CallersAre
<1> HIDE DEF callers, caller
<1>8. /\ w.index[node] \in Nat /\ w.lowlink[node] \in Nat /\ w.lowlink[node] <= w.index[node]
      /\ \A x \in Members(w.stack) : w.index[x] \in Nat
      /\ \A x \in Members(w.calls) : /\ w.index[x] \in Nat /\ w.lowlink[x] \in Nat
                                     /\ w.lowlink[x] <= w.index[x]
  BY <1>3, <1>4
<1>6. CASE w.lowlink[node] = w.index[node]
  <2> DEFINE root == CHOOSE i \in DOMAIN w.stack : w.stack[i] = node
             below == SubSeq(w.stack, 1, root - 1)
             component == {w.stack[i] : i \in root..Len(w.stack)}
  <2>1. root \in 1..Len(w.stack) /\ w.stack[root] = node
    <3>1. DOMAIN w.stack = 1..Len(w.stack)
      BY <1>2
    <3>2. \E i \in DOMAIN w.stack : w.stack[i] = node
      BY <1>3, <3>1 DEF Members
    <3>3. root \in DOMAIN w.stack /\ w.stack[root] = node
      BY <3>2
    <3> QED BY <3>1, <3>3
  <2>2. closed = [index |-> w.index, lowlink |-> w.lowlink, rest |-> w.rest,
                  counter |-> w.counter, stack |-> below, calls |-> w.calls,
                  result |-> w.result \cup {component}]
    <3>1. closed = [w EXCEPT !.stack = below, !.result = w.result \cup {component}]
      BY <1>6 DEF CloseComponent
    <3> HIDE DEF closed, below, component
    <3> QED BY <1>2, <3>1
  <2> HIDE DEF closed, root
  <2>3. returned = [index |-> w.index, lowlink |-> w.lowlink, rest |-> w.rest,
                    counter |-> w.counter, stack |-> below, calls |-> callers,
                    result |-> w.result \cup {component}]
    <3>1. returned = [closed EXCEPT !.calls = callers]
      OBVIOUS
    <3> HIDE DEF below, component, returned
    <3> QED BY <2>2, <3>1
  <2> HIDE DEF returned
  <2>4. w1 = returned
    <3>1. CASE callers = <<>>
      BY <1>1, <3>1
    <3>2. CASE callers # <<>>
      <4>1. caller \in DOMAIN w.index /\ w.index[caller] < w.index[node]
        BY <1>3, <1>5, <3>2
      <4>2. w.lowlink[caller] < w.lowlink[node] /\ w.lowlink[caller] \in Nat
        <5>1. caller \in Members(w.calls)
          BY <1>5, <3>2
        <5>2. /\ w.lowlink[caller] \in Nat /\ w.index[caller] \in Nat
              /\ w.lowlink[caller] <= w.index[caller]
          BY <1>8, <5>1
        <5> QED BY <1>6, <1>8, <4>1, <5>2
      <4>3. Lower(w.lowlink[caller], w.lowlink[node]) = w.lowlink[caller]
        BY <1>8, <4>2 DEF Lower
      <4>4. w1 = [returned EXCEPT !.lowlink[caller] = Lower(@, w.lowlink[node])]
        BY <1>1, <3>2 DEF Lowered
      <4>5. [w.lowlink EXCEPT ![caller] = Lower(@, w.lowlink[node])] = w.lowlink
        BY <1>4, <4>1, <4>3
      <4>6. w1 = [returned EXCEPT !.lowlink = [w.lowlink EXCEPT ![caller] = Lower(@, w.lowlink[node])]]
        BY <2>3, <4>4
      <4> HIDE DEF below, component
      <4>7. w1 = [returned EXCEPT !.lowlink = w.lowlink]
        BY <4>5, <4>6
      <4>8. returned.lowlink = w.lowlink
        BY <2>3
      <4> QED BY <2>3, <4>7, <4>8
    <3> QED BY <3>1, <3>2
  <2>5. \A x \in Members(w.stack) : w.index[x] \in Nat
    BY <1>3, <1>4
  <2>6. /\ component = {x \in Members(w.stack) : w.index[node] <= w.index[x]}
        /\ Members(below) = Members(w.stack) \ component
        /\ below \in Seq(Nodes(edges)) /\ Rising(w.index, below)
    <3>1. /\ component = {x \in Members(w.stack) : w.index[w.stack[root]] <= w.index[x]}
          /\ Members(below) = Members(w.stack) \ component
          /\ below \in Seq(Nodes(edges)) /\ Rising(w.index, below)
      BY <1>2, <2>1, <2>5, StackCut
    <3> QED BY <2>1, <3>1
  <2> HIDE DEF below, component
  <2>7. Core(edges, w.index, w.lowlink, w.rest, w.counter, Members(w.stack) \ component,
             Members(w.calls) \ {node}, w.result \cup {component})
    <3>1. Core(edges, w.index, w.lowlink, w.rest, w.counter, Members(w.stack), Members(w.calls),
               w.result)
      BY <1>2
    <3>2. \A g \in Members(w.calls) : w.index[g] <= w.index[node]
      BY <1>3
    <3>3. component = {x \in Members(w.stack) : w.index[node] <= w.index[x]}
      BY <2>6
    <3> QED BY <1>3, <1>6, <3>1, <3>2, <3>3, CoreClose
  <2>8. SearchInv(edges, w1)
    BY <1>5, <2>3, <2>4, <2>6, <2>7 DEF SearchInv
  <2>9. w1.index = w.index /\ w1.rest = w.rest /\ w1.calls = callers
    BY <2>3, <2>4
  <2>10. Seen(edges, w1) = Seen(edges, w)
    BY <2>9 DEF Seen
  <2> QED BY <1>5, <2>8, <2>9, <2>10 DEF w1
<1>7. CASE w.lowlink[node] # w.index[node]
  <2> DEFINE L1 == [w.lowlink EXCEPT ![caller] = Lower(@, w.lowlink[node])]
  <2>1. w.lowlink[node] < w.index[node]
    BY <1>7, <1>8
  <2>2. /\ \A x \in Members(w.stack) :
               \E y \in Members(w.stack) : w.index[y] = w.lowlink[x] /\ y \in ReachedFrom(edges, x)
        /\ \A x \in Members(w.stack) \ Members(w.calls) :
               \E g \in Members(w.calls) : w.index[g] < w.index[x]
        /\ \A g \in Members(w.calls), x \in Members(w.stack) :
               w.index[g] <= w.index[x] => x \in ReachedFrom(edges, g)
    BY <1>2 DEF Core
  <2>3. PICK y \in Members(w.stack) : w.index[y] = w.lowlink[node] /\ y \in ReachedFrom(edges, node)
    BY <1>3, <2>2
  <2>4. callers # <<>>
    <3>1. \E g \in Members(w.calls) : w.index[g] < w.index[node]
      <4>1. CASE y \in Members(w.calls)
        BY <2>1, <2>3, <4>1
      <4>2. CASE y \notin Members(w.calls)
        <5>1. PICK g \in Members(w.calls) : w.index[g] < w.index[y]
          BY <2>2, <4>2
        <5>2. w.index[g] \in Nat /\ w.index[y] \in Nat /\ w.index[node] \in Nat
          BY <1>3, <1>4
        <5> QED BY <2>1, <2>3, <5>1, <5>2
      <4> QED BY <4>1, <4>2
    <3>2. PICK g \in Members(w.calls) : w.index[g] < w.index[node]
      BY <3>1
    <3>3. g # node
      BY <1>8, <3>2
    <3>4. g \in Members(callers)
      BY <1>5, <3>2, <3>3
    <3> QED BY <3>4 DEF Members
  <2>5. caller \in Members(w.calls) \ {node} /\ w.index[caller] < w.index[node]
    BY <1>5, <2>4
  <2>6. returned = [index |-> w.index, lowlink |-> w.lowlink, rest |-> w.rest,
                    counter |-> w.counter, stack |-> w.stack, calls |-> callers,
                    result |-> w.result]
    BY <1>2, <1>7
  <2> HIDE DEF closed, returned
  <2>7. w1 = [index |-> w.index, lowlink |-> L1, rest |-> w.rest, counter |-> w.counter,
              stack |-> w.stack, calls |-> callers, result |-> w.result]
    <3>1. w1 = [returned EXCEPT !.lowlink[caller] = Lower(@, w.lowlink[node])]
      BY <1>1, <2>4 DEF Lowered
    <3>2. w1 = [returned EXCEPT !.lowlink = L1]
      BY <2>6, <3>1
    <3> HIDE DEF L1
    <3> QED BY <2>6, <3>2
  <2>8. y \in ReachedFrom(edges, caller)
    <3>1. node \in ReachedFrom(edges, caller)
      <4>1. w.index[caller] <= w.index[node]
        BY <1>3, <1>4, <2>5
      <4> QED BY <1>3, <2>2, <2>5, <4>1
    <3>2. caller \in Nodes(edges)
      BY <1>3, <1>4, <2>5
    <3> QED BY <2>3, <3>1, <3>2, ReachTransitive
  <2>9. /\ Core(edges, w.index, L1, w.rest, w.counter, Members(w.stack), Members(w.calls),
                w.result)
        /\ L1[caller] <= w.lowlink[node]
    BY <1>2, <2>3, <2>5, <2>8, CoreLowered
  <2>10. L1[node] = w.lowlink[node]
    BY <1>3, <1>4, <2>5
  <2> HIDE DEF L1
  <2>11. Core(edges, w.index, L1, w.rest, w.counter, Members(w.stack), Members(callers),
              w.result)
    <3>1. L1[node] < w.index[node] /\ L1[caller] <= L1[node]
      BY <2>1, <2>9, <2>10
    <3>2. \A g \in Members(w.calls) \ {node} : w.index[g] <= w.index[caller]
      BY <1>5, <2>4
    <3>3. Core(edges, w.index, L1, w.rest, w.counter, Members(w.stack), Members(w.calls) \ {node},
               w.result)
      BY <1>3, <2>5, <2>9, <3>1, <3>2, CorePop
    <3> QED BY <1>5, <3>3
  <2>12. SearchInv(edges, w1)
    BY <1>2, <1>5, <2>7, <2>11 DEF SearchInv
  <2>13. w1.index = w.index /\ w1.rest = w.rest /\ w1.calls = callers
    BY <2>7
  <2>14. Seen(edges, w1) = Seen(edges, w)
    BY <2>13 DEF Seen
  <2> QED BY <1>5, <2>12, <2>13, <2>14 DEF w1
<1> QED BY <1>6, <1>7

LEMMA NodesFinite ==
    ASSUME NEW edges, IsFiniteSet(edges)
    PROVE  IsFiniteSet(Nodes(edges))
<1> DEFINE from == {e[1] : e \in edges}
           to == {e[2] : e \in edges}
<1>1. [e \in edges |-> e[1]] \in Surjection(edges, from) /\ [e \in edges |-> e[2]] \in Surjection(edges, to)
  BY DEF Surjection
<1> HIDE DEF from, to
<1>2. IsFiniteSet(from) /\ IsFiniteSet(to)
  BY <1>1, FS_Surjection
<1>3. IsFiniteSet(from \cup to)
  BY <1>2, FS_Union
<1> QED BY <1>3 DEF Nodes, from, to

(* A round enters a node, leaves one or looks at an edge.                   *)
Steps(edges, w) == 2 * Cardinality(DOMAIN w.index) - Len(w.calls) + Cardinality(Seen(edges, w))

Searched(edges, w) == w.calls = <<>> /\ Nodes(edges) \subseteq DOMAIN w.index

LEMMA StepsAre ==
    ASSUME NEW edges, IsFiniteSet(edges), NEW w, SearchInv(edges, w)
    PROVE  /\ IsFiniteSet(DOMAIN w.index) /\ DOMAIN w.index \subseteq Nodes(edges)
           /\ Cardinality(DOMAIN w.index) \in Nat
           /\ Cardinality(DOMAIN w.index) <= Cardinality(Nodes(edges))
           /\ IsFiniteSet(Seen(edges, w)) /\ Cardinality(Seen(edges, w)) \in Nat
           /\ Cardinality(Seen(edges, w)) <= Cardinality(edges)
           /\ Len(w.calls) \in Nat /\ Steps(edges, w) \in Int
<1>1. DOMAIN w.index \subseteq Nodes(edges) /\ IsFiniteSet(Nodes(edges))
  BY NodesFinite DEF SearchInv, Core
<1>2. /\ IsFiniteSet(DOMAIN w.index) /\ Cardinality(DOMAIN w.index) \in Nat
      /\ Cardinality(DOMAIN w.index) <= Cardinality(Nodes(edges))
  BY <1>1, FS_Subset, FS_CardinalityType
<1>3. Seen(edges, w) \subseteq edges
  BY DEF Seen
<1>4. /\ IsFiniteSet(Seen(edges, w)) /\ Cardinality(Seen(edges, w)) \in Nat
      /\ Cardinality(Seen(edges, w)) <= Cardinality(edges)
  BY <1>3, FS_Subset, FS_CardinalityType
<1>5. Len(w.calls) \in Nat
  BY DEF SearchInv
<1> QED BY <1>1, <1>2, <1>4, <1>5 DEF Steps

LEMMA RoundKeepsSearch ==
    ASSUME NEW edges, IsFiniteSet(edges), NEW w, SearchInv(edges, w)
    PROVE  LET w1 == ConnectRound(w, edges)
           IN  /\ SearchInv(edges, w1)
               /\ Searched(edges, w1) \/ Steps(edges, w) + 1 <= Steps(edges, w1)
<1> DEFINE w1 == ConnectRound(w, edges)
           node == w.calls[Len(w.calls)]
           unvisited == Nodes(edges) \ DOMAIN w.index
           entered == CHOOSE n \in unvisited : TRUE
<1>1. w1 = IF w.calls # <<>>
           THEN IF w.rest[node] # {} THEN LookAtNeighbor(w, node, edges) ELSE Return(w, node)
           ELSE IF unvisited # {} THEN Enter(w, entered, edges) ELSE w
  BY DEF ConnectRound
<1> HIDE DEF w1
<1>2. /\ IsFiniteSet(DOMAIN w.index) /\ Cardinality(DOMAIN w.index) \in Nat
      /\ IsFiniteSet(Seen(edges, w)) /\ Cardinality(Seen(edges, w)) \in Nat
      /\ Len(w.calls) \in Nat
  BY StepsAre
<1>3. ASSUME SearchInv(edges, w1), NEW v, v \notin DOMAIN w.index,
             DOMAIN w1.index = DOMAIN w.index \cup {v}, Len(w1.calls) = Len(w.calls) + 1,
             Seen(edges, w) \subseteq Seen(edges, w1)
      PROVE  Steps(edges, w) + 1 <= Steps(edges, w1)
  <2>1. Cardinality(DOMAIN w1.index) = Cardinality(DOMAIN w.index) + 1
    BY <1>2, <1>3, FS_AddElement
  <2>2. /\ IsFiniteSet(Seen(edges, w1)) /\ Cardinality(Seen(edges, w1)) \in Nat
        /\ Cardinality(Seen(edges, w)) <= Cardinality(Seen(edges, w1))
    BY <1>3, StepsAre, FS_Subset
  <2> QED BY <1>2, <1>3, <2>1, <2>2 DEF Steps
<1>4. CASE w.calls # <<>> /\ w.rest[node] # {}
  <2>1. w1 = LookAtNeighbor(w, node, edges)
    BY <1>1, <1>4
  <2>2. /\ SearchInv(edges, w1)
        /\ \/ DOMAIN w1.index = DOMAIN w.index /\ w1.calls = w.calls
           \/ \E v \in Nodes(edges) \ DOMAIN w.index :
                  /\ DOMAIN w1.index = DOMAIN w.index \cup {v}
                  /\ Len(w1.calls) = Len(w.calls) + 1
        /\ Seen(edges, w) \subseteq Seen(edges, w1)
        /\ \E e \in Seen(edges, w1) : e \notin Seen(edges, w)
    BY <1>4, <2>1, LookKeeps
  <2>3. CASE DOMAIN w1.index = DOMAIN w.index /\ w1.calls = w.calls
    <3>1. Seen(edges, w) # Seen(edges, w1)
      BY <2>2
    <3>2. IsFiniteSet(Seen(edges, w1)) /\ Cardinality(Seen(edges, w1)) \in Nat
      BY <2>2, StepsAre
    <3>3. Cardinality(Seen(edges, w)) < Cardinality(Seen(edges, w1))
      <4>1. Seen(edges, w) \in SUBSET Seen(edges, w1)
        BY <2>2
      <4>2. /\ Cardinality(Seen(edges, w)) <= Cardinality(Seen(edges, w1))
            /\ Cardinality(Seen(edges, w)) # Cardinality(Seen(edges, w1))
        BY <3>1, <3>2, <4>1, FS_Subset
      <4> QED BY <1>2, <3>2, <4>2
    <3>4. Steps(edges, w) + 1 <= Steps(edges, w1)
      BY <1>2, <2>3, <3>2, <3>3 DEF Steps
    <3> QED BY <2>2, <3>4 DEF w1
  <2>4. CASE \E v \in Nodes(edges) \ DOMAIN w.index :
                 /\ DOMAIN w1.index = DOMAIN w.index \cup {v}
                 /\ Len(w1.calls) = Len(w.calls) + 1
    <3>1. Steps(edges, w) + 1 <= Steps(edges, w1)
      BY <1>3, <2>2, <2>4
    <3> QED BY <2>2, <3>1 DEF w1
  <2> QED BY <2>2, <2>3, <2>4
<1>5. CASE w.calls # <<>> /\ w.rest[node] = {}
  <2>1. w1 = Return(w, node)
    BY <1>1, <1>5
  <2>2. /\ SearchInv(edges, w1)
        /\ w1.index = w.index /\ Len(w1.calls) = Len(w.calls) - 1
        /\ Seen(edges, w1) = Seen(edges, w)
    BY <1>5, <2>1, ReturnKeeps
  <2>3. Steps(edges, w) + 1 <= Steps(edges, w1)
    BY <1>2, <2>2 DEF Steps
  <2> QED BY <2>2, <2>3 DEF w1
<1>6. CASE w.calls = <<>> /\ unvisited # {}
  <2>1. w1 = Enter(w, entered, edges) /\ entered \in unvisited
    BY <1>1, <1>6
  <2> HIDE DEF entered
  <2>2. SearchInv(edges, w1)
    BY <1>6, <2>1, EnterKeeps
  <2>3. /\ DOMAIN w1.index = DOMAIN w.index \cup {entered}
        /\ Len(w1.calls) = Len(w.calls) + 1
        /\ Seen(edges, w) \subseteq Seen(edges, w1)
    BY <2>1, EnterSees
  <2>4. Steps(edges, w) + 1 <= Steps(edges, w1)
    BY <1>3, <2>1, <2>2, <2>3
  <2> QED BY <2>2, <2>4 DEF w1
<1>7. CASE w.calls = <<>> /\ unvisited = {}
  <2>1. w1 = w
    BY <1>1, <1>7
  <2>2. Searched(edges, w1)
    BY <1>7, <2>1 DEF Searched
  <2> QED BY <2>1, <2>2 DEF w1
<1> QED BY <1>4, <1>5, <1>6, <1>7

LEMMA SearchStarts ==
    ASSUME NEW edges, IsFiniteSet(edges)
    PROVE  SearchInv(edges, Unvisited) /\ 0 <= Steps(edges, Unvisited)
<1> DEFINE w == Unvisited
<1>1. /\ w.index = <<>> /\ w.lowlink = <<>> /\ w.rest = <<>> /\ w.counter = 0
      /\ w.stack = <<>> /\ w.calls = <<>> /\ w.result = {}
      /\ w = [index |-> w.index, lowlink |-> w.lowlink, rest |-> w.rest, counter |-> w.counter,
              stack |-> w.stack, calls |-> w.calls, result |-> w.result]
  BY DEF Unvisited
<1> HIDE DEF w
<1>2. DOMAIN <<>> = {}
  OBVIOUS
<1>3. <<>> = [x \in {} |-> <<>>[x]]
  OBVIOUS
<1>4. Members(<<>>) = {}
  BY DEF Members
<1>5. Core(edges, w.index, w.lowlink, w.rest, w.counter, {}, {}, w.result)
  BY <1>1, <1>2, <1>3 DEF Core
<1>6. <<>> \in Seq(Nodes(edges)) /\ Len(<<>>) = 0
  OBVIOUS
<1>7. Rising(w.index, <<>>)
  BY <1>6 DEF Rising
<1>8. SearchInv(edges, w)
  BY <1>1, <1>4, <1>5, <1>6, <1>7 DEF SearchInv
<1>9. 0 <= Steps(edges, w)
  <2>1. /\ Cardinality(DOMAIN w.index) \in Nat /\ Cardinality(Seen(edges, w)) \in Nat
        /\ Len(w.calls) = 0
    BY <1>1, <1>6, <1>8, StepsAre
  <2> QED BY <2>1 DEF Steps
<1> QED BY <1>8, <1>9 DEF w

IsSearch(edges, f, N) ==
    f = [n \in 0..N |-> IF n = 0 THEN Unvisited ELSE ConnectRound(f[n - 1], edges)]

(* The search can be run for any number of rounds.                          *)
LEMMA SearchExists ==
    ASSUME NEW edges, NEW N \in Nat
    PROVE  \E f : IsSearch(edges, f, N)
<1> DEFINE Bad == {n \in Nat : ~\E f : IsSearch(edges, f, n)}
<1>1. ASSUME Bad # {} PROVE FALSE
  <2>1. PICK n \in Bad : \A k \in Bad : n <= k
    <3>1. Bad \in SUBSET Nat
      OBVIOUS
    <3> HIDE DEF Bad
    <3> QED BY <1>1, <3>1, LeastNumber
  <2>2. n \in Nat /\ ~\E f : IsSearch(edges, f, n)
    BY <2>1
  <2>3. CASE n = 0
    <3> DEFINE f == [k \in 0..0 |-> Unvisited]
    <3>1. f = [k \in 0..n |-> IF k = 0 THEN Unvisited ELSE ConnectRound(f[k - 1], edges)]
      <4>1. \A k \in 0..0 : k = 0
        OBVIOUS
      <4> HIDE DEF f
      <4>2. f = [k \in 0..0 |-> Unvisited]
        BY DEF f
      <4> QED BY <2>3, <4>1, <4>2
    <3> HIDE DEF f
    <3> QED BY <2>2, <3>1 DEF IsSearch
  <2>4. CASE n # 0
    <3>1. n - 1 \in Nat /\ n - 1 \notin Bad
      BY <2>1, <2>2, <2>4
    <3>2. PICK g : IsSearch(edges, g, n - 1)
      BY <3>1
    <3> DEFINE f == [k \in 0..n |-> IF k = n THEN ConnectRound(g[n - 1], edges) ELSE g[k]]
    <3>3. DOMAIN f = 0..n /\ \A k \in 0..n : k # n => k \in 0..(n - 1) /\ f[k] = g[k]
      BY <2>2, <2>4
    <3>4. f[n] = ConnectRound(g[n - 1], edges) /\ n - 1 \in 0..(n - 1) /\ n - 1 \in 0..n /\ n - 1 # n
      BY <2>2, <2>4
    <3>5. f = [k \in 0..n |-> f[k]]
      OBVIOUS
    <3>6. \A k \in 0..(n - 1) : g[k] = IF k = 0 THEN Unvisited ELSE ConnectRound(g[k - 1], edges)
      <4>1. g = [k \in 0..(n - 1) |-> IF k = 0 THEN Unvisited ELSE ConnectRound(g[k - 1], edges)]
        BY <3>2 DEF IsSearch
      <4> QED BY <4>1
    <3> HIDE DEF f
    <3>7. ASSUME NEW k \in 0..n
          PROVE  f[k] = IF k = 0 THEN Unvisited ELSE ConnectRound(f[k - 1], edges)
      <4>1. CASE k = n
        BY <2>4, <3>3, <3>4, <4>1
      <4>2. CASE k # n
        <5>1. k \in 0..(n - 1) /\ f[k] = g[k]
          BY <3>3, <4>2
        <5>2. k # 0 => k - 1 \in 0..n /\ k - 1 # n
          BY <2>2, <4>2
        <5>3. k # 0 => f[k - 1] = g[k - 1]
          BY <3>3, <5>2
        <5> QED BY <3>6, <5>1, <5>3
      <4> QED BY <4>1, <4>2
    <3>8. f = [k \in 0..n |-> IF k = 0 THEN Unvisited ELSE ConnectRound(f[k - 1], edges)]
      BY <3>5, <3>7
    <3> QED BY <2>2, <3>8 DEF IsSearch
  <2> QED BY <2>3, <2>4
<1> QED BY <1>1

LEMMA SearchKeepsInv ==
    ASSUME NEW edges, IsFiniteSet(edges), NEW N \in Nat, NEW f, IsSearch(edges, f, N)
    PROVE  SearchInv(edges, f[N]) /\ (Searched(edges, f[N]) \/ N <= Steps(edges, f[N]))
<1> DEFINE Good(n) == SearchInv(edges, f[n]) /\ (Searched(edges, f[n]) \/ n <= Steps(edges, f[n]))
<1>1. \A n \in 0..N : f[n] = IF n = 0 THEN Unvisited ELSE ConnectRound(f[n - 1], edges)
  <2>1. f = [n \in 0..N |-> IF n = 0 THEN Unvisited ELSE ConnectRound(f[n - 1], edges)]
    BY DEF IsSearch
  <2> QED BY <2>1
<1> DEFINE Bad == {n \in 0..N : ~Good(n)}
<1>2. ASSUME Bad # {} PROVE FALSE
  <2>1. PICK n \in Bad : \A k \in Bad : n <= k
    <3>1. Bad \in SUBSET Nat
      OBVIOUS
    <3> HIDE DEF Bad
    <3> QED BY <1>2, <3>1, LeastNumber
  <2>2. n \in 0..N /\ ~Good(n)
    BY <2>1
  <2>3. n # 0
    <3>1. Good(0)
      BY <1>1, SearchStarts
    <3> HIDE DEF Good
    <3> QED BY <2>2, <3>1
  <2>4. n - 1 \in 0..N /\ n - 1 \in Nat /\ n - 1 \notin Bad /\ (n - 1) + 1 = n
    <3> HIDE DEF Good
    <3> QED BY <2>1, <2>2, <2>3
  <2>5. Good(n - 1)
    <3> HIDE DEF Good
    <3> QED BY <2>4
  <2>6. f[n] = ConnectRound(f[n - 1], edges)
    BY <1>1, <2>2, <2>3
  <2>7. /\ SearchInv(edges, f[n])
        /\ Searched(edges, f[n]) \/ Steps(edges, f[n - 1]) + 1 <= Steps(edges, f[n])
    BY <2>5, <2>6, RoundKeepsSearch
  <2>8. CASE Searched(edges, f[n - 1])
    <3>1. f[n] = f[n - 1]
      BY <2>6, <2>8 DEF ConnectRound, Searched
    <3> QED BY <2>2, <2>5, <2>8, <3>1
  <2>9. CASE n - 1 <= Steps(edges, f[n - 1])
    <3>1. Steps(edges, f[n - 1]) \in Int /\ Steps(edges, f[n]) \in Int
      BY <2>5, <2>7, StepsAre
    <3>2. Searched(edges, f[n]) \/ n <= Steps(edges, f[n])
      BY <2>2, <2>4, <2>7, <2>9, <3>1
    <3> QED BY <2>2, <2>7, <3>2
  <2> QED BY <2>5, <2>8, <2>9
<1>3. N \in 0..N
  OBVIOUS
<1> QED BY <1>2, <1>3

(* The algorithm finds the components.                                      *)
LEMMA ComponentShared ==
    ASSUME NEW edges, NEW n \in Nodes(edges), NEW m \in Component(edges, n)
    PROVE  Component(edges, m) = Component(edges, n)
<1>1. /\ m \in Nodes(edges) /\ m \in ReachedFrom(edges, n) /\ n \in ReachedFrom(edges, m)
  BY DEF Component
<1>2. ReachedFrom(edges, m) = ReachedFrom(edges, n)
  BY <1>1, ReachTransitive
<1>3. ASSUME NEW x \in Nodes(edges)
      PROVE  n \in ReachedFrom(edges, x) <=> m \in ReachedFrom(edges, x)
  BY <1>1, <1>3, ReachTransitive
<1> QED BY <1>2, <1>3 DEF Component

LEMMA TarjanFindsComponents ==
    ASSUME NEW edges, IsFiniteSet(edges)
    PROVE  TarjanScc(edges) = MutuallyReachable(edges)
<1> DEFINE N == 2 * Cardinality(Nodes(edges)) + Cardinality(edges)
           walk == CHOOSE f : IsSearch(edges, f, N)
           w == walk[N]
<1>1. N \in Nat /\ Cardinality(Nodes(edges)) \in Nat /\ Cardinality(edges) \in Nat
  BY NodesFinite, FS_CardinalityType
<1>2. TarjanScc(edges) = {c \in w.result : Cardinality(c) > 1}
  BY DEF TarjanScc, IsSearch
<1>3. IsSearch(edges, walk, N)
  <2> HIDE DEF N
  <2> QED BY <1>1, SearchExists
<1> HIDE DEF walk
<1>4. SearchInv(edges, w) /\ (Searched(edges, w) \/ N <= Steps(edges, w))
  <2> HIDE DEF N
  <2> QED BY <1>1, <1>3, SearchKeepsInv
<1> HIDE DEF w
<1>5. w.calls = <<>> /\ DOMAIN w.index = Nodes(edges)
  <2>1. CASE Searched(edges, w)
    BY <1>4, <2>1, StepsAre DEF Searched
  <2>2. CASE N <= Steps(edges, w)
    <3>1. /\ Cardinality(DOMAIN w.index) \in Nat /\ Cardinality(Seen(edges, w)) \in Nat
          /\ Cardinality(DOMAIN w.index) <= Cardinality(Nodes(edges))
          /\ Cardinality(Seen(edges, w)) <= Cardinality(edges)
          /\ Len(w.calls) \in Nat
      BY <1>4, StepsAre
    <3>2. Len(w.calls) = 0 /\ Cardinality(DOMAIN w.index) = Cardinality(Nodes(edges))
      BY <1>1, <2>2, <3>1 DEF Steps
    <3>3. w.calls = <<>>
      BY <1>4, <3>2 DEF SearchInv
    <3>4. DOMAIN w.index = Nodes(edges)
      BY <1>4, <3>2, StepsAre, NodesFinite, FS_Subset
    <3> QED BY <3>3, <3>4
  <2> QED BY <1>4, <2>1, <2>2
<1>6. UNION w.result = Nodes(edges) /\ \A c \in w.result : \E n \in c : c = Component(edges, n)
  <2>1. Core(edges, w.index, w.lowlink, w.rest, w.counter, Members(w.stack), Members(w.calls),
             w.result)
    BY <1>4 DEF SearchInv
  <2>2. Members(w.calls) = {}
    BY <1>5 DEF Members
  <2>3. Members(w.stack) = {}
    BY <2>1, <2>2 DEF Core
  <2> QED BY <1>5, <2>1, <2>3 DEF Core
<1>7. ASSUME NEW c \in w.result PROVE \E n \in Nodes(edges) : c = Component(edges, n)
  <2>1. PICK n \in c : c = Component(edges, n)
    BY <1>6
  <2>2. n \in Nodes(edges)
    BY <1>6
  <2> QED BY <2>1, <2>2
<1>8. ASSUME NEW n \in Nodes(edges) PROVE Component(edges, n) \in w.result
  <2>1. PICK c \in w.result : n \in c
    BY <1>6
  <2>2. PICK m \in Nodes(edges) : c = Component(edges, m)
    BY <1>7
  <2> QED BY <2>1, <2>2, ComponentShared
<1>9. w.result = {Component(edges, n) : n \in Nodes(edges)}
  BY <1>7, <1>8
<1> QED BY <1>2, <1>9 DEF MutuallyReachable

(* Two nodes of one component have an edge each that leaves and one that    *)
(* reaches them.                                                            *)
LEMMA CycleHasEdges ==
    ASSUME NEW edges, NEW c \in MutuallyReachable(edges), NEW n \in c
    PROVE  /\ n \in Nodes(edges)
           /\ \E e \in edges : e[1] = n
           /\ \E e \in edges : e[2] = n
<1>1. PICK r \in Nodes(edges) : c = Component(edges, r)
  BY DEF MutuallyReachable
<1>2. Cardinality(c) > 1
  BY DEF MutuallyReachable
<1>3. PICK m \in c : m # n
  <2>1. c # {n}
    <3>1. Cardinality({n}) = 1
      BY FS_Singleton
    <3> QED BY <1>2, <3>1
  <2> QED BY <2>1
<1>4. /\ n \in Nodes(edges) /\ m \in Nodes(edges)
      /\ m \in ReachedFrom(edges, n) /\ n \in ReachedFrom(edges, m)
  <2>1. Component(edges, n) = c
    BY <1>1, ComponentShared
  <2>2. n \in Nodes(edges) /\ m \in Nodes(edges)
    BY <1>1 DEF Component
  <2>3. m \in Component(edges, n)
    BY <2>1
  <2> QED BY <2>2, <2>3 DEF Component
<1>5. ASSUME \A e \in edges : e[1] # n PROVE FALSE
  <2>1. ReachedFrom(edges, n) \subseteq {n}
    BY <1>4, <1>5, ReachedIs
  <2> QED BY <1>3, <1>4, <2>1
<1>6. ASSUME \A e \in edges : e[2] # n PROVE FALSE
  <2> DEFINE others == Nodes(edges) \ {n}
  <2>1. m \in others /\ \A e \in edges : e[1] \in others => e[2] \in others
    BY <1>3, <1>4, <1>6 DEF Nodes
  <2>2. ReachedFrom(edges, m) \subseteq others
    <3> HIDE DEF others
    <3> QED BY <1>4, <2>1, ReachedIs
  <2> QED BY <1>4, <2>2
<1> QED BY <1>4, <1>5, <1>6

LEMMA FansOfCycle ==
    ASSUME NEW edges, IsFiniteSet(edges), NEW c \in MutuallyReachable(edges), NEW n \in c
    PROVE  FanOut(edges, n) >= 1 /\ FanIn(edges, n) >= 1
<1> DEFINE out == {e[2] : e \in {d \in edges : d[1] = n}}
           in == {e[1] : e \in {d \in edges : d[2] = n}}
<1>1. IsFiniteSet(Nodes(edges))
  BY NodesFinite
<1>2. out \in SUBSET Nodes(edges) /\ in \in SUBSET Nodes(edges) /\ out # {} /\ in # {}
  BY CycleHasEdges DEF Nodes
<1> HIDE DEF out, in
<1>3. IsFiniteSet(out) /\ IsFiniteSet(in)
  BY <1>1, <1>2, FS_Subset
<1>4. Cardinality(out) \in Nat /\ Cardinality(out) # 0 /\ Cardinality(in) \in Nat /\ Cardinality(in) # 0
  BY <1>2, <1>3, FS_CardinalityType, FS_EmptySet
<1> QED BY <1>4 DEF FanOut, FanIn, out, in

(* The edges of both graphs are finitely many and stay between services     *)
(* that are indexed.                                                        *)
LEMMA InternalAre ==
    ASSUME FactsInv, RelationsInv
    PROVE  Nodes(InternalEdges) \subseteq Indexed /\ IsFiniteSet(InternalEdges)
<1>1. \A e \in InternalEdges : \E s \in Indexed : \E r \in facts[s].relations : e = <<s, r.to>>
  BY DEF InternalEdges
<1>2. \A e \in InternalEdges : e[1] \in Indexed /\ e[2] \in Indexed
  BY <1>1 DEF RelationsInv
<1>3. InternalEdges \subseteq Indexed \X Indexed
  BY <1>1 DEF RelationsInv
<1>4. IsFiniteSet(Indexed \X Indexed)
  BY FS_Product DEF FactsInv
<1>5. IsFiniteSet(InternalEdges)
  BY <1>3, <1>4, FS_Subset
<1> QED BY <1>2, <1>5 DEF Nodes

LEMMA ComponentEdgesFinite ==
    ASSUME FactsInv, NEW s \in Indexed
    PROVE  IsFiniteSet(ComponentEdges(s))
<1> DEFINE calls == {d \in facts[s].edges : d.kind \in {"invokes", "injects"}}
           pairs == {<<OwnerOf[e.from], OwnerOf[e.to]>> : e \in calls}
<1>1. IsFiniteSet(facts[s].edges)
  BY DEF FactsInv, AreRows
<1>2. IsFiniteSet(calls)
  BY <1>1, FS_Subset
<1>3. [e \in calls |-> <<OwnerOf[e.from], OwnerOf[e.to]>>] \in Surjection(calls, pairs)
  BY DEF Surjection
<1>4. ComponentEdges(s) \in SUBSET pairs
  BY DEF ComponentEdges
<1> HIDE DEF calls, pairs
<1>5. IsFiniteSet(pairs)
  BY <1>2, <1>3, FS_Surjection
<1> QED BY <1>4, <1>5, FS_Subset

LEMMA CyclesAre ==
    ASSUME FactsInv, RelationsInv
    PROVE  FindCycles = {[kind |-> "cycle", services |-> Names(c)] :
                            c \in MutuallyReachable(InternalEdges)}
<1>1. TarjanScc(InternalEdges) = MutuallyReachable(InternalEdges)
  BY InternalAre, TarjanFindsComponents
<1>2. \A c \in MutuallyReachable(InternalEdges) : c \cap Indexed = c
  BY InternalAre, CycleHasEdges
<1>3. \A c \in MutuallyReachable(InternalEdges) :
          {ServiceName(n) : n \in c \cap Indexed} = Names(c)
  BY <1>2 DEF Names
<1> QED BY <1>1, <1>3 DEF FindCycles

ComponentCycle(s, c) ==
    [kind |-> "component_cycle", services |-> {ServiceName(s)}, components |-> c]

LEMMA ComponentCyclesAre ==
    ASSUME FactsInv
    PROVE  \A f : f \in FindComponentCycles <=>
               \E s \in Indexed : \E c \in MutuallyReachable(ComponentEdges(s)) :
                   f = ComponentCycle(s, c)
<1>1. \A s \in Indexed : TarjanScc(ComponentEdges(s)) = MutuallyReachable(ComponentEdges(s))
  BY ComponentEdgesFinite, TarjanFindsComponents
<1> QED BY <1>1 DEF FindComponentCycles, ComponentCycle

LEMMA ComponentCyclesOfService ==
    ASSUME FactsInv, NEW s \in Indexed
    PROVE  {f.components : f \in {g \in FindComponentCycles : g.services = {ServiceName(s)}}}
           = MutuallyReachable(ComponentEdges(s))
<1> DEFINE own == {g \in FindComponentCycles : g.services = {ServiceName(s)}}
<1>1. ASSUME NEW f \in own PROVE f.components \in MutuallyReachable(ComponentEdges(s))
  <2>0. PICK t \in Indexed : \E c \in MutuallyReachable(ComponentEdges(t)) : f = ComponentCycle(t, c)
    BY ComponentCyclesAre
  <2>1. PICK c \in MutuallyReachable(ComponentEdges(t)) : f = ComponentCycle(t, c)
    BY <2>0
  <2>2. f.services = {ServiceName(t)} /\ f.components = c
    BY <2>1 DEF ComponentCycle
  <2>3. t = s
    BY <2>2, NamesDiffer
  <2> QED BY <2>2, <2>3
<1>2. ASSUME NEW c \in MutuallyReachable(ComponentEdges(s))
      PROVE  \E f \in own : f.components = c
  <2>1. ComponentCycle(s, c) \in FindComponentCycles
    BY ComponentCyclesAre
  <2>2. ComponentCycle(s, c).services = {ServiceName(s)} /\ ComponentCycle(s, c).components = c
    BY DEF ComponentCycle
  <2> QED BY <2>1, <2>2
<1> HIDE DEF own
<1>3. {f.components : f \in own} = MutuallyReachable(ComponentEdges(s))
  BY <1>1, <1>2
<1> QED BY <1>3 DEF own

LEMMA FansOfServices ==
    ASSUME FactsInv, RelationsInv, FanThreshold = 1, NEW f \in FindCycles, NEW name \in f.services,
           NEW kind \in {"fan_out", "fan_in"}
    PROVE  \E g \in FindFanImbalance : g.kind = kind /\ g.services = {name}
<1>1. PICK c \in MutuallyReachable(InternalEdges) : f = [kind |-> "cycle", services |-> Names(c)]
  BY CyclesAre
<1>2. PICK n \in c : name = ServiceName(n)
  BY <1>1 DEF Names
<1>3. n \in Indexed
  BY InternalAre, CycleHasEdges
<1>4. FanOut(InternalEdges, n) >= FanThreshold /\ FanIn(InternalEdges, n) >= FanThreshold
  BY InternalAre, FansOfCycle
<1> DEFINE out == [kind |-> "fan_out", services |-> {ServiceName(n)},
                   count |-> FanOut(InternalEdges, n)]
           in == [kind |-> "fan_in", services |-> {ServiceName(n)},
                  count |-> FanIn(InternalEdges, n)]
<1>5. out \in FindFanImbalance /\ in \in FindFanImbalance
  BY <1>3, <1>4 DEF FindFanImbalance
<1> QED BY <1>2, <1>5

ComponentFan(s, kind, n, count) ==
    [kind |-> kind, services |-> {ServiceName(s)}, component |-> n, count |-> count]

LEMMA ComponentFansAre ==
    \A g : g \in FindComponentFanImbalance <=>
        \E s \in Indexed : \E n \in Nodes(ComponentEdges(s)) :
            \/ /\ FanOut(ComponentEdges(s), n) >= ComponentFanThreshold
               /\ g = ComponentFan(s, "component_fan_out", n, FanOut(ComponentEdges(s), n))
            \/ /\ FanIn(ComponentEdges(s), n) >= ComponentFanThreshold
               /\ g = ComponentFan(s, "component_fan_in", n, FanIn(ComponentEdges(s), n))
BY DEF FindComponentFanImbalance, ComponentFans, ComponentFan

LEMMA FansOfComponents ==
    ASSUME FactsInv, ComponentFanThreshold = 1, NEW f \in FindComponentCycles,
           NEW component \in f.components
    PROVE  Cardinality({g \in FindComponentFanImbalance :
                           g.services = f.services /\ g.component = component}) = 2
<1>0. PICK s \in Indexed : \E c \in MutuallyReachable(ComponentEdges(s)) : f = ComponentCycle(s, c)
  BY ComponentCyclesAre
<1>1. PICK c \in MutuallyReachable(ComponentEdges(s)) : f = ComponentCycle(s, c)
  BY <1>0
<1>2. component \in c /\ f.services = {ServiceName(s)}
  BY <1>1 DEF ComponentCycle
<1> DEFINE edges == ComponentEdges(s)
           out == ComponentFan(s, "component_fan_out", component, FanOut(edges, component))
           in == ComponentFan(s, "component_fan_in", component, FanIn(edges, component))
           fans == {g \in FindComponentFanImbalance :
                       g.services = f.services /\ g.component = component}
<1>3. /\ component \in Nodes(edges)
      /\ FanOut(edges, component) >= ComponentFanThreshold
      /\ FanIn(edges, component) >= ComponentFanThreshold
  BY <1>2, ComponentEdgesFinite, CycleHasEdges, FansOfCycle
<1>4. out \in FindComponentFanImbalance /\ in \in FindComponentFanImbalance
  BY <1>3, ComponentFansAre
<1>5. /\ out.services = f.services /\ out.component = component
      /\ in.services = f.services /\ in.component = component
      /\ out.kind # in.kind
  BY <1>2 DEF ComponentFan
<1>6. ASSUME NEW g \in fans PROVE g = out \/ g = in
  <2>0. PICK t \in Indexed : \E n \in Nodes(ComponentEdges(t)) :
            \/ g = ComponentFan(t, "component_fan_out", n, FanOut(ComponentEdges(t), n))
            \/ g = ComponentFan(t, "component_fan_in", n, FanIn(ComponentEdges(t), n))
    BY ComponentFansAre
  <2>1. PICK n \in Nodes(ComponentEdges(t)) :
            \/ g = ComponentFan(t, "component_fan_out", n, FanOut(ComponentEdges(t), n))
            \/ g = ComponentFan(t, "component_fan_in", n, FanIn(ComponentEdges(t), n))
    BY <2>0
  <2>2. g.services = {ServiceName(t)} /\ g.component = n
    BY <2>1 DEF ComponentFan
  <2>3. t = s /\ n = component
    BY <1>2, <2>2, NamesDiffer
  <2> QED BY <2>1, <2>3
<1> HIDE DEF out, in
<1>7. fans = {out} \cup {in} /\ in \notin {out}
  BY <1>4, <1>5, <1>6
<1>8. Cardinality({out} \cup {in}) = 2
  <2>1. IsFiniteSet({out}) /\ Cardinality({out}) = 1
    BY FS_Singleton
  <2>2. Cardinality({out} \cup {in}) = Cardinality({out}) + 1
    BY <1>7, <2>1, FS_AddElement
  <2> QED BY <2>1, <2>2
<1> QED BY <1>7, <1>8

LEMMA CyclesMutual ==
    ASSUME FactsInv, RelationsInv
    PROVE  CyclesAreMutual
BY CyclesAre, ComponentCyclesOfService, FansOfServices, FansOfComponents DEF CyclesAreMutual

(* The cycles that are reported between services, and between the           *)
(* components of a service, are the sets of nodes that all reach each other, *)
(* and each of their nodes has the fans of a cycle (_tarjan_scc and the graph *)
(* detectors of architecture.py).                                           *)
THEOREM CyclesAlwaysMutual == ReviewSpec => []CyclesAreMutual
<1>1. ReviewInv => CyclesAreMutual
  BY CyclesMutual DEF ReviewInv
<1> QED BY <1>1, RowsAgree, PTL

=============================================================================
