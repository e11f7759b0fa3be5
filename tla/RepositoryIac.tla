---------------------------- MODULE RepositoryIac ----------------------------
(***************************************************************************)
(* The infrastructure rows of each checkout.  An index run ends with one   *)
(* scan of the whole checkout that replaces them.  Cloud resources come    *)
(* from Terraform and CloudFormation files, references to configuration    *)
(* sources and the sources themselves from Kubernetes manifests.  A row    *)
(* belongs to a service when exactly one service root contains its file.   *)
(*                                                                         *)
(* A file of a checkout is a record:                                       *)
(*   format      terraform, cloudformation, manifest, helm or compose      *)
(*   place       the sequence of directories that hold it                  *)
(*   resources   set of [type, logical, name, settings], the name being    *)
(*               NoName when it is an expression                           *)
(*   refinements set of [bucket, setting], Terraform resources that only   *)
(*               configure a bucket, by its logical name                   *)
(*   bindings    set of [key, source, entry]: a container's variable and   *)
(*               the entry of the ConfigMap or Secret it is read from      *)
(*   imports     set of [source, optional, role]: a source whose entries   *)
(*               all become variables                                      *)
(*   sources     set of [source, entries, at], declared ConfigMaps and     *)
(*               Secrets, at being the file and line of the declaration,   *)
(*               which keep two equal declarations of one source apart     *)
(***************************************************************************)
EXTENDS ErrorReviewUnits, SequencesExt

CONSTANTS
    RootOf,     \* RootOf[s]: the directories that lead to the service's root
    TreesOf     \* TreesOf[r]: the sets of files that checkout r may hold

NoService == 0

ASSUME RootsAssumption ==
    /\ NoService \notin ServiceIds
    /\ DOMAIN RootOf = ServiceIds /\ DOMAIN TreesOf = Repositories

VARIABLES
    tree,       \* tree[r]: the files that the last scan of r read
    iac         \* iac[r]: the rows that it left

iacVars == <<tree, iac>>

NoFile == [format |-> "manifest", place |-> <<>>, resources |-> {}, refinements |-> {},
           bindings |-> {}, imports |-> {}, sources |-> {}]

NoIac == [resources |-> {}, bindings |-> {}, imports |-> {}, importUnknowns |-> {},
          mismatches |-> {}, sourceUnknowns |-> {}]

\* Files as the parsers leave them: resources and bindings are compared as a
\* whole and have no other fields than these, and a line of a file declares one
\* source.
AreFiles(files) ==
    /\ \A f \in files :
           /\ \A x \in f.resources : x = [type |-> x.type, logical |-> x.logical,
                                          name |-> x.name, settings |-> x.settings]
           /\ \A b \in f.bindings : b = [key |-> b.key, source |-> b.source, entry |-> b.entry]
    /\ \A d, e \in UNION {f.sources : f \in files} : d.at = e.at => d = e

ASSUME TreesAssumption == \A r \in Repositories : \A files \in TreesOf[r] : AreFiles(files)

-----------------------------------------------------------------------------
(* Parsing: which declarations of a file count.                             *)

\* Settings that other resources of the file give a bucket are folded into it.
ParseTerraform(file) ==
    {[x EXCEPT !.settings = @ \cup
         IF x.type = "s3_bucket"
         THEN {q.setting : q \in {p \in file.refinements : p.bucket = x.logical}} ELSE {}] :
        x \in file.resources}

\* An emulator that a compose file starts is no declaration: it has no name.
ParseCompose(file) ==
    {[x EXCEPT !.type = "emulated", !.name = NoName, !.settings = {}] : x \in file.resources}

ParseResources(file) ==
    CASE file.format = "terraform"      -> ParseTerraform(file)
      [] file.format = "compose"        -> ParseCompose(file)
      [] file.format = "cloudformation" -> file.resources
      [] OTHER                          -> {}

\* A chart that is not rendered is not read as a manifest.
ParseReferences(file, kind) == IF file.format = "manifest" THEN file[kind] ELSE {}

ParseBindings(file) == ParseReferences(file, "bindings")

ParseImports(file) == ParseReferences(file, "imports")

-----------------------------------------------------------------------------
(* The scan of a checkout.                                                  *)

MatchingService(r, place) ==
    LET matches == {s \in Candidates(r) : IsPrefix(RootOf[s], place)}
    IN  IF Cardinality(matches) = 1 THEN CHOOSE s \in matches : TRUE ELSE NoService

Attributed(r, files, RowsOf(_)) ==
    UNION {{[service |-> MatchingService(r, f.place), row |-> row] : row \in RowsOf(f)} :
           f \in files}

DeclaredSources(files) == UNION {ParseReferences(f, "sources") : f \in files}

Declarations(files, source) == {d \in DeclaredSources(files) : d.source = source}

\* Equal declarations of a source taken for one.
AgainstEqualDeclarations(files, bindings) ==
    {b \in bindings :
        \E d \in Declarations(files, b.row.source) :
            /\ \A e \in Declarations(files, b.row.source) : e.entries = d.entries
            /\ b.row.entry \notin d.entries}

\* A binding is held against its source only when a single declaration has the
\* name: several are ambiguous, those of a base and an overlay with the same
\* entries too.
KeyMismatches(files, bindings) ==
    {b \in bindings :
        \E d \in Declarations(files, b.row.source) :
            /\ Declarations(files, b.row.source) = {d}
            /\ b.row.entry \notin d.entries}

Undeclared(files, rows) == {b \in rows : Declarations(files, b.row.source) = {}}

ScanRepositoryFacts(r, files) ==
    LET bindings == Attributed(r, files, ParseBindings)
        imports == Attributed(r, files, ParseImports)
    IN  [resources |-> Attributed(r, files, ParseResources),
         bindings |-> bindings, imports |-> imports,
         importUnknowns |-> Undeclared(files, imports),
         mismatches |-> KeyMismatches(files, bindings),
         sourceUnknowns |-> Undeclared(files, bindings)]

-----------------------------------------------------------------------------
(* Steps.  The scan follows the analyses of an index run.                   *)

IacInit ==
    /\ tree = [r \in Repositories |-> {}]
    /\ iac = [r \in Repositories |-> NoIac]

ScanRepository(r) ==
    /\ Candidates(r) # {}
    /\ \E files \in TreesOf[r] :
           /\ tree' = [tree EXCEPT ![r] = files]
           /\ iac' = [iac EXCEPT ![r] = ScanRepositoryFacts(r, files)]
    /\ UNCHANGED facts

WithoutServices(rows, gone) ==
    {[x EXCEPT !.service = IF @ \in gone THEN NoService ELSE @] : x \in rows}

\* The rows of a deleted service stay in its checkout without a service.
DeleteWithIac(r, found) ==
    /\ DeleteServicesNotIn(r, found)
    /\ iac' = [iac EXCEPT ![r] =
                  [table \in DOMAIN @ |-> WithoutServices(@[table], Candidates(r) \ found)]]
    /\ UNCHANGED tree

RemoveWithIac(r) ==
    /\ RemoveRepository(r)
    /\ iac' = [iac EXCEPT ![r] = NoIac]
    /\ tree' = [tree EXCEPT ![r] = {}]

ReviewInit == FactsInit /\ IacInit

ReviewNext ==
    \/ \E r \in Repositories :
           \/ ScanRepository(r) \/ RemoveWithIac(r)
           \/ \E found \in SUBSET Candidates(r) : DeleteWithIac(r, found)
    \/ \E s \in ServiceIds :
           (ReplaceAnalysis(s) \/ ReplaceRelations(s)) /\ UNCHANGED iacVars

ReviewSpec == ReviewInit /\ [][ReviewNext]_<<facts, tree, iac>>

=============================================================================
