------------------------ MODULE DeploymentReviewUnits ------------------------
(***************************************************************************)
(* The review units that a change plan derives from the findings about     *)
(* persistence and infrastructure, and from the configuration, flags and   *)
(* migrations of its services.                                             *)
(***************************************************************************)
EXTENDS DeploymentFindings

KeyOf(f) == f.key

DeriveCloudDependencyIac(findings, services) ==
    Units("cloud-dependency-iac",
        Selected(findings, "cloud_dependency_without_iac", services, 70), KeyOf, NoDependency)

DeriveCloudDeadLetterQueue(findings, services) ==
    Units("cloud-dead-letter-queue",
        Selected(findings, "possible_missing_dead_letter_queue", services, 45),
        KeyOf, NoDependency)

DeriveCloudEncryption(findings, services) ==
    Units("cloud-encryption",
        Selected(findings, "possible_unencrypted_cloud_resource", services, 40),
        KeyOf, NoDependency)

DeriveCloudVersioning(findings, services) ==
    Units("cloud-versioning",
        Selected(findings, "possible_missing_bucket_versioning", services, 40),
        KeyOf, NoDependency)

DerivePublicObjectStorage(findings, services) ==
    Units("public-object-storage",
        Selected(findings, "possible_public_object_storage", services, 85),
        KeyOf, NoDependency)

\* An overlap is reviewed when the plan is about one of its services only: a
\* choice between several would be arbitrary.
DeriveAnyAggregateOwnership(findings, services) ==
    UNION {{Unit("aggregate-ownership", s, <<f.persistence, f.aggregate>>, f.services \ {s}) :
               s \in f.services \cap services} :
           f \in {g \in findings : g.kind = "possible_aggregate_ownership_overlap"}}

DeriveAggregateOwnership(findings, services) ==
    UNION {{Unit("aggregate-ownership", s, <<f.persistence, f.aggregate>>, f.services \ {s}) :
               s \in f.services \cap services} :
           f \in {g \in findings : /\ g.kind = "possible_aggregate_ownership_overlap"
                                   /\ g.confidence >= 65
                                   /\ Cardinality(g.services \cap services) = 1}}

-----------------------------------------------------------------------------
(* Units from the rows of the services of the plan, which is about one       *)
(* checkout or about services whose names are unique.                        *)

RowUnits(role, services, KeysOf(_)) ==
    UNION {{Unit(role, NameOf[s], key, {}) : key \in KeysOf(s)} : s \in services}

\* Tables on the change surface that a migration touches; affected holds pairs
\* of a service and a persisted entity.  Entities are not asked about twice
\* because a service has one row for a name.
DerivePersistenceMigration(affected, services) ==
    {Unit("persistence-migration", NameOf[a[1]], <<a[2].name>>, {}) :
        a \in {b \in affected :
                  /\ b[1] \in services
                  /\ b[2].kind = "sql_table"
                  /\ \E m \in facts[b[1]].migrations : Fold(m.table) = Fold(b[2].name)}}

DeriveFeatureFlag(services) ==
    RowUnits("feature-flag", services,
        LAMBDA s : {<<f.provider, f.key>> : f \in facts[s].flags})

\* Environment keys that the code reads and a workload of the service binds.
DeriveRuntimeConfiguration(services) ==
    RowUnits("runtime-configuration", services,
        LAMBDA s : {<<key>> : key \in facts[s].environment
                                      \cap {b.key : b \in RowsOf(s, "bindings")}})

DeriveRuntimeConfigurationMismatch(services) ==
    RowUnits("runtime-configuration-mismatch", services,
        LAMBDA s : {BindingKey(b) : b \in RowsOf(s, "mismatches")})

DeriveRuntimeConfigurationSourceUnknown(services) ==
    RowUnits("runtime-configuration-source-unknown", services,
        LAMBDA s : {BindingKey(b) : b \in RowsOf(s, "sourceUnknowns")})

\* The ownership of a source is one decision, whatever imports it; what is to
\* be validated depends on all imports together.
DeriveRuntimeConfigurationSourceImportUnknown(services) ==
    UNION {{[id |-> <<"runtime-configuration-source-import-unknown", NameOf[s], source>>,
             service |-> NameOf[s], dependencies |-> {},
             availability |-> Availability(ImportsOf(s, source)),
             initializes |-> \E i \in ImportsOf(s, source) : i.role = "initialization"] :
               source \in {i.source : i \in RowsOf(s, "importUnknowns")}} : s \in services}

CloudFindings ==
    FindCloudCodeWithoutIac \cup FindCloudDeadLetterQueueMissing
    \cup FindUnencryptedCloudResource \cup FindMissingBucketVersioning
    \cup FindPublicObjectStorage

CloudUnits(findings, services) ==
    DeriveCloudDependencyIac(findings, services)
    \cup DeriveCloudDeadLetterQueue(findings, services)
    \cup DeriveCloudEncryption(findings, services)
    \cup DeriveCloudVersioning(findings, services)
    \cup DerivePublicObjectStorage(findings, services)

ConfigurationUnits(services) ==
    DeriveFeatureFlag(services)
    \cup DeriveRuntimeConfiguration(services)
    \cup DeriveRuntimeConfigurationMismatch(services)
    \cup DeriveRuntimeConfigurationSourceUnknown(services)
    \cup DeriveRuntimeConfigurationSourceImportUnknown(services)

-----------------------------------------------------------------------------
(* Properties.  They compare the reports with the files of the last scan.   *)

\* Named resources that some Terraform or CloudFormation file of r declares.
DeclaredNames(r) ==
    {<<x.type, x.name>> : x \in UNION {f.resources :
        f \in {g \in tree[r] : g.format \in {"terraform", "cloudformation"}}}}

UsedNames(r) ==
    {<<c.type, c.target>> : c \in UNION {facts[s].cloud : s \in Candidates(r)}}

\* Within a checkout the two reconciliations of code and infrastructure agree:
\* each use of a resource that no file declares is reported for the services
\* that use it and for no other, nothing is reported as undeclared and as
\* unused at once, an emulator never counts as a declaration, and what another
\* checkout declares or uses makes no difference.
CloudNamesReconciled ==
    \A r \in Repositories :
        LET here == {ServiceName(s) : s \in Candidates(r)}
            undeclared == {f \in FindCloudCodeWithoutIac : f.services[1] \in here}
            unused == {f \in FindCloudIacUnusedInCode : f.services[1] \in here}
        IN  /\ {f.key : f \in undeclared} \cap {f.key : f \in unused} = {}
            /\ {f.key : f \in unused} \subseteq DeclaredNames(r) \ UsedNames(r)
            /\ \A s \in Candidates(r) :
                   {f.key : f \in {g \in undeclared : g.services = <<ServiceName(s)>>}}
                   = {<<c.type, c.target>> : c \in {d \in facts[s].cloud : d.target # NoName}}
                     \ DeclaredNames(r)

\* The declarations of a ConfigMap or Secret in the manifests of a checkout,
\* unrendered charts apart.
DeclarationsIn(r, source) ==
    {d \in UNION {f.sources : f \in {g \in tree[r] : g.format = "manifest"}} : d.source = source}

\* A plan asks about the source of a variable that a workload binds for the
\* right reason: as unknown exactly when no manifest of the checkout declares
\* it, as a mismatch exactly when one manifest declares it, once, and lacks the
\* entry.  Where a base and an overlay both declare it nothing is asked,
\* whatever entries they have.  The imports of the same source agree.
ConfigurationReviewed ==
    \A s \in Indexed :
        LET r == RepositoryOf[s]
            ids == {u.id : u \in ConfigurationUnits({s})}
            Asked(role, key) == <<role, NameOf[s]>> \o key \in ids
        IN  /\ \A b \in RowsOf(s, "bindings") :
                   LET declared == DeclarationsIn(r, b.source)
                       unknown == Asked("runtime-configuration-source-unknown", BindingKey(b))
                       mismatch == Asked("runtime-configuration-mismatch", BindingKey(b))
                   IN  /\ unknown <=> declared = {}
                       /\ mismatch <=> /\ declared # {}
                                       /\ \A d, e \in declared : d = e
                                       /\ \A d \in declared : b.entry \notin d.entries
            /\ \A i \in RowsOf(s, "imports") :
                   Asked("runtime-configuration-source-import-unknown", <<i.source>>)
                   <=> DeclarationsIn(r, i.source) = {}

\* Whatever services a plan is about, it asks about the owner of a persisted
\* name at most once, of a service of the plan, and every other service that
\* declares the name is a dependency of that review.
OwnershipReviewedOnce ==
    \A primary \in SUBSET AllNames :
        LET services == PlanServices(primary)
            units == DeriveAggregateOwnership(FindAggregateOwnershipOverlap, services)
        IN  \A name \in UNION {facts[s].owned : s \in Indexed} :
                LET asked == {u \in units : /\ u.id[3] = name.kind
                                            /\ Fold(u.id[4]) = Fold(name.name)}
                    owners == {ServiceName(s) : s \in
                                  {t \in Indexed : Owners(t, <<Fold(name.name), name.kind>>) # {}}}
                IN  /\ Cardinality(asked) <= 1
                    /\ \A u \in asked : /\ u.service \in services
                                         /\ {u.service} \cup u.dependencies = owners

=============================================================================
