-------------------------- MODULE DeploymentFindings --------------------------
(***************************************************************************)
(* The architecture detectors about persistence shared between services    *)
(* and about the infrastructure of their checkouts: what the code uses and *)
(* the infrastructure does not declare, the converse, and settings that    *)
(* the declarations do not show.                                           *)
(***************************************************************************)
EXTENDS RepositoryIac

Fold(name) == name[1]

ServicesWith(Holds(_)) == {s \in Indexed : Holds(s)}

\* One finding for each key that the rows of at least two services have.
SharedFindings(kind, keys, HasKey(_, _)) ==
    {[kind |-> kind, services |-> {ServiceName(s) : s \in {t \in Indexed : HasKey(t, key)}},
      key |-> key] :
        key \in {k \in keys : Cardinality({t \in Indexed : HasKey(t, k)}) > 1}}

FindSharedDatabase ==
    LET HasKey(s, key) ==
            \E e \in facts[s].stored : e.engine = key[2] /\ Fold(e.name) = key[1]
    IN  SharedFindings("shared_database",
            {<<Fold(e.name), e.engine>> :
                e \in {d \in UNION {facts[s].stored : s \in Indexed} : d.engine # "unknown"}},
            HasKey)

FindDuplicateExternalIntegrations ==
    LET HasKey(s, key) == \E v \in facts[s].vendors : Fold(v) = key
    IN  SharedFindings("duplicate_external_integration",
            {Fold(v) : v \in UNION {facts[s].vendors : s \in Indexed}}, HasKey)

FindSharedCloudResource ==
    LET HasKey(s, key) == \E c \in facts[s].cloud : <<c.type, c.target>> = key
    IN  SharedFindings("shared_cloud_resource",
            {<<c.type, c.target>> :
                c \in {d \in UNION {facts[s].cloud : s \in Indexed} : d.target # NoName}},
            HasKey)

\* Declarations of one persisted name in several services.  The finding spells
\* the name as the first service does.
Owners(s, group) ==
    {o.owner : o \in {d \in facts[s].owned : <<Fold(d.name), d.kind>> = group}}

AggregateSpelling(group) ==
    LET first == CHOOSE s \in Indexed :
                     /\ Owners(s, group) # {}
                     /\ \A t \in Indexed : Owners(t, group) # {} => s <= t
        spellings == {d.name : d \in {c \in facts[first].owned :
                                         <<Fold(c.name), c.kind>> = group}}
    IN  CHOOSE n \in spellings : TRUE

FindAggregateOwnershipOverlap ==
    {[kind |-> "possible_aggregate_ownership_overlap", confidence |-> 65,
      services |-> {ServiceName(s) : s \in ServicesWith(LAMBDA t : Owners(t, group) # {})},
      aggregate |-> AggregateSpelling(group), persistence |-> group[2],
      owners |-> UNION {{<<ServiceName(s), o>> : o \in Owners(s, group)} : s \in Indexed}] :
        group \in {g \in {<<Fold(d.name), d.kind>> :
                              d \in UNION {facts[s].owned : s \in Indexed}} :
                      Cardinality(ServicesWith(LAMBDA t : Owners(t, g) # {})) > 1}}

-----------------------------------------------------------------------------
(* Code against infrastructure, by type and name within one checkout.       *)

DeploymentFinding(kind, s, key, confidence) ==
    [kind |-> kind, services |-> <<ServiceName(s)>>, key |-> key, confidence |-> confidence]

DeclaredIn(r, type, name) ==
    \E x \in iac[r].resources : x.row.type = type /\ x.row.name = name

FindCloudCodeWithoutAnyIac ==
    PerService(LAMBDA s :
        {DeploymentFinding("cloud_dependency_without_iac", s, <<c.type, c.target>>, 70) :
            c \in {d \in facts[s].cloud :
                      /\ d.target # NoName
                      /\ \A r \in Repositories : ~DeclaredIn(r, d.type, d.target)}})

FindCloudCodeWithoutIac ==
    PerService(LAMBDA s :
        {DeploymentFinding("cloud_dependency_without_iac", s, <<c.type, c.target>>, 70) :
            c \in {d \in facts[s].cloud :
                      d.target # NoName /\ ~DeclaredIn(RepositoryOf[s], d.type, d.target)}})

\* The declarations that are attributed to an indexed service.
ResourcesOf(s) ==
    {x.row : x \in {y \in iac[RepositoryOf[s]].resources : y.service = s}}

UsedIn(r, type, name) ==
    \E s \in Candidates(r) : [type |-> type, target |-> name] \in facts[s].cloud

FindCloudIacUnusedInCode ==
    PerService(LAMBDA s :
        {DeploymentFinding("cloud_iac_resource_unused", s, <<x.type, x.name>>, 60) :
            x \in {y \in ResourcesOf(s) :
                      y.name # NoName /\ ~UsedIn(RepositoryOf[s], y.type, y.name)}})

-----------------------------------------------------------------------------
(* Settings that no declaration shows.                                      *)

Label(x) == IF x.name = NoName THEN x.logical ELSE x.name

SettingFindings(kind, Flagged(_), confidence) ==
    PerService(LAMBDA s :
        {DeploymentFinding(kind, s, <<Label(x)>>, confidence) :
            x \in {y \in ResourcesOf(s) : Flagged(y)}})

FindCloudDeadLetterQueueMissing ==
    SettingFindings("possible_missing_dead_letter_queue",
        LAMBDA x : x.type = "sqs_queue" /\ "redrive" \notin x.settings, 45)

FindPublicObjectStorage ==
    SettingFindings("possible_public_object_storage",
        LAMBDA x : x.type \in {"s3_bucket", "other_bucket"} /\ "public" \in x.settings, 85)

FindUnencryptedCloudResource ==
    SettingFindings("possible_unencrypted_cloud_resource",
        LAMBDA x : x.type \in {"sqs_queue", "s3_bucket"} /\ "encryption" \notin x.settings, 40)

FindMissingBucketVersioning ==
    SettingFindings("possible_missing_bucket_versioning",
        LAMBDA x : x.type = "s3_bucket" /\ "versioning" \notin x.settings, 40)

-----------------------------------------------------------------------------
(* Configuration sources of the workloads of a service.                     *)

RowsOf(s, table) == {x.row : x \in {y \in iac[RepositoryOf[s]][table] : y.service = s}}

BindingKey(b) == <<b.source, b.entry, b.key>>

FindKubernetesConfigurationKeyMismatches ==
    PerService(LAMBDA s :
        {DeploymentFinding("possible_kubernetes_configuration_key_not_declared", s,
                           BindingKey(b), 90) : b \in RowsOf(s, "mismatches")})

FindKubernetesConfigurationSourceUnknowns ==
    PerService(LAMBDA s :
        {DeploymentFinding("possible_kubernetes_configuration_source_not_declared_locally", s,
                           BindingKey(b), 40) : b \in RowsOf(s, "sourceUnknowns")})

\* Imports of one source are one finding, which says whether all are optional.
Availability(imports) ==
    LET values == {i.optional : i \in imports}
    IN  IF values = {"true"} THEN "optional"
        ELSE IF values = {"false"} THEN "required"
        ELSE IF values = {NoName} THEN "unknown" ELSE "mixed"

ImportsOf(s, source) == {i \in RowsOf(s, "importUnknowns") : i.source = source}

FindKubernetesConfigurationSourceImportUnknowns ==
    PerService(LAMBDA s :
        {DeploymentFinding("possible_kubernetes_configuration_source_import_not_declared_locally",
                           s, <<source, Availability(ImportsOf(s, source)),
                                {i.role : i \in ImportsOf(s, source)}>>, 40) :
            source \in {i.source : i \in RowsOf(s, "importUnknowns")}})

=============================================================================
