SPECIFICATION Spec
CONSTANTS
    DataParts = {"ontology", "preflight", "audit", "notify", "ingest", "retention", "store", "access", "merge", "packs", "learning"}
    k1 = k1
    k2 = k2
    k3 = k3
    e1 = e1
    e2 = e2
    u1 = u1
    u2 = u2
    o1 = o1
    o2 = o2
    OntologyCalls = {1, 2, 3}
    OntologyInputs <- MCInputs
    SeedObjects <- MCSeedObjects
    Schemas <- RecruitingSchemas
    RelationshipDefs <- RecruitingRelationships
    GraphRules <- RecruitingGraphRules
    CycleAllowed <- RecruitingCycleAllowed
    AnyType = AnyType
    Absent = Absent
    Snapshots <- MCSnapshots
    Scopes <- MCScopes
    Emitters = {u1, u2}
    MaxAuditEvents = 4
    MaxRestarts = 1
    Emissions = {u1, u2}
    RuleChannels <- MCChannels
    Uploads = {1, 2, 3}
    Checksums = {k1, k2}
    Webhooks = {u1}
    NoAsset = NoAsset
    ExpiredObjects <- MCExpired
    RetentionJobs = {u1, u2}
    Upserts = {e1}
    StoreClients = {u1, u2}
    MaxRows = 2
    MaxPatches = 2
    UserId = u1
    GroupIds = {e1}
    RoleKeys = {k1}
    AccessQueries <- MCQueries
    Candidates = {1, 2, 3}
    Identity <- MCIdentity
    SeedEdges <- MCEdges
    MergeCalls = {u1, u2}
    Imports <- MCImports
    NoValue = Absent
    Manifests <- MCManifests
    PackCalls = {1, 2, 3}
    PackRequests <- MCPackRequests
    CustomerKeys = {o1}
    NoPack = NoPack
    Recorders = {1, 2, 3}
    Reviewers = {u1}
    Recordings <- MCRecordings
    NoSignal = NoSignal
CHECK_DEADLOCK FALSE
INVARIANTS
    TypeOK
    EnforcedStorePassesGovernance
    LedgerKeepsEveryEntry
    PreflightIsRight
    ChainVerdictIsRight
    EachRuleAnsweredOnce
    IngestionAddsUp
    RetentionIsTrue
    AcknowledgedPatchesSurvive
    AccessIsExact
    MergesLoseNothing
    InstalledPacksAreWhole
    SignalsFollowRecords
