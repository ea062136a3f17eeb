SPECIFICATION Spec
CONSTANTS
    Parts = {"mission", "inference", "agent", "runs", "routing", "cache"}
    t1 = t1
    t2 = t2
    t3 = t3
    absent = absent
    c1 = c1
    c2 = c2
    c3 = c3
    q1 = q1
    q2 = q2
    m1 = m1
    m2 = m2
    m3 = m3
    undefined = undefined
    Missions <- MCMissions
    MaxExecutions = 2
    InferenceCalls = {c1, c2, c3}
    Targets = {m1, m2, m3}
    Providers = {2, 3}
    ProviderOf <- MCProviderOf
    Prompt <- MCPrompt
    Plan <- MCPlan
    MaxAttempts = 2
    FallbackPolicy <- MCFallbackPolicy
    MaxBatchSize = 2
    MaxClock = 2
    NoResponse = NoResponse
    FailureThreshold = 1
    SuccessThreshold = 1
    Cooldown = 1
    ObservationWindow = 2
    UnavailableBelow = 30
    DegradedBelow = 50
    RecoverAbove = 90
    Ttl = 1
    MaxEntries = 1
    Agents <- MCAgents
    BoardPaths = {t1}
    BoardValues = {0, 1, 2}
    MaxSteps = 3
    MaxFunctionCalls = 1
    MaxCost = 1
    Missing = undefined
    ComponentKinds = {"function", "pipeline", "integration"}
    ComponentRunIds = {c1, c2}
    RunAsset = t1
    Children <- MCChildren
    HighThreshold = 1
    CriticalThreshold = 2
    FailureWindow = 0
    MaxRunsClock = 1
    Registry <- MCRegistry
    RoutingQueries <- MCRoutingQueries
    CacheCalls = {c1, c2, c3}
    CacheRequest <- MCCacheRequest
    Similarity <- MCSimilarity
    CachePolicies <- MCCachePolicies
    SimilarityPolicies <- MCSimilarityPolicies
    MaxCacheTime = 1
    NoAnswer = NoResponse
CHECK_DEADLOCK FALSE
INVARIANTS
    TypeOK
    ExecutionsFollowPlan
    ReportTellsTruth
    RepeatsOnlyAfterFailure
    CacheHoldsValidated
    OpenCircuitShieldsAndShows
    FallbackInPolicyOrder
    AgentRunIsAccountedFor
    RunsAreAccountedFor
    PlanIsAuthorized
    ServedIsComparable
PROPERTIES
    ExecutionsEnd
