------------------------- MODULE MCExecutionServices -------------------------
(***************************************************************************)
(* Small instances of the execution services for TLC: mission executions,  *)
(* routing, inference executions over routed plans, the cache platform,    *)
(* agent runs and component runs.  They share no state, so a behaviour     *)
(* exercises one of them, its part.                                        *)
(***************************************************************************)
EXTENDS MissionRuntime, InferencePipeline, AgentRunner, ComponentRuns, CacheManager, Routing, TLC

CONSTANTS
    Parts,          \* the parts to explore
    t1, t2, t3,        \* task ids
    absent,         \* a dependency no task has
    c1, c2, c3, q1, q2, m1, m2, m3,
    undefined

VARIABLE part

-----------------------------------------------------------------------------
\* Missions. A task t1 has two attempts, every other one has one.
Mission(ids, deps, gated, unregistered, ownKey) ==
    [ids |-> ids, deps |-> deps, gated |-> gated, unregistered |-> unregistered, ownKey |-> ownKey,
     maxAttempts |-> [t \in DOMAIN deps |-> IF t = t1 THEN 2 ELSE 1]]

\* Missions executed once: a fork and join with an approval gate, a chain with a task no
\* executor is registered for, a pair whose tasks share a key of their own, and the three
\* missions that cannot be planned.
RunMissions ==
    {Mission(<<t1, t2, t3>>, (t1 :> {}) @@ (t2 :> {}) @@ (t3 :> {t1, t2}), {t2}, {}, << >>),
     Mission(<<t2, t1>>, (t1 :> {}) @@ (t2 :> {t1}), {}, {t2}, << >>),
     Mission(<<t1, t2>>, (t1 :> {}) @@ (t2 :> {}), {}, {}, (t1 :> q1) @@ (t2 :> q1)),
     Mission(<<t1, t1>>, t1 :> {}, {}, {}, << >>),
     Mission(<<t1>>, t1 :> {absent}, {}, {}, << >>),
     Mission(<<t1, t2>>, (t1 :> {t2}) @@ (t2 :> {t1}), {}, {}, << >>)}

\* Missions executed again: a gated task, a task with a key of its own, and a chain whose
\* tasks share such a key.
RepeatedMissions ==
    {Mission(<<t1>>, t1 :> {}, {t1}, {}, << >>),
     Mission(<<t1>>, t1 :> {}, {}, {}, t1 :> q1),
     Mission(<<t1, t2>>, (t1 :> {}) @@ (t2 :> {t1}), {}, {}, (t1 :> q1) @@ (t2 :> q1))}

\* Every dependency graph over three tasks, to be planned only.
PlannedMissions ==
    {Mission(<<t1, t2, t3>>, deps, {}, {}, << >>) : deps \in [{t1, t2, t3} -> SUBSET {t1, t2, t3}]}

MCMissions == RunMissions \cup RepeatedMissions \cup PlannedMissions

FirstMission == CHOOSE m \in Missions : m \notin PlannedMissions

-----------------------------------------------------------------------------
\* Routing. Three providers and five models that differ in all that routing looks at.
Model(id, capabilities, deprecated, window, family) ==
    [model |-> id, capabilities |-> capabilities, deprecated |-> deprecated, window |-> window, family |-> family]

MCRegistry ==
    <<[id |-> 2, priority |-> 1, models |-> <<Model(1, {q1}, FALSE, 2, m1), Model(2, {q1, q2}, FALSE, 1, m2)>>],
      [id |-> 1, priority |-> 2, models |-> <<Model(1, {q2}, FALSE, 2, m1), Model(3, {q1}, TRUE, 2, m1)>>],
      [id |-> 3, priority |-> 2, models |-> <<Model(2, {q1}, FALSE, 2, m2)>>]>>

Optional(field, values) == {<< >>} \cup {field :> value : value \in values}

MCRequests ==
    {a @@ b @@ c @@ d : a \in Optional("capabilities", {{q1}}), b \in Optional("preferredModel", {2}),
                        c \in Optional("preferredProvider", {1}), d \in Optional("tenantId", {t1})}

MCPolicies ==
    {a @@ b @@ c @@ d : a \in Optional("allowedProviders", {{1, 2}, {3}}), b \in Optional("deniedProviders", {{2}}),
                        c \in Optional("preferredProviders", {<<3, 1>>}), d \in Optional("maximumContextWindow", {1})}

MCRoutingQueries ==
    {[request |-> r, policy |-> p, overrides |-> o] :
       r \in MCRequests, p \in MCPolicies, o \in Optional(t1, Optional("allowedProviders", {{1, 3}}))}

FirstRouting == [request |-> << >>, policy |-> << >>, overrides |-> << >>]

-----------------------------------------------------------------------------
\* Inference, over plans that routing makes: two calls with the same request and plan, of
\* which one finds a fallback policy that lists providers and the other one that takes one
\* alternate only, and a call without alternates.
MCPlan == [i \in {c1, c2, c3} |-> IF i = c3 THEN <<m1>> ELSE <<m1, m2, m3>>]

MCProviderOf == (m1 :> 2) @@ (m2 :> 3) @@ (m3 :> 2)
MCModelOf == (m1 :> 2) @@ (m2 :> 2) @@ (m3 :> 1)

MCFallbackPolicy ==
    [i \in {c1, c2, c3} |-> IF i = c1 THEN [providers |-> <<2, 3>>, maxAttempts |-> 2]
                            ELSE [providers |-> << >>, maxAttempts |-> 1]]

PlanMade(c, request) ==
    [k \in DOMAIN MCPlan[c] |-> [provider |-> MCProviderOf[MCPlan[c][k]], model |-> MCModelOf[MCPlan[c][k]]]]
      = Route(request, << >>, << >>, MCRegistry).targets

ASSUME PlansAreRouted ==
    /\ PlanMade(c1, [capabilities |-> {q1}, preferredModel |-> 2])
    /\ PlanMade(c3, [capabilities |-> {q1, q2}])

MCPrompt == [i \in {c1, c2, c3} |-> IF i = c3 THEN q2 ELSE q1]

-----------------------------------------------------------------------------
\* Caches. Requests that agree in all but what one of the two keys leaves out, and
\* policies that disable, filter, reorder and shrink.
CacheableRequest(prompt, workload, format) ==
    [target |-> m1, prompt |-> prompt, workload |-> workload, format |-> format, maxTokens |-> 1]

MCCacheRequest ==
    (c1 :> CacheableRequest(q1, t1, 1)) @@ (c2 :> CacheableRequest(q1, t2, 1)) @@ (c3 :> CacheableRequest(q2, t1, 2))

MCSimilarity == [p \in {q1, q2} |-> [q \in {q1, q2} |-> IF p = q THEN 100 ELSE 90]]

CachingPolicy(enabled, workloads, stores, ttl, capacity) ==
    [enabled |-> enabled, bypass |-> FALSE, workloads |-> workloads, targets |-> {}, stores |-> stores,
     ttl |-> ttl, maxEntries |-> capacity]

MCCachePolicies ==
    {CachingPolicy(TRUE, {}, << >>, 1, 2), CachingPolicy(TRUE, {t1}, <<"semantic", "remote", "exact">>, 0, 1),
     CachingPolicy(FALSE, {}, << >>, 1, 1)}

MCSimilarityPolicies == {[enabled |-> TRUE, threshold |-> n] : n \in {90, 95}}

FirstCachePolicy == CHOOSE p \in MCCachePolicies : p.maxEntries = 2
FirstSimilarityPolicy == CHOOSE p \in MCSimilarityPolicies : p.threshold = 90

-----------------------------------------------------------------------------
\* Agents. A loop guarded by conditions, a graph without an input that has a dead edge
\* and too many steps, one with too many functions, and an empty one.
Edge(from, to, condition) == [from |-> from, to |-> to, condition |-> condition]
When(op) == [path |-> t1, op |-> op, literal |-> 1]
Node(id, kind) == [id |-> id, kind |-> kind]

MCAgents ==
    {[nodes |-> <<Node("start", "input"), Node("work", "function"), Node("look", "retrieve"), Node("end", "output")>>,
      edges |-> <<Edge("start", "work", undefined), Edge("work", "end", When(op)),
                  Edge("work", "look", undefined), Edge("look", "work", undefined)>>] :
        op \in {"truthy", "==", "!=", ">", "<", ">=", "<="}}
    \cup
    {[nodes |-> <<Node("work", "function"), Node("more", "retrieve"), Node("last", "retrieve"),
                  Node("late", "retrieve")>>,
      edges |-> <<Edge("work", "more", undefined), Edge("more", "last", When("truthy")),
                  Edge("more", "nowhere", undefined), Edge("last", "late", undefined)>>],
     [nodes |-> <<Node("work", "function"), Node("more", "function")>>,
      edges |-> <<Edge("work", "more", undefined)>>],
     [nodes |-> << >>, edges |-> << >>]}

FirstAgent == CHOOSE g \in MCAgents : Len(g.nodes) = 2

-----------------------------------------------------------------------------
\* An archive within an archive within an archive; the innermost is too deep to open.
MCChildren == (t1 :> <<t2>>) @@ (t2 :> <<t3>>) @@ (t3 :> <<m1>>) @@ (m1 :> <<m2>>) @@ (m2 :> << >>)

-----------------------------------------------------------------------------
Init ==
    /\ part \in Parts
    /\ MissionInit /\ (part # "mission" => mission = FirstMission)
    /\ PipelineInit
    /\ AgentInit /\ (part # "agent" => agent = FirstAgent)
    /\ RunsInit /\ (part # "runs" => componentKind = "function")
    /\ IF part = "routing" THEN RoutingInit ELSE routingQuery = FirstRouting /\ routed = NotRouted
    /\ CacheInit
    /\ part # "cache" => cachePolicy = FirstCachePolicy /\ similarityPolicy = FirstSimilarityPolicy

Next ==
    \/ /\ part = "mission" /\ mission \notin PlannedMissions /\ MissionNext
       /\ mission \notin RepeatedMissions => execution' = 1
       /\ UNCHANGED <<part, pipelineVars, agentVars, runsVars, routingVars, cacheVars>>
    \/ /\ part = "inference" /\ PipelineNext
       /\ UNCHANGED <<part, missionVars, agentVars, runsVars, routingVars, cacheVars>>
    \/ /\ part = "agent" /\ AgentNext
       /\ UNCHANGED <<part, missionVars, pipelineVars, runsVars, routingVars, cacheVars>>
    \/ /\ part = "runs" /\ RunsNext /\ (componentKind # "function" => runClock' = 0)
       /\ UNCHANGED <<part, missionVars, pipelineVars, agentVars, routingVars, cacheVars>>
    \/ /\ part = "routing" /\ RouteRequest
       /\ UNCHANGED <<part, missionVars, pipelineVars, agentVars, runsVars, cacheVars>>
    \/ /\ part = "cache" /\ CacheNext
       /\ UNCHANGED <<part, missionVars, pipelineVars, agentVars, runsVars, routingVars>>

vars == <<part, missionVars, pipelineVars, agentVars, runsVars, routingVars, cacheVars>>

\* The progress each component's own specification is fair to.
Progress ==
    /\ \/ part = "mission" /\ MissionStep /\ UNCHANGED <<pipelineVars, agentVars, runsVars>>
       \/ part = "inference" /\ PipelineStep /\ UNCHANGED <<missionVars, agentVars, runsVars>>
       \/ part = "agent" /\ AgentStep /\ UNCHANGED <<missionVars, pipelineVars, runsVars>>
       \/ part = "runs" /\ RunsStep /\ UNCHANGED <<missionVars, pipelineVars, agentVars>>
    /\ UNCHANGED <<part, routingVars, cacheVars>>

Spec == Init /\ [][Next]_vars /\ WF_vars(Progress)

-----------------------------------------------------------------------------
\* The state of the part under way has the type its component declares.
TypeOK ==
    /\ part = "mission" => MissionTypeOK
    /\ part = "inference" => PipelineTypeOK
    /\ part = "agent" => AgentTypeOK
    /\ part = "runs" => RunsTypeOK
    /\ part = "routing" => RoutingTypeOK
    /\ part = "cache" => CacheTypeOK

\* Whatever was begun ends, again and again until nothing is begun any more: a mission
\* execution with its report or a rejection, an inference execution completed or failed
\* whatever batches, circuits and retries do, an agent run by its deadline at the latest,
\* a component run answered or rejected (executeMission, mission-runtime.ts:107;
\* runLifecycle, inference-pipeline.ts:105; withTimeout, agent-runner.ts:62).
ExecutionsEnd == []<>(MissionSettled /\ InferenceSettled /\ AgentSettled /\ RunsSettled)

=============================================================================
