------------------------------- MODULE Routing -------------------------------
(***************************************************************************)
(* Governed routing (src/lib/aiops/routing): what a request needs and what *)
(* the policy in force for its tenant admits select and order the models   *)
(* of the provider registry into an execution plan, the only targets an    *)
(* execution may invoke; and the pinned request of a replay                *)
(* (src/lib/aiops/replay/replay-engine.ts).  Pure functions.               *)
(***************************************************************************)
EXTENDS Integers, FiniteSets, Sequences, SequencesExt, Subsequences

CONSTANTS
    Registry,           \* providers, as list() sorts them: [id, priority, models]
    RoutingQueries      \* [request, policy, overrides] to route

\* A registered id is taken, and a provider's descriptors go by their model.
WellRegistered(registry) ==
    /\ registry \in Seq(ToSet(registry))
    /\ \A i, j \in DOMAIN registry : i # j => registry[i].id # registry[j].id
    /\ \A provider \in ToSet(registry) :
         /\ provider.id \in Int /\ provider.priority \in Int /\ provider.models \in Seq(ToSet(provider.models))
         /\ \A i, j \in DOMAIN provider.models : i # j => provider.models[i].model # provider.models[j].model
         /\ \A d \in ToSet(provider.models) : d.model \in Int

\* Preferred providers come in an order.
PolicyTyped(policy) == "preferredProviders" \in DOMAIN policy => policy.preferredProviders \in Seq(Int)

ASSUME RoutingAssumption ==
    /\ WellRegistered(Registry)
    /\ \A q \in RoutingQueries : /\ PolicyTyped(q.policy)
                                 /\ \A tenant \in DOMAIN q.overrides : PolicyTyped(q.overrides[tenant])

VARIABLES routingQuery, routed

routingVars == <<routingQuery, routed>>

NotRouted == [targets |-> << >>, rejected |-> << >>]

\* A policy or a request gives only some of its fields.
Field(record, field, default) == IF field \in DOMAIN record THEN record[field] ELSE default

\* Fields laid over a record: @@ of the TLC module, which the provers do not know.
Overlaid(fields, record) ==
    [field \in DOMAIN fields \cup DOMAIN record |-> IF field \in DOMAIN fields THEN fields[field] ELSE record[field]]

\* effectivePolicy: the tenant's override replaces whole fields of the base.
EffectivePolicy(policy, overrides, request) ==
    IF "tenantId" \in DOMAIN request /\ request.tenantId \in DOMAIN overrides
    THEN Overlaid(overrides[request.tenantId], policy) ELSE policy

Target(c) == [provider |-> c.provider, model |-> c.descriptor.model]

\* Every published model with its provider, in the registry's order.
Published(registry) ==
    FlattenSeq([i \in DOMAIN registry |->
                  [k \in DOMAIN registry[i].models |->
                     [provider |-> registry[i].id, priority |-> registry[i].priority,
                      descriptor |-> registry[i].models[k]]]])

\* resolveByCapability: declared capabilities, deprecation and context window only.
CapabilityRejection(request, d) ==
    IF ~(Field(request, "capabilities", {}) \subseteq d.capabilities) THEN "missing capability"
    ELSE IF d.deprecated THEN "deprecated"
    ELSE IF d.window < Field(request, "minimumContextWindow", 0) THEN "window too small" ELSE "none"

\* Mutated: a denied provider that is also allowed passes.
PolicyRejectionUnlessAllowed(pol, c) ==
    IF c.provider \notin Field(pol, "allowedProviders", {c.provider}) THEN "not allowed"
    ELSE IF "allowedProviders" \notin DOMAIN pol /\ c.provider \in Field(pol, "deniedProviders", {}) THEN "denied"
    ELSE IF ~(Field(pol, "requiredCapabilities", {}) \subseteq c.descriptor.capabilities) THEN "policy capability"
    ELSE IF c.descriptor.family \notin Field(pol, "requiredModelFamilies", {c.descriptor.family}) THEN "family"
    ELSE IF c.descriptor.window > Field(pol, "maximumContextWindow", c.descriptor.window) THEN "window too large"
    ELSE "none"

\* What the policy refuses of what is eligible.
PolicyRejection(pol, c) ==
    IF c.provider \notin Field(pol, "allowedProviders", {c.provider}) THEN "not allowed"
    ELSE IF c.provider \in Field(pol, "deniedProviders", {}) THEN "denied"
    ELSE IF ~(Field(pol, "requiredCapabilities", {}) \subseteq c.descriptor.capabilities) THEN "policy capability"
    ELSE IF c.descriptor.family \notin Field(pol, "requiredModelFamilies", {c.descriptor.family}) THEN "family"
    ELSE IF c.descriptor.window > Field(pol, "maximumContextWindow", c.descriptor.window) THEN "window too large"
    ELSE "none"

\* Past every index, priority and rank.
NoPlace == 1000

\* preferenceKey: providers and models are numbered in the order of their names.
PreferenceKey(c, request, pol) ==
    LET preferred == Field(pol, "preferredProviders", << >>)
        places == {i \in DOMAIN preferred : preferred[i] = c.provider}
    IN  <<IF Field(request, "preferredModel", NoPlace) = c.descriptor.model THEN 0 ELSE 1,
          IF Field(request, "preferredProvider", NoPlace) = c.provider THEN 0 ELSE 1,
          IF places = {} THEN NoPlace ELSE CHOOSE i \in places : \A k \in places : i <= k,
          c.priority, c.provider, c.descriptor.model>>

\* compareKeys
Precedes(v, w) == \E i \in DOMAIN v : v[i] < w[i] /\ \A k \in 1 .. i - 1 : v[k] = w[k]

\* The places of some candidates, sorted by their keys; the sort is stable.
Sorted(all, places, request, pol) ==
    LET keys == [i \in places |-> PreferenceKey(all[i], request, pol)]
        ranks == [i \in places |-> Cardinality({j \in places : \/ Precedes(keys[j], keys[i])
                                                              \/ (keys[j] = keys[i] /\ j < i)})]
    IN  [n \in 1 .. Cardinality(places) |-> CHOOSE i \in places : ranks[i] = n - 1]

Route(request, policy, overrides, registry) ==
    LET pol == EffectivePolicy(policy, overrides, request)
        all == Published(registry)
        capable(i) == CapabilityRejection(request, all[i].descriptor)
        admitted(i) == PolicyRejection(pol, all[i])
        eligible == {i \in DOMAIN all : capable(i) = "none"}
        surviving == {i \in eligible : admitted(i) = "none"}
        ordered == Sorted(all, surviving, request, pol)
        rejections(places, reason) ==
          Kept([i \in DOMAIN all |-> [provider |-> all[i].provider, model |-> all[i].descriptor.model,
                                      reason |-> reason[i]]], places)
    IN  [targets |-> [n \in DOMAIN ordered |-> Target(all[ordered[n]])],
         rejected |-> rejections(DOMAIN all \ eligible, [i \in DOMAIN all |-> capable(i)])
                      \o rejections(eligible \ surviving, [i \in DOMAIN all |-> admitted(i)])]

\* replayOne: routing is asked for the recorded target alone, which replaces the
\* policy's own list of allowed providers; any other selection is not executed.
Replayed(target, capabilities, policy, registry) ==
    LET request == [capabilities |-> capabilities, preferredProvider |-> target.provider,
                    preferredModel |-> target.model]
        plan == Route(request, Overlaid([allowedProviders |-> {target.provider}], policy), << >>, registry).targets
    IN  plan # << >> /\ plan[1] = target

-----------------------------------------------------------------------------
RoutingInit == routingQuery \in RoutingQueries /\ routed = NotRouted

RouteRequest ==
    /\ routed = NotRouted
    /\ routed' = Route(routingQuery.request, routingQuery.policy, routingQuery.overrides, Registry)
    /\ UNCHANGED routingQuery

RoutingSpec == RoutingInit /\ [][RouteRequest]_routingVars

-----------------------------------------------------------------------------
RoutingTypeOK ==
    LET targets == {Target(Published(Registry)[i]) : i \in DOMAIN Published(Registry)} IN
    /\ ToSet(routed.targets) \subseteq targets
    /\ \A i \in DOMAIN routed.rejected : routed.rejected[i].reason # "none"

\* The plan authorizes what it should and no more, in an order that is total: every
\* published model is in the plan or rejected, exactly once; the plan does not depend on
\* the order of the registry; denying one more provider takes its targets out and leaves
\* the others and their order, whatever the policy and its override allow; a preferred
\* model that is authorized comes first; and a replay runs exactly when the recorded
\* target would be authorized if its provider were allowed (route, routing-engine.ts:56;
\* replayOne, replay-engine.ts:126).
PlanIsAuthorized ==
    LET q == routingQuery
        pol == EffectivePolicy(q.policy, q.overrides, q.request)
        all == Published(Registry)
        plan == routed.targets
        rejected == [i \in DOMAIN routed.rejected |-> [provider |-> routed.rejected[i].provider,
                                                       model |-> routed.rejected[i].model]]
        capabilities == Field(q.request, "capabilities", {})
    IN  routed # NotRouted =>
          /\ Len(plan) + Len(rejected) = Len(all)
          /\ ToSet(plan) \cup ToSet(rejected) = {Target(all[i]) : i \in DOMAIN all}
          /\ Route(q.request, q.policy, q.overrides, Reverse(Registry)).targets = plan
          /\ \A i \in DOMAIN Registry :
               LET p == Registry[i].id
                   denied == Overlaid([deniedProviders |-> Field(pol, "deniedProviders", {}) \cup {p}], pol)
               IN  Route(q.request, denied, << >>, Registry).targets
                     = Kept(plan, {k \in DOMAIN plan : plan[k].provider # p})
          /\ \A i \in DOMAIN plan :
               plan[i].model = Field(q.request, "preferredModel", NoPlace) => plan[1].model = plan[i].model
          /\ \A i \in DOMAIN all :
               LET t == Target(all[i])
                   open == Overlaid([allowedProviders |-> {t.provider}], q.policy)
                   authorized == Route([capabilities |-> capabilities], open, << >>, Registry).targets
               IN  Replayed(t, capabilities, q.policy, Registry) <=> t \in ToSet(authorized)

=============================================================================
