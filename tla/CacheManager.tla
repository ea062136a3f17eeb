------------------------------ MODULE CacheManager ------------------------------
(***************************************************************************)
(* The cache platform (src/lib/aiops/cache): the manager that gates a      *)
(* request by policy, asks the stores the resolver names one after the     *)
(* other and writes a fresh response through to them, over the exact-match *)
(* store (PromptCache) and the semantic one.  Policies change between any  *)
(* two steps; a look-up and a write each keep the one they began with.     *)
(***************************************************************************)
EXTENDS PromptCache, Subsequences, FiniteSets

CONSTANTS
    CacheCalls,         \* executions that pass the cache
    CacheRequest,       \* call -> [target, prompt, workload, format, maxTokens]
    Similarity,         \* prompt -> prompt -> cosine similarity in percent
    CachePolicies,      \* [enabled, bypass, workloads, targets, stores, ttl, maxEntries]
    SimilarityPolicies, \* [enabled, threshold]
    MaxCacheTime,       \* bound on time
    NoAnswer

ASSUME CacheAssumption ==
    /\ \A p \in CachePolicies : p.ttl \in Nat /\ p.maxEntries \in Nat
    /\ MaxCacheTime \in Nat

VARIABLES
    cachePolicy, similarityPolicy,  \* the snapshots in force
    exactStore, semanticStore,      \* entries, oldest first
    cacheCall,                      \* each call's progress, its policy and what it was served
    cacheTime

cacheVars == <<cachePolicy, similarityPolicy, exactStore, semanticStore, cacheCall, cacheTime>>

Registered == <<"exact", "semantic">>

\* isCacheable: an empty filter admits everything.
IsCacheable(policy, request) ==
    /\ policy.enabled /\ ~policy.bypass
    /\ policy.workloads # {} => request.workload \in policy.workloads
    /\ policy.targets # {} => request.target \in policy.targets

\* CacheResolver: the order of the policy, if it names any; unknown names are skipped.
Resolved(policy) ==
    IF policy.stores = << >> THEN Registered
    ELSE SelectSeq(policy.stores, LAMBDA s : s \in ToSet(Registered))

\* Neither key has the whole request: the exact one leaves the workload out.
ExactKey(r) == [target |-> r.target, prompt |-> r.prompt, format |-> r.format, maxTokens |-> r.maxTokens]

\* Mutated: responses of any format are comparable.
GroupWithoutFormat(r) == <<r.target, r.workload>>

\* compatKeyOf leaves the token limit out.
CompatGroup(r) == <<r.target, r.workload, r.format>>

IdleCacheCall == [at |-> "idle", todo |-> << >>, policy |-> NoAnswer, answer |-> NoAnswer]

CacheInit ==
    /\ cachePolicy \in CachePolicies /\ similarityPolicy \in SimilarityPolicies
    /\ exactStore = << >> /\ semanticStore = << >>
    /\ cacheCall = [c \in CacheCalls |-> IdleCacheCall]
    /\ cacheTime = 0

-----------------------------------------------------------------------------
Answer(by, store) ==
    [by |-> by, store |-> store, threshold |-> similarityPolicy.threshold, servedAt |-> cacheTime]

\* A look-up or a write has come to the end of its stores.
Remaining(call, end) == [call EXCEPT !.at = IF Len(call.todo) = 1 THEN end ELSE @, !.todo = Tail(@)]

\* lookup: what is not cacheable goes to the provider, past every store.
BeginLookup(c) ==
    LET stores == Resolved(cachePolicy) IN
    /\ cacheCall[c].at = "idle"
    /\ cacheCall' = [cacheCall EXCEPT ![c] =
         IF IsCacheable(cachePolicy, CacheRequest[c]) /\ stores # << >>
         THEN [@ EXCEPT !.at = "looking", !.todo = stores, !.policy = cachePolicy]
         ELSE [@ EXCEPT !.at = "invoking"]]
    /\ UNCHANGED <<cachePolicy, similarityPolicy, exactStore, semanticStore, cacheTime>>

LookInExact(c) ==
    LET key == ExactKey(CacheRequest[c])
    IN  /\ cacheCall[c].at = "looking" /\ Head(cacheCall[c].todo) = "exact"
        /\ exactStore' = AfterLookup(exactStore, key, cacheTime)
        /\ cacheCall' = [cacheCall EXCEPT ![c] =
             IF IsHit(exactStore, key, cacheTime)
             THEN [@ EXCEPT !.at = "served", !.answer = Answer(Entry(exactStore, key).response, "exact")]
             ELSE Remaining(@, "invoking")]
        /\ UNCHANGED <<cachePolicy, similarityPolicy, semanticStore, cacheTime>>

\* What is expired leaves the semantic store first; of the most similar entries of the
\* group the oldest answers, if it is similar enough, and becomes the youngest.
LookInSemantic(c) ==
    LET r == CacheRequest[c]
        live == Kept(semanticStore, {i \in DOMAIN semanticStore : cacheTime <= semanticStore[i].expiresAt})
        similarity(i) == Similarity[r.prompt][live[i].prompt]
        candidates == {i \in DOMAIN live : live[i].group = CompatGroup(r) /\ similarity(i) > 0}
        better(i, j) == similarity(i) > similarity(j) \/ (similarity(i) = similarity(j) /\ i < j)
        hits == {i \in candidates : /\ similarity(i) >= similarityPolicy.threshold
                                    /\ \A j \in candidates \ {i} : better(i, j)}
        hit == CHOOSE i \in hits : TRUE
        found == similarityPolicy.enabled /\ hits # {}
    IN  /\ cacheCall[c].at = "looking" /\ Head(cacheCall[c].todo) = "semantic"
        /\ semanticStore' = IF found THEN RemoveAt(live, hit) \o <<live[hit]>> ELSE live
        /\ cacheCall' = [cacheCall EXCEPT ![c] =
             IF found THEN [@ EXCEPT !.at = "served", !.answer = Answer(live[hit].response, "semantic")]
             ELSE Remaining(@, "invoking")]
        /\ UNCHANGED <<cachePolicy, similarityPolicy, exactStore, cacheTime>>

\* The provider answers, and validation passes the response on or fails the call.
ProviderAnswers(c) ==
    LET stores == Resolved(cachePolicy) IN
    /\ cacheCall[c].at = "invoking"
    /\ \E valid \in BOOLEAN :
         cacheCall' = [cacheCall EXCEPT ![c] =
           IF valid /\ IsCacheable(cachePolicy, CacheRequest[c]) /\ stores # << >>
           THEN [@ EXCEPT !.at = "storing", !.todo = stores, !.policy = cachePolicy]
           ELSE [@ EXCEPT !.at = IF valid THEN "answered" ELSE "failed"]]
    /\ UNCHANGED <<cachePolicy, similarityPolicy, exactStore, semanticStore, cacheTime>>

StoreInExact(c) ==
    LET p == cacheCall[c].policy IN
    /\ cacheCall[c].at = "storing" /\ Head(cacheCall[c].todo) = "exact"
    /\ exactStore' = AfterStore(exactStore, ExactKey(CacheRequest[c]), c, cacheTime, p.ttl, p.maxEntries)
    /\ cacheCall' = [cacheCall EXCEPT ![c] = Remaining(@, "answered")]
    /\ UNCHANGED <<cachePolicy, similarityPolicy, semanticStore, cacheTime>>

\* The semantic store appends whatever it already holds, and drops the oldest past its
\* capacity.
StoreInSemantic(c) ==
    LET r == CacheRequest[c]
        p == cacheCall[c].policy
        all == Append(semanticStore, [group |-> CompatGroup(r), prompt |-> r.prompt, response |-> c,
                                      expiresAt |-> cacheTime + p.ttl])
    IN  /\ cacheCall[c].at = "storing" /\ Head(cacheCall[c].todo) = "semantic"
        /\ semanticStore' = IF similarityPolicy.enabled THEN Evicted(all, p.maxEntries) ELSE semanticStore
        /\ cacheCall' = [cacheCall EXCEPT ![c] = Remaining(@, "answered")]
        /\ UNCHANGED <<cachePolicy, similarityPolicy, exactStore, cacheTime>>

ConfigureCaches ==
    /\ \/ cachePolicy' \in CachePolicies /\ UNCHANGED similarityPolicy
       \/ similarityPolicy' \in SimilarityPolicies /\ UNCHANGED cachePolicy
    /\ UNCHANGED <<exactStore, semanticStore, cacheCall, cacheTime>>

CacheTick ==
    /\ cacheTime < MaxCacheTime
    /\ cacheTime' = cacheTime + 1
    /\ UNCHANGED <<cachePolicy, similarityPolicy, exactStore, semanticStore, cacheCall>>

CacheNext ==
    \/ \E c \in CacheCalls : \/ BeginLookup(c) \/ LookInExact(c) \/ LookInSemantic(c)
                             \/ ProviderAnswers(c) \/ StoreInExact(c) \/ StoreInSemantic(c)
    \/ ConfigureCaches \/ CacheTick

CacheSpec == CacheInit /\ [][CacheNext]_cacheVars

-----------------------------------------------------------------------------
CacheTypeOK ==
    /\ cachePolicy \in CachePolicies /\ similarityPolicy \in SimilarityPolicies
    /\ \A i \in DOMAIN exactStore : exactStore[i].response \in CacheCalls
    /\ \A i \in DOMAIN semanticStore : semanticStore[i].response \in CacheCalls
    /\ \A c \in CacheCalls : cacheCall[c].at \in {"idle", "looking", "invoking", "storing", "served",
                                                  "answered", "failed"}
    /\ cacheTime \in 0 .. MaxCacheTime

Capacities == {p.maxEntries : p \in CachePolicies}
Ttls == {p.ttl : p \in CachePolicies}

\* Whatever policies come and go between a look-up and a write: what a call is served was
\* written for an answer that came fresh and validated from the provider, never for one
\* that was itself served; it was for the same target and format, from the exact store
\* for the same prompt and token limit, from the semantic store for the same workload and
\* a prompt as similar as the policy of the moment asked; and no store outgrows the
\* largest capacity it was ever given or holds an exact key twice (lookup and store,
\* cache-manager.ts:89; semantic-cache-store.ts:85).
ServedIsComparable ==
    /\ \A c \in CacheCalls : cacheCall[c].at = "served" =>
         LET a == cacheCall[c].answer
             r == CacheRequest[c]
             q == CacheRequest[a.by]
         IN  /\ cacheCall[a.by].at \in {"storing", "answered"} /\ cacheCall[a.by].answer = NoAnswer
             /\ r.target = q.target /\ r.format = q.format
             /\ a.store = "exact" => r.prompt = q.prompt /\ r.maxTokens = q.maxTokens
             /\ a.store = "semantic" => r.workload = q.workload /\ Similarity[r.prompt][q.prompt] >= a.threshold
    /\ \A s \in {exactStore, semanticStore} :
         /\ \E n \in Capacities : Len(s) <= n
         /\ \A i \in DOMAIN s : \E ttl \in Ttls : s[i].expiresAt <= cacheTime + ttl
    /\ \A i, j \in DOMAIN exactStore : exactStore[i].key = exactStore[j].key => i = j

=============================================================================
