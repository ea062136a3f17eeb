-------------------------- MODULE InferencePipeline --------------------------
(***************************************************************************)
(* The inference execution lifecycle and the middleware around it          *)
(* (src/lib/aiops/execution/inference-pipeline.ts): prompt cache, batch    *)
(* hold, request interceptors, then circuit breaker > fallback > retry     *)
(* around the provider, response validation, cache write, and the health   *)
(* manager observing it all.  Concurrent executions share the circuits,    *)
(* the cache, the forming batches and the health records.                  *)
(***************************************************************************)
EXTENDS CircuitBreaker, ProviderHealth, PromptCache, Subsequences

CONSTANTS
    InferenceCalls,         \* the executions
    Targets,                \* provider and model pairs
    Providers, ProviderOf,  \* the provider of each target
    Prompt,                 \* request of each call, up to the cache's normalisation
    Plan,                   \* execution plan of each call, primary first
    MaxAttempts,            \* retry policy: attempts per target
    FallbackPolicy,         \* fallback policy each call finds: its list of providers and
                            \* the alternates it may try, 0 where fallback is off
    MaxBatchSize,           \* batch policy
    Ttl,                    \* cache policy: time an entry may be served
    MaxEntries,             \* cache policy: capacity
    MaxClock,               \* bound on time
    NoResponse

ASSUME PipelineAssumption ==
    /\ Plan \in [InferenceCalls -> Seq(Targets)]
    /\ \A c \in InferenceCalls : Plan[c] # << >>
    /\ ProviderOf \in [Targets -> Providers]
    /\ FallbackPolicy \in [InferenceCalls -> [providers : Seq(Providers), maxAttempts : Nat]]
    /\ {MaxAttempts, MaxBatchSize, MaxEntries} \subseteq Nat \ {0}
    /\ {MaxClock, Ttl} \subseteq Nat

VARIABLES
    inference,      \* each execution's progress
    circuit,        \* the breaker's records
    health,         \* the health manager's records
    promptCache,    \* the exact-match store, oldest entry first
    held,           \* forming batches, by primary target
    clock

pipelineVars == <<inference, circuit, health, promptCache, held, clock>>

\* Normalised error kinds: transient ones are retryable, fallback eligible and
\* tripping under the default policies, permanent ones are none of these.
Transient == "transient"
Permanent == "permanent"

Responses == [by : Targets, valid : BOOLEAN]

Phases == {"idle", "held", "secure", "invoking", "backoff", "validate", "completed", "failed"}

Primary(c) == Plan[c][1]

\* The targets of each call's plan but the primary one, in order.
Alternates ==
    [c \in InferenceCalls |-> Kept(Plan[c], {i \in DOMAIN Plan[c] : Plan[c][i] # Primary(c)})]

OfProvider(targets, p) == Kept(targets, {i \in DOMAIN targets : ProviderOf[targets[i]] = p})

\* Mutated: the policy's list of providers is not looked at.
PlanOrder(c) == Alternates[c]

\* The alternates the policy lets in: those of each provider it lists, in the list's order
\* and then in the plan's, or all of them when it lists none.
Chosen(c) ==
    LET listed == FallbackPolicy[c].providers
    IN  IF listed = << >> THEN Alternates[c]
        ELSE FlattenSeq([k \in DOMAIN listed |-> OfProvider(Alternates[c], listed[k])])

\* orderedFallbackTargets: the alternates chosen, cut at the policy's bound. The invocation
\* path of each call is its primary followed by those.
Path ==
    [c \in InferenceCalls |->
       LET most == FallbackPolicy[c].maxAttempts
           n == IF Len(Chosen(c)) < most THEN Len(Chosen(c)) ELSE most
       IN  <<Primary(c)>> \o SubSeq(Chosen(c), 1, n)]

IdleCall(c) ==
    [phase |-> "idle", response |-> NoResponse, cached |-> FALSE, at |-> 1,
     attempts |-> [i \in DOMAIN Path[c] |-> 0], admittedAt |-> 0]

\* An execution that returned: its locals are gone.
Ended(c, phase) == [IdleCall(c) EXCEPT !.phase = phase]

PipelineInit ==
    /\ inference = [c \in InferenceCalls |-> IdleCall(c)]
    /\ circuit = [t \in Targets |-> NewCircuit]
    /\ health = [t \in Targets |-> NewHealth]
    /\ promptCache = << >>
    /\ held = [t \in Targets |-> << >>]
    /\ clock = 0

-----------------------------------------------------------------------------
CacheKey(c) == <<Primary(c), Prompt[c]>>

InBatch(c, batch) == \E i \in DOMAIN batch : batch[i] = c

\* dispatch: every held request of the batch continues.
Released(calls, batch) ==
    [c \in InferenceCalls |-> IF InBatch(c, batch) THEN [calls[c] EXCEPT !.phase = "secure"]
                              ELSE calls[c]]

\* resolveCompletion: the cache answers, or the batch scheduler holds the request
\* and dispatches its batch when that is full.
Begin(c) ==
    LET key == CacheKey(c)
        batch == Append(held[Primary(c)], c)
        started == [inference EXCEPT ![c].phase = "held"]
    IN  /\ inference[c].phase = "idle"
        /\ promptCache' = AfterLookup(promptCache, key, clock)
        /\ IF IsHit(promptCache, key, clock)
           THEN /\ inference' = [started EXCEPT ![c].phase = "secure", ![c].cached = TRUE,
                                   ![c].response = Entry(promptCache, key).response]
                /\ UNCHANGED held
           ELSE IF Len(batch) >= MaxBatchSize
           THEN /\ inference' = Released(started, batch)
                /\ held' = [held EXCEPT ![Primary(c)] = << >>]
           ELSE /\ inference' = started
                /\ held' = [held EXCEPT ![Primary(c)] = batch]
        /\ UNCHANGED <<circuit, health, clock>>

\* Mutated: the timer drops the batch it was armed for.
BatchDropped(t) ==
    /\ held[t] # << >>
    /\ held' = [held EXCEPT ![t] = << >>]
    /\ UNCHANGED <<inference, circuit, health, promptCache, clock>>

\* The wait timer of a forming batch, armed by its first request, fires.
BatchTimeout(t) ==
    /\ held[t] # << >>
    /\ inference' = Released(inference, held[t])
    /\ held' = [held EXCEPT ![t] = << >>]
    /\ UNCHANGED <<circuit, health, promptCache, clock>>

-----------------------------------------------------------------------------
\* executionFailed: the execution ends with a normalised failure, a sample of its
\* primary's health after whatever its circuit reported.
Fail(c, observed) ==
    /\ inference' = [inference EXCEPT ![c] = Ended(c, "failed")]
    /\ health' = [health EXCEPT ![Primary(c)] = AfterExecution(observed, FALSE)]

\* The firewall or the PII policy rejects the request, cached answer or not.
RejectRequest(c) ==
    /\ inference[c].phase = "secure"
    /\ Fail(c, health[Primary(c)])
    /\ UNCHANGED <<circuit, promptCache, held, clock>>

\* The request passes: a cached answer goes on to validation, others to the breaker.
PassRequest(c) ==
    LET p == Primary(c)
        r == circuit[p]
    IN  /\ inference[c].phase = "secure"
        /\ IF inference[c].cached
           THEN /\ inference' = [inference EXCEPT ![c].phase = "validate"]
                /\ UNCHANGED <<circuit, health>>
           ELSE IF Admits(r, clock)
           THEN /\ circuit' = [circuit EXCEPT ![p] = AfterAdmission(r)]
                /\ health' = IF r.state = "open"
                             THEN [health EXCEPT ![p] = AfterCircuitEvent(@, "half_open")]
                             ELSE health
                /\ inference' = [inference EXCEPT ![c].phase = "invoking",
                                   ![c].attempts[1] = 1, ![c].admittedAt = clock]
           ELSE /\ Fail(c, AfterCircuitEvent(health[p], "open"))
                /\ UNCHANGED circuit
        /\ UNCHANGED <<promptCache, held, clock>>

\* The target answers; the breaker sees the success whichever target produced it.
ProviderSucceeds(c, valid) ==
    LET p == Primary(c)
        r == AfterSuccess(circuit[p])
    IN  /\ inference[c].phase = "invoking"
        /\ inference' = [inference EXCEPT ![c].phase = "validate",
                ![c].response = [by |-> Path[c][inference[c].at], valid |-> valid]]
        /\ circuit' = [circuit EXCEPT ![p] = r]
        /\ health' = IF circuit[p].state = "half_open" /\ r.state = "closed"
                     THEN [health EXCEPT ![p] = AfterCircuitEvent(@, "closed")] ELSE health
        /\ UNCHANGED <<promptCache, held, clock>>

\* Whether the retry layer tries the current target again, or the fallback layer
\* the next one: only a transient primary failure starts the fallback, whose own
\* targets are then tried whatever they fail with.
Retries(c, kind) == kind = Transient /\ inference[c].attempts[inference[c].at] < MaxAttempts

\* Mutated: the fallback does not wait for the retries.
FallsBackAtOnce(c, kind) == kind = Transient /\ inference[c].at < Len(Path[c])

FallsBack(c, kind) ==
    /\ ~Retries(c, kind)
    /\ kind = Transient \/ inference[c].at > 1
    /\ inference[c].at < Len(Path[c])

ProviderFails(c, kind) ==
    LET p == Primary(c)
        at == inference[c].at
        r == IF kind = Transient THEN AfterFailure(circuit[p], clock) ELSE circuit[p]
    IN  /\ inference[c].phase = "invoking"
        /\ \/ /\ Retries(c, kind)
              /\ inference' = [inference EXCEPT ![c].phase = "backoff"]
              /\ UNCHANGED <<circuit, health>>
           \/ /\ FallsBack(c, kind)
              /\ inference' = [inference EXCEPT ![c].at = at + 1, ![c].attempts[at + 1] = 1]
              /\ UNCHANGED <<circuit, health>>
           \/ /\ ~Retries(c, kind) /\ ~FallsBack(c, kind)
              /\ circuit' = [circuit EXCEPT ![p] = r]
              /\ Fail(c, IF kind = Transient /\ r.state = "open"
                         THEN AfterCircuitEvent(health[p], "open") ELSE health[p])
        /\ UNCHANGED <<promptCache, held, clock>>

\* The backoff ends and the same target is invoked again.
RetryInvoke(c) ==
    /\ inference[c].phase = "backoff"
    /\ inference' = [inference EXCEPT ![c].phase = "invoking",
                                      ![c].attempts[inference[c].at] = @ + 1]
    /\ UNCHANGED <<circuit, health, promptCache, held, clock>>

\* Mutated: the cache is written before the response is validated.
StoreThenValidate(c) ==
    LET response == inference[c].response IN
    /\ inference[c].phase = "validate"
    /\ promptCache' = AfterStore(promptCache, CacheKey(c), response, clock, Ttl, MaxEntries)
    /\ IF response.valid
       THEN /\ inference' = [inference EXCEPT ![c] = Ended(c, "completed")]
            /\ health' = [health EXCEPT ![Primary(c)] = AfterExecution(@, TRUE)]
       ELSE Fail(c, health[Primary(c)])
    /\ UNCHANGED <<circuit, held, clock>>

\* interceptResponse, recordCompletion and afterExecute.
ValidateResponse(c) ==
    LET response == inference[c].response IN
    /\ inference[c].phase = "validate"
    /\ IF response.valid
       THEN /\ promptCache' = IF inference[c].cached THEN promptCache
                              ELSE AfterStore(promptCache, CacheKey(c), response, clock, Ttl, MaxEntries)
            /\ inference' = [inference EXCEPT ![c] = Ended(c, "completed")]
            /\ health' = [health EXCEPT ![Primary(c)] = AfterExecution(@, TRUE)]
       ELSE /\ Fail(c, health[Primary(c)])
            /\ UNCHANGED promptCache
    /\ UNCHANGED <<circuit, held, clock>>

Tick ==
    /\ clock < MaxClock
    /\ clock' = clock + 1
    /\ UNCHANGED <<inference, circuit, health, promptCache, held>>

\* Progress of one execution once it has begun; the provider eventually answers.
CallStep(c) ==
    \/ RejectRequest(c)
    \/ PassRequest(c)
    \/ \E valid \in BOOLEAN : ProviderSucceeds(c, valid)
    \/ \E kind \in {Transient, Permanent} : ProviderFails(c, kind)
    \/ RetryInvoke(c)
    \/ ValidateResponse(c)

\* Progress of what has begun, the batch timers included.
PipelineStep ==
    \/ \E c \in InferenceCalls : CallStep(c)
    \/ \E t \in Targets : BatchTimeout(t)

PipelineNext ==
    \/ \E c \in InferenceCalls : Begin(c)
    \/ PipelineStep
    \/ Tick

PipelineSpec == PipelineInit /\ [][PipelineNext]_pipelineVars /\ WF_pipelineVars(PipelineStep)

-----------------------------------------------------------------------------
PipelineTypeOK ==
    /\ \A c \in InferenceCalls :
         /\ inference[c].phase \in Phases
         /\ inference[c].response \in Responses \cup {NoResponse}
         /\ inference[c].at \in DOMAIN Path[c]
         /\ inference[c].attempts \in [DOMAIN Path[c] -> 0 .. MaxAttempts]
    /\ circuit \in [Targets -> Circuits]
    /\ \A t \in Targets :
         /\ Len(health[t].samples) <= ObservationWindow
         /\ health[t].circuit \in ObservedCircuit
         /\ health[t].status \in HealthStatus
    /\ Len(promptCache) <= MaxEntries
    /\ held \in [Targets -> Seq(InferenceCalls)]
    /\ clock \in 0 .. MaxClock

\* What the cache holds, and so what it can serve, passed response validation and
\* came from a target of the plan of some execution with that primary; no key is
\* held twice (resolveCompletion and recordCompletion, inference-pipeline.ts:121).
CacheHoldsValidated ==
    \A i \in DOMAIN promptCache :
      /\ promptCache[i].response.valid
      /\ \E c \in InferenceCalls : /\ promptCache[i].key = CacheKey(c)
                                   /\ \E k \in DOMAIN Path[c] : promptCache[i].response.by = Path[c][k]
      /\ \A j \in DOMAIN promptCache : promptCache[i].key = promptCache[j].key => i = j

\* While a circuit is open, whoever is still invoking through it was admitted no later
\* than it last opened: an open circuit keeps new executions away from the provider
\* even as late failures, fallbacks and retries of older ones come in
\* (aroundInvoke, circuit-breaker.ts:86).
OpenCircuitShields ==
    \A c \in InferenceCalls :
      /\ inference[c].phase \in {"invoking", "backoff"}
      /\ circuit[Primary(c)].state = "open"
      => inference[c].admittedAt <= circuit[Primary(c)].openedAt

\* The published health and the breaker never disagree: a provider whose circuit is
\* open is reported unavailable, and its observed circuit state is the real one
\* (onEvent, health-manager.ts:77).
HealthFollowsCircuit ==
    \A t \in Targets :
      /\ circuit[t].state = "open" <=> health[t].circuit = "open"
      /\ circuit[t].state = "open" => health[t].status = "unavailable"

\* An open circuit is effective and known (circuit-breaker.ts:86, health-manager.ts:77).
OpenCircuitShieldsAndShows == OpenCircuitShields /\ HealthFollowsCircuit

\* Some place of the plan that holds target t comes before one that holds u.
Planned(c, t, u) == \E a, b \in DOMAIN Plan[c] : a < b /\ Plan[c][a] = t /\ Plan[c][b] = u

\* Whether the fallback policy of c puts alternate t before u.
TriedBefore(c, t, u) ==
    LET listed == FallbackPolicy[c].providers
    IN  IF listed = << >> THEN Planned(c, t, u)
        ELSE \E k, l \in DOMAIN listed :
               /\ k <= l /\ ProviderOf[t] = listed[k] /\ ProviderOf[u] = listed[l]
               /\ k = l => Planned(c, t, u)

\* Fallback is the last resort, in the order of the policy and bounded by it: a target is
\* invoked only after every target before it failed, the primary with a transient error on
\* its last attempt; the alternates invoked are of the plan and of providers the policy
\* lists, in its order; one request makes at most as many provider calls as the attempts of
\* a target times the targets the policy allows, and one refused before the breaker none
\* (FallbackOrchestrator.aroundInvoke, fallback-orchestrator.ts:39, fallback-strategy.ts:18,
\* and the retries within, retry-coordinator.ts:62).
FallbackInPolicyOrder ==
    \A c \in InferenceCalls :
      LET n == inference[c].attempts
          at == inference[c].at
      IN
      /\ \A i \in DOMAIN n : n[i] > 0 => i <= at /\ n[i] <= MaxAttempts
      /\ at <= 1 + FallbackPolicy[c].maxAttempts
      /\ \A i \in DOMAIN n \ {1} : n[i] > 0 => n[1] = MaxAttempts
      /\ \A i, j \in 2 .. at : i < j => TriedBefore(c, Path[c][i], Path[c][j])
      /\ \A i \in 2 .. at : /\ Path[c][i] # Primary(c) /\ \E k \in DOMAIN Plan[c] : Path[c][i] = Plan[c][k]
                            /\ \/ FallbackPolicy[c].providers = << >>
                               \/ ProviderOf[Path[c][i]] \in ToSet(FallbackPolicy[c].providers)
      /\ inference[c].cached => \A i \in DOMAIN n : n[i] = 0

\* Every execution that began has ended, completed or failed.
InferenceSettled == \A c \in InferenceCalls : inference[c].phase \in {"idle", "completed", "failed"}

=============================================================================
