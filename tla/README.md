# Formal models of adam_os

adam_os is a TypeScript monolith (Next.js under `src/app`, services under
`src/lib`) that runs AI-assisted operations for tenants: it ingests data into an
ontology, runs functions, agents and pipelines over it, and lets people govern
what these may do. This directory holds TLA+ models of its core logic, the TLC
configurations that check them and proofs that TLAPS checks. Paths below are
relative to the repository's `src/` directory; `PROJECT.json` maps every
definition to its lines, lists the runs, the mutations each property detects,
the hazards and the findings.

    tlc -config ActionSafety.cfg MCActionEngine.tla            # one component
    tlc -config ExecutionServices.cfg MCExecutionServices.tla  # the execution services
    tlc -config DataServices.cfg MCDataServices.tla            # the data services
    tlapm ActionEngineProofs.tla     # the proofs: every module named ...Proofs

## 1. The system

### How its parts interact

There are no queues and no workers of its own: an API route resolves the actor,
calls a service function, and that function awaits one document-store operation
after another. The store (`lib/lawrence-core/db`) is a set of collections of
JSON rows, in memory or in Postgres, one atomic `find`, `insert` or `update` at
a time. **No service takes a lock or opens a transaction across an await**, so

* requests interleave at every await, in one process and, with Postgres, across
  several;
* a decision is often taken on a row that another request has changed since;
* an exception or a stopped process leaves whatever was written before it.

This is why the models give each request a program counter that names the store
operation it performs next, and make a step of the model out of exactly one such
operation. Reads of rows that no modelled operation changes are folded into the
step they precede.

### Components

"Module" is the module that models the component; a dash means that it is left out
(section 7).

| Component | State it keeps | Operations | Correct when | Module |
|---|---|---|---|---|
| Action execution engine (`mission-control/actions`) | `actionExecutions` rows | `executeAction`, `runHandler`, `continueApprovedAction`, `releaseApprovedAction`, `block` | a gated action runs only once approved, at most once, once per key, never under a kill switch | ActionEngine, ActionLifecycle |
| Approval policy engine (`approvals/approval-policy-engine`) | none | `evaluateApprovalPolicy` | a missing policy fails closed | ApprovalPolicy |
| Approval requests and decisions (`approvals/`) | `approvalRequests` | `createApprovalForSubject`, `approveRequest`, `rejectRequest` | one decision per request; the decision reaches its subject | ActionEngine, ReleaseControl |
| Review queue | `reviewCases` | `openReviewCase`, `resolveReviewCase` | a resolved case releases its action once | ActionEngine |
| Kill switches (`runtime/kill-switch-*`) | `killSwitches`, component status | enable, disable, guard | an enabled switch stops what starts after it | ActionEngine, ReleaseControl |
| Release control (`deployments/`) | `releaseBundles`, items, `rollbackRecords` | submit, validate, promote, request and execute a rollback | production changes only with approval; a rollback restores | ReleaseControl |
| Runtime components and health (`runtime/health-service`, `runtime-component-repository`) | `runtimeComponents` | upsert, set status, sweep | a sweep does not undo a kill switch | ReleaseControl |
| Function, pipeline and integration runs; failure threshold (`functions`, `pipelines`, `integrations`, `runtime/failure-threshold`) | run rows, traces, `incidents` | run, record, count, raise | a row says what was done; a crossing leaves an incident | ComponentRuns |
| Mission planner and runtime (`missions`) | execution, task results, layers | plan, execute a layer, retry, wait, continue | tasks run after their dependencies; an effect is repeated only where its row failed; the report is true | MissionPlan, MissionRuntime |
| Inference pipeline, fallback, retry, breaker, batching, health (`aiops/execution`, `fallback`, `retry`, `circuit`, `batch`, `health`) | calls in flight, circuit, forming batch, window of samples | admit, invoke, back off, fall back, release | bounded attempts in the fallback policy's order; an open circuit shields; every held call is released | InferencePipeline, CircuitBreaker, ProviderHealth |
| Routing and replay (`aiops/routing`, `aiops/replay`) | none | `route`, `replayOne`'s pinned request | the plan holds what policy authorizes, in a total order | Routing |
| Cache platform (`aiops/cache`) | exact and semantic entries | look up, store, evict, configure | what is served was validated and is comparable | CacheManager, PromptCache |
| Agent runner (`aiops/agents`) | node visits, budgets, the run row | walk the graph | budgets hold; the row accounts for what ran | AgentRunner |
| Learning loop (`aiops/learning`) | feedback, outcomes, `learningSignals` | record, raise, review | what repeats or fails leaves a signal, once | LearningSignals |
| Ontology store and governance (`dataops/ontology`) | objects, links, ledgers | upsert, link, evaluate | in enforce mode nothing invalid is stored; no ledger entry is lost | OntologyStore, RecruitingOntology |
| Graph integrity and preflight (`dataops/ontology/graph`) | none | validate, report, preflight | exact algorithms; a scope hides no defect | GraphIntegrity, GraphPreflight |
| Candidate identity (`domains/recruiting/candidate-identity-service`) | candidate objects, links | scan, merge | a merge loses nothing and can be repeated | CandidateMerge |
| Domain packs and demo data (`domain-packs`, `demo`) | installations, demo objects, definitions | install, uninstall, reset, ensure | an installation is whole; a removal takes demo objects only | DomainPacks |
| Audit chain (`lawrence-core/audit`, `security/audit-integrity-service`) | hash-linked events | append, verify | an untouched chain verifies, a changed one does not | AuditChain |
| Notifications (`mission-control/notifications`) | rules, notifications | emit | each matching rule is answered once | Notifications |
| Ingestion and webhooks (`dataops/ingestion`, `integrations/webhook-ingest-service`) | batches, assets, blobs, webhook rows | upload, receive | batches, assets and bytes add up | Ingestion |
| Retention (`security/retention-service`) | jobs, objects | run a job | a completed job has done what it says, a dry run nothing | Retention |
| Access control (`security/object-*`) | none | check, enforce | denials win; what is sensitive needs a grant | ObjectAccess |
| Document store (`lawrence-core/db`) | collections | find, insert, update | an acknowledged patch survives | DocumentStore; implicit in every step |
| Evaluation, prompts, retrieval, parsers, transforms, import; web application and routes | see `PROJECT.json` | | | - |

### What is hard about it

* **interleaving**: two calls with one idempotency key; two reviewers on one
  request; a promotion against a rollback, a submission or a health sweep;
* **ordering**: an approval request is visible before its subject has been made
  to wait for it;
* **stale state**: guards read once and trusted days later (an action that waits
  for a human, a bundle approved long ago, a list of components);
* **partial failure and crash**: a handler's effect before the row that records
  it; a bundle applied half way; a switch row written before its component;
* **crash and restart**: an installation or a merge cut off between two writes and
  repeated; ids and clocks that start again while rows persist;
* **timeouts**: a node or a batch timer that fires while the work goes on;
* **liveness**: something approved must run; something inserted must settle;
  everything under way must answer.

`PROJECT.json` lists 40 such hazards with their lines and the properties on them.

## 2. The modules and the plan

| Order | Module | What it is | State |
|---|---|---|---|
| 1 | `ApprovalPolicy` | the policy decision, a pure operator used by both state machines | done |
| 2 | `ActionEngine` | action rows, both human gates, the kill switch guard | done, proved |
| 3 | `ActionLifecycle` | abstract specification of one action row | done; refinement checked and proved |
| 4 | `ReleaseControl` | bundles, approvals, promotion, rollback, switches, sweeps on shared component rows | done, proved |
| 5 | `MissionPlan`, `MissionRuntime` | dependency layers against a reference definition; layers, retries, waiting, cancellation | done, proved |
| 6 | `CircuitBreaker`, `ProviderHealth`, `PromptCache`, `InferencePipeline` | calls in flight across breaker transitions, under fallback, retry, batching and the cache | done, proved |
| 7 | `Routing`, `CacheManager`, `Subsequences` | the plans that inference executes; several caches under changing policies | done, proved |
| 8 | `AgentRunner`, `ComponentRuns` | budgets and timeouts of a graph walk; runs, traces and incidents | done, proved |
| 9 | `RecruitingOntology`, `OntologyStore` | governed writes of objects and links | done, proved |
| | `GraphIntegrity`, `GraphPreflight` | the judgement of a graph | done, proved |
| 10 | `DocumentStore`, `Notifications`, `Ingestion` | look up then write, on rows that others write | done, proved |
| 11 | `Retention`, `ObjectAccess` | jobs against upserts and one another; the access decision | done, proved |
| | `AuditChain` | the audit log and its verification | done, proved |
| 12 | `LearningSignals` | records are counted, signals are raised and reviewed | done, proved |
| 13 | `CandidateMerge`, `DomainPacks` | long sequences of writes that are cut off, repeated and overlap | done, proved |
| 14 | `ActionEngineProofs`, `ReleaseControlProofs`, `MissionProofs`, `ExecutionServicesProofs`, `DataServicesProofs`, `OntologyProofs`, `PreflightProofs`, `SequenceLemmas` | the theorems of section 5 | done |
| 15 | proofs about `DomainPacks`, `AuditChain`, `Routing`, `CandidateMerge` and `GraphPreflight` | the invariants the runs check, for any number of requests | done |
| 16 | proofs about `MCExecutionServices` and `MCDataServices` | the compositions follow the services' own specifications and keep their types | done |

`MCExecutionServices` and `MCDataServices` put the modules of orders 5 to 8 and 9 to
13 in one instance each. Their parts share no state, so a behaviour picks one part
in its initial state and exercises it alone. Where parts do meet they are composed
by the modules themselves: `InferencePipeline` extends the breaker, health and cache
operators and executes plans that `Routing` makes (`PlansAreRouted` in
`MCExecutionServices` computes them), `CacheManager` extends `PromptCache`,
`GraphPreflight` and `OntologyStore` judge with `RecruitingOntology`.

## 3. The models

### ActionEngine (with ApprovalPolicy and ActionLifecycle)

A *process* is one request. A `Call` is one `executeAction`, which owns at most
one row; a `Decision` is one `approveRequest`, `rejectRequest` or resolution of a
review case. `pc[p]` is the next store operation; `status`, `approval`, `review`
and `killed` are the rows. `Deduplicate`/`PassLookup` are the idempotency lookup,
`InsertQueued` the insert, `Guard` the switch, permission, access and
precondition checks, `RequestApproval`/`OpenReviewCase`/`AwaitApproval` the two
gates, `StartHandler` ... `Fail` are `runHandler` with its try block, in which a
throwing audit write turns a completed row into a failed one, and
`BeginDecision` ... `ResumeNothing` the reviewers. `CutOff` ends any request in
`Faulty` between two operations.

`ApprovalPolicy` keeps the precedence of a missing row, the emergency bypass, the
explicit flag and the rules; whether a rule matches is part of the row.

`ActionLifecycle` says what a user may rely on for one row with no requests in
sight: opened once, held or refused or started, effective at most once and only
while it runs, settled for good, started from a gate only once approved. The
promise (but never the need for an approval) is withdrawn for a row on which two
decisions were in flight at once: `decideApproval` reads, checks and writes in
separate operations, so two reviewers can both pass the check.

### ReleaseControl

A `Worker` is one request in flight. It takes a job (submit, decide, promote,
request a rollback, execute one, enable or disable a switch, sweep), goes
through the job's store operations and is then free for another, so a run has any
number of requests of which |Worker| overlap. `job[w]` holds the handler's local
variables: what it read is in there and may be stale by the time it is used. All
of them meet in the rows of `component`: promotion reads a row, stores its
snapshot, looks the row up again and writes it; rollback writes the snapshot
back; switches and sweeps write the status. `Patched` is the upsert, with its rule
that a null version leaves the version alone and that a row inserted by a racing
request shadows one's own. `AwaitDecision` comes after `RaiseRequest`, as in the
code, so a decision can fall in between and be overwritten. An item whose payload says
`disabled` leaves its component disabled whatever its change is (`StatusApplied`), while
validation and rollback look at the change only.

A validation's blockers other than the kill switch (missing items, destructive
changes without policy, failed evaluations) are a free choice in
`SettleValidation`, as is what a probe finds. Component configuration moves
together with the version and is left out.

Observation variables (`granted`, `applied`, `contested`, `raced`, `underKill`;
`sanctioned`, `touched`, `reversed`, `before`) record what has happened so that
properties can speak of it. No guard reads them.

### The execution services

**Missions.** `MissionPlan` is the layering loop of `planMission` with its error
codes. `MissionRuntime` executes plans: `Execute` is the path from governance to
planning, `ScheduleLayer` sets every task of a layer to ready, skipped or blocked,
the attempts of a layer then interleave (`AfterAttempt` is `runWithRetry`), and
the report is built from the records. An action task looks up its idempotency key
(`FoundRows`): the key its input gives, which other tasks and executions may share
(`SameKey`), or else one of the execution and the task alone. `HandlerRuns` and
`HandlerReturns` are `runHandler`: a row may be written completed and then changed to
failed, or be left failed or running, after the handler took effect. Such a row does not
answer the key, so the retry runs the handler again; `denied` counts these effects. A
continuation is a second execution of the same mission; a cancellation is noticed between
layers.

**Inference.** A call in `InferencePipeline` is admitted or refused, waits in a
batch that is released by size or by its timer, is answered from the cache, or
passes fallback, breaker and retry, in the nesting of the code, to a provider
that answers, or fails for good or for now. `CircuitBreaker`, `ProviderHealth` and
`PromptCache` are the pure state changes, applied at the points where the pipeline
calls them; outcomes of calls admitted before a transition are applied after it.
A call's `Path` is its primary and the alternates its fallback policy lets in (`Chosen`):
those of the plan in its order, or, where the policy lists providers, those of each listed
provider in the list's order, cut at the policy's bound.
`Routing` is `route` and what a replay asks of it; the sort is written as the rank of
a candidate among those that survive, ties in the order of registration, as a stable
sort leaves them. `CacheManager` has the platform's
two stores, with a policy read at the look-up and again at the write; `Subsequences`
has `Array.filter`, which the semantic store drops its expired entries with.

**Runs.** `AgentRunner` walks one graph with conditions, step, function and cost
budgets, and a time budget that fires while a node's work goes on; `ComponentRuns`
is the try and catch of functions, pipelines (with child assets to the depth limit)
and syncs (with partial failure), and `maybeRaiseFailureIncident` as three store
operations. Rows, failure traces and incidents carry the time of their insert; failures
and incidents count for `FailureWindow` (`Recent`), and `RunsElapse` lets time pass
anywhere in between.

### The data services

**Ontology.** `RecruitingOntology` holds the schemas, relationships, graph rules and
cycle permissions that the repository registers. `OntologyStore` is `upsertObject`
and `linkObjects` as look-up, check and write, in the modes warn and enforce.
`GraphIntegrity` has every validator of `validateGraph` and `GraphPreflight` applies
them to a loaded or a restricted graph; the search for cycles, the walk and union-find are
recursive functions of the number of their step. `CandidateMerge` reads two candidates, then
moves edge by edge, backfills and tombstones, against a second merge and an upsert;
`entangled` and `misdirected` note overlaps and work on tombstones. An upsert may clear
a field, as the importers write null for what a source does not say
(`recruiting-ir-projection.ts:60`, `recruiting-object-mapper.ts:37`).

**Stores and logs.** `DocumentStore` has the memory backend's atomic patch and the
Postgres one that selects, merges and writes. `AuditChain` has emitters that read a
tail and append, restarts, an external change of one row, and `verifyAuditChain` over
every window. A hash is the content it covers, the time and its predecessor's hash, which
is what collision freedom gives. `computeEventHash` leaves out who acted (`actorUserId`)
and where the joined text divides into its fields: an event has an unhashed part, which
`AlterUnhashed` changes. `Notifications`, `Ingestion` and `Retention` are a look-up, a
deed and a record with awaits between. An upsert beside retention jobs reads a row and
writes it back with the status and properties it names over it (`Merged`); `renamed`
notes what was named since a job set it. `ObjectAccess` is the decision alone.

**Packs and learning.** `DomainPacks` is an installation as a list of writes, with
removals that list first and delete one by one, and customers who write their own
objects under the same keys. `LearningSignals` counts what was recorded, looks for
an open signal and inserts one, while reviewers move signals on.

Variables named `entangled`, `misdirected`, `crowded`, `raced`, `runOverlap`, `renamed`,
`denied` and the like only observe.

## 4. What the runs check

| Run | Instance | What it shows |
|---|---|---|
| `action_safety` | 2 calls, 2 decisions, 3 actions, 2 keys, 5 kinds of request, every request may be cut off | A gated action runs only with an approval; a handler takes effect at most once unless decisions on it overlapped; a rejected row has not run and will not; a call never gets past a switch enabled before it began; two unforced calls share a key only if their lookups raced or decisions overlapped; every step is a step of `ActionLifecycle` |
| `action_liveness` | 1 call, 2 decisions, no cut-offs, fairness | An inserted row settles or comes to wait for a human; a row that is approved while it waits settles |
| `action_kill` (violated) | as above | An action approved under an enabled switch runs: the entry points that resume do not ask the guard |
| `action_dedupe` (violated) | | Two calls with one key that both look up before either inserts both take effect |
| `action_continue` (violated) | fairness | An approval that arrives before the row waits is lost for good |
| `release_approval` | 2 workers, 1 production bundle of 1 item, 2 approval requests, 1 rollback record, every job but a sweep | No item of a production bundle reaches a component, and no rollback runs, without an approval, whatever overlaps; a submission that began under a switch asks for and grants nothing, not even between the switch's row and the disabling of its component |
| `release_effects` | 2 workers (one promotes and requests rollbacks, one executes them, submits and sweeps), 1 bundle of 2 items, one of which is new, exceptions and cut-offs | A bundle that is promoted is what its components run; a rollback that completed restores what was there and disables what was added. Both as long as nothing else wrote the components, which `before` tracks |
| `health_kill` (violated) | 2 workers, 1 component | A sweep that listed a component before its switch was enabled sets it back to enabled |
| `release_revalidate` (violated) | 2 workers | A bundle approved before a switch was enabled is promoted after it: the re-validation that the file's header mentions does not exist |
| `rollback_unversioned` (violated) | 1 worker | The rollback of a component that had no version leaves the new version: null means "leave alone" to the upsert. No overlap is needed |
| `execution_services` | 6 parts: see "Bounds" | Plans are layered exactly, tasks are attempted only after their dependencies, reports tell what happened, across executions, late approvals and tasks that share a key, an effect is repeated only after its row was changed to failed; only validated responses are cached; an open circuit shields the primary and shows in its health; fallbacks are tried after the retries, in the order and number of the policy; agents keep their budgets and their row misses at most the one node under way at a timeout; rows, traces and incidents agree within one failure window, failures further apart cross no threshold together, and an incident that has aged does not stand for later failures; routing authorizes what policy does and no more; a served answer is comparable; everything under way ends |
| `data_services` | 11 parts: see "Bounds" | In enforce mode nothing is stored that its own schema, shape or (unless requests raced) cardinality forbids; no ledger entry is lost unless upserts raced; graph validation and preflight are exact; the chain verifies exactly when it should, which leaves the lost last event and a change of what is not hashed unnoticed; each rule is answered once unless emitters raced; batches, assets and bytes add up; a completed retention job did what it says, until a later upsert names the same fields; an acknowledged patch survives on the memory backend and, without overlap, on Postgres; the access decision is exact; a merge loses nothing; an installation is whole; signals follow records |

The six violated runs each check a sentence of the repository's own comments; the
quotations are under "findings" in `PROJECT.json`. None of them is seen by a
property of the passing runs: those state what does hold, with the exact condition
(for example "unless contested", "unless raced") under which it does.

### Bounds and why they are enough

* Two calls and two decisions: every property relates one row to at most one
  other request, or two requests to each other. Two decisions are needed to
  contest a row, two calls to race on a key.
* The five kinds of request cover each gate, a forced and exempt call, a refused
  call and a second key.
* Two workers: each race in the code is between two requests. Workers are reused,
  so sequences of any length are explored (up to depth 93).
* `Gate`, `Rollback`: ids that approval requests and rollback records may get; a
  job that might need one starts only while one is left (`MayRaise`,
  `MayRecord`). Two approval requests allow a rejected and an approved one for
  the same subject.
* `Jobs` limits the kinds of request per worker and `Health` what a probe may find
  ({"failed"} in `release_effects`), to keep the two passing runs at 1.6 and 2.7
  million states. What the split leaves unexplored is exceptions during approvals
  and two promotions of the two-item bundle at once; of the latter the properties
  claim nothing (`before` is dropped when promotions overlap).
* Neither of these two models bounds time or counters: there are none in this code.
* Missions: 9 missions, 2 attempts. Three are executed twice (`MaxExecutions`), with late
  approvals between: a gated task, a task with a key of its own, and a chain whose tasks
  share such a key. Six are executed once: a fork and join with an approval gate, a chain
  with an unregistered executor, a pair that runs together and shares a key, and the three
  that cannot be planned. A key is shared by two rows, so two executions or two tasks make
  every case of it. Every dependency graph over 3 tasks is planned.
* Inference: 3 calls, two of them alike, of which one finds a fallback policy that
  lists the providers in another order than the plan's and the other one that allows
  one alternate; 3 targets of 2 providers, 2 attempts, batches of 2, thresholds of
  1, time up to `MaxClock` = 2. Agents: 10 graphs (a loop under each of the 7
  condition operators, one with a dead edge and too many steps, one with too many
  functions, one without nodes). Runs: 2 of each kind, incidents at 1 and 2; time passes
  for functions only, up to `MaxRunsClock` = 1 with a `FailureWindow` of 0, so that failures
  fall into one window or into two; what the window decides is the same code for each
  kind. The theorem `FailuresAreAccountedFor` holds for every window and any time.
  Routing: 1152 queries
  over 3 providers with 5 models. Caches: 3 calls, 3 cache and 2 similarity policies
  that may change at any step, time up to 1.
* Ontology: 3 requests of one kind, two of them different, out of 15 inputs, on 5
  stored objects. Preflight: about 3000 graphs of 3 objects and up to 3 links, with
  2 scopes. Access: about 22000 combinations of rows and policies. Audit: 2
  emitters, 4 events, 1 restart. Notifications: 2 emissions, 2 rules. Ingestion: 3
  uploads of 2 contents, then a webhook. Retention: 2 jobs and an upsert, naming any
  of status and properties, on 2 objects. Store: 2 clients, 2 rows, 2 patches each.
  Merges: 3 candidates, 3 edges, 2 merges, 1 import. Packs: 3 calls, the first of
  which begins before the others, 4 manifests with shared samples and two versions
  of a pack, the second of which seeds another object, 1 key of a customer.
  Learning: 3 recorders with 4 choices of records, 1 reviewer.
* The races in these services are between two requests; the third makes a
  repetition after a race or a cut-off visible.

Deadlock is checked in the runs of the action engine and release control:
something can always begin or a request in flight can go on. In the two runs of
services all work comes to an end (calls are numbered), so they say
`CHECK_DEADLOCK FALSE`; `ExecutionsEnd` states that the work does not stop short.

### Fairness

`FairSpec` is weak fairness of every request's own steps, `WF_vars(ProcessStep(p))`:
the event loop resumes every handler whose awaited operation has answered, and the
liveness run has no cut-offs. `execution_services` has the one condition
`WF_vars(Progress)` over missions, inference, agents and runs: an awaited promise
settles, and the timers of batches, back-offs and deadlines fire. It leaves out what
the code does not promise: that anybody starts anything or cancels it, and that the
own work of an agent's node ever ends (its deadline does). A call or decision must
be sent by somebody and a reviewer may never answer: the steps that begin a request
are not fair, and neither is toggling a switch. The promise that a granted row
settles is stated for an approval that finds the row waiting, because the other
order is the finding `action_continue`.

## 5. What is proved

Each theorem holds for every value of the constants that satisfies the named
assumptions of its module (listed at the end of this section): any number of requests,
any graphs, plans, limits and rows.

### The action engine (`ActionEngineProofs`)

| Theorem | Statement |
|---|---|
| `TypeCorrect` | `Spec => []TypeOK` |
| `ApprovalGate` | `Spec => []GatedRunsOnlyWhenGranted` |
| `AtMostOnce` | `Spec => []AtMostOnceUnlessContested` |
| `RejectionHolds` | `Spec => []RejectedNeverRuns` |
| `KillAtAdmission` | `Spec => []KillRespectedAtAdmission` |
| `KeyIsExclusive` | `Spec => []OneLiveRowPerKey` |
| `EngineImplementsLifecycle` | `Spec => ImplementsLifecycle` |

None of the invariants is inductive: that a gated action runs only when granted
depends on where every process stands and on what it has read. The inductive invariant
`IInv` has one conjunct per concern: `TypeOK`; `CallInv`, which ties the phase of a
call to its row's status and gates; `DecisionInv`, which says what a decision in each
phase has established; `UncontestedInv`, that on an uncontested row at most one
decision is in flight and at most one has taken effect; `KillInv` and `KeyInv` for the
switch and for keys. There is one lemma per action that `IInv` is preserved, then
`NextIInv`, `InductiveInvariant` and the theorems as consequences.
`RoutingIsFailClosed` is the fact about `ApprovalPolicy` that the gate rests on: a
call starts directly exactly when no gate applies to it, and a missing policy row is a
gate.

`EngineImplementsLifecycle` says that the engine implements `ActionLifecycle`: each
action is shown to change nothing the mapping sees, or one row in one way
(`InvisibleStep`, `VisibleStep`, `LapsedStep`, `DecidedStep`), under `IInv`.

### Release control (`ReleaseControlProofs`)

| Theorem | Statement |
|---|---|
| `TypeCorrect` | `Spec => []TypeOK` |
| `ProductionNeedsApproval` | `Spec => []ProductionChangesAreApproved` |
| `RollbackNeedsApproval` | `Spec => []RollbacksAreApproved` |
| `KillStopsSubmission` | `Spec => []SubmissionStopsAtKill` |
| `PromotedRuns` | `DistinctItems` implies `Spec => []PromotedIsWhatRuns` |
| `RollbackUndoes` | `DistinctItems` implies `Spec => [](VersionedBefore => RollbackRestores)` |

That production changes only with an approval depends on the approval's row, on the
bundle's and on what every request in flight has read of both. `IInv` says, per
request (`HoldsFor`): a job's fields fit its stage (`JobOK`), the rows it has read
exist (`RowsKnown`), and what a decision, a promotion and a submission have
established (`DecisionInv`, `PromotionInv`, `KillInv`); per row: which approvals stand
behind a request, a bundle and a rollback record (`GateKnown`, `ReleaseInv`,
`RecordInv`). `Keeps(w)` is what a step of one request leaves true for the others;
every action has a lemma that it keeps `IInv`.

On top of it, `EInv`: a component that a snapshot was taken of exists
(`SnapshotInv`), the patch under way is that of its item (`ItemInv`), a tracked
promotion or rollback has dealt with the items before the one it stands at
(`PromoteInv`, `ExecuteInv`), and once no promotion is under way all items are
applied, or restored if the bundle was rolled back (`SettledInv`). Two hypotheses are
the theorems' own, as the statements fail without them: `DistinctItems`, that a bundle
names a component once (nothing in `createReleaseBundle` checks that; of two items for
one component the second wins, and the snapshot holds the first's result), and
`VersionedBefore`, that the rows replaced had a version, without which the run
`rollback_unversioned` is the counterexample. The instance of `release_effects`
satisfies both.

### Missions (`MissionProofs`)

| Theorem | Statement |
|---|---|
| `CyclesAreFound` | for any task list, `HasCycle(m)` iff some task transitively needs itself |
| `LayersFollowNeeds` | without a cycle, each task is in exactly one layer, and all it transitively needs are in earlier ones |
| `MissionTypeCorrect` | `MissionSpec => []MissionTypeOK` |
| `ExecutionsAreOrderly` | `MissionSpec => []ExecutionsFollowPlan` |
| `ReportsAreTrue` | `MissionSpec => []ReportTellsTruth` |
| `EffectsRepeatAfterFailure` | `MissionSpec => []RepeatsOnlyAfterFailure` |

The layering loop is a recursive function, the set of tasks placed after each round.
That it grows until it stops, that what it never places lies on or behind a cycle, and
that what is placed has its needs placed before are each shown by least
counterexample; that tasks which all need one another contain a cycle, by a repetition
in a path longer than the list.

`MissionInv` has `RowsInv`, which says what rows have to do with effects:
`RowsCountEffects` (every effect but the last was denied by a row that failed, and the
last one stands while the row is written or completed), `AttemptsBoundEffects` (each
effect used up an attempt, and a row that waits or is yet to run has one left) and
`OneRowPerKey` (of tasks that share a key and do not run together one row answers it, and
while a task is about to insert its own none does). It has further `OutcomesMatchRows`
(only an action that took effect, or one under the same key, completes a task),
`PlanIsKept` and `LayersAreInOrder` (layers before the current one ended, those after
it did not begin), `TasksAreGrounded` (a task that was begun had its gate and its
direct needs, and behind a skipped task is a failed one) and `ReportTellsTruth`.
`BegunTasksHadTheirNeeds` leads from the direct needs in the invariant to the
transitive ones in the property.

### Execution services (`ExecutionServicesProofs`)

| Theorem | Statement |
|---|---|
| `RunsTypeCorrect` | `RunsSpec => []RunsTypeOK` |
| `FailuresAreAccountedFor` | `RunsSpec => []RunsAreAccountedFor` |
| `AgentTypeCorrect` | `AgentSpec => []AgentTypeOK` |
| `AgentsStayAccountable` | `AgentSpec => []AgentRunIsAccountedFor` |
| `CircuitsShield` | `PipelineSpec => []OpenCircuitShieldsAndShows` |
| `FallbackIsLastResort` | `PipelineSpec => []FallbackInPolicyOrder` |
| `CacheStaysValidated` | `PipelineSpec => []CacheHoldsValidated` |
| `CacheTypeCorrect` | `CacheSpec => []CacheTypeOK` |
| `ServedAnswersAreComparable` | `CacheSpec => []ServedIsComparable` |
| `PlansAreAuthorized` | `RoutingSpec => []PlanIsAuthorized` |
| `PipelineTypeCorrect` | `PipelineSpec => []PipelineTypeOK` |
| `RoutingTypeCorrect` | `RoutingSpec => []RoutingTypeOK` |
| `ServicesFollowTheirSpecs` | `Spec` of `MCExecutionServices` implies the initial predicate and `[][...]` of each service |
| `ServicesTypeCorrect` | `Spec => []TypeOK` of `MCExecutionServices` |

* `RunsInv`. A crossed threshold leaves an incident although runs that fail together
  all count before any of them raises. The argument is about the run that counts last:
  it sees every failed row that is still recent, so either a threshold is not crossed, or a
  recent incident is there, or that run is still on its way to raise one. `UnansweredAreFew`
  says this with a bound, for each number `n`: among the runs with recent rows that are past
  counting and saw fewer than `n` failures (`RecentUnanswered`) there are fewer than `n`,
  or an incident covers them all (`Answered`): it was raised less than a window before the
  last of them. Rows only age and incidents keep their time, so neither a step nor the
  clock takes this away. `CountsAreOfFailures` is the converse, that what was counted did
  fail within one window; `TimesPassed`, `ConnectionHasCause` and `RowFollowsStage` carry
  the rest. The stages that the assets found inside the parsed one add are a recursive
  function of the depth (`ChildStages`), again by least counterexample.
* `AgentInv`. Budgets hold as the cycle guard's counters are the nodes begun
  (`GuardKnowsBegun`) and cost is compared before a node is begun (`CostIsChecked`);
  the durable record has every node begun but the one that is still under way when the
  deadline fires (`RecordFollowsBegun`).
* `PipelineInv`. `CallsFollow` ties a call's phase to the record of its way: before
  the breaker nothing was tried, an alternate is reached with the primary's attempts
  used up, and what is to be validated came from the cache or from the current target.
  `BatchesWait` says that a batch holds calls of its own primary that wait. The two
  properties on circuits and on the cache are inductive beside these. `CallMoves` and
  `CallsMoveQuietly` are the lemmas that a step which moves one call, or all calls of
  a batch, disturbs no other. `PipelineBounded` adds what the type invariant says of
  sizes: the prompt cache evicts down to its capacity (`StoreStaysBounded`) and a window
  of health drops its oldest sample (`WindowsSlide`), on every path of an execution.
* `CacheInv`. What a call is served was read from a store, so the invariant is about
  the stores: every entry was written for a call whose answer came fresh and passed
  validation, under that call's keys, and expires within the time to live of a policy
  that may have been in force; and each store fits into a capacity that may have been
  (`StoresHoldWritten`). Fresh answers stay fresh (`EntriesStay`), a hit is an entry of
  the same key or group (`ServedWell`), and what look-up, write and eviction do to an
  exact store is stated once, for entries of any kind (`LookupKeeps`, `StoreKeeps`),
  for this store and for the pipeline's.
* `RoutingInv` says only that what was routed is what `route` makes of the query; the
  work is about `route`. `SortedFacts` shows that ranks are the numbers from zero, each
  taken once, so that the sort places every survivor. `PlanOfRoute` and
  `RejectionsOfRoute` describe a route by the set of candidates it admits: `IsPlan`, a
  listing of their targets in the order of their keys, and the targets of the rest. As
  keys are ordered strictly and end in provider and model, which tell candidates apart
  (`TargetsTell`), a set has one plan (`OnePlan`). The claims that compare two routes
  then need a comparison of sets only: the registry turned round offers the same
  candidates, a policy that denies one more provider admits those that are not its
  (`DenyingOneMore`, `PlanWithout`), and a replay admits what is admitted without its
  preferences and has the recorded target first (`PreferredFirst`, `ReplayFacts`).
* `ServicesInv`. In the composition one service moves and the others stay as they began
  (`OnePartMoves`). So each step of it is a step of each service's own specification or
  leaves that service alone, which is `ServicesFollowTheirSpecs`: the theorems above,
  which use how a service begins and its steps but never fairness, hold of what the run
  explores. (Routing, preflights and access decisions begin as their own specification
  says where they are the part under way.)

### Data services (`DataServicesProofs`)

| Theorem | Statement |
|---|---|
| `PatchesSurvive` | `StoreSpec => []AcknowledgedPatchesSurvive` |
| `RulesAnsweredOnce` | `NotifySpec => []EachRuleAnsweredOnce` |
| `IngestionIsSound` | `IngestSpec => []IngestionAddsUp` |
| `SignalsAreWarranted` | `LearningSpec => []SignalsFollowRecords` |
| `RetentionIsHonest` | `RetentionSpec => []RetentionIsTrue` |
| `AccessIsDecidedExactly` | `AccessSpec => []AccessIsExact` |
| `VerdictsAreRight` | `AuditSpec => []ChainVerdictIsRight` |
| `StoreTypeCorrect`, `NotifyTypeCorrect`, `IngestTypeCorrect`, `LearningTypeCorrect`, `RetentionTypeCorrect`, `AccessTypeCorrect`, `AuditTypeCorrect` | each `...Spec => []...TypeOK` |
| `DataServicesFollowTheirSpecs` | `Spec` of `MCDataServices` implies the initial predicate and `[][...]` of each service, those of the next two sections too |
| `DataTypeCorrect` | `EndsAreThere`, `NoLoops` and `LinksJoinObjects` imply `Spec => []TypeOK` of `MCDataServices` |

The pattern of the first five is a look-up followed by a write. Their invariants say what a
request that has looked up may still rely on while it is alone, and which ghost
(`emitOverlap`, `uploadOverlap`, `raced`, or an overlap on a row) is set once it is
not: `StoreInv` (fresh ids, reads that are current), `NotifyInv` (rules passed,
answered or still to come), `IngestInv` (an upload in each step has its batch, its
bytes and its asset; content is stored once), `LearningInv` (only what is reportable
is looked up, and what became reportable is raised or about to be), `RetentionInv`.

`RetentionInv` says that a job's row is what its step says (`JobsFollow`); that what a
job or an upsert has read of an object is what the object is, unless the object was
noted in `unsettled` (`ReadsStand`); that the objects a job is past stay as it left
them, but for the fields that an upsert named since (`PassedStay`); and that whatever is
gone, archived, redacted or flagged, in a row or in what somebody read of one, a real job
came to or an upsert named (`ChangesAreWarranted`): an upsert writes back what it read, so
the property alone is not inductive.

`AccessInv` is small, as a decision is one step. The work is in the operators:
`EvaluationIsExact` replaces the engine's order of tests by the condition the property
states, `OneRowMore` says what one more row of the caller adds, and `ReductionIsExact`
that the class which a reduction over the object's records leaves is sensitive exactly
if one of them is. For that the recursive function must be shown to exist
(`RecursionExists`, by the least length without one).

`AuditInv` speaks of a log until two emissions overlap or the process restarts: one
emission is under way at most, and rows are in the order of their times
(`OneAfterAnother`), which is the order the verification walks (`OrderedChains`).
`DamageShows` is what makes the verdict inductive. While nothing that is hashed was
changed from outside, the log is as emitted and a tail that was read is still the
last hash; after an inner row was lost, some row does not link to the one before it
*or an emission under way carries the hash of a tail that is no longer there*, and
will break the chain when it is inserted. The verdict itself is claimed only at
rest.

The type invariants mostly follow from these; four need a little more. What audit
emissions there were and those under way are together no more than the bound on
events, so the ids are within it, restarts or not (`AuditCounted`); an upload has an
asset to return only once it audits (`ReturnsLater`); review cases are about signals
that exist (`Reviewed`); a retention job stays within the list it took
(`JobsWithin`), and what it unsettles is an object (`Noted`).

### Ontology (`OntologyProofs`)

| Theorem | Statement |
|---|---|
| `LedgersLoseNothing` | `OntologySpec => []LedgerKeepsEveryEntry` |
| `EnforcementHolds` | `SeedsConform` implies `OntologySpec => []EnforcedStorePassesGovernance` |
| `PacksStayWhole` | `PackSpec => []InstalledPacksAreWhole` |
| `MergesKeepEverything` | `NoLoops` implies `MergeSpec => []MergesLoseNothing` |
| `OntologyTypeCorrect` | `EndsAreThere` implies `OntologySpec => []OntologyTypeOK` |
| `PackTypeCorrect` | `PackSpec => []PackTypeOK` |
| `MergeTypeCorrect` | `NoLoops` implies `MergeSpec => []MergeTypeOK` |

`LedgerInv`: requests that are between their steps together have been noted
(`OverlapIsNoted`); what an upsert found is in the store still, with its type and its
key (`FoundInStore`); and until an upsert overlaps another request it is what the
store has, or nothing of that key is there (`LookupsStand`), keys are unique
(`KeysAreUnique`) and the entries of finished upserts are in the ledgers
(`EntriesStand`). An upsert that writes while nobody else is under way therefore adds
the first object of a key or replaces a row by one with a longer ledger.

`EnforcedInv`: objects conform, as the row that is checked is the row that is written.
A link that is checked against the links there, on the other hand, is judged later
against links stored after it. `ViolationIsExact` turns the check into a condition on
each pair of links (`Fits`), for which it matters that the definitions of a link type
agree in their cardinality (`RegistryAssumption`): if `one_to_one` were registered for
one target type and `many_to_many` for another, a link of the second kind would be
accepted and put the first one in error. `OneLinkMore` is then the step from the new
link's check to that of all older ones. Objects that were stored before enforcement was
switched on are not looked at again by the write path, so `SeedsConform`, which the
instance satisfies, is the theorem's own hypothesis. So is `EndsAreThere`, that links
are asked for between objects there are: `linkObjects` does not check it, and a link that
leads nowhere is what `OntologyTypeOK` needs kept out (`LinksLead`). The instance
satisfies it.

`PackInv` follows a call through its list of writes. What an installation has gone
past is there: definitions and cases for good, tags as long as no other call ran
(`InstallsInOrder`, from `InstallationCovers`: the list has every sample, definition
and suite). What a removal listed belongs to a pack whenever the row is still the one
listed, since ids are not used again and a tag is never taken off (`ListsDemoRows`);
this is why deleting by id spares the customers' objects in every interleaving. The
claims about calls in turn rest on `InTurn`: one call at most is under way, an
installation still has its version to record, a look-up that found no definition is
right about it, and a removal has everything that carries its pack's tag on its list.
What one call leaves to the others is a lemma of its own (`OthersStay`, with
`StoreGrows`). The attempt to prove an earlier form of the property showed that it said
too much: after an installation of version 1, a removal of its demo objects and an
installation of version 2, the samples that only version 1 has are gone while its row
still says installed. The property now speaks of the version installed last, and
the instance's second version seeds another object.

`MergeInv` speaks of candidates until two calls overlap or one works on a tombstone
(`Clean`). A tombstone's pointer leads on, and a rank that no chain of tombstones
exceeds grows along it (`PointersRise`), so `Home`, which follows as many pointers as
there are candidates, ends at a living one (`HomeIsLiving`). While a merge is half done
its edges already run to the survivor though no pointer does. The invariant therefore
does not speak of `Home`: two ends are `Joined` if no set of ends separates them that
respects the pointers and what is left to do of each merge that was begun, cut-off
ones included. An edge joins ends that are joined to its first ones, or is gone because
those two are joined (`EdgesFollow`); aliases, values and entries of a row are of
candidates joined to it (`RowsFollow`); what a tombstone had is at the candidate it
points to (`TombstonesAbsorbed`); and a call under way has read what the rows are
(`CallsCurrent`). At rest, with the cut-off merges repeated, to be joined is to have one
home (`MergeInvSuffices`), which is what the property says. Once merges were cut off
entries may be doubled, and `ImportsOnce` ends. `NoLoops` says that no edge led from an
object to itself at first: `linkObjects` does not refuse such an edge, a merge deletes it
only at the duplicate it touches, and an edge at an object that is never merged stays.

The attempt to prove an earlier form of the property found it false of the code, which
the instance was too small to show: an import that tells null for a field clears what
an earlier merge had filled in, though others had said a value. The property now
excepts such imports, and the instance has one.

### Graph preflight (`PreflightProofs`)

| Theorem | Statement |
|---|---|
| `PreflightsAreRight` | `PreflightSpec => []PreflightIsRight` |
| `PreflightTypeCorrect` | `LinksJoinObjects` implies `PreflightSpec => []PreflightTypeOK` |

There is one step, so `PreflightInv` only says what the answer was computed from; the
theorem is about the algorithms, for any graph. Their reference definition is `After`,
the least set that holds what an object is paired with and that no pair leaves. Each
loop of the code is a recursive function of the number of its step, which is shown to
exist (`SearchSteps`, `UpSteps`, `JoinSteps`) and to have arrived by the last one: a
finite set that shrinks comes to rest or is empty in as many steps as it had elements
(`ChainSettles`).

* The walk (`ReachedIsAfter`): until it rests, each step visits one more end of a link.
* The search (`CyclesAreExact`): `SearchInv` is kept by each of its moves (`DfsMove`). The
  gray nodes are the stack, along which edges lead, so what an edge to a gray node closes
  is a cycle; and while none has been found, a black node leads to black ones only and
  never back to itself. What the search has left (`Work`: nodes to open, nodes to close,
  edges to follow) shrinks until every node is black.
* Union-find (`ComponentsAreExact`): in a forest every set that no parent leaves has a
  root, so going up as often as there are nodes ends at one (`UpEnds`). Joining gives the
  nodes of one root the other one and changes nothing else (`JoinRoots`); parents are
  linked to their children, and the ends of the links joined so far share a root. Roots
  and classes are then as many (`RootsAreClasses`).

That a scope hides nothing follows rule by rule from what a part of a graph has fewer of:
links of an object (`RelatedInPart`), objects reached (`ReachedInPart`), states of a far
object (`StatusInPart`). It needs ids to be unique (`GraphAssumption`), as the object that
a finding names is found again by its id.

That there are no more components than objects needs `LinksJoinObjects`: the ends of the
links of a whole graph are its objects. Union-find makes a node of every end of a link it
is given, so a dangling link adds a component of its own to the count; a scope keeps only
links between its objects, and for it nothing is asked (`ScopedLinksJoin`).

### Sequences (`SequenceLemmas`)

The lemmas about sequences that several of these proofs need: concatenation and
flattening keep all elements, what a filter, a removal or an eviction leaves is a part
of the sequence in its order (`PartOf`), and a part of a sequence with distinct keys
has distinct keys. `LeastNatural` and `RecursionExists` stand in for induction.

### The assumptions

They are what the code's types and key formats give, and TLC evaluates each of them in
a run.

| Assumption | Says | Because |
|---|---|---|
| `EngineAssumption` | calls and decisions are disjoint; policies and requests are well formed | they are different requests; typed records |
| `ReleaseAssumption` | bundle, rollback and component ids are disjoint; a bundle has items | an approval row stores its subject's type beside the id; validation and promotion refuse an empty bundle |
| `MissionAssumption` | task ids form a list; keys of their own are of tasks; every task has an attempt | `mission.tasks` is an array; keys are in the tasks' inputs; `effectiveRetry` allows one attempt at least |
| `RunsAssumption` | thresholds are positive and ordered; the window and the bound on time are naturals; runs are finitely many; children are lists of assets | 3 and 5 in `failure-threshold`; only finitely many have begun |
| `AgentAssumption` | nodes form lists, limits are naturals, board values integers | types of the graph and its limits |
| `PipelineAssumption`, `CircuitAssumption`, `HealthAssumption`, `CacheAssumption` | a plan has a primary; a target has a provider; limits, thresholds, capacities and times to live are in range | the pipeline fails a request that routing found no provider for before any of this; defaults of the policies |
| `NotifyAssumption` | the matching rules are a list, of one at least | an event that no rule matches is not answered |
| `StoreAssumption` | the bounds on rows and patches are naturals | bounds of the model, with any value |
| `OntologyAssumption` | the objects there before form a list, one a key, their ledgers without repetition | rows that `upsertObject` wrote |
| `GraphAssumption` | rows of a graph are listed, objects have ids of their own, and a required relationship asks for a number of links | arrays of rows; `id` is the primary key; type of the rules |
| `RegistryAssumption` | definitions of one link type have one cardinality | the 17 definitions in `relationships/definitions.ts`, with which TLC evaluates it |
| `RetentionAssumption` | the expired objects are a list | rows of a collection, filtered by age |
| `RoutingAssumption` | no two providers of a registry share an id, nor two models of a provider a name; preferred providers come in an order | `register` refuses a second provider of an id; descriptors are looked up by provider and model; a list in the policy |
| `AccessAssumption` | an object's records are a list of the nine classes; a query says whether the tenant matches and a role grants | types of the records and of the context |
| `MergeAssumption` | candidates, edges, merges and imports are named apart and finitely many; edges join ends; an import does not set the status `merged` | ids of different tables; only `mergeCandidates` writes that status |
| `PackAssumption` | the parts of a manifest are lists; pack and version name one manifest; a request is an operation on a manifest | manifests are read from the pack's directory and state their version; the four entry points |
| `AuditAssumption` | the bounds on events and restarts are naturals | bounds of the model, with any value |
| `IngestAssumption` | the mark for "no asset" is no asset | a value of the model |

## 6. What is only model-checked

* Liveness under fairness (`InFlightRowsSettle`, `GrantedWhileAwaitingSettles`,
  `ExecutionsEnd`), which the prover does not handle here.
* The six violations, which are traces rather than theorems.

Every invariant and the refinement that the passing runs check are stated by a theorem
of section 5, under the hypotheses named there.

No module uses a RECURSIVE operator, so all of them can be proved about. The induction
theorems of the library take an operator as parameter, which the provers cannot
instantiate; a fact about a recursive function (`PlacedBy`, `ChildStages`,
`Alternates`, `StillStored`, `EffectiveClassification`) is proved instead by the least
number at which it fails. `SelectSeq`, the folds and the transitive closure of the library
are opaque to the provers. Where a proof needs to know what a filter keeps, the model
filters with `Kept` of `Subsequences`, a recursive function, and a closure is stated as a
least set (`After`); what a definition computes through `SelectSeq` stays with TLC.

## 7. What is not modelled

* In the action engine: the failure count, incident, audit, trace and
  notification rows, which the engine never reads back; registration of handlers,
  which happens at start. Policies and access lists do not change during a run.
* In release control: creating bundles and editing items (bundles exist from the
  start, with fixed items); the empty reverse bundle that a rollback request
  stores; more than one environment. The guard of the action engine looks only at
  the global switch and validation only at the target environment's switch; with
  one environment that difference does not show. Where two requests insert one
  key, the first row is the one found, as in the memory backend; Postgres
  promises no order.
* A bundle that names a component twice, which `createReleaseBundle` accepts: the
  second item overwrites the first, so that what is promoted is what runs is not
  claimed of it (`DistinctItems`).
* In missions: `onStart`, `onError` and `onComplete`, which no executor in the source
  defines (one that threw would reject the execution); callers outside missions that use
  a key which a task's input names; overlapping decisions on an action of a mission, which
  are `ActionEngine`'s subject (here one approval at a time runs a row); two executions of
  a mission at once.
* `mergeCandidates` takes any two ids; the merges modelled are of pairs that a scan found.
  An eval suite of a pack has one case, as in every bundled pack (the type lets it have
  none, `domain-packs/domain-pack-types.ts:66`).
* The failure count that the action engine makes after a failed run: it is the same
  operation on the same incidents, but not composed with `ComponentRuns`. Time there moves
  in steps of its own, not with each call of `now`, and the window is a number of them.
* An upsert that clears a review flag by naming it.
* Observation: events, metrics, traces of inference, cost records and collectors,
  which nothing that is modelled reads back; streaming responses; the run of a
  replay beyond its routing request; evaluation hooks.
* Row-level security and the choice of a backend. `DocumentStore` shows what a
  Postgres update can lose; the other modules take an update as atomic, as it is in
  memory, except `AuditChain`, whose hazard needs Postgres.
* History rows after an upsert, object reads, search and lineage.
* Provider calls, vector search, parsing, prompts, scoring and transforms: data
  transformation without shared control state. Catalogues, fixtures, demo
  scenarios and the setup wizard. Administration of roles, policies and
  credentials, and what redaction masks.
* The web application: pages, components and thin routes, each of which resolves
  the actor and calls one service. Together with type declarations and wiring these
  are most of the repository's lines, so the map covers a minority of them.

## 8. Where the code and what is said of it differ

Six differences are runs (section 4). These were met while modelling and are
written into the models as the code has them:

* Missions: "Every exit path produces a durable record" (`missions/mission-runtime.ts:154`),
  but a governance or a persistence error rejects with none. "completed actions dedupe (no
  double side effect)" (`missions/executors/action-executor.ts:51`): true of rows that stay
  completed; a row that an audit or trace turns into failed after the effect is retried.
* Agents: the conditions `>=` and `<=` never hold (`agents/agent-runner.ts:268`).
* Inference: a late success of a call admitted before the circuit opened closes a
  half-open circuit; a fallback does not ask for the circuit of the alternate;
  breaker, health and cache are keyed by the primary, and cache hits count as its
  health.
* Caches: the semantic key leaves the token limit out, the exact one the workload. A
  replay replaces the policy's list of allowed providers by the recorded one.
* Incidents are never resolved by code; a failed run checks the threshold twice; a
  recovered sync leaves its connection degraded. A sync whose provider has no adapter
  leaves its row running, as the look-up precedes the try
  (`integrations/integration-sync-service.ts:48`; every modelled connection has an
  adapter). No adapter reports "failed" as the status of a result: they throw.
* Audit: the hash leaves out the actor, so a change of who acted verifies, and joins
  its fields with a bar, so text can be moved between them
  (`lawrence-core/audit/audit-hash-service.ts:18`). Verification of a window that
  does not start at the beginning always fails; after a restart ids can repeat and
  overwrite rows ("append-only", `lawrence-core/audit/audit-service.ts:33`).
* Notifications: a queued row is never retried and suppresses later emissions.
  Webhooks that are delivered twice are stored twice.
* Ingestion counts a batch's asset as completed before there is one.
* Retention: a job is left running when an update throws. A later upsert that names
  a status or properties takes an archived or redacted object back; nothing marks it
  as dealt with.
* Graph rules require a link type that no relationship registers; `uniqueRelationships` is
  never read; a restricted preflight can report orphans that have links outside
  its scope.
* Candidates: "merged" is not a status of the Candidate schema, so in enforce mode
  governance blocks after a merge; nothing asks whether the survivor is itself a
  tombstone, so merging A into B and B into A loses both; an upsert by the key of a
  tombstone finds it, and never looks at aliases.
* Packs: an object that a customer made under a sample's key is tagged as demo and
  removed later ("NEVER deletes customer-created objects",
  `domain-packs/domain-pack-uninstaller.ts:2`); after a reset `ensureDemoObjects`
  restores nothing, as the pack counts as installed; a repeated installation
  inserts every case of a suite again.
* Learning: low ratings of any subject are counted, but the signal is for one;
  reviewers may move a signal from any status to any other.
