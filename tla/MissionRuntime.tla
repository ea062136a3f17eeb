--------------------------- MODULE MissionRuntime ---------------------------
(***************************************************************************)
(* Mission execution (src/lib/missions): a mission that passes governance  *)
(* is planned and run layer by layer, the tasks of a layer concurrently,   *)
(* each with its retries.  Tasks run through the action executor, whose    *)
(* action executions are found again under the key of the task's own input *)
(* or, without one, under mission:execution:task.  Continuing a paused     *)
(* mission is a new execution of the same mission.                         *)
(***************************************************************************)
EXTENDS MissionPlan

CONSTANTS
    Missions,       \* the missions an execution may be asked to run
    MaxExecutions   \* how many times the mission is executed

\* A mission's tasks are a list; some have an idempotency key of their own in their
\* input, and each has at least one attempt.
ASSUME MissionAssumption ==
    /\ MaxExecutions \in Nat
    /\ \A m \in Missions :
         /\ m.ids \in Seq(TaskIds(m))
         /\ DOMAIN m.ownKey \subseteq TaskIds(m)
         /\ \A t \in TaskIds(m) : m.maxAttempts[t] \in Nat \ {0}

VARIABLES
    mission,        \* the mission under execution
    execution,      \* number of the current or last execution (0: none yet)
    stage,          \* where executeMission stands
    layer,          \* index of the layer being run
    taskState,      \* task records' state
    attempts,       \* task records' attempts
    outcome,        \* what runWithRetry returned for a running task
    approvals,      \* opts.approvals of the current execution
    cancelled,      \* opts.cancelled() of the current execution
    actionRow,      \* the last action execution the task began, per execution
    effects,        \* effects of the task's action, per execution
    denied,         \* those of them whose action execution ended failed
    reports         \* db.missionExecutions, by execution

missionVars == <<mission, execution, stage, layer, taskState, attempts, outcome,
                 approvals, cancelled, actionRow, effects, denied, reports>>

Executions == 1 .. MaxExecutions

Tasks == TaskIds(mission)

Report(state, tasks) == [state |-> state, tasks |-> tasks]

\* An execution without a durable record.
NoReport == Report("none", << >>)

Stages == {"idle", "layer", "running", "paused", "final", "rejected"}
TaskStates == {"pending", "running", "waiting", "completed", "failed", "skipped", "cancelled"}
MissionStates == {"blocked", "failed", "cancelled", "waiting", "completed"}

\* A row is "running" from its insert on, and "written" while its completion is recorded
\* but not yet audited and traced.
RowStates == {"none", "running", "awaiting_approval", "written", "completed", "failed", "blocked"}

\* What a task's attempts came to: between its look-up and its insert an attempt is
\* "inserting", then "attempting" until executeAction returns or throws.
Outcomes == {"none", "inserting", "attempting", "ok", "error"}

TerminalDepFailure == {"failed", "skipped", "cancelled"}

\* Mutated: a completed row does not answer a repeated key.
DeduplicatedWhileLive == {"running", "awaiting_approval"}

\* Statuses under which executeAction answers a repeated key with the old row.
Deduplicated == {"running", "awaiting_approval", "written", "completed"}

MissionInit ==
    /\ mission \in Missions
    /\ execution = 0
    /\ stage = "idle"
    /\ layer = 0
    /\ taskState = [t \in Tasks |-> "pending"]
    /\ attempts = [t \in Tasks |-> 0]
    /\ outcome = [t \in Tasks |-> "none"]
    /\ approvals = {}
    /\ cancelled = FALSE
    /\ actionRow = [e \in Executions |-> [t \in Tasks |-> "none"]]
    /\ effects = [e \in Executions |-> [t \in Tasks |-> 0]]
    /\ denied = [e \in Executions |-> [t \in Tasks |-> 0]]
    /\ reports = [e \in Executions |-> NoReport]

-----------------------------------------------------------------------------
\* finalize: one durable record per execution; a failed insert propagates, so the
\* call rejects and the execution leaves no record.
Finalize(e, state, tasks) ==
    \/ /\ reports' = [reports EXCEPT ![e] = Report(state, tasks)]
       /\ stage' = "idle"
    \/ /\ stage' = "rejected"
       /\ UNCHANGED reports

\* executeMission up to the first layer: governance, then planning.
Execute(granted) ==
    LET e == execution + 1
        fresh == [t \in Tasks |-> "pending"]
    IN  /\ stage \in {"idle", "rejected"}
        /\ e \in Executions
        /\ execution' = e
        /\ approvals' = granted
        /\ cancelled' = FALSE
        /\ taskState' = fresh
        /\ attempts' = [t \in Tasks |-> 0]
        /\ outcome' = [t \in Tasks |-> "none"]
        /\ layer' = 1
        /\ \/ Finalize(e, "blocked", fresh)
           \/ PlanError(mission) # "none" /\ Finalize(e, "failed", fresh)
           \/ PlanError(mission) = "none" /\ stage' = "layer" /\ UNCHANGED reports
        /\ UNCHANGED <<mission, actionRow, effects, denied>>

\* The caller's cancellation predicate turns true and stays so.
Cancel ==
    /\ stage \in {"layer", "running"}
    /\ ~cancelled
    /\ cancelled' = TRUE
    /\ UNCHANGED <<mission, execution, stage, layer, taskState, attempts, outcome,
                   approvals, actionRow, effects, denied, reports>>

\* Mutated: a failed dependency does not skip the task.
ScheduledPastFailure(t) ==
    IF \E d \in mission.deps[t] : taskState[d] \in {"waiting", "pending"} THEN "pending"
    ELSE IF t \in mission.gated \ approvals THEN "waiting"
    ELSE "running"

\* State a task gets when its layer is scheduled.
ScheduledState(t) ==
    IF \E d \in mission.deps[t] : taskState[d] \in TerminalDepFailure THEN "skipped"
    ELSE IF \E d \in mission.deps[t] : taskState[d] \in {"waiting", "pending"} THEN "pending"
    ELSE IF t \in mission.gated \ approvals THEN "waiting"
    ELSE "running"

ScheduleLayer ==
    /\ stage = "layer"
    /\ IF cancelled \/ layer > LayerCount(mission)
       THEN stage' = "final" /\ UNCHANGED taskState
       ELSE /\ stage' = "running"
            /\ taskState' = [t \in Tasks |-> IF t \in Layer(mission, layer)
                                             THEN ScheduledState(t) ELSE taskState[t]]
    /\ UNCHANGED <<mission, execution, layer, attempts, outcome, approvals, cancelled,
                   actionRow, effects, denied, reports>>

-----------------------------------------------------------------------------
\* Mutated: the policy's last attempt counts as done.
ExhaustedIsDone(t, n, ok) == IF ok \/ n >= mission.maxAttempts[t] THEN "ok" ELSE "none"

\* runWithRetry: the attempt ended; give up after the policy's last attempt.
AfterAttempt(t, n, ok) ==
    IF ok THEN "ok" ELSE IF n >= mission.maxAttempts[t] THEN "error" ELSE "none"

\* A task whose executor is not registered fails without an attempt.
NoExecutor(t) ==
    /\ stage = "running" /\ taskState[t] = "running" /\ outcome[t] = "none"
    /\ t \in mission.unregistered
    /\ outcome' = [outcome EXCEPT ![t] = "error"]
    /\ UNCHANGED <<mission, execution, stage, layer, taskState, attempts, approvals,
                   cancelled, actionRow, effects, denied, reports>>

\* The executor's key is the task's own idempotency key if its input has one, whatever
\* the execution; otherwise it is the execution's and the task's alone.
SameKey(t, u) ==
    /\ {t, u} \subseteq DOMAIN mission.ownKey
    /\ mission.ownKey[t] = mission.ownKey[u]

\* Mutated: a key of the task's own is not looked up in other tasks and executions.
FoundOwnRow(t) == {actionRow[execution][t]} \cap Deduplicated

\* Statuses of the rows the task's key finds that answer it.
FoundRows(t) ==
    ({actionRow[execution][t]} \cup
     {actionRow[e][u] : e \in Executions, u \in {v \in Tasks : SameKey(t, v)}}) \cap Deduplicated

\* actionExecutor.execute looks its key up: the status of a row found decides, and only
\* a completed one is success; otherwise a new action execution is to be inserted.
Attempt(t) ==
    /\ stage = "running" /\ taskState[t] = "running" /\ outcome[t] = "none"
    /\ t \notin mission.unregistered
    /\ attempts' = [attempts EXCEPT ![t] = @ + 1]
    /\ \/ \E row \in FoundRows(t) :
            outcome' = [outcome EXCEPT ![t] =
                            AfterAttempt(t, attempts[t] + 1, row \in {"written", "completed"})]
       \/ FoundRows(t) = {} /\ outcome' = [outcome EXCEPT ![t] = "inserting"]
    /\ UNCHANGED <<mission, execution, stage, layer, taskState, approvals, cancelled,
                   actionRow, effects, denied, reports>>

\* The insert, in which a task of the layer with the same key may have been faster.
BeginAction(t) ==
    /\ outcome[t] = "inserting"
    /\ \/ /\ actionRow' = [actionRow EXCEPT ![execution][t] = "running"]
          /\ outcome' = [outcome EXCEPT ![t] = "attempting"]
       \/ /\ outcome' = [outcome EXCEPT ![t] = AfterAttempt(t, attempts[t], FALSE)]
          /\ UNCHANGED actionRow
    /\ UNCHANGED <<mission, execution, stage, layer, taskState, attempts, approvals,
                   cancelled, effects, denied, reports>>

\* runHandler up to the row's status. A row ends failed, or is left running, whether or
\* not the handler took effect before it or a write after it threw.
HandlerRuns(e, t, status, taken) ==
    /\ status \in {"blocked", "awaiting_approval"} => taken = 0
    /\ status = "written" => taken = 1
    /\ actionRow' = [actionRow EXCEPT ![e][t] = status]
    /\ effects' = [effects EXCEPT ![e][t] = @ + taken]
    /\ denied' = [denied EXCEPT ![e][t] = IF status = "failed" THEN @ + taken ELSE @]

\* What follows a completed row: its audit event and trace, or, when one of them throws,
\* the change of the row to failed, although its handler took effect.
HandlerReturns(e, t, status) ==
    /\ actionRow[e][t] = "written"
    /\ actionRow' = [actionRow EXCEPT ![e][t] = status]
    /\ denied' = [denied EXCEPT ![e][t] = IF status = "failed" THEN @ + 1 ELSE @]
    /\ UNCHANGED effects

\* executeAction up to the row's status; unless that is completed it returns or throws
\* what the executor does not accept.
AttemptRuns(t, status, taken) ==
    /\ outcome[t] = "attempting" /\ actionRow[execution][t] = "running"
    /\ HandlerRuns(execution, t, status, taken)
    /\ outcome' = [outcome EXCEPT ![t] = IF status = "written" THEN @
                                         ELSE AfterAttempt(t, attempts[t], FALSE)]
    /\ UNCHANGED <<mission, execution, stage, layer, taskState, attempts, approvals,
                   cancelled, reports>>

\* executeAction returns its row, or throws when the row's change to failed throws too.
AttemptReturns(t, status, returned) ==
    /\ outcome[t] = "attempting"
    /\ HandlerReturns(execution, t, status)
    /\ outcome' = [outcome EXCEPT ![t] =
                       AfterAttempt(t, attempts[t], status = "completed" /\ returned)]
    /\ UNCHANGED <<mission, execution, stage, layer, taskState, attempts, approvals,
                   cancelled, reports>>

\* A human approves the task's action; it runs on its own, whatever the mission does.
ApproveAction(e, t, status, taken) ==
    /\ actionRow[e][t] = "awaiting_approval"
    /\ HandlerRuns(e, t, status, taken)
    /\ UNCHANGED <<mission, execution, stage, layer, taskState, attempts, outcome,
                   approvals, cancelled, reports>>

ApprovalReturns(e, t, status) ==
    /\ ~(e = execution /\ outcome[t] = "attempting")
    /\ HandlerReturns(e, t, status)
    /\ UNCHANGED <<mission, execution, stage, layer, taskState, attempts, outcome,
                   approvals, cancelled, reports>>

\* Promise.all resolved: apply the outcomes, then pause or go to the next layer.
SettleLayer ==
    LET now == [t \in Tasks |->
                  IF taskState[t] # "running" THEN taskState[t]
                  ELSE IF outcome[t] = "ok" THEN "completed" ELSE "failed"]
    IN  /\ stage = "running"
        /\ \A t \in Tasks : taskState[t] = "running" => outcome[t] \in {"ok", "error"}
        /\ taskState' = now
        /\ IF \E t \in Layer(mission, layer) : now[t] = "waiting"
           THEN stage' = "paused" /\ UNCHANGED layer
           ELSE stage' = "layer" /\ layer' = layer + 1
        /\ UNCHANGED <<mission, execution, attempts, outcome, approvals, cancelled,
                       actionRow, effects, denied, reports>>

\* Resolve the final state: cancellation first, then the pause, then failures.
Finish ==
    LET final == IF cancelled
                 THEN [t \in Tasks |-> IF taskState[t] \in {"completed", "failed", "skipped"}
                                       THEN taskState[t] ELSE "cancelled"]
                 ELSE taskState
        state == IF cancelled THEN "cancelled"
                 ELSE IF stage = "paused" THEN "waiting"
                 ELSE IF \E t \in Tasks : taskState[t] = "failed" THEN "failed"
                 ELSE "completed"
    IN  /\ stage \in {"paused", "final"}
        /\ taskState' = final
        /\ Finalize(execution, state, final)
        /\ UNCHANGED <<mission, execution, layer, attempts, outcome, approvals,
                       cancelled, actionRow, effects, denied>>

\* What the runtime and its executor do by themselves.
MissionStep ==
    \/ ScheduleLayer
    \/ SettleLayer
    \/ Finish
    \/ \E t \in Tasks :
         \/ NoExecutor(t)
         \/ Attempt(t)
         \/ BeginAction(t)
         \/ \E status \in {"written", "failed", "running", "blocked", "awaiting_approval"}, taken \in {0, 1} :
              AttemptRuns(t, status, taken)
         \/ \E status \in {"completed", "failed"}, returned \in BOOLEAN :
              AttemptReturns(t, status, returned)

MissionNext ==
    \/ \E granted \in SUBSET mission.gated : Execute(granted)
    \/ Cancel
    \/ MissionStep
    \/ \E e \in Executions, t \in Tasks :
         \/ \E status \in {"written", "failed", "running"}, taken \in {0, 1} : ApproveAction(e, t, status, taken)
         \/ \E status \in {"completed", "failed"} : ApprovalReturns(e, t, status)

MissionSpec == MissionInit /\ [][MissionNext]_missionVars /\ WF_missionVars(MissionStep)

-----------------------------------------------------------------------------
MissionTypeOK ==
    /\ execution \in {0} \cup Executions
    /\ stage \in Stages
    /\ layer \in 0 .. Len(mission.ids) + 1
    /\ taskState \in [Tasks -> TaskStates]
    /\ attempts \in [Tasks -> Nat]
    /\ outcome \in [Tasks -> Outcomes]
    /\ approvals \subseteq mission.gated
    /\ cancelled \in BOOLEAN
    /\ actionRow \in [Executions -> [Tasks -> RowStates]]
    /\ effects \in [Executions -> [Tasks -> Nat]]
    /\ denied \in [Executions -> [Tasks -> Nat]]
    /\ DOMAIN reports = Executions
    /\ \A e \in Executions : reports[e] # NoReport =>
         reports[e].state \in MissionStates /\ reports[e].tasks \in [Tasks -> TaskStates]

\* The planner against the reference definition: it refuses a duplicate-free mission
\* with known dependencies exactly when some task needs itself, and otherwise puts
\* every task in exactly one layer, after the layers of everything it needs
\* (planMission, execution-planner.ts:30).
PlanIsSound ==
    ~HasDuplicate(mission) /\ ~HasUnknownDependency(mission) =>
      /\ PlanError(mission) = "CYCLE" <=> \E t \in Tasks : Needs(mission, t, t)
      /\ PlanError(mission) = "none" =>
           \A t \in Tasks : \E n \in 1 .. LayerCount(mission) :
             /\ {k \in 1 .. Len(mission.ids) : t \in Layer(mission, k)} = {n}
             /\ \A d \in Tasks : Needs(mission, t, d) =>
                  \E k \in 1 .. n - 1 : d \in Layer(mission, k)

\* No task is attempted, in any interleaving of a layer's tasks, before every task it
\* transitively needs has completed and every approval gate on the way was granted
\* (layer scheduling and skipping, mission-runtime.ts:184).
AttemptsFollowDependencies ==
    \A t \in Tasks : attempts[t] > 0 =>
      /\ t \in mission.gated => t \in approvals
      /\ \A d \in Tasks : Needs(mission, t, d) =>
           taskState[d] = "completed" /\ (d \in mission.gated => d \in approvals)

\* Executions follow a sound plan (planMission, execution-planner.ts:30; executeMission,
\* mission-runtime.ts:107).
ExecutionsFollowPlan == PlanIsSound /\ AttemptsFollowDependencies

\* The task's action took effect, or one under the same key did.
TookEffect(e, t) ==
    \E f \in Executions, u \in Tasks :
      (<<f, u>> = <<e, t>> \/ SameKey(t, u)) /\ effects[f][u] >= 1

\* The durable report tells the truth about the tasks: a completed mission left no
\* task undone, a failed one names a failed task or could not be planned, a waiting
\* one names a gate, and a completed task's action took effect, in that execution or
\* under the key the task shares with another one (final state resolution,
\* mission-runtime.ts:262).
ReportTellsTruth ==
    \A e \in Executions : reports[e] # NoReport =>
      LET r == reports[e] IN
      /\ r.state = "completed" => \A t \in Tasks : r.tasks[t] = "completed"
      /\ r.state = "failed" => \/ \E t \in Tasks : r.tasks[t] = "failed"
                              \/ PlanError(mission) # "none"
      /\ r.state = "waiting" => \E t \in mission.gated : r.tasks[t] = "waiting"
      /\ \A t \in Tasks : r.tasks[t] = "completed" => TookEffect(e, t)

\* No two tasks that run together share an idempotency key.
KeysApart ==
    \A n \in 1 .. LayerCount(mission) : \A t, u \in Layer(mission, n) : SameKey(t, u) => t = u

\* Whatever retries, repeated executions and late approvals do, a task's action takes
\* effect again only after the row that recorded its effect was changed to failed, an
\* effect that stands is the one of a running or completed row, there are no more of them
\* than attempts, and unless tasks that run together share a key, no key has two rows that
\* answer it (the executor's key, action-executor.ts:53; the change to failed,
\* action-service.ts:233).
RepeatsOnlyAfterFailure ==
    /\ \A e \in Executions, t \in Tasks :
         LET row == actionRow[e][t] IN
         /\ effects[e][t] \in {denied[e][t], denied[e][t] + 1}
         /\ row \in {"written", "completed"} => effects[e][t] = denied[e][t] + 1
         /\ row \notin {"running", "written", "completed"} => effects[e][t] = denied[e][t]
         /\ effects[e][t] <= mission.maxAttempts[t]
    /\ KeysApart =>
         \A e, f \in Executions, t, u \in Tasks :
           SameKey(t, u) /\ {actionRow[e][t], actionRow[f][u]} \subseteq Deduplicated => <<e, t>> = <<f, u>>

\* No execution is under way: each has its durable report, or was rejected because the
\* record could not be written.
MissionSettled == stage \in {"idle", "rejected"}

=============================================================================
