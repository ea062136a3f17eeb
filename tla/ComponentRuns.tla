---------------------------- MODULE ComponentRuns ----------------------------
(***************************************************************************)
(* Runs of one runtime component and the incidents their failures raise:   *)
(* function runs, asset pipeline runs and integration syncs share one      *)
(* shape.  A run inserts its row, works, completes the row and traces it;  *)
(* whatever throws fails the row, and the failure is counted twice, over   *)
(* the traces and over the rows of the last minutes, each time with a look *)
(* for an incident as recent before raising one                            *)
(* (mission-control/runtime/failure-threshold). Nothing resolves incidents.*)
(***************************************************************************)
EXTENDS Integers, Sequences, FiniteSets, SequencesExt

CONSTANTS
    ComponentKinds,     \* kinds of component: "function", "pipeline", "integration"
    ComponentRunIds,    \* the runs
    RunAsset,           \* the raw asset a pipeline run processes
    Children,           \* child assets found in each asset, in order
    HighThreshold, CriticalThreshold,
    FailureWindow,      \* how long failures and incidents count: 15 minutes
    MaxRunsClock        \* bound on the time that passes

ASSUME RunsAssumption ==
    /\ {HighThreshold, CriticalThreshold} \subseteq Nat \ {0}
    /\ HighThreshold <= CriticalThreshold
    /\ {FailureWindow, MaxRunsClock} \subseteq Nat
    /\ IsFiniteSet(ComponentRunIds)
    /\ RunAsset \in DOMAIN Children
    /\ Children \in [DOMAIN Children -> Seq(DOMAIN Children)]
    /\ {"document", "records", "transforms", "chunks", "objects"} \cap DOMAIN Children = {}

VARIABLES
    componentKind,  \* what the component is
    runs,           \* each run: stage, row, produced, traced, seen
    rowAt, traceAt, \* when each run's row and its failure trace were created
    incidents,      \* the component's incidents, oldest first: severity, and when raised
    connection,     \* status of the integration's connection
    runOverlap,     \* two runs were under way at once
    runClock        \* the time

runsVars == <<componentKind, runs, rowAt, traceAt, incidents, connection, runOverlap, runClock>>

MaxChildDepth == 3

\* An asset's children in order, each before what deeper finds in it.
WithChildren(deeper) ==
    [a \in DOMAIN Children |->
       FlattenSeq([i \in DOMAIN Children[a] |-> <<Children[a][i]>> \o deeper[Children[a][i]]])]

\* processChildAssets, down to the depth limit.
ChildStages(asset) ==
    LET below[d \in 0 .. MaxChildDepth] ==
            IF d = 0 THEN [a \in DOMAIN Children |-> << >>] ELSE WithChildren(below[d - 1])
    IN  below[MaxChildDepth][asset]

\* What a run persists, stage by stage; each stage may throw.
PipelineStages ==
    <<"document", "records">> \o ChildStages(RunAsset) \o <<"transforms", "chunks", "objects">>

FunctionStages == <<"output">>

SyncStages == <<"mappings", "classifications">>

WorkStages == CASE componentKind = "pipeline" -> PipelineStages
                [] componentKind = "function" -> FunctionStages
                [] OTHER -> SyncStages

NewRun == [stage |-> "start", row |-> "none", produced |-> 0, traced |-> {}, seen |-> 0]

RunsInit ==
    /\ componentKind \in ComponentKinds
    /\ runs = [r \in ComponentRunIds |-> NewRun]
    /\ rowAt = [r \in ComponentRunIds |-> 0]
    /\ traceAt = rowAt
    /\ incidents = << >>
    /\ connection = "active"
    /\ runOverlap = FALSE
    /\ runClock = 0

RunEnded == {"start", "refused", "returned", "rejected"}

\* The time r's row or trace carries, if it is inserted now.
Stamped(times, r, inserted) == IF inserted THEN [times EXCEPT ![r] = runClock] ELSE times

Goto(r, s) ==
    /\ runs[r].stage \notin {"returned", "rejected"}
    /\ runOverlap' = (runOverlap \/ \E q \in ComponentRunIds \ {r} : runs[q].stage \notin RunEnded)
    /\ runs' = s
    /\ rowAt' = Stamped(rowAt, r, runs[r].row = "none" /\ s[r].row # "none")
    /\ traceAt' = Stamped(traceAt, r, "failed" \in s[r].traced \ runs[r].traced)
    /\ UNCHANGED <<componentKind, runClock>>

\* The kill switch refuses the run, or its row is inserted; a sync whose provider has no
\* adapter then throws outside the try and leaves the row running.
StartComponentRun(r) ==
    /\ runs[r].stage = "start"
    /\ \/ Goto(r, [runs EXCEPT ![r].stage = "refused"])
       \/ componentKind = "integration" /\ Goto(r, [runs EXCEPT ![r].stage = "rejected", ![r].row = "running"])
       \/ Goto(r, [runs EXCEPT ![r].stage = "working", ![r].row = "running"])
    /\ UNCHANGED <<incidents, connection>>

\* Mutated: a stage that throws ends the work quietly.
WorkStageSwallowing(r) ==
    /\ runs[r].stage = "working"
    /\ \/ /\ runs[r].produced < Len(WorkStages)
          /\ Goto(r, [runs EXCEPT ![r].produced = @ + 1])
       \/ Goto(r, [runs EXCEPT ![r].stage = "completing"])
    /\ UNCHANGED <<incidents, connection>>

WorkStage(r) ==
    /\ runs[r].stage = "working"
    /\ \/ /\ runs[r].produced < Len(WorkStages)
          /\ Goto(r, [runs EXCEPT ![r].produced = @ + 1])
       \/ /\ runs[r].produced < Len(WorkStages)
          /\ Goto(r, [runs EXCEPT ![r].stage = "failing"])
       \/ /\ runs[r].produced = Len(WorkStages)
          /\ Goto(r, [runs EXCEPT ![r].stage = "completing"])
    /\ UNCHANGED <<incidents, connection>>

\* Statuses the registered adapters' sync reports (a sync that fails throws); the other
\* components always complete.
ResultStatuses == IF componentKind = "integration" THEN {"completed", "degraded"} ELSE {"completed"}

CompleteRow(r) ==
    /\ runs[r].stage = "completing"
    /\ \/ \E status \in ResultStatuses :
            Goto(r, [runs EXCEPT ![r].row = status, ![r].stage = "reporting"])
       \/ Goto(r, [runs EXCEPT ![r].stage = "failing"])
    /\ UNCHANGED <<incidents, connection>>

\* The trace and what follows it, still inside the try: a pipeline traces last, a function
\* records its usage and a sync its connection's status and an audit event afterwards.
ReportRun(r) ==
    LET traced == runs[r].traced \cup {"completed"}
        degrading == runs[r].row = "degraded"
    IN  /\ runs[r].stage = "reporting"
        /\ \/ /\ Goto(r, [runs EXCEPT ![r].traced = traced, ![r].stage = "returned"])
              /\ connection' = IF degrading THEN "degraded" ELSE connection
           \/ /\ Goto(r, [runs EXCEPT ![r].stage = "failing"])
              /\ UNCHANGED connection
           \/ /\ componentKind # "pipeline"
              /\ Goto(r, [runs EXCEPT ![r].traced = traced, ![r].stage = "failing"])
              /\ connection' \in {connection} \cup IF degrading THEN {"degraded"} ELSE {}
        /\ UNCHANGED incidents

-----------------------------------------------------------------------------
\* The catch block. Any of its writes may throw in turn: the call rejects.
Reject(r) ==
    /\ runs[r].stage \in {"failing", "tracing", "counting_traces", "looking_traces", "raising_traces",
                          "counting_rows", "looking_rows", "raising_rows"}
    /\ Goto(r, [runs EXCEPT ![r].stage = "rejected"])
    /\ UNCHANGED <<incidents, connection>>

\* The failing update; a sync then fails its connection, which may throw.
FailRow(r) ==
    /\ runs[r].stage = "failing"
    /\ \/ /\ Goto(r, [runs EXCEPT ![r].row = "failed", ![r].stage = "tracing"])
          /\ connection' = IF componentKind = "integration" THEN "failed" ELSE connection
       \/ /\ componentKind = "integration"
          /\ Goto(r, [runs EXCEPT ![r].row = "failed", ![r].stage = "rejected"])
          /\ UNCHANGED connection
    /\ UNCHANGED incidents

TraceFailure(r) ==
    /\ runs[r].stage = "tracing"
    /\ Goto(r, [runs EXCEPT ![r].traced = @ \cup {"failed"}, ![r].stage = "counting_traces"])
    /\ UNCHANGED <<incidents, connection>>

Recent(time) == runClock - time <= FailureWindow

FailedTraces == Cardinality({r \in ComponentRunIds : "failed" \in runs[r].traced /\ Recent(traceAt[r])})
FailedRows == Cardinality({r \in ComponentRunIds : runs[r].row = "failed" /\ Recent(rowAt[r])})

\* Where a count leads: the look-up for an open incident comes next.
LookingAfter(stage) ==
    IF stage = "counting_traces" THEN "looking_traces" ELSE "looking_rows"

\* countRecentFailures, in createRuntimeTrace and then in the runner.
CountFailures(r) ==
    LET stage == runs[r].stage IN
    /\ stage \in {"counting_traces", "counting_rows"}
    /\ Goto(r, [runs EXCEPT ![r].stage = LookingAfter(stage),
                 ![r].seen = IF stage = "counting_rows" THEN FailedRows ELSE FailedTraces])
    /\ UNCHANGED <<incidents, connection>>

Severity(n) ==
    IF n >= CriticalThreshold THEN "critical" ELSE IF n >= HighThreshold THEN "high" ELSE "none"

\* What follows an incident check: the trace's is followed by the runner's own.
AfterCheck(stage) ==
    IF stage \in {"looking_traces", "raising_traces"} THEN "counting_rows" ELSE "returned"

RaisingAfter(stage) ==
    IF stage = "looking_traces" THEN "raising_traces" ELSE "raising_rows"

\* Mutated: an incident found is one however old.
AnyIncidents == DOMAIN incidents

\* The incidents that keep another one from being raised.
RecentIncidents == {i \in DOMAIN incidents : Recent(incidents[i].at)}

FirstRecent == CHOOSE i \in RecentIncidents : \A j \in RecentIncidents : i <= j

\* maybeRaiseFailureIncident: below the threshold, a recent incident found (and
\* escalated), or one to raise.
LookForIncident(r) ==
    LET stage == runs[r].stage
        severity == Severity(runs[r].seen)
        done == [runs EXCEPT ![r].stage = AfterCheck(stage), ![r].seen = 0]
    IN  /\ stage \in {"looking_traces", "looking_rows"}
        /\ \/ severity = "none" /\ Goto(r, done) /\ UNCHANGED incidents
           \/ /\ severity # "none" /\ RecentIncidents # {}
              /\ incidents' = IF severity = "critical" THEN [incidents EXCEPT ![FirstRecent].severity = severity]
                              ELSE incidents
              /\ Goto(r, done)
           \/ /\ severity # "none" /\ RecentIncidents = {}
              /\ Goto(r, [runs EXCEPT ![r].stage = RaisingAfter(stage)])
              /\ UNCHANGED incidents
        /\ UNCHANGED connection

\* raiseIncident inserts the incident, then its audit event, which may throw.
RaiseIncident(r) ==
    /\ runs[r].stage \in {"raising_traces", "raising_rows"}
    /\ incidents' = Append(incidents, [severity |-> Severity(runs[r].seen), at |-> runClock])
    /\ \E after \in {AfterCheck(runs[r].stage), "rejected"} :
         Goto(r, [runs EXCEPT ![r].stage = after, ![r].seen = 0])
    /\ UNCHANGED connection

RunStep(r) ==
    \/ WorkStage(r) \/ CompleteRow(r) \/ ReportRun(r) \/ Reject(r) \/ FailRow(r)
    \/ TraceFailure(r) \/ CountFailures(r) \/ LookForIncident(r) \/ RaiseIncident(r)

RunsStep == \E r \in ComponentRunIds : RunStep(r)

RunsElapse ==
    /\ runClock < MaxRunsClock
    /\ runClock' = runClock + 1
    /\ UNCHANGED <<componentKind, runs, rowAt, traceAt, incidents, connection, runOverlap>>

RunsNext == (\E r \in ComponentRunIds : StartComponentRun(r)) \/ RunsStep \/ RunsElapse

RunsSpec == RunsInit /\ [][RunsNext]_runsVars /\ WF_runsVars(RunsStep)

-----------------------------------------------------------------------------
RunsTypeOK ==
    /\ componentKind \in ComponentKinds
    /\ \A r \in ComponentRunIds :
         /\ runs[r].row \in {"none", "running", "completed", "degraded", "failed"}
         /\ runs[r].produced \in Nat
         /\ runs[r].traced \subseteq {"completed", "failed"}
         /\ runs[r].seen \in 0 .. Cardinality(ComponentRunIds)
    /\ runClock \in 0 .. MaxRunsClock
    /\ {rowAt, traceAt} \subseteq [ComponentRunIds -> 0 .. runClock]
    /\ incidents \in Seq([severity : {"high", "critical"}, at : 0 .. runClock])
    /\ connection \in {"active", "degraded", "failed"}
    /\ runOverlap \in BOOLEAN

\* So many runs failed within one window that had passed by then, going by their rows
\* or by their traces.
CrossedBy(n, time) ==
    \E t \in 0 .. time :
      \/ Cardinality({r \in ComponentRunIds : runs[r].row = "failed" /\ rowAt[r] \in t - FailureWindow .. t}) >= n
      \/ Cardinality({r \in ComponentRunIds :
                        "failed" \in runs[r].traced /\ traceAt[r] \in t - FailureWindow .. t}) >= n

\* An incident of one of these severities was raised after all of these runs began, or less
\* than a window before the last of them.
Covered(S, severities) ==
    \E i \in DOMAIN incidents :
      incidents[i].severity \in severities /\ \A r \in S : rowAt[r] <= incidents[i].at + FailureWindow

\* In any interleaving of failing runs, an incident is there once a threshold's worth of
\* runs of one window has returned from the catch block, and a critical one at the critical
\* threshold; none is there, and none is critical, before as many failed within a window;
\* and runs that never overlapped raise no two within one (maybeRaiseFailureIncident,
\* failure-threshold.ts:20).
IncidentsFollowFailures ==
    LET caught == {r \in ComponentRunIds :
                     runs[r].stage = "returned" /\ "failed" \in runs[r].traced /\ Recent(rowAt[r])}
    IN  /\ Cardinality(caught) >= HighThreshold => Covered(caught, {"high", "critical"})
        /\ Cardinality(caught) >= CriticalThreshold => Covered(caught, {"critical"})
        /\ \A i \in DOMAIN incidents :
             /\ CrossedBy(HighThreshold, incidents[i].at)
             /\ incidents[i].severity = "critical" => CrossedBy(CriticalThreshold, runClock)
        /\ ~runOverlap => \A i, j \in DOMAIN incidents :
                           i < j => incidents[j].at > incidents[i].at + FailureWindow

\* A returned run's row, its traces and what it persisted agree: a row not failed stands
\* for all of the work, child assets to the depth limit included, and a failed row is
\* traced as failed; a connection that is not active has a run to blame
\* (runAssetPipeline, pipeline-runner.ts:72; runSync, integration-sync-service.ts:111).
RowTellsTruth ==
    /\ \A r \in ComponentRunIds :
         runs[r].stage = "returned" =>
           /\ runs[r].row = "failed" <=> "failed" \in runs[r].traced
           /\ runs[r].row # "failed" => runs[r].produced = Len(WorkStages)
    /\ connection # "active" => \E r \in ComponentRunIds : runs[r].row \in {"degraded", "failed"}
    /\ componentKind = "pipeline" =>
         LET level1 == ToSet(Children[RunAsset])
             level2 == UNION {ToSet(Children[a]) : a \in level1}
             level3 == UNION {ToSet(Children[a]) : a \in level2}
         IN  ToSet(WorkStages) \cap DOMAIN Children = level1 \cup level2 \cup level3

\* Whatever fails, and in whatever order the runs' steps interleave, the rows, the traces
\* and the incidents tell the same story (the catch blocks of runFunction, runAssetPipeline,
\* runSync and maybeRaiseFailureIncident, failure-threshold.ts:20).
RunsAreAccountedFor == IncidentsFollowFailures /\ RowTellsTruth

\* Every run that started has answered its caller or rejected.
RunsSettled == \A r \in ComponentRunIds : runs[r].stage \in RunEnded

=============================================================================
