----------------------- MODULE ExecutionServicesProofs -----------------------
(***************************************************************************)
(* What the execution services promise whatever their runs, graphs, plans, *)
(* limits and thresholds are.  Each has its own specification and shares   *)
(* no state with the others, so each has an inductive invariant of its own:*)
(*   RunsInv      runs of components and their incidents (ComponentRuns);  *)
(*   AgentInv     agent runs (AgentRunner);                                *)
(*   PipelineInv  inference executions (InferencePipeline);                *)
(*   CacheInv     the cache platform (CacheManager);                       *)
(*   RoutingInv   routed requests (Routing), whose weight is in the lemmas *)
(*                about what route computes.                               *)
(* ServicesInv puts them together for the composition that the run checks, *)
(* with the invariant of missions from MissionProofs.                      *)
(***************************************************************************)
EXTENDS MCExecutionServices, MissionProofs

-----------------------------------------------------------------------------
\* Component runs. The stages of a run, and those that follow its failure trace.
RunStages ==
    {"start", "refused", "working", "completing", "reporting", "returned", "rejected", "failing", "tracing",
     "counting_traces", "looking_traces", "raising_traces", "counting_rows", "looking_rows", "raising_rows"}

CheckingStages ==
    {"counting_traces", "looking_traces", "raising_traces", "counting_rows", "looking_rows", "raising_rows"}

RunRecords ==
    [stage : RunStages, row : {"none", "running", "completed", "degraded", "failed"}, produced : Nat,
     traced : SUBSET {"completed", "failed"}, seen : Nat]

IncidentRecords == [severity : {"high", "critical"}, at : Nat]

RunsTyped ==
    /\ componentKind \in ComponentKinds
    /\ runs \in [ComponentRunIds -> RunRecords]
    /\ incidents \in Seq(IncidentRecords)
    /\ connection \in {"active", "degraded", "failed"}
    /\ runOverlap \in BOOLEAN

\* Whatever carries a time was created by now.
TimesPassed ==
    /\ runClock \in 0 .. MaxRunsClock
    /\ rowAt \in [ComponentRunIds -> 0 .. runClock]
    /\ traceAt \in [ComponentRunIds -> 0 .. runClock]
    /\ \A i \in DOMAIN incidents : incidents[i].at <= runClock

\* A run's row and traces are what its stage says, when its work has that many stages.
RowAgrees(run, all) ==
    /\ run.stage = "start" => run.row = "none"
    /\ run.stage \in {"working", "completing"} => run.row = "running"
    /\ run.stage = "reporting" => run.row \in {"completed", "degraded"}
    /\ run.stage \in {"completing", "reporting"} => run.produced = all
    /\ run.stage = "tracing" => run.row = "failed"
    /\ run.stage \in CheckingStages => "failed" \in run.traced
    /\ "failed" \in run.traced => run.row = "failed"
    /\ run.stage = "returned" => "failed" \in run.traced \/ (run.row # "failed" /\ run.produced = all)

RowFollowsStage == \A r \in ComponentRunIds : RowAgrees(runs[r], Len(WorkStages))

\* A connection that is not active has a run to blame.
ConnectionHasCause ==
    connection # "active" => \E r \in ComponentRunIds : runs[r].row \in {"degraded", "failed"}

\* As many runs failed within a window as were counted, and an incident is raised at a
\* threshold only.
CountsAreOfFailures ==
    /\ \A r \in ComponentRunIds :
         /\ runs[r].seen <= Cardinality(ComponentRunIds)
         /\ \A n \in Nat : runs[r].seen >= n => CrossedBy(n, runClock)
         /\ runs[r].stage \in {"raising_traces", "raising_rows"} => runs[r].seen >= HighThreshold
    /\ \A i \in DOMAIN incidents :
         /\ CrossedBy(HighThreshold, incidents[i].at)
         /\ incidents[i].severity = "critical" => CrossedBy(CriticalThreshold, runClock)

\* The failed runs whose last count was taken, and that will not raise an incident for n.
Unanswered(n) ==
    {r \in ComponentRunIds :
       /\ runs[r].stage \in {"looking_rows", "raising_rows", "returned"}
       /\ "failed" \in runs[r].traced
       /\ runs[r].stage = "returned" \/ runs[r].seen < n}

\* Those of them whose rows are recent.
RecentUnanswered(n) == {r \in Unanswered(n) : Recent(rowAt[r])}

Answered(n, severities) ==
    Cardinality(RecentUnanswered(n)) >= n => Covered(RecentUnanswered(n), severities)

\* Of the runs that counted, the last one saw all that are recent: until an incident covers
\* them, fewer than a threshold's worth of them are left that do not raise it.
UnansweredAreFew ==
    /\ Answered(HighThreshold, {"high", "critical"})
    /\ Answered(CriticalThreshold, {"critical"})

\* Until two runs are under way at once, the one that looked for an incident raises it
\* before anyone else looks.
AloneUnlessOverlapping ==
    ~runOverlap =>
      /\ \A q, r \in ComponentRunIds : runs[q].stage \notin RunEnded /\ runs[r].stage \notin RunEnded => q = r
      /\ \A r \in ComponentRunIds :
           runs[r].stage \in {"raising_traces", "raising_rows"} =>
             \A i \in DOMAIN incidents : runClock > incidents[i].at + FailureWindow
      /\ \A i, j \in DOMAIN incidents : i < j => incidents[j].at > incidents[i].at + FailureWindow

RunsInv ==
    /\ RunsTyped
    /\ TimesPassed
    /\ RowFollowsStage
    /\ ConnectionHasCause
    /\ CountsAreOfFailures
    /\ UnansweredAreFew
    /\ AloneUnlessOverlapping

-----------------------------------------------------------------------------
\* s is the runs with r moved to a run of these fields.
Becomes(s, r, next, row, produced, traced, seen) ==
    /\ s \in [ComponentRunIds -> RunRecords]
    /\ \A q \in ComponentRunIds : q # r => s[q] = runs[q]
    /\ s[r].stage = next /\ s[r].row = row /\ s[r].produced = produced /\ s[r].traced = traced /\ s[r].seen = seen

\* What updates of a run's fields make of the runs.
LEMMA StageMoved ==
    ASSUME RunsTyped, NEW r \in ComponentRunIds, NEW next \in RunStages
    PROVE  Becomes([runs EXCEPT ![r].stage = next], r, next, runs[r].row, runs[r].produced, runs[r].traced, runs[r].seen)
<1>1. PICK s : s = [runs EXCEPT ![r].stage = next]
  OBVIOUS
<1>2. Becomes(s, r, next, runs[r].row, runs[r].produced, runs[r].traced, runs[r].seen)
  BY <1>1 DEF Becomes, RunsTyped, RunRecords, RunStages
<1> QED
  BY <1>1, <1>2

LEMMA StageAndRowMoved ==
    ASSUME RunsTyped, NEW r \in ComponentRunIds, NEW next \in RunStages,
           NEW row \in {"none", "running", "completed", "degraded", "failed"}
    PROVE  Becomes([runs EXCEPT ![r].stage = next, ![r].row = row], r, next, row, runs[r].produced, runs[r].traced, runs[r].seen)
<1>1. PICK s : s = [runs EXCEPT ![r].stage = next, ![r].row = row]
  OBVIOUS
<1>2. \A q \in ComponentRunIds : q # r => s[q] = runs[q]
  BY <1>1 DEF RunsTyped
<1>3. s \in [ComponentRunIds -> RunRecords]
  <2>1. PICK g : g = [runs EXCEPT ![r].stage = next]
    OBVIOUS
  <2>2. [runs[r] EXCEPT !.stage = next] \in RunRecords
    BY DEF RunsTyped, RunRecords
  <2>3. g = [runs EXCEPT ![r] = [runs[r] EXCEPT !.stage = next]]
    BY <2>1
  <2>4. g \in [ComponentRunIds -> RunRecords]
    BY <2>2, <2>3 DEF RunsTyped
  <2>5. [g[r] EXCEPT !.row = row] \in RunRecords
    BY <2>4 DEF RunRecords
  <2>6. s = [g EXCEPT ![r] = [g[r] EXCEPT !.row = row]]
    BY <1>1, <2>1
  <2> QED
    BY <2>4, <2>5, <2>6
<1>4. /\ s[r].stage = next /\ s[r].row = row /\ s[r].produced = runs[r].produced
      /\ s[r].traced = runs[r].traced /\ s[r].seen = runs[r].seen
  BY <1>1 DEF RunsTyped, RunRecords
<1> QED
  BY <1>1, <1>2, <1>3, <1>4 DEF Becomes

LEMMA RowAndStageMoved ==
    ASSUME RunsTyped, NEW r \in ComponentRunIds, NEW next \in RunStages,
           NEW row \in {"none", "running", "completed", "degraded", "failed"}
    PROVE  Becomes([runs EXCEPT ![r].row = row, ![r].stage = next], r, next, row, runs[r].produced, runs[r].traced, runs[r].seen)
<1>1. PICK s : s = [runs EXCEPT ![r].row = row, ![r].stage = next]
  OBVIOUS
<1>2. \A q \in ComponentRunIds : q # r => s[q] = runs[q]
  BY <1>1 DEF RunsTyped
<1>3. s \in [ComponentRunIds -> RunRecords]
  <2>1. PICK g : g = [runs EXCEPT ![r].row = row]
    OBVIOUS
  <2>2. [runs[r] EXCEPT !.row = row] \in RunRecords
    BY DEF RunsTyped, RunRecords
  <2>3. g = [runs EXCEPT ![r] = [runs[r] EXCEPT !.row = row]]
    BY <2>1
  <2>4. g \in [ComponentRunIds -> RunRecords]
    BY <2>2, <2>3 DEF RunsTyped
  <2>5. [g[r] EXCEPT !.stage = next] \in RunRecords
    BY <2>4 DEF RunRecords
  <2>6. s = [g EXCEPT ![r] = [g[r] EXCEPT !.stage = next]]
    BY <1>1, <2>1
  <2> QED
    BY <2>4, <2>5, <2>6
<1>4. /\ s[r].stage = next /\ s[r].row = row /\ s[r].produced = runs[r].produced
      /\ s[r].traced = runs[r].traced /\ s[r].seen = runs[r].seen
  BY <1>1 DEF RunsTyped, RunRecords
<1> QED
  BY <1>1, <1>2, <1>3, <1>4 DEF Becomes

LEMMA StageAndCountMoved ==
    ASSUME RunsTyped, NEW r \in ComponentRunIds, NEW next \in RunStages, NEW seen \in Nat
    PROVE  Becomes([runs EXCEPT ![r].stage = next, ![r].seen = seen], r, next, runs[r].row, runs[r].produced, runs[r].traced, seen)
<1>1. PICK s : s = [runs EXCEPT ![r].stage = next, ![r].seen = seen]
  OBVIOUS
<1>2. Becomes(s, r, next, runs[r].row, runs[r].produced, runs[r].traced, seen)
  BY <1>1, ZenonT(60) DEF Becomes, RunsTyped, RunRecords, RunStages
<1> QED
  BY <1>1, <1>2

LEMMA TraceAndStageMoved ==
    ASSUME RunsTyped, NEW r \in ComponentRunIds, NEW next \in RunStages,
           NEW traced \in SUBSET {"completed", "failed"}
    PROVE  Becomes([runs EXCEPT ![r].traced = traced, ![r].stage = next], r, next, runs[r].row, runs[r].produced, traced, runs[r].seen)
<1>1. PICK s : s = [runs EXCEPT ![r].traced = traced, ![r].stage = next]
  OBVIOUS
<1>2. \A q \in ComponentRunIds : q # r => s[q] = runs[q]
  BY <1>1 DEF RunsTyped
<1>3. s \in [ComponentRunIds -> RunRecords]
  <2>1. PICK g : g = [runs EXCEPT ![r].traced = traced]
    OBVIOUS
  <2>2. [runs[r] EXCEPT !.traced = traced] \in RunRecords
    BY DEF RunsTyped, RunRecords
  <2>3. g = [runs EXCEPT ![r] = [runs[r] EXCEPT !.traced = traced]]
    BY <2>1
  <2>4. g \in [ComponentRunIds -> RunRecords]
    BY <2>2, <2>3 DEF RunsTyped
  <2>5. [g[r] EXCEPT !.stage = next] \in RunRecords
    BY <2>4 DEF RunRecords
  <2>6. s = [g EXCEPT ![r] = [g[r] EXCEPT !.stage = next]]
    BY <1>1, <2>1
  <2> QED
    BY <2>4, <2>5, <2>6
<1>4. /\ s[r].stage = next /\ s[r].row = runs[r].row /\ s[r].produced = runs[r].produced
      /\ s[r].traced = traced /\ s[r].seen = runs[r].seen
  BY <1>1 DEF RunsTyped, RunRecords
<1> QED
  BY <1>1, <1>2, <1>3, <1>4 DEF Becomes

LEMMA WorkMoved ==
    ASSUME RunsTyped, NEW r \in ComponentRunIds, NEW produced \in Nat
    PROVE  Becomes([runs EXCEPT ![r].produced = produced], r, runs[r].stage, runs[r].row, produced, runs[r].traced, runs[r].seen)
<1>1. PICK s : s = [runs EXCEPT ![r].produced = produced]
  OBVIOUS
<1>2. \A q \in ComponentRunIds : q # r => s[q] = runs[q]
  BY <1>1 DEF RunsTyped
<1>3. s \in [ComponentRunIds -> RunRecords]
  <2>1. [runs[r] EXCEPT !.produced = produced] \in RunRecords
    BY DEF RunsTyped, RunRecords
  <2>2. s = [runs EXCEPT ![r] = [runs[r] EXCEPT !.produced = produced]]
    BY <1>1
  <2> QED
    BY <2>1, <2>2 DEF RunsTyped
<1>4. /\ s[r].stage = runs[r].stage /\ s[r].row = runs[r].row /\ s[r].produced = produced
      /\ s[r].traced = runs[r].traced /\ s[r].seen = runs[r].seen
  BY <1>1 DEF RunsTyped, RunRecords
<1> QED
  BY <1>1, <1>2, <1>3, <1>4 DEF Becomes

\* What a step makes of run r, by the fields it updates.
LEMMA RunOutcomes ==
    ASSUME RunsTyped, NEW r \in ComponentRunIds, NEW old, old = runs[r]
    PROVE  /\ \A next \in RunStages : runs' = [runs EXCEPT ![r].stage = next] => Becomes(runs', r, next, old.row, old.produced, old.traced, old.seen)
           /\ \A next \in RunStages, seen \in Nat :
                runs' = [runs EXCEPT ![r].stage = next, ![r].seen = seen] =>
                  Becomes(runs', r, next, old.row, old.produced, old.traced, seen)
           /\ \A next \in RunStages, row \in {"none", "running", "completed", "degraded", "failed"} :
                 runs' = [runs EXCEPT ![r].stage = next, ![r].row = row] =>
                   Becomes(runs', r, next, row, old.produced, old.traced, old.seen)
           /\ \A next \in RunStages, row \in {"none", "running", "completed", "degraded", "failed"} :
                 runs' = [runs EXCEPT ![r].row = row, ![r].stage = next] =>
                   Becomes(runs', r, next, row, old.produced, old.traced, old.seen)
           /\ \A next \in RunStages, traced \in SUBSET {"completed", "failed"} :
                 runs' = [runs EXCEPT ![r].traced = traced, ![r].stage = next] =>
                   Becomes(runs', r, next, old.row, old.produced, traced, old.seen)
           /\ \A produced \in Nat : runs' = [runs EXCEPT ![r].produced = produced] =>
                 Becomes(runs', r, old.stage, old.row, produced, old.traced, old.seen)
<1>1. /\ \A next \in RunStages : runs' = [runs EXCEPT ![r].stage = next] => Becomes(runs', r, next, old.row, old.produced, old.traced, old.seen)
      /\ \A next \in RunStages, seen \in Nat :
           runs' = [runs EXCEPT ![r].stage = next, ![r].seen = seen] =>
             Becomes(runs', r, next, old.row, old.produced, old.traced, seen)
  <2>1. ASSUME NEW next \in RunStages, runs' = [runs EXCEPT ![r].stage = next]
        PROVE  Becomes(runs', r, next, old.row, old.produced, old.traced, old.seen)
    BY <2>1, StageMoved
  <2>2. ASSUME NEW next \in RunStages, NEW seen \in Nat, runs' = [runs EXCEPT ![r].stage = next, ![r].seen = seen]
        PROVE  Becomes(runs', r, next, old.row, old.produced, old.traced, seen)
    BY <2>2, StageAndCountMoved
  <2> QED
    BY <2>1, <2>2
<1>2. /\ \A next \in RunStages, row \in {"none", "running", "completed", "degraded", "failed"} :
            runs' = [runs EXCEPT ![r].stage = next, ![r].row = row] =>
              Becomes(runs', r, next, row, old.produced, old.traced, old.seen)
      /\ \A next \in RunStages, row \in {"none", "running", "completed", "degraded", "failed"} :
            runs' = [runs EXCEPT ![r].row = row, ![r].stage = next] =>
              Becomes(runs', r, next, row, old.produced, old.traced, old.seen)
      /\ \A next \in RunStages, traced \in SUBSET {"completed", "failed"} :
            runs' = [runs EXCEPT ![r].traced = traced, ![r].stage = next] =>
              Becomes(runs', r, next, old.row, old.produced, traced, old.seen)
      /\ \A produced \in Nat : runs' = [runs EXCEPT ![r].produced = produced] =>
            Becomes(runs', r, old.stage, old.row, produced, old.traced, old.seen)
  <2>1. ASSUME NEW next \in RunStages, NEW row \in {"none", "running", "completed", "degraded", "failed"},
               runs' = [runs EXCEPT ![r].stage = next, ![r].row = row]
        PROVE  Becomes(runs', r, next, row, old.produced, old.traced, old.seen)
    BY <2>1, StageAndRowMoved
  <2>2. ASSUME NEW next \in RunStages, NEW row \in {"none", "running", "completed", "degraded", "failed"},
               runs' = [runs EXCEPT ![r].row = row, ![r].stage = next]
        PROVE  Becomes(runs', r, next, row, old.produced, old.traced, old.seen)
    BY <2>2, RowAndStageMoved
  <2>3. ASSUME NEW next \in RunStages, NEW traced \in SUBSET {"completed", "failed"},
               runs' = [runs EXCEPT ![r].traced = traced, ![r].stage = next]
        PROVE  Becomes(runs', r, next, old.row, old.produced, traced, old.seen)
    BY <2>3, TraceAndStageMoved
  <2>4. ASSUME NEW produced \in Nat, runs' = [runs EXCEPT ![r].produced = produced]
        PROVE  Becomes(runs', r, old.stage, old.row, produced, old.traced, old.seen)
    BY <2>4, WorkMoved
  <2> QED
    BY <2>1, <2>2, <2>3, <2>4
<1> QED
  BY <1>1, <1>2

\* Runs are counted in numbers.
LEMMA CountsOfFailures ==
    FailedTraces \in Nat /\ FailedRows \in Nat
<1>1. IsFiniteSet({q \in ComponentRunIds : "failed" \in runs[q].traced /\ Recent(traceAt[q])})
  BY RunsAssumption, FS_Subset
<1>2. IsFiniteSet({q \in ComponentRunIds : runs[q].row = "failed" /\ Recent(rowAt[q])})
  BY RunsAssumption, FS_Subset
<1> QED
  BY <1>1, <1>2, FS_CardinalityType DEF FailedTraces, FailedRows

\* One step of run r: it alone moves, a failed row and a failure trace stay, and its row
\* goes on following its stage.
LEMMA MoveKeepsRows ==
    ASSUME RunsTyped, RowFollowsStage, NEW r \in ComponentRunIds, StartComponentRun(r) \/ RunStep(r)
    PROVE  /\ runs' \in [ComponentRunIds -> RunRecords]
           /\ \A q \in ComponentRunIds : q # r => runs'[q] = runs[q]
           /\ componentKind' = componentKind
           /\ runOverlap' \in BOOLEAN
           /\ RowFollowsStage'
           /\ Goto(r, runs')
           /\ runs[r].row = "failed" => runs'[r].row = "failed"
           /\ runs[r].row = "degraded" => runs'[r].row \in {"degraded", "failed"}
<1> USE DEF RunsTyped
<1>1. PICK old \in RunRecords : old = runs[r]
  OBVIOUS
<1>2. /\ old.stage \in RunStages /\ old.row \in {"none", "running", "completed", "degraded", "failed"}
      /\ old.produced \in Nat /\ old.traced \in SUBSET {"completed", "failed"} /\ old.seen \in Nat
  BY DEF RunRecords
<1>3. PICK all : all = Len(WorkStages)
  OBVIOUS
<1>4. RowAgrees(old, all)
  BY <1>1, <1>3 DEF RowFollowsStage
<1>5. SUFFICES \E next, row, produced, traced, seen :
                 /\ Goto(r, runs')
                 /\ Becomes(runs', r, next, row, produced, traced, seen)
                 /\ next = "start" => row = "none"
                 /\ next \in {"working", "completing"} => row = "running"
                 /\ next = "reporting" => row \in {"completed", "degraded"}
                 /\ next \in {"completing", "reporting"} => produced = all
                 /\ next = "tracing" => row = "failed"
                 /\ next \in CheckingStages => "failed" \in traced
                 /\ "failed" \in traced => row = "failed"
                 /\ next = "returned" => "failed" \in traced \/ (row # "failed" /\ produced = all)
                 /\ old.row = "failed" => row = "failed"
                 /\ old.row = "degraded" => row \in {"degraded", "failed"}
  <2>0. /\ Goto(r, runs')
        /\ runs' \in [ComponentRunIds -> RunRecords]
        /\ \A q \in ComponentRunIds : q # r => runs'[q] = runs[q]
        /\ RowAgrees(runs'[r], all)
        /\ old.row = "failed" => runs'[r].row = "failed"
        /\ old.row = "degraded" => runs'[r].row \in {"degraded", "failed"}
    BY <1>5 DEF Becomes, RowAgrees
  <2>1. componentKind' = componentKind
    BY <2>0 DEF Goto
  <2>2. Len(WorkStages)' = all
    BY <1>3, <2>1 DEF WorkStages
  <2>3. RowFollowsStage'
    <3>1. \A q \in ComponentRunIds : RowAgrees(runs'[q], all)
      BY <2>0, <1>3 DEF RowFollowsStage
    <3> QED
      BY <3>1, <2>2 DEF RowFollowsStage
  <2>4. PICK flag \in BOOLEAN : flag = (runOverlap \/ \E q \in ComponentRunIds \ {r} : runs[q].stage \notin RunEnded)
    BY Zenon
  <2>5. runOverlap' \in BOOLEAN
    BY <2>0, <2>4 DEF Goto
  <2> QED
    BY <1>1, <2>0, <2>1, <2>3, <2>5
<1>6. FailedTraces \in Nat /\ FailedRows \in Nat
  BY CountsOfFailures
<1>7. /\ old.stage = "start" => old.row = "none"
      /\ old.stage \in {"working", "completing"} => old.row = "running"
      /\ old.stage = "reporting" => old.row \in {"completed", "degraded"}
      /\ old.stage \in {"completing", "reporting"} => old.produced = all
      /\ old.stage = "tracing" => old.row = "failed"
      /\ old.stage \in CheckingStages => "failed" \in old.traced
      /\ "failed" \in old.traced => old.row = "failed"
  BY <1>4 DEF RowAgrees
<1>8. \A s : Goto(r, s) => runs' = s /\ Goto(r, runs')
  BY DEF Goto
<1>9. /\ \A next \in RunStages : runs' = [runs EXCEPT ![r].stage = next] => Becomes(runs', r, next, old.row, old.produced, old.traced, old.seen)
      /\ \A next \in RunStages, seen \in Nat :
           runs' = [runs EXCEPT ![r].stage = next, ![r].seen = seen] =>
             Becomes(runs', r, next, old.row, old.produced, old.traced, seen)
  BY <1>1, RunOutcomes
<1>10. /\ \A next \in RunStages, row \in {"none", "running", "completed", "degraded", "failed"} :
             runs' = [runs EXCEPT ![r].stage = next, ![r].row = row] =>
               Becomes(runs', r, next, row, old.produced, old.traced, old.seen)
       /\ \A next \in RunStages, row \in {"none", "running", "completed", "degraded", "failed"} :
             runs' = [runs EXCEPT ![r].row = row, ![r].stage = next] =>
               Becomes(runs', r, next, row, old.produced, old.traced, old.seen)
       /\ \A next \in RunStages, traced \in SUBSET {"completed", "failed"} :
             runs' = [runs EXCEPT ![r].traced = traced, ![r].stage = next] =>
               Becomes(runs', r, next, old.row, old.produced, traced, old.seen)
       /\ \A produced \in Nat : runs' = [runs EXCEPT ![r].produced = produced] =>
             Becomes(runs', r, old.stage, old.row, produced, old.traced, old.seen)
  <2>1. ASSUME NEW next \in RunStages, NEW row \in {"none", "running", "completed", "degraded", "failed"},
               runs' = [runs EXCEPT ![r].stage = next, ![r].row = row]
        PROVE  Becomes(runs', r, next, row, old.produced, old.traced, old.seen)
    BY <1>1, <2>1, StageAndRowMoved
  <2>2. ASSUME NEW next \in RunStages, NEW row \in {"none", "running", "completed", "degraded", "failed"},
               runs' = [runs EXCEPT ![r].row = row, ![r].stage = next]
        PROVE  Becomes(runs', r, next, row, old.produced, old.traced, old.seen)
    BY <1>1, <2>2, RowAndStageMoved
  <2>3. \A next \in RunStages, traced \in SUBSET {"completed", "failed"} :
             runs' = [runs EXCEPT ![r].traced = traced, ![r].stage = next] =>
               Becomes(runs', r, next, old.row, old.produced, traced, old.seen)
    BY <1>1, RunOutcomes
  <2>4. \A produced \in Nat : runs' = [runs EXCEPT ![r].produced = produced] =>
             Becomes(runs', r, old.stage, old.row, produced, old.traced, old.seen)
    BY <1>1, RunOutcomes
  <2> QED
    BY <2>1, <2>2, <2>3, <2>4
<1>11. CASE StartComponentRun(r)
  <2>1. \/ old.stage = "start" /\ Goto(r, runs') /\ runs' = [runs EXCEPT ![r].stage = "refused"]
        \/ old.stage = "start" /\ Goto(r, runs') /\ runs' = [runs EXCEPT ![r].stage = "rejected", ![r].row = "running"]
        \/ old.stage = "start" /\ Goto(r, runs') /\ runs' = [runs EXCEPT ![r].stage = "working", ![r].row = "running"]
    BY <1>11, <1>1, <1>8 DEF StartComponentRun
  <2>2. CASE old.stage = "start" /\ Goto(r, runs') /\ runs' = [runs EXCEPT ![r].stage = "refused"]
    <3>1. Becomes(runs', r, "refused", old.row, old.produced, old.traced, old.seen)
      BY <2>2, <1>9 DEF RunStages
    <3> QED
      BY <2>2, <3>1, <1>2, <1>7 DEF CheckingStages
  <2>3. CASE old.stage = "start" /\ Goto(r, runs') /\ runs' = [runs EXCEPT ![r].stage = "rejected", ![r].row = "running"]
    <3>1. Becomes(runs', r, "rejected", "running", old.produced, old.traced, old.seen)
      BY <2>3, <1>10 DEF RunStages
    <3> QED
      BY <2>3, <3>1, <1>2, <1>7 DEF CheckingStages
  <2>4. CASE old.stage = "start" /\ Goto(r, runs') /\ runs' = [runs EXCEPT ![r].stage = "working", ![r].row = "running"]
    <3>1. Becomes(runs', r, "working", "running", old.produced, old.traced, old.seen)
      BY <2>4, <1>10 DEF RunStages
    <3> QED
      BY <2>4, <3>1, <1>2, <1>7 DEF CheckingStages
  <2> QED
    BY <2>1, <2>2, <2>3, <2>4
<1>12. CASE WorkStage(r)
  <2>1. \/ old.stage = "working" /\ Goto(r, runs') /\ runs' = [runs EXCEPT ![r].produced = @ + 1]
        \/ old.stage = "working" /\ Goto(r, runs') /\ runs' = [runs EXCEPT ![r].stage = "failing"]
        \/ old.stage = "working" /\ Goto(r, runs') /\ runs' = [runs EXCEPT ![r].stage = "completing"] /\ old.produced = all
    BY <1>12, <1>1, <1>3, <1>8 DEF WorkStage
  <2>2. CASE old.stage = "working" /\ Goto(r, runs') /\ runs' = [runs EXCEPT ![r].produced = @ + 1]
    <3>1. Becomes(runs', r, old.stage, old.row, old.produced + 1, old.traced, old.seen)
      <4>1. runs' = [runs EXCEPT ![r].produced = old.produced + 1] /\ old.produced + 1 \in Nat
        BY <2>2, <1>1, <1>2
      <4> QED
        BY <4>1, <1>10
    <3> QED
      BY <2>2, <3>1, <1>2, <1>7 DEF CheckingStages
  <2>3. CASE old.stage = "working" /\ Goto(r, runs') /\ runs' = [runs EXCEPT ![r].stage = "failing"]
    <3>1. Becomes(runs', r, "failing", old.row, old.produced, old.traced, old.seen)
      BY <2>3, <1>9 DEF RunStages
    <3> QED
      BY <2>3, <3>1, <1>2, <1>7 DEF CheckingStages
  <2>4. CASE old.stage = "working" /\ Goto(r, runs') /\ runs' = [runs EXCEPT ![r].stage = "completing"] /\ old.produced = all
    <3>1. Becomes(runs', r, "completing", old.row, old.produced, old.traced, old.seen)
      BY <2>4, <1>9 DEF RunStages
    <3> QED
      BY <2>4, <3>1, <1>2, <1>7 DEF CheckingStages
  <2> QED
    BY <2>1, <2>2, <2>3, <2>4
<1>13. CASE CompleteRow(r)
  <2>1. \/ old.stage = "completing" /\ Goto(r, runs') /\ \E row \in {"completed", "degraded"} :
                runs' = [runs EXCEPT ![r].row = row, ![r].stage = "reporting"]
        \/ old.stage = "completing" /\ Goto(r, runs') /\ runs' = [runs EXCEPT ![r].stage = "failing"]
    BY <1>13, <1>1, <1>8 DEF CompleteRow, ResultStatuses
  <2>2. CASE old.stage = "completing" /\ Goto(r, runs') /\ \E row \in {"completed", "degraded"} :
                runs' = [runs EXCEPT ![r].row = row, ![r].stage = "reporting"]
    <3>1. PICK row \in {"completed", "degraded"} : runs' = [runs EXCEPT ![r].row = row, ![r].stage = "reporting"]
      BY <2>2
    <3>2. Becomes(runs', r, "reporting", row, old.produced, old.traced, old.seen)
      BY <3>1, <1>10 DEF RunStages
    <3> QED
      BY <2>2, <3>1, <3>2, <1>2, <1>7 DEF CheckingStages
  <2>3. CASE old.stage = "completing" /\ Goto(r, runs') /\ runs' = [runs EXCEPT ![r].stage = "failing"]
    <3>1. Becomes(runs', r, "failing", old.row, old.produced, old.traced, old.seen)
      BY <2>3, <1>9 DEF RunStages
    <3> QED
      BY <2>3, <3>1, <1>2, <1>7 DEF CheckingStages
  <2> QED
    BY <2>1, <2>2, <2>3
<1>14. CASE ReportRun(r)
  <2>1. \/ old.stage = "reporting" /\ Goto(r, runs') /\ runs' = [runs EXCEPT ![r].traced = old.traced \cup {"completed"}, ![r].stage = "returned"]
        \/ old.stage = "reporting" /\ Goto(r, runs') /\ runs' = [runs EXCEPT ![r].stage = "failing"]
        \/ old.stage = "reporting" /\ Goto(r, runs') /\ runs' = [runs EXCEPT ![r].traced = old.traced \cup {"completed"}, ![r].stage = "failing"]
    BY <1>14, <1>1, <1>8 DEF ReportRun
  <2>2. CASE old.stage = "reporting" /\ Goto(r, runs') /\ runs' = [runs EXCEPT ![r].traced = old.traced \cup {"completed"}, ![r].stage = "returned"]
    <3>1. Becomes(runs', r, "returned", old.row, old.produced, old.traced \cup {"completed"}, old.seen)
      BY <2>2, <1>2, <1>10 DEF RunStages
    <3> QED
      BY <2>2, <3>1, <1>2, <1>7 DEF CheckingStages
  <2>3. CASE old.stage = "reporting" /\ Goto(r, runs') /\ runs' = [runs EXCEPT ![r].stage = "failing"]
    <3>1. Becomes(runs', r, "failing", old.row, old.produced, old.traced, old.seen)
      BY <2>3, <1>9 DEF RunStages
    <3> QED
      BY <2>3, <3>1, <1>2, <1>7 DEF CheckingStages
  <2>4. CASE old.stage = "reporting" /\ Goto(r, runs') /\ runs' = [runs EXCEPT ![r].traced = old.traced \cup {"completed"}, ![r].stage = "failing"]
    <3>1. Becomes(runs', r, "failing", old.row, old.produced, old.traced \cup {"completed"}, old.seen)
      BY <2>4, <1>2, <1>10 DEF RunStages
    <3> QED
      BY <2>4, <3>1, <1>2, <1>7 DEF CheckingStages
  <2> QED
    BY <2>1, <2>2, <2>3, <2>4
<1>15. CASE Reject(r)
  <2>1. \/ Goto(r, runs') /\ runs' = [runs EXCEPT ![r].stage = "rejected"]
    BY <1>15, <1>1, <1>8 DEF Reject
  <2>2. CASE Goto(r, runs') /\ runs' = [runs EXCEPT ![r].stage = "rejected"]
    <3>1. Becomes(runs', r, "rejected", old.row, old.produced, old.traced, old.seen)
      BY <2>2, <1>9 DEF RunStages
    <3> QED
      BY <2>2, <3>1, <1>2, <1>7 DEF CheckingStages
  <2> QED
    BY <2>1, <2>2
<1>16. CASE FailRow(r)
  <2>1. \/ old.stage = "failing" /\ Goto(r, runs') /\ runs' = [runs EXCEPT ![r].row = "failed", ![r].stage = "tracing"]
        \/ old.stage = "failing" /\ Goto(r, runs') /\ runs' = [runs EXCEPT ![r].row = "failed", ![r].stage = "rejected"]
    BY <1>16, <1>1, <1>8 DEF FailRow
  <2>2. CASE old.stage = "failing" /\ Goto(r, runs') /\ runs' = [runs EXCEPT ![r].row = "failed", ![r].stage = "tracing"]
    <3>1. Becomes(runs', r, "tracing", "failed", old.produced, old.traced, old.seen)
      BY <2>2, <1>10 DEF RunStages
    <3> QED
      BY <2>2, <3>1, <1>2, <1>7 DEF CheckingStages
  <2>3. CASE old.stage = "failing" /\ Goto(r, runs') /\ runs' = [runs EXCEPT ![r].row = "failed", ![r].stage = "rejected"]
    <3>1. Becomes(runs', r, "rejected", "failed", old.produced, old.traced, old.seen)
      BY <2>3, <1>10 DEF RunStages
    <3> QED
      BY <2>3, <3>1, <1>2, <1>7 DEF CheckingStages
  <2> QED
    BY <2>1, <2>2, <2>3
<1>17. CASE TraceFailure(r)
  <2>1. \/ old.stage = "tracing" /\ Goto(r, runs') /\ runs' = [runs EXCEPT ![r].traced = old.traced \cup {"failed"}, ![r].stage = "counting_traces"]
    BY <1>17, <1>1, <1>8 DEF TraceFailure
  <2>2. CASE old.stage = "tracing" /\ Goto(r, runs') /\ runs' = [runs EXCEPT ![r].traced = old.traced \cup {"failed"}, ![r].stage = "counting_traces"]
    <3>1. Becomes(runs', r, "counting_traces", old.row, old.produced, old.traced \cup {"failed"}, old.seen)
      BY <2>2, <1>2, <1>10 DEF RunStages
    <3> QED
      BY <2>2, <3>1, <1>2, <1>7 DEF CheckingStages
  <2> QED
    BY <2>1, <2>2
<1>18. CASE CountFailures(r)
  <2>1. PICK next \in {"looking_traces", "looking_rows"}, seen \in Nat :
             /\ old.stage \in {"counting_traces", "counting_rows"}
             /\ Goto(r, runs')
             /\ runs' = [runs EXCEPT ![r].stage = next, ![r].seen = seen]
    <3>1. PICK next \in {"looking_traces", "looking_rows"} : next = LookingAfter(old.stage)
      BY DEF LookingAfter
    <3>2. PICK seen \in Nat : seen = IF old.stage = "counting_rows" THEN FailedRows ELSE FailedTraces
      BY <1>6
    <3>3. old.stage \in {"counting_traces", "counting_rows"} /\ Goto(r, [runs EXCEPT ![r].stage = next, ![r].seen = seen])
      BY <1>18, <3>1, <3>2, <1>1 DEF CountFailures
    <3>4. Goto(r, runs') /\ runs' = [runs EXCEPT ![r].stage = next, ![r].seen = seen]
      BY <3>3, <1>8
    <3> QED
      BY <3>3, <3>4
  <2>2. Becomes(runs', r, next, old.row, old.produced, old.traced, seen)
    BY <2>1, <1>9 DEF RunStages
  <2> QED
    BY <2>1, <2>2, <1>2, <1>7 DEF CheckingStages
<1>19. CASE LookForIncident(r)
  <2>1. PICK next \in {"counting_rows", "returned", "raising_traces", "raising_rows"} :
             /\ old.stage \in {"looking_traces", "looking_rows"}
             /\ Goto(r, runs')
             /\ \/ runs' = [runs EXCEPT ![r].stage = next, ![r].seen = 0]
                \/ runs' = [runs EXCEPT ![r].stage = next]
    <3>1. /\ AfterCheck(old.stage) \in {"counting_rows", "returned", "raising_traces", "raising_rows"}
          /\ RaisingAfter(old.stage) \in {"counting_rows", "returned", "raising_traces", "raising_rows"}
      BY DEF AfterCheck, RaisingAfter
    <3> QED
      BY <1>19, <3>1, <1>1, <1>8 DEF LookForIncident
  <2>2. PICK seen : Becomes(runs', r, next, old.row, old.produced, old.traced, seen)
    BY <2>1, <1>9 DEF RunStages
  <2> QED
    BY <2>1, <2>2, <1>2, <1>7 DEF CheckingStages
<1>20. CASE RaiseIncident(r)
  <2>1. PICK next \in {"counting_rows", "returned", "rejected"} :
             /\ old.stage \in {"raising_traces", "raising_rows"}
             /\ Goto(r, runs')
             /\ runs' = [runs EXCEPT ![r].stage = next, ![r].seen = 0]
    <3>1. AfterCheck(old.stage) \in {"counting_rows", "returned"}
      BY DEF AfterCheck
    <3> QED
      BY <1>20, <3>1, <1>1, <1>8 DEF RaiseIncident
  <2>2. Becomes(runs', r, next, old.row, old.produced, old.traced, 0)
    BY <2>1, <1>9 DEF RunStages
  <2> QED
    BY <2>1, <2>2, <1>2, <1>7 DEF CheckingStages
<1> QED
  BY <1>11, <1>12, <1>13, <1>14, <1>15, <1>16, <1>17, <1>18, <1>19, <1>20 DEF RunStep

-----------------------------------------------------------------------------
\* A step that counts nothing, looks for nothing and raises nothing.
QuietMove(r) ==
    /\ incidents' = incidents
    /\ runs'[r].seen = runs[r].seen
    /\ runs[r].traced \subseteq runs'[r].traced
    /\ runs'[r].stage \notin {"looking_traces", "looking_rows", "raising_traces", "raising_rows"}
    /\ runs'[r].stage = "returned" => "failed" \notin runs'[r].traced

CountingMove(r) ==
    /\ incidents' = incidents
    /\ runs'[r].traced = runs[r].traced /\ runs'[r].row = runs[r].row
    /\ \/ runs[r].stage = "counting_traces" /\ runs'[r].stage = "looking_traces" /\ runs'[r].seen = FailedTraces
       \/ runs[r].stage = "counting_rows" /\ runs'[r].stage = "looking_rows" /\ runs'[r].seen = FailedRows

\* The check of r is over: what it left is next, or the call rejects.
CheckedMove(r) ==
    /\ runs'[r].traced = runs[r].traced /\ runs'[r].seen = 0
    /\ \/ runs[r].stage \in {"looking_rows", "raising_rows"} /\ runs'[r].stage \in {"returned", "rejected"}
       \/ runs[r].stage \in {"looking_traces", "raising_traces"} /\ runs'[r].stage \in {"counting_rows", "rejected"}

LookingMove(r) ==
    \/ CheckedMove(r) /\ runs[r].seen < HighThreshold /\ incidents' = incidents
    \/ /\ CheckedMove(r) /\ runs[r].seen >= HighThreshold /\ RecentIncidents # {}
       /\ incidents' = IF runs[r].seen >= CriticalThreshold
                       THEN [incidents EXCEPT ![FirstRecent].severity = "critical"] ELSE incidents
    \/ /\ runs[r].seen >= HighThreshold /\ RecentIncidents = {} /\ incidents' = incidents
       /\ runs'[r].traced = runs[r].traced /\ runs'[r].seen = runs[r].seen
       /\ \/ runs[r].stage = "looking_rows" /\ runs'[r].stage = "raising_rows"
          \/ runs[r].stage = "looking_traces" /\ runs'[r].stage = "raising_traces"

RaisingMove(r) ==
    /\ runs[r].stage \in {"raising_traces", "raising_rows"}
    /\ CheckedMove(r)
    /\ incidents' = Append(incidents, [severity |-> Severity(runs[r].seen), at |-> runClock])

\* These are the ways a run moves.
LEMMA WaysToMove ==
    ASSUME RunsTyped, RowFollowsStage, NEW r \in ComponentRunIds, StartComponentRun(r) \/ RunStep(r)
    PROVE  QuietMove(r) \/ CountingMove(r) \/ LookingMove(r) \/ RaisingMove(r)
<1> USE DEF RunsTyped
<1>1. PICK old \in RunRecords : old = runs[r]
  OBVIOUS
<1>2. /\ old.stage \in RunStages /\ old.row \in {"none", "running", "completed", "degraded", "failed"}
      /\ old.produced \in Nat /\ old.traced \in SUBSET {"completed", "failed"} /\ old.seen \in Nat
  BY DEF RunRecords
<1>3. PICK all : all = Len(WorkStages)
  OBVIOUS
<1>4. RowAgrees(old, all)
  BY <1>1, <1>3 DEF RowFollowsStage
<1>5. \A s : Goto(r, s) => runs' = s
  BY DEF Goto
<1>6. FailedTraces \in Nat /\ FailedRows \in Nat
  BY CountsOfFailures
<1>7. /\ \A next \in RunStages : runs' = [runs EXCEPT ![r].stage = next] => Becomes(runs', r, next, old.row, old.produced, old.traced, old.seen)
      /\ \A next \in RunStages, seen \in Nat :
           runs' = [runs EXCEPT ![r].stage = next, ![r].seen = seen] =>
             Becomes(runs', r, next, old.row, old.produced, old.traced, seen)
  BY <1>1, RunOutcomes
<1>8. /\ \A next \in RunStages, row \in {"none", "running", "completed", "degraded", "failed"} :
             runs' = [runs EXCEPT ![r].stage = next, ![r].row = row] =>
               Becomes(runs', r, next, row, old.produced, old.traced, old.seen)
      /\ \A next \in RunStages, row \in {"none", "running", "completed", "degraded", "failed"} :
             runs' = [runs EXCEPT ![r].row = row, ![r].stage = next] =>
               Becomes(runs', r, next, row, old.produced, old.traced, old.seen)
      /\ \A next \in RunStages, traced \in SUBSET {"completed", "failed"} :
             runs' = [runs EXCEPT ![r].traced = traced, ![r].stage = next] =>
               Becomes(runs', r, next, old.row, old.produced, traced, old.seen)
      /\ \A produced \in Nat : runs' = [runs EXCEPT ![r].produced = produced] =>
             Becomes(runs', r, old.stage, old.row, produced, old.traced, old.seen)
  <2>1. ASSUME NEW next \in RunStages, NEW row \in {"none", "running", "completed", "degraded", "failed"},
               runs' = [runs EXCEPT ![r].stage = next, ![r].row = row]
        PROVE  Becomes(runs', r, next, row, old.produced, old.traced, old.seen)
    BY <1>1, <2>1, StageAndRowMoved
  <2>2. ASSUME NEW next \in RunStages, NEW row \in {"none", "running", "completed", "degraded", "failed"},
               runs' = [runs EXCEPT ![r].row = row, ![r].stage = next]
        PROVE  Becomes(runs', r, next, row, old.produced, old.traced, old.seen)
    BY <1>1, <2>2, RowAndStageMoved
  <2>3. \A next \in RunStages, traced \in SUBSET {"completed", "failed"} :
             runs' = [runs EXCEPT ![r].traced = traced, ![r].stage = next] =>
               Becomes(runs', r, next, old.row, old.produced, traced, old.seen)
    BY <1>1, RunOutcomes
  <2>4. \A produced \in Nat : runs' = [runs EXCEPT ![r].produced = produced] =>
             Becomes(runs', r, old.stage, old.row, produced, old.traced, old.seen)
    BY <1>1, RunOutcomes
  <2> QED
    BY <2>1, <2>2, <2>3, <2>4
<1>9. /\ old.stage \in {"working", "completing"} => old.row = "running"
      /\ old.stage = "reporting" => old.row \in {"completed", "degraded"}
      /\ old.stage \in CheckingStages => "failed" \in old.traced
      /\ "failed" \in old.traced => old.row = "failed"
  BY <1>4 DEF RowAgrees
<1>10. CASE StartComponentRun(r) \/ WorkStage(r) \/ CompleteRow(r) \/ ReportRun(r) \/ Reject(r) \/ FailRow(r)
            \/ TraceFailure(r)
  <2>1. SUFFICES \E next, row, produced, traced :
                   /\ incidents' = incidents
                   /\ Becomes(runs', r, next, row, produced, traced, old.seen) /\ old.traced \subseteq traced
                   /\ next \notin {"looking_traces", "looking_rows", "raising_traces", "raising_rows"}
                   /\ next = "returned" => "failed" \notin traced
    <3>1. PICK next, row, produced, traced :
                   /\ incidents' = incidents
                   /\ Becomes(runs', r, next, row, produced, traced, old.seen) /\ old.traced \subseteq traced
                   /\ next \notin {"looking_traces", "looking_rows", "raising_traces", "raising_rows"}
                   /\ next = "returned" => "failed" \notin traced
      BY <2>1
    <3>2. /\ runs'[r].seen = old.seen /\ runs'[r].stage = next /\ runs'[r].traced = traced
      BY <3>1 DEF Becomes
    <3>3. QuietMove(r)
      BY <3>1, <3>2, <1>1 DEF QuietMove
    <3> QED
      BY <3>3
  <2>2. incidents' = incidents
    BY <1>10 DEF StartComponentRun, WorkStage, CompleteRow, ReportRun, Reject, FailRow, TraceFailure
  <2>3. CASE StartComponentRun(r)
    <3>1. \/ old.stage = "start" /\ runs' = [runs EXCEPT ![r].stage = "refused"]
          \/ old.stage = "start" /\ runs' = [runs EXCEPT ![r].stage = "rejected", ![r].row = "running"]
          \/ old.stage = "start" /\ runs' = [runs EXCEPT ![r].stage = "working", ![r].row = "running"]
      BY <2>3, <1>1, <1>5 DEF StartComponentRun
    <3>2. CASE old.stage = "start" /\ runs' = [runs EXCEPT ![r].stage = "refused"]
      <4>1. Becomes(runs', r, "refused", old.row, old.produced, old.traced, old.seen)
        BY <3>2, <1>7 DEF RunStages
      <4> QED
        BY <4>1, <3>2, <2>2, <1>9
    <3>3. CASE old.stage = "start" /\ runs' = [runs EXCEPT ![r].stage = "rejected", ![r].row = "running"]
      <4>1. Becomes(runs', r, "rejected", "running", old.produced, old.traced, old.seen)
        BY <3>3, <1>8 DEF RunStages
      <4> QED
        BY <4>1, <3>3, <2>2, <1>9
    <3>4. CASE old.stage = "start" /\ runs' = [runs EXCEPT ![r].stage = "working", ![r].row = "running"]
      <4>1. Becomes(runs', r, "working", "running", old.produced, old.traced, old.seen)
        BY <3>4, <1>8 DEF RunStages
      <4> QED
        BY <4>1, <3>4, <2>2, <1>9
    <3> QED
      BY <3>1, <3>2, <3>3, <3>4
  <2>4. CASE WorkStage(r)
    <3>1. \/ old.stage = "working" /\ runs' = [runs EXCEPT ![r].produced = @ + 1]
          \/ \E next \in {"failing", "completing"} : runs' = [runs EXCEPT ![r].stage = next]
      BY <2>4, <1>1, <1>5 DEF WorkStage
    <3>2. CASE old.stage = "working" /\ runs' = [runs EXCEPT ![r].produced = @ + 1]
      <4>1. runs' = [runs EXCEPT ![r].produced = old.produced + 1] /\ old.produced + 1 \in Nat
        BY <3>2, <1>1, <1>2
      <4>2. Becomes(runs', r, old.stage, old.row, old.produced + 1, old.traced, old.seen)
        BY <4>1, <1>8
      <4> QED
        BY <3>2, <4>2, <2>2
    <3>3. CASE \E next \in {"failing", "completing"} : runs' = [runs EXCEPT ![r].stage = next]
      <4>1. PICK next \in {"failing", "completing"} : runs' = [runs EXCEPT ![r].stage = next]
        BY <3>3
      <4>2. Becomes(runs', r, next, old.row, old.produced, old.traced, old.seen)
        BY <4>1, <1>7 DEF RunStages
      <4> QED
        BY <4>1, <4>2, <2>2
    <3> QED
      BY <3>1, <3>2, <3>3
  <2>5. CASE CompleteRow(r)
    <3>1. \/ \E row \in {"completed", "degraded"} : runs' = [runs EXCEPT ![r].row = row, ![r].stage = "reporting"]
          \/ runs' = [runs EXCEPT ![r].stage = "failing"]
      BY <2>5, <1>1, <1>5 DEF CompleteRow, ResultStatuses
    <3>2. CASE \E row \in {"completed", "degraded"} : runs' = [runs EXCEPT ![r].row = row, ![r].stage = "reporting"]
      <4>1. PICK row \in {"completed", "degraded"} : runs' = [runs EXCEPT ![r].row = row, ![r].stage = "reporting"]
        BY <3>2
      <4>2. Becomes(runs', r, "reporting", row, old.produced, old.traced, old.seen)
        BY <4>1, <1>8 DEF RunStages
      <4> QED
        BY <4>2, <2>2
    <3>3. CASE runs' = [runs EXCEPT ![r].stage = "failing"]
      <4>1. Becomes(runs', r, "failing", old.row, old.produced, old.traced, old.seen)
        BY <3>3, <1>7 DEF RunStages
      <4> QED
        BY <4>1, <2>2
    <3> QED
      BY <3>1, <3>2, <3>3
  <2>6. CASE ReportRun(r)
    <3>1. \/ old.stage = "reporting" /\ runs' = [runs EXCEPT ![r].traced = old.traced \cup {"completed"}, ![r].stage = "returned"]
          \/ old.stage = "reporting" /\ runs' = [runs EXCEPT ![r].stage = "failing"]
          \/ old.stage = "reporting" /\ runs' = [runs EXCEPT ![r].traced = old.traced \cup {"completed"}, ![r].stage = "failing"]
      BY <2>6, <1>1, <1>5 DEF ReportRun
    <3>2. CASE old.stage = "reporting" /\ runs' = [runs EXCEPT ![r].traced = old.traced \cup {"completed"}, ![r].stage = "returned"]
      <4>1. Becomes(runs', r, "returned", old.row, old.produced, old.traced \cup {"completed"}, old.seen)
        BY <3>2, <1>2, <1>8 DEF RunStages
      <4> QED
        BY <4>1, <3>2, <2>2, <1>9
    <3>3. CASE old.stage = "reporting" /\ runs' = [runs EXCEPT ![r].stage = "failing"]
      <4>1. Becomes(runs', r, "failing", old.row, old.produced, old.traced, old.seen)
        BY <3>3, <1>7 DEF RunStages
      <4> QED
        BY <4>1, <3>3, <2>2, <1>9
    <3>4. CASE old.stage = "reporting" /\ runs' = [runs EXCEPT ![r].traced = old.traced \cup {"completed"}, ![r].stage = "failing"]
      <4>1. Becomes(runs', r, "failing", old.row, old.produced, old.traced \cup {"completed"}, old.seen)
        BY <3>4, <1>2, <1>8 DEF RunStages
      <4> QED
        BY <4>1, <3>4, <2>2, <1>9
    <3> QED
      BY <3>1, <3>2, <3>3, <3>4
  <2>7. CASE Reject(r)
    <3>1. \/ runs' = [runs EXCEPT ![r].stage = "rejected"]
      BY <2>7, <1>1, <1>5 DEF Reject
    <3>2. CASE runs' = [runs EXCEPT ![r].stage = "rejected"]
      <4>1. Becomes(runs', r, "rejected", old.row, old.produced, old.traced, old.seen)
        BY <3>2, <1>7 DEF RunStages
      <4> QED
        BY <4>1, <3>2, <2>2, <1>9
    <3> QED
      BY <3>1, <3>2
  <2>8. CASE FailRow(r)
    <3>1. \/ old.stage = "failing" /\ runs' = [runs EXCEPT ![r].row = "failed", ![r].stage = "tracing"]
          \/ old.stage = "failing" /\ runs' = [runs EXCEPT ![r].row = "failed", ![r].stage = "rejected"]
      BY <2>8, <1>1, <1>5 DEF FailRow
    <3>2. CASE old.stage = "failing" /\ runs' = [runs EXCEPT ![r].row = "failed", ![r].stage = "tracing"]
      <4>1. Becomes(runs', r, "tracing", "failed", old.produced, old.traced, old.seen)
        BY <3>2, <1>8 DEF RunStages
      <4> QED
        BY <4>1, <3>2, <2>2, <1>9
    <3>3. CASE old.stage = "failing" /\ runs' = [runs EXCEPT ![r].row = "failed", ![r].stage = "rejected"]
      <4>1. Becomes(runs', r, "rejected", "failed", old.produced, old.traced, old.seen)
        BY <3>3, <1>8 DEF RunStages
      <4> QED
        BY <4>1, <3>3, <2>2, <1>9
    <3> QED
      BY <3>1, <3>2, <3>3
  <2>9. CASE TraceFailure(r)
    <3>1. \/ old.stage = "tracing" /\ runs' = [runs EXCEPT ![r].traced = old.traced \cup {"failed"}, ![r].stage = "counting_traces"]
      BY <2>9, <1>1, <1>5 DEF TraceFailure
    <3>2. CASE old.stage = "tracing" /\ runs' = [runs EXCEPT ![r].traced = old.traced \cup {"failed"}, ![r].stage = "counting_traces"]
      <4>1. Becomes(runs', r, "counting_traces", old.row, old.produced, old.traced \cup {"failed"}, old.seen)
        BY <3>2, <1>2, <1>8 DEF RunStages
      <4> QED
        BY <4>1, <3>2, <2>2, <1>9
    <3> QED
      BY <3>1, <3>2
  <2> QED
    BY <1>10, <2>3, <2>4, <2>5, <2>6, <2>7, <2>8, <2>9
<1>11. CASE CountFailures(r)
  <2>1. PICK next \in {"looking_traces", "looking_rows"} : next = LookingAfter(old.stage)
    BY DEF LookingAfter
  <2>2. PICK seen \in Nat : seen = IF old.stage = "counting_rows" THEN FailedRows ELSE FailedTraces
    BY <1>6
  <2>3. /\ old.stage \in {"counting_traces", "counting_rows"} /\ incidents' = incidents
        /\ runs' = [runs EXCEPT ![r].stage = next, ![r].seen = seen]
    BY <1>11, <2>1, <2>2, <1>1, <1>5 DEF CountFailures
  <2>4. Becomes(runs', r, next, old.row, old.produced, old.traced, seen)
    BY <2>3, <1>7 DEF RunStages
  <2>5. /\ runs'[r].stage = next /\ runs'[r].seen = seen /\ runs'[r].traced = old.traced /\ runs'[r].row = old.row
    BY <2>4 DEF Becomes
  <2>6. CountingMove(r)
    BY <2>1, <2>2, <2>3, <2>5, <1>1 DEF CountingMove, LookingAfter
  <2> QED
    BY <2>6
<1>12. CASE LookForIncident(r)
  <2>1. /\ old.stage \in {"looking_traces", "looking_rows"}
        /\ \/ /\ Severity(old.seen) = "none" /\ incidents' = incidents
              /\ runs' = [runs EXCEPT ![r].stage = AfterCheck(old.stage), ![r].seen = 0]
           \/ /\ Severity(old.seen) # "none" /\ RecentIncidents # {}
              /\ incidents' = IF Severity(old.seen) = "critical"
                              THEN [incidents EXCEPT ![FirstRecent].severity = "critical"] ELSE incidents
              /\ runs' = [runs EXCEPT ![r].stage = AfterCheck(old.stage), ![r].seen = 0]
           \/ /\ Severity(old.seen) # "none" /\ RecentIncidents = {} /\ incidents' = incidents
              /\ runs' = [runs EXCEPT ![r].stage = RaisingAfter(old.stage)]
    BY <1>12, <1>1, <1>5 DEF LookForIncident
  <2>2. /\ Severity(old.seen) = "none" <=> old.seen < HighThreshold
        /\ Severity(old.seen) = "critical" <=> old.seen >= CriticalThreshold
    BY <1>2, RunsAssumption DEF Severity
  <2>3. CASE runs' = [runs EXCEPT ![r].stage = AfterCheck(old.stage), ![r].seen = 0]
             /\ ~(RecentIncidents = {} /\ Severity(old.seen) # "none")
    <3>1. PICK next \in {"counting_rows", "returned"} : next = AfterCheck(old.stage)
      BY DEF AfterCheck
    <3>2. Becomes(runs', r, next, old.row, old.produced, old.traced, 0)
      BY <2>3, <3>1, <1>7 DEF RunStages
    <3>3. /\ runs'[r].stage = next /\ runs'[r].seen = 0 /\ runs'[r].traced = old.traced
      BY <3>2 DEF Becomes
    <3>4. CheckedMove(r)
      BY <2>1, <3>1, <3>3, <1>1 DEF CheckedMove, AfterCheck
    <3>5. \/ Severity(old.seen) = "none" /\ incidents' = incidents
          \/ /\ Severity(old.seen) # "none" /\ RecentIncidents # {}
             /\ incidents' = IF Severity(old.seen) = "critical"
                             THEN [incidents EXCEPT ![FirstRecent].severity = "critical"] ELSE incidents
      BY <2>1, <2>3
    <3>6. LookingMove(r)
      BY <3>4, <3>5, <2>2, <1>1, <1>2, RunsAssumption DEF LookingMove
    <3> QED
      BY <3>6
  <2>4. CASE /\ Severity(old.seen) # "none" /\ RecentIncidents = {} /\ incidents' = incidents
             /\ runs' = [runs EXCEPT ![r].stage = RaisingAfter(old.stage)]
    <3>1. PICK next \in {"raising_traces", "raising_rows"} : next = RaisingAfter(old.stage)
      BY DEF RaisingAfter
    <3>2. Becomes(runs', r, next, old.row, old.produced, old.traced, old.seen)
      BY <2>4, <3>1, <1>7 DEF RunStages
    <3>3. /\ runs'[r].stage = next /\ runs'[r].seen = old.seen /\ runs'[r].traced = old.traced
      BY <3>2 DEF Becomes
    <3>4. old.seen >= HighThreshold
      BY <2>2, <2>4, <1>2, RunsAssumption
    <3>5. LookingMove(r)
      BY <2>1, <2>4, <3>1, <3>3, <3>4, <1>1 DEF LookingMove, RaisingAfter
    <3> QED
      BY <3>5
  <2> QED
    BY <2>1, <2>3, <2>4
<1>13. CASE RaiseIncident(r)
  <2>1. PICK next \in {"counting_rows", "returned", "rejected"} :
             /\ next \in {AfterCheck(old.stage), "rejected"}
             /\ old.stage \in {"raising_traces", "raising_rows"}
             /\ incidents' = Append(incidents, [severity |-> Severity(old.seen), at |-> runClock])
             /\ runs' = [runs EXCEPT ![r].stage = next, ![r].seen = 0]
    <3>1. AfterCheck(old.stage) \in {"counting_rows", "returned"}
      BY DEF AfterCheck
    <3> QED
      BY <1>13, <3>1, <1>1, <1>5 DEF RaiseIncident
  <2>2. Becomes(runs', r, next, old.row, old.produced, old.traced, 0)
    BY <2>1, <1>7 DEF RunStages
  <2>3. /\ runs'[r].stage = next /\ runs'[r].seen = 0 /\ runs'[r].traced = old.traced
    BY <2>2 DEF Becomes
  <2>4. RaisingMove(r)
    BY <2>1, <2>3, <1>1 DEF RaisingMove, CheckedMove, AfterCheck
  <2> QED
    BY <2>4
<1> QED
  BY <1>10, <1>11, <1>12, <1>13 DEF RunStep

\* What a move of r leaves of the times: those of the failed rows and of the failure traces.
FailuresStay ==
    \A q \in ComponentRunIds :
      /\ runs[q].row = "failed" => runs'[q].row = "failed" /\ rowAt'[q] = rowAt[q]
      /\ "failed" \in runs[q].traced => "failed" \in runs'[q].traced /\ traceAt'[q] = traceAt[q]

LEMMA MoveKeepsTimes ==
    ASSUME RunsTyped, TimesPassed, RowFollowsStage, NEW r \in ComponentRunIds, StartComponentRun(r) \/ RunStep(r)
    PROVE  /\ runClock' = runClock
           /\ rowAt' \in [ComponentRunIds -> 0 .. runClock]
           /\ traceAt' \in [ComponentRunIds -> 0 .. runClock]
           /\ \A q \in ComponentRunIds : q # r => rowAt'[q] = rowAt[q]
           /\ runs[r].row # "none" => rowAt' = rowAt
           /\ FailuresStay
<1>1. /\ Goto(r, runs')
      /\ \A q \in ComponentRunIds : q # r => runs'[q] = runs[q]
      /\ runs[r].row = "failed" => runs'[r].row = "failed"
  BY MoveKeepsRows
<1>2. runs[r].traced \subseteq runs'[r].traced
  BY WaysToMove DEF QuietMove, CountingMove, LookingMove, RaisingMove, CheckedMove
<1>3. /\ runClock' = runClock
      /\ rowAt' = IF runs[r].row = "none" /\ runs'[r].row # "none" THEN [rowAt EXCEPT ![r] = runClock] ELSE rowAt
      /\ traceAt' = IF "failed" \in runs'[r].traced \ runs[r].traced THEN [traceAt EXCEPT ![r] = runClock] ELSE traceAt
  BY <1>1 DEF Goto, Stamped
<1>4. runClock \in Nat /\ runClock \in 0 .. runClock
  BY RunsAssumption DEF TimesPassed
<1>5. /\ rowAt' \in [ComponentRunIds -> 0 .. runClock]
      /\ traceAt' \in [ComponentRunIds -> 0 .. runClock]
      /\ \A q \in ComponentRunIds : q # r => rowAt'[q] = rowAt[q] /\ traceAt'[q] = traceAt[q]
  BY <1>3, <1>4 DEF TimesPassed
<1>6. FailuresStay
  <2> SUFFICES ASSUME NEW q \in ComponentRunIds
               PROVE  /\ runs[q].row = "failed" => runs'[q].row = "failed" /\ rowAt'[q] = rowAt[q]
                      /\ "failed" \in runs[q].traced => "failed" \in runs'[q].traced /\ traceAt'[q] = traceAt[q]
    BY DEF FailuresStay
  <2>1. CASE q = r
    BY <2>1, <1>1, <1>2, <1>3
  <2>2. CASE q # r
    BY <2>2, <1>1, <1>5
  <2> QED
    BY <2>1, <2>2
<1> QED
  BY <1>3, <1>5, <1>6

\* What crossed a threshold by some time has crossed it by any later one.
LEMMA CrossedStays ==
    ASSUME FailuresStay, NEW n \in Nat, NEW before \in Nat, NEW after \in Nat, before <= after, CrossedBy(n, before)
    PROVE  CrossedBy(n, after)'
<1>1. PICK t \in 0 .. before :
        \/ Cardinality({q \in ComponentRunIds : runs[q].row = "failed" /\ rowAt[q] \in t - FailureWindow .. t}) >= n
        \/ Cardinality({q \in ComponentRunIds : "failed" \in runs[q].traced /\ traceAt[q] \in t - FailureWindow .. t}) >= n
  BY DEF CrossedBy
<1>2. PICK rows, rows2, traces, traces2 :
        /\ rows = {q \in ComponentRunIds : runs[q].row = "failed" /\ rowAt[q] \in t - FailureWindow .. t}
        /\ traces = {q \in ComponentRunIds : "failed" \in runs[q].traced /\ traceAt[q] \in t - FailureWindow .. t}
        /\ rows2 = {q \in ComponentRunIds : runs'[q].row = "failed" /\ rowAt'[q] \in t - FailureWindow .. t}
        /\ traces2 = {q \in ComponentRunIds : "failed" \in runs'[q].traced /\ traceAt'[q] \in t - FailureWindow .. t}
  OBVIOUS
<1>3. rows \subseteq rows2 /\ traces \subseteq traces2
  BY <1>2 DEF FailuresStay
<1>4. IsFiniteSet(rows2) /\ IsFiniteSet(traces2)
  <2>1. rows2 \subseteq ComponentRunIds /\ traces2 \subseteq ComponentRunIds
    BY <1>2
  <2> QED
    BY <2>1, RunsAssumption, FS_Subset
<1>5. /\ Cardinality(rows) \in Nat /\ Cardinality(rows2) \in Nat /\ Cardinality(rows) <= Cardinality(rows2)
      /\ Cardinality(traces) \in Nat /\ Cardinality(traces2) \in Nat /\ Cardinality(traces) <= Cardinality(traces2)
  BY <1>3, <1>4, FS_Subset, FS_CardinalityType
<1>6. Cardinality(rows) >= n \/ Cardinality(traces) >= n
  BY <1>1, <1>2
<1>7. Cardinality(rows2) >= n \/ Cardinality(traces2) >= n
  BY <1>5, <1>6
<1>8. t \in 0 .. after
  OBVIOUS
<1> QED
  BY <1>2, <1>7, <1>8 DEF CrossedBy

\* A count is of failures within the window that ends now.
LEMMA CountsCross ==
    ASSUME TimesPassed, NEW n \in Nat, FailedRows >= n \/ FailedTraces >= n
    PROVE  CrossedBy(n, runClock)
<1>1. runClock \in Nat /\ FailureWindow \in Nat /\ runClock \in 0 .. runClock
  BY RunsAssumption DEF TimesPassed
<1>2. \A time \in 0 .. runClock : Recent(time) <=> time \in runClock - FailureWindow .. runClock
  BY <1>1 DEF Recent
<1>3. \A q \in ComponentRunIds : rowAt[q] \in 0 .. runClock /\ traceAt[q] \in 0 .. runClock
  BY DEF TimesPassed
<1>4. /\ {q \in ComponentRunIds : runs[q].row = "failed" /\ Recent(rowAt[q])}
           = {q \in ComponentRunIds : runs[q].row = "failed" /\ rowAt[q] \in runClock - FailureWindow .. runClock}
      /\ {q \in ComponentRunIds : "failed" \in runs[q].traced /\ Recent(traceAt[q])}
           = {q \in ComponentRunIds :
                "failed" \in runs[q].traced /\ traceAt[q] \in runClock - FailureWindow .. runClock}
  BY <1>2, <1>3
<1>5. \/ Cardinality({q \in ComponentRunIds :
                        runs[q].row = "failed" /\ rowAt[q] \in runClock - FailureWindow .. runClock}) >= n
      \/ Cardinality({q \in ComponentRunIds :
                        "failed" \in runs[q].traced /\ traceAt[q] \in runClock - FailureWindow .. runClock}) >= n
  BY <1>4 DEF FailedRows, FailedTraces
<1> QED
  BY <1>1, <1>5 DEF CrossedBy

\* No count is of more than the runs there are.
LEMMA CountsAreOfRuns ==
    /\ Cardinality(ComponentRunIds) \in Nat
    /\ FailedRows <= Cardinality(ComponentRunIds)
    /\ FailedTraces <= Cardinality(ComponentRunIds)
<1>1. /\ {q \in ComponentRunIds : runs[q].row = "failed" /\ Recent(rowAt[q])} \subseteq ComponentRunIds
      /\ {q \in ComponentRunIds : "failed" \in runs[q].traced /\ Recent(traceAt[q])} \subseteq ComponentRunIds
  OBVIOUS
<1> QED
  BY <1>1, RunsAssumption, FS_Subset, FS_CardinalityType DEF FailedRows, FailedTraces

\* The severities, by their thresholds.
LEMMA Severities ==
    ASSUME NEW n \in Nat
    PROVE  /\ n >= HighThreshold => Severity(n) \in {"high", "critical"}
           /\ Severity(n) = "critical" <=> n >= CriticalThreshold
  BY RunsAssumption DEF Severity

LEMMA IncidentFields ==
    ASSUME NEW s, s \in Seq(IncidentRecords)
    PROVE  \A i \in DOMAIN s : s[i].severity \in {"high", "critical"} /\ s[i].at \in Nat
<1> SUFFICES ASSUME NEW i \in DOMAIN s PROVE s[i] \in IncidentRecords
  BY DEF IncidentRecords
<1>1. i \in 1 .. Len(s)
  OBVIOUS
<1> QED
  BY <1>1, ElementOfSeq

\* The first recent incident is one.
LEMMA FirstRecentIsOne ==
    ASSUME RunsTyped, RecentIncidents # {}
    PROVE  FirstRecent \in DOMAIN incidents /\ Recent(incidents[FirstRecent].at)
<1>1. RecentIncidents \subseteq DOMAIN incidents /\ DOMAIN incidents \subseteq Nat
  BY DEF RecentIncidents, RunsTyped
<1>2. \E i \in RecentIncidents : \A j \in RecentIncidents : i <= j
  BY <1>1, LeastNatural
<1>3. FirstRecent \in RecentIncidents
  BY <1>2 DEF FirstRecent
<1> QED
  BY <1>3 DEF RecentIncidents

-----------------------------------------------------------------------------
\* What a move of r does to the incidents: none goes, loses its time or is calmed down; a
\* new one is raised now, for a count at the threshold, and when r's check is over a recent
\* incident answers what it saw.
IncidentsStay ==
    /\ DOMAIN incidents \subseteq DOMAIN incidents'
    /\ \A i \in DOMAIN incidents :
         /\ incidents'[i].at = incidents[i].at
         /\ incidents[i].severity = "critical" => incidents'[i].severity = "critical"

NewIncidentsAreDue(r) ==
    \A i \in DOMAIN incidents' :
      /\ i \notin DOMAIN incidents => incidents'[i].at = runClock /\ runs[r].seen >= HighThreshold
      /\ \/ incidents'[i].severity # "critical"
         \/ i \in DOMAIN incidents /\ incidents[i].severity = "critical"
         \/ runs[r].seen >= CriticalThreshold

CheckIsAnswered(r) ==
    CheckedMove(r) =>
      /\ runs[r].seen >= HighThreshold => \E i \in DOMAIN incidents' : Recent(incidents'[i].at)
      /\ runs[r].seen >= CriticalThreshold =>
           \E i \in DOMAIN incidents' : Recent(incidents'[i].at) /\ incidents'[i].severity = "critical"

LEMMA IncidentsMove ==
    ASSUME RunsTyped, TimesPassed, CountsAreOfFailures, NEW r \in ComponentRunIds,
           QuietMove(r) \/ CountingMove(r) \/ LookingMove(r) \/ RaisingMove(r)
    PROVE  /\ incidents' \in Seq(IncidentRecords)
           /\ IncidentsStay /\ NewIncidentsAreDue(r) /\ CheckIsAnswered(r)
<1>1. PICK seen \in Nat : seen = runs[r].seen
  BY DEF RunsTyped, RunRecords
<1>2. CriticalThreshold \in Nat \ {0} /\ HighThreshold \in Nat /\ HighThreshold <= CriticalThreshold
  BY RunsAssumption
<1>3. CASE incidents' = incidents /\ (CheckedMove(r) => seen < HighThreshold)
  BY <1>1, <1>2, <1>3 DEF RunsTyped, IncidentsStay, NewIncidentsAreDue, CheckIsAnswered
<1>4. CASE seen >= HighThreshold /\ seen < CriticalThreshold /\ RecentIncidents # {} /\ incidents' = incidents
  BY <1>1, <1>2, <1>4, FirstRecentIsOne DEF RunsTyped, IncidentsStay, NewIncidentsAreDue, CheckIsAnswered
<1>5. CASE /\ seen >= CriticalThreshold /\ RecentIncidents # {}
           /\ incidents' = [incidents EXCEPT ![FirstRecent].severity = "critical"]
  <2>1. PICK first : first = FirstRecent
    OBVIOUS
  <2>2. first \in DOMAIN incidents /\ Recent(incidents[first].at)
    BY <1>5, <2>1, FirstRecentIsOne
  <2>3. PICK found : found = [incidents[first] EXCEPT !.severity = "critical"]
    OBVIOUS
  <2>4. incidents' = [incidents EXCEPT ![first] = found]
    BY <1>5, <2>1, <2>3
  <2>5. incidents[first] \in IncidentRecords
    BY <2>2, ElementOfSeq DEF RunsTyped
  <2>6. found \in IncidentRecords /\ found.severity = "critical" /\ found.at = incidents[first].at
    BY <2>3, <2>5 DEF IncidentRecords
  <2>7. /\ incidents' \in Seq(IncidentRecords) /\ DOMAIN incidents' = DOMAIN incidents
        /\ incidents'[first] = found
        /\ \A i \in DOMAIN incidents : i # first => incidents'[i] = incidents[i]
    BY <2>2, <2>4, <2>6 DEF RunsTyped
  <2>8. IncidentsStay
    BY <2>6, <2>7 DEF IncidentsStay
  <2>9. NewIncidentsAreDue(r) /\ CheckIsAnswered(r)
    BY <1>1, <1>5, <2>2, <2>6, <2>7 DEF NewIncidentsAreDue, CheckIsAnswered
  <2> QED
    BY <2>7, <2>8, <2>9
<1>6. CASE seen >= HighThreshold /\ incidents' = Append(incidents, [severity |-> Severity(seen), at |-> runClock])
  <2>1. PICK raised : raised = [severity |-> Severity(seen), at |-> runClock]
    OBVIOUS
  <2>2. runClock \in Nat /\ runClock - runClock <= FailureWindow
    BY RunsAssumption DEF TimesPassed
  <2>3. /\ raised \in IncidentRecords /\ raised.at = runClock
        /\ (raised.severity = "critical" <=> seen >= CriticalThreshold)
    BY <1>6, <2>1, <2>2, Severities DEF IncidentRecords
  <2>4. incidents' = Append(incidents, raised)
    BY <1>6, <2>1
  <2>5. /\ incidents' \in Seq(IncidentRecords)
        /\ DOMAIN incidents' = 1 .. Len(incidents) + 1 /\ DOMAIN incidents = 1 .. Len(incidents)
        /\ Len(incidents) \in Nat
        /\ \A i \in DOMAIN incidents : incidents'[i] = incidents[i]
        /\ incidents'[Len(incidents) + 1] = raised
    BY <2>3, <2>4 DEF RunsTyped
  <2>6. IncidentsStay
    BY <2>5 DEF IncidentsStay
  <2>7. \A i \in DOMAIN incidents' : i \in DOMAIN incidents \/ i = Len(incidents) + 1
    BY <2>5
  <2>8. NewIncidentsAreDue(r)
    <3> SUFFICES ASSUME NEW i \in DOMAIN incidents'
                 PROVE  /\ i \notin DOMAIN incidents => incidents'[i].at = runClock /\ runs[r].seen >= HighThreshold
                        /\ \/ incidents'[i].severity # "critical"
                           \/ i \in DOMAIN incidents /\ incidents[i].severity = "critical"
                           \/ runs[r].seen >= CriticalThreshold
      BY DEF NewIncidentsAreDue
    <3>1. CASE i \in DOMAIN incidents
      BY <3>1, <2>5
    <3>2. CASE i = Len(incidents) + 1
      BY <3>2, <2>3, <2>5, <1>1, <1>6
    <3> QED
      BY <3>1, <3>2, <2>7
  <2>9. Len(incidents) + 1 \in DOMAIN incidents' /\ Recent(raised.at)
    BY <2>2, <2>3, <2>5 DEF Recent
  <2>10. CheckIsAnswered(r)
    BY <1>1, <2>3, <2>5, <2>9 DEF CheckIsAnswered
  <2> QED
    BY <2>5, <2>6, <2>8, <2>10
<1>7. RaisingMove(r) => seen >= HighThreshold
  BY <1>1 DEF RaisingMove, CountsAreOfFailures
<1>8. CASE QuietMove(r) \/ CountingMove(r)
  BY <1>1, <1>2, <1>3, <1>8, RunsAssumption DEF QuietMove, CountingMove, CheckedMove
<1>9. CASE LookingMove(r)
  <2>1. CASE CheckedMove(r)
    BY <1>1, <1>2, <1>3, <1>4, <1>5, <1>9, <2>1 DEF LookingMove, CheckedMove
  <2>2. CASE ~CheckedMove(r)
    BY <1>3, <1>9, <2>2 DEF LookingMove
  <2> QED
    BY <2>1, <2>2
<1> QED
  BY <1>1, <1>6, <1>7, <1>8, <1>9 DEF RaisingMove

LEMMA MoveKeepsCounts ==
    ASSUME RunsTyped, TimesPassed, RowFollowsStage, CountsAreOfFailures, NEW r \in ComponentRunIds,
           StartComponentRun(r) \/ RunStep(r)
    PROVE  CountsAreOfFailures'
<1>1. /\ QuietMove(r) \/ CountingMove(r) \/ LookingMove(r) \/ RaisingMove(r)
      /\ runs' \in [ComponentRunIds -> RunRecords]
      /\ \A q \in ComponentRunIds : q # r => runs'[q] = runs[q]
      /\ runClock' = runClock /\ FailuresStay
  BY WaysToMove, MoveKeepsRows, MoveKeepsTimes
<1>2. /\ incidents' \in Seq(IncidentRecords)
      /\ IncidentsStay /\ NewIncidentsAreDue(r)
  BY <1>1, IncidentsMove
<1>3. runClock \in Nat /\ HighThreshold \in Nat /\ CriticalThreshold \in Nat
  BY RunsAssumption DEF TimesPassed
<1>4. \A q \in ComponentRunIds : runs[q].seen \in Nat /\ runs'[q].seen \in Nat
  BY <1>1 DEF RunsTyped, RunRecords
<1>5. Cardinality(ComponentRunIds) \in Nat /\ FailedRows \in Nat /\ FailedTraces \in Nat
      /\ FailedRows <= Cardinality(ComponentRunIds) /\ FailedTraces <= Cardinality(ComponentRunIds)
  BY CountsAreOfRuns, CountsOfFailures
<1>6. runs'[r].seen \in {runs[r].seen, 0, FailedRows, FailedTraces}
  BY <1>1 DEF QuietMove, CountingMove, LookingMove, RaisingMove, CheckedMove
<1>7. ASSUME NEW n \in Nat, CrossedBy(n, runClock)
      PROVE  CrossedBy(n, runClock)'
  <2>1. CrossedBy(n, runClock') <=> CrossedBy(n, runClock)
    BY <1>1
  <2>2. PICK time \in Nat : time = runClock
    BY <1>3
  <2>3. CrossedBy(n, time)'
    BY <1>1, <1>7, <2>2, CrossedStays
  <2> QED
    BY <1>1, <2>2, <2>3 DEF CrossedBy
<1>8. ASSUME NEW q \in ComponentRunIds
      PROVE  /\ runs'[q].seen <= Cardinality(ComponentRunIds)
             /\ \A n \in Nat : runs'[q].seen >= n => CrossedBy(n, runClock)'
             /\ runs'[q].stage \in {"raising_traces", "raising_rows"} => runs'[q].seen >= HighThreshold
  <2>1. ASSUME NEW n \in Nat, runs[q].seen >= n
        PROVE  CrossedBy(n, runClock)'
    BY <2>1, <1>7 DEF CountsAreOfFailures
  <2>2. runs[q].seen <= Cardinality(ComponentRunIds)
    BY DEF CountsAreOfFailures
  <2>3. CASE q # r
    BY <2>1, <2>2, <2>3, <1>1 DEF CountsAreOfFailures
  <2>4. CASE q = r
    <3>1. runs'[q].seen <= Cardinality(ComponentRunIds)
      BY <2>2, <2>4, <1>4, <1>5, <1>6
    <3>2. runs'[q].stage \in {"raising_traces", "raising_rows"} => runs'[q].seen >= HighThreshold
      BY <2>4, <1>1 DEF QuietMove, CountingMove, LookingMove, RaisingMove, CheckedMove
    <3>3. ASSUME NEW n \in Nat, runs'[q].seen >= n
          PROVE  CrossedBy(n, runClock)'
      <4>1. CASE runs'[q].seen = runs[q].seen
        BY <4>1, <3>3, <2>1
      <4>2. CASE runs'[q].seen = FailedRows \/ runs'[q].seen = FailedTraces
        <5>1. CrossedBy(n, runClock)
          BY <4>2, <3>3, CountsCross
        <5> QED
          BY <5>1, <1>7
      <4>3. CASE runs'[q].seen = 0
        <5>1. runs[q].seen >= n
          BY <4>3, <3>3, <1>4
        <5> QED
          BY <5>1, <2>1
      <4> QED
        BY <2>4, <1>6, <4>1, <4>2, <4>3
    <3> QED
      BY <3>1, <3>2, <3>3
  <2> QED
    BY <2>3, <2>4
<1>9. \A n \in Nat : runs[r].seen >= n => CrossedBy(n, runClock)
  BY DEF CountsAreOfFailures
<1>10. ASSUME NEW i \in DOMAIN incidents'
       PROVE  /\ CrossedBy(HighThreshold, incidents[i].at)'
              /\ incidents'[i].severity = "critical" => CrossedBy(CriticalThreshold, runClock)'
  <2>1. CrossedBy(HighThreshold, incidents[i].at)'
    <3>1. CASE i \in DOMAIN incidents
      <4>1. PICK at \in Nat : at = incidents[i].at
        BY <3>1, IncidentFields DEF RunsTyped
      <4>2. CrossedBy(HighThreshold, at)
        BY <3>1, <4>1 DEF CountsAreOfFailures
      <4>3. CrossedBy(HighThreshold, at)'
        BY <4>2, <1>1, <1>3, CrossedStays
      <4>4. incidents'[i].at = at
        BY <3>1, <4>1, <1>2 DEF IncidentsStay
      <4> QED
        BY <4>3, <4>4 DEF CrossedBy
    <3>2. CASE i \notin DOMAIN incidents
      <4>1. incidents'[i].at = runClock /\ runs[r].seen >= HighThreshold
        BY <3>2, <1>2 DEF NewIncidentsAreDue
      <4>2. CrossedBy(HighThreshold, runClock)'
        BY <4>1, <1>3, <1>7, <1>9
      <4> QED
        BY <4>1, <4>2, <1>1 DEF CrossedBy
    <3> QED
      BY <3>1, <3>2
  <2>2. ASSUME incidents'[i].severity = "critical"
        PROVE  CrossedBy(CriticalThreshold, runClock)'
    <3>1. CASE i \in DOMAIN incidents /\ incidents[i].severity = "critical"
      BY <3>1, <1>3, <1>7 DEF CountsAreOfFailures
    <3>2. CASE runs[r].seen >= CriticalThreshold
      BY <3>2, <1>3, <1>7, <1>9
    <3> QED
      BY <2>2, <3>1, <3>2, <1>2 DEF NewIncidentsAreDue
  <2> QED
    BY <2>1, <2>2
<1> QED
  BY <1>8, <1>10 DEF CountsAreOfFailures

\* Whatever the threshold n: if a threshold's worth of recent runs is unanswered after a
\* move, they were so before, or r answers them.
LEMMA UnansweredStay ==
    ASSUME RunsTyped, TimesPassed, RowFollowsStage, CountsAreOfFailures,
           NEW n \in {HighThreshold, CriticalThreshold}, NEW severities \in SUBSET {"high", "critical"},
           "critical" \in severities,
           NEW r \in ComponentRunIds, StartComponentRun(r) \/ RunStep(r),
           Answered(n, severities),
           CheckedMove(r) /\ runs[r].seen >= n =>
             \E i \in DOMAIN incidents' : incidents'[i].severity \in severities /\ Recent(incidents'[i].at)
    PROVE  Answered(n, severities)'
<1>1. /\ QuietMove(r) \/ CountingMove(r) \/ LookingMove(r) \/ RaisingMove(r)
      /\ runs' \in [ComponentRunIds -> RunRecords]
      /\ \A q \in ComponentRunIds : q # r => runs'[q] = runs[q]
      /\ RowFollowsStage'
      /\ runClock' = runClock /\ FailuresStay
      /\ rowAt' \in [ComponentRunIds -> 0 .. runClock]
  BY WaysToMove, MoveKeepsRows, MoveKeepsTimes
<1>2. incidents' \in Seq(IncidentRecords) /\ IncidentsStay
  BY <1>1, IncidentsMove
<1>3. n \in Nat /\ FailedRows \in Nat /\ runs[r].seen \in Nat /\ runs'[r].seen \in Nat /\ runClock \in Nat
  BY <1>1, RunsAssumption, CountsOfFailures DEF RunsTyped, RunRecords, TimesPassed
<1>4. PICK S : S = RecentUnanswered(n)
  OBVIOUS
<1>5. PICK T : T = RecentUnanswered(n)'
  OBVIOUS
<1>6. /\ T \subseteq ComponentRunIds
      /\ \A q \in T : /\ runs'[q].stage \in {"looking_rows", "raising_rows", "returned"}
                      /\ "failed" \in runs'[q].traced
                      /\ runs'[q].stage = "returned" \/ runs'[q].seen < n
                      /\ runClock - rowAt'[q] <= FailureWindow
  BY <1>1, <1>5 DEF RecentUnanswered, Unanswered, Recent
<1>7. /\ S \subseteq ComponentRunIds
      /\ \A q \in ComponentRunIds :
           /\ runs[q].stage \in {"looking_rows", "raising_rows", "returned"}
           /\ "failed" \in runs[q].traced
           /\ runs[q].stage = "returned" \/ runs[q].seen < n
           /\ runClock - rowAt[q] <= FailureWindow
           => q \in S
  BY <1>4 DEF RecentUnanswered, Unanswered, Recent
<1>8. \A q \in ComponentRunIds : "failed" \in runs[q].traced => runs[q].row = "failed" /\ rowAt'[q] = rowAt[q]
  BY <1>1 DEF RowFollowsStage, RowAgrees, FailuresStay
<1>9. \A q \in T : q # r => q \in S
  BY <1>1, <1>6, <1>7, <1>8
<1>10. IsFiniteSet(S) /\ IsFiniteSet(T)
  BY <1>6, <1>7, RunsAssumption, FS_Subset
<1>11. SUFFICES ASSUME Cardinality(T) >= n
                PROVE  \E i \in DOMAIN incidents' :
                         incidents'[i].severity \in severities /\ \A q \in T : rowAt'[q] <= incidents'[i].at + FailureWindow
  BY <1>5 DEF Answered, Covered
<1>12. CASE CheckedMove(r) /\ runs[r].seen >= n
  <2>1. PICK i \in DOMAIN incidents' : incidents'[i].severity \in severities /\ Recent(incidents'[i].at)
    BY <1>12
  <2>2. PICK at \in Nat : at = incidents'[i].at
    BY <1>2, IncidentFields
  <2>3. FailureWindow \in Nat /\ runClock - at <= FailureWindow
    BY <2>1, <2>2, RunsAssumption DEF Recent
  <2>4. \A q \in T : rowAt'[q] \in Nat /\ rowAt'[q] <= runClock
    BY <1>1, <1>3, <1>6
  <2>5. \A q \in T : rowAt'[q] <= at + FailureWindow
    BY <2>3, <2>4, <1>3
  <2> QED
    BY <2>1, <2>2, <2>5
<1>13. CASE T \subseteq S
  <2>1. Cardinality(T) <= Cardinality(S) /\ Cardinality(T) \in Nat /\ Cardinality(S) \in Nat
    BY <1>10, <1>13, FS_Subset, FS_CardinalityType
  <2>2. Covered(S, severities)
    BY <1>3, <1>4, <1>11, <2>1 DEF Answered
  <2>3. PICK i \in DOMAIN incidents :
          incidents[i].severity \in severities /\ \A q \in S : rowAt[q] <= incidents[i].at + FailureWindow
    BY <2>2 DEF Covered
  <2>4. i \in DOMAIN incidents' /\ incidents'[i].at = incidents[i].at /\ incidents'[i].severity \in severities
    <3>1. i \in DOMAIN incidents' /\ incidents'[i].at = incidents[i].at
      BY <1>2 DEF IncidentsStay
    <3>2. incidents[i].severity = "critical" => incidents'[i].severity = "critical"
      BY <1>2 DEF IncidentsStay
    <3>3. incidents[i].severity \in {"high", "critical"} /\ incidents'[i].severity \in {"high", "critical"}
      BY <3>1, <1>2, IncidentFields DEF RunsTyped
    <3> QED
      BY <2>3, <3>1, <3>2, <3>3
  <2>5. \A q \in T : rowAt'[q] = rowAt[q]
    BY <1>13, <1>4, <1>8 DEF RecentUnanswered, Unanswered
  <2> QED
    BY <1>13, <2>3, <2>4, <2>5
<1>14. CASE r \in T /\ r \notin S /\ ~(CheckedMove(r) /\ runs[r].seen >= n)
  <2>1. /\ runs'[r].stage \in {"looking_rows", "raising_rows", "returned"}
        /\ "failed" \in runs'[r].traced
        /\ runs'[r].stage = "returned" \/ runs'[r].seen < n
        /\ runClock - rowAt'[r] <= FailureWindow
    BY <1>6, <1>14
  <2>2. runs[r].stage \in CheckingStages => "failed" \in runs[r].traced
    BY DEF RowFollowsStage, RowAgrees
  <2>3. ~QuietMove(r)
    BY <2>1 DEF QuietMove
  <2>4. ~(LookingMove(r) \/ RaisingMove(r))
    <3> SUFFICES ASSUME LookingMove(r) \/ RaisingMove(r)
                 PROVE  FALSE
      OBVIOUS
    <3>1. CASE CheckedMove(r)
      <4>1. runs[r].stage \in {"looking_rows", "raising_rows"}
        BY <3>1, <2>1 DEF CheckedMove
      <4>2. runs[r].seen < n
        BY <3>1, <1>3, <1>14
      <4>3. "failed" \in runs[r].traced
        BY <4>1, <2>2 DEF CheckingStages
      <4> QED
        BY <4>1, <4>2, <4>3, <2>1, <1>7, <1>8, <1>14
    <3>2. CASE ~CheckedMove(r)
      <4>1. runs[r].stage = "looking_rows" /\ runs'[r].stage = "raising_rows" /\ runs'[r].seen = runs[r].seen
        BY <3>2, <2>1 DEF LookingMove, RaisingMove
      <4>2. "failed" \in runs[r].traced
        BY <4>1, <2>2 DEF CheckingStages
      <4> QED
        BY <4>1, <4>2, <2>1, <1>7, <1>8, <1>14
    <3> QED
      BY <3>1, <3>2
  <2>5. CountingMove(r) /\ FailedRows < n /\ runs'[r].row = runs[r].row
    BY <2>1, <2>3, <2>4, <1>1 DEF CountingMove
  <2>6. PICK failed : failed = {q \in ComponentRunIds : runs[q].row = "failed" /\ Recent(rowAt[q])}
    OBVIOUS
  <2>7. T \subseteq failed
    <3> SUFFICES ASSUME NEW q \in T
                 PROVE  q \in ComponentRunIds /\ runs[q].row = "failed" /\ Recent(rowAt[q])
      BY <2>6
    <3>1. q \in ComponentRunIds /\ "failed" \in runs'[q].traced /\ runClock - rowAt'[q] <= FailureWindow
      BY <1>6
    <3>2. runs'[q].row = "failed"
      BY <3>1, <1>1 DEF RowFollowsStage, RowAgrees
    <3>3. runs[q].row = "failed"
      BY <3>1, <3>2, <2>5, <1>1
    <3>4. rowAt'[q] = rowAt[q]
      BY <3>1, <3>3, <1>1 DEF FailuresStay
    <3> QED
      BY <3>1, <3>3, <3>4 DEF Recent
  <2>8. IsFiniteSet(failed)
    BY <2>6, RunsAssumption, FS_Subset
  <2>9. Cardinality(T) <= Cardinality(failed) /\ Cardinality(T) \in Nat
    BY <2>7, <2>8, <1>10, FS_Subset, FS_CardinalityType
  <2>10. Cardinality(failed) = FailedRows
    BY <2>6 DEF FailedRows
  <2> QED
    BY <2>5, <2>9, <2>10, <1>3, <1>11
<1> QED
  BY <1>9, <1>12, <1>13, <1>14

LEMMA MoveKeepsUnanswered ==
    ASSUME RunsTyped, TimesPassed, RowFollowsStage, CountsAreOfFailures, UnansweredAreFew,
           NEW r \in ComponentRunIds, StartComponentRun(r) \/ RunStep(r)
    PROVE  UnansweredAreFew'
<1>1. QuietMove(r) \/ CountingMove(r) \/ LookingMove(r) \/ RaisingMove(r)
  BY WaysToMove
<1>2. incidents' \in Seq(IncidentRecords) /\ CheckIsAnswered(r)
  BY <1>1, IncidentsMove
<1>3. \A i \in DOMAIN incidents' : incidents'[i].severity \in {"high", "critical"}
  BY <1>2, IncidentFields
<1>4. Answered(HighThreshold, {"high", "critical"})'
  <2>1. PICK n, severities : n = HighThreshold /\ severities = {"high", "critical"}
    OBVIOUS
  <2>2. CheckedMove(r) /\ runs[r].seen >= n =>
          \E i \in DOMAIN incidents' : incidents'[i].severity \in severities /\ Recent(incidents'[i].at)
    BY <2>1, <1>2, <1>3 DEF CheckIsAnswered
  <2>3. Answered(n, severities)
    BY <2>1 DEF UnansweredAreFew
  <2>4. Answered(n, severities)'
    BY <2>1, <2>2, <2>3, UnansweredStay
  <2> QED
    BY <2>1, <2>4 DEF Answered, RecentUnanswered, Unanswered
<1>5. Answered(CriticalThreshold, {"critical"})'
  <2>1. PICK n, severities : n = CriticalThreshold /\ severities = {"critical"}
    OBVIOUS
  <2>2. CheckedMove(r) /\ runs[r].seen >= n =>
          \E i \in DOMAIN incidents' : incidents'[i].severity \in severities /\ Recent(incidents'[i].at)
    BY <2>1, <1>2 DEF CheckIsAnswered
  <2>3. Answered(n, severities)
    BY <2>1 DEF UnansweredAreFew
  <2>4. Answered(n, severities)'
    BY <2>1, <2>2, <2>3, UnansweredStay
  <2> QED
    BY <2>1, <2>4 DEF Answered, RecentUnanswered, Unanswered
<1> QED
  BY <1>4, <1>5 DEF UnansweredAreFew

LEMMA MoveKeepsOneAtATime ==
    ASSUME RunsTyped, TimesPassed, RowFollowsStage, CountsAreOfFailures, AloneUnlessOverlapping,
           NEW r \in ComponentRunIds, StartComponentRun(r) \/ RunStep(r)
    PROVE  AloneUnlessOverlapping'
<1>1. /\ QuietMove(r) \/ CountingMove(r) \/ LookingMove(r) \/ RaisingMove(r)
      /\ \A q \in ComponentRunIds : q # r => runs'[q] = runs[q]
      /\ runClock' = runClock /\ Goto(r, runs')
  BY WaysToMove, MoveKeepsRows, MoveKeepsTimes
<1>2. incidents' \in Seq(IncidentRecords) /\ IncidentsStay
  BY <1>1, IncidentsMove
<1>3. SUFFICES ASSUME ~runOverlap'
               PROVE  /\ \A p, q \in ComponentRunIds :
                           runs'[p].stage \notin RunEnded /\ runs'[q].stage \notin RunEnded => p = q
                      /\ \A q \in ComponentRunIds :
                           runs'[q].stage \in {"raising_traces", "raising_rows"} =>
                             \A i \in DOMAIN incidents' : runClock > incidents'[i].at + FailureWindow
                      /\ \A i, j \in DOMAIN incidents' : i < j => incidents'[j].at > incidents'[i].at + FailureWindow
  BY <1>1 DEF AloneUnlessOverlapping
<1>4. ~runOverlap /\ \A q \in ComponentRunIds : q # r => runs[q].stage \in RunEnded
  BY <1>1, <1>3 DEF Goto
<1>5. \A q \in ComponentRunIds : q # r => runs'[q].stage \in RunEnded
  BY <1>1, <1>4
<1>6. /\ runClock \in Nat /\ FailureWindow \in Nat /\ DOMAIN incidents = 1 .. Len(incidents) /\ Len(incidents) \in Nat
      /\ \A i \in DOMAIN incidents : incidents[i].at \in Nat
  <2>1. \A i \in DOMAIN incidents : incidents[i].at \in Nat
    BY IncidentFields DEF RunsTyped
  <2> QED
    BY <2>1, RunsAssumption DEF TimesPassed, RunsTyped
<1>7. ASSUME runs'[r].stage \in {"raising_traces", "raising_rows"}
      PROVE  \A i \in DOMAIN incidents' : runClock > incidents'[i].at + FailureWindow
  <2>1. incidents' = incidents /\ RecentIncidents = {}
    BY <1>1, <1>7 DEF QuietMove, CountingMove, LookingMove, RaisingMove, CheckedMove
  <2>2. \A i \in DOMAIN incidents : ~Recent(incidents[i].at)
    BY <2>1 DEF RecentIncidents
  <2>3. \A i \in DOMAIN incidents : ~(runClock - incidents[i].at <= FailureWindow)
    BY <2>2 DEF Recent
  <2>4. \A i \in DOMAIN incidents : runClock > incidents[i].at + FailureWindow
    BY <2>3, <1>6
  <2> QED
    BY <2>1, <2>4
<1>8. \A i, j \in DOMAIN incidents : i < j => incidents[j].at > incidents[i].at + FailureWindow
  BY <1>4 DEF AloneUnlessOverlapping
<1>9. ASSUME NEW i \in DOMAIN incidents', NEW j \in DOMAIN incidents', i < j
      PROVE  incidents'[j].at > incidents'[i].at + FailureWindow
  <2>1. CASE DOMAIN incidents' = DOMAIN incidents
    BY <2>1, <1>2, <1>8, <1>9 DEF IncidentsStay
  <2>2. CASE RaisingMove(r)
    <3>1. \A k \in DOMAIN incidents : runClock > incidents[k].at + FailureWindow
      BY <2>2, <1>4 DEF AloneUnlessOverlapping, RaisingMove
    <3>2. PICK raised : raised = [severity |-> Severity(runs[r].seen), at |-> runClock]
      OBVIOUS
    <3>3. /\ incidents' = Append(incidents, raised)
          /\ raised.at = runClock
      BY <2>2, <3>2 DEF RaisingMove
    <3>4. /\ DOMAIN incidents' = 1 .. Len(incidents) + 1
          /\ \A k \in 1 .. Len(incidents) : incidents'[k] = incidents[k]
          /\ incidents'[Len(incidents) + 1] = raised
      BY <3>3 DEF RunsTyped
    <3>5. i \in DOMAIN incidents /\ incidents'[i] = incidents[i]
      BY <3>4, <1>6, <1>9
    <3>6. CASE j \in DOMAIN incidents
      BY <3>4, <3>5, <3>6, <1>6, <1>8, <1>9
    <3>7. CASE j = Len(incidents) + 1
      BY <3>1, <3>3, <3>4, <3>5, <3>7
    <3> QED
      BY <3>4, <3>6, <3>7, <1>6
  <2>3. ~RaisingMove(r) => DOMAIN incidents' = DOMAIN incidents
    <3>1. \A c : incidents' = [incidents EXCEPT ![FirstRecent].severity = c] => DOMAIN incidents' = DOMAIN incidents
      OBVIOUS
    <3> QED
      BY <3>1, <1>1 DEF QuietMove, CountingMove, LookingMove
  <2> QED
    BY <2>1, <2>2, <2>3
<1> QED
  BY <1>5, <1>7, <1>9 DEF RunEnded

LEMMA MoveKeepsCause ==
    ASSUME RunsTyped, RowFollowsStage, ConnectionHasCause, NEW r \in ComponentRunIds,
           StartComponentRun(r) \/ RunStep(r)
    PROVE  ConnectionHasCause' /\ connection' \in {"active", "degraded", "failed"}
<1>1. /\ \A q \in ComponentRunIds : q # r => runs'[q] = runs[q]
      /\ runs[r].row = "failed" => runs'[r].row = "failed"
      /\ runs[r].row = "degraded" => runs'[r].row \in {"degraded", "failed"}
      /\ RowFollowsStage'
  BY MoveKeepsRows
<1>2. (\E q \in ComponentRunIds : runs[q].row \in {"degraded", "failed"}) =>
        \E q \in ComponentRunIds : runs'[q].row \in {"degraded", "failed"}
  <2> SUFFICES ASSUME NEW q \in ComponentRunIds, runs[q].row \in {"degraded", "failed"}
               PROVE  runs'[q].row \in {"degraded", "failed"}
    OBVIOUS
  <2> QED
    BY <1>1
<1>3. \/ connection' = connection
      \/ connection' = "degraded" /\ runs[r].row = "degraded"
      \/ FailRow(r) /\ connection' = "failed"
  BY DEF StartComponentRun, RunStep, WorkStage, CompleteRow, ReportRun, Reject, FailRow, TraceFailure,
         CountFailures, LookForIncident, RaiseIncident
<1>4. FailRow(r) => runs'[r].row = "failed"
  <2>1. ASSUME FailRow(r) PROVE runs'[r].row = "failed"
    <3>1. \/ runs' = [runs EXCEPT ![r].row = "failed", ![r].stage = "tracing"]
          \/ runs' = [runs EXCEPT ![r].row = "failed", ![r].stage = "rejected"]
      BY <2>1 DEF FailRow, Goto
    <3>2. PICK next \in RunStages, row \in {"none", "running", "completed", "degraded", "failed"} :
            row = "failed" /\ runs' = [runs EXCEPT ![r].row = row, ![r].stage = next]
      BY <3>1 DEF RunStages
    <3>3. Becomes(runs', r, next, row, runs[r].produced, runs[r].traced, runs[r].seen)
      BY <3>2, RowAndStageMoved
    <3> QED
      BY <3>2, <3>3 DEF Becomes
  <2> QED
    BY <2>1
<1> QED
  BY <1>1, <1>2, <1>3, <1>4 DEF ConnectionHasCause, RunsTyped

-----------------------------------------------------------------------------
\* The invariant of the component's runs.
LEMMA RunsInitially == RunsInit => RunsInv
<1> SUFFICES ASSUME RunsInit PROVE RunsInv
  OBVIOUS
<1>1. \A r \in ComponentRunIds : runs[r] = NewRun
  BY DEF RunsInit
<1>2. NewRun \in RunRecords
  BY DEF NewRun, RunRecords, RunStages
<1>3. RunsTyped
  <2>1. runs \in [ComponentRunIds -> RunRecords]
    <3>1. PICK new \in RunRecords : new = NewRun
      BY <1>2
    <3>2. runs = [r \in ComponentRunIds |-> new]
      BY <3>1 DEF RunsInit
    <3> QED
      BY <3>2
  <2>2. incidents \in Seq(IncidentRecords)
    BY EmptySeq DEF RunsInit
  <2> QED
    BY <2>1, <2>2 DEF RunsInit, RunsTyped
<1>4. RowFollowsStage
  BY <1>1 DEF RowFollowsStage, RowAgrees, NewRun, CheckingStages
<1>5. ConnectionHasCause
  BY DEF RunsInit, ConnectionHasCause
<1>6. TimesPassed
  BY RunsAssumption DEF RunsInit, TimesPassed
<1>7. CountsAreOfFailures
  <2>1. ASSUME NEW n \in Nat, 0 >= n
        PROVE  CrossedBy(n, runClock)
    <3>1. n = 0
      BY <2>1
    <3>2. FailedRows >= n
      BY <3>1, CountsOfFailures
    <3> QED
      BY <3>2, <1>6, CountsCross
  <2>2. DOMAIN incidents = {} /\ runClock \in Nat
    BY DEF RunsInit
  <2>3. \A r \in ComponentRunIds :
          runs[r].seen = 0 /\ runs[r].stage \notin {"raising_traces", "raising_rows"}
    BY <1>1 DEF NewRun
  <2> QED
    BY <2>1, <2>2, <2>3, CountsAreOfRuns DEF CountsAreOfFailures
<1>8. RecentUnanswered(HighThreshold) = {} /\ RecentUnanswered(CriticalThreshold) = {}
  BY <1>1 DEF RecentUnanswered, Unanswered, NewRun
<1>9. UnansweredAreFew
  <2>1. Cardinality({}) = 0
    BY FS_EmptySet
  <2>2. HighThreshold > 0 /\ CriticalThreshold > 0
    BY RunsAssumption
  <2> QED
    BY <1>8, <2>1, <2>2, RunsAssumption DEF UnansweredAreFew, Answered
<1>10. AloneUnlessOverlapping
  BY <1>1 DEF AloneUnlessOverlapping, NewRun, RunEnded, RunsInit
<1> QED
  BY <1>3, <1>4, <1>5, <1>6, <1>7, <1>9, <1>10 DEF RunsInv

\* Time passes: what was recent may not be any longer.
LEMMA ElapseKeeps == RunsInv /\ RunsElapse => RunsInv'
<1> SUFFICES ASSUME RunsInv, RunsElapse PROVE RunsInv'
  OBVIOUS
<1> USE DEF RunsElapse
<1>1. /\ runClock \in Nat /\ runClock' = runClock + 1 /\ runClock' \in Nat /\ runClock <= runClock'
      /\ runClock' \in 0 .. MaxRunsClock /\ FailureWindow \in Nat
      /\ HighThreshold \in Nat /\ CriticalThreshold \in Nat
  BY RunsAssumption DEF RunsInv, TimesPassed
<1>2. RunsTyped' /\ ConnectionHasCause'
  BY DEF RunsInv, RunsTyped, ConnectionHasCause
<1>3. RowFollowsStage'
  BY DEF RunsInv, RowFollowsStage, RowAgrees, WorkStages
<1>4. \A i \in DOMAIN incidents : incidents[i].at \in Nat /\ incidents[i].at <= runClock
  BY IncidentFields DEF RunsInv, RunsTyped, TimesPassed
<1>5. TimesPassed'
  <2>1. \A r \in ComponentRunIds : rowAt[r] \in 0 .. runClock + 1 /\ traceAt[r] \in 0 .. runClock + 1
    BY <1>1 DEF RunsInv, TimesPassed
  <2>2. \A i \in DOMAIN incidents : incidents[i].at <= runClock + 1
    BY <1>1, <1>4
  <2> QED
    BY <1>1, <2>1, <2>2 DEF RunsInv, TimesPassed
<1>6. FailuresStay
  BY DEF FailuresStay
<1>7. CountsAreOfFailures'
  <2>1. ASSUME NEW n \in Nat, NEW before \in Nat, NEW after \in Nat, before <= after, CrossedBy(n, before)
        PROVE  CrossedBy(n, after)'
    BY <1>6, <2>1, CrossedStays
  <2>2. ASSUME NEW n \in Nat, CrossedBy(n, runClock)
        PROVE  CrossedBy(n, runClock)'
    <3>1. PICK after \in Nat : after = runClock'
      BY <1>1
    <3>2. CrossedBy(n, after)'
      BY <1>1, <2>1, <2>2, <3>1
    <3> QED
      BY <3>1, <3>2 DEF CrossedBy
  <2>3. \A r \in ComponentRunIds :
          /\ runs'[r].seen <= Cardinality(ComponentRunIds)
          /\ \A n \in Nat : runs'[r].seen >= n => CrossedBy(n, runClock)'
          /\ runs'[r].stage \in {"raising_traces", "raising_rows"} => runs'[r].seen >= HighThreshold
    BY <2>2 DEF RunsInv, CountsAreOfFailures
  <2>4. ASSUME NEW i \in DOMAIN incidents
        PROVE  /\ CrossedBy(HighThreshold, incidents[i].at)'
               /\ incidents[i].severity = "critical" => CrossedBy(CriticalThreshold, runClock)'
    <3>1. PICK at \in Nat : at = incidents[i].at
      BY <1>4
    <3>2. CrossedBy(HighThreshold, at)
      BY <3>1 DEF RunsInv, CountsAreOfFailures
    <3>3. CrossedBy(HighThreshold, at)'
      BY <1>1, <2>1, <3>2
    <3>4. incidents[i].severity = "critical" => CrossedBy(CriticalThreshold, runClock)
      BY DEF RunsInv, CountsAreOfFailures
    <3> QED
      BY <1>1, <2>2, <3>1, <3>3, <3>4 DEF CrossedBy
  <2> QED
    BY <2>3, <2>4 DEF CountsAreOfFailures
<1>8. ASSUME NEW n \in Nat, NEW severities, Answered(n, severities)
      PROVE  Answered(n, severities)'
  <2>1. PICK S, T : S = RecentUnanswered(n) /\ T = RecentUnanswered(n)'
    OBVIOUS
  <2>3. T \subseteq S
    <3> SUFFICES ASSUME NEW r \in T PROVE r \in S
      OBVIOUS
    <3>1. Unanswered(n)' = Unanswered(n) /\ rowAt' = rowAt
      BY DEF Unanswered
    <3>2. r \in Unanswered(n)' /\ Recent(rowAt[r])'
      BY <2>1 DEF RecentUnanswered
    <3>3. runClock' - rowAt'[r] <= FailureWindow
      BY <3>2 DEF Recent
    <3>4. r \in Unanswered(n) /\ r \in ComponentRunIds
      BY <3>1, <3>2 DEF Unanswered
    <3>5. runClock - rowAt[r] <= FailureWindow
      <4>1. PICK time \in Nat : time = rowAt[r]
        BY <3>4, <1>1 DEF RunsInv, TimesPassed
      <4>2. rowAt'[r] = time
        BY <3>1, <4>1
      <4>3. runClock + 1 - time <= FailureWindow
        BY <1>1, <3>3, <4>2
      <4>4. runClock - time <= FailureWindow
        BY <1>1, <4>1, <4>3
      <4> QED
        BY <4>1, <4>4
    <3> QED
      BY <2>1, <3>4, <3>5 DEF RecentUnanswered, Recent
  <2>4. S \subseteq ComponentRunIds
    BY <2>1 DEF RecentUnanswered, Unanswered
  <2>5. Cardinality(T) <= Cardinality(S) /\ Cardinality(T) \in Nat /\ Cardinality(S) \in Nat
    BY <2>3, <2>4, RunsAssumption, FS_Subset, FS_CardinalityType
  <2>6. Cardinality(T) >= n => Covered(S, severities)
    BY <1>8, <2>1, <2>5 DEF Answered
  <2>7. Covered(S, severities) => Covered(T, severities)'
    BY <2>3 DEF Covered
  <2> QED
    BY <2>1, <2>6, <2>7 DEF Answered, Covered
<1>9. UnansweredAreFew'
  BY <1>1, <1>8 DEF RunsInv, UnansweredAreFew
<1>10. AloneUnlessOverlapping'
  <2>1. \A i \in DOMAIN incidents :
          runClock > incidents[i].at + FailureWindow => runClock + 1 > incidents[i].at + FailureWindow
    BY <1>1, <1>4
  <2> QED
    BY <2>1 DEF RunsInv, AloneUnlessOverlapping
<1> QED
  BY <1>2, <1>3, <1>5, <1>7, <1>9, <1>10 DEF RunsInv

LEMMA RunsStepKeeps == RunsInv /\ [RunsNext]_runsVars => RunsInv'
<1> SUFFICES ASSUME RunsInv, [RunsNext]_runsVars PROVE RunsInv'
  OBVIOUS
<1>1. CASE \E r \in ComponentRunIds : StartComponentRun(r) \/ RunStep(r)
  <2>1. PICK r \in ComponentRunIds : StartComponentRun(r) \/ RunStep(r)
    BY <1>1
  <2> USE DEF RunsInv
  <2>2. QuietMove(r) \/ CountingMove(r) \/ LookingMove(r) \/ RaisingMove(r)
    BY <2>1, WaysToMove
  <2>3. incidents' \in Seq(IncidentRecords) /\ IncidentsStay /\ NewIncidentsAreDue(r)
    BY <2>2, IncidentsMove
  <2>4. RowFollowsStage' /\ ConnectionHasCause' /\ RunsTyped'
    BY <2>1, <2>3, MoveKeepsRows, MoveKeepsCause DEF RunsTyped
  <2>5. TimesPassed'
    <3>1. /\ runClock' = runClock
          /\ rowAt' \in [ComponentRunIds -> 0 .. runClock] /\ traceAt' \in [ComponentRunIds -> 0 .. runClock]
      BY <2>1, MoveKeepsTimes
    <3>2. \A i \in DOMAIN incidents' : incidents'[i].at <= runClock
      <4> SUFFICES ASSUME NEW i \in DOMAIN incidents' PROVE incidents'[i].at <= runClock
        OBVIOUS
      <4>1. CASE i \in DOMAIN incidents
        BY <4>1, <2>3 DEF IncidentsStay, TimesPassed
      <4>2. CASE i \notin DOMAIN incidents
        BY <4>2, <2>3 DEF NewIncidentsAreDue, TimesPassed
      <4> QED
        BY <4>1, <4>2
    <3> QED
      BY <3>1, <3>2 DEF TimesPassed
  <2>6. CountsAreOfFailures'
    BY <2>1, MoveKeepsCounts
  <2>7. UnansweredAreFew'
    BY <2>1, MoveKeepsUnanswered
  <2>8. AloneUnlessOverlapping'
    BY <2>1, MoveKeepsOneAtATime
  <2> QED
    BY <2>4, <2>5, <2>6, <2>7, <2>8
<1>2. CASE UNCHANGED runsVars
  <2> USE <1>2 DEF runsVars
  <2>1. RunsTyped' /\ ConnectionHasCause' /\ TimesPassed'
    BY DEF RunsInv, RunsTyped, ConnectionHasCause, TimesPassed
  <2>2. RowFollowsStage'
    BY DEF RunsInv, RowFollowsStage, RowAgrees, WorkStages
  <2>3. CountsAreOfFailures'
    <3>1. \A n : CrossedBy(n, runClock)' <=> CrossedBy(n, runClock)
      BY DEF CrossedBy
    <3>2. \A i : CrossedBy(HighThreshold, incidents[i].at)' <=> CrossedBy(HighThreshold, incidents[i].at)
      BY DEF CrossedBy
    <3> QED
      BY <3>1, <3>2 DEF RunsInv, CountsAreOfFailures
  <2>4. UnansweredAreFew'
    BY DEF RunsInv, UnansweredAreFew, Answered, Covered, RecentUnanswered, Unanswered, Recent
  <2>5. AloneUnlessOverlapping'
    BY DEF RunsInv, AloneUnlessOverlapping
  <2> QED
    BY <2>1, <2>2, <2>3, <2>4, <2>5 DEF RunsInv
<1> QED
  BY <1>1, <1>2, ElapseKeeps DEF RunsNext, RunsStep

-----------------------------------------------------------------------------
\* The child assets of a pipeline's stages.
\* The assets one asset leads to: its children, and what deeper finds in each of them.
LEMMA DeeperElements ==
    ASSUME NEW deeper \in [DOMAIN Children -> Seq(DOMAIN Children)]
    PROVE  /\ WithChildren(deeper) \in [DOMAIN Children -> Seq(DOMAIN Children)]
           /\ \A a \in DOMAIN Children :
                ToSet(WithChildren(deeper)[a]) =
                  ToSet(Children[a]) \cup UNION {ToSet(deeper[c]) : c \in ToSet(Children[a])}
<1> DEFINE A == DOMAIN Children
           ChildLists(a) == [i \in DOMAIN Children[a] |-> <<Children[a][i]>> \o deeper[Children[a][i]]]
<1>1. ASSUME NEW a \in A
      PROVE  /\ FlattenSeq(ChildLists(a)) \in Seq(A)
             /\ ToSet(FlattenSeq(ChildLists(a))) =
                  ToSet(Children[a]) \cup UNION {ToSet(deeper[c]) : c \in ToSet(Children[a])}
  <2>1. PICK kids \in Seq(A) : kids = Children[a]
    BY RunsAssumption
  <2>2. DOMAIN kids = 1 .. Len(kids) /\ Len(kids) \in Nat /\ \A i \in DOMAIN kids : kids[i] \in A
    BY LenProperties, ElementOfSeq
  <2>3. PICK parts : parts = [i \in DOMAIN kids |-> <<kids[i]>> \o deeper[kids[i]]]
    OBVIOUS
  <2>4. ASSUME NEW i \in DOMAIN kids
        PROVE  parts[i] \in Seq(A) /\ ToSet(parts[i]) = {kids[i]} \cup ToSet(deeper[kids[i]])
    <3>1. PICK s : s = <<kids[i]>>
      OBVIOUS
    <3>2. s \in Seq(A) /\ ToSet(s) = {kids[i]} /\ deeper[kids[i]] \in Seq(A)
      BY <2>2, <3>1 DEF ToSet
    <3>3. parts[i] = s \o deeper[kids[i]]
      BY <2>3, <3>1
    <3> QED
      BY <3>2, <3>3, ConcatElements
  <2>5. parts \in Seq(Seq(A)) /\ DOMAIN parts = DOMAIN kids
    <3>1. parts \in [1 .. Len(kids) -> Seq(A)]
      BY <2>2, <2>3, <2>4
    <3> QED
      BY <3>1, <2>2, <2>3
  <2>6. /\ FlattenSeq(parts) \in Seq(A)
        /\ ToSet(FlattenSeq(parts)) = UNION {ToSet(parts[i]) : i \in DOMAIN kids}
    BY <2>5, FlatElements
  <2>7. ToSet(FlattenSeq(parts)) = ToSet(kids) \cup UNION {ToSet(deeper[c]) : c \in ToSet(kids)}
    <3>1. \A x : x \in ToSet(FlattenSeq(parts)) <=> \E i \in DOMAIN kids : x \in ToSet(parts[i])
      BY <2>6
    <3>2. \A x : x \in ToSet(kids) <=> \E i \in DOMAIN kids : x = kids[i]
      BY DEF ToSet
    <3>3. \A x : x \in UNION {ToSet(deeper[c]) : c \in ToSet(kids)} <=>
                   \E i \in DOMAIN kids : x \in ToSet(deeper[kids[i]])
      <4>1. \A x : x \in UNION {ToSet(deeper[c]) : c \in ToSet(kids)} <=>
                     \E c \in ToSet(kids) : x \in ToSet(deeper[c])
        OBVIOUS
      <4> QED
        BY <4>1, <3>2
    <3>4. \A i \in DOMAIN kids : \A x : x \in ToSet(parts[i]) <=> x = kids[i] \/ x \in ToSet(deeper[kids[i]])
      BY <2>4
    <3>5. PICK all, below : all = ToSet(FlattenSeq(parts)) /\ below = UNION {ToSet(deeper[c]) : c \in ToSet(kids)}
      OBVIOUS
    <3>6. \A x : x \in all <=> \E i \in DOMAIN kids : x = kids[i] \/ x \in ToSet(deeper[kids[i]])
      BY <3>1, <3>4, <3>5
    <3>7. \A x : x \in below <=> \E i \in DOMAIN kids : x \in ToSet(deeper[kids[i]])
      BY <3>3, <3>5
    <3>8. all = ToSet(kids) \cup below
      BY <3>2, <3>6, <3>7
    <3> QED
      BY <3>5, <3>8
  <2> QED
    BY <2>1, <2>3, <2>6, <2>7
<1>2. WithChildren(deeper) = [a \in A |-> FlattenSeq(ChildLists(a))]
  BY DEF WithChildren
<1> HIDE DEF ChildLists
<1> QED
  BY <1>1, <1>2

\* What a pipeline persists of child assets is what three levels of children hold.
LEMMA ChildStagesAreThreeLevels ==
    /\ ChildStages(RunAsset) \in Seq(DOMAIN Children)
    /\ LET level1 == ToSet(Children[RunAsset])
           level2 == UNION {ToSet(Children[a]) : a \in level1}
           level3 == UNION {ToSet(Children[a]) : a \in level2}
       IN  ToSet(ChildStages(RunAsset)) = level1 \cup level2 \cup level3
<1> DEFINE A == DOMAIN Children
           IsBelow(b) == b = [d \in 0 .. MaxChildDepth |->
                                IF d = 0 THEN [a \in DOMAIN Children |-> << >>] ELSE WithChildren(b[d - 1])]
<1>1. PICK b0 : b0 = [a \in A |-> << >>]
  OBVIOUS
<1>2. b0 \in [A -> Seq(A)]
  BY <1>1
<1>3. \A a \in A : ToSet(b0[a]) = {}
  BY <1>1 DEF ToSet
<1>4. PICK b1 \in [A -> Seq(A)] : b1 = WithChildren(b0)
  BY <1>2, DeeperElements
<1>5. PICK b2 \in [A -> Seq(A)] : b2 = WithChildren(b1)
  BY DeeperElements
<1>6. PICK b3 \in [A -> Seq(A)] : b3 = WithChildren(b2)
  BY DeeperElements
<1>7. \E b : IsBelow(b)
  <2>1. PICK b : b = [d \in 0 .. 3 |-> IF d = 0 THEN b0 ELSE IF d = 1 THEN b1 ELSE IF d = 2 THEN b2 ELSE b3]
    OBVIOUS
  <2>2. b[0] = b0 /\ b[1] = b1 /\ b[2] = b2 /\ b[3] = b3
    BY <2>1
  <2>3. \A d \in 0 .. 3 : b[d] = IF d = 0 THEN b0 ELSE WithChildren(b[d - 1])
    <3> SUFFICES ASSUME NEW d \in 0 .. 3 PROVE b[d] = IF d = 0 THEN b0 ELSE WithChildren(b[d - 1])
      OBVIOUS
    <3>1. d = 0 \/ d = 1 \/ d = 2 \/ d = 3
      OBVIOUS
    <3>2. 1 - 1 = 0 /\ 2 - 1 = 1 /\ 3 - 1 = 2
      OBVIOUS
    <3> QED
      BY <3>1, <3>2, <2>2, <1>4, <1>5, <1>6
  <2>4. b = [d \in 0 .. 3 |-> IF d = 0 THEN b0 ELSE WithChildren(b[d - 1])]
    BY <2>1, <2>3
  <2> QED
    BY <2>4, <1>1 DEF MaxChildDepth
<1> DEFINE below == CHOOSE b : IsBelow(b)
<1>8. IsBelow(below)
  BY <1>7, Zenon
<1>9. ChildStages(RunAsset) = below[MaxChildDepth][RunAsset]
  BY DEF ChildStages
<1> HIDE DEF below
<1>10. ChildStages(RunAsset) = b3[RunAsset]
  <2>1. \A d \in 0 .. 3 : below[d] = IF d = 0 THEN b0 ELSE WithChildren(below[d - 1])
    BY <1>8, <1>1 DEF MaxChildDepth
  <2>2. below[0] = b0
    BY <2>1
  <2>3. below[1] = b1
    <3>1. 1 \in 0 .. 3 /\ 1 # 0 /\ 1 - 1 = 0
      OBVIOUS
    <3> QED
      BY <2>1, <2>2, <3>1, <1>4
  <2>4. below[2] = b2
    <3>1. 2 \in 0 .. 3 /\ 2 # 0 /\ 2 - 1 = 1
      OBVIOUS
    <3> QED
      BY <2>1, <2>3, <3>1, <1>5
  <2>5. below[3] = b3
    <3>1. 3 \in 0 .. 3 /\ 3 # 0 /\ 3 - 1 = 2
      OBVIOUS
    <3> QED
      BY <2>1, <2>4, <3>1, <1>6
  <2> QED
    BY <2>5, <1>9 DEF MaxChildDepth
<1>11. RunAsset \in A /\ \A a \in A : ToSet(Children[a]) \subseteq A
  <2>1. ASSUME NEW a \in A PROVE ToSet(Children[a]) \subseteq A
    <3>1. Children[a] \in Seq(A)
      BY RunsAssumption
    <3> QED
      BY <3>1, LenProperties, ElementOfSeq DEF ToSet
  <2> QED
    BY <2>1, RunsAssumption
<1>12. PICK c : c = [a \in A |-> ToSet(Children[a])]
  OBVIOUS
<1>13. \A a \in A : c[a] = ToSet(Children[a]) /\ c[a] \subseteq A
  BY <1>11, <1>12
<1>14. \A a \in A : ToSet(b1[a]) = c[a]
  <2>1. \A a \in A : ToSet(b1[a]) = c[a] \cup UNION {ToSet(b0[k]) : k \in c[a]}
    BY <1>2, <1>4, <1>13, DeeperElements
  <2> SUFFICES ASSUME NEW a \in A PROVE ToSet(b1[a]) = c[a]
    OBVIOUS
  <2>2. \A k \in c[a] : ToSet(b0[k]) = {}
    BY <1>3, <1>13
  <2>3. PICK further : further = UNION {ToSet(b0[k]) : k \in c[a]}
    OBVIOUS
  <2>4. \A x : x \notin further
    BY <2>2, <2>3
  <2>5. ToSet(b1[a]) = c[a] \cup further
    BY <2>1, <2>3
  <2> QED
    BY <2>4, <2>5
<1>15. \A a \in A : ToSet(b2[a]) = c[a] \cup UNION {c[k] : k \in c[a]}
  <2>1. \A a \in A : ToSet(b2[a]) = c[a] \cup UNION {ToSet(b1[k]) : k \in c[a]}
    BY <1>5, <1>13, DeeperElements
  <2> QED
    BY <2>1, <1>13, <1>14, ZenonT(60)
<1>16. ToSet(b3[RunAsset]) =
         c[RunAsset] \cup (UNION {c[k] : k \in c[RunAsset]})
           \cup UNION {c[k] : k \in UNION {c[j] : j \in c[RunAsset]}}
  <2>1. ToSet(b3[RunAsset]) = c[RunAsset] \cup UNION {ToSet(b2[k]) : k \in c[RunAsset]}
    BY <1>6, <1>11, <1>13, DeeperElements
  <2>2. \A k \in c[RunAsset] : ToSet(b2[k]) = c[k] \cup UNION {c[j] : j \in c[k]}
    BY <1>11, <1>13, <1>15
  <2>3. UNION {ToSet(b2[k]) : k \in c[RunAsset]} = UNION {c[k] \cup UNION {c[j] : j \in c[k]} : k \in c[RunAsset]}
    BY <2>2
  <2>4. PICK kids : kids = c[RunAsset]
    OBVIOUS
  <2>5. UNION {c[k] \cup UNION {c[j] : j \in c[k]} : k \in kids} =
          (UNION {c[k] : k \in kids}) \cup UNION {c[k] : k \in UNION {c[j] : j \in kids}}
    <3>1. \A x : x \in UNION {c[k] \cup UNION {c[j] : j \in c[k]} : k \in kids} <=>
                   \E k \in kids : x \in c[k] \/ \E j \in c[k] : x \in c[j]
      OBVIOUS
    <3>2. \A x : x \in UNION {c[k] : k \in kids} <=> \E k \in kids : x \in c[k]
      OBVIOUS
    <3>3. \A x : x \in UNION {c[k] : k \in UNION {c[j] : j \in kids}} <=>
                   \E k \in kids : \E j \in c[k] : x \in c[j]
      OBVIOUS
    <3>4. PICK all, near, far :
            /\ all = UNION {c[k] \cup UNION {c[j] : j \in c[k]} : k \in kids}
            /\ near = UNION {c[k] : k \in kids}
            /\ far = UNION {c[k] : k \in UNION {c[j] : j \in kids}}
      OBVIOUS
    <3>5. all = near \cup far
      BY <3>1, <3>2, <3>3, <3>4
    <3> QED
      BY <3>4, <3>5
  <2>6. c[RunAsset] \cup ((UNION {c[k] : k \in kids}) \cup UNION {c[k] : k \in UNION {c[j] : j \in kids}}) =
          c[RunAsset] \cup (UNION {c[k] : k \in kids}) \cup UNION {c[k] : k \in UNION {c[j] : j \in kids}}
    OBVIOUS
  <2> QED
    BY <2>1, <2>3, <2>4, <2>5, <2>6
<1>17. \A a \in A : ToSet(Children[a]) = c[a]
  BY <1>13
<1> QED
  <2>1. c[RunAsset] \subseteq A /\ ToSet(Children[RunAsset]) = c[RunAsset]
    BY <1>11, <1>13
  <2>2. UNION {ToSet(Children[a]) : a \in c[RunAsset]} = UNION {c[a] : a \in c[RunAsset]}
    BY <2>1, <1>17
  <2>3. UNION {c[a] : a \in c[RunAsset]} \subseteq A
    BY <2>1, <1>13
  <2>4. UNION {ToSet(Children[a]) : a \in UNION {c[j] : j \in c[RunAsset]}} =
          UNION {c[a] : a \in UNION {c[j] : j \in c[RunAsset]}}
    BY <2>3, <1>17
  <2>5. b3[RunAsset] \in Seq(A)
    BY <1>11
  <2>6. PICK level1, level2, level3 :
          /\ level1 = ToSet(Children[RunAsset])
          /\ level2 = UNION {ToSet(Children[a]) : a \in level1}
          /\ level3 = UNION {ToSet(Children[a]) : a \in level2}
    OBVIOUS
  <2>7. level1 = c[RunAsset]
    BY <2>1, <2>6
  <2>8. level2 = UNION {c[a] : a \in c[RunAsset]}
    BY <2>2, <2>6, <2>7
  <2>9. level3 = UNION {c[a] : a \in UNION {c[j] : j \in c[RunAsset]}}
    BY <2>4, <2>6, <2>8
  <2>10. ToSet(ChildStages(RunAsset)) = level1 \cup level2 \cup level3
    <3>1. ToSet(ChildStages(RunAsset)) = ToSet(b3[RunAsset])
      BY <1>10
    <3> QED
      BY <2>7, <2>8, <2>9, <3>1, <1>16
  <2> QED
    BY <2>5, <2>6, <2>10, <1>10

-----------------------------------------------------------------------------
\* Where the invariant holds, the incidents follow the failures.
LEMMA CaughtRunsAreAnswered == RunsInv => IncidentsFollowFailures
<1> SUFFICES ASSUME RunsInv PROVE IncidentsFollowFailures
  OBVIOUS
<1>1. PICK caught :
        caught = {r \in ComponentRunIds :
                    runs[r].stage = "returned" /\ "failed" \in runs[r].traced /\ Recent(rowAt[r])}
  OBVIOUS
<1>2. ASSUME NEW n \in Nat, NEW severities, Answered(n, severities), Cardinality(caught) >= n
      PROVE  Covered(caught, severities)
  <2>1. PICK S : S = RecentUnanswered(n)
    OBVIOUS
  <2>2. caught \subseteq S /\ S \subseteq ComponentRunIds
    BY <1>1, <2>1 DEF RecentUnanswered, Unanswered
  <2>3. Cardinality(caught) <= Cardinality(S) /\ Cardinality(caught) \in Nat /\ Cardinality(S) \in Nat
    BY <2>2, RunsAssumption, FS_Subset, FS_CardinalityType
  <2>4. Covered(S, severities)
    BY <1>2, <2>1, <2>3 DEF Answered
  <2> QED
    BY <2>2, <2>4 DEF Covered
<1>3. HighThreshold \in Nat /\ CriticalThreshold \in Nat
  BY RunsAssumption
<1>4. Cardinality(caught) >= HighThreshold => Covered(caught, {"high", "critical"})
  BY <1>2, <1>3 DEF RunsInv, UnansweredAreFew
<1>5. Cardinality(caught) >= CriticalThreshold => Covered(caught, {"critical"})
  BY <1>2, <1>3 DEF RunsInv, UnansweredAreFew
<1>6. /\ \A i \in DOMAIN incidents :
           /\ CrossedBy(HighThreshold, incidents[i].at)
           /\ incidents[i].severity = "critical" => CrossedBy(CriticalThreshold, runClock)
      /\ ~runOverlap => \A i, j \in DOMAIN incidents : i < j => incidents[j].at > incidents[i].at + FailureWindow
  BY DEF RunsInv, CountsAreOfFailures, AloneUnlessOverlapping
<1> QED
  BY <1>1, <1>4, <1>5, <1>6 DEF IncidentsFollowFailures

\* The assets among a pipeline's stages are three levels of children.
LEMMA PipelinePersistsThreeLevels ==
    ASSUME componentKind = "pipeline"
    PROVE  LET level1 == ToSet(Children[RunAsset])
               level2 == UNION {ToSet(Children[a]) : a \in level1}
               level3 == UNION {ToSet(Children[a]) : a \in level2}
           IN  ToSet(WorkStages) \cap DOMAIN Children = level1 \cup level2 \cup level3
<1>1. PICK level1, level2, level3 :
        /\ level1 = ToSet(Children[RunAsset])
        /\ level2 = UNION {ToSet(Children[a]) : a \in level1}
        /\ level3 = UNION {ToSet(Children[a]) : a \in level2}
  OBVIOUS
<1>2. PICK kids : kids = ChildStages(RunAsset)
  OBVIOUS
<1>3. kids \in Seq(DOMAIN Children) /\ ToSet(kids) = level1 \cup level2 \cup level3
  BY <1>1, <1>2, ChildStagesAreThreeLevels
<1>4. PICK names : names = {"document", "records", "transforms", "chunks", "objects"}
  OBVIOUS
<1>5. PICK before, after : before = <<"document", "records">> /\ after = <<"transforms", "chunks", "objects">>
  OBVIOUS
<1>6. before \in Seq(names) /\ after \in Seq(names) /\ ToSet(before) \subseteq names /\ ToSet(after) \subseteq names
  BY <1>4, <1>5 DEF ToSet
<1>7. PICK all : all = names \cup DOMAIN Children
  OBVIOUS
<1>8. before \in Seq(all) /\ after \in Seq(all) /\ kids \in Seq(all)
  <2>1. names \subseteq all /\ DOMAIN Children \subseteq all
    BY <1>7
  <2> QED
    BY <2>1, <1>3, <1>6, LenProperties
<1>9. WorkStages = (before \o kids) \o after
  BY <1>2, <1>5 DEF WorkStages, PipelineStages
<1>10. ToSet(WorkStages) = (ToSet(before) \cup ToSet(kids)) \cup ToSet(after)
  <2>1. before \o kids \in Seq(all) /\ ToSet(before \o kids) = ToSet(before) \cup ToSet(kids)
    BY <1>8, ConcatElements
  <2>2. ToSet((before \o kids) \o after) = ToSet(before \o kids) \cup ToSet(after)
    <3>1. PICK most \in Seq(all) : most = before \o kids
      BY <2>1
    <3>2. ToSet(most \o after) = ToSet(most) \cup ToSet(after)
      BY <1>8, ConcatElements
    <3> QED
      BY <3>1, <3>2
  <2> QED
    BY <1>9, <2>1, <2>2
<1>11. ToSet(kids) \subseteq DOMAIN Children
  BY <1>3, LenProperties, ElementOfSeq DEF ToSet
<1>12. names \cap DOMAIN Children = {}
  BY <1>4, RunsAssumption
<1>13. ToSet(WorkStages) \cap DOMAIN Children = ToSet(kids)
  BY <1>6, <1>10, <1>11, <1>12
<1> QED
  BY <1>1, <1>3, <1>13

\* Where the invariant holds, the rows tell the truth.
LEMMA RowsAreTrue == RunsInv => RowTellsTruth
<1> SUFFICES ASSUME RunsInv PROVE RowTellsTruth
  OBVIOUS
<1>1. \A r \in ComponentRunIds :
        runs[r].stage = "returned" =>
          /\ runs[r].row = "failed" <=> "failed" \in runs[r].traced
          /\ runs[r].row # "failed" => runs[r].produced = Len(WorkStages)
  BY DEF RunsInv, RowFollowsStage, RowAgrees
<1>2. connection # "active" => \E r \in ComponentRunIds : runs[r].row \in {"degraded", "failed"}
  BY DEF RunsInv, ConnectionHasCause
<1> QED
  BY <1>1, <1>2, PipelinePersistsThreeLevels DEF RowTellsTruth

LEMMA RunsKeepInvariant == RunsSpec => []RunsInv
<1>1. RunsInit => RunsInv
  BY RunsInitially
<1>2. RunsInv /\ [RunsNext]_runsVars => RunsInv'
  BY RunsStepKeeps
<1> QED
  BY <1>1, <1>2, PTL DEF RunsSpec

\* Whatever the runs, their thresholds and the assets are, and however their failures
\* interleave, every run has a row, incidents are opened at the thresholds and no later than
\* the run that reaches them returns, and rows, traces and the connection's status agree
\* (runFunction, runAssetPipeline, runSync, maybeRaiseFailureIncident, failure-threshold.ts:20).
THEOREM FailuresAreAccountedFor == RunsSpec => []RunsAreAccountedFor
<1>1. RunsInv => RunsAreAccountedFor
  BY CaughtRunsAreAnswered, RowsAreTrue DEF RunsAreAccountedFor
<1> QED
  BY <1>1, RunsKeepInvariant, PTL

LEMMA RunsAreTyped == RunsInv => RunsTypeOK
<1> SUFFICES ASSUME RunsInv PROVE RunsTypeOK
  OBVIOUS
<1>1. Cardinality(ComponentRunIds) \in Nat
  BY CountsAreOfRuns
<1>2. ASSUME NEW r \in ComponentRunIds
      PROVE  /\ runs[r].row \in {"none", "running", "completed", "degraded", "failed"}
             /\ runs[r].produced \in Nat /\ runs[r].traced \subseteq {"completed", "failed"}
             /\ runs[r].seen \in 0 .. Cardinality(ComponentRunIds)
  BY <1>1 DEF RunsInv, RunsTyped, RunRecords, CountsAreOfFailures
<1>3. incidents \in Seq([severity : {"high", "critical"}, at : 0 .. runClock])
  <2>1. PICK Timed : Timed = [severity : {"high", "critical"}, at : 0 .. runClock]
    OBVIOUS
  <2>2. \A i \in DOMAIN incidents : incidents[i] \in Timed
    <3> SUFFICES ASSUME NEW i \in DOMAIN incidents PROVE incidents[i] \in Timed
      OBVIOUS
    <3>1. incidents[i] \in IncidentRecords
      BY ElementOfSeq DEF RunsInv, RunsTyped
    <3>2. runClock \in Nat /\ incidents[i].at <= runClock
      BY RunsAssumption DEF RunsInv, TimesPassed
    <3> QED
      BY <2>1, <3>1, <3>2 DEF IncidentRecords
  <2>3. incidents \in Seq(Timed)
    <3>1. DOMAIN incidents = 1 .. Len(incidents) /\ Len(incidents) \in Nat /\ incidents = [i \in 1 .. Len(incidents) |-> incidents[i]]
      BY DEF RunsInv, RunsTyped
    <3> QED
      BY <2>2, <3>1
  <2> QED
    BY <2>1, <2>3
<1> QED
  BY <1>2, <1>3 DEF RunsInv, RunsTyped, TimesPassed, RunsTypeOK

\* A run's count never runs ahead of the runs there are, and its row, its incidents and its
\* connection keep to the statuses the code writes.
THEOREM RunsTypeCorrect == RunsSpec => []RunsTypeOK
<1>1. RunsInv => RunsTypeOK
  BY RunsAreTyped
<1> QED
  BY <1>1, RunsKeepInvariant, PTL

-----------------------------------------------------------------------------
\* Agent runs. The state's types; a run without nodes neither checks nor executes one.
AgentTyped ==
    /\ agent \in Agents
    /\ agentRow \in {"none", "running", "completed", "failed"}
    /\ runAt \in {"start", "refused", "checking", "executing", "completing", "failing", "ended", "rejected"}
    /\ agent.nodes # << >> => node \in DOMAIN agent.nodes
    /\ runAt \in {"checking", "executing"} => agent.nodes # << >>
    /\ begun \in Seq(DOMAIN agent.nodes)
    /\ steps \in Seq(DOMAIN agent.nodes)
    /\ cost \in Nat
    /\ expired \in BOOLEAN
    /\ board \in [BoardPaths -> BoardValues \cup {Missing}]

\* The cycle guard knows every node that was begun, and so counts them.
GuardKnowsBegun ==
    /\ visited = ToSet(begun)
    /\ IsFiniteSet(visited)
    /\ Len(begun) = Cardinality(visited)
    /\ \A i, j \in DOMAIN begun : begun[i] = begun[j] => i = j
    /\ Len(begun) <= MaxSteps
    /\ FunctionCalls(begun) <= MaxFunctionCalls

CostIsChecked ==
    /\ cost <= MaxCost + 1
    /\ cost > MaxCost => runAt \in {"failing", "ended", "rejected"}

\* The record is of the nodes begun, but for the current one while it executes and when it
\* did not return.
RecordFollowsBegun ==
    /\ runAt \in {"start", "refused", "checking", "completing"} => steps = begun
    /\ runAt = "executing" => begun = Append(steps, node)
    /\ steps = begun \/ begun = Append(steps, node)
    /\ agentRow = "completed" => steps = begun /\ runAt \in {"failing", "ended", "rejected"}
    /\ outliving # {} =>
         outliving = {node} /\ begun = Append(steps, node) /\ runAt \in {"failing", "ended", "rejected"}

AgentInv == AgentTyped /\ GuardKnowsBegun /\ CostIsChecked /\ RecordFollowsBegun

LEMMA StartNodeIsANode ==
    ASSUME agent \in Agents, agent.nodes # << >>
    PROVE  StartNode \in DOMAIN agent.nodes
<1>1. PICK nodes : nodes = agent.nodes /\ nodes \in Seq(ToSet(nodes))
  BY AgentAssumption
<1>2. DOMAIN nodes = 1 .. Len(nodes) /\ Len(nodes) \in Nat /\ Len(nodes) # 0
  <2>1. DOMAIN nodes = 1 .. Len(nodes) /\ Len(nodes) \in Nat
    BY <1>1, LenProperties
  <2>2. Len(nodes) = 0 => nodes = << >>
    BY <1>1
  <2> QED
    BY <2>1, <2>2, <1>1
<1>3. PICK inputs : inputs = {i \in DOMAIN agent.nodes : agent.nodes[i].kind = "input"}
  OBVIOUS
<1>4. inputs \subseteq DOMAIN nodes /\ inputs \subseteq Nat
  BY <1>1, <1>2, <1>3
<1>5. StartNode = IF inputs = {} THEN 1 ELSE CHOOSE i \in inputs : \A j \in inputs : i <= j
  BY <1>3 DEF StartNode
<1>6. CASE inputs = {}
  BY <1>1, <1>2, <1>5, <1>6
<1>7. CASE inputs # {}
  <2>1. \E i \in inputs : \A j \in inputs : i <= j
    BY <1>4, <1>7, LeastNatural
  <2>2. (CHOOSE i \in inputs : \A j \in inputs : i <= j) \in inputs
    BY <2>1, Zenon
  <2> QED
    BY <2>2, <1>1, <1>4, <1>5, <1>7
<1> QED
  BY <1>6, <1>7

\* What one more node adds to the function calls.
LEMMA CallsOfOneMore ==
    ASSUME NEW seq \in Seq(DOMAIN agent.nodes), NEW n \in DOMAIN agent.nodes
    PROVE  /\ FunctionCalls(seq) \in Nat
           /\ FunctionCalls(Append(seq, n)) = FunctionCalls(seq) + (IF KindOf(n) = "function" THEN 1 ELSE 0)
<1>1. PICK calls : calls = {i \in DOMAIN seq : KindOf(seq[i]) = "function"}
  OBVIOUS
<1>2. DOMAIN seq = 1 .. Len(seq) /\ Len(seq) \in Nat
  BY LenProperties
<1>3. PICK more : more = Append(seq, n)
  OBVIOUS
<1>4. DOMAIN more = 1 .. Len(seq) + 1 /\ more[Len(seq) + 1] = n /\ \A i \in 1 .. Len(seq) : more[i] = seq[i]
  BY <1>2, <1>3
<1>5. IsFiniteSet(calls) /\ Len(seq) + 1 \notin calls
  <2>1. IsFiniteSet(1 .. Len(seq)) /\ calls \subseteq 1 .. Len(seq)
    BY <1>1, <1>2, FS_Interval
  <2>2. IsFiniteSet(calls)
    BY <2>1, FS_Subset
  <2>3. Len(seq) + 1 \notin 1 .. Len(seq)
    BY <1>2
  <2> QED
    BY <2>1, <2>2, <2>3
<1>6. PICK moreCalls : moreCalls = {i \in DOMAIN more : KindOf(more[i]) = "function"}
  OBVIOUS
<1>7. moreCalls = IF KindOf(n) = "function" THEN calls \cup {Len(seq) + 1} ELSE calls
  <2>1. \A i : i \in DOMAIN more <=> i \in DOMAIN seq \/ i = Len(seq) + 1
    BY <1>2, <1>4
  <2> QED
    BY <2>1, <1>1, <1>2, <1>4, <1>6
<1>8. FunctionCalls(seq) = Cardinality(calls) /\ FunctionCalls(more) = Cardinality(moreCalls)
  BY <1>1, <1>6 DEF FunctionCalls
<1>9. Cardinality(calls) \in Nat
  BY <1>5, FS_CardinalityType
<1>10. Cardinality(calls \cup {Len(seq) + 1}) = Cardinality(calls) + 1
  BY <1>5, FS_AddElement
<1> QED
  BY <1>3, <1>7, <1>8, <1>9, <1>10

LEMMA AgentStarts == AgentInit => AgentInv
<1> SUFFICES ASSUME AgentInit PROVE AgentInv
  OBVIOUS
<1>1. AgentTyped
  <2>1. agent.nodes # << >> => node \in DOMAIN agent.nodes
    BY StartNodeIsANode DEF AgentInit
  <2>2. begun \in Seq(DOMAIN agent.nodes) /\ steps \in Seq(DOMAIN agent.nodes)
    BY EmptySeq DEF AgentInit
  <2>3. board \in [BoardPaths -> BoardValues \cup {Missing}]
    BY DEF AgentInit
  <2> QED
    BY <2>1, <2>2, <2>3 DEF AgentInit, AgentTyped
<1>2. GuardKnowsBegun
  <2>1. begun = << >> /\ visited = {} /\ ToSet(<< >>) = {} /\ DOMAIN << >> = {} /\ Len(<< >>) = 0
    BY DEF AgentInit, ToSet
  <2>2. FunctionCalls(<< >>) = 0
    <3>1. {i \in DOMAIN << >> : KindOf((<< >>)[i]) = "function"} = {}
      BY <2>1
    <3> QED
      BY <3>1, FS_EmptySet DEF FunctionCalls
  <2>3. IsFiniteSet({}) /\ Cardinality({}) = 0
    BY FS_EmptySet
  <2> QED
    BY <2>1, <2>2, <2>3, AgentAssumption DEF GuardKnowsBegun
<1>3. CostIsChecked /\ RecordFollowsBegun
  BY AgentAssumption DEF AgentInit, CostIsChecked, RecordFollowsBegun
<1> QED
  BY <1>1, <1>2, <1>3 DEF AgentInv

\* A node begins within the budgets, once.
LEMMA BeginningKeepsGuard ==
    ASSUME AgentInv, BeginNode
    PROVE  GuardKnowsBegun'
<1>1. agent' = agent /\ node \in DOMAIN agent.nodes /\ begun \in Seq(DOMAIN agent.nodes)
  BY DEF AgentInv, AgentTyped, BeginNode
<1>2. FunctionCalls(begun)' = FunctionCalls(begun')
  BY <1>1 DEF FunctionCalls, KindOf
<1>3. CASE visited' = visited /\ begun' = begun
  BY <1>2, <1>3 DEF AgentInv, GuardKnowsBegun
<1>4. CASE ~OverBudget /\ visited' = visited \cup {node} /\ begun' = Append(begun, node)
  <2>1. DOMAIN begun = 1 .. Len(begun) /\ Len(begun) \in Nat
    BY <1>1, LenProperties
  <2>2. /\ DOMAIN begun' = 1 .. Len(begun) + 1 /\ Len(begun') = Len(begun) + 1
        /\ begun'[Len(begun) + 1] = node /\ \A i \in 1 .. Len(begun) : begun'[i] = begun[i]
    BY <1>1, <1>4, <2>1
  <2>3. visited' = ToSet(begun')
    <3>1. \A i : i \in 1 .. Len(begun) + 1 <=> i \in 1 .. Len(begun) \/ i = Len(begun) + 1
      BY <2>1
    <3>2. visited = {begun[i] : i \in 1 .. Len(begun)}
      BY <2>1 DEF AgentInv, GuardKnowsBegun, ToSet
    <3>3. ToSet(begun') = {begun'[i] : i \in 1 .. Len(begun) + 1}
      BY <2>2 DEF ToSet
    <3> QED
      BY <3>1, <3>2, <3>3, <2>2, <1>4
  <2>4. node \notin visited
    BY <1>4 DEF OverBudget
  <2>5. IsFiniteSet(visited') /\ Cardinality(visited') = Cardinality(visited) + 1
    BY <2>4, <1>4, FS_AddElement DEF AgentInv, GuardKnowsBegun
  <2>6. ASSUME NEW i \in 1 .. Len(begun) + 1, NEW j \in 1 .. Len(begun) + 1, begun'[i] = begun'[j]
        PROVE  i = j
    <3>1. \A k \in 1 .. Len(begun) : begun[k] # node
      BY <2>1, <2>4 DEF AgentInv, GuardKnowsBegun, ToSet
    <3>2. \A k \in 1 .. Len(begun) + 1 : k \in 1 .. Len(begun) \/ k = Len(begun) + 1
      BY <2>1
    <3>3. \A k, l \in 1 .. Len(begun) : begun[k] = begun[l] => k = l
      BY <2>1 DEF AgentInv, GuardKnowsBegun
    <3> QED
      BY <3>1, <3>2, <3>3, <2>2, <2>6
  <2>7. Len(begun') <= MaxSteps
    BY <2>1, <2>2, <1>4, AgentAssumption DEF OverBudget, AgentInv, GuardKnowsBegun
  <2>8. FunctionCalls(begun') <= MaxFunctionCalls
    <3>1. /\ FunctionCalls(begun) \in Nat
          /\ FunctionCalls(begun') = FunctionCalls(begun) + (IF KindOf(node) = "function" THEN 1 ELSE 0)
      BY <1>1, <1>4, CallsOfOneMore
    <3>2. FunctionCalls(begun) <= MaxFunctionCalls
      BY DEF AgentInv, GuardKnowsBegun
    <3>3. KindOf(node) = "function" => ~(FunctionCalls(begun) + 1 > MaxFunctionCalls)
      BY <1>4 DEF OverBudget
    <3> QED
      BY <3>1, <3>2, <3>3, AgentAssumption
  <2> QED
    BY <1>2, <2>2, <2>3, <2>5, <2>6, <2>7, <2>8 DEF AgentInv, GuardKnowsBegun
<1> QED
  BY <1>3, <1>4 DEF BeginNode

\* Nothing else touches the cycle guard and the nodes begun.
LEMMA GuardIsLeftAlone ==
    ASSUME GuardKnowsBegun, UNCHANGED <<agent, visited, begun>>
    PROVE  GuardKnowsBegun'
<1>1. FunctionCalls(begun)' = FunctionCalls(begun)
  BY DEF FunctionCalls, KindOf
<1> QED
  BY <1>1 DEF GuardKnowsBegun

LEMMA BeginningKeepsRest ==
    ASSUME AgentInv, BeginNode
    PROVE  AgentTyped' /\ CostIsChecked' /\ RecordFollowsBegun'
<1>1. /\ agent' = agent /\ agentRow' = agentRow /\ node' = node /\ steps' = steps /\ cost' = cost
      /\ board' = board /\ expired' = expired /\ outliving' = outliving
      /\ runAt = "checking" /\ node \in DOMAIN agent.nodes /\ steps = begun /\ agent.nodes # << >>
  BY DEF AgentInv, AgentTyped, RecordFollowsBegun, BeginNode
<1>2. \/ runAt' = "failing" /\ begun' = begun
      \/ runAt' = "executing" /\ begun' = Append(begun, node)
  BY DEF BeginNode
<1>3. begun' \in Seq(DOMAIN agent.nodes)
  BY <1>1, <1>2, SMTT(60) DEF AgentInv, AgentTyped
<1>4. AgentTyped'
  BY <1>1, <1>2, <1>3 DEF AgentInv, AgentTyped
<1>5. CostIsChecked'
  BY <1>1, <1>2 DEF AgentInv, CostIsChecked
<1>6. RecordFollowsBegun'
  BY <1>1, <1>2 DEF AgentInv, RecordFollowsBegun
<1> QED
  BY <1>4, <1>5, <1>6

LEMMA ReturningKeeps ==
    ASSUME AgentInv, NEW p \in BoardPaths, NEW value \in BoardValues, NEW spent \in {0, 1},
           NodeReturns(p, value, spent)
    PROVE  AgentInv'
<1>1. /\ UNCHANGED <<agent, agentRow, visited, begun, expired, outliving>>
      /\ runAt = "executing" /\ agent.nodes # << >> /\ node \in DOMAIN agent.nodes
      /\ steps' = Append(steps, node) /\ begun = Append(steps, node)
      /\ cost' = cost + spent
  BY DEF AgentInv, AgentTyped, RecordFollowsBegun, NodeReturns
<1>2. GuardKnowsBegun'
  BY <1>1, GuardIsLeftAlone DEF AgentInv
<1>3. PICK b : b = IF KindOf(node) = "function" THEN [board EXCEPT ![p] = value] ELSE board
  OBVIOUS
<1>4. b \in [BoardPaths -> BoardValues \cup {Missing}] /\ board' = b
  BY <1>3 DEF AgentInv, AgentTyped, NodeReturns
<1>5. NextNode(node, b) \subseteq DOMAIN agent.nodes
  BY DEF NextNode
<1>6. \/ cost + spent > MaxCost /\ runAt' = "failing" /\ node' = node
      \/ ~(cost + spent > MaxCost) /\ runAt' = "completing" /\ node' = node
      \/ ~(cost + spent > MaxCost) /\ runAt' = "checking" /\ node' \in DOMAIN agent.nodes
  BY <1>3, <1>5 DEF NodeReturns
<1>7. cost <= MaxCost /\ cost \in Nat /\ cost' \in Nat /\ cost' <= MaxCost + 1
  BY <1>1, AgentAssumption DEF AgentInv, AgentTyped, CostIsChecked
<1>8. AgentTyped'
  <2>1. steps' \in Seq(DOMAIN agent.nodes)
    BY <1>1 DEF AgentInv, AgentTyped
  <2> QED
    BY <2>1, <1>1, <1>4, <1>6, <1>7 DEF AgentInv, AgentTyped
<1>9. CostIsChecked'
  BY <1>1, <1>6, <1>7 DEF CostIsChecked
<1>10. RecordFollowsBegun'
  BY <1>1, <1>6 DEF AgentInv, RecordFollowsBegun
<1> QED
  BY <1>2, <1>8, <1>9, <1>10 DEF AgentInv

LEMMA AgentStepKeeps == AgentInv /\ [AgentNext]_agentVars => AgentInv'
<1> SUFFICES ASSUME AgentInv, [AgentNext]_agentVars PROVE AgentInv'
  OBVIOUS
<1>1. CASE BeginNode
  BY <1>1, BeginningKeepsGuard, BeginningKeepsRest DEF AgentInv
<1>2. CASE \E p \in BoardPaths, value \in BoardValues, spent \in {0, 1} : NodeReturns(p, value, spent)
  BY <1>2, ReturningKeeps
<1>3. ASSUME UNCHANGED <<agent, node, visited, steps, begun, cost, board>>,
             AgentTyped', CostIsChecked', RecordFollowsBegun'
      PROVE  AgentInv'
  BY <1>3, GuardIsLeftAlone DEF AgentInv
<1> USE DEF AgentInv, AgentTyped, CostIsChecked, RecordFollowsBegun
<1>4. CASE StartRun
  BY <1>3, <1>4 DEF StartRun
<1>5. CASE NodeThrows
  BY <1>3, <1>5 DEF NodeThrows
<1>6. CASE OutlivingEnds
  BY <1>3, <1>6 DEF OutlivingEnds
<1>7. CASE NodeTimesOut
  BY <1>3, <1>7 DEF NodeTimesOut
<1>8. CASE Expire
  BY <1>3, <1>8 DEF Expire
<1>9. CASE CompleteRun
  BY <1>3, <1>9 DEF CompleteRun
<1>10. CASE FailRun
  BY <1>3, <1>10 DEF FailRun
<1>11. CASE UNCHANGED agentVars
  BY <1>3, <1>11 DEF agentVars
<1> QED
  BY <1>1, <1>2, <1>4, <1>5, <1>6, <1>7, <1>8, <1>9, <1>10, <1>11 DEF AgentNext, AgentStep

\* Where the invariant holds, the record misses at most the node that was given up on.
LEMMA RecordMissesOne == AgentInv => RecordMissesAtMostOne
<1> SUFFICES ASSUME AgentInv PROVE RecordMissesAtMostOne
  OBVIOUS
<1>1. PICK N : N = DOMAIN agent.nodes
  OBVIOUS
<1>2. steps \in Seq(N) /\ begun \in Seq(N) /\ N \subseteq Nat \ {0}
  <2>1. PICK nodes : nodes = agent.nodes /\ nodes \in Seq(ToSet(nodes))
    BY AgentAssumption DEF AgentInv, AgentTyped
  <2>2. DOMAIN nodes = 1 .. Len(nodes)
    BY <2>1, LenProperties
  <2> QED
    BY <2>1, <2>2, <1>1 DEF AgentInv, AgentTyped
<1>3. DOMAIN steps = 1 .. Len(steps) /\ Len(steps) \in Nat
  BY <1>2, LenProperties
<1>4. steps = begun \/ (Len(begun) = Len(steps) + 1 /\ begun = Append(steps, node))
  BY <1>2 DEF AgentInv, RecordFollowsBegun
<1>5. IsPrefix(steps, begun) /\ Len(begun) - Len(steps) <= 1
  <2>1. CASE steps = begun
    BY <2>1, <1>3 DEF IsPrefix
  <2>2. CASE Len(begun) = Len(steps) + 1 /\ begun = Append(steps, node)
    <3>1. SubSeq(begun, 1, Len(steps)) = SubSeq(steps, 1, Len(steps))
      BY <2>2, <1>2, <1>3
    <3> QED
      BY <3>1, <2>2, <1>3 DEF IsPrefix
  <2> QED
    BY <2>1, <2>2, <1>4
<1>6. ASSUME NEW n \in outliving
      PROVE  n = Last(begun) /\ n # Last(<<0>> \o steps) /\ outliving = {n}
  <2>1. outliving = {node} /\ begun = Append(steps, node)
    BY <1>6 DEF AgentInv, RecordFollowsBegun
  <2>2. n = node
    BY <2>1
  <2>3. Len(begun) = Len(steps) + 1 /\ begun[Len(steps) + 1] = node
    BY <2>1, <1>2, <1>3
  <2>4. PICK zero : zero = <<0>>
    OBVIOUS
  <2>5. Last(zero \o steps) = IF steps = << >> THEN 0 ELSE steps[Len(steps)]
    <3>1. zero \in Seq(Nat) /\ Len(zero) = 1 /\ zero[1] = 0 /\ steps \in Seq(Nat)
      <4>1. zero \in Seq(Nat) /\ Len(zero) = 1 /\ zero[1] = 0
        BY <2>4
      <4>2. \A i \in 1 .. Len(steps) : steps[i] \in Nat
        BY <1>2, ElementOfSeq
      <4>3. steps \in Seq(Nat)
        BY <4>2, <1>2, <1>3, LenProperties
      <4> QED
        BY <4>1, <4>3
    <3>2. /\ Len(zero \o steps) = 1 + Len(steps)
          /\ \A i \in 1 .. 1 + Len(steps) : (zero \o steps)[i] = IF i <= 1 THEN zero[i] ELSE steps[i - 1]
      <4>1. /\ Len(zero \o steps) = Len(zero) + Len(steps)
            /\ \A i \in 1 .. Len(zero) + Len(steps) :
                 (zero \o steps)[i] = IF i <= Len(zero) THEN zero[i] ELSE steps[i - Len(zero)]
        BY <3>1, ConcatProperties, Zenon
      <4> QED
        BY <4>1, <3>1
    <3>3. steps = << >> <=> Len(steps) = 0
      BY <3>1
    <3> QED
      BY <3>1, <3>2, <3>3, <1>3 DEF Last
  <2>6. node # 0
    <3>1. node \in N
      BY <2>3, <1>2, ElementOfSeq, <1>3
    <3> QED
      BY <3>1, <1>2
  <2>7. steps # << >> => steps[Len(steps)] # node
    <3> SUFFICES ASSUME steps # << >> PROVE steps[Len(steps)] # node
      OBVIOUS
    <3>1. Len(steps) \in DOMAIN begun /\ Len(steps) + 1 \in DOMAIN begun /\ Len(steps) # Len(steps) + 1
      <4>1. Len(steps) # 0
        BY <1>2
      <4>2. DOMAIN begun = 1 .. Len(steps) + 1
        BY <2>3, <1>2, LenProperties
      <4>3. \A k \in Nat : k # 0 => k \in 1 .. k + 1 /\ k + 1 \in 1 .. k + 1 /\ k # k + 1
        OBVIOUS
      <4> QED
        BY <4>1, <4>2, <4>3, <1>3
    <3>2. begun[Len(steps)] # begun[Len(steps) + 1]
      BY <3>1 DEF AgentInv, GuardKnowsBegun
    <3>3. begun[Len(steps)] = steps[Len(steps)]
      <4>1. \A k \in 1 .. Len(steps) : Append(steps, node)[k] = steps[k]
        BY <1>2
      <4>2. Len(steps) \in 1 .. Len(steps)
        <5>1. Len(steps) # 0
          BY <1>2
        <5> QED
          BY <5>1, <1>3
      <4> QED
        BY <4>1, <4>2, <2>1
    <3> QED
      BY <3>2, <3>3, <2>3
  <2> QED
    BY <2>1, <2>2, <2>3, <2>4, <2>5, <2>6, <2>7 DEF Last
<1>7. Cardinality(outliving) <= 1
  <2>1. outliving = {} \/ \E n : outliving = {n}
    BY <1>6
  <2> QED
    BY <2>1, FS_EmptySet, FS_Singleton, SMTT(60)
<1>8. agentRow = "completed" => steps = begun
  BY DEF AgentInv, RecordFollowsBegun
<1> QED
  BY <1>5, <1>6, <1>7, <1>8 DEF RecordMissesAtMostOne

LEMMA AgentKeepsInvariant == AgentSpec => []AgentInv
<1>1. AgentInit => AgentInv
  BY AgentStarts
<1>2. AgentInv /\ [AgentNext]_agentVars => AgentInv'
  BY AgentStepKeeps
<1> QED
  BY <1>1, <1>2, PTL DEF AgentSpec

\* Whatever the graph, the budgets and the nodes' results are, an agent run stays within its
\* limits and its record accounts for every node begun but the one it gave up on (runAgent's
\* resource governance and withTimeout, agent-runner.ts:108).
THEOREM AgentsStayAccountable == AgentSpec => []AgentRunIsAccountedFor
<1>1. AgentInv => AgentRunIsAccountedFor
  BY RecordMissesOne DEF AgentRunIsAccountedFor, BudgetsHold, AgentInv, GuardKnowsBegun, CostIsChecked
<1> QED
  BY <1>1, AgentKeepsInvariant, PTL

LEMMA AgentsAreTyped == AgentInv => AgentTypeOK
<1> SUFFICES ASSUME AgentInv PROVE AgentTypeOK
  OBVIOUS
<1>1. visited \subseteq DOMAIN agent.nodes
  BY LenProperties, ElementOfSeq DEF AgentInv, AgentTyped, GuardKnowsBegun, ToSet
<1> QED
  BY <1>1 DEF AgentInv, AgentTyped, AgentTypeOK

\* An agent run's state keeps its types: the current node is one of the graph's.
THEOREM AgentTypeCorrect == AgentSpec => []AgentTypeOK
<1>1. AgentInv => AgentTypeOK
  BY AgentsAreTyped
<1> QED
  BY <1>1, AgentKeepsInvariant, PTL

-----------------------------------------------------------------------------
\* Inference. The records of a call, of a target's health and of the cache.
CallRecords(c) ==
    [phase : Phases, response : Responses \cup {NoResponse}, cached : BOOLEAN, at : DOMAIN Path[c],
     attempts : [DOMAIN Path[c] -> Nat], admittedAt : Nat]

HealthRecords == [samples : Seq(BOOLEAN), circuit : ObservedCircuit, status : HealthStatus]

CacheEntries == [key : {CacheKey(c) : c \in InferenceCalls}, response : Responses, expiresAt : Nat]

PipelineTyped ==
    /\ DOMAIN inference = InferenceCalls
    /\ \A c \in InferenceCalls : inference[c] \in CallRecords(c)
    /\ circuit \in [Targets -> Circuits]
    /\ health \in [Targets -> HealthRecords]
    /\ promptCache \in Seq(CacheEntries)
    /\ held \in [Targets -> Seq(InferenceCalls)]
    /\ clock \in Nat

\* What a call's record says of its way: before the breaker nothing was tried, the targets
\* past the primary are tried once its attempts are used up, and what is to be validated came
\* from the cache or from the current target.
CallFollows(c, x) ==
    /\ x.phase \in {"idle", "held", "secure", "completed", "failed"} \/ x.cached =>
         x.at = 1 /\ \A i \in DOMAIN Path[c] : x.attempts[i] = 0
    /\ x.cached => x.phase \in {"secure", "validate"} /\ x.response \in Responses
    /\ \A i \in DOMAIN Path[c] : x.attempts[i] <= MaxAttempts /\ (x.attempts[i] > 0 => i <= x.at)
    /\ x.at > 1 => x.attempts[1] = MaxAttempts
    /\ x.phase = "backoff" => x.attempts[x.at] < MaxAttempts
    /\ x.phase = "validate" => x.response \in Responses
    /\ x.phase = "validate" /\ ~x.cached => x.response.by = Path[c][x.at]
    /\ x.admittedAt <= clock

CallsFollow == \A c \in InferenceCalls : CallFollows(c, inference[c])

\* A forming batch holds calls that wait, each in the batch of its primary.
BatchesWait ==
    \A t \in Targets : \A i \in DOMAIN held[t] :
      inference[held[t][i]].phase = "held" /\ Primary(held[t][i]) = t

PipelineInv ==
    /\ PipelineTyped /\ CallsFollow /\ BatchesWait
    /\ OpenCircuitShieldsAndShows /\ CacheHoldsValidated

-----------------------------------------------------------------------------
\* The alternates are targets of the plan, in its order.
LEMMA AlternatesAsPlanned ==
    ASSUME NEW c \in InferenceCalls
    PROVE  /\ Plan[c] \in Seq(Targets) /\ Len(Plan[c]) \in Nat \ {0} /\ Primary(c) \in Targets
           /\ Alternates[c] \in Seq(Targets)
           /\ \A i \in 1 .. Len(Alternates[c]) :
                Alternates[c][i] # Primary(c) /\ \E k \in DOMAIN Plan[c] : Alternates[c][i] = Plan[c][k]
           /\ \A i, j \in 1 .. Len(Alternates[c]) : i < j => Planned(c, Alternates[c][i], Alternates[c][j])
<1>1. PICK plan \in Seq(Targets) : plan = Plan[c] /\ plan # << >>
  BY PipelineAssumption
<1>2. DOMAIN plan = 1 .. Len(plan) /\ Len(plan) \in Nat \ {0} /\ \A i \in 1 .. Len(plan) : plan[i] \in Targets
  BY LenProperties, ElementOfSeq, <1>1
<1>3. Primary(c) \in Targets
  BY <1>1, <1>2 DEF Primary
<1>4. PICK places : places = {i \in DOMAIN plan : plan[i] # Primary(c)}
  OBVIOUS
<1>5. PICK alternates : alternates = Kept(plan, places)
  OBVIOUS
<1>6. Alternates[c] = alternates
  BY <1>1, <1>4, <1>5 DEF Alternates
<1>7. places \subseteq 1 .. Len(plan) /\ {i \in 1 .. Len(plan) : i \in places} = places
  BY <1>2, <1>4
<1>8. alternates \in Seq(Targets) /\ PartOf(alternates, plan, places)
  BY <1>5, <1>7, KeptIsPart
<1>9. PICK from : Takes(alternates, plan, places, from, Len(alternates))
  BY <1>8 DEF PartOf
<1>10. /\ \A i \in 1 .. Len(alternates) : from[i] \in places /\ alternates[i] = plan[from[i]]
       /\ \A i, j \in 1 .. Len(alternates) : i < j => from[i] < from[j]
  BY <1>9 DEF Takes
<1>11. \A i \in 1 .. Len(alternates) :
         alternates[i] # Primary(c) /\ \E k \in DOMAIN plan : alternates[i] = plan[k]
  BY <1>4, <1>10
<1>12. \A i, j \in 1 .. Len(alternates) : i < j => Planned(c, alternates[i], alternates[j])
  BY <1>1, <1>4, <1>10 DEF Planned
<1> QED
  BY <1>1, <1>2, <1>3, <1>6, <1>8, <1>11, <1>12

\* What one provider of the policy's list lets in.
OneProvidersAsPlanned(c, p, some) ==
    /\ some \in Seq(Targets)
    /\ \A i \in 1 .. Len(some) :
         ProviderOf[some[i]] = p /\ \E k \in 1 .. Len(Alternates[c]) : some[i] = Alternates[c][k]
    /\ \A i, j \in 1 .. Len(some) : i < j => Planned(c, some[i], some[j])

LEMMA OneProviders ==
    ASSUME NEW c \in InferenceCalls, NEW p, NEW some, some = OfProvider(Alternates[c], p)
    PROVE  OneProvidersAsPlanned(c, p, some)
<1>1. PICK alternates \in Seq(Targets) : alternates = Alternates[c]
  BY AlternatesAsPlanned
<1>2. DOMAIN alternates = 1 .. Len(alternates)
  BY LenProperties
<1>3. PICK places : places = {i \in DOMAIN alternates : ProviderOf[alternates[i]] = p}
  OBVIOUS
<1>4. some = Kept(alternates, places)
  BY <1>1, <1>3 DEF OfProvider
<1>6. places \subseteq 1 .. Len(alternates) /\ {i \in 1 .. Len(alternates) : i \in places} = places
  BY <1>2, <1>3
<1>7. some \in Seq(Targets) /\ PartOf(some, alternates, places)
  BY <1>4, <1>6, KeptIsPart
<1>8. PICK from : Takes(some, alternates, places, from, Len(some))
  BY <1>7 DEF PartOf
<1>9. /\ \A i \in 1 .. Len(some) : from[i] \in places /\ some[i] = alternates[from[i]]
      /\ \A i, j \in 1 .. Len(some) : i < j => from[i] < from[j]
  BY <1>8 DEF Takes
<1>10. \A i, j \in 1 .. Len(some) : i < j => Planned(c, some[i], some[j])
  <2>1. \A k, l \in 1 .. Len(alternates) : k < l => Planned(c, alternates[k], alternates[l])
    BY <1>1, AlternatesAsPlanned
  <2> QED
    BY <1>6, <1>9, <2>1
<1>11. \A i \in 1 .. Len(some) :
         ProviderOf[some[i]] = p /\ \E k \in 1 .. Len(alternates) : some[i] = alternates[k]
  BY <1>3, <1>6, <1>9
<1> QED
  BY <1>1, <1>7, <1>10, <1>11 DEF OneProvidersAsPlanned

\* What the policy lets in, and in which order.
ChosenBy(c, t) ==
    /\ t # Primary(c) /\ \E k \in DOMAIN Plan[c] : t = Plan[c][k]
    /\ FallbackPolicy[c].providers = << >> \/ ProviderOf[t] \in ToSet(FallbackPolicy[c].providers)

LEMMA ChosenByPolicy ==
    ASSUME NEW c \in InferenceCalls
    PROVE  /\ Chosen(c) \in Seq(Targets)
           /\ \A i \in 1 .. Len(Chosen(c)) : ChosenBy(c, Chosen(c)[i])
           /\ \A i, j \in 1 .. Len(Chosen(c)) : i < j => TriedBefore(c, Chosen(c)[i], Chosen(c)[j])
<1>1. PICK listed \in Seq(Providers) : listed = FallbackPolicy[c].providers
  BY PipelineAssumption
<1>2. CASE listed = << >>
  <2>1. Chosen(c) = Alternates[c]
    BY <1>1, <1>2 DEF Chosen
  <2> QED
    BY <1>1, <1>2, <2>1, AlternatesAsPlanned DEF ChosenBy, TriedBefore
<1>3. CASE listed # << >>
  <2>1. PICK n \in Nat : n = Len(listed) /\ DOMAIN listed = 1 .. n
    BY LenProperties
  <2>2. PICK groups : groups = [k \in 1 .. n |-> OfProvider(Alternates[c], listed[k])]
    OBVIOUS
  <2>3. Chosen(c) = FlattenSeq(groups)
    BY <1>1, <1>3, <2>1, <2>2 DEF Chosen
  <2>10. ASSUME NEW k \in 1 .. n
         PROVE  /\ groups[k] \in Seq(Targets)
                /\ \A a \in 1 .. Len(groups[k]) :
                     /\ ProviderOf[groups[k][a]] = listed[k]
                     /\ \E i \in 1 .. Len(Alternates[c]) : groups[k][a] = Alternates[c][i]
                /\ \A a, b \in 1 .. Len(groups[k]) : a < b => Planned(c, groups[k][a], groups[k][b])
    <3>1. PICK p \in Providers : p = listed[k]
      BY <2>1
    <3>2. PICK group : group = OfProvider(Alternates[c], p)
      OBVIOUS
    <3>3. groups[k] = group
      BY <2>2, <3>1, <3>2
    <3>4. OneProvidersAsPlanned(c, p, group)
      BY <3>2, OneProviders
    <3> QED
      BY <3>1, <3>3, <3>4 DEF OneProvidersAsPlanned
  <2>4. groups \in Seq(Seq(Targets)) /\ Len(groups) = n
    <3>1. \A k \in 1 .. n : groups[k] \in Seq(Targets)
      BY <2>10
    <3> QED
      BY <2>2, <3>1
  <2>5. PICK chosen \in Seq(Targets) : chosen = FlattenSeq(groups)
    BY <2>4, FlatElements
  <2>6. OrderedBy(chosen, groups, n)
    BY <2>4, <2>5, FlatOrdered
  <2>7. ASSUME NEW k \in 1 .. n, NEW a \in 1 .. Len(groups[k])
        PROVE  ProviderOf[groups[k][a]] = listed[k] /\ ChosenBy(c, groups[k][a])
    <3>2. /\ ProviderOf[groups[k][a]] = listed[k]
          /\ \E i \in 1 .. Len(Alternates[c]) : groups[k][a] = Alternates[c][i]
      BY <2>10
    <3>3. groups[k][a] # Primary(c) /\ \E i \in DOMAIN Plan[c] : groups[k][a] = Plan[c][i]
      BY <3>2, AlternatesAsPlanned
    <3>4. listed[k] \in ToSet(listed)
      BY <2>1 DEF ToSet
    <3> QED
      BY <1>1, <3>2, <3>3, <3>4 DEF ChosenBy
  <2>8. \A i \in 1 .. Len(chosen) : ChosenBy(c, chosen[i])
    BY <2>6, <2>7 DEF OrderedBy
  <2>9. ASSUME NEW i \in 1 .. Len(chosen), NEW j \in 1 .. Len(chosen), i < j
        PROVE  TriedBefore(c, chosen[i], chosen[j])
    <3>1. PICK k \in 1 .. n, l \in 1 .. n : \E a \in 1 .. Len(groups[k]), b \in 1 .. Len(groups[l]) :
            k <= l /\ chosen[i] = groups[k][a] /\ chosen[j] = groups[l][b] /\ (k = l => a < b)
      BY <2>6, <2>9 DEF OrderedBy
    <3>2. PICK a \in 1 .. Len(groups[k]), b \in 1 .. Len(groups[l]) :
            k <= l /\ chosen[i] = groups[k][a] /\ chosen[j] = groups[l][b] /\ (k = l => a < b)
      BY <3>1
    <3>3. ProviderOf[chosen[i]] = listed[k] /\ ProviderOf[chosen[j]] = listed[l]
      BY <2>7, <3>2
    <3>4. k = l => Planned(c, chosen[i], chosen[j])
      BY <2>10, <3>2
    <3> QED
      BY <1>1, <1>3, <2>1, <3>2, <3>3, <3>4 DEF TriedBefore
  <2> QED
    BY <2>3, <2>5, <2>8, <2>9
<1> QED
  BY <1>2, <1>3

\* A path begins with the primary and goes on as the policy says.
LEMMA PathsFollowPolicy ==
    ASSUME NEW c \in InferenceCalls
    PROVE  /\ Path[c] \in Seq(Targets) /\ Len(Path[c]) \in Nat \ {0}
           /\ Len(Path[c]) <= 1 + FallbackPolicy[c].maxAttempts
           /\ DOMAIN Path[c] = 1 .. Len(Path[c]) /\ 1 \in DOMAIN Path[c]
           /\ Primary(c) \in Targets /\ Path[c][1] = Primary(c)
           /\ \A i \in 2 .. Len(Path[c]) : ChosenBy(c, Path[c][i])
           /\ \A i, j \in 2 .. Len(Path[c]) : i < j => TriedBefore(c, Path[c][i], Path[c][j])
<1>1. PICK chosen \in Seq(Targets) :
        /\ chosen = Chosen(c)
        /\ \A i \in 1 .. Len(chosen) : ChosenBy(c, chosen[i])
        /\ \A i, j \in 1 .. Len(chosen) : i < j => TriedBefore(c, chosen[i], chosen[j])
  BY ChosenByPolicy
<1>2. PICK most \in Nat : most = FallbackPolicy[c].maxAttempts
  BY PipelineAssumption
<1>3. PICK n : n = IF Len(chosen) < most THEN Len(chosen) ELSE most
  OBVIOUS
<1>4. n \in Nat /\ n <= Len(chosen) /\ n <= most /\ Len(chosen) \in Nat
  BY <1>3, LenProperties
<1>5. PICK rest \in Seq(Targets) :
        rest = SubSeq(chosen, 1, n) /\ Len(rest) = n /\ \A i \in 1 .. n : rest[i] = chosen[i]
  <2>1. \A i \in 1 .. n : i \in 1 .. Len(chosen) /\ chosen[i] \in Targets
    BY <1>4, ElementOfSeq, LenProperties
  <2>2. /\ SubSeq(chosen, 1, n) \in Seq(Targets) /\ Len(SubSeq(chosen, 1, n)) = n
        /\ \A i \in 1 .. n : SubSeq(chosen, 1, n)[i] = chosen[i]
    BY <2>1, <1>4, SubSeqProperties
  <2> QED
    BY <2>2
<1>6. Path[c] = <<Primary(c)>> \o rest
  BY <1>1, <1>2, <1>3, <1>5 DEF Path
<1>7. Primary(c) \in Targets
  BY AlternatesAsPlanned
<1>8. PICK first \in Seq(Targets) : first = <<Primary(c)>> /\ Len(first) = 1 /\ first[1] = Primary(c)
  <2>1. <<Primary(c)>> \in Seq(Targets) /\ Len(<<Primary(c)>>) = 1
    BY <1>7
  <2> QED
    BY <2>1
<1>9. PICK path : path = Path[c]
  OBVIOUS
<1>10. /\ path \in Seq(Targets) /\ Len(path) = 1 + n
       /\ \A i \in 1 .. 1 + n : path[i] = IF i <= 1 THEN first[i] ELSE rest[i - 1]
  BY <1>5, <1>6, <1>8, <1>9, ConcatProperties
<1>11. DOMAIN path = 1 .. 1 + n /\ 1 \in DOMAIN path /\ path[1] = Primary(c)
  BY <1>4, <1>8, <1>10, LenProperties
<1>12. \A i \in 2 .. 1 + n : path[i] = chosen[i - 1] /\ i - 1 \in 1 .. Len(chosen)
  <2>1. \A i \in 2 .. 1 + n : i \in 1 .. 1 + n /\ ~(i <= 1) /\ i - 1 \in 1 .. n /\ i - 1 \in 1 .. Len(chosen)
    BY <1>4
  <2> QED
    BY <1>5, <1>10, <2>1
<1>13. \A i, j \in 2 .. 1 + n : i < j => i - 1 < j - 1
  BY <1>4
<1>14. /\ \A i \in 2 .. 1 + n : ChosenBy(c, path[i])
       /\ \A i, j \in 2 .. 1 + n : i < j => TriedBefore(c, path[i], path[j])
  BY <1>1, <1>12, <1>13
<1>15. Len(path) \in Nat \ {0} /\ Len(path) <= 1 + most
  BY <1>4, <1>10
<1> QED
  BY <1>2, <1>7, <1>9, <1>10, <1>11, <1>14, <1>15

-----------------------------------------------------------------------------
\* What an event does to a health record, and a call to a circuit.
LEMMA StatusesAreStatuses ==
    ASSUME NEW prior, NEW samples, NEW observed
    PROVE  /\ EvaluateHealth(prior, samples, observed) \in HealthStatus
           /\ observed = "open" => EvaluateHealth(prior, samples, observed) = "unavailable"
BY Zenon DEF EvaluateHealth, HealthStatus

LEMMA CircuitEventsAreSeen ==
    ASSUME NEW h \in HealthRecords, NEW state \in ObservedCircuit
    PROVE  /\ AfterCircuitEvent(h, state) \in HealthRecords
           /\ AfterCircuitEvent(h, state).circuit = state
           /\ state = "open" => AfterCircuitEvent(h, state).status = "unavailable"
<1>1. PICK status \in HealthStatus : /\ status = EvaluateHealth(h.status, h.samples, state)
                                     /\ state = "open" => status = "unavailable"
  BY StatusesAreStatuses
<1>2. AfterCircuitEvent(h, state) = [samples |-> h.samples, circuit |-> state, status |-> status]
  BY <1>1 DEF AfterCircuitEvent, Refreshed
<1> QED
  BY <1>1, <1>2 DEF HealthRecords

LEMMA ExecutionsAreSampled ==
    ASSUME NEW h \in HealthRecords, NEW success \in BOOLEAN
    PROVE  /\ AfterExecution(h, success) \in HealthRecords
           /\ AfterExecution(h, success).circuit = h.circuit
           /\ h.circuit = "open" => AfterExecution(h, success).status = "unavailable"
<1>1. PICK all \in Seq(BOOLEAN) : all = Append(h.samples, success) /\ all # << >>
  <2>1. PICK samples \in Seq(BOOLEAN) : samples = h.samples
    BY DEF HealthRecords
  <2>2. Append(samples, success) \in Seq(BOOLEAN) /\ Append(samples, success) # << >>
    BY AppendProperties
  <2> QED
    BY <2>1, <2>2
<1>2. PICK kept \in Seq(BOOLEAN) : kept = IF Len(all) > ObservationWindow THEN Tail(all) ELSE all
  <2>1. Tail(all) \in Seq(BOOLEAN)
    BY <1>1, HeadTailProperties
  <2> QED
    BY <2>1
<1>3. PICK status \in HealthStatus : /\ status = EvaluateHealth(h.status, kept, h.circuit)
                                     /\ h.circuit = "open" => status = "unavailable"
  BY StatusesAreStatuses
<1>4. AfterExecution(h, success) = [samples |-> kept, circuit |-> h.circuit, status |-> status]
  BY <1>1, <1>2, <1>3 DEF AfterExecution, Refreshed
<1> QED
  BY <1>3, <1>4 DEF HealthRecords

LEMMA AdmissionHalfOpens ==
    ASSUME NEW r \in Circuits
    PROVE  /\ AfterAdmission(r) \in Circuits
           /\ AfterAdmission(r).state # "open"
           /\ r.state # "open" => AfterAdmission(r) = r
           /\ r.state = "open" => AfterAdmission(r).state = "half_open"
BY DEF AfterAdmission, Circuits

LEMMA SuccessNeverOpens ==
    ASSUME NEW r \in Circuits
    PROVE  /\ AfterSuccess(r) \in Circuits
           /\ AfterSuccess(r).openedAt = r.openedAt
           /\ AfterSuccess(r).state = r.state \/ (r.state = "half_open" /\ AfterSuccess(r).state = "closed")
<1> DEFINE n == AfterSuccess(r)
<1>1. PICK more \in Nat : more = r.successes + 1
  BY DEF Circuits
<1>2. CASE r.state # "half_open"
  <2>1. n = [r EXCEPT !.failures = 0]
    BY <1>2 DEF AfterSuccess
  <2> QED
    BY <2>1 DEF Circuits
<1>3. CASE r.state = "half_open" /\ more >= SuccessThreshold
  <2>1. n = [r EXCEPT !.state = "closed", !.failures = 0, !.successes = 0]
    BY <1>1, <1>3 DEF AfterSuccess
  <2> HIDE DEF n
  <2>2. n.state = "closed" /\ n.openedAt = r.openedAt
    BY <2>1 DEF Circuits
  <2>3. n \in Circuits
    BY <2>1 DEF Circuits
  <2> QED
    BY <1>3, <2>2, <2>3 DEF n
<1>4. CASE r.state = "half_open" /\ ~(more >= SuccessThreshold)
  <2>1. n = [r EXCEPT !.successes = more]
    BY <1>1, <1>4 DEF AfterSuccess
  <2> QED
    BY <1>1, <2>1 DEF Circuits
<1> QED
  BY <1>2, <1>3, <1>4

LEMMA FailureOpensNow ==
    ASSUME NEW r \in Circuits, NEW now \in Nat
    PROVE  /\ AfterFailure(r, now) \in Circuits
           /\ \/ AfterFailure(r, now).state = "open" /\ AfterFailure(r, now).openedAt = now
              \/ AfterFailure(r, now).state = r.state /\ AfterFailure(r, now).openedAt = r.openedAt
<1>1. FailureThreshold \in Nat
  BY CircuitAssumption
<1>2. PICK most \in Nat : most = IF r.failures > FailureThreshold THEN r.failures ELSE FailureThreshold
  BY <1>1 DEF Circuits
<1>3. PICK more \in Nat : more = r.failures + 1
  BY DEF Circuits
<1>4. \A n \in Nat : Opened(r, n, now) \in Circuits /\ Opened(r, n, now).state = "open" /\ Opened(r, n, now).openedAt = now
  BY DEF Opened, Circuits
<1>5. CASE r.state = "half_open"
  <2>1. AfterFailure(r, now) = Opened(r, most, now)
    BY <1>2, <1>5 DEF AfterFailure
  <2> QED
    BY <1>4, <2>1
<1>6. CASE r.state # "half_open" /\ more >= FailureThreshold
  <2>1. AfterFailure(r, now) = Opened(r, more, now)
    BY <1>3, <1>6 DEF AfterFailure
  <2> QED
    BY <1>4, <2>1
<1>7. CASE r.state # "half_open" /\ ~(more >= FailureThreshold)
  <2>1. AfterFailure(r, now) = [r EXCEPT !.failures = more]
    BY <1>3, <1>7 DEF AfterFailure
  <2> QED
    BY <1>3, <2>1 DEF Circuits
<1> QED
  BY <1>5, <1>6, <1>7


-----------------------------------------------------------------------------
\* The exact-match store, whatever its entries are. A key's entry is found where it is.
LEMMA KeyIsFound ==
    ASSUME NEW E, NEW cache \in Seq(E), NEW key, HasKey(cache, key)
    PROVE  /\ PlaceOf(cache, key) \in 1 .. Len(cache)
           /\ Entry(cache, key) = cache[PlaceOf(cache, key)]
           /\ Entry(cache, key).key = key
           /\ Entry(cache, key) \in E
<1>1. DOMAIN cache = 1 .. Len(cache)
  BY LenProperties
<1>2. PlaceOf(cache, key) \in DOMAIN cache /\ cache[PlaceOf(cache, key)].key = key
  BY Zenon DEF HasKey, PlaceOf
<1>3. Entry(cache, key) = cache[PlaceOf(cache, key)]
  BY DEF Entry
<1> QED
  BY <1>1, <1>2, <1>3, ElementOfSeq

\* What the removal of a key leaves: its other entries, in order.
LEMMA OthersAreLeft ==
    ASSUME NEW E, NEW cache \in Seq(E), DistinctKeys(cache), NEW key
    PROVE  /\ Without(cache, key) \in Seq(E) /\ DistinctKeys(Without(cache, key))
           /\ ~HasKey(Without(cache, key), key)
           /\ Len(Without(cache, key)) = IF HasKey(cache, key) THEN Len(cache) - 1 ELSE Len(cache)
<1>1. CASE ~HasKey(cache, key)
  <2>1. Without(cache, key) = cache
    BY <1>1 DEF Without
  <2> QED
    BY <1>1, <2>1
<1>2. CASE HasKey(cache, key)
  <2>1. PICK p \in 1 .. Len(cache) : p = PlaceOf(cache, key) /\ cache[p].key = key
    BY <1>2, KeyIsFound
  <2>2. PICK left : left = RemoveAt(cache, p)
    OBVIOUS
  <2>3. left = Without(cache, key)
    BY <1>2, <2>1, <2>2 DEF Without
  <2>4. PICK places \in SUBSET (1 .. Len(cache)) : places = (1 .. Len(cache)) \ {p}
    OBVIOUS
  <2>5. left \in Seq(E) /\ Len(left) = Len(cache) - 1 /\ PartOf(left, cache, places)
    BY <2>2, <2>4, RemovalIsPart
  <2>6. Len(left) \in Nat
    BY <2>5, LenProperties
  <2>7. DistinctKeys(left) /\ \A i \in 1 .. Len(left) : \E q \in places : left[i] = cache[q]
    BY <2>5, <2>6, PartsStayDistinct
  <2>8. \A i \in DOMAIN left : left[i].key # key
    <3>1. DOMAIN left = 1 .. Len(left)
      BY <2>5, LenProperties
    <3>2. \A q \in places : cache[q].key # key
      BY <2>1, <2>4 DEF DistinctKeys
    <3> QED
      BY <2>7, <3>1, <3>2
  <2> QED
    BY <1>2, <2>3, <2>5, <2>7, <2>8 DEF HasKey
<1> QED
  BY <1>1, <1>2

\* An entry of a key the store does not have may be added at its young end.
LEMMA EntriesAreAdded ==
    ASSUME NEW E, NEW cache \in Seq(E), DistinctKeys(cache), NEW e \in E, ~HasKey(cache, e.key)
    PROVE  /\ Append(cache, e) \in Seq(E) /\ DistinctKeys(Append(cache, e))
           /\ Len(Append(cache, e)) = Len(cache) + 1
<1>1. Len(cache) \in Nat /\ DOMAIN cache = 1 .. Len(cache)
  BY LenProperties
<1>2. PICK all : /\ all = Append(cache, e) /\ all \in Seq(E) /\ Len(all) = Len(cache) + 1
                 /\ all[Len(cache) + 1] = e
                 /\ \A i \in 1 .. Len(cache) : all[i] = cache[i]
  <2>1. /\ Append(cache, e) \in Seq(E) /\ Len(Append(cache, e)) = Len(cache) + 1
        /\ Append(cache, e)[Len(cache) + 1] = e
        /\ \A i \in 1 .. Len(cache) : Append(cache, e)[i] = cache[i]
    BY <1>1, AppendProperties
  <2> QED
    BY <2>1, Zenon
<1>3. \A i \in 1 .. Len(all) : i \in 1 .. Len(cache) \/ i = Len(cache) + 1
  BY <1>1, <1>2
<1>4. \A i \in 1 .. Len(cache) : cache[i].key # e.key
  BY <1>1 DEF HasKey
<1>5. DistinctKeys(all)
  BY <1>2, <1>3, <1>4 DEF DistinctKeys
<1> QED
  BY <1>2, <1>5

\* A lookup keeps the store as it should be, and what it hits is an entry of the key.
LEMMA LookupKeeps ==
    ASSUME NEW E, NEW cache \in Seq(E), DistinctKeys(cache), NEW key, NEW now
    PROVE  /\ AfterLookup(cache, key, now) \in Seq(E) /\ DistinctKeys(AfterLookup(cache, key, now))
           /\ Len(AfterLookup(cache, key, now)) <= Len(cache)
           /\ IsHit(cache, key, now) => Entry(cache, key) \in E /\ Entry(cache, key).key = key
<1>1. PICK rest : /\ rest = Without(cache, key)
                  /\ rest \in Seq(E) /\ DistinctKeys(rest) /\ ~HasKey(rest, key)
                  /\ Len(rest) = IF HasKey(cache, key) THEN Len(cache) - 1 ELSE Len(cache)
  BY OthersAreLeft
<1>2. Len(cache) \in Nat /\ Len(rest) \in Nat
  BY <1>1, LenProperties
<1>3. CASE ~IsHit(cache, key, now)
  <2>1. AfterLookup(cache, key, now) = rest
    BY <1>1, <1>3 DEF AfterLookup
  <2> QED
    BY <1>1, <1>2, <1>3, <2>1
<1>4. CASE IsHit(cache, key, now)
  <2>1. HasKey(cache, key)
    BY <1>4 DEF IsHit
  <2>2. PICK e \in E : e = Entry(cache, key) /\ e.key = key
    BY <2>1, KeyIsFound
  <2>3. AfterLookup(cache, key, now) = Append(rest, e)
    BY <1>1, <1>4, <2>2 DEF AfterLookup
  <2>4. Append(rest, e) \in Seq(E) /\ DistinctKeys(Append(rest, e)) /\ Len(Append(rest, e)) = Len(rest) + 1
    BY <1>1, <2>2, EntriesAreAdded
  <2> QED
    BY <1>1, <1>2, <2>1, <2>2, <2>3, <2>4
<1> QED
  BY <1>3, <1>4

\* An entry that is written takes the place of its key, if it has one.
LEMMA WritesKeep ==
    ASSUME NEW E, NEW cache \in Seq(E), DistinctKeys(cache), NEW e \in E
    PROVE  Written(cache, e) \in Seq(E) /\ DistinctKeys(Written(cache, e))
<1>1. CASE ~HasKey(cache, e.key)
  <2>1. Written(cache, e) = Append(cache, e)
    BY <1>1 DEF Written
  <2> QED
    BY <1>1, <2>1, EntriesAreAdded
<1>2. CASE HasKey(cache, e.key)
  <2>1. PICK p \in 1 .. Len(cache) : p = PlaceOf(cache, e.key) /\ cache[p].key = e.key
    BY <1>2, KeyIsFound
  <2>2. PICK all : /\ all = [cache EXCEPT ![p] = e] /\ all \in Seq(E) /\ Len(all) = Len(cache)
                   /\ \A i \in 1 .. Len(cache) : all[i] = IF i = p THEN e ELSE cache[i]
    <3>1. /\ [cache EXCEPT ![p] = e] \in Seq(E) /\ Len([cache EXCEPT ![p] = e]) = Len(cache)
          /\ \A i \in 1 .. Len(cache) : [cache EXCEPT ![p] = e][i] = IF i = p THEN e ELSE cache[i]
      BY ExceptSeq
    <3> QED
      BY <3>1, Zenon
  <2>3. Written(cache, e) = all
    BY <1>2, <2>1, <2>2 DEF Written
  <2>4. \A i \in 1 .. Len(all) : all[i].key = cache[i].key
    BY <2>1, <2>2
  <2>5. DistinctKeys(all)
    BY <2>2, <2>4 DEF DistinctKeys
  <2> QED
    BY <2>2, <2>3, <2>5
<1> QED
  BY <1>1, <1>2

\* Eviction leaves the youngest entries, as many as the capacity has room for.
LEMMA EvictionKeeps ==
    ASSUME NEW E, NEW cache \in Seq(E), NEW capacity \in Nat
    PROVE  /\ Evicted(cache, capacity) \in Seq(E) /\ Len(Evicted(cache, capacity)) <= capacity
           /\ DistinctKeys(cache) => DistinctKeys(Evicted(cache, capacity))
<1>1. Len(cache) \in Nat
  BY LenProperties
<1>2. CASE Len(cache) > capacity
  <2>1. PICK a \in 1 .. Len(cache) + 1 : a = Len(cache) - capacity + 1
    BY <1>1, <1>2
  <2>2. PICK b \in a - 1 .. Len(cache) : b = Len(cache)
    BY <1>1, <2>1
  <2>3. PICK kept : kept = SubSeq(cache, a, b)
    OBVIOUS
  <2>4. kept \in Seq(E) /\ Len(kept) = b - a + 1 /\ PartOf(kept, cache, a .. b)
    BY <2>3, StretchIsPart
  <2>5. b - a + 1 = capacity /\ a .. b \in SUBSET (1 .. Len(cache))
    BY <1>1, <2>1, <2>2
  <2>6. DistinctKeys(cache) => DistinctKeys(kept)
    BY <2>4, <2>5, PartsStayDistinct
  <2>7. Evicted(cache, capacity) = kept
    BY <1>2, <2>1, <2>2, <2>3 DEF Evicted
  <2> QED
    BY <2>4, <2>5, <2>6, <2>7
<1>3. CASE ~(Len(cache) > capacity)
  BY <1>1, <1>3 DEF Evicted
<1> QED
  BY <1>2, <1>3

LEMMA StoreKeeps ==
    ASSUME NEW E, NEW cache \in Seq(E), DistinctKeys(cache), NEW key, NEW response, NEW now, NEW ttl,
           NEW capacity \in Nat, [key |-> key, response |-> response, expiresAt |-> now + ttl] \in E
    PROVE  LET after == AfterStore(cache, key, response, now, ttl, capacity)
           IN  after \in Seq(E) /\ DistinctKeys(after) /\ Len(after) <= capacity
<1>1. PICK e \in E : e = [key |-> key, response |-> response, expiresAt |-> now + ttl]
  OBVIOUS
<1>2. PICK all : all = Written(cache, e) /\ all \in Seq(E) /\ DistinctKeys(all)
  BY WritesKeep
<1>3. AfterStore(cache, key, response, now, ttl, capacity) = Evicted(all, capacity)
  BY <1>1, <1>2 DEF AfterStore
<1> QED
  BY <1>2, <1>3, EvictionKeeps

-----------------------------------------------------------------------------
\* The pipeline's cache. An entry as CacheHoldsValidated has it, and a cache of such entries.
Validated(e) ==
    /\ e.response.valid
    /\ \E c \in InferenceCalls : e.key = CacheKey(c) /\ \E k \in DOMAIN Path[c] : e.response.by = Path[c][k]

ValidEntries == {e \in CacheEntries : Validated(e)}

Sound(cache) == cache \in Seq(ValidEntries) /\ DistinctKeys(cache)

LEMMA CacheIsSound ==
    promptCache \in Seq(CacheEntries) => (CacheHoldsValidated <=> Sound(promptCache))
<1> SUFFICES ASSUME promptCache \in Seq(CacheEntries) PROVE CacheHoldsValidated <=> Sound(promptCache)
  OBVIOUS
<1>1. DOMAIN promptCache = 1 .. Len(promptCache) /\ Len(promptCache) \in Nat
  BY LenProperties
<1>2. (\A i \in 1 .. Len(promptCache) : Validated(promptCache[i])) <=> promptCache \in Seq(ValidEntries)
  <2>1. \A i \in 1 .. Len(promptCache) : promptCache[i] \in CacheEntries
    BY ElementOfSeq
  <2>2. ASSUME \A i \in 1 .. Len(promptCache) : Validated(promptCache[i]) PROVE promptCache \in Seq(ValidEntries)
    <3>1. promptCache = [i \in 1 .. Len(promptCache) |-> promptCache[i]]
      BY LenProperties
    <3>2. \A i \in 1 .. Len(promptCache) : promptCache[i] \in ValidEntries
      BY <2>1, <2>2 DEF ValidEntries
    <3>3. promptCache \in [1 .. Len(promptCache) -> ValidEntries]
      BY <3>1, <3>2
    <3> QED
      BY <1>1, <3>3, SeqDef
  <2>3. ASSUME promptCache \in Seq(ValidEntries), NEW i \in 1 .. Len(promptCache) PROVE Validated(promptCache[i])
    <3>1. promptCache[i] \in ValidEntries
      BY <2>3, ElementOfSeq
    <3> QED
      BY <3>1 DEF ValidEntries
  <2> QED
    BY <2>2, <2>3
<1> QED
  BY <1>1, <1>2, Zenon DEF CacheHoldsValidated, Sound, Validated, DistinctKeys

LEMMA SoundEntries ==
    ASSUME NEW cache, Sound(cache)
    PROVE  cache \in Seq(CacheEntries)
<1>1. ValidEntries \subseteq CacheEntries
  BY DEF ValidEntries
<1> QED
  BY <1>1, SeqMonotonic DEF Sound

LEMMA LookupKeepsSound ==
    ASSUME NEW cache, Sound(cache), NEW key, NEW now
    PROVE  /\ Sound(AfterLookup(cache, key, now))
           /\ IsHit(cache, key, now) => Entry(cache, key).response \in Responses
<1>1. /\ Sound(AfterLookup(cache, key, now))
      /\ IsHit(cache, key, now) => Entry(cache, key) \in ValidEntries
  BY LookupKeeps DEF Sound
<1> QED
  BY <1>1 DEF ValidEntries, CacheEntries

LEMMA StoreKeepsSound ==
    ASSUME NEW cache, Sound(cache), NEW c \in InferenceCalls, NEW response \in Responses, NEW now \in Nat,
           response.valid, \E k \in DOMAIN Path[c] : response.by = Path[c][k]
    PROVE  /\ Sound(AfterStore(cache, CacheKey(c), response, now, Ttl, MaxEntries))
           /\ Len(AfterStore(cache, CacheKey(c), response, now, Ttl, MaxEntries)) <= MaxEntries
<1>1. MaxEntries \in Nat /\ now + Ttl \in Nat
  BY PipelineAssumption
<1>2. PICK e : e = [key |-> CacheKey(c), response |-> response, expiresAt |-> now + Ttl]
  OBVIOUS
<1>3. e \in ValidEntries
  BY <1>1, <1>2 DEF ValidEntries, Validated, CacheEntries
<1> QED
  BY <1>1, <1>2, <1>3, StoreKeeps DEF Sound


-----------------------------------------------------------------------------
\* What a step owes the invariant. A health record that agrees with its circuit.
Agrees(r, h) ==
    /\ r.state = "open" <=> h.circuit = "open"
    /\ r.state = "open" => h.status = "unavailable"

CallsAreSound(calls) ==
    /\ DOMAIN calls = InferenceCalls
    /\ \A c \in InferenceCalls : calls[c] \in CallRecords(c) /\ CallFollows(c, calls[c])

LEMMA CallsAreSoundNow ==
    ASSUME PipelineInv
    PROVE  CallsAreSound(inference)
BY DEF PipelineInv, PipelineTyped, CallsFollow, CallsAreSound

LEMMA CallFollowsLater ==
    ASSUME NEW c \in InferenceCalls, NEW x, CallFollows(c, x), clock' = clock
    PROVE  CallFollows(c, x)'
BY Zenon DEF CallFollows

LEMMA SoundStaysValidated ==
    ASSUME Sound(promptCache')
    PROVE  CacheHoldsValidated'
<1>1. PICK cache : cache = promptCache' /\ Sound(cache)
  OBVIOUS
<1>2. /\ DOMAIN cache = 1 .. Len(cache)
      /\ \A i \in 1 .. Len(cache) : Validated(cache[i])
      /\ \A i, j \in 1 .. Len(cache) : cache[i].key = cache[j].key => i = j
  <2>1. cache \in Seq(ValidEntries)
    BY <1>1 DEF Sound
  <2>2. DOMAIN cache = 1 .. Len(cache) /\ \A i \in 1 .. Len(cache) : cache[i] \in ValidEntries
    BY <2>1, LenProperties, ElementOfSeq
  <2> QED
    BY <1>1, <2>2 DEF Sound, DistinctKeys, ValidEntries
<1> QED
  BY <1>1, <1>2, ZenonT(60) DEF CacheHoldsValidated, Validated

\* One call moves, and with it the circuit and the health of its primary.
LEMMA CallMoves ==
    ASSUME PipelineInv, NEW c \in InferenceCalls, NEW x \in CallRecords(c), CallFollows(c, x),
           NEW r \in Circuits, NEW h \in HealthRecords, Agrees(r, h),
           inference[c].phase # "held",
           r.state = "open" =>
             r.openedAt = clock \/ (circuit[Primary(c)].state = "open" /\ r.openedAt = circuit[Primary(c)].openedAt),
           x.phase \in {"invoking", "backoff"} =>
             r.state # "open" \/ (inference[c].phase \in {"invoking", "backoff"} /\ x.admittedAt = inference[c].admittedAt),
           inference' = [inference EXCEPT ![c] = x],
           circuit' = [circuit EXCEPT ![Primary(c)] = r],
           health' = [health EXCEPT ![Primary(c)] = h],
           Sound(promptCache'), held' = held, clock' = clock
    PROVE  PipelineInv'
<1>1. Primary(c) \in Targets /\ \A d \in InferenceCalls : Primary(d) \in Targets
  BY PathsFollowPolicy
<1>2. /\ DOMAIN inference = InferenceCalls /\ circuit \in [Targets -> Circuits] /\ health \in [Targets -> HealthRecords]
      /\ held \in [Targets -> Seq(InferenceCalls)] /\ clock \in Nat
      /\ \A d \in InferenceCalls : inference[d] \in CallRecords(d) /\ CallFollows(d, inference[d])
  BY DEF PipelineInv, PipelineTyped, CallsFollow
<1>3. /\ DOMAIN inference' = InferenceCalls /\ inference'[c] = x
      /\ \A d \in InferenceCalls \ {c} : inference'[d] = inference[d]
  BY <1>2
<1>4. /\ circuit' \in [Targets -> Circuits] /\ health' \in [Targets -> HealthRecords]
      /\ circuit'[Primary(c)] = r /\ health'[Primary(c)] = h
      /\ \A t \in Targets \ {Primary(c)} : circuit'[t] = circuit[t] /\ health'[t] = health[t]
  BY <1>1, <1>2
<1>5. PipelineTyped'
  <2>1. \A d \in InferenceCalls : inference'[d] \in CallRecords(d)
    BY <1>2, <1>3
  <2>2. promptCache' \in Seq(CacheEntries)
    BY SoundEntries
  <2> QED
    BY <1>2, <1>3, <1>4, <2>1, <2>2 DEF PipelineTyped
<1>6. CallsFollow'
  <2> SUFFICES ASSUME NEW d \in InferenceCalls PROVE CallFollows(d, inference[d])'
    BY DEF CallsFollow
  <2>1. PICK y : y = inference'[d] /\ CallFollows(d, y)
    BY <1>2, <1>3
  <2>2. CallFollows(d, y)'
    BY <2>1, CallFollowsLater
  <2> QED
    BY <2>1, <2>2
<1>7. BatchesWait'
  <2> SUFFICES ASSUME NEW t \in Targets, NEW i \in DOMAIN held[t]
               PROVE  inference'[held[t][i]].phase = "held" /\ Primary(held[t][i]) = t
    BY DEF BatchesWait
  <2>1. inference[held[t][i]].phase = "held" /\ Primary(held[t][i]) = t
    BY DEF PipelineInv, BatchesWait
  <2>2. held[t][i] \in InferenceCalls
    BY <1>2, LenProperties, ElementOfSeq
  <2> QED
    BY <1>3, <2>1, <2>2
<1>8. OpenCircuitShields'
  <2> SUFFICES ASSUME NEW d \in InferenceCalls, inference'[d].phase \in {"invoking", "backoff"},
                      circuit'[Primary(d)].state = "open"
               PROVE  inference'[d].admittedAt <= circuit'[Primary(d)].openedAt
    BY DEF OpenCircuitShields
  <2>1. \A e \in InferenceCalls : inference[e].phase \in {"invoking", "backoff"} /\ circuit[Primary(e)].state = "open"
                                    => inference[e].admittedAt <= circuit[Primary(e)].openedAt
    BY DEF PipelineInv, OpenCircuitShieldsAndShows, OpenCircuitShields
  <2>2. inference[d].admittedAt <= clock /\ inference[c].admittedAt <= clock /\ x.admittedAt <= clock
    BY <1>2 DEF CallFollows
  <2>3. inference[d].phase \in {"invoking", "backoff"} /\ inference'[d].admittedAt = inference[d].admittedAt
    <3>1. CASE d = c
      BY <1>3, <1>4, <3>1
    <3>2. CASE d # c
      BY <1>3, <3>2
    <3> QED
      BY <3>1, <3>2
  <2>4. CASE Primary(d) # Primary(c)
    BY <1>1, <1>4, <2>1, <2>3, <2>4
  <2>5. CASE Primary(d) = Primary(c)
    BY <1>4, <2>1, <2>2, <2>3, <2>5
  <2> QED
    BY <2>4, <2>5
<1>9. HealthFollowsCircuit'
  <2> SUFFICES ASSUME NEW t \in Targets PROVE Agrees(circuit'[t], health'[t])
    BY DEF HealthFollowsCircuit, Agrees
  <2>1. Agrees(circuit[t], health[t])
    BY DEF PipelineInv, OpenCircuitShieldsAndShows, HealthFollowsCircuit, Agrees
  <2> QED
    BY <1>4, <2>1
<1>10. CacheHoldsValidated'
  BY SoundStaysValidated
<1> QED
  BY <1>5, <1>6, <1>7, <1>8, <1>9, <1>10 DEF PipelineInv, OpenCircuitShieldsAndShows

\* Calls move before the breaker: into a batch, or out of one.
LEMMA CallsMoveQuietly ==
    ASSUME PipelineInv, NEW calls, CallsAreSound(calls),
           \A c \in InferenceCalls : calls[c].phase \in {"invoking", "backoff"} => calls[c] = inference[c],
           NEW batches \in [Targets -> Seq(InferenceCalls)],
           \A t \in Targets : \A i \in DOMAIN batches[t] :
             calls[batches[t][i]].phase = "held" /\ Primary(batches[t][i]) = t,
           inference' = calls, held' = batches, circuit' = circuit, health' = health, clock' = clock,
           Sound(promptCache')
    PROVE  PipelineInv'
<1>1. PipelineTyped'
  <2>1. promptCache' \in Seq(CacheEntries)
    BY SoundEntries
  <2> QED
    BY <2>1 DEF PipelineTyped, PipelineInv, CallsAreSound
<1>2. CallsFollow'
  <2> SUFFICES ASSUME NEW d \in InferenceCalls PROVE CallFollows(d, inference[d])'
    BY DEF CallsFollow
  <2>1. PICK y : y = calls[d] /\ CallFollows(d, y)
    BY DEF CallsAreSound
  <2>2. CallFollows(d, y)'
    BY <2>1, CallFollowsLater
  <2> QED
    BY <2>1, <2>2
<1>3. BatchesWait'
  BY DEF BatchesWait
<1>4. OpenCircuitShields'
  BY DEF OpenCircuitShields, PipelineInv, OpenCircuitShieldsAndShows
<1>5. HealthFollowsCircuit'
  BY DEF HealthFollowsCircuit, PipelineInv, OpenCircuitShieldsAndShows
<1>6. CacheHoldsValidated'
  BY SoundStaysValidated
<1> QED
  BY <1>1, <1>2, <1>3, <1>4, <1>5, <1>6 DEF PipelineInv, OpenCircuitShieldsAndShows


\* What the invariant says of one call, and of its primary.
LEMMA OneCall ==
    ASSUME PipelineInv, NEW c \in InferenceCalls
    PROVE  /\ Primary(c) \in Targets /\ 1 \in DOMAIN Path[c]
           /\ inference[c] \in CallRecords(c) /\ CallFollows(c, inference[c])
           /\ circuit[Primary(c)] \in Circuits /\ health[Primary(c)] \in HealthRecords
           /\ Agrees(circuit[Primary(c)], health[Primary(c)])
           /\ circuit = [circuit EXCEPT ![Primary(c)] = circuit[Primary(c)]]
           /\ health = [health EXCEPT ![Primary(c)] = health[Primary(c)]]
           /\ Sound(promptCache) /\ clock \in Nat
<1>1. Primary(c) \in Targets /\ 1 \in DOMAIN Path[c]
  BY PathsFollowPolicy
<1>2. /\ circuit \in [Targets -> Circuits] /\ health \in [Targets -> HealthRecords] /\ clock \in Nat
      /\ inference[c] \in CallRecords(c) /\ CallFollows(c, inference[c])
      /\ promptCache \in Seq(CacheEntries)
  BY DEF PipelineInv, PipelineTyped, CallsFollow
<1>3. Agrees(circuit[Primary(c)], health[Primary(c)])
  BY <1>1 DEF PipelineInv, OpenCircuitShieldsAndShows, HealthFollowsCircuit, Agrees
<1>4. Sound(promptCache)
  BY <1>2, CacheIsSound DEF PipelineInv
<1> QED
  BY <1>1, <1>2, <1>3, <1>4

\* A call that has not begun, or that returned.
LEMMA IdleCallsAreSound ==
    ASSUME NEW c \in InferenceCalls, clock \in Nat
    PROVE  /\ IdleCall(c) \in CallRecords(c) /\ IdleCall(c).phase = "idle"
           /\ CallFollows(c, IdleCall(c))
           /\ \A phase \in {"completed", "failed"} :
                /\ Ended(c, phase) \in CallRecords(c) /\ Ended(c, phase).phase = phase
                /\ CallFollows(c, Ended(c, phase))
<1>1. 1 \in DOMAIN Path[c] /\ MaxAttempts \in Nat
  BY PathsFollowPolicy, PipelineAssumption
<1>2. PICK none \in [DOMAIN Path[c] -> Nat] : none = [i \in DOMAIN Path[c] |-> 0]
  OBVIOUS
<1>3. PICK idle : /\ idle = [phase |-> "idle", response |-> NoResponse, cached |-> FALSE, at |-> 1,
                             attempts |-> none, admittedAt |-> 0]
                  /\ idle = IdleCall(c)
  BY <1>2, Zenon DEF IdleCall
<1>4. idle \in CallRecords(c) /\ idle.phase = "idle" /\ CallFollows(c, idle)
  <2>1. idle \in CallRecords(c)
    BY <1>1, <1>3 DEF CallRecords, Phases
  <2>2. CallFollows(c, idle)
    BY <1>1, <1>2, <1>3 DEF CallFollows
  <2> QED
    BY <1>3, <2>1, <2>2
<1>5. ASSUME NEW phase \in {"completed", "failed"}
      PROVE  /\ Ended(c, phase) \in CallRecords(c) /\ Ended(c, phase).phase = phase
             /\ CallFollows(c, Ended(c, phase))
  <2>1. PICK x : x = [idle EXCEPT !.phase = phase] /\ x = Ended(c, phase)
    BY <1>3, Zenon DEF Ended
  <2>2. x \in CallRecords(c) /\ x.phase = phase
    BY <1>4, <2>1 DEF CallRecords, Phases
  <2>3. x.at = 1 /\ x.cached = FALSE /\ x.attempts = none /\ x.admittedAt = 0
    BY <1>3, <1>4, <2>1 DEF CallRecords
  <2>4. CallFollows(c, x)
    BY <1>1, <1>2, <2>2, <2>3 DEF CallFollows
  <2> QED
    BY <2>1, <2>2, <2>4
<1> QED
  BY <1>3, <1>4, <1>5

LEMMA PipelineStarts == PipelineInit => PipelineInv
<1> SUFFICES ASSUME PipelineInit PROVE PipelineInv
  OBVIOUS
<1>1. clock = 0 /\ clock \in Nat
  BY DEF PipelineInit
<1>2. \A c \in InferenceCalls : inference[c] = IdleCall(c)
  BY DEF PipelineInit
<1>3. \A c \in InferenceCalls : /\ inference[c] \in CallRecords(c) /\ CallFollows(c, inference[c])
                                /\ inference[c].phase = "idle"
  BY <1>1, <1>2, IdleCallsAreSound
<1>4. << >> \in Seq(CacheEntries) /\ << >> \in Seq(InferenceCalls) /\ << >> \in Seq(BOOLEAN) /\ DOMAIN << >> = {}
  BY EmptySeq
<1>5. PipelineTyped
  BY <1>1, <1>3, <1>4
  DEF PipelineInit, PipelineTyped, NewCircuit, Circuits, NewHealth, HealthRecords, ObservedCircuit, HealthStatus
<1>6. CallsFollow
  BY <1>3 DEF CallsFollow
<1>7. BatchesWait
  BY <1>4 DEF PipelineInit, BatchesWait
<1>8. OpenCircuitShieldsAndShows
  BY <1>3 DEF PipelineInit, OpenCircuitShieldsAndShows, OpenCircuitShields, HealthFollowsCircuit, NewCircuit, NewHealth
<1>9. CacheHoldsValidated
  BY <1>4 DEF PipelineInit, CacheHoldsValidated
<1> QED
  BY <1>5, <1>6, <1>7, <1>8, <1>9 DEF PipelineInv

LEMMA FailuresKeep ==
    ASSUME PipelineInv, NEW c \in InferenceCalls, inference[c].phase # "held",
           NEW r \in Circuits, NEW observed \in HealthRecords, Agrees(r, observed),
           r.state = "open" =>
             r.openedAt = clock \/ (circuit[Primary(c)].state = "open" /\ r.openedAt = circuit[Primary(c)].openedAt),
           Fail(c, observed), circuit' = [circuit EXCEPT ![Primary(c)] = r],
           Sound(promptCache'), held' = held, clock' = clock
    PROVE  PipelineInv'
<1>1. clock \in Nat
  BY OneCall
<1>2. PICK x \in CallRecords(c) : x = Ended(c, "failed") /\ x.phase = "failed" /\ CallFollows(c, x)
  BY <1>1, IdleCallsAreSound
<1>3. PICK h \in HealthRecords : h = AfterExecution(observed, FALSE) /\ Agrees(r, h)
  <2>1. PICK no \in BOOLEAN : no = FALSE
    OBVIOUS
  <2>2. AfterExecution(observed, no) \in HealthRecords /\ Agrees(r, AfterExecution(observed, no))
    BY ExecutionsAreSampled DEF Agrees
  <2> QED
    BY <2>1, <2>2
<1>4. inference' = [inference EXCEPT ![c] = x] /\ health' = [health EXCEPT ![Primary(c)] = h]
  BY <1>2, <1>3 DEF Fail
<1>5. ~(x.phase \in {"invoking", "backoff"})
  BY <1>2
<1> QED
  BY <1>2, <1>3, <1>4, <1>5, CallMoves

LEMMA RejectionKeeps ==
    ASSUME PipelineInv, NEW c \in InferenceCalls, RejectRequest(c)
    PROVE  PipelineInv'
<1>1. PICK r \in Circuits, h \in HealthRecords :
        r = circuit[Primary(c)] /\ h = health[Primary(c)] /\ Agrees(r, h)
  BY OneCall
<1>2. circuit' = [circuit EXCEPT ![Primary(c)] = r] /\ Fail(c, h)
  BY <1>1, OneCall DEF RejectRequest
<1>3. promptCache' = promptCache /\ held' = held /\ clock' = clock /\ inference[c].phase # "held"
  BY DEF RejectRequest
<1>4. Sound(promptCache')
  BY <1>3, OneCall
<1>5. r.state = "open" => r.openedAt = clock \/ (circuit[Primary(c)].state = "open" /\ r.openedAt = circuit[Primary(c)].openedAt)
  BY <1>1
<1> QED
  BY <1>1, <1>2, <1>3, <1>4, <1>5, FailuresKeep

LEMMA PassKeeps ==
    ASSUME PipelineInv, NEW c \in InferenceCalls, PassRequest(c)
    PROVE  PipelineInv'
<1>1. PICK r \in Circuits, h \in HealthRecords :
        r = circuit[Primary(c)] /\ h = health[Primary(c)] /\ Agrees(r, h)
  BY OneCall
<1>2. PICK y \in CallRecords(c) : y = inference[c] /\ CallFollows(c, y) /\ y.phase = "secure"
  BY OneCall DEF PassRequest
<1>3. /\ promptCache' = promptCache /\ held' = held /\ clock' = clock /\ inference[c].phase # "held"
      /\ Sound(promptCache') /\ clock \in Nat /\ DOMAIN inference = InferenceCalls
  BY OneCall DEF PassRequest, PipelineInv, PipelineTyped
<1>4. CASE y.cached
  <2>1. PICK x : x = [y EXCEPT !.phase = "validate"]
    OBVIOUS
  <2>2. x \in CallRecords(c) /\ ~(x.phase \in {"invoking", "backoff"})
    BY <2>1 DEF CallRecords, Phases
  <2>3. CallFollows(c, x)
    BY <1>2, <1>4, <2>1 DEF CallRecords, CallFollows
  <2>4. inference' = [inference EXCEPT ![c] = x] /\ circuit' = circuit /\ health' = health
    BY <1>2, <1>4, <2>1 DEF PassRequest
  <2>5. circuit' = [circuit EXCEPT ![Primary(c)] = r] /\ health' = [health EXCEPT ![Primary(c)] = h]
    BY <1>1, <2>4, OneCall
  <2> QED
    BY <1>1, <1>3, <2>2, <2>3, <2>4, <2>5, CallMoves
<1>5. CASE ~y.cached /\ Admits(r, clock)
  <2>1. PICK n \in Circuits : n = AfterAdmission(r) /\ n.state # "open"
                              /\ (r.state # "open" => n = r)
    BY AdmissionHalfOpens
  <2>2. PICK g \in HealthRecords : /\ g = IF r.state = "open" THEN AfterCircuitEvent(h, "half_open") ELSE h
                                   /\ Agrees(n, g)
    <3>1. PICK s \in ObservedCircuit : s = "half_open"
      BY DEF ObservedCircuit
    <3>2. AfterCircuitEvent(h, s) \in HealthRecords /\ AfterCircuitEvent(h, s).circuit = s
      BY CircuitEventsAreSeen
    <3>3. CASE r.state = "open"
      BY <2>1, <3>1, <3>2, <3>3 DEF Agrees
    <3>4. CASE r.state # "open"
      BY <1>1, <2>1, <3>4
    <3> QED
      BY <3>3, <3>4
  <2>3. PICK tried \in [DOMAIN Path[c] -> Nat] : tried = [y.attempts EXCEPT ![1] = 1]
    BY OneCall DEF CallRecords
  <2>4. PICK x : x = [y EXCEPT !.phase = "invoking", !.attempts = tried, !.admittedAt = clock]
    OBVIOUS
  <2>5. /\ x.phase = "invoking" /\ x.attempts = tried /\ x.admittedAt = clock /\ x.cached = FALSE /\ x.at = y.at
        /\ x.response = y.response
    BY <1>5, <2>4 DEF CallRecords
  <2>6. x \in CallRecords(c)
    BY <1>3, <2>3, <2>4 DEF CallRecords, Phases
  <2>7. CallFollows(c, x)
    <3>1. y.at = 1 /\ \A i \in DOMAIN Path[c] : y.attempts[i] = 0
      BY <1>2 DEF CallFollows
    <3>2. \A i \in DOMAIN Path[c] : tried[i] = IF i = 1 THEN 1 ELSE 0
      BY <2>3, <3>1 DEF CallRecords
    <3>3. MaxAttempts \in Nat \ {0} /\ DOMAIN Path[c] \subseteq Nat
      BY PipelineAssumption, PathsFollowPolicy
    <3> QED
      BY <1>3, <2>5, <3>1, <3>2, <3>3 DEF CallFollows
  <2>8. inference' = [inference EXCEPT ![c] = x]
    <3>1. inference' = [inference EXCEPT ![c].phase = "invoking", ![c].attempts[1] = 1, ![c].admittedAt = clock]
      BY <1>1, <1>2, <1>5 DEF PassRequest
    <3>2. inference' = [inference EXCEPT ![c] = [[[y EXCEPT !.phase = "invoking"] EXCEPT !.attempts[1] = 1]
                                                 EXCEPT !.admittedAt = clock]]
      BY <1>2, <1>3, <3>1
    <3>3. [[y EXCEPT !.phase = "invoking"] EXCEPT !.attempts[1] = 1] = [y EXCEPT !.phase = "invoking", !.attempts = tried]
      BY <2>3 DEF CallRecords
    <3>4. [[[y EXCEPT !.phase = "invoking"] EXCEPT !.attempts[1] = 1] EXCEPT !.admittedAt = clock] = x
      BY <2>4, <3>3 DEF CallRecords
    <3> QED
      BY <3>2, <3>4
  <2>9. circuit' = [circuit EXCEPT ![Primary(c)] = n]
    BY <1>1, <1>2, <1>5, <2>1 DEF PassRequest
  <2>10. health' = [health EXCEPT ![Primary(c)] = g]
    <3>1. health' = IF r.state = "open" THEN [health EXCEPT ![Primary(c)] = AfterCircuitEvent(h, "half_open")]
                    ELSE health
      BY <1>1, <1>2, <1>5 DEF PassRequest
    <3> QED
      BY <1>1, <2>2, <3>1, OneCall
  <2> QED
    BY <1>3, <2>1, <2>2, <2>6, <2>7, <2>8, <2>9, <2>10, CallMoves
<1>6. CASE ~y.cached /\ ~Admits(r, clock)
  <2>1. PICK g \in HealthRecords : g = AfterCircuitEvent(h, "open") /\ Agrees(r, g)
    <3>1. PICK s \in ObservedCircuit : s = "open"
      BY DEF ObservedCircuit
    <3>2. AfterCircuitEvent(h, s) \in HealthRecords /\ AfterCircuitEvent(h, s).circuit = s
          /\ AfterCircuitEvent(h, s).status = "unavailable"
      BY <3>1, CircuitEventsAreSeen
    <3>3. r.state = "open"
      BY <1>6 DEF Admits
    <3> QED
      BY <3>1, <3>2, <3>3 DEF Agrees
  <2>2. Fail(c, g) /\ circuit' = circuit
    BY <1>1, <1>2, <1>6, <2>1 DEF PassRequest
  <2>3. circuit' = [circuit EXCEPT ![Primary(c)] = r]
    BY <1>1, <2>2, OneCall
  <2> QED
    BY <1>1, <1>3, <2>1, <2>2, <2>3, FailuresKeep
<1> QED
  BY <1>4, <1>5, <1>6


LEMMA AnswersKeep ==
    ASSUME PipelineInv, NEW c \in InferenceCalls, NEW valid \in BOOLEAN, ProviderSucceeds(c, valid)
    PROVE  PipelineInv'
<1>1. PICK r \in Circuits, h \in HealthRecords :
        r = circuit[Primary(c)] /\ h = health[Primary(c)] /\ Agrees(r, h)
  BY OneCall
<1>2. PICK y \in CallRecords(c) : y = inference[c] /\ CallFollows(c, y) /\ y.phase = "invoking"
  BY OneCall DEF ProviderSucceeds
<1>3. /\ promptCache' = promptCache /\ held' = held /\ clock' = clock /\ inference[c].phase # "held"
      /\ Sound(promptCache') /\ clock \in Nat /\ DOMAIN inference = InferenceCalls
  BY <1>2, OneCall DEF ProviderSucceeds, PipelineInv, PipelineTyped
<1>4. PICK n \in Circuits : /\ n = AfterSuccess(r) /\ n.openedAt = r.openedAt
                            /\ n.state = r.state \/ (r.state = "half_open" /\ n.state = "closed")
  BY SuccessNeverOpens
<1>5. PICK g \in HealthRecords :
        /\ g = IF r.state = "half_open" /\ n.state = "closed" THEN AfterCircuitEvent(h, "closed") ELSE h
        /\ Agrees(n, g)
  <2>1. PICK s \in ObservedCircuit : s = "closed"
    BY DEF ObservedCircuit
  <2>2. AfterCircuitEvent(h, s) \in HealthRecords /\ AfterCircuitEvent(h, s).circuit = s
    BY CircuitEventsAreSeen
  <2>3. CASE r.state = "half_open" /\ n.state = "closed"
    BY <2>1, <2>2, <2>3 DEF Agrees
  <2>4. CASE ~(r.state = "half_open" /\ n.state = "closed")
    BY <1>1, <1>4, <2>4 DEF Agrees
  <2> QED
    BY <2>3, <2>4
<1>6. PICK response \in Responses : response = [by |-> Path[c][y.at], valid |-> valid]
  <2>1. Path[c][y.at] \in Targets
    BY PathsFollowPolicy, ElementOfSeq DEF CallRecords
  <2> QED
    BY <2>1 DEF Responses
<1>7. PICK x : x = [y EXCEPT !.phase = "validate", !.response = response]
  OBVIOUS
<1>8. /\ x \in CallRecords(c) /\ x.phase = "validate" /\ x.response = response /\ x.at = y.at
      /\ x.attempts = y.attempts /\ x.cached = y.cached /\ x.admittedAt = y.admittedAt
  BY <1>6, <1>7 DEF CallRecords, Phases
<1>9. CallFollows(c, x)
  <2>1. x.response.by = Path[c][x.at]
    BY <1>6, <1>8
  <2>2. ~y.cached
    BY <1>2 DEF CallFollows
  <2> QED
    BY <1>2, <1>8, <2>1, <2>2 DEF CallFollows
<1>10. inference' = [inference EXCEPT ![c] = x]
  BY <1>2, <1>6, <1>7 DEF ProviderSucceeds
<1>11. circuit' = [circuit EXCEPT ![Primary(c)] = n]
  BY <1>1, <1>4 DEF ProviderSucceeds
<1>12. health' = [health EXCEPT ![Primary(c)] = g]
  <2>1. health' = IF r.state = "half_open" /\ n.state = "closed"
                  THEN [health EXCEPT ![Primary(c)] = AfterCircuitEvent(h, "closed")] ELSE health
    BY <1>1, <1>4 DEF ProviderSucceeds
  <2> QED
    BY <1>1, <1>5, <2>1, OneCall
<1>13. ~(x.phase \in {"invoking", "backoff"})
  BY <1>8
<1>14. n.state = "open" => n.openedAt = clock \/ (circuit[Primary(c)].state = "open" /\ n.openedAt = circuit[Primary(c)].openedAt)
  BY <1>1, <1>4
<1> QED
  BY <1>3, <1>5, <1>8, <1>9, <1>10, <1>11, <1>12, <1>13, <1>14, CallMoves

\* What both layers leave as it was.
LEMMA InvocationsKeep ==
    ASSUME PipelineInv, NEW c \in InferenceCalls, NEW x \in CallRecords(c), CallFollows(c, x),
           inference[c].phase \in {"invoking", "backoff"}, x.admittedAt = inference[c].admittedAt,
           inference' = [inference EXCEPT ![c] = x],
           circuit' = circuit, health' = health, promptCache' = promptCache, held' = held, clock' = clock
    PROVE  PipelineInv'
<1>1. PICK r \in Circuits, h \in HealthRecords :
        r = circuit[Primary(c)] /\ h = health[Primary(c)] /\ Agrees(r, h)
  BY OneCall
<1>2. Sound(promptCache') /\ inference[c].phase # "held"
  BY OneCall
<1>3. circuit' = [circuit EXCEPT ![Primary(c)] = r] /\ health' = [health EXCEPT ![Primary(c)] = h]
  BY <1>1, OneCall
<1>4. r.state = "open" => r.openedAt = clock \/ (circuit[Primary(c)].state = "open" /\ r.openedAt = circuit[Primary(c)].openedAt)
  BY <1>1
<1> QED
  BY <1>1, <1>2, <1>3, <1>4, CallMoves

LEMMA ErrorsKeep ==
    ASSUME PipelineInv, NEW c \in InferenceCalls, NEW kind \in {Transient, Permanent}, ProviderFails(c, kind)
    PROVE  PipelineInv'
<1>1. PICK r \in Circuits, h \in HealthRecords :
        r = circuit[Primary(c)] /\ h = health[Primary(c)] /\ Agrees(r, h)
  BY OneCall
<1>2. PICK y \in CallRecords(c) : y = inference[c] /\ CallFollows(c, y) /\ y.phase = "invoking"
  BY OneCall DEF ProviderFails
<1>3. /\ promptCache' = promptCache /\ held' = held /\ clock' = clock /\ inference[c].phase # "held"
      /\ Sound(promptCache') /\ clock \in Nat /\ DOMAIN inference = InferenceCalls
  BY <1>2, OneCall DEF ProviderFails, PipelineInv, PipelineTyped
<1>4. ~y.cached /\ MaxAttempts \in Nat \ {0}
  BY <1>2, PipelineAssumption DEF CallFollows
<1>5. CASE Retries(c, kind) /\ inference' = [inference EXCEPT ![c].phase = "backoff"] /\ UNCHANGED <<circuit, health>>
  <2>1. PICK x : x = [y EXCEPT !.phase = "backoff"]
    OBVIOUS
  <2>2. /\ x \in CallRecords(c) /\ x.phase = "backoff" /\ x.response = y.response /\ x.at = y.at
        /\ x.attempts = y.attempts /\ x.cached = y.cached /\ x.admittedAt = y.admittedAt
    BY <2>1 DEF CallRecords, Phases
  <2>3. y.attempts[y.at] < MaxAttempts
    BY <1>2, <1>5 DEF Retries
  <2>4. CallFollows(c, x)
    BY <1>2, <1>4, <2>2, <2>3 DEF CallFollows
  <2>5. inference' = [inference EXCEPT ![c] = x]
    BY <1>2, <1>5, <2>1
  <2> QED
    BY <1>2, <1>3, <1>5, <2>2, <2>4, <2>5, InvocationsKeep
<1>6. CASE /\ FallsBack(c, kind)
           /\ inference' = [inference EXCEPT ![c].at = inference[c].at + 1, ![c].attempts[inference[c].at + 1] = 1]
           /\ UNCHANGED <<circuit, health>>
  <2>1. DOMAIN Path[c] = 1 .. Len(Path[c]) /\ Len(Path[c]) \in Nat
    BY PathsFollowPolicy
  <2>2. PICK next \in DOMAIN Path[c] : next = y.at + 1 /\ next > 1
    BY <1>2, <1>6, <2>1 DEF FallsBack, CallRecords
  <2>3. PICK tried \in [DOMAIN Path[c] -> Nat] : tried = [y.attempts EXCEPT ![next] = 1]
    BY DEF CallRecords
  <2>4. PICK x : x = [y EXCEPT !.at = next, !.attempts = tried]
    OBVIOUS
  <2>5. /\ x.phase = "invoking" /\ x.attempts = tried /\ x.admittedAt = y.admittedAt /\ x.cached = y.cached
        /\ x.at = next /\ x.response = y.response
    BY <1>2, <2>4 DEF CallRecords
  <2>6. x \in CallRecords(c)
    BY <2>3, <2>4 DEF CallRecords
  <2>7. y.attempts[1] = MaxAttempts
    <3>1. CASE y.at > 1
      BY <1>2, <3>1 DEF CallFollows
    <3>2. CASE ~(y.at > 1)
      <4>1. y.at = 1
        BY <2>1, <3>2 DEF CallRecords
      <4>2. kind = Transient
        BY <1>2, <1>6, <3>2 DEF FallsBack
      <4>3. ~(y.attempts[1] < MaxAttempts)
        BY <1>2, <1>6, <4>1, <4>2 DEF FallsBack, Retries
      <4>4. 1 \in DOMAIN Path[c] /\ y.attempts[1] \in Nat /\ y.attempts[1] <= MaxAttempts
        BY <1>2, PathsFollowPolicy DEF CallFollows, CallRecords
      <4> QED
        BY <1>4, <4>3, <4>4
    <3> QED
      BY <3>1, <3>2
  <2>8. CallFollows(c, x)
    <3>1. \A i \in DOMAIN Path[c] : tried[i] = IF i = next THEN 1 ELSE y.attempts[i]
      BY <2>3 DEF CallRecords
    <3>2. \A i \in DOMAIN Path[c] : y.attempts[i] <= MaxAttempts /\ (y.attempts[i] > 0 => i <= y.at)
      BY <1>2 DEF CallFollows
    <3>3. y.at \in Nat /\ \A i \in DOMAIN Path[c] : i \in Nat
      BY <2>1 DEF CallRecords
    <3>4. \A i \in DOMAIN Path[c] : tried[i] <= MaxAttempts /\ (tried[i] > 0 => i <= next)
      BY <1>4, <2>2, <3>1, <3>2, <3>3
    <3>5. tried[1] = MaxAttempts
      BY <2>2, <2>7, <3>1, PathsFollowPolicy
    <3>6. y.admittedAt <= clock
      BY <1>2 DEF CallFollows
    <3> QED
      BY <1>4, <2>5, <3>4, <3>5, <3>6 DEF CallFollows
  <2>9. inference' = [inference EXCEPT ![c] = x]
    <3>1. inference' = [inference EXCEPT ![c].at = next, ![c].attempts[next] = 1]
      BY <1>2, <1>6, <2>2
    <3>2. inference' = [inference EXCEPT ![c] = [[y EXCEPT !.at = next] EXCEPT !.attempts[next] = 1]]
      BY <1>2, <1>3, <3>1
    <3>3. [[y EXCEPT !.at = next] EXCEPT !.attempts[next] = 1] = x
      BY <2>3, <2>4 DEF CallRecords
    <3> QED
      BY <3>2, <3>3
  <2> QED
    BY <1>2, <1>3, <1>6, <2>5, <2>6, <2>8, <2>9, InvocationsKeep
<1>7. ASSUME NEW n, n = (IF kind = Transient THEN AfterFailure(r, clock) ELSE r),
             circuit' = [circuit EXCEPT ![Primary(c)] = n],
             Fail(c, IF kind = Transient /\ n.state = "open" THEN AfterCircuitEvent(h, "open") ELSE h)
      PROVE  PipelineInv'
  <2>1. PICK m \in Circuits : /\ m = n
                              /\ \/ m.state = "open" /\ m.openedAt = clock
                                 \/ m.state = r.state /\ m.openedAt = r.openedAt
                              /\ m = r \/ kind = Transient
    <3>1. CASE kind = Transient
      BY <1>3, <1>7, <3>1, FailureOpensNow
    <3>2. CASE kind # Transient
      BY <1>7, <3>2
    <3> QED
      BY <3>1, <3>2
  <2>2. PICK g \in HealthRecords :
          /\ g = IF kind = Transient /\ n.state = "open" THEN AfterCircuitEvent(h, "open") ELSE h
          /\ Agrees(m, g)
    <3>1. PICK s \in ObservedCircuit : s = "open"
      BY DEF ObservedCircuit
    <3>2. /\ AfterCircuitEvent(h, s) \in HealthRecords /\ AfterCircuitEvent(h, s).circuit = s
          /\ AfterCircuitEvent(h, s).status = "unavailable"
      BY <3>1, CircuitEventsAreSeen
    <3>3. CASE kind = Transient /\ n.state = "open"
      BY <2>1, <3>1, <3>2, <3>3 DEF Agrees
    <3>4. CASE ~(kind = Transient /\ n.state = "open")
      BY <1>1, <2>1, <3>4 DEF Agrees
    <3> QED
      BY <3>3, <3>4
  <2>3. Fail(c, g) /\ circuit' = [circuit EXCEPT ![Primary(c)] = m]
    BY <1>7, <2>1, <2>2
  <2>4. m.state = "open" => m.openedAt = clock \/ (circuit[Primary(c)].state = "open" /\ m.openedAt = circuit[Primary(c)].openedAt)
    BY <1>1, <2>1
  <2> QED
    BY <1>3, <2>2, <2>3, <2>4, FailuresKeep
<1> QED
  BY <1>1, <1>5, <1>6, <1>7, Zenon DEF ProviderFails

LEMMA RetriesKeep ==
    ASSUME PipelineInv, NEW c \in InferenceCalls, RetryInvoke(c)
    PROVE  PipelineInv'
<1>1. PICK y \in CallRecords(c) : y = inference[c] /\ CallFollows(c, y) /\ y.phase = "backoff"
  BY OneCall DEF RetryInvoke
<1>2. /\ promptCache' = promptCache /\ held' = held /\ clock' = clock
      /\ circuit' = circuit /\ health' = health /\ DOMAIN inference = InferenceCalls
  BY DEF RetryInvoke, PipelineInv, PipelineTyped
<1>3. ~y.cached /\ MaxAttempts \in Nat \ {0} /\ DOMAIN Path[c] \subseteq Nat /\ 1 \in DOMAIN Path[c]
  BY <1>1, PipelineAssumption, PathsFollowPolicy DEF CallFollows
<1>4. y.at \in DOMAIN Path[c] /\ y.attempts[y.at] \in Nat /\ y.attempts[y.at] < MaxAttempts
  BY <1>1 DEF CallFollows, CallRecords
<1>5. PICK tried \in [DOMAIN Path[c] -> Nat] : tried = [y.attempts EXCEPT ![y.at] = y.attempts[y.at] + 1]
  <2>1. PICK more \in Nat : more = y.attempts[y.at] + 1
    BY <1>4
  <2>2. y.attempts \in [DOMAIN Path[c] -> Nat]
    BY DEF CallRecords
  <2>3. [y.attempts EXCEPT ![y.at] = more] \in [DOMAIN Path[c] -> Nat]
    BY <1>4, <2>2
  <2> QED
    BY <2>1, <2>3
<1>6. PICK x : x = [y EXCEPT !.phase = "invoking", !.attempts = tried]
  OBVIOUS
<1>7. /\ x.phase = "invoking" /\ x.attempts = tried /\ x.admittedAt = y.admittedAt /\ x.cached = y.cached
      /\ x.at = y.at /\ x.response = y.response
  BY <1>6 DEF CallRecords
<1>8. x \in CallRecords(c)
  BY <1>5, <1>6 DEF CallRecords, Phases
<1>9. CallFollows(c, x)
  <2>1. \A i \in DOMAIN Path[c] : tried[i] = IF i = y.at THEN y.attempts[y.at] + 1 ELSE y.attempts[i]
    BY <1>5 DEF CallRecords
  <2>2. \A i \in DOMAIN Path[c] : y.attempts[i] <= MaxAttempts /\ (y.attempts[i] > 0 => i <= y.at)
    BY <1>1 DEF CallFollows
  <2>3. \A i \in DOMAIN Path[c] : tried[i] <= MaxAttempts /\ (tried[i] > 0 => i <= y.at)
    BY <1>3, <1>4, <2>1, <2>2
  <2>4. y.at > 1 => tried[1] = MaxAttempts
    BY <1>1, <1>3, <2>1 DEF CallFollows
  <2>5. y.admittedAt <= clock
    BY <1>1 DEF CallFollows
  <2> QED
    BY <1>3, <1>7, <2>3, <2>4, <2>5 DEF CallFollows
<1>10. inference' = [inference EXCEPT ![c] = x]
  <2>1. inference' = [inference EXCEPT ![c].phase = "invoking", ![c].attempts[y.at] = @ + 1]
    BY <1>1 DEF RetryInvoke
  <2>2. inference' = [inference EXCEPT ![c] = [[y EXCEPT !.phase = "invoking"] EXCEPT !.attempts[y.at] = @ + 1]]
    BY <1>1, <1>2, <2>1
  <2>3. [[y EXCEPT !.phase = "invoking"] EXCEPT !.attempts[y.at] = @ + 1] = x
    BY <1>5, <1>6 DEF CallRecords
  <2> QED
    BY <2>2, <2>3
<1> QED
  BY <1>1, <1>2, <1>7, <1>8, <1>9, <1>10, InvocationsKeep


LEMMA ValidationKeeps ==
    ASSUME PipelineInv, NEW c \in InferenceCalls, ValidateResponse(c)
    PROVE  PipelineInv'
<1>1. PICK r \in Circuits, h \in HealthRecords :
        r = circuit[Primary(c)] /\ h = health[Primary(c)] /\ Agrees(r, h)
  BY OneCall
<1>2. PICK y \in CallRecords(c) : y = inference[c] /\ CallFollows(c, y) /\ y.phase = "validate"
  BY OneCall DEF ValidateResponse
<1>3. /\ held' = held /\ clock' = clock /\ inference[c].phase # "held" /\ clock \in Nat
      /\ circuit' = circuit /\ Sound(promptCache)
  BY <1>2, OneCall DEF ValidateResponse
<1>4. circuit' = [circuit EXCEPT ![Primary(c)] = r]
  BY <1>1, <1>3, OneCall
<1>5. r.state = "open" => r.openedAt = clock \/ (circuit[Primary(c)].state = "open" /\ r.openedAt = circuit[Primary(c)].openedAt)
  BY <1>1
<1>6. CASE y.response.valid
  <2>1. Sound(promptCache')
    <3>1. CASE y.cached
      BY <1>2, <1>3, <1>6, <3>1 DEF ValidateResponse
    <3>2. CASE ~y.cached
      <4>1. PICK response \in Responses : response = y.response /\ response.valid
        BY <1>2, <1>6 DEF CallFollows
      <4>2. \E k \in DOMAIN Path[c] : response.by = Path[c][k]
        BY <1>2, <3>2, <4>1 DEF CallFollows, CallRecords
      <4>3. promptCache' = AfterStore(promptCache, CacheKey(c), response, clock, Ttl, MaxEntries)
        BY <1>2, <1>6, <3>2, <4>1 DEF ValidateResponse
      <4> QED
        BY <1>3, <4>1, <4>2, <4>3, StoreKeepsSound
    <3> QED
      BY <3>1, <3>2
  <2>2. PICK x \in CallRecords(c) : x = Ended(c, "completed") /\ x.phase = "completed" /\ CallFollows(c, x)
    BY <1>3, IdleCallsAreSound
  <2>3. PICK g \in HealthRecords : g = AfterExecution(h, TRUE) /\ Agrees(r, g)
    <3>1. PICK yes \in BOOLEAN : yes = TRUE
      OBVIOUS
    <3>2. AfterExecution(h, yes) \in HealthRecords /\ Agrees(r, AfterExecution(h, yes))
      BY <1>1, ExecutionsAreSampled DEF Agrees
    <3> QED
      BY <3>1, <3>2
  <2>4. inference' = [inference EXCEPT ![c] = x] /\ health' = [health EXCEPT ![Primary(c)] = g]
    BY <1>1, <1>2, <1>6, <2>2, <2>3 DEF ValidateResponse
  <2>5. ~(x.phase \in {"invoking", "backoff"})
    BY <2>2
  <2> QED
    BY <1>3, <1>4, <1>5, <2>1, <2>2, <2>3, <2>4, <2>5, CallMoves
<1>7. CASE ~y.response.valid
  <2>1. Fail(c, h) /\ promptCache' = promptCache
    BY <1>1, <1>2, <1>7 DEF ValidateResponse
  <2> QED
    BY <1>1, <1>3, <1>4, <1>5, <2>1, FailuresKeep
<1> QED
  BY <1>6, <1>7

\* A batch is dispatched: its calls continue, the others stay.
LEMMA ReleaseIsSound ==
    ASSUME NEW calls, CallsAreSound(calls), NEW batch,
           \A i \in DOMAIN batch : calls[batch[i]].phase = "held"
    PROVE  /\ CallsAreSound(Released(calls, batch))
           /\ \A c \in InferenceCalls :
                \/ Released(calls, batch)[c] = calls[c] /\ ~InBatch(c, batch)
                \/ Released(calls, batch)[c].phase = "secure" /\ InBatch(c, batch)
<1>1. DOMAIN Released(calls, batch) = InferenceCalls
  BY DEF Released
<1>2. ASSUME NEW c \in InferenceCalls
      PROVE  /\ Released(calls, batch)[c] \in CallRecords(c) /\ CallFollows(c, Released(calls, batch)[c])
             /\ \/ Released(calls, batch)[c] = calls[c] /\ ~InBatch(c, batch)
                \/ Released(calls, batch)[c].phase = "secure" /\ InBatch(c, batch)
  <2>1. PICK y \in CallRecords(c) : y = calls[c] /\ CallFollows(c, y)
    BY DEF CallsAreSound
  <2>2. CASE InBatch(c, batch)
    <3>1. PICK x : x = [y EXCEPT !.phase = "secure"]
      OBVIOUS
    <3>2. Released(calls, batch)[c] = x
      BY <2>1, <2>2, <3>1 DEF Released
    <3>3. /\ x \in CallRecords(c) /\ x.phase = "secure" /\ x.response = y.response /\ x.at = y.at
          /\ x.attempts = y.attempts /\ x.cached = y.cached /\ x.admittedAt = y.admittedAt
      BY <3>1 DEF CallRecords, Phases
    <3>4. y.phase = "held"
      BY <2>1, <2>2 DEF InBatch
    <3>5. CallFollows(c, x)
      BY <2>1, <3>3, <3>4 DEF CallFollows
    <3> QED
      BY <2>2, <3>2, <3>3, <3>5
  <2>3. CASE ~InBatch(c, batch)
    BY <2>1, <2>3 DEF Released
  <2> QED
    BY <2>2, <2>3
<1> QED
  BY <1>1, <1>2, Zenon DEF CallsAreSound

\* The other batches still wait when that of a target is dispatched.
LEMMA OtherBatchesWait ==
    ASSUME PipelineInv, NEW calls, CallsAreSound(calls), NEW t \in Targets, NEW batch \in Seq(InferenceCalls),
           \A i \in DOMAIN batch : calls[batch[i]].phase = "held" /\ Primary(batch[i]) = t,
           \A u \in Targets : \A i \in DOMAIN held[u] : calls[held[u][i]].phase = "held",
           \A c \in InferenceCalls : calls[c].phase \in {"invoking", "backoff"} => calls[c] = inference[c],
           NEW batches \in [Targets -> Seq(InferenceCalls)], DOMAIN batches[t] = {},
           \A u \in Targets \ {t} : batches[u] = held[u],
           inference' = Released(calls, batch), held' = batches,
           circuit' = circuit, health' = health, clock' = clock, Sound(promptCache')
    PROVE  PipelineInv'
<1>1. PICK after : after = Released(calls, batch) /\ CallsAreSound(after)
                   /\ \A c \in InferenceCalls : \/ after[c] = calls[c] /\ ~InBatch(c, batch)
                                                \/ after[c].phase = "secure" /\ InBatch(c, batch)
  BY ReleaseIsSound
<1>2. held \in [Targets -> Seq(InferenceCalls)]
  BY DEF PipelineInv, PipelineTyped
<1>3. \A u \in Targets : \A i \in DOMAIN batches[u] :
        after[batches[u][i]].phase = "held" /\ Primary(batches[u][i]) = u
  <2> SUFFICES ASSUME NEW u \in Targets, NEW i \in DOMAIN batches[u]
               PROVE  after[batches[u][i]].phase = "held" /\ Primary(batches[u][i]) = u
    OBVIOUS
  <2>1. u # t /\ batches[u] = held[u]
    OBVIOUS
  <2>2. PICK c \in InferenceCalls : c = held[u][i] /\ i \in DOMAIN held[u]
    BY <1>2, <2>1, LenProperties, ElementOfSeq
  <2>3. calls[c].phase = "held" /\ Primary(c) = u
    BY <2>2 DEF PipelineInv, BatchesWait
  <2>4. ~InBatch(c, batch)
    BY <2>1, <2>3 DEF InBatch
  <2> QED
    BY <1>1, <2>1, <2>2, <2>3, <2>4
<1>4. \A c \in InferenceCalls : after[c].phase \in {"invoking", "backoff"} => after[c] = inference[c]
  BY <1>1
<1>5. inference' = after
  BY <1>1
<1> QED
  BY <1>1, <1>3, <1>4, <1>5, CallsMoveQuietly

\* A target's batch starts anew, the others are as they were.
LEMMA OneBatchEmptied ==
    ASSUME held \in [Targets -> Seq(InferenceCalls)], NEW t \in Targets
    PROVE  \E batches \in [Targets -> Seq(InferenceCalls)] :
             /\ batches = [held EXCEPT ![t] = << >>]
             /\ DOMAIN batches[t] = {}
             /\ \A u \in Targets \ {t} : batches[u] = held[u]
<1>1. << >> \in Seq(InferenceCalls) /\ DOMAIN << >> = {}
  BY EmptySeq
<1>2. PICK empty \in Seq(InferenceCalls) : empty = << >> /\ DOMAIN empty = {}
  BY <1>1, Zenon
<1>3. PICK batches \in [Targets -> Seq(InferenceCalls)] : batches = [held EXCEPT ![t] = empty]
  OBVIOUS
<1>4. batches[t] = empty /\ \A u \in Targets \ {t} : batches[u] = held[u]
  BY <1>3
<1>5. batches = [held EXCEPT ![t] = << >>]
  BY <1>2, <1>3, Zenon
<1> QED
  BY <1>2, <1>4, <1>5

LEMMA TimersKeep ==
    ASSUME PipelineInv, NEW t \in Targets, BatchTimeout(t)
    PROVE  PipelineInv'
<1>1. PICK batch \in Seq(InferenceCalls) : batch = held[t]
  BY DEF PipelineInv, PipelineTyped
<1>2. CallsAreSound(inference)
  BY CallsAreSoundNow
<1>3. \A u \in Targets : \A i \in DOMAIN held[u] : inference[held[u][i]].phase = "held" /\ Primary(held[u][i]) = u
  BY DEF PipelineInv, BatchesWait
<1>4. \A i \in DOMAIN batch : inference[batch[i]].phase = "held" /\ Primary(batch[i]) = t
  BY <1>1, <1>3
<1>5. PICK batches \in [Targets -> Seq(InferenceCalls)] :
        /\ batches = [held EXCEPT ![t] = << >>]
        /\ DOMAIN batches[t] = {} /\ \A u \in Targets \ {t} : batches[u] = held[u]
  BY OneBatchEmptied DEF PipelineInv, PipelineTyped
<1>6. /\ inference' = Released(inference, batch) /\ held' = batches
      /\ circuit' = circuit /\ health' = health /\ clock' = clock /\ promptCache' = promptCache
  BY <1>1, <1>5 DEF BatchTimeout
<1>7. DOMAIN batches[t] = {} /\ \A u \in Targets \ {t} : batches[u] = held[u]
  BY <1>5
<1>8. Sound(promptCache')
  <2>1. promptCache \in Seq(CacheEntries) /\ CacheHoldsValidated
    BY DEF PipelineInv, PipelineTyped
  <2> QED
    BY <1>6, <2>1, CacheIsSound
<1> QED
  BY <1>2, <1>3, <1>4, <1>6, <1>7, <1>8, OtherBatchesWait

LEMMA BeginKeeps ==
    ASSUME PipelineInv, NEW c \in InferenceCalls, Begin(c)
    PROVE  PipelineInv'
<1>1. PICK r \in Circuits, h \in HealthRecords :
        r = circuit[Primary(c)] /\ h = health[Primary(c)] /\ Agrees(r, h)
  BY OneCall
<1>2. PICK y \in CallRecords(c) : y = inference[c] /\ CallFollows(c, y) /\ y.phase = "idle"
  BY OneCall DEF Begin
<1>3. PICK key : key = CacheKey(c)
  OBVIOUS
<1>4. PICK p \in Targets : p = Primary(c)
  BY OneCall
<1>5. /\ clock' = clock /\ inference[c].phase # "held" /\ clock \in Nat
      /\ circuit' = circuit /\ health' = health /\ Sound(promptCache) /\ DOMAIN inference = InferenceCalls
      /\ promptCache' = AfterLookup(promptCache, key, clock) /\ held \in [Targets -> Seq(InferenceCalls)]
  BY <1>2, <1>3, OneCall DEF Begin, PipelineInv, PipelineTyped
<1>6. Sound(promptCache') /\ (IsHit(promptCache, key, clock) => Entry(promptCache, key).response \in Responses)
  BY <1>5, LookupKeepsSound
<1>7. ~y.cached
  BY <1>2 DEF CallFollows
<1>8. CASE IsHit(promptCache, key, clock)
  <2>1. PICK response \in Responses : response = Entry(promptCache, key).response
    BY <1>6, <1>8
  <2>2. PICK x : x = [y EXCEPT !.phase = "secure", !.cached = TRUE, !.response = response]
    OBVIOUS
  <2>3. /\ x \in CallRecords(c) /\ x.phase = "secure" /\ x.response = response /\ x.at = y.at
        /\ x.attempts = y.attempts /\ x.cached = TRUE /\ x.admittedAt = y.admittedAt
    BY <2>2 DEF CallRecords, Phases
  <2>4. CallFollows(c, x)
    BY <1>2, <2>3 DEF CallFollows
  <2>5. inference' = [inference EXCEPT ![c] = x] /\ held' = held
    <3>1. held' = held /\ inference' = [[inference EXCEPT ![c].phase = "held"] EXCEPT ![c].phase = "secure",
                                          ![c].cached = TRUE, ![c].response = response]
      BY <1>3, <1>8, <2>1 DEF Begin
    <3>2. [[inference EXCEPT ![c].phase = "held"] EXCEPT ![c].phase = "secure", ![c].cached = TRUE, ![c].response = response]
            = [inference EXCEPT ![c] = [[y EXCEPT !.phase = "held"] EXCEPT !.phase = "secure", !.cached = TRUE, !.response = response]]
      BY <1>2, <1>5
    <3>3. [[y EXCEPT !.phase = "held"] EXCEPT !.phase = "secure", !.cached = TRUE, !.response = response] = x
      BY <2>2 DEF CallRecords
    <3> QED
      BY <3>1, <3>2, <3>3
  <2>6. circuit' = [circuit EXCEPT ![Primary(c)] = r] /\ health' = [health EXCEPT ![Primary(c)] = h]
    BY <1>1, <1>5, OneCall
  <2>7. ~(x.phase \in {"invoking", "backoff"})
    BY <2>3
  <2> QED
    BY <1>1, <1>5, <1>6, <2>3, <2>4, <2>5, <2>6, <2>7, CallMoves
<1>9. CASE ~IsHit(promptCache, key, clock)
  <2>1. PICK x : x = [y EXCEPT !.phase = "held"]
    OBVIOUS
  <2>2. /\ x \in CallRecords(c) /\ x.phase = "held" /\ x.response = y.response /\ x.at = y.at
        /\ x.attempts = y.attempts /\ x.cached = y.cached /\ x.admittedAt = y.admittedAt
    BY <2>1 DEF CallRecords, Phases
  <2>3. CallFollows(c, x)
    BY <1>2, <1>7, <2>2 DEF CallFollows
  <2>4. PICK calls : calls = [inference EXCEPT ![c] = x] /\ calls = [inference EXCEPT ![c].phase = "held"]
    BY <1>2, <1>5, <2>1
  <2>5. /\ DOMAIN calls = InferenceCalls /\ calls[c] = x
        /\ \A d \in InferenceCalls \ {c} : calls[d] = inference[d]
    BY <1>5, <2>4
  <2>6. CallsAreSound(calls)
    <3>1. \A d \in InferenceCalls : inference[d] \in CallRecords(d) /\ CallFollows(d, inference[d])
      BY CallsAreSoundNow DEF CallsAreSound
    <3> QED
      BY <2>2, <2>3, <2>5, <3>1 DEF CallsAreSound
  <2>7. \A d \in InferenceCalls : calls[d].phase \in {"invoking", "backoff"} => calls[d] = inference[d]
    BY <2>2, <2>5
  <2>8. PICK batch \in Seq(InferenceCalls) : batch = Append(held[p], c)
                                             /\ \A i \in DOMAIN batch : batch[i] = c \/ \E j \in DOMAIN held[p] : batch[i] = held[p][j]
    <3>1. PICK before \in Seq(InferenceCalls) : before = held[p]
      BY <1>5
    <3>2. /\ DOMAIN before = 1 .. Len(before) /\ Len(before) \in Nat /\ Append(before, c) \in Seq(InferenceCalls)
          /\ Len(Append(before, c)) = Len(before) + 1 /\ Append(before, c)[Len(before) + 1] = c
          /\ \A i \in 1 .. Len(before) : Append(before, c)[i] = before[i]
      BY LenProperties, AppendProperties
    <3>3. DOMAIN Append(before, c) = 1 .. Len(before) + 1
      BY <3>2, LenProperties
    <3>4. \A i \in 1 .. Len(before) + 1 : i = Len(before) + 1 \/ i \in 1 .. Len(before)
      BY <3>2
    <3>5. \A i \in DOMAIN Append(before, c) : Append(before, c)[i] = c \/ \E j \in DOMAIN before : Append(before, c)[i] = before[j]
      BY <3>2, <3>3, <3>4
    <3> QED
      BY <3>1, <3>2, <3>5, Zenon
  <2>9. \A u \in Targets : \A i \in DOMAIN held[u] :
          held[u][i] \in InferenceCalls /\ calls[held[u][i]].phase = "held" /\ Primary(held[u][i]) = u
    <3> SUFFICES ASSUME NEW u \in Targets, NEW i \in DOMAIN held[u]
                 PROVE  held[u][i] \in InferenceCalls /\ calls[held[u][i]].phase = "held" /\ Primary(held[u][i]) = u
      OBVIOUS
    <3>1. held[u][i] \in InferenceCalls
      BY <1>5, LenProperties, ElementOfSeq
    <3>2. inference[held[u][i]].phase = "held" /\ Primary(held[u][i]) = u
      BY DEF PipelineInv, BatchesWait
    <3> QED
      BY <2>2, <2>5, <3>1, <3>2
  <2>10. \A i \in DOMAIN batch : calls[batch[i]].phase = "held" /\ Primary(batch[i]) = p
    BY <1>4, <2>2, <2>5, <2>8, <2>9
  <2>11. CASE Len(batch) >= MaxBatchSize
    <3>1. PICK batches \in [Targets -> Seq(InferenceCalls)] :
            /\ batches = [held EXCEPT ![p] = << >>]
            /\ DOMAIN batches[p] = {} /\ \A u \in Targets \ {p} : batches[u] = held[u]
      BY <1>5, OneBatchEmptied
    <3>2. inference' = Released(calls, batch) /\ held' = batches
      BY <1>3, <1>4, <1>9, <2>4, <2>8, <2>11, <3>1 DEF Begin
    <3>3. DOMAIN batches[p] = {} /\ \A u \in Targets \ {p} : batches[u] = held[u]
      BY <3>1
    <3> QED
      BY <1>5, <1>6, <2>6, <2>7, <2>9, <2>10, <3>2, <3>3, OtherBatchesWait
  <2>12. CASE ~(Len(batch) >= MaxBatchSize)
    <3>1. PICK batches \in [Targets -> Seq(InferenceCalls)] : batches = [held EXCEPT ![p] = batch]
      BY <1>5
    <3>2. inference' = calls /\ held' = batches
      BY <1>3, <1>4, <1>9, <2>4, <2>8, <2>12, <3>1 DEF Begin
    <3>3. \A u \in Targets : \A i \in DOMAIN batches[u] :
            calls[batches[u][i]].phase = "held" /\ Primary(batches[u][i]) = u
      <4> SUFFICES ASSUME NEW u \in Targets, NEW i \in DOMAIN batches[u]
                   PROVE  calls[batches[u][i]].phase = "held" /\ Primary(batches[u][i]) = u
        OBVIOUS
      <4>1. CASE u = p
        BY <1>5, <2>10, <3>1, <4>1
      <4>2. CASE u # p
        BY <1>5, <2>9, <3>1, <4>2
      <4> QED
        BY <4>1, <4>2
    <3> QED
      BY <1>5, <1>6, <2>6, <2>7, <3>2, <3>3, CallsMoveQuietly
  <2> QED
    BY <2>11, <2>12
<1> QED
  BY <1>8, <1>9


LEMMA TicksKeep == PipelineInv /\ Tick => PipelineInv'
<1> SUFFICES ASSUME PipelineInv, Tick PROVE PipelineInv'
  OBVIOUS
<1>1. /\ inference' = inference /\ circuit' = circuit /\ health' = health /\ promptCache' = promptCache
      /\ held' = held /\ clock' = clock + 1 /\ clock \in Nat
  BY DEF Tick, PipelineInv, PipelineTyped
<1>2. PipelineTyped'
  BY <1>1 DEF PipelineInv, PipelineTyped
<1>3. CallsFollow'
  <2> SUFFICES ASSUME NEW c \in InferenceCalls PROVE CallFollows(c, inference[c])'
    BY DEF CallsFollow
  <2>1. PICK y \in CallRecords(c) : y = inference[c] /\ CallFollows(c, y)
    BY CallsAreSoundNow DEF CallsAreSound
  <2>2. y.admittedAt <= clock' /\ y = inference'[c]
    BY <1>1, <2>1 DEF CallFollows, CallRecords
  <2>3. CallFollows(c, y)'
    BY <2>1, <2>2, Zenon DEF CallFollows
  <2> QED
    BY <2>2, <2>3
<1>4. BatchesWait'
  BY <1>1 DEF PipelineInv, BatchesWait
<1>5. OpenCircuitShieldsAndShows'
  BY <1>1 DEF PipelineInv, OpenCircuitShieldsAndShows, OpenCircuitShields, HealthFollowsCircuit
<1>6. CacheHoldsValidated'
  BY <1>1 DEF PipelineInv, CacheHoldsValidated
<1> QED
  BY <1>2, <1>3, <1>4, <1>5, <1>6 DEF PipelineInv

LEMMA PipelineStutterKeeps == PipelineInv /\ UNCHANGED pipelineVars => PipelineInv'
<1> SUFFICES ASSUME PipelineInv, UNCHANGED pipelineVars PROVE PipelineInv'
  OBVIOUS
<1>1. /\ inference' = inference /\ circuit' = circuit /\ health' = health /\ promptCache' = promptCache
      /\ held' = held /\ clock' = clock
  BY DEF pipelineVars
<1>2. PipelineTyped' /\ BatchesWait'
  BY <1>1 DEF PipelineInv, PipelineTyped, BatchesWait
<1>3. CallsFollow'
  BY <1>1 DEF PipelineInv, CallsFollow, CallFollows
<1>4. OpenCircuitShieldsAndShows' /\ CacheHoldsValidated'
  BY <1>1 DEF PipelineInv, OpenCircuitShieldsAndShows, OpenCircuitShields, HealthFollowsCircuit, CacheHoldsValidated
<1> QED
  BY <1>2, <1>3, <1>4 DEF PipelineInv

LEMMA PipelineStepKeeps == PipelineInv /\ [PipelineNext]_pipelineVars => PipelineInv'
<1> SUFFICES ASSUME PipelineInv, [PipelineNext]_pipelineVars PROVE PipelineInv'
  OBVIOUS
<1>1. ASSUME NEW c \in InferenceCalls, Begin(c) PROVE PipelineInv'
  BY <1>1, BeginKeeps
<1>2. ASSUME NEW c \in InferenceCalls, CallStep(c) PROVE PipelineInv'
  <2>1. CASE RejectRequest(c)
    BY <2>1, RejectionKeeps
  <2>2. CASE PassRequest(c)
    BY <2>2, PassKeeps
  <2>3. ASSUME NEW valid \in BOOLEAN, ProviderSucceeds(c, valid) PROVE PipelineInv'
    BY <2>3, AnswersKeep
  <2>4. ASSUME NEW kind \in {Transient, Permanent}, ProviderFails(c, kind) PROVE PipelineInv'
    BY <2>4, ErrorsKeep
  <2>5. CASE RetryInvoke(c)
    BY <2>5, RetriesKeep
  <2>6. CASE ValidateResponse(c)
    BY <2>6, ValidationKeeps
  <2> QED
    BY <1>2, <2>1, <2>2, <2>3, <2>4, <2>5, <2>6 DEF CallStep
<1>3. ASSUME NEW t \in Targets, BatchTimeout(t) PROVE PipelineInv'
  BY <1>3, TimersKeep
<1>4. CASE Tick
  BY <1>4, TicksKeep
<1>5. CASE UNCHANGED pipelineVars
  BY <1>5, PipelineStutterKeeps
<1> QED
  BY <1>1, <1>2, <1>3, <1>4, <1>5 DEF PipelineNext, PipelineStep

LEMMA PipelineKeepsInvariant == PipelineSpec => []PipelineInv
<1>1. PipelineInit => PipelineInv
  BY PipelineStarts
<1>2. PipelineInv /\ [PipelineNext]_pipelineVars => PipelineInv'
  BY PipelineStepKeeps
<1> QED
  BY <1>1, <1>2, PTL DEF PipelineSpec

-----------------------------------------------------------------------------
\* Whatever the thresholds, the plans and the number of executions sharing a circuit are, an
\* open circuit keeps later executions away from its provider and is published as unavailable
\* (aroundInvoke, circuit-breaker.ts:86, onEvent, health-manager.ts:77).
THEOREM CircuitsShield == PipelineSpec => []OpenCircuitShieldsAndShows
<1>1. PipelineInv => OpenCircuitShieldsAndShows
  BY DEF PipelineInv
<1> QED
  BY <1>1, PipelineKeepsInvariant, PTL

\* Whatever the plans, the policies and the bounds are: the targets past the primary are invoked
\* when its attempts are used up, one after another as the fallback policy orders them, none it
\* does not list and no more than it allows, each at most as often as the retry policy allows;
\* a cached answer invokes none (aroundInvoke, fallback-orchestrator.ts:39;
\* orderedFallbackTargets, fallback-strategy.ts:18).
THEOREM FallbackIsLastResort == PipelineSpec => []FallbackInPolicyOrder
<1>1. PipelineInv => FallbackInPolicyOrder
  <2> SUFFICES ASSUME PipelineInv, NEW c \in InferenceCalls
               PROVE  /\ \A i \in DOMAIN inference[c].attempts :
                           inference[c].attempts[i] > 0 =>
                             i <= inference[c].at /\ inference[c].attempts[i] <= MaxAttempts
                      /\ inference[c].at <= 1 + FallbackPolicy[c].maxAttempts
                      /\ \A i \in DOMAIN inference[c].attempts \ {1} :
                           inference[c].attempts[i] > 0 => inference[c].attempts[1] = MaxAttempts
                      /\ \A i, j \in 2 .. inference[c].at :
                           i < j => TriedBefore(c, Path[c][i], Path[c][j])
                      /\ \A i \in 2 .. inference[c].at : ChosenBy(c, Path[c][i])
                      /\ inference[c].cached => \A i \in DOMAIN inference[c].attempts : inference[c].attempts[i] = 0
    BY DEF FallbackInPolicyOrder, ChosenBy
  <2>1. PICK y \in CallRecords(c) : y = inference[c] /\ CallFollows(c, y)
    BY OneCall
  <2>2. /\ DOMAIN y.attempts = DOMAIN Path[c] /\ y.at \in DOMAIN Path[c]
        /\ DOMAIN Path[c] = 1 .. Len(Path[c]) /\ Len(Path[c]) \in Nat
        /\ Len(Path[c]) <= 1 + FallbackPolicy[c].maxAttempts /\ FallbackPolicy[c].maxAttempts \in Nat
    BY PathsFollowPolicy, PipelineAssumption DEF CallRecords
  <2>3. \A i \in DOMAIN Path[c] : y.attempts[i] <= MaxAttempts /\ (y.attempts[i] > 0 => i <= y.at)
    BY <2>1 DEF CallFollows
  <2>4. \A i \in DOMAIN Path[c] \ {1} : y.attempts[i] > 0 => y.at > 1
    BY <2>2, <2>3
  <2>5. y.at > 1 => y.attempts[1] = MaxAttempts
    BY <2>1 DEF CallFollows
  <2>6. y.cached => \A i \in DOMAIN Path[c] : y.attempts[i] = 0
    BY <2>1 DEF CallFollows
  <2>7. y.at <= 1 + FallbackPolicy[c].maxAttempts /\ \A i \in 2 .. y.at : i \in 2 .. Len(Path[c])
    BY <2>2
  <2>8. /\ \A i, j \in 2 .. y.at : i < j => TriedBefore(c, Path[c][i], Path[c][j])
        /\ \A i \in 2 .. y.at : ChosenBy(c, Path[c][i])
    BY <2>7, PathsFollowPolicy
  <2>9. \A i \in DOMAIN y.attempts \ {1} : y.attempts[i] > 0 => y.attempts[1] = MaxAttempts
    BY <2>2, <2>4, <2>5
  <2> QED
    BY <2>1, <2>2, <2>3, <2>6, <2>7, <2>8, <2>9
<1> QED
  BY <1>1, PipelineKeepsInvariant, PTL

\* Whatever the capacity, the time to live and the requests are, the prompt cache holds at
\* most one entry of a key, and only validated answers of a target on the path of an execution
\* with that key (recordCompletion, inference-pipeline.ts:121).
THEOREM CacheStaysValidated == PipelineSpec => []CacheHoldsValidated
<1>1. PipelineInv => CacheHoldsValidated
  BY DEF PipelineInv
<1> QED
  BY <1>1, PipelineKeepsInvariant, PTL

\* What the bounds of the pipeline keep small: the store, the windows of health and the time.
Windowed(h) == h \in HealthRecords /\ Len(h.samples) <= ObservationWindow

PipelineBounded ==
    /\ Len(promptCache) <= MaxEntries
    /\ \A t \in Targets : Windowed(health[t])
    /\ clock \in 0 .. MaxClock

\* What the health manager has seen of a circuit by the time an execution ends.
LEMMA WindowsSlide ==
    ASSUME NEW h, Windowed(h)
    PROVE  /\ \A success \in BOOLEAN : Windowed(AfterExecution(h, success))
           /\ \A state \in {"open", "half_open", "closed"} : Windowed(AfterCircuitEvent(h, state))
<1>1. h \in HealthRecords /\ h.samples \in Seq(BOOLEAN) /\ Len(h.samples) \in Nat /\ Len(h.samples) <= ObservationWindow
  BY LenProperties DEF Windowed, HealthRecords
<1>2. ASSUME NEW success \in BOOLEAN PROVE Windowed(AfterExecution(h, success))
  <2>1. PICK all : all = Append(h.samples, success)
    OBVIOUS
  <2>2. all \in Seq(BOOLEAN) /\ Len(all) = Len(h.samples) + 1
    BY <1>1, <2>1, AppendProperties
  <2>3. AfterExecution(h, success) \in HealthRecords
    BY <1>1, ExecutionsAreSampled
  <2>4. AfterExecution(h, success).samples = IF Len(all) > ObservationWindow THEN Tail(all) ELSE all
    BY <2>1 DEF AfterExecution, Refreshed
  <2>5. all # << >> => Len(Tail(all)) = Len(all) - 1
    BY <2>2, HeadTailProperties
  <2>6. all # << >>
    BY <1>1, <2>2
  <2>7. ObservationWindow \in Nat
    BY HealthAssumption
  <2>8. Len(AfterExecution(h, success).samples) <= ObservationWindow
    <3>1. CASE Len(all) > ObservationWindow
      BY <1>1, <2>2, <2>4, <2>5, <2>6, <2>7, <3>1
    <3>2. CASE ~(Len(all) > ObservationWindow)
      BY <1>1, <2>2, <2>4, <2>7, <3>2
    <3> QED
      BY <3>1, <3>2
  <2> QED
    BY <2>3, <2>8 DEF Windowed
<1>3. ASSUME NEW state \in {"open", "half_open", "closed"} PROVE Windowed(AfterCircuitEvent(h, state))
  <2>1. AfterCircuitEvent(h, state) \in HealthRecords
    BY <1>1, CircuitEventsAreSeen DEF ObservedCircuit
  <2>2. AfterCircuitEvent(h, state).samples = h.samples
    BY DEF AfterCircuitEvent, Refreshed
  <2> QED
    BY <1>1, <2>1, <2>2 DEF Windowed
<1> QED
  BY <1>2, <1>3

\* A step leaves the records of health, or one of a target is replaced by one as small.
LEMMA OneWindowMoves ==
    ASSUME PipelineInv, PipelineBounded, NEW p \in Targets, NEW h, Windowed(h),
           health' = [health EXCEPT ![p] = h]
    PROVE  \A t \in Targets : Windowed(health'[t])
<1>1. health \in [Targets -> HealthRecords]
  BY DEF PipelineInv, PipelineTyped
<1>2. \A t \in Targets : health'[t] = IF t = p THEN h ELSE health[t]
  BY <1>1
<1> QED
  BY <1>2 DEF PipelineBounded

LEMMA FailureIsWindowed ==
    ASSUME PipelineInv, PipelineBounded, NEW c \in InferenceCalls, NEW h, Windowed(h), Fail(c, h)
    PROVE  \A t \in Targets : Windowed(health'[t])
<1>1. PICK no \in BOOLEAN : no = FALSE
  OBVIOUS
<1>2. PICK g : g = AfterExecution(h, no) /\ Windowed(g)
  BY WindowsSlide
<1>3. health' = [health EXCEPT ![Primary(c)] = g]
  BY <1>1, <1>2 DEF Fail
<1> QED
  BY <1>2, <1>3, OneWindowMoves, OneCall

LEMMA WindowsStayBounded ==
    ASSUME PipelineInv, PipelineBounded, NEW c \in InferenceCalls, CallStep(c)
    PROVE  \A t \in Targets : Windowed(health'[t])
<1>1. PICK p, h : p \in Targets /\ p = Primary(c) /\ h = health[p] /\ Windowed(h)
  BY OneCall DEF PipelineBounded
<1>2. /\ Windowed(AfterCircuitEvent(h, "open")) /\ Windowed(AfterCircuitEvent(h, "half_open"))
      /\ Windowed(AfterCircuitEvent(h, "closed"))
  BY <1>1, WindowsSlide
<1>3. CASE health' = health
  BY <1>3 DEF PipelineBounded
<1>4. CASE RejectRequest(c)
  BY <1>1, <1>4, FailureIsWindowed DEF RejectRequest
<1>5. CASE PassRequest(c)
  <2>1. \/ health' = health
        \/ health' = [health EXCEPT ![p] = AfterCircuitEvent(h, "half_open")]
        \/ Fail(c, AfterCircuitEvent(h, "open"))
    BY <1>1, <1>5 DEF PassRequest
  <2> QED
    BY <1>1, <1>2, <1>3, <2>1, OneWindowMoves, FailureIsWindowed
<1>6. ASSUME NEW valid \in BOOLEAN, ProviderSucceeds(c, valid) PROVE \A t \in Targets : Windowed(health'[t])
  <2>1. health' = health \/ health' = [health EXCEPT ![p] = AfterCircuitEvent(h, "closed")]
    BY <1>1, <1>6 DEF ProviderSucceeds
  <2> QED
    BY <1>1, <1>2, <1>3, <2>1, OneWindowMoves
<1>7. ASSUME NEW kind \in {Transient, Permanent}, ProviderFails(c, kind) PROVE \A t \in Targets : Windowed(health'[t])
  <2>1. health' = health \/ Fail(c, h) \/ Fail(c, AfterCircuitEvent(h, "open"))
    BY <1>1, <1>7 DEF ProviderFails
  <2> QED
    BY <1>1, <1>2, <1>3, <2>1, FailureIsWindowed
<1>8. CASE RetryInvoke(c)
  BY <1>3, <1>8 DEF RetryInvoke
<1>9. CASE ValidateResponse(c)
  <2>1. PICK yes \in BOOLEAN : yes = TRUE
    OBVIOUS
  <2>2. health' = [health EXCEPT ![p] = AfterExecution(h, yes)] \/ Fail(c, h)
    BY <1>1, <1>9, <2>1 DEF ValidateResponse
  <2>3. Windowed(AfterExecution(h, yes))
    BY <1>1, WindowsSlide
  <2> QED
    BY <1>1, <2>2, <2>3, OneWindowMoves, FailureIsWindowed
<1> QED
  BY <1>4, <1>5, <1>6, <1>7, <1>8, <1>9 DEF CallStep

\* The store never holds more than its capacity: a lookup adds nothing, a write evicts.
LEMMA StoreStaysBounded ==
    ASSUME PipelineInv, PipelineBounded, NEW c \in InferenceCalls, Begin(c) \/ CallStep(c)
    PROVE  Len(promptCache') <= MaxEntries
<1>1. PICK E : E = ValidEntries
  OBVIOUS
<1>2. promptCache \in Seq(E) /\ DistinctKeys(promptCache) /\ Sound(promptCache) /\ clock \in Nat
  BY <1>1, OneCall DEF Sound
<1>3. Len(promptCache) \in Nat /\ MaxEntries \in Nat /\ Len(promptCache) <= MaxEntries
  BY <1>2, LenProperties, PipelineAssumption DEF PipelineBounded
<1>4. CASE Begin(c)
  <2>1. PICK after : after = AfterLookup(promptCache, CacheKey(c), clock)
    OBVIOUS
  <2>2. after \in Seq(E) /\ Len(after) <= Len(promptCache)
    BY <1>2, <2>1, LookupKeeps
  <2>3. promptCache' = after /\ Len(after) \in Nat
    BY <1>4, <2>1, <2>2, LenProperties DEF Begin
  <2> QED
    BY <1>3, <2>2, <2>3
<1>5. CASE promptCache' = promptCache
  BY <1>3, <1>5
<1>6. CASE ValidateResponse(c) /\ promptCache' # promptCache
  <2>1. PICK y \in CallRecords(c) : y = inference[c] /\ CallFollows(c, y) /\ y.phase = "validate"
    BY <1>6, OneCall DEF ValidateResponse
  <2>2. y.response.valid /\ ~y.cached
    BY <1>6, <2>1 DEF ValidateResponse
  <2>3. PICK response \in Responses : response = y.response /\ response.valid
    BY <2>1, <2>2 DEF CallFollows
  <2>4. \E k \in DOMAIN Path[c] : response.by = Path[c][k]
    BY <2>1, <2>2, <2>3 DEF CallFollows, CallRecords
  <2>5. promptCache' = AfterStore(promptCache, CacheKey(c), response, clock, Ttl, MaxEntries)
    BY <1>6, <2>1, <2>2, <2>3 DEF ValidateResponse
  <2> QED
    BY <1>2, <2>3, <2>4, <2>5, StoreKeepsSound
<1>7. CallStep(c) => promptCache' = promptCache \/ ValidateResponse(c)
  BY DEF CallStep, RejectRequest, PassRequest, ProviderSucceeds, ProviderFails, RetryInvoke
<1> QED
  BY <1>4, <1>5, <1>6, <1>7

LEMMA PipelineStaysBounded == PipelineInv /\ PipelineBounded /\ [PipelineNext]_pipelineVars => PipelineBounded'
<1> SUFFICES ASSUME PipelineInv, PipelineBounded, [PipelineNext]_pipelineVars PROVE PipelineBounded'
  OBVIOUS
<1>1. ASSUME NEW c \in InferenceCalls, Begin(c) PROVE PipelineBounded'
  <2>1. health' = health /\ clock' = clock
    BY <1>1 DEF Begin
  <2>2. Len(promptCache') <= MaxEntries
    BY <1>1, StoreStaysBounded
  <2> QED
    BY <2>1, <2>2 DEF PipelineBounded
<1>2. ASSUME NEW c \in InferenceCalls, CallStep(c) PROVE PipelineBounded'
  <2>1. clock' = clock
    BY <1>2 DEF CallStep, RejectRequest, PassRequest, ProviderSucceeds, ProviderFails, RetryInvoke, ValidateResponse
  <2>2. Len(promptCache') <= MaxEntries
    BY <1>2, StoreStaysBounded
  <2>3. \A t \in Targets : Windowed(health'[t])
    BY <1>2, WindowsStayBounded
  <2> QED
    BY <2>1, <2>2, <2>3 DEF PipelineBounded
<1>3. ASSUME NEW t \in Targets, BatchTimeout(t) PROVE PipelineBounded'
  BY <1>3 DEF BatchTimeout, PipelineBounded
<1>4. CASE Tick
  BY <1>4, PipelineAssumption DEF Tick, PipelineBounded
<1>5. CASE UNCHANGED pipelineVars
  BY <1>5 DEF pipelineVars, PipelineBounded
<1> QED
  BY <1>1, <1>2, <1>3, <1>4, <1>5 DEF PipelineNext, PipelineStep

LEMMA PipelineStartsBounded == PipelineInit => PipelineBounded
<1> SUFFICES ASSUME PipelineInit PROVE PipelineBounded
  OBVIOUS
<1>1. promptCache = << >> /\ clock = 0 /\ \A t \in Targets : health[t] = NewHealth
  BY DEF PipelineInit
<1>2. Windowed(NewHealth)
  BY HealthAssumption DEF Windowed, NewHealth, HealthRecords, ObservedCircuit, HealthStatus
<1> QED
  BY <1>1, <1>2, PipelineAssumption DEF PipelineBounded

LEMMA PipelinesAreTyped == PipelineInv /\ PipelineBounded => PipelineTypeOK
<1> SUFFICES ASSUME PipelineInv, PipelineBounded PROVE PipelineTypeOK
  OBVIOUS
<1>1. ASSUME NEW c \in InferenceCalls
      PROVE  /\ inference[c].phase \in Phases
             /\ inference[c].response \in Responses \cup {NoResponse}
             /\ inference[c].at \in DOMAIN Path[c]
             /\ inference[c].attempts \in [DOMAIN Path[c] -> 0 .. MaxAttempts]
  <2>1. PICK y \in CallRecords(c) : y = inference[c] /\ CallFollows(c, y)
    BY OneCall
  <2>2. \A i \in DOMAIN Path[c] : y.attempts[i] <= MaxAttempts
    BY <2>1 DEF CallFollows
  <2>3. y.attempts \in [DOMAIN Path[c] -> Nat] /\ MaxAttempts \in Nat
    BY PipelineAssumption DEF CallRecords
  <2>4. y.attempts \in [DOMAIN Path[c] -> 0 .. MaxAttempts]
    BY <2>2, <2>3
  <2> QED
    BY <2>1, <2>4 DEF CallRecords
<1>2. ASSUME NEW t \in Targets
      PROVE  /\ Len(health[t].samples) <= ObservationWindow
             /\ health[t].circuit \in ObservedCircuit /\ health[t].status \in HealthStatus
  BY DEF PipelineBounded, Windowed, HealthRecords
<1>3. circuit \in [Targets -> Circuits] /\ held \in [Targets -> Seq(InferenceCalls)]
  BY DEF PipelineInv, PipelineTyped
<1> QED
  BY <1>1, <1>2, <1>3 DEF PipelineBounded, PipelineTypeOK

\* The pipeline's state keeps its types, and what its policies bound stays bounded: the
\* attempts at a target, the samples of a window and the entries of the prompt cache
\* (exact-match-cache-store.ts, health-manager.ts:77).
THEOREM PipelineTypeCorrect == PipelineSpec => []PipelineTypeOK
<1>1. PipelineInit => PipelineBounded
  BY PipelineStartsBounded
<1>2. PipelineInv /\ PipelineBounded => PipelineTypeOK
  BY PipelinesAreTyped
<1> QED
  BY <1>1, <1>2, PipelineKeepsInvariant, PipelineStaysBounded, PTL DEF PipelineSpec

-----------------------------------------------------------------------------
\* The cache platform. A call whose answer came fresh and validated, and what may last.
Wrote(c) == cacheCall[c].at \in {"storing", "answered"} /\ cacheCall[c].answer = NoAnswer

MayLast(until) == \E ttl \in Ttls : until <= cacheTime + ttl

\* What the stores may hold by now.
ExactEntries ==
    {[key |-> ExactKey(CacheRequest[c]), response |-> c, expiresAt |-> until] :
       c \in {c \in CacheCalls : Wrote(c)}, until \in {t \in Nat : MayLast(t)}}

SemanticEntries ==
    {[group |-> CompatGroup(CacheRequest[c]), prompt |-> CacheRequest[c].prompt, response |-> c, expiresAt |-> until] :
       c \in {c \in CacheCalls : Wrote(c)}, until \in {t \in Nat : MayLast(t)}}

Fits(store) == \E n \in Capacities : Len(store) <= n

CacheCallTyped(call) ==
    /\ call = [at |-> call.at, todo |-> call.todo, policy |-> call.policy, answer |-> call.answer]
    /\ call.at \in {"idle", "looking", "invoking", "storing", "served", "answered", "failed"}
    /\ call.at \in {"looking", "storing"} => call.policy \in CachePolicies
    /\ call.at # "served" => call.answer = NoAnswer

\* What ServedIsComparable says of one call.
ServedWell(c) ==
    cacheCall[c].at = "served" =>
      LET a == cacheCall[c].answer
          r == CacheRequest[c]
          q == CacheRequest[a.by]
      IN  /\ cacheCall[a.by].at \in {"storing", "answered"} /\ cacheCall[a.by].answer = NoAnswer
          /\ r.target = q.target /\ r.format = q.format
          /\ a.store = "exact" => r.prompt = q.prompt /\ r.maxTokens = q.maxTokens
          /\ a.store = "semantic" => r.workload = q.workload /\ Similarity[r.prompt][q.prompt] >= a.threshold

CacheTyped ==
    /\ cachePolicy \in CachePolicies /\ similarityPolicy \in SimilarityPolicies
    /\ cacheTime \in 0 .. MaxCacheTime
    /\ cacheCall = [c \in CacheCalls |-> cacheCall[c]]
    /\ \A c \in CacheCalls : CacheCallTyped(cacheCall[c])

StoresHoldWritten ==
    /\ exactStore \in Seq(ExactEntries) /\ DistinctKeys(exactStore) /\ Fits(exactStore)
    /\ semanticStore \in Seq(SemanticEntries) /\ Fits(semanticStore)

\* That a served answer was fresh is not inductive alone: it was read from a store.
CacheInv ==
    /\ CacheTyped
    /\ StoresHoldWritten
    /\ \A c \in CacheCalls : ServedWell(c) /\ (cacheCall[c].at = "served" => cacheCall[c].answer.by \in CacheCalls)

LEMMA CacheStarts == CacheInit => CacheInv
<1> SUFFICES ASSUME CacheInit PROVE CacheInv
  OBVIOUS
<1>1. \A c \in CacheCalls : cacheCall[c] = IdleCacheCall
  BY DEF CacheInit
<1>2. CacheTyped
  BY <1>1, CacheAssumption DEF CacheInit, CacheTyped, CacheCallTyped, IdleCacheCall
<1>3. Fits(<< >>)
  BY <1>2, CacheAssumption, EmptySeq DEF Fits, Capacities, CacheTyped
<1>4. StoresHoldWritten
  BY <1>3, EmptySeq DEF CacheInit, StoresHoldWritten, DistinctKeys
<1>5. \A c \in CacheCalls : cacheCall[c].at = "idle"
  BY <1>1 DEF IdleCacheCall
<1> QED
  BY <1>2, <1>4, <1>5 DEF CacheInv, ServedWell

\* What was written stays written, and lasts no less for time passing.
LEMMA EntriesStay ==
    ASSUME CacheInv, cacheTime' \in Nat, cacheTime <= cacheTime', \A c \in CacheCalls : Wrote(c) => Wrote(c)'
    PROVE  /\ exactStore \in Seq(ExactEntries') /\ semanticStore \in Seq(SemanticEntries')
           /\ ExactEntries \subseteq ExactEntries' /\ SemanticEntries \subseteq SemanticEntries'
<1>1. \A t \in Nat : MayLast(t) => MayLast(t)'
  <2>1. \A ttl \in Ttls : ttl \in Nat
    BY CacheAssumption DEF Ttls
  <2>2. cacheTime \in Nat
    BY CacheAssumption DEF CacheInv, CacheTyped
  <2> QED
    BY <2>1, <2>2 DEF MayLast
<1>2. ExactEntries \subseteq ExactEntries'
  BY <1>1 DEF ExactEntries
<1>3. SemanticEntries \subseteq SemanticEntries'
  BY <1>1 DEF SemanticEntries
<1>4. exactStore \in Seq(ExactEntries) /\ semanticStore \in Seq(SemanticEntries)
  BY DEF CacheInv, StoresHoldWritten
<1> QED
  BY <1>2, <1>3, <1>4, SeqMonotonic

\* One call goes on to another step, or is served; the other calls stay as they are.
LEMMA CacheCallMoves ==
    ASSUME CacheInv, NEW c \in CacheCalls, NEW call, cacheCall' = [cacheCall EXCEPT ![c] = call],
           CacheCallTyped(call), cacheTime' = cacheTime, UNCHANGED <<cachePolicy, similarityPolicy>>,
           Wrote(c) => call.at \in {"storing", "answered"} /\ call.answer = NoAnswer
    PROVE  /\ CacheTyped'
           /\ cacheCall'[c] = call /\ \A d \in CacheCalls \ {c} : cacheCall'[d] = cacheCall[d]
           /\ \A d \in CacheCalls : Wrote(d) => Wrote(d)'
           /\ exactStore \in Seq(ExactEntries') /\ semanticStore \in Seq(SemanticEntries')
           /\ ExactEntries \subseteq ExactEntries' /\ SemanticEntries \subseteq SemanticEntries'
           /\ \A d \in CacheCalls \ {c} : ServedWell(d)' /\ (cacheCall'[d].at = "served" => cacheCall'[d].answer.by \in CacheCalls)
<1>1. cacheCall = [d \in CacheCalls |-> cacheCall[d]]
  BY DEF CacheInv, CacheTyped
<1>2. cacheCall'[c] = call /\ \A d \in CacheCalls \ {c} : cacheCall'[d] = cacheCall[d]
  BY <1>1
<1>3. cacheCall' = [d \in CacheCalls |-> cacheCall'[d]]
  BY <1>1
<1>4. CacheTyped'
  <2>1. \A d \in CacheCalls : CacheCallTyped(cacheCall'[d])
    BY <1>2 DEF CacheInv, CacheTyped
  <2> QED
    BY <1>3, <2>1 DEF CacheInv, CacheTyped, CacheCallTyped
<1>5. \A d \in CacheCalls : Wrote(d) => Wrote(d)'
  BY <1>2 DEF Wrote
<1>6. cacheTime' \in Nat /\ cacheTime <= cacheTime'
  BY CacheAssumption DEF CacheInv, CacheTyped
<1>7. ASSUME NEW d \in CacheCalls \ {c}
      PROVE  ServedWell(d)' /\ (cacheCall'[d].at = "served" => cacheCall'[d].answer.by \in CacheCalls)
  <2>1. ServedWell(d) /\ (cacheCall[d].at = "served" => cacheCall[d].answer.by \in CacheCalls)
    BY DEF CacheInv
  <2>2. cacheCall'[d] = cacheCall[d]
    BY <1>2
  <2>3. \A b \in CacheCalls : cacheCall[b].at \in {"storing", "answered"} /\ cacheCall[b].answer = NoAnswer
          => cacheCall'[b].at \in {"storing", "answered"} /\ cacheCall'[b].answer = NoAnswer
    BY <1>5 DEF Wrote
  <2> QED
    BY <2>1, <2>2, <2>3 DEF ServedWell
<1>8. /\ exactStore \in Seq(ExactEntries') /\ semanticStore \in Seq(SemanticEntries')
      /\ ExactEntries \subseteq ExactEntries' /\ SemanticEntries \subseteq SemanticEntries'
  BY <1>5, <1>6, EntriesStay
<1> QED
  BY <1>2, <1>4, <1>5, <1>7, <1>8

\* ... without an answer from a store.
LEMMA CacheCallGoesOn ==
    ASSUME CacheInv, NEW c \in CacheCalls, NEW call, cacheCall' = [cacheCall EXCEPT ![c] = call],
           CacheCallTyped(call), cacheTime' = cacheTime, UNCHANGED <<cachePolicy, similarityPolicy>>,
           Wrote(c) => call.at \in {"storing", "answered"} /\ call.answer = NoAnswer,
           call.at # "served", StoresHoldWritten'
    PROVE  CacheInv'
<1>1. /\ CacheTyped' /\ cacheCall'[c] = call
      /\ \A d \in CacheCalls \ {c} : ServedWell(d)' /\ (cacheCall'[d].at = "served" => cacheCall'[d].answer.by \in CacheCalls)
  BY CacheCallMoves
<1>2. ServedWell(c)' /\ cacheCall'[c].at # "served"
  BY <1>1 DEF ServedWell
<1> QED
  BY <1>1, <1>2 DEF CacheInv

LEMMA RemainingFacts ==
    ASSUME NEW call, CacheCallTyped(call), NEW end \in {"invoking", "answered"}, call.at \in {"looking", "storing"}
    PROVE  /\ CacheCallTyped(Remaining(call, end)) /\ Remaining(call, end).at \in {call.at, end}
           /\ Remaining(call, end).answer = NoAnswer
<1>1. PICK left : left = Remaining(call, end)
  OBVIOUS
<1>2. left = [at |-> IF Len(call.todo) = 1 THEN end ELSE call.at, todo |-> Tail(call.todo),
              policy |-> call.policy, answer |-> call.answer]
  BY <1>1 DEF Remaining, CacheCallTyped
<1>3. /\ left.at = (IF Len(call.todo) = 1 THEN end ELSE call.at) /\ left.policy = call.policy
      /\ left.answer = call.answer
      /\ left = [at |-> left.at, todo |-> left.todo, policy |-> left.policy, answer |-> left.answer]
  BY <1>2
<1> QED
  BY <1>1, <1>3 DEF CacheCallTyped

\* A call with some fields changed, written out.
LEMMA CallMoved ==
    ASSUME NEW call, CacheCallTyped(call), NEW at
    PROVE  [call EXCEPT !.at = at] = [at |-> at, todo |-> call.todo, policy |-> call.policy, answer |-> call.answer]
<1>1. PICK changed : changed = [call EXCEPT !.at = at]
  OBVIOUS
<1>2. changed = [at |-> at, todo |-> call.todo, policy |-> call.policy, answer |-> call.answer]
  BY <1>1 DEF CacheCallTyped
<1> QED
  BY <1>1, <1>2

LEMMA CallServed ==
    ASSUME NEW call, CacheCallTyped(call), NEW at, NEW answer
    PROVE  [call EXCEPT !.at = at, !.answer = answer] = [at |-> at, todo |-> call.todo, policy |-> call.policy, answer |-> answer]
<1>1. PICK changed : changed = [call EXCEPT !.at = at, !.answer = answer]
  OBVIOUS
<1>2. changed = [at |-> at, todo |-> call.todo, policy |-> call.policy, answer |-> answer]
  BY <1>1 DEF CacheCallTyped
<1> QED
  BY <1>1, <1>2

LEMMA CallBegun ==
    ASSUME NEW call, CacheCallTyped(call), NEW at, NEW todo, NEW policy
    PROVE  [call EXCEPT !.at = at, !.todo = todo, !.policy = policy] = [at |-> at, todo |-> todo, policy |-> policy, answer |-> call.answer]
<1>1. PICK changed : changed = [call EXCEPT !.at = at, !.todo = todo, !.policy = policy]
  OBVIOUS
<1>2. changed = [at |-> at, todo |-> todo, policy |-> policy, answer |-> call.answer]
  BY <1>1 DEF CacheCallTyped
<1> QED
  BY <1>1, <1>2

LEMMA CacheOthersKeep ==
    ASSUME CacheInv, ConfigureCaches \/ CacheTick \/ UNCHANGED cacheVars
    PROVE  CacheInv'
<1>1. /\ UNCHANGED <<exactStore, semanticStore, cacheCall>>
      /\ cachePolicy' \in CachePolicies /\ similarityPolicy' \in SimilarityPolicies
      /\ cacheTime' \in 0 .. MaxCacheTime /\ cacheTime <= cacheTime' /\ cacheTime' \in Nat
  BY CacheAssumption DEF CacheInv, CacheTyped, ConfigureCaches, CacheTick, cacheVars
<1>2. CacheTyped'
  BY <1>1 DEF CacheInv, CacheTyped, CacheCallTyped
<1>3. \A c \in CacheCalls : Wrote(c) => Wrote(c)'
  BY <1>1 DEF Wrote
<1>4. exactStore \in Seq(ExactEntries') /\ semanticStore \in Seq(SemanticEntries')
  BY <1>1, <1>3, EntriesStay
<1>5. StoresHoldWritten'
  BY <1>1, <1>4 DEF CacheInv, StoresHoldWritten, DistinctKeys, Fits
<1> QED
  BY <1>1, <1>2, <1>5 DEF CacheInv, ServedWell

LEMMA BeginLookupKeeps ==
    ASSUME CacheInv, NEW c \in CacheCalls, BeginLookup(c)
    PROVE  CacheInv'
<1>1. CacheCallTyped(cacheCall[c]) /\ cacheCall[c].at = "idle" /\ cachePolicy \in CachePolicies
  BY DEF BeginLookup, CacheInv, CacheTyped
<1>2. PICK call : /\ cacheCall' = [cacheCall EXCEPT ![c] = call]
                  /\ \/ call = [at |-> "looking", todo |-> Resolved(cachePolicy), policy |-> cachePolicy,
                                answer |-> cacheCall[c].answer]
                     \/ call = [at |-> "invoking", todo |-> cacheCall[c].todo, policy |-> cacheCall[c].policy,
                                answer |-> cacheCall[c].answer]
  <2>1. PICK call : call = [cacheCall[c] EXCEPT !.at = "looking", !.todo = Resolved(cachePolicy), !.policy = cachePolicy]
    OBVIOUS
  <2>2. PICK passed : passed = [cacheCall[c] EXCEPT !.at = "invoking"]
    OBVIOUS
  <2>3. cacheCall' = [cacheCall EXCEPT ![c] = call] \/ cacheCall' = [cacheCall EXCEPT ![c] = passed]
    BY <2>1, <2>2 DEF BeginLookup
  <2>4. call = [at |-> "looking", todo |-> Resolved(cachePolicy), policy |-> cachePolicy, answer |-> cacheCall[c].answer]
    BY <1>1, <2>1, CallBegun
  <2>5. passed = [at |-> "invoking", todo |-> cacheCall[c].todo, policy |-> cacheCall[c].policy,
                   answer |-> cacheCall[c].answer]
    BY <1>1, <2>2, CallMoved
  <2> QED
    BY <2>2, <2>3, <2>4, <2>5
<1>3. CacheCallTyped(call) /\ call.at # "served"
  BY <1>1, <1>2 DEF CacheCallTyped
<1>4. ~Wrote(c)
  BY <1>1 DEF Wrote
<1>5. UNCHANGED <<cachePolicy, similarityPolicy, exactStore, semanticStore, cacheTime>>
  BY DEF BeginLookup
<1>6. exactStore \in Seq(ExactEntries') /\ semanticStore \in Seq(SemanticEntries')
  BY <1>2, <1>3, <1>4, <1>5, CacheCallMoves
<1>7. StoresHoldWritten'
  BY <1>5, <1>6 DEF CacheInv, StoresHoldWritten, DistinctKeys, Fits
<1> QED
  BY <1>2, <1>3, <1>4, <1>5, <1>7, CacheCallGoesOn

LEMMA ProviderAnswersKeep ==
    ASSUME CacheInv, NEW c \in CacheCalls, ProviderAnswers(c)
    PROVE  CacheInv'
<1>1. CacheCallTyped(cacheCall[c]) /\ cacheCall[c].at = "invoking" /\ cachePolicy \in CachePolicies
  BY DEF ProviderAnswers, CacheInv, CacheTyped
<1>2. PICK call : /\ cacheCall' = [cacheCall EXCEPT ![c] = call]
                  /\ \/ call = [at |-> "storing", todo |-> Resolved(cachePolicy), policy |-> cachePolicy,
                                answer |-> cacheCall[c].answer]
                     \/ \E at \in {"answered", "failed"} :
                          call = [at |-> at, todo |-> cacheCall[c].todo, policy |-> cacheCall[c].policy,
                                  answer |-> cacheCall[c].answer]
  <2>1. PICK call : call = [cacheCall[c] EXCEPT !.at = "storing", !.todo = Resolved(cachePolicy), !.policy = cachePolicy]
    OBVIOUS
  <2>2. PICK at \in {"answered", "failed"} :
          cacheCall' = [cacheCall EXCEPT ![c] = call] \/ cacheCall' = [cacheCall EXCEPT ![c] = [cacheCall[c] EXCEPT !.at = at]]
    BY <2>1 DEF ProviderAnswers
  <2>3. PICK passed : passed = [cacheCall[c] EXCEPT !.at = at]
    OBVIOUS
  <2>4. call = [at |-> "storing", todo |-> Resolved(cachePolicy), policy |-> cachePolicy, answer |-> cacheCall[c].answer]
    BY <1>1, <2>1, CallBegun
  <2>5. passed = [at |-> at, todo |-> cacheCall[c].todo, policy |-> cacheCall[c].policy,
                   answer |-> cacheCall[c].answer]
    BY <1>1, <2>3, CallMoved
  <2> QED
    BY <2>2, <2>3, <2>4, <2>5
<1>3. CacheCallTyped(call) /\ call.at # "served"
  BY <1>1, <1>2 DEF CacheCallTyped
<1>4. ~Wrote(c)
  BY <1>1 DEF Wrote
<1>5. UNCHANGED <<cachePolicy, similarityPolicy, exactStore, semanticStore, cacheTime>>
  BY DEF ProviderAnswers
<1>6. exactStore \in Seq(ExactEntries') /\ semanticStore \in Seq(SemanticEntries')
  BY <1>2, <1>3, <1>4, <1>5, CacheCallMoves
<1>7. StoresHoldWritten'
  BY <1>5, <1>6 DEF CacheInv, StoresHoldWritten, DistinctKeys, Fits
<1> QED
  BY <1>2, <1>3, <1>4, <1>5, <1>7, CacheCallGoesOn

\* An entry of either store was written for a call whose answer came fresh and validated.
LEMMA ExactEntriesWereWritten ==
    ASSUME NEW e \in ExactEntries
    PROVE  e.response \in CacheCalls /\ Wrote(e.response) /\ e.key = ExactKey(CacheRequest[e.response])
<1>1. PICK b \in CacheCalls, until \in Nat :
        Wrote(b) /\ e = [key |-> ExactKey(CacheRequest[b]), response |-> b, expiresAt |-> until]
  BY DEF ExactEntries
<1> QED
  BY <1>1

LEMMA SemanticEntriesWereWritten ==
    ASSUME NEW e \in SemanticEntries
    PROVE  /\ e.response \in CacheCalls /\ Wrote(e.response) /\ e.group = CompatGroup(CacheRequest[e.response])
           /\ e.prompt = CacheRequest[e.response].prompt
<1>1. PICK b \in CacheCalls, until \in Nat :
        Wrote(b) /\ e = [group |-> CompatGroup(CacheRequest[b]), prompt |-> CacheRequest[b].prompt,
                         response |-> b, expiresAt |-> until]
  BY DEF SemanticEntries
<1> QED
  BY <1>1

LEMMA LookInExactKeeps ==
    ASSUME CacheInv, NEW c \in CacheCalls, LookInExact(c)
    PROVE  CacheInv'
<1> DEFINE key == ExactKey(CacheRequest[c])
<1>1. CacheCallTyped(cacheCall[c]) /\ cacheCall[c].at = "looking" /\ cacheCall[c].answer = NoAnswer /\ ~Wrote(c)
  BY DEF LookInExact, CacheInv, CacheTyped, CacheCallTyped, Wrote
<1>2. /\ exactStore \in Seq(ExactEntries) /\ DistinctKeys(exactStore) /\ Fits(exactStore)
      /\ exactStore' = AfterLookup(exactStore, key, cacheTime)
      /\ UNCHANGED <<cachePolicy, similarityPolicy, semanticStore, cacheTime>>
  BY DEF LookInExact, CacheInv, StoresHoldWritten
<1>3. /\ exactStore' \in Seq(ExactEntries) /\ DistinctKeys(exactStore') /\ Len(exactStore') <= Len(exactStore)
      /\ IsHit(exactStore, key, cacheTime) =>
           Entry(exactStore, key) \in ExactEntries /\ Entry(exactStore, key).key = key
  BY <1>2, LookupKeeps
<1>4. Fits(exactStore')
  <2>1. Len(exactStore) \in Nat /\ Len(exactStore') \in Nat /\ \A n \in Capacities : n \in Nat
    BY <1>2, <1>3, CacheAssumption, LenProperties DEF Capacities
  <2> QED
    BY <1>2, <1>3, <2>1 DEF Fits
<1>5. ASSUME ExactEntries \subseteq ExactEntries', semanticStore \in Seq(SemanticEntries') PROVE StoresHoldWritten'
  <2>1. exactStore' \in Seq(ExactEntries')
    BY <1>3, <1>5, SeqMonotonic
  <2> QED
    BY <1>2, <1>3, <1>4, <1>5, <2>1 DEF CacheInv, StoresHoldWritten, Fits, DistinctKeys
<1>6. CASE ~IsHit(exactStore, key, cacheTime)
  <2>1. PICK call : call = Remaining(cacheCall[c], "invoking")
    OBVIOUS
  <2>2. cacheCall' = [cacheCall EXCEPT ![c] = call]
    BY <1>6, <2>1 DEF LookInExact
  <2>3. CacheCallTyped(call) /\ call.at # "served"
    BY <1>1, <2>1, RemainingFacts
  <2>4. ExactEntries \subseteq ExactEntries' /\ semanticStore \in Seq(SemanticEntries')
    BY <1>1, <1>2, <2>2, <2>3, CacheCallMoves
  <2> QED
    BY <1>1, <1>2, <1>5, <2>2, <2>3, <2>4, CacheCallGoesOn
<1>7. CASE IsHit(exactStore, key, cacheTime)
  <2>1. PICK b \in CacheCalls : b = Entry(exactStore, key).response /\ Wrote(b) /\ key = ExactKey(CacheRequest[b])
    BY <1>3, <1>7, ExactEntriesWereWritten
  <2>2. PICK call : call = [at |-> "served", todo |-> cacheCall[c].todo, policy |-> cacheCall[c].policy,
                            answer |-> Answer(b, "exact")]
    OBVIOUS
  <2>3. cacheCall' = [cacheCall EXCEPT ![c] = call]
    <3>1. [cacheCall[c] EXCEPT !.at = "served", !.answer = Answer(b, "exact")] = call
      BY <1>1, <2>2, CallServed, Zenon
    <3>2. cacheCall = [d \in CacheCalls |-> cacheCall[d]]
      BY DEF CacheInv, CacheTyped
    <3> QED
      BY <1>7, <2>1, <3>1, <3>2 DEF LookInExact
  <2>4. CacheCallTyped(call)
    BY <2>2 DEF CacheCallTyped
  <2>5. /\ CacheTyped' /\ cacheCall'[c] = call /\ (\A d \in CacheCalls : Wrote(d) => Wrote(d)')
        /\ ExactEntries \subseteq ExactEntries' /\ semanticStore \in Seq(SemanticEntries')
        /\ \A d \in CacheCalls \ {c} :
             ServedWell(d)' /\ (cacheCall'[d].at = "served" => cacheCall'[d].answer.by \in CacheCalls)
    BY <1>1, <1>2, <2>3, <2>4, CacheCallMoves
  <2>6. /\ cacheCall'[c].answer.by = b /\ cacheCall'[c].answer.store = "exact"
        /\ cacheCall'[b].at \in {"storing", "answered"} /\ cacheCall'[b].answer = NoAnswer
    <3>1. cacheCall'[c].answer = Answer(b, "exact")
      BY <2>2, <2>5
    <3>2. Wrote(b)'
      BY <2>1, <2>5
    <3> QED
      BY <3>1, <3>2 DEF Answer, Wrote
  <2>7. /\ CacheRequest[c].target = CacheRequest[b].target /\ CacheRequest[c].format = CacheRequest[b].format
        /\ CacheRequest[c].prompt = CacheRequest[b].prompt /\ CacheRequest[c].maxTokens = CacheRequest[b].maxTokens
    BY <2>1 DEF ExactKey
  <2>8. ServedWell(c)'
    BY <2>6, <2>7 DEF ServedWell
  <2> QED
    BY <1>5, <2>5, <2>6, <2>8 DEF CacheInv
<1> QED
  BY <1>6, <1>7

\* What the semantic store has left is a part of it, with the hit at its young end.
LEMMA LookInSemanticKeeps ==
    ASSUME CacheInv, NEW c \in CacheCalls, LookInSemantic(c)
    PROVE  CacheInv'
<1> DEFINE r == CacheRequest[c]
           unexpired == {i \in DOMAIN semanticStore : cacheTime <= semanticStore[i].expiresAt}
           live == Kept(semanticStore, unexpired)
<1>1. CacheCallTyped(cacheCall[c]) /\ cacheCall[c].at = "looking" /\ cacheCall[c].answer = NoAnswer /\ ~Wrote(c)
  BY DEF LookInSemantic, CacheInv, CacheTyped, CacheCallTyped, Wrote
<1>2. /\ semanticStore \in Seq(SemanticEntries) /\ Fits(semanticStore)
      /\ UNCHANGED <<cachePolicy, similarityPolicy, exactStore, cacheTime>>
  BY DEF LookInSemantic, CacheInv, StoresHoldWritten
<1>3. \/ /\ semanticStore' = live
         /\ cacheCall' = [cacheCall EXCEPT ![c] = Remaining(cacheCall[c], "invoking")]
      \/ \E hit \in DOMAIN live :
           /\ live[hit].group = CompatGroup(r)
           /\ Similarity[r.prompt][live[hit].prompt] >= similarityPolicy.threshold
           /\ semanticStore' = RemoveAt(live, hit) \o <<live[hit]>>
           /\ cacheCall' = [cacheCall EXCEPT ![c] = [cacheCall[c] EXCEPT !.at = "served",
                                                       !.answer = Answer(live[hit].response, "semantic")]]
  <2> DEFINE similarity(i) == Similarity[r.prompt][live[i].prompt]
             candidates == {i \in DOMAIN live : live[i].group = CompatGroup(r) /\ similarity(i) > 0}
             better(i, j) == similarity(i) > similarity(j) \/ (similarity(i) = similarity(j) /\ i < j)
             hits == {i \in candidates : /\ similarity(i) >= similarityPolicy.threshold
                                         /\ \A j \in candidates \ {i} : better(i, j)}
             hit == CHOOSE i \in hits : TRUE
             found == similarityPolicy.enabled /\ hits # {}
  <2>1. /\ semanticStore' = IF found THEN RemoveAt(live, hit) \o <<live[hit]>> ELSE live
        /\ cacheCall' = [cacheCall EXCEPT ![c] =
             IF found THEN [cacheCall[c] EXCEPT !.at = "served", !.answer = Answer(live[hit].response, "semantic")]
             ELSE Remaining(cacheCall[c], "invoking")]
    BY Zenon DEF LookInSemantic
  <2>2. found => hit \in hits
    OBVIOUS
  <2>3. found => /\ hit \in DOMAIN live /\ live[hit].group = CompatGroup(r)
                 /\ Similarity[r.prompt][live[hit].prompt] >= similarityPolicy.threshold
    BY <2>2
  <2> HIDE DEF found, hit
  <2> QED
    BY <2>1, <2>3
<1> HIDE DEF live
<1>4. /\ live \in Seq(SemanticEntries) /\ Len(live) <= Len(semanticStore)
      /\ Len(live) \in Nat /\ DOMAIN live = 1 .. Len(live)
  <2>1. live \in Seq(SemanticEntries) /\ Len(live) <= Len(semanticStore)
    BY <1>2, KeptIsPart DEF live
  <2> QED
    BY <2>1, LenProperties
<1>6. \A n \in Capacities : n \in Nat
  BY CacheAssumption DEF Capacities
<1>7. Len(semanticStore) \in Nat
  BY <1>2, LenProperties
<1>8. ASSUME semanticStore' \in Seq(SemanticEntries), Len(semanticStore') = Len(live),
             SemanticEntries \subseteq SemanticEntries', exactStore \in Seq(ExactEntries')
      PROVE  StoresHoldWritten'
  <2>1. semanticStore' \in Seq(SemanticEntries')
    BY <1>8, SeqMonotonic
  <2>2. Fits(semanticStore')
    BY <1>2, <1>4, <1>6, <1>7, <1>8 DEF Fits
  <2> QED
    BY <1>2, <1>8, <2>1, <2>2 DEF CacheInv, StoresHoldWritten, Fits, DistinctKeys
<1>9. CASE /\ semanticStore' = live
           /\ cacheCall' = [cacheCall EXCEPT ![c] = Remaining(cacheCall[c], "invoking")]
  <2>1. PICK call : call = Remaining(cacheCall[c], "invoking") /\ cacheCall' = [cacheCall EXCEPT ![c] = call]
    BY <1>9
  <2>2. CacheCallTyped(call) /\ call.at # "served"
    BY <1>1, <2>1, RemainingFacts
  <2>3. SemanticEntries \subseteq SemanticEntries' /\ exactStore \in Seq(ExactEntries')
    BY <1>1, <1>2, <2>1, <2>2, CacheCallMoves
  <2>4. StoresHoldWritten'
    BY <1>4, <1>8, <1>9, <2>3
  <2> QED
    BY <1>1, <1>2, <2>1, <2>2, <2>4, CacheCallGoesOn
<1>10. ASSUME NEW hit \in DOMAIN live,
              live[hit].group = CompatGroup(r),
              Similarity[r.prompt][live[hit].prompt] >= similarityPolicy.threshold,
              semanticStore' = RemoveAt(live, hit) \o <<live[hit]>>,
              cacheCall' = [cacheCall EXCEPT ![c] = [cacheCall[c] EXCEPT !.at = "served",
                                                       !.answer = Answer(live[hit].response, "semantic")]]
       PROVE  CacheInv'
  <2>1. PICK e \in SemanticEntries : e = live[hit]
    BY <1>4, ElementOfSeq
  <2>2. PICK b \in CacheCalls : /\ b = e.response /\ Wrote(b)
                                /\ CompatGroup(r) = CompatGroup(CacheRequest[b]) /\ e.prompt = CacheRequest[b].prompt
    BY <1>10, <2>1, SemanticEntriesWereWritten
  <2>3. PICK call : call = [at |-> "served", todo |-> cacheCall[c].todo, policy |-> cacheCall[c].policy,
                            answer |-> Answer(b, "semantic")]
    OBVIOUS
  <2>4. cacheCall' = [cacheCall EXCEPT ![c] = call]
    <3>1. [cacheCall[c] EXCEPT !.at = "served", !.answer = Answer(b, "semantic")] = call
      BY <1>1, <2>3, CallServed, Zenon
    <3> QED
      BY <1>10, <2>1, <2>2, <3>1
  <2>5. CacheCallTyped(call)
    BY <2>3 DEF CacheCallTyped
  <2>6. /\ CacheTyped' /\ cacheCall'[c] = call /\ (\A d \in CacheCalls : Wrote(d) => Wrote(d)')
        /\ SemanticEntries \subseteq SemanticEntries' /\ exactStore \in Seq(ExactEntries')
        /\ \A d \in CacheCalls \ {c} :
             ServedWell(d)' /\ (cacheCall'[d].at = "served" => cacheCall'[d].answer.by \in CacheCalls)
    BY <1>1, <1>2, <2>4, <2>5, CacheCallMoves
  <2>7. /\ cacheCall'[c].answer.by = b /\ cacheCall'[c].answer.store = "semantic"
        /\ cacheCall'[c].answer.threshold = similarityPolicy.threshold
        /\ cacheCall'[b].at \in {"storing", "answered"} /\ cacheCall'[b].answer = NoAnswer
    <3>1. cacheCall'[c].answer = Answer(b, "semantic")
      BY <2>3, <2>6
    <3>2. Wrote(b)'
      BY <2>2, <2>6
    <3> QED
      BY <3>1, <3>2 DEF Answer, Wrote
  <2>8. /\ r.target = CacheRequest[b].target /\ r.format = CacheRequest[b].format
        /\ r.workload = CacheRequest[b].workload
    BY <2>2 DEF CompatGroup
  <2>9. Similarity[r.prompt][CacheRequest[b].prompt] >= similarityPolicy.threshold
    BY <1>10, <2>1, <2>2
  <2>10. ServedWell(c)'
    BY <2>7, <2>8, <2>9 DEF ServedWell
  <2>11. semanticStore' \in Seq(SemanticEntries) /\ Len(semanticStore') = Len(live)
    <3>1. RemoveAt(live, hit) \in Seq(SemanticEntries) /\ Len(RemoveAt(live, hit)) = Len(live) - 1
      BY <1>4, RemovalIsPart
    <3>2. PICK last \in Seq(SemanticEntries) : last = <<e>> /\ Len(last) = 1
      <4>1. <<e>> \in Seq(SemanticEntries) /\ Len(<<e>>) = 1
        BY <2>1
      <4> QED
        BY <4>1
    <3>3. /\ RemoveAt(live, hit) \o last \in Seq(SemanticEntries)
          /\ Len(RemoveAt(live, hit) \o last) = Len(RemoveAt(live, hit)) + Len(last)
      BY <3>1, <3>2, ConcatProperties
    <3>4. semanticStore' = RemoveAt(live, hit) \o last
      BY <1>10, <2>1, <3>2, Zenon
    <3>5. semanticStore' \in Seq(SemanticEntries) /\ Len(semanticStore') = Len(live) - 1 + 1
      BY <3>1, <3>2, <3>3, <3>4, Zenon
    <3> QED
      BY <1>4, <3>5
  <2>12. StoresHoldWritten'
    BY <1>8, <2>6, <2>11
  <2> QED
    BY <2>6, <2>7, <2>10, <2>12 DEF CacheInv
<1> QED
  BY <1>3, <1>9, <1>10

\* A call that writes has its answer fresh, and what it writes may last under its policy.
LEMMA WritingCalls ==
    ASSUME CacheInv, NEW c \in CacheCalls, cacheCall[c].at = "storing",
           cacheCall' = [cacheCall EXCEPT ![c] = Remaining(cacheCall[c], "answered")],
           UNCHANGED <<cachePolicy, similarityPolicy, cacheTime>>
    PROVE  /\ Wrote(c)'
           /\ cacheTime + cacheCall[c].policy.ttl \in Nat /\ cacheCall[c].policy.ttl \in Ttls
           /\ cacheCall[c].policy.maxEntries \in Capacities /\ cacheCall[c].policy.maxEntries \in Nat
           /\ exactStore \in Seq(ExactEntries') /\ semanticStore \in Seq(SemanticEntries')
           /\ StoresHoldWritten' => CacheInv'
<1>1. CacheCallTyped(cacheCall[c]) /\ cacheCall[c].policy \in CachePolicies /\ cacheTime \in Nat
  BY CacheAssumption DEF CacheInv, CacheTyped, CacheCallTyped
<1>2. PICK call : call = Remaining(cacheCall[c], "answered") /\ cacheCall' = [cacheCall EXCEPT ![c] = call]
  OBVIOUS
<1>3. CacheCallTyped(call) /\ call.at \in {"storing", "answered"} /\ call.answer = NoAnswer
  BY <1>1, <1>2, RemainingFacts
<1>4. /\ cacheCall'[c] = call /\ exactStore \in Seq(ExactEntries') /\ semanticStore \in Seq(SemanticEntries')
  BY <1>2, <1>3, CacheCallMoves
<1>5. Wrote(c)'
  BY <1>3, <1>4 DEF Wrote
<1>6. /\ cacheTime + cacheCall[c].policy.ttl \in Nat /\ cacheCall[c].policy.maxEntries \in Nat
      /\ cacheCall[c].policy.ttl \in Ttls /\ cacheCall[c].policy.maxEntries \in Capacities
  BY <1>1, CacheAssumption DEF Ttls, Capacities
<1>7. StoresHoldWritten' => CacheInv'
  BY <1>2, <1>3, CacheCallGoesOn
<1> QED
  BY <1>4, <1>5, <1>6, <1>7

LEMMA StoreInExactKeeps ==
    ASSUME CacheInv, NEW c \in CacheCalls, StoreInExact(c)
    PROVE  CacheInv'
<1>1. /\ cacheCall[c].at = "storing" /\ cacheCall' = [cacheCall EXCEPT ![c] = Remaining(cacheCall[c], "answered")]
      /\ UNCHANGED <<cachePolicy, similarityPolicy, semanticStore, cacheTime>>
  BY DEF StoreInExact
<1>2. PICK until \in Nat, capacity \in Nat :
        until = cacheTime + cacheCall[c].policy.ttl /\ capacity = cacheCall[c].policy.maxEntries
  BY <1>1, WritingCalls
<1>3. /\ Wrote(c)' /\ MayLast(until)' /\ capacity \in Capacities
      /\ exactStore \in Seq(ExactEntries') /\ semanticStore \in Seq(SemanticEntries')
      /\ StoresHoldWritten' => CacheInv'
  <2>1. UNCHANGED <<cachePolicy, similarityPolicy, cacheTime>>
    BY <1>1
  <2>2. cacheCall[c].policy.ttl \in Ttls
    BY <1>1, <2>1, WritingCalls
  <2>3. \E ttl \in Ttls : until <= cacheTime' + ttl
    BY <1>2, <2>1, <2>2
  <2>4. MayLast(until)'
    BY <2>3 DEF MayLast, Ttls
  <2> QED
    BY <1>1, <1>2, <2>1, <2>4, WritingCalls
<1>4. PICK E : E = ExactEntries'
  OBVIOUS
<1>5. [key |-> ExactKey(CacheRequest[c]), response |-> c, expiresAt |-> until] \in E
  BY <1>3, <1>4 DEF ExactEntries
<1>6. exactStore' = AfterStore(exactStore, ExactKey(CacheRequest[c]), c, cacheTime, cacheCall[c].policy.ttl, capacity)
  BY <1>2 DEF StoreInExact
<1>7. exactStore' \in Seq(E) /\ DistinctKeys(exactStore') /\ Len(exactStore') <= capacity
  <2>1. exactStore \in Seq(E) /\ DistinctKeys(exactStore)
    BY <1>3, <1>4 DEF CacheInv, StoresHoldWritten
  <2> QED
    BY <1>2, <1>5, <1>6, <2>1, StoreKeeps
<1>8. StoresHoldWritten'
  BY <1>1, <1>3, <1>4, <1>7 DEF CacheInv, StoresHoldWritten, Fits, DistinctKeys
<1> QED
  BY <1>3, <1>8

LEMMA StoreInSemanticKeeps ==
    ASSUME CacheInv, NEW c \in CacheCalls, StoreInSemantic(c)
    PROVE  CacheInv'
<1>1. /\ cacheCall[c].at = "storing" /\ cacheCall' = [cacheCall EXCEPT ![c] = Remaining(cacheCall[c], "answered")]
      /\ UNCHANGED <<cachePolicy, similarityPolicy, exactStore, cacheTime>>
  BY DEF StoreInSemantic
<1>2. PICK until \in Nat, capacity \in Nat :
        until = cacheTime + cacheCall[c].policy.ttl /\ capacity = cacheCall[c].policy.maxEntries
  BY <1>1, WritingCalls
<1>3. /\ Wrote(c)' /\ MayLast(until)' /\ capacity \in Capacities
      /\ exactStore \in Seq(ExactEntries') /\ semanticStore \in Seq(SemanticEntries')
      /\ StoresHoldWritten' => CacheInv'
  <2>1. UNCHANGED <<cachePolicy, similarityPolicy, cacheTime>>
    BY <1>1
  <2>2. cacheCall[c].policy.ttl \in Ttls
    BY <1>1, <2>1, WritingCalls
  <2>3. \E ttl \in Ttls : until <= cacheTime' + ttl
    BY <1>2, <2>1, <2>2
  <2>4. MayLast(until)'
    BY <2>3 DEF MayLast, Ttls
  <2> QED
    BY <1>1, <1>2, <2>1, <2>4, WritingCalls
<1>4. PICK E : E = SemanticEntries'
  OBVIOUS
<1>5. PICK e \in E : e = [group |-> CompatGroup(CacheRequest[c]), prompt |-> CacheRequest[c].prompt, response |-> c,
                          expiresAt |-> until]
  <2>1. c \in {d \in CacheCalls : Wrote(d)'} /\ until \in {t \in Nat : MayLast(t)'}
    BY <1>3
  <2>2. [group |-> CompatGroup(CacheRequest[c]), prompt |-> CacheRequest[c].prompt, response |-> c,
         expiresAt |-> until] \in E
    BY <1>4, <2>1 DEF SemanticEntries
  <2> QED
    BY <2>2
<1>6. semanticStore' = IF similarityPolicy.enabled THEN Evicted(Append(semanticStore, e), capacity) ELSE semanticStore
  BY <1>2, <1>5 DEF StoreInSemantic
<1>7. CASE ~similarityPolicy.enabled
  BY <1>1, <1>3, <1>6, <1>7 DEF CacheInv, StoresHoldWritten, Fits, DistinctKeys
<1>8. CASE similarityPolicy.enabled
  <2>1. Append(semanticStore, e) \in Seq(E)
    BY <1>3, <1>4, AppendProperties
  <2>2. semanticStore' \in Seq(E) /\ Len(semanticStore') <= capacity
    BY <1>6, <1>8, <2>1, EvictionKeeps
  <2> QED
    BY <1>1, <1>3, <1>4, <2>2 DEF CacheInv, StoresHoldWritten, Fits, DistinctKeys
<1> QED
  BY <1>7, <1>8

LEMMA CacheStepKeeps == CacheInv /\ [CacheNext]_cacheVars => CacheInv'
<1> SUFFICES ASSUME CacheInv, [CacheNext]_cacheVars PROVE CacheInv'
  OBVIOUS
<1>1. ASSUME NEW c \in CacheCalls, BeginLookup(c) \/ ProviderAnswers(c) PROVE CacheInv'
  BY <1>1, BeginLookupKeeps, ProviderAnswersKeep
<1>2. ASSUME NEW c \in CacheCalls, LookInExact(c) \/ LookInSemantic(c) PROVE CacheInv'
  BY <1>2, LookInExactKeeps, LookInSemanticKeeps
<1>3. ASSUME NEW c \in CacheCalls, StoreInExact(c) \/ StoreInSemantic(c) PROVE CacheInv'
  BY <1>3, StoreInExactKeeps, StoreInSemanticKeeps
<1> QED
  BY <1>1, <1>2, <1>3, CacheOthersKeep DEF CacheNext

LEMMA CacheKeepsInvariant == CacheSpec => []CacheInv
<1>1. CacheInit => CacheInv
  BY CacheStarts
<1>2. CacheInv /\ [CacheNext]_cacheVars => CacheInv'
  BY CacheStepKeeps
<1> QED
  BY <1>1, <1>2, PTL DEF CacheSpec

\* Whatever the requests, the similarities and the policies that come and go are, a call is
\* served only what was written for a comparable request whose answer came fresh from the
\* provider, and no store outgrows the largest capacity it was given or holds an exact key
\* twice (lookup and store, cache-manager.ts:89; semantic-cache-store.ts:85).
THEOREM ServedAnswersAreComparable == CacheSpec => []ServedIsComparable
<1>1. CacheInv => ServedIsComparable
  <2> SUFFICES ASSUME CacheInv PROVE ServedIsComparable
    OBVIOUS
  <2>1. \A c \in CacheCalls : ServedWell(c)
    BY DEF CacheInv
  <2>2. /\ exactStore \in Seq(ExactEntries) /\ DistinctKeys(exactStore) /\ Fits(exactStore)
        /\ semanticStore \in Seq(SemanticEntries) /\ Fits(semanticStore)
    BY DEF CacheInv, StoresHoldWritten
  <2>3. \A e \in ExactEntries : \E ttl \in Ttls : e.expiresAt <= cacheTime + ttl
    BY DEF ExactEntries, MayLast
  <2>4. \A e \in SemanticEntries : \E ttl \in Ttls : e.expiresAt <= cacheTime + ttl
    BY DEF SemanticEntries, MayLast
  <2>5. \A i \in DOMAIN exactStore : \E ttl \in Ttls : exactStore[i].expiresAt <= cacheTime + ttl
    BY <2>2, <2>3, LenProperties, ElementOfSeq
  <2>6. \A i \in DOMAIN semanticStore : \E ttl \in Ttls : semanticStore[i].expiresAt <= cacheTime + ttl
    BY <2>2, <2>4, LenProperties, ElementOfSeq
  <2>7. \A i, j \in DOMAIN exactStore : exactStore[i].key = exactStore[j].key => i = j
    BY <2>2, LenProperties DEF DistinctKeys
  <2> QED
    BY <2>1, <2>2, <2>5, <2>6, <2>7 DEF ServedIsComparable, ServedWell, Fits
<1> QED
  BY <1>1, CacheKeepsInvariant, PTL

LEMMA CachesAreTyped == CacheInv => CacheTypeOK
<1> SUFFICES ASSUME CacheInv PROVE CacheTypeOK
  OBVIOUS
<1>1. \A i \in DOMAIN exactStore : exactStore[i].response \in CacheCalls
  BY LenProperties, ElementOfSeq, ExactEntriesWereWritten DEF CacheInv, StoresHoldWritten
<1>2. \A i \in DOMAIN semanticStore : semanticStore[i].response \in CacheCalls
  BY LenProperties, ElementOfSeq, SemanticEntriesWereWritten DEF CacheInv, StoresHoldWritten
<1> QED
  BY <1>1, <1>2 DEF CacheInv, CacheTyped, CacheCallTyped, CacheTypeOK

\* Whatever the constants are, the cache platform keeps to its types (CacheManager).
THEOREM CacheTypeCorrect == CacheSpec => []CacheTypeOK
<1>1. CacheInv => CacheTypeOK
  BY CachesAreTyped
<1> QED
  BY <1>1, CacheKeepsInvariant, PTL

-----------------------------------------------------------------------------
\* Routing.
PreferenceKeys == [1 .. 6 -> Int]

\* compareKeys orders keys, and totally.
LEMMA KeysAreOrdered ==
    ASSUME NEW v \in PreferenceKeys, NEW w \in PreferenceKeys, NEW u \in PreferenceKeys
    PROVE  /\ ~(Precedes(v, w) /\ Precedes(w, v))
           /\ Precedes(v, w) /\ Precedes(w, u) => Precedes(v, u)
           /\ v = w \/ Precedes(v, w) \/ Precedes(w, v)
           /\ Precedes(v, w) => v[1] <= w[1] /\ (v[1] = w[1] => v[2] <= w[2])
<1>1. \A i \in 1 .. 6 : v[i] \in Int /\ w[i] \in Int /\ u[i] \in Int
  BY DEF PreferenceKeys
<1>2. /\ Precedes(v, w) <=> \E i \in 1 .. 6 : v[i] < w[i] /\ \A k \in 1 .. i - 1 : v[k] = w[k]
      /\ Precedes(w, v) <=> \E i \in 1 .. 6 : w[i] < v[i] /\ \A k \in 1 .. i - 1 : v[k] = w[k]
      /\ Precedes(w, u) <=> \E i \in 1 .. 6 : w[i] < u[i] /\ \A k \in 1 .. i - 1 : w[k] = u[k]
      /\ Precedes(v, u) <=> \E i \in 1 .. 6 : v[i] < u[i] /\ \A k \in 1 .. i - 1 : v[k] = u[k]
  <2>1. DOMAIN v = 1 .. 6 /\ DOMAIN w = 1 .. 6
    BY DEF PreferenceKeys
  <2> QED
    BY <2>1 DEF Precedes
<1>3. \A i, j \in 1 .. 6 : i < j => i \in 1 .. j - 1
  OBVIOUS
<1>4. ASSUME Precedes(v, w), Precedes(w, v) PROVE FALSE
  <2>1. PICK i \in 1 .. 6 : v[i] < w[i] /\ \A k \in 1 .. i - 1 : v[k] = w[k]
    BY <1>2, <1>4
  <2>2. PICK j \in 1 .. 6 : w[j] < v[j] /\ \A k \in 1 .. j - 1 : v[k] = w[k]
    BY <1>2, <1>4
  <2>3. i = j
    BY <1>1, <1>3, <2>1, <2>2
  <2> QED
    BY <1>1, <2>1, <2>2, <2>3
<1>5. ASSUME Precedes(v, w), Precedes(w, u) PROVE Precedes(v, u)
  <2>1. PICK i \in 1 .. 6 : v[i] < w[i] /\ \A k \in 1 .. i - 1 : v[k] = w[k]
    BY <1>2, <1>5
  <2>2. PICK j \in 1 .. 6 : w[j] < u[j] /\ \A k \in 1 .. j - 1 : w[k] = u[k]
    BY <1>2, <1>5
  <2>3. CASE i < j
    <3>1. v[i] < u[i]
      BY <1>1, <1>3, <2>1, <2>2, <2>3
    <3>2. \A k \in 1 .. i - 1 : k \in 1 .. j - 1 /\ v[k] = u[k]
      BY <2>1, <2>2, <2>3
    <3> QED
      BY <1>2, <3>1, <3>2
  <2>4. CASE j < i
    <3>1. v[j] < u[j]
      BY <1>1, <1>3, <2>1, <2>2, <2>4
    <3>2. \A k \in 1 .. j - 1 : k \in 1 .. i - 1 /\ v[k] = u[k]
      BY <2>1, <2>2, <2>4
    <3> QED
      BY <1>2, <3>1, <3>2
  <2>5. CASE i = j
    <3>1. v[i] < u[i]
      BY <1>1, <2>1, <2>2, <2>5
    <3>2. \A k \in 1 .. i - 1 : v[k] = u[k]
      BY <2>1, <2>2, <2>5
    <3> QED
      BY <1>2, <3>1, <3>2
  <2> QED
    BY <2>3, <2>4, <2>5
<1>6. ASSUME v # w PROVE Precedes(v, w) \/ Precedes(w, v)
  <2>1. PICK apart : apart = {i \in 1 .. 6 : v[i] # w[i]}
    OBVIOUS
  <2>2. apart # {} /\ apart \subseteq Nat
    <3>1. SUFFICES ASSUME apart = {} PROVE FALSE
      BY <2>1
    <3>2. \A i \in 1 .. 6 : v[i] = w[i]
      BY <2>1, <3>1
    <3> QED
      BY <1>6, <3>2 DEF PreferenceKeys
  <2>3. PICK i \in apart : \A j \in apart : i <= j
    BY <2>2, LeastNatural
  <2>4. i \in 1 .. 6 /\ v[i] # w[i] /\ \A k \in 1 .. i - 1 : k \in 1 .. 6 /\ k \notin apart
    BY <2>1, <2>3
  <2>5. \A k \in 1 .. i - 1 : v[k] = w[k]
    BY <2>1, <2>4
  <2>6. v[i] < w[i] \/ w[i] < v[i]
    BY <1>1, <2>4
  <2> QED
    BY <1>2, <2>4, <2>5, <2>6
<1>7. ASSUME Precedes(v, w) PROVE v[1] <= w[1] /\ (v[1] = w[1] => v[2] <= w[2])
  <2>1. PICK i \in 1 .. 6 : v[i] < w[i] /\ \A k \in 1 .. i - 1 : v[k] = w[k]
    BY <1>2, <1>7
  <2>2. CASE i = 1
    BY <1>1, <2>1, <2>2
  <2>3. CASE i = 2
    BY <1>1, <2>1, <2>3
  <2>4. CASE i > 2
    <3>1. 1 \in 1 .. i - 1 /\ 2 \in 1 .. i - 1
      BY <2>4
    <3> QED
      BY <1>1, <2>1, <3>1
  <2> QED
    BY <2>2, <2>3, <2>4
<1> QED
  BY <1>4, <1>5, <1>6, <1>7

\* What a registry offers: each model with its provider.
Candidate(provider, d) == [provider |-> provider.id, priority |-> provider.priority, descriptor |-> d]
Offered(registry) == UNION {{Candidate(provider, d) : d \in ToSet(provider.models)} : provider \in ToSet(registry)}

\* Who offers a candidate.
LEMMA OfferedOf ==
    ASSUME NEW registry, NEW c \in Offered(registry)
    PROVE  \E provider \in ToSet(registry) : \E d \in ToSet(provider.models) : c = Candidate(provider, d)
  BY DEF Offered

\* Every model of every provider is offered.
LEMMA OffersAll ==
    ASSUME NEW registry, NEW provider \in ToSet(registry), NEW d \in ToSet(provider.models)
    PROVE  Candidate(provider, d) \in Offered(registry)
<1>1. PICK own : own = {Candidate(provider, e) : e \in ToSet(provider.models)}
  OBVIOUS
<1>2. Candidate(provider, d) \in own
  BY <1>1
<1>3. own \in {{Candidate(p, e) : e \in ToSet(p.models)} : p \in ToSet(registry)}
  BY <1>1
<1> QED
  BY <1>2, <1>3 DEF Offered

\* What is published is what is offered, each candidate once.
LEMMA PublishedFacts ==
    ASSUME NEW registry, WellRegistered(registry)
    PROVE  /\ Published(registry) \in Seq(Offered(registry)) /\ ToSet(Published(registry)) = Offered(registry)
           /\ IsInjective(Published(registry))
<1>1. PICK n \in Nat : n = Len(registry) /\ DOMAIN registry = 1 .. n
  BY LenProperties DEF WellRegistered
<1>2. \A i \in 1 .. n : registry[i] \in ToSet(registry)
  BY <1>1 DEF ToSet
<1>3. PICK lists : lists = [i \in 1 .. n |->
                      [k \in DOMAIN registry[i].models |->
                         [provider |-> registry[i].id, priority |-> registry[i].priority,
                          descriptor |-> registry[i].models[k]]]]
  OBVIOUS
<1>4. Published(registry) = FlattenSeq(lists)
  BY <1>1, <1>3 DEF Published
<1>5. PICK S : S = Offered(registry)
  OBVIOUS
<1>6. ASSUME NEW i \in 1 .. n
      PROVE  /\ lists[i] \in Seq(S) /\ IsInjective(lists[i])
             /\ ToSet(lists[i]) = {Candidate(registry[i], d) : d \in ToSet(registry[i].models)}
  <2>1. PICK provider, models, list : provider = registry[i] /\ models = provider.models /\ list = lists[i]
    OBVIOUS
  <2>2. provider \in ToSet(registry) /\ models \in Seq(ToSet(models))
    BY <1>2, <2>1 DEF WellRegistered
  <2>3. PICK m \in Nat : m = Len(models) /\ DOMAIN models = 1 .. m
    BY <2>2, LenProperties
  <2>4. list = [k \in 1 .. m |-> Candidate(provider, models[k])]
    BY <1>3, <2>1, <2>3 DEF Candidate
  <2>5. \A k \in 1 .. m : models[k] \in ToSet(models)
    BY <2>3 DEF ToSet
  <2>6. \A k \in 1 .. m : Candidate(provider, models[k]) \in S
    BY <1>5, <2>1, <2>2, <2>5, OffersAll
  <2>7. list \in Seq(S)
    <3>1. list \in [1 .. m -> S]
      BY <2>4, <2>6
    <3> QED
      BY <3>1
  <2>8. IsInjective(list)
    <3>1. ASSUME NEW k \in 1 .. m, NEW l \in 1 .. m, list[k] = list[l] PROVE k = l
      <4>1. models[k] = models[l]
        BY <2>4, <3>1 DEF Candidate
      <4>2. k # l => models[k].model # models[l].model
        BY <2>1, <2>2, <2>3 DEF WellRegistered
      <4> QED
        BY <4>1, <4>2
    <3> QED
      BY <2>4, <3>1 DEF IsInjective
  <2>9. ToSet(list) = {Candidate(provider, d) : d \in ToSet(models)}
    BY <2>3, <2>4 DEF ToSet
  <2> QED
    BY <2>1, <2>7, <2>8, <2>9
<1>7. lists \in Seq(Seq(S)) /\ DOMAIN lists = 1 .. n
  <2>1. lists \in [1 .. n -> Seq(S)]
    BY <1>3, <1>6
  <2> QED
    BY <2>1
<1>8. \A i, j \in 1 .. n : i # j => ToSet(lists[i]) \cap ToSet(lists[j]) = {}
  <2> SUFFICES ASSUME NEW i \in 1 .. n, NEW j \in 1 .. n, i # j, NEW x, x \in ToSet(lists[i]), x \in ToSet(lists[j])
               PROVE  FALSE
    OBVIOUS
  <2>1. x.provider = registry[i].id /\ x.provider = registry[j].id
    BY <1>6 DEF Candidate
  <2> QED
    BY <1>1, <2>1 DEF WellRegistered
<1>9. FlattenSeq(lists) \in Seq(S) /\ ToSet(FlattenSeq(lists)) = UNION {ToSet(lists[i]) : i \in 1 .. n}
  BY <1>7, FlatElements
<1>10. IsInjective(FlattenSeq(lists))
  BY <1>6, <1>7, <1>8, FlatDistinct
<1>11. UNION {ToSet(lists[i]) : i \in 1 .. n} = S
  <2>1. ASSUME NEW x \in S PROVE \E i \in 1 .. n : x \in ToSet(lists[i])
    <3>1. PICK provider \in ToSet(registry) : \E d \in ToSet(provider.models) : x = Candidate(provider, d)
      BY <1>5, OfferedOf
    <3>2. PICK i \in 1 .. n : provider = registry[i]
      BY <1>1 DEF ToSet
    <3>3. PICK d \in ToSet(provider.models) : x = Candidate(provider, d)
      BY <3>1
    <3> QED
      BY <1>6, <3>2, <3>3
  <2>2. ASSUME NEW i \in 1 .. n, NEW x \in ToSet(lists[i]) PROVE x \in S
    <3>1. PICK d \in ToSet(registry[i].models) : x = Candidate(registry[i], d)
      BY <1>6
    <3> QED
      BY <1>2, <1>5, <3>1, OffersAll
  <2> QED
    BY <2>1, <2>2
<1> QED
  BY <1>4, <1>5, <1>9, <1>10, <1>11

\* Providers have ids of their own, and models are keys of their provider.
LEMMA TargetsTell ==
    ASSUME NEW registry, WellRegistered(registry), NEW c \in Offered(registry), NEW d \in Offered(registry),
           Target(c) = Target(d)
    PROVE  c = d
<1>1. PICK p, dc : p \in ToSet(registry) /\ dc \in ToSet(p.models) /\ c = Candidate(p, dc)
  BY OfferedOf
<1>2. PICK q, dd : q \in ToSet(registry) /\ dd \in ToSet(q.models) /\ d = Candidate(q, dd)
  BY OfferedOf
<1>3. p.id = q.id /\ dc.model = dd.model
  BY <1>1, <1>2 DEF Target, Candidate
<1>4. PICK i \in DOMAIN registry, j \in DOMAIN registry : p = registry[i] /\ q = registry[j]
  BY <1>1, <1>2 DEF ToSet
<1>5. p = q
  BY <1>3, <1>4 DEF WellRegistered
<1>6. PICK k \in DOMAIN p.models, l \in DOMAIN p.models : dc = p.models[k] /\ dd = p.models[l]
  BY <1>1, <1>2, <1>5 DEF ToSet
<1>7. k = l
  BY <1>1, <1>3, <1>6 DEF WellRegistered
<1> QED
  BY <1>1, <1>2, <1>5, <1>6, <1>7

\* What a preference key holds.
LEMMA PreferenceFacts ==
    ASSUME NEW registry, WellRegistered(registry), NEW pol, PolicyTyped(pol), NEW request, NEW c \in Offered(registry)
    PROVE  /\ PreferenceKey(c, request, pol) \in PreferenceKeys
           /\ PreferenceKey(c, request, pol)[1] = (IF Field(request, "preferredModel", NoPlace) = c.descriptor.model THEN 0 ELSE 1)
           /\ PreferenceKey(c, request, pol)[2] = (IF Field(request, "preferredProvider", NoPlace) = c.provider THEN 0 ELSE 1)
           /\ PreferenceKey(c, request, pol)[5] = c.provider
           /\ PreferenceKey(c, request, pol)[6] = c.descriptor.model
<1>1. PICK p, d : p \in ToSet(registry) /\ d \in ToSet(p.models) /\ c = Candidate(p, d)
  BY OfferedOf
<1>2. c.priority \in Int /\ c.provider \in Int /\ c.descriptor.model \in Int
  BY <1>1 DEF Candidate, WellRegistered
<1>3. PICK preferred : preferred = Field(pol, "preferredProviders", << >>)
  OBVIOUS
<1>4. preferred \in Seq(Int)
  BY <1>3, EmptySeq DEF Field, PolicyTyped
<1>5. PICK places : places = {i \in DOMAIN preferred : preferred[i] = c.provider}
  OBVIOUS
<1>6. PICK place : place = (IF places = {} THEN NoPlace ELSE CHOOSE i \in places : \A k \in places : i <= k)
  OBVIOUS
<1>7. place \in Int
  <2>1. places \subseteq Nat
    BY <1>4, <1>5, LenProperties
  <2>2. CASE places = {}
    BY <1>6, <2>2 DEF NoPlace
  <2>3. CASE places # {}
    <3>1. \E i \in places : \A k \in places : i <= k
      BY <2>1, <2>3, LeastNatural
    <3>2. place \in places
      BY <1>6, <2>3, <3>1
    <3> QED
      BY <2>1, <3>2
  <2> QED
    BY <2>2, <2>3
<1>8. PICK one, two : /\ one = (IF Field(request, "preferredModel", NoPlace) = c.descriptor.model THEN 0 ELSE 1)
                      /\ two = (IF Field(request, "preferredProvider", NoPlace) = c.provider THEN 0 ELSE 1)
  OBVIOUS
<1>9. PICK key : key = <<one, two, place, c.priority, c.provider, c.descriptor.model>>
  OBVIOUS
<1>10. PreferenceKey(c, request, pol) = key
  BY <1>3, <1>5, <1>6, <1>8, <1>9 DEF PreferenceKey
<1>11. one \in Int /\ two \in Int
  BY <1>8
<1>12. key \in [1 .. 6 -> Int] /\ key[1] = one /\ key[2] = two /\ key[5] = c.provider /\ key[6] = c.descriptor.model
  BY <1>2, <1>7, <1>9, <1>11
<1> QED
  BY <1>8, <1>10, <1>12 DEF PreferenceKeys

\* What sort makes of places: each once, in the order of the keys.
SortsPlaces(at, n, places, all, request, pol) ==
    /\ n \in Nat /\ at \in [1 .. n -> places]
    /\ \A i \in places : \E a \in 1 .. n : at[a] = i
    /\ \A a, b \in 1 .. n : a < b =>
         \/ Precedes(PreferenceKey(all[at[a]], request, pol), PreferenceKey(all[at[b]], request, pol))
         \/ /\ PreferenceKey(all[at[a]], request, pol) = PreferenceKey(all[at[b]], request, pol)
            /\ at[a] # at[b]

\* A candidate's rank is its place, so that the sort finds one candidate for each place.
LEMMA SortedFacts ==
    ASSUME NEW N \in Nat, NEW places \in SUBSET (1 .. N), NEW all, NEW request, NEW pol,
           \A i \in places : PreferenceKey(all[i], request, pol) \in PreferenceKeys
    PROVE  SortsPlaces(Sorted(all, places, request, pol), Cardinality(places), places, all, request, pol)
<1> DEFINE keys == [i \in places |-> PreferenceKey(all[i], request, pol)]
           ranks == [i \in places |-> Cardinality({j \in places : \/ Precedes(keys[j], keys[i])
                                                                 \/ (keys[j] = keys[i] /\ j < i)})]
<1>1. PICK n : n = Cardinality(places)
  OBVIOUS
<1>2. Sorted(all, places, request, pol) = [a \in 1 .. Cardinality(places) |-> CHOOSE i \in places : ranks[i] = a - 1]
  BY DEF Sorted
<1>3. PICK at : at = Sorted(all, places, request, pol) /\ at = [a \in 1 .. n |-> CHOOSE i \in places : ranks[i] = a - 1]
  BY <1>1, <1>2
<1>4. IsFiniteSet(places) /\ n \in Nat /\ \A i \in places : i \in Nat
  <2>1. IsFiniteSet(1 .. N)
    BY FS_Interval
  <2>2. \A i \in places : i \in Nat
    OBVIOUS
  <2>3. IsFiniteSet(places)
    BY <2>1, FS_Subset
  <2> QED
    BY <1>1, <2>2, <2>3, FS_CardinalityType
<1>5. keys = [i \in places |-> PreferenceKey(all[i], request, pol)]
  OBVIOUS
<1>6. \A i \in places : keys[i] \in PreferenceKeys /\ keys[i] = PreferenceKey(all[i], request, pol)
  BY <1>5
<1>7. PICK before : before = [i \in places |->
                       {j \in places : Precedes(keys[j], keys[i]) \/ (keys[j] = keys[i] /\ j < i)}]
  OBVIOUS
<1>8. \A i, j \in places : j \in before[i] <=> Precedes(keys[j], keys[i]) \/ (keys[j] = keys[i] /\ j < i)
  BY <1>7
<1>9. \A i \in places : before[i] \subseteq places
  BY <1>7
<1>10. \A i, j \in places : ~(Precedes(keys[i], keys[j]) /\ Precedes(keys[j], keys[i]))
  BY <1>6, KeysAreOrdered
<1>11. \A i \in places : i \notin before[i]
  <2>1. \A i \in places : i \in Nat
    OBVIOUS
  <2> QED
    BY <1>8, <1>10, <2>1
<1>12. \A i, j \in places : i # j => i \in before[j] \/ j \in before[i]
  <2>1. \A i, j \in places : i # j => i < j \/ j < i
    OBVIOUS
  <2>2. \A i, j \in places : keys[i] = keys[j] \/ Precedes(keys[i], keys[j]) \/ Precedes(keys[j], keys[i])
    BY <1>6, KeysAreOrdered
  <2> QED
    BY <1>8, <2>1, <2>2
<1>13. ASSUME NEW i \in places, NEW j \in before[i] PROVE before[j] \subseteq before[i]
  <2>1. j \in places /\ (Precedes(keys[j], keys[i]) \/ (keys[j] = keys[i] /\ j < i))
    BY <1>8, <1>9
  <2> SUFFICES ASSUME NEW k \in before[j] PROVE k \in before[i]
    OBVIOUS
  <2>2. k \in places /\ (Precedes(keys[k], keys[j]) \/ (keys[k] = keys[j] /\ k < j))
    BY <1>8, <1>9, <2>1
  <2>3. Precedes(keys[k], keys[j]) /\ Precedes(keys[j], keys[i]) => Precedes(keys[k], keys[i])
    BY <1>6, <2>1, <2>2, KeysAreOrdered
  <2>4. k < j /\ j < i => k < i
    <3>1. i \in Nat /\ j \in Nat /\ k \in Nat
      BY <1>4, <2>1, <2>2
    <3> QED
      BY <3>1
  <2> QED
    BY <1>8, <2>1, <2>2, <2>3, <2>4
<1>14. ranks = [i \in places |-> Cardinality(before[i])]
  BY <1>7
<1> HIDE DEF keys, ranks
<1>15. \A i \in places : IsFiniteSet(before[i]) /\ ranks[i] \in Nat /\ ranks[i] = Cardinality(before[i])
  BY <1>4, <1>9, <1>14, FS_Subset, FS_CardinalityType
<1>16. \A i \in places : ranks[i] < n
  <2> SUFFICES ASSUME NEW i \in places PROVE ranks[i] < n
    OBVIOUS
  <2>1. Cardinality(before[i]) <= n /\ (n = Cardinality(before[i]) => places = before[i])
    BY <1>1, <1>4, <1>9, FS_Subset
  <2> QED
    BY <1>4, <1>11, <1>15, <2>1
<1>17. ASSUME NEW i \in places, NEW j \in before[i] PROVE ranks[j] < ranks[i]
  <2>1. j \in places
    BY <1>9
  <2>2. PICK less, more : less = before[j] /\ more = before[i]
    OBVIOUS
  <2>3. less \subseteq more /\ IsFiniteSet(more) /\ less # more
    BY <1>11, <1>13, <1>15, <2>1, <2>2
  <2>4. Cardinality(less) <= Cardinality(more) /\ (Cardinality(more) = Cardinality(less) => more = less)
    BY <2>3, FS_Subset
  <2>5. Cardinality(less) = ranks[j] /\ Cardinality(more) = ranks[i] /\ ranks[i] \in Nat /\ ranks[j] \in Nat
    BY <1>15, <2>1, <2>2
  <2> QED
    BY <2>3, <2>4, <2>5
<1>18. PICK r : r = [i \in places |-> ranks[i] + 1]
  OBVIOUS
<1>19. r \in [places -> 1 .. n]
  BY <1>4, <1>15, <1>16, <1>18
<1>20. \A i, j \in places : r[i] = r[j] => i = j
  <2> SUFFICES ASSUME NEW i \in places, NEW j \in places, r[i] = r[j], i # j PROVE FALSE
    OBVIOUS
  <2>1. PICK k \in Nat, l \in Nat : k = ranks[i] /\ l = ranks[j]
    BY <1>15
  <2>2. k = l
    BY <1>18, <2>1
  <2>3. k < l \/ l < k
    BY <1>12, <1>17, <2>1
  <2> QED
    BY <2>2, <2>3
<1>21. r \in Surjection(places, 1 .. n)
  <2>1. r \in Injection(places, 1 .. n)
    BY <1>19, <1>20 DEF Injection, IsInjective
  <2>2. IsFiniteSet(1 .. n) /\ Cardinality(1 .. n) = n
    BY <1>4, FS_Interval
  <2> QED
    BY <1>1, <1>4, <2>1, <2>2, FS_Injection
<1>22. \A a \in 1 .. n : at[a] \in places /\ ranks[at[a]] = a - 1
  <2> SUFFICES ASSUME NEW a \in 1 .. n PROVE at[a] \in places /\ ranks[at[a]] = a - 1
    OBVIOUS
  <2>1. \E i \in places : r[i] = a
    BY <1>21 DEF Surjection
  <2>2. \E i \in places : ranks[i] = a - 1
    BY <1>15, <1>18, <2>1
  <2> QED
    BY <1>3, <2>2
<1>23. at \in [1 .. n -> places]
  BY <1>3, <1>22
<1>24. \A i \in places : \E a \in 1 .. n : at[a] = i
  <2> SUFFICES ASSUME NEW i \in places PROVE \E a \in 1 .. n : at[a] = i
    OBVIOUS
  <2>1. r[i] \in 1 .. n /\ ranks[at[r[i]]] = r[i] - 1 /\ at[r[i]] \in places
    BY <1>19, <1>22
  <2>2. r[at[r[i]]] = r[i]
    BY <1>15, <1>18, <2>1
  <2> QED
    BY <1>20, <2>1, <2>2
<1>25. ASSUME NEW a \in 1 .. n, NEW b \in 1 .. n, a < b
       PROVE  at[a] # at[b] /\ (Precedes(keys[at[a]], keys[at[b]]) \/ keys[at[a]] = keys[at[b]])
  <2>1. PICK i \in places, j \in places : i = at[a] /\ j = at[b] /\ ranks[i] < ranks[j]
    <3>1. at[a] \in places /\ at[b] \in places /\ ranks[at[a]] = a - 1 /\ ranks[at[b]] = b - 1
      BY <1>22
    <3>2. a - 1 < b - 1
      BY <1>4, <1>25
    <3> QED
      BY <3>1, <3>2
  <2>2. i \in before[j]
    <3>1. i # j
      BY <1>15, <2>1
    <3>2. j \in before[i] => ranks[j] < ranks[i]
      BY <1>17, <2>1
    <3>3. PICK k \in Nat, l \in Nat : k = ranks[i] /\ l = ranks[j]
      BY <1>15
    <3>4. j \notin before[i]
      BY <2>1, <3>2, <3>3
    <3> QED
      BY <1>12, <3>1, <3>4
  <2> QED
    BY <1>8, <1>15, <2>1, <2>2
<1>26. \A a, b \in 1 .. n : a < b =>
         \/ Precedes(PreferenceKey(all[at[a]], request, pol), PreferenceKey(all[at[b]], request, pol))
         \/ /\ PreferenceKey(all[at[a]], request, pol) = PreferenceKey(all[at[b]], request, pol)
            /\ at[a] # at[b]
  <2> SUFFICES ASSUME NEW a \in 1 .. n, NEW b \in 1 .. n, a < b
               PROVE  \/ Precedes(PreferenceKey(all[at[a]], request, pol), PreferenceKey(all[at[b]], request, pol))
                      \/ /\ PreferenceKey(all[at[a]], request, pol) = PreferenceKey(all[at[b]], request, pol)
                         /\ at[a] # at[b]
    OBVIOUS
  <2>1. at[a] \in places /\ at[b] \in places
    BY <1>22
  <2>2. /\ keys[at[a]] = PreferenceKey(all[at[a]], request, pol)
        /\ keys[at[b]] = PreferenceKey(all[at[b]], request, pol)
    BY <1>6, <2>1
  <2> QED
    BY <1>25, <2>2
<1>27. SortsPlaces(at, n, places, all, request, pol)
  BY <1>4, <1>23, <1>24, <1>26 DEF SortsPlaces
<1> QED
  BY <1>1, <1>3, <1>27

\* What routing admits of what is offered, and how it ranks targets.
Admitted(registry, request, pol) ==
    {c \in Offered(registry) : CapabilityRejection(request, c.descriptor) = "none" /\ PolicyRejection(pol, c) = "none"}

Preference(admitted, request, pol) ==
    {<<Target(pair[1]), Target(pair[2])>> : pair \in
       {pair \in admitted \X admitted :
          Precedes(PreferenceKey(pair[1], request, pol), PreferenceKey(pair[2], request, pol))}}

TargetsOf(admitted) == {Target(c) : c \in admitted}

\* A plan lists the targets of what is admitted, each once, as they are preferred.
IsPlan(plan, admitted, request, pol) ==
    /\ plan \in Seq(TargetsOf(admitted)) /\ ToSet(plan) = TargetsOf(admitted)
    /\ \A i, j \in DOMAIN plan : i < j => <<plan[i], plan[j]>> \in Preference(admitted, request, pol)

\* Two targets are in the order of their candidates' keys.
LEMMA PreferredPair ==
    ASSUME NEW admitted, NEW request, NEW pol, NEW x, NEW y
    PROVE  <<x, y>> \in Preference(admitted, request, pol) <=>
             \E c, d \in admitted : /\ x = Target(c) /\ y = Target(d)
                                    /\ Precedes(PreferenceKey(c, request, pol), PreferenceKey(d, request, pol))
<1>1. ASSUME <<x, y>> \in Preference(admitted, request, pol)
      PROVE  \E c, d \in admitted : /\ x = Target(c) /\ y = Target(d)
                                    /\ Precedes(PreferenceKey(c, request, pol), PreferenceKey(d, request, pol))
  <2>1. PICK pair \in admitted \X admitted :
          /\ Precedes(PreferenceKey(pair[1], request, pol), PreferenceKey(pair[2], request, pol))
          /\ <<x, y>> = <<Target(pair[1]), Target(pair[2])>>
    BY <1>1 DEF Preference
  <2>2. pair[1] \in admitted /\ pair[2] \in admitted /\ x = Target(pair[1]) /\ y = Target(pair[2])
    BY <2>1
  <2> QED
    BY <2>1, <2>2
<1>2. ASSUME NEW c \in admitted, NEW d \in admitted, x = Target(c), y = Target(d),
             Precedes(PreferenceKey(c, request, pol), PreferenceKey(d, request, pol))
      PROVE  <<x, y>> \in Preference(admitted, request, pol)
  <2>1. PICK pair : pair = <<c, d>>
    OBVIOUS
  <2>2. pair \in admitted \X admitted /\ pair[1] = c /\ pair[2] = d
    BY <2>1
  <2> QED
    BY <1>2, <2>2 DEF Preference
<1> QED
  BY <1>1, <1>2

\* What is admitted has one plan.
LEMMA OnePlan ==
    ASSUME NEW registry, WellRegistered(registry), NEW pol, PolicyTyped(pol), NEW request,
           NEW admitted \in SUBSET Offered(registry),
           NEW s, NEW t, IsPlan(s, admitted, request, pol), IsPlan(t, admitted, request, pol)
    PROVE  s = t
<1>1. PICK X, R : X = TargetsOf(admitted) /\ R = Preference(admitted, request, pol)
  OBVIOUS
<1>2. \A x, y \in X : ~(<<x, y>> \in R /\ <<y, x>> \in R)
  <2> SUFFICES ASSUME NEW x \in X, NEW y \in X, <<x, y>> \in R, <<y, x>> \in R PROVE FALSE
    BY Zenon
  <2>1. PICK c \in admitted, d \in admitted :
          /\ x = Target(c) /\ y = Target(d)
          /\ Precedes(PreferenceKey(c, request, pol), PreferenceKey(d, request, pol))
    BY <1>1, PreferredPair
  <2>2. PICK e \in admitted, f \in admitted :
          /\ y = Target(e) /\ x = Target(f)
          /\ Precedes(PreferenceKey(e, request, pol), PreferenceKey(f, request, pol))
    BY <1>1, PreferredPair
  <2>3. c = f /\ d = e
    BY <2>1, <2>2, TargetsTell
  <2>4. PreferenceKey(c, request, pol) \in PreferenceKeys /\ PreferenceKey(d, request, pol) \in PreferenceKeys
    BY PreferenceFacts
  <2> QED
    BY <2>1, <2>2, <2>3, <2>4, KeysAreOrdered
<1>3. /\ s \in Seq(X) /\ t \in Seq(X) /\ ToSet(s) = ToSet(t)
      /\ \A i, j \in DOMAIN s : i < j => <<s[i], s[j]>> \in R
      /\ \A i, j \in DOMAIN t : i < j => <<t[i], t[j]>> \in R
  BY <1>1 DEF IsPlan
<1> QED
  BY <1>2, <1>3, OneListing

\* The places of what a registry publishes that routing admits.
EligiblePlaces(all, request) == {i \in DOMAIN all : CapabilityRejection(request, all[i].descriptor) = "none"}
SurvivingPlaces(all, request, pol) == {i \in EligiblePlaces(all, request) : PolicyRejection(pol, all[i]) = "none"}

\* The targets of a route are the plan of what it admits.
LEMMA PlanOfRoute ==
    ASSUME NEW registry, WellRegistered(registry), NEW policy, NEW overrides, NEW request,
           NEW pol, pol = EffectivePolicy(policy, overrides, request), PolicyTyped(pol),
           NEW plan, plan = Route(request, policy, overrides, registry).targets
    PROVE  /\ IsPlan(plan, Admitted(registry, request, pol), request, pol)
           /\ Len(plan) = Cardinality(SurvivingPlaces(Published(registry), request, pol))
<1>1. PICK all : all = Published(registry)
  OBVIOUS
<1>2. PICK surviving, at : surviving = SurvivingPlaces(all, request, pol) /\ at = Sorted(all, surviving, request, pol)
  OBVIOUS
<1>3. plan = [n \in DOMAIN at |-> Target(all[at[n]])]
  <2>1. plan = [n \in DOMAIN Sorted(Published(registry),
                                    SurvivingPlaces(Published(registry), request, EffectivePolicy(policy, overrides, request)),
                                    request, EffectivePolicy(policy, overrides, request)) |->
                  Target(Published(registry)[Sorted(Published(registry),
                                    SurvivingPlaces(Published(registry), request, EffectivePolicy(policy, overrides, request)),
                                    request, EffectivePolicy(policy, overrides, request))[n]])]
    BY DEF Route, SurvivingPlaces, EligiblePlaces
  <2> QED
    BY <1>1, <1>2, <2>1
<1>4. all \in Seq(Offered(registry)) /\ ToSet(all) = Offered(registry) /\ IsInjective(all)
  BY <1>1, PublishedFacts
<1>5. PICK N \in Nat : N = Len(all) /\ DOMAIN all = 1 .. N /\ \A i \in 1 .. N : all[i] \in Offered(registry)
  BY <1>4, LenProperties, ElementOfSeq
<1>6. PICK admitted : admitted = Admitted(registry, request, pol)
  OBVIOUS
<1>7. surviving \in SUBSET (1 .. N) /\ \A i \in 1 .. N : i \in surviving <=> all[i] \in admitted
  BY <1>2, <1>5, <1>6 DEF SurvivingPlaces, EligiblePlaces, Admitted
<1>8. \A i \in surviving : PreferenceKey(all[i], request, pol) \in PreferenceKeys
  BY <1>5, <1>7, PreferenceFacts
<1>9. PICK n : n = Cardinality(surviving)
  OBVIOUS
<1>10. /\ n \in Nat /\ at \in [1 .. n -> surviving]
       /\ \A i \in surviving : \E a \in 1 .. n : at[a] = i
       /\ \A a, b \in 1 .. n : a < b =>
            \/ Precedes(PreferenceKey(all[at[a]], request, pol), PreferenceKey(all[at[b]], request, pol))
            \/ /\ PreferenceKey(all[at[a]], request, pol) = PreferenceKey(all[at[b]], request, pol)
               /\ at[a] # at[b]
  <2>1. N \in Nat /\ surviving \in SUBSET (1 .. N)
    BY <1>5, <1>7
  <2>2. SortsPlaces(Sorted(all, surviving, request, pol), Cardinality(surviving), surviving, all, request, pol)
    BY <1>8, <2>1, SortedFacts
  <2>3. SortsPlaces(at, n, surviving, all, request, pol)
    BY <1>2, <1>9, <2>2
  <2> QED
    BY <2>3 DEF SortsPlaces
<1>11. PICK T : T = TargetsOf(admitted)
  OBVIOUS
<1>12. \A a \in 1 .. n : at[a] \in surviving /\ all[at[a]] \in admitted /\ plan[a] = Target(all[at[a]])
  BY <1>3, <1>7, <1>10
<1>13. plan \in [1 .. n -> T]
  <2>1. \A a \in 1 .. n : Target(all[at[a]]) \in T
    BY <1>11, <1>12 DEF TargetsOf
  <2>2. plan = [a \in 1 .. n |-> Target(all[at[a]])]
    BY <1>3, <1>10
  <2> QED
    BY <2>1, <2>2
<1>14. plan \in Seq(T) /\ Len(plan) = n /\ DOMAIN plan = 1 .. n
  BY <1>10, <1>13
<1>15. ToSet(plan) = T
  <2>1. ASSUME NEW c \in admitted PROVE \E a \in 1 .. n : plan[a] = Target(c)
    <3>1. c \in Offered(registry)
      BY <1>6 DEF Admitted
    <3>2. PICK i \in 1 .. N : all[i] = c
      BY <1>4, <1>5, <3>1 DEF ToSet
    <3>3. PICK a \in 1 .. n : at[a] = i
      BY <1>7, <1>10, <3>2
    <3> QED
      BY <1>12, <3>2, <3>3
  <2>2. ToSet(plan) = {plan[a] : a \in 1 .. n}
    BY <1>14 DEF ToSet
  <2>3. \A a \in 1 .. n : plan[a] \in T
    BY <1>13
  <2> QED
    BY <1>11, <2>1, <2>2, <2>3 DEF TargetsOf
<1>16. ASSUME NEW a \in 1 .. n, NEW b \in 1 .. n, a < b
       PROVE  <<plan[a], plan[b]>> \in Preference(admitted, request, pol)
  <2>1. PICK c \in admitted, d \in admitted : c = all[at[a]] /\ d = all[at[b]] /\ plan[a] = Target(c) /\ plan[b] = Target(d)
    BY <1>12
  <2>2. \/ Precedes(PreferenceKey(c, request, pol), PreferenceKey(d, request, pol))
        \/ PreferenceKey(c, request, pol) = PreferenceKey(d, request, pol) /\ at[a] # at[b]
    BY <1>10, <1>16, <2>1
  <2>3. c \in Offered(registry) /\ d \in Offered(registry)
    BY <1>6 DEF Admitted
  <2>4. ASSUME PreferenceKey(c, request, pol) = PreferenceKey(d, request, pol), at[a] # at[b] PROVE FALSE
    <3>1. c.provider = d.provider /\ c.descriptor.model = d.descriptor.model
      BY <2>3, <2>4, PreferenceFacts
    <3>2. c = d
      BY <2>3, <3>1, TargetsTell DEF Target
    <3>3. at[a] \in DOMAIN all /\ at[b] \in DOMAIN all
      BY <1>5, <1>7, <1>12
    <3> QED
      BY <1>4, <2>1, <2>4, <3>2, <3>3 DEF IsInjective
  <2>5. Precedes(PreferenceKey(c, request, pol), PreferenceKey(d, request, pol))
    BY <2>2, <2>4
  <2> QED
    BY <2>1, <2>5, PreferredPair
<1>17. IsPlan(plan, admitted, request, pol)
  BY <1>11, <1>14, <1>15, <1>16 DEF IsPlan
<1> QED
  BY <1>1, <1>2, <1>6, <1>9, <1>14, <1>17

\* What is rejected of what a registry publishes.
RejectedTargets(rejected) ==
    [i \in DOMAIN rejected |-> [provider |-> rejected[i].provider, model |-> rejected[i].model]]

\* Whatever is rejected is rejected for a reason.
Reasoned(rejected) == \A i \in DOMAIN rejected : rejected[i].reason # "none"

\* The rest is rejected.
LEMMA RejectionsOfRoute ==
    ASSUME NEW registry, WellRegistered(registry), NEW policy, NEW overrides, NEW request,
           NEW pol, pol = EffectivePolicy(policy, overrides, request),
           NEW rejected, rejected = Route(request, policy, overrides, registry).rejected,
           NEW out, out = RejectedTargets(rejected)
    PROVE  /\ Cardinality(SurvivingPlaces(Published(registry), request, pol)) \in Nat
           /\ Cardinality(SurvivingPlaces(Published(registry), request, pol)) + Len(out) = Len(Published(registry))
           /\ ToSet(out) = TargetsOf(Offered(registry) \ Admitted(registry, request, pol))
           /\ Reasoned(rejected)
<1>1. PICK all : all = Published(registry)
  OBVIOUS
<1>2. all \in Seq(Offered(registry)) /\ ToSet(all) = Offered(registry)
  BY <1>1, PublishedFacts
<1>3. PICK N \in Nat : N = Len(all) /\ DOMAIN all = 1 .. N
  BY <1>2, LenProperties
<1>4. PICK eligible, surviving : eligible = EligiblePlaces(all, request) /\ surviving = SurvivingPlaces(all, request, pol)
  OBVIOUS
<1>5. PICK a, b : a = (1 .. N) \ eligible /\ b = eligible \ surviving
  OBVIOUS
<1>6. PICK s, t : /\ s = [i \in 1 .. N |-> [provider |-> all[i].provider, model |-> all[i].descriptor.model,
                                            reason |-> CapabilityRejection(request, all[i].descriptor)]]
                  /\ t = [i \in 1 .. N |-> [provider |-> all[i].provider, model |-> all[i].descriptor.model,
                                            reason |-> PolicyRejection(pol, all[i])]]
  OBVIOUS
<1>7. rejected = Kept(s, a) \o Kept(t, b)
  <2> DEFINE eff == EffectivePolicy(policy, overrides, request)
             Rejected(places, reason) ==
               Kept([i \in DOMAIN Published(registry) |->
                       [provider |-> Published(registry)[i].provider, model |-> Published(registry)[i].descriptor.model,
                        reason |-> reason[i]]], places)
  <2>1. rejected = Rejected(DOMAIN Published(registry) \ EligiblePlaces(Published(registry), request),
                            [i \in DOMAIN Published(registry) |->
                               CapabilityRejection(request, Published(registry)[i].descriptor)])
                   \o Rejected(EligiblePlaces(Published(registry), request)
                                 \ SurvivingPlaces(Published(registry), request, eff),
                               [i \in DOMAIN Published(registry) |-> PolicyRejection(eff, Published(registry)[i])])
    BY DEF Route, EligiblePlaces, SurvivingPlaces
  <2>2. PICK c, d : /\ c = [i \in 1 .. N |-> CapabilityRejection(request, all[i].descriptor)]
                    /\ d = [i \in 1 .. N |-> PolicyRejection(pol, all[i])]
    OBVIOUS
  <2>3. /\ s = [i \in 1 .. N |-> [provider |-> all[i].provider, model |-> all[i].descriptor.model, reason |-> c[i]]]
        /\ t = [i \in 1 .. N |-> [provider |-> all[i].provider, model |-> all[i].descriptor.model, reason |-> d[i]]]
    BY <1>6, <2>2
  <2>4. /\ Rejected(a, c) = Kept(s, a) /\ Rejected(b, d) = Kept(t, b)
    BY <1>1, <1>3, <2>3
  <2>5. /\ DOMAIN Published(registry) \ EligiblePlaces(Published(registry), request) = a
        /\ EligiblePlaces(Published(registry), request) \ SurvivingPlaces(Published(registry), request, eff) = b
        /\ [i \in DOMAIN Published(registry) |-> CapabilityRejection(request, Published(registry)[i].descriptor)] = c
        /\ [i \in DOMAIN Published(registry) |-> PolicyRejection(eff, Published(registry)[i])] = d
    BY <1>1, <1>3, <1>4, <1>5, <2>2
  <2> HIDE DEF eff, Rejected
  <2> QED
    BY <2>1, <2>4, <2>5
<1>8. eligible \subseteq 1 .. N /\ surviving \subseteq eligible
  BY <1>3, <1>4 DEF EligiblePlaces, SurvivingPlaces
<1>9. PICK S : S = {s[i] : i \in 1 .. N} \cup {t[i] : i \in 1 .. N}
  OBVIOUS
<1>10. s \in Seq(S) /\ t \in Seq(S) /\ Len(s) = N /\ Len(t) = N
  <2>1. (\A i \in 1 .. N : s[i] \in S) /\ (\A i \in 1 .. N : t[i] \in S)
    BY <1>9
  <2>2. s \in [1 .. N -> S] /\ t \in [1 .. N -> S]
    BY <1>6, <2>1
  <2> QED
    BY <2>2
<1>11. PICK k, l : k = Kept(s, a) /\ l = Kept(t, b)
  OBVIOUS
<1>12. /\ k \in Seq(S) /\ Len(k) = Cardinality(a)
       /\ (\A i \in 1 .. Len(k) : \E p \in a : k[i] = s[p]) /\ (\A p \in a : \E i \in 1 .. Len(k) : k[i] = s[p])
  <2>1. a \in SUBSET (1 .. Len(s))
    BY <1>5, <1>10
  <2> QED
    BY <1>10, <1>11, <2>1, KeptCount
<1>13. /\ l \in Seq(S) /\ Len(l) = Cardinality(b)
       /\ (\A i \in 1 .. Len(l) : \E p \in b : l[i] = t[p]) /\ (\A p \in b : \E i \in 1 .. Len(l) : l[i] = t[p])
  <2>1. b \in SUBSET (1 .. Len(t))
    BY <1>5, <1>8, <1>10
  <2> QED
    BY <1>10, <1>11, <2>1, KeptCount
<1>14. PICK m \in Nat, n \in Nat : m = Len(k) /\ n = Len(l)
  BY <1>12, <1>13, LenProperties
<1>15. rejected \in Seq(S) /\ Len(rejected) = m + n /\ \A i \in 1 .. m + n : rejected[i] = IF i <= m THEN k[i] ELSE l[i - m]
  <2>1. k \in Seq(S) /\ l \in Seq(S) /\ rejected = k \o l
    BY <1>7, <1>11, <1>12, <1>13
  <2> QED
    BY <1>14, <2>1, ConcatProperties
<1>16. DOMAIN rejected = 1 .. m + n
  BY <1>15, LenProperties
<1>17. \A i \in 1 .. m + n : out[i] = [provider |-> rejected[i].provider, model |-> rejected[i].model]
  BY <1>16 DEF RejectedTargets
<1>18. Len(out) = m + n /\ DOMAIN out = 1 .. m + n
  <2>1. PICK o : o = [i \in 1 .. m + n |-> [provider |-> rejected[i].provider, model |-> rejected[i].model]]
    OBVIOUS
  <2>2. out = o
    BY <1>16, <2>1 DEF RejectedTargets
  <2>3. PICK O : O = {o[i] : i \in 1 .. m + n}
    OBVIOUS
  <2>4. \A i \in 1 .. m + n : o[i] \in O
    BY <2>3
  <2>5. o \in [1 .. m + n -> O]
    BY <2>1, <2>4
  <2>6. o \in Seq(O) /\ Len(o) = m + n /\ DOMAIN o = 1 .. m + n
    BY <2>5
  <2> QED
    BY <2>2, <2>6
<1>19. /\ \A i \in 1 .. N : s[i].provider = all[i].provider /\ s[i].model = all[i].descriptor.model
       /\ \A i \in 1 .. N : t[i].provider = all[i].provider /\ t[i].model = all[i].descriptor.model
  BY <1>6
<1>20. \A p \in a \cup b : p \in 1 .. N
  BY <1>5, <1>8
<1>21. ASSUME NEW i \in 1 .. m + n PROVE \E p \in a \cup b : out[i] = Target(all[p])
  <2>1. CASE i <= m
    <3>1. i \in 1 .. m /\ rejected[i] = k[i]
      BY <1>15, <2>1
    <3>2. PICK p \in a : k[i] = s[p]
      BY <1>12, <1>14, <3>1
    <3>3. out[i] = Target(all[p])
      BY <1>17, <1>19, <1>20, <3>1, <3>2 DEF Target
    <3> QED
      BY <3>3
  <2>2. CASE ~(i <= m)
    <3>1. i - m \in 1 .. n /\ rejected[i] = l[i - m]
      BY <1>15, <2>2
    <3>2. PICK p \in b : l[i - m] = t[p]
      BY <1>13, <1>14, <3>1
    <3>3. out[i] = Target(all[p])
      BY <1>17, <1>19, <1>20, <3>1, <3>2 DEF Target
    <3> QED
      BY <3>3
  <2> QED
    BY <2>1, <2>2
<1>22. ASSUME NEW p \in a \cup b PROVE \E i \in 1 .. m + n : out[i] = Target(all[p])
  <2>1. CASE p \in a
    <3>1. PICK i \in 1 .. m : k[i] = s[p]
      BY <1>12, <1>14, <2>1
    <3>2. i \in 1 .. m + n /\ rejected[i] = k[i]
      BY <1>15
    <3>3. out[i] = Target(all[p])
      BY <1>17, <1>19, <1>20, <2>1, <3>1, <3>2 DEF Target
    <3> QED
      BY <3>2, <3>3
  <2>2. CASE p \in b
    <3>1. PICK i \in 1 .. n : l[i] = t[p]
      BY <1>13, <1>14, <2>2
    <3>2. i + m \in 1 .. m + n /\ ~(i + m <= m) /\ (i + m) - m = i
      OBVIOUS
    <3>3. rejected[i + m] = l[i]
      BY <1>15, <3>2
    <3>4. out[i + m] = Target(all[p])
      BY <1>17, <1>19, <1>20, <2>2, <3>1, <3>2, <3>3 DEF Target
    <3> QED
      BY <3>2, <3>4
  <2> QED
    BY <2>1, <2>2
<1>23. PICK left : left = Offered(registry) \ Admitted(registry, request, pol)
  OBVIOUS
<1>24. \A p \in 1 .. N : all[p] \in Offered(registry) /\ (p \in a \cup b <=> all[p] \in left)
  <2>1. \A p \in 1 .. N : all[p] \in Offered(registry)
    BY <1>2, <1>3, ElementOfSeq
  <2>2. \A p \in 1 .. N : p \in surviving <=> all[p] \in Admitted(registry, request, pol)
    BY <1>3, <1>4, <2>1 DEF SurvivingPlaces, EligiblePlaces, Admitted
  <2> QED
    BY <1>5, <1>8, <1>23, <2>1, <2>2
<1>25. \A c \in left : \E p \in 1 .. N : all[p] = c
  BY <1>2, <1>3, <1>23 DEF ToSet
<1>26. ToSet(out) = TargetsOf(left)
  <2>1. ToSet(out) = {out[i] : i \in 1 .. m + n}
    BY <1>18 DEF ToSet
  <2>2. \A i \in 1 .. m + n : out[i] \in TargetsOf(left)
    BY <1>20, <1>21, <1>24 DEF TargetsOf
  <2>3. \A c \in left : \E i \in 1 .. m + n : out[i] = Target(c)
    <3> SUFFICES ASSUME NEW c \in left PROVE \E i \in 1 .. m + n : out[i] = Target(c)
      OBVIOUS
    <3>1. PICK p \in 1 .. N : all[p] = c
      BY <1>25
    <3>2. p \in a \cup b
      BY <1>24, <3>1
    <3> QED
      BY <1>22, <3>1, <3>2
  <2> QED
    BY <2>1, <2>2, <2>3 DEF TargetsOf
<1>27. Cardinality(surviving) \in Nat /\ Cardinality(surviving) + Len(out) = N
  <2>1. IsFiniteSet(1 .. N) /\ Cardinality(1 .. N) = N
    BY FS_Interval
  <2>2. IsFiniteSet(eligible) /\ IsFiniteSet(surviving)
    BY <1>8, <2>1, FS_Subset
  <2>3. Cardinality(eligible) \in Nat /\ Cardinality(surviving) \in Nat
    BY <2>2, FS_CardinalityType
  <2>4. PICK whole : whole = 1 .. N
    OBVIOUS
  <2>5. Cardinality(a) = N - Cardinality(eligible)
    <3>1. whole \cap eligible = eligible /\ a = whole \ eligible /\ IsFiniteSet(whole) /\ Cardinality(whole) = N
      BY <1>5, <1>8, <2>1, <2>4
    <3>2. Cardinality(whole \ eligible) = Cardinality(whole) - Cardinality(whole \cap eligible)
      BY <3>1, FS_Difference
    <3> QED
      BY <3>1, <3>2
  <2>6. Cardinality(b) = Cardinality(eligible) - Cardinality(surviving)
    <3>1. eligible \cap surviving = surviving /\ b = eligible \ surviving
      BY <1>5, <1>8
    <3>2. Cardinality(eligible \ surviving) = Cardinality(eligible) - Cardinality(eligible \cap surviving)
      BY <2>2, FS_Difference
    <3> QED
      BY <3>1, <3>2
  <2>7. Len(out) = Cardinality(a) + Cardinality(b)
    BY <1>12, <1>13, <1>14, <1>18
  <2> QED
    BY <1>3, <2>3, <2>5, <2>6, <2>7
<1>28. (\A p \in a : s[p].reason # "none") /\ \A p \in b : t[p].reason # "none"
  <2>1. /\ \A p \in a : CapabilityRejection(request, all[p].descriptor) # "none"
        /\ \A p \in b : PolicyRejection(pol, all[p]) # "none"
    BY <1>3, <1>4, <1>5, <1>8 DEF EligiblePlaces, SurvivingPlaces
  <2> QED
    BY <1>6, <1>20, <2>1
<1>29. ASSUME NEW i \in DOMAIN rejected PROVE rejected[i].reason # "none"
  <2>1. CASE i <= m
    <3>1. i \in 1 .. m /\ rejected[i] = k[i]
      BY <1>15, <1>16, <2>1
    <3> QED
      BY <1>12, <1>14, <1>28, <3>1
  <2>2. CASE ~(i <= m)
    <3>1. i - m \in 1 .. n /\ rejected[i] = l[i - m]
      BY <1>15, <1>16, <2>2
    <3> QED
      BY <1>13, <1>14, <1>28, <3>1
  <2> QED
    BY <2>1, <2>2
<1> QED
  BY <1>1, <1>3, <1>4, <1>23, <1>26, <1>27, <1>29 DEF Reasoned

\* The same providers in the opposite order.
LEMMA ReversedRegistry ==
    ASSUME NEW registry, WellRegistered(registry)
    PROVE  WellRegistered(Reverse(registry)) /\ Offered(Reverse(registry)) = Offered(registry)
<1>1. PICK n \in Nat : n = Len(registry) /\ DOMAIN registry = 1 .. n
  BY LenProperties DEF WellRegistered
<1>2. PICK turned : turned = Reverse(registry)
  OBVIOUS
<1>3. turned = [i \in 1 .. n |-> registry[(n - i) + 1]]
  BY <1>1, <1>2 DEF Reverse
<1>4. PICK all : all = ToSet(registry)
  OBVIOUS
<1>5. \A i \in 1 .. n : (n - i) + 1 \in 1 .. n /\ (n - ((n - i) + 1)) + 1 = i
  OBVIOUS
<1>6. \A i \in 1 .. n : registry[i] \in all
  BY <1>1, <1>4 DEF ToSet
<1>7. turned \in [1 .. n -> all]
  BY <1>3, <1>5, <1>6
<1>8. turned \in Seq(all) /\ DOMAIN turned = 1 .. n
  BY <1>7
<1>9. ToSet(turned) = all
  <2>1. ToSet(turned) = {turned[i] : i \in 1 .. n}
    BY <1>8 DEF ToSet
  <2>2. \A x \in all : \E i \in 1 .. n : turned[i] = x
    <3> SUFFICES ASSUME NEW x \in all PROVE \E i \in 1 .. n : turned[i] = x
      OBVIOUS
    <3>1. PICK j \in 1 .. n : registry[j] = x
      BY <1>1, <1>4 DEF ToSet
    <3>2. (n - j) + 1 \in 1 .. n /\ turned[(n - j) + 1] = x
      BY <1>3, <1>5, <3>1
    <3> QED
      BY <3>2
  <2> QED
    BY <1>7, <2>1, <2>2
<1>10. ASSUME NEW i \in 1 .. n, NEW j \in 1 .. n, i # j PROVE turned[i].id # turned[j].id
  <2>1. PICK k \in 1 .. n, l \in 1 .. n : k = (n - i) + 1 /\ l = (n - j) + 1
    BY <1>5
  <2>2. k # l /\ turned[i] = registry[k] /\ turned[j] = registry[l]
    BY <1>3, <1>10, <2>1
  <2> QED
    BY <1>1, <2>2 DEF WellRegistered
<1>11. WellRegistered(turned)
  BY <1>4, <1>8, <1>9, <1>10 DEF WellRegistered
<1>12. Offered(turned) = Offered(registry)
  BY <1>4, <1>9 DEF Offered
<1> QED
  BY <1>2, <1>11, <1>12

\* A field laid over a record hides the record's own.
LEMMA FieldOfOverlaid ==
    ASSUME NEW fields, NEW record, NEW field, NEW default
    PROVE  Field(Overlaid(fields, record), field, default)
             = IF field \in DOMAIN fields THEN fields[field] ELSE Field(record, field, default)
  BY DEF Field, Overlaid

\* An override of a policy that is typed is typed.
LEMMA OverlaidIsTyped ==
    ASSUME NEW fields, NEW record, PolicyTyped(fields), PolicyTyped(record)
    PROVE  PolicyTyped(Overlaid(fields, record))
  BY DEF Overlaid, PolicyTyped

\* AdmittedBut overrides the policy is in force as it stands.
LEMMA WithoutOverrides ==
    ASSUME NEW policy, NEW request
    PROVE  EffectivePolicy(policy, << >>, request) = policy
<1>1. DOMAIN << >> = {}
  OBVIOUS
<1> QED
  BY <1>1 DEF EffectivePolicy

\* A policy that denies one more provider, and else says the same.
Denying(pol, p) == Overlaid([deniedProviders |-> Field(pol, "deniedProviders", {}) \cup {p}], pol)

\* It admits what is not that provider's and ranks it as before.
LEMMA DenyingOneMore ==
    ASSUME NEW pol, NEW p, NEW stricter, NEW request, NEW c, PolicyTyped(pol), stricter = Denying(pol, p)
    PROVE  /\ PolicyTyped(stricter)
           /\ PolicyRejection(stricter, c) = "none" <=> PolicyRejection(pol, c) = "none" /\ c.provider # p
           /\ PreferenceKey(c, request, stricter) = PreferenceKey(c, request, pol)
<1>1. PICK more : more = [deniedProviders |-> Field(pol, "deniedProviders", {}) \cup {p}]
  OBVIOUS
<1>2. DOMAIN more = {"deniedProviders"} /\ more["deniedProviders"] = Field(pol, "deniedProviders", {}) \cup {p}
  BY <1>1
<1>3. PolicyTyped(stricter)
  <2>1. PolicyTyped(more)
    BY <1>2 DEF PolicyTyped
  <2> QED
    BY <1>1, <2>1, OverlaidIsTyped DEF Denying
<1>4. /\ Field(stricter, "deniedProviders", {}) = Field(pol, "deniedProviders", {}) \cup {p}
      /\ Field(stricter, "allowedProviders", {c.provider}) = Field(pol, "allowedProviders", {c.provider})
      /\ Field(stricter, "requiredCapabilities", {}) = Field(pol, "requiredCapabilities", {})
      /\ Field(stricter, "requiredModelFamilies", {c.descriptor.family})
           = Field(pol, "requiredModelFamilies", {c.descriptor.family})
      /\ Field(stricter, "maximumContextWindow", c.descriptor.window)
           = Field(pol, "maximumContextWindow", c.descriptor.window)
      /\ Field(stricter, "preferredProviders", << >>) = Field(pol, "preferredProviders", << >>)
  BY <1>1, <1>2, FieldOfOverlaid DEF Denying
<1>5. PolicyRejection(stricter, c) = "none" <=> PolicyRejection(pol, c) = "none" /\ c.provider # p
  BY <1>4 DEF PolicyRejection
<1>6. PreferenceKey(c, request, stricter) = PreferenceKey(c, request, pol)
  <2> DEFINE Under(preferred) ==
               LET places == {i \in DOMAIN preferred : preferred[i] = c.provider}
               IN  <<IF Field(request, "preferredModel", NoPlace) = c.descriptor.model THEN 0 ELSE 1,
                     IF Field(request, "preferredProvider", NoPlace) = c.provider THEN 0 ELSE 1,
                     IF places = {} THEN NoPlace ELSE CHOOSE i \in places : \A k \in places : i <= k,
                     c.priority, c.provider, c.descriptor.model>>
  <2>1. PreferenceKey(c, request, stricter) = Under(Field(stricter, "preferredProviders", << >>))
    BY DEF PreferenceKey
  <2>2. PreferenceKey(c, request, pol) = Under(Field(pol, "preferredProviders", << >>))
    BY DEF PreferenceKey
  <2> HIDE DEF Under
  <2> QED
    BY <1>4, <2>1, <2>2
<1> QED
  BY <1>3, <1>5, <1>6

\* What is left of a plan without the targets of a provider.
AdmittedBut(admitted, p) == {c \in admitted : c.provider # p}
PlanBut(plan, p) == Kept(plan, {k \in DOMAIN plan : plan[k].provider # p})

LEMMA PlanWithout ==
    ASSUME NEW admitted, NEW request, NEW pol, NEW stricter, NEW p, NEW plan, IsPlan(plan, admitted, request, pol),
           \A c \in admitted : PreferenceKey(c, request, stricter) = PreferenceKey(c, request, pol),
           NEW rest, rest = AdmittedBut(admitted, p),
           NEW kept, kept = PlanBut(plan, p)
    PROVE  IsPlan(kept, rest, request, stricter)
<1>1. PICK N \in Nat : N = Len(plan) /\ DOMAIN plan = 1 .. N
  BY LenProperties DEF IsPlan
<1>2. PICK T : T = TargetsOf(admitted) /\ plan \in Seq(T) /\ ToSet(plan) = T
  BY DEF IsPlan
<1>3. PICK places : places = {k \in 1 .. N : plan[k].provider # p}
  OBVIOUS
<1>4. kept = Kept(plan, places) /\ {i \in 1 .. Len(plan) : i \in places} = places
  BY <1>1, <1>3 DEF PlanBut
<1>5. kept \in Seq(T) /\ PartOf(kept, plan, places)
  BY <1>2, <1>4, KeptIsPart
<1>6. PICK n \in Nat : n = Len(kept) /\ DOMAIN kept = 1 .. n
  BY <1>5, LenProperties
<1>7. PICK from : Takes(kept, plan, places, from, n)
  BY <1>5, <1>6 DEF PartOf
<1>8. /\ from \in [1 .. n -> places]
      /\ \A i \in 1 .. n : kept[i] = plan[from[i]]
      /\ \A i, j \in 1 .. n : i < j => from[i] < from[j]
      /\ \A k \in places : \E i \in 1 .. n : from[i] = k
  BY <1>7 DEF Takes
<1>9. \A i \in 1 .. n : from[i] \in 1 .. N /\ kept[i] = plan[from[i]] /\ plan[from[i]].provider # p
  BY <1>3, <1>8
<1>10. \A c \in admitted : Target(c).provider # p => c \in rest
  BY DEF Target, AdmittedBut
<1>11. ASSUME NEW i \in 1 .. n PROVE kept[i] \in TargetsOf(rest)
  <2>1. plan[from[i]] \in T
    BY <1>1, <1>2, <1>9, ElementOfSeq
  <2>2. PICK c \in admitted : plan[from[i]] = Target(c)
    BY <1>2, <2>1 DEF TargetsOf
  <2>3. c \in rest /\ kept[i] = Target(c)
    BY <1>9, <1>10, <2>2
  <2> QED
    BY <2>3 DEF TargetsOf
<1>12. ASSUME NEW c \in rest PROVE \E i \in 1 .. n : kept[i] = Target(c)
  <2>1. c \in admitted /\ Target(c).provider # p
    BY DEF Target, AdmittedBut
  <2>2. Target(c) \in ToSet(plan)
    BY <1>2, <2>1 DEF TargetsOf
  <2>3. PICK k \in 1 .. N : plan[k] = Target(c)
    BY <1>1, <2>2 DEF ToSet
  <2>4. k \in places
    BY <1>3, <2>1, <2>3
  <2>5. PICK i \in 1 .. n : from[i] = k
    BY <1>8, <2>4
  <2> QED
    BY <1>9, <2>3, <2>5
<1>13. ASSUME NEW i \in 1 .. n, NEW j \in 1 .. n, i < j
       PROVE  <<kept[i], kept[j]>> \in Preference(rest, request, stricter)
  <2>1. from[i] \in 1 .. N /\ from[j] \in 1 .. N /\ from[i] < from[j]
    BY <1>8, <1>9, <1>13
  <2>2. <<plan[from[i]], plan[from[j]]>> \in Preference(admitted, request, pol)
    BY <1>1, <2>1 DEF IsPlan
  <2>3. PICK c \in admitted, d \in admitted :
          /\ plan[from[i]] = Target(c) /\ plan[from[j]] = Target(d)
          /\ Precedes(PreferenceKey(c, request, pol), PreferenceKey(d, request, pol))
    BY <2>2, PreferredPair
  <2>4. c \in rest /\ d \in rest /\ kept[i] = Target(c) /\ kept[j] = Target(d)
    BY <1>9, <1>10, <2>3
  <2>5. Precedes(PreferenceKey(c, request, stricter), PreferenceKey(d, request, stricter))
    BY <2>3
  <2> QED
    BY <2>4, <2>5, PreferredPair
<1>14. kept \in Seq(TargetsOf(rest))
  <2>1. kept \in [1 .. n -> TargetsOf(rest)]
    <3>1. kept \in [1 .. n -> T]
      BY <1>5, <1>6, LenProperties
    <3> QED
      BY <1>11, <3>1
  <2> QED
    BY <2>1
<1>15. ToSet(kept) = TargetsOf(rest)
  <2>1. ToSet(kept) = {kept[i] : i \in 1 .. n}
    BY <1>6 DEF ToSet
  <2>2. ASSUME NEW x \in TargetsOf(rest) PROVE x \in ToSet(kept)
    <3>1. PICK c \in rest : x = Target(c)
      BY DEF TargetsOf
    <3>2. PICK i \in 1 .. n : kept[i] = Target(c)
      BY <1>12
    <3> QED
      BY <2>1, <3>1, <3>2
  <2>3. ASSUME NEW x \in ToSet(kept) PROVE x \in TargetsOf(rest)
    BY <1>11, <2>1
  <2> QED
    BY <2>2, <2>3
<1> QED
  BY <1>6, <1>13, <1>14, <1>15 DEF IsPlan

\* A model the request prefers comes first if it is in the plan at all.
LEMMA PreferredFirst ==
    ASSUME NEW registry, WellRegistered(registry), NEW request, NEW pol, PolicyTyped(pol),
           NEW admitted \in SUBSET Offered(registry), NEW plan, IsPlan(plan, admitted, request, pol), NEW i \in DOMAIN plan,
           plan[i].model = Field(request, "preferredModel", NoPlace)
    PROVE  /\ 1 \in DOMAIN plan /\ plan[1].model = plan[i].model
           /\ plan[i].provider = Field(request, "preferredProvider", NoPlace) => plan[1] = plan[i]
<1>1. PICK N \in Nat : N = Len(plan) /\ DOMAIN plan = 1 .. N
  BY LenProperties DEF IsPlan
<1>2. i \in 1 .. N /\ 1 \in 1 .. N
  BY <1>1
<1>3. CASE i = 1
  BY <1>1, <1>2, <1>3
<1>4. CASE i # 1
  <2>1. <<plan[1], plan[i]>> \in Preference(admitted, request, pol)
    <3>1. 1 \in DOMAIN plan /\ i \in DOMAIN plan /\ 1 < i
      BY <1>1, <1>2, <1>4
    <3> QED
      BY <3>1 DEF IsPlan
  <2>2. PICK c \in admitted, d \in admitted :
          /\ plan[1] = Target(c) /\ plan[i] = Target(d)
          /\ Precedes(PreferenceKey(c, request, pol), PreferenceKey(d, request, pol))
    BY <2>1, PreferredPair
  <2>3. PICK v, w : v = PreferenceKey(c, request, pol) /\ w = PreferenceKey(d, request, pol)
    OBVIOUS
  <2>4. v \in PreferenceKeys /\ w \in PreferenceKeys
    BY <2>3, PreferenceFacts
  <2>5. v[1] <= w[1] /\ (v[1] = w[1] => v[2] <= w[2])
    BY <2>2, <2>3, <2>4, KeysAreOrdered
  <2>6. /\ v[1] = (IF Field(request, "preferredModel", NoPlace) = c.descriptor.model THEN 0 ELSE 1)
        /\ v[2] = (IF Field(request, "preferredProvider", NoPlace) = c.provider THEN 0 ELSE 1)
    BY <2>3, PreferenceFacts
  <2>7. /\ w[1] = (IF Field(request, "preferredModel", NoPlace) = d.descriptor.model THEN 0 ELSE 1)
        /\ w[2] = (IF Field(request, "preferredProvider", NoPlace) = d.provider THEN 0 ELSE 1)
    BY <2>3, PreferenceFacts
  <2>8. plan[i].model = d.descriptor.model /\ plan[i].provider = d.provider
    BY <2>2 DEF Target
  <2>9. plan[1] = [provider |-> c.provider, model |-> c.descriptor.model] /\ plan[i] = [provider |-> d.provider, model |-> d.descriptor.model]
    BY <2>2 DEF Target
  <2>10. w[1] = 0 /\ v[1] = 0 /\ c.descriptor.model = d.descriptor.model
    BY <2>5, <2>6, <2>7, <2>8
  <2>11. plan[1].model = plan[i].model
    BY <2>9, <2>10
  <2>12. ASSUME plan[i].provider = Field(request, "preferredProvider", NoPlace) PROVE plan[1] = plan[i]
    <3>1. w[2] = 0 /\ v[2] <= 0
      BY <2>5, <2>7, <2>8, <2>10, <2>12
    <3>2. c.provider = d.provider
      BY <2>6, <2>8, <2>12, <3>1
    <3> QED
      BY <2>9, <2>10, <3>2
  <2> QED
    BY <1>1, <1>2, <2>11, <2>12
<1> QED
  BY <1>3, <1>4

\* A replay asks for the same capabilities, and prefers its target.
LEMMA ReplayFacts ==
    ASSUME NEW registry, WellRegistered(registry), NEW policy, PolicyTyped(policy), NEW capabilities,
           NEW t, t \in TargetsOf(Offered(registry)),
           NEW open, open = Overlaid([allowedProviders |-> {t.provider}], policy),
           NEW authorized, authorized = Route([capabilities |-> capabilities], open, << >>, registry).targets
    PROVE  Replayed(t, capabilities, policy, registry) <=> t \in ToSet(authorized)
<1>1. PICK plain, request : /\ plain = [capabilities |-> capabilities]
                            /\ request = [capabilities |-> capabilities, preferredProvider |-> t.provider,
                                          preferredModel |-> t.model]
  OBVIOUS
<1>2. PolicyTyped(open)
  <2>1. PICK only : only = [allowedProviders |-> {t.provider}]
    OBVIOUS
  <2>2. DOMAIN only = {"allowedProviders"}
    BY <2>1
  <2>3. PolicyTyped(only)
    BY <2>2 DEF PolicyTyped
  <2> QED
    BY <2>1, <2>3, OverlaidIsTyped
<1>3. PICK plan : plan = Route(request, open, << >>, registry).targets
  OBVIOUS
<1>4. Replayed(t, capabilities, policy, registry) <=> plan # << >> /\ plan[1] = t
  BY <1>1, <1>3 DEF Replayed
<1>5. PICK admitted : admitted = Admitted(registry, plain, open)
  OBVIOUS
<1>6. Admitted(registry, request, open) = admitted
  <2>1. DOMAIN plain = {"capabilities"} /\ DOMAIN request = {"capabilities", "preferredProvider", "preferredModel"}
    BY <1>1
  <2>2. /\ Field(plain, "capabilities", {}) = Field(request, "capabilities", {})
        /\ Field(plain, "minimumContextWindow", 0) = Field(request, "minimumContextWindow", 0)
    BY <1>1, <2>1 DEF Field
  <2>3. ASSUME NEW d PROVE CapabilityRejection(plain, d) = CapabilityRejection(request, d)
    BY <2>2, Zenon DEF CapabilityRejection
  <2> QED
    BY <1>5, <2>3 DEF Admitted
<1>7. IsPlan(authorized, admitted, plain, open)
  <2>1. open = EffectivePolicy(open, << >>, plain)
    BY WithoutOverrides
  <2>2. authorized = Route(plain, open, << >>, registry).targets
    BY <1>1
  <2> QED
    BY <1>2, <1>5, <2>1, <2>2, PlanOfRoute
<1>8. IsPlan(plan, admitted, request, open)
  <2>1. open = EffectivePolicy(open, << >>, request)
    BY WithoutOverrides
  <2>2. IsPlan(plan, Admitted(registry, request, open), request, open)
    BY <1>2, <1>3, <2>1, PlanOfRoute
  <2> QED
    BY <1>6, <2>2
<1>9. PICK N \in Nat : N = Len(plan) /\ DOMAIN plan = 1 .. N /\ plan \in Seq(TargetsOf(admitted))
  BY <1>8, LenProperties DEF IsPlan
<1>10. ToSet(plan) = ToSet(authorized) /\ ToSet(plan) = {plan[i] : i \in 1 .. N}
  BY <1>7, <1>8, <1>9 DEF IsPlan, ToSet
<1>11. ASSUME plan # << >>, plan[1] = t PROVE t \in ToSet(authorized)
  <2>1. N # 0
    BY <1>9, <1>11
  <2>2. 1 \in 1 .. N
    BY <2>1
  <2> QED
    BY <1>10, <1>11, <2>2
<1>12. ASSUME t \in ToSet(authorized) PROVE plan # << >> /\ plan[1] = t
  <2>1. PICK k \in 1 .. N : plan[k] = t
    BY <1>10, <1>12
  <2>2. DOMAIN request = {"capabilities", "preferredProvider", "preferredModel"}
    BY <1>1
  <2>3. Field(request, "preferredModel", NoPlace) = t.model /\ Field(request, "preferredProvider", NoPlace) = t.provider
    BY <1>1, <2>2 DEF Field
  <2>4. admitted \in SUBSET Offered(registry)
    BY <1>5 DEF Admitted
  <2>5. plan[1] = plan[k]
    BY <1>2, <1>8, <1>9, <2>1, <2>3, <2>4, PreferredFirst
  <2>6. plan # << >>
    BY <1>9, <2>1
  <2> QED
    BY <2>1, <2>5, <2>6
<1> QED
  BY <1>4, <1>11, <1>12

\* Whatever order the providers are registered in, the plan is the same.
LEMMA OrderDoesNotMatter ==
    ASSUME NEW registry, WellRegistered(registry), NEW policy, NEW overrides, NEW request,
           PolicyTyped(EffectivePolicy(policy, overrides, request))
    PROVE  Route(request, policy, overrides, Reverse(registry)).targets = Route(request, policy, overrides, registry).targets
<1>1. PICK pol : pol = EffectivePolicy(policy, overrides, request)
  OBVIOUS
<1>2. PICK turned : turned = Reverse(registry)
  OBVIOUS
<1>3. WellRegistered(turned) /\ Offered(turned) = Offered(registry)
  BY <1>2, ReversedRegistry
<1>4. PICK admitted : admitted = Admitted(registry, request, pol)
  OBVIOUS
<1>5. Admitted(turned, request, pol) = admitted /\ admitted \in SUBSET Offered(registry)
  BY <1>3, <1>4 DEF Admitted
<1>6. PICK s, t : /\ s = Route(request, policy, overrides, turned).targets
                  /\ t = Route(request, policy, overrides, registry).targets
  OBVIOUS
<1>7. IsPlan(s, admitted, request, pol)
  BY <1>1, <1>3, <1>5, <1>6, PlanOfRoute
<1>8. IsPlan(t, admitted, request, pol)
  BY <1>1, <1>4, <1>6, PlanOfRoute
<1>9. s = t
  BY <1>1, <1>5, <1>7, <1>8, OnePlan
<1> QED
  BY <1>2, <1>6, <1>9

\* Denying one more provider takes its targets out of the plan.
LEMMA DeniedTargetsLeave ==
    ASSUME NEW registry, WellRegistered(registry), NEW policy, NEW overrides, NEW request,
           NEW pol, pol = EffectivePolicy(policy, overrides, request), PolicyTyped(pol), NEW p,
           NEW plan, plan = Route(request, policy, overrides, registry).targets,
           NEW stricter, stricter = Denying(pol, p)
    PROVE  Route(request, stricter, << >>, registry).targets = PlanBut(plan, p)
<1>1. PICK admitted, rest : admitted = Admitted(registry, request, pol) /\ rest = AdmittedBut(admitted, p)
  OBVIOUS
<1>2. IsPlan(plan, admitted, request, pol)
  BY <1>1, PlanOfRoute
<1>3. /\ PolicyTyped(stricter)
      /\ \A c : /\ PolicyRejection(stricter, c) = "none" <=> PolicyRejection(pol, c) = "none" /\ c.provider # p
                /\ PreferenceKey(c, request, stricter) = PreferenceKey(c, request, pol)
  <2>1. PolicyTyped(stricter)
    BY DenyingOneMore
  <2>2. ASSUME NEW c
        PROVE  /\ PolicyRejection(stricter, c) = "none" <=> PolicyRejection(pol, c) = "none" /\ c.provider # p
               /\ PreferenceKey(c, request, stricter) = PreferenceKey(c, request, pol)
    BY DenyingOneMore
  <2> QED
    BY <2>1, <2>2
<1>4. Admitted(registry, request, stricter) = rest /\ rest \in SUBSET Offered(registry)
  BY <1>1, <1>3 DEF Admitted, AdmittedBut
<1>5. PICK left, kept : /\ left = Route(request, stricter, << >>, registry).targets
                        /\ kept = PlanBut(plan, p)
  OBVIOUS
<1>6. IsPlan(left, rest, request, stricter)
  <2>1. stricter = EffectivePolicy(stricter, << >>, request)
    BY WithoutOverrides
  <2>2. IsPlan(left, Admitted(registry, request, stricter), request, stricter)
    BY <1>3, <1>5, <2>1, PlanOfRoute
  <2> QED
    BY <1>4, <2>2
<1>7. IsPlan(kept, rest, request, stricter)
  <2>1. \A c \in admitted : PreferenceKey(c, request, stricter) = PreferenceKey(c, request, pol)
    BY <1>3
  <2> QED
    BY <1>1, <1>2, <1>5, <2>1, PlanWithout
<1>8. left = kept
  BY <1>3, <1>4, <1>6, <1>7, OnePlan
<1> QED
  BY <1>5, <1>8

\* Every published model is in the plan or rejected, once.
TargetsIn(all) == {Target(all[i]) : i \in DOMAIN all}

Accounted(route, registry) ==
    /\ Len(route.targets) + Len(RejectedTargets(route.rejected)) = Len(Published(registry))
    /\ ToSet(route.targets) \cup ToSet(RejectedTargets(route.rejected)) = TargetsIn(Published(registry))
    /\ TargetsIn(Published(registry)) = TargetsOf(Offered(registry))
    /\ Reasoned(route.rejected)

LEMMA NothingIsLost ==
    ASSUME NEW registry, WellRegistered(registry), NEW policy, NEW overrides, NEW request,
           PolicyTyped(EffectivePolicy(policy, overrides, request))
    PROVE  Accounted(Route(request, policy, overrides, registry), registry)
<1>1. PICK route, all, plan, out :
        /\ route = Route(request, policy, overrides, registry) /\ all = Published(registry)
        /\ plan = route.targets /\ out = RejectedTargets(route.rejected)
  OBVIOUS
<1>2. PICK pol : pol = EffectivePolicy(policy, overrides, request)
  OBVIOUS
<1>3. PICK n : n = Cardinality(SurvivingPlaces(all, request, pol))
  OBVIOUS
<1>4. PICK admitted : admitted = Admitted(registry, request, pol)
  OBVIOUS
<1>5. IsPlan(plan, admitted, request, pol) /\ Len(plan) = n
  BY <1>1, <1>2, <1>3, <1>4, PlanOfRoute
<1>6. /\ n + Len(out) = Len(all) /\ ToSet(out) = TargetsOf(Offered(registry) \ admitted)
      /\ Reasoned(route.rejected)
  BY <1>1, <1>2, <1>3, <1>4, RejectionsOfRoute
<1>7. ToSet(plan) = TargetsOf(admitted)
  BY <1>5 DEF IsPlan
<1>8. TargetsOf(admitted) \cup TargetsOf(Offered(registry) \ admitted) = TargetsOf(Offered(registry))
  <2>1. admitted \subseteq Offered(registry)
    BY <1>4 DEF Admitted
  <2> QED
    BY <2>1 DEF TargetsOf
<1>9. TargetsIn(all) = TargetsOf(Offered(registry))
  <2>1. {all[i] : i \in DOMAIN all} = Offered(registry)
    BY <1>1, PublishedFacts DEF ToSet
  <2> QED
    BY <2>1 DEF TargetsOf, TargetsIn
<1> QED
  BY <1>1, <1>5, <1>6, <1>7, <1>8, <1>9 DEF Accounted

\* What has been routed is what route makes of the query.
RoutingInv ==
    /\ routingQuery \in RoutingQueries
    /\ \/ routed = NotRouted
       \/ routed = Route(routingQuery.request, routingQuery.policy, routingQuery.overrides, Registry)

\* A query that the model routes is typed, and so is the policy in force for it.
LEMMA PolicyInForce ==
    ASSUME NEW q \in RoutingQueries
    PROVE  WellRegistered(Registry) /\ PolicyTyped(EffectivePolicy(q.policy, q.overrides, q.request))
<1>1. /\ WellRegistered(Registry) /\ PolicyTyped(q.policy)
      /\ \A tenant \in DOMAIN q.overrides : PolicyTyped(q.overrides[tenant])
  BY RoutingAssumption
<1>2. PICK pol : pol = EffectivePolicy(q.policy, q.overrides, q.request)
  OBVIOUS
<1>3. CASE pol = q.policy
  BY <1>1, <1>2, <1>3
<1>4. CASE pol # q.policy
  <2>1. PICK tenant \in DOMAIN q.overrides : pol = Overlaid(q.overrides[tenant], q.policy)
    BY <1>2, <1>4 DEF EffectivePolicy
  <2> QED
    BY <1>1, <1>2, <2>1, OverlaidIsTyped
<1> QED
  BY <1>3, <1>4

LEMMA RoutedIsAuthorized == RoutingInv => PlanIsAuthorized
<1> SUFFICES ASSUME RoutingInv, routed # NotRouted PROVE PlanIsAuthorized
  BY DEF PlanIsAuthorized
<1>1. PICK q : q = routingQuery
  OBVIOUS
<1>2. PICK request, policy, overrides : request = q.request /\ policy = q.policy /\ overrides = q.overrides
  OBVIOUS
<1>3. routed = Route(request, policy, overrides, Registry)
  BY <1>1, <1>2 DEF RoutingInv
<1>4. WellRegistered(Registry) /\ PolicyTyped(policy) /\ \A tenant \in DOMAIN overrides : PolicyTyped(overrides[tenant])
  BY <1>1, <1>2, RoutingAssumption DEF RoutingInv
<1>5. PICK pol : pol = EffectivePolicy(policy, overrides, request)
  OBVIOUS
<1>6. PolicyTyped(pol)
  BY <1>1, <1>2, <1>5, PolicyInForce DEF RoutingInv
<1>7. PICK all, plan, out :
        /\ all = Published(Registry) /\ plan = routed.targets
        /\ out = RejectedTargets(routed.rejected)
  OBVIOUS
<1>8. /\ Len(plan) + Len(out) = Len(all) /\ ToSet(plan) \cup ToSet(out) = TargetsIn(all)
      /\ TargetsIn(all) = TargetsOf(Offered(Registry))
  <2>1. Accounted(routed, Registry)
    BY <1>3, <1>4, <1>5, <1>6, NothingIsLost
  <2> QED
    BY <1>7, <2>1 DEF Accounted
<1>9. Route(request, policy, overrides, Reverse(Registry)).targets = plan
  BY <1>3, <1>4, <1>5, <1>6, <1>7, OrderDoesNotMatter
<1>10. ASSUME NEW i \in DOMAIN Registry
       PROVE  Route(request, Denying(pol, Registry[i].id), << >>, Registry).targets = PlanBut(plan, Registry[i].id)
  BY <1>3, <1>4, <1>5, <1>6, <1>7, DeniedTargetsLeave
<1>11. ASSUME NEW i \in DOMAIN plan, plan[i].model = Field(request, "preferredModel", NoPlace)
       PROVE  plan[1].model = plan[i].model
  <2>1. IsPlan(plan, Admitted(Registry, request, pol), request, pol)
    BY <1>3, <1>4, <1>5, <1>6, <1>7, PlanOfRoute
  <2>2. Admitted(Registry, request, pol) \in SUBSET Offered(Registry)
    BY DEF Admitted
  <2> QED
    BY <1>4, <1>6, <1>11, <2>1, <2>2, PreferredFirst
<1>12. ASSUME NEW i \in DOMAIN all, NEW t, t = Target(all[i])
       PROVE  Replayed(t, Field(request, "capabilities", {}), policy, Registry)
                <=> t \in ToSet(Route([capabilities |-> Field(request, "capabilities", {})],
                                      Overlaid([allowedProviders |-> {t.provider}], policy), << >>, Registry).targets)
  <2>1. t \in TargetsOf(Offered(Registry))
    BY <1>8, <1>12 DEF TargetsIn
  <2> QED
    BY <1>4, <2>1, ReplayFacts
<1>13. ASSUME NEW i \in DOMAIN Registry
       PROVE  LET p == Registry[i].id
                  stricter == Overlaid([deniedProviders |-> Field(pol, "deniedProviders", {}) \cup {p}], pol)
              IN  Route(request, stricter, << >>, Registry).targets
                    = Kept(plan, {k \in DOMAIN plan : plan[k].provider # p})
  BY <1>10 DEF Denying, PlanBut
<1>14. ASSUME NEW i \in DOMAIN all
       PROVE  LET t == Target(all[i])
                  open == Overlaid([allowedProviders |-> {t.provider}], policy)
                  authorized == Route([capabilities |-> Field(request, "capabilities", {})], open, << >>, Registry).targets
              IN  Replayed(t, Field(request, "capabilities", {}), policy, Registry) <=> t \in ToSet(authorized)
  BY <1>12
<1>15. ToSet(plan) \cup ToSet(out) = {Target(all[i]) : i \in DOMAIN all}
  BY <1>8 DEF TargetsIn
<1>16. out = [i \in DOMAIN routed.rejected |-> [provider |-> routed.rejected[i].provider,
                                                model |-> routed.rejected[i].model]]
  BY <1>7 DEF RejectedTargets
<1>17. all = Published(Registry) /\ plan = routed.targets
  BY <1>7
<1>18. Len(plan) + Len(out) = Len(all)
  BY <1>8
<1>19. \A i \in DOMAIN plan : plan[i].model = Field(request, "preferredModel", NoPlace) => plan[1].model = plan[i].model
  BY <1>11
<1> QED
  BY <1>1, <1>2, <1>5, <1>9, <1>13, <1>14, <1>15, <1>16, <1>17, <1>18, <1>19, ZenonT(60) DEF PlanIsAuthorized

LEMMA RoutingStarts == RoutingInit => RoutingInv
BY DEF RoutingInit, RoutingInv

LEMMA RoutingStepKeeps == RoutingInv /\ [RouteRequest]_routingVars => RoutingInv'
BY DEF RoutingInv, RouteRequest, routingVars

\* Whatever is registered and asked, the plan authorizes what the policy in force admits
\* and no more, in one order whatever the order of registration, and a replay runs exactly
\* when its recorded target would be authorized (route, routing-engine.ts:56; replayOne,
\* replay-engine.ts:126).
THEOREM PlansAreAuthorized == RoutingSpec => []PlanIsAuthorized
<1>1. RoutingInit => RoutingInv
  BY RoutingStarts
<1>2. RoutingInv /\ [RouteRequest]_routingVars => RoutingInv'
  BY RoutingStepKeeps
<1> QED
  BY <1>1, <1>2, RoutedIsAuthorized, PTL DEF RoutingSpec

LEMMA RoutesAreTyped == RoutingInv => RoutingTypeOK
<1> SUFFICES ASSUME RoutingInv PROVE RoutingTypeOK
  OBVIOUS
<1>1. CASE routed = NotRouted
  <2>1. routed.targets = << >> /\ routed.rejected = << >>
    BY <1>1 DEF NotRouted
  <2>2. ToSet(routed.targets) = {} /\ DOMAIN routed.rejected = {}
    BY <2>1 DEF ToSet
  <2> QED
    BY <2>2 DEF RoutingTypeOK
<1>2. CASE routed # NotRouted
  <2>1. PICK q \in RoutingQueries : routed = Route(q.request, q.policy, q.overrides, Registry)
    BY <1>2 DEF RoutingInv
  <2>2. Accounted(routed, Registry)
    BY <2>1, PolicyInForce, NothingIsLost
  <2>3. ToSet(routed.targets) \subseteq TargetsIn(Published(Registry))
    BY <2>2 DEF Accounted
  <2> QED
    BY <2>2, <2>3 DEF Accounted, Reasoned, RoutingTypeOK, TargetsIn
<1> QED
  BY <1>1, <1>2

\* A plan is of its type: its targets are published models, and what it leaves out has a
\* reason (route, routing-engine.ts:56).
THEOREM RoutingTypeCorrect == RoutingSpec => []RoutingTypeOK
<1>1. RoutingInit => RoutingInv
  BY RoutingStarts
<1>2. RoutingInv /\ [RouteRequest]_routingVars => RoutingInv'
  BY RoutingStepKeeps
<1>3. RoutingInv => RoutingTypeOK
  BY RoutesAreTyped
<1> QED
  BY <1>1, <1>2, <1>3, PTL DEF RoutingSpec

-----------------------------------------------------------------------------
\* The services together. A behaviour of the composition is one of its part's, and the
\* other parts stay as they began.
ServicesInv ==
    /\ part = "mission" => MissionInv
    /\ part = "inference" => PipelineInv /\ PipelineBounded
    /\ part = "agent" => AgentInv
    /\ part = "runs" => RunsInv
    /\ part = "routing" => RoutingInv
    /\ part = "cache" => CacheInv

LEMMA ServicesStart == Init => ServicesInv
<1> SUFFICES ASSUME Init PROVE ServicesInv
  OBVIOUS
<1>1. MissionInit /\ PipelineInit /\ AgentInit /\ RunsInit /\ CacheInit
  BY DEF Init
<1>2. part = "routing" => RoutingInit
  BY DEF Init
<1> QED
  BY <1>1, <1>2, InvInit, PipelineStarts, PipelineStartsBounded, AgentStarts, RunsInitially, RoutingStarts, CacheStarts
  DEF ServicesInv

LEMMA OnePartMoves ==
    ASSUME [Next]_vars
    PROVE  /\ part' = part
           /\ [MissionNext]_missionVars
           /\ [PipelineNext]_pipelineVars
           /\ [AgentNext]_agentVars
           /\ [RunsNext]_runsVars
           /\ [RouteRequest]_routingVars
           /\ [CacheNext]_cacheVars
<1>1. CASE UNCHANGED vars
  BY <1>1 DEF vars
<1>2. CASE Next
  BY <1>2 DEF Next
<1> QED
  BY <1>1, <1>2

\* What the composition shows of a service, how it begins and each step, is what the service's
\* own specification allows, so what was proved of the service's states holds in it.
THEOREM ServicesFollowTheirSpecs ==
    Spec =>
      /\ MissionInit
      /\ PipelineInit
      /\ AgentInit
      /\ RunsInit
      /\ CacheInit
      /\ (part = "routing" => RoutingInit)
      /\ [][MissionNext]_missionVars
      /\ [][PipelineNext]_pipelineVars
      /\ [][AgentNext]_agentVars
      /\ [][RunsNext]_runsVars
      /\ [][RouteRequest]_routingVars
      /\ [][CacheNext]_cacheVars
<1>1. Init => /\ MissionInit /\ PipelineInit /\ AgentInit /\ RunsInit /\ CacheInit
              /\ (part = "routing" => RoutingInit)
  BY DEF Init
<1>2. [Next]_vars => [MissionNext]_missionVars
  BY OnePartMoves
<1>3. [Next]_vars => [PipelineNext]_pipelineVars
  BY OnePartMoves
<1>4. [Next]_vars => [AgentNext]_agentVars
  BY OnePartMoves
<1>5. [Next]_vars => [RunsNext]_runsVars
  BY OnePartMoves
<1>6. [Next]_vars => [RouteRequest]_routingVars
  BY OnePartMoves
<1>7. [Next]_vars => [CacheNext]_cacheVars
  BY OnePartMoves
<1> QED
  BY <1>1, <1>2, <1>3, <1>4, <1>5, <1>6, <1>7, PTL DEF Spec

LEMMA ServicesStepKeeps == ServicesInv /\ [Next]_vars => ServicesInv'
<1> SUFFICES ASSUME ServicesInv, [Next]_vars PROVE ServicesInv'
  OBVIOUS
<1>1. part' = part
  BY OnePartMoves
<1>2. CASE part = "mission"
  <2>1. MissionInv'
    BY <1>2, OnePartMoves, MissionStepKeeps DEF ServicesInv
  <2> QED
    BY <1>1, <1>2, <2>1 DEF ServicesInv
<1>3. CASE part = "inference"
  <2>1. PipelineInv' /\ PipelineBounded'
    BY <1>3, OnePartMoves, PipelineStepKeeps, PipelineStaysBounded DEF ServicesInv
  <2> QED
    BY <1>1, <1>3, <2>1 DEF ServicesInv
<1>4. CASE part = "agent"
  <2>1. AgentInv'
    BY <1>4, OnePartMoves, AgentStepKeeps DEF ServicesInv
  <2> QED
    BY <1>1, <1>4, <2>1 DEF ServicesInv
<1>5. CASE part = "runs"
  <2>1. RunsInv'
    BY <1>5, OnePartMoves, RunsStepKeeps DEF ServicesInv
  <2> QED
    BY <1>1, <1>5, <2>1 DEF ServicesInv
<1>6. CASE part = "routing"
  <2>1. RoutingInv'
    BY <1>6, OnePartMoves, RoutingStepKeeps DEF ServicesInv
  <2> QED
    BY <1>1, <1>6, <2>1 DEF ServicesInv
<1>7. CASE part = "cache"
  <2>1. CacheInv'
    BY <1>7, OnePartMoves, CacheStepKeeps DEF ServicesInv
  <2> QED
    BY <1>1, <1>7, <2>1 DEF ServicesInv
<1> QED
  BY <1>1, <1>2, <1>3, <1>4, <1>5, <1>6, <1>7 DEF ServicesInv

\* Whichever service is under way, and whatever the values its instance is given, its state
\* keeps the type its component declares.
THEOREM ServicesTypeCorrect == Spec => []TypeOK
<1>1. Init => ServicesInv
  BY ServicesStart
<1>2. ServicesInv /\ [Next]_vars => ServicesInv'
  BY ServicesStepKeeps
<1>3. ServicesInv => TypeOK
  BY MissionsAreTyped, PipelinesAreTyped, AgentsAreTyped, RunsAreTyped, RoutesAreTyped, CachesAreTyped
  DEF ServicesInv, TypeOK
<1> QED
  BY <1>1, <1>2, <1>3, PTL DEF Spec

=============================================================================
