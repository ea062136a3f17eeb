----------------------------- MODULE MissionPlan -----------------------------
(***************************************************************************)
(* The execution planner of the mission runtime                            *)
(* (src/lib/missions/execution-planner.ts): duplicate and unknown task ids *)
(* are refused, then the tasks are layered with Kahn's algorithm.  A       *)
(* mission is a sequence of task ids and the dependencies each id names.   *)
(***************************************************************************)
EXTENDS Naturals, Sequences, FiniteSets

TaskIds(m) == {m.ids[i] : i \in DOMAIN m.ids}

HasDuplicate(m) == \E i, j \in DOMAIN m.ids : i # j /\ m.ids[i] = m.ids[j]

HasUnknownDependency(m) == \E t \in TaskIds(m) : ~(m.deps[t] \subseteq TaskIds(m))

\* Tasks placed by the first n rounds of the layering loop: a round takes every
\* remaining task whose dependencies were all placed by earlier rounds.
PlacedBy(m, n) ==
    LET ready(done) == {t \in TaskIds(m) \ done : m.deps[t] \subseteq done}
        placed[k \in Nat] == IF k = 0 THEN {} ELSE placed[k - 1] \cup ready(placed[k - 1])
    IN  placed[n]

HasCycle(m) == PlacedBy(m, Len(m.ids)) # TaskIds(m)

PlanError(m) ==
    IF HasDuplicate(m) THEN "DUPLICATE_TASK"
    ELSE IF HasUnknownDependency(m) THEN "MISSING_DEPENDENCY"
    ELSE IF HasCycle(m) THEN "CYCLE" ELSE "none"

Layer(m, n) == PlacedBy(m, n) \ PlacedBy(m, n - 1)

LayerCount(m) ==
    Cardinality({n \in 1 .. Len(m.ids) : Layer(m, n) # {}})

-----------------------------------------------------------------------------
\* Reference definition: t needs d through a chain of at most n dependencies.
Needs(m, t, d) ==
    LET within[n \in Nat] ==
            IF n = 0 THEN m.deps[t]
            ELSE within[n - 1] \cup UNION {m.deps[s] : s \in within[n - 1] \cap TaskIds(m)}
    IN  d \in within[Len(m.ids)]

=============================================================================
