----------------------------- MODULE AgentRunner -----------------------------
(***************************************************************************)
(* One agent run (src/lib/aiops/agents/agent-runner.ts): a walk over the   *)
(* agent's graph under step, time, model-call and cost budgets.  A node    *)
(* that outlives the deadline fails the run while its work goes on.        *)
(***************************************************************************)
EXTENDS Integers, Sequences, FiniteSets, SequencesExt

CONSTANTS
    Agents,             \* agent definitions: [nodes, edges], both sequences
    BoardPaths,         \* paths of the blackboard that conditions look at
    BoardValues,        \* numbers a path may hold
    MaxSteps, MaxFunctionCalls, MaxCost,
    Missing             \* undefined: a path not set, an edge without a condition

ASSUME AgentAssumption ==
    /\ {MaxSteps, MaxFunctionCalls, MaxCost} \subseteq Nat
    /\ BoardValues \subseteq Int
    /\ \A a \in Agents : a.nodes \in Seq(ToSet(a.nodes))

VARIABLES
    agent,          \* the definition being run
    agentRow,       \* status of the db.agentRuns row
    runAt,          \* where runAgent stands
    node,           \* index of the current node
    visited,        \* the cycle guard
    steps,          \* indices of the nodes recorded in the run's steps
    begun,          \* indices of the nodes whose work was started
    cost,           \* accumulated model cost
    board,          \* the blackboard
    expired,        \* the deadline has passed
    outliving       \* nodes whose work still runs after the run gave up on them

agentVars == <<agent, agentRow, runAt, node, visited, steps, begun, cost, board, expired, outliving>>

KindOf(n) == agent.nodes[n].kind

\* The input node, or else the first one.
StartNode ==
    LET inputs == {i \in DOMAIN agent.nodes : agent.nodes[i].kind = "input"}
    IN  IF inputs = {} THEN 1 ELSE CHOOSE i \in inputs : \A j \in inputs : i <= j

AgentInit ==
    /\ agent \in Agents
    /\ agentRow = "none"
    /\ runAt = "start"
    /\ node = StartNode
    /\ visited = {}
    /\ steps = << >>
    /\ begun = << >>
    /\ cost = 0
    /\ board = [p \in BoardPaths |-> Missing]
    /\ expired = FALSE
    /\ outliving = {}

\* The kill switch refuses the run, or its row is inserted. A graph without nodes has
\* nothing to do.
StartRun ==
    /\ runAt = "start"
    /\ \/ runAt' = "refused" /\ UNCHANGED agentRow
       \/ agentRow' = "running" /\ runAt' = IF agent.nodes = << >> THEN "completing" ELSE "checking"
    /\ UNCHANGED <<agent, node, visited, steps, begun, cost, board, expired, outliving>>

FunctionCalls(seq) == Cardinality({i \in DOMAIN seq : KindOf(seq[i]) = "function"})

\* Resource governance before a node executes.
OverBudget ==
    \/ node \in visited
    \/ Cardinality(visited) + 1 > MaxSteps
    \/ expired
    \/ KindOf(node) = "function" /\ FunctionCalls(begun) + 1 > MaxFunctionCalls

BeginNode ==
    /\ runAt = "checking"
    /\ IF OverBudget
       THEN runAt' = "failing" /\ UNCHANGED <<visited, begun>>
       ELSE /\ runAt' = "executing"
            /\ visited' = visited \cup {node}
            /\ begun' = Append(begun, node)
    /\ UNCHANGED <<agent, agentRow, node, steps, cost, board, expired, outliving>>

\* evalCondition. Its pattern tries > and < before >= and <=, so those two read as a
\* comparison with a literal that is not a number.
EvalCondition(c, b) ==
    LET left == b[c.path] IN
    CASE c.op = "truthy" -> left \notin {Missing, 0}
      [] c.op = "==" -> left = c.literal
      [] c.op = "!=" -> left # c.literal
      [] c.op = ">" -> left # Missing /\ left > c.literal
      [] c.op = "<" -> left # Missing /\ left < c.literal
      [] c.op \in {">=", "<="} -> FALSE
      [] OTHER -> FALSE

\* nextNode: targets of the first outgoing edge that is open; empty when there is none
\* or the edge names no node.
NextNode(n, b) ==
    LET open == SelectSeq(agent.edges, LAMBDA e :
                    /\ e.from = agent.nodes[n].id
                    /\ e.condition = Missing \/ EvalCondition(e.condition, b))
    IN  IF open = << >> THEN {}
        ELSE {i \in DOMAIN agent.nodes : agent.nodes[i].id = Head(open).to}

\* The node's output is merged, its cost counted, and the next node chosen.
NodeReturns(p, value, spent) ==
    LET b == IF KindOf(node) = "function" THEN [board EXCEPT ![p] = value] ELSE board
        next == NextNode(node, b)
    IN  /\ runAt = "executing"
        /\ spent > 0 => KindOf(node) \in {"function", "retrieve"}
        /\ steps' = Append(steps, node)
        /\ board' = b
        /\ cost' = cost + spent
        /\ IF cost + spent > MaxCost THEN runAt' = "failing" /\ UNCHANGED node
           ELSE IF KindOf(node) = "output" \/ next = {} THEN runAt' = "completing" /\ UNCHANGED node
           ELSE runAt' = "checking" /\ node' \in next
        /\ UNCHANGED <<agent, agentRow, visited, begun, expired, outliving>>

NodeThrows ==
    /\ runAt = "executing"
    /\ runAt' = "failing"
    /\ UNCHANGED <<agent, agentRow, node, visited, steps, begun, cost, board, expired, outliving>>

\* Mutated: the run completes with what it has.
TimeoutCompletes ==
    /\ runAt = "executing" /\ expired
    /\ runAt' = "completing"
    /\ outliving' = outliving \cup {node}
    /\ UNCHANGED <<agent, agentRow, node, visited, steps, begun, cost, board, expired>>

\* withTimeout: the race is lost, the node's promise is not cancelled.
NodeTimesOut ==
    /\ runAt = "executing" /\ expired
    /\ runAt' = "failing"
    /\ outliving' = outliving \cup {node}
    /\ UNCHANGED <<agent, agentRow, node, visited, steps, begun, cost, board, expired>>

OutlivingEnds ==
    /\ outliving # {}
    /\ \E n \in outliving : outliving' = outliving \ {n}
    /\ UNCHANGED <<agent, agentRow, runAt, node, visited, steps, begun, cost, board, expired>>

Expire ==
    /\ runAt \in {"checking", "executing"} /\ ~expired
    /\ expired' = TRUE
    /\ UNCHANGED <<agent, agentRow, runAt, node, visited, steps, begun, cost, board, outliving>>

\* The completing update, then the audit event and the trace, all inside the try.
CompleteRun ==
    /\ runAt = "completing"
    /\ \/ agentRow' = "completed" /\ runAt' \in {"ended", "failing"}
       \/ runAt' = "failing" /\ UNCHANGED agentRow
    /\ UNCHANGED <<agent, node, visited, steps, begun, cost, board, expired, outliving>>

\* The catch block: the failing update, the audit event, the trace and the incident
\* check; the first of them to throw rejects the call.
FailRun ==
    /\ runAt = "failing"
    /\ \/ agentRow' = "failed" /\ runAt' \in {"ended", "rejected"}
       \/ runAt' = "rejected" /\ UNCHANGED agentRow
    /\ UNCHANGED <<agent, node, visited, steps, begun, cost, board, expired, outliving>>

\* What happens without the nodes: their work may take for ever, the deadline comes.
AgentStep == BeginNode \/ CompleteRun \/ FailRun \/ NodeTimesOut \/ Expire

AgentNext ==
    \/ StartRun
    \/ \E p \in BoardPaths, value \in BoardValues, spent \in {0, 1} : NodeReturns(p, value, spent)
    \/ NodeThrows
    \/ OutlivingEnds
    \/ AgentStep

AgentSpec == AgentInit /\ [][AgentNext]_agentVars /\ WF_agentVars(AgentStep)

-----------------------------------------------------------------------------
AgentTypeOK ==
    /\ agent \in Agents
    /\ agentRow \in {"none", "running", "completed", "failed"}
    /\ runAt \in {"start", "refused", "checking", "executing", "completing", "failing",
                  "ended", "rejected"}
    /\ agent.nodes # << >> => node \in DOMAIN agent.nodes
    /\ visited \subseteq DOMAIN agent.nodes
    /\ steps \in Seq(DOMAIN agent.nodes)
    /\ cost \in Nat /\ expired \in BOOLEAN
    /\ board \in [BoardPaths -> BoardValues \cup {Missing}]

\* Whatever the graph, with cycles and dead edges, and whatever its nodes do: no node is
\* started twice, no budget is exceeded, and nothing starts once the money is spent
\* (resource governance, agent-runner.ts:108).
BudgetsHold ==
    /\ \A i, j \in DOMAIN begun : begun[i] = begun[j] => i = j
    /\ Len(begun) <= MaxSteps
    /\ FunctionCalls(begun) <= MaxFunctionCalls
    /\ cost <= MaxCost + 1
    /\ cost > MaxCost => runAt \in {"failing", "ended", "rejected"}

\* The run's record accounts for every node whose work began but possibly the last one:
\* a node that timed out is the only one that can outlive its run, and a completed row
\* accounts for all of them (withTimeout, agent-runner.ts:62).
RecordMissesAtMostOne ==
    /\ IsPrefix(steps, begun) /\ Len(begun) - Len(steps) <= 1
    /\ agentRow = "completed" => steps = begun
    /\ \A n \in outliving : n = Last(begun) /\ n # Last(<<0>> \o steps)
    /\ Cardinality(outliving) <= 1

\* An agent run stays within its limits and accounts for what it did, or for all but
\* the node that outlived it (runAgent, agent-runner.ts:108).
AgentRunIsAccountedFor == BudgetsHold /\ RecordMissesAtMostOne

\* The run has not started or has ended, whatever its nodes still do.
AgentSettled == runAt \in {"start", "refused", "ended", "rejected"}

=============================================================================
