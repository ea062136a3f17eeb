--------------------------- MODULE GraphPreflight ---------------------------
(***************************************************************************)
(* The graph preflight of a mission or workflow                            *)
(* (src/lib/dataops/ontology/graph/graph-preflight.ts): the tenant's graph *)
(* is loaded, restricted to the types in scope, validated, and the mode    *)
(* decides whether errors block.                                           *)
(***************************************************************************)
EXTENDS GraphIntegrity

CONSTANTS
    Snapshots,      \* graphs the store may hold
    Scopes          \* sets of object types a caller restricts the preflight to

\* Rows are listed and have ids of their own; a rule asks for a number of links.
ASSUME GraphAssumption ==
    /\ \A g \in Snapshots :
         /\ g.objects \in Seq(ToSet(g.objects)) /\ g.links \in Seq(ToSet(g.links))
         /\ \A i, j \in DOMAIN g.objects : g.objects[i].id = g.objects[j].id => i = j
    /\ \A t \in DOMAIN GraphRules : \A r \in GraphRules[t].required : r.min \in Nat

VARIABLES
    snapshot,       \* the stored graph
    scope,
    preflight       \* what the preflight returned

preflightVars == <<snapshot, scope, preflight>>

NotRun == [status |-> "none", components |-> 0]

PreflightInit ==
    /\ snapshot \in Snapshots
    /\ scope \in Scopes
    /\ preflight = NotRun

\* preflightGraph, with the report's statistics.
RunPreflight(mode) ==
    LET g == ScopedGraph(snapshot, scope) IN
    /\ preflight = NotRun
    /\ preflight' = [status |-> PreflightStatus(g, mode), components |-> DisconnectedSubgraphs(g)]
    /\ UNCHANGED <<snapshot, scope>>

PreflightNext == \E mode \in {"warn", "enforce"} : RunPreflight(mode)

PreflightSpec == PreflightInit /\ [][PreflightNext]_preflightVars

-----------------------------------------------------------------------------
PreflightTypeOK ==
    /\ scope \in Scopes
    /\ preflight.status \in {"none", "pass", "warning", "blocked"}
    /\ preflight.components \in 0 .. Len(snapshot.objects)

\* What x leads to along some pairs, in one step or more: whatever is in every set that
\* holds what x is paired with and that no pair leaves.
After(pairs, x) ==
    LET ends == {p[2] : p \in pairs} IN
    {y \in ends : \A S \in SUBSET ends :
                   (\A p \in pairs : p[1] \in S \cup {x} => p[2] \in S) => y \in S}

BothWays(pairs) == pairs \cup {<<p[2], p[1]>> : p \in pairs}

\* The graph algorithms against their definitions, on every graph: the search finds a
\* cycle of a link type exactly when some object leads to itself over it, and each cycle
\* it reports is one of objects that lead to each other; the breadth-first walk finds what
\* an object leads to; union-find counts the sets of objects that links join in either
\* direction (detectCycles and checkReachability, graph-integrity.ts:230;
\* countDisconnectedSubgraphs, graph-report.ts:7).
GraphValidatorsAreExact ==
    preflight # NotRun =>
      /\ \A t \in LinkTypesOf(snapshot) :
           LET pairs == LinkPairs(snapshot, {t}) IN
           /\ CyclesOver(snapshot, t) # {} <=> \E p \in pairs : p[1] \in After(pairs, p[1])
           /\ \A cycle \in CyclesOver(snapshot, t) : \A m, n \in cycle : n \in After(pairs, m)
           /\ \A n \in NodeIds(snapshot) : Reached(snapshot, n, {t}) = After(pairs, n) \ {n}
      /\ LET g == ScopedGraph(snapshot, scope)
             joined == BothWays(LinkPairs(g, LinkTypesOf(g)))
         IN  preflight.components = Cardinality({{n} \cup After(joined, n) : n \in Nodes(g)})

\* Restricting a preflight to the types a mission touches hides no defect of theirs: an
\* object in scope that misses a link, a path or a precondition in the whole graph is
\* reported as well when only the scope is loaded, and an enforcing preflight of that
\* scope then does not pass (loadScopedGraph, graph-preflight.ts:119).
ScopeKeepsDefects ==
    LET g == ScopedGraph(snapshot, scope)
        missing(graph) == Orphans(graph) \cup MissingRequired(graph) \cup Unreachable(graph)
                            \cup PolicyFailures(graph)
        kept == {f \in missing(snapshot) : f.subject \in NodeIds(g)}
    IN  preflight # NotRun =>
          /\ kept \subseteq missing(g)
          /\ kept # {} => preflight.status # "pass"

\* A preflight can be relied on: its algorithms are exact and its scope hides nothing
\* (preflightGraph, graph-preflight.ts:119).
PreflightIsRight == GraphValidatorsAreExact /\ ScopeKeepsDefects

=============================================================================
