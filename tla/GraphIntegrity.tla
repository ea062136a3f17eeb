--------------------------- MODULE GraphIntegrity ---------------------------
(***************************************************************************)
(* The graph integrity engine (src/lib/dataops/ontology/graph): findings   *)
(* about a snapshot of the ontology graph under configurable rules.  A     *)
(* graph is a sequence of objects and a sequence of links, which name      *)
(* their endpoints by id and carry the endpoint types of their creation.   *)
(***************************************************************************)
EXTENDS Integers, Sequences, FiniteSets, SequencesExt, Subsequences

CONSTANTS
    GraphRules,     \* object type -> rule; only governed types
    CycleAllowed,   \* link types that may be cyclic
    AnyType         \* a rule that leaves the far endpoint's type open

NodeIds(g) == {g.objects[i].id : i \in DOMAIN g.objects}

Governed(g) == {i \in DOMAIN g.objects : g.objects[i].objectType \in DOMAIN GraphRules}

RuleFor(o) == GraphRules[o.objectType]

NearId(l, direction) == IF direction = "out" THEN l.from ELSE l.to
FarId(l, direction) == IF direction = "out" THEN l.to ELSE l.from
FarType(l, direction) == IF direction = "out" THEN l.toType ELSE l.fromType

\* Links of o that a required relationship, a cardinality or a policy is about.
Related(g, o, r) ==
    {i \in DOMAIN g.links :
       /\ g.links[i].linkType = r.linkType
       /\ NearId(g.links[i], r.direction) = o.id
       /\ r.otherType \in {AnyType, FarType(g.links[i], r.direction)}}

GraphFinding(code, severity, subject) == [code |-> code, severity |-> severity, subject |-> subject]

DuplicateEdges(g) ==
    {GraphFinding("GRAPH_DUPLICATE_EDGE", "error", <<g.links[i].linkType, g.links[i].from, g.links[i].to>>) :
       i \in {i \in DOMAIN g.links : \E j \in DOMAIN g.links \ {i} :
                \A f \in {"linkType", "from", "to"} : g.links[i][f] = g.links[j][f]}}

Orphans(g) ==
    {GraphFinding("GRAPH_ORPHAN", "error", g.objects[i].id) :
       i \in {i \in Governed(g) :
                /\ RuleFor(g.objects[i]).mustConnect
                /\ \A l \in DOMAIN g.links : g.objects[i].id \notin {g.links[l].from, g.links[l].to}}}

MissingRequired(g) ==
    UNION {{GraphFinding("GRAPH_REQUIRED_RELATIONSHIP", r.severity, g.objects[i].id) :
              r \in {r \in RuleFor(g.objects[i]).required :
                       Cardinality(Related(g, g.objects[i], r)) < r.min}} : i \in Governed(g)}

CardinalityBreaches(g) ==
    UNION {{GraphFinding("GRAPH_CARDINALITY", r.severity, g.objects[i].id) :
              r \in {r \in RuleFor(g.objects[i]).cardinality :
                       Cardinality(Related(g, g.objects[i], r)) \notin r.min .. r.max}} : i \in Governed(g)}

InvalidPaths(g) ==
    {GraphFinding("GRAPH_INVALID_PATH", "error", g.objects[i].id) :
       i \in {i \in Governed(g) : \E l \in DOMAIN g.links :
                \/ /\ g.links[l].to = g.objects[i].id
                   /\ g.links[l].fromType \in RuleFor(g.objects[i]).forbiddenParents
                \/ /\ g.links[l].from = g.objects[i].id
                   /\ g.links[l].toType \in RuleFor(g.objects[i]).forbiddenTargets}}

-----------------------------------------------------------------------------
\* detectCycles: depth-first search over the links of one type, white, gray, black.
DfsStart(edges, nodes) ==
    [color |-> [n \in nodes |-> "white"], stack |-> << >>, cycles |-> {},
     todo |-> [n \in nodes |-> {e[2] : e \in {e \in edges : e[1] = n}}]]

Visit(s, n) == [s EXCEPT !.color[n] = "gray", !.stack = Append(@, n)]

\* One step of the search: open a root, follow an edge, or close the top node. An
\* edge to a gray node closes a cycle, the stack from that node on.
DfsStep(s) ==
    LET roots == {n \in DOMAIN s.color : s.color[n] = "white"}
        u == Last(s.stack)
        v == CHOOSE v \in s.todo[u] : TRUE
        t == [s EXCEPT !.todo[u] = @ \ {v}]
    IN  IF s.stack = << >>
        THEN IF roots = {} THEN s ELSE Visit(s, CHOOSE n \in roots : TRUE)
        ELSE IF s.todo[u] = {}
        THEN [s EXCEPT !.color[u] = "black", !.stack = Front(@)]
        ELSE IF s.color[v] = "white" THEN Visit(t, v)
        ELSE IF s.color[v] = "black" THEN t
        ELSE [t EXCEPT !.cycles = @ \cup
                 {{s.stack[k] : k \in {k \in DOMAIN s.stack :
                      \E j \in 1 .. k : s.stack[j] = v}}}]

LinkPairs(g, types) ==
    {<<g.links[i].from, g.links[i].to>> : i \in {i \in DOMAIN g.links : g.links[i].linkType \in types}}

LinkTypesOf(g) == {g.links[i].linkType : i \in DOMAIN g.links}

CyclesOver(g, linkType) ==
    LET edges == LinkPairs(g, {linkType})
        nodes == UNION {{e[1], e[2]} : e \in edges}
        steps == 2 * Cardinality(nodes) + Cardinality(edges)
        search[n \in 0 .. steps] == IF n = 0 THEN DfsStart(edges, nodes) ELSE DfsStep(search[n - 1])
    IN  search[steps].cycles

IllegalCycles(g) ==
    UNION {{GraphFinding("GRAPH_CYCLE", "error", <<t, cycle>>) : cycle \in CyclesOver(g, t)} :
              t \in LinkTypesOf(g) \ CycleAllowed}

\* checkReachability: breadth-first over outgoing links, the start itself not counted.
Reached(g, start, via) ==
    LET pairs == LinkPairs(g, via)
        visited[n \in 0 .. Len(g.links)] ==
            IF n = 0 THEN {start}
            ELSE visited[n - 1] \cup {e[2] : e \in {e \in pairs : e[1] \in visited[n - 1]}}
    IN  visited[Len(g.links)] \ {start}

ViaTypes(g, o) == IF RuleFor(o).via = AnyType THEN LinkTypesOf(g) ELSE RuleFor(o).via

Unreachable(g) ==
    UNION {{GraphFinding("GRAPH_UNREACHABLE", "error", g.objects[i].id) :
              t \in {t \in RuleFor(g.objects[i]).mustReach :
                       ~\E j \in DOMAIN g.objects :
                          /\ g.objects[j].objectType = t
                          /\ g.objects[j].id \in Reached(g, g.objects[i].id, ViaTypes(g, g.objects[i]))}} :
              i \in Governed(g)}

StatusOf(g, nodeId) ==
    {g.objects[i].status : i \in {i \in DOMAIN g.objects : g.objects[i].id = nodeId}}

PolicyFailures(g) ==
    UNION {{GraphFinding("GRAPH_POLICY", p.severity, g.objects[i].id) :
              p \in {p \in RuleFor(g.objects[i]).policies :
                       ~\E l \in Related(g, g.objects[i], p) :
                          p.withStatus \in {AnyType} \cup StatusOf(g, FarId(g.links[l], p.direction))}} :
              i \in Governed(g)}

\* validateGraph without its mode: every validator's findings.
GraphFindings(g) ==
    DuplicateEdges(g) \cup Orphans(g) \cup MissingRequired(g) \cup CardinalityBreaches(g)
      \cup InvalidPaths(g) \cup IllegalCycles(g) \cup Unreachable(g) \cup PolicyFailures(g)

Errors(findings) == {f \in findings : f.severity = "error"}

\* Mutated: one level up is not the root.
ParentIn(parent, n) == parent[n]

\* countDisconnectedSubgraphs: union-find over all links.
RootIn(parent, n) ==
    LET up[k \in 0 .. Cardinality(DOMAIN parent)] == IF k = 0 THEN n ELSE parent[up[k - 1]]
    IN  up[Cardinality(DOMAIN parent)]

Nodes(g) == NodeIds(g) \cup UNION {{g.links[i].from, g.links[i].to} : i \in DOMAIN g.links}

JoinEnds(parent, l) == [parent EXCEPT ![RootIn(parent, l.from)] = RootIn(parent, l.to)]

DisconnectedSubgraphs(g) ==
    LET parents[i \in 0 .. Len(g.links)] ==
            IF i = 0 THEN [n \in Nodes(g) |-> n] ELSE JoinEnds(parents[i - 1], g.links[i])
    IN  Cardinality({RootIn(parents[Len(g.links)], n) : n \in Nodes(g)})

\* loadScopedGraph: the objects of some types, and the links between them.
ScopedGraph(g, types) ==
    IF types = {} THEN g
    ELSE LET objects == Kept(g.objects, {i \in DOMAIN g.objects : g.objects[i].objectType \in types})
             ids == {objects[i].id : i \in DOMAIN objects}
         IN  [objects |-> objects,
              links |-> Kept(g.links, {i \in DOMAIN g.links : g.links[i].from \in ids /\ g.links[i].to \in ids})]

\* preflightGraph: advisory in warn mode, blocking on errors in enforce mode.
PreflightStatus(g, mode) ==
    IF mode = "enforce" /\ Errors(GraphFindings(g)) # {} THEN "blocked"
    ELSE IF GraphFindings(g) # {} THEN "warning" ELSE "pass"

=============================================================================
