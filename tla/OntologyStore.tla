---------------------------- MODULE OntologyStore ----------------------------
(***************************************************************************)
(* The ontology write service (src/lib/dataops/ontology/object-service.ts) *)
(* with the canonical schema and relationship checks it enforces, and the  *)
(* governance evaluation of what the writes leave behind.  Every request   *)
(* reads and writes the store in separate steps, so requests overlap.      *)
(***************************************************************************)
EXTENDS GraphIntegrity

CONSTANTS
    OntologyCalls,      \* the requests
    OntologyInputs,     \* what a request may ask for
    SeedObjects,        \* objects there before
    Schemas,            \* object type -> [statuses, requireTitle, alternatives required]
    RelationshipDefs,   \* registered relationships
    Absent              \* a field that is not given

VARIABLES
    ontologyMode,       \* "warn" or "enforce", one for both checks
    objects,            \* db.ontologyObjects, in insertion order
    links,              \* db.ontologyLinks, in insertion order
    asked,              \* each request's input
    callAt,             \* where each request stands
    found,              \* the object an upsert's look-up found, if any
    overlapped,         \* requests that ran while another was between its steps
    decision            \* of the last governance evaluation, and the stages that block

ontologyVars == <<ontologyMode, objects, links, asked, callAt, found, overlapped, decision>>

Modes == {"warn", "enforce"}

\* validateCanonicalObject: codes of what is wrong with a registered object.
SchemaViolations(o) ==
    IF o.objectType \notin DOMAIN Schemas THEN {}
    ELSE LET s == Schemas[o.objectType] IN
         {code \in {"missing_status", "invalid_status", "title", "properties"} :
            \/ code = "missing_status" /\ o.status = Absent
            \/ code = "invalid_status" /\ o.status \notin s.statuses \cup {Absent}
            \/ code = "title" /\ s.requireTitle /\ o.title = Absent
            \/ code = "properties" /\ \E alternatives \in s.required : alternatives \cap o.props = {}}

DefsOf(linkType) == {d \in RelationshipDefs : d.linkType = linkType}

\* validateRelationshipShape
ShapeViolation(linkType, source, target) ==
    LET defs == DefsOf(linkType)
        sourceOk == \E d \in defs : d.sourceType = source
        targetOk == \E d \in defs : d.targetType = target
    IN  IF defs = {} THEN "unknown_relationship_type"
        ELSE IF \E d \in defs : d.sourceType = source /\ d.targetType = target THEN "none"
        ELSE IF \E d \in defs : d.sourceType = target /\ d.targetType = source THEN "invalid_direction"
        ELSE IF sourceOk /\ ~targetOk THEN "invalid_target"
        ELSE IF ~sourceOk /\ targetOk THEN "invalid_source" ELSE "illegal_source_target"

\* cardinalityViolations, from the degrees of the other links of that type.
ExceedsCardinality(d, outDegree, inDegree) ==
    \/ d.cardinality \in {"one_to_one", "many_to_one"} /\ outDegree > 0
    \/ d.cardinality \in {"one_to_one", "one_to_many"} /\ inDegree > 0

\* validateRelationship of l against the links of some other set of positions.
RelationshipViolation(l, all, others) ==
    LET same == {i \in others : all[i].linkType = l.linkType}
        outDegree == Cardinality({i \in same : all[i].from = l.from})
        inDegree == Cardinality({i \in same : all[i].to = l.to})
        shape == ShapeViolation(l.linkType, l.fromType, l.toType)
        def == CHOOSE d \in DefsOf(l.linkType) : d.sourceType = l.fromType /\ d.targetType = l.toType
    IN  IF shape # "none" THEN shape
        ELSE IF ExceedsCardinality(def, outDegree, inDegree) THEN "cardinality" ELSE "none"

-----------------------------------------------------------------------------
\* The rows there before are a list of objects that upserts wrote: one object a key, and a
\* ledger names an entry once.
ASSUME OntologyAssumption ==
    /\ SeedObjects \in Seq(ToSet(SeedObjects))
    /\ \A i \in DOMAIN SeedObjects :
         LET o == SeedObjects[i] IN
         /\ {"id", "objectType", "key", "status", "title", "props", "ledger"} \subseteq DOMAIN o
         /\ o.id = i
         /\ o.ledger \in Seq(ToSet(o.ledger)) /\ IsInjective(o.ledger)
         /\ \A j \in DOMAIN SeedObjects :
              o.key # Absent /\ SeedObjects[j].objectType = o.objectType /\ SeedObjects[j].key = o.key => i = j

\* Definitions of one link type agree in their cardinality.
ASSUME RegistryAssumption ==
    \A d, e \in RelationshipDefs : d.linkType = e.linkType => d.cardinality = e.cardinality

OntologyInit ==
    /\ ontologyMode \in Modes
    /\ objects = SeedObjects
    /\ links = << >>
    /\ asked \in [OntologyCalls -> OntologyInputs]
    /\ callAt = [c \in OntologyCalls |-> "start"]
    /\ found = [c \in OntologyCalls |-> {}]
    /\ overlapped = {}
    /\ decision = [verdict |-> "none", blocking |-> {}]

Underway(c) == callAt[c] \notin {"start", "done", "unverified", "rejected"}

\* c takes a step to s: whoever is between its steps now overlaps c.
GoTo(c, s) ==
    /\ callAt' = [callAt EXCEPT ![c] = s]
    /\ overlapped' = LET others == {d \in OntologyCalls \ {c} : Underway(d)}
                     IN  IF others = {} THEN overlapped ELSE overlapped \cup others \cup {c}
    /\ UNCHANGED <<ontologyMode, asked, decision>>

\* upsertObject: look the external key up; without one the object is always new.
FindObject(c) ==
    LET q == asked[c]
        matches == IF q.key = Absent THEN {}
                   ELSE {i \in DOMAIN objects : objects[i].objectType = q.objectType /\ objects[i].key = q.key}
    IN  /\ callAt[c] = "start" /\ q.op = "upsert"
        /\ found' = [found EXCEPT ![c] = {objects[i] : i \in {i \in matches : \A j \in matches : i <= j}}]
        /\ GoTo(c, "found")
        /\ UNCHANGED <<objects, links>>

\* Mutated: without the look for the entry's key.
WithEntryAgain(ledger, entry) == IF entry = Absent THEN ledger ELSE Append(ledger, entry)

\* applyLedgers: an entry is appended once.
WithEntry(ledger, entry) ==
    IF entry = Absent \/ Contains(ledger, entry) THEN ledger ELSE Append(ledger, entry)

Given(new, old) == IF new = Absent THEN old ELSE new

\* The object as the upsert will write it, from what the look-up saw.
Effective(q, prior, newId) ==
    IF prior = {}
    THEN [id |-> newId, objectType |-> q.objectType, key |-> q.key, status |-> q.status,
          title |-> q.title, props |-> q.props, ledger |-> WithEntry(<< >>, q.entry)]
    ELSE [(CHOOSE o \in prior : TRUE) EXCEPT !.status = Given(q.status, @), !.title = Given(q.title, @),
                !.props = @ \cup q.props, !.ledger = WithEntry(@, q.entry)]

\* Mutated: a single violation passes.
RejectsSeveral(violations) == ontologyMode = "enforce" /\ Cardinality(violations) > 1

Rejects(violations) == ontologyMode = "enforce" /\ violations # {}

\* checkCanonicalSchema, then the insert or the update of the row.
WriteObject(c) ==
    LET o == Effective(asked[c], found[c], Len(objects) + 1)
        refused == Rejects(SchemaViolations(o))
    IN  /\ callAt[c] = "found"
        /\ objects' = IF refused THEN objects
                      ELSE IF found[c] = {} THEN Append(objects, o)
                      ELSE [objects EXCEPT ![o.id] = o]
        /\ found' = [found EXCEPT ![c] = {}]
        /\ GoTo(c, IF refused THEN "rejected" ELSE "done")
        /\ UNCHANGED links

\* linkObjects: an existing edge of that type between the two is returned.
LinkOf(q) ==
    [linkType |-> q.linkType, from |-> q.from, to |-> q.to,
     fromType |-> objects[q.from].objectType, toType |-> objects[q.to].objectType]

SameEdge(l, k) == l.linkType = k.linkType /\ l.from = k.from /\ l.to = k.to

FindLink(c) ==
    LET exists == \E i \in DOMAIN links : SameEdge(links[i], asked[c])
    IN  /\ callAt[c] = "start" /\ asked[c].op = "link"
        /\ GoTo(c, IF exists THEN "done" ELSE "checking")
        /\ UNCHANGED <<objects, links, found>>

\* checkRelationship: unknown types only warn; when its read throws it fails open.
\* Bound: that happens to one request.
CheckLink(c) ==
    LET violation == RelationshipViolation(LinkOf(asked[c]), links, DOMAIN links)
        refused == ontologyMode = "enforce" /\ violation \notin {"none", "unknown_relationship_type"}
    IN  /\ callAt[c] = "checking"
        /\ \/ GoTo(c, IF refused THEN "rejected" ELSE "checked")
           \/ /\ \A d \in OntologyCalls : callAt[d] \notin {"unchecked", "unverified"}
              /\ GoTo(c, "unchecked")
        /\ UNCHANGED <<objects, links, found>>

InsertLink(c) ==
    /\ callAt[c] \in {"checked", "unchecked"}
    /\ links' = Append(links, LinkOf(asked[c]))
    /\ GoTo(c, IF callAt[c] = "checked" THEN "done" ELSE "unverified")
    /\ UNCHANGED <<objects, found>>

-----------------------------------------------------------------------------
Graph == [objects |-> objects, links |-> links]

Finding(stage, code, severity) == [stage |-> stage, code |-> code, severity |-> severity]

\* stageObjects
ObjectFindings(g) ==
    UNION {{Finding("object", v, "error") : v \in SchemaViolations(g.objects[i])} : i \in DOMAIN g.objects}

\* stageRelationships: each link against every other link of its type.
LinkFindings(g) ==
    {Finding("relationship", v, IF v = "unknown_relationship_type" THEN "warning" ELSE "error") :
       v \in {RelationshipViolation(g.links[i], g.links, DOMAIN g.links \ {i}) : i \in DOMAIN g.links} \ {"none"}}

\* evaluateGovernance: no policy evaluator is registered by the repository.
GovernanceFindings(g) ==
    ObjectFindings(g) \cup LinkFindings(g)
      \cup {Finding("graph", f.code, f.severity) : f \in GraphFindings(g)}

ExecutionDecision(findings, mode) ==
    IF Errors(findings) # {} /\ mode = "enforce" THEN "BLOCKED"
    ELSE IF findings # {} THEN "PASS_WITH_WARNINGS" ELSE "PASS"

\* Bound: one evaluation, between requests. A request writes one row in one step, so what
\* an evaluation reads while it is under way is the store of some moment without it.
AtRest == decision.verdict = "none" /\ \A c \in OntologyCalls : ~Underway(c)

\* The decision of a mission gate or an endpoint that evaluates the tenant's graph.
EvaluateGovernance(mode) ==
    LET findings == GovernanceFindings(Graph) IN
    /\ AtRest
    /\ decision' = [verdict |-> ExecutionDecision(findings, mode),
                    blocking |-> {f.stage : f \in Errors(findings)}]
    /\ UNCHANGED <<ontologyMode, objects, links, asked, callAt, found, overlapped>>

OntologyNext ==
    \/ \E c \in OntologyCalls :
         FindObject(c) \/ WriteObject(c) \/ FindLink(c) \/ CheckLink(c) \/ InsertLink(c)
    \/ \E mode \in Modes : EvaluateGovernance(mode)

OntologySpec == OntologyInit /\ [][OntologyNext]_ontologyVars

-----------------------------------------------------------------------------
OntologyTypeOK ==
    /\ ontologyMode \in Modes
    /\ \A i \in DOMAIN objects : objects[i].id = i
    /\ \A i \in DOMAIN links : {links[i].from, links[i].to} \subseteq DOMAIN objects
    /\ callAt \in [OntologyCalls -> {"start", "found", "checking", "checked", "unchecked", "done",
                                    "unverified", "rejected"}]
    /\ \A c \in OntologyCalls : \A o \in found[c] : o.id \in DOMAIN objects
    /\ overlapped \subseteq OntologyCalls
    /\ decision.verdict \in {"none", "PASS", "PASS_WITH_WARNINGS", "BLOCKED"}

\* What write-time enforcement promises is what governance finds later, through its own
\* count of degrees: with enforcement on, no stored object breaks its schema even when
\* upserts overlap, and unless link requests overlapped no link is stored twice and, but
\* for checks that failed open, none is stored in error, so that only the graph's integrity
\* can make governance block (checkCanonicalSchema and checkRelationship,
\* object-service.ts:142, against evaluateGovernance's stages).
EnforcedStorePassesGovernance ==
    ontologyMode = "enforce" =>
      /\ ObjectFindings(Graph) = {} /\ "object" \notin decision.blocking
      /\ (\A c \in overlapped : asked[c].op # "link") =>
           /\ DuplicateEdges(Graph) = {}
           /\ (\A c \in OntologyCalls : callAt[c] # "unverified") =>
                /\ Errors(LinkFindings(Graph)) = {}
                /\ decision.verdict = "BLOCKED" => decision.blocking = {"graph"}

\* Ledgers only grow and keys stay unique as long as no two upserts overlapped: every
\* entry a finished upsert recorded is in the one object of its key, once
\* (upsertObject and applyLedgers, object-service.ts:64).
LedgerKeepsEveryEntry ==
    (\A c \in overlapped : asked[c].op # "upsert") =>
      \A c \in OntologyCalls :
        LET q == asked[c]
            mine == {i \in DOMAIN objects : objects[i].objectType = q.objectType /\ objects[i].key = q.key}
        IN  q.op = "upsert" /\ callAt[c] = "done" /\ q.key # Absent =>
              /\ Cardinality(mine) = 1
              /\ q.entry # Absent =>
                   \A i \in mine : Cardinality({k \in DOMAIN objects[i].ledger :
                                                  objects[i].ledger[k] = q.entry}) = 1

=============================================================================
