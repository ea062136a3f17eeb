---------------------------- MODULE MCDataServices ----------------------------
(***************************************************************************)
(* Small instances of the data services for TLC: ontology writes and       *)
(* governance, graph preflights, the audit chain, notifications,           *)
(* ingestion, retention, the document store, object access, candidate      *)
(* merges, domain packs and learning signals.  They share no state, so a   *)
(* behaviour exercises one of them, its part.                              *)
(***************************************************************************)
EXTENDS OntologyStore, GraphPreflight, AuditChain, Notifications, Ingestion, Retention,
        DocumentStore, ObjectAccess, RecruitingOntology, CandidateMerge, DomainPacks,
        LearningSignals

CONSTANTS
    DataParts,              \* the parts to explore
    k1, k2, k3,             \* external keys
    e1, e2,                 \* ledger entries
    u1, u2,                 \* clients, uploads, emissions
    o1, o2                  \* objects past their retention

VARIABLE part

-----------------------------------------------------------------------------
\* Ontology. Two submissions, two candidates and two jobs, and requests about them.
Seed(i, type, key, status, title, props) ==
    [id |-> i, objectType |-> type, key |-> key, status |-> status, title |-> title,
     props |-> props, ledger |-> << >>]

SubmissionProps == {"jobKey", "candidateKey", "stage"}

MCSeedObjects ==
    <<Seed(1, "Candidate", k1, "active", Absent, {"email"}),
      Seed(2, "Submission", k2, "new", Absent, SubmissionProps),
      Seed(3, "Job", k3, "open", "title", {}),
      Seed(4, "Candidate", k2, "new", Absent, {"fullName"}),
      Seed(5, "Job", k1, "open", "title", {})>>

Upsert(type, key, status, title, props, entry) ==
    [op |-> "upsert", objectType |-> type, key |-> key, status |-> status, title |-> title,
     props |-> props, entry |-> entry]

LinkInput(type, from, to) == [op |-> "link", linkType |-> type, from |-> from, to |-> to]

InputOrder ==
    <<Upsert("Candidate", k1, Absent, Absent, {}, e1),
      Upsert("Candidate", k1, "placed", Absent, {}, e2),
      Upsert("Candidate", k1, "hired", Absent, {}, e1),
      Upsert("Candidate", k3, "new", Absent, {"email"}, e1),
      Upsert("Candidate", Absent, "new", Absent, {}, Absent),
      Upsert("Job", Absent, Absent, Absent, {}, Absent),
      Upsert("Submission", k3, "screen", Absent, {"jobKey", "stage"}, Absent),
      Upsert("Artifact", k3, Absent, Absent, {}, e1),
      LinkInput("submitted", 1, 2), LinkInput("submitted", 4, 2),
      LinkInput("targets", 2, 3), LinkInput("targets", 2, 5), LinkInput("targets", 3, 2),
      LinkInput("has_resume", 1, 2), LinkInput("owned_by", 1, 2)>>

MCInputs == {InputOrder[i] : i \in DOMAIN InputOrder}

\* Requests are numbered, and which of them asks for what does not matter; links and
\* objects are written independently, so the requests of a behaviour are of one kind. Any
\* two requests meet, one of them repeated.
InputIndex(input) == CHOOSE i \in DOMAIN InputOrder : InputOrder[i] = input

InOrder(inputs) ==
  /\ Cardinality({inputs[i] : i \in DOMAIN inputs}) <= 2
  /\ \A i \in DOMAIN inputs \ {1} :
      /\ inputs[i].op = inputs[1].op
      /\ InputIndex(inputs[i - 1]) <= InputIndex(inputs[i])

-----------------------------------------------------------------------------
\* Graphs of three objects and up to three links of two types, one of them twice.
Stored3(types, status) ==
    [i \in 1 .. 3 |-> [id |-> i, objectType |-> types[i], status |-> status]]

GraphTriples ==
    {[objects |-> Stored3(<<"Submission", "Job", "Candidate">>, "new"), types |-> {"targets", "submitted"}],
     [objects |-> Stored3(<<"Interview", "Offer", "Candidate">>, "approved"), types |-> {"resulted_in_offer", "references"}],
     [objects |-> Stored3(<<"Mission", "Candidate", "Artifact">>, "new"), types |-> {"references", "owned_by"}]}

LinkBetween(nodes, type, from, to) ==
    [linkType |-> type, from |-> from, to |-> to,
     fromType |-> nodes[from].objectType, toType |-> nodes[to].objectType]

LinkSets(t) ==
    LET all == {LinkBetween(t.objects, type, from, to) : type \in t.types, from \in 1 .. 3, to \in 1 .. 3}
        chosen == {{l, m, n} : l, m, n \in all}
    IN  {SetToSeq(s) : s \in chosen \cup {{}}} \cup {<<l, l>> : l \in all}

MCSnapshots == UNION {{[objects |-> t.objects, links |-> s] : s \in LinkSets(t)} : t \in GraphTriples}

FirstSnapshot == [objects |-> Stored3(<<"Submission", "Job", "Candidate">>, "new"), links |-> << >>]

MCScopes == {{}, {"Submission", "Job", "Interview", "Offer", "Artifact"}}

-----------------------------------------------------------------------------
\* Access rows, policies and classifications.
Acl(type, id, permission, effect) ==
    [principalType |-> type, principalId |-> id, permission |-> permission, effect |-> effect]

AclRows ==
    {Acl(w[1], w[2], permission, effect) :
       w \in {<<"user", u1>>, <<"user", u2>>, <<"group", e1>>, <<"role", k1>>, <<"role", k2>>},
       permission \in {"read", "admin", "write"}, effect \in {"allow", "deny"}}

PolicyRows ==
    {[ruleType |-> ruleType, status |-> status] :
       ruleType \in {"allow", "deny", "redact", "mask", "require_approval"}, status \in {"active", "inactive"}}

MCQueries ==
    {[acls |-> acls, policies |-> policies, permission |-> "read", sameTenant |-> tenant,
      rolePermission |-> role, records |-> records] :
       acls \in {{}} \cup {{m, n} : m, n \in AclRows},
       policies \in {{}} \cup {{p} : p \in PolicyRows},
       tenant \in BOOLEAN, role \in BOOLEAN,
       records \in {<<"pii">>}}
    \cup
    {[acls |-> {}, policies |-> policies, permission |-> "read", sameTenant |-> TRUE,
      rolePermission |-> TRUE, records |-> records] :
       policies \in {{}} \cup {{m, n} : m, n \in PolicyRows},
       records \in UNION {[1 .. n -> {"public", "internal", "confidential", "pii", "credential"}] : n \in 0 .. 2}}

FirstQuery ==
    [acls |-> {}, policies |-> {}, permission |-> "read", sameTenant |-> TRUE,
     rolePermission |-> TRUE, records |-> << >>]

-----------------------------------------------------------------------------
\* Three candidates: the first two share an address, the third comes to share it by its
\* import, and no identifier joins the first and the third before.
Who(email, profileUrl, fullName, phone) ==
    [email |-> email, profileUrl |-> profileUrl, fullName |-> fullName, phone |-> phone]

MCIdentity == <<Who(k1, Absent, k2, Absent), Who(k1, k3, k2, Absent), Who(Absent, k3, e1, k2)>>

MCEdges == <<[from |-> 1, to |-> o1], [from |-> o1, to |-> 3], [from |-> 2, to |-> 3]>>

MCImports == [i \in {e1} |-> [of |-> 3, fields |-> Who(k1, Absent, e1, Absent), status |-> "new"]]

-----------------------------------------------------------------------------
\* Two versions of a pack, another pack that shares a sample and a rule, and one that
\* has no object.
Manifest(pack, version, seeds, samples, definitions, rules, suites) ==
    [pack |-> pack, version |-> version, seeds |-> seeds, samples |-> samples,
     definitions |-> definitions, rules |-> rules, suites |-> suites]

FirstVersion == Manifest(u1, 1, <<o1>>, << >>, <<k1>>, << >>, << >>)

MCManifests ==
    {FirstVersion,
     Manifest(u1, 2, <<k3>>, << >>, << >>, <<k2>>, <<e1>>),
     Manifest(u2, 1, << >>, <<o1, o2>>, << >>, <<k2>>, << >>),
     Manifest(u2, 2, << >>, << >>, <<k3>>, << >>, << >>)}

PackRequest(op, manifest, removeDemo) == [op |-> op, manifest |-> manifest, removeDemo |-> removeDemo]

MCPackRequests ==
    {PackRequest("install", m, FALSE) : m \in MCManifests}
    \cup {PackRequest("ensure", FirstVersion, FALSE), PackRequest("uninstall", FirstVersion, TRUE),
          PackRequest("uninstall", FirstVersion, FALSE), PackRequest("reset", FirstVersion, FALSE)}

\* The first call comes before the others; these overlap unless the first was cut off.
PacksInTurn ==
    LET begins(c) == packCall[c].at = "idle" /\ packCall'[c].at # "idle" IN
    /\ \A c \in PackCalls \ {1} : begins(c) => packCall[c - 1].at # "idle"
    /\ begins(2) => ~UnderWay(1)
    /\ begins(3) => packCall[1].at # "cut" \/ ~UnderWay(2)

-----------------------------------------------------------------------------
\* Recordings whose signals meet: low ratings of two things and an eval, a correction
\* three times over, overrides around an acceptance, and sources that share a signal.
Observed(source, component, severe) == [source |-> source, component |-> component, severe |-> severe]

MCRecordings ==
    {<<Observed("answer_rating", k1, TRUE), Observed("answer_rating", k2, TRUE), Observed("response_eval", k1, TRUE)>>,
     <<Observed("extraction_correction", k1, TRUE), Observed("extraction_correction", k1, TRUE),
       Observed("extraction_correction", k1, TRUE)>>,
     <<Observed("outcome", k1, TRUE), Observed("outcome", k1, FALSE), Observed("outcome", k1, TRUE)>>,
     <<Observed("citation_issue", k1, TRUE), Observed("recommendation_eval", k1, TRUE),
       Observed("retrieval_eval", k1, TRUE)>>}

FirstRecording == CHOOSE r \in MCRecordings : r[1].source = "outcome"

-----------------------------------------------------------------------------
MCExpired == <<o1, o2>>
MCChannels == <<"in_app", "email">>

FirstInputs == [i \in OntologyCalls |-> InputOrder[1]]

FirstUploads ==
    [i \in Uploads |-> [step |-> "start", checksum |-> k1, force |-> FALSE, asset |-> NoAsset]]

\* At least two uploads of the same content; the uploads of a content are alike.
UploadsInOrder ==
    /\ uploading[1].checksum = k1 /\ uploading[2].checksum = k1
    /\ \A i, j \in Uploads :
         i < j /\ uploading[i].checksum = uploading[j].checksum /\ uploading[i].force => uploading[j].force

-----------------------------------------------------------------------------
\* A part that is not explored stays in one of its initial states.
Init ==
    /\ part \in DataParts
    /\ IF part = "ontology" THEN OntologyInit /\ InOrder(asked)
       ELSE ontologyMode = "warn" /\ asked = FirstInputs /\ OntologyInit
    /\ IF part = "preflight" THEN PreflightInit
       ELSE snapshot = FirstSnapshot /\ scope = {} /\ preflight = NotRun
    /\ AuditInit
    /\ NotifyInit
    /\ IngestInit
    /\ IF part = "ingest" THEN UploadsInOrder ELSE uploading = FirstUploads
    /\ RetentionInit
    /\ IF part = "store" THEN StoreInit ELSE backend = "memory" /\ StoreInit
    /\ IF part = "access" THEN AccessInit ELSE query = FirstQuery /\ answer = Unanswered
    /\ MergeInit
    /\ PackInit
    /\ LearningInit /\ (part # "learning" => observed = FirstRecording)

\* Webhook calls share nothing with uploads, so they come last.
WebhooksLast ==
    webhookStep' # webhookStep => \A i \in Uploads : uploading[i].step \in {"returned", "rejected"}

Next ==
    \/ /\ part = "ontology" /\ OntologyNext
       /\ UNCHANGED <<part, preflightVars, auditVars, notifyVars, ingestVars, retentionVars,
                       storeVars, accessVars, mergeVars, packVars, learningVars>>
    \/ /\ part = "preflight" /\ PreflightNext
       /\ UNCHANGED <<part, ontologyVars, auditVars, notifyVars, ingestVars, retentionVars, storeVars,
                       accessVars, mergeVars, packVars, learningVars>>
    \/ /\ part = "audit" /\ AuditNext
       /\ UNCHANGED <<part, ontologyVars, preflightVars, notifyVars, ingestVars, retentionVars,
                       storeVars, accessVars, mergeVars, packVars, learningVars>>
    \/ /\ part = "notify" /\ NotifyNext
       /\ UNCHANGED <<part, ontologyVars, preflightVars, auditVars, ingestVars, retentionVars,
                       storeVars, accessVars, mergeVars, packVars, learningVars>>
    \/ /\ part = "ingest" /\ IngestNext /\ WebhooksLast
       /\ UNCHANGED <<part, ontologyVars, preflightVars, auditVars, notifyVars, retentionVars,
                       storeVars, accessVars, mergeVars, packVars, learningVars>>
    \/ /\ part = "retention" /\ RetentionNext
       /\ UNCHANGED <<part, ontologyVars, preflightVars, auditVars, notifyVars, ingestVars, storeVars,
                       accessVars, mergeVars, packVars, learningVars>>
    \/ /\ part = "store" /\ StoreNext
       /\ UNCHANGED <<part, ontologyVars, preflightVars, auditVars, notifyVars, ingestVars,
                       retentionVars, accessVars, mergeVars, packVars, learningVars>>
    \/ /\ part = "access" /\ EnforceObjectAccess
       /\ UNCHANGED <<part, ontologyVars, preflightVars, auditVars, notifyVars, ingestVars,
                       retentionVars, storeVars, mergeVars, packVars, learningVars>>
    \/ /\ part = "merge" /\ MergeNext
       /\ UNCHANGED <<part, ontologyVars, preflightVars, auditVars, notifyVars, ingestVars,
                       retentionVars, storeVars, accessVars, packVars, learningVars>>
    \/ /\ part = "packs" /\ PackNext /\ PacksInTurn
       /\ UNCHANGED <<part, ontologyVars, preflightVars, auditVars, notifyVars, ingestVars,
                       retentionVars, storeVars, accessVars, mergeVars, learningVars>>
    \/ /\ part = "learning" /\ LearningNext
       /\ UNCHANGED <<part, ontologyVars, preflightVars, auditVars, notifyVars, ingestVars,
                       retentionVars, storeVars, accessVars, mergeVars, packVars>>

vars ==
    <<part, ontologyVars, preflightVars, auditVars, notifyVars, ingestVars, retentionVars, storeVars,
      accessVars, mergeVars, packVars, learningVars>>

Spec == Init /\ [][Next]_vars

-----------------------------------------------------------------------------
\* The state of the part under way has the type its component declares.
TypeOK ==
    /\ part = "ontology" => OntologyTypeOK
    /\ part = "preflight" => PreflightTypeOK
    /\ part = "audit" => AuditTypeOK
    /\ part = "notify" => NotifyTypeOK
    /\ part = "ingest" => IngestTypeOK
    /\ part = "retention" => RetentionTypeOK
    /\ part = "store" => StoreTypeOK
    /\ part = "access" => AccessTypeOK
    /\ part = "merge" => MergeTypeOK
    /\ part = "packs" => PackTypeOK
    /\ part = "learning" => LearningTypeOK

=============================================================================
