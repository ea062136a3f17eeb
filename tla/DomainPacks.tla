------------------------------ MODULE DomainPacks ------------------------------
(***************************************************************************)
(* Domain packs (src/lib/domain-packs and src/lib/demo): an installation   *)
(* seeds objects, definitions, notification rules and eval suites one      *)
(* store operation at a time and records itself last; an uninstall and a   *)
(* demo reset list the pack's demo objects and delete them one by one;     *)
(* customers write objects of their own meanwhile.  A call of upsertObject *)
(* is one step here: OntologyStore takes it apart.                         *)
(***************************************************************************)
EXTENDS Naturals, FiniteSets, Sequences, SequencesExt

CONSTANTS
    Manifests,          \* [pack, version, seeds, samples, definitions, rules, suites]
    PackCalls,          \* calls of the installer, the uninstaller, the reset and the demo loader
    PackRequests,       \* what a call may ask: [op, manifest, removeDemo]
    CustomerKeys,       \* keys of the objects that customers write
    NoPack

\* A manifest is read from the directory of its pack, and states its version.
ASSUME PackAssumption ==
    /\ \A m \in Manifests : \A part \in {m.seeds, m.samples, m.definitions, m.rules, m.suites} :
         part \in Seq(ToSet(part))
    /\ \A m, n \in Manifests : m.pack = n.pack /\ m.version = n.version => m = n
    /\ \A r \in PackRequests : /\ r.manifest \in Manifests /\ r.removeDemo \in BOOLEAN
                               /\ r.op \in {"install", "ensure", "uninstall", "reset"}
    /\ \A m \in Manifests : m.pack # NoPack

VARIABLES
    object,             \* what has a key now: an object row, none or one
    defined,            \* how many rows define each function, agent, action, rule and suite
    evalCases,          \* how many cases each suite has
    installations,      \* db.domainPackInstallations, in insertion order
    packCall,           \* each call's progress
    made,               \* objects created so far
    deleted,            \* every object row that was deleted
    demo,               \* what is known of each pack's demo objects: none, some, whole
    crowded             \* whether two calls were ever under way at once

packVars == <<object, defined, evalCases, installations, packCall, made, deleted, demo, crowded>>

Packs == {m.pack : m \in Manifests}
SamplesOf(m) == ToSet(m.seeds \o m.samples)
Definitions(m) == ToSet(m.definitions \o m.rules \o m.suites)
ObjectKeys == CustomerKeys \cup UNION {SamplesOf(m) : m \in Manifests}
DefinitionKeys == UNION {Definitions(m) : m \in Manifests}
Suites == UNION {ToSet(m.suites) : m \in Manifests}

\* validateManifest: a pack seeds or samples at least one object.
Valid(m) == m.seeds \o m.samples # << >>

Each(op, names) == [i \in DOMAIN names |-> [op |-> op, name |-> names[i]]]

\* installDomainPack after its look-up, seedDomainPack included: the samples of the seed
\* pack are written plain first and tagged as demo objects of the pack after.
Installation(m) ==
    Each("object", m.seeds) \o Each("define", m.definitions)
    \o Each("tag", m.seeds \o m.samples) \o Each("define", m.rules)
    \o FlattenSeq([i \in DOMAIN m.suites |-> Each("define", <<m.suites[i]>>) \o Each("case", <<m.suites[i]>>)])

IdlePackCall == [at |-> "idle", request |-> NoPack, todo |-> << >>, row |-> 0]

PackInit ==
    /\ object = [k \in ObjectKeys |-> {}]
    /\ defined = [d \in DefinitionKeys |-> 0]
    /\ evalCases = [s \in Suites |-> 0]
    /\ installations = << >>
    /\ packCall = [c \in PackCalls |-> IdlePackCall]
    /\ made = 0
    /\ deleted = {}
    /\ demo = [p \in Packs |-> "none"]
    /\ crowded = FALSE

-----------------------------------------------------------------------------
Request(c) == packCall[c].request
Pack(c) == Request(c).manifest.pack
NextListed(c) == Head(packCall[c].todo)

UnderWay(c) == packCall[c].at \notin {"idle", "returned", "rejected", "cut"}

Goes(c, at) == packCall' = [packCall EXCEPT ![c].at = at]
Done(c) == packCall' = [packCall EXCEPT ![c].at = "working", ![c].todo = Tail(@)]

Crowd(c) == crowded' = (crowded \/ \E d \in PackCalls \ {c} : UnderWay(d))

InstalledRows(p, versions) ==
    {i \in DOMAIN installations :
       installations[i].pack = p /\ installations[i].version \in versions /\ installations[i].status = "installed"}

Tagged(p) == {k \in ObjectKeys : \E row \in object[k] : row.pack = p}

AllVersions == {m.version : m \in Manifests}

\* installDomainPack, at once or for a demo whose pack has no demo objects: an invalid
\* manifest is rejected and an installed version answered before anything is written.
BeginInstall(c, request) ==
    LET m == request.manifest
        answered == \/ request.op = "ensure" /\ Tagged(m.pack) # {}
                    \/ Valid(m) /\ InstalledRows(m.pack, {m.version}) # {}
        call == [IdlePackCall EXCEPT !.request = request]
    IN  /\ packCall[c].at = "idle" /\ request.op \in {"install", "ensure"}
        /\ packCall' = [packCall EXCEPT ![c] =
             IF answered THEN [call EXCEPT !.at = "returned"]
             ELSE IF ~Valid(m) THEN [call EXCEPT !.at = "rejected"]
             ELSE [call EXCEPT !.at = "working", !.todo = Installation(m)]]
        /\ demo' = [demo EXCEPT ![m.pack] = IF answered \/ ~Valid(m) THEN @ ELSE "some"]
        /\ Crowd(c)
        /\ UNCHANGED <<object, defined, evalCases, installations, made, deleted>>

\* upsertObject by key: an object that is there keeps its identity and its tag.
Upserted(key, pack) ==
    object' = [object EXCEPT ![key] =
      IF @ = {} THEN {[id |-> made, by |-> "pack", pack |-> pack]}
      ELSE {IF pack = NoPack THEN row ELSE [row EXCEPT !.pack = pack] : row \in @}]

WriteSample(c) ==
    LET key == NextListed(c).name IN
    /\ packCall[c].at = "working" /\ packCall[c].todo # << >>
    /\ NextListed(c).op \in {"object", "tag"}
    /\ Upserted(key, IF NextListed(c).op = "tag" THEN Pack(c) ELSE NoPack)
    /\ made' = IF object[key] = {} THEN made + 1 ELSE made
    /\ Done(c) /\ Crowd(c)
    /\ UNCHANGED <<defined, evalCases, installations, deleted, demo>>

\* Functions, agents, actions, rules and suites are looked up by their key ...
LookForDefinition(c) ==
    /\ packCall[c].at = "working" /\ packCall[c].todo # << >> /\ NextListed(c).op = "define"
    /\ IF defined[NextListed(c).name] > 0 THEN Done(c) ELSE Goes(c, "defining")
    /\ Crowd(c)
    /\ UNCHANGED <<object, defined, evalCases, installations, made, deleted, demo>>

\* ... and inserted when there was none.
InsertDefinition(c) ==
    /\ packCall[c].at = "defining"
    /\ defined' = [defined EXCEPT ![NextListed(c).name] = @ + 1]
    /\ Done(c) /\ Crowd(c)
    /\ UNCHANGED <<object, evalCases, installations, made, deleted, demo>>

\* createEvalCase inserts, whatever cases the suite has.
InsertCase(c) ==
    /\ packCall[c].at = "working" /\ packCall[c].todo # << >> /\ NextListed(c).op = "case"
    /\ evalCases' = [evalCases EXCEPT ![NextListed(c).name] = @ + 1]
    /\ Done(c) /\ Crowd(c)
    /\ UNCHANGED <<object, defined, installations, made, deleted, demo>>

RecordInstallation(c) ==
    /\ packCall[c].at = "working" /\ packCall[c].todo = << >>
    /\ installations' = Append(installations, [pack |-> Pack(c), version |-> Request(c).manifest.version,
                                               status |-> "installed"])
    /\ demo' = [demo EXCEPT ![Pack(c)] = "whole"]
    /\ Goes(c, "returned") /\ Crowd(c)
    /\ UNCHANGED <<object, defined, evalCases, made, deleted>>

-----------------------------------------------------------------------------
\* uninstallDomainPack marks the first installed version it finds; resetDemo looks for none.
BeginRemoval(c, request) ==
    LET rows == InstalledRows(request.manifest.pack, AllVersions)
        call == [IdlePackCall EXCEPT !.request = request]
    IN  /\ packCall[c].at = "idle" /\ request.op \in {"uninstall", "reset"}
        /\ packCall' = [packCall EXCEPT ![c] =
             IF request.op = "reset" THEN [call EXCEPT !.at = "listing"]
             ELSE IF rows = {} THEN [call EXCEPT !.at = "rejected"]
             ELSE [call EXCEPT !.row = CHOOSE i \in rows : \A k \in rows : i <= k,
                               !.at = IF request.removeDemo THEN "listing" ELSE "deleting"]]
        /\ Crowd(c)
        /\ UNCHANGED <<object, defined, evalCases, installations, made, deleted, demo>>

ListDemoObjects(c) ==
    LET listed == UNION {{[key |-> k, row |-> row] : row \in object[k]} : k \in Tagged(Pack(c))}
    IN  /\ packCall[c].at = "listing"
        /\ packCall' = [packCall EXCEPT ![c].at = "deleting", ![c].todo = SetToSeq(listed)]
        /\ demo' = [demo EXCEPT ![Pack(c)] = "some"]
        /\ Crowd(c)
        /\ UNCHANGED <<object, defined, evalCases, installations, made, deleted>>

\* Mutated: whatever has the key by now is deleted.
DeleteByKey(c) ==
    /\ packCall[c].at = "deleting" /\ packCall[c].todo # << >>
    /\ deleted' = deleted \cup object[NextListed(c).key]
    /\ object' = [object EXCEPT ![NextListed(c).key] = {}]
    /\ packCall' = [packCall EXCEPT ![c].todo = Tail(@)]
    /\ Crowd(c)
    /\ UNCHANGED <<defined, evalCases, installations, made, demo>>

\* Objects are deleted by id: one that is gone, or another by the same key, stays.
DeleteDemoObject(c) ==
    LET gone == {row \in object[NextListed(c).key] : row.id = NextListed(c).row.id} IN
    /\ packCall[c].at = "deleting" /\ packCall[c].todo # << >>
    /\ deleted' = deleted \cup gone
    /\ object' = [object EXCEPT ![NextListed(c).key] = @ \ gone]
    /\ packCall' = [packCall EXCEPT ![c].todo = Tail(@)]
    /\ Crowd(c)
    /\ UNCHANGED <<defined, evalCases, installations, made, demo>>

EndRemoval(c) ==
    LET r == Request(c) IN
    /\ packCall[c].at = "deleting" /\ packCall[c].todo = << >>
    /\ installations' = IF r.op = "reset" THEN installations
                        ELSE [installations EXCEPT ![packCall[c].row].status = "uninstalled"]
    /\ demo' = [demo EXCEPT ![Pack(c)] = IF r.op = "reset" \/ r.removeDemo THEN "none" ELSE @]
    /\ Goes(c, "returned") /\ Crowd(c)
    /\ UNCHANGED <<object, defined, evalCases, made, deleted>>

\* The process stops, or a store, an upsert in enforce mode or an audit throws.
PackCallCutOff(c) ==
    /\ UnderWay(c)
    /\ Goes(c, "cut")
    /\ UNCHANGED <<object, defined, evalCases, installations, made, deleted, demo, crowded>>

\* A customer creates an object by its key; updating one changes nothing here.
CustomerCreates(key) ==
    /\ object[key] = {}
    /\ object' = [object EXCEPT ![key] = {[id |-> made, by |-> "customer", pack |-> NoPack]}]
    /\ made' = made + 1
    /\ UNCHANGED <<defined, evalCases, installations, packCall, deleted, demo, crowded>>

PackNext ==
    \/ \E c \in PackCalls :
         \/ \E request \in PackRequests : BeginInstall(c, request) \/ BeginRemoval(c, request)
         \/ WriteSample(c) \/ LookForDefinition(c) \/ InsertDefinition(c) \/ InsertCase(c) \/ RecordInstallation(c)
         \/ ListDemoObjects(c) \/ DeleteDemoObject(c) \/ EndRemoval(c) \/ PackCallCutOff(c)
    \/ \E key \in CustomerKeys : CustomerCreates(key)

PackSpec == PackInit /\ [][PackNext]_packVars

-----------------------------------------------------------------------------
PackTypeOK ==
    /\ \A k \in ObjectKeys : Cardinality(object[k]) <= 1 /\ \A row \in object[k] : row.pack \in Packs \cup {NoPack}
    /\ defined \in [DefinitionKeys -> Nat] /\ evalCases \in [Suites -> Nat]
    /\ \A i \in DOMAIN installations : installations[i].status \in {"installed", "uninstalled"}
    /\ \A c \in PackCalls : packCall[c].at \in {"idle", "working", "defining", "listing", "deleting",
                                                "returned", "rejected", "cut"}
    /\ demo \in [Packs -> {"none", "some", "whole"}]

\* m is the version of its pack that was installed last, and is installed still.
InstalledLast(m) ==
    \E i \in InstalledRows(m.pack, {m.version}) :
      \A j \in DOMAIN installations : installations[j].pack = m.pack => j <= i

\* The samples of m that no other pack has.
OwnSamples(m) == SamplesOf(m) \ UNION {SamplesOf(n) : n \in {o \in Manifests : o.pack # m.pack}}

\* Whatever is cut off, repeated or overlaps: a recorded installation left every
\* definition and at least one case of every suite; no object of a customer is deleted
\* that no pack had tagged; and when no two calls overlapped, no version is recorded
\* twice, nothing is defined twice, the demo objects of a pack are all there after the
\* installation of a version and all gone after a removal, as far as no other pack shares them
\* (installDomainPack, domain-pack-installer.ts:68; uninstallDomainPack,
\* domain-pack-uninstaller.ts:18).
InstalledPacksAreWhole ==
    /\ \A i \in DOMAIN installations : \A m \in Manifests :
         m.pack = installations[i].pack /\ m.version = installations[i].version =>
           /\ \A d \in Definitions(m) : defined[d] > 0
           /\ \A s \in ToSet(m.suites) : evalCases[s] > 0
    /\ \A row \in deleted : row.pack # NoPack
    /\ ~crowded /\ made > 0 =>
         /\ \A m \in Manifests : Cardinality(InstalledRows(m.pack, {m.version})) <= 1
         /\ \A d \in DefinitionKeys : defined[d] <= 1
         /\ \A p \in Packs : demo[p] = "none" => Tagged(p) = {}
         /\ \A m \in Manifests : demo[m.pack] = "whole" /\ InstalledLast(m) => OwnSamples(m) \subseteq Tagged(m.pack)

=============================================================================
