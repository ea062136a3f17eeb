--------------------------- MODULE OntologyProofs ---------------------------
(***************************************************************************)
(* Proofs about the ontology write service and governance, for any         *)
(* requests, objects, schemas and relationship definitions, about the      *)
(* domain packs that seed the ontology, for any packs, calls and           *)
(* customers, and about merges of duplicate candidates, for any            *)
(* candidates, edges, merges and imports.                                  *)
(*                                                                         *)
(* What a request looked up is trusted when it writes, and it is the       *)
(* store's state only as long as no other request came between.            *)
(*   LedgerInv    what an upsert found is in the store still; until        *)
(*                upserts overlap it is the same, keys are unique and      *)
(*                recorded entries are there;                              *)
(*   EnforcedInv  with enforcement on, stored objects conform; until link  *)
(*                requests overlap, links are there once and are accepted  *)
(*                among the others;                                        *)
(*   PackInv      what an installation has gone past is there, what a      *)
(*                removal listed is a pack's; until calls overlap, the one *)
(*                under way is what keeps a pack's demo objects from being *)
(*                none or all there;                                       *)
(*   MergeInv     unless merges and imports overlapped or worked on a      *)
(*                tombstone: what the merge under way read is still so,    *)
(*                and no set of ends that pointers and what a cut-off      *)
(*                merge left undone do not leave has anything more or less *)
(*                than its members said and had.                           *)
(***************************************************************************)
EXTENDS OntologyStore, DomainPacks, CandidateMerge, SequenceLemmas

-----------------------------------------------------------------------------
\* Steps of a request to upsert, and of one to link.
UpsertSteps == {"start", "found", "done", "rejected"}
LinkSteps == {"start", "checking", "checked", "unchecked", "done", "unverified", "rejected"}

Listed(s) == s \in Seq(ToSet(s))

RowFields == {"id", "objectType", "key", "status", "title", "props", "ledger"}

StoredObject(o) ==
    /\ RowFields \subseteq DOMAIN o
    /\ Listed(o.ledger) /\ IsInjective(o.ledger)

SameKey(o, type, key) == o.objectType = type /\ o.key = key

StoreTyped ==
    /\ ontologyMode \in Modes
    /\ Listed(objects) /\ Listed(links)
    /\ \A i \in DOMAIN objects : StoredObject(objects[i]) /\ objects[i].id = i
    /\ asked \in [OntologyCalls -> OntologyInputs]
    /\ callAt \in [OntologyCalls -> UpsertSteps \cup LinkSteps]
    /\ DOMAIN found = OntologyCalls
    /\ overlapped \subseteq OntologyCalls

\* A request's step is one of its kind.
StepsFit ==
    \A c \in OntologyCalls :
      /\ callAt[c] = "found" => asked[c].op = "upsert"
      /\ callAt[c] \in {"checking", "checked", "unchecked", "unverified"} => asked[c].op = "link"

\* What a look-up found is one object of the key, there since, if not as it was.
FoundInStore ==
    \A c \in OntologyCalls :
      /\ callAt[c] # "found" => found[c] = {}
      /\ \A o, p \in found[c] : o = p
      /\ \A o \in found[c] :
           /\ StoredObject(o) /\ o.id \in DOMAIN objects
           /\ asked[c].key # Absent /\ SameKey(o, asked[c].objectType, asked[c].key)
           /\ SameKey(objects[o.id], o.objectType, o.key)

\* Requests that are between their steps together have been noted.
OverlapIsNoted ==
    \A c, d \in OntologyCalls : c # d /\ Underway(c) /\ Underway(d) => {c, d} \subseteq overlapped

UpsertsRanAlone == \A c \in overlapped : asked[c].op # "upsert"
LinksRanAlone == \A c \in overlapped : asked[c].op # "link"

\* What a look-up saw is still so.
LookupsStand ==
    \A c \in OntologyCalls : callAt[c] = "found" =>
      /\ \A o \in found[c] : objects[o.id] = o
      /\ found[c] = {} /\ asked[c].key # Absent =>
           \A i \in DOMAIN objects : ~SameKey(objects[i], asked[c].objectType, asked[c].key)

KeysAreUnique ==
    \A i, j \in DOMAIN objects :
      objects[i].key # Absent /\ SameKey(objects[j], objects[i].objectType, objects[i].key) => i = j

EntriesStand ==
    \A c \in OntologyCalls :
      asked[c].op = "upsert" /\ callAt[c] = "done" /\ asked[c].key # Absent =>
        \E i \in DOMAIN objects :
          /\ SameKey(objects[i], asked[c].objectType, asked[c].key)
          /\ asked[c].entry # Absent => \E k \in DOMAIN objects[i].ledger : objects[i].ledger[k] = asked[c].entry

LedgerInv ==
    /\ StoreTyped /\ StepsFit /\ FoundInStore /\ OverlapIsNoted
    /\ UpsertsRanAlone => LookupsStand /\ KeysAreUnique /\ EntriesStand

-----------------------------------------------------------------------------
\* The objects there before conform to their schemas.
SeedsConform == \A i \in DOMAIN SeedObjects : SchemaViolations(SeedObjects[i]) = {}

Accepted == {"none", "unknown_relationship_type"}

EveryLinkVerified == \A c \in OntologyCalls : callAt[c] # "unverified"

\* A link looked for and not found is still not there, and what its check passed holds.
LinkLookupsStand ==
    \A c \in OntologyCalls : callAt[c] \in {"checking", "checked", "unchecked"} =>
      /\ \A i \in DOMAIN links : ~SameEdge(links[i], asked[c])
      /\ callAt[c] = "checked" =>
           RelationshipViolation(LinkOf(asked[c]), links, DOMAIN links) \in Accepted

LinksAreOnce == \A i, j \in DOMAIN links : SameEdge(links[i], links[j]) => i = j

LinksAreAccepted ==
    \A i \in DOMAIN links : RelationshipViolation(links[i], links, DOMAIN links \ {i}) \in Accepted

EnforcedInv ==
    ontologyMode = "enforce" =>
      /\ \A i \in DOMAIN objects : SchemaViolations(objects[i]) = {}
      /\ "object" \notin decision.blocking
      /\ LinksRanAlone =>
           /\ LinkLookupsStand /\ LinksAreOnce
           /\ EveryLinkVerified =>
                /\ LinksAreAccepted
                /\ decision.verdict = "BLOCKED" => decision.blocking = {"graph"}

-----------------------------------------------------------------------------
\* Lists of anything.
LEMMA ListFacts ==
    ASSUME NEW s, Listed(s)
    PROVE  Len(s) \in Nat /\ DOMAIN s = 1 .. Len(s)
BY LenProperties DEF Listed

LEMMA ListOf ==
    ASSUME NEW S, NEW s \in Seq(S)
    PROVE  Listed(s)
<1>1. Len(s) \in Nat /\ DOMAIN s = 1 .. Len(s) /\ s \in [1 .. Len(s) -> S]
  BY LenProperties
<1>2. s \in [1 .. Len(s) -> ToSet(s)]
  BY <1>1 DEF ToSet
<1> QED
  BY <1>1, <1>2, SeqDef DEF Listed

LEMMA EmptyList == Listed(<< >>) /\ DOMAIN << >> = {} /\ Len(<< >>) = 0
<1>1. << >> \in Seq({}) /\ Len(<< >>) = 0
  BY EmptySeq
<1>2. DOMAIN << >> = 1 .. 0
  BY <1>1, LenProperties
<1>3. 1 .. 0 = {}
  OBVIOUS
<1>4. Listed(<< >>)
  BY <1>1, ListOf, Zenon
<1> QED
  BY <1>1, <1>2, <1>3, <1>4

LEMMA AppendList ==
    ASSUME NEW s, Listed(s), NEW e
    PROVE  /\ Listed(Append(s, e))
           /\ Len(Append(s, e)) = Len(s) + 1 /\ DOMAIN Append(s, e) = 1 .. Len(s) + 1
           /\ Append(s, e)[Len(s) + 1] = e
           /\ \A i \in DOMAIN s : Append(s, e)[i] = s[i]
<1>1. PICK S : S = ToSet(s) \cup {e}
  OBVIOUS
<1>2. s \in Seq(S) /\ e \in S
  BY <1>1, SeqMonotonic DEF Listed
<1>3. PICK t : t = Append(s, e)
  OBVIOUS
<1>4. t \in Seq(S) /\ Len(t) = Len(s) + 1 /\ t[Len(s) + 1] = e /\ \A i \in 1 .. Len(s) : t[i] = s[i]
  BY <1>2, <1>3, AppendProperties
<1> QED
  BY <1>3, <1>4, ListFacts, ListOf

LEMMA UpdateList ==
    ASSUME NEW s, Listed(s), NEW i \in DOMAIN s, NEW e
    PROVE  /\ Listed([s EXCEPT ![i] = e])
           /\ Len([s EXCEPT ![i] = e]) = Len(s) /\ DOMAIN [s EXCEPT ![i] = e] = DOMAIN s
           /\ [s EXCEPT ![i] = e][i] = e
           /\ \A j \in DOMAIN s : j # i => [s EXCEPT ![i] = e][j] = s[j]
<1>1. PICK S : S = ToSet(s) \cup {e}
  OBVIOUS
<1>2. s \in Seq(S) /\ e \in S
  BY <1>1, SeqMonotonic DEF Listed
<1>3. PICK t : t = [s EXCEPT ![i] = e]
  OBVIOUS
<1>4. i \in 1 .. Len(s)
  BY ListFacts
<1>5. t \in Seq(S) /\ Len(t) = Len(s) /\ \A j \in 1 .. Len(s) : t[j] = IF j = i THEN e ELSE s[j]
  BY <1>2, <1>3, <1>4, ExceptSeq
<1> QED
  BY <1>3, <1>4, <1>5, ListFacts, ListOf

\* An entry is in the ledger afterwards, once, with all that was there.
LEMMA EntryAppended ==
    ASSUME NEW ledger, Listed(ledger), IsInjective(ledger), NEW entry
    PROVE  /\ Listed(WithEntry(ledger, entry)) /\ IsInjective(WithEntry(ledger, entry))
           /\ \A e : (\E k \in DOMAIN ledger : ledger[k] = e) =>
                       \E k \in DOMAIN WithEntry(ledger, entry) : WithEntry(ledger, entry)[k] = e
           /\ entry # Absent => \E k \in DOMAIN WithEntry(ledger, entry) : WithEntry(ledger, entry)[k] = entry
<1>1. PICK t : t = WithEntry(ledger, entry)
  OBVIOUS
<1>2. Len(ledger) \in Nat /\ DOMAIN ledger = 1 .. Len(ledger)
  BY ListFacts
<1>3. CASE entry = Absent \/ Contains(ledger, entry)
  <2>1. t = ledger
    BY <1>1, <1>3 DEF WithEntry
  <2>2. entry # Absent => \E k \in DOMAIN ledger : ledger[k] = entry
    BY <1>2, <1>3 DEF Contains
  <2> QED
    BY <1>1, <2>1, <2>2
<1>4. CASE ~(entry = Absent \/ Contains(ledger, entry))
  <2>1. t = Append(ledger, entry)
    BY <1>1, <1>4 DEF WithEntry
  <2>2. /\ Listed(t) /\ DOMAIN t = 1 .. Len(ledger) + 1
        /\ t[Len(ledger) + 1] = entry
        /\ \A i \in DOMAIN ledger : t[i] = ledger[i]
    BY <2>1, AppendList
  <2>3. \A i \in DOMAIN t : i \in DOMAIN ledger \/ i = Len(ledger) + 1
    BY <1>2, <2>2
  <2>4. DOMAIN ledger \subseteq DOMAIN t /\ Len(ledger) + 1 \in DOMAIN t
    BY <1>2, <2>2
  <2>5. \A i \in DOMAIN ledger : ledger[i] # entry
    BY <1>2, <1>4 DEF Contains
  <2>6. IsInjective(t)
    BY <2>2, <2>3, <2>5 DEF IsInjective
  <2> QED
    BY <1>1, <2>2, <2>4, <2>6
<1> QED
  BY <1>3, <1>4

-----------------------------------------------------------------------------
\* One request's step, as the others see it.
LEMMA GoToFacts ==
    ASSUME StoreTyped, OverlapIsNoted, NEW c \in OntologyCalls, NEW s \in UpsertSteps \cup LinkSteps, GoTo(c, s)
    PROVE  /\ callAt' \in [OntologyCalls -> UpsertSteps \cup LinkSteps]
           /\ callAt'[c] = s /\ \A d \in OntologyCalls : d # c => callAt'[d] = callAt[d]
           /\ overlapped \subseteq overlapped' /\ overlapped' \subseteq OntologyCalls
           /\ \A d \in OntologyCalls : d # c /\ Underway(d) => {c, d} \subseteq overlapped'
           /\ OverlapIsNoted'
           /\ ontologyMode' = ontologyMode /\ asked' = asked /\ decision' = decision
           /\ UpsertsRanAlone' => UpsertsRanAlone
           /\ LinksRanAlone' => LinksRanAlone
<1> DEFINE others == {d \in OntologyCalls \ {c} : Underway(d)}
<1>1. callAt' \in [OntologyCalls -> UpsertSteps \cup LinkSteps]
      /\ callAt'[c] = s /\ \A d \in OntologyCalls : d # c => callAt'[d] = callAt[d]
  BY DEF GoTo, StoreTyped
<1>2. overlapped' = IF others = {} THEN overlapped ELSE overlapped \cup others \cup {c}
  BY DEF GoTo
<1>3. overlapped \subseteq overlapped' /\ overlapped' \subseteq OntologyCalls
  BY <1>2 DEF StoreTyped
<1>4. \A d \in OntologyCalls : d # c /\ Underway(d) => {c, d} \subseteq overlapped'
  BY <1>2
<1>5. \A d \in OntologyCalls : d # c => (Underway(d)' <=> Underway(d))
  BY <1>1 DEF Underway
<1>6. OverlapIsNoted'
  <2> SUFFICES ASSUME NEW d \in OntologyCalls, NEW e \in OntologyCalls, d # e, Underway(d)', Underway(e)'
               PROVE  {d, e} \subseteq overlapped'
    BY DEF OverlapIsNoted
  <2>1. CASE d # c /\ e # c
    BY <1>3, <1>5, <2>1 DEF OverlapIsNoted
  <2>2. CASE d = c \/ e = c
    BY <1>4, <1>5, <2>2
  <2> QED
    BY <2>1, <2>2
<1>7. ontologyMode' = ontologyMode /\ asked' = asked /\ decision' = decision
  BY DEF GoTo
<1>8. (UpsertsRanAlone' => UpsertsRanAlone) /\ (LinksRanAlone' => LinksRanAlone)
  BY <1>3, <1>7 DEF UpsertsRanAlone, LinksRanAlone
<1> QED
  BY <1>1, <1>3, <1>4, <1>6, <1>7, <1>8

LEMMA OntologyInitInv == OntologyInit => LedgerInv
<1> SUFFICES ASSUME OntologyInit PROVE LedgerInv
  OBVIOUS
<1> USE DEF OntologyInit
<1>1. \A c \in OntologyCalls : callAt[c] = "start" /\ found[c] = {}
  OBVIOUS
<1>2. Listed(objects) /\ Listed(links)
  BY OntologyAssumption, EmptyList DEF Listed
<1>3. \A i \in DOMAIN objects : StoredObject(objects[i]) /\ objects[i].id = i
  BY OntologyAssumption DEF StoredObject, RowFields, Listed
<1>4. StoreTyped
  BY <1>2, <1>3 DEF StoreTyped, UpsertSteps
<1>5. StepsFit /\ FoundInStore /\ OverlapIsNoted /\ LookupsStand /\ EntriesStand
  BY <1>1 DEF StepsFit, FoundInStore, OverlapIsNoted, LookupsStand, EntriesStand, Underway
<1>6. KeysAreUnique
  BY OntologyAssumption DEF KeysAreUnique, SameKey
<1> QED
  BY <1>4, <1>5, <1>6 DEF LedgerInv

\* Upserts do not see a link being made.
LEMMA LinkStepKeepsLedger ==
    ASSUME LedgerInv, NEW c \in OntologyCalls, NEW s \in LinkSteps, GoTo(c, s),
           asked[c].op = "link", UNCHANGED <<objects, found>>, Listed(links')
    PROVE  LedgerInv'
<1>1. s \in UpsertSteps \cup LinkSteps /\ s # "found" /\ asked[c].op # "upsert" /\ callAt[c] # "found"
  BY DEF LinkSteps, LedgerInv, StepsFit
<1>2. /\ callAt' \in [OntologyCalls -> UpsertSteps \cup LinkSteps]
      /\ callAt'[c] = s /\ \A d \in OntologyCalls : d # c => callAt'[d] = callAt[d]
      /\ overlapped' \subseteq OntologyCalls /\ OverlapIsNoted'
      /\ ontologyMode' = ontologyMode /\ asked' = asked
      /\ UpsertsRanAlone' => UpsertsRanAlone
  BY <1>1, GoToFacts DEF LedgerInv
<1>3. StoreTyped'
  BY <1>2 DEF LedgerInv, StoreTyped
<1>4. StepsFit'
  BY <1>1, <1>2 DEF LedgerInv, StepsFit
<1>5. FoundInStore'
  BY <1>1, <1>2 DEF LedgerInv, FoundInStore
<1>6. ASSUME UpsertsRanAlone' PROVE LookupsStand' /\ KeysAreUnique' /\ EntriesStand'
  <2>1. LookupsStand /\ KeysAreUnique /\ EntriesStand
    BY <1>2, <1>6 DEF LedgerInv
  <2>2. LookupsStand'
    BY <1>1, <1>2, <2>1 DEF LookupsStand
  <2>3. KeysAreUnique'
    BY <2>1 DEF KeysAreUnique
  <2>4. EntriesStand'
    BY <1>1, <1>2, <2>1 DEF EntriesStand
  <2> QED
    BY <2>2, <2>3, <2>4
<1> QED
  BY <1>2, <1>3, <1>4, <1>5, <1>6 DEF LedgerInv

LEMMA FindObjectInv ==
    ASSUME LedgerInv, NEW c \in OntologyCalls, FindObject(c)
    PROVE  LedgerInv'
<1> DEFINE q == asked[c]
           matches == IF q.key = Absent THEN {}
                      ELSE {i \in DOMAIN objects : objects[i].objectType = q.objectType /\ objects[i].key = q.key}
           hits == {objects[i] : i \in {i \in matches : \A j \in matches : i <= j}}
<1>1. /\ callAt[c] = "start" /\ q.op = "upsert" /\ GoTo(c, "found")
      /\ found' = [found EXCEPT ![c] = hits]
      /\ objects' = objects /\ links' = links
  BY DEF FindObject
<1>2. /\ callAt' \in [OntologyCalls -> UpsertSteps \cup LinkSteps]
      /\ callAt'[c] = "found" /\ \A d \in OntologyCalls : d # c => callAt'[d] = callAt[d]
      /\ overlapped' \subseteq OntologyCalls /\ OverlapIsNoted'
      /\ \A d \in OntologyCalls : d # c /\ Underway(d) => {c, d} \subseteq overlapped'
      /\ ontologyMode' = ontologyMode /\ asked' = asked
      /\ UpsertsRanAlone' => UpsertsRanAlone
  BY <1>1, GoToFacts DEF LedgerInv, UpsertSteps
<1>3. found'[c] = hits /\ DOMAIN found' = OntologyCalls /\ \A d \in OntologyCalls : d # c => found'[d] = found[d]
  BY <1>1 DEF LedgerInv, StoreTyped
<1>4. matches \subseteq Nat /\ matches \subseteq DOMAIN objects
  BY ListFacts DEF LedgerInv, StoreTyped
<1>5. \A o \in hits : \E i \in matches : o = objects[i] /\ \A j \in matches : i <= j
  OBVIOUS
<1>6. \A o, p \in hits : o = p
  BY <1>4, <1>5
<1>7. \A i \in matches : q.key # Absent /\ i \in DOMAIN objects /\ SameKey(objects[i], q.objectType, q.key)
  BY DEF SameKey
<1>8. hits = {} /\ q.key # Absent => \A i \in DOMAIN objects : ~SameKey(objects[i], q.objectType, q.key)
  <2> SUFFICES ASSUME q.key # Absent, NEW i \in DOMAIN objects, SameKey(objects[i], q.objectType, q.key)
               PROVE  hits # {}
    OBVIOUS
  <2>1. i \in matches
    BY DEF SameKey
  <2>2. PICK k \in matches : \A j \in matches : k <= j
    <3> HIDE DEF matches
    <3> QED
      BY <1>4, <2>1, LeastNatural
  <2> QED
    BY <2>2
<1> HIDE DEF matches, hits
<1>9. \A o \in hits : /\ StoredObject(o) /\ o.id \in DOMAIN objects /\ objects[o.id] = o
                      /\ q.key # Absent /\ SameKey(o, q.objectType, q.key)
  BY <1>5, <1>7 DEF LedgerInv, StoreTyped
<1>10. StoreTyped'
  BY <1>1, <1>2, <1>3 DEF LedgerInv, StoreTyped
<1>11. StepsFit'
  BY <1>1, <1>2 DEF LedgerInv, StepsFit
<1>12. FoundInStore'
  <2> SUFFICES ASSUME NEW d \in OntologyCalls
               PROVE  /\ callAt'[d] # "found" => found'[d] = {}
                      /\ \A o, p \in found'[d] : o = p
                      /\ \A o \in found'[d] :
                           /\ StoredObject(o) /\ o.id \in DOMAIN objects
                           /\ asked[d].key # Absent /\ SameKey(o, asked[d].objectType, asked[d].key)
                           /\ SameKey(objects[o.id], o.objectType, o.key)
    BY <1>1, <1>2 DEF FoundInStore, StoredObject, SameKey
  <2>1. CASE d = c
    BY <1>2, <1>3, <1>6, <1>9, <2>1 DEF SameKey
  <2>2. CASE d # c
    BY <1>2, <1>3, <2>2 DEF LedgerInv, FoundInStore
  <2> QED
    BY <2>1, <2>2
<1>13. ASSUME UpsertsRanAlone' PROVE LookupsStand' /\ KeysAreUnique' /\ EntriesStand'
  <2>1. LookupsStand /\ KeysAreUnique /\ EntriesStand
    BY <1>2, <1>13 DEF LedgerInv
  <2>2. LookupsStand'
    <3> SUFFICES ASSUME NEW d \in OntologyCalls, callAt'[d] = "found"
                 PROVE  /\ \A o \in found'[d] : objects[o.id] = o
                        /\ found'[d] = {} /\ asked[d].key # Absent =>
                             \A i \in DOMAIN objects : ~SameKey(objects[i], asked[d].objectType, asked[d].key)
      BY <1>1, <1>2 DEF LookupsStand, SameKey
    <3>1. CASE d = c
      BY <1>3, <1>8, <1>9, <3>1
    <3>2. CASE d # c
      BY <1>2, <1>3, <2>1, <3>2 DEF LookupsStand
    <3> QED
      BY <3>1, <3>2
  <2>3. KeysAreUnique'
    BY <1>1, <2>1 DEF KeysAreUnique, SameKey
  <2>4. EntriesStand'
    BY <1>1, <1>2, <2>1 DEF EntriesStand, SameKey
  <2> QED
    BY <2>2, <2>3, <2>4
<1> QED
  BY <1>2, <1>10, <1>11, <1>12, <1>13 DEF LedgerInv

\* What the upsert of c is about to write.
Written(c) == Effective(asked[c], found[c], Len(objects) + 1)

LEMMA WrittenFacts ==
    ASSUME LedgerInv, NEW c \in OntologyCalls, callAt[c] = "found"
    PROVE  /\ StoredObject(Written(c)) /\ SameKey(Written(c), asked[c].objectType, asked[c].key)
           /\ asked[c].entry # Absent => \E k \in DOMAIN Written(c).ledger : Written(c).ledger[k] = asked[c].entry
           /\ found[c] = {} => Written(c).id = Len(objects) + 1
           /\ \A p \in found[c] :
                /\ Written(c).id = p.id
                /\ \A e : (\E k \in DOMAIN p.ledger : p.ledger[k] = e) =>
                             \E k \in DOMAIN Written(c).ledger : Written(c).ledger[k] = e
<1> DEFINE q == asked[c]
<1>1. CASE found[c] = {}
  <2>1. PICK led : led = WithEntry(<< >>, q.entry)
    OBVIOUS
  <2>2. IsInjective(<< >>)
    BY EmptyList DEF IsInjective
  <2>3. Listed(led) /\ IsInjective(led) /\ (q.entry # Absent => \E k \in DOMAIN led : led[k] = q.entry)
    BY <2>1, <2>2, EmptyList, EntryAppended
  <2>4. Written(c) = [id |-> Len(objects) + 1, objectType |-> q.objectType, key |-> q.key, status |-> q.status,
                      title |-> q.title, props |-> q.props, ledger |-> led]
    BY <1>1, <2>1 DEF Written, Effective
  <2> QED
    BY <1>1, <2>3, <2>4 DEF StoredObject, RowFields, SameKey
<1>2. CASE found[c] # {}
  <2>1. PICK p \in found[c] : TRUE
    BY <1>2
  <2>2. found[c] = {p}
    BY <2>1 DEF LedgerInv, FoundInStore
  <2>3. /\ StoredObject(p) /\ SameKey(p, q.objectType, q.key)
    BY <2>1 DEF LedgerInv, FoundInStore
  <2>4. PICK led : led = WithEntry(p.ledger, q.entry)
    OBVIOUS
  <2>5. /\ Listed(led) /\ IsInjective(led)
        /\ q.entry # Absent => \E k \in DOMAIN led : led[k] = q.entry
        /\ \A e : (\E k \in DOMAIN p.ledger : p.ledger[k] = e) => \E k \in DOMAIN led : led[k] = e
    BY <2>3, <2>4, EntryAppended DEF StoredObject
  <2>6. PICK status, title, props : /\ status = Given(q.status, p.status) /\ title = Given(q.title, p.title)
                                    /\ props = p.props \cup q.props
    OBVIOUS
  <2>7. Written(c) = [p EXCEPT !.status = status, !.title = title, !.props = props, !.ledger = led]
    <3>1. (CHOOSE o \in found[c] : TRUE) = p
      BY <2>2
    <3>2. Written(c) = [(CHOOSE o \in found[c] : TRUE) EXCEPT !.status = Given(q.status, @), !.title = Given(q.title, @),
                          !.props = @ \cup q.props, !.ledger = WithEntry(@, q.entry)]
      BY <1>2 DEF Written, Effective
    <3>3. Written(c) = [p EXCEPT !.status = Given(q.status, @), !.title = Given(q.title, @),
                          !.props = @ \cup q.props, !.ledger = WithEntry(@, q.entry)]
      BY <3>1, <3>2
    <3> QED
      BY <2>4, <2>6, <3>3
  <2>8. RowFields \subseteq DOMAIN p
    BY <2>3 DEF StoredObject
  <2>9. PICK w : w = Written(c)
    OBVIOUS
  <2>10. /\ DOMAIN w = DOMAIN p
         /\ w.ledger = led /\ w.id = p.id /\ w.objectType = p.objectType /\ w.key = p.key
    BY <2>7, <2>8, <2>9 DEF RowFields
  <2> QED
    BY <1>2, <2>2, <2>3, <2>5, <2>8, <2>9, <2>10 DEF StoredObject, SameKey
<1> QED
  BY <1>1, <1>2

\* A write of c's object, at the end of the list or in the place of the one found.
LEMMA RowsAfterWrite ==
    ASSUME LedgerInv, NEW c \in OntologyCalls, callAt[c] = "found",
           objects' = IF found[c] = {} THEN Append(objects, Written(c))
                      ELSE [objects EXCEPT ![Written(c).id] = Written(c)]
    PROVE  /\ Listed(objects') /\ DOMAIN objects \subseteq DOMAIN objects'
           /\ \A i \in DOMAIN objects' : StoredObject(objects'[i]) /\ objects'[i].id = i
           /\ Written(c).id \in DOMAIN objects' /\ objects'[Written(c).id] = Written(c)
           /\ \A i \in DOMAIN objects' : i # Written(c).id => i \in DOMAIN objects /\ objects'[i] = objects[i]
           /\ \A i \in DOMAIN objects : SameKey(objects'[i], objects[i].objectType, objects[i].key)
           /\ Written(c).id \in DOMAIN objects <=> found[c] # {}
           /\ \A p \in found[c] : Written(c).id = p.id
<1>1. PICK w : w = Written(c)
  OBVIOUS
<1>2. /\ StoredObject(w) /\ SameKey(w, asked[c].objectType, asked[c].key)
      /\ found[c] = {} => w.id = Len(objects) + 1
      /\ \A p \in found[c] : w.id = p.id
  BY <1>1, WrittenFacts
<1>3. /\ Listed(objects) /\ Len(objects) \in Nat /\ DOMAIN objects = 1 .. Len(objects)
      /\ \A i \in DOMAIN objects : StoredObject(objects[i]) /\ objects[i].id = i
  BY ListFacts DEF LedgerInv, StoreTyped
<1>4. CASE found[c] = {}
  <2>1. objects' = Append(objects, w) /\ w.id = Len(objects) + 1
    BY <1>1, <1>2, <1>4
  <2>2. /\ Listed(objects') /\ DOMAIN objects' = 1 .. Len(objects) + 1
        /\ objects'[Len(objects) + 1] = w
        /\ \A i \in DOMAIN objects : objects'[i] = objects[i]
    <3>1. PICK t : t = Append(objects, w)
      OBVIOUS
    <3>2. /\ Listed(t) /\ DOMAIN t = 1 .. Len(objects) + 1 /\ t[Len(objects) + 1] = w
          /\ \A i \in DOMAIN objects : t[i] = objects[i]
      BY <1>3, <3>1, AppendList
    <3>3. objects' = t
      BY <2>1, <3>1
    <3> QED
      BY <3>2, <3>3
  <2>3. PICK n \in Nat : n = Len(objects) /\ DOMAIN objects = 1 .. n /\ DOMAIN objects' = 1 .. n + 1 /\ w.id = n + 1
    BY <1>3, <2>1, <2>2, ZenonT(60)
  <2>4. /\ \A i \in DOMAIN objects' : i \in DOMAIN objects \/ i = w.id
        /\ DOMAIN objects \subseteq DOMAIN objects' /\ w.id \in DOMAIN objects' /\ w.id \notin DOMAIN objects
    <3>1. /\ \A i \in 1 .. n + 1 : i \in 1 .. n \/ i = n + 1
          /\ 1 .. n \subseteq 1 .. n + 1 /\ n + 1 \in 1 .. n + 1 /\ n + 1 \notin 1 .. n
      OBVIOUS
    <3> QED
      BY <2>3, <3>1, ZenonT(60)
  <2>5. objects'[w.id] = w
    BY <2>1, <2>2
  <2>6. \A i \in DOMAIN objects' : StoredObject(objects'[i]) /\ objects'[i].id = i
    BY <1>2, <1>3, <2>2, <2>4, <2>5
  <2> QED
    BY <1>1, <1>2, <1>4, <2>2, <2>4, <2>5, <2>6 DEF SameKey
<1>5. CASE found[c] # {}
  <2>1. PICK p \in found[c] : TRUE
    BY <1>5
  <2>2. w.id = p.id /\ p.id \in DOMAIN objects /\ SameKey(p, asked[c].objectType, asked[c].key)
        /\ SameKey(objects[p.id], p.objectType, p.key)
    BY <1>2, <2>1 DEF LedgerInv, FoundInStore
  <2>3. PICK k \in DOMAIN objects : k = w.id
    BY <2>2
  <2>4. objects' = [objects EXCEPT ![k] = w]
    BY <1>1, <1>5, <2>3
  <2>5. /\ Listed(objects') /\ DOMAIN objects' = DOMAIN objects
        /\ objects'[k] = w
        /\ \A i \in DOMAIN objects : i # k => objects'[i] = objects[i]
    <3>1. PICK t : t = [objects EXCEPT ![k] = w]
      OBVIOUS
    <3>2. /\ Listed(t) /\ DOMAIN t = DOMAIN objects /\ t[k] = w
          /\ \A i \in DOMAIN objects : i # k => t[i] = objects[i]
      BY <1>3, <3>1, UpdateList
    <3>3. objects' = t
      BY <2>4, <3>1
    <3> QED
      BY <3>2, <3>3
  <2>6. SameKey(w, objects[k].objectType, objects[k].key)
    BY <1>2, <2>2, <2>3 DEF SameKey
  <2>7. \A i \in DOMAIN objects' : StoredObject(objects'[i]) /\ objects'[i].id = i
    BY <1>2, <1>3, <2>3, <2>5
  <2> QED
    BY <1>1, <1>2, <1>5, <2>3, <2>5, <2>6, <2>7 DEF SameKey
<1> QED
  BY <1>4, <1>5

LEMMA WriteObjectInv ==
    ASSUME LedgerInv, NEW c \in OntologyCalls, WriteObject(c)
    PROVE  LedgerInv'
<1>1. PICK s \in {"rejected", "done"} :
        /\ GoTo(c, s)
        /\ s = "rejected" => objects' = objects
        /\ s = "done" => objects' = IF found[c] = {} THEN Append(objects, Written(c))
                                    ELSE [objects EXCEPT ![Written(c).id] = Written(c)]
  BY DEF WriteObject, Written
<1>2. /\ callAt[c] = "found" /\ asked[c].op = "upsert"
      /\ found' = [found EXCEPT ![c] = {}] /\ links' = links
  BY DEF WriteObject, LedgerInv, StepsFit
<1>3. /\ callAt' \in [OntologyCalls -> UpsertSteps \cup LinkSteps]
      /\ callAt'[c] = s /\ \A d \in OntologyCalls : d # c => callAt'[d] = callAt[d]
      /\ overlapped' \subseteq OntologyCalls /\ OverlapIsNoted'
      /\ \A d \in OntologyCalls : d # c /\ Underway(d) => {c, d} \subseteq overlapped'
      /\ ontologyMode' = ontologyMode /\ asked' = asked
      /\ UpsertsRanAlone' => UpsertsRanAlone
  BY <1>1, GoToFacts DEF LedgerInv, UpsertSteps
<1>4. found'[c] = {} /\ DOMAIN found' = OntologyCalls /\ \A d \in OntologyCalls : d # c => found'[d] = found[d]
  BY <1>2 DEF LedgerInv, StoreTyped
<1>5. /\ Listed(objects') /\ DOMAIN objects \subseteq DOMAIN objects'
      /\ \A i \in DOMAIN objects' : StoredObject(objects'[i]) /\ objects'[i].id = i
      /\ \A i \in DOMAIN objects : SameKey(objects'[i], objects[i].objectType, objects[i].key)
  <2>1. CASE s = "rejected"
    BY <1>1, <2>1 DEF LedgerInv, StoreTyped, SameKey
  <2>2. CASE s = "done"
    BY <1>1, <1>2, <2>2, RowsAfterWrite
  <2> QED
    BY <2>1, <2>2
<1>6. StoreTyped'
  BY <1>2, <1>3, <1>4, <1>5 DEF LedgerInv, StoreTyped
<1>7. StepsFit'
  BY <1>1, <1>3 DEF LedgerInv, StepsFit
<1>8. FoundInStore'
  <2> SUFFICES ASSUME NEW d \in OntologyCalls
               PROVE  /\ callAt'[d] # "found" => found'[d] = {}
                      /\ \A o, p \in found'[d] : o = p
                      /\ \A o \in found'[d] :
                           /\ StoredObject(o) /\ o.id \in DOMAIN objects'
                           /\ asked[d].key # Absent /\ SameKey(o, asked[d].objectType, asked[d].key)
                           /\ SameKey(objects'[o.id], o.objectType, o.key)
    BY <1>3 DEF FoundInStore, StoredObject, SameKey
  <2>1. CASE d = c
    BY <1>4, <2>1
  <2>2. CASE d # c
    BY <1>3, <1>4, <1>5, <2>2 DEF LedgerInv, FoundInStore, SameKey
  <2> QED
    BY <2>1, <2>2
<1>9. ASSUME UpsertsRanAlone' PROVE LookupsStand' /\ KeysAreUnique' /\ EntriesStand'
  <2>1. LookupsStand /\ KeysAreUnique /\ EntriesStand
    BY <1>3, <1>9 DEF LedgerInv
  <2>2. \A d \in OntologyCalls : callAt'[d] # "found"
    BY <1>1, <1>2, <1>3, <1>9 DEF UpsertsRanAlone, Underway
  <2>3. LookupsStand'
    BY <2>2 DEF LookupsStand
  <2>4. CASE s = "rejected"
    <3>1. objects' = objects /\ \A d \in OntologyCalls : callAt'[d] = "done" => d # c
      BY <1>1, <1>3, <2>4
    <3>2. KeysAreUnique'
      BY <2>1, <3>1 DEF KeysAreUnique, SameKey
    <3>3. EntriesStand'
      BY <1>3, <2>1, <3>1 DEF EntriesStand, SameKey
    <3> QED
      BY <2>3, <3>2, <3>3
  <2>5. CASE s = "done"
    <3>1. PICK w : w = Written(c)
      OBVIOUS
    <3>2. /\ w.id \in DOMAIN objects' /\ objects'[w.id] = w
          /\ \A i \in DOMAIN objects' : i # w.id => i \in DOMAIN objects /\ objects'[i] = objects[i]
          /\ w.id \in DOMAIN objects <=> found[c] # {}
          /\ \A p \in found[c] : w.id = p.id
      BY <1>1, <1>2, <2>5, <3>1, RowsAfterWrite
    <3>3. /\ SameKey(w, asked[c].objectType, asked[c].key)
          /\ asked[c].entry # Absent => \E k \in DOMAIN w.ledger : w.ledger[k] = asked[c].entry
          /\ \A p \in found[c] :
               \A e : (\E k \in DOMAIN p.ledger : p.ledger[k] = e) => \E k \in DOMAIN w.ledger : w.ledger[k] = e
      BY <1>2, <3>1, WrittenFacts
    <3>4. KeysAreUnique'
      <4> SUFFICES ASSUME NEW i \in DOMAIN objects', NEW j \in DOMAIN objects', objects'[i].key # Absent,
                          SameKey(objects'[j], objects'[i].objectType, objects'[i].key)
                   PROVE  i = j
        BY DEF KeysAreUnique, SameKey
      <4>1. CASE found[c] # {}
        <5>1. i \in DOMAIN objects /\ j \in DOMAIN objects
          BY <3>2, <4>1
        <5> QED
          BY <1>5, <2>1, <5>1 DEF KeysAreUnique, SameKey
      <4>2. CASE found[c] = {}
        <5>1. asked[c].key # Absent => \A k \in DOMAIN objects : ~SameKey(objects[k], asked[c].objectType, asked[c].key)
          BY <1>2, <2>1, <4>2 DEF LookupsStand
        <5>2. CASE i = w.id \/ j = w.id
          BY <3>2, <3>3, <5>1, <5>2 DEF SameKey
        <5>3. CASE i # w.id /\ j # w.id
          BY <2>1, <3>2, <5>3 DEF KeysAreUnique
        <5> QED
          BY <5>2, <5>3
      <4> QED
        BY <4>1, <4>2
    <3>5. EntriesStand'
      <4> SUFFICES ASSUME NEW d \in OntologyCalls, asked[d].op = "upsert", callAt'[d] = "done", asked[d].key # Absent
                   PROVE  \E i \in DOMAIN objects' :
                            /\ SameKey(objects'[i], asked[d].objectType, asked[d].key)
                            /\ asked[d].entry # Absent =>
                                 \E k \in DOMAIN objects'[i].ledger : objects'[i].ledger[k] = asked[d].entry
        BY <1>3 DEF EntriesStand, SameKey
      <4>1. CASE d = c
        BY <3>2, <3>3, <4>1
      <4>2. CASE d # c
        <5>1. PICK i \in DOMAIN objects :
                 /\ SameKey(objects[i], asked[d].objectType, asked[d].key)
                 /\ asked[d].entry # Absent => \E k \in DOMAIN objects[i].ledger : objects[i].ledger[k] = asked[d].entry
          BY <1>3, <2>1, <4>2 DEF EntriesStand
        <5>2. i \in DOMAIN objects' /\ SameKey(objects'[i], asked[d].objectType, asked[d].key)
          BY <1>5, <5>1 DEF SameKey
        <5>3. CASE i # w.id
          BY <3>2, <5>1, <5>2, <5>3
        <5>4. CASE i = w.id
          <6>1. PICK p \in found[c] : TRUE
            BY <3>2, <5>4
          <6>2. objects[i] = p
            BY <1>2, <2>1, <3>2, <5>4, <6>1 DEF LookupsStand
          <6> QED
            BY <3>2, <3>3, <5>1, <5>2, <5>4, <6>1, <6>2
        <5> QED
          BY <5>3, <5>4
      <4> QED
        BY <4>1, <4>2
    <3> QED
      BY <2>3, <3>4, <3>5
  <2> QED
    BY <2>4, <2>5
<1> QED
  BY <1>3, <1>6, <1>7, <1>8, <1>9 DEF LedgerInv

LEMMA OntologyNextLedger == LedgerInv /\ [OntologyNext]_ontologyVars => LedgerInv'
<1> SUFFICES ASSUME LedgerInv, [OntologyNext]_ontologyVars PROVE LedgerInv'
  OBVIOUS
<1>1. ASSUME NEW c \in OntologyCalls, FindLink(c) PROVE LedgerInv'
  <2>1. PICK s \in {"done", "checking"} : GoTo(c, s)
    BY <1>1 DEF FindLink
  <2> QED
    BY <1>1, <2>1, LinkStepKeepsLedger DEF FindLink, LinkSteps, LedgerInv, StoreTyped
<1>2. ASSUME NEW c \in OntologyCalls, CheckLink(c) PROVE LedgerInv'
  <2>1. PICK s \in {"rejected", "checked", "unchecked"} : GoTo(c, s)
    BY <1>2 DEF CheckLink
  <2> QED
    BY <1>2, <2>1, LinkStepKeepsLedger DEF CheckLink, LinkSteps, LedgerInv, StoreTyped, StepsFit
<1>3. ASSUME NEW c \in OntologyCalls, InsertLink(c) PROVE LedgerInv'
  <2>1. PICK s \in {"done", "unverified"} : GoTo(c, s)
    BY <1>3 DEF InsertLink
  <2>2. Listed(links') /\ asked[c].op = "link"
    BY <1>3, AppendList DEF InsertLink, LedgerInv, StoreTyped, StepsFit
  <2> QED
    BY <1>3, <2>1, <2>2, LinkStepKeepsLedger DEF InsertLink, LinkSteps
<1>4. CASE UNCHANGED <<ontologyMode, objects, links, asked, callAt, found, overlapped>>
  BY <1>4 DEF LedgerInv, StoreTyped, StepsFit, FoundInStore, OverlapIsNoted, LookupsStand, KeysAreUnique,
              EntriesStand, UpsertsRanAlone, Underway, SameKey, StoredObject
<1> QED
  BY <1>1, <1>2, <1>3, <1>4, FindObjectInv, WriteObjectInv
     DEF OntologyNext, EvaluateGovernance, ontologyVars

LEMMA LedgerIsKept == OntologySpec => []LedgerInv
BY OntologyInitInv, OntologyNextLedger, PTL DEF OntologySpec

LEMMA OneOfAKind ==
    ASSUME NEW S, NEW x \in S, \A y \in S : y = x
    PROVE  Cardinality(S) = 1
<1>1. S = {x}
  OBVIOUS
<1> QED
  BY <1>1, FS_Singleton

\* As long as no upsert overlapped another request, there is one object a key, and every
\* entry a finished upsert recorded is in it, once (upsertObject and applyLedgers,
\* object-service.ts:64): for any requests, objects and number of them.
THEOREM LedgersLoseNothing == OntologySpec => []LedgerKeepsEveryEntry
<1>1. LedgerInv => LedgerKeepsEveryEntry
  <2> SUFFICES ASSUME LedgerInv, UpsertsRanAlone, NEW c \in OntologyCalls,
                      asked[c].op = "upsert", callAt[c] = "done", asked[c].key # Absent
               PROVE  LET mine == {i \in DOMAIN objects : objects[i].objectType = asked[c].objectType
                                                          /\ objects[i].key = asked[c].key}
                      IN  /\ Cardinality(mine) = 1
                          /\ asked[c].entry # Absent =>
                               \A i \in mine : Cardinality({k \in DOMAIN objects[i].ledger :
                                                              objects[i].ledger[k] = asked[c].entry}) = 1
    BY DEF LedgerKeepsEveryEntry, UpsertsRanAlone
  <2> DEFINE mine == {i \in DOMAIN objects : objects[i].objectType = asked[c].objectType
                                             /\ objects[i].key = asked[c].key}
  <2>1. PICK i \in DOMAIN objects :
           /\ SameKey(objects[i], asked[c].objectType, asked[c].key)
           /\ asked[c].entry # Absent => \E k \in DOMAIN objects[i].ledger : objects[i].ledger[k] = asked[c].entry
    BY DEF LedgerInv, EntriesStand
  <2>2. i \in mine /\ \A j \in mine : j = i
    BY <2>1 DEF LedgerInv, KeysAreUnique, SameKey
  <2>3. Cardinality(mine) = 1
    BY <2>2, OneOfAKind
  <2>4. ASSUME asked[c].entry # Absent
        PROVE  Cardinality({k \in DOMAIN objects[i].ledger : objects[i].ledger[k] = asked[c].entry}) = 1
    <3>1. PICK k \in DOMAIN objects[i].ledger : objects[i].ledger[k] = asked[c].entry
      BY <2>1, <2>4
    <3>2. IsInjective(objects[i].ledger)
      BY DEF LedgerInv, StoreTyped, StoredObject
    <3>3. \A j \in DOMAIN objects[i].ledger : objects[i].ledger[j] = asked[c].entry => j = k
      BY <3>1, <3>2 DEF IsInjective
    <3> QED
      BY <3>1, <3>3, OneOfAKind
  <2> QED
    BY <2>2, <2>3, <2>4
<1> QED
  BY <1>1, LedgerIsKept, PTL

\* Those who ask for a link pass the ids of objects that are there; linkObjects does not check.
EndsAreThere == \A q \in OntologyInputs : q.op = "link" => {q.from, q.to} \subseteq DOMAIN SeedObjects

LinksLead ==
    /\ DOMAIN SeedObjects \subseteq DOMAIN objects
    /\ \A i \in DOMAIN links : {links[i].from, links[i].to} \subseteq DOMAIN objects
    /\ decision.verdict \in {"none", "PASS", "PASS_WITH_WARNINGS", "BLOCKED"}

LEMMA LinksLeadOn ==
    ASSUME EndsAreThere, LedgerInv, LinksLead, [OntologyNext]_ontologyVars
    PROVE  LinksLead'
<1>1. ASSUME DOMAIN objects \subseteq DOMAIN objects', UNCHANGED <<links, decision>> PROVE LinksLead'
  BY <1>1 DEF LinksLead
<1>2. ASSUME NEW c \in OntologyCalls, FindObject(c) \/ FindLink(c) \/ CheckLink(c) PROVE LinksLead'
  BY <1>1, <1>2 DEF FindObject, FindLink, CheckLink, GoTo
<1>3. ASSUME NEW c \in OntologyCalls, WriteObject(c) PROVE LinksLead'
  <2>1. UNCHANGED <<links, decision>> /\ callAt[c] = "found"
    BY <1>3 DEF WriteObject, GoTo
  <2>2. CASE objects' = objects
    BY <1>1, <2>1, <2>2
  <2>3. CASE objects' # objects
    <3>1. objects' = IF found[c] = {} THEN Append(objects, Written(c))
                     ELSE [objects EXCEPT ![Written(c).id] = Written(c)]
      BY <1>3, <2>3 DEF WriteObject, Written
    <3>2. DOMAIN objects \subseteq DOMAIN objects'
      BY <2>1, <3>1, RowsAfterWrite
    <3> QED
      BY <1>1, <2>1, <3>2
  <2> QED
    BY <2>2, <2>3
<1>4. ASSUME NEW c \in OntologyCalls, InsertLink(c) PROVE LinksLead'
  <2>1. /\ asked[c].op = "link" /\ asked[c] \in OntologyInputs /\ Listed(links)
        /\ UNCHANGED <<objects, decision>>
    BY <1>4 DEF InsertLink, GoTo, LedgerInv, StoreTyped, StepsFit
  <2>2. PICK l : l = LinkOf(asked[c])
    OBVIOUS
  <2>3. {l.from, l.to} \subseteq DOMAIN objects
    BY <2>1, <2>2 DEF LinkOf, EndsAreThere, LinksLead
  <2>4. links' = Append(links, l)
    BY <1>4, <2>2 DEF InsertLink
  <2>5. \A i \in DOMAIN links' : links'[i] = l \/ \E k \in DOMAIN links : links'[i] = links[k]
    <3>1. /\ DOMAIN links' = 1 .. Len(links) + 1 /\ links'[Len(links) + 1] = l
          /\ \A i \in DOMAIN links : links'[i] = links[i]
      BY <2>1, <2>4, AppendList
    <3>2. DOMAIN links = 1 .. Len(links) /\ Len(links) \in Nat
      BY <2>1, ListFacts
    <3>3. \A i \in DOMAIN links' : i = Len(links) + 1 \/ i \in DOMAIN links
      BY <3>1, <3>2
    <3> QED
      BY <3>1, <3>3
  <2> QED
    BY <2>1, <2>3, <2>5 DEF LinksLead
<1>5. ASSUME NEW mode \in Modes, EvaluateGovernance(mode) PROVE LinksLead'
  <2>1. decision'.verdict \in {"PASS", "PASS_WITH_WARNINGS", "BLOCKED"} /\ UNCHANGED <<objects, links>>
    BY <1>5 DEF EvaluateGovernance, ExecutionDecision
  <2> QED
    BY <2>1 DEF LinksLead
<1>6. CASE UNCHANGED ontologyVars
  BY <1>1, <1>6 DEF ontologyVars
<1> QED
  BY <1>2, <1>3, <1>4, <1>5, <1>6 DEF OntologyNext

LEMMA NothingLeadsYet == OntologyInit => LinksLead
<1> SUFFICES ASSUME OntologyInit PROVE LinksLead
  OBVIOUS
<1>1. DOMAIN links = {}
  BY EmptyList DEF OntologyInit
<1> QED
  BY <1>1 DEF OntologyInit, LinksLead

LEMMA OntologyIsTyped == LedgerInv /\ LinksLead => OntologyTypeOK
BY DEF LedgerInv, StoreTyped, FoundInStore, LinksLead, OntologyTypeOK, UpsertSteps, LinkSteps

\* The store keeps its types: ids are places, what a look-up found and, when the ends asked for
\* are objects, what a link leads between is there.
THEOREM OntologyTypeCorrect == EndsAreThere => (OntologySpec => []OntologyTypeOK)
<1>1. SUFFICES ASSUME EndsAreThere PROVE OntologySpec => []OntologyTypeOK
  OBVIOUS
<1>2. OntologyInit => LinksLead
  BY NothingLeadsYet
<1>3. LedgerInv /\ LinksLead /\ [OntologyNext]_ontologyVars => LinksLead'
  BY <1>1, LinksLeadOn
<1>4. LedgerInv /\ LinksLead => OntologyTypeOK
  BY OntologyIsTyped
<1> QED
  BY <1>2, <1>3, <1>4, LedgerIsKept, PTL DEF OntologySpec

-----------------------------------------------------------------------------
\* Whether a link is accepted, as a condition on the others of its type. The definitions
\* of a link type agree, so it does not matter which of them the check looks at.
OneOut == {"one_to_one", "many_to_one"}
OneIn == {"one_to_one", "one_to_many"}

Fits(l, all, others) ==
    /\ ShapeViolation(l.linkType, l.fromType, l.toType) \in Accepted
    /\ \A d \in DefsOf(l.linkType), i \in others : all[i].linkType = l.linkType =>
         /\ d.cardinality \in OneOut => all[i].from # l.from
         /\ d.cardinality \in OneIn => all[i].to # l.to

LEMMA SomeOrNone ==
    ASSUME NEW S, IsFiniteSet(S)
    PROVE  Cardinality(S) > 0 <=> S # {}
BY FS_EmptySet, FS_CardinalityType

LEMMA ShapeIsOneOf ==
    ASSUME NEW linkType, NEW source, NEW target
    PROVE  /\ ShapeViolation(linkType, source, target) # "cardinality"
           /\ ShapeViolation(linkType, source, target) = "unknown_relationship_type" => DefsOf(linkType) = {}
           /\ ShapeViolation(linkType, source, target) = "none" =>
                \E d \in DefsOf(linkType) : d.sourceType = source /\ d.targetType = target
<1> DEFINE defs == DefsOf(linkType)
<1> HIDE DEF defs
<1>1. ShapeViolation(linkType, source, target) =
        IF defs = {} THEN "unknown_relationship_type"
        ELSE IF \E d \in defs : d.sourceType = source /\ d.targetType = target THEN "none"
        ELSE IF \E d \in defs : d.sourceType = target /\ d.targetType = source THEN "invalid_direction"
        ELSE IF (\E d \in defs : d.sourceType = source) /\ ~(\E d \in defs : d.targetType = target) THEN "invalid_target"
        ELSE IF ~(\E d \in defs : d.sourceType = source) /\ (\E d \in defs : d.targetType = target)
        THEN "invalid_source" ELSE "illegal_source_target"
  BY DEF ShapeViolation, defs
<1> QED
  BY <1>1 DEF defs

LEMMA ViolationIsExact ==
    ASSUME NEW l, NEW all, NEW others, IsFiniteSet(others)
    PROVE  RelationshipViolation(l, all, others) \in Accepted <=> Fits(l, all, others)
<1> DEFINE same == {i \in others : all[i].linkType = l.linkType}
           out == {i \in same : all[i].from = l.from}
           in == {i \in same : all[i].to = l.to}
           shape == ShapeViolation(l.linkType, l.fromType, l.toType)
           fitting(d) == d.sourceType = l.fromType /\ d.targetType = l.toType
           def == CHOOSE d \in DefsOf(l.linkType) : fitting(d)
<1>1. RelationshipViolation(l, all, others) =
        IF shape # "none" THEN shape
        ELSE IF ExceedsCardinality(def, Cardinality(out), Cardinality(in)) THEN "cardinality" ELSE "none"
  BY DEF RelationshipViolation
<1>2. IsFiniteSet(out) /\ IsFiniteSet(in)
  BY FS_Subset
<1>3. (Cardinality(out) > 0 <=> out # {}) /\ (Cardinality(in) > 0 <=> in # {})
  BY <1>2, SomeOrNone
<1>4. ExceedsCardinality(def, Cardinality(out), Cardinality(in)) <=>
        \/ def.cardinality \in OneOut /\ out # {}
        \/ def.cardinality \in OneIn /\ in # {}
  BY <1>3 DEF ExceedsCardinality, OneOut, OneIn
<1>5. CASE shape = "none"
  <2>1. def \in DefsOf(l.linkType)
    BY <1>5, ShapeIsOneOf
  <2>2. \A d \in DefsOf(l.linkType) : d.cardinality = def.cardinality
    BY <2>1, RegistryAssumption DEF DefsOf
  <2>3. RelationshipViolation(l, all, others) \in Accepted <=>
          ~ExceedsCardinality(def, Cardinality(out), Cardinality(in))
    BY <1>1, <1>5 DEF Accepted
  <2> HIDE DEF def
  <2>4. Fits(l, all, others) <=>
          \A i \in others : all[i].linkType = l.linkType =>
             /\ def.cardinality \in OneOut => all[i].from # l.from
             /\ def.cardinality \in OneIn => all[i].to # l.to
    BY <1>5, <2>1, <2>2 DEF Fits, Accepted
  <2>5. (out = {} <=> \A i \in others : all[i].linkType = l.linkType => all[i].from # l.from)
        /\ (in = {} <=> \A i \in others : all[i].linkType = l.linkType => all[i].to # l.to)
    OBVIOUS
  <2> HIDE DEF out, in, shape
  <2> QED
    BY <1>4, <2>3, <2>4, <2>5
<1>6. CASE shape # "none"
  <2>1. RelationshipViolation(l, all, others) = shape
    BY <1>1, <1>6
  <2>2. shape \in Accepted => DefsOf(l.linkType) = {}
    BY <1>6, ShapeIsOneOf DEF Accepted
  <2> QED
    BY <2>1, <2>2 DEF Fits
<1> QED
  BY <1>5, <1>6

\* The links after one more that fits.
LEMMA OneLinkMore ==
    ASSUME NEW ls, Listed(ls), NEW l, Fits(l, ls, DOMAIN ls),
           \A i \in DOMAIN ls : Fits(ls[i], ls, DOMAIN ls \ {i})
    PROVE  LET t == Append(ls, l) IN \A i \in DOMAIN t : Fits(t[i], t, DOMAIN t \ {i})
<1>1. PICK t : t = Append(ls, l)
  OBVIOUS
<1>2. PICK n \in Nat : n = Len(ls) /\ DOMAIN ls = 1 .. n
  BY ListFacts
<1>3. DOMAIN t = 1 .. n + 1 /\ t[n + 1] = l /\ \A i \in 1 .. n : t[i] = ls[i]
  BY <1>1, <1>2, AppendList
<1>4. /\ \A i \in DOMAIN t : i \in DOMAIN ls \/ i = n + 1
      /\ DOMAIN ls \subseteq DOMAIN t /\ n + 1 \in DOMAIN t /\ n + 1 \notin DOMAIN ls
  BY <1>2, <1>3
<1>5. t[n + 1] = l /\ \A i \in DOMAIN ls : t[i] = ls[i]
  BY <1>2, <1>3
<1>6. ASSUME NEW i \in DOMAIN ls PROVE Fits(t[i], t, DOMAIN t \ {i})
  <2>1. Fits(ls[i], ls, DOMAIN ls \ {i}) /\ t[i] = ls[i]
    BY <1>5
  <2>2. ASSUME NEW d \in DefsOf(ls[i].linkType), NEW k \in DOMAIN t \ {i}, t[k].linkType = ls[i].linkType
        PROVE  /\ d.cardinality \in OneOut => t[k].from # ls[i].from
               /\ d.cardinality \in OneIn => t[k].to # ls[i].to
    <3>1. CASE k \in DOMAIN ls
      BY <1>5, <2>1, <2>2, <3>1 DEF Fits
    <3>2. CASE k = n + 1
      <4>1. t[k] = l /\ d \in DefsOf(l.linkType)
        BY <1>5, <2>2, <3>2
      <4> QED
        BY <2>2, <4>1 DEF Fits
    <3> QED
      BY <1>4, <3>1, <3>2
  <2> QED
    BY <2>1, <2>2 DEF Fits
<1>7. Fits(t[n + 1], t, DOMAIN t \ {n + 1})
  <2>1. \A k \in DOMAIN t \ {n + 1} : k \in DOMAIN ls /\ t[k] = ls[k]
    BY <1>4, <1>5
  <2> QED
    BY <1>5, <2>1 DEF Fits
<1> QED
  BY <1>1, <1>4, <1>6, <1>7

LEMMA LinksFit ==
    ASSUME Listed(links)
    PROVE  /\ LinksAreAccepted <=> \A i \in DOMAIN links : Fits(links[i], links, DOMAIN links \ {i})
           /\ \A l : RelationshipViolation(l, links, DOMAIN links) \in Accepted <=> Fits(l, links, DOMAIN links)
<1>1. IsFiniteSet(DOMAIN links)
  BY ListFacts, FS_Interval
<1>2. \A i : IsFiniteSet(DOMAIN links \ {i})
  BY <1>1, FS_Subset
<1> QED
  BY <1>1, <1>2, ViolationIsExact DEF LinksAreAccepted

\* While links are made one at a time, no other link is being made when a request steps.
LEMMA NoOtherLink ==
    ASSUME LedgerInv, NEW c \in OntologyCalls, NEW s \in UpsertSteps \cup LinkSteps, GoTo(c, s), LinksRanAlone',
           NEW d \in OntologyCalls, d # c
    PROVE  callAt'[d] \notin {"checking", "checked", "unchecked"}
<1>1. callAt'[d] = callAt[d] /\ asked' = asked /\ (Underway(d) => {c, d} \subseteq overlapped')
  BY GoToFacts DEF LedgerInv
<1>2. SUFFICES ASSUME callAt[d] \in {"checking", "checked", "unchecked"} PROVE FALSE
  BY <1>1
<1>3. Underway(d) /\ asked[d].op = "link"
  BY <1>2 DEF Underway, LedgerInv, StepsFit
<1> QED
  BY <1>1, <1>3 DEF LinksRanAlone

\* What a step of a request leaves as it was.
LEMMA StepKeepsEnforced ==
    ASSUME LedgerInv, EnforcedInv, ontologyMode = "enforce",
           NEW c \in OntologyCalls, NEW s \in UpsertSteps \cup LinkSteps, GoTo(c, s), callAt[c] # "unverified"
    PROVE  /\ "object" \notin decision'.blocking
           /\ LinksRanAlone' => LinkLookupsStand /\ LinksAreOnce
           /\ EveryLinkVerified' => EveryLinkVerified
           /\ LinksRanAlone' /\ EveryLinkVerified' =>
                LinksAreAccepted /\ (decision'.verdict = "BLOCKED" => decision'.blocking = {"graph"})
<1>1. /\ callAt'[c] = s /\ \A d \in OntologyCalls : d # c => callAt'[d] = callAt[d]
      /\ decision' = decision /\ (LinksRanAlone' => LinksRanAlone)
  BY GoToFacts DEF LedgerInv
<1>2. EveryLinkVerified' => EveryLinkVerified
  BY <1>1 DEF EveryLinkVerified
<1> QED
  BY <1>1, <1>2 DEF EnforcedInv

\* A step of a request that inserts no link.
LEMMA LinksStay ==
    ASSUME LedgerInv, EnforcedInv, ontologyMode = "enforce",
           NEW c \in OntologyCalls, NEW s \in UpsertSteps \cup LinkSteps, GoTo(c, s), callAt[c] # "unverified",
           links' = links,
           \A i \in DOMAIN objects' : SchemaViolations(objects'[i]) = {},
           s \in {"checking", "checked", "unchecked"} /\ LinksRanAlone' =>
             /\ \A i \in DOMAIN links : ~SameEdge(links[i], asked[c])
             /\ s = "checked" => RelationshipViolation(LinkOf(asked[c])', links, DOMAIN links) \in Accepted
    PROVE  EnforcedInv'
<1>1. callAt'[c] = s /\ ontologyMode' = ontologyMode /\ asked' = asked
  BY GoToFacts DEF LedgerInv
<1>2. ASSUME LinksRanAlone' PROVE LinkLookupsStand'
  <2> SUFFICES ASSUME NEW d \in OntologyCalls, callAt'[d] \in {"checking", "checked", "unchecked"}
               PROVE  /\ \A i \in DOMAIN links' : ~SameEdge(links'[i], asked'[d])
                      /\ callAt'[d] = "checked" =>
                           RelationshipViolation(LinkOf(asked[d])', links', DOMAIN links') \in Accepted
    BY DEF LinkLookupsStand, SameEdge
  <2>1. d = c
    BY <1>2, NoOtherLink
  <2> QED
    BY <1>1, <1>2, <2>1
<1>3. LinksRanAlone' => LinksAreOnce'
  BY StepKeepsEnforced DEF LinksAreOnce, SameEdge
<1>4. LinksRanAlone' /\ EveryLinkVerified' => LinksAreAccepted'
  BY StepKeepsEnforced DEF LinksAreAccepted
<1> QED
  BY <1>2, <1>3, <1>4, StepKeepsEnforced DEF EnforcedInv

LEMMA UpsertEnforced ==
    ASSUME LedgerInv, EnforcedInv, ontologyMode = "enforce",
           NEW c \in OntologyCalls, FindObject(c) \/ WriteObject(c)
    PROVE  EnforcedInv'
<1>1. CASE FindObject(c)
  <2>1. GoTo(c, "found") /\ callAt[c] = "start" /\ objects' = objects /\ links' = links
    BY <1>1 DEF FindObject
  <2>2. \A i \in DOMAIN objects' : SchemaViolations(objects'[i]) = {}
    BY <2>1 DEF EnforcedInv
  <2> QED
    BY <2>1, <2>2, LinksStay DEF UpsertSteps
<1>2. CASE WriteObject(c)
  <2>1. callAt[c] = "found" /\ links' = links
    BY <1>2 DEF WriteObject
  <2>2. PICK s \in {"rejected", "done"} :
          /\ GoTo(c, s)
          /\ s = "rejected" => objects' = objects
          /\ s = "done" => /\ ~Rejects(SchemaViolations(Written(c)))
                           /\ objects' = IF found[c] = {} THEN Append(objects, Written(c))
                                         ELSE [objects EXCEPT ![Written(c).id] = Written(c)]
    BY <1>2 DEF WriteObject, Written
  <2>3. \A i \in DOMAIN objects' : SchemaViolations(objects'[i]) = {}
    <3>1. CASE s = "rejected"
      BY <2>2, <3>1 DEF EnforcedInv
    <3>2. CASE s = "done"
      <4>1. SchemaViolations(Written(c)) = {}
        BY <2>2, <3>2 DEF Rejects
      <4>2. /\ objects'[Written(c).id] = Written(c)
            /\ \A i \in DOMAIN objects' : i # Written(c).id => i \in DOMAIN objects /\ objects'[i] = objects[i]
        BY <2>1, <2>2, <3>2, RowsAfterWrite
      <4> QED
        BY <4>1, <4>2 DEF EnforcedInv
    <3> QED
      BY <3>1, <3>2
  <2> QED
    BY <2>1, <2>2, <2>3, LinksStay DEF UpsertSteps
<1> QED
  BY <1>1, <1>2

LEMMA LookForLinkEnforced ==
    ASSUME LedgerInv, EnforcedInv, ontologyMode = "enforce",
           NEW c \in OntologyCalls, FindLink(c) \/ CheckLink(c)
    PROVE  EnforcedInv'
<1>1. objects' = objects /\ links' = links /\ callAt[c] \in {"start", "checking"}
  BY DEF FindLink, CheckLink
<1>2. \A i \in DOMAIN objects' : SchemaViolations(objects'[i]) = {}
  BY <1>1 DEF EnforcedInv
<1>3. CASE FindLink(c)
  <2>1. PICK s \in {"done", "checking"} :
          GoTo(c, s) /\ (s = "checking" => \A i \in DOMAIN links : ~SameEdge(links[i], asked[c]))
    BY <1>3 DEF FindLink
  <2> QED
    BY <1>1, <1>2, <2>1, LinksStay DEF LinkSteps
<1>4. CASE CheckLink(c)
  <2>1. PICK s \in {"rejected", "checked", "unchecked"} :
          /\ GoTo(c, s)
          /\ s = "checked" => RelationshipViolation(LinkOf(asked[c]), links, DOMAIN links) \in Accepted
    BY <1>4 DEF CheckLink, Accepted
  <2>2. callAt[c] = "checking" /\ asked' = asked
    BY <1>4 DEF CheckLink, GoTo
  <2>3. LinkOf(asked[c])' = LinkOf(asked[c])
    BY <1>1, <2>2 DEF LinkOf
  <2>4. LinksRanAlone' => \A i \in DOMAIN links : ~SameEdge(links[i], asked[c])
    BY <2>1, <2>2, StepKeepsEnforced DEF LinkSteps, LinkLookupsStand
  <2> QED
    BY <1>1, <1>2, <2>1, <2>2, <2>3, <2>4, LinksStay DEF LinkSteps
<1> QED
  BY <1>3, <1>4

LEMMA InsertLinkEnforced ==
    ASSUME LedgerInv, EnforcedInv, ontologyMode = "enforce",
           NEW c \in OntologyCalls, InsertLink(c)
    PROVE  EnforcedInv'
<1>1. PICK s \in {"done", "unverified"} : GoTo(c, s) /\ (s = "done" => callAt[c] = "checked")
  BY DEF InsertLink
<1>2. PICK l : l = LinkOf(asked[c])
  OBVIOUS
<1>3. /\ callAt[c] \in {"checked", "unchecked"} /\ objects' = objects /\ links' = Append(links, l)
  BY <1>2 DEF InsertLink
<1>4. /\ callAt'[c] = s /\ ontologyMode' = ontologyMode
  BY <1>1, GoToFacts DEF LedgerInv, UpsertSteps, LinkSteps
<1>5. l.linkType = asked[c].linkType /\ l.from = asked[c].from /\ l.to = asked[c].to
  BY <1>2 DEF LinkOf
<1>6. Listed(links)
  BY DEF LedgerInv, StoreTyped
<1>7. /\ "object" \notin decision'.blocking
      /\ LinksRanAlone' => LinkLookupsStand /\ LinksAreOnce
      /\ EveryLinkVerified' => EveryLinkVerified
      /\ LinksRanAlone' /\ EveryLinkVerified' =>
           LinksAreAccepted /\ (decision'.verdict = "BLOCKED" => decision'.blocking = {"graph"})
  BY <1>1, <1>3, StepKeepsEnforced DEF UpsertSteps, LinkSteps
<1>8. ASSUME LinksRanAlone' PROVE LinkLookupsStand'
  <2>1. \A d \in OntologyCalls : callAt'[d] \notin {"checking", "checked", "unchecked"}
    BY <1>1, <1>4, <1>8, NoOtherLink DEF UpsertSteps, LinkSteps
  <2> QED
    BY <2>1 DEF LinkLookupsStand
<1>9. PICK t : t = Append(links, l)
  OBVIOUS
<1>10. links' = t
  BY <1>3, <1>9
<1>11. /\ t[Len(links) + 1] = l /\ \A i \in DOMAIN links : t[i] = links[i]
       /\ \A i \in DOMAIN t : i \in DOMAIN links \/ i = Len(links) + 1
  BY <1>6, <1>9, AppendList, ListFacts
<1>12. ASSUME LinksRanAlone' PROVE LinksAreOnce'
  <2>1. \A i \in DOMAIN links : ~SameEdge(links[i], l) /\ ~SameEdge(l, links[i])
    BY <1>3, <1>5, <1>7, <1>12 DEF LinkLookupsStand, SameEdge
  <2>2. \A i, j \in DOMAIN t : SameEdge(t[i], t[j]) => i = j
    BY <1>7, <1>11, <1>12, <2>1 DEF LinksAreOnce
  <2> QED
    BY <1>10, <2>2 DEF LinksAreOnce, SameEdge
<1>13. ASSUME LinksRanAlone', EveryLinkVerified' PROVE LinksAreAccepted'
  <2>1. callAt[c] = "checked"
    BY <1>1, <1>4, <1>13 DEF EveryLinkVerified
  <2>2. Fits(l, links, DOMAIN links)
    BY <1>2, <1>6, <1>7, <1>13, <2>1, LinksFit DEF LinkLookupsStand
  <2>3. \A i \in DOMAIN links : Fits(links[i], links, DOMAIN links \ {i})
    BY <1>6, <1>7, <1>13, LinksFit
  <2>4. \A i \in DOMAIN t : Fits(t[i], t, DOMAIN t \ {i})
    BY <1>6, <1>9, <2>2, <2>3, OneLinkMore
  <2>5. IsFiniteSet(DOMAIN t)
    <3>1. Len(links) + 1 \in Nat /\ DOMAIN t = 1 .. Len(links) + 1
      BY <1>6, <1>9, AppendList, ListFacts
    <3> QED
      BY <3>1, FS_Interval
  <2>6. \A i : IsFiniteSet(DOMAIN t \ {i})
    BY <2>5, FS_Subset
  <2>7. \A i \in DOMAIN t : RelationshipViolation(t[i], t, DOMAIN t \ {i}) \in Accepted
    BY <2>4, <2>6, ViolationIsExact
  <2> QED
    BY <1>10, <2>7 DEF LinksAreAccepted
<1>14. \A i \in DOMAIN objects' : SchemaViolations(objects'[i]) = {}
  BY <1>3 DEF EnforcedInv
<1> QED
  BY <1>7, <1>8, <1>12, <1>13, <1>14 DEF EnforcedInv

\* What governance finds of a store whose objects conform and whose links are accepted.
LEMMA WhatGovernanceFinds ==
    ASSUME \A i \in DOMAIN objects : SchemaViolations(objects[i]) = {}
    PROVE  /\ ObjectFindings(Graph) = {}
           /\ \A f \in GovernanceFindings(Graph) : f.stage # "object"
           /\ LinksAreAccepted => Errors(LinkFindings(Graph)) = {}
           /\ LinksAreAccepted => \A f \in Errors(GovernanceFindings(Graph)) : f.stage = "graph"
<1>1. Graph.objects = objects /\ Graph.links = links
  BY DEF Graph
<1>2. ObjectFindings(Graph) = {}
  BY <1>1 DEF ObjectFindings
<1>3. \A f \in LinkFindings(Graph) : f.stage = "relationship"
  BY DEF LinkFindings, Finding
<1>4. PICK G : G = {Finding("graph", f.code, f.severity) : f \in GraphFindings(Graph)}
  OBVIOUS
<1>5. \A f \in G : f.stage = "graph"
  BY <1>4 DEF Finding
<1>6. GovernanceFindings(Graph) = LinkFindings(Graph) \cup G
  BY <1>2, <1>4 DEF GovernanceFindings
<1>7. ASSUME LinksAreAccepted PROVE Errors(LinkFindings(Graph)) = {}
  <2>1. ASSUME NEW f \in LinkFindings(Graph) PROVE f.severity = "warning"
    <3>1. PICK i \in DOMAIN links :
            LET v == RelationshipViolation(links[i], links, DOMAIN links \ {i})
            IN  v # "none" /\ f = Finding("relationship", v, IF v = "unknown_relationship_type" THEN "warning" ELSE "error")
      BY <1>1 DEF LinkFindings
    <3>2. PICK v : v = RelationshipViolation(links[i], links, DOMAIN links \ {i})
      OBVIOUS
    <3>3. v = "unknown_relationship_type"
      BY <1>7, <3>1, <3>2 DEF LinksAreAccepted, Accepted
    <3>4. f = Finding("relationship", v, "warning")
      BY <3>1, <3>2, <3>3
    <3> QED
      BY <3>4 DEF Finding
  <2> QED
    BY <2>1 DEF Errors
<1>8. \A f \in Errors(GovernanceFindings(Graph)) : f \in Errors(LinkFindings(Graph)) \/ f \in G
  BY <1>6 DEF Errors
<1> QED
  BY <1>2, <1>3, <1>5, <1>6, <1>7, <1>8

LEMMA EvaluateEnforced ==
    ASSUME EnforcedInv, ontologyMode = "enforce", NEW mode \in Modes, EvaluateGovernance(mode)
    PROVE  EnforcedInv'
<1>1. PICK findings : findings = GovernanceFindings(Graph)
  OBVIOUS
<1>2. PICK verdict : verdict = ExecutionDecision(findings, mode)
  OBVIOUS
<1>3. PICK blocking : blocking = {f.stage : f \in Errors(findings)}
  OBVIOUS
<1>4. decision' = [verdict |-> verdict, blocking |-> blocking]
      /\ UNCHANGED <<ontologyMode, objects, links, asked, callAt, found, overlapped>>
  BY <1>1, <1>2, <1>3 DEF EvaluateGovernance
<1>5. decision'.verdict = verdict /\ decision'.blocking = blocking
  BY <1>4
<1>6. \A i \in DOMAIN objects : SchemaViolations(objects[i]) = {}
  BY DEF EnforcedInv
<1>7. "object" \notin blocking
  BY <1>1, <1>3, <1>6, WhatGovernanceFinds DEF Errors
<1>8. ASSUME LinksAreAccepted, verdict = "BLOCKED" PROVE blocking = {"graph"}
  <2>1. Errors(findings) # {}
    BY <1>2, <1>8 DEF ExecutionDecision
  <2>2. \A f \in Errors(findings) : f.stage = "graph"
    BY <1>1, <1>6, <1>8, WhatGovernanceFinds
  <2> QED
    BY <1>3, <2>1, <2>2
<1>9. /\ LinksRanAlone' <=> LinksRanAlone
      /\ EveryLinkVerified' <=> EveryLinkVerified
      /\ LinksAreAccepted' <=> LinksAreAccepted
      /\ LinksAreOnce' <=> LinksAreOnce
  BY <1>4 DEF LinksRanAlone, EveryLinkVerified, LinksAreAccepted, LinksAreOnce, SameEdge
<1>10. LinkLookupsStand' <=> LinkLookupsStand
  BY <1>4 DEF LinkLookupsStand, SameEdge, LinkOf
<1>11. \A i \in DOMAIN objects' : SchemaViolations(objects'[i]) = {}
  BY <1>4, <1>6
<1> QED
  BY <1>5, <1>7, <1>8, <1>9, <1>10, <1>11 DEF EnforcedInv

LEMMA OntologyNextEnforced == LedgerInv /\ EnforcedInv /\ [OntologyNext]_ontologyVars => EnforcedInv'
<1> SUFFICES ASSUME LedgerInv, EnforcedInv, [OntologyNext]_ontologyVars PROVE EnforcedInv'
  OBVIOUS
<1>1. ontologyMode' = ontologyMode
  BY DEF OntologyNext, ontologyVars, FindObject, WriteObject, FindLink, CheckLink, InsertLink, GoTo, EvaluateGovernance
<1>2. CASE ontologyMode # "enforce"
  BY <1>1, <1>2 DEF EnforcedInv
<1>3. CASE ontologyMode = "enforce"
  <2>1. CASE UNCHANGED ontologyVars
    <3>1. UNCHANGED <<ontologyMode, objects, links, asked, callAt, found, overlapped, decision>>
      BY <2>1 DEF ontologyVars
    <3> QED
      BY <3>1 DEF EnforcedInv, LinksRanAlone, EveryLinkVerified, LinksAreAccepted, LinksAreOnce,
                  LinkLookupsStand, SameEdge, LinkOf
  <2> QED
    BY <1>3, <2>1, UpsertEnforced, LookForLinkEnforced, InsertLinkEnforced, EvaluateEnforced DEF OntologyNext
<1> QED
  BY <1>2, <1>3

LEMMA OntologyInitEnforced == SeedsConform /\ OntologyInit => EnforcedInv
<1> SUFFICES ASSUME SeedsConform, OntologyInit PROVE EnforcedInv
  OBVIOUS
<1>1. \A i \in DOMAIN objects : SchemaViolations(objects[i]) = {}
  BY DEF SeedsConform, OntologyInit
<1>2. DOMAIN links = {} /\ \A c \in OntologyCalls : callAt[c] = "start"
  BY EmptyList DEF OntologyInit
<1>3. decision.blocking = {} /\ decision.verdict = "none"
  BY DEF OntologyInit
<1> QED
  BY <1>1, <1>2, <1>3 DEF EnforcedInv, LinkLookupsStand, LinksAreOnce, LinksAreAccepted

\* With enforcement on, and objects that conformed to begin with, what the write path let
\* through is what governance accepts: no object is in error, and unless requests for
\* links overlapped, no link is stored twice nor, but for checks that failed open, in
\* error (checkCanonicalSchema and checkRelationship, object-service.ts:142, against
\* evaluateGovernance's stages): for any requests, schemas and registry.
THEOREM EnforcementHolds == SeedsConform => (OntologySpec => []EnforcedStorePassesGovernance)
<1> SUFFICES ASSUME SeedsConform PROVE OntologySpec => []EnforcedStorePassesGovernance
  OBVIOUS
<1>1. OntologyInit => LedgerInv /\ EnforcedInv
  BY OntologyInitInv, OntologyInitEnforced
<1>2. LedgerInv /\ EnforcedInv /\ [OntologyNext]_ontologyVars => LedgerInv' /\ EnforcedInv'
  BY OntologyNextLedger, OntologyNextEnforced
<1>3. EnforcedInv => EnforcedStorePassesGovernance
  <2> SUFFICES ASSUME EnforcedInv, ontologyMode = "enforce" PROVE EnforcedStorePassesGovernance
    BY DEF EnforcedStorePassesGovernance
  <2>1. \A i \in DOMAIN objects : SchemaViolations(objects[i]) = {}
    BY DEF EnforcedInv
  <2>2. ObjectFindings(Graph) = {} /\ "object" \notin decision.blocking
    BY <2>1, WhatGovernanceFinds DEF EnforcedInv
  <2>3. LinksRanAlone => DuplicateEdges(Graph) = {}
    <3>1. Graph.links = links
      BY DEF Graph
    <3>2. ASSUME LinksAreOnce, NEW i \in DOMAIN links, NEW j \in DOMAIN links \ {i},
                 \A f \in {"linkType", "from", "to"} : links[i][f] = links[j][f]
          PROVE  FALSE
      <4>1. links[i].linkType = links[j].linkType /\ links[i].from = links[j].from /\ links[i].to = links[j].to
        BY <3>2
      <4> QED
        BY <3>2, <4>1 DEF LinksAreOnce, SameEdge
    <3>3. LinksAreOnce => {i \in DOMAIN links : \E j \in DOMAIN links \ {i} :
                             \A f \in {"linkType", "from", "to"} : links[i][f] = links[j][f]} = {}
      BY <3>2
    <3>4. LinksAreOnce => {i \in DOMAIN Graph.links : \E j \in DOMAIN Graph.links \ {i} :
                             \A f \in {"linkType", "from", "to"} : Graph.links[i][f] = Graph.links[j][f]} = {}
      BY <3>1, <3>3
    <3>5. LinksAreOnce => DuplicateEdges(Graph) = {}
      BY <3>4, Zenon DEF DuplicateEdges
    <3> QED
      BY <3>5 DEF EnforcedInv
  <2>4. LinksRanAlone /\ EveryLinkVerified =>
          Errors(LinkFindings(Graph)) = {} /\ (decision.verdict = "BLOCKED" => decision.blocking = {"graph"})
    BY <2>1, WhatGovernanceFinds DEF EnforcedInv
  <2> QED
    BY <2>2, <2>3, <2>4 DEF EnforcedStorePassesGovernance, LinksRanAlone, EveryLinkVerified
<1> QED
  BY <1>1, <1>2, <1>3, PTL DEF OntologySpec

-----------------------------------------------------------------------------
\* Domain packs.

ManifestParts(m) == {m.seeds, m.samples, m.definitions, m.rules, m.suites}

\* What an installation of m does, one store operation at a time.
WorkItems(m) ==
    [op : {"object", "tag"}, name : SamplesOf(m)] \cup [op : {"define"}, name : Definitions(m)]
    \cup [op : {"case"}, name : ToSet(m.suites)]

LEMMA ManifestFacts ==
    ASSUME NEW m \in Manifests
    PROVE  /\ m.pack \in Packs /\ m.pack # NoPack /\ m.version \in AllVersions
           /\ SamplesOf(m) \subseteq ObjectKeys /\ Definitions(m) \subseteq DefinitionKeys
           /\ ToSet(m.suites) \subseteq Suites
           /\ \A part \in ManifestParts(m) : part \in Seq(ToSet(part))
  BY PackAssumption DEF Packs, AllVersions, ObjectKeys, DefinitionKeys, Suites, ManifestParts

LEMMA EachElements ==
    ASSUME NEW op, NEW s, s \in Seq(ToSet(s)), NEW T, \A x \in ToSet(s) : [op |-> op, name |-> x] \in T
    PROVE  Each(op, s) \in Seq(T) /\ ToSet(Each(op, s)) = {[op |-> op, name |-> x] : x \in ToSet(s)}
<1>1. PICK n \in Nat : n = Len(s) /\ DOMAIN s = 1 .. n
  BY LenProperties
<1>2. PICK e : e = [i \in 1 .. n |-> [op |-> op, name |-> s[i]]]
  OBVIOUS
<1>3. e = Each(op, s)
  BY <1>1, <1>2 DEF Each
<1>4. \A i \in 1 .. n : s[i] \in ToSet(s)
  BY <1>1 DEF ToSet
<1>5. e \in [1 .. n -> T]
  BY <1>2, <1>4
<1>6. e \in Seq(T)
  BY <1>5
<1>7. DOMAIN e = 1 .. n /\ \A i \in 1 .. n : e[i] = [op |-> op, name |-> s[i]]
  BY <1>2
<1>8. ToSet(e) = {[op |-> op, name |-> x] : x \in ToSet(s)}
  BY <1>1, <1>7 DEF ToSet
<1> QED
  BY <1>3, <1>6, <1>8

LEMMA SamplesAndDefinitions ==
    ASSUME NEW m \in Manifests
    PROVE  /\ m.seeds \o m.samples \in Seq(SamplesOf(m))
           /\ SamplesOf(m) = ToSet(m.seeds) \cup ToSet(m.samples)
           /\ Definitions(m) = ToSet(m.definitions) \cup ToSet(m.rules) \cup ToSet(m.suites)
<1>1. \A part \in ManifestParts(m) : part \in Seq(ToSet(part))
  BY ManifestFacts
<1>2. /\ m.seeds \in Seq(ToSet(m.seeds)) /\ m.samples \in Seq(ToSet(m.samples))
      /\ m.definitions \in Seq(ToSet(m.definitions)) /\ m.rules \in Seq(ToSet(m.rules))
      /\ m.suites \in Seq(ToSet(m.suites))
  BY <1>1 DEF ManifestParts
<1>3. /\ m.seeds \o m.samples \in Seq(ToSet(m.seeds) \cup ToSet(m.samples))
      /\ ToSet(m.seeds \o m.samples) = ToSet(m.seeds) \cup ToSet(m.samples)
  BY <1>2, ConcatParts
<1>4. PICK most : most = m.definitions \o m.rules
  OBVIOUS
<1>5. most \in Seq(ToSet(m.definitions) \cup ToSet(m.rules)) /\ ToSet(most) = ToSet(m.definitions) \cup ToSet(m.rules)
  BY <1>2, <1>4, ConcatParts
<1>6. most \in Seq(ToSet(most))
  BY <1>5
<1>7. ToSet(most \o m.suites) = ToSet(most) \cup ToSet(m.suites)
  BY <1>2, <1>6, ConcatParts
<1> QED
  BY <1>3, <1>4, <1>5, <1>7 DEF SamplesOf, Definitions

\* An installation tags every sample, defines every definition and adds a case to every suite.
LEMMA InstallationCovers ==
    ASSUME NEW m \in Manifests
    PROVE  /\ Installation(m) \in Seq(WorkItems(m))
           /\ \A k \in SamplesOf(m) : [op |-> "tag", name |-> k] \in ToSet(Installation(m))
           /\ \A d \in Definitions(m) : [op |-> "define", name |-> d] \in ToSet(Installation(m))
           /\ \A s \in ToSet(m.suites) : [op |-> "case", name |-> s] \in ToSet(Installation(m))
<1>1. \A part \in ManifestParts(m) : part \in Seq(ToSet(part))
  BY ManifestFacts
<1>2. /\ m.seeds \in Seq(ToSet(m.seeds)) /\ m.definitions \in Seq(ToSet(m.definitions))
      /\ m.rules \in Seq(ToSet(m.rules)) /\ m.suites \in Seq(ToSet(m.suites))
  BY <1>1 DEF ManifestParts
<1>3. PICK all : all = m.seeds \o m.samples /\ all \in Seq(SamplesOf(m)) /\ ToSet(all) = SamplesOf(m)
  BY SamplesAndDefinitions DEF SamplesOf
<1>4. PICK T : T = WorkItems(m)
  OBVIOUS
<1>5. /\ \A k \in SamplesOf(m) : [op |-> "object", name |-> k] \in T /\ [op |-> "tag", name |-> k] \in T
      /\ \A d \in Definitions(m) : [op |-> "define", name |-> d] \in T
      /\ \A s \in ToSet(m.suites) : [op |-> "case", name |-> s] \in T
  BY <1>4 DEF WorkItems
<1>6. PICK seeded : seeded = Each("object", m.seeds) /\ seeded \in Seq(T)
  BY <1>2, <1>5, EachElements, SamplesAndDefinitions
<1>7. PICK first : first = Each("define", m.definitions) /\ first \in Seq(T)
                   /\ ToSet(first) = {[op |-> "define", name |-> x] : x \in ToSet(m.definitions)}
  BY <1>2, <1>5, EachElements, SamplesAndDefinitions
<1>8. PICK tagged : tagged = Each("tag", all) /\ tagged \in Seq(T)
                    /\ ToSet(tagged) = {[op |-> "tag", name |-> x] : x \in SamplesOf(m)}
  BY <1>3, <1>5, EachElements
<1>9. PICK second : second = Each("define", m.rules) /\ second \in Seq(T)
                    /\ ToSet(second) = {[op |-> "define", name |-> x] : x \in ToSet(m.rules)}
  BY <1>2, <1>5, EachElements, SamplesAndDefinitions
<1>10. PICK n \in Nat : n = Len(m.suites) /\ DOMAIN m.suites = 1 .. n
  BY <1>2, LenProperties
<1>11. PICK parts : parts = [i \in 1 .. n |-> Each("define", <<m.suites[i]>>) \o Each("case", <<m.suites[i]>>)]
  OBVIOUS
<1>12. ASSUME NEW i \in 1 .. n
       PROVE  /\ parts[i] \in Seq(T)
              /\ ToSet(parts[i]) = {[op |-> "define", name |-> m.suites[i]], [op |-> "case", name |-> m.suites[i]]}
  <2>1. PICK one : one = <<m.suites[i]>>
    OBVIOUS
  <2>2. ToSet(one) = {m.suites[i]} /\ one \in Seq(ToSet(one))
    BY <2>1 DEF ToSet
  <2>3. m.suites[i] \in ToSet(m.suites) /\ m.suites[i] \in Definitions(m)
    BY <1>10, SamplesAndDefinitions DEF ToSet
  <2>4. PICK a : a = Each("define", one) /\ a \in Seq(T) /\ ToSet(a) = {[op |-> "define", name |-> m.suites[i]]}
    <3>1. /\ Each("define", one) \in Seq(T)
          /\ ToSet(Each("define", one)) = {[op |-> "define", name |-> x] : x \in ToSet(one)}
      BY <1>5, <2>2, <2>3, EachElements
    <3> QED
      BY <2>2, <3>1
  <2>5. PICK b : b = Each("case", one) /\ b \in Seq(T) /\ ToSet(b) = {[op |-> "case", name |-> m.suites[i]]}
    <3>1. /\ Each("case", one) \in Seq(T)
          /\ ToSet(Each("case", one)) = {[op |-> "case", name |-> x] : x \in ToSet(one)}
      BY <1>5, <2>2, <2>3, EachElements
    <3> QED
      BY <2>2, <3>1
  <2>6. a \o b \in Seq(T) /\ ToSet(a \o b) = ToSet(a) \cup ToSet(b)
    BY <2>4, <2>5, ConcatElements
  <2>7. parts[i] = a \o b
    BY <1>11, <2>1, <2>4, <2>5
  <2> QED
    BY <2>4, <2>5, <2>6, <2>7
<1>13. parts \in Seq(Seq(T)) /\ DOMAIN parts = 1 .. n
  <2>1. parts \in [1 .. n -> Seq(T)]
    BY <1>11, <1>12
  <2> QED
    BY <2>1
<1>14. PICK last : last = FlattenSeq(parts) /\ last \in Seq(T) /\ ToSet(last) = UNION {ToSet(parts[i]) : i \in 1 .. n}
  BY <1>13, FlatElements
<1>15. PICK two : two = seeded \o first /\ two \in Seq(T) /\ ToSet(two) = ToSet(seeded) \cup ToSet(first)
  BY <1>6, <1>7, ConcatElements, ZenonT(60)
<1>16. PICK three : three = two \o tagged /\ three \in Seq(T) /\ ToSet(three) = ToSet(two) \cup ToSet(tagged)
  <2>1. two \in Seq(T) /\ tagged \in Seq(T)
    BY <1>8, <1>15
  <2> QED
    BY <2>1, ConcatElements, ZenonT(60)
<1>17. PICK four : four = three \o second /\ four \in Seq(T) /\ ToSet(four) = ToSet(three) \cup ToSet(second)
  <2>1. three \in Seq(T) /\ second \in Seq(T)
    BY <1>9, <1>16
  <2> QED
    BY <2>1, ConcatElements, ZenonT(60)
<1>18. PICK five : five = four \o last /\ five \in Seq(T) /\ ToSet(five) = ToSet(four) \cup ToSet(last)
  <2>1. four \in Seq(T) /\ last \in Seq(T)
    BY <1>14, <1>17
  <2> QED
    BY <2>1, ConcatElements, ZenonT(60)
<1>19. Installation(m) = five
  BY <1>3, <1>6, <1>7, <1>8, <1>9, <1>10, <1>11, <1>14, <1>15, <1>16, <1>17, <1>18, Zenon DEF Installation
<1>20. \A k \in SamplesOf(m) : [op |-> "tag", name |-> k] \in ToSet(five)
  BY <1>8, <1>16, <1>17, <1>18
<1>21. ASSUME NEW s \in ToSet(m.suites)
       PROVE  [op |-> "define", name |-> s] \in ToSet(five) /\ [op |-> "case", name |-> s] \in ToSet(five)
  <2>1. PICK i \in 1 .. n : s = m.suites[i]
    BY <1>10 DEF ToSet
  <2>2. [op |-> "define", name |-> s] \in ToSet(parts[i]) /\ [op |-> "case", name |-> s] \in ToSet(parts[i])
    BY <1>12, <2>1
  <2> QED
    BY <1>14, <1>18, <2>2
<1>22. \A d \in Definitions(m) : [op |-> "define", name |-> d] \in ToSet(five)
  <2>1. \A d \in ToSet(m.definitions) : [op |-> "define", name |-> d] \in ToSet(five)
    BY <1>7, <1>15, <1>16, <1>17, <1>18
  <2>2. \A d \in ToSet(m.rules) : [op |-> "define", name |-> d] \in ToSet(five)
    BY <1>9, <1>17, <1>18
  <2> QED
    BY <1>21, <2>1, <2>2, SamplesAndDefinitions
<1> QED
  BY <1>4, <1>18, <1>19, <1>20, <1>21, <1>22

\* Rows of the collections.
ObjectRows == [id : Nat, by : {"customer", "pack"}, pack : Packs \cup {NoPack}]
ListingRows == [key : ObjectKeys, row : ObjectRows]
InstallationRows == [pack : Packs, version : AllVersions, status : {"installed", "uninstalled"}]

PackStoreTyped ==
    /\ made \in Nat /\ crowded \in BOOLEAN
    /\ object \in [ObjectKeys -> SUBSET ObjectRows]
    /\ IsFiniteSet({k \in ObjectKeys : object[k] # {}})
    /\ \A k \in ObjectKeys : \A row, other \in object[k] : row.id < made /\ row = other
    /\ defined \in [DefinitionKeys -> Nat] /\ evalCases \in [Suites -> Nat]
    /\ installations \in Seq(InstallationRows)
    /\ packCall = [c \in PackCalls |-> packCall[c]]
    /\ demo \in [Packs -> {"none", "some", "whole"}]

RemovesDemo(request) == request.op = "reset" \/ request.removeDemo

\* A call, over n installations.
PackCallTyped(call, n) ==
    /\ call = [at |-> call.at, request |-> call.request, todo |-> call.todo, row |-> call.row]
    /\ call.at \in {"idle", "working", "defining", "listing", "deleting", "returned", "rejected", "cut"}
    /\ call.at # "idle" => call.request \in PackRequests
    /\ call.at \in {"working", "defining"} => call.todo \in Seq(WorkItems(call.request.manifest))
    /\ call.at = "defining" => call.todo # << >> /\ Head(call.todo).op = "define"
    /\ call.at = "deleting" => call.todo \in Seq(ListingRows) /\ (call.todo # << >> => RemovesDemo(call.request))
    /\ call.at = "listing" => RemovesDemo(call.request)
    /\ call.at \in {"listing", "deleting"} /\ call.request.op # "reset" => call.row \in 1 .. n

\* What an installation has gone past is there: its tags as long as no other call ran.
Accomplished(x, p) ==
    /\ x.op = "define" => defined[x.name] > 0
    /\ x.op = "case" => evalCases[x.name] > 0
    /\ x.op = "tag" /\ ~crowded => x.name \in Tagged(p)

InstallsInOrder(c) ==
    packCall[c].at \in {"working", "defining"} =>
      \A x \in ToSet(Installation(Request(c).manifest)) : x \in ToSet(packCall[c].todo) \/ Accomplished(x, Pack(c))

\* What a removal listed is a pack's: this pack's as long as no other call ran.
ListsDemoRows(c) ==
    packCall[c].at = "deleting" =>
      \A x \in ToSet(packCall[c].todo) :
        /\ x.row.id < made
        /\ \A row \in object[x.key] : row.id = x.row.id => row.pack # NoPack /\ (~crowded => row.pack = Pack(c))

CallsInOrder == \A c \in PackCalls : PackCallTyped(packCall[c], Len(installations)) /\ InstallsInOrder(c) /\ ListsDemoRows(c)

RecordsHold ==
    \A i \in DOMAIN installations : \A m \in Manifests :
      m.pack = installations[i].pack /\ m.version = installations[i].version =>
        /\ \A d \in Definitions(m) : defined[d] > 0
        /\ \A s \in ToSet(m.suites) : evalCases[s] > 0

DeletedWereTagged == \A row \in deleted : row.pack # NoPack

\* As long as no two calls overlapped, one is under way at most, and it is what keeps a
\* pack's demo objects from being none or all there.
OneCallAtATime == \A c, d \in PackCalls : UnderWay(c) /\ UnderWay(d) => c = d

InstalledOnce ==
    /\ \A i, j \in DOMAIN installations :
         /\ installations[i].status = "installed" /\ installations[j].status = "installed"
         /\ installations[i].pack = installations[j].pack /\ installations[i].version = installations[j].version
         => i = j
    /\ \A c \in PackCalls : packCall[c].at \in {"working", "defining"} =>
         demo[Pack(c)] = "some" /\ InstalledRows(Pack(c), {Request(c).manifest.version}) = {}

DefinedOnce ==
    /\ \A d \in DefinitionKeys : defined[d] <= 1
    /\ \A c \in PackCalls : packCall[c].at = "defining" => defined[NextListed(c).name] = 0

DemosGone ==
    /\ \A p \in Packs : demo[p] = "none" => Tagged(p) = {}
    /\ \A c \in PackCalls : packCall[c].at = "deleting" /\ RemovesDemo(Request(c)) =>
         /\ demo[Pack(c)] = "some"
         /\ \A k \in Tagged(Pack(c)) : \A row \in object[k] : [key |-> k, row |-> row] \in ToSet(packCall[c].todo)

DemosWhole == \A m \in Manifests : demo[m.pack] = "whole" /\ InstalledLast(m) => OwnSamples(m) \subseteq Tagged(m.pack)

InTurn == ~crowded => OneCallAtATime /\ InstalledOnce /\ DefinedOnce /\ DemosGone /\ DemosWhole

PackInv == PackStoreTyped /\ CallsInOrder /\ RecordsHold /\ DeletedWereTagged /\ InTurn

LEMMA PackStarts == PackInit => PackInv
<1> SUFFICES ASSUME PackInit PROVE PackInv
  OBVIOUS
<1>1. installations = << >> /\ DOMAIN installations = {} /\ Len(installations) = 0
  BY EmptySeq DEF PackInit
<1>2. installations \in Seq(InstallationRows)
  BY <1>1, EmptySeq
<1>3. \A k \in ObjectKeys : object[k] = {}
  BY DEF PackInit
<1>4. {k \in ObjectKeys : object[k] # {}} = {}
  BY <1>3
<1>5. IsFiniteSet({k \in ObjectKeys : object[k] # {}})
  BY <1>4, FS_EmptySet
<1>6. PackStoreTyped
  BY <1>2, <1>3, <1>5 DEF PackInit, PackStoreTyped
<1>7. \A c \in PackCalls : packCall[c] = [at |-> "idle", request |-> NoPack, todo |-> << >>, row |-> 0]
  BY DEF PackInit, IdlePackCall
<1>8. CallsInOrder
  BY <1>7 DEF CallsInOrder, PackCallTyped, InstallsInOrder, ListsDemoRows
<1>9. RecordsHold /\ DeletedWereTagged
  BY <1>1 DEF RecordsHold, DeletedWereTagged, PackInit
<1>10. OneCallAtATime /\ InstalledOnce /\ DefinedOnce
  BY <1>1, <1>7 DEF OneCallAtATime, InstalledOnce, DefinedOnce, UnderWay, PackInit
<1>11. DemosGone /\ DemosWhole
  <2>1. \A p \in Packs : Tagged(p) = {}
    BY <1>3 DEF Tagged
  <2>2. \A m \in Manifests : m.pack \in Packs
    BY DEF Packs
  <2>3. \A p \in Packs : demo[p] = "none"
    BY DEF PackInit
  <2> QED
    BY <1>7, <2>1, <2>2, <2>3 DEF DemosGone, DemosWhole
<1> QED
  BY <1>6, <1>8, <1>9, <1>10, <1>11 DEF PackInv, InTurn

\* A call steps on: it is known what it asks.
LEMMA CallMoves ==
    ASSUME PackInv, NEW c \in PackCalls, NEW to, packCall' = [packCall EXCEPT ![c] = to]
    PROVE  /\ packCall' = [d \in PackCalls |-> packCall'[d]] /\ packCall'[c] = to
           /\ \A d \in PackCalls \ {c} : packCall'[d] = packCall[d]
<1>1. packCall = [d \in PackCalls |-> packCall[d]]
  BY DEF PackInv, PackStoreTyped
<1>2. packCall' = [d \in PackCalls |-> IF d = c THEN to ELSE packCall[d]]
  BY <1>1
<1> QED
  BY <1>2

\* What its step leaves to the other calls: they find what they wrote as long as defined
\* things stay, and what they listed as long as rows stay tagged and ids are not used again.
StoreGrows ==
    /\ \A d \in DefinitionKeys : defined[d] > 0 => defined'[d] > 0
    /\ \A s \in Suites : evalCases[s] > 0 => evalCases'[s] > 0
    /\ made' \in Nat /\ made' >= made /\ Len(installations') \in Nat /\ Len(installations') >= Len(installations)
    /\ \A k \in ObjectKeys : \A row \in object'[k] :
         row.id < made => \E old \in object[k] : old.id = row.id /\ (old.pack # NoPack => row.pack # NoPack)

LEMMA RequestFacts ==
    ASSUME NEW n, NEW call, PackCallTyped(call, n), call.at # "idle"
    PROVE  /\ call.request \in PackRequests /\ call.request.manifest \in Manifests
           /\ call.request.manifest.pack \in Packs /\ call.request.manifest.pack # NoPack
           /\ call.request.op \in {"install", "ensure", "uninstall", "reset"} /\ call.request.removeDemo \in BOOLEAN
<1>1. call.request \in PackRequests
  BY DEF PackCallTyped
<1>2. /\ call.request.manifest \in Manifests /\ call.request.removeDemo \in BOOLEAN
      /\ call.request.op \in {"install", "ensure", "uninstall", "reset"}
  BY <1>1, PackAssumption
<1> QED
  BY <1>1, <1>2, ManifestFacts

LEMMA OthersStay ==
    ASSUME PackInv, StoreGrows, crowded', NEW d \in PackCalls, packCall'[d] = packCall[d]
    PROVE  (PackCallTyped(packCall[d], Len(installations)) /\ InstallsInOrder(d) /\ ListsDemoRows(d))'
<1>1. /\ PackCallTyped(packCall[d], Len(installations)) /\ InstallsInOrder(d) /\ ListsDemoRows(d)
      /\ made \in Nat /\ installations \in Seq(InstallationRows)
      /\ object \in [ObjectKeys -> SUBSET ObjectRows]
  BY DEF PackInv, CallsInOrder, PackStoreTyped
<1>2. PackCallTyped(packCall'[d], Len(installations'))
  <2>1. Len(installations) \in Nat
    BY <1>1, LenProperties
  <2>2. \A i \in 1 .. Len(installations) : i \in 1 .. Len(installations')
    BY <2>1 DEF StoreGrows
  <2> QED
    BY <1>1, <2>2 DEF PackCallTyped
<1>3. InstallsInOrder(d)'
  <2> SUFFICES ASSUME packCall[d].at \in {"working", "defining"},
                      NEW x \in ToSet(Installation(Request(d).manifest)), x \notin ToSet(packCall[d].todo)
               PROVE  Accomplished(x, Pack(d))'
    BY DEF InstallsInOrder, Request, Pack
  <2>1. Accomplished(x, Pack(d))
    BY <1>1 DEF InstallsInOrder
  <2>2. Request(d).manifest \in Manifests
    BY <1>1, RequestFacts DEF Request
  <2>3. x \in WorkItems(Request(d).manifest)
    BY <2>2, InstallationCovers, ItemsAreTyped
  <2>4. (x.op = "define" => x.name \in DefinitionKeys) /\ (x.op = "case" => x.name \in Suites)
    BY <2>2, <2>3, ManifestFacts DEF WorkItems
  <2> QED
    BY <2>1, <2>4 DEF Accomplished, StoreGrows
<1>4. ListsDemoRows(d)'
  <2> SUFFICES ASSUME packCall[d].at = "deleting", NEW x \in ToSet(packCall[d].todo)
               PROVE  /\ x.row.id < made'
                      /\ \A row \in object'[x.key] : row.id = x.row.id => row.pack # NoPack
    BY DEF ListsDemoRows
  <2>1. x.row.id < made /\ \A row \in object[x.key] : row.id = x.row.id => row.pack # NoPack
    BY <1>1 DEF ListsDemoRows
  <2>2. x \in ListingRows
    BY <1>1, ItemsAreTyped DEF PackCallTyped
  <2>3. x.key \in ObjectKeys /\ x.row.id \in Nat
    BY <2>2 DEF ListingRows, ObjectRows
  <2>4. x.row.id < made'
    BY <1>1, <2>1, <2>3 DEF StoreGrows
  <2>5. ASSUME NEW row \in object'[x.key], row.id = x.row.id PROVE row.pack # NoPack
    <3>1. PICK old \in object[x.key] : old.id = row.id /\ (old.pack # NoPack => row.pack # NoPack)
      BY <2>1, <2>3, <2>5 DEF StoreGrows
    <3> QED
      BY <2>1, <2>5, <3>1
  <2> QED
    BY <2>4, <2>5
<1> QED
  BY <1>2, <1>3, <1>4

\* As long as nothing overlaps, the others have nothing under way.
LEMMA OthersAreDone ==
    ASSUME PackInv, NEW c \in PackCalls, Crowd(c), ~crowded'
    PROVE  ~crowded /\ \A d \in PackCalls \ {c} : ~UnderWay(d)
  BY DEF Crowd

LEMMA CallsKept ==
    ASSUME PackInv, StoreGrows, NEW c \in PackCalls, Crowd(c),
           \A d \in PackCalls \ {c} : packCall'[d] = packCall[d],
           (PackCallTyped(packCall[c], Len(installations)) /\ InstallsInOrder(c) /\ ListsDemoRows(c))'
    PROVE  CallsInOrder'
<1>1. ASSUME NEW d \in PackCalls \ {c}
      PROVE  (PackCallTyped(packCall[d], Len(installations)) /\ InstallsInOrder(d) /\ ListsDemoRows(d))'
  <2>1. CASE crowded'
    BY <2>1, OthersStay
  <2>2. CASE ~crowded'
    <3>1. ~UnderWay(d) /\ packCall'[d] = packCall[d]
      BY <2>2, OthersAreDone
    <3>2. packCall[d].at \notin {"working", "defining", "listing", "deleting"}
      BY <3>1 DEF UnderWay
    <3>3. PackCallTyped(packCall[d], Len(installations))
      BY DEF PackInv, CallsInOrder
    <3>4. PackCallTyped(packCall'[d], Len(installations'))
      BY <3>1, <3>2, <3>3 DEF PackCallTyped
    <3>5. InstallsInOrder(d)' /\ ListsDemoRows(d)'
      BY <3>1, <3>2 DEF InstallsInOrder, ListsDemoRows
    <3> QED
      BY <3>4, <3>5
  <2> QED
    BY <2>1, <2>2
<1> QED
  BY <1>1 DEF CallsInOrder

LEMMA RecordsStay ==
    ASSUME PackInv, StoreGrows,
           \A i \in DOMAIN installations' : \E j \in DOMAIN installations :
             installations'[i].pack = installations[j].pack /\ installations'[i].version = installations[j].version
    PROVE  RecordsHold'
<1> SUFFICES ASSUME NEW i \in DOMAIN installations', NEW m \in Manifests,
                    m.pack = installations'[i].pack, m.version = installations'[i].version
             PROVE  /\ \A d \in Definitions(m) : defined'[d] > 0
                    /\ \A s \in ToSet(m.suites) : evalCases'[s] > 0
  BY DEF RecordsHold
<1>1. PICK j \in DOMAIN installations : m.pack = installations[j].pack /\ m.version = installations[j].version
  OBVIOUS
<1>2. (\A d \in Definitions(m) : defined[d] > 0) /\ \A s \in ToSet(m.suites) : evalCases[s] > 0
  BY <1>1 DEF PackInv, RecordsHold
<1>3. Definitions(m) \subseteq DefinitionKeys /\ ToSet(m.suites) \subseteq Suites
  BY ManifestFacts
<1> QED
  BY <1>2, <1>3 DEF StoreGrows

\* The other calls have nothing under way, and what holds without overlaps held.
LEMMA OnlyThisCall ==
    ASSUME PackInv, NEW c \in PackCalls, Crowd(c), ~crowded', \A d \in PackCalls \ {c} : packCall'[d] = packCall[d]
    PROVE  /\ ~crowded /\ OneCallAtATime' /\ InstalledOnce /\ DefinedOnce /\ DemosGone /\ DemosWhole
           /\ \A d \in PackCalls : packCall'[d].at \in {"working", "defining", "listing", "deleting"} => d = c
<1>1. ~crowded /\ \A d \in PackCalls \ {c} : ~UnderWay(d)
  BY OthersAreDone
<1>2. InstalledOnce /\ DefinedOnce /\ DemosGone /\ DemosWhole
  BY <1>1 DEF PackInv, InTurn
<1>3. \A d \in PackCalls \ {c} : packCall[d].at \in {"idle", "returned", "rejected", "cut"}
  BY <1>1 DEF UnderWay
<1>4. \A d \in PackCalls : packCall'[d].at \notin {"idle", "returned", "rejected", "cut"} => d = c
  BY <1>3
<1>5. OneCallAtATime'
  BY <1>4 DEF OneCallAtATime, UnderWay
<1> QED
  BY <1>1, <1>2, <1>4, <1>5

LEMMA BeginInstallKeeps ==
    ASSUME PackInv, NEW c \in PackCalls, NEW request \in PackRequests, BeginInstall(c, request)
    PROVE  PackInv'
<1>1. PackStoreTyped /\ CallsInOrder /\ RecordsHold /\ DeletedWereTagged
  BY DEF PackInv
<1>2. PICK m \in Manifests : m = request.manifest
  BY PackAssumption
<1>3. m.pack \in Packs
  BY ManifestFacts
<1>4. PICK to : /\ packCall' = [packCall EXCEPT ![c] = to]
                /\ \/ to = [IdlePackCall EXCEPT !.request = request, !.at = "returned"]
                   \/ to = [IdlePackCall EXCEPT !.request = request, !.at = "rejected"]
                   \/ /\ to = [IdlePackCall EXCEPT !.request = request, !.at = "working", !.todo = Installation(m)]
                      /\ InstalledRows(m.pack, {m.version}) = {} /\ demo'[m.pack] = "some"
                /\ \A p \in Packs : demo'[p] # demo[p] => p = m.pack /\ demo'[p] = "some"
                /\ demo' \in [Packs -> {"none", "some", "whole"}]
  <2> DEFINE answered == \/ request.op = "ensure" /\ Tagged(m.pack) # {}
                         \/ Valid(m) /\ InstalledRows(m.pack, {m.version}) # {}
  <2>2. PICK call : call = [IdlePackCall EXCEPT !.request = request]
    OBVIOUS
  <2>3. /\ packCall' = [packCall EXCEPT ![c] =
             IF answered THEN [call EXCEPT !.at = "returned"]
             ELSE IF ~Valid(m) THEN [call EXCEPT !.at = "rejected"]
             ELSE [call EXCEPT !.at = "working", !.todo = Installation(m)]]
        /\ demo' = [demo EXCEPT ![m.pack] = IF answered \/ ~Valid(m) THEN demo[m.pack] ELSE "some"]
    BY <1>2, <2>2 DEF BeginInstall
  <2> HIDE DEF answered
  <2>4. /\ [call EXCEPT !.at = "returned"] = [IdlePackCall EXCEPT !.request = request, !.at = "returned"]
        /\ [call EXCEPT !.at = "rejected"] = [IdlePackCall EXCEPT !.request = request, !.at = "rejected"]
        /\ [call EXCEPT !.at = "working", !.todo = Installation(m)]
             = [IdlePackCall EXCEPT !.request = request, !.at = "working", !.todo = Installation(m)]
    BY <2>2
  <2>5. demo \in [Packs -> {"none", "some", "whole"}]
    BY <1>1 DEF PackStoreTyped
  <2>6. /\ \A p \in Packs : demo'[p] # demo[p] => p = m.pack /\ demo'[p] = "some"
        /\ demo' \in [Packs -> {"none", "some", "whole"}]
        /\ ~answered /\ Valid(m) => demo'[m.pack] = "some"
    BY <1>3, <2>3, <2>5
  <2>7. CASE answered
    BY <2>3, <2>4, <2>6, <2>7
  <2>8. CASE ~answered /\ ~Valid(m)
    BY <2>3, <2>4, <2>6, <2>8
  <2>9. CASE ~answered /\ Valid(m)
    <3>1. InstalledRows(m.pack, {m.version}) = {}
      BY <2>9 DEF answered
    <3> QED
      BY <2>3, <2>4, <2>6, <2>9, <3>1
  <2> QED
    BY <2>7, <2>8, <2>9
<1>5. Crowd(c) /\ UNCHANGED <<object, defined, evalCases, installations, made, deleted>>
  BY DEF BeginInstall
<1>6. PICK todo : /\ to = [at |-> to.at, request |-> request, todo |-> todo, row |-> 0]
                  /\ to.at \in {"returned", "rejected", "working"}
                  /\ to.at = "working" => /\ todo = Installation(m) /\ InstalledRows(m.pack, {m.version}) = {}
                                          /\ demo'[m.pack] = "some"
  <2>1. PICK idle : idle = IdlePackCall
    OBVIOUS
  <2>2. idle = [at |-> "idle", request |-> NoPack, todo |-> << >>, row |-> 0]
    BY <2>1 DEF IdlePackCall
  <2>3. CASE to = [idle EXCEPT !.request = request, !.at = "returned"]
    <3>1. to = [at |-> "returned", request |-> request, todo |-> << >>, row |-> 0]
      BY <2>2, <2>3
    <3> QED
      BY <3>1
  <2>4. CASE to = [idle EXCEPT !.request = request, !.at = "rejected"]
    <3>1. to = [at |-> "rejected", request |-> request, todo |-> << >>, row |-> 0]
      BY <2>2, <2>4
    <3> QED
      BY <3>1
  <2>5. CASE /\ to = [idle EXCEPT !.request = request, !.at = "working", !.todo = Installation(m)]
             /\ InstalledRows(m.pack, {m.version}) = {} /\ demo'[m.pack] = "some"
    <3>1. to = [at |-> "working", request |-> request, todo |-> Installation(m), row |-> 0]
      BY <2>2, <2>5
    <3> QED
      BY <2>5, <3>1
  <2> QED
    BY <1>4, <2>1, <2>3, <2>4, <2>5
<1>7. /\ packCall' = [d \in PackCalls |-> packCall'[d]] /\ packCall'[c] = to
      /\ \A d \in PackCalls \ {c} : packCall'[d] = packCall[d]
  BY <1>4, CallMoves
<1>8. to.request = request /\ to.todo = todo
  BY <1>6
<1>9. StoreGrows
  BY <1>1, <1>5, LenProperties DEF StoreGrows, PackStoreTyped
<1>10. PackStoreTyped'
  BY <1>1, <1>4, <1>5, <1>7 DEF PackStoreTyped, Crowd
<1>11. (PackCallTyped(packCall[c], Len(installations)) /\ InstallsInOrder(c) /\ ListsDemoRows(c))'
  <2>1. PackCallTyped(to, Len(installations'))
    <3>1. Installation(m) \in Seq(WorkItems(m))
      BY InstallationCovers
    <3> QED
      BY <1>2, <1>6, <1>8, <3>1 DEF PackCallTyped
  <2>2. InstallsInOrder(c)'
    BY <1>2, <1>6, <1>7, <1>8 DEF InstallsInOrder, Request
  <2>3. ListsDemoRows(c)'
    BY <1>6, <1>7 DEF ListsDemoRows
  <2> QED
    BY <1>7, <2>1, <2>2, <2>3
<1>12. CallsInOrder'
  BY <1>5, <1>7, <1>9, <1>11, CallsKept
<1>13. RecordsHold' /\ DeletedWereTagged'
  BY <1>1, <1>5 DEF RecordsHold, DeletedWereTagged
<1>14. ASSUME ~crowded' PROVE (OneCallAtATime /\ InstalledOnce /\ DefinedOnce /\ DemosGone /\ DemosWhole)'
  <2>1. /\ ~crowded /\ OneCallAtATime' /\ InstalledOnce /\ DefinedOnce /\ DemosGone /\ DemosWhole
        /\ \A d \in PackCalls : packCall'[d].at \in {"working", "defining", "listing", "deleting"} => d = c
    BY <1>5, <1>7, <1>14, OnlyThisCall
  <2>2. \A p, versions : InstalledRows(p, versions)' = InstalledRows(p, versions)
    BY <1>5 DEF InstalledRows
  <2>3. \A p : Tagged(p)' = Tagged(p)
    BY <1>5 DEF Tagged
  <2>4. InstalledOnce'
    <3>1. ASSUME NEW d \in PackCalls, packCall'[d].at \in {"working", "defining"}
          PROVE  demo'[Pack(d)'] = "some" /\ InstalledRows(Pack(d), {Request(d).manifest.version})' = {}
      <4>1. d = c /\ Request(d)' = request
        BY <1>7, <1>8, <2>1, <3>1 DEF Request
      <4>2. to.at = "working"
        BY <1>6, <1>7, <3>1, <4>1
      <4> QED
        BY <1>2, <1>6, <2>2, <4>1, <4>2 DEF Pack
    <3> QED
      BY <1>5, <2>1, <3>1 DEF InstalledOnce
  <2>5. DefinedOnce'
    <3>1. \A d \in PackCalls : packCall'[d].at # "defining"
      BY <1>6, <1>7, <2>1
    <3> QED
      BY <1>5, <2>1, <3>1 DEF DefinedOnce
  <2>6. DemosGone'
    <3>1. \A d \in PackCalls : packCall'[d].at # "deleting"
      BY <1>6, <1>7, <2>1
    <3>2. \A p \in Packs : demo'[p] = "none" => Tagged(p)' = {}
      BY <1>4, <2>1, <2>3 DEF DemosGone
    <3> QED
      BY <3>1, <3>2 DEF DemosGone
  <2>7. DemosWhole'
    <3>1. \A n \in Manifests : InstalledLast(n)' = InstalledLast(n)
      BY <1>5, <2>2 DEF InstalledLast
    <3>2. \A n \in Manifests : n.pack \in Packs
      BY ManifestFacts
    <3> QED
      BY <1>4, <2>1, <2>3, <3>1, <3>2 DEF DemosWhole
  <2> QED
    BY <2>1, <2>4, <2>5, <2>6, <2>7
<1> QED
  BY <1>10, <1>12, <1>13, <1>14 DEF PackInv, InTurn

LEMMA GoesOn ==
    ASSUME PackInv, NEW c \in PackCalls, NEW at, Goes(c, at)
    PROVE  /\ packCall' = [d \in PackCalls |-> packCall'[d]]
           /\ packCall'[c] = [at |-> at, request |-> packCall[c].request, todo |-> packCall[c].todo,
                              row |-> packCall[c].row]
           /\ \A d \in PackCalls \ {c} : packCall'[d] = packCall[d]
<1>1. PICK call : call = packCall[c]
  OBVIOUS
<1>2. call = [at |-> call.at, request |-> call.request, todo |-> call.todo, row |-> call.row]
  BY <1>1 DEF PackInv, CallsInOrder, PackCallTyped
<1>3. PICK to : to = [call EXCEPT !.at = at]
  OBVIOUS
<1>4. to = [at |-> at, request |-> call.request, todo |-> call.todo, row |-> call.row]
  BY <1>2, <1>3
<1>5. packCall' = [packCall EXCEPT ![c] = to]
  BY <1>1, <1>3 DEF Goes
<1> QED
  BY <1>1, <1>4, <1>5, CallMoves

LEMMA DoneWith ==
    ASSUME PackInv, NEW c \in PackCalls, Done(c)
    PROVE  /\ packCall' = [d \in PackCalls |-> packCall'[d]]
           /\ packCall'[c] = [at |-> "working", request |-> packCall[c].request, todo |-> Tail(packCall[c].todo),
                              row |-> packCall[c].row]
           /\ \A d \in PackCalls \ {c} : packCall'[d] = packCall[d]
<1>1. PICK call : call = packCall[c]
  OBVIOUS
<1>2. call = [at |-> call.at, request |-> call.request, todo |-> call.todo, row |-> call.row]
  BY <1>1 DEF PackInv, CallsInOrder, PackCallTyped
<1>3. packCall = [d \in PackCalls |-> packCall[d]]
  BY DEF PackInv, PackStoreTyped
<1>4. PICK between : between = [packCall EXCEPT ![c] = [call EXCEPT !.at = "working"]]
  OBVIOUS
<1>5. between[c] = [call EXCEPT !.at = "working"]
  BY <1>3, <1>4
<1>6. PICK one : one = [call EXCEPT !.at = "working"]
  OBVIOUS
<1>7. one = [at |-> "working", request |-> call.request, todo |-> call.todo, row |-> call.row]
  BY <1>2, <1>6
<1>8. PICK to : to = [one EXCEPT !.todo = Tail(call.todo)]
  OBVIOUS
<1>9. to = [at |-> "working", request |-> call.request, todo |-> Tail(call.todo), row |-> call.row]
  BY <1>7, <1>8
<1>10. packCall' = [packCall EXCEPT ![c].at = "working", ![c].todo = Tail(@)]
  BY DEF Done
<1>11. packCall' = [packCall EXCEPT ![c] = to]
  BY <1>1, <1>3, <1>6, <1>7, <1>8, <1>10
<1> QED
  BY <1>1, <1>9, <1>11, CallMoves

\* An installation goes past what it wrote, and what is there already stays.
LEMMA Advances ==
    ASSUME PackInv, NEW c \in PackCalls, packCall[c].at \in {"working", "defining"}, packCall[c].todo # << >>,
           Done(c), Crowd(c), StoreGrows, Tagged(Pack(c)) \subseteq Tagged(Pack(c))',
           NEW item, item = NextListed(c), Accomplished(item, Pack(c))'
    PROVE  CallsInOrder'
<1>1. /\ packCall'[c] = [at |-> "working", request |-> packCall[c].request, todo |-> Tail(packCall[c].todo),
                         row |-> packCall[c].row]
      /\ \A d \in PackCalls \ {c} : packCall'[d] = packCall[d]
  BY DoneWith
<1>2. /\ packCall'[c].at = "working" /\ packCall'[c].request = packCall[c].request
      /\ packCall'[c].todo = Tail(packCall[c].todo) /\ packCall'[c].row = packCall[c].row
  BY <1>1
<1>3. PackCallTyped(packCall[c], Len(installations)) /\ InstallsInOrder(c)
  BY DEF PackInv, CallsInOrder
<1>4. PICK m \in Manifests : m = Request(c).manifest /\ packCall[c].request \in PackRequests
  BY <1>3, RequestFacts DEF Request
<1>5. packCall[c].todo \in Seq(WorkItems(m))
  BY <1>3, <1>4 DEF PackCallTyped, Request
<1>6. /\ Tail(packCall[c].todo) \in Seq(WorkItems(m))
      /\ ToSet(packCall[c].todo) = {NextListed(c)} \cup ToSet(Tail(packCall[c].todo))
  BY <1>5, RestOf DEF NextListed
<1>7. PackCallTyped(packCall'[c], Len(installations'))
  BY <1>1, <1>2, <1>4, <1>6 DEF PackCallTyped, Request
<1>8. Request(c)' = Request(c) /\ Pack(c)' = Pack(c)
  BY <1>2 DEF Request, Pack
<1>9. InstallsInOrder(c)'
  <2> SUFFICES ASSUME NEW x \in ToSet(Installation(m)), x \notin ToSet(Tail(packCall[c].todo))
               PROVE  Accomplished(x, Pack(c))'
    BY <1>2, <1>4, <1>8 DEF InstallsInOrder
  <2>1. CASE x = NextListed(c)
    BY <2>1
  <2>2. CASE x # NextListed(c)
    <3>1. Accomplished(x, Pack(c))
      BY <1>3, <1>4, <1>6, <2>2 DEF InstallsInOrder
    <3>2. x \in WorkItems(m)
      BY InstallationCovers, ItemsAreTyped
    <3>3. (x.op = "define" => x.name \in DefinitionKeys) /\ (x.op = "case" => x.name \in Suites)
      BY <3>2, ManifestFacts DEF WorkItems
    <3>4. crowded => crowded'
      BY DEF Crowd
    <3> QED
      BY <1>8, <3>1, <3>3, <3>4 DEF Accomplished, StoreGrows
  <2> QED
    BY <2>1, <2>2
<1>10. ListsDemoRows(c)'
  BY <1>2 DEF ListsDemoRows
<1> QED
  BY <1>1, <1>7, <1>9, <1>10, CallsKept

\* The next item of an installation.
LEMMA NextItem ==
    ASSUME PackInv, NEW c \in PackCalls, packCall[c].at \in {"working", "defining"}, packCall[c].todo # << >>
    PROVE  /\ Request(c).manifest \in Manifests /\ NextListed(c) \in WorkItems(Request(c).manifest)
           /\ NextListed(c).op \in {"object", "tag"} =>
                NextListed(c).name \in SamplesOf(Request(c).manifest) /\ NextListed(c).name \in ObjectKeys
           /\ NextListed(c).op = "define" => NextListed(c).name \in DefinitionKeys
           /\ NextListed(c).op = "case" => NextListed(c).name \in Suites
           /\ Pack(c) \in Packs /\ Pack(c) # NoPack
<1>1. PackCallTyped(packCall[c], Len(installations))
  BY DEF PackInv, CallsInOrder
<1>2. PICK m \in Manifests : m = Request(c).manifest
  BY <1>1, RequestFacts DEF Request
<1>3. packCall[c].todo \in Seq(WorkItems(m))
  BY <1>1, <1>2 DEF PackCallTyped, Request
<1>4. NextListed(c) \in WorkItems(m)
  BY <1>3, RestOf DEF NextListed
<1>5. /\ NextListed(c).op \in {"object", "tag"} => NextListed(c).name \in SamplesOf(m)
      /\ NextListed(c).op = "define" => NextListed(c).name \in Definitions(m)
      /\ NextListed(c).op = "case" => NextListed(c).name \in ToSet(m.suites)
  BY <1>4 DEF WorkItems
<1> QED
  BY <1>2, <1>4, <1>5, ManifestFacts DEF Pack

\* A step of an installation on anything but objects leaves what holds of them.
LEMMA SameObjects ==
    ASSUME PackInv, UNCHANGED <<object, installations, demo, deleted>>, NEW c \in PackCalls, Crowd(c), ~crowded',
           \A d \in PackCalls \ {c} : packCall'[d] = packCall[d], packCall[c].at \in {"working", "defining"},
           packCall'[c].at \in {"working", "defining"}, packCall'[c].request = packCall[c].request
    PROVE  (InstalledOnce /\ DemosGone /\ DemosWhole)'
<1>1. /\ ~crowded /\ OneCallAtATime' /\ InstalledOnce /\ DefinedOnce /\ DemosGone /\ DemosWhole
      /\ \A d \in PackCalls : packCall'[d].at \in {"working", "defining", "listing", "deleting"} => d = c
  BY OnlyThisCall
<1>2. \A p, versions : InstalledRows(p, versions)' = InstalledRows(p, versions)
  BY DEF InstalledRows
<1>3. \A p : Tagged(p)' = Tagged(p)
  BY DEF Tagged
<1>4. InstalledOnce'
  <2>1. ASSUME NEW d \in PackCalls, packCall'[d].at \in {"working", "defining"}
        PROVE  demo'[Pack(d)'] = "some" /\ InstalledRows(Pack(d), {Request(d).manifest.version})' = {}
    BY <1>1, <1>2, <2>1 DEF Request, Pack, InstalledOnce
  <2> QED
    BY <1>1, <2>1 DEF InstalledOnce
<1>5. DemosGone'
  <2>1. \A d \in PackCalls : packCall'[d].at # "deleting"
    BY <1>1
  <2> QED
    BY <1>1, <1>3, <2>1 DEF DemosGone
<1>6. DemosWhole'
  <2>1. \A n \in Manifests : InstalledLast(n)' = InstalledLast(n)
    BY <1>2 DEF InstalledLast
  <2> QED
    BY <1>1, <1>3, <2>1 DEF DemosWhole
<1> QED
  BY <1>4, <1>5, <1>6

LEMMA LookForDefinitionKeeps ==
    ASSUME PackInv, NEW c \in PackCalls, LookForDefinition(c)
    PROVE  PackInv'
<1>1. /\ packCall[c].at = "working" /\ packCall[c].todo # << >> /\ NextListed(c).op = "define"
      /\ IF defined[NextListed(c).name] > 0 THEN Done(c) ELSE Goes(c, "defining")
      /\ Crowd(c) /\ UNCHANGED <<object, defined, evalCases, installations, made, deleted, demo>>
  BY DEF LookForDefinition
<1>2. PackStoreTyped /\ CallsInOrder /\ RecordsHold /\ DeletedWereTagged
  BY DEF PackInv
<1>3. StoreGrows
  BY <1>1, <1>2, LenProperties DEF StoreGrows, PackStoreTyped
<1>4. /\ packCall' = [d \in PackCalls |-> packCall'[d]] /\ \A d \in PackCalls \ {c} : packCall'[d] = packCall[d]
      /\ packCall'[c].at \in {"working", "defining"} /\ packCall'[c].request = packCall[c].request
      /\ packCall'[c].at = "defining" => Goes(c, "defining") /\ packCall'[c].todo = packCall[c].todo
                                         /\ ~(defined[NextListed(c).name] > 0)
  <2>1. CASE defined[NextListed(c).name] > 0
    <3>1. Done(c)
      BY <1>1, <2>1
    <3>2. /\ packCall' = [d \in PackCalls |-> packCall'[d]] /\ \A d \in PackCalls \ {c} : packCall'[d] = packCall[d]
          /\ packCall'[c] = [at |-> "working", request |-> packCall[c].request, todo |-> Tail(packCall[c].todo),
                             row |-> packCall[c].row]
      BY <3>1, DoneWith
    <3>3. packCall'[c].at = "working" /\ packCall'[c].request = packCall[c].request
      BY <3>2
    <3> QED
      BY <3>2, <3>3
  <2>2. CASE ~(defined[NextListed(c).name] > 0)
    <3>1. Goes(c, "defining")
      BY <1>1, <2>2
    <3>2. /\ packCall' = [d \in PackCalls |-> packCall'[d]] /\ \A d \in PackCalls \ {c} : packCall'[d] = packCall[d]
          /\ packCall'[c] = [at |-> "defining", request |-> packCall[c].request, todo |-> packCall[c].todo,
                             row |-> packCall[c].row]
      BY <3>1, GoesOn
    <3>3. packCall'[c].request = packCall[c].request /\ packCall'[c].todo = packCall[c].todo
          /\ packCall'[c].at = "defining"
      BY <3>2
    <3> QED
      BY <2>2, <3>1, <3>2, <3>3
  <2> QED
    BY <2>1, <2>2
<1>5. CallsInOrder'
  <2>1. CASE defined[NextListed(c).name] > 0
    <3>1. Done(c)
      BY <1>1, <2>1
    <3>2. Tagged(Pack(c)) \subseteq Tagged(Pack(c))'
      BY <1>1, <1>4 DEF Tagged, Pack, Request
    <3>3. PICK item : item = NextListed(c)
      OBVIOUS
    <3>4. Accomplished(item, Pack(c))'
      BY <1>1, <2>1, <3>3 DEF Accomplished
    <3> QED
      BY <1>1, <1>3, <3>1, <3>2, <3>3, <3>4, Advances
  <2>2. CASE ~(defined[NextListed(c).name] > 0)
    <3>1. packCall'[c] = [at |-> "defining", request |-> packCall[c].request, todo |-> packCall[c].todo,
                          row |-> packCall[c].row]
      BY <1>1, <2>2, GoesOn
    <3>2. /\ packCall'[c].at = "defining" /\ packCall'[c].request = packCall[c].request
          /\ packCall'[c].todo = packCall[c].todo /\ packCall'[c].row = packCall[c].row
      BY <3>1
    <3>3. PackCallTyped(packCall[c], Len(installations)) /\ InstallsInOrder(c)
      BY <1>2 DEF CallsInOrder
    <3>4. PackCallTyped(packCall'[c], Len(installations'))
      BY <1>1, <3>1, <3>2, <3>3 DEF PackCallTyped, NextListed
    <3>5. InstallsInOrder(c)'
      <4>1. crowded => crowded'
        BY <1>1 DEF Crowd
      <4>2. \A p : Tagged(p)' = Tagged(p)
        BY <1>1 DEF Tagged
      <4>3. \A x, p : Accomplished(x, p) => Accomplished(x, p)'
        BY <1>1, <4>1, <4>2 DEF Accomplished
      <4>4. Request(c)' = Request(c) /\ Pack(c)' = Pack(c)
        BY <3>2 DEF Request, Pack
      <4> QED
        BY <1>1, <3>2, <3>3, <4>3, <4>4 DEF InstallsInOrder
    <3>6. ListsDemoRows(c)'
      BY <3>2 DEF ListsDemoRows
    <3> QED
      BY <1>1, <1>3, <1>4, <3>4, <3>5, <3>6, CallsKept
  <2> QED
    BY <2>1, <2>2
<1>6. PackStoreTyped'
  BY <1>1, <1>2, <1>4 DEF PackStoreTyped, Crowd
<1>7. RecordsHold' /\ DeletedWereTagged'
  BY <1>1, <1>2 DEF RecordsHold, DeletedWereTagged
<1>8. ASSUME ~crowded' PROVE (OneCallAtATime /\ InstalledOnce /\ DefinedOnce /\ DemosGone /\ DemosWhole)'
  <2>1. /\ OneCallAtATime' /\ DefinedOnce
        /\ \A d \in PackCalls : packCall'[d].at \in {"working", "defining", "listing", "deleting"} => d = c
    BY <1>1, <1>4, <1>8, OnlyThisCall
  <2>2. (InstalledOnce /\ DemosGone /\ DemosWhole)'
    BY <1>1, <1>4, <1>8, SameObjects
  <2>3. DefinedOnce'
    <3>1. ASSUME NEW d \in PackCalls, packCall'[d].at = "defining"
          PROVE  defined'[NextListed(d)'.name] = 0
      <4>1. d = c /\ NextListed(c)' = NextListed(c) /\ ~(defined[NextListed(c).name] > 0)
        BY <1>4, <2>1, <3>1 DEF NextListed
      <4>2. NextListed(c).name \in DefinitionKeys
        BY <1>1, NextItem
      <4>3. defined[NextListed(c).name] \in Nat
        BY <1>2, <4>2 DEF PackStoreTyped
      <4> QED
        BY <1>1, <4>1, <4>3
    <3> QED
      BY <1>1, <2>1, <3>1 DEF DefinedOnce
  <2> QED
    BY <2>1, <2>2, <2>3
<1> QED
  BY <1>5, <1>6, <1>7, <1>8 DEF PackInv, InTurn

LEMMA InsertDefinitionKeeps ==
    ASSUME PackInv, NEW c \in PackCalls, InsertDefinition(c)
    PROVE  PackInv'
<1>1. /\ packCall[c].at = "defining" /\ Done(c) /\ Crowd(c)
      /\ UNCHANGED <<object, evalCases, installations, made, deleted, demo>>
  BY DEF InsertDefinition
<1>2. PackStoreTyped /\ CallsInOrder /\ RecordsHold /\ DeletedWereTagged
  BY DEF PackInv
<1>3. PackCallTyped(packCall[c], Len(installations))
  BY <1>2 DEF CallsInOrder
<1>4. packCall[c].todo # << >> /\ NextListed(c).op = "define"
  BY <1>1, <1>3 DEF PackCallTyped, NextListed
<1>5. PICK item : item = NextListed(c)
  OBVIOUS
<1>6. item.op = "define" /\ item.name \in DefinitionKeys
  BY <1>1, <1>4, <1>5, NextItem
<1>7. defined' = [defined EXCEPT ![item.name] = defined[item.name] + 1]
  BY <1>5 DEF InsertDefinition
<1>8. /\ defined' \in [DefinitionKeys -> Nat] /\ defined'[item.name] = defined[item.name] + 1
      /\ defined[item.name] \in Nat
      /\ \A d \in DefinitionKeys : d # item.name => defined'[d] = defined[d]
      /\ \A d \in DefinitionKeys : defined[d] \in Nat
  BY <1>2, <1>6, <1>7 DEF PackStoreTyped
<1>9. StoreGrows
  <2>1. \A d \in DefinitionKeys : defined[d] > 0 => defined'[d] > 0
    BY <1>6, <1>8
  <2> QED
    BY <1>1, <1>2, <2>1, LenProperties DEF StoreGrows, PackStoreTyped
<1>10. /\ packCall' = [d \in PackCalls |-> packCall'[d]] /\ \A d \in PackCalls \ {c} : packCall'[d] = packCall[d]
       /\ packCall'[c].at = "working" /\ packCall'[c].request = packCall[c].request
  <2>1. packCall'[c] = [at |-> "working", request |-> packCall[c].request, todo |-> Tail(packCall[c].todo),
                        row |-> packCall[c].row]
    BY <1>1, DoneWith
  <2> QED
    BY <1>1, <2>1, DoneWith
<1>11. CallsInOrder'
  <2>1. Tagged(Pack(c)) \subseteq Tagged(Pack(c))'
    BY <1>1, <1>10 DEF Tagged, Pack, Request
  <2>2. Accomplished(item, Pack(c))'
    BY <1>6, <1>8 DEF Accomplished
  <2> QED
    BY <1>1, <1>4, <1>5, <1>9, <2>1, <2>2, Advances
<1>12. PackStoreTyped'
  BY <1>1, <1>2, <1>8, <1>10 DEF PackStoreTyped, Crowd
<1>13. RecordsHold'
  BY <1>1, <1>9, RecordsStay
<1>14. DeletedWereTagged'
  BY <1>1, <1>2 DEF DeletedWereTagged
<1>15. ASSUME ~crowded' PROVE (OneCallAtATime /\ InstalledOnce /\ DefinedOnce /\ DemosGone /\ DemosWhole)'
  <2>1. /\ OneCallAtATime' /\ DefinedOnce
        /\ \A d \in PackCalls : packCall'[d].at \in {"working", "defining", "listing", "deleting"} => d = c
    BY <1>1, <1>10, <1>15, OnlyThisCall
  <2>2. (InstalledOnce /\ DemosGone /\ DemosWhole)'
    BY <1>1, <1>10, <1>15, SameObjects
  <2>3. DefinedOnce'
    <3>1. defined[item.name] = 0 /\ \A d \in DefinitionKeys : defined[d] <= 1
      BY <1>1, <1>5, <2>1 DEF DefinedOnce
    <3>2. \A d \in DefinitionKeys : defined'[d] <= 1
      BY <1>8, <3>1
    <3>3. \A d \in PackCalls : packCall'[d].at # "defining"
      BY <1>10, <2>1
    <3> QED
      BY <3>2, <3>3 DEF DefinedOnce
  <2> QED
    BY <2>1, <2>2, <2>3
<1> QED
  BY <1>11, <1>12, <1>13, <1>14, <1>15 DEF PackInv, InTurn

LEMMA InsertCaseKeeps ==
    ASSUME PackInv, NEW c \in PackCalls, InsertCase(c)
    PROVE  PackInv'
<1>1. /\ packCall[c].at = "working" /\ packCall[c].todo # << >> /\ NextListed(c).op = "case" /\ Done(c) /\ Crowd(c)
      /\ UNCHANGED <<object, defined, installations, made, deleted, demo>>
  BY DEF InsertCase
<1>2. PackStoreTyped /\ CallsInOrder /\ RecordsHold /\ DeletedWereTagged
  BY DEF PackInv
<1>3. PICK item : item = NextListed(c)
  OBVIOUS
<1>4. item.op = "case" /\ item.name \in Suites
  BY <1>1, <1>3, NextItem
<1>5. evalCases' = [evalCases EXCEPT ![item.name] = evalCases[item.name] + 1]
  BY <1>3 DEF InsertCase
<1>6. /\ evalCases' \in [Suites -> Nat] /\ evalCases'[item.name] = evalCases[item.name] + 1
      /\ evalCases[item.name] \in Nat
      /\ \A s \in Suites : s # item.name => evalCases'[s] = evalCases[s]
  BY <1>2, <1>4, <1>5 DEF PackStoreTyped
<1>7. StoreGrows
  <2>1. \A s \in Suites : evalCases[s] > 0 => evalCases'[s] > 0
    BY <1>4, <1>6
  <2> QED
    BY <1>1, <1>2, <2>1, LenProperties DEF StoreGrows, PackStoreTyped
<1>8. /\ packCall' = [d \in PackCalls |-> packCall'[d]] /\ \A d \in PackCalls \ {c} : packCall'[d] = packCall[d]
      /\ packCall'[c].at = "working" /\ packCall'[c].request = packCall[c].request
  <2>1. packCall'[c] = [at |-> "working", request |-> packCall[c].request, todo |-> Tail(packCall[c].todo),
                        row |-> packCall[c].row]
    BY <1>1, DoneWith
  <2> QED
    BY <1>1, <2>1, DoneWith
<1>9. CallsInOrder'
  <2>1. Tagged(Pack(c)) \subseteq Tagged(Pack(c))'
    BY <1>1, <1>8 DEF Tagged, Pack, Request
  <2>2. Accomplished(item, Pack(c))'
    BY <1>4, <1>6 DEF Accomplished
  <2> QED
    BY <1>1, <1>3, <1>7, <2>1, <2>2, Advances
<1>10. PackStoreTyped'
  BY <1>1, <1>2, <1>6, <1>8 DEF PackStoreTyped, Crowd
<1>11. RecordsHold'
  BY <1>1, <1>7, RecordsStay
<1>12. DeletedWereTagged'
  BY <1>1, <1>2 DEF DeletedWereTagged
<1>13. ASSUME ~crowded' PROVE (OneCallAtATime /\ InstalledOnce /\ DefinedOnce /\ DemosGone /\ DemosWhole)'
  <2>1. /\ OneCallAtATime' /\ DefinedOnce
        /\ \A d \in PackCalls : packCall'[d].at \in {"working", "defining", "listing", "deleting"} => d = c
    BY <1>1, <1>8, <1>13, OnlyThisCall
  <2>2. (InstalledOnce /\ DemosGone /\ DemosWhole)'
    BY <1>1, <1>8, <1>13, SameObjects
  <2>3. DefinedOnce'
    <3>1. \A d \in PackCalls : packCall'[d].at # "defining"
      BY <1>8, <2>1
    <3> QED
      BY <1>1, <2>1, <3>1 DEF DefinedOnce
  <2> QED
    BY <2>1, <2>2, <2>3
<1> QED
  BY <1>9, <1>10, <1>11, <1>12, <1>13 DEF PackInv, InTurn

\* upsertObject: the object that is there keeps its identity, and its tag unless it is given one.
LEMMA UpsertRows ==
    ASSUME PackStoreTyped, NEW key \in ObjectKeys, NEW pack \in Packs \cup {NoPack}, Upserted(key, pack),
           made' = IF object[key] = {} THEN made + 1 ELSE made
    PROVE  /\ object' \in [ObjectKeys -> SUBSET ObjectRows] /\ made' \in Nat /\ made' >= made
           /\ \A k \in ObjectKeys : k # key => object'[k] = object[k]
           /\ \A row, other \in object'[key] : row.id < made' /\ row = other
           /\ \A row \in object'[key] : row.id < made =>
                \E old \in object[key] : old.id = row.id /\ row.pack = IF pack = NoPack THEN old.pack ELSE pack
           /\ \A row \in object'[key] : ~(row.id < made) => row.pack = pack
           /\ object'[key] # {} /\ (pack # NoPack => \A row \in object'[key] : row.pack = pack)
           /\ pack = NoPack => \A old \in object[key] : old \in object'[key]
<1>1. made \in Nat /\ object \in [ObjectKeys -> SUBSET ObjectRows]
  BY DEF PackStoreTyped
<1>2. \A row, other \in object[key] : row.id < made /\ row = other
  BY DEF PackStoreTyped
<1>3. PICK new : /\ object' = [object EXCEPT ![key] = new]
                 /\ new = IF object[key] = {} THEN {[id |-> made, by |-> "pack", pack |-> pack]}
                          ELSE {IF pack = NoPack THEN row ELSE [row EXCEPT !.pack = pack] : row \in object[key]}
  BY DEF Upserted
<1>4. object'[key] = new /\ \A k \in ObjectKeys : k # key => object'[k] = object[k]
  BY <1>1, <1>3
<1>5. CASE object[key] = {}
  <2>1. PICK row : row = [id |-> made, by |-> "pack", pack |-> pack]
    OBVIOUS
  <2>2. new = {row} /\ row.id = made /\ row.pack = pack /\ row \in ObjectRows /\ made' = made + 1
    BY <1>1, <1>3, <1>5, <2>1 DEF ObjectRows
  <2>3. object' \in [ObjectKeys -> SUBSET ObjectRows]
    BY <1>1, <1>3, <2>2
  <2>4. ~(made < made) /\ made < made' /\ made' \in Nat /\ made' >= made
    BY <1>1, <2>2
  <2> QED
    BY <1>4, <1>5, <2>2, <2>3, <2>4
<1>6. CASE object[key] # {}
  <2>1. PICK old : old \in object[key]
    BY <1>6
  <2>2. object[key] = {old} /\ old \in ObjectRows /\ old.id < made /\ made' = made
    BY <1>1, <1>2, <1>6, <2>1
  <2>3. PICK row : row = IF pack = NoPack THEN old ELSE [old EXCEPT !.pack = pack]
    OBVIOUS
  <2>4. new = {row}
    BY <1>3, <1>6, <2>2, <2>3
  <2>5. row \in ObjectRows /\ row.id = old.id /\ row.pack = (IF pack = NoPack THEN old.pack ELSE pack)
        /\ (pack = NoPack => row = old)
    <3>1. CASE pack = NoPack
      BY <2>2, <2>3, <3>1
    <3>2. CASE pack # NoPack
      <4>1. old = [id |-> old.id, by |-> old.by, pack |-> old.pack] /\ old.id \in Nat /\ old.by \in {"customer", "pack"}
        BY <2>2 DEF ObjectRows
      <4>2. row = [old EXCEPT !.pack = pack]
        BY <2>3, <3>2
      <4>3. row = [id |-> old.id, by |-> old.by, pack |-> pack]
        BY <4>1, <4>2
      <4> QED
        BY <3>2, <4>1, <4>3 DEF ObjectRows
    <3> QED
      BY <3>1, <3>2
  <2>6. object' \in [ObjectKeys -> SUBSET ObjectRows]
    BY <1>1, <1>3, <2>4, <2>5
  <2>7. made' \in Nat /\ made' >= made
    BY <1>1, <2>2
  <2> QED
    BY <1>4, <2>2, <2>4, <2>5, <2>6, <2>7
<1> QED
  BY <1>5, <1>6

\* The keys that have an object stay finitely many.
LEMMA OneMoreKey ==
    ASSUME PackStoreTyped, NEW key, \A k \in ObjectKeys : k # key => object'[k] \subseteq object[k]
    PROVE  IsFiniteSet({k \in ObjectKeys : object'[k] # {}})
<1>1. PICK there : there = {k \in ObjectKeys : object[k] # {}}
  OBVIOUS
<1>2. IsFiniteSet(there \cup {key})
  BY <1>1, FS_AddElement DEF PackStoreTyped
<1>3. {k \in ObjectKeys : object'[k] # {}} \subseteq there \cup {key}
  BY <1>1
<1> QED
  BY <1>2, <1>3, FS_Subset

LEMMA WriteSampleKeeps ==
    ASSUME PackInv, NEW c \in PackCalls, WriteSample(c)
    PROVE  PackInv'
<1>1. PICK item : item = NextListed(c)
  OBVIOUS
<1>2. PICK key, pack : key = item.name /\ pack = IF item.op = "tag" THEN Pack(c) ELSE NoPack
  OBVIOUS
<1>3. /\ packCall[c].at = "working" /\ packCall[c].todo # << >> /\ item.op \in {"object", "tag"}
      /\ Upserted(key, pack) /\ made' = (IF object[key] = {} THEN made + 1 ELSE made) /\ Done(c) /\ Crowd(c)
      /\ UNCHANGED <<defined, evalCases, installations, deleted, demo>>
  BY <1>1, <1>2 DEF WriteSample
<1>4. PackStoreTyped /\ CallsInOrder /\ RecordsHold /\ DeletedWereTagged
  BY DEF PackInv
<1>5. PICK m \in Manifests : m = Request(c).manifest
  BY <1>1, <1>3, NextItem
<1>6. /\ key \in SamplesOf(m) /\ key \in ObjectKeys /\ pack \in Packs \cup {NoPack}
      /\ Pack(c) \in Packs /\ Pack(c) # NoPack /\ Pack(c) = m.pack
  BY <1>1, <1>2, <1>3, <1>5, NextItem DEF Pack
<1>7. /\ object' \in [ObjectKeys -> SUBSET ObjectRows] /\ made' \in Nat /\ made' >= made
      /\ \A k \in ObjectKeys : k # key => object'[k] = object[k]
      /\ \A row, other \in object'[key] : row.id < made' /\ row = other
      /\ \A row \in object'[key] : row.id < made =>
           \E old \in object[key] : old.id = row.id /\ row.pack = IF pack = NoPack THEN old.pack ELSE pack
      /\ \A row \in object'[key] : ~(row.id < made) => row.pack = pack
      /\ object'[key] # {} /\ (pack # NoPack => \A row \in object'[key] : row.pack = pack)
      /\ pack = NoPack => \A old \in object[key] : old \in object'[key]
  BY <1>3, <1>4, <1>6, UpsertRows
<1>8. /\ packCall' = [d \in PackCalls |-> packCall'[d]] /\ \A d \in PackCalls \ {c} : packCall'[d] = packCall[d]
      /\ packCall'[c].at = "working" /\ packCall'[c].request = packCall[c].request
  <2>1. packCall'[c] = [at |-> "working", request |-> packCall[c].request, todo |-> Tail(packCall[c].todo),
                        row |-> packCall[c].row]
    BY <1>3, DoneWith
  <2> QED
    BY <1>3, <2>1, DoneWith
<1>9. StoreGrows
  <2>1. ASSUME NEW k \in ObjectKeys, NEW row \in object'[k], row.id < made
        PROVE  \E old \in object[k] : old.id = row.id /\ (old.pack # NoPack => row.pack # NoPack)
    <3>1. CASE k = key
      BY <1>6, <1>7, <2>1, <3>1
    <3>2. CASE k # key
      BY <1>7, <3>2
    <3> QED
      BY <3>1, <3>2
  <2> QED
    BY <1>3, <1>4, <1>7, <2>1, LenProperties DEF StoreGrows, PackStoreTyped
<1>10. \A q \in Packs : (q = m.pack => Tagged(q) \subseteq Tagged(q)') /\ (q # m.pack => Tagged(q) \ {key} \subseteq Tagged(q)')
                        /\ (q # m.pack => Tagged(q)' \subseteq Tagged(q))
  <2> SUFFICES ASSUME NEW q \in Packs, NEW k \in ObjectKeys
               PROVE  /\ q = m.pack => (k \in Tagged(q) => k \in Tagged(q)')
                      /\ q # m.pack /\ k # key => (k \in Tagged(q) => k \in Tagged(q)')
                      /\ q # m.pack => (k \in Tagged(q)' => k \in Tagged(q))
    BY DEF Tagged
  <2>0. q # NoPack
    BY PackAssumption DEF Packs
  <2>1. /\ k \in Tagged(q) <=> \E row \in object[k] : row.pack = q
        /\ k \in Tagged(q)' <=> \E row \in object'[k] : row.pack = q
    BY DEF Tagged
  <2>2. CASE k # key
    BY <1>7, <2>1, <2>2
  <2>3. CASE k = key
    <3>1. q = m.pack => (k \in Tagged(q) => k \in Tagged(q)')
      <4>1. CASE pack = NoPack
        BY <1>7, <2>1, <2>3, <4>1
      <4>2. CASE pack # NoPack
        BY <1>2, <1>6, <1>7, <2>1, <2>3, <4>2
      <4> QED
        BY <4>1, <4>2
    <3>2. ASSUME q # m.pack, NEW row \in object'[k], row.pack = q PROVE \E old \in object[k] : old.pack = q
      <4>1. pack # q
        BY <1>2, <1>6, <2>0, <3>2
      <4>2. row.id < made
        BY <1>7, <2>3, <3>2, <4>1
      <4> QED
        BY <1>7, <2>3, <3>2, <4>1, <4>2
    <3> QED
      BY <2>1, <2>3, <3>1, <3>2
  <2> QED
    BY <2>2, <2>3
<1>11. CallsInOrder'
  <2>1. Tagged(Pack(c)) \subseteq Tagged(Pack(c))'
    <3>1. Pack(c)' = Pack(c)
      BY <1>8 DEF Pack, Request
    <3>2. Tagged(m.pack)' = Tagged(Pack(c))'
      BY <1>6, <3>1 DEF Tagged
    <3> QED
      BY <1>6, <1>10, <3>2
  <2>2. Accomplished(item, Pack(c))'
    <3>1. Pack(c)' = Pack(c)
      BY <1>8 DEF Pack, Request
    <3>2. item.op = "tag" => key \in Tagged(Pack(c))'
      BY <1>2, <1>6, <1>7, <3>1 DEF Tagged
    <3> QED
      BY <1>2, <1>3, <3>2 DEF Accomplished
  <2> QED
    BY <1>1, <1>3, <1>9, <2>1, <2>2, Advances
<1>12. PackStoreTyped'
  <2>1. IsFiniteSet({k \in ObjectKeys : object'[k] # {}})
    BY <1>4, <1>7, OneMoreKey
  <2>2. \A k \in ObjectKeys : \A row, other \in object'[k] : row.id < made' /\ row = other
    <3>1. ASSUME NEW k \in ObjectKeys, k # key, NEW row \in object'[k], NEW other \in object'[k]
          PROVE  row.id < made' /\ row = other
      <4>1. row.id < made /\ row = other /\ row.id \in Nat /\ made \in Nat
        BY <1>4, <1>7, <3>1 DEF PackStoreTyped, ObjectRows
      <4> QED
        BY <1>7, <4>1
    <3> QED
      BY <1>7, <3>1
  <2> QED
    BY <1>3, <1>4, <1>7, <1>8, <2>1, <2>2 DEF PackStoreTyped, Crowd
<1>13. RecordsHold'
  BY <1>3, <1>9, RecordsStay
<1>14. DeletedWereTagged'
  BY <1>3, <1>4 DEF DeletedWereTagged
<1>15. ASSUME ~crowded' PROVE (OneCallAtATime /\ InstalledOnce /\ DefinedOnce /\ DemosGone /\ DemosWhole)'
  <2>1. /\ OneCallAtATime' /\ InstalledOnce /\ DefinedOnce /\ DemosGone /\ DemosWhole
        /\ \A d \in PackCalls : packCall'[d].at \in {"working", "defining", "listing", "deleting"} => d = c
    BY <1>3, <1>8, <1>15, OnlyThisCall
  <2>2. \A p, versions : InstalledRows(p, versions)' = InstalledRows(p, versions)
    BY <1>3 DEF InstalledRows
  <2>3. InstalledOnce'
    <3>1. ASSUME NEW d \in PackCalls, packCall'[d].at \in {"working", "defining"}
          PROVE  demo'[Pack(d)'] = "some" /\ InstalledRows(Pack(d), {Request(d).manifest.version})' = {}
      BY <1>3, <1>8, <2>1, <2>2, <3>1 DEF Request, Pack, InstalledOnce
    <3> QED
      BY <1>3, <2>1, <3>1 DEF InstalledOnce
  <2>4. DefinedOnce' /\ \A d \in PackCalls : packCall'[d].at # "deleting"
    <3>1. \A d \in PackCalls : packCall'[d].at \notin {"defining", "deleting"}
      BY <1>8, <2>1
    <3> QED
      BY <1>3, <2>1, <3>1 DEF DefinedOnce
  <2>5. demo[m.pack] = "some"
    BY <1>3, <1>6, <2>1 DEF InstalledOnce
  <2>6. DemosGone'
    <3>1. ASSUME NEW p \in Packs, demo'[p] = "none" PROVE Tagged(p)' = {}
      <4>1. p # m.pack /\ Tagged(p) = {}
        BY <1>3, <2>1, <2>5, <3>1 DEF DemosGone
      <4>2. Tagged(p)' \subseteq Tagged(p)
        BY <1>10, <4>1
      <4> QED
        BY <4>1, <4>2
    <3> QED
      BY <2>4, <3>1 DEF DemosGone
  <2>7. DemosWhole'
    <3> SUFFICES ASSUME NEW n \in Manifests, demo[n.pack] = "whole", InstalledLast(n)
                 PROVE  OwnSamples(n) \subseteq Tagged(n.pack)'
      BY <1>3, <2>2 DEF DemosWhole, InstalledLast
    <3>1. n.pack # m.pack /\ n.pack \in Packs
      BY <2>5, ManifestFacts
    <3>2. key \notin OwnSamples(n)
      BY <1>6, <3>1 DEF OwnSamples
    <3>3. OwnSamples(n) \subseteq Tagged(n.pack)
      BY <2>1 DEF DemosWhole
    <3>4. Tagged(n.pack) \ {key} \subseteq Tagged(n.pack)'
      BY <1>10, <3>1
    <3> QED
      BY <3>2, <3>3, <3>4
  <2> QED
    BY <2>1, <2>3, <2>4, <2>6, <2>7
<1> QED
  BY <1>11, <1>12, <1>13, <1>14, <1>15 DEF PackInv, InTurn

LEMMA RecordInstallationKeeps ==
    ASSUME PackInv, NEW c \in PackCalls, RecordInstallation(c)
    PROVE  PackInv'
<1>1. /\ packCall[c].at = "working" /\ packCall[c].todo = << >> /\ Goes(c, "returned") /\ Crowd(c)
      /\ UNCHANGED <<object, defined, evalCases, made, deleted>>
  BY DEF RecordInstallation
<1>2. PackStoreTyped /\ CallsInOrder /\ RecordsHold /\ DeletedWereTagged
  BY DEF PackInv
<1>3. PackCallTyped(packCall[c], Len(installations)) /\ InstallsInOrder(c)
  BY <1>2 DEF CallsInOrder
<1>4. PICK m \in Manifests : m = Request(c).manifest
  BY <1>1, <1>3, RequestFacts DEF Request
<1>5. Pack(c) = m.pack /\ m.pack \in Packs /\ m.version \in AllVersions
  BY <1>4, ManifestFacts DEF Pack
<1>6. PICK row : row = [pack |-> m.pack, version |-> m.version, status |-> "installed"] /\ row \in InstallationRows
  <2>1. PICK row : row = [pack |-> m.pack, version |-> m.version, status |-> "installed"]
    OBVIOUS
  <2>2. row \in InstallationRows
    BY <1>5, <2>1 DEF InstallationRows
  <2> QED
    BY <2>1, <2>2
<1>7. row.pack = m.pack /\ row.version = m.version /\ row.status = "installed"
  BY <1>6
<1>8. installations' = Append(installations, row) /\ demo' = [demo EXCEPT ![m.pack] = "whole"]
  BY <1>4, <1>5, <1>6 DEF RecordInstallation
<1>9. PICK n \in Nat : n = Len(installations) /\ DOMAIN installations = 1 .. n
  BY <1>2, LenProperties DEF PackStoreTyped
<1>10. /\ installations' \in Seq(InstallationRows) /\ Len(installations') = n + 1 /\ DOMAIN installations' = 1 .. n + 1
       /\ installations'[n + 1] = row /\ \A i \in 1 .. n : installations'[i] = installations[i]
  <2>1. PICK rows \in Seq(InstallationRows) : rows = installations
    BY <1>2 DEF PackStoreTyped
  <2>2. PICK more : more = Append(rows, row)
    OBVIOUS
  <2>3. /\ more \in Seq(InstallationRows) /\ Len(more) = n + 1 /\ more[n + 1] = row
        /\ \A i \in 1 .. n : more[i] = rows[i]
    BY <1>6, <1>9, <2>1, <2>2, AppendProperties
  <2>4. DOMAIN more = 1 .. n + 1
    BY <2>3, LenProperties
  <2> QED
    BY <1>8, <2>1, <2>2, <2>3, <2>4
<1>11. \A i \in 1 .. n + 1 : i = n + 1 \/ i \in 1 .. n
  OBVIOUS
<1>12. demo' \in [Packs -> {"none", "some", "whole"}] /\ demo'[m.pack] = "whole"
       /\ \A p \in Packs : p # m.pack => demo'[p] = demo[p]
  BY <1>2, <1>5, <1>8 DEF PackStoreTyped
<1>13. StoreGrows
  BY <1>1, <1>2, <1>9, <1>10 DEF StoreGrows, PackStoreTyped
<1>14. /\ packCall' = [d \in PackCalls |-> packCall'[d]] /\ \A d \in PackCalls \ {c} : packCall'[d] = packCall[d]
       /\ packCall'[c] = [at |-> "returned", request |-> packCall[c].request, todo |-> packCall[c].todo,
                          row |-> packCall[c].row]
  BY <1>1, GoesOn
<1>15. packCall'[c].at = "returned" /\ packCall'[c].request = packCall[c].request
  BY <1>14
<1>16. CallsInOrder'
  <2>1. PackCallTyped(packCall'[c], Len(installations'))
    BY <1>1, <1>3, <1>14, <1>15 DEF PackCallTyped
  <2>2. InstallsInOrder(c)' /\ ListsDemoRows(c)'
    BY <1>15 DEF InstallsInOrder, ListsDemoRows
  <2> QED
    BY <1>1, <1>13, <1>14, <2>1, <2>2, CallsKept
<1>17. PackStoreTyped'
  BY <1>1, <1>2, <1>10, <1>12, <1>14 DEF PackStoreTyped, Crowd
\* Nothing of the installation is left to do.
<1>18. \A x \in ToSet(Installation(m)) : Accomplished(x, m.pack)
  <2>1. ToSet(packCall[c].todo) = {}
    BY <1>1 DEF ToSet
  <2> QED
    BY <1>1, <1>3, <1>4, <1>5, <2>1 DEF InstallsInOrder
<1>19. /\ \A d \in Definitions(m) : defined[d] > 0
       /\ \A s \in ToSet(m.suites) : evalCases[s] > 0
       /\ ~crowded => SamplesOf(m) \subseteq Tagged(m.pack)
  <2>1. ASSUME NEW d \in Definitions(m) PROVE defined[d] > 0
    <3>1. PICK x : x = [op |-> "define", name |-> d] /\ x \in ToSet(Installation(m))
      BY InstallationCovers
    <3> QED
      BY <1>18, <3>1 DEF Accomplished
  <2>2. ASSUME NEW s \in ToSet(m.suites) PROVE evalCases[s] > 0
    <3>1. PICK x : x = [op |-> "case", name |-> s] /\ x \in ToSet(Installation(m))
      BY InstallationCovers
    <3> QED
      BY <1>18, <3>1 DEF Accomplished
  <2>3. ASSUME NEW k \in SamplesOf(m), ~crowded PROVE k \in Tagged(m.pack)
    <3>1. PICK x : x = [op |-> "tag", name |-> k] /\ x \in ToSet(Installation(m))
      BY InstallationCovers
    <3> QED
      BY <1>18, <2>3, <3>1 DEF Accomplished
  <2> QED
    BY <2>1, <2>2, <2>3
<1>20. RecordsHold'
  <2> SUFFICES ASSUME NEW i \in 1 .. n + 1, NEW o \in Manifests,
                      o.pack = installations'[i].pack, o.version = installations'[i].version
               PROVE  /\ \A d \in Definitions(o) : defined[d] > 0
                      /\ \A s \in ToSet(o.suites) : evalCases[s] > 0
    BY <1>1, <1>10 DEF RecordsHold
  <2>1. CASE i = n + 1
    <3>1. o = m
      BY <1>7, <1>10, <2>1, PackAssumption
    <3> QED
      BY <1>19, <3>1
  <2>2. CASE i \in 1 .. n
    BY <1>2, <1>9, <1>10, <2>2 DEF RecordsHold
  <2> QED
    BY <1>11, <2>1, <2>2
<1>21. DeletedWereTagged'
  BY <1>1, <1>2 DEF DeletedWereTagged
<1>22. ASSUME ~crowded' PROVE (OneCallAtATime /\ InstalledOnce /\ DefinedOnce /\ DemosGone /\ DemosWhole)'
  <2>1. /\ ~crowded /\ OneCallAtATime' /\ InstalledOnce /\ DefinedOnce /\ DemosGone /\ DemosWhole
        /\ \A d \in PackCalls : packCall'[d].at \in {"working", "defining", "listing", "deleting"} => d = c
    BY <1>1, <1>14, <1>22, OnlyThisCall
  <2>2. \A d \in PackCalls : packCall'[d].at \notin {"working", "defining", "listing", "deleting"}
    BY <1>15, <2>1
  <2>3. \A p : Tagged(p)' = Tagged(p)
    BY <1>1 DEF Tagged
  <2>4. InstalledRows(m.pack, {m.version}) = {}
    BY <1>1, <1>4, <1>5, <2>1 DEF InstalledOnce
  <2>5. \A i \in 1 .. n : installations[i].pack = m.pack /\ installations[i].version = m.version
                          => installations[i].status # "installed"
    BY <1>9, <2>4 DEF InstalledRows
  <2>6. InstalledOnce'
    <3> SUFFICES ASSUME NEW i \in 1 .. n + 1, NEW j \in 1 .. n + 1,
                        installations'[i].status = "installed", installations'[j].status = "installed",
                        installations'[i].pack = installations'[j].pack,
                        installations'[i].version = installations'[j].version
                 PROVE  i = j
      BY <1>10, <2>2 DEF InstalledOnce
    <3>1. CASE i \in 1 .. n /\ j \in 1 .. n
      BY <1>9, <1>10, <2>1, <3>1 DEF InstalledOnce
    <3>2. CASE i = n + 1 /\ j \in 1 .. n
      BY <1>7, <1>10, <2>5, <3>2
    <3>3. CASE j = n + 1 /\ i \in 1 .. n
      BY <1>7, <1>10, <2>5, <3>3
    <3> QED
      BY <1>11, <3>1, <3>2, <3>3
  <2>7. DefinedOnce'
    BY <1>1, <2>1, <2>2 DEF DefinedOnce
  <2>8. DemosGone'
    <3>1. \A p \in Packs : demo'[p] = "none" => Tagged(p)' = {}
      BY <1>12, <2>1, <2>3 DEF DemosGone
    <3> QED
      BY <2>2, <3>1 DEF DemosGone
  <2>9. DemosWhole'
    <3> SUFFICES ASSUME NEW o \in Manifests, demo'[o.pack] = "whole", InstalledLast(o)'
                 PROVE  OwnSamples(o) \subseteq Tagged(o.pack)
      BY <2>3 DEF DemosWhole
    <3>1. PICK i \in 1 .. n + 1 :
            /\ installations'[i].pack = o.pack /\ installations'[i].version = o.version
            /\ installations'[i].status = "installed"
            /\ \A j \in 1 .. n + 1 : installations'[j].pack = o.pack => j <= i
      BY <1>10 DEF InstalledLast, InstalledRows
    <3>2. CASE o.pack = m.pack
      <4>1. n + 1 \in 1 .. n + 1 /\ n + 1 <= i
        BY <1>7, <1>10, <3>1, <3>2
      <4>2. i = n + 1
        BY <4>1
      <4>3. o = m
        BY <1>7, <1>10, <3>1, <4>2, PackAssumption
      <4> QED
        BY <1>19, <2>1, <4>3 DEF OwnSamples
    <3>3. CASE o.pack # m.pack
      <4>1. i \in 1 .. n
        BY <1>7, <1>10, <1>11, <3>1, <3>3
      <4>2. i \in InstalledRows(o.pack, {o.version})
        BY <1>9, <1>10, <3>1, <4>1 DEF InstalledRows
      <4>3. \A j \in 1 .. n : installations[j].pack = o.pack => j <= i
        BY <1>10, <3>1
      <4>4. InstalledLast(o)
        BY <1>9, <4>2, <4>3 DEF InstalledLast
      <4>5. demo[o.pack] = "whole"
        BY <1>12, <3>3, ManifestFacts
      <4> QED
        BY <2>1, <4>4, <4>5 DEF DemosWhole
    <3> QED
      BY <3>2, <3>3
  <2> QED
    BY <2>1, <2>6, <2>7, <2>8, <2>9
<1> QED
  BY <1>16, <1>17, <1>20, <1>21, <1>22 DEF PackInv, InTurn

LEMMA BeginRemovalKeeps ==
    ASSUME PackInv, NEW c \in PackCalls, NEW request \in PackRequests, BeginRemoval(c, request)
    PROVE  PackInv'
<1>1. /\ request.op \in {"uninstall", "reset"} /\ request.removeDemo \in BOOLEAN /\ Crowd(c)
      /\ UNCHANGED <<object, defined, evalCases, installations, made, deleted, demo>>
  BY PackAssumption DEF BeginRemoval
<1>2. PackStoreTyped /\ CallsInOrder /\ RecordsHold /\ DeletedWereTagged
  BY DEF PackInv
<1>3. PICK n \in Nat : n = Len(installations) /\ DOMAIN installations = 1 .. n
  BY <1>2, LenProperties DEF PackStoreTyped
<1>4. PICK rows : rows = InstalledRows(request.manifest.pack, AllVersions)
  OBVIOUS
<1>5. PICK first : first = CHOOSE i \in rows : \A k \in rows : i <= k
  OBVIOUS
<1>6. rows # {} => first \in 1 .. n
  <2>1. rows \subseteq 1 .. n
    BY <1>3, <1>4 DEF InstalledRows
  <2>2. ASSUME rows # {} PROVE \E i \in rows : \A k \in rows : i <= k
    <3>1. rows \subseteq Nat
      BY <2>1
    <3> QED
      BY <2>2, <3>1, LeastNatural
  <2> QED
    BY <1>5, <2>1, <2>2
<1>7. PICK to : /\ packCall' = [packCall EXCEPT ![c] = to]
                /\ to = [at |-> to.at, request |-> request, todo |-> << >>, row |-> to.row]
                /\ to.at \in {"listing", "deleting", "rejected"}
                /\ to.at = "listing" => RemovesDemo(request)
                /\ to.at = "deleting" => ~RemovesDemo(request)
                /\ to.at # "rejected" /\ request.op # "reset" => to.row \in 1 .. n
  <2>1. PICK idle : idle = IdlePackCall /\ idle = [at |-> "idle", request |-> NoPack, todo |-> << >>, row |-> 0]
    BY DEF IdlePackCall
  <2>2. PICK call : call = [idle EXCEPT !.request = request]
    OBVIOUS
  <2>3. call = [at |-> "idle", request |-> request, todo |-> << >>, row |-> 0]
    BY <2>1, <2>2
  <2>4. packCall' = [packCall EXCEPT ![c] =
             IF request.op = "reset" THEN [call EXCEPT !.at = "listing"]
             ELSE IF rows = {} THEN [call EXCEPT !.at = "rejected"]
             ELSE [call EXCEPT !.row = first, !.at = IF request.removeDemo THEN "listing" ELSE "deleting"]]
    BY <1>4, <1>5, <2>1, <2>2 DEF BeginRemoval
  <2>5. CASE request.op = "reset"
    <3>1. PICK to : to = [call EXCEPT !.at = "listing"]
      OBVIOUS
    <3>2. to = [at |-> "listing", request |-> request, todo |-> << >>, row |-> 0]
      BY <2>3, <3>1
    <3>3. to.at = "listing" /\ to.row = 0 /\ packCall' = [packCall EXCEPT ![c] = to]
      BY <2>4, <2>5, <3>1, <3>2
    <3> QED
      BY <2>5, <3>2, <3>3 DEF RemovesDemo
  <2>6. CASE request.op # "reset" /\ rows = {}
    <3>1. PICK to : to = [call EXCEPT !.at = "rejected"]
      OBVIOUS
    <3>2. to = [at |-> "rejected", request |-> request, todo |-> << >>, row |-> 0]
      BY <2>3, <3>1
    <3>3. to.at = "rejected" /\ to.row = 0 /\ packCall' = [packCall EXCEPT ![c] = to]
      BY <2>4, <2>6, <3>1, <3>2
    <3> QED
      BY <3>2, <3>3
  <2>7. CASE request.op # "reset" /\ rows # {}
    <3>1. PICK at : at = IF request.removeDemo THEN "listing" ELSE "deleting"
      OBVIOUS
    <3>2. PICK to : to = [call EXCEPT !.row = first, !.at = at]
      OBVIOUS
    <3>3. to = [at |-> at, request |-> request, todo |-> << >>, row |-> first]
      BY <2>3, <3>2
    <3>4. to.at = at /\ to.row = first /\ packCall' = [packCall EXCEPT ![c] = to]
      BY <2>4, <2>7, <3>1, <3>2, <3>3
    <3>5. at \in {"listing", "deleting"} /\ (at = "listing" <=> request.removeDemo)
      BY <3>1
    <3>6. (at = "listing" => RemovesDemo(request)) /\ (at = "deleting" => ~RemovesDemo(request))
      BY <2>7, <3>5 DEF RemovesDemo
    <3>7. to.row \in 1 .. n
      BY <1>6, <2>7, <3>4
    <3> QED
      BY <3>3, <3>4, <3>5, <3>6, <3>7
  <2> QED
    BY <1>1, <2>5, <2>6, <2>7
<1>8. /\ packCall' = [d \in PackCalls |-> packCall'[d]] /\ packCall'[c] = to
      /\ \A d \in PackCalls \ {c} : packCall'[d] = packCall[d]
  BY <1>7, CallMoves
<1>9. to.request = request /\ to.todo = << >>
  BY <1>7
<1>10. StoreGrows
  BY <1>1, <1>2, <1>3 DEF StoreGrows, PackStoreTyped
<1>11. CallsInOrder'
  <2>1. PackCallTyped(to, Len(installations'))
    BY <1>1, <1>3, <1>7, <1>9, EmptySeq DEF PackCallTyped
  <2>2. InstallsInOrder(c)'
    BY <1>7, <1>8 DEF InstallsInOrder
  <2>3. ToSet(<< >>) = {}
    BY DEF ToSet
  <2>4. ListsDemoRows(c)'
    BY <1>8, <1>9, <2>3 DEF ListsDemoRows
  <2> QED
    BY <1>1, <1>8, <1>10, <2>1, <2>2, <2>4, CallsKept
<1>12. PackStoreTyped'
  BY <1>1, <1>2, <1>8 DEF PackStoreTyped, Crowd
<1>13. RecordsHold' /\ DeletedWereTagged'
  BY <1>1, <1>2 DEF RecordsHold, DeletedWereTagged
<1>14. ASSUME ~crowded' PROVE (OneCallAtATime /\ InstalledOnce /\ DefinedOnce /\ DemosGone /\ DemosWhole)'
  <2>1. /\ OneCallAtATime' /\ InstalledOnce /\ DefinedOnce /\ DemosGone /\ DemosWhole
        /\ \A d \in PackCalls : packCall'[d].at \in {"working", "defining", "listing", "deleting"} => d = c
    BY <1>1, <1>8, <1>14, OnlyThisCall
  <2>2. \A d \in PackCalls : packCall'[d].at \notin {"working", "defining"}
    BY <1>7, <1>8, <2>1
  <2>3. /\ \A p, versions : InstalledRows(p, versions)' = InstalledRows(p, versions)
        /\ \A p : Tagged(p)' = Tagged(p)
    BY <1>1 DEF InstalledRows, Tagged
  <2>4. InstalledOnce' /\ DefinedOnce'
    BY <1>1, <2>1, <2>2 DEF InstalledOnce, DefinedOnce
  <2>5. DemosGone'
    <3>1. \A d \in PackCalls : packCall'[d].at = "deleting" => ~RemovesDemo(Request(d)')
      BY <1>7, <1>8, <1>9, <2>1 DEF Request
    <3>2. \A d \in PackCalls : RemovesDemo(Request(d))' = RemovesDemo(Request(d)')
      BY DEF RemovesDemo
    <3> QED
      BY <1>1, <2>1, <2>3, <3>1, <3>2 DEF DemosGone
  <2>6. DemosWhole'
    BY <1>1, <2>1, <2>3 DEF DemosWhole, InstalledLast
  <2> QED
    BY <2>1, <2>4, <2>5, <2>6
<1> QED
  BY <1>11, <1>12, <1>13, <1>14 DEF PackInv, InTurn

LEMMA ListDemoObjectsKeeps ==
    ASSUME PackInv, NEW c \in PackCalls, ListDemoObjects(c)
    PROVE  PackInv'
<1>1. PICK p : p = Pack(c)
  OBVIOUS
<1>2. PICK listed : listed = UNION {{[key |-> k, row |-> row] : row \in object[k]} : k \in Tagged(p)}
  OBVIOUS
<1>3. /\ packCall[c].at = "listing" /\ Crowd(c) /\ demo' = [demo EXCEPT ![p] = "some"]
      /\ packCall' = [packCall EXCEPT ![c].at = "deleting", ![c].todo = SetToSeq(listed)]
      /\ UNCHANGED <<object, defined, evalCases, installations, made, deleted>>
  BY <1>1, <1>2, Zenon DEF ListDemoObjects
<1>4. PackStoreTyped /\ CallsInOrder /\ RecordsHold /\ DeletedWereTagged
  BY DEF PackInv
<1>5. PackCallTyped(packCall[c], Len(installations))
  BY <1>4 DEF CallsInOrder
<1>6. p \in Packs /\ p # NoPack /\ packCall[c].request \in PackRequests
  BY <1>1, <1>3, <1>5, RequestFacts DEF Pack, Request
<1>7. PICK call, todo : call = packCall[c] /\ todo = SetToSeq(listed)
  OBVIOUS
<1>8. PICK to : /\ packCall' = [packCall EXCEPT ![c] = to]
                /\ to = [at |-> "deleting", request |-> call.request, todo |-> todo, row |-> call.row]
  <2>1. call = [at |-> call.at, request |-> call.request, todo |-> call.todo, row |-> call.row]
    BY <1>5, <1>7 DEF PackCallTyped
  <2>2. packCall = [d \in PackCalls |-> packCall[d]]
    BY <1>4 DEF PackStoreTyped
  <2>3. PICK one : one = [call EXCEPT !.at = "deleting"]
    OBVIOUS
  <2>4. one = [at |-> "deleting", request |-> call.request, todo |-> call.todo, row |-> call.row]
    BY <2>1, <2>3
  <2>5. PICK to : to = [one EXCEPT !.todo = todo]
    OBVIOUS
  <2>6. to = [at |-> "deleting", request |-> call.request, todo |-> todo, row |-> call.row]
    BY <2>4, <2>5
  <2>7. packCall' = [packCall EXCEPT ![c] = to]
    BY <1>3, <1>7, <2>2, <2>3, <2>4, <2>5
  <2> QED
    BY <2>6, <2>7
<1>9. /\ packCall' = [d \in PackCalls |-> packCall'[d]] /\ packCall'[c] = to
      /\ \A d \in PackCalls \ {c} : packCall'[d] = packCall[d]
  BY <1>8, CallMoves
<1>10. to.at = "deleting" /\ to.request = packCall[c].request /\ to.todo = todo /\ to.row = packCall[c].row
  BY <1>7, <1>8
<1>11. \A k \in Tagged(p) : k \in ObjectKeys /\ \A row \in object[k] : row.pack = p /\ row.id < made /\ row \in ObjectRows
  <2> SUFFICES ASSUME NEW k \in Tagged(p), NEW row \in object[k]
               PROVE  row.pack = p /\ row.id < made /\ row \in ObjectRows
    BY DEF Tagged
  <2>1. k \in ObjectKeys
    BY DEF Tagged
  <2>2. PICK one \in object[k] : one.pack = p
    BY DEF Tagged
  <2>3. row = one /\ row.id < made /\ row \in ObjectRows
    BY <1>4, <2>1, <2>2 DEF PackStoreTyped
  <2> QED
    BY <2>2, <2>3
<1>12. IsFiniteSet(listed) /\ listed \subseteq ListingRows
  <2>1. IsFiniteSet(Tagged(p))
    <3>1. Tagged(p) \subseteq {k \in ObjectKeys : object[k] # {}}
      BY DEF Tagged
    <3> QED
      BY <1>4, <3>1, FS_Subset DEF PackStoreTyped
  <2>2. PICK f : f = [k \in Tagged(p) |-> [key |-> k, row |-> CHOOSE row \in object[k] : TRUE]]
    OBVIOUS
  <2>3. \A k \in Tagged(p) : \A row \in object[k] : f[k] = [key |-> k, row |-> row]
    <3> SUFFICES ASSUME NEW k \in Tagged(p), NEW row \in object[k] PROVE f[k] = [key |-> k, row |-> row]
      OBVIOUS
    <3>1. \A one \in object[k] : one = row
      BY <1>4, <1>11 DEF PackStoreTyped
    <3>2. (CHOOSE one \in object[k] : TRUE) = row
      BY <3>1
    <3> QED
      BY <2>2, <3>2
  <2>4. \A k \in Tagged(p) : f[k] \in listed
    <3> SUFFICES ASSUME NEW k \in Tagged(p) PROVE f[k] \in listed
      OBVIOUS
    <3>1. PICK row \in object[k] : row.pack = p
      BY DEF Tagged
    <3>2. PICK y : y = [key |-> k, row |-> row]
      OBVIOUS
    <3>3. y \in {[key |-> k, row |-> one] : one \in object[k]}
      BY <3>2
    <3>4. y \in listed
      BY <1>2, <3>3
    <3> QED
      BY <2>3, <3>2, <3>4
  <2>5. f \in [Tagged(p) -> listed]
    BY <2>2, <2>4
  <2>6. \A x \in listed : \E k \in Tagged(p) : f[k] = x
    BY <1>2, <2>3
  <2>7. f \in Surjection(Tagged(p), listed)
    BY <2>5, <2>6 DEF Surjection
  <2>8. IsFiniteSet(listed)
    BY <2>1, <2>7, FS_Surjection
  <2>9. listed \subseteq ListingRows
    BY <1>2, <1>11 DEF ListingRows
  <2> QED
    BY <2>8, <2>9
<1>13. todo \in Seq(listed) /\ ToSet(todo) = listed
  BY <1>7, <1>12, ListedElements
<1>14. todo \in Seq(ListingRows)
  BY <1>12, <1>13, SeqMonotonic
<1>15. \A x \in listed : x.key \in Tagged(p) /\ x.row \in object[x.key]
  BY <1>2
<1>16. StoreGrows
  BY <1>3, <1>4, LenProperties DEF StoreGrows, PackStoreTyped
<1>17. Pack(c)' = p /\ Request(c)' = Request(c)
  BY <1>1, <1>9, <1>10 DEF Pack, Request
<1>18. CallsInOrder'
  <2>1. PackCallTyped(to, Len(installations'))
    <3>1. RemovesDemo(packCall[c].request)
      BY <1>3, <1>5 DEF PackCallTyped
    <3> QED
      BY <1>3, <1>5, <1>7, <1>8, <1>10, <1>14, <3>1 DEF PackCallTyped
  <2>2. InstallsInOrder(c)'
    BY <1>9, <1>10 DEF InstallsInOrder
  <2>3. ListsDemoRows(c)'
    <3>1. \A x \in listed : x.row.id < made' /\ \A row \in object'[x.key] : row.pack = Pack(c)'
      BY <1>3, <1>11, <1>15, <1>17
    <3>2. Pack(c)' # NoPack /\ ToSet(packCall'[c].todo) = listed
      BY <1>6, <1>9, <1>10, <1>13, <1>17
    <3> QED
      BY <3>1, <3>2 DEF ListsDemoRows
  <2> QED
    BY <1>3, <1>9, <1>16, <2>1, <2>2, <2>3, CallsKept
<1>19. PackStoreTyped'
  BY <1>3, <1>4, <1>9, ZenonT(60) DEF PackStoreTyped, Crowd
<1>20. RecordsHold' /\ DeletedWereTagged'
  BY <1>3, <1>4 DEF RecordsHold, DeletedWereTagged
<1>21. ASSUME ~crowded' PROVE (OneCallAtATime /\ InstalledOnce /\ DefinedOnce /\ DemosGone /\ DemosWhole)'
  <2>1. /\ OneCallAtATime' /\ InstalledOnce /\ DefinedOnce /\ DemosGone /\ DemosWhole
        /\ \A d \in PackCalls : packCall'[d].at \in {"working", "defining", "listing", "deleting"} => d = c
    BY <1>3, <1>9, <1>21, OnlyThisCall
  <2>2. \A d \in PackCalls : packCall'[d].at \notin {"working", "defining"}
    BY <1>9, <1>10, <2>1
  <2>3. /\ \A q, versions : InstalledRows(q, versions)' = InstalledRows(q, versions)
        /\ \A q : Tagged(q)' = Tagged(q)
    BY <1>3 DEF InstalledRows, Tagged
  <2>4. InstalledOnce' /\ DefinedOnce'
    BY <1>3, <2>1, <2>2 DEF InstalledOnce, DefinedOnce
  <2>5. demo'[p] = "some" /\ \A q \in Packs : q # p => demo'[q] = demo[q]
    BY <1>3, <1>4, <1>6 DEF PackStoreTyped
  <2>6. DemosGone'
    <3>1. \A q \in Packs : demo'[q] = "none" => Tagged(q)' = {}
      BY <2>1, <2>3, <2>5 DEF DemosGone
    <3>2. \A k \in Tagged(p) : \A row \in object[k] : [key |-> k, row |-> row] \in ToSet(packCall'[c].todo)
      BY <1>2, <1>9, <1>10, <1>13
    <3>3. ASSUME NEW d \in PackCalls, packCall'[d].at = "deleting"
          PROVE  /\ demo'[Pack(d)'] = "some"
                 /\ \A k \in Tagged(Pack(d))' : \A row \in object'[k] :
                      [key |-> k, row |-> row] \in ToSet(packCall'[d].todo)
      <4>1. d = c
        BY <2>1, <3>3
      <4>2. Tagged(Pack(c))' = Tagged(p)
        BY <1>3, <1>17 DEF Tagged
      <4> QED
        BY <1>3, <1>17, <2>5, <3>2, <4>1, <4>2
    <3> QED
      BY <3>1, <3>3 DEF DemosGone
  <2>7. DemosWhole'
    <3>1. \A n \in Manifests : demo'[n.pack] = "whole" => demo[n.pack] = "whole"
      BY <2>5, ManifestFacts
    <3> QED
      BY <1>3, <2>1, <2>3, <3>1 DEF DemosWhole, InstalledLast
  <2> QED
    BY <2>1, <2>4, <2>6, <2>7
<1> QED
  BY <1>18, <1>19, <1>20, <1>21 DEF PackInv, InTurn

LEMMA DeleteDemoObjectKeeps ==
    ASSUME PackInv, NEW c \in PackCalls, DeleteDemoObject(c)
    PROVE  PackInv'
<1>1. PICK x : x = NextListed(c)
  OBVIOUS
<1>2. PICK gone : gone = {row \in object[x.key] : row.id = x.row.id}
  OBVIOUS
<1>3. /\ packCall[c].at = "deleting" /\ packCall[c].todo # << >> /\ Crowd(c)
      /\ deleted' = deleted \cup gone /\ object' = [object EXCEPT ![x.key] = object[x.key] \ gone]
      /\ packCall' = [packCall EXCEPT ![c].todo = Tail(@)]
      /\ UNCHANGED <<defined, evalCases, installations, made, demo>>
  BY <1>1, <1>2 DEF DeleteDemoObject
<1>4. PackStoreTyped /\ CallsInOrder /\ RecordsHold /\ DeletedWereTagged
  BY DEF PackInv
<1>5. PackCallTyped(packCall[c], Len(installations)) /\ ListsDemoRows(c)
  BY <1>4 DEF CallsInOrder
<1>6. PICK call : call = packCall[c]
  OBVIOUS
<1>7. /\ call = [at |-> call.at, request |-> call.request, todo |-> call.todo, row |-> call.row]
      /\ call.at = "deleting" /\ call.todo \in Seq(ListingRows) /\ call.todo # << >> /\ RemovesDemo(call.request)
  BY <1>3, <1>5, <1>6 DEF PackCallTyped
<1>8. /\ x \in ListingRows /\ x \in ToSet(call.todo) /\ Tail(call.todo) \in Seq(ListingRows)
      /\ ToSet(call.todo) = {x} \cup ToSet(Tail(call.todo))
  BY <1>1, <1>6, <1>7, RestOf DEF NextListed
<1>9. x.key \in ObjectKeys
  BY <1>8 DEF ListingRows
<1>10. PICK to : /\ packCall' = [packCall EXCEPT ![c] = to]
                 /\ to = [at |-> "deleting", request |-> call.request, todo |-> Tail(call.todo), row |-> call.row]
  <2>1. PICK to : to = [call EXCEPT !.todo = Tail(call.todo)]
    OBVIOUS
  <2>2. to = [at |-> "deleting", request |-> call.request, todo |-> Tail(call.todo), row |-> call.row]
    BY <1>7, <2>1
  <2>3. packCall' = [packCall EXCEPT ![c] = to]
    BY <1>3, <1>6, <2>1
  <2> QED
    BY <2>2, <2>3
<1>11. /\ packCall' = [d \in PackCalls |-> packCall'[d]] /\ packCall'[c] = to
       /\ \A d \in PackCalls \ {c} : packCall'[d] = packCall[d]
  BY <1>10, CallMoves
<1>12. to.at = "deleting" /\ to.request = call.request /\ to.todo = Tail(call.todo) /\ to.row = call.row
  BY <1>10
<1>13. /\ object' \in [ObjectKeys -> SUBSET ObjectRows] /\ object'[x.key] = object[x.key] \ gone
       /\ \A k \in ObjectKeys : object'[k] \subseteq object[k] /\ (k # x.key => object'[k] = object[k])
  <2>1. object \in [ObjectKeys -> SUBSET ObjectRows]
    BY <1>4 DEF PackStoreTyped
  <2>2. object' \in [ObjectKeys -> SUBSET ObjectRows]
    BY <1>3, <1>9, <2>1
  <2>3. object'[x.key] = object[x.key] \ gone /\ \A k \in ObjectKeys : k # x.key => object'[k] = object[k]
    BY <1>3, <1>9, <2>1
  <2> QED
    BY <2>2, <2>3
<1>14. Pack(c)' = Pack(c) /\ Request(c)' = Request(c) /\ Request(c) = call.request
  BY <1>6, <1>11, <1>12 DEF Pack, Request
<1>15. \A y \in ToSet(call.todo) :
         y.row.id < made /\ \A row \in object[y.key] : row.id = y.row.id => row.pack # NoPack /\ (~crowded => row.pack = Pack(c))
  BY <1>3, <1>5, <1>6 DEF ListsDemoRows
<1>16. StoreGrows
  BY <1>3, <1>4, <1>13, LenProperties DEF StoreGrows, PackStoreTyped
<1>17. CallsInOrder'
  <2>1. PackCallTyped(to, Len(installations'))
    BY <1>3, <1>5, <1>6, <1>7, <1>8, <1>10, <1>12 DEF PackCallTyped
  <2>2. InstallsInOrder(c)'
    BY <1>11, <1>12 DEF InstallsInOrder
  <2>3. ListsDemoRows(c)'
    <3> SUFFICES ASSUME NEW y \in ToSet(Tail(call.todo))
                 PROVE  /\ y.row.id < made
                        /\ \A row \in object'[y.key] :
                             row.id = y.row.id => row.pack # NoPack /\ (~crowded' => row.pack = Pack(c))
      BY <1>3, <1>11, <1>12, <1>14, ZenonT(60) DEF ListsDemoRows
    <3>1. y \in ListingRows /\ y \in ToSet(call.todo)
      BY <1>8, ItemsAreTyped
    <3>2. object'[y.key] \subseteq object[y.key]
      BY <1>13, <3>1 DEF ListingRows
    <3>3. crowded => crowded'
      BY <1>3 DEF Crowd
    <3> QED
      BY <1>15, <3>1, <3>2, <3>3
  <2> QED
    BY <1>3, <1>11, <1>16, <2>1, <2>2, <2>3, CallsKept
<1>18. PackStoreTyped'
  <2>1. IsFiniteSet({k \in ObjectKeys : object'[k] # {}})
    BY <1>4, <1>13, OneMoreKey
  <2>2. \A k \in ObjectKeys : \A row, other \in object'[k] : row.id < made /\ row = other
    BY <1>4, <1>13 DEF PackStoreTyped
  <2> QED
    BY <1>3, <1>4, <1>11, <1>13, <2>1, <2>2 DEF PackStoreTyped, Crowd
<1>19. RecordsHold'
  BY <1>3, <1>4 DEF RecordsHold
<1>20. DeletedWereTagged'
  BY <1>2, <1>3, <1>4, <1>8, <1>15 DEF DeletedWereTagged
<1>21. ASSUME ~crowded' PROVE (OneCallAtATime /\ InstalledOnce /\ DefinedOnce /\ DemosGone /\ DemosWhole)'
  <2>1. /\ ~crowded /\ OneCallAtATime' /\ InstalledOnce /\ DefinedOnce /\ DemosGone /\ DemosWhole
        /\ \A d \in PackCalls : packCall'[d].at \in {"working", "defining", "listing", "deleting"} => d = c
    BY <1>3, <1>11, <1>21, OnlyThisCall
  <2>2. \A d \in PackCalls : packCall'[d].at \notin {"working", "defining"}
    BY <1>11, <1>12, <2>1
  <2>3. \A q, versions : InstalledRows(q, versions)' = InstalledRows(q, versions)
    BY <1>3 DEF InstalledRows
  <2>4. InstalledOnce' /\ DefinedOnce'
    BY <1>3, <2>1, <2>2 DEF InstalledOnce, DefinedOnce
  <2>5. \A q : Tagged(q)' \subseteq Tagged(q)
    BY <1>13 DEF Tagged
  <2>6. /\ demo[Pack(c)] = "some"
        /\ \A k \in Tagged(Pack(c)) : \A row \in object[k] : [key |-> k, row |-> row] \in ToSet(call.todo)
    BY <1>3, <1>6, <1>7, <1>14, <2>1 DEF DemosGone
  <2>7. DemosGone'
    <3>1. \A q \in Packs : demo'[q] = "none" => Tagged(q)' = {}
      BY <1>3, <2>1, <2>5 DEF DemosGone
    <3>2. ASSUME NEW k \in Tagged(Pack(c)), NEW row \in object'[k], k \in ObjectKeys
          PROVE  [key |-> k, row |-> row] \in ToSet(Tail(call.todo))
      <4>1. PICK y : y = [key |-> k, row |-> row]
        OBVIOUS
      <4>2. y.key = k /\ y.row = row /\ row \in object[k]
        BY <1>13, <3>2, <4>1
      <4>3. y \in ToSet(call.todo)
        BY <2>6, <4>1, <4>2
      <4>4. y # x
        BY <1>2, <1>13, <3>2, <4>2
      <4> QED
        BY <1>8, <4>1, <4>3, <4>4
    <3>3. ASSUME NEW d \in PackCalls, packCall'[d].at = "deleting"
          PROVE  /\ demo'[Pack(d)'] = "some"
                 /\ \A k \in Tagged(Pack(d))' : \A row \in object'[k] :
                      [key |-> k, row |-> row] \in ToSet(packCall'[d].todo)
      <4>1. d = c
        BY <2>1, <3>3
      <4>2. \A k \in Tagged(Pack(c))' : k \in Tagged(Pack(c)) /\ k \in ObjectKeys
        BY <1>14, <1>13 DEF Tagged
      <4> QED
        BY <1>3, <1>11, <1>12, <1>14, <2>6, <3>2, <4>1, <4>2
    <3> QED
      BY <3>1, <3>3 DEF DemosGone
  <2>8. DemosWhole'
    <3> SUFFICES ASSUME NEW n \in Manifests, demo[n.pack] = "whole", InstalledLast(n), NEW k \in OwnSamples(n)
                 PROVE  k \in Tagged(n.pack)'
      BY <1>3, <2>3 DEF DemosWhole, InstalledLast
    <3>1. n.pack # Pack(c)
      BY <2>6
    <3>2. PICK row \in object[k] : row.pack = n.pack /\ k \in ObjectKeys
      BY <2>1 DEF DemosWhole, Tagged
    <3>3. row \in object'[k]
      BY <1>2, <1>8, <1>13, <1>15, <2>1, <3>1, <3>2
    <3> QED
      BY <3>2, <3>3 DEF Tagged
  <2> QED
    BY <2>1, <2>4, <2>7, <2>8
<1> QED
  BY <1>17, <1>18, <1>19, <1>20, <1>21 DEF PackInv, InTurn

LEMMA EndRemovalKeeps ==
    ASSUME PackInv, NEW c \in PackCalls, EndRemoval(c)
    PROVE  PackInv'
<1>1. PICK p, r : p = Pack(c) /\ r = Request(c)
  OBVIOUS
<1>2. /\ packCall[c].at = "deleting" /\ packCall[c].todo = << >> /\ Goes(c, "returned") /\ Crowd(c)
      /\ installations' = IF r.op = "reset" THEN installations
                          ELSE [installations EXCEPT ![packCall[c].row].status = "uninstalled"]
      /\ demo' = [demo EXCEPT ![p] = IF r.op = "reset" \/ r.removeDemo THEN "none" ELSE demo[p]]
      /\ UNCHANGED <<object, defined, evalCases, made, deleted>>
  BY <1>1 DEF EndRemoval
<1>3. PackStoreTyped /\ CallsInOrder /\ RecordsHold /\ DeletedWereTagged
  BY DEF PackInv
<1>4. PackCallTyped(packCall[c], Len(installations))
  BY <1>3 DEF CallsInOrder
<1>5. p \in Packs /\ packCall[c].request \in PackRequests /\ r = packCall[c].request
  BY <1>1, <1>2, <1>4, RequestFacts DEF Pack, Request
<1>6. PICK n \in Nat : n = Len(installations) /\ DOMAIN installations = 1 .. n
  BY <1>3, LenProperties DEF PackStoreTyped
<1>7. /\ installations' \in Seq(InstallationRows) /\ Len(installations') = n /\ DOMAIN installations' = 1 .. n
      /\ \A i \in 1 .. n : /\ installations'[i].pack = installations[i].pack
                           /\ installations'[i].version = installations[i].version
                           /\ installations'[i].status = "installed" => installations[i].status = "installed"
  <2>1. CASE r.op = "reset"
    BY <1>2, <1>3, <1>6, <2>1 DEF PackStoreTyped
  <2>2. CASE r.op # "reset"
    <3>1. PICK q \in 1 .. n : q = packCall[c].row
      BY <1>2, <1>4, <1>5, <1>6, <2>2 DEF PackCallTyped
    <3>2. PICK rows \in Seq(InstallationRows) : rows = installations
      BY <1>3 DEF PackStoreTyped
    <3>3. rows \in [1 .. n -> InstallationRows]
      BY <1>6, <3>2, LenProperties
    <3>4. PICK old \in InstallationRows : old = rows[q]
      BY <3>3
    <3>5. old = [pack |-> old.pack, version |-> old.version, status |-> old.status]
          /\ old.pack \in Packs /\ old.version \in AllVersions
      BY DEF InstallationRows
    <3>6. PICK new : new = [old EXCEPT !.status = "uninstalled"]
      OBVIOUS
    <3>7. new = [pack |-> old.pack, version |-> old.version, status |-> "uninstalled"]
      BY <3>5, <3>6
    <3>8. new \in InstallationRows /\ new.pack = old.pack /\ new.version = old.version /\ new.status = "uninstalled"
      BY <3>5, <3>7 DEF InstallationRows
    <3>9. PICK more : more = [rows EXCEPT ![q] = new]
      OBVIOUS
    <3>10. more \in [1 .. n -> InstallationRows]
      BY <3>3, <3>8, <3>9
    <3>11. more[q] = new /\ \A i \in 1 .. n : i # q => more[i] = rows[i]
      BY <3>3, <3>9
    <3>12. more \in Seq(InstallationRows) /\ Len(more) = n /\ DOMAIN more = 1 .. n
      BY <3>10
    <3>13. installations' = more
      BY <1>2, <2>2, <3>1, <3>2, <3>4, <3>6, <3>9
    <3> QED
      BY <3>2, <3>4, <3>8, <3>11, <3>12, <3>13
  <2> QED
    BY <2>1, <2>2
<1>8. demo' \in [Packs -> {"none", "some", "whole"}] /\ (RemovesDemo(r) => demo'[p] = "none")
      /\ (~RemovesDemo(r) => demo'[p] = demo[p]) /\ \A q \in Packs : q # p => demo'[q] = demo[q]
  BY <1>2, <1>3, <1>5 DEF PackStoreTyped, RemovesDemo
<1>9. StoreGrows
  BY <1>2, <1>3, <1>6, <1>7 DEF StoreGrows, PackStoreTyped
<1>10. /\ packCall' = [d \in PackCalls |-> packCall'[d]] /\ \A d \in PackCalls \ {c} : packCall'[d] = packCall[d]
       /\ packCall'[c] = [at |-> "returned", request |-> packCall[c].request, todo |-> packCall[c].todo,
                          row |-> packCall[c].row]
  BY <1>2, GoesOn
<1>11. packCall'[c].at = "returned" /\ packCall'[c].request = packCall[c].request
  BY <1>10
<1>12. CallsInOrder'
  <2>1. PackCallTyped(packCall'[c], Len(installations'))
    BY <1>5, <1>10, <1>11 DEF PackCallTyped
  <2>2. InstallsInOrder(c)' /\ ListsDemoRows(c)'
    BY <1>11 DEF InstallsInOrder, ListsDemoRows
  <2> QED
    BY <1>2, <1>9, <1>10, <2>1, <2>2, CallsKept
<1>13. PackStoreTyped'
  BY <1>2, <1>3, <1>7, <1>8, <1>10 DEF PackStoreTyped, Crowd
<1>14. RecordsHold'
  BY <1>6, <1>7, <1>9, RecordsStay
<1>15. DeletedWereTagged'
  BY <1>2, <1>3 DEF DeletedWereTagged
<1>16. ASSUME ~crowded' PROVE (OneCallAtATime /\ InstalledOnce /\ DefinedOnce /\ DemosGone /\ DemosWhole)'
  <2>1. /\ OneCallAtATime' /\ InstalledOnce /\ DefinedOnce /\ DemosGone /\ DemosWhole
        /\ \A d \in PackCalls : packCall'[d].at \in {"working", "defining", "listing", "deleting"} => d = c
    BY <1>2, <1>10, <1>16, OnlyThisCall
  <2>2. \A d \in PackCalls : packCall'[d].at \notin {"working", "defining", "listing", "deleting"}
    BY <1>11, <2>1
  <2>3. \A q : Tagged(q)' = Tagged(q)
    BY <1>2 DEF Tagged
  <2>4. InstalledOnce'
    BY <1>6, <1>7, <2>1, <2>2 DEF InstalledOnce
  <2>5. DefinedOnce'
    BY <1>2, <2>1, <2>2 DEF DefinedOnce
  <2>6. DemosGone'
    <3>1. ASSUME NEW q \in Packs, demo'[q] = "none" PROVE Tagged(q)' = {}
      <4>1. CASE q = p /\ RemovesDemo(r)
        <5>1. \A k \in Tagged(p) : \A row \in object[k] : [key |-> k, row |-> row] \in ToSet(packCall[c].todo)
          BY <1>1, <1>2, <2>1, <4>1 DEF DemosGone
        <5>2. ToSet(packCall[c].todo) = {}
          BY <1>2 DEF ToSet
        <5> QED
          BY <2>3, <4>1, <5>1, <5>2 DEF Tagged
      <4>2. CASE ~(q = p /\ RemovesDemo(r))
        BY <1>8, <2>1, <2>3, <3>1, <4>2 DEF DemosGone
      <4> QED
        BY <4>1, <4>2
    <3> QED
      BY <2>2, <3>1 DEF DemosGone
  <2>7. DemosWhole'
    <3> SUFFICES ASSUME NEW m \in Manifests, demo'[m.pack] = "whole", InstalledLast(m)'
                 PROVE  OwnSamples(m) \subseteq Tagged(m.pack)
      BY <2>3 DEF DemosWhole
    <3>1. demo[m.pack] = "whole"
      BY <1>5, <1>8, ManifestFacts
    <3>2. InstalledLast(m)
      BY <1>6, <1>7 DEF InstalledLast, InstalledRows
    <3> QED
      BY <2>1, <3>1, <3>2 DEF DemosWhole
  <2> QED
    BY <2>1, <2>4, <2>5, <2>6, <2>7
<1> QED
  BY <1>12, <1>13, <1>14, <1>15, <1>16 DEF PackInv, InTurn

LEMMA PackCallCutOffKeeps ==
    ASSUME PackInv, NEW c \in PackCalls, PackCallCutOff(c)
    PROVE  PackInv'
<1>1. /\ UnderWay(c) /\ Goes(c, "cut")
      /\ UNCHANGED <<object, defined, evalCases, installations, made, deleted, demo, crowded>>
  BY DEF PackCallCutOff
<1>2. PackStoreTyped /\ CallsInOrder /\ RecordsHold /\ DeletedWereTagged
  BY DEF PackInv
<1>3. /\ packCall' = [d \in PackCalls |-> packCall'[d]] /\ \A d \in PackCalls \ {c} : packCall'[d] = packCall[d]
      /\ packCall'[c] = [at |-> "cut", request |-> packCall[c].request, todo |-> packCall[c].todo,
                         row |-> packCall[c].row]
  BY <1>1, GoesOn
<1>4. packCall'[c].at = "cut" /\ packCall'[c].request = packCall[c].request
  BY <1>3
<1>5. /\ \A p, versions : InstalledRows(p, versions)' = InstalledRows(p, versions)
      /\ \A p : Tagged(p)' = Tagged(p)
  BY <1>1 DEF InstalledRows, Tagged
<1>6. CallsInOrder'
  <2>1. ASSUME NEW d \in PackCalls
        PROVE  (PackCallTyped(packCall[d], Len(installations)) /\ InstallsInOrder(d) /\ ListsDemoRows(d))'
    <3>1. PackCallTyped(packCall[d], Len(installations)) /\ InstallsInOrder(d) /\ ListsDemoRows(d)
      BY <1>2 DEF CallsInOrder
    <3>2. CASE d = c
      <4>1. packCall[c].at # "idle"
        BY <1>1 DEF UnderWay
      <4>2. PackCallTyped(packCall'[c], Len(installations'))
        BY <1>1, <1>3, <1>4, <3>1, <3>2, <4>1 DEF PackCallTyped
      <4> QED
        BY <1>4, <3>2, <4>2 DEF InstallsInOrder, ListsDemoRows
    <3>3. CASE d # c
      <4>1. packCall'[d] = packCall[d]
        BY <1>3, <3>3
      <4>2. \A x, p : Accomplished(x, p)' = Accomplished(x, p)
        BY <1>1, <1>5 DEF Accomplished
      <4>3. Request(d)' = Request(d) /\ Pack(d)' = Pack(d)
        BY <4>1 DEF Request, Pack
      <4>4. InstallsInOrder(d)'
        BY <3>1, <4>1, <4>2, <4>3 DEF InstallsInOrder
      <4>5. ListsDemoRows(d)'
        BY <1>1, <3>1, <4>1, <4>3 DEF ListsDemoRows
      <4> QED
        BY <1>1, <3>1, <4>1, <4>4, <4>5
    <3> QED
      BY <3>2, <3>3
  <2> QED
    BY <2>1 DEF CallsInOrder
<1>7. PackStoreTyped'
  BY <1>1, <1>2, <1>3 DEF PackStoreTyped
<1>8. RecordsHold' /\ DeletedWereTagged'
  BY <1>1, <1>2 DEF RecordsHold, DeletedWereTagged
<1>9. ASSUME ~crowded' PROVE (OneCallAtATime /\ InstalledOnce /\ DefinedOnce /\ DemosGone /\ DemosWhole)'
  <2>1. OneCallAtATime /\ InstalledOnce /\ DefinedOnce /\ DemosGone /\ DemosWhole
    BY <1>1, <1>9 DEF PackInv, InTurn
  <2>2. \A d \in PackCalls : packCall'[d].at # "cut" => d # c /\ packCall'[d] = packCall[d]
    BY <1>3, <1>4
  <2>3. OneCallAtATime'
    BY <2>1, <2>2 DEF OneCallAtATime, UnderWay
  <2>4. InstalledOnce'
    <3>1. ASSUME NEW d \in PackCalls, packCall'[d].at \in {"working", "defining"}
          PROVE  demo'[Pack(d)'] = "some" /\ InstalledRows(Pack(d), {Request(d).manifest.version})' = {}
      BY <1>1, <1>5, <2>1, <2>2, <3>1 DEF Request, Pack, InstalledOnce
    <3> QED
      BY <1>1, <2>1, <3>1 DEF InstalledOnce
  <2>5. DefinedOnce'
    BY <1>1, <2>1, <2>2 DEF DefinedOnce, NextListed
  <2>6. DemosGone'
    <3>1. ASSUME NEW d \in PackCalls, packCall'[d].at = "deleting", RemovesDemo(Request(d)')
          PROVE  /\ demo'[Pack(d)'] = "some"
                 /\ \A k \in Tagged(Pack(d))' : \A row \in object'[k] :
                      [key |-> k, row |-> row] \in ToSet(packCall'[d].todo)
      <4>1. packCall'[d] = packCall[d] /\ Pack(d)' = Pack(d) /\ Request(d)' = Request(d)
        BY <2>2, <3>1 DEF Pack, Request
      <4> QED
        BY <1>1, <1>5, <2>1, <3>1, <4>1 DEF DemosGone
    <3>2. \A d \in PackCalls : RemovesDemo(Request(d))' = RemovesDemo(Request(d)')
      BY DEF RemovesDemo
    <3>3. \A q \in Packs : demo'[q] = "none" => Tagged(q)' = {}
      BY <1>1, <1>5, <2>1 DEF DemosGone
    <3> QED
      BY <3>1, <3>2, <3>3 DEF DemosGone
  <2>7. DemosWhole'
    BY <1>1, <1>5, <2>1 DEF DemosWhole, InstalledLast
  <2> QED
    BY <2>3, <2>4, <2>5, <2>6, <2>7
<1> QED
  BY <1>6, <1>7, <1>8, <1>9 DEF PackInv, InTurn

LEMMA CustomerCreatesKeeps ==
    ASSUME PackInv, NEW key \in CustomerKeys, CustomerCreates(key)
    PROVE  PackInv'
<1>1. PICK new : new = [id |-> made, by |-> "customer", pack |-> NoPack]
  OBVIOUS
<1>2. /\ object[key] = {} /\ object' = [object EXCEPT ![key] = {new}] /\ made' = made + 1
      /\ UNCHANGED <<defined, evalCases, installations, packCall, deleted, demo, crowded>>
  BY <1>1 DEF CustomerCreates
<1>3. PackStoreTyped /\ CallsInOrder /\ RecordsHold /\ DeletedWereTagged
  BY DEF PackInv
<1>4. key \in ObjectKeys /\ made \in Nat
  BY <1>3 DEF ObjectKeys, PackStoreTyped
<1>5. new.id = made /\ new.pack = NoPack /\ new \in ObjectRows
  BY <1>1, <1>4 DEF ObjectRows
<1>6. /\ object' \in [ObjectKeys -> SUBSET ObjectRows] /\ object'[key] = {new}
      /\ \A k \in ObjectKeys : k # key => object'[k] = object[k]
  BY <1>2, <1>3, <1>4, <1>5 DEF PackStoreTyped
<1>7. \A p \in Packs : Tagged(p)' = Tagged(p)
  <2>1. \A p \in Packs : p # NoPack
    BY PackAssumption DEF Packs
  <2>2. ASSUME NEW p \in Packs, NEW k \in ObjectKeys
        PROVE  (\E row \in object'[k] : row.pack = p) <=> \E row \in object[k] : row.pack = p
    BY <1>2, <1>5, <1>6, <2>1
  <2> QED
    BY <2>2 DEF Tagged
<1>8. CallsInOrder'
  <2>1. ASSUME NEW d \in PackCalls
        PROVE  (PackCallTyped(packCall[d], Len(installations)) /\ InstallsInOrder(d) /\ ListsDemoRows(d))'
    <3>1. PackCallTyped(packCall[d], Len(installations)) /\ InstallsInOrder(d) /\ ListsDemoRows(d)
      BY <1>3 DEF CallsInOrder
    <3>2. Request(d)' = Request(d) /\ Pack(d)' = Pack(d)
      BY <1>2 DEF Request, Pack
    <3>3. InstallsInOrder(d)'
      <4> SUFFICES ASSUME packCall[d].at \in {"working", "defining"} PROVE InstallsInOrder(d)'
        BY <1>2 DEF InstallsInOrder
      <4>1. Pack(d) \in Packs
        BY <3>1, RequestFacts DEF Pack, Request
      <4>2. \A x : Accomplished(x, Pack(d)) => Accomplished(x, Pack(d))'
        BY <1>2, <1>7, <3>2, <4>1 DEF Accomplished
      <4> QED
        BY <1>2, <3>1, <3>2, <4>2 DEF InstallsInOrder
    <3>4. ListsDemoRows(d)'
      <4> SUFFICES ASSUME packCall[d].at = "deleting", NEW x \in ToSet(packCall[d].todo)
                   PROVE  /\ x.row.id < made'
                          /\ \A row \in object'[x.key] :
                               row.id = x.row.id => row.pack # NoPack /\ (~crowded => row.pack = Pack(d))
        BY <1>2, <3>2 DEF ListsDemoRows
      <4>1. x \in ListingRows
        BY <3>1, ItemsAreTyped DEF PackCallTyped
      <4>2. x.key \in ObjectKeys /\ x.row.id \in Nat
        BY <4>1 DEF ListingRows, ObjectRows
      <4>3. /\ x.row.id < made
            /\ \A row \in object[x.key] :
                 row.id = x.row.id => row.pack # NoPack /\ (~crowded => row.pack = Pack(d))
        BY <3>1 DEF ListsDemoRows
      <4>4. new.id # x.row.id /\ x.row.id < made'
        BY <1>2, <1>4, <1>5, <4>2, <4>3
      <4>5. CASE x.key = key
        BY <1>6, <4>4, <4>5
      <4>6. CASE x.key # key
        BY <1>6, <4>2, <4>3, <4>4, <4>6
      <4> QED
        BY <4>5, <4>6
    <3> QED
      BY <1>2, <3>1, <3>3, <3>4
  <2> QED
    BY <2>1 DEF CallsInOrder
<1>9. PackStoreTyped'
  <2>1. \A k \in ObjectKeys : k # key => object'[k] \subseteq object[k]
    BY <1>6
  <2>2. IsFiniteSet({k \in ObjectKeys : object'[k] # {}})
    BY <1>3, <2>1, OneMoreKey
  <2>3. ASSUME NEW k \in ObjectKeys, NEW row \in object'[k], NEW other \in object'[k]
        PROVE  row.id < made' /\ row = other
    <3>1. CASE k = key
      BY <1>2, <1>4, <1>5, <1>6, <2>3, <3>1
    <3>2. CASE k # key
      <4>1. row.id < made /\ row = other /\ row.id \in Nat
        BY <1>3, <1>6, <2>3, <3>2 DEF PackStoreTyped, ObjectRows
      <4> QED
        BY <1>2, <1>4, <4>1
    <3> QED
      BY <3>1, <3>2
  <2> QED
    BY <1>2, <1>3, <1>4, <1>6, <2>2, <2>3 DEF PackStoreTyped
<1>10. RecordsHold' /\ DeletedWereTagged'
  BY <1>2, <1>3 DEF RecordsHold, DeletedWereTagged
<1>11. ASSUME ~crowded' PROVE (OneCallAtATime /\ InstalledOnce /\ DefinedOnce /\ DemosGone /\ DemosWhole)'
  <2>1. OneCallAtATime /\ InstalledOnce /\ DefinedOnce /\ DemosGone /\ DemosWhole
    BY <1>2, <1>11 DEF PackInv, InTurn
  <2>2. \A d \in PackCalls : UnderWay(d)' = UnderWay(d) /\ Request(d)' = Request(d) /\ Pack(d)' = Pack(d)
    BY <1>2 DEF UnderWay, Request, Pack
  <2>3. \A p, versions : InstalledRows(p, versions)' = InstalledRows(p, versions)
    BY <1>2 DEF InstalledRows
  <2>4. OneCallAtATime' /\ DefinedOnce'
    BY <1>2, <2>1, <2>2 DEF OneCallAtATime, DefinedOnce, NextListed
  <2>5. InstalledOnce'
    <3>1. ASSUME NEW d \in PackCalls, packCall'[d].at \in {"working", "defining"}
          PROVE  demo'[Pack(d)'] = "some" /\ InstalledRows(Pack(d), {Request(d).manifest.version})' = {}
      BY <1>2, <2>1, <2>2, <2>3, <3>1 DEF InstalledOnce
    <3> QED
      BY <1>2, <2>1, <3>1 DEF InstalledOnce
  <2>6. DemosGone'
    <3>1. ASSUME NEW d \in PackCalls, packCall[d].at = "deleting", RemovesDemo(Request(d))
          PROVE  /\ demo[Pack(d)] = "some"
                 /\ \A k \in Tagged(Pack(d))' : \A row \in object'[k] :
                      [key |-> k, row |-> row] \in ToSet(packCall[d].todo)
      <4>1. Pack(d) \in Packs
        <5>1. PackCallTyped(packCall[d], Len(installations))
          BY <1>3 DEF CallsInOrder
        <5> QED
          BY <3>1, <5>1, RequestFacts DEF Pack, Request
      <4>2. Tagged(Pack(d))' = Tagged(Pack(d))
        BY <1>7, <2>2, <4>1
      <4>3. \A k \in Tagged(Pack(d)) : k # key /\ k \in ObjectKeys
        BY <1>2 DEF Tagged
      <4> QED
        BY <1>6, <2>1, <3>1, <4>2, <4>3 DEF DemosGone
    <3>2. \A d \in PackCalls : RemovesDemo(Request(d))' = RemovesDemo(Request(d))
      BY <2>2 DEF RemovesDemo
    <3>3. \A q \in Packs : demo'[q] = "none" => Tagged(q)' = {}
      BY <1>2, <1>7, <2>1 DEF DemosGone
    <3> QED
      BY <1>2, <2>2, <3>1, <3>2, <3>3 DEF DemosGone
  <2>7. DemosWhole'
    <3>1. \A m \in Manifests : Tagged(m.pack)' = Tagged(m.pack)
      BY <1>7, ManifestFacts
    <3> QED
      BY <1>2, <2>1, <2>3, <3>1 DEF DemosWhole, InstalledLast
  <2> QED
    BY <2>1, <2>4, <2>5, <2>6, <2>7
<1> QED
  BY <1>8, <1>9, <1>10, <1>11 DEF PackInv, InTurn

LEMMA PackKeepsInvariant ==
    ASSUME PackInv, [PackNext]_packVars
    PROVE  PackInv'
<1>1. CASE UNCHANGED packVars
  <2> USE <1>1 DEF packVars
  <2>1. PackStoreTyped'
    BY DEF PackInv, PackStoreTyped
  <2>2. CallsInOrder'
    <3>1. \A c \in PackCalls : PackCallTyped(packCall[c], Len(installations))'
      BY DEF PackInv, CallsInOrder, PackCallTyped
    <3>2. \A c \in PackCalls : InstallsInOrder(c)'
      BY DEF PackInv, CallsInOrder, InstallsInOrder, Accomplished, Request, Pack, Tagged
    <3>3. \A c \in PackCalls : ListsDemoRows(c)'
      BY DEF PackInv, CallsInOrder, ListsDemoRows, Request, Pack
    <3> QED
      BY <3>1, <3>2, <3>3 DEF CallsInOrder
  <2>3. RecordsHold' /\ DeletedWereTagged'
    BY DEF PackInv, RecordsHold, DeletedWereTagged
  <2>4. InTurn'
    <3> SUFFICES ASSUME ~crowded
                 PROVE  OneCallAtATime' /\ InstalledOnce' /\ DefinedOnce' /\ DemosGone' /\ DemosWhole'
      BY DEF InTurn
    <3>1. OneCallAtATime /\ InstalledOnce /\ DefinedOnce /\ DemosGone /\ DemosWhole
      BY DEF PackInv, InTurn
    <3>2. OneCallAtATime'
      BY <3>1 DEF OneCallAtATime, UnderWay
    <3>3. InstalledOnce'
      BY <3>1 DEF InstalledOnce, InstalledRows, Request, Pack
    <3>4. DefinedOnce'
      BY <3>1 DEF DefinedOnce, NextListed
    <3>5. DemosGone'
      BY <3>1 DEF DemosGone, Tagged, Request, Pack
    <3>6. DemosWhole'
      BY <3>1 DEF DemosWhole, Tagged, InstalledLast, InstalledRows
    <3> QED
      BY <3>2, <3>3, <3>4, <3>5, <3>6
  <2> QED
    BY <2>1, <2>2, <2>3, <2>4 DEF PackInv
<1>2. ASSUME NEW c \in PackCalls, NEW request \in PackRequests, BeginInstall(c, request) PROVE PackInv'
  BY <1>2, BeginInstallKeeps
<1>3. ASSUME NEW c \in PackCalls, NEW request \in PackRequests, BeginRemoval(c, request) PROVE PackInv'
  BY <1>3, BeginRemovalKeeps
<1>4. ASSUME NEW c \in PackCalls, WriteSample(c) PROVE PackInv'
  BY <1>4, WriteSampleKeeps
<1>5. ASSUME NEW c \in PackCalls, LookForDefinition(c) PROVE PackInv'
  BY <1>5, LookForDefinitionKeeps
<1>6. ASSUME NEW c \in PackCalls, InsertDefinition(c) PROVE PackInv'
  BY <1>6, InsertDefinitionKeeps
<1>7. ASSUME NEW c \in PackCalls, InsertCase(c) PROVE PackInv'
  BY <1>7, InsertCaseKeeps
<1>8. ASSUME NEW c \in PackCalls, RecordInstallation(c) PROVE PackInv'
  BY <1>8, RecordInstallationKeeps
<1>9. ASSUME NEW c \in PackCalls, ListDemoObjects(c) PROVE PackInv'
  BY <1>9, ListDemoObjectsKeeps
<1>10. ASSUME NEW c \in PackCalls, DeleteDemoObject(c) PROVE PackInv'
  BY <1>10, DeleteDemoObjectKeeps
<1>11. ASSUME NEW c \in PackCalls, EndRemoval(c) PROVE PackInv'
  BY <1>11, EndRemovalKeeps
<1>12. ASSUME NEW c \in PackCalls, PackCallCutOff(c) PROVE PackInv'
  BY <1>12, PackCallCutOffKeeps
<1>13. ASSUME NEW key \in CustomerKeys, CustomerCreates(key) PROVE PackInv'
  BY <1>13, CustomerCreatesKeeps
<1> QED
  BY <1>1, <1>2, <1>3, <1>4, <1>5, <1>6, <1>7, <1>8, <1>9, <1>10, <1>11, <1>12, <1>13 DEF PackNext

LEMMA PacksFollow == PackInv => InstalledPacksAreWhole
<1> SUFFICES ASSUME PackInv PROVE InstalledPacksAreWhole
  OBVIOUS
<1>1. /\ \A i \in DOMAIN installations : \A m \in Manifests :
           m.pack = installations[i].pack /\ m.version = installations[i].version =>
             /\ \A d \in Definitions(m) : defined[d] > 0
             /\ \A s \in ToSet(m.suites) : evalCases[s] > 0
      /\ \A row \in deleted : row.pack # NoPack
  BY DEF PackInv, RecordsHold, DeletedWereTagged
<1>2. ASSUME ~crowded
      PROVE  /\ \A m \in Manifests : Cardinality(InstalledRows(m.pack, {m.version})) <= 1
             /\ \A d \in DefinitionKeys : defined[d] <= 1
             /\ \A p \in Packs : demo[p] = "none" => Tagged(p) = {}
             /\ \A m \in Manifests : demo[m.pack] = "whole" /\ InstalledLast(m) => OwnSamples(m) \subseteq Tagged(m.pack)
  <2>1. InstalledOnce /\ DefinedOnce /\ DemosGone /\ DemosWhole
    BY <1>2 DEF PackInv, InTurn
  <2>2. ASSUME NEW m \in Manifests PROVE Cardinality(InstalledRows(m.pack, {m.version})) <= 1
    <3>1. PICK rows : rows = InstalledRows(m.pack, {m.version})
      OBVIOUS
    <3>2. \A i, j \in rows : i = j
      BY <2>1, <3>1 DEF InstalledOnce, InstalledRows
    <3>3. rows = {} \/ \E x \in rows : rows = {x}
      BY <3>2
    <3>4. CASE rows = {}
      BY <3>1, <3>4, FS_EmptySet
    <3>5. ASSUME NEW x \in rows, rows = {x} PROVE Cardinality(rows) <= 1
      <4>1. Cardinality({x}) = 1
        BY FS_Singleton
      <4>2. Cardinality(rows) = 1
        BY <3>5, <4>1
      <4> QED
        BY <4>2
    <3> QED
      BY <3>1, <3>3, <3>4, <3>5
  <2> QED
    BY <2>1, <2>2 DEF DefinedOnce, DemosGone, DemosWhole
<1> QED
  BY <1>1, <1>2 DEF InstalledPacksAreWhole

\* Whatever the packs, the calls and the customers: an installation that was recorded left
\* every definition of its pack and a case in every suite, no removal deletes an object that
\* no pack had tagged, and as long as calls of the installer, the uninstaller and the reset
\* came one after the other no version is recorded as installed twice, nothing is defined
\* twice, and a pack's demo objects are all there after an installation and all gone after
\* a removal (installDomainPack, domain-pack-installer.ts:68; uninstallDomainPack,
\* domain-pack-uninstaller.ts:18; resetDemo, demo-reset-service.ts:15).
THEOREM PacksStayWhole == PackSpec => []InstalledPacksAreWhole
<1>1. PackInv /\ [PackNext]_packVars => PackInv'
  BY PackKeepsInvariant
<1> QED
  BY <1>1, PackStarts, PacksFollow, PTL DEF PackSpec

LEMMA PacksAreTyped == PackInv => PackTypeOK
<1> SUFFICES ASSUME PackInv PROVE PackTypeOK
  OBVIOUS
<1>1. ASSUME NEW k \in ObjectKeys
      PROVE  Cardinality(object[k]) <= 1 /\ \A row \in object[k] : row.pack \in Packs \cup {NoPack}
  <2>1. object[k] \subseteq ObjectRows /\ \A row, other \in object[k] : row = other
    BY DEF PackInv, PackStoreTyped
  <2>2. CASE object[k] = {}
    BY <2>2, FS_EmptySet
  <2>3. CASE object[k] # {}
    <3>1. PICK row \in object[k] : object[k] = {row}
      BY <2>1, <2>3
    <3>2. Cardinality(object[k]) = 1
      BY <3>1, FS_Singleton
    <3> QED
      BY <2>1, <3>2 DEF ObjectRows
  <2> QED
    BY <2>2, <2>3
<1>2. \A i \in DOMAIN installations : installations[i].status \in {"installed", "uninstalled"}
  <2>1. \A i \in DOMAIN installations : installations[i] \in InstallationRows
    BY DEF PackInv, PackStoreTyped
  <2> QED
    BY <2>1 DEF InstallationRows
<1>3. \A c \in PackCalls : packCall[c].at \in {"idle", "working", "defining", "listing", "deleting",
                                               "returned", "rejected", "cut"}
  BY DEF PackInv, CallsInOrder, PackCallTyped
<1> QED
  BY <1>1, <1>2, <1>3 DEF PackInv, PackStoreTyped, PackTypeOK

\* Packs keep their types: a sample's key is one object's, of a pack or of nobody.
THEOREM PackTypeCorrect == PackSpec => []PackTypeOK
<1>1. PackInv => PackTypeOK
  BY PacksAreTyped
<1> QED
  BY <1>1, PackStarts, PackKeepsInvariant, PTL DEF PackSpec

-----------------------------------------------------------------------------
\* Rows, and what merges and imports keep of them.
MergeEntries == Candidates \cup DOMAIN Imports

CandidateRows ==
    [status : {"active", "new", "merged"}, into : Candidates \cup {NoValue}, props : [Fields -> Values],
     aliases : SUBSET Candidates, imports : Seq(MergeEntries)]

ListedEdges == [edge : DOMAIN SeedEdges, from : Ends, to : Ends]

MergeSteps == {"idle", "chosen", "reading", "listing", "moving", "backfilled", "returned", "cut"}

MergeStates ==
    [at : MergeSteps, survivor : Candidates \cup {NoValue}, duplicate : Candidates \cup {NoValue},
     sRow : CandidateRows \cup {NoValue}, dRow : CandidateRows \cup {NoValue}, todo : Seq(ListedEdges)]

ImportStates == [at : {"idle", "found", "returned"}, row : CandidateRows \cup {NoValue}]

\* A merge that was chosen has a pair, and one under way the rows that it read.
GoodMerge(r) ==
    /\ r \in MergeStates
    /\ r.at # "idle" => r.survivor \in Candidates /\ r.duplicate \in Candidates /\ r.survivor # r.duplicate
    /\ r.at \in {"reading", "listing", "moving", "backfilled"} => r.sRow \in CandidateRows
    /\ r.at \in {"listing", "moving", "backfilled"} => r.dRow \in CandidateRows

GoodImport(r) == r \in ImportStates /\ (r.at = "found" => r.row \in CandidateRows)

MergeTyped ==
    /\ candidate \in [Candidates -> CandidateRows]
    /\ edges \in [DOMAIN SeedEdges -> [from : Ends, to : Ends] \cup {Gone}]
    /\ merge \in [MergeCalls -> MergeStates] /\ \A m \in MergeCalls : GoodMerge(merge[m])
    /\ importing \in [DOMAIN Imports -> ImportStates] /\ \A i \in DOMAIN Imports : GoodImport(importing[i])
    /\ entangled \in BOOLEAN /\ misdirected \in BOOLEAN

\* A tombstone points on, and nothing else does; along the pointers a rank grows that is
\* bounded by how many tombstones there are.
PointersMark == \A c \in Candidates : c \in Tombstones <=> candidate[c].into # NoValue

PointersRise ==
    \E r \in [Candidates -> 0 .. Cardinality(Tombstones)] :
      \A t \in Tombstones : r[t] < r[candidate[t].into]

-----------------------------------------------------------------------------
\* The way along the pointers.
Onward(x) == IF x \in Tombstones THEN candidate[x].into ELSE x

Walk(w, o, n) ==
    /\ w \in [0 .. n -> Ends] /\ w[0] = o
    /\ \A i \in 1 .. n : w[i] = Onward(w[i - 1])

LEMMA OnwardStays ==
    ASSUME MergeTyped, PointersMark, NEW x \in Ends
    PROVE  Onward(x) \in Ends
<1>1. CASE x \in Tombstones
  <2>1. x \in Candidates /\ candidate[x] \in CandidateRows /\ candidate[x].into # NoValue
    BY <1>1 DEF Tombstones, MergeTyped, PointersMark
  <2>2. candidate[x].into \in Candidates
    BY <2>1 DEF CandidateRows
  <2> QED
    BY <1>1, <2>2 DEF Onward, Ends
<1> QED
  BY <1>1 DEF Onward

LEMMA HomeWalks ==
    ASSUME MergeAssumption, MergeTyped, PointersMark, NEW o \in Ends
    PROVE  \E w : Walk(w, o, Cardinality(Candidates)) /\ Home(o) = w[Cardinality(Candidates)]
<1> DEFINE N == Cardinality(Candidates)
           Walks(a) == a = [n \in 0 .. N |->
             IF n = 0 THEN o
             ELSE IF a[n - 1] \in Tombstones THEN candidate[a[n - 1]].into ELSE a[n - 1]]
           after == CHOOSE a : Walks(a)
<1>1. N \in Nat
  BY FS_CardinalityType DEF MergeAssumption
<1>2. Home(o) = after[N]
  BY DEF Home
<1>3. PICK G \in [(1 .. N) \X Ends -> Ends] : \A i \in 1 .. N, x \in Ends : G[<<i, x>>] = Onward(x)
  <2>1. PICK G : G = [q \in (1 .. N) \X Ends |-> Onward(q[2])]
    OBVIOUS
  <2>2. \A q \in (1 .. N) \X Ends : Onward(q[2]) \in Ends
    BY OnwardStays
  <2> QED
    BY <2>1, <2>2
<1> HIDE DEF N
<1>4. PICK w : w \in [0 .. N -> Ends] /\ w[0] = o /\ \A i \in 1 .. N : w[i] = G[<<i, w[i - 1]>>]
  <2>1. StepByStep(N, Ends, o, G)
    BY <1>1, <1>3, RecursionExists
  <2> QED
    BY <2>1 DEF StepByStep
<1>5. \A i \in 1 .. N : i - 1 \in 0 .. N /\ w[i - 1] \in Ends
  BY <1>1, <1>4
<1>6. Walk(w, o, N)
  BY <1>3, <1>4, <1>5 DEF Walk
<1>7. Walks(w)
  <2>1. \A n \in 0 .. N : w[n] = IF n = 0 THEN o ELSE Onward(w[n - 1])
    <3>1. \A n \in 0 .. N : n = 0 \/ n \in 1 .. N
      BY <1>1
    <3> QED
      BY <3>1, <1>6 DEF Walk
  <2> QED
    BY <2>1, <1>4 DEF Onward
<1>8. ASSUME NEW a, NEW b, Walks(a), Walks(b) PROVE a = b
  <2> DEFINE Bad == {n \in 0 .. N : a[n] # b[n]}
  <2>1. SUFFICES Bad = {}
    <3>1. ASSUME Bad = {} PROVE \A n \in 0 .. N : a[n] = b[n]
      BY <3>1
    <3>2. a = [n \in 0 .. N |-> a[n]] /\ b = [n \in 0 .. N |-> b[n]]
      BY <1>8
    <3> HIDE DEF Walks
    <3> QED
      BY <3>1, <3>2
  <2>2. SUFFICES ASSUME Bad # {} PROVE FALSE
    OBVIOUS
  <2>3. PICK n \in Bad : \A j \in Bad : n <= j
    <3>1. Bad \subseteq Nat
      BY <1>1
    <3> HIDE DEF Bad
    <3> QED
      BY <2>2, <3>1, LeastNatural
  <2>4. n \in 0 .. N /\ a[n] # b[n]
    BY <2>3
  <2>5. a[n] = (IF n = 0 THEN o ELSE Onward(a[n - 1])) /\ b[n] = (IF n = 0 THEN o ELSE Onward(b[n - 1]))
    BY <2>4, <1>8 DEF Onward
  <2>6. n # 0
    BY <2>4, <2>5
  <2>7. n - 1 \in 0 .. N /\ ~(n <= n - 1)
    <3> HIDE DEF Bad, Walks
    <3>1. n \in 0 .. N
      BY <2>4
    <3> QED
      BY <3>1, <2>6, <1>1
  <2>8. a[n - 1] = b[n - 1]
    BY <2>3, <2>7
  <2> QED
    BY <2>4, <2>5, <2>8
<1>9. after = w
  <2>1. Walks(after)
    BY <1>7, Zenon
  <2> HIDE DEF Walks, after
  <2> QED
    BY <2>1, <1>7, <1>8
<1> QED
  BY <1>2, <1>6, <1>9 DEF N

\* What holds along the pointers holds where they lead.
LEMMA HomeIsAmong ==
    ASSUME MergeAssumption, MergeTyped, PointersMark,
           NEW S \in SUBSET Ends, \A t \in Tombstones : t \in S => candidate[t].into \in S,
           NEW o \in S
    PROVE  Home(o) \in S
<1>1. PICK N \in Nat : N = Cardinality(Candidates)
  BY FS_CardinalityType DEF MergeAssumption
<1>2. PICK w : Walk(w, o, N) /\ Home(o) = w[N]
  BY <1>1, HomeWalks
<1> DEFINE Bad == {n \in 0 .. N : w[n] \notin S}
<1>3. Bad = {}
  <2>1. SUFFICES ASSUME Bad # {} PROVE FALSE
    OBVIOUS
  <2>2. PICK n \in Bad : \A j \in Bad : n <= j
    <3>1. Bad \subseteq Nat
      OBVIOUS
    <3> HIDE DEF Bad
    <3> QED
      BY <2>1, <3>1, LeastNatural
  <2>3. n \in 0 .. N /\ w[n] \notin S /\ n # 0
    BY <2>2, <1>2 DEF Walk
  <2>4. n \in 1 .. N /\ n - 1 \in 0 .. N /\ ~(n <= n - 1)
    BY <2>3
  <2>5. w[n - 1] \in S
    BY <2>2, <2>4
  <2>6. w[n] = Onward(w[n - 1])
    BY <2>4, <1>2 DEF Walk
  <2> QED
    BY <2>3, <2>5, <2>6 DEF Onward
<1> QED
  BY <1>2, <1>3

LEMMA HomeOfTheLiving ==
    ASSUME MergeAssumption, MergeTyped, PointersMark, NEW o \in Ends \ Tombstones
    PROVE  Home(o) = o
<1>1. PICK S \in SUBSET Ends : S = {o}
  OBVIOUS
<1>2. o \in S /\ \A t \in Tombstones : t \in S => candidate[t].into \in S
  BY <1>1
<1>3. Home(o) \in S
  BY <1>2, HomeIsAmong
<1> QED
  BY <1>1, <1>3

LEMMA HomeIsLiving ==
    ASSUME MergeAssumption, MergeTyped, PointersMark, PointersRise, NEW o \in Ends
    PROVE  Home(o) \in Ends \ Tombstones
<1>1. PICK N \in Nat : N = Cardinality(Candidates)
  BY FS_CardinalityType DEF MergeAssumption
<1>2. PICK w : Walk(w, o, N) /\ Home(o) = w[N]
  BY <1>1, HomeWalks
<1>3. PICK K \in Nat : K = Cardinality(Tombstones) /\ K <= N
  <2>1. Tombstones \subseteq Candidates
    BY DEF Tombstones
  <2> QED
    BY <2>1, <1>1, FS_Subset, FS_CardinalityType DEF MergeAssumption
<1>4. PICK r \in [Candidates -> 0 .. K] : \A t \in Tombstones : r[t] < r[candidate[t].into]
  BY <1>3 DEF PointersRise
<1> DEFINE Bad == {n \in 0 .. N : w[n] \in Tombstones /\ r[w[n]] < n}
<1>5. \A t \in Tombstones : t \in Candidates /\ candidate[t].into \in Candidates
  <2>1. \A t \in Tombstones : t \in Candidates /\ candidate[t] \in CandidateRows /\ candidate[t].into # NoValue
    BY DEF Tombstones, MergeTyped, PointersMark
  <2> QED
    BY <2>1 DEF CandidateRows
<1>6. Bad = {}
  <2>1. SUFFICES ASSUME Bad # {} PROVE FALSE
    OBVIOUS
  <2>2. PICK n \in Bad : \A j \in Bad : n <= j
    <3>1. Bad \subseteq Nat
      OBVIOUS
    <3> HIDE DEF Bad
    <3> QED
      BY <2>1, <3>1, LeastNatural
  <2>3. n \in 0 .. N /\ w[n] \in Tombstones /\ r[w[n]] < n
    BY <2>2
  <2>4. r[w[n]] \in 0 .. K
    BY <2>3, <1>4, <1>5
  <2>5. n \in 1 .. N /\ n - 1 \in 0 .. N /\ ~(n <= n - 1)
    BY <2>3, <2>4, <1>3
  <2>6. w[n] = Onward(w[n - 1])
    BY <2>5, <1>2 DEF Walk
  <2>7. w[n - 1] \in Tombstones /\ w[n] = candidate[w[n - 1]].into
    BY <2>3, <2>6 DEF Onward
  <2>8. ~(r[w[n - 1]] < n - 1)
    BY <2>2, <2>5, <2>7
  <2>9. r[w[n - 1]] \in 0 .. K /\ r[w[n - 1]] < r[w[n]]
    BY <2>7, <1>4, <1>5
  <2> QED
    BY <2>3, <2>4, <2>5, <2>8, <2>9, <1>3
<1>7. w[N] \in Ends
  BY <1>2 DEF Walk
<1>8. w[N] \notin Tombstones
  <2>1. SUFFICES ASSUME w[N] \in Tombstones PROVE FALSE
    OBVIOUS
  <2>2. N \in 0 .. N /\ ~(r[w[N]] < N)
    BY <2>1, <1>6
  <2>3. r[w[N]] \in 0 .. K /\ r[candidate[w[N]].into] \in 0 .. K /\ r[w[N]] < r[candidate[w[N]].into]
    BY <2>1, <1>4, <1>5
  <2> QED
    BY <2>2, <2>3, <1>3
<1> QED
  BY <1>2, <1>7, <1>8

LEMMA HomeAlongPointers ==
    ASSUME MergeAssumption, MergeTyped, PointersMark, PointersRise, NEW t \in Tombstones
    PROVE  Home(t) = Home(candidate[t].into)
<1>1. PICK N \in Nat : N = Cardinality(Candidates)
  BY FS_CardinalityType DEF MergeAssumption
<1>2. t \in Ends /\ candidate[t].into \in Ends /\ Onward(t) = candidate[t].into
  BY OnwardStays DEF Onward, Tombstones, Ends
<1>3. PICK w : Walk(w, t, N) /\ Home(t) = w[N]
  BY <1>1, <1>2, HomeWalks
<1>4. PICK u : Walk(u, candidate[t].into, N) /\ Home(candidate[t].into) = u[N]
  BY <1>1, <1>2, HomeWalks
<1>5. w[N] \notin Tombstones
  BY <1>2, <1>3, HomeIsLiving
<1>6. N # 0
  BY <1>3, <1>5 DEF Walk
<1> DEFINE Bad == {n \in 1 .. N : w[n] # u[n - 1]}
<1>7. Bad = {}
  <2>1. SUFFICES ASSUME Bad # {} PROVE FALSE
    OBVIOUS
  <2>2. PICK n \in Bad : \A j \in Bad : n <= j
    <3>1. Bad \subseteq Nat
      OBVIOUS
    <3> HIDE DEF Bad
    <3> QED
      BY <2>1, <3>1, LeastNatural
  <2>3. n \in 1 .. N /\ w[n] # u[n - 1] /\ w[n] = Onward(w[n - 1])
    BY <2>2, <1>3 DEF Walk
  <2>4. n # 1
    BY <2>3, <1>2, <1>3, <1>4 DEF Walk
  <2>5. n - 1 \in 1 .. N /\ ~(n <= n - 1)
    BY <2>3, <2>4
  <2>6. w[n - 1] = u[(n - 1) - 1]
    BY <2>2, <2>5
  <2>7. u[n - 1] = Onward(u[(n - 1) - 1])
    BY <2>5, <1>4 DEF Walk
  <2> QED
    BY <2>3, <2>6, <2>7
<1>8. N \in 1 .. N /\ w[N] = u[N - 1] /\ u[N] = Onward(u[N - 1])
  BY <1>4, <1>6, <1>7 DEF Walk
<1> QED
  BY <1>3, <1>4, <1>5, <1>8 DEF Onward

-----------------------------------------------------------------------------
\* What merges have joined: no set of ends that each tombstone and each merge that has
\* begun to move shares with what it goes into separates the two.
Joining(m) == merge[m].at \in {"moving", "backfilled", "cut"}

Respects(S) ==
    /\ \A t \in Tombstones : t \in S <=> candidate[t].into \in S
    /\ \A m \in MergeCalls : Joining(m) => (merge[m].duplicate \in S <=> merge[m].survivor \in S)

Joined(x, y) == \A S \in SUBSET Ends : Respects(S) => (x \in S <=> y \in S)

\* An import of one that is joined to c gave no value for f.
Cleared(c, f) == \E x \in Candidates : Joined(x, c) /\ NoValue \in Told(x, f)

\* d has what c has.
Absorbed(c, d) ==
    /\ candidate[c].aliases \cup {c} \subseteq candidate[d].aliases
    /\ ToSet(candidate[c].imports) \subseteq ToSet(candidate[d].imports)
    /\ \A f \in Fields : candidate[c].props[f] # NoValue => candidate[d].props[f] # NoValue \/ Cleared(c, f)

TombstonesAbsorbed == \A t \in Tombstones : Absorbed(t, candidate[t].into)

EdgeDropped(e) == edges[e] = Gone /\ Joined(SeedEdges[e].from, SeedEdges[e].to)

EdgeMoved(e) ==
    /\ edges[e].from \in Ends \ Tombstones /\ Joined(edges[e].from, SeedEdges[e].from)
    /\ edges[e].to \in Ends \ Tombstones /\ Joined(edges[e].to, SeedEdges[e].to)
    /\ edges[e].from # edges[e].to

EdgesFollow == \A e \in DOMAIN SeedEdges : EdgeDropped(e) \/ EdgeMoved(e)

AliasesFollow(c) == \A a \in candidate[c].aliases : Joined(a, c)

\* An entry is of one that is joined to c.
TracedTo(p, c) == \E d \in Candidates : Joined(d, c) /\ p \in Provenance(d)

ImportsFollow(c) ==
    /\ \A p \in ToSet(candidate[c].imports) : TracedTo(p, c)
    /\ Provenance(c) \subseteq ToSet(candidate[c].imports)

SaidBy(v, c, f) == \E d \in Candidates : Joined(d, c) /\ v \in Said(d, f)

FieldFollows(c, f) ==
    /\ NoValue \notin Own(c, f) => candidate[c].props[f] \in Own(c, f)
    /\ candidate[c].props[f] # NoValue => SaidBy(candidate[c].props[f], c, f)
    /\ candidate[c].props[f] = NoValue => Said(c, f) = {NoValue} \/ Cleared(c, f)

RowsFollow ==
    \A c \in Candidates : AliasesFollow(c) /\ ImportsFollow(c) /\ \A f \in Fields : FieldFollows(c, f)

LEMMA JoinedAgain ==
    ASSUME NEW x, NEW y
    PROVE  /\ Joined(x, x)
           /\ Joined(x, y) => Joined(y, x)
           /\ \A z : Joined(x, y) /\ Joined(y, z) => Joined(x, z)
BY Zenon DEF Joined

\* Once every merge that was cut off has been repeated, what is joined has one home.
LEMMA JoinedHome ==
    ASSUME MergeAssumption, MergeTyped, PointersMark, PointersRise, Reconciled,
           NEW x \in Ends, NEW y \in Ends, Joined(x, y)
    PROVE  Home(x) = Home(y)
<1>1. PICK S \in SUBSET Ends : \A z \in Ends : z \in S <=> Home(z) = Home(x)
  <2>1. PICK S : S = {z \in Ends : Home(z) = Home(x)}
    OBVIOUS
  <2> QED
    BY <2>1
<1>2. \A t \in Tombstones : t \in Ends /\ candidate[t].into \in Ends /\ Home(t) = Home(candidate[t].into)
  <2>1. \A t \in Tombstones : t \in Ends /\ Onward(t) = candidate[t].into
    BY DEF Tombstones, Ends, Onward
  <2> QED
    BY <2>1, OnwardStays, HomeAlongPointers
<1>3. \A t \in Tombstones : t \in S <=> candidate[t].into \in S
  BY <1>1, <1>2
<1>4. ASSUME NEW m \in MergeCalls, Joining(m)
      PROVE  merge[m].duplicate \in S <=> merge[m].survivor \in S
  <2>1. merge[m].at = "cut"
    BY <1>4 DEF Joining, Reconciled, MergeRests
  <2>2. \/ candidate[merge[m].duplicate].into = merge[m].survivor
        \/ candidate[merge[m].survivor].into = merge[m].duplicate
    BY <2>1 DEF Reconciled
  <2>3. merge[m].survivor \in Candidates /\ merge[m].duplicate \in Candidates
    BY <2>1 DEF MergeTyped, GoodMerge
  <2>4. merge[m].survivor # NoValue /\ merge[m].duplicate # NoValue
    BY <2>3 DEF MergeAssumption, Ends
  <2> QED
    BY <2>2, <2>3, <2>4, <1>3 DEF PointersMark
<1>5. Respects(S)
  BY <1>3, <1>4 DEF Respects
<1>6. x \in S
  BY <1>1
<1>7. y \in S
  BY <1>5, <1>6 DEF Joined
<1> QED
  BY <1>1, <1>7

-----------------------------------------------------------------------------
\* What the property says once all is reconciled.
LEMMA EdgesComeHome ==
    ASSUME MergeAssumption, MergeTyped, PointersMark, PointersRise, Reconciled, EdgesFollow,
           NEW e \in DOMAIN SeedEdges
    PROVE  edges[e] = IF Home(SeedEdges[e].from) = Home(SeedEdges[e].to) THEN Gone
                      ELSE [from |-> Home(SeedEdges[e].from), to |-> Home(SeedEdges[e].to)]
<1>1. SeedEdges[e].from \in Ends /\ SeedEdges[e].to \in Ends
  BY DEF MergeAssumption
<1>2. CASE EdgeDropped(e)
  <2>1. Home(SeedEdges[e].from) = Home(SeedEdges[e].to)
    BY <1>1, <1>2, JoinedHome DEF EdgeDropped
  <2> QED
    BY <1>2, <2>1 DEF EdgeDropped
<1>3. CASE EdgeMoved(e)
  <2>1. edges[e].from \in Ends \ Tombstones /\ edges[e].to \in Ends \ Tombstones /\ edges[e].from # edges[e].to
    BY <1>3 DEF EdgeMoved
  <2>2. Home(edges[e].from) = edges[e].from /\ Home(edges[e].to) = edges[e].to
    BY <2>1, HomeOfTheLiving
  <2>3. Joined(edges[e].from, SeedEdges[e].from) /\ Joined(edges[e].to, SeedEdges[e].to)
    BY <1>3 DEF EdgeMoved
  <2>4. Home(edges[e].from) = Home(SeedEdges[e].from)
    BY <1>1, <2>1, <2>3, JoinedHome
  <2>5. Home(edges[e].to) = Home(SeedEdges[e].to)
    BY <1>1, <2>1, <2>3, JoinedHome
  <2>6. edges[e] = [from |-> edges[e].from, to |-> edges[e].to]
    BY DEF MergeTyped, Gone
  <2> QED
    BY <2>1, <2>2, <2>4, <2>5, <2>6
<1> QED
  BY <1>2, <1>3 DEF EdgesFollow

\* Those whose home is c.
HomedAt(c) == {d \in Candidates : Home(d) = c}

LEMMA JoinedIsHomed ==
    ASSUME MergeAssumption, MergeTyped, PointersMark, PointersRise, Reconciled,
           NEW c \in Candidates \ Tombstones, NEW d \in Candidates
    PROVE  /\ Joined(d, c) => d \in HomedAt(c)
           /\ \A x \in HomedAt(c) : Joined(d, x) => d \in HomedAt(c)
<1>1. c \in Ends \ Tombstones /\ c \in Ends /\ d \in Ends /\ Home(c) = c
  BY HomeOfTheLiving DEF Ends
<1>2. Joined(d, c) => d \in HomedAt(c)
  BY <1>1, JoinedHome DEF HomedAt
<1>3. ASSUME NEW x \in HomedAt(c), Joined(d, x) PROVE d \in HomedAt(c)
  <2>1. x \in Ends /\ Home(x) = c
    BY <1>3 DEF HomedAt, Ends
  <2>2. Home(d) = Home(x)
    BY <1>1, <1>3, <2>1, JoinedHome
  <2> QED
    BY <2>1, <2>2 DEF HomedAt
<1> QED
  BY <1>2, <1>3

LEMMA AliasesComeHome ==
    ASSUME MergeAssumption, MergeTyped, PointersMark, PointersRise, Reconciled,
           TombstonesAbsorbed, RowsFollow, NEW c \in Candidates \ Tombstones
    PROVE  candidate[c].aliases \cup {c} = HomedAt(c)
<1>1. candidate[c].aliases \subseteq Candidates
  BY DEF MergeTyped, CandidateRows
<1>2. ASSUME NEW a \in candidate[c].aliases PROVE a \in HomedAt(c)
  BY <1>1, JoinedIsHomed DEF RowsFollow, AliasesFollow
<1>3. c \in HomedAt(c)
  BY JoinedAgain, JoinedIsHomed
<1>4. ASSUME NEW d \in HomedAt(c) PROVE d \in candidate[c].aliases \cup {c}
  <2>1. d \in Candidates /\ Home(d) = c
    BY DEF HomedAt
  <2>2. PICK S \in SUBSET Ends : \A x : x \in S <=> x \in Candidates /\ d \in candidate[x].aliases \cup {x}
    <3>1. PICK S : S = {x \in Candidates : d \in candidate[x].aliases \cup {x}}
      OBVIOUS
    <3>2. S \subseteq Ends
      BY <3>1 DEF Ends
    <3> QED
      BY <3>1, <3>2
  <2>3. \A t \in Tombstones : candidate[t].into \in Candidates
    <3>1. \A t \in Tombstones : t \in Candidates /\ candidate[t] \in CandidateRows /\ candidate[t].into # NoValue
      BY DEF Tombstones, MergeTyped, PointersMark
    <3> QED
      BY <3>1 DEF CandidateRows
  <2>4. \A t \in Tombstones : t \in S => candidate[t].into \in S
    BY <2>2, <2>3 DEF TombstonesAbsorbed, Absorbed
  <2>5. d \in S
    BY <2>1, <2>2
  <2>6. Home(d) \in S
    BY <2>4, <2>5, HomeIsAmong
  <2> QED
    BY <2>1, <2>2, <2>6
<1> QED
  BY <1>2, <1>3, <1>4

LEMMA FieldsComeHome ==
    ASSUME MergeAssumption, MergeTyped, PointersMark, PointersRise, Reconciled,
           TombstonesAbsorbed, RowsFollow, NEW c \in Candidates \ Tombstones, NEW f \in Fields
    PROVE  /\ NoValue \notin Own(c, f) => candidate[c].props[f] \in Own(c, f)
           /\ candidate[c].props[f] # NoValue => \E d \in HomedAt(c) : candidate[c].props[f] \in Said(d, f)
           /\ candidate[c].props[f] = NoValue => \/ \A d \in HomedAt(c) : Said(d, f) = {NoValue}
                                                 \/ \E d \in HomedAt(c) : NoValue \in Told(d, f)
<1>1. NoValue \notin Own(c, f) => candidate[c].props[f] \in Own(c, f)
  BY DEF RowsFollow, FieldFollows
<1>2. ASSUME candidate[c].props[f] # NoValue
      PROVE  \E d \in HomedAt(c) : candidate[c].props[f] \in Said(d, f)
  <2>1. SaidBy(candidate[c].props[f], c, f)
    BY <1>2 DEF RowsFollow, FieldFollows
  <2> QED
    BY <2>1, JoinedIsHomed DEF SaidBy
<1>3. ASSUME candidate[c].props[f] = NoValue, ~ \E d \in HomedAt(c) : NoValue \in Told(d, f),
             NEW d \in HomedAt(c)
      PROVE  Said(d, f) = {NoValue}
  <2>1. \A x \in HomedAt(c) : x \in Candidates /\ Home(x) = c
    BY DEF HomedAt
  <2>2. \A x \in HomedAt(c) : ~Cleared(x, f)
    BY <1>3, JoinedIsHomed DEF Cleared
  <2>3. candidate[d].props[f] = NoValue
    <3>1. SUFFICES ASSUME candidate[d].props[f] # NoValue PROVE FALSE
      OBVIOUS
    <3>2. PICK S \in SUBSET Ends :
            \A x : x \in S <=> x \in HomedAt(c) /\ candidate[x].props[f] # NoValue
      <4>1. PICK S : S = {x \in HomedAt(c) : candidate[x].props[f] # NoValue}
        OBVIOUS
      <4>2. S \subseteq Ends
        BY <4>1, <2>1 DEF Ends
      <4> QED
        BY <4>1, <4>2
    <3>3. \A t \in Tombstones : t \in HomedAt(c) => candidate[t].into \in HomedAt(c)
      <4>1. \A t \in Tombstones : t \in Candidates /\ candidate[t] \in CandidateRows /\ candidate[t].into # NoValue
        BY DEF Tombstones, MergeTyped, PointersMark
      <4>2. \A t \in Tombstones : candidate[t].into \in Candidates
        BY <4>1 DEF CandidateRows
      <4> QED
        BY <4>2, HomeAlongPointers DEF HomedAt
    <3>4. \A t \in Tombstones : t \in S => candidate[t].into \in S
      BY <2>2, <3>2, <3>3 DEF TombstonesAbsorbed, Absorbed
    <3>5. Home(d) \in S
      BY <3>1, <3>2, <3>4, HomeIsAmong
    <3> QED
      BY <1>3, <2>1, <3>2, <3>5
  <2> QED
    BY <2>1, <2>2, <2>3 DEF RowsFollow, FieldFollows
<1> QED
  BY <1>1, <1>2, <1>3

LEMMA ImportsComeHome ==
    ASSUME MergeAssumption, MergeTyped, PointersMark, PointersRise, Reconciled,
           TombstonesAbsorbed, RowsFollow, NEW c \in Candidates \ Tombstones
    PROVE  ToSet(candidate[c].imports) = UNION {Provenance(d) : d \in HomedAt(c)}
<1>1. ASSUME NEW p \in ToSet(candidate[c].imports)
      PROVE  \E d \in HomedAt(c) : p \in Provenance(d)
  <2>1. TracedTo(p, c)
    BY DEF RowsFollow, ImportsFollow
  <2> QED
    BY <2>1, JoinedIsHomed DEF TracedTo
<1>2. ASSUME NEW d \in HomedAt(c), NEW p \in Provenance(d)
      PROVE  p \in ToSet(candidate[c].imports)
  <2>1. d \in Candidates /\ Home(d) = c
    BY DEF HomedAt
  <2>2. PICK S \in SUBSET Ends : \A x : x \in S <=> x \in Candidates /\ p \in ToSet(candidate[x].imports)
    <3>1. PICK S : S = {x \in Candidates : p \in ToSet(candidate[x].imports)}
      OBVIOUS
    <3>2. S \subseteq Ends
      BY <3>1 DEF Ends
    <3> QED
      BY <3>1, <3>2
  <2>3. \A t \in Tombstones : candidate[t].into \in Candidates
    <3>1. \A t \in Tombstones : t \in Candidates /\ candidate[t] \in CandidateRows /\ candidate[t].into # NoValue
      BY DEF Tombstones, MergeTyped, PointersMark
    <3> QED
      BY <3>1 DEF CandidateRows
  <2>4. \A t \in Tombstones : t \in S => candidate[t].into \in S
    BY <2>2, <2>3 DEF TombstonesAbsorbed, Absorbed
  <2>5. d \in S
    BY <1>2, <2>1, <2>2 DEF RowsFollow, ImportsFollow
  <2>6. Home(d) \in S
    BY <2>4, <2>5, HomeIsAmong
  <2> QED
    BY <2>1, <2>2, <2>6
<1> QED
  BY <1>1, <1>2

-----------------------------------------------------------------------------
\* What a merge under way has read is still so, its list is of the duplicate's edges, and
\* after the backfill the survivor has all that the duplicate has.
Touches(e, d) == d \in {edges[e].from, edges[e].to}

Lists(todo, d) ==
    /\ \A e \in DOMAIN SeedEdges : Touches(e, d) => \E k \in DOMAIN todo : todo[k].edge = e
    /\ \A k \in DOMAIN todo : /\ todo[k].edge \in DOMAIN SeedEdges /\ Touches(todo[k].edge, d)
                              /\ todo[k].from = edges[todo[k].edge].from
                              /\ todo[k].to = edges[todo[k].edge].to
    /\ \A j, k \in DOMAIN todo : todo[j].edge = todo[k].edge => j = k

BothLive(m) == merge[m].survivor \notin Tombstones /\ merge[m].duplicate \notin Tombstones

InFlight(m) ==
    /\ merge[m].at \in {"reading", "listing", "moving"} => merge[m].sRow = candidate[merge[m].survivor]
    /\ merge[m].at \in {"listing", "moving", "backfilled"} =>
         merge[m].dRow = candidate[merge[m].duplicate] /\ BothLive(m)
    /\ merge[m].at = "moving" => Lists(merge[m].todo, merge[m].duplicate)
    /\ merge[m].at = "backfilled" =>
         /\ \A e \in DOMAIN SeedEdges : ~Touches(e, merge[m].duplicate)
         /\ Absorbed(merge[m].duplicate, merge[m].survivor)

FoundIsCurrent(i) ==
    importing[i].at = "found" =>
      importing[i].row = candidate[Imports[i].of] /\ Imports[i].of \notin Tombstones

\* A candidate whose entries no other has taken over.
Standing(c) ==
    /\ c \in Candidates \ Tombstones
    /\ \A m \in MergeCalls : ~(merge[m].at = "backfilled" /\ merge[m].duplicate = c)

NoneCut == \A m \in MergeCalls : merge[m].at # "cut"

ImportsOnce ==
    NoneCut =>
      /\ \A c \in Candidates : Standing(c) => IsInjective(candidate[c].imports)
      /\ \A b, c \in Candidates : Standing(b) /\ Standing(c) /\ b # c =>
           ToSet(candidate[b].imports) \cap ToSet(candidate[c].imports) = {}

CallsCurrent == (\A m \in MergeCalls : InFlight(m)) /\ (\A i \in DOMAIN Imports : FoundIsCurrent(i))

\* As long as no calls overlapped and none worked on a tombstone.
MergeSound ==
    /\ CallsCurrent /\ PointersMark /\ PointersRise /\ TombstonesAbsorbed
    /\ EdgesFollow /\ RowsFollow /\ ImportsOnce

Clean == ~entangled /\ ~misdirected

MergeInv == MergeTyped /\ (Clean => MergeSound)

LEMMA MergeInvSuffices ==
    ASSUME MergeAssumption, MergeInv
    PROVE  MergesLoseNothing
<1> SUFFICES ASSUME Reconciled, ~entangled, ~misdirected PROVE MergesLoseNothing
  BY DEF MergesLoseNothing
<1>1. MergeTyped /\ MergeSound
  BY DEF MergeInv, Clean
<1>2. PointersMark /\ PointersRise /\ TombstonesAbsorbed /\ EdgesFollow /\ RowsFollow /\ ImportsOnce
  BY <1>1 DEF MergeSound
<1>3. \A c \in Candidates : Home(c) \notin Tombstones
  BY <1>1, <1>2, HomeIsLiving DEF Ends
<1>4. \A e \in DOMAIN edges :
        edges[e] = IF Home(SeedEdges[e].from) = Home(SeedEdges[e].to) THEN Gone
                   ELSE [from |-> Home(SeedEdges[e].from), to |-> Home(SeedEdges[e].to)]
  <2>1. DOMAIN edges = DOMAIN SeedEdges
    BY <1>1 DEF MergeTyped
  <2> QED
    BY <1>1, <1>2, <2>1, EdgesComeHome
<1>5. ASSUME NEW c \in Candidates \ Tombstones
      PROVE  /\ candidate[c].aliases \cup {c} = HomedAt(c)
             /\ \A f \in Fields :
                  /\ NoValue \notin Own(c, f) => candidate[c].props[f] \in Own(c, f)
                  /\ candidate[c].props[f] # NoValue => \E d \in HomedAt(c) : candidate[c].props[f] \in Said(d, f)
                  /\ candidate[c].props[f] = NoValue => \/ \A d \in HomedAt(c) : Said(d, f) = {NoValue}
                                                        \/ \E d \in HomedAt(c) : NoValue \in Told(d, f)
             /\ ToSet(candidate[c].imports) = UNION {Provenance(d) : d \in HomedAt(c)}
             /\ (\A m \in MergeCalls : merge[m].at # "cut") =>
                  Len(candidate[c].imports) = Cardinality(UNION {Provenance(d) : d \in HomedAt(c)})
  <2>1. candidate[c].aliases \cup {c} = HomedAt(c)
    BY <1>1, <1>2, AliasesComeHome
  <2>2. ASSUME NEW f \in Fields
        PROVE  /\ NoValue \notin Own(c, f) => candidate[c].props[f] \in Own(c, f)
               /\ candidate[c].props[f] # NoValue => \E d \in HomedAt(c) : candidate[c].props[f] \in Said(d, f)
               /\ candidate[c].props[f] = NoValue => \/ \A d \in HomedAt(c) : Said(d, f) = {NoValue}
                                                     \/ \E d \in HomedAt(c) : NoValue \in Told(d, f)
    BY <1>1, <1>2, FieldsComeHome
  <2>3. ToSet(candidate[c].imports) = UNION {Provenance(d) : d \in HomedAt(c)}
    BY <1>1, <1>2, ImportsComeHome
  <2>4. ASSUME NoneCut PROVE Len(candidate[c].imports) = Cardinality(ToSet(candidate[c].imports))
    <3>1. Standing(c)
      BY DEF Standing, Reconciled, MergeRests
    <3>2. IsInjective(candidate[c].imports)
      BY <2>4, <3>1, <1>2 DEF ImportsOnce
    <3>3. candidate[c].imports \in Seq(MergeEntries)
      BY <1>1 DEF MergeTyped, CandidateRows
    <3> QED
      BY <3>2, <3>3, DistinctLength
  <2> QED
    BY <2>1, <2>2, <2>3, <2>4 DEF NoneCut
<1> QED
  BY <1>3, <1>4, <1>5, ZenonT(60) DEF MergesLoseNothing, HomedAt

-----------------------------------------------------------------------------
\* No edge led from an object to itself at first.
NoLoops == \A e \in DOMAIN SeedEdges : SeedEdges[e].from # SeedEdges[e].to

LEMMA MergeTypedInit ==
    ASSUME MergeAssumption, MergeInit
    PROVE  MergeTyped
<1>1. ASSUME NEW c \in Candidates PROVE SeedRow(c) \in CandidateRows
  <2>1. Identity[c] \in [Fields -> Values] /\ <<c>> \in Seq(MergeEntries)
    BY DEF MergeAssumption, MergeEntries
  <2> QED
    BY <2>1 DEF SeedRow, CandidateRows
<1>2. candidate \in [Candidates -> CandidateRows]
  BY <1>1 DEF MergeInit
<1>3. edges \in [DOMAIN SeedEdges -> [from : Ends, to : Ends] \cup {Gone}]
  BY DEF MergeInit, MergeAssumption
<1>4. merge \in [MergeCalls -> MergeStates]
  BY DEF MergeInit, IdleMerge, MergeStates, MergeSteps
<1>5. importing \in [DOMAIN Imports -> ImportStates]
  BY DEF MergeInit, IdleImport, ImportStates
<1>6. (\A m \in MergeCalls : merge[m].at = "idle") /\ (\A i \in DOMAIN Imports : importing[i].at = "idle")
  BY DEF MergeInit, IdleMerge, IdleImport
<1>7. entangled \in BOOLEAN /\ misdirected \in BOOLEAN
  BY DEF MergeInit
<1>8. (\A m \in MergeCalls : GoodMerge(merge[m])) /\ (\A i \in DOMAIN Imports : GoodImport(importing[i]))
  BY <1>4, <1>5, <1>6 DEF GoodMerge, GoodImport
<1> QED
  BY <1>2, <1>3, <1>4, <1>5, <1>7, <1>8 DEF MergeTyped

LEMMA MergeInvInit ==
    ASSUME MergeAssumption, NoLoops, MergeInit
    PROVE  MergeInv
<1>1. MergeTyped
  BY MergeTypedInit
<1>2. (\A m \in MergeCalls : merge[m].at = "idle") /\ (\A i \in DOMAIN Imports : importing[i].at = "idle")
  BY DEF MergeInit, IdleMerge, IdleImport
<1>3. CallsCurrent
  BY <1>2 DEF CallsCurrent, InFlight, FoundIsCurrent
<1>4. ASSUME NEW c \in Candidates
      PROVE  /\ candidate[c].status = "active" /\ candidate[c].into = NoValue
             /\ candidate[c].props = Identity[c] /\ candidate[c].aliases = {} /\ candidate[c].imports = <<c>>
  <2>1. candidate[c] = SeedRow(c)
    BY DEF MergeInit
  <2> QED
    BY <2>1 DEF SeedRow
<1>5. Tombstones = {}
  BY <1>4 DEF Tombstones
<1>6. PointersMark
  BY <1>4, <1>5 DEF PointersMark
<1>7. PointersRise
  <2>1. Cardinality(Tombstones) = 0
    BY <1>5, FS_EmptySet
  <2>2. PICK r : r = [c \in Candidates |-> 0]
    OBVIOUS
  <2>3. r \in [Candidates -> 0 .. Cardinality(Tombstones)]
    BY <2>1, <2>2
  <2> QED
    BY <1>5, <2>3 DEF PointersRise
<1>8. TombstonesAbsorbed
  BY <1>5 DEF TombstonesAbsorbed
<1>9. EdgesFollow
  <2> SUFFICES ASSUME NEW e \in DOMAIN SeedEdges PROVE EdgeMoved(e)
    BY DEF EdgesFollow
  <2>1. edges[e] = SeedEdges[e] /\ SeedEdges[e].from \in Ends /\ SeedEdges[e].to \in Ends
    BY DEF MergeInit, MergeAssumption
  <2>2. SeedEdges[e].from # SeedEdges[e].to
    BY DEF NoLoops
  <2> QED
    BY <2>1, <2>2, <1>5, JoinedAgain DEF EdgeMoved
<1>10. \A c \in Candidates : AliasesFollow(c)
  BY <1>4 DEF AliasesFollow
<1>11. ASSUME NEW c \in Candidates
       PROVE  /\ candidate[c].imports = <<c>> /\ ToSet(candidate[c].imports) = {c} /\ Provenance(c) = {c}
              /\ \A f \in Fields : candidate[c].props[f] = Identity[c][f] /\ Told(c, f) = {}
  <2>1. candidate[c].imports = <<c>> /\ \A f \in Fields : candidate[c].props[f] = Identity[c][f]
    BY <1>4
  <2>2. ToSet(<<c>>) = {c}
    BY DEF ToSet
  <2>3. Provenance(c) = {c}
    BY <1>2 DEF Provenance
  <2>4. \A f \in Fields : Told(c, f) = {}
    BY <1>2 DEF Told
  <2> QED
    BY <2>1, <2>2, <2>3, <2>4
<1>12. \A c \in Candidates : ImportsFollow(c)
  BY <1>11, JoinedAgain DEF ImportsFollow, TracedTo
<1>13. ASSUME NEW c \in Candidates, NEW f \in Fields
       PROVE  FieldFollows(c, f)
  <2>1. candidate[c].props[f] = Identity[c][f] /\ Own(c, f) = {Identity[c][f]} /\ Said(c, f) = {Identity[c][f]}
    BY <1>11 DEF Own, Said
  <2> QED
    BY <2>1, JoinedAgain DEF FieldFollows, SaidBy
<1>14. ImportsOnce
  <2>1. \A c \in Candidates : IsInjective(<<c>>)
    BY DEF IsInjective
  <2>2. \A c \in Candidates : IsInjective(candidate[c].imports) /\ ToSet(candidate[c].imports) = {c}
    BY <2>1, <1>11
  <2> QED
    BY <2>2 DEF ImportsOnce
<1> QED
  BY <1>1, <1>3, <1>6, <1>7, <1>8, <1>9, <1>10, <1>12, <1>13, <1>14 DEF MergeInv, MergeSound, RowsFollow

-----------------------------------------------------------------------------
\* What each step does to the calls, and that all stays of its type.
OthersKept(m) == \A n \in MergeCalls \ {m} : merge'[n] = merge[n]

SamePair(m) == merge'[m].survivor = merge[m].survivor /\ merge'[m].duplicate = merge[m].duplicate

LEMMA MergeGoesOn ==
    ASSUME MergeTyped, NEW m \in MergeCalls, NEW r, GoodMerge(r), merge' = [merge EXCEPT ![m] = r]
    PROVE  /\ merge' \in [MergeCalls -> MergeStates] /\ (\A n \in MergeCalls : GoodMerge(merge'[n]))
           /\ OthersKept(m) /\ merge'[m] = r
<1>1. merge \in [MergeCalls -> MergeStates] /\ r \in MergeStates /\ \A n \in MergeCalls : GoodMerge(merge[n])
  BY DEF MergeTyped, GoodMerge
<1>2. merge'[m] = r /\ OthersKept(m)
  BY <1>1 DEF OthersKept
<1>3. merge' \in [MergeCalls -> MergeStates]
  BY <1>1
<1>4. \A n \in MergeCalls : merge'[n] = r \/ merge'[n] = merge[n]
  BY <1>2 DEF OthersKept
<1> QED
  BY <1>1, <1>2, <1>3, <1>4

LEMMA EndedIsGood ==
    ASSUME MergeTyped, NEW m \in MergeCalls, merge[m].at # "idle", NEW at \in {"returned", "cut"}, merge' = Ended(m, at)
    PROVE  /\ merge' \in [MergeCalls -> MergeStates] /\ (\A n \in MergeCalls : GoodMerge(merge'[n]))
           /\ OthersKept(m) /\ SamePair(m) /\ merge'[m].at = at
<1>1. PICK r : r = [IdleMerge EXCEPT !.at = at, !.survivor = merge[m].survivor, !.duplicate = merge[m].duplicate]
  OBVIOUS
<1>2. r = [at |-> at, survivor |-> merge[m].survivor, duplicate |-> merge[m].duplicate,
           sRow |-> NoValue, dRow |-> NoValue, todo |-> << >>]
  BY <1>1 DEF IdleMerge
<1>3. GoodMerge(merge[m])
  BY DEF MergeTyped
<1>4. merge[m].survivor \in Candidates /\ merge[m].duplicate \in Candidates
      /\ merge[m].survivor # merge[m].duplicate
  BY <1>3 DEF GoodMerge
<1>5. r \in MergeStates
  BY <1>2, <1>4 DEF MergeStates, MergeSteps
<1>6. GoodMerge(r)
  BY <1>2, <1>4, <1>5 DEF GoodMerge
<1>7. merge' = [merge EXCEPT ![m] = r]
  BY <1>1 DEF Ended
<1>8. merge' \in [MergeCalls -> MergeStates] /\ (\A n \in MergeCalls : GoodMerge(merge'[n]))
      /\ OthersKept(m) /\ merge'[m] = r
  BY <1>6, <1>7, MergeGoesOn
<1> QED
  BY <1>2, <1>8 DEF SamePair

LEMMA RestIsTyped ==
    ASSUME MergeTyped, merge' \in [MergeCalls -> MergeStates], \A n \in MergeCalls : GoodMerge(merge'[n]),
           UNCHANGED <<candidate, edges, importing>>, entangled' \in BOOLEAN, misdirected' \in BOOLEAN
    PROVE  MergeTyped'
BY DEF MergeTyped

LEMMA EntangleTyped ==
    ASSUME MergeTyped, NEW x, Entangle(x)
    PROVE  entangled' \in BOOLEAN
BY DEF MergeTyped, Entangle

LEMMA ChosenIsGood ==
    ASSUME MergeTyped, NEW m \in MergeCalls, NEW s \in Candidates, NEW d \in Candidates, s # d,
           merge' = [merge EXCEPT ![m] = [IdleMerge EXCEPT !.at = "chosen", !.survivor = s, !.duplicate = d]]
    PROVE  /\ merge' \in [MergeCalls -> MergeStates] /\ (\A n \in MergeCalls : GoodMerge(merge'[n]))
           /\ OthersKept(m) /\ merge'[m].at = "chosen"
<1>1. PICK r : r = [IdleMerge EXCEPT !.at = "chosen", !.survivor = s, !.duplicate = d]
  OBVIOUS
<1>2. r = [at |-> "chosen", survivor |-> s, duplicate |-> d, sRow |-> NoValue, dRow |-> NoValue, todo |-> << >>]
  BY <1>1 DEF IdleMerge
<1>3. r \in MergeStates
  BY <1>2 DEF MergeStates, MergeSteps
<1>4. GoodMerge(r)
  BY <1>2, <1>3 DEF GoodMerge
<1>5. merge' = [merge EXCEPT ![m] = r]
  BY <1>1
<1> QED
  BY <1>2, <1>4, <1>5, MergeGoesOn, ZenonT(60)

LEMMA ChoosePairStep ==
    ASSUME MergeAssumption, MergeTyped, NEW m \in MergeCalls, ChoosePair(m)
    PROVE  MergeTyped' /\ OthersKept(m) /\ merge[m].at = "idle" /\ merge'[m].at = "chosen"
<1>1. PICK pair, backwards :
        /\ pair \in DuplicateClusters(candidate) /\ backwards \in BOOLEAN
        /\ merge' = [merge EXCEPT ![m] = [IdleMerge EXCEPT
                       !.at = "chosen",
                       !.survivor = IF backwards THEN pair[2] ELSE pair[1],
                       !.duplicate = IF backwards THEN pair[1] ELSE pair[2]]]
  BY DEF ChoosePair
<1>2. pair[1] \in Candidates /\ pair[2] \in Candidates /\ pair[1] # pair[2]
  BY <1>1 DEF DuplicateClusters, MergeAssumption
<1>3. PICK s, d : s = (IF backwards THEN pair[2] ELSE pair[1]) /\ d = (IF backwards THEN pair[1] ELSE pair[2])
  OBVIOUS
<1>4. s \in Candidates /\ d \in Candidates /\ s # d
  BY <1>1, <1>2, <1>3
<1>5. merge' = [merge EXCEPT ![m] = [IdleMerge EXCEPT !.at = "chosen", !.survivor = s, !.duplicate = d]]
  BY <1>1, <1>3, Zenon
<1>6. merge' \in [MergeCalls -> MergeStates] /\ (\A n \in MergeCalls : GoodMerge(merge'[n]))
      /\ OthersKept(m) /\ merge'[m].at = "chosen"
  BY <1>4, <1>5, ChosenIsGood
<1>7. UNCHANGED <<candidate, edges, importing, entangled, misdirected>> /\ merge[m].at = "idle"
  BY DEF ChoosePair
<1>8. MergeTyped'
  BY <1>6, <1>7, RestIsTyped DEF MergeTyped
<1> QED
  BY <1>6, <1>7, <1>8

LEMMA ReadSurvivorStep ==
    ASSUME MergeAssumption, MergeTyped, NEW m \in MergeCalls, ReadSurvivor(m)
    PROVE  /\ MergeTyped' /\ OthersKept(m) /\ SamePair(m) /\ merge[m].at = "chosen" /\ merge'[m].at = "reading"
           /\ merge'[m].sRow = candidate[merge[m].survivor]
<1>1. merge[m].at = "chosen" /\ GoodMerge(merge[m])
  BY DEF ReadSurvivor, MergeTyped
<1>2. merge[m] \in MergeStates /\ merge[m].survivor \in Candidates
      /\ merge[m].duplicate \in Candidates /\ merge[m].survivor # merge[m].duplicate
  BY <1>1 DEF GoodMerge
<1>3. candidate[merge[m].survivor] \in CandidateRows
  BY <1>2 DEF MergeTyped
<1>4. PICK r : r = [merge[m] EXCEPT !.at = "reading", !.sRow = candidate[merge[m].survivor]]
  OBVIOUS
<1>5. r \in MergeStates /\ r.at = "reading" /\ r.sRow = candidate[merge[m].survivor]
      /\ r.survivor = merge[m].survivor /\ r.duplicate = merge[m].duplicate
  BY <1>2, <1>3, <1>4 DEF MergeStates, MergeSteps
<1>6. GoodMerge(r)
  BY <1>2, <1>3, <1>5 DEF GoodMerge
<1>7. merge' = [merge EXCEPT ![m] = r]
  BY <1>4 DEF ReadSurvivor, MergeTyped
<1>8. merge' \in [MergeCalls -> MergeStates] /\ (\A n \in MergeCalls : GoodMerge(merge'[n]))
      /\ OthersKept(m) /\ merge'[m] = r
  BY <1>6, <1>7, MergeGoesOn
<1>9. UNCHANGED <<candidate, edges, importing, misdirected>> /\ entangled' \in BOOLEAN /\ misdirected \in BOOLEAN
  BY EntangleTyped DEF ReadSurvivor, MergeTyped
<1>10. MergeTyped'
  BY <1>8, <1>9, RestIsTyped
<1> QED
  BY <1>1, <1>5, <1>8, <1>10 DEF SamePair

LEMMA ReadDuplicateStep ==
    ASSUME MergeAssumption, MergeTyped, NEW m \in MergeCalls, ReadDuplicate(m)
    PROVE  /\ MergeTyped' /\ OthersKept(m) /\ SamePair(m) /\ merge[m].at = "reading"
           /\ \/ merge'[m].at = "returned"
              \/ /\ merge'[m].at = "listing" /\ merge'[m].sRow = merge[m].sRow
                 /\ merge'[m].dRow = candidate[merge[m].duplicate]
                 /\ candidate[merge[m].duplicate].status # "merged"
                 /\ misdirected' = (misdirected \/ merge[m].sRow.status = "merged")
<1>1. merge[m].at = "reading" /\ GoodMerge(merge[m])
  BY DEF ReadDuplicate, MergeTyped
<1>2. merge[m] \in MergeStates /\ merge[m].survivor \in Candidates /\ merge[m].sRow \in CandidateRows
      /\ merge[m].duplicate \in Candidates /\ merge[m].survivor # merge[m].duplicate
  BY <1>1 DEF GoodMerge
<1>3. candidate[merge[m].duplicate] \in CandidateRows
  BY <1>2 DEF MergeTyped
<1>4. UNCHANGED <<candidate, edges, importing>> /\ entangled' \in BOOLEAN /\ misdirected \in BOOLEAN
  BY EntangleTyped DEF ReadDuplicate, MergeTyped
<1>5. CASE candidate[merge[m].duplicate].status = "merged"
  <2>1. merge' = Ended(m, "returned") /\ UNCHANGED misdirected
    BY <1>5 DEF ReadDuplicate
  <2>2. merge' \in [MergeCalls -> MergeStates] /\ (\A n \in MergeCalls : GoodMerge(merge'[n]))
        /\ OthersKept(m) /\ SamePair(m) /\ merge'[m].at = "returned"
    BY <1>1, <2>1, EndedIsGood
  <2>3. MergeTyped'
    BY <1>4, <2>1, <2>2, RestIsTyped
  <2> QED
    BY <1>1, <2>2, <2>3
<1>6. CASE candidate[merge[m].duplicate].status # "merged"
  <2>1. PICK r : r = [merge[m] EXCEPT !.at = "listing", !.dRow = candidate[merge[m].duplicate]]
    OBVIOUS
  <2>2. r \in MergeStates /\ r.at = "listing" /\ r.dRow = candidate[merge[m].duplicate]
        /\ r.sRow = merge[m].sRow /\ r.survivor = merge[m].survivor /\ r.duplicate = merge[m].duplicate
    BY <1>2, <1>3, <2>1 DEF MergeStates, MergeSteps
  <2>3. GoodMerge(r)
    BY <1>2, <1>3, <2>2 DEF GoodMerge
  <2>4. merge' = [merge EXCEPT ![m] = r] /\ misdirected' = (misdirected \/ merge[m].sRow.status = "merged")
    BY <1>6, <2>1 DEF ReadDuplicate, MergeTyped
  <2>5. merge' \in [MergeCalls -> MergeStates] /\ (\A n \in MergeCalls : GoodMerge(merge'[n]))
        /\ OthersKept(m) /\ merge'[m] = r
    BY <2>3, <2>4, MergeGoesOn
  <2>6. MergeTyped'
    BY <1>4, <2>4, <2>5, RestIsTyped
  <2> QED
    BY <1>1, <1>6, <2>2, <2>4, <2>5, <2>6 DEF SamePair
<1> QED
  BY <1>5, <1>6

LEMMA ListEdgesStep ==
    ASSUME MergeAssumption, MergeTyped, NEW m \in MergeCalls, ListEdges(m)
    PROVE  /\ MergeTyped' /\ OthersKept(m) /\ SamePair(m) /\ merge[m].at = "listing" /\ merge'[m].at = "moving"
           /\ merge'[m].sRow = merge[m].sRow /\ merge'[m].dRow = merge[m].dRow
           /\ Lists(merge'[m].todo, merge[m].duplicate)
<1>1. merge[m].at = "listing" /\ GoodMerge(merge[m])
  BY DEF ListEdges, MergeTyped
<1>2. merge[m] \in MergeStates /\ merge[m].survivor \in Candidates /\ merge[m].sRow \in CandidateRows
      /\ merge[m].duplicate \in Candidates /\ merge[m].survivor # merge[m].duplicate /\ merge[m].dRow \in CandidateRows
  BY <1>1 DEF GoodMerge
<1>3. PICK d : d = merge[m].duplicate
  OBVIOUS
<1>4. PICK touching : touching = {e \in DOMAIN edges : d \in {edges[e].from, edges[e].to}}
  OBVIOUS
<1>5. PICK L : L = {[edge |-> e, from |-> edges[e].from, to |-> edges[e].to] : e \in touching}
  OBVIOUS
<1>6. PICK todo : todo = SetToSeq(L)
  OBVIOUS
<1>7. d \in Candidates /\ d # NoValue
  BY <1>2, <1>3 DEF MergeAssumption, Ends
<1>8. DOMAIN edges = DOMAIN SeedEdges
  BY DEF MergeTyped
<1>9. ASSUME NEW e \in touching
      PROVE  e \in DOMAIN SeedEdges /\ edges[e].from \in Ends /\ edges[e].to \in Ends
  <2>1. e \in DOMAIN SeedEdges /\ d \in {edges[e].from, edges[e].to}
    BY <1>4, <1>8
  <2>2. edges[e] \in [from : Ends, to : Ends]
    BY <2>1, <1>7 DEF MergeTyped, Gone
  <2> QED
    BY <2>1, <2>2
<1>10. L \subseteq ListedEdges
  BY <1>5, <1>9 DEF ListedEdges
<1>11. IsFiniteSet(L)
  <2>1. touching \subseteq DOMAIN SeedEdges
    BY <1>4, <1>8
  <2>2. IsFiniteSet(touching)
    BY <2>1, FS_Subset DEF MergeAssumption
  <2>3. PICK g : g = [e \in touching |-> [edge |-> e, from |-> edges[e].from, to |-> edges[e].to]]
    OBVIOUS
  <2>4. g \in Surjection(touching, L)
    BY <2>3, <1>5 DEF Surjection
  <2> QED
    BY <2>2, <2>4, FS_Surjection
<1>12. todo \in Seq(L) /\ ToSet(todo) = L /\ IsInjective(todo)
  BY <1>6, <1>11, ListedElements
<1>13. todo \in Seq(ListedEdges)
  BY <1>10, <1>12
<1>14. ASSUME NEW k \in DOMAIN todo
       PROVE  /\ todo[k].edge \in touching
              /\ todo[k] = [edge |-> todo[k].edge, from |-> edges[todo[k].edge].from, to |-> edges[todo[k].edge].to]
  <2>1. todo[k] \in L
    BY <1>12 DEF ToSet
  <2>2. PICK e \in touching : todo[k] = [edge |-> e, from |-> edges[e].from, to |-> edges[e].to]
    BY <2>1, <1>5
  <2> QED
    BY <2>2
<1>15. Lists(todo, d)
  <2>1. ASSUME NEW e \in DOMAIN SeedEdges, Touches(e, d) PROVE \E k \in DOMAIN todo : todo[k].edge = e
    <3>1. e \in touching
      BY <2>1, <1>4, <1>8 DEF Touches
    <3>2. PICK l : l = [edge |-> e, from |-> edges[e].from, to |-> edges[e].to]
      OBVIOUS
    <3>3. l \in ToSet(todo)
      BY <3>1, <3>2, <1>5, <1>12
    <3> QED
      BY <3>2, <3>3 DEF ToSet
  <2>2. ASSUME NEW k \in DOMAIN todo
        PROVE  /\ todo[k].edge \in DOMAIN SeedEdges /\ Touches(todo[k].edge, d)
               /\ todo[k].from = edges[todo[k].edge].from
               /\ todo[k].to = edges[todo[k].edge].to
    BY <1>14, <1>9, <1>4 DEF Touches
  <2>3. \A j, k \in DOMAIN todo : todo[j].edge = todo[k].edge => j = k
    BY <1>14, <1>12 DEF IsInjective
  <2> QED
    BY <2>1, <2>2, <2>3 DEF Lists
<1>16. PICK r : r = [merge[m] EXCEPT !.at = "moving", !.todo = todo]
  OBVIOUS
<1>17. r \in MergeStates /\ r.at = "moving" /\ r.dRow = merge[m].dRow /\ r.todo = todo
       /\ r.sRow = merge[m].sRow /\ r.survivor = merge[m].survivor /\ r.duplicate = merge[m].duplicate
  BY <1>2, <1>13, <1>16 DEF MergeStates, MergeSteps
<1>18. GoodMerge(r)
  BY <1>2, <1>17 DEF GoodMerge
<1>19. merge' = [merge EXCEPT ![m] = r] /\ UNCHANGED <<candidate, edges, importing, misdirected>> /\ Entangle(m)
  BY <1>3, <1>4, <1>5, <1>6, <1>16 DEF ListEdges, MergeTyped
<1>20. merge' \in [MergeCalls -> MergeStates] /\ (\A n \in MergeCalls : GoodMerge(merge'[n]))
       /\ OthersKept(m) /\ merge'[m] = r
  BY <1>18, <1>19, MergeGoesOn
<1>21. entangled' \in BOOLEAN /\ misdirected' \in BOOLEAN
  BY <1>19, EntangleTyped DEF MergeTyped
<1>22. MergeTyped'
  BY <1>19, <1>20, <1>21, RestIsTyped
<1> QED
  BY <1>1, <1>3, <1>15, <1>17, <1>20, <1>22 DEF SamePair

LEMMA MoveEdgeStep ==
    ASSUME MergeAssumption, MergeTyped, NEW m \in MergeCalls, MoveEdge(m)
    PROVE  /\ MergeTyped' /\ OthersKept(m) /\ SamePair(m) /\ merge[m].at = "moving" /\ merge[m].todo # << >>
           /\ UNCHANGED <<candidate, importing, misdirected>>
           /\ merge[m].todo \in Seq(ListedEdges)
           /\ \/ merge'[m].at = "cut" /\ UNCHANGED edges
              \/ /\ merge'[m].at = "moving" /\ merge'[m].todo = Tail(merge[m].todo)
                 /\ merge'[m].sRow = merge[m].sRow /\ merge'[m].dRow = merge[m].dRow
                 /\ \A e \in DOMAIN SeedEdges \ {Head(merge[m].todo).edge} : edges'[e] = edges[e]
                 /\ edges'[Head(merge[m].todo).edge] =
                      IF Moved(m, Head(merge[m].todo).from) = Moved(m, Head(merge[m].todo).to) THEN Gone
                      ELSE [from |-> Moved(m, Head(merge[m].todo).from), to |-> Moved(m, Head(merge[m].todo).to)]
<1>1. merge[m].at = "moving" /\ merge[m].todo # << >> /\ GoodMerge(merge[m])
  BY DEF MoveEdge, MergeTyped
<1>2. merge[m] \in MergeStates /\ merge[m].survivor \in Candidates /\ merge[m].sRow \in CandidateRows
      /\ merge[m].duplicate \in Candidates /\ merge[m].survivor # merge[m].duplicate /\ merge[m].dRow \in CandidateRows
  BY <1>1 DEF GoodMerge
<1>3. merge[m].todo \in Seq(ListedEdges)
  BY <1>2 DEF MergeStates
<1>4. PICK l, todo : l = Head(merge[m].todo) /\ todo = Tail(merge[m].todo)
  OBVIOUS
<1>5. l \in ListedEdges /\ todo \in Seq(ListedEdges)
  BY <1>1, <1>3, <1>4, HeadTailProperties
<1>6. PICK from, to : from = Moved(m, l.from) /\ to = Moved(m, l.to)
  OBVIOUS
<1>7. from \in Ends /\ to \in Ends /\ l.edge \in DOMAIN SeedEdges
  BY <1>2, <1>5, <1>6 DEF ListedEdges, Moved, Ends
<1>8. UNCHANGED <<candidate, importing, misdirected>> /\ entangled' \in BOOLEAN /\ misdirected \in BOOLEAN
  BY EntangleTyped DEF MoveEdge, MergeTyped
<1>9. CASE from # to /\ edges[l.edge] = Gone
  <2>1. merge' = Ended(m, "cut") /\ UNCHANGED edges
    BY <1>4, <1>6, <1>9 DEF MoveEdge
  <2>2. merge' \in [MergeCalls -> MergeStates] /\ (\A n \in MergeCalls : GoodMerge(merge'[n]))
        /\ OthersKept(m) /\ SamePair(m) /\ merge'[m].at = "cut"
    BY <1>1, <2>1, EndedIsGood
  <2>3. MergeTyped'
    BY <1>8, <2>1, <2>2, RestIsTyped
  <2> QED
    BY <1>1, <1>3, <1>8, <2>1, <2>2, <2>3
<1>10. CASE ~(from # to /\ edges[l.edge] = Gone)
  <2>1. PICK r : r = [merge[m] EXCEPT !.todo = todo]
    OBVIOUS
  <2>2. r \in MergeStates /\ r.at = "moving" /\ r.dRow = merge[m].dRow /\ r.todo = todo
        /\ r.sRow = merge[m].sRow /\ r.survivor = merge[m].survivor /\ r.duplicate = merge[m].duplicate
    BY <1>1, <1>2, <1>5, <2>1 DEF MergeStates, MergeSteps
  <2>3. GoodMerge(r)
    BY <1>2, <2>2 DEF GoodMerge
  <2>4. merge' = [merge EXCEPT ![m] = r]
        /\ edges' = [edges EXCEPT ![l.edge] = IF from = to THEN Gone ELSE [from |-> from, to |-> to]]
    BY <1>4, <1>6, <1>10, <2>1 DEF MoveEdge, MergeTyped
  <2>5. merge' \in [MergeCalls -> MergeStates] /\ (\A n \in MergeCalls : GoodMerge(merge'[n]))
        /\ OthersKept(m) /\ merge'[m] = r
    BY <2>3, <2>4, MergeGoesOn
  <2>6. PICK moved : moved = IF from = to THEN Gone ELSE [from |-> from, to |-> to]
    OBVIOUS
  <2>7. moved \in [from : Ends, to : Ends] \cup {Gone} /\ edges' = [edges EXCEPT ![l.edge] = moved]
    BY <1>7, <2>4, <2>6
  <2>8. edges' \in [DOMAIN SeedEdges -> [from : Ends, to : Ends] \cup {Gone}] /\ edges'[l.edge] = moved
        /\ \A e \in DOMAIN SeedEdges \ {l.edge} : edges'[e] = edges[e]
    BY <1>7, <2>7 DEF MergeTyped
  <2>9. MergeTyped'
    BY <1>8, <2>5, <2>8 DEF MergeTyped
  <2> QED
    BY <1>1, <1>3, <1>4, <1>6, <1>8, <2>2, <2>5, <2>6, <2>8, <2>9 DEF SamePair
<1> QED
  BY <1>9, <1>10

OtherRowsKept(c) == \A x \in Candidates \ {c} : candidate'[x] = candidate[x]

LEMMA BackfillStep ==
    ASSUME MergeAssumption, MergeTyped, NEW m \in MergeCalls, Backfill(m)
    PROVE  /\ MergeTyped' /\ OthersKept(m) /\ SamePair(m)
           /\ merge[m].at = "moving" /\ merge[m].todo = << >> /\ merge'[m].at = "backfilled"
           /\ merge'[m].dRow = merge[m].dRow
           /\ UNCHANGED <<edges, importing, misdirected>>
           /\ OtherRowsKept(merge[m].survivor)
           /\ candidate'[merge[m].survivor].status = candidate[merge[m].survivor].status
           /\ candidate'[merge[m].survivor].into =
                (IF merge[m].sRow.into = NoValue THEN merge[m].dRow.into ELSE merge[m].sRow.into)
           /\ candidate'[merge[m].survivor].aliases =
                merge[m].sRow.aliases \cup merge[m].dRow.aliases \cup {merge[m].duplicate}
           /\ candidate'[merge[m].survivor].imports = merge[m].sRow.imports \o merge[m].dRow.imports
           /\ \A f \in Fields : candidate'[merge[m].survivor].props[f] =
                IF merge[m].sRow.props[f] = NoValue THEN merge[m].dRow.props[f] ELSE merge[m].sRow.props[f]
<1>1. merge[m].at = "moving" /\ merge[m].todo = << >> /\ GoodMerge(merge[m])
  BY DEF Backfill, MergeTyped
<1>2. PICK s, d, sRow, dRow : s = merge[m].survivor /\ d = merge[m].duplicate
                              /\ sRow = merge[m].sRow /\ dRow = merge[m].dRow
  OBVIOUS
<1>3. merge[m] \in MergeStates /\ s \in Candidates /\ d \in Candidates /\ s # d
      /\ sRow \in CandidateRows /\ dRow \in CandidateRows
  BY <1>1, <1>2 DEF GoodMerge
<1>4. PICK filled : filled = Backfilled(sRow, dRow, d)
  OBVIOUS
<1>5. /\ filled.props = [f \in Fields |-> IF sRow.props[f] = NoValue THEN dRow.props[f] ELSE sRow.props[f]]
      /\ filled.aliases = sRow.aliases \cup dRow.aliases \cup {d}
      /\ filled.imports = sRow.imports \o dRow.imports
      /\ filled.into = IF sRow.into = NoValue THEN dRow.into ELSE sRow.into
  BY <1>4 DEF Backfilled
<1>6. filled.props \in [Fields -> Values]
  BY <1>3, <1>5 DEF CandidateRows
<1>7. filled.aliases \in SUBSET Candidates /\ filled.into \in Candidates \cup {NoValue}
  BY <1>3, <1>5 DEF CandidateRows
<1>8. filled.imports \in Seq(MergeEntries)
  <2>1. sRow.imports \in Seq(MergeEntries) /\ dRow.imports \in Seq(MergeEntries)
    BY <1>3 DEF CandidateRows
  <2> QED
    BY <2>1, <1>5, ConcatElements
<1>9. PICK row : row = [candidate[s] EXCEPT !.props = filled.props, !.aliases = filled.aliases,
                                            !.imports = filled.imports, !.into = filled.into]
  OBVIOUS
<1>10. candidate[s] \in CandidateRows
  BY <1>3 DEF MergeTyped
<1>11. row \in CandidateRows /\ row.status = candidate[s].status /\ row.props = filled.props
       /\ row.aliases = filled.aliases /\ row.imports = filled.imports /\ row.into = filled.into
  BY <1>6, <1>7, <1>8, <1>9, <1>10 DEF CandidateRows
<1>12. candidate' = [candidate EXCEPT ![s] = row]
  <2>1. candidate' = [candidate EXCEPT ![s] =
                       [@ EXCEPT !.props = filled.props, !.aliases = filled.aliases,
                                 !.imports = filled.imports, !.into = filled.into]]
    BY <1>2, <1>4, Zenon DEF Backfill
  <2> QED
    BY <2>1, <1>9
<1>13. candidate' \in [Candidates -> CandidateRows] /\ candidate'[s] = row /\ OtherRowsKept(s)
  BY <1>3, <1>11, <1>12 DEF MergeTyped, OtherRowsKept
<1>14. PICK r : r = [merge[m] EXCEPT !.at = "backfilled"]
  OBVIOUS
<1>15. r \in MergeStates /\ r.at = "backfilled" /\ r.dRow = dRow /\ r.sRow = sRow /\ r.survivor = s /\ r.duplicate = d
  BY <1>2, <1>3, <1>14 DEF MergeStates, MergeSteps
<1>16. GoodMerge(r)
  BY <1>3, <1>15 DEF GoodMerge
<1>17. merge' = [merge EXCEPT ![m] = r] /\ UNCHANGED <<edges, importing, misdirected>> /\ Entangle(m)
  BY <1>14 DEF Backfill, MergeTyped
<1>18. merge' \in [MergeCalls -> MergeStates] /\ (\A n \in MergeCalls : GoodMerge(merge'[n]))
       /\ OthersKept(m) /\ merge'[m] = r
  BY <1>16, <1>17, MergeGoesOn
<1>19. entangled' \in BOOLEAN
  BY <1>17, EntangleTyped
<1>20. MergeTyped'
  BY <1>13, <1>17, <1>18, <1>19 DEF MergeTyped
<1>21. \A f \in Fields : row.props[f] = IF sRow.props[f] = NoValue THEN dRow.props[f] ELSE sRow.props[f]
  BY <1>5, <1>11
<1>22. /\ candidate'[s].status = candidate[s].status
       /\ candidate'[s].into = IF sRow.into = NoValue THEN dRow.into ELSE sRow.into
       /\ candidate'[s].aliases = sRow.aliases \cup dRow.aliases \cup {d}
       /\ candidate'[s].imports = sRow.imports \o dRow.imports
       /\ \A f \in Fields : candidate'[s].props[f] =
            IF sRow.props[f] = NoValue THEN dRow.props[f] ELSE sRow.props[f]
  BY <1>5, <1>11, <1>13, <1>21
<1>23. SamePair(m) /\ merge'[m].at = "backfilled" /\ merge'[m].dRow = dRow
  BY <1>2, <1>15, <1>18 DEF SamePair
<1> QED
  BY <1>1, <1>2, <1>13, <1>17, <1>18, <1>20, <1>22, <1>23, ZenonT(60)

LEMMA TombstoneStep ==
    ASSUME MergeAssumption, MergeTyped, NEW m \in MergeCalls, Tombstone(m)
    PROVE  /\ MergeTyped' /\ OthersKept(m) /\ SamePair(m)
           /\ merge[m].at = "backfilled" /\ merge'[m].at = "returned"
           /\ UNCHANGED <<edges, importing, misdirected>>
           /\ OtherRowsKept(merge[m].duplicate)
           /\ candidate'[merge[m].duplicate].status = "merged"
           /\ candidate'[merge[m].duplicate].into = merge[m].survivor
           /\ candidate'[merge[m].duplicate].aliases = merge[m].dRow.aliases
           /\ candidate'[merge[m].duplicate].imports = merge[m].dRow.imports
           /\ candidate'[merge[m].duplicate].props = merge[m].dRow.props
<1>1. merge[m].at = "backfilled" /\ GoodMerge(merge[m])
  BY DEF Tombstone, MergeTyped
<1>2. PICK s, d, dRow : s = merge[m].survivor /\ d = merge[m].duplicate /\ dRow = merge[m].dRow
  OBVIOUS
<1>3. s \in Candidates /\ d \in Candidates /\ s # d /\ dRow \in CandidateRows
  BY <1>1, <1>2 DEF GoodMerge
<1>4. PICK row : row = [dRow EXCEPT !.status = "merged", !.into = s]
  OBVIOUS
<1>5. row \in CandidateRows /\ row.status = "merged" /\ row.into = s /\ row.props = dRow.props
      /\ row.aliases = dRow.aliases /\ row.imports = dRow.imports
  BY <1>3, <1>4 DEF CandidateRows
<1>6. candidate' = [candidate EXCEPT ![d] = row] /\ merge' = Ended(m, "returned") /\ Entangle(m)
      /\ UNCHANGED <<edges, importing, misdirected>>
  BY <1>2, <1>4 DEF Tombstone
<1>7. candidate' \in [Candidates -> CandidateRows] /\ candidate'[d] = row /\ OtherRowsKept(d)
  BY <1>3, <1>5, <1>6 DEF MergeTyped, OtherRowsKept
<1>8. merge' \in [MergeCalls -> MergeStates] /\ (\A n \in MergeCalls : GoodMerge(merge'[n]))
      /\ OthersKept(m) /\ SamePair(m) /\ merge'[m].at = "returned"
  BY <1>1, <1>6, EndedIsGood
<1>9. entangled' \in BOOLEAN
  BY <1>6, EntangleTyped
<1>10. MergeTyped'
  BY <1>6, <1>7, <1>8, <1>9 DEF MergeTyped
<1> QED
  BY <1>1, <1>2, <1>5, <1>6, <1>7, <1>8, <1>10

LEMMA CutOffStep ==
    ASSUME MergeAssumption, MergeTyped, NEW m \in MergeCalls, CutOff(m)
    PROVE  /\ MergeTyped' /\ OthersKept(m) /\ SamePair(m) /\ merge'[m].at = "cut"
           /\ merge[m].at \in {"reading", "listing", "moving", "backfilled"}
<1>1. merge[m].at \in {"reading", "listing", "moving", "backfilled"}
  <2>1. merge[m].at \in MergeSteps
    BY DEF MergeTyped, MergeStates
  <2> QED
    BY <2>1 DEF CutOff, MergeRests, MergeSteps
<1>2. merge' = Ended(m, "cut") /\ UNCHANGED <<candidate, edges, importing, entangled, misdirected>>
  BY DEF CutOff
<1>3. merge' \in [MergeCalls -> MergeStates] /\ (\A n \in MergeCalls : GoodMerge(merge'[n]))
      /\ OthersKept(m) /\ SamePair(m) /\ merge'[m].at = "cut"
  BY <1>1, <1>2, EndedIsGood
<1>4. MergeTyped'
  BY <1>2, <1>3, RestIsTyped DEF MergeTyped
<1> QED
  BY <1>1, <1>3, <1>4

OtherImportsKept(i) == \A j \in DOMAIN Imports \ {i} : importing'[j] = importing[j]

LEMMA FindByKeyStep ==
    ASSUME MergeAssumption, MergeTyped, NEW i \in DOMAIN Imports, FindByKey(i)
    PROVE  /\ MergeTyped' /\ OtherImportsKept(i) /\ importing[i].at = "idle" /\ importing'[i].at = "found"
           /\ importing'[i].row = candidate[Imports[i].of]
           /\ misdirected' = (misdirected \/ candidate[Imports[i].of].status = "merged")
<1>1. PICK row : row = candidate[Imports[i].of]
  OBVIOUS
<1>2. row \in CandidateRows
  BY <1>1 DEF MergeTyped, MergeAssumption
<1>3. importing[i].at = "idle" /\ importing' = [importing EXCEPT ![i] = [at |-> "found", row |-> row]]
      /\ misdirected' = (misdirected \/ row.status = "merged") /\ Entangle(i) /\ UNCHANGED <<candidate, edges, merge>>
  BY <1>1 DEF FindByKey
<1>4. GoodImport([at |-> "found", row |-> row]) /\ [at |-> "found", row |-> row] \in ImportStates
  BY <1>2 DEF GoodImport, ImportStates
<1>5. importing' \in [DOMAIN Imports -> ImportStates] /\ importing'[i] = [at |-> "found", row |-> row]
      /\ OtherImportsKept(i)
  BY <1>3, <1>4 DEF MergeTyped, OtherImportsKept
<1>6. \A j \in DOMAIN Imports : GoodImport(importing'[j])
  BY <1>4, <1>5 DEF MergeTyped, OtherImportsKept
<1>7. entangled' \in BOOLEAN /\ misdirected' \in BOOLEAN
  BY <1>3, EntangleTyped DEF MergeTyped
<1>8. MergeTyped'
  BY <1>3, <1>5, <1>6, <1>7 DEF MergeTyped
<1> QED
  BY <1>1, <1>3, <1>5, <1>8

LEMMA WriteImportStep ==
    ASSUME MergeAssumption, MergeTyped, NEW i \in DOMAIN Imports, WriteImport(i)
    PROVE  /\ MergeTyped' /\ OtherImportsKept(i) /\ importing[i].at = "found" /\ importing'[i].at = "returned"
           /\ UNCHANGED <<edges, merge, misdirected>>
           /\ OtherRowsKept(Imports[i].of)
           /\ candidate'[Imports[i].of].status =
                (IF Imports[i].status = NoValue THEN importing[i].row.status ELSE Imports[i].status)
           /\ candidate'[Imports[i].of].into = importing[i].row.into
           /\ candidate'[Imports[i].of].aliases = importing[i].row.aliases
           /\ candidate'[Imports[i].of].imports =
                (IF Contains(importing[i].row.imports, i) THEN importing[i].row.imports
                 ELSE Append(importing[i].row.imports, i))
           /\ \A f \in Fields : candidate'[Imports[i].of].props[f] =
                IF f \in DOMAIN Imports[i].fields THEN Imports[i].fields[f] ELSE importing[i].row.props[f]
<1>1. PICK c, given, row : c = Imports[i].of /\ given = Imports[i] /\ row = importing[i].row
  OBVIOUS
<1>2. importing[i].at = "found" /\ GoodImport(importing[i])
  BY DEF WriteImport, MergeTyped
<1>3. c \in Candidates /\ row \in CandidateRows
  BY <1>1, <1>2 DEF MergeAssumption, GoodImport
<1>4. PICK status, props, imports :
        /\ status = IF given.status = NoValue THEN row.status ELSE given.status
        /\ props = [f \in Fields |-> IF f \in DOMAIN given.fields THEN given.fields[f] ELSE row.props[f]]
        /\ imports = IF Contains(row.imports, i) THEN row.imports ELSE Append(row.imports, i)
  OBVIOUS
<1>5. status \in {"active", "new", "merged"}
  BY <1>1, <1>3, <1>4 DEF MergeAssumption, CandidateRows
<1>6. props \in [Fields -> Values]
  <2>1. \A f \in DOMAIN given.fields : given.fields[f] \in Values
    BY <1>1 DEF Values
  <2>2. row.props \in [Fields -> Values]
    BY <1>3 DEF CandidateRows
  <2> QED
    BY <1>4, <2>1, <2>2
<1>7. imports \in Seq(MergeEntries)
  <2>1. row.imports \in Seq(MergeEntries) /\ i \in MergeEntries
    BY <1>3 DEF CandidateRows, MergeEntries
  <2> QED
    BY <1>4, <2>1, AppendProperties
<1>8. PICK new : new = [row EXCEPT !.status = status, !.props = props, !.imports = imports]
  OBVIOUS
<1>9. new \in CandidateRows /\ new.status = status /\ new.props = props /\ new.imports = imports
      /\ new.aliases = row.aliases /\ new.into = row.into
  BY <1>3, <1>5, <1>6, <1>7, <1>8 DEF CandidateRows
<1>10. candidate' = [candidate EXCEPT ![c] = new]
  <2>1. candidate' = [candidate EXCEPT ![given.of] =
             [row EXCEPT !.status = IF given.status = NoValue THEN @ ELSE given.status,
                         !.props = [f \in Fields |-> IF f \in DOMAIN given.fields THEN given.fields[f] ELSE @[f]],
                         !.imports = IF Contains(@, i) THEN @ ELSE Append(@, i)]]
    BY <1>1, Zenon DEF WriteImport
  <2>2. [row EXCEPT !.status = IF given.status = NoValue THEN @ ELSE given.status,
                    !.props = [f \in Fields |-> IF f \in DOMAIN given.fields THEN given.fields[f] ELSE @[f]],
                    !.imports = IF Contains(@, i) THEN @ ELSE Append(@, i)] = new
    BY <1>3, <1>4, <1>8 DEF CandidateRows
  <2> QED
    BY <2>1, <2>2, <1>1
<1>11. candidate' \in [Candidates -> CandidateRows] /\ candidate'[c] = new /\ OtherRowsKept(c)
  BY <1>3, <1>9, <1>10 DEF MergeTyped, OtherRowsKept
<1>12. importing' = [importing EXCEPT ![i] = [at |-> "returned", row |-> NoValue]] /\ Entangle(i)
       /\ UNCHANGED <<edges, merge, misdirected>>
  <2>1. [IdleImport EXCEPT !.at = "returned"] = [at |-> "returned", row |-> NoValue]
    BY DEF IdleImport
  <2> QED
    BY <2>1 DEF WriteImport
<1>13. GoodImport([at |-> "returned", row |-> NoValue]) /\ [at |-> "returned", row |-> NoValue] \in ImportStates
  BY DEF GoodImport, ImportStates
<1>14. importing' \in [DOMAIN Imports -> ImportStates] /\ importing'[i] = [at |-> "returned", row |-> NoValue]
      /\ OtherImportsKept(i)
  BY <1>12, <1>13 DEF MergeTyped, OtherImportsKept
<1>15. \A j \in DOMAIN Imports : GoodImport(importing'[j])
  BY <1>13, <1>14 DEF MergeTyped, OtherImportsKept
<1>16. entangled' \in BOOLEAN
  BY <1>12, EntangleTyped
<1>17. MergeTyped'
  BY <1>11, <1>12, <1>14, <1>15, <1>16 DEF MergeTyped
<1>18. \A f \in Fields : new.props[f] = IF f \in DOMAIN given.fields THEN given.fields[f] ELSE row.props[f]
  BY <1>4, <1>9
<1> QED
  BY <1>1, <1>2, <1>4, <1>9, <1>11, <1>12, <1>14, <1>17, <1>18

-----------------------------------------------------------------------------
\* What is joined stays joined, and what was told stays told.
LinksGrow ==
    /\ \A t \in Tombstones : t \in Tombstones' /\ candidate'[t].into = candidate[t].into
    /\ \A m \in MergeCalls : Joining(m) =>
         \/ Joining(m)' /\ SamePair(m)
         \/ merge[m].duplicate \in Tombstones' /\ candidate'[merge[m].duplicate].into = merge[m].survivor

ToldGrows == \A i \in DOMAIN Imports : importing[i].at = "returned" => importing'[i].at = "returned"

LEMMA JoinedStays ==
    ASSUME LinksGrow
    PROVE  \A x, y : Joined(x, y) => Joined(x, y)'
<1>1. ASSUME NEW S, Respects(S)' PROVE Respects(S)
  <2>1. ASSUME NEW t \in Tombstones PROVE t \in S <=> candidate[t].into \in S
    BY <1>1, <2>1 DEF LinksGrow, Respects
  <2>2. ASSUME NEW m \in MergeCalls, Joining(m) PROVE merge[m].duplicate \in S <=> merge[m].survivor \in S
    BY <1>1, <2>2 DEF LinksGrow, Respects, SamePair
  <2> QED
    BY <2>1, <2>2 DEF Respects
<1> QED
  BY <1>1 DEF Joined

LEMMA SourcesStay ==
    ASSUME LinksGrow, ToldGrows
    PROVE  /\ \A c, f : Told(c, f) \subseteq Told(c, f)' /\ Said(c, f) \subseteq Said(c, f)'
           /\ \A c : Provenance(c) \subseteq Provenance(c)'
           /\ \A c, f : Cleared(c, f) => Cleared(c, f)'
           /\ \A p, c : TracedTo(p, c) => TracedTo(p, c)'
           /\ \A v, c, f : SaidBy(v, c, f) => SaidBy(v, c, f)'
<1>1. \A x, y : Joined(x, y) => Joined(x, y)'
  BY JoinedStays
<1>2. \A c, f : Told(c, f) \subseteq Told(c, f)'
  BY DEF Told, ToldGrows
<1>3. \A c, f : Said(c, f) \subseteq Said(c, f)'
  BY <1>2 DEF Said
<1>4. \A c : Provenance(c) \subseteq Provenance(c)'
  BY DEF Provenance, ToldGrows
<1>5. \A c, f : Cleared(c, f) => Cleared(c, f)'
  BY <1>1, <1>2 DEF Cleared
<1>6. \A p, c : TracedTo(p, c) => TracedTo(p, c)'
  BY <1>1, <1>4 DEF TracedTo
<1>7. \A v, c, f : SaidBy(v, c, f) => SaidBy(v, c, f)'
  BY <1>1, <1>3 DEF SaidBy
<1> QED
  BY <1>2, <1>3, <1>4, <1>5, <1>6, <1>7

\* A step that leaves what imports told of c.
ToldStays(c) == Provenance(c)' = Provenance(c) /\ \A f \in Fields : Told(c, f)' = Told(c, f)

LEMMA SameTold ==
    ASSUME \A i \in DOMAIN Imports : importing'[i].at = "returned" <=> importing[i].at = "returned"
    PROVE  ToldGrows /\ \A c \in Candidates : ToldStays(c)
<1>1. ToldGrows
  BY DEF ToldGrows
<1>2. \A c \in Candidates : Provenance(c)' = Provenance(c)
  BY DEF Provenance
<1>3. \A c \in Candidates, f \in Fields : Told(c, f)' = Told(c, f)
  BY DEF Told
<1> QED
  BY <1>1, <1>2, <1>3 DEF ToldStays

\* A row gains aliases and entries, and keeps its values.
RowGrows(c) ==
    /\ candidate[c].aliases \subseteq candidate'[c].aliases
    /\ ToSet(candidate[c].imports) \subseteq ToSet(candidate'[c].imports)
    /\ \A f \in Fields : candidate[c].props[f] # NoValue => candidate'[c].props[f] # NoValue \/ Cleared(c, f)'

\* What rows say is as it was, but perhaps for status and pointer.
SameContent(c) ==
    /\ candidate'[c].aliases = candidate[c].aliases
    /\ candidate'[c].imports = candidate[c].imports
    /\ candidate'[c].props = candidate[c].props

LEMMA AbsorbedStays ==
    ASSUME MergeTyped, PointersMark, LinksGrow, ToldGrows, NEW b \in Candidates, NEW c \in Candidates,
           Joined(b, c), Absorbed(b, c), SameContent(b), RowGrows(c)
    PROVE  Absorbed(b, c)'
<1>1. \A f \in Fields : Cleared(b, f) => Cleared(b, f)'
  BY SourcesStay
<1>2. Joined(b, c)' /\ Joined(c, b)'
  BY JoinedStays, JoinedAgain
<1>3. \A f \in Fields : Cleared(c, f)' => Cleared(b, f)'
  <2>1. ASSUME NEW f \in Fields, Cleared(c, f)' PROVE Cleared(b, f)'
    <3>1. PICK x \in Candidates : Joined(x, c)' /\ NoValue \in Told(x, f)'
      BY <2>1 DEF Cleared
    <3>2. Joined(x, b)'
      BY <1>2, <3>1, Zenon DEF Joined
    <3> QED
      BY <3>1, <3>2 DEF Cleared
  <2> QED
    BY <2>1
<1>4. candidate[b].aliases \cup {b} \subseteq candidate'[c].aliases
  BY DEF Absorbed, RowGrows
<1>5. ToSet(candidate[b].imports) \subseteq ToSet(candidate'[c].imports)
  BY DEF Absorbed, RowGrows
<1>6. \A f \in Fields : candidate[b].props[f] # NoValue => candidate'[c].props[f] # NoValue \/ Cleared(b, f)'
  BY <1>1, <1>3 DEF Absorbed, RowGrows
<1> QED
  BY <1>4, <1>5, <1>6 DEF Absorbed, SameContent

LEMMA RowStaysFollowed ==
    ASSUME LinksGrow, ToldGrows, NEW c \in Candidates, ToldStays(c), SameContent(c),
           AliasesFollow(c), ImportsFollow(c), \A f \in Fields : FieldFollows(c, f)
    PROVE  (AliasesFollow(c) /\ ImportsFollow(c) /\ \A f \in Fields : FieldFollows(c, f))'
<1>1. AliasesFollow(c)'
  BY JoinedStays DEF AliasesFollow, SameContent
<1>2. ImportsFollow(c)'
  BY SourcesStay DEF ImportsFollow, SameContent, ToldStays
<1>3. ASSUME NEW f \in Fields PROVE FieldFollows(c, f)'
  <2>1. Said(c, f)' = Said(c, f) /\ Own(c, f)' = Own(c, f)
    BY DEF Said, Own, ToldStays
  <2>2. candidate'[c].props[f] = candidate[c].props[f]
    BY DEF SameContent
  <2>3. FieldFollows(c, f)
    OBVIOUS
  <2> QED
    BY <2>1, <2>2, <2>3, SourcesStay DEF FieldFollows
<1> QED
  BY <1>1, <1>2, <1>3

LEMMA EdgesStayFollowed ==
    ASSUME LinksGrow, EdgesFollow, UNCHANGED edges,
           \A e \in DOMAIN SeedEdges : EdgeMoved(e) => edges[e].from \notin Tombstones' /\ edges[e].to \notin Tombstones'
    PROVE  EdgesFollow'
<1> SUFFICES ASSUME NEW e \in DOMAIN SeedEdges PROVE EdgeDropped(e)' \/ EdgeMoved(e)'
  BY DEF EdgesFollow
<1>1. CASE EdgeDropped(e)
  BY <1>1, JoinedStays DEF EdgeDropped
<1>2. CASE EdgeMoved(e)
  <2>1. Joined(edges[e].from, SeedEdges[e].from)' /\ Joined(edges[e].to, SeedEdges[e].to)'
    <3>1. PICK from, to : from = edges[e].from /\ to = edges[e].to
      OBVIOUS
    <3>2. Joined(from, SeedEdges[e].from)' /\ Joined(to, SeedEdges[e].to)'
      BY <1>2, <3>1, JoinedStays DEF EdgeMoved
    <3> QED
      BY <3>1, <3>2
  <2> QED
    BY <1>2, <2>1 DEF EdgeMoved
<1> QED
  BY <1>1, <1>2 DEF EdgesFollow

LEMMA SameRowsFollow ==
    ASSUME MergeTyped, LinksGrow, UNCHANGED candidate,
           \A i \in DOMAIN Imports : importing'[i].at = "returned" <=> importing[i].at = "returned",
           PointersMark, PointersRise, TombstonesAbsorbed, RowsFollow
    PROVE  (PointersMark /\ PointersRise /\ TombstonesAbsorbed /\ RowsFollow)'
<1>1. Tombstones' = Tombstones
  BY DEF Tombstones
<1>2. PointersMark' /\ PointersRise'
  BY <1>1 DEF PointersMark, PointersRise
<1>3. ToldGrows /\ \A c \in Candidates : ToldStays(c) /\ SameContent(c) /\ RowGrows(c)
  BY SameTold DEF SameContent, RowGrows
<1>4. RowsFollow'
  BY <1>3, RowStaysFollowed DEF RowsFollow
<1>5. TombstonesAbsorbed'
  <2> SUFFICES ASSUME NEW t \in Tombstones PROVE Absorbed(t, candidate[t].into)'
    BY <1>1 DEF TombstonesAbsorbed
  <2>1. \A f \in Fields : Cleared(t, f) => Cleared(t, f)'
    BY <1>3, SourcesStay
  <2>2. Absorbed(t, candidate[t].into)
    BY DEF TombstonesAbsorbed
  <2> QED
    BY <2>1, <2>2 DEF Absorbed
<1> QED
  BY <1>2, <1>4, <1>5

\* Under way alone.
LEMMA OthersRest ==
    ASSUME NEW x, Entangle(x), ~entangled'
    PROVE  /\ ~entangled
           /\ \A m \in MergeCalls \ {x} : merge[m].at \in {"idle", "chosen", "returned", "cut"}
           /\ \A i \in DOMAIN Imports \ {x} : importing[i].at # "found"
BY DEF Entangle, MergeRests, ImportRests

LEMMA OnlyMerge ==
    ASSUME MergeAssumption, NEW m \in MergeCalls, Entangle(m), ~entangled', OthersKept(m), UNCHANGED importing,
           InFlight(m)'
    PROVE  CallsCurrent'
<1>1. \A n \in MergeCalls \ {m} : merge'[n].at \in {"idle", "chosen", "returned", "cut"}
  BY OthersRest DEF OthersKept
<1>2. \A n \in MergeCalls \ {m} : InFlight(n)'
  BY <1>1 DEF InFlight
<1>3. m \notin DOMAIN Imports
  BY DEF MergeAssumption
<1>4. \A i \in DOMAIN Imports : importing'[i].at # "found"
  BY <1>3, OthersRest
<1> QED
  BY <1>2, <1>4 DEF CallsCurrent, FoundIsCurrent

LEMMA OnlyImport ==
    ASSUME MergeAssumption, NEW i \in DOMAIN Imports, Entangle(i), ~entangled', OtherImportsKept(i), UNCHANGED merge,
           FoundIsCurrent(i)'
    PROVE  CallsCurrent'
<1>1. i \notin MergeCalls
  BY DEF MergeAssumption
<1>2. \A n \in MergeCalls : merge'[n].at \in {"idle", "chosen", "returned", "cut"}
  BY <1>1, OthersRest
<1>3. \A n \in MergeCalls : InFlight(n)'
  BY <1>2 DEF InFlight
<1>4. \A j \in DOMAIN Imports \ {i} : importing'[j].at # "found"
  BY OthersRest DEF OtherImportsKept
<1> QED
  BY <1>3, <1>4 DEF CallsCurrent, FoundIsCurrent

LEMMA OnceStays ==
    ASSUME UNCHANGED candidate, NoneCut' => NoneCut, NoneCut' => \A c \in Candidates : Standing(c)' => Standing(c),
           ImportsOnce
    PROVE  ImportsOnce'
BY DEF ImportsOnce

LEMMA EdgesKept ==
    ASSUME MergeTyped, NEW m \in MergeCalls, OthersKept(m), UNCHANGED candidate, Joining(m) => Joining(m)' /\ SamePair(m)
    PROVE  LinksGrow
<1>1. Tombstones' = Tombstones
  BY DEF Tombstones
<1>2. \A n \in MergeCalls : Joining(n) => Joining(n)' /\ SamePair(n)
  BY DEF OthersKept, Joining, SamePair
<1> QED
  BY <1>1, <1>2 DEF LinksGrow

\* A step of a merge that writes nothing but its own progress.
LEMMA QuietMerge ==
    ASSUME MergeAssumption, MergeInv, NEW m \in MergeCalls, MergeTyped', Clean, OthersKept(m),
           UNCHANGED <<candidate, edges, importing>>,
           Joining(m) => Joining(m)' /\ SamePair(m),
           merge[m].at \notin {"cut", "backfilled"} \/ merge'[m].at = "cut", CallsCurrent'
    PROVE  MergeInv'
<1>1. MergeSound
  BY DEF MergeInv
<1>2. PointersMark /\ PointersRise /\ TombstonesAbsorbed /\ EdgesFollow /\ RowsFollow /\ ImportsOnce /\ MergeTyped
  BY <1>1 DEF MergeSound, MergeInv
<1>3. Tombstones' = Tombstones
  BY DEF Tombstones
<1>4. LinksGrow
  BY <1>2, EdgesKept
<1>5. (PointersMark /\ PointersRise /\ TombstonesAbsorbed /\ RowsFollow)'
  BY <1>2, <1>4, SameRowsFollow
<1>6. EdgesFollow'
  BY <1>2, <1>3, <1>4, EdgesStayFollowed DEF EdgeMoved
<1>7. NoneCut' => merge'[m].at # "cut"
  BY DEF NoneCut
<1>8. NoneCut' => NoneCut
  BY <1>7 DEF NoneCut, OthersKept
<1>9. NoneCut' => \A c \in Candidates : Standing(c)' => Standing(c)
  BY <1>3, <1>7 DEF Standing, OthersKept
<1>10. ImportsOnce'
  BY <1>2, <1>8, <1>9, OnceStays
<1> QED
  BY <1>5, <1>6, <1>10 DEF MergeInv, MergeSound

-----------------------------------------------------------------------------
\* The steps, one by one: what is sound before is sound after.
LEMMA ReadSurvivorKeeps ==
    ASSUME MergeAssumption, MergeInv, NEW m \in MergeCalls, ReadSurvivor(m), Clean'
    PROVE  MergeInv'
<1>1. MergeTyped /\ UNCHANGED <<candidate, edges, importing, misdirected>> /\ Entangle(m) /\ ~entangled'
  BY DEF MergeInv, Clean, ReadSurvivor
<1>2. Clean
  BY <1>1, OthersRest DEF Clean
<1>3. MergeTyped' /\ OthersKept(m) /\ SamePair(m) /\ merge[m].at = "chosen" /\ merge'[m].at = "reading"
      /\ merge'[m].sRow = candidate[merge[m].survivor]
  BY <1>1, ReadSurvivorStep
<1>4. InFlight(m)'
  BY <1>1, <1>3 DEF InFlight, SamePair
<1>5. CallsCurrent'
  BY <1>1, <1>3, <1>4, OnlyMerge
<1> QED
  BY <1>1, <1>2, <1>3, <1>5, QuietMerge DEF Joining

LEMMA ReadDuplicateKeeps ==
    ASSUME MergeAssumption, MergeInv, NEW m \in MergeCalls, ReadDuplicate(m), Clean'
    PROVE  MergeInv'
<1>1. MergeTyped /\ UNCHANGED <<candidate, edges, importing>> /\ Entangle(m) /\ ~entangled' /\ ~misdirected'
  BY DEF MergeInv, Clean, ReadDuplicate
<1>2. MergeTyped' /\ OthersKept(m) /\ SamePair(m) /\ merge[m].at = "reading"
  BY <1>1, ReadDuplicateStep
<1>3. CASE merge'[m].at = "returned"
  <2>1. InFlight(m)'
    BY <1>3 DEF InFlight
  <2>2. CallsCurrent'
    BY <1>1, <1>2, <2>1, OnlyMerge
  <2>3. Clean
    BY <1>1, OthersRest DEF Clean, ReadDuplicate
  <2> QED
    BY <1>1, <1>2, <2>2, <2>3, QuietMerge DEF Joining
<1>4. CASE merge'[m].at # "returned"
  <2>1. /\ merge'[m].at = "listing" /\ merge'[m].sRow = merge[m].sRow
        /\ merge'[m].dRow = candidate[merge[m].duplicate]
        /\ candidate[merge[m].duplicate].status # "merged"
        /\ misdirected' = (misdirected \/ merge[m].sRow.status = "merged")
    BY <1>1, <1>4, ReadDuplicateStep
  <2>2. ~misdirected /\ merge[m].sRow.status # "merged"
    BY <1>1, <2>1
  <2>3. Clean
    BY <1>1, <2>2, OthersRest DEF Clean
  <2>4. merge[m].sRow = candidate[merge[m].survivor]
    BY <1>2, <2>3 DEF MergeInv, MergeSound, CallsCurrent, InFlight
  <2>5. merge[m].survivor \notin Tombstones /\ merge[m].duplicate \notin Tombstones
    BY <2>1, <2>2, <2>4 DEF Tombstones
  <2>6. InFlight(m)'
    <3>1. Tombstones' = Tombstones
      BY <1>1 DEF Tombstones
    <3> QED
      BY <1>1, <1>2, <2>1, <2>4, <2>5, <3>1 DEF InFlight, SamePair, BothLive
  <2>7. CallsCurrent'
    BY <1>1, <1>2, <2>6, OnlyMerge
  <2> QED
    BY <1>1, <1>2, <2>1, <2>3, <2>7, QuietMerge DEF Joining
<1> QED
  BY <1>3, <1>4

LEMMA ListEdgesKeeps ==
    ASSUME MergeAssumption, MergeInv, NEW m \in MergeCalls, ListEdges(m), Clean'
    PROVE  MergeInv'
<1>1. MergeTyped /\ UNCHANGED <<candidate, edges, importing, misdirected>> /\ Entangle(m) /\ ~entangled'
  BY DEF MergeInv, Clean, ListEdges
<1>2. Clean
  BY <1>1, OthersRest DEF Clean
<1>3. /\ MergeTyped' /\ OthersKept(m) /\ SamePair(m) /\ merge[m].at = "listing" /\ merge'[m].at = "moving"
      /\ merge'[m].sRow = merge[m].sRow /\ merge'[m].dRow = merge[m].dRow
      /\ Lists(merge'[m].todo, merge[m].duplicate)
  BY <1>1, ListEdgesStep
<1>4. InFlight(m)
  BY <1>2 DEF MergeInv, MergeSound, CallsCurrent
<1>5. merge[m].sRow = candidate[merge[m].survivor] /\ merge[m].dRow = candidate[merge[m].duplicate] /\ BothLive(m)
  BY <1>3, <1>4 DEF InFlight
<1>6. BothLive(m)'
  <2>1. Tombstones' = Tombstones
    BY <1>1 DEF Tombstones
  <2> QED
    BY <1>3, <1>5, <2>1 DEF BothLive, SamePair
<1>7. Lists(merge[m].todo, merge[m].duplicate)'
  BY <1>1, <1>3 DEF Lists, Touches, SamePair
<1>8. InFlight(m)'
  BY <1>1, <1>3, <1>5, <1>6, <1>7 DEF InFlight, SamePair
<1>9. CallsCurrent'
  BY <1>1, <1>3, <1>8, OnlyMerge
<1> QED
  BY <1>1, <1>2, <1>3, <1>9, QuietMerge DEF Joining

\* What other calls know is not disturbed by a call that only starts or stops.
LEMMA OthersStayCurrent ==
    ASSUME MergeTyped, MergeSound, NEW m \in MergeCalls, OthersKept(m), LinksGrow,
           UNCHANGED <<candidate, edges, importing>>, merge'[m].at \in {"chosen", "cut"}
    PROVE  CallsCurrent'
<1>1. Tombstones' = Tombstones
  BY DEF Tombstones
<1>2. CallsCurrent
  BY DEF MergeSound
<1>3. \A i \in DOMAIN Imports : FoundIsCurrent(i)'
  BY <1>1, <1>2 DEF CallsCurrent, FoundIsCurrent
<1>4. InFlight(m)'
  BY DEF InFlight
<1>5. ASSUME NEW n \in MergeCalls \ {m} PROVE InFlight(n)'
  <2>1. InFlight(n) /\ merge'[n] = merge[n]
    BY <1>2 DEF CallsCurrent, OthersKept
  <2>2. BothLive(n) => BothLive(n)'
    BY <1>1, <2>1 DEF BothLive
  <2>3. Lists(merge[n].todo, merge[n].duplicate) => Lists(merge[n].todo, merge[n].duplicate)'
    BY <2>1, SMTT(60) DEF Lists, Touches
  <2>4. (\A e \in DOMAIN SeedEdges : ~Touches(e, merge[n].duplicate))
          => (\A e \in DOMAIN SeedEdges : ~Touches(e, merge[n].duplicate))'
    BY <2>1 DEF Touches
  <2>5. Absorbed(merge[n].duplicate, merge[n].survivor) => Absorbed(merge[n].duplicate, merge[n].survivor)'
    <3>1. ToldGrows
      BY DEF ToldGrows
    <3>2. \A c, f : Cleared(c, f) => Cleared(c, f)'
      BY <3>1, SourcesStay
    <3>3. PICK b, c : b = merge[n].duplicate /\ c = merge[n].survivor
      OBVIOUS
    <3>4. Absorbed(b, c) => Absorbed(b, c)'
      BY <3>2 DEF Absorbed
    <3> QED
      BY <2>1, <3>3, <3>4
  <2> QED
    BY <2>1, <2>2, <2>3, <2>4, <2>5 DEF InFlight
<1> QED
  BY <1>3, <1>4, <1>5 DEF CallsCurrent

LEMMA ChoosePairKeeps ==
    ASSUME MergeAssumption, MergeInv, NEW m \in MergeCalls, ChoosePair(m), Clean'
    PROVE  MergeInv'
<1>1. MergeTyped /\ Clean /\ UNCHANGED <<candidate, edges, importing>> /\ MergeSound
  BY DEF MergeInv, Clean, ChoosePair
<1>2. MergeTyped' /\ OthersKept(m) /\ merge[m].at = "idle" /\ merge'[m].at = "chosen"
  BY <1>1, ChoosePairStep
<1>3. ~Joining(m)
  BY <1>2 DEF Joining
<1>4. CallsCurrent'
  BY <1>1, <1>2, <1>3, EdgesKept, OthersStayCurrent
<1> QED
  BY <1>1, <1>2, <1>3, <1>4, QuietMerge

LEMMA CutOffKeeps ==
    ASSUME MergeAssumption, MergeInv, NEW m \in MergeCalls, CutOff(m), Clean'
    PROVE  MergeInv'
<1>1. MergeTyped /\ Clean /\ UNCHANGED <<candidate, edges, importing>> /\ MergeSound
  BY DEF MergeInv, Clean, CutOff
<1>2. MergeTyped' /\ OthersKept(m) /\ SamePair(m) /\ merge'[m].at = "cut"
  BY <1>1, CutOffStep
<1>3. Joining(m)'
  BY <1>2 DEF Joining
<1>4. CallsCurrent'
  BY <1>1, <1>2, <1>3, EdgesKept, OthersStayCurrent
<1> QED
  BY <1>1, <1>2, <1>3, <1>4, QuietMerge

LEMMA FindByKeyKeeps ==
    ASSUME MergeAssumption, MergeInv, NEW i \in DOMAIN Imports, FindByKey(i), Clean'
    PROVE  MergeInv'
<1>1. MergeTyped /\ UNCHANGED <<candidate, edges, merge>> /\ Entangle(i) /\ ~entangled' /\ ~misdirected'
  BY DEF MergeInv, Clean, FindByKey
<1>2. /\ MergeTyped' /\ OtherImportsKept(i) /\ importing[i].at = "idle" /\ importing'[i].at = "found"
      /\ importing'[i].row = candidate[Imports[i].of]
      /\ misdirected' = (misdirected \/ candidate[Imports[i].of].status = "merged")
  BY <1>1, FindByKeyStep
<1>3. Clean /\ candidate[Imports[i].of].status # "merged"
  BY <1>1, <1>2, OthersRest DEF Clean
<1>4. PointersMark /\ PointersRise /\ TombstonesAbsorbed /\ EdgesFollow /\ RowsFollow /\ ImportsOnce
  BY <1>3 DEF MergeInv, MergeSound
<1>5. Tombstones' = Tombstones /\ Imports[i].of \notin Tombstones
  BY <1>1, <1>3 DEF Tombstones
<1>6. FoundIsCurrent(i)'
  BY <1>1, <1>2, <1>5 DEF FoundIsCurrent
<1>7. CallsCurrent'
  BY <1>1, <1>2, <1>6, OnlyImport
<1>8. LinksGrow
  BY <1>1, <1>5 DEF LinksGrow, Joining, SamePair
<1>9. \A j \in DOMAIN Imports : importing'[j].at = "returned" <=> importing[j].at = "returned"
  BY <1>2 DEF OtherImportsKept
<1>10. (PointersMark /\ PointersRise /\ TombstonesAbsorbed /\ RowsFollow)'
  BY <1>1, <1>4, <1>8, <1>9, SameRowsFollow
<1>11. EdgesFollow'
  BY <1>1, <1>4, <1>5, <1>8, EdgesStayFollowed DEF EdgeMoved
<1>12. ImportsOnce'
  BY <1>1, <1>4, <1>5, OnceStays DEF NoneCut, Standing
<1> QED
  BY <1>2, <1>7, <1>10, <1>11, <1>12 DEF MergeInv, MergeSound

LEMMA MoveEdgeKeeps ==
    ASSUME MergeAssumption, MergeInv, NEW m \in MergeCalls, MoveEdge(m), Clean'
    PROVE  MergeInv'
<1>1. MergeTyped /\ UNCHANGED <<candidate, importing, misdirected>> /\ Entangle(m) /\ ~entangled'
  BY DEF MergeInv, Clean, MoveEdge
<1>2. Clean
  BY <1>1, OthersRest DEF Clean
<1>3. PICK s, d, todo, l : s = merge[m].survivor /\ d = merge[m].duplicate /\ todo = merge[m].todo /\ l = Head(todo)
  OBVIOUS
<1>4. PICK from, to : from = Moved(m, l.from) /\ to = Moved(m, l.to)
  OBVIOUS
<1>5. /\ MergeTyped' /\ OthersKept(m) /\ SamePair(m) /\ merge[m].at = "moving" /\ todo # << >>
      /\ todo \in Seq(ListedEdges)
      /\ \/ merge'[m].at = "cut" /\ UNCHANGED edges
         \/ /\ merge'[m].at = "moving" /\ merge'[m].todo = Tail(todo)
            /\ merge'[m].sRow = merge[m].sRow /\ merge'[m].dRow = merge[m].dRow
            /\ \A e \in DOMAIN SeedEdges \ {l.edge} : edges'[e] = edges[e]
            /\ edges'[l.edge] = IF from = to THEN Gone ELSE [from |-> from, to |-> to]
  BY <1>1, <1>3, <1>4, MoveEdgeStep
<1>6. CASE merge'[m].at = "cut"
  <2>1. UNCHANGED edges
    BY <1>5, <1>6
  <2>2. InFlight(m)'
    BY <1>6 DEF InFlight
  <2>3. CallsCurrent'
    BY <1>1, <1>5, <2>2, OnlyMerge
  <2> QED
    BY <1>1, <1>2, <1>5, <1>6, <2>1, <2>3, QuietMerge DEF Joining
<1>7. CASE merge'[m].at # "cut"
  <2>1. /\ merge'[m].at = "moving" /\ merge'[m].todo = Tail(todo)
        /\ merge'[m].sRow = merge[m].sRow /\ merge'[m].dRow = merge[m].dRow
        /\ \A e \in DOMAIN SeedEdges \ {l.edge} : edges'[e] = edges[e]
        /\ edges'[l.edge] = IF from = to THEN Gone ELSE [from |-> from, to |-> to]
    BY <1>5, <1>7
  <2>2. PointersMark /\ PointersRise /\ TombstonesAbsorbed /\ EdgesFollow /\ RowsFollow /\ ImportsOnce /\ InFlight(m)
    BY <1>2 DEF MergeInv, MergeSound, CallsCurrent
  <2>3. /\ merge[m].sRow = candidate[s] /\ merge[m].dRow = candidate[d]
        /\ s \notin Tombstones /\ d \notin Tombstones /\ Lists(todo, d)
    BY <1>3, <1>5, <2>2 DEF InFlight, BothLive
  <2>4. s \in Candidates /\ d \in Candidates /\ s # d /\ s # NoValue /\ d # NoValue
    BY <1>1, <1>3, <1>5 DEF MergeTyped, GoodMerge, MergeAssumption, Ends
  <2>5. Tombstones' = Tombstones
    BY <1>1 DEF Tombstones
  <2>6. Joining(m) /\ Joining(m)'
    BY <1>5, <2>1 DEF Joining
  <2>7. LinksGrow
    BY <1>1, <1>5, <2>6, EdgesKept
  <2>8. PICK n \in Nat \ {0} : n = Len(todo) /\ DOMAIN todo = 1 .. n /\ l = todo[1]
    <3>1. PICK n \in Nat \ {0} : n = Len(todo) /\ DOMAIN todo = 1 .. n
      BY <1>5, EmptySeq, LenProperties
    <3> QED
      BY <1>3, <3>1
  <2>9. PICK rest : /\ rest = Tail(todo) /\ rest \in Seq(ListedEdges) /\ DOMAIN rest = 1 .. n - 1
                    /\ \A k \in 1 .. n - 1 : rest[k] = todo[k + 1]
    <3>1. PICK rest : rest = Tail(todo)
      OBVIOUS
    <3>2. rest \in Seq(ListedEdges) /\ Len(rest) = n - 1 /\ \A k \in 1 .. n - 1 : rest[k] = todo[k + 1]
      BY <1>5, <2>8, <3>1, HeadTailProperties
    <3> QED
      BY <3>1, <3>2, LenProperties
  <2>10. l.edge \in DOMAIN SeedEdges /\ Touches(l.edge, d) /\ l.from = edges[l.edge].from /\ l.to = edges[l.edge].to
    BY <2>3, <2>8 DEF Lists
  <2>11. Joined(s, d) /\ Joined(d, s)
    <3>1. \A S : Respects(S) => (d \in S <=> s \in S)
      BY <1>3, <2>6 DEF Respects
    <3> QED
      BY <3>1 DEF Joined
  <2>12. EdgeMoved(l.edge)
    <3>1. edges[l.edge] # Gone
      BY <2>4, <2>10 DEF Touches, Gone
    <3> QED
      BY <2>2, <2>10, <3>1 DEF EdgesFollow, EdgeDropped
  <2>13. \A x : Joined(IF x = d THEN s ELSE x, x)
    BY <2>11, JoinedAgain
  <2>14. from = (IF l.from = d THEN s ELSE l.from) /\ to = (IF l.to = d THEN s ELSE l.to)
    BY <1>3, <1>4 DEF Moved
  <2>15. Joined(from, SeedEdges[l.edge].from) /\ Joined(to, SeedEdges[l.edge].to)
    <3>1. Joined(from, l.from) /\ Joined(to, l.to)
      BY <2>13, <2>14
    <3>2. Joined(l.from, SeedEdges[l.edge].from) /\ Joined(l.to, SeedEdges[l.edge].to)
      BY <2>10, <2>12 DEF EdgeMoved
    <3> QED
      BY <3>1, <3>2, JoinedAgain
  <2>16. from \in Ends \ Tombstones /\ to \in Ends \ Tombstones /\ from # d /\ to # d
    BY <2>3, <2>4, <2>10, <2>12, <2>14 DEF EdgeMoved, Ends
  <2>17. EdgesFollow'
    <3> SUFFICES ASSUME NEW e \in DOMAIN SeedEdges PROVE EdgeDropped(e)' \/ EdgeMoved(e)'
      BY DEF EdgesFollow
    <3>1. CASE e # l.edge
      <4>1. edges'[e] = edges[e]
        BY <2>1, <3>1
      <4>2. \A x, y : Joined(x, y) => Joined(x, y)'
        BY <2>7, JoinedStays
      <4>3. CASE EdgeDropped(e)
        BY <4>1, <4>2, <4>3 DEF EdgeDropped
      <4>4. CASE EdgeMoved(e)
        BY <4>1, <4>2, <4>4, <2>5 DEF EdgeMoved
      <4> QED
        BY <4>3, <4>4, <2>2 DEF EdgesFollow
    <3>2. CASE e = l.edge /\ from = to
      <4>1. edges'[e] = Gone
        BY <2>1, <3>2
      <4>2. Joined(SeedEdges[e].from, SeedEdges[e].to)
        BY <2>15, <3>2, JoinedAgain
      <4>3. Joined(SeedEdges[e].from, SeedEdges[e].to)'
        BY <4>2, <2>7, JoinedStays
      <4> QED
        BY <4>1, <4>3 DEF EdgeDropped
    <3>3. CASE e = l.edge /\ from # to
      <4>1. edges'[e].from = from /\ edges'[e].to = to
        BY <2>1, <3>3
      <4>2. Joined(from, SeedEdges[e].from)' /\ Joined(to, SeedEdges[e].to)'
        BY <2>15, <3>3, <2>7, JoinedStays
      <4> QED
        BY <4>1, <4>2, <2>5, <2>16, <3>3 DEF EdgeMoved
    <3> QED
      BY <3>1, <3>2, <3>3
  <2>18. \A e \in DOMAIN SeedEdges : Touches(e, d)' => e # l.edge /\ Touches(e, d)
    <3> SUFFICES ASSUME NEW e \in DOMAIN SeedEdges, d \in {edges'[e].from, edges'[e].to}
                 PROVE  e # l.edge /\ Touches(e, d)
      BY DEF Touches
    <3>1. e # l.edge
      BY <2>1, <2>4, <2>16 DEF Gone
    <3> QED
      BY <2>1, <3>1 DEF Touches
  <2>19. Lists(rest, d)'
    <3>1. ASSUME NEW e \in DOMAIN SeedEdges, Touches(e, d)' PROVE \E k \in DOMAIN rest : rest[k].edge = e
      <4>1. PICK k \in 1 .. n : todo[k].edge = e
        BY <2>3, <2>8, <2>18, <3>1 DEF Lists
      <4>2. k # 1
        BY <2>8, <2>18, <3>1, <4>1
      <4>3. k - 1 \in 1 .. n - 1 /\ rest[k - 1] = todo[k]
        BY <2>9, <4>2
      <4> QED
        BY <2>9, <4>1, <4>3
    <3>2. ASSUME NEW k \in DOMAIN rest
          PROVE  /\ rest[k].edge \in DOMAIN SeedEdges /\ d \in {edges'[rest[k].edge].from, edges'[rest[k].edge].to}
                 /\ rest[k].from = edges'[rest[k].edge].from /\ rest[k].to = edges'[rest[k].edge].to
      <4>1. k \in 1 .. n - 1 /\ k + 1 \in 1 .. n /\ k + 1 # 1 /\ 1 \in 1 .. n /\ rest[k] = todo[k + 1]
        BY <2>9
      <4>2. rest[k].edge \in DOMAIN SeedEdges /\ rest[k].edge # l.edge
        BY <2>3, <2>8, <4>1 DEF Lists
      <4>3. edges'[rest[k].edge] = edges[rest[k].edge]
        BY <2>1, <4>2
      <4> QED
        BY <2>3, <2>8, <4>1, <4>2, <4>3 DEF Lists, Touches
    <3>3. ASSUME NEW j \in DOMAIN rest, NEW k \in DOMAIN rest, rest[j].edge = rest[k].edge PROVE j = k
      <4>1. j + 1 \in 1 .. n /\ k + 1 \in 1 .. n /\ rest[j] = todo[j + 1] /\ rest[k] = todo[k + 1]
        BY <2>9
      <4>2. j + 1 = k + 1
        BY <2>3, <2>8, <3>3, <4>1 DEF Lists
      <4> QED
        BY <2>9, <4>2
    <3> QED
      BY <3>1, <3>2, <3>3 DEF Lists, Touches
  <2>20. InFlight(m)'
    <3>1. BothLive(m)'
      BY <1>3, <1>5, <2>3, <2>5 DEF BothLive, SamePair
    <3>2. Lists(merge[m].todo, merge[m].duplicate)'
      BY <1>3, <1>5, <2>1, <2>9, <2>19 DEF SamePair
    <3> QED
      BY <1>1, <1>3, <1>5, <2>1, <2>3, <3>1, <3>2 DEF InFlight, SamePair
  <2>21. CallsCurrent'
    BY <1>1, <1>5, <2>20, OnlyMerge
  <2>22. (PointersMark /\ PointersRise /\ TombstonesAbsorbed /\ RowsFollow)'
    BY <1>1, <2>2, <2>7, SameRowsFollow
  <2>23. ImportsOnce'
    <3>1. NoneCut' => NoneCut
      BY <1>5 DEF NoneCut, OthersKept
    <3>2. \A c \in Candidates : Standing(c)' => Standing(c)
      BY <1>5, <2>5 DEF Standing, OthersKept
    <3> QED
      BY <1>1, <2>2, <3>1, <3>2, OnceStays
  <2> QED
    BY <1>5, <2>17, <2>21, <2>22, <2>23 DEF MergeInv, MergeSound
<1> QED
  BY <1>6, <1>7

\* What is joined shares its sources.
LEMMA SharedSources ==
    ASSUME NEW b, NEW c, Joined(b, c)
    PROVE  /\ \A p : TracedTo(p, b) => TracedTo(p, c)
           /\ \A v, f : SaidBy(v, b, f) => SaidBy(v, c, f)
           /\ \A f : Cleared(b, f) => Cleared(c, f)
<1>1. \A x : Joined(x, b) => Joined(x, c)
  BY JoinedAgain
<1> QED
  BY <1>1 DEF TracedTo, SaidBy, Cleared

LEMMA LinksJoin ==
    /\ \A t \in Tombstones : Joined(t, candidate[t].into)
    /\ \A m \in MergeCalls : Joining(m) => Joined(merge[m].duplicate, merge[m].survivor)
<1>1. ASSUME NEW t \in Tombstones PROVE Joined(t, candidate[t].into)
  <2>1. \A S : Respects(S) => (t \in S <=> candidate[t].into \in S)
    BY DEF Respects
  <2> QED
    BY <2>1 DEF Joined
<1>2. ASSUME NEW m \in MergeCalls, Joining(m) PROVE Joined(merge[m].duplicate, merge[m].survivor)
  <2>1. \A S : Respects(S) => (merge[m].duplicate \in S <=> merge[m].survivor \in S)
    BY <1>2 DEF Respects
  <2> QED
    BY <2>1 DEF Joined
<1> QED
  BY <1>1, <1>2

\* A step that writes one living candidate's row, which stays alive.
LEMMA OneRowKeeps ==
    ASSUME MergeAssumption, MergeTyped, MergeSound, MergeTyped', LinksGrow, ToldGrows,
           NEW c \in Candidates \ Tombstones, OtherRowsKept(c), UNCHANGED edges,
           candidate'[c].status # "merged", candidate'[c].into = candidate[c].into, RowGrows(c),
           \A x \in Candidates \ {c} : ToldStays(x),
           (AliasesFollow(c) /\ ImportsFollow(c) /\ \A f \in Fields : FieldFollows(c, f))'
    PROVE  (PointersMark /\ PointersRise /\ TombstonesAbsorbed /\ EdgesFollow /\ RowsFollow)'
<1>1. PointersMark /\ PointersRise /\ TombstonesAbsorbed /\ EdgesFollow /\ RowsFollow
  BY DEF MergeSound
<1>2. Tombstones' = Tombstones
  BY DEF Tombstones, OtherRowsKept
<1>3. \A x \in Candidates \ {c} : candidate'[x] = candidate[x] /\ SameContent(x) /\ RowGrows(x)
  BY DEF OtherRowsKept, SameContent, RowGrows
<1>4. \A x \in Candidates : candidate'[x].into = candidate[x].into
  BY <1>3
<1>5. PointersMark'
  BY <1>1, <1>2, <1>4 DEF PointersMark
<1>6. PointersRise'
  <2>1. \A t \in Tombstones : candidate'[t].into = candidate[t].into
    BY <1>4 DEF Tombstones
  <2>2. PICK r \in [Candidates -> 0 .. Cardinality(Tombstones)] : \A t \in Tombstones : r[t] < r[candidate[t].into]
    BY <1>1 DEF PointersRise
  <2>3. \A t \in Tombstones : r[t] < r[candidate'[t].into]
    BY <2>1, <2>2
  <2> QED
    BY <2>3, <1>2 DEF PointersRise
<1>7. TombstonesAbsorbed'
  <2> SUFFICES ASSUME NEW t \in Tombstones PROVE Absorbed(t, candidate[t].into)'
    BY <1>2 DEF TombstonesAbsorbed
  <2>1. t \in Candidates \ {c} /\ candidate[t].into # NoValue /\ candidate[t] \in CandidateRows
    BY <1>1 DEF Tombstones, PointersMark, MergeTyped
  <2>2. PICK x \in Candidates : x = candidate[t].into
    BY <2>1 DEF CandidateRows
  <2>3. Absorbed(t, x) /\ Joined(t, x) /\ SameContent(t) /\ RowGrows(x)
    BY <1>1, <1>3, <2>1, <2>2, LinksJoin DEF TombstonesAbsorbed
  <2>4. Absorbed(t, x)'
    BY <1>1, <2>1, <2>3, AbsorbedStays
  <2>5. x = candidate'[t].into
    BY <1>3, <2>1, <2>2
  <2> QED
    BY <2>4, <2>5
<1>8. EdgesFollow'
  BY <1>1, <1>2, EdgesStayFollowed DEF EdgeMoved
<1>9. RowsFollow'
  <2>1. ASSUME NEW x \in Candidates \ {c}
        PROVE  (AliasesFollow(x) /\ ImportsFollow(x) /\ \A f \in Fields : FieldFollows(x, f))'
    <3>1. ToldStays(x) /\ SameContent(x) /\ AliasesFollow(x) /\ ImportsFollow(x) /\ \A f \in Fields : FieldFollows(x, f)
      BY <1>1, <1>3 DEF RowsFollow
    <3> QED
      BY <3>1, RowStaysFollowed
  <2> QED
    BY <2>1 DEF RowsFollow
<1> QED
  BY <1>5, <1>6, <1>7, <1>8, <1>9

LEMMA BackfillKeeps ==
    ASSUME MergeAssumption, MergeInv, NEW m \in MergeCalls, Backfill(m), Clean'
    PROVE  MergeInv'
<1>1. MergeTyped /\ UNCHANGED <<edges, importing, misdirected>> /\ Entangle(m) /\ ~entangled'
  BY DEF MergeInv, Clean, Backfill
<1>2. Clean /\ MergeSound
  BY <1>1, OthersRest DEF Clean, MergeInv
<1>3. PICK s, d : s = merge[m].survivor /\ d = merge[m].duplicate
  OBVIOUS
<1>4. /\ MergeTyped' /\ OthersKept(m) /\ SamePair(m)
      /\ merge[m].at = "moving" /\ merge[m].todo = << >> /\ merge'[m].at = "backfilled"
      /\ merge'[m].dRow = merge[m].dRow /\ OtherRowsKept(s)
  BY <1>1, <1>3, BackfillStep
<1>5. InFlight(m)
  BY <1>2 DEF MergeSound, CallsCurrent
<1>6. /\ merge[m].sRow = candidate[s] /\ merge[m].dRow = candidate[d]
      /\ s \notin Tombstones /\ d \notin Tombstones /\ Lists(<< >>, d)
  BY <1>3, <1>4, <1>5 DEF InFlight, BothLive
<1>7. s \in Candidates /\ d \in Candidates /\ s # d
  BY <1>1, <1>3, <1>4 DEF MergeTyped, GoodMerge
<1>8. /\ candidate'[s].status = candidate[s].status
      /\ candidate'[s].into = (IF candidate[s].into = NoValue THEN candidate[d].into ELSE candidate[s].into)
      /\ candidate'[s].aliases = candidate[s].aliases \cup candidate[d].aliases \cup {d}
      /\ candidate'[s].imports = candidate[s].imports \o candidate[d].imports
      /\ \A f \in Fields : candidate'[s].props[f] =
           IF candidate[s].props[f] = NoValue THEN candidate[d].props[f] ELSE candidate[s].props[f]
  <2>1. /\ candidate'[merge[m].survivor].status = candidate[merge[m].survivor].status
        /\ candidate'[merge[m].survivor].into =
             (IF merge[m].sRow.into = NoValue THEN merge[m].dRow.into ELSE merge[m].sRow.into)
        /\ candidate'[merge[m].survivor].aliases =
             merge[m].sRow.aliases \cup merge[m].dRow.aliases \cup {merge[m].duplicate}
        /\ candidate'[merge[m].survivor].imports = merge[m].sRow.imports \o merge[m].dRow.imports
        /\ \A f \in Fields : candidate'[merge[m].survivor].props[f] =
             IF merge[m].sRow.props[f] = NoValue THEN merge[m].dRow.props[f] ELSE merge[m].sRow.props[f]
    BY <1>1, BackfillStep
  <2>2. \A f \in Fields : candidate'[s].props[f] =
           IF candidate[s].props[f] = NoValue THEN candidate[d].props[f] ELSE candidate[s].props[f]
    BY <1>3, <1>6, <2>1
  <2> QED
    BY <1>3, <1>6, <2>1, <2>2
<1>9. candidate'[s].status # "merged" /\ candidate'[s].into = candidate[s].into
  BY <1>2, <1>6, <1>7, <1>8 DEF MergeSound, PointersMark, Tombstones
<1>10. Tombstones' = Tombstones /\ candidate'[d] = candidate[d]
  BY <1>4, <1>6, <1>7, <1>9 DEF Tombstones, OtherRowsKept
<1>11. ToSet(candidate'[s].imports) = ToSet(candidate[s].imports) \cup ToSet(candidate[d].imports)
  <2>1. candidate[s].imports \in Seq(MergeEntries) /\ candidate[d].imports \in Seq(MergeEntries)
    BY <1>1, <1>7 DEF MergeTyped, CandidateRows
  <2> QED
    BY <1>8, <2>1, ConcatElements
<1>12. Joining(m) /\ Joining(m)'
  BY <1>4 DEF Joining
<1>13. LinksGrow
  <2>1. \A t \in Tombstones : t \in Tombstones' /\ candidate'[t].into = candidate[t].into
    BY <1>4, <1>6, <1>10 DEF OtherRowsKept, Tombstones
  <2>2. \A n \in MergeCalls : Joining(n) => Joining(n)' /\ SamePair(n)
    BY <1>4, <1>12 DEF OthersKept, Joining, SamePair
  <2> QED
    BY <2>1, <2>2 DEF LinksGrow
<1>14. ToldGrows /\ \A c \in Candidates : ToldStays(c)
  BY <1>1, SameTold
<1>15. RowGrows(s)
  BY <1>8, <1>11 DEF RowGrows
<1>16. Joined(d, s)
  BY <1>3, <1>12, LinksJoin
<1>17. /\ AliasesFollow(s) /\ ImportsFollow(s) /\ \A f \in Fields : FieldFollows(s, f)
       /\ AliasesFollow(d) /\ ImportsFollow(d) /\ \A f \in Fields : FieldFollows(d, f)
  BY <1>2, <1>7 DEF MergeSound, RowsFollow
<1>18. AliasesFollow(s)'
  <2>1. ASSUME NEW a \in candidate'[s].aliases PROVE Joined(a, s)
    <3>1. Joined(a, s) \/ Joined(a, d)
      BY <1>8, <1>17, JoinedAgain DEF AliasesFollow
    <3> QED
      BY <1>16, <3>1, JoinedAgain
  <2> QED
    BY <2>1, <1>13, JoinedStays DEF AliasesFollow
<1>19. ImportsFollow(s)'
  <2>1. ASSUME NEW p \in ToSet(candidate'[s].imports) PROVE TracedTo(p, s)
    BY <1>11, <1>16, <1>17, SharedSources DEF ImportsFollow
  <2>2. Provenance(s)' \subseteq ToSet(candidate'[s].imports)
    BY <1>7, <1>11, <1>14, <1>17 DEF ImportsFollow, ToldStays
  <2> QED
    BY <2>1, <2>2, <1>13, <1>14, SourcesStay DEF ImportsFollow
<1>20. ASSUME NEW f \in Fields PROVE FieldFollows(s, f)'
  <2>1. Said(s, f)' = Said(s, f) /\ Own(s, f)' = Own(s, f)
    BY <1>7, <1>14 DEF Said, Own, ToldStays
  <2>2. FieldFollows(s, f) /\ FieldFollows(d, f)
    BY <1>17
  <2>3. CASE candidate[s].props[f] # NoValue
    <3>1. candidate'[s].props[f] = candidate[s].props[f]
      BY <1>8, <2>3
    <3> QED
      BY <2>1, <2>2, <2>3, <3>1, <1>13, <1>14, SourcesStay DEF FieldFollows
  <2>4. CASE candidate[s].props[f] = NoValue
    <3>1. candidate'[s].props[f] = candidate[d].props[f]
      BY <1>8, <2>4
    <3>2. NoValue \in Own(s, f)
      BY <2>2, <2>4 DEF FieldFollows
    <3>3. candidate[d].props[f] # NoValue => SaidBy(candidate[d].props[f], s, f)
      BY <2>2, <1>16, SharedSources DEF FieldFollows
    <3>4. Said(s, f) = {NoValue} \/ Cleared(s, f)
      BY <2>2, <2>4 DEF FieldFollows
    <3> QED
      BY <2>1, <3>1, <3>2, <3>3, <3>4, <1>13, <1>14, SourcesStay DEF FieldFollows
  <2> QED
    BY <2>3, <2>4
<1>21. (PointersMark /\ PointersRise /\ TombstonesAbsorbed /\ EdgesFollow /\ RowsFollow)'
  BY <1>1, <1>2, <1>4, <1>6, <1>7, <1>9, <1>13, <1>14, <1>15, <1>18, <1>19, <1>20, OneRowKeeps
<1>22. InFlight(m)'
  <2>1. \A e \in DOMAIN SeedEdges : ~Touches(e, d)'
    BY <1>1, <1>6 DEF Lists, Touches
  <2>2. Absorbed(d, s)'
    <3>1. candidate'[d].aliases \cup {d} \subseteq candidate'[s].aliases
      BY <1>8, <1>10
    <3>2. ToSet(candidate'[d].imports) \subseteq ToSet(candidate'[s].imports)
      BY <1>10, <1>11
    <3>3. \A f \in Fields : candidate'[d].props[f] # NoValue => candidate'[s].props[f] # NoValue
      BY <1>8, <1>10
    <3> QED
      BY <3>1, <3>2, <3>3 DEF Absorbed
  <2>3. BothLive(m)'
    BY <1>3, <1>4, <1>6, <1>10 DEF BothLive, SamePair
  <2>4. merge'[m].survivor = s /\ merge'[m].duplicate = d /\ merge'[m].dRow = candidate'[d]
    BY <1>3, <1>4, <1>6, <1>10 DEF SamePair
  <2> QED
    BY <1>4, <2>1, <2>2, <2>3, <2>4 DEF InFlight
<1>23. CallsCurrent'
  BY <1>1, <1>4, <1>22, OnlyMerge
<1>24. ImportsOnce'
  <2> SUFFICES ASSUME NoneCut'
               PROVE  /\ \A c \in Candidates : Standing(c)' => IsInjective(candidate'[c].imports)
                      /\ \A b, c \in Candidates : Standing(b)' /\ Standing(c)' /\ b # c =>
                           ToSet(candidate'[b].imports) \cap ToSet(candidate'[c].imports) = {}
    BY DEF ImportsOnce
  <2>1. NoneCut
    BY <1>4 DEF NoneCut, OthersKept
  <2>2. \A n \in MergeCalls : merge[n].at # "backfilled"
    BY <1>1, <1>4, OthersRest
  <2>3. \A c \in Candidates \ Tombstones : Standing(c)
    BY <2>2 DEF Standing
  <2>4. \A c \in Candidates : Standing(c)' => c \in Candidates \ Tombstones /\ c # d
    BY <1>3, <1>4, <1>10 DEF Standing, SamePair
  <2>5. /\ \A c \in Candidates \ Tombstones : IsInjective(candidate[c].imports)
        /\ \A b, c \in Candidates \ Tombstones : b # c =>
             ToSet(candidate[b].imports) \cap ToSet(candidate[c].imports) = {}
    BY <1>2, <2>1, <2>3 DEF MergeSound, ImportsOnce
  <2>6. IsInjective(candidate'[s].imports)
    <3>1. candidate[s].imports \in Seq(MergeEntries) /\ candidate[d].imports \in Seq(MergeEntries)
      BY <1>1, <1>7 DEF MergeTyped, CandidateRows
    <3>2. /\ IsInjective(candidate[s].imports) /\ IsInjective(candidate[d].imports)
          /\ ToSet(candidate[s].imports) \cap ToSet(candidate[d].imports) = {}
      BY <1>6, <1>7, <2>5
    <3>3. IsInjective(candidate[s].imports \o candidate[d].imports)
      BY <3>1, <3>2, ConcatDistinct
    <3> QED
      BY <1>8, <3>3
  <2>7. \A c \in Candidates \ {s} : candidate'[c].imports = candidate[c].imports
    BY <1>4 DEF OtherRowsKept
  <2>8. \A c \in Candidates : Standing(c)' => IsInjective(candidate'[c].imports)
    BY <2>4, <2>5, <2>6, <2>7
  <2>9. ASSUME NEW b \in Candidates, NEW c \in Candidates, Standing(b)', Standing(c)', b # c
        PROVE  ToSet(candidate'[b].imports) \cap ToSet(candidate'[c].imports) = {}
    <3>1. b \in Candidates \ Tombstones /\ c \in Candidates \ Tombstones /\ b # d /\ c # d
      BY <2>4, <2>9
    <3>2. \A x \in Candidates \ Tombstones : x # s /\ x # d =>
            ToSet(candidate[x].imports) \cap ToSet(candidate'[s].imports) = {}
      BY <1>6, <1>7, <1>11, <2>5
    <3> QED
      BY <2>5, <2>7, <2>9, <3>1, <3>2
  <2> QED
    BY <2>8, <2>9
<1> QED
  BY <1>4, <1>21, <1>23, <1>24 DEF MergeInv, MergeSound

LEMMA TombstoneKeeps ==
    ASSUME MergeAssumption, MergeInv, NEW m \in MergeCalls, Tombstone(m), Clean'
    PROVE  MergeInv'
<1>1. MergeTyped /\ UNCHANGED <<edges, importing, misdirected>> /\ Entangle(m) /\ ~entangled'
  BY DEF MergeInv, Clean, Tombstone
<1>2. Clean /\ MergeSound
  BY <1>1, OthersRest DEF Clean, MergeInv
<1>3. PICK s, d : s = merge[m].survivor /\ d = merge[m].duplicate
  OBVIOUS
<1>4. /\ MergeTyped' /\ OthersKept(m) /\ SamePair(m)
      /\ merge[m].at = "backfilled" /\ merge'[m].at = "returned" /\ OtherRowsKept(d)
  BY <1>1, <1>3, TombstoneStep
<1>5. InFlight(m)
  BY <1>2 DEF MergeSound, CallsCurrent
<1>6. /\ merge[m].dRow = candidate[d] /\ s \notin Tombstones /\ d \notin Tombstones
      /\ (\A e \in DOMAIN SeedEdges : ~Touches(e, d)) /\ Absorbed(d, s)
  BY <1>3, <1>4, <1>5 DEF InFlight, BothLive
<1>7. s \in Candidates /\ d \in Candidates /\ s # d
  BY <1>1, <1>3, <1>4 DEF MergeTyped, GoodMerge
<1>8. /\ candidate'[d].status = "merged" /\ candidate'[d].into = s
      /\ candidate'[d].aliases = candidate[d].aliases
      /\ candidate'[d].imports = candidate[d].imports
      /\ candidate'[d].props = candidate[d].props
  <2>1. /\ candidate'[merge[m].duplicate].status = "merged"
        /\ candidate'[merge[m].duplicate].into = merge[m].survivor
        /\ candidate'[merge[m].duplicate].aliases = merge[m].dRow.aliases
        /\ candidate'[merge[m].duplicate].imports = merge[m].dRow.imports
        /\ candidate'[merge[m].duplicate].props = merge[m].dRow.props
    BY <1>1, TombstoneStep
  <2> QED
    BY <1>3, <1>6, <2>1
<1>9. Tombstones' = Tombstones \cup {d}
  BY <1>4, <1>7, <1>8 DEF Tombstones, OtherRowsKept
<1>10. \A x \in Candidates \ {d} : candidate'[x] = candidate[x]
  BY <1>4 DEF OtherRowsKept
<1>11. \A x \in Candidates : SameContent(x) /\ RowGrows(x)
  BY <1>8, <1>10 DEF SameContent, RowGrows
<1>12. PointersMark /\ PointersRise /\ TombstonesAbsorbed /\ EdgesFollow /\ RowsFollow /\ ImportsOnce
  BY <1>2 DEF MergeSound
<1>13. \A t \in Tombstones : t \in Candidates /\ t # d /\ candidate'[t].into = candidate[t].into
  BY <1>6, <1>10 DEF Tombstones
<1>14. LinksGrow
  <2>1. \A n \in MergeCalls \ {m} : Joining(n) => Joining(n)' /\ SamePair(n)
    BY <1>4 DEF OthersKept, Joining, SamePair
  <2>2. merge[m].duplicate \in Tombstones' /\ candidate'[merge[m].duplicate].into = merge[m].survivor
    BY <1>3, <1>8, <1>9
  <2> QED
    BY <2>1, <2>2, <1>9, <1>13 DEF LinksGrow
<1>15. ToldGrows /\ \A c \in Candidates : ToldStays(c)
  BY <1>1, SameTold
<1>16. RowsFollow'
  <2>1. ASSUME NEW x \in Candidates
        PROVE  (AliasesFollow(x) /\ ImportsFollow(x) /\ \A f \in Fields : FieldFollows(x, f))'
    <3>1. ToldStays(x) /\ SameContent(x) /\ AliasesFollow(x) /\ ImportsFollow(x) /\ \A f \in Fields : FieldFollows(x, f)
      BY <1>11, <1>12, <1>15 DEF RowsFollow
    <3> QED
      BY <3>1, <1>14, <1>15, RowStaysFollowed
  <2> QED
    BY <2>1 DEF RowsFollow
<1>17. PointersMark'
  <2>1. s # NoValue
    BY <1>7 DEF MergeAssumption, Ends
  <2> QED
    BY <2>1, <1>8, <1>9, <1>10, <1>12 DEF PointersMark
<1>18. PointersRise'
  <2>1. PICK K \in Nat : K = Cardinality(Tombstones) /\ Cardinality(Tombstones') = K + 1
    <3>1. Tombstones \subseteq Candidates
      BY DEF Tombstones
    <3>2. IsFiniteSet(Tombstones)
      BY <3>1, FS_Subset DEF MergeAssumption
    <3> QED
      BY <3>2, <1>6, <1>9, FS_CardinalityType, FS_AddElement
  <2>2. PICK r \in [Candidates -> 0 .. K] : \A t \in Tombstones : r[t] < r[candidate[t].into]
    BY <2>1, <1>12 DEF PointersRise
  <2>3. PICK q : q = [c \in Candidates |-> IF c = s THEN K + 1 ELSE r[c]]
    OBVIOUS
  <2>4. q \in [Candidates -> 0 .. K + 1]
    <3>1. \A c \in Candidates : r[c] \in 0 .. K + 1
      BY <2>2
    <3>2. K + 1 \in 0 .. K + 1
      BY <2>1
    <3> QED
      BY <2>3, <3>1, <3>2
  <2>5. ASSUME NEW t \in Tombstones' PROVE q[t] < q[candidate'[t].into]
    <3>1. t \in Candidates /\ t # s /\ r[t] \in 0 .. K /\ q[t] = r[t]
      BY <1>6, <1>7, <1>9, <1>13, <2>2, <2>3
    <3>2. CASE candidate'[t].into = s
      <4>1. q[candidate'[t].into] = K + 1
        BY <1>7, <2>3, <3>2
      <4> QED
        BY <2>1, <3>1, <4>1
    <3>3. CASE candidate'[t].into # s
      <4>1. t \in Tombstones /\ candidate'[t].into = candidate[t].into
        BY <1>8, <1>9, <1>13, <3>3
      <4>2. candidate[t] \in CandidateRows /\ candidate[t].into # NoValue
        BY <1>1, <1>12, <3>1, <4>1 DEF MergeTyped, PointersMark
      <4>3. candidate[t].into \in Candidates
        BY <4>2 DEF CandidateRows
      <4> QED
        BY <2>2, <2>3, <3>1, <3>3, <4>1, <4>3
    <3> QED
      BY <3>2, <3>3
  <2>6. q \in [Candidates -> 0 .. Cardinality(Tombstones')]
    BY <2>1, <2>4
  <2> QED
    BY <2>5, <2>6 DEF PointersRise
<1>19. TombstonesAbsorbed'
  <2> SUFFICES ASSUME NEW t \in Tombstones' PROVE Absorbed(t, candidate[t].into)'
    BY DEF TombstonesAbsorbed
  <2>1. PICK x \in Candidates : x = candidate'[t].into /\ t \in Candidates /\ Absorbed(t, x) /\ Joined(t, x)
    <3>1. CASE t = d
      <4>1. Joined(d, s)
        BY <1>3, <1>4, LinksJoin DEF Joining
      <4> QED
        BY <1>6, <1>7, <1>8, <3>1, <4>1
    <3>2. CASE t # d
      <4>1. t \in Tombstones /\ t \in Candidates /\ candidate'[t].into = candidate[t].into
        BY <1>9, <1>13, <3>2
      <4>2. candidate[t] \in CandidateRows /\ candidate[t].into # NoValue
        BY <1>1, <1>12, <4>1 DEF MergeTyped, PointersMark
      <4>3. candidate[t].into \in Candidates
        BY <4>2 DEF CandidateRows
      <4> QED
        BY <1>12, <4>1, <4>3, LinksJoin DEF TombstonesAbsorbed
    <3> QED
      BY <3>1, <3>2
  <2>2. Absorbed(t, x)'
    BY <1>1, <1>11, <1>12, <1>14, <1>15, <2>1, AbsorbedStays
  <2> QED
    BY <2>1, <2>2
<1>20. EdgesFollow'
  <2>1. \A e \in DOMAIN SeedEdges : edges[e].from # d /\ edges[e].to # d
    BY <1>6 DEF Touches
  <2> QED
    BY <1>1, <1>9, <1>12, <1>14, <2>1, EdgesStayFollowed DEF EdgeMoved
<1>21. CallsCurrent'
  <2>1. InFlight(m)'
    BY <1>4 DEF InFlight
  <2> QED
    BY <1>1, <1>4, <2>1, OnlyMerge
<1>22. ImportsOnce'
  <2>1. \A c \in Candidates : candidate'[c].imports = candidate[c].imports
    BY <1>11 DEF SameContent
  <2>2. NoneCut' => NoneCut
    BY <1>4 DEF NoneCut, OthersKept
  <2>3. \A c \in Candidates : Standing(c)' => Standing(c)
    BY <1>3, <1>4, <1>9 DEF Standing, OthersKept
  <2> QED
    BY <1>12, <2>1, <2>2, <2>3 DEF ImportsOnce
<1> QED
  BY <1>4, <1>16, <1>17, <1>18, <1>19, <1>20, <1>21, <1>22 DEF MergeInv, MergeSound

LEMMA WriteImportKeeps ==
    ASSUME MergeAssumption, MergeInv, NEW i \in DOMAIN Imports, WriteImport(i), Clean'
    PROVE  MergeInv'
<1>1. MergeTyped /\ UNCHANGED <<edges, merge, misdirected>> /\ Entangle(i) /\ ~entangled'
  BY DEF MergeInv, Clean, WriteImport
<1>2. Clean /\ MergeSound
  BY <1>1, OthersRest DEF Clean, MergeInv
<1>3. PICK c, given : c = Imports[i].of /\ given = Imports[i]
  OBVIOUS
<1>4. MergeTyped' /\ OtherImportsKept(i) /\ importing[i].at = "found" /\ importing'[i].at = "returned"
      /\ OtherRowsKept(c)
  BY <1>1, <1>3, WriteImportStep
<1>5. c \in Candidates /\ importing[i].row = candidate[c] /\ c \notin Tombstones
      /\ candidate[c].imports \in Seq(MergeEntries)
  <2>1. FoundIsCurrent(i) /\ c \in Candidates
    BY <1>2, <1>3 DEF MergeSound, CallsCurrent, MergeAssumption
  <2>2. candidate[c] \in CandidateRows
    BY <1>1, <2>1 DEF MergeTyped
  <2> QED
    BY <1>3, <1>4, <2>1, <2>2 DEF FoundIsCurrent, CandidateRows
<1>6. /\ candidate'[c].status = (IF given.status = NoValue THEN candidate[c].status ELSE given.status)
      /\ candidate'[c].into = candidate[c].into
      /\ candidate'[c].aliases = candidate[c].aliases
      /\ candidate'[c].imports =
           (IF Contains(candidate[c].imports, i) THEN candidate[c].imports ELSE Append(candidate[c].imports, i))
      /\ \A f \in Fields : candidate'[c].props[f] =
           IF f \in DOMAIN given.fields THEN given.fields[f] ELSE candidate[c].props[f]
  <2>1. /\ candidate'[Imports[i].of].status =
             (IF Imports[i].status = NoValue THEN importing[i].row.status ELSE Imports[i].status)
        /\ candidate'[Imports[i].of].into = importing[i].row.into
        /\ candidate'[Imports[i].of].aliases = importing[i].row.aliases
        /\ candidate'[Imports[i].of].imports =
             (IF Contains(importing[i].row.imports, i) THEN importing[i].row.imports
              ELSE Append(importing[i].row.imports, i))
        /\ \A f \in Fields : candidate'[Imports[i].of].props[f] =
             IF f \in DOMAIN Imports[i].fields THEN Imports[i].fields[f] ELSE importing[i].row.props[f]
    BY <1>1, WriteImportStep
  <2>2. \A f \in Fields : candidate'[c].props[f] =
           IF f \in DOMAIN given.fields THEN given.fields[f] ELSE candidate[c].props[f]
    BY <1>3, <1>5, <2>1
  <2> QED
    BY <1>3, <1>5, <2>1, <2>2
<1>7. candidate'[c].status # "merged"
  <2>1. candidate[c].status # "merged"
    BY <1>5 DEF Tombstones
  <2>2. given.status \in {NoValue, "new", "active"}
    BY <1>3 DEF MergeAssumption
  <2> QED
    BY <1>6, <2>1, <2>2
<1>8. Tombstones' = Tombstones
  BY <1>4, <1>5, <1>7 DEF Tombstones, OtherRowsKept
<1>9. LinksGrow
  <2>1. \A t \in Tombstones : t \in Tombstones' /\ candidate'[t].into = candidate[t].into
    BY <1>4, <1>5, <1>8 DEF OtherRowsKept, Tombstones
  <2> QED
    BY <1>1, <2>1 DEF LinksGrow, Joining, SamePair
<1>10. ToldGrows
  BY <1>4 DEF ToldGrows, OtherImportsKept
<1>11. \A x \in Candidates \ {c} : ToldStays(x)
  <2>1. \A j \in DOMAIN Imports : Imports[j].of # c =>
          (importing'[j].at = "returned" <=> importing[j].at = "returned")
    BY <1>3, <1>4 DEF OtherImportsKept
  <2>2. \A x \in Candidates \ {c} : Provenance(x)' = Provenance(x)
    BY <2>1 DEF Provenance
  <2>3. \A x \in Candidates \ {c}, f \in Fields : Told(x, f)' = Told(x, f)
    BY <2>1 DEF Told
  <2> QED
    BY <2>2, <2>3 DEF ToldStays
<1>12. Provenance(c)' = Provenance(c) \cup {i} /\ i \notin Candidates
  BY <1>3, <1>4 DEF Provenance, OtherImportsKept, MergeAssumption
<1>13. ASSUME NEW f \in Fields
       PROVE  Told(c, f)' = IF f \in DOMAIN given.fields THEN Told(c, f) \cup {given.fields[f]} ELSE Told(c, f)
  BY <1>3, <1>4 DEF Told, OtherImportsKept
<1>14. ASSUME NEW x \in Candidates PROVE i \notin ToSet(candidate[x].imports)
  <2>1. SUFFICES ASSUME TracedTo(i, x) PROVE FALSE
    BY <1>2 DEF MergeSound, RowsFollow, ImportsFollow
  <2>2. PICK y \in Candidates : i \in Provenance(y)
    BY <2>1 DEF TracedTo
  <2> QED
    BY <1>4, <1>12, <2>2 DEF Provenance
<1>15. candidate'[c].imports = Append(candidate[c].imports, i)
  <2>1. ~Contains(candidate[c].imports, i)
    <3>1. DOMAIN candidate[c].imports = 1 .. Len(candidate[c].imports)
      BY <1>5, LenProperties
    <3> QED
      BY <1>5, <1>14, <3>1 DEF Contains, ToSet
  <2> QED
    BY <1>6, <2>1
<1>16. ToSet(candidate'[c].imports) = ToSet(candidate[c].imports) \cup {i}
       /\ (IsInjective(candidate[c].imports) => IsInjective(candidate'[c].imports))
  <2>1. i \in MergeEntries
    BY DEF MergeEntries
  <2> QED
    BY <1>5, <1>14, <1>15, <2>1, AppendElements
<1>17. Joined(c, c)'
  BY <1>9, JoinedAgain, JoinedStays
<1>18. \A f \in Fields : NoValue \in Told(c, f)' => Cleared(c, f)'
  BY <1>5, <1>17 DEF Cleared
<1>19. RowGrows(c)
  <2>1. ASSUME NEW f \in Fields, candidate[c].props[f] # NoValue
        PROVE  candidate'[c].props[f] # NoValue \/ Cleared(c, f)'
    <3>1. CASE f \in DOMAIN given.fields
      <4>1. candidate'[c].props[f] \in Told(c, f)'
        BY <1>6, <1>13, <3>1
      <4> QED
        BY <1>18, <4>1
    <3>2. CASE f \notin DOMAIN given.fields
      BY <1>6, <2>1, <3>2
    <3> QED
      BY <3>1, <3>2
  <2> QED
    BY <1>6, <1>16, <2>1 DEF RowGrows
<1>20. AliasesFollow(c) /\ ImportsFollow(c) /\ \A f \in Fields : FieldFollows(c, f)
  BY <1>2, <1>5 DEF MergeSound, RowsFollow
<1>21. AliasesFollow(c)'
  BY <1>6, <1>9, <1>20, JoinedStays DEF AliasesFollow
<1>22. ImportsFollow(c)'
  <2>1. \A p \in ToSet(candidate[c].imports) : TracedTo(p, c)'
    BY <1>9, <1>10, <1>20, SourcesStay DEF ImportsFollow
  <2>2. TracedTo(i, c)'
    BY <1>5, <1>12, <1>17 DEF TracedTo
  <2>3. Provenance(c)' \subseteq ToSet(candidate'[c].imports)
    BY <1>12, <1>16, <1>20 DEF ImportsFollow
  <2> QED
    BY <1>16, <2>1, <2>2, <2>3 DEF ImportsFollow
<1>23. ASSUME NEW f \in Fields PROVE FieldFollows(c, f)'
  <2>1. CASE f \in DOMAIN given.fields
    <3>1. candidate'[c].props[f] \in Told(c, f)'
      BY <1>6, <1>13, <2>1
    <3>2. candidate'[c].props[f] \in Own(c, f)' /\ candidate'[c].props[f] \in Said(c, f)'
      BY <3>1 DEF Own, Said
    <3>3. SaidBy(candidate[c].props[f], c, f)'
      BY <1>5, <1>17, <3>2 DEF SaidBy
    <3> QED
      BY <1>18, <3>1, <3>2, <3>3 DEF FieldFollows
  <2>2. CASE f \notin DOMAIN given.fields
    <3>1. candidate'[c].props[f] = candidate[c].props[f] /\ Told(c, f)' = Told(c, f)
      BY <1>6, <1>13, <2>2
    <3>2. Said(c, f)' = Said(c, f) /\ Own(c, f)' = Own(c, f)
      BY <3>1 DEF Said, Own
    <3>3. FieldFollows(c, f)
      BY <1>20
    <3> QED
      BY <1>9, <1>10, <3>1, <3>2, <3>3, SourcesStay DEF FieldFollows
  <2> QED
    BY <2>1, <2>2
<1>24. (PointersMark /\ PointersRise /\ TombstonesAbsorbed /\ EdgesFollow /\ RowsFollow)'
  BY <1>1, <1>2, <1>4, <1>5, <1>6, <1>7, <1>9, <1>10, <1>11, <1>19, <1>21, <1>22, <1>23, OneRowKeeps
<1>25. CallsCurrent'
  <2>1. FoundIsCurrent(i)'
    BY <1>4 DEF FoundIsCurrent
  <2> QED
    BY <1>1, <1>4, <2>1, OnlyImport
<1>26. ImportsOnce'
  <2> SUFFICES ASSUME NoneCut'
               PROVE  /\ \A x \in Candidates : Standing(x)' => IsInjective(candidate'[x].imports)
                      /\ \A x, y \in Candidates : Standing(x)' /\ Standing(y)' /\ x # y =>
                           ToSet(candidate'[x].imports) \cap ToSet(candidate'[y].imports) = {}
    BY DEF ImportsOnce
  <2>1. NoneCut /\ \A x \in Candidates : Standing(x)' => Standing(x)
    BY <1>1, <1>8 DEF NoneCut, Standing
  <2>2. /\ \A x \in Candidates : Standing(x) => IsInjective(candidate[x].imports)
        /\ \A x, y \in Candidates : Standing(x) /\ Standing(y) /\ x # y =>
             ToSet(candidate[x].imports) \cap ToSet(candidate[y].imports) = {}
    BY <1>2, <2>1 DEF MergeSound, ImportsOnce
  <2>3. \A x \in Candidates \ {c} : candidate'[x] = candidate[x]
    BY <1>4 DEF OtherRowsKept
  <2>4. \A x \in Candidates : Standing(x)' => IsInjective(candidate'[x].imports)
    BY <1>16, <2>1, <2>2, <2>3
  <2>5. ASSUME NEW x \in Candidates, NEW y \in Candidates, Standing(x)', Standing(y)', x # y
        PROVE  ToSet(candidate'[x].imports) \cap ToSet(candidate'[y].imports) = {}
    <3>1. ToSet(candidate[x].imports) \cap ToSet(candidate[y].imports) = {}
      BY <2>1, <2>2, <2>5
    <3>2. i \notin ToSet(candidate[x].imports) /\ i \notin ToSet(candidate[y].imports)
      BY <1>14
    <3> QED
      BY <1>16, <2>3, <2>5, <3>1, <3>2
  <2> QED
    BY <2>4, <2>5
<1> QED
  BY <1>4, <1>24, <1>25, <1>26 DEF MergeInv, MergeSound

LEMMA MergeStepKeeps ==
    ASSUME MergeAssumption, MergeInv, [MergeNext]_mergeVars
    PROVE  MergeInv'
<1>1. MergeTyped
  BY DEF MergeInv
<1>2. CASE UNCHANGED mergeVars
  <2>1. MergeTyped' = MergeTyped
    BY <1>2 DEF MergeTyped, mergeVars
  <2>2. Clean' = Clean
    BY <1>2 DEF Clean, mergeVars
  <2>3. MergeSound' = MergeSound
    BY <1>2 DEF mergeVars, MergeSound, CallsCurrent, InFlight, FoundIsCurrent, PointersMark, PointersRise,
      TombstonesAbsorbed, EdgesFollow, RowsFollow, ImportsOnce, Tombstones, Absorbed, EdgeDropped, EdgeMoved,
      AliasesFollow, ImportsFollow, FieldFollows, Joined, Respects, Joining, Cleared, TracedTo, SaidBy,
      Told, Said, Own, Provenance, BothLive, Lists, Touches, Standing, NoneCut
  <2> QED
    BY <2>1, <2>2, <2>3 DEF MergeInv
<1>3. ASSUME NEW m \in MergeCalls,
             \/ ChoosePair(m) \/ ReadSurvivor(m) \/ ReadDuplicate(m) \/ ListEdges(m) \/ MoveEdge(m)
             \/ Backfill(m) \/ Tombstone(m) \/ CutOff(m)
      PROVE  MergeInv'
  <2>1. MergeTyped'
    BY <1>1, <1>3, ChoosePairStep, ReadSurvivorStep, ReadDuplicateStep, ListEdgesStep, MoveEdgeStep,
      BackfillStep, TombstoneStep, CutOffStep
  <2>2. CASE ~Clean'
    BY <2>1, <2>2 DEF MergeInv
  <2>3. CASE Clean'
    BY <1>3, <2>3, ChoosePairKeeps, ReadSurvivorKeeps, ReadDuplicateKeeps, ListEdgesKeeps, MoveEdgeKeeps,
      BackfillKeeps, TombstoneKeeps, CutOffKeeps
  <2> QED
    BY <2>2, <2>3
<1>4. ASSUME NEW i \in DOMAIN Imports, FindByKey(i) \/ WriteImport(i)
      PROVE  MergeInv'
  <2>1. MergeTyped'
    BY <1>1, <1>4, FindByKeyStep, WriteImportStep
  <2>2. CASE ~Clean'
    BY <2>1, <2>2 DEF MergeInv
  <2>3. CASE Clean'
    BY <1>4, <2>3, FindByKeyKeeps, WriteImportKeeps
  <2> QED
    BY <2>2, <2>3
<1> QED
  BY <1>2, <1>3, <1>4 DEF MergeNext

LEMMA MergesAreSound ==
    ASSUME MergeAssumption, NoLoops
    PROVE  MergeSpec => []MergeInv
<1>1. MergeInit => MergeInv
  BY MergeInvInit
<1>2. MergeInv /\ [MergeNext]_mergeVars => MergeInv'
  BY MergeStepKeeps
<1> QED
  BY <1>1, <1>2, PTL DEF MergeSpec

\* For any candidates, edges, merges and imports, unless an edge led from an object to
\* itself at first: once calls that took turns have ended, each tombstone leads to a living
\* candidate, which has the edges, the values, the aliases and the provenance of all that
\* were merged into it (mergeCandidates, candidate-identity-service.ts:163).
THEOREM MergesKeepEverything == NoLoops => (MergeSpec => []MergesLoseNothing)
<1>1. SUFFICES ASSUME NoLoops PROVE MergeSpec => []MergesLoseNothing
  OBVIOUS
<1>2. MergeSpec => []MergeInv
  BY <1>1, MergeAssumption, MergesAreSound
<1>3. MergeInv => MergesLoseNothing
  BY MergeAssumption, MergeInvSuffices
<1> QED
  BY <1>2, <1>3, PTL

LEMMA MergesAreTyped == MergeInv => MergeTypeOK
BY DEF MergeInv, MergeTyped, MergeTypeOK, CandidateRows, MergeEntries, MergeStates, MergeSteps, ImportStates

\* Candidates, merges and imports keep their types: a tombstone points to a candidate.
THEOREM MergeTypeCorrect == NoLoops => (MergeSpec => []MergeTypeOK)
<1>1. SUFFICES ASSUME NoLoops PROVE MergeSpec => []MergeTypeOK
  OBVIOUS
<1>2. MergeSpec => []MergeInv
  BY <1>1, MergeAssumption, MergesAreSound
<1>3. MergeInv => MergeTypeOK
  BY MergesAreTyped
<1> QED
  BY <1>2, <1>3, PTL

=============================================================================
