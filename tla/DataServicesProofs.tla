------------------------- MODULE DataServicesProofs -------------------------
(***************************************************************************)
(* Proofs about the data services, for any number of callers.  Each        *)
(* component has its own specification and shares no state with the        *)
(* others, so each has an inductive invariant of its own:                  *)
(*   StoreInv    one collection of the document store;                     *)
(*   NotifyInv   the notification engine;                                  *)
(*   IngestInv   uploads and inbound webhooks;                             *)
(*   LearningInv the learning loop;                                        *)
(*   RetentionInv retention jobs against each other and upserts;           *)
(*   AccessInv   the access decision;                                      *)
(*   AuditInv    the audit chain of one tenant.                            *)
(* DataInv puts them together for the composition that the run checks,     *)
(* with the invariants from OntologyProofs and PreflightProofs.            *)
(***************************************************************************)
EXTENDS MCDataServices, OntologyProofs, PreflightProofs

-----------------------------------------------------------------------------
\* The document store.

PatchNumber == 0 .. MaxPatches

ClientState ==
    [step: {"idle", "merging"}, row: Nat, read: [StoreClients -> PatchNumber],
     patches: PatchNumber]

Merging(c) == client[c].step = "merging"

DocumentsTyped ==
    /\ backend \in {"memory", "pg"} /\ reborn \in BOOLEAN /\ idCounter \in 0 .. MaxRows
    /\ DOMAIN rows \subseteq RowIds
    /\ \A i \in DOMAIN rows : rows[i] \in [StoreClients -> PatchNumber]
    /\ client \in [StoreClients -> ClientState]
    /\ \A c \in StoreClients : Merging(c) =>
            backend = "pg" /\ client[c].row \in RowIds /\ client[c].patches < MaxPatches
    /\ written \in [StoreClients -> [RowIds -> PatchNumber]]
    /\ collided \subseteq RowIds

\* An id that the counter has not handed out belongs to nobody: no row, no update under
\* way, no answer given.  A restarted process over durable rows breaks it.
IdsAreFresh ==
    backend = "memory" \/ ~reborn =>
      \A i \in RowIds : i > idCounter =>
        /\ i \notin DOMAIN rows
        /\ \A c \in StoreClients : written[c][i] = 0 /\ ~(Merging(c) /\ client[c].row = i)

\* What an update has read of a row is what its other writers were told, until one of
\* them writes the row in between, and then the row has collided.
ReadsAreCurrent ==
    ~reborn =>
      \A c \in StoreClients :
        Merging(c) /\ client[c].row \in DOMAIN rows /\ client[c].row \notin collided =>
          \A d \in StoreClients : client[c].read[d] = written[d][client[c].row]

StoreInv == DocumentsTyped /\ IdsAreFresh /\ ReadsAreCurrent /\ AcknowledgedPatchesSurvive

LEMMA StoreBounds == MaxRows \in Nat /\ MaxPatches \in Nat
BY StoreAssumption

LEMMA StoreInitInv == StoreInit => StoreInv
<1> SUFFICES ASSUME StoreInit PROVE StoreInv
  OBVIOUS
<1> USE StoreBounds DEF StoreInit
<1>1. DOMAIN rows = {}
  OBVIOUS
<1>2. DocumentsTyped
  <2>1. client \in [StoreClients -> ClientState] /\ \A c \in StoreClients : ~Merging(c)
    BY DEF ClientState, IdleClient, EmptyRow, PatchNumber, Merging
  <2>2. written \in [StoreClients -> [RowIds -> PatchNumber]]
    BY DEF PatchNumber
  <2>3. DOMAIN rows \subseteq RowIds /\ \A i \in DOMAIN rows : rows[i] \in [StoreClients -> PatchNumber]
    BY <1>1
  <2>4. backend \in {"memory", "pg"} /\ idCounter \in 0 .. MaxRows /\ collided \subseteq RowIds
    OBVIOUS
  <2>5. reborn \in BOOLEAN
    BY Zenon
  <2> HIDE DEF StoreInit
  <2> QED
    BY <2>1, <2>2, <2>3, <2>4, <2>5 DEF DocumentsTyped
<1>3. IdsAreFresh
  BY <1>1 DEF IdsAreFresh, IdleClient, Merging
<1>4. ReadsAreCurrent /\ AcknowledgedPatchesSurvive
  BY <1>1 DEF ReadsAreCurrent, AcknowledgedPatchesSurvive
<1> QED
  BY <1>2, <1>3, <1>4 DEF StoreInv

LEMMA InsertRowInv == StoreInv /\ InsertRow => StoreInv'
<1> SUFFICES ASSUME StoreInv, InsertRow PROVE StoreInv'
  OBVIOUS
<1> USE StoreBounds
<1>1. PICK i : i = idCounter + 1
  OBVIOUS
<1>2. i \in RowIds /\ EmptyRow \in [StoreClients -> PatchNumber]
  BY <1>1 DEF StoreInv, DocumentsTyped, InsertRow, RowIds, EmptyRow, PatchNumber
<1>3. /\ DOMAIN rows' = DOMAIN rows \cup {i}
      /\ rows'[i] = EmptyRow
      /\ \A j \in DOMAIN rows : j # i => rows'[j] = rows[j]
  BY <1>1 DEF InsertRow, WithRow
<1>4. DocumentsTyped'
  <2>1. \A j \in DOMAIN rows' : rows'[j] \in [StoreClients -> PatchNumber]
    BY <1>2, <1>3 DEF StoreInv, DocumentsTyped
  <2>2. DOMAIN rows' \subseteq RowIds /\ idCounter' \in 0 .. MaxRows
    BY <1>1, <1>2, <1>3 DEF StoreInv, DocumentsTyped, InsertRow
  <2> QED
    BY <2>1, <2>2 DEF StoreInv, DocumentsTyped, InsertRow, Merging
<1>5. IdsAreFresh'
  BY <1>1, <1>2, <1>3 DEF StoreInv, DocumentsTyped, IdsAreFresh, InsertRow, RowIds, Merging
<1>6. backend = "memory" \/ ~reborn =>
        /\ i \notin DOMAIN rows
        /\ \A c \in StoreClients : written[c][i] = 0 /\ ~(Merging(c) /\ client[c].row = i)
  BY <1>1, <1>2 DEF StoreInv, DocumentsTyped, IdsAreFresh
<1>7. ReadsAreCurrent'
  BY <1>3, <1>6 DEF StoreInv, ReadsAreCurrent, InsertRow, Merging
<1>8. AcknowledgedPatchesSurvive'
  BY <1>3, <1>6 DEF StoreInv, AcknowledgedPatchesSurvive, InsertRow, EmptyRow
<1> QED
  BY <1>4, <1>5, <1>7, <1>8 DEF StoreInv

LEMMA BeginUpdateInv ==
    ASSUME StoreInv, NEW c \in StoreClients, NEW i \in RowIds, BeginUpdate(c, i)
    PROVE  StoreInv'
<1> USE StoreBounds
<1>1. PICK n : n = NextPatch(c)
  OBVIOUS
<1>2. n \in PatchNumber /\ client[c] \in ClientState /\ client[c].patches + 1 = n
  BY <1>1 DEF StoreInv, DocumentsTyped, BeginUpdate, NextPatch, PatchNumber, ClientState
<1>3. PICK row : row = rows[i]
  OBVIOUS
<1>4. row \in [StoreClients -> PatchNumber] /\ i \in DOMAIN rows
  BY <1>3 DEF StoreInv, DocumentsTyped, BeginUpdate
<1>5. CASE backend = "memory"
  <2>1. /\ DOMAIN rows' = DOMAIN rows
        /\ rows'[i] = [row EXCEPT ![c] = n]
        /\ \A j \in DOMAIN rows : j # i => rows'[j] = rows[j]
    BY <1>1, <1>3, <1>4, <1>5 DEF BeginUpdate, WithRow
  <2>2. written' = [written EXCEPT ![c][i] = n]
    BY <1>1, <1>5 DEF BeginUpdate
  <2>3. client' = [client EXCEPT ![c].patches = @ + 1]
    BY <1>5 DEF BeginUpdate
  <2>4. client'[c] \in ClientState
    BY <1>2, <2>3 DEF StoreInv, DocumentsTyped, ClientState
  <2>5. DocumentsTyped'
    <3>1. client' \in [StoreClients -> ClientState]
      BY <2>3, <2>4 DEF StoreInv, DocumentsTyped
    <3>2. \A d \in StoreClients : ~Merging(d)'
      BY <1>5, <2>3 DEF StoreInv, DocumentsTyped, ClientState, Merging
    <3>3. \A j \in DOMAIN rows' : rows'[j] \in [StoreClients -> PatchNumber]
      <4>1. [row EXCEPT ![c] = n] \in [StoreClients -> PatchNumber]
        BY <1>2, <1>4
      <4> QED
        BY <2>1, <4>1 DEF StoreInv, DocumentsTyped
    <3>4. written' \in [StoreClients -> [RowIds -> PatchNumber]]
      BY <1>2, <2>2 DEF StoreInv, DocumentsTyped
    <3> QED
      BY <1>5, <2>1, <3>1, <3>2, <3>3, <3>4 DEF StoreInv, DocumentsTyped, BeginUpdate
  <2>6. IdsAreFresh'
    BY <1>4, <1>5, <2>1, <2>2, <2>3, <2>5 DEF StoreInv, DocumentsTyped, IdsAreFresh, BeginUpdate, Merging
  <2>7. ReadsAreCurrent'
    BY <1>5, <2>5 DEF DocumentsTyped, ReadsAreCurrent, BeginUpdate
  <2>8. AcknowledgedPatchesSurvive'
    <3>1. \A d \in StoreClients : row[d] = written[d][i]
      BY <1>3, <1>4, <1>5 DEF StoreInv, AcknowledgedPatchesSurvive
    <3>2. \A d \in StoreClients : rows'[i][d] = written'[d][i]
      BY <1>4, <2>1, <2>2, <3>1 DEF StoreInv, DocumentsTyped
    <3>3. \A j \in DOMAIN rows' : j # i => \A d \in StoreClients : rows'[j][d] = written'[d][j]
      BY <1>5, <2>1, <2>2 DEF StoreInv, DocumentsTyped, AcknowledgedPatchesSurvive
    <3> QED
      BY <3>2, <3>3 DEF AcknowledgedPatchesSurvive
  <2> QED
    BY <2>5, <2>6, <2>7, <2>8 DEF StoreInv
<1>6. CASE backend # "memory"
  <2>1. PICK p : p = client[c].patches
    OBVIOUS
  <2>2. client' = [client EXCEPT ![c] = [step |-> "merging", row |-> i, read |-> row, patches |-> p]]
    BY <1>3, <1>6, <2>1 DEF BeginUpdate
  <2>3. UNCHANGED <<rows, written, backend, idCounter, collided, reborn>>
    BY <1>6 DEF BeginUpdate
  <2>4. /\ client'[c] \in ClientState
        /\ client'[c].step = "merging" /\ client'[c].row = i /\ client'[c].read = row
        /\ client'[c].patches < MaxPatches
    BY <1>2, <1>4, <2>1, <2>2
       DEF StoreInv, DocumentsTyped, ClientState, BeginUpdate, RowIds
  <2>5. \A d \in StoreClients : d # c => client'[d] = client[d]
    BY <2>2 DEF StoreInv, DocumentsTyped
  <2>6. DocumentsTyped'
    <3>1. client' \in [StoreClients -> ClientState]
      BY <2>2, <2>4, <2>5 DEF StoreInv, DocumentsTyped
    <3>2. \A d \in StoreClients : Merging(d)' =>
            backend' = "pg" /\ client'[d].row \in RowIds /\ client'[d].patches < MaxPatches
      BY <1>6, <2>3, <2>4, <2>5 DEF StoreInv, DocumentsTyped, Merging
    <3> QED
      BY <2>3, <3>1, <3>2 DEF StoreInv, DocumentsTyped
  <2>7. IdsAreFresh'
    BY <1>4, <2>3, <2>4, <2>5 DEF StoreInv, IdsAreFresh, Merging
  <2>8. ReadsAreCurrent'
    BY <1>3, <1>4, <2>3, <2>4, <2>5
       DEF StoreInv, ReadsAreCurrent, AcknowledgedPatchesSurvive, Merging
  <2>9. AcknowledgedPatchesSurvive'
    BY <2>3 DEF StoreInv, AcknowledgedPatchesSurvive
  <2> QED
    BY <2>6, <2>7, <2>8, <2>9 DEF StoreInv
<1> QED
  BY <1>5, <1>6

LEMMA FinishUpdateInv ==
    ASSUME StoreInv, NEW c \in StoreClients, FinishUpdate(c)
    PROVE  StoreInv'
<1> USE StoreBounds
<1>1. PICK n, i, read : n = NextPatch(c) /\ i = client[c].row /\ read = client[c].read
  OBVIOUS
<1>2. /\ n \in PatchNumber /\ client[c] \in ClientState
      /\ read \in [StoreClients -> PatchNumber]
      /\ Merging(c) /\ i \in RowIds /\ backend = "pg"
  BY <1>1 DEF StoreInv, DocumentsTyped, FinishUpdate, Merging, NextPatch, PatchNumber, ClientState
<1>3. /\ DOMAIN rows' = DOMAIN rows
      /\ i \in DOMAIN rows => rows'[i] = [read EXCEPT ![c] = n]
      /\ \A j \in DOMAIN rows : j # i => rows'[j] = rows[j]
  BY <1>1 DEF FinishUpdate, WithRow
<1>4. written' = [written EXCEPT ![c][i] = n]
  BY <1>1 DEF FinishUpdate
<1>5. /\ client'[c] \in ClientState /\ ~Merging(c)'
      /\ \A d \in StoreClients : d # c => client'[d] = client[d]
      /\ client' \in [StoreClients -> ClientState]
  <2>1. client' = [client EXCEPT ![c] = [IdleClient EXCEPT !.patches = n]]
    BY <1>1 DEF FinishUpdate
  <2>2. [IdleClient EXCEPT !.patches = n] \in ClientState
    BY <1>2 DEF IdleClient, EmptyRow, ClientState, PatchNumber
  <2>3. [IdleClient EXCEPT !.patches = n].step = "idle"
    BY DEF IdleClient
  <2> QED
    BY <2>1, <2>2, <2>3 DEF StoreInv, DocumentsTyped, Merging
<1>6. /\ UNCHANGED <<backend, idCounter, reborn>>
      /\ collided \subseteq collided' /\ collided' \subseteq collided \cup {i}
      /\ \A d \in StoreClients : d # c /\ Merging(d) /\ client[d].row = i => i \in collided'
  BY <1>1 DEF FinishUpdate, Merging
<1>7. DocumentsTyped'
  <2>1. \A d \in StoreClients : Merging(d)' =>
          backend' = "pg" /\ client'[d].row \in RowIds /\ client'[d].patches < MaxPatches
    BY <1>5, <1>6 DEF StoreInv, DocumentsTyped, Merging
  <2>2. written' \in [StoreClients -> [RowIds -> PatchNumber]]
    BY <1>2, <1>4 DEF StoreInv, DocumentsTyped
  <2>3. \A j \in DOMAIN rows' : rows'[j] \in [StoreClients -> PatchNumber]
    <3>1. [read EXCEPT ![c] = n] \in [StoreClients -> PatchNumber]
      BY <1>2
    <3> QED
      BY <1>3, <3>1 DEF StoreInv, DocumentsTyped
  <2> QED
    BY <1>2, <1>3, <1>5, <1>6, <2>1, <2>2, <2>3 DEF StoreInv, DocumentsTyped
<1>8. IdsAreFresh'
  BY <1>1, <1>2, <1>3, <1>4, <1>5, <1>6 DEF StoreInv, DocumentsTyped, IdsAreFresh, Merging
<1>9. ReadsAreCurrent'
  BY <1>1, <1>2, <1>3, <1>4, <1>5, <1>6, SMTT(60) DEF StoreInv, DocumentsTyped, ReadsAreCurrent, Merging
<1>10. AcknowledgedPatchesSurvive'
  <2>1. i \in DOMAIN rows /\ i \notin collided /\ ~reborn =>
          \A d \in StoreClients : read[d] = written[d][i]
    BY <1>1, <1>2 DEF StoreInv, ReadsAreCurrent
  <2>2. i \in DOMAIN rows /\ i \notin collided' /\ ~reborn =>
          \A d \in StoreClients : rows'[i][d] = written'[d][i]
    BY <1>2, <1>3, <1>4, <1>6, <2>1 DEF StoreInv, DocumentsTyped
  <2>3. \A j \in DOMAIN rows : j # i => \A d \in StoreClients :
          rows'[j] = rows[j] /\ written'[d][j] = written[d][j]
    BY <1>3, <1>4 DEF StoreInv, DocumentsTyped
  <2> QED
    BY <1>2, <1>3, <1>6, <2>2, <2>3 DEF StoreInv, DocumentsTyped, AcknowledgedPatchesSurvive
<1> QED
  BY <1>7, <1>8, <1>9, <1>10 DEF StoreInv

LEMMA DeleteRowInv ==
    ASSUME StoreInv, NEW i \in RowIds, DeleteRow(i)
    PROVE  StoreInv'
<1>1. DOMAIN rows' = DOMAIN rows \ {i} /\ \A j \in DOMAIN rows' : rows'[j] = rows[j]
  BY DEF DeleteRow
<1>2. UNCHANGED <<backend, idCounter, client, written, collided, reborn>>
  BY DEF DeleteRow
<1>3. DocumentsTyped'
  BY <1>1, <1>2 DEF StoreInv, DocumentsTyped, Merging
<1>4. IdsAreFresh' /\ ReadsAreCurrent' /\ AcknowledgedPatchesSurvive'
  BY <1>1, <1>2 DEF StoreInv, IdsAreFresh, ReadsAreCurrent, AcknowledgedPatchesSurvive, Merging
<1> QED
  BY <1>3, <1>4 DEF StoreInv

LEMMA RestartStoreInv == StoreInv /\ RestartStore => StoreInv'
<1> SUFFICES ASSUME StoreInv, RestartStore PROVE StoreInv'
  OBVIOUS
<1> USE StoreBounds
<1>1. client' \in [StoreClients -> ClientState] /\ \A c \in StoreClients : ~Merging(c)'
  <2>1. \A c \in StoreClients : /\ [IdleClient EXCEPT !.patches = client[c].patches] \in ClientState
                                /\ [IdleClient EXCEPT !.patches = client[c].patches].step = "idle"
    BY SMTT(60) DEF StoreInv, DocumentsTyped, ClientState, IdleClient, EmptyRow, PatchNumber
  <2> QED
    BY <2>1 DEF RestartStore, Merging
<1>2. UNCHANGED <<backend, collided>> /\ reborn' = TRUE /\ idCounter' = 0
  BY DEF RestartStore
<1>3. CASE backend = "memory"
  <2>1. DOMAIN rows' = {} /\ written' = [c \in StoreClients |-> [i \in RowIds |-> 0]]
    BY <1>3 DEF RestartStore
  <2>2. DocumentsTyped'
    BY <1>1, <1>2, <2>1 DEF StoreInv, DocumentsTyped, PatchNumber
  <2>3. IdsAreFresh' /\ ReadsAreCurrent' /\ AcknowledgedPatchesSurvive'
    BY <1>1, <1>2, <2>1 DEF IdsAreFresh, ReadsAreCurrent, AcknowledgedPatchesSurvive
  <2> QED
    BY <2>2, <2>3 DEF StoreInv
<1>4. CASE backend # "memory"
  <2>1. UNCHANGED <<rows, written>>
    BY <1>4 DEF RestartStore
  <2>2. DocumentsTyped'
    BY <1>1, <1>2, <2>1 DEF StoreInv, DocumentsTyped
  <2>3. IdsAreFresh' /\ ReadsAreCurrent' /\ AcknowledgedPatchesSurvive'
    BY <1>2, <1>4 DEF IdsAreFresh, ReadsAreCurrent, AcknowledgedPatchesSurvive
  <2> QED
    BY <2>2, <2>3 DEF StoreInv
<1> QED
  BY <1>3, <1>4

LEMMA StoreNextInv == StoreInv /\ [StoreNext]_storeVars => StoreInv'
<1> SUFFICES ASSUME StoreInv, [StoreNext]_storeVars PROVE StoreInv'
  OBVIOUS
<1>1. CASE StoreNext
  BY <1>1, InsertRowInv, FinishUpdateInv, BeginUpdateInv, DeleteRowInv, RestartStoreInv
     DEF StoreNext
<1>2. CASE UNCHANGED storeVars
  BY <1>2 DEF storeVars, StoreInv, DocumentsTyped, IdsAreFresh, ReadsAreCurrent,
              AcknowledgedPatchesSurvive, Merging
<1> QED
  BY <1>1, <1>2

\* Whatever callers do with a collection, on either backend: a caller that was told its
\* patch is stored finds it in the row, unless on Postgres updates of that row overlapped
\* or the process was restarted.
THEOREM PatchesSurvive == StoreSpec => []AcknowledgedPatchesSurvive
<1>1. StoreSpec => []StoreInv
  BY StoreInitInv, StoreNextInv, PTL DEF StoreSpec
<1>2. StoreInv => AcknowledgedPatchesSurvive
  BY DEF StoreInv
<1> QED
  BY <1>1, <1>2, PTL

LEMMA DocumentsAreTyped == StoreInv => StoreTypeOK
BY StoreBounds DEF StoreInv, DocumentsTyped, StoreTypeOK, ClientState, PatchNumber

\* The collections keep their types: rows only under ids that were handed out.
THEOREM StoreTypeCorrect == StoreSpec => []StoreTypeOK
<1>1. StoreInv => StoreTypeOK
  BY DocumentsAreTyped
<1> QED
  BY <1>1, StoreInitInv, StoreNextInv, PTL DEF StoreSpec

-----------------------------------------------------------------------------
\* The notification engine.

NotificationState == {"sent", "queued", "failed"}

NotificationRow == [rule: Rules, state: NotificationState]

EmissionState ==
    [step: EmissionOver \cup {"looking", "delivering", "recording"}, rule: Rules,
     state: NotificationState \cup {"none"}]

EmissionRuns(e) == emission[e].step \notin EmissionOver

NotifyTyped ==
    /\ notified \in Seq(NotificationRow)
    /\ emission \in [Emissions -> EmissionState]
    /\ \A e \in Emissions : /\ emission[e].step = "recording" => emission[e].state # "none"
                            /\ emission[e].step = "start" => emission[e].rule = 1
    /\ delivered \in [Rules -> Nat]
    /\ unrecorded \subseteq Rules
    /\ emitOverlap \in BOOLEAN

\* Row i answers rule r: it did not fail.
Answers(i, r) == notified[i].rule = r /\ notified[i].state # "failed"

OneAtATime == \A e, f \in Emissions : EmissionRuns(e) /\ EmissionRuns(f) => e = f

\* What an emission is about to deliver or record has no answer yet.
NotAnsweredYet ==
    \A e \in Emissions : emission[e].step \in {"delivering", "recording"} =>
      \A i \in DOMAIN notified : ~Answers(i, emission[e].rule)

OneAnswer ==
    \A r \in Rules : \A i, j \in DOMAIN notified : Answers(i, r) /\ Answers(j, r) => i = j

\* A recorded delivery is the only one, and stands in a row or in an emission that is
\* about to write it.
DeliveriesStand ==
    \A r \in Rules \ unrecorded :
      /\ delivered[r] <= 1
      /\ \/ delivered[r] = 0
         \/ \E i \in DOMAIN notified : Answers(i, r)
         \/ \E e \in Emissions : emission[e] = [step |-> "recording", rule |-> r, state |-> "sent"]

\* Every rule an emission went past has a row.
RulesPassed ==
    \A e \in Emissions, r \in Rules :
      emission[e].step = "returned" \/ (EmissionRuns(e) /\ r < emission[e].rule) =>
        \E i \in DOMAIN notified : notified[i].rule = r

\* An in-app message is only ever a row.
InAppStays == \A r \in Rules : RuleChannels[r] = "in_app" => delivered[r] = 0

NotifyInv ==
    /\ NotifyTyped
    /\ InAppStays
    /\ ~emitOverlap => OneAtATime /\ NotAnsweredYet /\ OneAnswer /\ DeliveriesStand
    /\ RulesPassed

LEMMA RulesAre == Rules = 1 .. Len(RuleChannels) /\ Len(RuleChannels) \in Nat \ {0}
BY NotifyAssumption DEF Rules

LEMMA NotifyInitInv == NotifyInit => NotifyInv
<1> SUFFICES ASSUME NotifyInit PROVE NotifyInv
  OBVIOUS
<1>1. notified = << >> /\ unrecorded = {} /\ 1 \in Rules
  BY RulesAre DEF NotifyInit
<1>2. emission \in [Emissions -> EmissionState] /\ \A e \in Emissions : emission[e].step = "start"
  BY <1>1 DEF NotifyInit, EmissionState, EmissionOver
<1>9. \A e \in Emissions : emission[e].rule = 1
  BY DEF NotifyInit
<1>3. delivered \in [Rules -> Nat] /\ \A r \in Rules : delivered[r] = 0
  BY DEF NotifyInit
<1>4. emitOverlap \in BOOLEAN
  BY Zenon DEF NotifyInit
<1>5. NotifyTyped
  BY <1>1, <1>2, <1>3, <1>4, <1>9 DEF NotifyTyped
<1>6. InAppStays /\ OneAtATime /\ NotAnsweredYet /\ OneAnswer /\ DeliveriesStand /\ RulesPassed
  BY <1>1, <1>2, <1>3
     DEF InAppStays, OneAtATime, NotAnsweredYet, OneAnswer, DeliveriesStand, RulesPassed, EmissionRuns, EmissionOver
<1> QED
  BY <1>5, <1>6 DEF NotifyInv

\* A step of e, from an emission under way or starting.  As long as no two overlap, e is
\* the only one under way, before and after.
LEMMA MoveFacts ==
    ASSUME NotifyInv, NEW e \in Emissions, NEW to \in EmissionState, MoveEmission(e, to),
           to.step = "recording" => to.state # "none", to.step # "start"
    PROVE  /\ emission' \in [Emissions -> EmissionState] /\ emission'[e] = to
           /\ \A f \in Emissions : f # e => emission'[f] = emission[f]
           /\ \A f \in Emissions : /\ emission'[f].step = "recording" => emission'[f].state # "none"
                                   /\ emission'[f].step = "start" => emission'[f].rule = 1
           /\ emitOverlap' \in BOOLEAN
           /\ ~emitOverlap' => /\ ~emitOverlap /\ OneAtATime'
                               /\ \A f \in Emissions : f # e => ~EmissionRuns(f) /\ ~EmissionRuns(f)'
<1>1. /\ emission' \in [Emissions -> EmissionState] /\ emission'[e] = to
      /\ \A f \in Emissions : f # e => emission'[f] = emission[f]
  BY DEF NotifyInv, NotifyTyped, MoveEmission
<1>2. \A f \in Emissions : /\ emission'[f].step = "recording" => emission'[f].state # "none"
                           /\ emission'[f].step = "start" => emission'[f].rule = 1
  BY <1>1 DEF NotifyInv, NotifyTyped
<1>3. emitOverlap' \in BOOLEAN
  BY Zenon DEF NotifyInv, NotifyTyped, MoveEmission
<1>4. ~emitOverlap' => ~emitOverlap /\ \A f \in Emissions : f # e => ~EmissionRuns(f)
  BY DEF MoveEmission, EmissionRuns
<1>5. ~emitOverlap' => \A f \in Emissions : f # e => ~EmissionRuns(f)'
  BY <1>1, <1>4 DEF EmissionRuns
<1>6. ~emitOverlap' => OneAtATime'
  BY <1>5 DEF OneAtATime
<1> QED
  BY <1>1, <1>2, <1>3, <1>4, <1>5, <1>6

\* Where an emission goes when it is done with a rule.
LEMMA NextRuleFacts ==
    ASSUME NotifyInv, NEW e \in Emissions
    PROVE  LET n == NextRule(e) IN
           /\ n \in EmissionState /\ n.step \in {"returned", "looking"}
           /\ n.step = "returned" => \A r \in Rules : r <= emission[e].rule
           /\ n.step = "looking" => n.rule = emission[e].rule + 1
<1>1. emission[e].rule \in Rules
  BY DEF NotifyInv, NotifyTyped, EmissionState
<1> QED
  BY <1>1, RulesAre DEF NextRule, EmissionState, EmissionOver

LEMMA LookForDuplicateInv ==
    ASSUME NotifyInv, NEW e \in Emissions, LookForDuplicate(e)
    PROVE  NotifyInv'
<1>1. PICK r : r = emission[e].rule
  OBVIOUS
<1>2. r \in Rules /\ emission[e] \in EmissionState /\ emission[e].step \in {"start", "looking"}
  BY <1>1 DEF NotifyInv, NotifyTyped, EmissionState, LookForDuplicate
<1>3. UNCHANGED <<notified, delivered, unrecorded>>
  BY DEF LookForDuplicate
<1>4. \A q \in Rules : q < r => \E i \in DOMAIN notified : notified[i].rule = q
  BY <1>1, <1>2, RulesAre DEF NotifyInv, NotifyTyped, RulesPassed, EmissionRuns, EmissionOver
<1>5. PICK to : to = IF \E i \in DOMAIN notified : Answers(i, r) THEN NextRule(e)
                     ELSE [emission[e] EXCEPT !.step = "delivering"]
  OBVIOUS
<1>6. MoveEmission(e, to)
  BY <1>1, <1>5 DEF LookForDuplicate, Answers
<1>7. /\ to \in EmissionState /\ to.step \in {"returned", "looking", "delivering"}
      /\ to.step = "delivering" => to.rule = r /\ \A i \in DOMAIN notified : ~Answers(i, r)
      /\ to.step # "delivering" =>
            /\ \E i \in DOMAIN notified : Answers(i, r)
            /\ to.step = "returned" => \A q \in Rules : q <= r
            /\ to.step = "looking" => to.rule = r + 1
  <2>1. CASE \E i \in DOMAIN notified : Answers(i, r)
    BY <1>1, <1>5, <2>1, NextRuleFacts
  <2>2. CASE ~\E i \in DOMAIN notified : Answers(i, r)
    BY <1>1, <1>2, <1>5, <2>2 DEF EmissionState, EmissionOver
  <2> QED
    BY <2>1, <2>2
<1>8. /\ emission' \in [Emissions -> EmissionState] /\ emission'[e] = to
      /\ \A f \in Emissions : f # e => emission'[f] = emission[f]
      /\ \A f \in Emissions : /\ emission'[f].step = "recording" => emission'[f].state # "none"
                              /\ emission'[f].step = "start" => emission'[f].rule = 1
      /\ emitOverlap' \in BOOLEAN
      /\ ~emitOverlap' => /\ ~emitOverlap /\ OneAtATime'
                          /\ \A f \in Emissions : f # e => ~EmissionRuns(f) /\ ~EmissionRuns(f)'
  <2>1. to.step \notin {"recording", "start"}
    BY <1>7
  <2> QED
    BY <1>6, <1>7, <2>1, MoveFacts
<1>9. NotifyTyped'
  BY <1>3, <1>8 DEF NotifyInv, NotifyTyped
<1>10. RulesPassed'
  <2>1. \A q \in Rules : to.step = "returned" \/ (to.step # "returned" /\ q < to.rule) =>
          \E i \in DOMAIN notified : notified[i].rule = q
    BY <1>2, <1>4, <1>7, RulesAre DEF Answers
  <2> QED
    BY <1>3, <1>8, <2>1 DEF NotifyInv, RulesPassed, EmissionRuns
<1>11. ~emitOverlap' => NotAnsweredYet'
  BY <1>3, <1>7, <1>8 DEF NotAnsweredYet, EmissionRuns, EmissionOver, Answers
<1>12. ~emitOverlap' => OneAnswer' /\ DeliveriesStand'
  <2> SUFFICES ASSUME ~emitOverlap' PROVE OneAnswer' /\ DeliveriesStand'
    OBVIOUS
  <2>1. OneAnswer'
    BY <1>3, <1>8 DEF NotifyInv, OneAnswer, Answers
  <2>2. \A r1 \in Rules, f \in Emissions :
          emission[f] = [step |-> "recording", rule |-> r1, state |-> "sent"] => emission'[f] = emission[f]
    BY <1>2, <1>8
  <2>3. DeliveriesStand'
    BY <1>3, <1>8, <2>2 DEF NotifyInv, DeliveriesStand, Answers
  <2> QED
    BY <2>1, <2>3
<1> QED
  BY <1>3, <1>8, <1>9, <1>10, <1>11, <1>12 DEF NotifyInv, InAppStays

LEMMA DeliverInv ==
    ASSUME NotifyInv, NEW e \in Emissions, NEW state \in NotificationState,
           NEW reached \in BOOLEAN, Deliver(e, state, reached)
    PROVE  NotifyInv'
<1>1. PICK r : r = emission[e].rule
  OBVIOUS
<1>2. r \in Rules /\ emission[e] \in EmissionState /\ emission[e].step = "delivering"
  BY <1>1 DEF NotifyInv, NotifyTyped, EmissionState, Deliver
<1>3. /\ notified' = notified
      /\ state = "queued" => ~reached
      /\ \A q \in Rules : q # r => delivered'[q] = delivered[q]
      /\ delivered'[r] = delivered[r] + IF reached THEN 1 ELSE 0
      /\ delivered' \in [Rules -> Nat]
      /\ unrecorded' = IF reached /\ state = "failed" THEN unrecorded \cup {r} ELSE unrecorded
  BY <1>1, <1>2 DEF Deliver, NotifyInv, NotifyTyped
<1>4. PICK to : to = [emission[e] EXCEPT !.step = "recording", !.state = state]
  OBVIOUS
<1>5. to = [step |-> "recording", rule |-> r, state |-> state] /\ to \in EmissionState
  BY <1>1, <1>2, <1>4 DEF EmissionState
<1>6. MoveEmission(e, to) /\ to.step = "recording" /\ to.rule = r /\ to.state = state /\ state # "none"
  <2>1. MoveEmission(e, to)
    BY <1>4 DEF Deliver
  <2> QED
    BY <1>5, <2>1 DEF NotificationState
<1>7. /\ emission' \in [Emissions -> EmissionState] /\ emission'[e] = to
      /\ \A f \in Emissions : f # e => emission'[f] = emission[f]
      /\ \A f \in Emissions : /\ emission'[f].step = "recording" => emission'[f].state # "none"
                              /\ emission'[f].step = "start" => emission'[f].rule = 1
      /\ emitOverlap' \in BOOLEAN
      /\ ~emitOverlap' => /\ ~emitOverlap /\ OneAtATime'
                          /\ \A f \in Emissions : f # e => ~EmissionRuns(f) /\ ~EmissionRuns(f)'
  BY <1>5, <1>6, MoveFacts
<1>8. NotifyTyped'
  BY <1>2, <1>3, <1>7 DEF NotifyInv, NotifyTyped
<1>9. RulesPassed'
  BY <1>1, <1>2, <1>3, <1>6, <1>7 DEF NotifyInv, RulesPassed, EmissionRuns, EmissionOver
<1>10. ~emitOverlap => \A i \in DOMAIN notified : ~Answers(i, r)
  BY <1>1, <1>2 DEF NotifyInv, NotAnsweredYet
<1>11. ~emitOverlap' => NotAnsweredYet'
  BY <1>3, <1>6, <1>7, <1>10 DEF NotAnsweredYet, EmissionRuns, EmissionOver, Answers
<1>12. ~emitOverlap' => OneAnswer' /\ DeliveriesStand'
  <2> SUFFICES ASSUME ~emitOverlap' PROVE OneAnswer' /\ DeliveriesStand'
    OBVIOUS
  <2>1. OneAnswer'
    BY <1>3, <1>7 DEF NotifyInv, OneAnswer, Answers
  <2>2. \A f \in Emissions, q \in Rules : emission[f] # [step |-> "recording", rule |-> q, state |-> "sent"]
    BY <1>2, <1>7 DEF EmissionRuns, EmissionOver
  <2>3. r \notin unrecorded => delivered[r] = 0
    BY <1>2, <1>7, <1>10, <2>2 DEF NotifyInv, DeliveriesStand
  <2>4. r \notin unrecorded' =>
          delivered'[r] <= 1 /\ (delivered'[r] = 0 \/ emission'[e] = [step |-> "recording", rule |-> r, state |-> "sent"])
    BY <1>3, <1>5, <1>7, <2>3 DEF NotificationState
  <2>5. \A q \in Rules \ unrecorded' : q # r =>
          delivered'[q] <= 1 /\ (delivered'[q] = 0 \/ \E i \in DOMAIN notified : Answers(i, q))
    <3> SUFFICES ASSUME NEW q \in Rules, q \notin unrecorded', q # r
                 PROVE  delivered'[q] <= 1 /\ (delivered'[q] = 0 \/ \E i \in DOMAIN notified : Answers(i, q))
      OBVIOUS
    <3>1. q \in Rules \ unrecorded
      BY <1>3
    <3>2. \A f \in Emissions : emission[f] # [step |-> "recording", rule |-> q, state |-> "sent"]
      BY <2>2
    <3>3. delivered[q] <= 1 /\ (delivered[q] = 0 \/ \E i \in DOMAIN notified : Answers(i, q))
      BY <1>7, <3>1, <3>2 DEF NotifyInv, DeliveriesStand
    <3> QED
      BY <1>3, <3>3
  <2>6. DeliveriesStand'
    BY <1>3, <2>4, <2>5 DEF DeliveriesStand, Answers
  <2> QED
    BY <2>1, <2>6
<1>13. InAppStays'
  <2>1. RuleChannels[r] = "in_app" => ~reached
    BY <1>1 DEF Deliver
  <2> QED
    BY <1>2, <1>3, <2>1 DEF NotifyInv, NotifyTyped, InAppStays
<1> QED
  BY <1>7, <1>8, <1>9, <1>11, <1>12, <1>13 DEF NotifyInv

\* The row is written; what follows may throw.
LEMMA RecordNotificationInv ==
    ASSUME NotifyInv, NEW e \in Emissions, NEW throws \in BOOLEAN, RecordNotification(e, throws)
    PROVE  NotifyInv'
<1>1. PICK r, state : r = emission[e].rule /\ state = emission[e].state
  OBVIOUS
<1>2. /\ r \in Rules /\ emission[e] \in EmissionState /\ emission[e].step = "recording"
      /\ state \in NotificationState
  BY <1>1 DEF NotifyInv, NotifyTyped, EmissionState, NotificationState, RecordNotification
<1>3. PICK n : n = Len(notified) + 1
  OBVIOUS
<1>4. /\ notified' \in Seq(NotificationRow)
      /\ DOMAIN notified' = DOMAIN notified \cup {n} /\ n \notin DOMAIN notified
      /\ notified'[n] = [rule |-> r, state |-> state]
      /\ \A i \in DOMAIN notified : notified'[i] = notified[i]
  <2>1. notified' = Append(notified, [rule |-> r, state |-> state])
    BY <1>1 DEF RecordNotification
  <2>2. notified \in Seq(NotificationRow) /\ [rule |-> r, state |-> state] \in NotificationRow
    BY <1>2 DEF NotifyInv, NotifyTyped, NotificationRow
  <2> QED
    BY <1>3, <2>1, <2>2
<1>5. UNCHANGED <<delivered, unrecorded>>
  BY DEF RecordNotification
<1>6. PICK to : to = IF throws THEN [step |-> "rejected", rule |-> 1, state |-> "none"] ELSE NextRule(e)
  OBVIOUS
<1>7. /\ to \in EmissionState /\ to.step \in {"returned", "looking", "rejected"}
      /\ to.step = "returned" => \A q \in Rules : q <= r
      /\ to.step = "looking" => to.rule = r + 1
  <2>1. CASE throws
    BY <1>6, <2>1, RulesAre DEF EmissionState, EmissionOver
  <2>2. CASE ~throws
    BY <1>1, <1>6, <2>2, NextRuleFacts
  <2> QED
    BY <2>1, <2>2
<1>8. /\ emission' \in [Emissions -> EmissionState] /\ emission'[e] = to
      /\ \A f \in Emissions : f # e => emission'[f] = emission[f]
      /\ \A f \in Emissions : /\ emission'[f].step = "recording" => emission'[f].state # "none"
                              /\ emission'[f].step = "start" => emission'[f].rule = 1
      /\ emitOverlap' \in BOOLEAN
      /\ ~emitOverlap' => /\ ~emitOverlap /\ OneAtATime'
                          /\ \A f \in Emissions : f # e => ~EmissionRuns(f) /\ ~EmissionRuns(f)'
  <2>1. to.step \notin {"recording", "start"}
    BY <1>7
  <2>2. MoveEmission(e, to)
    BY <1>6 DEF RecordNotification
  <2> QED
    BY <1>7, <2>1, <2>2, MoveFacts
<1>9. NotifyTyped'
  BY <1>4, <1>5, <1>8 DEF NotifyInv, NotifyTyped
<1>10. RulesPassed'
  <2>1. \A q \in Rules : q < r => \E i \in DOMAIN notified : notified[i].rule = q
    BY <1>1, <1>2 DEF NotifyInv, RulesPassed, EmissionRuns, EmissionOver
  <2>2. \A q \in Rules : q < r \/ q = r => \E i \in DOMAIN notified' : notified'[i].rule = q
    BY <1>4, <2>1
  <2>3. \A q \in Rules : to.step = "returned" \/ (to.step = "looking" /\ q < to.rule) => q < r \/ q = r
    BY <1>2, <1>7, RulesAre
  <2>4. \A q \in Rules : to.step = "returned" \/ (to.step \notin EmissionOver /\ q < to.rule) =>
          \E i \in DOMAIN notified' : notified'[i].rule = q
    BY <1>7, <2>2, <2>3 DEF EmissionOver
  <2>5. \A f \in Emissions, q \in Rules :
          f # e /\ (emission[f].step = "returned" \/ (EmissionRuns(f) /\ q < emission[f].rule)) =>
            \E i \in DOMAIN notified' : notified'[i].rule = q
    BY <1>4 DEF NotifyInv, RulesPassed
  <2> QED
    BY <1>8, <2>4, <2>5 DEF RulesPassed, EmissionRuns
<1>11. ~emitOverlap => \A i \in DOMAIN notified : ~Answers(i, r)
  BY <1>1, <1>2 DEF NotifyInv, NotAnsweredYet
<1>12. ~emitOverlap' => NotAnsweredYet'
  BY <1>7, <1>8 DEF NotAnsweredYet, EmissionRuns, EmissionOver
<1>13. ~emitOverlap' => OneAnswer' /\ DeliveriesStand'
  <2> SUFFICES ASSUME ~emitOverlap' PROVE OneAnswer' /\ DeliveriesStand'
    OBVIOUS
  <2>1. \A q \in Rules, i \in DOMAIN notified : Answers(i, q)' <=> Answers(i, q)
    BY <1>4 DEF Answers
  <2>2. \A q \in Rules : Answers(n, q)' <=> q = r /\ state # "failed"
    BY <1>4 DEF Answers
  <2>3. OneAnswer'
    BY <1>4, <1>8, <1>11, <2>1, <2>2 DEF NotifyInv, OneAnswer
  <2>4. ASSUME NEW q \in Rules \ unrecorded
        PROVE  /\ delivered[q] <= 1
               /\ \/ delivered[q] = 0
                  \/ \E i \in DOMAIN notified : Answers(i, q)
                  \/ q = r /\ state = "sent"
    <3>1. \A f \in Emissions : emission[f] = [step |-> "recording", rule |-> q, state |-> "sent"] =>
            q = r /\ state = "sent"
      BY <1>1, <1>2, <1>8 DEF EmissionRuns, EmissionOver
    <3> QED
      BY <1>8, <3>1 DEF NotifyInv, DeliveriesStand
  <2>5. DeliveriesStand'
    BY <1>4, <1>5, <2>1, <2>2, <2>4 DEF DeliveriesStand
  <2> QED
    BY <2>3, <2>5
<1> QED
  BY <1>5, <1>8, <1>9, <1>10, <1>12, <1>13 DEF NotifyInv, InAppStays

\* The row is lost: a message that left goes unrecorded. Nothing leaves for "in_app".
LEMMA RecordFailsInv ==
    ASSUME NotifyInv, NEW e \in Emissions, RecordFails(e)
    PROVE  NotifyInv'
<1>1. PICK r, state : r = emission[e].rule /\ state = emission[e].state
  OBVIOUS
<1>2. r \in Rules /\ emission[e] \in EmissionState /\ emission[e].step = "recording"
  BY <1>1 DEF NotifyInv, NotifyTyped, EmissionState, RecordFails
<1>3. /\ UNCHANGED <<notified, delivered>>
      /\ unrecorded' = IF state = "sent" /\ RuleChannels[r] # "in_app" THEN unrecorded \cup {r} ELSE unrecorded
  BY <1>1 DEF RecordFails
<1>4. PICK to : to = [step |-> "rejected", rule |-> 1, state |-> "none"]
  OBVIOUS
<1>5. to \in EmissionState /\ to.step = "rejected"
  BY <1>4, RulesAre DEF EmissionState, EmissionOver
<1>6. /\ emission' \in [Emissions -> EmissionState] /\ emission'[e] = to
      /\ \A f \in Emissions : f # e => emission'[f] = emission[f]
      /\ \A f \in Emissions : /\ emission'[f].step = "recording" => emission'[f].state # "none"
                              /\ emission'[f].step = "start" => emission'[f].rule = 1
      /\ emitOverlap' \in BOOLEAN
      /\ ~emitOverlap' => /\ ~emitOverlap /\ OneAtATime'
                          /\ \A f \in Emissions : f # e => ~EmissionRuns(f) /\ ~EmissionRuns(f)'
  <2>1. to.step \notin {"recording", "start"}
    BY <1>5
  <2>2. MoveEmission(e, to)
    BY <1>4 DEF RecordFails
  <2> QED
    BY <1>5, <2>1, <2>2, MoveFacts
<1>7. NotifyTyped'
  BY <1>2, <1>3, <1>6 DEF NotifyInv, NotifyTyped
<1>8. RulesPassed'
  BY <1>3, <1>5, <1>6 DEF NotifyInv, RulesPassed, EmissionRuns, EmissionOver
<1>9. ~emitOverlap' => NotAnsweredYet' /\ OneAnswer'
  BY <1>3, <1>5, <1>6 DEF NotifyInv, NotAnsweredYet, OneAnswer, EmissionRuns, EmissionOver, Answers
<1>10. ~emitOverlap' => DeliveriesStand'
  <2> SUFFICES ASSUME ~emitOverlap', NEW q \in Rules, q \notin unrecorded'
               PROVE  /\ delivered[q] <= 1
                      /\ delivered[q] = 0 \/ \E i \in DOMAIN notified : Answers(i, q)
    BY <1>3 DEF DeliveriesStand, Answers
  <2>1. /\ delivered[q] <= 1
        /\ \/ delivered[q] = 0
           \/ \E i \in DOMAIN notified : Answers(i, q)
           \/ q = r /\ state = "sent"
    <3>1. \A f \in Emissions : emission[f] = [step |-> "recording", rule |-> q, state |-> "sent"] =>
            q = r /\ state = "sent"
      BY <1>1, <1>2, <1>6 DEF EmissionRuns, EmissionOver
    <3>2. q \in Rules \ unrecorded
      BY <1>3
    <3> QED
      BY <1>6, <3>1, <3>2 DEF NotifyInv, DeliveriesStand
  <2>2. q = r /\ state = "sent" => RuleChannels[r] = "in_app"
    BY <1>3
  <2> QED
    BY <2>1, <2>2 DEF NotifyInv, InAppStays
<1> QED
  BY <1>3, <1>6, <1>7, <1>8, <1>9, <1>10 DEF NotifyInv, InAppStays

LEMMA NotifyNextInv == NotifyInv /\ [NotifyNext]_notifyVars => NotifyInv'
<1> SUFFICES ASSUME NotifyInv, [NotifyNext]_notifyVars PROVE NotifyInv'
  OBVIOUS
<1>1. CASE NotifyNext
  BY <1>1, LookForDuplicateInv, DeliverInv, RecordNotificationInv, RecordFailsInv
     DEF NotifyNext, NotificationState
<1>2. CASE UNCHANGED notifyVars
  BY <1>2 DEF notifyVars, NotifyInv, NotifyTyped, InAppStays, OneAtATime, NotAnsweredYet, OneAnswer,
              DeliveriesStand, RulesPassed, EmissionRuns, Answers
<1> QED
  BY <1>1, <1>2

\* A set whose members are all the same has at most one.
LEMMA AtMostOneMember ==
    ASSUME NEW S, \A x, y \in S : x = y
    PROVE  Cardinality(S) <= 1
<1>1. CASE S = {}
  BY <1>1, FS_EmptySet
<1>2. CASE S # {}
  <2> PICK x : S = {x}
    BY <1>2
  <2> QED
    BY FS_Singleton
<1> QED
  BY <1>1, <1>2

\* Whatever emissions of an event there are, however they interleave and whichever of
\* their steps fail: unless two overlapped, a rule's destination gets the event at most
\* once and one row that did not fail stands for it, save for deliveries that went
\* unrecorded or were reported as failed; and an emission that returned leaves a row for
\* every matching rule.
THEOREM RulesAnsweredOnce == NotifySpec => []EachRuleAnsweredOnce
<1>1. NotifySpec => []NotifyInv
  BY NotifyInitInv, NotifyNextInv, PTL DEF NotifySpec
<1>2. NotifyInv => EachRuleAnsweredOnce
  <2> SUFFICES ASSUME NotifyInv PROVE EachRuleAnsweredOnce
    OBVIOUS
  <2>1. ASSUME ~emitOverlap, NEW r \in Rules
        PROVE  Cardinality({i \in DOMAIN notified : notified[i].rule = r /\ notified[i].state # "failed"}) <= 1
    BY <2>1, AtMostOneMember DEF NotifyInv, OneAnswer, Answers
  <2>2. ~emitOverlap => \A r \in Rules : r \notin unrecorded => delivered[r] <= 1
    BY DEF NotifyInv, DeliveriesStand
  <2>3. ASSUME NEW e \in Emissions, emission[e].step = "returned", NEW r \in Rules
        PROVE  \E i \in DOMAIN notified : notified[i].rule = r
    <3>1. RulesPassed
      BY DEF NotifyInv
    <3> QED
      BY <2>3, <3>1 DEF RulesPassed
  <2> QED
    BY <2>1, <2>2, <2>3 DEF EachRuleAnsweredOnce
<1> QED
  BY <1>1, <1>2, PTL

LEMMA NotificationsAreTyped == NotifyInv => NotifyTypeOK
<1> SUFFICES ASSUME NotifyInv PROVE NotifyTypeOK
  OBVIOUS
<1>1. \A i \in DOMAIN notified : notified[i].rule \in Rules /\ notified[i].state \in NotificationState
  <2>1. \A i \in DOMAIN notified : notified[i] \in NotificationRow
    BY DEF NotifyInv, NotifyTyped
  <2> QED
    BY <2>1 DEF NotificationRow
<1>2. \A e \in Emissions : /\ emission[e].step \in EmissionOver \cup {"looking", "delivering", "recording"}
                           /\ emission[e].rule \in Rules
  BY DEF NotifyInv, NotifyTyped, EmissionState
<1> QED
  BY <1>1, <1>2 DEF NotifyInv, NotifyTyped, NotifyTypeOK, NotificationState

\* The notification engine keeps its types.
THEOREM NotifyTypeCorrect == NotifySpec => []NotifyTypeOK
<1>1. NotifyInv => NotifyTypeOK
  BY NotificationsAreTyped
<1> QED
  BY <1>1, NotifyInitInv, NotifyNextInv, PTL DEF NotifySpec

-----------------------------------------------------------------------------
\* Uploads and inbound webhooks.

UploadState ==
    [step: UploadOver \cup {"batching", "storing", "inserting", "auditing"},
     checksum: Checksums, force: BOOLEAN, asset: Nat \cup {NoAsset}]

AssetRow == [checksum: Checksums, batch: Uploads, blob: Uploads]

UploadTyped ==
    /\ rawAssets \in Seq(AssetRow)
    /\ batches \subseteq Uploads /\ blobs \subseteq Uploads
    /\ uploading \in [Uploads -> UploadState]
    /\ uploadOverlap \subseteq Checksums

\* An asset is the one row of the upload that brought its bytes in.
AssetsAreWhole ==
    /\ \A i \in DOMAIN rawAssets :
         LET u == rawAssets[i].batch IN
         /\ rawAssets[i].blob = u /\ u \in batches \cap blobs
         /\ rawAssets[i].checksum = uploading[u].checksum
         /\ uploading[u].step \in {"auditing", "returned", "rejected"}
    /\ \A i, j \in DOMAIN rawAssets : rawAssets[i].batch = rawAssets[j].batch => i = j

\* What an upload has left behind so far, and the asset it is about to return.
UploadsKeepTrack ==
    \A u \in Uploads :
      /\ uploading[u].step \in {"storing", "inserting"} => u \in batches
      /\ uploading[u].step = "inserting" => u \in blobs
      /\ uploading[u].step \in {"auditing", "returned"} =>
           /\ uploading[u].asset \in DOMAIN rawAssets
           /\ rawAssets[uploading[u].asset].checksum = uploading[u].checksum
      /\ u \in batches => \/ uploading[u].step \in {"storing", "inserting", "rejected"}
                          \/ \E i \in DOMAIN rawAssets : rawAssets[i].batch = u

Uploading(u) == uploading[u].step \notin UploadOver

\* While uploads of the same bytes do not overlap, an unforced one that goes on to store
\* them found no asset, and there still is none.
ContentIsOnce ==
    \A k \in Checksums \ uploadOverlap :
      /\ \A u, v \in Uploads :
           /\ Uploading(u) /\ uploading[u].checksum = k
           /\ Uploading(v) /\ uploading[v].checksum = k
           => u = v
      /\ \A u \in Uploads :
           /\ uploading[u].step \in {"batching", "storing", "inserting"}
           /\ uploading[u].checksum = k /\ ~uploading[u].force
           => AssetsOf(k) = {}
      /\ \A i, j \in AssetsOf(k) :
           ~uploading[rawAssets[i].batch].force /\ ~uploading[rawAssets[j].batch].force => i = j

UploadInv == UploadTyped /\ AssetsAreWhole /\ UploadsKeepTrack /\ ContentIsOnce

WebhookStatus == {"none", "received", "ignored", "processed", "failed"}

WebhookInv ==
    /\ webhookRow \in [Webhooks -> WebhookStatus]
    /\ webhookStep \in [Webhooks -> {"start", "received", "settled", "returned", "rejected"}]
    /\ \A w \in Webhooks : webhookStep[w] \in {"settled", "returned"} =>
         webhookRow[w] \in {"ignored", "processed", "failed"}

IngestInv == UploadInv /\ WebhookInv

LEMMA IngestInitInv == IngestInit => IngestInv
<1> SUFFICES ASSUME IngestInit PROVE IngestInv
  OBVIOUS
<1>1. rawAssets = << >> /\ batches = {} /\ blobs = {} /\ uploadOverlap = {}
  BY DEF IngestInit
<1>2. uploading \in [Uploads -> UploadState] /\ \A u \in Uploads : uploading[u].step = "start"
  BY DEF IngestInit, UploadState, UploadOver
<1>3. UploadTyped
  BY <1>1, <1>2 DEF UploadTyped
<1>4. AssetsAreWhole /\ UploadsKeepTrack /\ ContentIsOnce
  BY <1>1, <1>2 DEF AssetsAreWhole, UploadsKeepTrack, ContentIsOnce, Uploading, UploadOver, AssetsOf
<1>5. WebhookInv
  BY DEF IngestInit, WebhookInv, WebhookStatus
<1> QED
  BY <1>3, <1>4, <1>5 DEF IngestInv, UploadInv

LEMMA AssetRows ==
    ASSUME UploadInv
    PROVE  \A i \in DOMAIN rawAssets : rawAssets[i] \in AssetRow /\ rawAssets[i].batch \in Uploads
<1>1. \A i \in DOMAIN rawAssets : rawAssets[i] \in AssetRow
  BY DEF UploadInv, UploadTyped
<1> QED
  BY <1>1 DEF AssetRow

\* A step of u to another step, with the asset it holds from then on. As long as k has not
\* overlapped, no other upload of k was under way.
LEMMA MoveUploadFacts ==
    ASSUME UploadInv, NEW u \in Uploads, NEW step, NEW asset, MoveUpload(u, step, asset),
           step \in {"batching", "storing", "inserting", "auditing", "returned", "rejected"},
           asset \in Nat \cup {NoAsset}
    PROVE  /\ uploading' \in [Uploads -> UploadState]
           /\ uploading'[u].step = step /\ uploading'[u].asset = asset
           /\ \A v \in Uploads : v # u => uploading'[v] = uploading[v]
           /\ \A v \in Uploads : uploading'[v].checksum = uploading[v].checksum /\ uploading'[v].force = uploading[v].force
           /\ uploadOverlap' \subseteq Checksums /\ uploadOverlap \subseteq uploadOverlap'
           /\ \A v \in Uploads : /\ v # u /\ uploading[v].checksum = uploading[u].checksum
                                 /\ uploading[u].checksum \notin uploadOverlap'
                                 => ~Uploading(v)
           /\ UNCHANGED webhookVars
<1>1. uploading[u] \in UploadState /\ uploading \in [Uploads -> UploadState]
  BY DEF UploadInv, UploadTyped
<1>2. uploading' = [uploading EXCEPT ![u] = [uploading[u] EXCEPT !.step = step, !.asset = asset]]
  BY <1>1 DEF MoveUpload, UploadState
<1>3. PICK n : n = [uploading[u] EXCEPT !.step = step, !.asset = asset]
  OBVIOUS
<1>4. /\ n \in UploadState /\ n.step = step /\ n.asset = asset
      /\ n.checksum = uploading[u].checksum /\ n.force = uploading[u].force
  BY <1>1, <1>3 DEF UploadState, UploadOver
<1>5. uploading' = [uploading EXCEPT ![u] = n]
  BY <1>2, <1>3
<1>6. uploading[u].checksum \in Checksums
  BY <1>1 DEF UploadState
<1>7. uploadOverlap' \subseteq Checksums /\ uploadOverlap \subseteq uploadOverlap'
  BY <1>6 DEF MoveUpload, UploadInv, UploadTyped
<1>8. \A v \in Uploads : /\ v # u /\ uploading[v].checksum = uploading[u].checksum
                         /\ uploading[u].checksum \notin uploadOverlap'
                         => ~Uploading(v)
  BY <1>6 DEF MoveUpload, Uploading
<1> QED
  BY <1>1, <1>4, <1>5, <1>7, <1>8, ZenonT(60) DEF MoveUpload

\* Uploads of the same bytes after a step of u that leaves the assets alone.
LEMMA ContentStaysOnce ==
    ASSUME UploadInv, NEW u \in Uploads, NEW step, NEW asset, MoveUpload(u, step, asset),
           step \in {"batching", "storing", "inserting", "auditing", "returned", "rejected"},
           asset \in Nat \cup {NoAsset}, UNCHANGED rawAssets,
           \/ step \in {"auditing", "returned", "rejected"}
           \/ uploading[u].step \in {"batching", "storing", "inserting"}
           \/ uploading[u].force \/ AssetsOf(uploading[u].checksum) = {}
    PROVE  ContentIsOnce'
<1>1. /\ uploading' \in [Uploads -> UploadState]
      /\ uploading'[u].step = step /\ uploading'[u].asset = asset
      /\ \A v \in Uploads : v # u => uploading'[v] = uploading[v]
      /\ \A v \in Uploads : uploading'[v].checksum = uploading[v].checksum /\ uploading'[v].force = uploading[v].force
      /\ uploadOverlap \subseteq uploadOverlap'
      /\ \A v \in Uploads : /\ v # u /\ uploading[v].checksum = uploading[u].checksum
                            /\ uploading[u].checksum \notin uploadOverlap'
                            => ~Uploading(v)
  BY MoveUploadFacts
<1> SUFFICES ASSUME NEW k \in Checksums, k \notin uploadOverlap'
             PROVE  /\ \A x, y \in Uploads :
                         /\ Uploading(x)' /\ uploading'[x].checksum = k
                         /\ Uploading(y)' /\ uploading'[y].checksum = k
                         => x = y
                    /\ \A x \in Uploads :
                         /\ uploading'[x].step \in {"batching", "storing", "inserting"}
                         /\ uploading'[x].checksum = k /\ ~uploading'[x].force
                         => AssetsOf(k)' = {}
                    /\ \A i, j \in AssetsOf(k)' :
                         /\ ~uploading'[rawAssets'[i].batch].force
                         /\ ~uploading'[rawAssets'[j].batch].force
                         => i = j
  BY DEF ContentIsOnce
<1>2. k \in Checksums \ uploadOverlap /\ AssetsOf(k)' = AssetsOf(k)
  BY <1>1 DEF AssetsOf
<1>3. \A x, y \in Uploads :
        /\ Uploading(x)' /\ uploading'[x].checksum = k
        /\ Uploading(y)' /\ uploading'[y].checksum = k
        => x = y
  BY <1>1, <1>2 DEF UploadInv, ContentIsOnce, Uploading
<1>4. \A x \in Uploads :
        /\ uploading'[x].step \in {"batching", "storing", "inserting"}
        /\ uploading'[x].checksum = k /\ ~uploading'[x].force
        => AssetsOf(k)' = {}
  BY <1>1, <1>2 DEF UploadInv, ContentIsOnce
<1>5. \A i, j \in AssetsOf(k) :
        /\ ~uploading'[rawAssets[i].batch].force
        /\ ~uploading'[rawAssets[j].batch].force
        => i = j
  <2>1. \A i \in AssetsOf(k) : rawAssets[i].batch \in Uploads
    BY AssetRows DEF AssetsOf
  <2> QED
    BY <1>1, <1>2, <2>1 DEF UploadInv, ContentIsOnce
<1> QED
  BY <1>2, <1>3, <1>4, <1>5

LEMMA FindAssetInv ==
    ASSUME UploadInv, NEW u \in Uploads, FindAsset(u)
    PROVE  UploadInv' /\ UNCHANGED webhookVars
<1>1. PICK existing : existing = AssetsOf(uploading[u].checksum)
  OBVIOUS
<1>2. UNCHANGED <<rawAssets, batches, blobs>> /\ uploading[u].step = "start"
  BY DEF FindAsset
<1>3. PICK first : first = CHOOSE i \in existing : \A j \in existing : i <= j
  OBVIOUS
<1>4. existing # {} => first \in existing
  <2>1. existing \subseteq Nat
    BY <1>1 DEF AssetsOf, UploadInv, UploadTyped
  <2> QED
    BY <1>3, <2>1, LeastNatural
<1>5. PICK step, asset :
        /\ MoveUpload(u, step, asset)
        /\ \/ ~uploading[u].force /\ existing # {} /\ step = "auditing" /\ asset = first
           \/ (uploading[u].force \/ existing = {}) /\ step = "batching" /\ asset = NoAsset
  BY <1>1, <1>3 DEF FindAsset
<1>6. asset \in Nat \cup {NoAsset} /\ step \in {"auditing", "batching"}
  BY <1>1, <1>4, <1>5 DEF AssetsOf, UploadInv, UploadTyped
<1>7. /\ uploading' \in [Uploads -> UploadState]
      /\ uploading'[u].step = step /\ uploading'[u].asset = asset
      /\ \A v \in Uploads : v # u => uploading'[v] = uploading[v]
      /\ \A v \in Uploads : uploading'[v].checksum = uploading[v].checksum /\ uploading'[v].force = uploading[v].force
      /\ uploadOverlap' \subseteq Checksums
      /\ UNCHANGED webhookVars
  BY <1>5, <1>6, MoveUploadFacts
<1>8. UploadTyped'
  BY <1>2, <1>7 DEF UploadInv, UploadTyped
<1>9. AssetsAreWhole'
  <2>1. \A i \in DOMAIN rawAssets : rawAssets[i].batch # u
    BY <1>2 DEF UploadInv, AssetsAreWhole
  <2> QED
    BY <1>2, <1>7, <2>1, AssetRows DEF UploadInv, AssetsAreWhole
<1>10. UploadsKeepTrack'
  <2>1. u \notin batches \/ \E i \in DOMAIN rawAssets : rawAssets[i].batch = u
    BY <1>2 DEF UploadInv, UploadsKeepTrack
  <2>2. step = "auditing" => asset \in DOMAIN rawAssets /\ rawAssets[asset].checksum = uploading[u].checksum
    BY <1>1, <1>4, <1>5 DEF AssetsOf
  <2> QED
    BY <1>2, <1>6, <1>7, <2>1, <2>2 DEF UploadInv, UploadsKeepTrack
<1>11. ContentIsOnce'
  BY <1>1, <1>2, <1>5, <1>6, ContentStaysOnce
<1> QED
  BY <1>7, <1>8, <1>9, <1>10, <1>11 DEF UploadInv

LEMMA StoreUploadInv ==
    ASSUME UploadInv, NEW u \in Uploads, InsertBatch(u) \/ WriteBytes(u)
    PROVE  UploadInv' /\ UNCHANGED webhookVars
<1>1. PICK step :
        /\ MoveUpload(u, step, NoAsset) /\ UNCHANGED rawAssets
        /\ \/ /\ uploading[u].step = "batching" /\ step = "storing"
              /\ batches' = batches \cup {u} /\ blobs' = blobs
           \/ /\ uploading[u].step = "storing" /\ step = "inserting"
              /\ batches' = batches /\ blobs' = blobs \cup {u}
  BY DEF InsertBatch, WriteBytes
<1>2. /\ uploading' \in [Uploads -> UploadState]
      /\ uploading'[u].step = step
      /\ \A v \in Uploads : v # u => uploading'[v] = uploading[v]
      /\ \A v \in Uploads : uploading'[v].checksum = uploading[v].checksum /\ uploading'[v].force = uploading[v].force
      /\ uploadOverlap' \subseteq Checksums
      /\ UNCHANGED webhookVars
  <2>1. step \in {"storing", "inserting"}
    BY <1>1
  <2> QED
    BY <1>1, <2>1, MoveUploadFacts
<1>3. UploadTyped'
  BY <1>1, <1>2 DEF UploadInv, UploadTyped
<1>4. AssetsAreWhole'
  <2>1. \A i \in DOMAIN rawAssets : rawAssets[i].batch # u
    BY <1>1 DEF UploadInv, AssetsAreWhole
  <2> QED
    BY <1>1, <1>2, <2>1, AssetRows DEF UploadInv, AssetsAreWhole
<1>5. UploadsKeepTrack'
  BY <1>1, <1>2 DEF UploadInv, UploadsKeepTrack
<1>6. ContentIsOnce'
  <2>1. step \in {"storing", "inserting"} /\ uploading[u].step \in {"batching", "storing", "inserting"}
    BY <1>1
  <2> QED
    BY <1>1, <2>1, ContentStaysOnce
<1> QED
  BY <1>2, <1>3, <1>4, <1>5, <1>6 DEF UploadInv

LEMMA EndUploadInv ==
    ASSUME UploadInv, NEW u \in Uploads, AuditUpload(u) \/ UploadFails(u)
    PROVE  UploadInv' /\ UNCHANGED webhookVars
<1>1. PICK step, asset :
        /\ MoveUpload(u, step, asset) /\ UNCHANGED <<rawAssets, batches, blobs>>
        /\ \/ /\ uploading[u].step = "auditing" /\ step = "returned" /\ asset = uploading[u].asset
           \/ step = "rejected" /\ asset = NoAsset
  BY DEF AuditUpload, UploadFails
<1>2. asset \in Nat \cup {NoAsset} /\ step \in {"returned", "rejected"}
  BY <1>1 DEF UploadInv, UploadTyped, UploadState
<1>3. /\ uploading' \in [Uploads -> UploadState]
      /\ uploading'[u].step = step /\ uploading'[u].asset = asset
      /\ \A v \in Uploads : v # u => uploading'[v] = uploading[v]
      /\ \A v \in Uploads : uploading'[v].checksum = uploading[v].checksum /\ uploading'[v].force = uploading[v].force
      /\ uploadOverlap' \subseteq Checksums
      /\ UNCHANGED webhookVars
  BY <1>1, <1>2, MoveUploadFacts
<1>4. UploadTyped'
  BY <1>1, <1>3 DEF UploadInv, UploadTyped
<1>5. AssetsAreWhole'
  <2>1. \A i \in DOMAIN rawAssets :
          uploading'[rawAssets[i].batch].step \in {"auditing", "returned", "rejected"}
    BY <1>2, <1>3, AssetRows DEF UploadInv, AssetsAreWhole
  <2> QED
    BY <1>1, <1>3, <2>1, AssetRows DEF UploadInv, AssetsAreWhole
<1>6. UploadsKeepTrack'
  BY <1>1, <1>2, <1>3 DEF UploadInv, UploadsKeepTrack
<1>7. ContentIsOnce'
  BY <1>1, <1>2, ContentStaysOnce
<1> QED
  BY <1>3, <1>4, <1>5, <1>6, <1>7 DEF UploadInv

LEMMA InsertAssetInv ==
    ASSUME UploadInv, NEW u \in Uploads, InsertAsset(u)
    PROVE  UploadInv' /\ UNCHANGED webhookVars
<1>1. PICK k, n : k = uploading[u].checksum /\ n = Len(rawAssets) + 1
  OBVIOUS
<1>2. k \in Checksums /\ n \in Nat /\ uploading[u].step = "inserting"
  BY <1>1 DEF UploadInv, UploadTyped, UploadState, InsertAsset
<1>3. /\ rawAssets' \in Seq(AssetRow)
      /\ DOMAIN rawAssets' = DOMAIN rawAssets \cup {n} /\ n \notin DOMAIN rawAssets
      /\ rawAssets'[n] = [checksum |-> k, batch |-> u, blob |-> u]
      /\ \A i \in DOMAIN rawAssets : rawAssets'[i] = rawAssets[i]
  <2>1. rawAssets' = Append(rawAssets, [checksum |-> k, batch |-> u, blob |-> u])
    BY <1>1 DEF InsertAsset
  <2>2. rawAssets \in Seq(AssetRow) /\ [checksum |-> k, batch |-> u, blob |-> u] \in AssetRow
    BY <1>2 DEF UploadInv, UploadTyped, AssetRow
  <2> QED
    BY <1>1, <2>1, <2>2
<1>4. MoveUpload(u, "auditing", n) /\ UNCHANGED <<batches, blobs>>
  BY <1>1 DEF InsertAsset
<1>5. /\ uploading' \in [Uploads -> UploadState]
      /\ uploading'[u].step = "auditing" /\ uploading'[u].asset = n
      /\ \A v \in Uploads : v # u => uploading'[v] = uploading[v]
      /\ \A v \in Uploads : uploading'[v].checksum = uploading[v].checksum /\ uploading'[v].force = uploading[v].force
      /\ uploadOverlap' \subseteq Checksums /\ uploadOverlap \subseteq uploadOverlap'
      /\ \A v \in Uploads : /\ v # u /\ uploading[v].checksum = uploading[u].checksum
                            /\ uploading[u].checksum \notin uploadOverlap'
                            => ~Uploading(v)
      /\ UNCHANGED webhookVars
  BY <1>2, <1>4, MoveUploadFacts
<1>6. UploadTyped'
  BY <1>3, <1>4, <1>5 DEF UploadInv, UploadTyped
<1>7. \A i \in DOMAIN rawAssets : rawAssets[i].batch # u
  BY <1>2 DEF UploadInv, AssetsAreWhole
<1>8. AssetsAreWhole'
  <2>1. u \in batches \cap blobs
    BY <1>2 DEF UploadInv, UploadsKeepTrack
  <2>2. \A i \in DOMAIN rawAssets' :
          LET v == rawAssets'[i].batch IN
          /\ rawAssets'[i].blob = v /\ v \in batches' \cap blobs'
          /\ rawAssets'[i].checksum = uploading'[v].checksum
          /\ uploading'[v].step \in {"auditing", "returned", "rejected"}
    <3>1. ASSUME NEW i \in DOMAIN rawAssets
          PROVE  LET v == rawAssets'[i].batch IN
                 /\ rawAssets'[i].blob = v /\ v \in batches' \cap blobs'
                 /\ rawAssets'[i].checksum = uploading'[v].checksum
                 /\ uploading'[v].step \in {"auditing", "returned", "rejected"}
      BY <1>3, <1>4, <1>5, <1>7, AssetRows DEF UploadInv, AssetsAreWhole
    <3>2. LET v == rawAssets'[n].batch IN
          /\ rawAssets'[n].blob = v /\ v \in batches' \cap blobs'
          /\ rawAssets'[n].checksum = uploading'[v].checksum
          /\ uploading'[v].step \in {"auditing", "returned", "rejected"}
      BY <1>1, <1>3, <1>4, <1>5, <2>1
    <3> QED
      BY <1>3, <3>1, <3>2
  <2>3. \A i, j \in DOMAIN rawAssets' : rawAssets'[i].batch = rawAssets'[j].batch => i = j
    BY <1>3, <1>7 DEF UploadInv, AssetsAreWhole
  <2> QED
    BY <2>2, <2>3 DEF AssetsAreWhole
<1>9. UploadsKeepTrack'
  <2>1. n \in DOMAIN rawAssets' /\ rawAssets'[n].checksum = k /\ rawAssets'[n].batch = u
    BY <1>3
  <2>2. \A v \in Uploads : v \in batches => \/ v = u
                                            \/ uploading[v].step \in {"storing", "inserting", "rejected"}
                                            \/ \E i \in DOMAIN rawAssets' : rawAssets'[i].batch = v
    BY <1>3 DEF UploadInv, UploadsKeepTrack
  <2>3. ASSUME NEW v \in Uploads, v # u
        PROVE  /\ uploading'[v].step \in {"storing", "inserting"} => v \in batches
               /\ uploading'[v].step = "inserting" => v \in blobs
               /\ uploading'[v].step \in {"auditing", "returned"} =>
                    /\ uploading'[v].asset \in DOMAIN rawAssets'
                    /\ rawAssets'[uploading'[v].asset].checksum = uploading'[v].checksum
    BY <1>3, <1>5, <2>3 DEF UploadInv, UploadsKeepTrack
  <2> QED
    BY <1>1, <1>4, <1>5, <2>1, <2>2, <2>3 DEF UploadsKeepTrack
<1>10. ContentIsOnce'
  <2> SUFFICES ASSUME NEW l \in Checksums, l \notin uploadOverlap'
               PROVE  /\ \A x, y \in Uploads :
                           /\ Uploading(x)' /\ uploading'[x].checksum = l
                           /\ Uploading(y)' /\ uploading'[y].checksum = l
                           => x = y
                      /\ \A x \in Uploads :
                           /\ uploading'[x].step \in {"batching", "storing", "inserting"}
                           /\ uploading'[x].checksum = l /\ ~uploading'[x].force
                           => AssetsOf(l)' = {}
                      /\ \A i, j \in AssetsOf(l)' :
                           /\ ~uploading'[rawAssets'[i].batch].force
                           /\ ~uploading'[rawAssets'[j].batch].force
                           => i = j
    BY DEF ContentIsOnce
  <2>1. l \in Checksums \ uploadOverlap
    BY <1>5
  <2>2. AssetsOf(l)' = IF l = k THEN AssetsOf(l) \cup {n} ELSE AssetsOf(l)
    BY <1>3 DEF AssetsOf
  <2>3. \A x, y \in Uploads :
          /\ Uploading(x)' /\ uploading'[x].checksum = l
          /\ Uploading(y)' /\ uploading'[y].checksum = l
          => x = y
    BY <1>5, <2>1 DEF UploadInv, ContentIsOnce, Uploading
  <2>4. ASSUME NEW x \in Uploads, uploading'[x].step \in {"batching", "storing", "inserting"},
               uploading'[x].checksum = l, ~uploading'[x].force
        PROVE  AssetsOf(l)' = {}
    <3>1. x # u /\ uploading'[x] = uploading[x]
      BY <1>5, <2>4
    <3>2. l # k
      BY <1>1, <1>5, <2>4, <3>1 DEF Uploading, UploadOver
    <3> QED
      BY <2>1, <2>2, <2>4, <3>1, <3>2 DEF UploadInv, ContentIsOnce
  <2>5. ASSUME NEW i \in AssetsOf(l)', NEW j \in AssetsOf(l)',
               ~uploading'[rawAssets'[i].batch].force, ~uploading'[rawAssets'[j].batch].force
        PROVE  i = j
    <3>1. \A m \in AssetsOf(l) : /\ rawAssets'[m].batch = rawAssets[m].batch
                                 /\ uploading'[rawAssets[m].batch].force = uploading[rawAssets[m].batch].force
      BY <1>3, <1>5, AssetRows DEF AssetsOf
    <3>2. l = k /\ ~uploading[u].force => AssetsOf(l) = {}
      BY <1>1, <1>2, <2>1 DEF UploadInv, ContentIsOnce
    <3>3. rawAssets'[n].batch = u /\ uploading'[u].force = uploading[u].force
      BY <1>3, <1>5
    <3> QED
      BY <2>1, <2>2, <2>5, <3>1, <3>2, <3>3 DEF UploadInv, ContentIsOnce
  <2> QED
    BY <2>3, <2>4, <2>5
<1> QED
  BY <1>5, <1>6, <1>8, <1>9, <1>10 DEF UploadInv

LEMMA WebhookStepInv ==
    ASSUME WebhookInv, NEW w \in Webhooks,
           StoreWebhook(w) \/ SettleWebhook(w) \/ WebhookFails(w) \/ AuditWebhook(w)
    PROVE  WebhookInv' /\ UNCHANGED uploadVars
<1>1. PICK step, row :
        /\ MoveWebhook(w, step, row)
        /\ \/ step = "received" /\ row = "received"
           \/ step = "settled" /\ row \in {"ignored", "processed", "failed"}
           \/ step = "rejected" /\ row = webhookRow[w]
           \/ step = "returned" /\ row = webhookRow[w] /\ webhookStep[w] = "settled"
  <2>1. CASE StoreWebhook(w)
    BY <2>1 DEF StoreWebhook
  <2>2. CASE SettleWebhook(w)
    BY <2>2 DEF SettleWebhook
  <2>3. CASE WebhookFails(w)
    BY <2>3 DEF WebhookFails
  <2>4. CASE AuditWebhook(w)
    BY <2>4 DEF AuditWebhook
  <2> QED
    BY <2>1, <2>2, <2>3, <2>4
<1>2. /\ step \in {"start", "received", "settled", "returned", "rejected"} /\ row \in WebhookStatus
      /\ step \in {"settled", "returned"} => row \in {"ignored", "processed", "failed"}
  BY <1>1 DEF WebhookInv, WebhookStatus
<1> QED
  BY <1>1, <1>2 DEF WebhookInv, MoveWebhook

\* Uploads and webhooks share no state.
LEMMA UploadsUnchanged == UploadInv /\ UNCHANGED uploadVars => UploadInv'
BY DEF uploadVars, UploadInv, UploadTyped, AssetsAreWhole, UploadsKeepTrack, ContentIsOnce,
       Uploading, AssetsOf

LEMMA WebhooksUnchanged == WebhookInv /\ UNCHANGED webhookVars => WebhookInv'
BY DEF webhookVars, WebhookInv

LEMMA IngestNextInv == IngestInv /\ [IngestNext]_ingestVars => IngestInv'
<1> SUFFICES ASSUME IngestInv, [IngestNext]_ingestVars PROVE IngestInv'
  OBVIOUS
<1>1. ASSUME NEW u \in Uploads,
             \/ FindAsset(u) \/ InsertBatch(u) \/ WriteBytes(u)
             \/ InsertAsset(u) \/ AuditUpload(u) \/ UploadFails(u)
      PROVE  IngestInv'
  BY <1>1, FindAssetInv, StoreUploadInv, InsertAssetInv, EndUploadInv, WebhooksUnchanged DEF IngestInv
<1>2. ASSUME NEW w \in Webhooks,
             StoreWebhook(w) \/ SettleWebhook(w) \/ WebhookFails(w) \/ AuditWebhook(w)
      PROVE  IngestInv'
  BY <1>2, WebhookStepInv, UploadsUnchanged DEF IngestInv
<1>3. CASE UNCHANGED ingestVars
  BY <1>3, UploadsUnchanged, WebhooksUnchanged DEF IngestInv, ingestVars, uploadVars, webhookVars
<1> QED
  BY <1>1, <1>2, <1>3 DEF IngestNext

\* Whatever uploads and webhook calls there are and whichever of their steps fail:
\* unforced uploads of the same bytes share one asset unless two overlapped, a caller gets
\* back a whole asset with its own content, a batch without an asset belongs to an upload
\* under way or rejected, and a returned webhook call left its event settled.
THEOREM IngestionIsSound == IngestSpec => []IngestionAddsUp
<1>1. IngestSpec => []IngestInv
  BY IngestInitInv, IngestNextInv, PTL DEF IngestSpec
<1>2. IngestInv => IngestionAddsUp
  <2> SUFFICES ASSUME IngestInv PROVE IngestionAddsUp
    OBVIOUS
  <2>1. ASSUME NEW k \in Checksums \ uploadOverlap
        PROVE  Cardinality({i \in AssetsOf(k) : ~uploading[rawAssets[i].batch].force}) <= 1
    BY AtMostOneMember DEF IngestInv, UploadInv, ContentIsOnce
  <2>2. ASSUME NEW u \in Uploads, uploading[u].step = "returned"
        PROVE  LET a == uploading[u].asset IN
               /\ a # NoAsset /\ rawAssets[a].checksum = uploading[u].checksum
               /\ rawAssets[a].batch \in batches /\ rawAssets[a].blob \in blobs
    <3>1. uploading[u].asset \in DOMAIN rawAssets
      BY <2>2 DEF IngestInv, UploadInv, UploadsKeepTrack
    <3>2. uploading[u].asset # NoAsset
      BY <3>1, IngestAssumption DEF IngestInv, UploadInv, UploadTyped
    <3> QED
      BY <2>2, <3>1, <3>2 DEF IngestInv, UploadInv, UploadsKeepTrack, AssetsAreWhole
  <2>3. \A u \in batches \ {rawAssets[i].batch : i \in DOMAIN rawAssets} :
          uploading[u].step \in {"storing", "inserting", "rejected"}
    BY DEF IngestInv, UploadInv, UploadTyped, UploadsKeepTrack
  <2>4. \A w \in Webhooks :
          webhookStep[w] = "returned" => webhookRow[w] \in {"ignored", "processed", "failed"}
    BY DEF IngestInv, WebhookInv
  <2> QED
    BY <2>1, <2>2, <2>3, <2>4 DEF IngestionAddsUp
<1> QED
  BY <1>1, <1>2, PTL

\* An upload has an asset to return once it has found or inserted one.
ReturnsLater ==
    \A u \in Uploads : uploading[u].asset = NoAsset \/ uploading[u].step \in {"auditing", "returned"}

LEMMA NothingIsReturnedYet == IngestInit => ReturnsLater
BY DEF IngestInit, ReturnsLater

LEMMA ReturningStaysLater == IngestInv /\ ReturnsLater /\ [IngestNext]_ingestVars => ReturnsLater'
<1> SUFFICES ASSUME IngestInv, ReturnsLater, [IngestNext]_ingestVars PROVE ReturnsLater'
  OBVIOUS
<1>1. \A u \in Uploads : uploading[u] \in UploadState
  BY DEF IngestInv, UploadInv, UploadTyped
<1>2. ASSUME NEW u \in Uploads, NEW step, NEW asset, MoveUpload(u, step, asset),
             asset = NoAsset \/ step \in {"auditing", "returned"}
      PROVE  ReturnsLater'
  BY <1>1, <1>2 DEF MoveUpload, IngestInv, UploadInv, UploadTyped, UploadState, ReturnsLater
<1>3. ASSUME NEW u \in Uploads,
             \/ FindAsset(u) \/ InsertBatch(u) \/ WriteBytes(u)
             \/ InsertAsset(u) \/ AuditUpload(u) \/ UploadFails(u)
      PROVE  ReturnsLater'
  BY <1>2, <1>3 DEF FindAsset, InsertBatch, WriteBytes, InsertAsset, AuditUpload, UploadFails
<1>4. ASSUME NEW w \in Webhooks, StoreWebhook(w) \/ SettleWebhook(w) \/ WebhookFails(w) \/ AuditWebhook(w)
      PROVE  ReturnsLater'
  BY <1>4 DEF StoreWebhook, SettleWebhook, WebhookFails, AuditWebhook, MoveWebhook, uploadVars, ReturnsLater
<1>5. CASE UNCHANGED ingestVars
  BY <1>5 DEF ingestVars, ReturnsLater
<1> QED
  BY <1>3, <1>4, <1>5 DEF IngestNext

LEMMA IngestionIsTyped == IngestInv /\ ReturnsLater => IngestTypeOK
<1> SUFFICES ASSUME IngestInv, ReturnsLater PROVE IngestTypeOK
  OBVIOUS
<1>1. \A i \in DOMAIN rawAssets : rawAssets[i].checksum \in Checksums
  <2>1. \A i \in DOMAIN rawAssets : rawAssets[i] \in AssetRow
    BY DEF IngestInv, UploadInv, UploadTyped
  <2> QED
    BY <2>1 DEF AssetRow
<1>2. \A u \in Uploads : /\ uploading[u].step \in UploadOver \cup {"batching", "storing", "inserting", "auditing"}
                         /\ uploading[u].asset = NoAsset \/ uploading[u].asset \in DOMAIN rawAssets
  BY DEF IngestInv, UploadInv, UploadTyped, UploadState, UploadsKeepTrack, ReturnsLater
<1>3. \A w \in Webhooks :
        /\ webhookRow[w] \in {"none", "received", "ignored", "processed", "failed"}
        /\ webhookStep[w] \in {"start", "received", "settled", "returned", "rejected"}
  BY DEF IngestInv, WebhookInv, WebhookStatus
<1> QED
  BY <1>1, <1>2, <1>3 DEF IngestInv, UploadInv, UploadTyped, IngestTypeOK

\* Ingestion keeps its types: an upload refers to no asset, or to one that is there.
THEOREM IngestTypeCorrect == IngestSpec => []IngestTypeOK
<1>1. IngestInit => ReturnsLater
  BY NothingIsReturnedYet
<1>2. IngestInv /\ ReturnsLater /\ [IngestNext]_ingestVars => ReturnsLater'
  BY ReturningStaysLater
<1>3. IngestInv /\ ReturnsLater => IngestTypeOK
  BY IngestionIsTyped
<1> QED
  BY <1>1, <1>2, <1>3, IngestInitInv, IngestNextInv, PTL DEF IngestSpec

-----------------------------------------------------------------------------
\* The learning loop.

RecorderSteps == {"start", "recorded", "looking", "raising", "returned", "cut"}

LearningTyped ==
    /\ learningRows \in Seq(Recorders)
    /\ recorder \in [Recorders -> RecorderSteps]
    /\ signals \in Seq([key: {Key(observed[r]) : r \in Recorders},
                        status: {"open", "reviewed", "accepted", "rejected", "implemented"},
                        raisedBy: Recorders])
    /\ raced \subseteq DOMAIN signals
    /\ DOMAIN reviewer = Reviewers
    /\ \A v \in Reviewers : DOMAIN reviewer[v] = {"at", "signal", "verdict"}
    /\ \A v \in Reviewers : reviewer[v].at \in {"opening", "deciding"} =>
         reviewer[v].verdict \in {"reviewed", "accepted", "rejected", "implemented"}

\* Every recorder that started has its one row.
RowsAreOwn ==
    /\ \A r \in Recorders : recorder[r] # "start" => \E i \in DOMAIN learningRows : learningRows[i] = r
    /\ \A i, k \in DOMAIN learningRows : learningRows[i] = learningRows[k] => i = k
    /\ \A i \in DOMAIN learningRows : recorder[learningRows[i]] # "start"

\* Whoever looks for a signal to raise has something to report.
OnlyReportableLook ==
    /\ \A r \in Recorders : recorder[r] \in {"looking", "raising"} => Reportable(observed[r], learningRows)
    /\ \A r \in Recorders : recorder[r] = "recorded" =>
         observed[r].severe /\ observed[r].source \in Repeating
    /\ \A s \in DOMAIN signals : Reportable(observed[signals[s].raisedBy], learningRows)

ReportableIsRaised ==
    \A r \in Recorders : recorder[r] = "returned" /\ Reportable(observed[r], UpTo(r)) =>
      \E s \in DOMAIN signals : signals[s].key = Key(observed[r])

\* A signal that is open for what a recorder is about to raise was raised by a rival after
\* it looked.
OpenSignalsRaced ==
    /\ \A r \in Recorders, s \in DOMAIN signals :
         recorder[r] = "raising" /\ IsOpen(signals[s], Key(observed[r])) => s \in raced
    /\ \A s, t \in DOMAIN signals :
         s # t /\ signals[s].key = signals[t].key /\ signals[s].status = "open" /\ signals[t].status = "open"
           => {s, t} \cap raced # {}

LearningInv ==
    LearningTyped /\ RowsAreOwn /\ OnlyReportableLook /\ ReportableIsRaised /\ OpenSignalsRaced

LEMMA LearningInitInv == LearningInit => LearningInv
<1> SUFFICES ASSUME LearningInit PROVE LearningInv
  OBVIOUS
<1>1. learningRows = << >> /\ signals = << >> /\ raced = {}
  BY DEF LearningInit
<1>2. recorder \in [Recorders -> RecorderSteps] /\ \A r \in Recorders : recorder[r] = "start"
  BY DEF LearningInit, RecorderSteps
<1>3. /\ DOMAIN reviewer = Reviewers
      /\ \A v \in Reviewers : reviewer[v].at = "start" /\ DOMAIN reviewer[v] = {"at", "signal", "verdict"}
  BY DEF LearningInit
<1> QED
  BY <1>1, <1>2, <1>3 DEF LearningInv, LearningTyped, RowsAreOwn, OnlyReportableLook,
     ReportableIsRaised, OpenSignalsRaced

\* Rows that are added leave what was reportable reportable, and what a recorder saw as it was.
LEMMA RowsAdded ==
    ASSUME LearningInv, NEW r \in Recorders, learningRows' = Append(learningRows, r), observed' = observed
    PROVE  /\ learningRows' \in Seq(Recorders)
           /\ DOMAIN learningRows' = DOMAIN learningRows \cup {Len(learningRows) + 1}
           /\ Len(learningRows) + 1 \notin DOMAIN learningRows
           /\ learningRows'[Len(learningRows) + 1] = r
           /\ \A i \in DOMAIN learningRows : learningRows'[i] = learningRows[i]
           /\ \A o : Reportable(o, learningRows) => Reportable(o, learningRows)'
<1>1. /\ learningRows' \in Seq(Recorders)
      /\ DOMAIN learningRows' = DOMAIN learningRows \cup {Len(learningRows) + 1}
      /\ Len(learningRows) + 1 \notin DOMAIN learningRows
      /\ learningRows'[Len(learningRows) + 1] = r
      /\ \A i \in DOMAIN learningRows : learningRows'[i] = learningRows[i]
  BY DEF LearningInv, LearningTyped
<1>2. ASSUME NEW o, Reportable(o, learningRows)
      PROVE  Reportable(o, learningRows)'
  <2>1. ASSUME o.source \in Repeating
        PROVE  \E i, k \in DOMAIN learningRows' :
                 i # k /\ Alike(o, observed[learningRows'[i]]) /\ Alike(o, observed[learningRows'[k]])
    <3>1. PICK i, k \in DOMAIN learningRows :
            i # k /\ Alike(o, observed[learningRows[i]]) /\ Alike(o, observed[learningRows[k]])
      BY <1>2, <2>1 DEF Reportable
    <3> QED
      BY <1>1, <3>1
  <2> QED
    BY <1>2, <2>1 DEF Reportable
<1> QED
  BY <1>1, <1>2

LEMMA UpToAdded ==
    ASSUME LearningInv, NEW r \in Recorders, learningRows' = Append(learningRows, r), observed' = observed,
           recorder[r] = "start", NEW q \in Recorders, recorder[q] # "start"
    PROVE  UpTo(q)' = UpTo(q)
<1>1. PICK i \in DOMAIN learningRows : learningRows[i] = q
  BY DEF LearningInv, RowsAreOwn
<1>2. \A k \in DOMAIN learningRows' : learningRows'[k] = q => k = i
  BY <1>1, RowsAdded DEF LearningInv, RowsAreOwn
<1>3. i \in DOMAIN learningRows' /\ learningRows'[i] = q
  BY <1>1, RowsAdded
<1>4. (CHOOSE k \in DOMAIN learningRows' : learningRows'[k] = q) = i
  BY <1>2, <1>3
<1>5. (CHOOSE k \in DOMAIN learningRows : learningRows[k] = q) = i
  BY <1>1 DEF LearningInv, RowsAreOwn
<1>6. SubSeq(learningRows', 1, i) = SubSeq(learningRows, 1, i)
  <2>1. /\ i \in Nat /\ i <= Len(learningRows) /\ i <= Len(learningRows')
        /\ \A k \in 1 .. i : learningRows'[k] = learningRows[k]
    BY <1>1, RowsAdded DEF LearningInv, LearningTyped
  <2> QED
    BY <2>1
<1> QED
  BY <1>4, <1>5, <1>6 DEF UpTo

LEMMA RecordInvariant ==
    ASSUME LearningInv, NEW r \in Recorders, Record(r)
    PROVE  LearningInv'
<1>1. /\ recorder[r] = "start" /\ learningRows' = Append(learningRows, r)
      /\ UNCHANGED <<observed, signals, reviewer, cases, raced>>
  BY DEF Record
<1>2. PICK to : to = IF ~observed[r].severe THEN "returned"
                     ELSE IF observed[r].source \in Repeating THEN "recorded" ELSE "looking"
  OBVIOUS
<1>3. /\ recorder' \in [Recorders -> RecorderSteps] /\ recorder'[r] = to
      /\ \A q \in Recorders : q # r => recorder'[q] = recorder[q]
      /\ to \in {"returned", "recorded", "looking"}
  BY <1>2 DEF Record, Stands, LearningInv, LearningTyped, RecorderSteps
<1>4. LearningTyped'
  BY <1>1, <1>3, RowsAdded DEF LearningInv, LearningTyped
<1>5. RowsAreOwn'
  <2>1. \A i \in DOMAIN learningRows : learningRows[i] \in Recorders /\ learningRows[i] # r
    BY <1>1 DEF LearningInv, LearningTyped, RowsAreOwn
  <2> QED
    BY <1>1, <1>3, <2>1, RowsAdded DEF LearningInv, RowsAreOwn
<1>6. OnlyReportableLook'
  <2>1. to = "looking" => observed[r].severe /\ observed[r].source \notin Repeating
    BY <1>2
  <2>2. to = "looking" => Reportable(observed[r], learningRows)'
    BY <1>1, <2>1 DEF Reportable
  <2>3. to = "recorded" => observed[r].severe /\ observed[r].source \in Repeating
    BY <1>2
  <2> QED
    BY <1>1, <1>3, <2>2, <2>3, RowsAdded DEF LearningInv, OnlyReportableLook
<1>7. ReportableIsRaised'
  <2>1. to = "returned" => ~observed[r].severe
    BY <1>2
  <2>2. ~observed[r].severe => ~Reportable(observed[r], UpTo(r))'
    BY <1>1 DEF Reportable
  <2>3. \A q \in Recorders : recorder[q] # "start" => UpTo(q)' = UpTo(q)
    BY <1>1, UpToAdded
  <2>4. ASSUME NEW q \in Recorders, q # r, recorder'[q] = "returned", Reportable(observed[q], UpTo(q))'
        PROVE  \E s \in DOMAIN signals : signals[s].key = Key(observed[q])
    <3>1. recorder[q] = "returned" /\ Reportable(observed[q], UpTo(q))
      BY <1>1, <1>3, <2>3, <2>4 DEF Reportable
    <3> QED
      BY <3>1 DEF LearningInv, ReportableIsRaised
  <2> QED
    BY <1>1, <1>3, <2>1, <2>2, <2>4 DEF ReportableIsRaised
<1>8. OpenSignalsRaced'
  BY <1>1, <1>3 DEF LearningInv, OpenSignalsRaced
<1> QED
  BY <1>4, <1>5, <1>6, <1>7, <1>8 DEF LearningInv

\* A step of a recorder that writes no row.
LEMMA RecorderMoves ==
    ASSUME LearningInv, NEW r \in Recorders, NEW to \in RecorderSteps \ {"start"}, Stands(r, to),
           recorder[r] # "start"
    PROVE  /\ recorder' \in [Recorders -> RecorderSteps] /\ recorder'[r] = to
           /\ \A q \in Recorders : q # r => recorder'[q] = recorder[q]
           /\ learningRows' = learningRows => RowsAreOwn'
<1>1. /\ recorder' \in [Recorders -> RecorderSteps] /\ recorder'[r] = to
      /\ \A q \in Recorders : q # r => recorder'[q] = recorder[q]
  BY DEF Stands, LearningInv, LearningTyped
<1>2. \A i \in DOMAIN learningRows : learningRows[i] \in Recorders
  BY DEF LearningInv, LearningTyped
<1> QED
  BY <1>1, <1>2 DEF LearningInv, RowsAreOwn

\* Two different members make two.
LEMMA TwoMembers ==
    ASSUME NEW S, IsFiniteSet(S)
    PROVE  Cardinality(S) >= 2 <=> \E x, y \in S : x # y
<1>1. ASSUME NEW x \in S, NEW y \in S, x # y
      PROVE  Cardinality(S) >= 2
  <2>1. Cardinality({x, y}) = 2
    <3>1. {x, y} = {x} \cup {y} /\ y \notin {x}
      BY <1>1
    <3>2. IsFiniteSet({x}) /\ Cardinality({x}) = 1
      BY FS_Singleton
    <3>3. Cardinality({x} \cup {y}) = Cardinality({x}) + 1
      BY <3>1, <3>2, FS_AddElement
    <3> QED
      BY <3>1, <3>2, <3>3
  <2>2. Cardinality({x, y}) <= Cardinality(S)
    BY FS_Subset
  <2> QED
    BY <2>1, <2>2, FS_CardinalityType
<1>2. (\A x, y \in S : x = y) => Cardinality(S) <= 1
  BY AtMostOneMember
<1> QED
  BY <1>1, <1>2, FS_CardinalityType

LEMMA RepeatedMeansTwo ==
    ASSUME LearningInv, NEW o
    PROVE  Repeated(o, learningRows) <=>
             \E i, k \in DOMAIN learningRows :
               i # k /\ Alike(o, observed[learningRows[i]]) /\ Alike(o, observed[learningRows[k]])
<1>1. PICK S : S = {i \in DOMAIN learningRows : Alike(o, observed[learningRows[i]])}
  OBVIOUS
<1>2. IsFiniteSet(S)
  <2>1. PICK n \in Nat : DOMAIN learningRows = 1 .. n
    BY DEF LearningInv, LearningTyped
  <2>2. IsFiniteSet(1 .. n)
    BY FS_Interval
  <2>3. S \in SUBSET (1 .. n)
    BY <1>1, <2>1
  <2> QED
    BY <2>2, <2>3, FS_Subset
<1>3. Repeated(o, learningRows) <=> Cardinality(S) >= 2
  BY <1>1 DEF Repeated, RepeatThreshold
<1> QED
  BY <1>1, <1>2, <1>3, TwoMembers

\* What is repeated among the rows up to r's own is repeated among all.
LEMMA ReportableUpTo ==
    ASSUME LearningInv, NEW r \in Recorders, recorder[r] # "start", Reportable(observed[r], UpTo(r))
    PROVE  Reportable(observed[r], learningRows)
<1>1. PICK n \in DOMAIN learningRows : UpTo(r) = SubSeq(learningRows, 1, n)
  BY DEF LearningInv, RowsAreOwn, UpTo
<1>2. /\ DOMAIN UpTo(r) = 1 .. n /\ 1 .. n \subseteq DOMAIN learningRows
      /\ \A i \in 1 .. n : UpTo(r)[i] = learningRows[i]
  BY <1>1 DEF LearningInv, LearningTyped
<1>3. ASSUME observed[r].source \in Repeating
      PROVE  \E i, k \in DOMAIN learningRows :
               i # k /\ Alike(observed[r], observed[learningRows[i]]) /\ Alike(observed[r], observed[learningRows[k]])
  <2>1. PICK i, k \in DOMAIN UpTo(r) :
          i # k /\ Alike(observed[r], observed[UpTo(r)[i]]) /\ Alike(observed[r], observed[UpTo(r)[k]])
    BY <1>3 DEF Reportable
  <2> QED
    BY <1>2, <2>1
<1> QED
  BY <1>3 DEF Reportable

LEMMA ReportsKept ==
    ASSUME UNCHANGED <<observed, learningRows>>
    PROVE  /\ \A o : Reportable(o, learningRows)' <=> Reportable(o, learningRows)
           /\ \A r : Reportable(observed[r], UpTo(r))' <=> Reportable(observed[r], UpTo(r))
<1>1. \A r : UpTo(r)' = UpTo(r)
  BY DEF UpTo
<1>2. \A o : Reportable(o, learningRows)' <=> Reportable(o, learningRows)
  BY DEF Reportable
<1>3. \A r : Reportable(observed[r], UpTo(r))' <=> Reportable(observed[r], UpTo(r))
  BY <1>1 DEF Reportable
<1> QED
  BY <1>2, <1>3

LEMMA LookBackInv ==
    ASSUME LearningInv, NEW r \in Recorders, LookBack(r)
    PROVE  LearningInv'
<1>1. /\ recorder[r] = "recorded"
      /\ UNCHANGED <<observed, learningRows, signals, reviewer, cases, raced>>
  BY DEF LookBack
<1>2. PICK to : to = IF Repeated(observed[r], learningRows) THEN "looking" ELSE "returned"
  OBVIOUS
<1>3. /\ recorder' \in [Recorders -> RecorderSteps] /\ recorder'[r] = to
      /\ \A q \in Recorders : q # r => recorder'[q] = recorder[q]
      /\ to \in {"looking", "returned"}
      /\ RowsAreOwn'
  <2>1. Stands(r, to) /\ to \in {"looking", "returned"}
    BY <1>2 DEF LookBack
  <2> QED
    BY <1>1, <2>1, RecorderMoves DEF RecorderSteps
<1>4. LearningTyped'
  BY <1>1, <1>3 DEF LearningInv, LearningTyped
<1>5. OnlyReportableLook'
  <2>1. to = "looking" => Reportable(observed[r], learningRows)
    BY <1>1, <1>2, RepeatedMeansTwo DEF Reportable, LearningInv, OnlyReportableLook
  <2> QED
    BY <1>1, <1>3, <2>1 DEF LearningInv, OnlyReportableLook, Reportable
<1>6. ReportableIsRaised'
  <2>1. Reportable(observed[r], UpTo(r)) => \/ Repeated(observed[r], learningRows)
                                            \/ observed[r].source \notin Repeating
    BY <1>1, ReportableUpTo, RepeatedMeansTwo DEF Reportable
  <2>2. observed[r].source \in Repeating
    BY <1>1 DEF LearningInv, OnlyReportableLook
  <2> QED
    BY <1>1, <1>2, <1>3, <2>1, <2>2, ReportsKept DEF LearningInv, ReportableIsRaised
<1>7. OpenSignalsRaced'
  BY <1>1, <1>3 DEF LearningInv, OpenSignalsRaced
<1> QED
  BY <1>3, <1>4, <1>5, <1>6, <1>7 DEF LearningInv

LEMMA FindOpenSignalInv ==
    ASSUME LearningInv, NEW r \in Recorders, FindOpenSignal(r)
    PROVE  LearningInv'
<1>1. /\ recorder[r] = "looking"
      /\ UNCHANGED <<observed, learningRows, signals, reviewer, cases, raced>>
  BY DEF FindOpenSignal
<1>2. PICK to : to = IF \E i \in DOMAIN signals : IsOpen(signals[i], Key(observed[r])) THEN "returned" ELSE "raising"
  OBVIOUS
<1>3. /\ recorder' \in [Recorders -> RecorderSteps] /\ recorder'[r] = to
      /\ \A q \in Recorders : q # r => recorder'[q] = recorder[q]
      /\ to \in {"raising", "returned"}
      /\ RowsAreOwn'
  <2>1. Stands(r, to) /\ to \in {"raising", "returned"}
    BY <1>2 DEF FindOpenSignal
  <2> QED
    BY <1>1, <2>1, RecorderMoves DEF RecorderSteps
<1>4. LearningTyped'
  BY <1>1, <1>3 DEF LearningInv, LearningTyped
<1>5. OnlyReportableLook'
  BY <1>1, <1>3 DEF LearningInv, OnlyReportableLook, Reportable
<1>6. ReportableIsRaised'
  <2>1. to = "returned" => \E s \in DOMAIN signals : signals[s].key = Key(observed[r])
    BY <1>2 DEF IsOpen
  <2> QED
    BY <1>1, <1>3, <2>1, ReportsKept DEF LearningInv, ReportableIsRaised
<1>7. OpenSignalsRaced'
  <2>1. to = "raising" => \A s \in DOMAIN signals : ~IsOpen(signals[s], Key(observed[r]))
    BY <1>2
  <2> QED
    BY <1>1, <1>3, <2>1 DEF LearningInv, OpenSignalsRaced
<1> QED
  BY <1>3, <1>4, <1>5, <1>6, <1>7 DEF LearningInv

LEMMA RecorderCutOffInv ==
    ASSUME LearningInv, NEW r \in Recorders, RecorderCutOff(r)
    PROVE  LearningInv'
<1>1. UNCHANGED <<observed, learningRows, signals, reviewer, cases, raced>> /\ recorder[r] # "start"
  BY DEF RecorderCutOff
<1>2. /\ recorder' \in [Recorders -> RecorderSteps] /\ recorder'[r] = "cut"
      /\ \A q \in Recorders : q # r => recorder'[q] = recorder[q]
      /\ RowsAreOwn'
  BY <1>1, RecorderMoves DEF RecorderCutOff, RecorderSteps
<1>3. LearningTyped'
  BY <1>1, <1>2 DEF LearningInv, LearningTyped
<1>4. OnlyReportableLook' /\ OpenSignalsRaced'
  BY <1>1, <1>2, ReportsKept DEF LearningInv, OnlyReportableLook, OpenSignalsRaced
<1>5. ReportableIsRaised'
  BY <1>1, <1>2, ReportsKept DEF LearningInv, ReportableIsRaised
<1> QED
  BY <1>2, <1>3, <1>4, <1>5 DEF LearningInv

LEMMA CreateLearningSignalInv ==
    ASSUME LearningInv, NEW r \in Recorders, CreateLearningSignal(r)
    PROVE  LearningInv'
<1>1. PICK n, key, raise : /\ n = Len(signals) + 1 /\ key = Key(observed[r])
                           /\ raise = [key |-> key, status |-> "open", raisedBy |-> r]
  OBVIOUS
<1>2. /\ recorder[r] = "raising" /\ signals' = Append(signals, raise)
      /\ UNCHANGED <<observed, learningRows, reviewer, cases>>
  BY <1>1 DEF CreateLearningSignal
<1>3. /\ recorder' \in [Recorders -> RecorderSteps] /\ recorder'[r] = "returned"
      /\ \A q \in Recorders : q # r => recorder'[q] = recorder[q]
      /\ RowsAreOwn'
  BY <1>2, RecorderMoves DEF CreateLearningSignal, RecorderSteps
<1>4. PICK SignalRow : SignalRow = [key: {Key(observed[q]) : q \in Recorders},
                                    status: {"open", "reviewed", "accepted", "rejected", "implemented"},
                                    raisedBy: Recorders]
  OBVIOUS
<1>5. signals \in Seq(SignalRow) /\ raise \in SignalRow
  BY <1>1, <1>4 DEF LearningInv, LearningTyped
<1>6. /\ signals' \in Seq(SignalRow)
      /\ DOMAIN signals' = DOMAIN signals \cup {n} /\ n \notin DOMAIN signals
      /\ signals'[n] = raise
      /\ \A s \in DOMAIN signals : signals'[s] = signals[s]
  BY <1>1, <1>2, <1>5
<1>7. /\ raced \subseteq raced' /\ raced' \subseteq raced \cup {n}
      /\ \A q \in Recorders \ {r} : recorder[q] = "raising" /\ Key(observed[q]) = key => n \in raced'
  BY <1>1 DEF CreateLearningSignal
<1>8. LearningTyped'
  BY <1>2, <1>3, <1>4, <1>6, <1>7 DEF LearningInv, LearningTyped
<1>9. OnlyReportableLook'
  <2>1. Reportable(observed[r], learningRows)
    BY <1>2 DEF LearningInv, OnlyReportableLook
  <2>2. raise.raisedBy = r
    BY <1>1
  <2> QED
    BY <1>2, <1>3, <1>6, <2>1, <2>2, ReportsKept DEF LearningInv, OnlyReportableLook
<1>10. ReportableIsRaised'
  <2>1. raise.key = Key(observed[r])
    BY <1>1
  <2>2. ASSUME NEW q \in Recorders, q # r, recorder'[q] = "returned", Reportable(observed[q], UpTo(q))'
        PROVE  \E s \in DOMAIN signals' : signals'[s].key = Key(observed[q])
    <3>1. recorder[q] = "returned" /\ Reportable(observed[q], UpTo(q))
      BY <1>2, <1>3, <2>2, ReportsKept
    <3>2. PICK s \in DOMAIN signals : signals[s].key = Key(observed[q])
      BY <3>1 DEF LearningInv, ReportableIsRaised
    <3> QED
      BY <1>6, <3>2
  <2> QED
    BY <1>2, <1>6, <2>1, <2>2 DEF ReportableIsRaised
<1>11. OpenSignalsRaced'
  <2>1. \A s \in DOMAIN signals : signals[s].key = key /\ signals[s].status = "open" => s \in raced
    BY <1>1, <1>2 DEF LearningInv, OpenSignalsRaced, IsOpen
  <2>2. raise.key = key /\ raise.status = "open"
    BY <1>1
  <2>3. \A q \in Recorders, s \in DOMAIN signals' :
          recorder'[q] = "raising" /\ IsOpen(signals'[s], Key(observed'[q])) => s \in raced'
    <3>1. \A q \in Recorders : recorder'[q] = "raising" => q # r /\ recorder[q] = "raising"
      BY <1>3
    <3>2. \A q \in Recorders : recorder[q] = "raising" /\ q # r /\ IsOpen(raise, Key(observed[q])) => n \in raced'
      BY <1>7, <2>2 DEF IsOpen
    <3>3. \A q \in Recorders, s \in DOMAIN signals :
            recorder[q] = "raising" /\ IsOpen(signals[s], Key(observed[q])) => s \in raced'
      BY <1>7 DEF LearningInv, OpenSignalsRaced
    <3> QED
      BY <1>2, <1>6, <3>1, <3>2, <3>3
  <2>4. \A s, t \in DOMAIN signals' :
          s # t /\ signals'[s].key = signals'[t].key /\ signals'[s].status = "open" /\ signals'[t].status = "open"
            => {s, t} \cap raced' # {}
    <3>1. \A s, t \in DOMAIN signals :
            s # t /\ signals[s].key = signals[t].key /\ signals[s].status = "open" /\ signals[t].status = "open"
              => {s, t} \cap raced' # {}
      BY <1>7 DEF LearningInv, OpenSignalsRaced
    <3>2. \A s \in DOMAIN signals :
            signals[s].key = raise.key /\ signals[s].status = "open" => s \in raced'
      BY <1>7, <2>1, <2>2
    <3> QED
      BY <1>6, <3>1, <3>2
  <2> QED
    BY <2>3, <2>4 DEF OpenSignalsRaced
<1> QED
  BY <1>3, <1>8, <1>9, <1>10, <1>11 DEF LearningInv

\* A reviewer that writes a signal closes it: it is never open again.
LEMMA ReviewInv ==
    ASSUME LearningInv, NEW v \in Reviewers, LoadSignal(v) \/ OpenReviewCase(v) \/ SettleSignal(v)
    PROVE  LearningInv'
<1>1. UNCHANGED <<observed, learningRows, recorder, raced>>
  BY DEF LoadSignal, OpenReviewCase, SettleSignal
<1>2. /\ DOMAIN reviewer' = Reviewers
      /\ \A w \in Reviewers : DOMAIN reviewer'[w] = {"at", "signal", "verdict"}
      /\ \A w \in Reviewers : reviewer'[w].at \in {"opening", "deciding"} =>
           reviewer'[w].verdict \in {"reviewed", "accepted", "rejected", "implemented"}
  <2>1. CASE LoadSignal(v)
    <3>1. PICK s \in DOMAIN signals, verdict \in {"reviewed", "accepted", "rejected", "implemented"} :
          \E withCase \in {FALSE, verdict = "accepted"} :
            reviewer' = [reviewer EXCEPT ![v] = [at |-> IF withCase THEN "opening" ELSE "deciding",
                                                 signal |-> s, verdict |-> verdict]]
      BY <2>1 DEF LoadSignal
    <3>2. reviewer'[v].verdict = verdict
      BY <3>1 DEF LearningInv, LearningTyped
    <3> QED
      BY <3>1, <3>2 DEF LearningInv, LearningTyped
  <2>2. CASE OpenReviewCase(v)
    <3>1. reviewer[v].at = "opening" /\ reviewer' = [reviewer EXCEPT ![v].at = "deciding"]
      BY <2>2 DEF OpenReviewCase
    <3>2. reviewer'[v].verdict = reviewer[v].verdict
      BY <3>1 DEF LearningInv, LearningTyped
    <3> QED
      BY <3>1, <3>2 DEF LearningInv, LearningTyped
  <2>3. CASE SettleSignal(v)
    BY <2>3 DEF SettleSignal, LearningInv, LearningTyped
  <2> QED
    BY <2>1, <2>2, <2>3
<1>3. PICK SignalRow : SignalRow = [key: {Key(observed[q]) : q \in Recorders},
                                    status: {"open", "reviewed", "accepted", "rejected", "implemented"},
                                    raisedBy: Recorders]
  OBVIOUS
<1>4. /\ signals' \in Seq(SignalRow) /\ DOMAIN signals' = DOMAIN signals
      /\ \A s \in DOMAIN signals : /\ signals'[s].key = signals[s].key
                                   /\ signals'[s].raisedBy = signals[s].raisedBy
                                   /\ signals'[s].status = "open" => signals[s].status = "open"
  <2>0. signals \in Seq(SignalRow)
    BY <1>3 DEF LearningInv, LearningTyped
  <2>1. CASE SettleSignal(v)
    <3>1. PICK n, verdict : n = reviewer[v].signal /\ verdict = reviewer[v].verdict
      OBVIOUS
    <3>2. signals' = [signals EXCEPT ![n].status = verdict] /\ verdict \in {"reviewed", "accepted", "rejected", "implemented"}
      BY <2>1, <3>1 DEF SettleSignal, LearningInv, LearningTyped
    <3>3. \A s \in DOMAIN signals : signals[s] \in SignalRow
      BY <2>0
    <3>4. \A s \in DOMAIN signals : [signals[s] EXCEPT !.status = verdict] \in SignalRow
      BY <1>3, <3>2, <3>3
    <3>5. DOMAIN signals' = DOMAIN signals /\ \A s \in DOMAIN signals : signals'[s] \in SignalRow
      BY <3>2, <3>3, <3>4
    <3>6. signals' \in Seq(SignalRow)
      <4>1. PICK m \in Nat : DOMAIN signals = 1 .. m
        BY <2>0
      <4>2. signals' = [s \in 1 .. m |-> signals'[s]]
        BY <3>2, <4>1
      <4> QED
        BY <3>5, <4>1, <4>2
    <3> QED
      BY <1>3, <3>2, <3>3, <3>5, <3>6
  <2>2. CASE LoadSignal(v) \/ OpenReviewCase(v)
    BY <2>0, <2>2 DEF LoadSignal, OpenReviewCase
  <2> QED
    BY <2>1, <2>2
<1>5. LearningTyped'
  BY <1>1, <1>2, <1>3, <1>4 DEF LearningInv, LearningTyped
<1>6. RowsAreOwn'
  BY <1>1 DEF LearningInv, RowsAreOwn
<1>7. OnlyReportableLook'
  BY <1>1, <1>4, ReportsKept DEF LearningInv, OnlyReportableLook
<1>8. ReportableIsRaised'
  BY <1>1, <1>4, ReportsKept DEF LearningInv, ReportableIsRaised
<1>9. OpenSignalsRaced'
  BY <1>1, <1>4 DEF LearningInv, OpenSignalsRaced, IsOpen
<1> QED
  BY <1>5, <1>6, <1>7, <1>8, <1>9 DEF LearningInv

LEMMA LearningNextInv == LearningInv /\ [LearningNext]_learningVars => LearningInv'
<1> SUFFICES ASSUME LearningInv, [LearningNext]_learningVars PROVE LearningInv'
  OBVIOUS
<1>1. CASE LearningNext
  BY <1>1, RecordInvariant, LookBackInv, FindOpenSignalInv, CreateLearningSignalInv, RecorderCutOffInv,
     ReviewInv DEF LearningNext
<1>2. CASE UNCHANGED learningVars
  <2>1. UNCHANGED <<observed, learningRows, recorder, signals, reviewer, raced>>
    BY <1>2 DEF learningVars
  <2>2. LearningTyped' /\ RowsAreOwn' /\ OpenSignalsRaced'
    BY <2>1 DEF LearningInv, LearningTyped, RowsAreOwn, OpenSignalsRaced
  <2>3. OnlyReportableLook' /\ ReportableIsRaised'
    BY <2>1, ReportsKept DEF LearningInv, OnlyReportableLook, ReportableIsRaised
  <2> QED
    BY <2>2, <2>3 DEF LearningInv
<1> QED
  BY <1>1, <1>2

\* However many recorders and reviewers overlap and wherever they are cut off: what a
\* record made reportable has a signal once its recorder returned, no signal is raised for
\* less, and two signals open for one thing come from recorders that both looked before
\* either raised.
THEOREM SignalsAreWarranted == LearningSpec => []SignalsFollowRecords
<1>1. LearningSpec => []LearningInv
  BY LearningInitInv, LearningNextInv, PTL DEF LearningSpec
<1>2. LearningInv => SignalsFollowRecords
  BY DEF LearningInv, OnlyReportableLook, ReportableIsRaised, OpenSignalsRaced,
         SignalsFollowRecords, IsOpen
<1> QED
  BY <1>1, <1>2, PTL

\* What reviewers are about: the signals there are.
Reviewed ==
    /\ \A v \in Reviewers : /\ reviewer[v].at \in {"start", "opening", "deciding", "returned"}
                            /\ reviewer[v].at = "opening" => reviewer[v].signal \in DOMAIN signals
    /\ cases \in Seq(DOMAIN signals)

LEMMA ReviewsStart == LearningInit => Reviewed
<1> SUFFICES ASSUME LearningInit PROVE Reviewed
  OBVIOUS
<1>1. cases \in Seq(DOMAIN signals)
  BY EmptySeq DEF LearningInit
<1> QED
  BY <1>1 DEF LearningInit, Reviewed

LEMMA ReviewsGoOn == LearningInv /\ Reviewed /\ [LearningNext]_learningVars => Reviewed'
<1> SUFFICES ASSUME LearningInv, Reviewed, [LearningNext]_learningVars PROVE Reviewed'
  OBVIOUS
<1>1. ASSUME DOMAIN signals \subseteq DOMAIN signals', UNCHANGED <<reviewer, cases>> PROVE Reviewed'
  <2>1. cases \in Seq(DOMAIN signals')
    BY <1>1, LenProperties, ElementOfSeq, SeqDef DEF Reviewed
  <2> QED
    BY <1>1, <2>1 DEF Reviewed
<1>2. ASSUME NEW r \in Recorders, CreateLearningSignal(r) PROVE Reviewed'
  BY <1>1, <1>2 DEF CreateLearningSignal, LearningInv, LearningTyped
<1>3. ASSUME NEW r \in Recorders, Record(r) \/ LookBack(r) \/ FindOpenSignal(r) \/ RecorderCutOff(r)
      PROVE  Reviewed'
  BY <1>1, <1>3 DEF Record, LookBack, FindOpenSignal, RecorderCutOff
<1>4. ASSUME NEW v \in Reviewers, LoadSignal(v) PROVE Reviewed'
  BY <1>4 DEF LoadSignal, LearningInv, LearningTyped, Reviewed
<1>5. ASSUME NEW v \in Reviewers, OpenReviewCase(v) PROVE Reviewed'
  <2>1. cases' \in Seq(DOMAIN signals)
    BY <1>5, AppendProperties DEF OpenReviewCase, Reviewed
  <2>2. \A w \in Reviewers : /\ reviewer'[w].at \in {"start", "opening", "deciding", "returned"}
                             /\ reviewer'[w].signal = reviewer[w].signal
                             /\ reviewer'[w].at = "opening" => reviewer[w].at = "opening"
    BY <1>5 DEF OpenReviewCase, LearningInv, LearningTyped, Reviewed
  <2> QED
    BY <1>5, <2>1, <2>2 DEF OpenReviewCase, Reviewed
<1>6. ASSUME NEW v \in Reviewers, SettleSignal(v) PROVE Reviewed'
  <2>1. \A w \in Reviewers : /\ reviewer'[w].at \in {"start", "opening", "deciding", "returned"}
                             /\ reviewer'[w].signal = reviewer[w].signal
                             /\ reviewer'[w].at = "opening" => reviewer[w].at = "opening"
    BY <1>6 DEF SettleSignal, LearningInv, LearningTyped, Reviewed
  <2>2. DOMAIN signals' = DOMAIN signals /\ cases' = cases
    BY <1>6 DEF SettleSignal
  <2> QED
    BY <2>1, <2>2 DEF Reviewed
<1>7. CASE UNCHANGED learningVars
  BY <1>1, <1>7 DEF learningVars
<1> QED
  BY <1>2, <1>3, <1>4, <1>5, <1>6, <1>7 DEF LearningNext

LEMMA LearningIsTyped == LearningInv /\ Reviewed => LearningTypeOK
<1> SUFFICES ASSUME LearningInv, Reviewed PROVE LearningTypeOK
  OBVIOUS
<1>1. \A s \in DOMAIN signals : signals[s].status \in {"open", "reviewed", "accepted", "rejected", "implemented"}
  <2>1. PICK Signals :
          /\ signals \in Seq(Signals)
          /\ \A s \in Signals : s.status \in {"open", "reviewed", "accepted", "rejected", "implemented"}
    <3> DEFINE Raised == [key: {Key(observed[r]) : r \in Recorders},
                          status: {"open", "reviewed", "accepted", "rejected", "implemented"}, raisedBy: Recorders]
    <3>1. signals \in Seq(Raised)
      BY DEF LearningInv, LearningTyped
    <3>2. \A s \in Raised : s.status \in {"open", "reviewed", "accepted", "rejected", "implemented"}
      OBVIOUS
    <3> HIDE DEF Raised
    <3> QED
      BY <3>1, <3>2
  <2>2. \A s \in DOMAIN signals : signals[s] \in Signals
    BY <2>1
  <2> QED
    BY <2>1, <2>2
<1>2. ToSet(cases) \subseteq DOMAIN signals
  BY ElementOfSeq, LenProperties DEF ToSet, Reviewed
<1> QED
  BY <1>1, <1>2 DEF LearningInv, LearningTyped, LearningTypeOK, RecorderSteps, Reviewed

\* Learning keeps its types: what is raced and what a case is about is a signal there is.
THEOREM LearningTypeCorrect == LearningSpec => []LearningTypeOK
<1>1. LearningInit => Reviewed
  BY ReviewsStart
<1>2. LearningInv /\ Reviewed /\ [LearningNext]_learningVars => Reviewed'
  BY ReviewsGoOn
<1>3. LearningInv /\ Reviewed => LearningTypeOK
  BY LearningIsTyped
<1> QED
  BY <1>1, <1>2, <1>3, LearningInitInv, LearningNextInv, PTL DEF LearningSpec

-----------------------------------------------------------------------------
\* Retention. The rows of objects, jobs and upserts.
StoredRows == [stored : BOOLEAN, archived : BOOLEAN, properties : Properties]

JobRows ==
    [status : {"none", "running", "completed", "blocked"},
     step : {"start", "listing", "acting", "writing", "stuck", "ended"},
     action : RetentionActions, dryRun : BOOLEAN, listed : Seq(ObjectIds), next : Nat \ {0},
     read : Properties]

UpsertStates ==
    [step : {"start", "writing", "done"}, object : ObjectIds \cup {ExpiredObjects[1]}, row : StoredRows,
     input : UpsertInputs]

RetentionTyped ==
    /\ kept \in [ObjectIds -> StoredRows]
    /\ job \in [RetentionJobs -> JobRows]
    /\ upsert \in [Upserts -> UpsertStates]
    /\ \A u \in Upserts : upsert[u].step = "writing" => upsert[u].object \in ObjectIds

\* A job's row and its place in the list are what its step says.
RetentionRow(x) ==
    /\ x.step = "start" => x.status = "none"
    /\ x.step \in {"listing", "acting", "writing", "stuck"} => x.status = "running"
    /\ x.step = "writing" => x.next \in DOMAIN x.listed /\ ~x.dryRun /\ x.action \in {"redact", "review"}
    /\ x.status = "completed" => x.next > Len(x.listed) /\ x.step = "ended"
    /\ x.step \in {"start", "listing"} \/ x.status \in {"none", "blocked"} => x.listed = << >> /\ x.next = 1

JobsFollow == \A j \in RetentionJobs : RetentionRow(job[j])

\* What a call read of an object is what the object is, until another call writes it.
ReadsStand ==
    \A o \in ObjectIds \ unsettled :
      /\ \A j \in RetentionJobs :
           job[j].step = "writing" /\ Current(j) = o => job[j].read = kept[o].properties
      /\ \A u \in Upserts :
           upsert[u].step = "writing" /\ upsert[u].object = o => upsert[u].row = kept[o]

\* What treating o by an action leaves, as long as o is settled and no upsert names it anew.
Treats(action, o) ==
    /\ action = "delete" => ~kept[o].stored
    /\ kept[o].stored /\ o \notin unsettled =>
         /\ action = "archive" => kept[o].archived \/ <<o, "status">> \in renamed
         /\ action = "redact" => kept[o].properties.redacted \/ <<o, "properties">> \in renamed

\* Each object a job passed stays as the job left it.
PassedStay ==
    \A j \in RetentionJobs : job[j].status \in {"running", "completed"} /\ ~job[j].dryRun =>
      \A i \in DOMAIN job[j].listed : i < job[j].next => Treats(job[j].action, job[j].listed[i])

\* A real job of that action came to o.
Touched(o, action) ==
    \E j \in RetentionJobs :
      /\ job[j].status \in {"running", "completed"} /\ ~job[j].dryRun
      /\ job[j].action = action
      /\ \E i \in 1 .. job[j].next : i \in DOMAIN job[j].listed /\ job[j].listed[i] = o

Archivable(o) == Touched(o, "archive") \/ NamedArchived(o)

Warranted(o, properties) ==
    /\ properties.redacted => Touched(o, "redact")
    /\ properties.flagged => Touched(o, "review")

\* What is gone or changed in a row, or in what a call read of one, a real job came to or an
\* upsert named.
ChangesAreWarranted ==
    /\ \A o \in ObjectIds :
         /\ ~kept[o].stored => Touched(o, "delete")
         /\ kept[o].archived => Archivable(o)
         /\ Warranted(o, kept[o].properties)
    /\ \A j \in RetentionJobs : job[j].step = "writing" => Warranted(Current(j), job[j].read)
    /\ \A u \in Upserts : upsert[u].step = "writing" =>
         /\ upsert[u].row.stored
         /\ upsert[u].row.archived => Archivable(upsert[u].object)
         /\ Warranted(upsert[u].object, upsert[u].row.properties)

RetentionInv ==
    RetentionTyped /\ JobsFollow /\ ReadsStand /\ PassedStay /\ ChangesAreWarranted

LEMMA ExpiredAreListed ==
    /\ Len(ExpiredObjects) \in Nat
    /\ \A n \in 1 .. Len(ExpiredObjects) : ExpiredObjects[n] \in ObjectIds
BY RetentionAssumption, LenProperties, ElementOfSeq

\* Those of the first n expired objects that are stored can be listed.
ListsStored(f, n) ==
    /\ f \in [0 .. n -> Seq(ObjectIds)]
    /\ f[0] = << >>
    /\ \A i \in 1 .. n :
         f[i] = IF kept[ExpiredObjects[i]].stored THEN Append(f[i - 1], ExpiredObjects[i]) ELSE f[i - 1]

LEMMA SomeListing ==
    ASSUME NEW n \in 0 .. Len(ExpiredObjects)
    PROVE  \E f : ListsStored(f, n)
<1> DEFINE Bad == {k \in 0 .. Len(ExpiredObjects) : ~ \E f : ListsStored(f, k)}
<1>1. \E f : ListsStored(f, 0)
  <2>1. PICK none \in Seq(ObjectIds) : none = << >>
    BY EmptySeq
  <2>2. PICK f : f = [i \in 0 .. 0 |-> none]
    OBVIOUS
  <2>3. f \in [0 .. 0 -> Seq(ObjectIds)] /\ f[0] = << >>
    BY <2>1, <2>2
  <2>4. \A i \in 1 .. 0 : FALSE
    OBVIOUS
  <2> QED
    BY <2>3, <2>4 DEF ListsStored
<1>2. ASSUME NEW k \in 1 .. Len(ExpiredObjects), NEW g, ListsStored(g, k - 1)
      PROVE  \E f : ListsStored(f, k)
  <2>1. k \in Nat /\ k - 1 \in 0 .. k - 1 /\ k - 1 \in Nat
    BY ExpiredAreListed
  <2>2. PICK last \in Seq(ObjectIds) :
          last = IF kept[ExpiredObjects[k]].stored THEN Append(g[k - 1], ExpiredObjects[k]) ELSE g[k - 1]
    <3>1. PICK before \in Seq(ObjectIds), o \in ObjectIds : before = g[k - 1] /\ o = ExpiredObjects[k]
      BY <1>2, <2>1, ExpiredAreListed DEF ListsStored
    <3>2. Append(before, o) \in Seq(ObjectIds)
      OBVIOUS
    <3> QED
      BY <3>1, <3>2
  <2>3. PICK f : f = [i \in 0 .. k |-> IF i = k THEN last ELSE g[i]]
    OBVIOUS
  <2>4. f \in [0 .. k -> Seq(ObjectIds)]
    <3>1. \A i \in 0 .. k : i = k \/ i \in 0 .. k - 1
      BY <2>1
    <3> QED
      BY <3>1, <2>2, <2>3, <1>2 DEF ListsStored
  <2>5. f[0] = << >>
    BY <2>1, <2>3, <1>2 DEF ListsStored
  <2>6. ASSUME NEW i \in 1 .. k
        PROVE  f[i] = IF kept[ExpiredObjects[i]].stored THEN Append(f[i - 1], ExpiredObjects[i]) ELSE f[i - 1]
    <3>1. i - 1 \in 0 .. k /\ i - 1 # k /\ i \in 0 .. k /\ f[i - 1] = g[i - 1]
      BY <2>1, <2>3
    <3>2. CASE i = k
      BY <3>1, <3>2, <2>2, <2>3
    <3>3. CASE i # k
      <4>1. i \in 1 .. k - 1 /\ f[i] = g[i]
        BY <3>1, <3>3, <2>1, <2>3
      <4> QED
        BY <4>1, <3>1, <1>2 DEF ListsStored
    <3> QED
      BY <3>2, <3>3
  <2> QED
    BY <2>4, <2>5, <2>6 DEF ListsStored
<1>3. Bad = {}
  <2>1. SUFFICES ASSUME Bad # {} PROVE FALSE
    OBVIOUS
  <2>2. PICK k \in Bad : \A j \in Bad : k <= j
    <3>1. Bad \subseteq Nat
      BY ExpiredAreListed
    <3> QED
      BY <2>1, <3>1, LeastNatural
  <2>3. k # 0
    BY <1>1, <2>2
  <2>4. k \in 1 .. Len(ExpiredObjects) /\ k - 1 \in 0 .. Len(ExpiredObjects) /\ ~(k <= k - 1)
    BY <2>2, <2>3, ExpiredAreListed
  <2>5. PICK g : ListsStored(g, k - 1)
    BY <2>2, <2>4
  <2> QED
    BY <1>2, <2>2, <2>4, <2>5
<1> QED
  BY <1>3

LEMMA StoredAreListed == StillStored \in Seq(ObjectIds) /\ Len(StillStored) <= Len(ExpiredObjects)
<1> DEFINE Count == Len(ExpiredObjects)
           KeptUpTo(f) == [n \in 0 .. Count |->
                         IF n = 0 THEN << >>
                         ELSE IF kept[ExpiredObjects[n]].stored THEN Append(f[n - 1], ExpiredObjects[n])
                         ELSE f[n - 1]]
           upTo == CHOOSE f : f = KeptUpTo(f)
<1>1. Count \in Nat /\ Count \in 0 .. Count
  BY ExpiredAreListed
<1>2. PICK g : ListsStored(g, Count)
  BY <1>1, SomeListing
<1>3. g = KeptUpTo(g)
  <2>1. g = [n \in 0 .. Count |-> g[n]]
    BY <1>2 DEF ListsStored
  <2>2. ASSUME NEW n \in 0 .. Count
        PROVE  g[n] = IF n = 0 THEN << >>
                      ELSE IF kept[ExpiredObjects[n]].stored THEN Append(g[n - 1], ExpiredObjects[n])
                      ELSE g[n - 1]
    <3>1. n = 0 \/ n \in 1 .. Count
      BY <1>1
    <3> QED
      BY <1>2, <3>1 DEF ListsStored
  <2> QED
    BY <2>1, <2>2
<1>4. upTo = KeptUpTo(upTo)
  BY <1>3
<1>5. ASSUME NEW n \in 0 .. Count PROVE upTo[n] = IF n = 0 THEN << >>
                         ELSE IF kept[ExpiredObjects[n]].stored THEN Append(upTo[n - 1], ExpiredObjects[n])
                         ELSE upTo[n - 1]
  BY <1>4
<1>6. StillStored = upTo[Count]
  BY DEF StillStored
<1> HIDE DEF upTo
<1> DEFINE Bad == {k \in 0 .. Count : ~(upTo[k] \in Seq(ObjectIds) /\ Len(upTo[k]) <= k)}
<1>7. Bad = {}
  <2>1. SUFFICES ASSUME Bad # {} PROVE FALSE
    OBVIOUS
  <2>2. PICK k \in Bad : \A j \in Bad : k <= j
    <3>1. Bad \subseteq Nat
      BY <1>1
    <3> QED
      BY <2>1, <3>1, LeastNatural
  <2>3. k # 0
    BY <1>1, <1>5, <2>2, EmptySeq
  <2>4. k \in 1 .. Count /\ k - 1 \in 0 .. Count /\ ~(k <= k - 1)
    BY <1>1, <2>2, <2>3
  <2>5. PICK before \in Seq(ObjectIds), o \in ObjectIds : before = upTo[k - 1] /\ o = ExpiredObjects[k] /\ Len(before) <= k - 1
    BY <2>2, <2>4, ExpiredAreListed
  <2>6. /\ Append(before, o) \in Seq(ObjectIds) /\ Len(Append(before, o)) = Len(before) + 1
        /\ Len(before) \in Nat /\ k \in Nat
    BY <1>1, <2>4, AppendProperties, LenProperties
  <2>7. upTo[k] \in {before, Append(before, o)}
    BY <1>5, <2>2, <2>3, <2>5
  <2>8. Len(before) + 1 <= k /\ Len(before) <= k
    BY <2>5, <2>6
  <2> QED
    BY <2>2, <2>6, <2>7, <2>8
<1> QED
  BY <1>1, <1>6, <1>7

LEMMA RetentionInitInv == RetentionInit => RetentionInv
<1> SUFFICES ASSUME RetentionInit PROVE RetentionInv
  OBVIOUS
<1>1. Untouched \in Properties
  BY DEF Untouched, Properties
<1>2. << >> \in Seq(ObjectIds)
  OBVIOUS
<1>3. PICK none : none = << >> /\ none \in Seq(ObjectIds)
  BY <1>2
<1>4. RetentionTyped
  <2>1. kept \in [ObjectIds -> StoredRows]
    BY <1>1 DEF RetentionInit, StoredRows
  <2>2. job = [j \in RetentionJobs |->
                 [status |-> "none", step |-> "start", action |-> "archive", dryRun |-> FALSE,
                  listed |-> none, next |-> 1, read |-> Untouched]]
    BY <1>3 DEF RetentionInit
  <2>3. job \in [RetentionJobs -> JobRows]
    BY <1>1, <1>3, <2>2 DEF JobRows, RetentionActions
  <2>4. upsert \in [Upserts -> UpsertStates] /\ \A u \in Upserts : upsert[u].step = "start"
    <3>1. NamesNothing \in UpsertInputs
      BY DEF NamesNothing, UpsertInputs
    <3> QED
      BY <1>1, <3>1 DEF RetentionInit, UpsertStates, StoredRows
  <2> QED
    BY <2>1, <2>3, <2>4 DEF RetentionTyped
<1>5. \A j \in RetentionJobs :
         job[j].status = "none" /\ job[j].step = "start" /\ job[j].listed = << >> /\ job[j].next = 1
  BY DEF RetentionInit
<1>6. \A u \in Upserts : upsert[u].step = "start"
  BY DEF RetentionInit
<1>7. JobsFollow
  BY <1>5 DEF JobsFollow, RetentionRow
<1>8. ReadsStand /\ PassedStay
  BY <1>5, <1>6 DEF ReadsStand, PassedStay
<1>9. ChangesAreWarranted
  BY <1>5, <1>6 DEF RetentionInit, ChangesAreWarranted, Warranted, Untouched
<1> QED
  BY <1>4, <1>7, <1>8, <1>9 DEF RetentionInv

\* What a job came to it has come to; it keeps its request and its list.
Proceeds(old, new) ==
    old.status \in {"running", "completed"} =>
      /\ new.status \in {"running", "completed"}
      /\ new.dryRun = old.dryRun /\ new.action = old.action
      /\ old.listed # << >> => new.listed = old.listed
      /\ old.next <= new.next

LEMMA ComeToStays ==
    ASSUME RetentionTyped, \A j \in RetentionJobs : job'[j] \in JobRows /\ Proceeds(job[j], job'[j]),
           NEW o, NEW action, Touched(o, action)
    PROVE  Touched(o, action)'
<1>1. PICK j \in RetentionJobs : \E k \in 1 .. job[j].next :
        /\ job[j].status \in {"running", "completed"} /\ ~job[j].dryRun
        /\ job[j].action = action
        /\ k \in DOMAIN job[j].listed /\ job[j].listed[k] = o
  BY DEF Touched
<1>0. PICK i \in 1 .. job[j].next :
        /\ job[j].status \in {"running", "completed"} /\ ~job[j].dryRun /\ job[j].action = action
        /\ i \in DOMAIN job[j].listed /\ job[j].listed[i] = o
  BY <1>1
<1>2. PICK old, new \in JobRows : old = job[j] /\ new = job'[j] /\ Proceeds(old, new)
  BY DEF RetentionTyped
<1>3. old \in JobRows /\ old.next \in Nat /\ new.next \in Nat
  BY <1>2 DEF RetentionTyped, JobRows
<1>4. old.listed # << >>
  BY <1>0, <1>2
<1>5. i \in 1 .. new.next
  BY <1>0, <1>2, <1>3 DEF Proceeds
<1>6. /\ new.status \in {"running", "completed"} /\ ~new.dryRun /\ new.action = action
      /\ i \in DOMAIN new.listed /\ new.listed[i] = o
  BY <1>0, <1>2, <1>4 DEF Proceeds
<1>7. \E k \in 1 .. job'[j].next : k \in DOMAIN job'[j].listed /\ job'[j].listed[k] = o
  BY <1>2, <1>5, <1>6
<1> QED
  BY <1>2, <1>6, <1>7 DEF Touched

\* Job j becomes x and no other job changes.
JobBecomes(j, x) ==
    /\ job' \in [RetentionJobs -> JobRows]
    /\ job'[j] = x
    /\ \A k \in RetentionJobs : k # j => job'[k] = job[k]

LEMMA OthersProceed ==
    ASSUME RetentionTyped, NEW j \in RetentionJobs, NEW x \in JobRows, JobBecomes(j, x), Proceeds(job[j], x)
    PROVE  \A k \in RetentionJobs : job'[k] \in JobRows /\ Proceeds(job[k], job'[k])
<1>1. ASSUME NEW k \in RetentionJobs PROVE job'[k] \in JobRows /\ Proceeds(job[k], job'[k])
  <2>1. job[k] \in JobRows /\ job[k].next \in Nat
    BY DEF RetentionTyped, JobRows
  <2>2. Proceeds(job[k], job[k])
    BY <2>1 DEF Proceeds
  <2> QED
    BY <2>2 DEF JobBecomes
<1> QED
  BY <1>1

LEMMA JobStep ==
    ASSUME RetentionInv, NEW j \in RetentionJobs, NEW x \in JobRows, JobBecomes(j, x), Proceeds(job[j], x),
           RetentionRow(x), UNCHANGED <<kept, upsert, unsettled, renamed>>,
           x.step = "writing" =>
             x.listed[x.next] \in ObjectIds /\ x.read = kept[x.listed[x.next]].properties,
           x.status \in {"running", "completed"} /\ ~x.dryRun =>
             \A i \in DOMAIN x.listed : i < x.next => Treats(x.action, x.listed[i])
    PROVE  RetentionInv'
<1>1. RetentionTyped'
  BY DEF RetentionInv, RetentionTyped, JobBecomes
<1>2. JobsFollow'
  BY DEF RetentionInv, JobsFollow, JobBecomes
<1>3. \A o, action : Treats(action, o)' <=> Treats(action, o)
  BY DEF Treats
<1>4. PassedStay'
  <2>1. ASSUME NEW k \in RetentionJobs, NEW y, y = job'[k],
               y.status \in {"running", "completed"} /\ ~y.dryRun, NEW i \in DOMAIN y.listed, i < y.next
        PROVE  Treats(y.action, y.listed[i])
    <3>1. k = j => y = x
      BY <2>1 DEF JobBecomes
    <3>2. k # j => y = job[k]
      BY <2>1 DEF JobBecomes
    <3>3. k # j => Treats(y.action, y.listed[i])
      BY <2>1, <3>2 DEF RetentionInv, PassedStay
    <3> QED
      BY <2>1, <3>1, <3>3
  <2> QED
    BY <1>3, <2>1 DEF PassedStay
<1>5. ASSUME NEW k \in RetentionJobs, job'[k].step = "writing"
      PROVE  \/ k = j /\ Current(k)' = x.listed[x.next] /\ job'[k].read = kept[Current(k)'].properties
             \/ job[k].step = "writing" /\ Current(k)' = Current(k) /\ job'[k] = job[k]
  BY <1>5 DEF JobBecomes, Current
<1>6. ReadsStand'
  BY <1>5 DEF RetentionInv, ReadsStand
<1>7. \A o, action : Touched(o, action) => Touched(o, action)'
  BY OthersProceed, ComeToStays DEF RetentionInv
<1>8. \A o, p : Warranted(o, p) => Warranted(o, p)'
  BY <1>7 DEF Warranted
<1>11. \A o : Archivable(o) => Archivable(o)'
  BY <1>7 DEF Archivable, NamedArchived
<1>9. \A k \in RetentionJobs : job'[k].step = "writing" => Warranted(Current(k), job[k].read)' 
  BY <1>5, <1>8 DEF RetentionInv, ChangesAreWarranted, JobBecomes
<1>10. ChangesAreWarranted'
  <2>1. \A o \in ObjectIds :
         /\ ~kept'[o].stored => Touched(o, "delete")'
         /\ kept'[o].archived => Archivable(o)'
         /\ Warranted(o, kept[o].properties)'
    BY <1>7, <1>8, <1>11 DEF RetentionInv, ChangesAreWarranted
  <2>2. \A u \in Upserts : upsert'[u].step = "writing" =>
         /\ upsert'[u].row.stored
         /\ upsert'[u].row.archived => Archivable(upsert[u].object)'
         /\ Warranted(upsert[u].object, upsert[u].row.properties)'
    BY <1>7, <1>8, <1>11 DEF RetentionInv, ChangesAreWarranted
  <2> QED
    BY <1>9, <2>1, <2>2 DEF ChangesAreWarranted
<1> QED
  BY <1>1, <1>2, <1>4, <1>6, <1>10 DEF RetentionInv

\* The steps of a job that leave the objects alone.
LEMMA StartJobInv ==
    ASSUME RetentionInv, NEW j \in RetentionJobs, NEW action \in RetentionActions, NEW dryRun \in BOOLEAN,
           StartJob(j, action, dryRun)
    PROVE  RetentionInv'
<1>1. PICK old \in JobRows : old = job[j]
  BY DEF RetentionInv, RetentionTyped
<1>2. old.step = "start" /\ old.status = "none" /\ old.listed = << >> /\ old.next = 1
  BY <1>1 DEF RetentionInv, JobsFollow, RetentionRow, StartJob
<1>3. PICK x \in JobRows :
        /\ JobBecomes(j, x) /\ x.listed = old.listed /\ x.next = old.next
        /\ \/ x.status = "blocked" /\ x.step = "ended"
           \/ x.status = "running" /\ x.step = "listing"
  <2>1. CASE job' = [job EXCEPT ![j].status = "blocked", ![j].step = "ended"]
    <3>1. PICK x : x = [old EXCEPT !.status = "blocked", !.step = "ended"]
      OBVIOUS
    <3>2. x \in JobRows /\ x.listed = old.listed /\ x.next = old.next /\ x.status = "blocked" /\ x.step = "ended"
      BY <3>1 DEF JobRows
    <3>3. JobBecomes(j, x)
      BY <1>1, <2>1, <3>1, <3>2 DEF JobBecomes, RetentionInv, RetentionTyped
    <3> QED
      BY <3>2, <3>3
  <2>2. CASE job' = [job EXCEPT ![j].status = "running", ![j].step = "listing",
                                ![j].action = action, ![j].dryRun = dryRun]
    <3>1. PICK x : x = [old EXCEPT !.status = "running", !.step = "listing", !.action = action, !.dryRun = dryRun]
      OBVIOUS
    <3>2. x \in JobRows /\ x.listed = old.listed /\ x.next = old.next /\ x.status = "running" /\ x.step = "listing"
      BY <3>1 DEF JobRows
    <3>3. JobBecomes(j, x)
      BY <1>1, <2>2, <3>1, <3>2 DEF JobBecomes, RetentionInv, RetentionTyped
    <3> QED
      BY <3>2, <3>3
  <2> QED
    BY <2>1, <2>2 DEF StartJob
<1>4. Proceeds(job[j], x) /\ RetentionRow(x)
  BY <1>1, <1>2, <1>3 DEF Proceeds, RetentionRow
<1>5. \A i \in DOMAIN x.listed : FALSE
  BY <1>2, <1>3
<1>6. UNCHANGED <<kept, upsert, unsettled, renamed>>
  BY DEF StartJob
<1> QED
  BY <1>3, <1>4, <1>5, <1>6, JobStep

LEMMA ListExpiredInv ==
    ASSUME RetentionInv, NEW j \in RetentionJobs, ListExpired(j)
    PROVE  RetentionInv'
<1>1. PICK old \in JobRows : old = job[j]
  BY DEF RetentionInv, RetentionTyped
<1>2. old.step = "listing" /\ old.status = "running" /\ old.listed = << >> /\ old.next = 1
  BY <1>1 DEF RetentionInv, JobsFollow, RetentionRow, ListExpired
<1>3. PICK list \in Seq(ObjectIds) : list = StillStored
  BY StoredAreListed
<1>4. PICK x : x = [old EXCEPT !.step = "acting", !.listed = list]
  OBVIOUS
<1>5. /\ x \in JobRows /\ x.step = "acting" /\ x.status = "running" /\ x.next = 1
      /\ x.action = old.action /\ x.dryRun = old.dryRun
  BY <1>2, <1>4 DEF JobRows
<1>6. JobBecomes(j, x)
  BY <1>1, <1>3, <1>4, <1>5 DEF JobBecomes, ListExpired, RetentionInv, RetentionTyped
<1>7. Proceeds(job[j], x) /\ RetentionRow(x)
  BY <1>1, <1>2, <1>5 DEF Proceeds, RetentionRow
<1>8. \A i \in DOMAIN x.listed : ~(i < x.next)
  BY <1>5 DEF JobRows
<1>9. UNCHANGED <<kept, upsert, unsettled, renamed>>
  BY DEF ListExpired
<1> QED
  BY <1>5, <1>6, <1>7, <1>8, <1>9, JobStep

\* The job at its current object.
LEMMA CurrentIsListed ==
    ASSUME RetentionInv, NEW j \in RetentionJobs, Acting(j) \/ job[j].step = "writing"
    PROVE  /\ Current(j) \in ObjectIds /\ Current(j) = job[j].listed[job[j].next]
           /\ job[j].next \in DOMAIN job[j].listed /\ job[j].next \in Nat /\ job[j].status = "running"
<1>1. PICK old \in JobRows : old = job[j]
  BY DEF RetentionInv, RetentionTyped
<1>2. old.next \in DOMAIN old.listed /\ old.status = "running"
  BY <1>1 DEF RetentionInv, JobsFollow, RetentionRow, Acting
<1>3. PICK list \in Seq(ObjectIds) : list = old.listed
  BY <1>1 DEF JobRows
<1>4. old.listed[old.next] \in ObjectIds
  BY <1>2, <1>3, ElementOfSeq, LenProperties
<1> QED
  BY <1>1, <1>2, <1>4 DEF Current, JobRows

\* A job that passes its current object.
LEMMA TreatedBecomes ==
    ASSUME RetentionInv, NEW j \in RetentionJobs, Acting(j) \/ job[j].step = "writing", job' = Treated(j)
    PROVE  \E x \in JobRows :
             /\ JobBecomes(j, x) /\ Proceeds(job[j], x) /\ RetentionRow(x)
             /\ x.step = "acting" /\ x.next = job[j].next + 1
             /\ x.listed = job[j].listed /\ x.action = job[j].action /\ x.dryRun = job[j].dryRun
             /\ x.status = job[j].status
<1>1. PICK old \in JobRows : old = job[j]
  BY DEF RetentionInv, RetentionTyped
<1>2. old.next \in Nat /\ old.status = "running"
  BY <1>1, CurrentIsListed
<1>10. PICK clean \in Properties : clean = Untouched
  BY DEF Untouched, Properties
<1>9. PICK n \in Nat \ {0} : n = old.next + 1
  BY <1>2
<1>3. PICK x : x = [old EXCEPT !.step = "acting", !.next = n, !.read = clean]
  OBVIOUS
<1>4. /\ x \in JobRows /\ x.step = "acting" /\ x.status = "running" /\ x.next = old.next + 1
      /\ x.listed = old.listed /\ x.action = old.action /\ x.dryRun = old.dryRun
  BY <1>2, <1>3, <1>9 DEF JobRows
<1>5. JobBecomes(j, x)
  BY <1>1, <1>9, <1>10, <1>3, <1>4 DEF JobBecomes, Treated, RetentionInv, RetentionTyped
<1>6. Proceeds(job[j], x) /\ RetentionRow(x)
  BY <1>1, <1>2, <1>4 DEF Proceeds, RetentionRow
<1> QED
  BY <1>1, <1>2, <1>4, <1>5, <1>6

LEMMA JobThrowsInv ==
    ASSUME RetentionInv, NEW j \in RetentionJobs, JobThrows(j)
    PROVE  RetentionInv'
<1>1. PICK old \in JobRows : old = job[j]
  BY DEF RetentionInv, RetentionTyped
<1>2. old.status = "running" /\ old.next \in Nat
  BY <1>1 DEF RetentionInv, JobsFollow, RetentionRow, JobThrows, Acting, JobRows
<1>3. PICK x : x = [old EXCEPT !.step = "stuck"]
  OBVIOUS
<1>4. /\ x \in JobRows /\ x.step = "stuck" /\ x.status = "running" /\ x.next = old.next
      /\ x.listed = old.listed /\ x.action = old.action /\ x.dryRun = old.dryRun
  BY <1>2, <1>3 DEF JobRows
<1>5. JobBecomes(j, x)
  BY <1>1, <1>3, <1>4 DEF JobBecomes, JobThrows, RetentionInv, RetentionTyped
<1>6. Proceeds(job[j], x) /\ RetentionRow(x)
  BY <1>1, <1>2, <1>4 DEF Proceeds, RetentionRow
<1>7. ~x.dryRun => \A i \in DOMAIN x.listed : i < x.next => Treats(x.action, x.listed[i])
  BY <1>1, <1>2, <1>4 DEF RetentionInv, PassedStay
<1>8. UNCHANGED <<kept, upsert, unsettled, renamed>>
  BY DEF JobThrows
<1> QED
  BY <1>4, <1>5, <1>6, <1>7, <1>8, JobStep

LEMMA SkipInDryRunInv ==
    ASSUME RetentionInv, NEW j \in RetentionJobs, SkipInDryRun(j)
    PROVE  RetentionInv'
<1>1. job' = Treated(j) /\ Acting(j) /\ job[j].dryRun /\ UNCHANGED <<kept, upsert, unsettled, renamed>>
  BY DEF SkipInDryRun
<1>2. PICK x \in JobRows :
        JobBecomes(j, x) /\ Proceeds(job[j], x) /\ RetentionRow(x) /\ x.step = "acting" /\ x.dryRun
  BY <1>1, TreatedBecomes
<1> QED
  BY <1>1, <1>2, JobStep

LEMMA CompleteJobInv ==
    ASSUME RetentionInv, NEW j \in RetentionJobs, CompleteJob(j)
    PROVE  RetentionInv'
<1>1. PICK old \in JobRows : old = job[j]
  BY DEF RetentionInv, RetentionTyped
<1>2. old.status = "running" /\ old.next \in Nat /\ old.next > Len(old.listed)
  BY <1>1 DEF RetentionInv, JobsFollow, RetentionRow, CompleteJob, JobRows
<1>3. PICK x : x = [old EXCEPT !.status = "completed", !.step = "ended"]
  OBVIOUS
<1>4. /\ x \in JobRows /\ x.step = "ended" /\ x.status = "completed" /\ x.next = old.next
      /\ x.listed = old.listed /\ x.action = old.action /\ x.dryRun = old.dryRun
  BY <1>2, <1>3 DEF JobRows
<1>5. JobBecomes(j, x)
  BY <1>1, <1>3, <1>4 DEF JobBecomes, CompleteJob, RetentionInv, RetentionTyped
<1>6. Proceeds(job[j], x) /\ RetentionRow(x)
  BY <1>1, <1>2, <1>4 DEF Proceeds, RetentionRow
<1>7. ~x.dryRun => \A i \in DOMAIN x.listed : i < x.next => Treats(x.action, x.listed[i])
  BY <1>1, <1>2, <1>4 DEF RetentionInv, PassedStay
<1>8. UNCHANGED <<kept, upsert, unsettled, renamed>>
  BY DEF CompleteJob
<1> QED
  BY <1>4, <1>5, <1>6, <1>7, <1>8, JobStep

\* Redaction passes an object that is gone.
LEMMA ReadPropertiesInv ==
    ASSUME RetentionInv, NEW j \in RetentionJobs, ReadProperties(j)
    PROVE  RetentionInv'
<1>1. PICK old \in JobRows, o \in ObjectIds :
        /\ old = job[j] /\ o = Current(j) /\ o = old.listed[old.next]
        /\ old.next \in DOMAIN old.listed /\ old.next \in Nat /\ old.status = "running"
  BY CurrentIsListed DEF RetentionInv, RetentionTyped, ReadProperties
<1>2. ~old.dryRun /\ old.action \in {"redact", "review"} /\ UNCHANGED <<kept, upsert, unsettled, renamed>>
  BY <1>1 DEF ReadProperties
<1>3. CASE ~kept[o].stored /\ old.action = "redact"
  <2>1. job' = Treated(j) /\ Acting(j)
    BY <1>1, <1>3 DEF ReadProperties
  <2>2. PICK x \in JobRows :
          /\ JobBecomes(j, x) /\ Proceeds(job[j], x) /\ RetentionRow(x) /\ x.step = "acting"
          /\ x.next = old.next + 1 /\ x.listed = old.listed /\ x.action = old.action
    BY <1>1, <2>1, TreatedBecomes
  <2>3. Treats(old.action, o)
    BY <1>3 DEF Treats
  <2>4. ASSUME NEW i \in DOMAIN x.listed, i < x.next PROVE Treats(x.action, x.listed[i])
    <3>1. PICK list \in Seq(ObjectIds) : list = old.listed
      BY DEF JobRows
    <3>2. i \in Nat
      BY <2>2, <2>4, <3>1, LenProperties
    <3>3. i < old.next \/ i = old.next
      BY <1>1, <2>2, <2>4, <3>2
    <3>4. i < old.next => Treats(old.action, old.listed[i])
      BY <1>1, <1>2, <2>2, <2>4 DEF RetentionInv, PassedStay
    <3> QED
      BY <1>1, <2>2, <2>3, <3>3, <3>4
  <2> QED
    BY <1>2, <2>2, <2>4, JobStep
<1>4. CASE ~(~kept[o].stored /\ old.action = "redact")
  <2>1. PICK properties \in Properties : properties = kept[o].properties
    BY DEF RetentionInv, RetentionTyped, StoredRows
  <2>2. PICK x : x = [old EXCEPT !.step = "writing", !.read = properties]
    OBVIOUS
  <2>3. /\ x \in JobRows /\ x.step = "writing" /\ x.status = "running" /\ x.next = old.next
        /\ x.listed = old.listed /\ x.action = old.action /\ x.dryRun = old.dryRun /\ x.read = properties
    BY <1>1, <2>2 DEF JobRows
  <2>4. JobBecomes(j, x)
    <3>1. job' = [job EXCEPT ![j].step = "writing", ![j].read = properties]
      BY <1>1, <1>4, <2>1 DEF ReadProperties
    <3> QED
      BY <1>1, <2>2, <2>3, <3>1 DEF JobBecomes, RetentionInv, RetentionTyped
  <2>5. Proceeds(job[j], x) /\ RetentionRow(x)
    BY <1>1, <1>2, <2>3 DEF Proceeds, RetentionRow
  <2>6. \A i \in DOMAIN x.listed : i < x.next => Treats(x.action, x.listed[i])
    BY <1>1, <1>2, <2>3 DEF RetentionInv, PassedStay
  <2> QED
    BY <1>1, <1>2, <2>1, <2>3, <2>4, <2>5, <2>6, JobStep
<1> QED
  BY <1>3, <1>4

\* The steps that write an object.
\* Whatever else reads o notes the write.
LEMMA WriteStep ==
    ASSUME RetentionInv, NEW o \in ObjectIds, NEW row \in StoredRows, kept' = [kept EXCEPT ![o] = row],
           unsettled \subseteq unsettled',
           job' \in [RetentionJobs -> JobRows], \A j \in RetentionJobs : Proceeds(job[j], job'[j]),
           JobsFollow', upsert' \in [Upserts -> UpsertStates],
           \A j \in RetentionJobs : job'[j].step = "writing" =>
             job'[j] = job[j] /\ (Current(j) = o => o \in unsettled'),
           \A u \in Upserts : upsert'[u].step = "writing" =>
             upsert'[u] = upsert[u] /\ (upsert[u].object = o => o \in unsettled'),
           ~kept[o].stored => ~row.stored,
           \A p \in ObjectIds : \A f : p # o /\ <<p, f>> \in renamed => <<p, f>> \in renamed',
           o \notin unsettled' /\ row.stored =>
             /\ kept[o].archived \/ <<o, "status">> \in renamed =>
                  row.archived \/ <<o, "status">> \in renamed'
             /\ kept[o].properties.redacted \/ <<o, "properties">> \in renamed =>
                  row.properties.redacted \/ <<o, "properties">> \in renamed',
           \A u \in Upserts : upsert[u].step = "done" => upsert'[u] = upsert[u],
           ~row.stored => Touched(o, "delete")',
           row.archived => Archivable(o)',
           Warranted(o, row.properties)',
           \A j \in RetentionJobs, y \in JobRows : y = job'[j] /\ ~y.dryRun =>
             \A i \in DOMAIN y.listed : i < y.next =>
               Treats(y.action, y.listed[i])' \/ (y.listed = job[j].listed /\ y.action = job[j].action
                                                    /\ ~job[j].dryRun /\ i < job[j].next)
    PROVE  RetentionInv'
<1>1. kept' \in [ObjectIds -> StoredRows] /\ kept'[o] = row /\ \A p \in ObjectIds : p # o => kept'[p] = kept[p]
  BY DEF RetentionInv, RetentionTyped
<1>2. RetentionTyped'
  BY <1>1 DEF RetentionInv, RetentionTyped
<1>3. ASSUME NEW p \in ObjectIds, NEW action, Treats(action, p)
      PROVE  Treats(action, p)'
  BY <1>1, <1>3 DEF Treats
<1>4. \A p, action : Touched(p, action) => Touched(p, action)'
  BY ComeToStays DEF RetentionInv
<1>5. \A p, properties : Warranted(p, properties) => Warranted(p, properties)'
  BY <1>4 DEF Warranted
<1>11. \A p : Archivable(p) => Archivable(p)'
  BY <1>4 DEF Archivable, NamedArchived
<1>6. ASSUME NEW j \in RetentionJobs, job'[j].step = "writing"
      PROVE  job[j].step = "writing" /\ Current(j)' = Current(j) /\ job'[j] = job[j]
  BY <1>6 DEF Current
<1>7. \A j \in RetentionJobs : job[j].step = "writing" => Current(j) \in ObjectIds
  BY CurrentIsListed
<1>8. ReadsStand'
  BY <1>1, <1>6, <1>7 DEF RetentionInv, ReadsStand
<1>9. PassedStay'
  <2>1. ASSUME NEW j \in RetentionJobs, NEW y \in JobRows, y = job'[j],
               y.status \in {"running", "completed"} /\ ~y.dryRun, NEW i \in DOMAIN y.listed, i < y.next
        PROVE  Treats(y.action, y.listed[i])'
    <3>1. PICK old \in JobRows : old = job[j]
      BY DEF RetentionInv, RetentionTyped
    <3>2. CASE y.listed = old.listed /\ y.action = old.action /\ ~old.dryRun /\ i < old.next
      <4>1. old.status \in {"running", "completed"}
        BY <2>1, <3>1, <3>2 DEF RetentionInv, JobsFollow, RetentionRow, JobRows
      <4>2. Treats(old.action, old.listed[i])
        BY <3>1, <3>2, <4>1 DEF RetentionInv, PassedStay
      <4>3. PICK list \in Seq(ObjectIds) : list = y.listed
        BY DEF JobRows
      <4>4. y.listed[i] \in ObjectIds
        BY <4>3, ElementOfSeq, LenProperties
      <4> QED
        BY <1>3, <3>2, <4>2, <4>4
    <3> QED
      BY <2>1, <3>1, <3>2
  <2> QED
    BY <2>1 DEF PassedStay
<1>10. ChangesAreWarranted'
  <2>1. ASSUME NEW p \in ObjectIds
        PROVE  /\ ~kept'[p].stored => Touched(p, "delete")'
               /\ kept'[p].archived => Archivable(p)'
               /\ Warranted(p, kept[p].properties)'
    <3>1. PICK now : now = kept'[p]
      OBVIOUS
    <3>2. CASE p = o
      BY <1>1, <3>2
    <3>3. CASE p # o
      <4>1. now = kept[p]
        BY <1>1, <3>1, <3>3
      <4>2. (~now.stored => Touched(p, "delete")) /\ (now.archived => Archivable(p)) /\ Warranted(p, now.properties)
        BY <4>1 DEF RetentionInv, ChangesAreWarranted
      <4>3. Warranted(p, now.properties)'
        BY <1>5, <4>2
      <4> QED
        BY <1>4, <1>11, <3>1, <4>2, <4>3 DEF Warranted
    <3> QED
      BY <3>2, <3>3
  <2>2. \A j \in RetentionJobs : job'[j].step = "writing" => Warranted(Current(j), job[j].read)'
    BY <1>5, <1>6 DEF RetentionInv, ChangesAreWarranted
  <2>3. \A u \in Upserts : upsert'[u].step = "writing" =>
         /\ upsert'[u].row.stored
         /\ upsert'[u].row.archived => Archivable(upsert[u].object)'
         /\ Warranted(upsert[u].object, upsert[u].row.properties)'
    BY <1>11, <1>5 DEF RetentionInv, ChangesAreWarranted
  <2> QED
    BY <2>1, <2>2, <2>3 DEF ChangesAreWarranted
<1> QED
  BY <1>2, <1>8, <1>9, <1>10 DEF RetentionInv

\* Who still reads o after job j, or upsert u, wrote it.
LEMMA DeleteOrArchiveInv ==
    ASSUME RetentionInv, NEW j \in RetentionJobs, DeleteOrArchive(j)
    PROVE  RetentionInv'
<1>1. PICK old \in JobRows, o \in ObjectIds :
        /\ old = job[j] /\ o = Current(j) /\ o = old.listed[old.next]
        /\ old.next \in DOMAIN old.listed /\ old.next \in Nat /\ old.status = "running"
  BY CurrentIsListed DEF RetentionInv, RetentionTyped, DeleteOrArchive
<1>2. /\ ~old.dryRun /\ old.action \in {"delete", "archive"} /\ old.step = "acting"
      /\ job' = Treated(j) /\ Acting(j) /\ UNCHANGED upsert
      /\ unsettled' = IF HoldingJobs(o) \cup HoldingUpserts(o) = {} THEN unsettled ELSE unsettled \cup {o}
      /\ renamed' = IF old.action = "archive" THEN renamed \ {<<o, "status">>} ELSE renamed
  BY <1>1 DEF DeleteOrArchive, Unsettles, Acting
<1>3. PICK x \in JobRows :
        /\ JobBecomes(j, x) /\ Proceeds(job[j], x) /\ RetentionRow(x) /\ x.step = "acting"
        /\ x.next = old.next + 1 /\ x.listed = old.listed /\ x.action = old.action /\ x.dryRun = old.dryRun
        /\ x.status = old.status
  BY <1>1, <1>2, TreatedBecomes
<1>4. PICK now \in StoredRows : now = kept[o]
  BY DEF RetentionInv, RetentionTyped
<1>5. PICK row \in StoredRows :
        /\ kept' = [kept EXCEPT ![o] = row] /\ row.properties = now.properties
        /\ row.stored = (now.stored /\ old.action # "delete")
        /\ row.archived = (now.archived \/ old.action = "archive")
  <2>1. CASE old.action = "delete"
    <3>1. PICK row : row = [now EXCEPT !.stored = FALSE]
      OBVIOUS
    <3>2. row \in StoredRows /\ row.properties = now.properties /\ row.stored = FALSE /\ row.archived = now.archived
      BY <3>1 DEF StoredRows
    <3>3. kept' = [kept EXCEPT ![o] = row]
      BY <1>1, <1>4, <2>1, <3>1 DEF DeleteOrArchive
    <3> QED
      BY <2>1, <3>2, <3>3 DEF StoredRows
  <2>2. CASE old.action # "delete"
    <3>1. PICK row : row = [now EXCEPT !.archived = TRUE]
      OBVIOUS
    <3>2. row \in StoredRows /\ row.properties = now.properties /\ row.stored = now.stored /\ row.archived = TRUE
      BY <3>1 DEF StoredRows
    <3>3. kept' = [kept EXCEPT ![o] = row]
      BY <1>1, <1>4, <2>2, <3>1 DEF DeleteOrArchive
    <3> QED
      BY <1>2, <2>2, <3>2, <3>3 DEF StoredRows
  <2> QED
    BY <2>1, <2>2
<1>6. \A k \in RetentionJobs : job'[k].step = "writing" => job'[k] = job[k] /\ (Current(k) = o => o \in unsettled')
  BY <1>2, <1>3 DEF JobBecomes, HoldingJobs, Current
<1>7. \A u \in Upserts : upsert'[u].step = "writing" =>
         upsert'[u] = upsert[u] /\ (upsert[u].object = o => o \in unsettled')
  BY <1>2 DEF HoldingUpserts
<1>8. Touched(o, old.action)'
  <2>1. old.next \in 1 .. x.next
    <3>1. PICK list \in Seq(ObjectIds) : list = old.listed
      BY DEF JobRows
    <3> QED
      BY <1>1, <1>3, <3>1, LenProperties
  <2>2. \E i \in 1 .. x.next : i \in DOMAIN x.listed /\ x.listed[i] = o
    BY <1>1, <1>3, <2>1
  <2> QED
    BY <1>1, <1>2, <1>3, <2>2 DEF Touched, JobBecomes
<1>9. \A k \in RetentionJobs : job'[k] \in JobRows /\ Proceeds(job[k], job'[k])
  BY <1>3, OthersProceed DEF RetentionInv
<1>10. \A p, action : Touched(p, action) => Touched(p, action)'
  BY <1>9, ComeToStays DEF RetentionInv
<1>11. /\ ~now.stored => Touched(o, "delete")
       /\ now.archived => Archivable(o)
       /\ Warranted(o, now.properties)
  BY <1>4 DEF RetentionInv, ChangesAreWarranted
<1>12. /\ ~row.stored => Touched(o, "delete")'
       /\ row.archived => Archivable(o)'
       /\ Warranted(o, row.properties)'
  <2>1. Archivable(o) => Archivable(o)'
    BY <1>2, <1>10 DEF Archivable, NamedArchived
  <2>2. old.action = "archive" => Archivable(o)'
    BY <1>8 DEF Archivable
  <2> QED
    BY <1>2, <1>5, <1>8, <1>10, <1>11, <2>1, <2>2 DEF Warranted
<1>13. Treats(old.action, o)'
  <2>1. kept'[o] = row
    BY <1>5 DEF RetentionInv, RetentionTyped
  <2> QED
    BY <1>2, <1>5, <2>1 DEF Treats, StoredRows
<1>14. ASSUME NEW k \in RetentionJobs, NEW y \in JobRows, y = job'[k], ~y.dryRun,
              NEW i \in DOMAIN y.listed, i < y.next
       PROVE  Treats(y.action, y.listed[i])' \/ (y.listed = job[k].listed /\ y.action = job[k].action
                                                   /\ ~job[k].dryRun /\ i < job[k].next)
  <2>1. CASE k # j
    BY <1>3, <1>14, <2>1 DEF JobBecomes
  <2>2. CASE k = j
    <3>1. y = x
      BY <1>3, <1>14, <2>2 DEF JobBecomes
    <3>2. PICK list \in Seq(ObjectIds) : list = y.listed
      BY DEF JobRows
    <3>3. i \in Nat
      BY <3>2, LenProperties
    <3>4. i < old.next \/ i = old.next
      BY <1>1, <1>3, <1>14, <3>1, <3>3
    <3> QED
      BY <1>1, <1>2, <1>3, <1>13, <2>2, <3>1, <3>4
  <2> QED
    BY <2>1, <2>2
<1>15. JobsFollow' /\ job' \in [RetentionJobs -> JobRows]
  BY <1>3 DEF RetentionInv, JobsFollow, JobBecomes
<1>16. unsettled \subseteq unsettled' /\ upsert' \in [Upserts -> UpsertStates]
  BY <1>2 DEF RetentionInv, RetentionTyped
<1>17. /\ ~now.stored => ~row.stored
       /\ now.archived \/ <<o, "status">> \in renamed => row.archived \/ <<o, "status">> \in renamed'
       /\ now.properties.redacted \/ <<o, "properties">> \in renamed =>
            row.properties.redacted \/ <<o, "properties">> \in renamed'
       /\ \A p \in ObjectIds : \A f : p # o /\ <<p, f>> \in renamed => <<p, f>> \in renamed'
  BY <1>2, <1>5
<1>18. \A u \in Upserts : upsert[u].step = "done" => upsert'[u] = upsert[u]
  BY <1>2
<1> QED
  BY <1>4, <1>5, <1>6, <1>7, <1>9, <1>12, <1>14, <1>15, <1>16, <1>17, <1>18, WriteStep

LEMMA WritePropertiesInv ==
    ASSUME RetentionInv, NEW j \in RetentionJobs, WriteProperties(j)
    PROVE  RetentionInv'
<1>1. PICK old \in JobRows, o \in ObjectIds :
        /\ old = job[j] /\ o = Current(j) /\ o = old.listed[old.next]
        /\ old.next \in DOMAIN old.listed /\ old.next \in Nat /\ old.status = "running"
  BY CurrentIsListed DEF RetentionInv, RetentionTyped, WriteProperties
<1>2. /\ old.step = "writing" /\ job' = Treated(j) /\ UNCHANGED upsert
      /\ unsettled' = IF (HoldingJobs(o) \ {j}) \cup HoldingUpserts(o) = {} THEN unsettled ELSE unsettled \cup {o}
      /\ renamed' = IF old.action = "redact" THEN renamed \ {<<o, "properties">>} ELSE renamed
  BY <1>1 DEF WriteProperties, Unsettles
<1>3. ~old.dryRun /\ old.action \in {"redact", "review"}
  BY <1>1, <1>2 DEF RetentionInv, JobsFollow, RetentionRow
<1>4. PICK x \in JobRows :
        /\ JobBecomes(j, x) /\ Proceeds(job[j], x) /\ RetentionRow(x) /\ x.step = "acting"
        /\ x.next = old.next + 1 /\ x.listed = old.listed /\ x.action = old.action /\ x.dryRun = old.dryRun
        /\ x.status = old.status
  BY <1>1, <1>2, TreatedBecomes
<1>5. PICK now \in StoredRows : now = kept[o]
  BY DEF RetentionInv, RetentionTyped
<1>6. PICK properties \in Properties :
        /\ properties = NewProperties(j)
        /\ properties.redacted <=> old.action = "redact" \/ old.read.redacted
        /\ properties.flagged <=> old.action = "review"
  <2>1. CASE old.action = "redact"
    <3>1. PICK p : p = [redacted |-> TRUE, flagged |-> FALSE]
      OBVIOUS
    <3>2. p \in Properties /\ p.redacted /\ ~p.flagged
      BY <3>1 DEF Properties
    <3>3. p = NewProperties(j)
      BY <1>1, <2>1, <3>1 DEF NewProperties
    <3> QED
      BY <2>1, <3>2, <3>3
  <2>2. CASE old.action # "redact"
    <3>1. PICK read \in Properties : read = old.read
      BY DEF JobRows
    <3>2. PICK p : p = [read EXCEPT !.flagged = TRUE]
      OBVIOUS
    <3>3. p \in Properties /\ p.redacted = read.redacted /\ p.flagged = TRUE
      BY <3>2 DEF Properties
    <3>4. p = NewProperties(j)
      BY <1>1, <2>2, <3>1, <3>2 DEF NewProperties
    <3> QED
      BY <1>3, <2>2, <3>1, <3>3, <3>4 DEF Properties
  <2> QED
    BY <2>1, <2>2
<1>7. PICK row \in StoredRows :
        /\ kept' = [kept EXCEPT ![o] = row] /\ row.properties = properties
        /\ row.stored = now.stored /\ row.archived = now.archived
  <2>1. PICK row : row = [now EXCEPT !.properties = properties]
    OBVIOUS
  <2>2. row \in StoredRows /\ row.properties = properties /\ row.stored = now.stored /\ row.archived = now.archived
    BY <2>1 DEF StoredRows
  <2>3. kept' = [kept EXCEPT ![o] = row]
    BY <1>1, <1>5, <1>6, <2>1 DEF WriteProperties
  <2> QED
    BY <2>2, <2>3
<1>8. \A k \in RetentionJobs : job'[k].step = "writing" => job'[k] = job[k] /\ (Current(k) = o => o \in unsettled')
  BY <1>2, <1>4 DEF JobBecomes, HoldingJobs, Current
<1>9. \A u \in Upserts : upsert'[u].step = "writing" =>
         upsert'[u] = upsert[u] /\ (upsert[u].object = o => o \in unsettled')
  BY <1>2 DEF HoldingUpserts
<1>10. unsettled \subseteq unsettled' /\ upsert' \in [Upserts -> UpsertStates]
  BY <1>2 DEF RetentionInv, RetentionTyped
<1>11. \A k \in RetentionJobs : job'[k] \in JobRows /\ Proceeds(job[k], job'[k])
  BY <1>4, OthersProceed DEF RetentionInv
<1>12. \A p, action : Touched(p, action) => Touched(p, action)'
  BY <1>11, ComeToStays DEF RetentionInv
<1>13. Touched(o, old.action)'
  <2>1. old.next \in 1 .. x.next
    <3>1. PICK list \in Seq(ObjectIds) : list = old.listed
      BY DEF JobRows
    <3> QED
      BY <1>1, <1>4, <3>1, LenProperties
  <2>2. \E i \in 1 .. x.next : i \in DOMAIN x.listed /\ x.listed[i] = o
    BY <1>1, <1>4, <2>1
  <2> QED
    BY <1>1, <1>3, <1>4, <2>2 DEF Touched, JobBecomes
<1>14. /\ ~now.stored => Touched(o, "delete")
       /\ now.archived => Archivable(o)
       /\ Warranted(o, now.properties)
  BY <1>5 DEF RetentionInv, ChangesAreWarranted
<1>15. Warranted(o, old.read)
  BY <1>1, <1>2 DEF RetentionInv, ChangesAreWarranted
<1>16. /\ ~row.stored => Touched(o, "delete")'
       /\ row.archived => Archivable(o)'
       /\ Warranted(o, row.properties)'
  <2>1. Archivable(o) => Archivable(o)'
    BY <1>2, <1>12 DEF Archivable, NamedArchived
  <2> QED
    BY <1>6, <1>7, <1>12, <1>13, <1>14, <1>15, <2>1 DEF Warranted
<1>17. o \notin unsettled' => old.read = now.properties
  BY <1>1, <1>2, <1>5, <1>10 DEF RetentionInv, ReadsStand
<1>18. Treats(old.action, o)'
  <2>1. kept'[o] = row
    BY <1>7 DEF RetentionInv, RetentionTyped
  <2> QED
    BY <1>3, <1>6, <1>7, <2>1 DEF Treats
<1>19. ASSUME NEW k \in RetentionJobs, NEW y \in JobRows, y = job'[k], ~y.dryRun,
              NEW i \in DOMAIN y.listed, i < y.next
       PROVE  Treats(y.action, y.listed[i])' \/ (y.listed = job[k].listed /\ y.action = job[k].action
                                                   /\ ~job[k].dryRun /\ i < job[k].next)
  <2>1. CASE k # j
    BY <1>4, <1>19, <2>1 DEF JobBecomes
  <2>2. CASE k = j
    <3>1. y = x
      BY <1>4, <1>19, <2>2 DEF JobBecomes
    <3>2. PICK list \in Seq(ObjectIds) : list = y.listed
      BY DEF JobRows
    <3>3. i \in Nat
      BY <3>2, LenProperties
    <3>4. i < old.next \/ i = old.next
      BY <1>1, <1>4, <1>19, <3>1, <3>3
    <3> QED
      BY <1>1, <1>3, <1>4, <1>18, <2>2, <3>1, <3>4
  <2> QED
    BY <2>1, <2>2
<1>20. JobsFollow' /\ job' \in [RetentionJobs -> JobRows]
  BY <1>4 DEF RetentionInv, JobsFollow, JobBecomes
<1>21. /\ ~now.stored => ~row.stored
       /\ now.archived \/ <<o, "status">> \in renamed => row.archived \/ <<o, "status">> \in renamed'
       /\ o \notin unsettled' =>
            (now.properties.redacted \/ <<o, "properties">> \in renamed =>
               row.properties.redacted \/ <<o, "properties">> \in renamed')
       /\ \A p \in ObjectIds : \A f : p # o /\ <<p, f>> \in renamed => <<p, f>> \in renamed'
  BY <1>2, <1>6, <1>7, <1>17
<1>22. \A u \in Upserts : upsert[u].step = "done" => upsert'[u] = upsert[u]
  BY <1>2
<1> QED
  BY <1>5, <1>7, <1>8, <1>9, <1>10, <1>11, <1>16, <1>19, <1>20, <1>21, <1>22, WriteStep

LEMMA UpsertReadsInv ==
    ASSUME RetentionInv, NEW u \in Upserts, NEW o \in ObjectIds, NEW input \in UpsertInputs, UpsertReads(u, o, input)
    PROVE  RetentionInv'
<1>1. PICK now \in StoredRows : now = kept[o] /\ now.stored
  BY DEF RetentionInv, RetentionTyped, UpsertReads
<1>2. /\ upsert' \in [Upserts -> UpsertStates]
      /\ upsert'[u] = [step |-> "writing", object |-> o, row |-> now, input |-> input]
      /\ \A v \in Upserts : v # u => upsert'[v] = upsert[v]
      /\ upsert[u].step = "start"
      /\ UNCHANGED <<kept, job, unsettled, renamed>>
  BY <1>1 DEF RetentionInv, RetentionTyped, UpsertReads, UpsertStates
<1>3. RetentionTyped'
  BY <1>2 DEF RetentionInv, RetentionTyped
<1>4. JobsFollow'
  BY <1>2 DEF RetentionInv, JobsFollow
<1>5. ReadsStand'
  BY <1>1, <1>2 DEF RetentionInv, ReadsStand, Current
<1>6. PassedStay'
  BY <1>2 DEF RetentionInv, PassedStay, Treats
<1>7. \A p, action : Touched(p, action)' <=> Touched(p, action)
  BY <1>2 DEF Touched
<1>8. \A p, properties : Warranted(p, properties)' <=> Warranted(p, properties)
  BY <1>7 DEF Warranted
<1>10. \A p : Archivable(p) => Archivable(p)'
  BY <1>2, <1>7 DEF Archivable, NamedArchived
<1>9. ChangesAreWarranted'
  <2>1. /\ now.archived => Archivable(o)
        /\ Warranted(o, now.properties)
    BY <1>1 DEF RetentionInv, ChangesAreWarranted
  <2>2. ASSUME NEW v \in Upserts, upsert'[v].step = "writing"
        PROVE  /\ upsert'[v].row.stored
               /\ upsert'[v].row.archived => Archivable(upsert[v].object)'
               /\ Warranted(upsert[v].object, upsert[v].row.properties)'
    <3>1. CASE v = u
      <4>1. upsert'[v].object = o /\ upsert'[v].row = now
        BY <1>2, <3>1
      <4> QED
        BY <1>1, <1>7, <1>10, <2>1, <4>1 DEF Warranted
    <3>2. CASE v # u
      <4>1. upsert'[v] = upsert[v]
        BY <1>2, <3>2
      <4> QED
        BY <1>8, <1>10, <2>2, <4>1 DEF RetentionInv, ChangesAreWarranted
    <3> QED
      BY <3>1, <3>2
  <2>3. \A j \in RetentionJobs : job'[j].step = "writing" => Warranted(Current(j), job[j].read)'
    BY <1>2, <1>8 DEF RetentionInv, ChangesAreWarranted, Current
  <2>4. \A p \in ObjectIds :
         /\ ~kept'[p].stored => Touched(p, "delete")'
         /\ kept'[p].archived => Archivable(p)'
         /\ Warranted(p, kept[p].properties)'
    BY <1>2, <1>7, <1>8, <1>10 DEF RetentionInv, ChangesAreWarranted
  <2> QED
    BY <2>2, <2>3, <2>4 DEF ChangesAreWarranted
<1> QED
  BY <1>3, <1>4, <1>5, <1>6, <1>9 DEF RetentionInv

LEMMA UpsertWritesInv ==
    ASSUME RetentionInv, NEW u \in Upserts, UpsertWrites(u)
    PROVE  RetentionInv'
<1>1. PICK held \in UpsertStates, o \in ObjectIds, now \in StoredRows :
        held = upsert[u] /\ held.step = "writing" /\ o = held.object /\ now = kept[o]
  BY DEF RetentionInv, RetentionTyped, UpsertWrites
<1>2. PICK row \in StoredRows :
        /\ row = IF now.stored THEN Merged(held.row, held.input) ELSE now
        /\ now.stored =>
             /\ row.stored = held.row.stored
             /\ held.input.status = "none" => row.archived = held.row.archived
             /\ held.input.status # "none" => row.archived = (held.input.status = "archived")
             /\ row.properties.redacted = (held.row.properties.redacted /\ ~held.input.properties)
             /\ row.properties.flagged = held.row.properties.flagged
  <2>1. PICK old \in StoredRows, input \in UpsertInputs : old = held.row /\ input = held.input
    BY DEF UpsertStates
  <2>2. PICK merged : merged = Merged(old, input)
    OBVIOUS
  <2>3. /\ merged \in StoredRows
        /\ merged.stored = old.stored
        /\ input.status = "none" => merged.archived = old.archived
        /\ input.status # "none" => merged.archived = (input.status = "archived")
        /\ merged.properties.redacted = (old.properties.redacted /\ ~input.properties)
        /\ merged.properties.flagged = old.properties.flagged
    BY <2>2 DEF Merged, StoredRows, Properties, UpsertInputs
  <2> QED
    BY <2>1, <2>2, <2>3
<1>3. kept' = [kept EXCEPT ![o] = row]
  <2>1. kept = [kept EXCEPT ![o] = now]
    BY <1>1 DEF RetentionInv, RetentionTyped
  <2> QED
    BY <1>1, <1>2, <2>1 DEF UpsertWrites
<1>4. /\ upsert' \in [Upserts -> UpsertStates] /\ upsert'[u].step = "done"
      /\ \A v \in Upserts : v # u => upsert'[v] = upsert[v]
      /\ upsert'[u].object = o /\ upsert'[u].input = held.input
      /\ renamed' = renamed \cup ({o} \X NamedFields(held.input))
      /\ UNCHANGED job
      /\ unsettled' = IF HoldingJobs(o) \cup (HoldingUpserts(o) \ {u}) = {} THEN unsettled ELSE unsettled \cup {o}
  BY <1>1 DEF RetentionInv, RetentionTyped, UpsertWrites, UpsertStates, Unsettles
<1>5. job' \in [RetentionJobs -> JobRows] /\ JobsFollow' /\ unsettled \subseteq unsettled'
  BY <1>4 DEF RetentionInv, RetentionTyped, JobsFollow
<1>6. \A j \in RetentionJobs : Proceeds(job[j], job'[j])
  BY <1>4 DEF RetentionInv, RetentionTyped, JobRows, Proceeds
<1>7. \A j \in RetentionJobs : job'[j].step = "writing" => job'[j] = job[j] /\ (Current(j) = o => o \in unsettled')
  BY <1>4 DEF HoldingJobs, Current
<1>8. \A v \in Upserts : upsert'[v].step = "writing" =>
         upsert'[v] = upsert[v] /\ (upsert[v].object = o => o \in unsettled')
  BY <1>4 DEF HoldingUpserts
<1>9. \A p, action : Touched(p, action)' <=> Touched(p, action)
  BY <1>4 DEF Touched
<1>10. /\ ~now.stored => Touched(o, "delete")
       /\ now.archived => Archivable(o)
       /\ Warranted(o, now.properties)
  BY <1>1 DEF RetentionInv, ChangesAreWarranted
<1>11. /\ held.row.stored
       /\ held.row.archived => Archivable(o)
       /\ Warranted(o, held.row.properties)
  BY <1>1 DEF RetentionInv, ChangesAreWarranted
<1>17. \A v \in Upserts : upsert[v].step = "done" => upsert'[v] = upsert[v]
  BY <1>1, <1>4
<1>12. /\ ~row.stored => Touched(o, "delete")'
       /\ row.archived => Archivable(o)'
       /\ Warranted(o, row.properties)'
  <2>1. Archivable(o) => Archivable(o)'
    BY <1>9, <1>17 DEF Archivable, NamedArchived
  <2>2. held.input.status = "archived" => Archivable(o)'
    BY <1>4 DEF Archivable, NamedArchived
  <2> QED
    BY <1>2, <1>9, <1>10, <1>11, <2>1, <2>2 DEF Warranted
<1>13. o \notin unsettled' => held.row = now
  BY <1>1, <1>5 DEF RetentionInv, ReadsStand
<1>14. /\ ~now.stored => ~row.stored
       /\ o \notin unsettled' /\ row.stored =>
            /\ now.archived \/ <<o, "status">> \in renamed => row.archived \/ <<o, "status">> \in renamed'
            /\ now.properties.redacted \/ <<o, "properties">> \in renamed =>
                 row.properties.redacted \/ <<o, "properties">> \in renamed'
  <2>1. held.input.status # "none" => <<o, "status">> \in renamed'
    BY <1>4 DEF NamedFields
  <2>2. held.input.properties => <<o, "properties">> \in renamed'
    BY <1>4 DEF NamedFields
  <2>3. \A x \in renamed : x \in renamed'
    BY <1>4
  <2> QED
    BY <1>2, <1>13, <2>1, <2>2, <2>3
<1>15. \A p \in ObjectIds : \A f : p # o /\ <<p, f>> \in renamed => <<p, f>> \in renamed'
  BY <1>4
<1>16. ASSUME NEW j \in RetentionJobs, NEW y \in JobRows, y = job'[j], ~y.dryRun,
              NEW i \in DOMAIN y.listed, i < y.next
       PROVE  Treats(y.action, y.listed[i])' \/ (y.listed = job[j].listed /\ y.action = job[j].action
                                                   /\ ~job[j].dryRun /\ i < job[j].next)
  BY <1>4, <1>16
<1> QED
  BY <1>1, <1>3, <1>4, <1>5, <1>6, <1>7, <1>8, <1>12, <1>14, <1>15, <1>16, <1>17, WriteStep

LEMMA RetentionNextInv == RetentionInv /\ [RetentionNext]_retentionVars => RetentionInv'
<1> SUFFICES ASSUME RetentionInv, [RetentionNext]_retentionVars PROVE RetentionInv'
  OBVIOUS
<1>1. ASSUME NEW j \in RetentionJobs,
             \/ \E action \in RetentionActions, dryRun \in BOOLEAN : StartJob(j, action, dryRun)
             \/ ListExpired(j) \/ JobThrows(j) \/ SkipInDryRun(j) \/ DeleteOrArchive(j)
             \/ ReadProperties(j) \/ WriteProperties(j) \/ CompleteJob(j)
      PROVE  RetentionInv'
  BY <1>1, StartJobInv, ListExpiredInv, JobThrowsInv, SkipInDryRunInv, DeleteOrArchiveInv,
     ReadPropertiesInv, WritePropertiesInv, CompleteJobInv
<1>2. ASSUME NEW u \in Upserts, UpsertWrites(u) \/ \E o \in ObjectIds, input \in UpsertInputs : UpsertReads(u, o, input)
      PROVE  RetentionInv'
  BY <1>2, UpsertWritesInv, UpsertReadsInv
<1>3. ASSUME UNCHANGED retentionVars PROVE RetentionInv'
  BY <1>3 DEF retentionVars, RetentionInv, RetentionTyped, JobsFollow, ReadsStand, PassedStay, Treats,
     ChangesAreWarranted, Archivable, NamedArchived, Warranted, Touched, Current
<1> QED
  BY <1>1, <1>2, <1>3 DEF RetentionNext

\* What a completed retention job reports has been done and stays done, and objects change
\* only at the hands of a real job that came to them, or as an upsert named
\* (runRetentionJob, retention-service.ts:62, object-service.ts:74): for any objects, jobs,
\* dry runs and upserts, in any order.
THEOREM RetentionIsHonest == RetentionSpec => []RetentionIsTrue
<1>1. RetentionSpec => []RetentionInv
  BY RetentionInitInv, RetentionNextInv, PTL DEF RetentionSpec
<1>2. RetentionInv => RetentionIsTrue
  <2> SUFFICES ASSUME RetentionInv PROVE RetentionIsTrue
    OBVIOUS
  <2>1. CompletedRetentionHolds
    <3> SUFFICES ASSUME NEW j \in RetentionJobs, Finished(j), NEW o \in ListedBy(j)
                 PROVE  Treats(job[j].action, o)
      BY DEF CompletedRetentionHolds, Treats
    <3>1. PICK list \in Seq(ObjectIds) : list = job[j].listed
      BY DEF RetentionInv, RetentionTyped, JobRows
    <3>2. PICK i \in DOMAIN list : o = list[i]
      BY <3>1 DEF ListedBy
    <3>3. job[j].status = "completed" /\ ~job[j].dryRun /\ job[j].next > Len(list) /\ job[j].next \in Nat
      BY <3>1 DEF Finished, RetentionInv, RetentionTyped, JobRows, JobsFollow, RetentionRow
    <3>4. i < job[j].next
      BY <3>1, <3>2, <3>3, LenProperties
    <3> QED
      BY <3>1, <3>2, <3>3, <3>4 DEF RetentionInv, PassedStay
  <2>2. OnlyRealJobsTouch
    BY DEF RetentionInv, ChangesAreWarranted, Archivable, Warranted, Touched, OnlyRealJobsTouch
  <2> QED
    BY <2>1, <2>2 DEF RetentionIsTrue
<1> QED
  BY <1>1, <1>2, PTL

\* A job lists what had expired at most, and stays within its list; what is noted to be
\* unsettled is an object, and what upserts name are fields of objects.
Within(x) == Len(x.listed) <= Len(ExpiredObjects) /\ x.next <= Len(x.listed) + 1

JobsWithin == \A j \in RetentionJobs : Within(job[j])

Noted == unsettled \subseteq ObjectIds /\ renamed \subseteq ObjectIds \X {"status", "properties"}

LEMMA JobsStartWithin == RetentionInit => JobsWithin
<1> SUFFICES ASSUME RetentionInit, NEW j \in RetentionJobs PROVE Within(job[j])
  BY DEF JobsWithin
<1>1. job[j].listed = << >> /\ job[j].next = 1
  BY DEF RetentionInit
<1> QED
  BY <1>1, EmptySeq, ExpiredAreListed DEF Within

LEMMA JobsStayWithin == RetentionInv /\ JobsWithin /\ [RetentionNext]_retentionVars => JobsWithin'
<1> SUFFICES ASSUME RetentionInv, JobsWithin, [RetentionNext]_retentionVars PROVE JobsWithin'
  OBVIOUS
<1>1. ASSUME NEW j \in RetentionJobs, \A i \in RetentionJobs \ {j} : job'[i] = job[i],
             job'[j].listed = job[j].listed /\ job'[j].next = job[j].next
      PROVE  JobsWithin'
  BY <1>1 DEF JobsWithin, Within
<1>2. ASSUME NEW j \in RetentionJobs, job' = Treated(j), Acting(j) \/ job[j].step = "writing"
      PROVE  JobsWithin'
  <2>1. PICK x \in JobRows :
          JobBecomes(j, x) /\ x.next = job[j].next + 1 /\ x.listed = job[j].listed
    BY <1>2, TreatedBecomes
  <2>2. job[j].next \in DOMAIN job[j].listed /\ job[j] \in JobRows
    BY <1>2, CurrentIsListed DEF RetentionInv, RetentionTyped
  <2>3. PICK list \in Seq(ObjectIds) : list = job[j].listed
    BY <2>2 DEF JobRows
  <2>4. x.next <= Len(x.listed) + 1
    BY <2>1, <2>2, <2>3, LenProperties
  <2> QED
    BY <2>1, <2>4 DEF JobBecomes, JobsWithin, Within
<1>3. ASSUME NEW j \in RetentionJobs, NEW action \in RetentionActions, NEW dryRun \in BOOLEAN,
             StartJob(j, action, dryRun)
      PROVE  JobsWithin'
  <2>1. job[j] \in JobRows /\ DOMAIN job = RetentionJobs
    BY DEF RetentionInv, RetentionTyped
  <2>2. /\ job'[j].listed = job[j].listed /\ job'[j].next = job[j].next
        /\ \A i \in RetentionJobs \ {j} : job'[i] = job[i]
    BY <1>3, <2>1 DEF StartJob, JobRows
  <2> QED
    BY <1>1, <2>2
<1>4. ASSUME NEW j \in RetentionJobs, ListExpired(j) PROVE JobsWithin'
  <2>1. PICK list \in Seq(ObjectIds) : list = StillStored /\ Len(list) <= Len(ExpiredObjects)
    BY StoredAreListed
  <2>2. job[j] \in JobRows /\ job[j].next = 1
    BY <1>4 DEF RetentionInv, RetentionTyped, JobsFollow, RetentionRow, ListExpired
  <2>3. job'[j].listed = list /\ job'[j].next = 1 /\ \A i \in RetentionJobs \ {j} : job'[i] = job[i]
    BY <1>4, <2>1, <2>2 DEF ListExpired, RetentionInv, RetentionTyped, JobRows
  <2> QED
    BY <2>1, <2>3, LenProperties DEF JobsWithin, Within
<1>5. ASSUME NEW j \in RetentionJobs, JobThrows(j) \/ CompleteJob(j) PROVE JobsWithin'
  <2>1. job[j] \in JobRows /\ DOMAIN job = RetentionJobs
    BY DEF RetentionInv, RetentionTyped
  <2>2. /\ job'[j].listed = job[j].listed /\ job'[j].next = job[j].next
        /\ \A i \in RetentionJobs \ {j} : job'[i] = job[i]
    BY <1>5, <2>1 DEF JobThrows, CompleteJob, JobRows
  <2> QED
    BY <1>1, <2>2
<1>6. ASSUME NEW j \in RetentionJobs, SkipInDryRun(j) \/ DeleteOrArchive(j) \/ WriteProperties(j)
      PROVE  JobsWithin'
  BY <1>6, <1>2 DEF SkipInDryRun, DeleteOrArchive, WriteProperties
<1>7. ASSUME NEW j \in RetentionJobs, ReadProperties(j) PROVE JobsWithin'
  <2>1. CASE job' = Treated(j)
    BY <1>2, <1>7, <2>1 DEF ReadProperties
  <2>2. CASE job' # Treated(j)
    <3>1. job' = [job EXCEPT ![j].step = "writing", ![j].read = kept[Current(j)].properties]
      BY <1>7, <2>2 DEF ReadProperties
    <3> QED
      BY <1>1, <3>1 DEF RetentionInv, RetentionTyped, JobRows
  <2> QED
    BY <2>1, <2>2
<1>8. ASSUME UNCHANGED job PROVE JobsWithin'
  BY <1>8 DEF JobsWithin
<1>9. ASSUME NEW u \in Upserts, UpsertWrites(u) \/ \E o \in ObjectIds, input \in UpsertInputs : UpsertReads(u, o, input)
      PROVE  JobsWithin'
  BY <1>8, <1>9 DEF UpsertWrites, UpsertReads
<1> QED
  BY <1>3, <1>4, <1>5, <1>6, <1>7, <1>8, <1>9 DEF RetentionNext, retentionVars

LEMMA RetentionIsTyped == RetentionInv /\ JobsWithin /\ Noted => RetentionTypeOK
<1> SUFFICES ASSUME RetentionInv, JobsWithin, Noted PROVE RetentionTypeOK
  OBVIOUS
<1>1. \A o \in ObjectIds : kept[o].properties \in Properties
  BY DEF RetentionInv, RetentionTyped, StoredRows
<1>2. ASSUME NEW j \in RetentionJobs
      PROVE  job[j].next \in 1 .. Len(ExpiredObjects) + 1
  <2>1. job[j] \in JobRows /\ Within(job[j])
    BY DEF RetentionInv, RetentionTyped, JobsWithin
  <2>2. PICK next \in Nat \ {0}, listed \in Seq(ObjectIds) : next = job[j].next /\ listed = job[j].listed
    BY <2>1 DEF JobRows
  <2>3. next <= Len(listed) + 1 /\ Len(listed) <= Len(ExpiredObjects) /\ Len(listed) \in Nat
    BY <2>1, <2>2, LenProperties DEF Within
  <2> QED
    BY <2>2, <2>3, ExpiredAreListed DEF Within
<1>3. \A j \in RetentionJobs :
        /\ job[j].status \in {"none", "running", "completed", "blocked"}
        /\ job[j].step \in {"start", "listing", "acting", "writing", "stuck", "ended"}
  BY DEF RetentionInv, RetentionTyped, JobRows
<1> QED
  BY <1>1, <1>2, <1>3 DEF RetentionTypeOK, Noted

LEMMA NothingIsNoted == RetentionInit => Noted
BY DEF RetentionInit, Noted

LEMMA ObjectsAreNoted == RetentionInv /\ Noted /\ [RetentionNext]_retentionVars => Noted'
<1> SUFFICES ASSUME RetentionInv, Noted, [RetentionNext]_retentionVars
             PROVE  Noted'
  OBVIOUS
<1>1. \A o \in ObjectIds : \A holders : Unsettles(o, holders) /\ renamed' \subseteq renamed => Noted'
  BY DEF Unsettles, Noted
<1>2. ASSUME NEW j \in RetentionJobs, DeleteOrArchive(j) \/ WriteProperties(j)
      PROVE  Noted'
  BY <1>1, <1>2, CurrentIsListed DEF DeleteOrArchive, WriteProperties
<1>3. ASSUME NEW u \in Upserts, UpsertWrites(u) PROVE Noted'
  <2>1. PICK o \in ObjectIds : o = upsert[u].object
    BY <1>3 DEF UpsertWrites, RetentionInv, RetentionTyped
  <2>2. unsettled' \subseteq ObjectIds
    BY <1>3, <2>1 DEF UpsertWrites, Unsettles, Noted
  <2>3. renamed' \subseteq ObjectIds \X {"status", "properties"}
    <3>1. NamedFields(upsert[u].input) \subseteq {"status", "properties"}
      BY DEF NamedFields
    <3> QED
      BY <1>3, <2>1, <3>1 DEF UpsertWrites, Noted
  <2> QED
    BY <2>2, <2>3 DEF Noted
<1>4. ASSUME UNCHANGED <<unsettled, renamed>> PROVE Noted'
  BY <1>4 DEF Noted
<1> QED
  BY <1>2, <1>3, <1>4 DEF RetentionNext, retentionVars, StartJob, ListExpired, JobThrows, SkipInDryRun,
     ReadProperties, CompleteJob, UpsertReads

\* Retention keeps its types: a job lists what had expired at most, and stays within its list.
THEOREM RetentionTypeCorrect == RetentionSpec => []RetentionTypeOK
<1>1. RetentionInit => JobsWithin
  BY JobsStartWithin
<1>2. RetentionInv /\ JobsWithin /\ [RetentionNext]_retentionVars => JobsWithin'
  BY JobsStayWithin
<1>3. RetentionInv /\ JobsWithin /\ Noted => RetentionTypeOK
  BY RetentionIsTyped
<1>4. RetentionInit => Noted
  BY NothingIsNoted
<1>5. RetentionInv /\ Noted /\ [RetentionNext]_retentionVars => Noted'
  BY ObjectsAreNoted
<1> QED
  BY <1>1, <1>2, <1>3, <1>4, <1>5, RetentionInitInv, RetentionNextInv, PTL DEF RetentionSpec

-----------------------------------------------------------------------------
\* Access.
Levels == {Sensitivity[i] : i \in DOMAIN Sensitivity}

LEMMA SensitivityIsRanked ==
    /\ \A i \in 1 .. 9 : SensitivityOf(Sensitivity[i]) = i /\ (Sensitivity[i] \in Sensitive <=> i <= 6)
    /\ \A c \in Levels : \E i \in 1 .. 9 : c = Sensitivity[i]
<1>1. DOMAIN Sensitivity = 1 .. 9
  BY DEF Sensitivity
<1>2. \A i, j \in 1 .. 9 : Sensitivity[i] = Sensitivity[j] => i = j
  BY DEF Sensitivity
<1>3. ASSUME NEW i \in 1 .. 9 PROVE SensitivityOf(Sensitivity[i]) = i
  BY <1>1, <1>2 DEF SensitivityOf
<1>4. ASSUME NEW i \in 1 .. 9 PROVE Sensitivity[i] \in Sensitive <=> i <= 6
  BY DEF Sensitivity, Sensitive
<1> QED
  BY <1>1, <1>3, <1>4 DEF Levels

LEMMA MoreSensitiveWins ==
    ASSUME NEW a \in Levels, NEW b \in Levels
    PROVE  /\ MoreSensitive(a, b) \in Levels
           /\ MoreSensitive(a, b) \in Sensitive <=> a \in Sensitive \/ b \in Sensitive
<1>1. PICK i \in 1 .. 9 : a = Sensitivity[i]
  BY SensitivityIsRanked
<1>2. PICK j \in 1 .. 9 : b = Sensitivity[j]
  BY SensitivityIsRanked
<1>3. SensitivityOf(a) = i /\ SensitivityOf(b) = j /\ (a \in Sensitive <=> i <= 6) /\ (b \in Sensitive <=> j <= 6)
  BY <1>1, <1>2, SensitivityIsRanked
<1>4. CASE i <= j
  BY <1>3, <1>4 DEF MoreSensitive
<1>5. CASE ~(i <= j)
  BY <1>3, <1>5 DEF MoreSensitive
<1> QED
  BY <1>4, <1>5

\* The reduction is sensitive exactly when one of the records is.
LEMMA ReductionIsExact ==
    ASSUME NEW records \in Seq(Levels)
    PROVE  EffectiveClassification(records) \cap Sensitive # {} <=>
             \E i \in DOMAIN records : records[i] \in Sensitive
<1> DEFINE N == Len(records)
           Step(f) == [i \in DOMAIN records |->
                         IF i = 1 THEN records[1] ELSE MoreSensitive(f[i - 1], records[i])]
           reduced == CHOOSE f : f = Step(f)
<1>1. N \in Nat /\ DOMAIN records = 1 .. N /\ \A i \in 1 .. N : records[i] \in Levels
  BY LenProperties, ElementOfSeq
<1>2. CASE N = 0
  BY <1>1, <1>2, EmptySeq DEF EffectiveClassification
<1>3. CASE N # 0
  <2>1. PICK G : G = [p \in (1 .. N) \X Levels |->
                        IF p[1] = 1 THEN records[1] ELSE MoreSensitive(p[2], records[p[1]])]
    OBVIOUS
  <2>2. \A i \in 1 .. N, c \in Levels :
          G[<<i, c>>] = IF i = 1 THEN records[1] ELSE MoreSensitive(c, records[i])
    BY <2>1
  <2>3. G \in [(1 .. N) \X Levels -> Levels]
    BY <1>1, <1>3, <2>1, MoreSensitiveWins
  <2>4. 1 \in 1 .. N /\ records[1] \in Levels
    BY <1>1, <1>3
  <2>5. PICK g \in [0 .. N -> Levels] : g[0] = records[1] /\ \A i \in 1 .. N : g[i] = G[<<i, g[i - 1]>>]
    <3>1. PICK n \in Nat : n = N
      BY <1>1
    <3>2. PICK first \in Levels : first = records[1]
      BY <2>4
    <3>3. G \in [(1 .. n) \X Levels -> Levels]
      BY <2>3, <3>1
    <3>4. StepByStep(n, Levels, first, G)
      BY <3>3, RecursionExists
    <3> QED
      BY <3>1, <3>2, <3>4 DEF StepByStep
  <2>6. PICK f : f = [i \in 1 .. N |-> g[i]]
    OBVIOUS
  <2>7. f = Step(f)
    <3>1. ASSUME NEW i \in 1 .. N PROVE g[i] = IF i = 1 THEN records[1] ELSE MoreSensitive(f[i - 1], records[i])
      <4>1. i - 1 \in 0 .. N /\ g[i - 1] \in Levels /\ (i # 1 => i - 1 \in 1 .. N)
        BY <1>1, <2>5
      <4> QED
        BY <2>2, <2>5, <2>6, <4>1
    <3> QED
      BY <1>1, <2>6, <3>1
  <2>8. reduced = Step(reduced)
    BY <2>7
  <2>9. \A i \in 1 .. N : reduced[i] = IF i = 1 THEN records[1] ELSE MoreSensitive(reduced[i - 1], records[i])
    BY <1>1, <2>8
  <2>10. EffectiveClassification(records) = {reduced[N]}
    BY <1>1, <1>3, EmptySeq DEF EffectiveClassification
  <2> HIDE DEF reduced
  <2> DEFINE Right(i) == /\ reduced[i] \in Levels
                         /\ reduced[i] \in Sensitive <=> \E k \in 1 .. i : records[k] \in Sensitive
             Bad == {i \in 1 .. N : ~Right(i)}
  <2>11. Bad = {}
    <3>1. SUFFICES ASSUME Bad # {} PROVE FALSE
      OBVIOUS
    <3>2. PICK i \in Bad : \A j \in Bad : i <= j
      <4>1. Bad \subseteq Nat
        BY <1>1
      <4> QED
        BY <3>1, <4>1, LeastNatural
    <3>3. CASE i = 1
      BY <2>4, <2>9, <3>2, <3>3
    <3>4. CASE i # 1
      <4>1. i \in 1 .. N /\ i - 1 \in 1 .. N /\ ~(i <= i - 1)
        BY <1>1, <3>2, <3>4
      <4>2. Right(i - 1)
        BY <3>2, <4>1
      <4>3. Right(i)
        <5>1. reduced[i] = MoreSensitive(reduced[i - 1], records[i]) /\ records[i] \in Levels
          BY <1>1, <2>9, <3>4, <4>1
        <5>2. /\ reduced[i] \in Levels
              /\ reduced[i] \in Sensitive <=> reduced[i - 1] \in Sensitive \/ records[i] \in Sensitive
          BY <4>2, <5>1, MoreSensitiveWins
        <5>3. \A k \in 1 .. i : k \in 1 .. i - 1 \/ k = i
          BY <4>1
        <5>4. 1 .. i - 1 \subseteq 1 .. i /\ i \in 1 .. i
          BY <4>1
        <5> QED
          BY <4>2, <5>2, <5>3, <5>4
      <4> QED
        BY <3>2, <4>3
    <3> QED
      BY <3>3, <3>4
  <2>12. N \in 1 .. N
    BY <1>1, <1>3
  <2> QED
    BY <1>1, <2>10, <2>11, <2>12
<1> QED
  BY <1>1, <1>2, <1>3

\* What applies to a query.
Applying(q) == {a \in q.acls : MatchesPrincipal(a) /\ a.permission \in {q.permission, "admin"}}
Effects(q) == {a.effect : a \in Applying(q)}
ActiveRules(q) == {p.ruleType : p \in {p \in q.policies : p.status = "active"}}

LEMMA EvaluationIsExact ==
    ASSUME NEW q, {q.sameTenant, q.rolePermission} \subseteq BOOLEAN
    PROVE  /\ EvaluateObjectAccess(q).allowed \in BOOLEAN
           /\ EvaluateObjectAccess(q).allowed <=>
                /\ q.sameTenant
                /\ "deny" \notin Effects(q) \cup ActiveRules(q)
                /\ "allow" \in Effects(q) \cup ActiveRules(q) \/ q.rolePermission
           /\ EvaluateObjectAccess(q).allowed =>
                EvaluateObjectAccess(q).redacted =
                  (\E p \in q.policies : p.status = "active" /\ p.ruleType \in {"redact", "mask"})
<1> DEFINE acl(effect) == \E a \in Applying(q) : a.effect = effect
           policy(ruleType) == \E p \in q.policies : p.status = "active" /\ p.ruleType = ruleType
           masked == \E p \in q.policies : p.status = "active" /\ p.ruleType \in {"redact", "mask"}
<1>1. \A e : acl(e) <=> e \in Effects(q)
  BY DEF Effects
<1>2. \A e : policy(e) <=> e \in ActiveRules(q)
  BY DEF ActiveRules
<1>3. EvaluateObjectAccess(q) =
        IF ~q.sameTenant THEN Decision(FALSE, "tenant mismatch", q)
        ELSE IF acl("deny") THEN Decision(FALSE, "explicit deny ACL", q)
        ELSE IF policy("deny") THEN Decision(FALSE, "object access policy deny", q)
        ELSE IF acl("allow") THEN Decision(TRUE, "explicit allow ACL", q)
        ELSE IF q.rolePermission THEN Decision(TRUE, "role permission", q)
        ELSE IF policy("allow") THEN Decision(TRUE, "object access policy allow", q)
        ELSE Decision(FALSE, "default deny", q)
  BY DEF EvaluateObjectAccess, Applying
<1>4. \A why : Decision(FALSE, why, q).allowed = FALSE
  BY DEF Decision
<1>5. \A why : Decision(TRUE, why, q).allowed = TRUE /\ Decision(TRUE, why, q).redacted = masked
  BY DEF Decision
<1> HIDE DEF acl, policy, masked
<1>6. \/ EvaluateObjectAccess(q).allowed = FALSE
      \/ EvaluateObjectAccess(q).allowed = TRUE /\ EvaluateObjectAccess(q).redacted = masked
  BY <1>3, <1>4, <1>5
<1>7. EvaluateObjectAccess(q).allowed = TRUE <=>
        /\ q.sameTenant /\ ~acl("deny") /\ ~policy("deny")
        /\ acl("allow") \/ policy("allow") \/ q.rolePermission
  BY <1>3, <1>4, <1>5
<1> QED
  BY <1>1, <1>2, <1>6, <1>7 DEF masked

\* One more row for the caller.
LEMMA OneRowMore ==
    ASSUME NEW q \in AccessQueries, NEW effect
    PROVE  LET row == [principalType |-> "user", principalId |-> UserId, permission |-> q.permission, effect |-> effect]
               r == [q EXCEPT !.acls = @ \cup {row}]
           IN  /\ {r.sameTenant, r.rolePermission} \subseteq BOOLEAN
               /\ Effects(r) = Effects(q) \cup {effect} /\ ActiveRules(r) = ActiveRules(q)
               /\ r.sameTenant = q.sameTenant /\ r.rolePermission = q.rolePermission /\ r.policies = q.policies
<1> DEFINE row == [principalType |-> "user", principalId |-> UserId, permission |-> q.permission, effect |-> effect]
           r == [q EXCEPT !.acls = @ \cup {row}]
<1>1. "acls" \in DOMAIN q /\ {q.sameTenant, q.rolePermission} \subseteq BOOLEAN
  BY AccessAssumption
<1>2. r.acls = q.acls \cup {row}
  BY <1>1
<1>3. r.sameTenant = q.sameTenant /\ r.rolePermission = q.rolePermission /\ r.policies = q.policies
      /\ r.permission = q.permission
  OBVIOUS
<1>4. row.principalType = "user" /\ row.principalId = UserId /\ row.permission = q.permission /\ row.effect = effect
  OBVIOUS
<1>5. MatchesPrincipal(row)
  BY <1>4 DEF MatchesPrincipal
<1> HIDE DEF row, r
<1>6. Applying(r) = Applying(q) \cup {row}
  BY <1>2, <1>3, <1>4, <1>5 DEF Applying
<1>7. Effects(r) = Effects(q) \cup {effect}
  BY <1>4, <1>6 DEF Effects
<1>8. ActiveRules(r) = ActiveRules(q)
  BY <1>3 DEF ActiveRules
<1> QED
  BY <1>1, <1>3, <1>7, <1>8 DEF row, r

\* The answer is what the engine decides, and its audit follows from it.
AccessInv ==
    /\ query \in AccessQueries
    /\ answer # Unanswered =>
         /\ answer.decision = EvaluateObjectAccess(query)
         /\ answer.audit = IF ~answer.decision.allowed THEN "denied"
                           ELSE IF EffectiveClassification(query.records) \cap Sensitive # {}
                                THEN "sensitive_allowed" ELSE "none"

LEMMA AccessStarts == AccessInit => AccessInv
BY DEF AccessInit, AccessInv

LEMMA AccessStepKeeps == AccessInv /\ [EnforceObjectAccess]_accessVars => AccessInv'
<1> SUFFICES ASSUME AccessInv, [EnforceObjectAccess]_accessVars PROVE AccessInv'
  OBVIOUS
<1>1. CASE EnforceObjectAccess
  <2>1. PICK d : d = EvaluateObjectAccess(query)
    OBVIOUS
  <2>2. PICK a : a = IF ~d.allowed THEN "denied"
                     ELSE IF EffectiveClassification(query.records) \cap Sensitive # {}
                          THEN "sensitive_allowed" ELSE "none"
    OBVIOUS
  <2>3. answer' = [decision |-> d, audit |-> a] /\ query' = query
    BY <1>1, <2>1, <2>2 DEF EnforceObjectAccess
  <2>4. answer'.decision = d /\ answer'.audit = a
    BY <2>3
  <2>5. answer'.decision = EvaluateObjectAccess(query)'
    BY <2>1, <2>3, <2>4
  <2> QED
    BY <2>2, <2>3, <2>4, <2>5 DEF AccessInv
<1>2. CASE UNCHANGED accessVars
  BY <1>2 DEF accessVars, AccessInv
<1> QED
  BY <1>1, <1>2

LEMMA AccessKeepsInvariant == AccessSpec => []AccessInv
<1>1. AccessInit => AccessInv
  BY AccessStarts
<1>2. AccessInv /\ [EnforceObjectAccess]_accessVars => AccessInv'
  BY AccessStepKeeps
<1> QED
  BY <1>1, <1>2, PTL DEF AccessSpec

\* Access is allowed exactly when the rows, policies and permissions say so, a denial on
\* top closes it, an allowance on top neither closes it nor sheds its redaction, and an
\* allowed access is audited exactly when one of the object's records is sensitive
\* (evaluateObjectAccess, object-policy-engine.ts:46; enforceObjectAccess,
\* object-access-service.ts:54): for any rows, policies and records.
THEOREM AccessIsDecidedExactly == AccessSpec => []AccessIsExact
<1>1. AccessInv => AccessIsExact
  <2> SUFFICES ASSUME AccessInv PROVE AccessIsExact
    OBVIOUS
  <2> DEFINE row(effect) == [principalType |-> "user", principalId |-> UserId,
                             permission |-> query.permission, effect |-> effect]
             more(effect) == EvaluateObjectAccess([query EXCEPT !.acls = @ \cup {row(effect)}])
             d == EvaluateObjectAccess(query)
  <2>1. query \in AccessQueries /\ {query.sameTenant, query.rolePermission} \subseteq BOOLEAN
        /\ query.records \in Seq(Levels)
    BY AccessAssumption DEF AccessInv, Levels
  <2>2. /\ d.allowed \in BOOLEAN
        /\ d.allowed <=>
             /\ query.sameTenant
             /\ "deny" \notin Effects(query) \cup ActiveRules(query)
             /\ "allow" \in Effects(query) \cup ActiveRules(query) \/ query.rolePermission
        /\ d.allowed => d.redacted = (\E p \in query.policies : p.status = "active" /\ p.ruleType \in {"redact", "mask"})
    BY <2>1, EvaluationIsExact
  <2>3. ASSUME NEW effect
        PROVE  /\ more(effect).allowed <=>
                    /\ query.sameTenant
                    /\ "deny" \notin Effects(query) \cup {effect} \cup ActiveRules(query)
                    /\ "allow" \in Effects(query) \cup {effect} \cup ActiveRules(query) \/ query.rolePermission
               /\ more(effect).allowed => more(effect).redacted =
                    (\E p \in query.policies : p.status = "active" /\ p.ruleType \in {"redact", "mask"})
    <3>1. PICK r : r = [query EXCEPT !.acls = @ \cup {row(effect)}]
      OBVIOUS
    <3>2. /\ {r.sameTenant, r.rolePermission} \subseteq BOOLEAN
          /\ Effects(r) = Effects(query) \cup {effect} /\ ActiveRules(r) = ActiveRules(query)
          /\ r.sameTenant = query.sameTenant /\ r.rolePermission = query.rolePermission
          /\ r.policies = query.policies
      BY <2>1, <3>1, OneRowMore
    <3> QED
      BY <3>1, <3>2, EvaluationIsExact
  <2> HIDE DEF d, more
  <2>4. ~more("deny").allowed
    BY <2>3
  <2>5. d.allowed => more("allow").allowed /\ more("allow").redacted = d.redacted
    <3>1. "deny" \in Effects(query) \cup {"allow"} \cup ActiveRules(query)
            => "deny" \in Effects(query) \cup ActiveRules(query)
      OBVIOUS
    <3> QED
      BY <2>2, <2>3, <3>1
  <2>6. answer # Unanswered =>
          /\ answer.decision = d
          /\ answer.audit = "sensitive_allowed" <=>
               d.allowed /\ \E i \in DOMAIN query.records : query.records[i] \in Sensitive
    BY <2>1, <2>2, ReductionIsExact DEF AccessInv, d
  <2> QED
    BY <2>2, <2>4, <2>5, <2>6 DEF AccessIsExact, d, more, Effects, Applying, ActiveRules
<1> QED
  BY <1>1, AccessKeepsInvariant, PTL

LEMMA DecisionsAreTyped == AccessInv => AccessTypeOK
<1> SUFFICES ASSUME AccessInv PROVE AccessTypeOK
  OBVIOUS
<1>1. EvaluateObjectAccess(query).allowed \in BOOLEAN
  BY DEF EvaluateObjectAccess, Decision
<1> QED
  <2>1. CASE answer = Unanswered
    BY <2>1 DEF AccessTypeOK, Unanswered
  <2>2. CASE answer # Unanswered
    BY <1>1, <2>2 DEF AccessInv, AccessTypeOK
  <2> QED
    BY <2>1, <2>2

\* An access decision is of its type.
THEOREM AccessTypeCorrect == AccessSpec => []AccessTypeOK
<1>1. AccessInv => AccessTypeOK
  BY DecisionsAreTyped
<1> QED
  BY <1>1, AccessKeepsInvariant, PTL

-----------------------------------------------------------------------------
\* The audit chain.
AuditRow(r) ==
    /\ r = [id |-> r.id, createdAt |-> r.createdAt, content |-> r.content, unhashed |-> r.unhashed,
            previousHash |-> r.previousHash, eventHash |-> r.eventHash]
    /\ r.id \in Nat /\ r.createdAt \in Nat

AuditTyped ==
    /\ auditLog \in Seq({auditLog[i] : i \in DOMAIN auditLog})
    /\ \A i \in DOMAIN auditLog : AuditRow(auditLog[i])
    /\ emitting = [e \in Emitters |-> emitting[e]]
    /\ \A e \in Emitters : /\ emitting[e].step \in {"idle", "timed", "read"} /\ emitting[e].createdAt \in Nat
                           /\ emitting[e] = [step |-> emitting[e].step, createdAt |-> emitting[e].createdAt,
                                             previousHash |-> emitting[e].previousHash]
    /\ logicalClock \in Nat /\ auditIds \in Nat /\ emitted \in Nat

Undisturbed == ~auditOverlap /\ restarts = 0

\* The rows are in the order of their times, in a log and up to the emission under way.
InTimeOrder(log) == \A i, j \in 1 .. Len(log) : i < j => log[i].createdAt < log[j].createdAt

OneAfterAnother ==
    /\ \A e, f \in Emitters : emitting[e].step # "idle" /\ emitting[f].step # "idle" => e = f
    /\ InTimeOrder(auditLog)
    /\ \A i \in 1 .. Len(auditLog) : auditLog[i].createdAt <= logicalClock /\ auditLog[i].id <= auditIds
    /\ \A e \in Emitters : emitting[e].step # "idle" =>
         /\ emitting[e].createdAt = logicalClock
         /\ \A i \in 1 .. Len(auditLog) : auditLog[i].createdAt < logicalClock

\* What row i is to link to, and whether a row and a log are as they were written.
LinkTo(log, i) == IF i = 1 THEN NoHash ELSE log[i - 1].eventHash
Hashed(r) == r.eventHash = EventHash(r.content, r.createdAt, r.previousHash)
Intact(log) == \A i \in 1 .. Len(log) : log[i].previousHash = LinkTo(log, i) /\ Hashed(log[i])

\* An emission that read the tail before it was lost carries the broken link.
DamageShows ==
    /\ damage \in {"none", "unhashed_altered"} =>
         /\ Len(auditLog) = emitted /\ Intact(auditLog)
         /\ \A i \in 1 .. Len(auditLog) : auditLog[i].content = "original"
         /\ \A e \in Emitters :
              emitting[e].step = "read" => emitting[e].previousHash = LinkTo(auditLog, Len(auditLog) + 1)
    /\ damage = "altered" => \E i \in 1 .. Len(auditLog) : ~Hashed(auditLog[i])
    /\ damage = "inner_lost" =>
         \/ \E i \in 1 .. Len(auditLog) : auditLog[i].previousHash # LinkTo(auditLog, i)
         \/ \E e \in Emitters :
              emitting[e].step = "read" /\ emitting[e].previousHash # LinkTo(auditLog, Len(auditLog) + 1)

AuditInv == restarts \in Nat /\ (Undisturbed => AuditTyped /\ OneAfterAnother /\ DamageShows)

LEMMA SequenceOfItsOwn ==
    ASSUME NEW S, NEW s \in Seq(S)
    PROVE  s \in Seq({s[i] : i \in DOMAIN s})
<1>1. PICK n \in Nat : n = Len(s)
  BY LenProperties
<1>2. DOMAIN s = 1 .. n /\ s \in [1 .. n -> S]
  BY <1>1, LenProperties
<1>3. PICK T : T = {s[i] : i \in DOMAIN s}
  OBVIOUS
<1>4. s \in [1 .. n -> T]
  BY <1>2, <1>3
<1>5. s \in Seq(T)
  BY <1>4
<1> QED
  BY <1>3, <1>5

\* Of rows in the order of their times the verification walks the ones before.
LEMMA OrderedChains ==
    ASSUME NEW n \in Nat, NEW log, DOMAIN log = 1 .. n, Len(log) = n, \A i \in 1 .. n : log[i].createdAt \in Nat,
           InTimeOrder(log)
    PROVE  ChainVerifies(log) <=> Intact(log)
<1>1. \A i \in 1 .. n : WalkedBefore(log, i) = 1 .. i - 1
  <2> SUFFICES ASSUME NEW i \in 1 .. n PROVE WalkedBefore(log, i) = 1 .. i - 1
    OBVIOUS
  <2>1. \A j \in 1 .. n : j < i => log[j].createdAt < log[i].createdAt
    BY DEF InTimeOrder
  <2>2. \A j \in 1 .. n : i < j => log[i].createdAt < log[j].createdAt
    BY DEF InTimeOrder
  <2>3. \A j \in 1 .. n : j \in WalkedBefore(log, i) <=> j < i
    BY <2>1, <2>2 DEF WalkedBefore
  <2>4. \A j \in 1 .. i - 1 : j \in 1 .. n
    OBVIOUS
  <2>5. WalkedBefore(log, i) \subseteq 1 .. n
    BY DEF WalkedBefore
  <2>6. WalkedBefore(log, i) \subseteq 1 .. i - 1
    BY <2>3, <2>5
  <2>7. 1 .. i - 1 \subseteq WalkedBefore(log, i)
    BY <2>3, <2>4
  <2> QED
    BY <2>6, <2>7
<1>2. \A i \in 1 .. n : Cardinality(WalkedBefore(log, i)) = i - 1
  <2>1. ASSUME NEW i \in 1 .. n PROVE Cardinality(1 .. i - 1) = i - 1
    <3>1. PICK k \in Nat : k = i - 1
      OBVIOUS
    <3>2. Cardinality(1 .. k) = k
      BY FS_Interval
    <3> QED
      BY <3>1, <3>2
  <2> QED
    BY <1>1, <2>1
<1>3. ASSUME NEW i \in 1 .. n
      PROVE  LET before == WalkedBefore(log, i)
                 prior == CHOOSE j \in before : Cardinality(WalkedBefore(log, j)) = Cardinality(before) - 1
             IN  (IF before = {} THEN NoHash ELSE log[prior].eventHash) = LinkTo(log, i)
  <2> DEFINE before == WalkedBefore(log, i)
             prior == CHOOSE j \in before : Cardinality(WalkedBefore(log, j)) = Cardinality(before) - 1
  <2>1. CASE i = 1
    BY <1>1, <2>1 DEF LinkTo
  <2>2. CASE i # 1
    <3>1. i - 1 \in 1 .. n /\ i - 1 \in before /\ before # {}
      BY <1>1, <2>2
    <3>2. Cardinality(WalkedBefore(log, i - 1)) = Cardinality(before) - 1
      BY <1>2, <3>1
    <3>3. prior \in before /\ Cardinality(WalkedBefore(log, prior)) = Cardinality(before) - 1
      BY <3>1, <3>2
    <3>4. prior \in 1 .. n
      BY <1>1, <3>3
    <3>5. prior = i - 1
      <4>1. Cardinality(WalkedBefore(log, prior)) = prior - 1 /\ Cardinality(before) = i - 1
        BY <1>2, <3>4
      <4> QED
        BY <3>3, <3>4, <4>1
    <3>6. LinkTo(log, i) = log[i - 1].eventHash
      BY <2>2 DEF LinkTo
    <3>7. log[prior].eventHash = LinkTo(log, i)
      BY <3>5, <3>6, Zenon
    <3>8. before # {}
      BY <3>1
    <3> HIDE DEF before, prior
    <3>9. (IF before = {} THEN NoHash ELSE log[prior].eventHash) = LinkTo(log, i)
      BY <3>7, <3>8
    <3> QED
      BY <3>9, Zenon DEF before, prior
  <2> QED
    BY <2>1, <2>2
<1> QED
  BY <1>3 DEF ChainVerifies, Intact, Hashed

\* A window from the first row on has the first rows, so it is intact if the log is.
LEMMA WindowsAreIntact ==
    ASSUME NEW S, NEW log \in Seq(S), \A i \in 1 .. Len(log) : log[i].createdAt \in Nat, InTimeOrder(log),
           Intact(log), NEW to \in Nat
    PROVE  ChainVerifies(Window(log, to))
<1>1. PICK places : places = {i \in DOMAIN log : log[i].createdAt <= to}
  OBVIOUS
<1>2. DOMAIN log = 1 .. Len(log) /\ Len(log) \in Nat
  BY LenProperties
<1>3. PICK w : w = Kept(log, places)
  OBVIOUS
<1>4. w = Window(log, to)
  BY <1>1, <1>3, Zenon DEF Window
<1>5. w \in Seq(S) /\ PartOf(w, log, {i \in 1 .. Len(log) : i \in places})
  BY <1>3, KeptIsPart
<1>6. {i \in 1 .. Len(log) : i \in places} = places /\ places \subseteq 1 .. Len(log)
  BY <1>1, <1>2
<1>7. PICK n \in Nat : n = Len(w) /\ DOMAIN w = 1 .. n
  BY <1>5, LenProperties
<1>8. PICK from : Takes(w, log, places, from, n)
  BY <1>5, <1>6, <1>7 DEF PartOf
<1>9. \A i \in 1 .. n : from[i] \in places /\ from[i] \in 1 .. Len(log) /\ w[i] = log[from[i]]
  BY <1>6, <1>8 DEF Takes
<1>10. \A i, j \in 1 .. n : i < j => from[i] < from[j]
  BY <1>8 DEF Takes
<1>11. InTimeOrder(w) /\ \A i \in 1 .. n : w[i].createdAt \in Nat
  BY <1>7, <1>9, <1>10 DEF InTimeOrder
<1>12. ASSUME NEW p \in places, p # 1 PROVE p - 1 \in places
  <2>1. p \in 1 .. Len(log) /\ p - 1 \in 1 .. Len(log)
    BY <1>2, <1>6, <1>12
  <2>2. log[p - 1].createdAt < log[p].createdAt /\ log[p - 1].createdAt \in Nat /\ log[p].createdAt \in Nat
    BY <2>1 DEF InTimeOrder
  <2>3. log[p].createdAt <= to
    BY <1>1
  <2> QED
    BY <1>1, <1>2, <2>1, <2>2, <2>3
<1>13. ASSUME NEW i \in 1 .. n PROVE w[i].previousHash = LinkTo(w, i) /\ Hashed(w[i])
  <2>1. log[from[i]].previousHash = LinkTo(log, from[i]) /\ Hashed(log[from[i]])
    BY <1>9 DEF Intact
  <2>2. CASE from[i] = 1
    <3>1. i = 1
      <4>1. i # 1 => from[1] < from[i] /\ from[1] \in 1 .. Len(log)
        BY <1>9, <1>10
      <4> QED
        BY <2>2, <4>1, <1>2
    <3> QED
      BY <2>1, <2>2, <3>1, <1>9 DEF LinkTo
  <2>3. CASE from[i] # 1
    <3>1. PICK j \in 1 .. n : from[j] = from[i] - 1
      <4>1. from[i] - 1 \in places
        BY <1>9, <1>12, <2>3
      <4> QED
        BY <1>8, <4>1 DEF Takes
    <3>2. from[i] \in Int /\ from[j] \in Int /\ from[j] < from[i]
      BY <1>2, <1>9, <3>1
    <3>3. j < i
      BY <1>10, <3>2
    <3>4. j = i - 1
      <4>1. CASE j < i - 1
        <5>1. i - 1 \in 1 .. n
          BY <3>3
        <5>2. from[j] < from[i - 1] /\ from[i - 1] < from[i] /\ from[i - 1] \in Int
          BY <1>2, <1>9, <1>10, <4>1, <5>1
        <5> QED
          BY <3>1, <3>2, <5>2
      <4> QED
        BY <3>3, <4>1
    <3>5. LinkTo(w, i) = w[i - 1].eventHash /\ LinkTo(log, from[i]) = log[from[i] - 1].eventHash
      BY <2>3, <3>3, <3>4 DEF LinkTo
    <3>6. w[i - 1] = log[from[i] - 1]
      BY <1>9, <3>1, <3>4
    <3> QED
      BY <1>9, <2>1, <3>5, <3>6
  <2> QED
    BY <2>2, <2>3
<1>14. Intact(w)
  BY <1>7, <1>13 DEF Intact
<1>15. ChainVerifies(w)
  BY <1>7, <1>11, <1>14, OrderedChains
<1> QED
  BY <1>4, <1>15

\* In that order the latest row is the last.
LEMMA LatestIsLast ==
    ASSUME AuditTyped, InTimeOrder(auditLog)
    PROVE  LatestHash = LinkTo(auditLog, Len(auditLog) + 1)
<1>1. PICK n \in Nat : n = Len(auditLog) /\ DOMAIN auditLog = 1 .. n
  BY LenProperties DEF AuditTyped
<1>2. CASE n = 0
  <2>1. auditLog = << >>
    BY <1>1, <1>2, EmptySeq DEF AuditTyped
  <2> QED
    BY <1>1, <1>2, <2>1 DEF LatestHash, LinkTo
<1>3. CASE n # 0
  <2> DEFINE latest == {i \in DOMAIN auditLog : \A j \in DOMAIN auditLog :
                          \/ auditLog[j].createdAt < auditLog[i].createdAt
                          \/ auditLog[j].createdAt = auditLog[i].createdAt /\ i <= j}
  <2>1. n \in 1 .. n /\ \A i \in 1 .. n : auditLog[i].createdAt \in Nat
    <3>1. \A i \in 1 .. n : AuditRow(auditLog[i])
      BY <1>1 DEF AuditTyped
    <3>2. n \in 1 .. n
      BY <1>3
    <3>3. \A i \in 1 .. n : auditLog[i].createdAt \in Nat
      BY <3>1 DEF AuditRow
    <3> QED
      BY <3>2, <3>3
  <2>2. \A j \in 1 .. n : j < n => auditLog[j].createdAt < auditLog[n].createdAt
    BY <1>1, <2>1 DEF InTimeOrder
  <2>3. n \in latest
    BY <1>1, <2>1, <2>2
  <2>4. \A i \in latest : i = n
    BY <1>1, <2>1, <2>2
  <2>5. (CHOOSE i \in latest : TRUE) = n
    BY <2>3, <2>4
  <2>6. auditLog # << >>
    BY <1>1, <1>3, EmptySeq
  <2>7. LatestHash = auditLog[n].eventHash
    <3> HIDE DEF latest
    <3>1. LatestHash = auditLog[CHOOSE i \in latest : TRUE].eventHash
      BY <2>6 DEF LatestHash, latest
    <3> QED
      BY <2>5, <3>1
  <2> QED
    BY <1>1, <1>3, <2>7 DEF LinkTo
<1> QED
  BY <1>2, <1>3

LEMMA AuditStarts == AuditInit => AuditInv
<1> SUFFICES ASSUME AuditInit PROVE AuditInv
  OBVIOUS
<1>1. auditLog = << >> /\ Len(auditLog) = 0 /\ DOMAIN auditLog = {}
  BY EmptySeq DEF AuditInit
<1>2. auditLog \in Seq({auditLog[i] : i \in DOMAIN auditLog})
  BY <1>1, EmptySeq
<1>3. \A e \in Emitters : emitting[e] = IdleEmitter
  BY DEF AuditInit
<1>4. AuditTyped
  BY <1>1, <1>2, <1>3 DEF AuditInit, AuditTyped, IdleEmitter
<1>5. \A e \in Emitters : emitting[e].step = "idle"
  BY <1>3 DEF IdleEmitter
<1> QED
  BY <1>1, <1>4, <1>5 DEF AuditInv, OneAfterAnother, DamageShows, Intact, InTimeOrder, AuditInit

\* An emission steps on, and the others are idle unless something overlaps.
LEMMA EmitterMoves ==
    ASSUME AuditInv, NEW e \in Emitters, NEW to, MoveEmitter(e, to), UNCHANGED restarts, Undisturbed'
    PROVE  /\ Undisturbed /\ AuditTyped /\ OneAfterAnother /\ DamageShows
           /\ emitting' = [f \in Emitters |-> emitting'[f]]
           /\ emitting'[e] = to /\ \A f \in Emitters \ {e} : emitting'[f] = emitting[f]
           /\ \A f \in Emitters \ {e} : emitting[f].step = "idle" /\ emitting'[f].step = "idle"
<1>1. Undisturbed /\ \A f \in Emitters \ {e} : emitting[f].step = "idle"
  BY DEF Undisturbed, MoveEmitter
<1>2. AuditTyped /\ OneAfterAnother /\ DamageShows
  BY <1>1 DEF AuditInv
<1>3. emitting = [f \in Emitters |-> emitting[f]] /\ emitting' = [emitting EXCEPT ![e] = to]
  BY <1>2 DEF MoveEmitter, AuditTyped
<1>4. emitting'[e] = to /\ \A f \in Emitters \ {e} : emitting'[f] = emitting[f]
  BY <1>3
<1>5. emitting' = [f \in Emitters |-> emitting'[f]]
  BY <1>3
<1> QED
  BY <1>1, <1>2, <1>4, <1>5

LEMMA TakeTimeKeeps ==
    ASSUME AuditInv, NEW e \in Emitters, TakeTime(e)
    PROVE  AuditInv'
<1>1. PICK to : to = [step |-> "timed", createdAt |-> logicalClock + 1, previousHash |-> NoHash]
  OBVIOUS
<1>2. [IdleEmitter EXCEPT !.step = "timed", !.createdAt = logicalClock + 1] = to
  <2>1. PICK timed : timed = [IdleEmitter EXCEPT !.step = "timed", !.createdAt = logicalClock + 1]
    OBVIOUS
  <2>2. PICK idle : idle = IdleEmitter
    OBVIOUS
  <2>3. idle = [step |-> "idle", createdAt |-> 0, previousHash |-> NoHash]
    BY <2>2 DEF IdleEmitter
  <2>4. PICK at : at = logicalClock + 1
    OBVIOUS
  <2>5. timed = [idle EXCEPT !.step = "timed", !.createdAt = at]
    BY <2>1, <2>2, <2>4
  <2>6. timed = [step |-> "timed", createdAt |-> at, previousHash |-> NoHash]
    BY <2>3, <2>5
  <2>7. timed = to
    BY <1>1, <2>4, <2>6
  <2> QED
    BY <2>1, <2>7
<1>3. /\ MoveEmitter(e, to) /\ logicalClock' = logicalClock + 1 /\ emitting[e].step = "idle"
      /\ UNCHANGED <<auditLog, auditIds, emitted, restarts, damage>>
  BY <1>2 DEF TakeTime
<1>4. /\ to.step = "timed" /\ to.createdAt = logicalClock + 1
      /\ to = [step |-> to.step, createdAt |-> to.createdAt, previousHash |-> to.previousHash]
  BY <1>1
<1>5. ASSUME Undisturbed' PROVE AuditTyped' /\ OneAfterAnother' /\ DamageShows'
  <2>1. /\ AuditTyped /\ OneAfterAnother /\ DamageShows
        /\ emitting' = [f \in Emitters |-> emitting'[f]]
        /\ emitting'[e] = to /\ \A f \in Emitters \ {e} : emitting'[f] = emitting[f]
        /\ \A f \in Emitters \ {e} : emitting[f].step = "idle" /\ emitting'[f].step = "idle"
    BY <1>3, <1>5, EmitterMoves
  <2>2. AuditTyped'
    BY <1>3, <1>4, <2>1 DEF AuditTyped
  <2>3. \A f \in Emitters : emitting'[f].step # "idle" => f = e
    BY <2>1
  <2>4. \A i \in 1 .. Len(auditLog) : auditLog[i].createdAt \in Nat /\ auditLog[i].createdAt <= logicalClock
    BY <2>1, LenProperties DEF AuditTyped, AuditRow, OneAfterAnother
  <2>5. logicalClock \in Nat
    BY <2>1 DEF AuditTyped
  <2>6. OneAfterAnother'
    BY <1>3, <1>4, <2>1, <2>3, <2>4, <2>5 DEF OneAfterAnother, InTimeOrder
  <2>7. (\A f \in Emitters : emitting'[f].step # "read") /\ (\A f \in Emitters : emitting[f].step = "idle")
    BY <1>3, <1>4, <2>1
  <2>8. DamageShows'
    BY <1>3, <2>1, <2>7 DEF DamageShows, Intact, Hashed, LinkTo
  <2> QED
    BY <2>2, <2>6, <2>8
<1> QED
  BY <1>3, <1>5 DEF AuditInv

LEMMA ReadTailKeeps ==
    ASSUME AuditInv, NEW e \in Emitters, ReadTail(e)
    PROVE  AuditInv'
<1>1. PICK to : to = [emitting[e] EXCEPT !.step = "read", !.previousHash = LatestHash]
  OBVIOUS
<1>2. /\ MoveEmitter(e, to) /\ emitting[e].step = "timed"
      /\ UNCHANGED <<auditLog, logicalClock, auditIds, emitted, restarts, damage>>
  BY <1>1 DEF ReadTail
<1>3. ASSUME Undisturbed' PROVE AuditTyped' /\ OneAfterAnother' /\ DamageShows'
  <2>1. /\ AuditTyped /\ OneAfterAnother /\ DamageShows
        /\ emitting' = [f \in Emitters |-> emitting'[f]]
        /\ emitting'[e] = to /\ \A f \in Emitters \ {e} : emitting'[f] = emitting[f]
        /\ \A f \in Emitters \ {e} : emitting[f].step = "idle" /\ emitting'[f].step = "idle"
    BY <1>2, <1>3, EmitterMoves
  <2>2. to = [step |-> "read", createdAt |-> emitting[e].createdAt, previousHash |-> LatestHash]
    <3>1. emitting[e] = [step |-> emitting[e].step, createdAt |-> emitting[e].createdAt,
                         previousHash |-> emitting[e].previousHash]
      BY <2>1 DEF AuditTyped
    <3> QED
      BY <1>1, <3>1
  <2>3. /\ to.step = "read" /\ to.createdAt = emitting[e].createdAt /\ to.previousHash = LatestHash
        /\ to = [step |-> to.step, createdAt |-> to.createdAt, previousHash |-> to.previousHash]
    BY <2>2
  <2>4. AuditTyped'
    BY <1>2, <2>1, <2>3 DEF AuditTyped
  <2>5. \A f \in Emitters : emitting'[f].step # "idle" => f = e
    BY <2>1
  <2>6. OneAfterAnother'
    BY <1>2, <2>1, <2>3, <2>5 DEF OneAfterAnother, InTimeOrder
  <2>7. LatestHash = LinkTo(auditLog, Len(auditLog) + 1)
    BY <2>1, LatestIsLast DEF OneAfterAnother
  <2>8. \A f \in Emitters : emitting'[f].step = "read" => emitting'[f].previousHash = LinkTo(auditLog, Len(auditLog) + 1)
    BY <2>1, <2>3, <2>5, <2>7
  <2>9. \A f \in Emitters : emitting[f].step # "read"
    BY <1>2, <2>1
  <2>10. DamageShows'
    BY <1>2, <2>1, <2>8, <2>9 DEF DamageShows, Intact, Hashed, LinkTo
  <2> QED
    BY <2>4, <2>6, <2>10
<1> QED
  BY <1>2, <1>3 DEF AuditInv

\* A row at the end leaves the others.
LEMMA RowAdded ==
    ASSUME NEW S, NEW log \in Seq(S), NEW n \in Nat, n = Len(log), NEW row, NEW more, more = Append(log, row)
    PROVE  /\ more \in Seq(S \cup {row}) /\ Len(more) = n + 1 /\ DOMAIN more = 1 .. n + 1
           /\ more[n + 1] = row /\ \A i \in 1 .. n : more[i] = log[i]
<1>1. PICK T : T = S \cup {row}
  OBVIOUS
<1>2. log \in Seq(T) /\ row \in T
  BY <1>1, SeqMonotonic
<1>3. /\ more \in Seq(T) /\ Len(more) = n + 1 /\ more[n + 1] = row /\ \A i \in 1 .. n : more[i] = log[i]
  BY <1>2, AppendProperties
<1>4. DOMAIN more = 1 .. n + 1
  BY <1>3, LenProperties
<1> QED
  BY <1>1, <1>3, <1>4

LEMMA InsertEventKeeps ==
    ASSUME AuditInv, NEW e \in Emitters, InsertEvent(e)
    PROVE  AuditInv'
<1>1. /\ MoveEmitter(e, IdleEmitter) /\ emitting[e].step = "read" /\ auditIds' = auditIds + 1 /\ emitted' = emitted + 1
      /\ UNCHANGED <<logicalClock, restarts, damage>>
  BY DEF InsertEvent
<1>2. PICK row : /\ row = [id |-> auditIds + 1, createdAt |-> emitting[e].createdAt, content |-> "original",
                           unhashed |-> "original", previousHash |-> emitting[e].previousHash,
                           eventHash |-> EventHash("original", emitting[e].createdAt, emitting[e].previousHash)]
                 /\ auditLog' = Stored(auditLog, row)
  BY DEF InsertEvent
<1>3. /\ row.id = auditIds + 1 /\ row.createdAt = emitting[e].createdAt
      /\ row.previousHash = emitting[e].previousHash /\ Hashed(row)
      /\ row = [id |-> row.id, createdAt |-> row.createdAt, content |-> row.content, unhashed |-> row.unhashed,
                previousHash |-> row.previousHash, eventHash |-> row.eventHash]
  BY <1>2 DEF Hashed
<1>30. row.content = "original"
  BY <1>2
<1>4. ASSUME Undisturbed' PROVE AuditTyped' /\ OneAfterAnother' /\ DamageShows'
  <2>1. /\ AuditTyped /\ OneAfterAnother /\ DamageShows
        /\ emitting' = [f \in Emitters |-> emitting'[f]]
        /\ emitting'[e] = IdleEmitter /\ \A f \in Emitters \ {e} : emitting'[f] = emitting[f]
        /\ \A f \in Emitters \ {e} : emitting[f].step = "idle" /\ emitting'[f].step = "idle"
    BY <1>1, <1>4, EmitterMoves
  <2>2. PICK n \in Nat : n = Len(auditLog) /\ DOMAIN auditLog = 1 .. n
    BY <2>1, LenProperties DEF AuditTyped
  <2>3. \A i \in 1 .. n : AuditRow(auditLog[i]) /\ auditLog[i].createdAt \in Nat /\ auditLog[i].id \in Nat
    BY <2>1, <2>2 DEF AuditTyped, AuditRow
  <2>4. /\ auditIds \in Nat /\ logicalClock \in Nat /\ emitted \in Nat
        /\ emitting[e].createdAt \in Nat /\ emitting[e].createdAt = logicalClock
        /\ \A i \in 1 .. n : auditLog[i].createdAt < logicalClock /\ auditLog[i].id <= auditIds
    BY <1>1, <2>1, <2>2 DEF AuditTyped, OneAfterAnother
  <2>5. auditLog' = Append(auditLog, row)
    <3>1. \A i \in DOMAIN auditLog : auditLog[i].id # row.id
      BY <1>3, <2>2, <2>3, <2>4
    <3> QED
      BY <1>2, <3>1 DEF Stored
  <2>6. PICK S : auditLog \in Seq(S)
    BY <2>1 DEF AuditTyped
  <2>7. /\ auditLog' \in Seq(S \cup {row}) /\ Len(auditLog') = n + 1 /\ DOMAIN auditLog' = 1 .. n + 1
        /\ auditLog'[n + 1] = row /\ \A i \in 1 .. n : auditLog'[i] = auditLog[i]
        /\ \A i \in 1 .. n + 1 : LinkTo(auditLog', i) = LinkTo(auditLog, i)
    <3>1. PICK log \in Seq(S) : log = auditLog
      BY <2>6
    <3>2. PICK more : more = Append(log, row)
      OBVIOUS
    <3>3. n = Len(log)
      BY <2>2, <3>1
    <3>4. /\ more \in Seq(S \cup {row}) /\ Len(more) = n + 1 /\ DOMAIN more = 1 .. n + 1
          /\ more[n + 1] = row /\ \A i \in 1 .. n : more[i] = log[i]
      BY <3>2, <3>3, RowAdded
    <3>5. \A i \in 1 .. n + 1 : LinkTo(more, i) = LinkTo(log, i)
      <4>1. \A i \in 1 .. n + 1 : i # 1 => i - 1 \in 1 .. n
        OBVIOUS
      <4> QED
        BY <3>4, <4>1 DEF LinkTo
    <3>6. more = auditLog'
      BY <2>5, <3>1, <3>2
    <3> QED
      BY <3>1, <3>4, <3>5, <3>6, Zenon
  <2>8. \A i \in 1 .. n + 1 : i = n + 1 \/ i \in 1 .. n
    OBVIOUS
  <2>9. AuditRow(row)
    BY <1>3, <2>4 DEF AuditRow
  <2>10. AuditTyped'
    <3>1. auditLog' \in Seq({auditLog'[i] : i \in DOMAIN auditLog'})
      BY <2>7, SequenceOfItsOwn
    <3>2. \A i \in DOMAIN auditLog' : AuditRow(auditLog'[i])
      BY <2>3, <2>7, <2>8, <2>9
    <3>3. IdleEmitter.step = "idle" /\ IdleEmitter.createdAt \in Nat /\
          IdleEmitter = [step |-> IdleEmitter.step, createdAt |-> IdleEmitter.createdAt,
                         previousHash |-> IdleEmitter.previousHash]
      BY DEF IdleEmitter
    <3> QED
      BY <1>1, <2>1, <2>4, <3>1, <3>2, <3>3 DEF AuditTyped
  <2>11. \A f \in Emitters : emitting'[f].step = "idle"
    BY <2>1 DEF IdleEmitter
  <2>12. OneAfterAnother'
    <3>1. InTimeOrder(auditLog')
      <4> SUFFICES ASSUME NEW i \in 1 .. n + 1, NEW j \in 1 .. n + 1, i < j
                   PROVE  auditLog'[i].createdAt < auditLog'[j].createdAt
        BY <2>7 DEF InTimeOrder
      <4>1. i \in 1 .. n
        OBVIOUS
      <4>2. CASE j = n + 1
        BY <1>3, <2>4, <2>7, <4>1, <4>2
      <4>3. CASE j \in 1 .. n
        BY <2>1, <2>2, <2>7, <4>1, <4>3 DEF OneAfterAnother, InTimeOrder
      <4> QED
        BY <2>8, <4>2, <4>3
    <3>2. \A i \in 1 .. n + 1 : auditLog'[i].createdAt <= logicalClock /\ auditLog'[i].id <= auditIds + 1
      BY <1>3, <2>3, <2>4, <2>7, <2>8
    <3> QED
      BY <1>1, <2>7, <2>11, <3>1, <3>2 DEF OneAfterAnother
  <2>13. DamageShows'
    <3>1. CASE damage \in {"none", "unhashed_altered"}
      <4>1. Len(auditLog) = emitted /\ Intact(auditLog) /\ row.previousHash = LinkTo(auditLog, n + 1)
        BY <1>1, <1>3, <2>1, <2>2, <3>1 DEF DamageShows
      <4>2. \A i \in 1 .. n + 1 : auditLog'[i].previousHash = LinkTo(auditLog', i) /\ Hashed(auditLog'[i])
        BY <1>3, <2>2, <2>7, <2>8, <4>1 DEF Intact
      <4>3. Intact(auditLog')
        BY <2>7, <4>2 DEF Intact
      <4>4. \A i \in 1 .. n : auditLog[i].content = "original"
        BY <2>1, <2>2, <3>1 DEF DamageShows
      <4>5. \A i \in 1 .. n + 1 : auditLog'[i].content = "original"
        BY <1>30, <2>7, <2>8, <4>4
      <4> QED
        BY <1>1, <2>2, <2>7, <2>11, <3>1, <4>1, <4>3, <4>5 DEF DamageShows
    <3>2. CASE damage = "altered"
      <4>1. PICK i \in 1 .. n : ~Hashed(auditLog[i])
        BY <2>1, <2>2, <3>2 DEF DamageShows
      <4>2. i \in 1 .. Len(auditLog') /\ ~Hashed(auditLog'[i])
        BY <2>7, <2>8, <4>1
      <4> QED
        BY <1>1, <3>2, <4>2 DEF DamageShows
    <3>3. CASE damage = "inner_lost"
      <4>1. \/ \E i \in 1 .. n : auditLog[i].previousHash # LinkTo(auditLog, i)
            \/ row.previousHash # LinkTo(auditLog, n + 1)
        <5>1. \A f \in Emitters : emitting[f].step = "read" => f = e
          BY <2>1
        <5> QED
          BY <1>3, <2>1, <2>2, <3>3, <5>1 DEF DamageShows
      <4>2. \E i \in 1 .. n + 1 : auditLog'[i].previousHash # LinkTo(auditLog', i)
        BY <2>7, <4>1
      <4> QED
        BY <1>1, <2>7, <3>3, <4>2 DEF DamageShows
    <3>4. CASE damage \notin {"none", "unhashed_altered", "altered", "inner_lost"}
      BY <1>1, <3>4 DEF DamageShows
    <3> QED
      BY <3>1, <3>2, <3>3, <3>4
  <2> QED
    BY <2>10, <2>12, <2>13
<1> QED
  BY <1>1, <1>4 DEF AuditInv

LEMMA RestartKeeps ==
    ASSUME AuditInv, RestartProcess
    PROVE  AuditInv'
  BY DEF AuditInv, RestartProcess, Undisturbed

\* A row that is altered does not hash to what is stored.
LEMMA AlterEventKeeps ==
    ASSUME AuditInv, NEW p \in DOMAIN auditLog, AlterEvent(p)
    PROVE  AuditInv'
<1>1. /\ damage = "none" /\ damage' = "altered" /\ auditLog' = [auditLog EXCEPT ![p].content = "altered"]
      /\ UNCHANGED <<emitting, logicalClock, auditIds, emitted, auditOverlap, restarts>>
  BY DEF AlterEvent
<1>2. ASSUME Undisturbed' PROVE AuditTyped' /\ OneAfterAnother' /\ DamageShows'
  <2>1. AuditTyped /\ OneAfterAnother /\ DamageShows
    BY <1>1, <1>2 DEF AuditInv, Undisturbed
  <2>2. PICK n \in Nat : n = Len(auditLog) /\ DOMAIN auditLog = 1 .. n
    BY <2>1, LenProperties DEF AuditTyped
  <2>3. \A i \in 1 .. n : AuditRow(auditLog[i]) /\ auditLog[i].createdAt \in Nat /\ auditLog[i].id \in Nat
    BY <2>1, <2>2 DEF AuditTyped, AuditRow
  <2>4. PICK row : row = [auditLog[p] EXCEPT !.content = "altered"]
    OBVIOUS
  <2>5. /\ row.id = auditLog[p].id /\ row.createdAt = auditLog[p].createdAt /\ row.content = "altered"
        /\ row.previousHash = auditLog[p].previousHash /\ row.eventHash = auditLog[p].eventHash
        /\ row = [id |-> row.id, createdAt |-> row.createdAt, content |-> row.content, unhashed |-> row.unhashed,
                  previousHash |-> row.previousHash, eventHash |-> row.eventHash]
    <3>1. PICK old : old = auditLog[p]
      OBVIOUS
    <3>2. old = [id |-> old.id, createdAt |-> old.createdAt, content |-> old.content, unhashed |-> old.unhashed,
                 previousHash |-> old.previousHash, eventHash |-> old.eventHash]
      BY <2>2, <2>3, <3>1 DEF AuditRow
    <3>3. row = [id |-> old.id, createdAt |-> old.createdAt, content |-> "altered", unhashed |-> old.unhashed,
                 previousHash |-> old.previousHash, eventHash |-> old.eventHash]
      BY <2>4, <3>1, <3>2
    <3> QED
      BY <3>1, <3>3
  <2>6. auditLog' = [auditLog EXCEPT ![p] = row]
    BY <1>1, <2>4, Zenon
  <2>7. PICK S : auditLog \in Seq(S) /\ row \in S
    <3>1. PICK T : auditLog \in Seq(T)
      BY <2>1 DEF AuditTyped
    <3>2. auditLog \in Seq(T \cup {row})
      BY <3>1, SeqMonotonic
    <3> QED
      BY <3>2
  <2>8. /\ auditLog' \in Seq(S) /\ Len(auditLog') = n
        /\ \A i \in 1 .. n : auditLog'[i] = IF i = p THEN row ELSE auditLog[i]
    <3>1. /\ [auditLog EXCEPT ![p] = row] \in Seq(S) /\ Len([auditLog EXCEPT ![p] = row]) = Len(auditLog)
          /\ \A i \in 1 .. Len(auditLog) : [auditLog EXCEPT ![p] = row][i] = IF i = p THEN row ELSE auditLog[i]
      BY <2>2, <2>7, ExceptSeq
    <3> QED
      BY <2>2, <2>6, <3>1, Zenon
  <2>9. \A i \in 1 .. n : /\ auditLog'[i].id = auditLog[i].id /\ auditLog'[i].createdAt = auditLog[i].createdAt
                          /\ auditLog'[i].eventHash = auditLog[i].eventHash /\ AuditRow(auditLog'[i])
    BY <2>2, <2>3, <2>5, <2>8 DEF AuditRow
  <2>10. AuditTyped'
    <3>1. auditLog' \in Seq({auditLog'[i] : i \in DOMAIN auditLog'}) /\ DOMAIN auditLog' = 1 .. n
      BY <2>8, SequenceOfItsOwn, LenProperties
    <3> QED
      BY <1>1, <2>1, <2>9, <3>1 DEF AuditTyped
  <2>11. OneAfterAnother'
    BY <1>1, <2>1, <2>2, <2>8, <2>9 DEF OneAfterAnother, InTimeOrder
  <2>12. ~Hashed(auditLog'[p])
    <3>1. auditLog[p].eventHash = EventHash(auditLog[p].content, auditLog[p].createdAt, auditLog[p].previousHash)
      BY <1>1, <2>1, <2>2 DEF DamageShows, Intact, Hashed
    <3>2. auditLog[p].content = "original"
      BY <1>1, <2>1, <2>2 DEF DamageShows
    <3>3. auditLog'[p] = row
      BY <2>2, <2>8
    <3>4. EventHash(row.content, row.createdAt, row.previousHash) # row.eventHash
      BY <2>5, <3>1, <3>2 DEF EventHash
    <3> QED
      BY <3>3, <3>4 DEF Hashed
  <2>13. p \in 1 .. Len(auditLog')
    BY <2>2, <2>8
  <2>14. DamageShows'
    BY <1>1, <2>12, <2>13 DEF DamageShows
  <2> QED
    BY <2>10, <2>11, <2>14
<1> QED
  BY <1>1, <1>2 DEF AuditInv

\* A row altered in what the hash leaves out still hashes to what is stored.
LEMMA AlterUnhashedKeeps ==
    ASSUME AuditInv, NEW p \in DOMAIN auditLog, AlterUnhashed(p)
    PROVE  AuditInv'
<1>1. /\ damage = "none" /\ damage' = "unhashed_altered" /\ auditLog' = [auditLog EXCEPT ![p].unhashed = "altered"]
      /\ UNCHANGED <<emitting, logicalClock, auditIds, emitted, auditOverlap, restarts>>
  BY DEF AlterUnhashed
<1>2. ASSUME Undisturbed' PROVE AuditTyped' /\ OneAfterAnother' /\ DamageShows'
  <2>1. AuditTyped /\ OneAfterAnother /\ DamageShows
    BY <1>1, <1>2 DEF AuditInv, Undisturbed
  <2>2. PICK n \in Nat : n = Len(auditLog) /\ DOMAIN auditLog = 1 .. n
    BY <2>1, LenProperties DEF AuditTyped
  <2>3. \A i \in 1 .. n : AuditRow(auditLog[i]) /\ auditLog[i].createdAt \in Nat /\ auditLog[i].id \in Nat
    BY <2>1, <2>2 DEF AuditTyped, AuditRow
  <2>4. PICK row : row = [auditLog[p] EXCEPT !.unhashed = "altered"]
    OBVIOUS
  <2>5. /\ row.id = auditLog[p].id /\ row.createdAt = auditLog[p].createdAt /\ row.content = auditLog[p].content
        /\ row.previousHash = auditLog[p].previousHash /\ row.eventHash = auditLog[p].eventHash
        /\ row = [id |-> row.id, createdAt |-> row.createdAt, content |-> row.content, unhashed |-> row.unhashed,
                  previousHash |-> row.previousHash, eventHash |-> row.eventHash]
    <3>1. PICK old : old = auditLog[p]
      OBVIOUS
    <3>2. old = [id |-> old.id, createdAt |-> old.createdAt, content |-> old.content, unhashed |-> old.unhashed,
                 previousHash |-> old.previousHash, eventHash |-> old.eventHash]
      BY <2>2, <2>3, <3>1 DEF AuditRow
    <3>3. row = [id |-> old.id, createdAt |-> old.createdAt, content |-> old.content, unhashed |-> "altered",
                 previousHash |-> old.previousHash, eventHash |-> old.eventHash]
      BY <2>4, <3>1, <3>2
    <3> QED
      BY <3>1, <3>3
  <2>6. auditLog' = [auditLog EXCEPT ![p] = row]
    BY <1>1, <2>4, Zenon
  <2>7. PICK S : auditLog \in Seq(S) /\ row \in S
    <3>1. PICK T : auditLog \in Seq(T)
      BY <2>1 DEF AuditTyped
    <3>2. auditLog \in Seq(T \cup {row})
      BY <3>1, SeqMonotonic
    <3> QED
      BY <3>2
  <2>8. /\ auditLog' \in Seq(S) /\ Len(auditLog') = n
        /\ \A i \in 1 .. n : auditLog'[i] = IF i = p THEN row ELSE auditLog[i]
    <3>1. /\ [auditLog EXCEPT ![p] = row] \in Seq(S) /\ Len([auditLog EXCEPT ![p] = row]) = Len(auditLog)
          /\ \A i \in 1 .. Len(auditLog) : [auditLog EXCEPT ![p] = row][i] = IF i = p THEN row ELSE auditLog[i]
      BY <2>2, <2>7, ExceptSeq
    <3> QED
      BY <2>2, <2>6, <3>1, Zenon
  <2>9. \A i \in 1 .. n : /\ auditLog'[i].id = auditLog[i].id /\ auditLog'[i].createdAt = auditLog[i].createdAt
                          /\ auditLog'[i].eventHash = auditLog[i].eventHash /\ AuditRow(auditLog'[i])
    BY <2>2, <2>3, <2>5, <2>8 DEF AuditRow
  <2>10. AuditTyped'
    <3>1. auditLog' \in Seq({auditLog'[i] : i \in DOMAIN auditLog'}) /\ DOMAIN auditLog' = 1 .. n
      BY <2>8, SequenceOfItsOwn, LenProperties
    <3> QED
      BY <1>1, <2>1, <2>9, <3>1 DEF AuditTyped
  <2>11. OneAfterAnother'
    BY <1>1, <2>1, <2>2, <2>8, <2>9 DEF OneAfterAnother, InTimeOrder
  <2>12. /\ Len(auditLog) = emitted /\ Intact(auditLog) /\ \A i \in 1 .. n : auditLog[i].content = "original"
         /\ \A e \in Emitters :
              emitting[e].step = "read" => emitting[e].previousHash = LinkTo(auditLog, n + 1)
    BY <1>1, <2>1, <2>2 DEF DamageShows
  <2>13. \A i \in 1 .. n : /\ auditLog'[i].content = auditLog[i].content
                           /\ auditLog'[i].previousHash = auditLog[i].previousHash
    BY <2>5, <2>8
  <2>14. \A i \in 1 .. n + 1 : LinkTo(auditLog', i) = LinkTo(auditLog, i)
    <3>1. \A i \in 1 .. n + 1 : i # 1 => i - 1 \in 1 .. n
      OBVIOUS
    <3> QED
      BY <2>9, <3>1 DEF LinkTo
  <2>15. \A i \in 1 .. n : auditLog'[i].previousHash = LinkTo(auditLog', i) /\ Hashed(auditLog'[i])
    <3> SUFFICES ASSUME NEW i \in 1 .. n
                 PROVE  auditLog'[i].previousHash = LinkTo(auditLog', i) /\ Hashed(auditLog'[i])
      OBVIOUS
    <3>1. i \in 1 .. n + 1 /\ auditLog[i].previousHash = LinkTo(auditLog, i) /\ Hashed(auditLog[i])
      BY <2>2, <2>12 DEF Intact
    <3> QED
      BY <2>9, <2>13, <2>14, <3>1 DEF Hashed
  <2>16. DamageShows'
    <3>1. PICK log : log = auditLog'
      OBVIOUS
    <3>2. Intact(log) /\ Len(log) = n
      BY <2>8, <2>15, <3>1 DEF Intact
    <3>3. n + 1 \in 1 .. n + 1
      OBVIOUS
    <3>4. n + 1 \in 1 .. n + 1 /\ Intact(auditLog') /\ Len(auditLog') = emitted'
      BY <1>1, <2>2, <2>12, <3>1, <3>2, <3>3, Zenon
    <3>5. \A i \in 1 .. n : auditLog'[i].content = "original"
      BY <2>12, <2>13
    <3>6. \A e \in Emitters :
            emitting'[e].step = "read" => emitting'[e].previousHash = LinkTo(auditLog', n + 1)
      BY <1>1, <2>12, <2>14, <3>4
    <3>7. damage' = "unhashed_altered" /\ Len(auditLog') = n
      BY <1>1, <2>8
    <3> QED
      BY <3>4, <3>5, <3>6, <3>7 DEF DamageShows
  <2> QED
    BY <2>10, <2>11, <2>16
<1> QED
  BY <1>1, <1>2 DEF AuditInv

\* A row that is lost leaves a row, or an emission that has read it, with a link to nothing.
LEMMA LoseEventKeeps ==
    ASSUME AuditInv, NEW p \in DOMAIN auditLog, LoseEvent(p)
    PROVE  AuditInv'
<1>1. /\ damage = "none" /\ auditLog' = RemoveAt(auditLog, p)
      /\ damage' \in {"inner_lost", "tail_lost"}
      /\ damage' = "inner_lost" => p < Len(auditLog) \/ \E e \in Emitters : emitting[e].step = "read"
      /\ UNCHANGED <<emitting, logicalClock, auditIds, emitted, auditOverlap, restarts>>
  BY DEF LoseEvent, RemoveAt
<1>2. ASSUME Undisturbed' PROVE AuditTyped' /\ OneAfterAnother' /\ DamageShows'
  <2>1. AuditTyped /\ OneAfterAnother /\ DamageShows
    BY <1>1, <1>2 DEF AuditInv, Undisturbed
  <2>2. PICK n \in Nat : n = Len(auditLog) /\ DOMAIN auditLog = 1 .. n
    BY <2>1, LenProperties DEF AuditTyped
  <2>3. \A i \in 1 .. n : AuditRow(auditLog[i]) /\ auditLog[i].createdAt \in Nat /\ auditLog[i].id \in Nat
    BY <2>1, <2>2 DEF AuditTyped, AuditRow
  <2>4. p \in 1 .. n
    BY <2>2
  <2>5. PICK S : auditLog \in Seq(S)
    BY <2>1 DEF AuditTyped
  <2>6. /\ auditLog' \in Seq(S) /\ Len(auditLog') = n - 1
        /\ \A i \in 1 .. n - 1 : auditLog'[i] = auditLog[IF i < p THEN i ELSE i + 1]
    <3>1. PICK log \in Seq(S) : log = auditLog
      BY <2>5
    <3>2. p \in 1 .. Len(log) /\ Len(log) = n
      BY <2>2, <2>4, <3>1
    <3>3. PICK left : left = RemoveAt(log, p)
      OBVIOUS
    <3>4. /\ left \in Seq(S) /\ Len(left) = Len(log) - 1
          /\ \A i \in 1 .. Len(log) - 1 : left[i] = log[IF i < p THEN i ELSE i + 1]
      BY <3>2, <3>3, RemovalIsPart
    <3>5. left = auditLog'
      BY <1>1, <3>1, <3>3
    <3> QED
      BY <3>1, <3>2, <3>4, <3>5
  <2>7. DOMAIN auditLog' = 1 .. n - 1
    BY <2>6, LenProperties
  <2>8. PICK from : from = [i \in 1 .. n - 1 |-> IF i < p THEN i ELSE i + 1]
    OBVIOUS
  <2>9. \A i \in 1 .. n - 1 : from[i] \in 1 .. n /\ auditLog'[i] = auditLog[from[i]]
    <3>1. \A i \in 1 .. n - 1 : from[i] = IF i < p THEN i ELSE i + 1
      BY <2>8
    <3>2. \A i \in 1 .. n - 1 : from[i] \in 1 .. n
      BY <3>1
    <3> QED
      BY <2>6, <3>1, <3>2
  <2>10. \A i, j \in 1 .. n - 1 : i < j => from[i] < from[j]
    BY <2>4, <2>8
  <2>11. AuditTyped'
    <3>1. auditLog' \in Seq({auditLog'[i] : i \in DOMAIN auditLog'})
      BY <2>6, SequenceOfItsOwn
    <3>2. \A i \in DOMAIN auditLog' : AuditRow(auditLog'[i])
      BY <2>3, <2>7, <2>9
    <3> QED
      BY <1>1, <2>1, <3>1, <3>2 DEF AuditTyped
  <2>12. OneAfterAnother'
    <3>1. InTimeOrder(auditLog')
      <4> SUFFICES ASSUME NEW i \in 1 .. n - 1, NEW j \in 1 .. n - 1, i < j
                   PROVE  auditLog'[i].createdAt < auditLog'[j].createdAt
        BY <2>6 DEF InTimeOrder
      <4>1. from[i] \in 1 .. n /\ from[j] \in 1 .. n /\ from[i] < from[j]
        BY <2>9, <2>10
      <4>2. auditLog[from[i]].createdAt < auditLog[from[j]].createdAt
        BY <2>1, <2>2, <4>1 DEF OneAfterAnother, InTimeOrder
      <4> QED
        BY <2>9, <4>2
    <3>2. \A i \in 1 .. n - 1 : auditLog'[i].createdAt <= logicalClock /\ auditLog'[i].id <= auditIds
      BY <2>1, <2>2, <2>9 DEF OneAfterAnother
    <3>3. \A e \in Emitters : emitting[e].step # "idle" => \A i \in 1 .. n - 1 : auditLog'[i].createdAt < logicalClock
      BY <2>1, <2>2, <2>9 DEF OneAfterAnother
    <3> QED
      BY <1>1, <2>1, <2>6, <3>1, <3>2, <3>3 DEF OneAfterAnother
  <2>13. \A i \in 1 .. n : /\ auditLog[i].previousHash = LinkTo(auditLog, i)
                           /\ auditLog[i].eventHash = EventHash(auditLog[i].content, auditLog[i].createdAt,
                                                                auditLog[i].previousHash)
    BY <1>1, <2>1, <2>2 DEF DamageShows, Intact, Hashed
  <2>14. auditLog[p].eventHash # LinkTo(auditLog', p)
    <3>1. CASE p = 1
      <4>1. LinkTo(auditLog', p) = << >>
        BY <3>1 DEF LinkTo, NoHash
      <4>2. auditLog[p].eventHash = <<auditLog[p].content, auditLog[p].createdAt, auditLog[p].previousHash>>
        BY <2>4, <2>13 DEF EventHash
      <4> QED
        BY <4>1, <4>2
    <3>2. CASE p # 1
      <4>1. p - 1 \in 1 .. n - 1 /\ p - 1 \in 1 .. n /\ p - 1 < p
        BY <2>4, <3>2
      <4>2. LinkTo(auditLog', p) = auditLog[p - 1].eventHash
        BY <2>6, <3>2, <4>1 DEF LinkTo
      <4>3. auditLog[p - 1].createdAt # auditLog[p].createdAt
        BY <2>1, <2>2, <2>3, <2>4, <4>1 DEF OneAfterAnother, InTimeOrder
      <4>4. auditLog[p - 1].eventHash
              = <<auditLog[p - 1].content, auditLog[p - 1].createdAt, auditLog[p - 1].previousHash>>
        BY <2>13, <4>1 DEF EventHash
      <4>5. auditLog[p].eventHash = <<auditLog[p].content, auditLog[p].createdAt, auditLog[p].previousHash>>
        BY <2>4, <2>13 DEF EventHash
      <4> QED
        BY <4>2, <4>3, <4>4, <4>5
    <3> QED
      BY <3>1, <3>2
  <2>15. LinkTo(auditLog, p + 1) = auditLog[p].eventHash
    <3>1. PICK q : q = p + 1
      OBVIOUS
    <3>2. q # 1 /\ q - 1 = p
      BY <2>4, <3>1
    <3>3. LinkTo(auditLog, q) = auditLog[q - 1].eventHash
      BY <3>2 DEF LinkTo
    <3> QED
      BY <3>1, <3>2, <3>3
  <2>16. DamageShows'
    <3>1. CASE damage' = "inner_lost"
      <4>1. CASE p < n
        <5>1. p \in 1 .. n - 1 /\ p + 1 \in 1 .. n
          BY <2>4, <4>1
        <5>2. auditLog'[p] = auditLog[p + 1]
          BY <2>6, <5>1
        <5>3. auditLog'[p].previousHash # LinkTo(auditLog', p)
          BY <2>13, <2>14, <2>15, <5>1, <5>2
        <5> QED
          BY <2>6, <3>1, <5>1, <5>3 DEF DamageShows
      <4>2. CASE ~(p < n)
        <5>1. p = n
          BY <2>4, <4>2
        <5>2. PICK e \in Emitters : emitting[e].step = "read"
          BY <1>1, <2>2, <3>1, <4>2
        <5>3. emitting[e].previousHash = LinkTo(auditLog, p + 1)
          BY <1>1, <2>1, <2>2, <5>1, <5>2 DEF DamageShows
        <5>4. Len(auditLog') + 1 = p
          BY <2>6, <5>1
        <5>5. emitting'[e].step = "read" /\ emitting'[e].previousHash # LinkTo(auditLog', Len(auditLog') + 1)
          BY <1>1, <2>14, <2>15, <5>2, <5>3, <5>4
        <5> QED
          BY <3>1, <5>5 DEF DamageShows
      <4> QED
        BY <4>1, <4>2
    <3>2. CASE damage' # "inner_lost"
      BY <1>1, <3>2 DEF DamageShows
    <3> QED
      BY <3>1, <3>2
  <2> QED
    BY <2>11, <2>12, <2>16
<1> QED
  BY <1>1, <1>2 DEF AuditInv

LEMMA AuditKeepsInvariant ==
    ASSUME AuditInv, [AuditNext]_auditVars
    PROVE  AuditInv'
<1>1. ASSUME NEW e \in Emitters, TakeTime(e) \/ ReadTail(e) \/ InsertEvent(e) PROVE AuditInv'
  BY <1>1, TakeTimeKeeps, ReadTailKeeps, InsertEventKeeps
<1>2. CASE RestartProcess
  BY <1>2, RestartKeeps
<1>3. ASSUME NEW i \in DOMAIN auditLog, AlterEvent(i) \/ AlterUnhashed(i) \/ LoseEvent(i) PROVE AuditInv'
  BY <1>3, AlterEventKeeps, AlterUnhashedKeeps, LoseEventKeeps
<1>4. CASE UNCHANGED auditVars
  BY <1>4 DEF auditVars, AuditInv, Undisturbed, AuditTyped, OneAfterAnother, InTimeOrder, DamageShows, Intact,
              LinkTo, Hashed
<1> QED
  BY <1>1, <1>2, <1>3, <1>4 DEF AuditNext

\* A log the service alone wrote verifies, and one that does not keep what was written does not.
LEMMA VerdictsFollow == AuditInv => ChainVerdictIsRight
<1> SUFFICES ASSUME AuditInv, Undisturbed PROVE ChainVerdictIsRight
  BY DEF ChainVerdictIsRight, Undisturbed
<1>1. AuditTyped /\ OneAfterAnother /\ DamageShows
  BY DEF AuditInv
<1>2. PICK n \in Nat : n = Len(auditLog) /\ DOMAIN auditLog = 1 .. n
  BY <1>1, LenProperties DEF AuditTyped
<1>3. \A i \in 1 .. n : auditLog[i].createdAt \in Nat
  BY <1>1, <1>2 DEF AuditTyped, AuditRow
<1>4. PICK S : auditLog \in Seq(S)
  BY <1>1 DEF AuditTyped
<1>5. InTimeOrder(auditLog) /\ logicalClock \in Nat
  BY <1>1 DEF OneAfterAnother, AuditTyped
<1>6. ASSUME damage \in {"none", "unhashed_altered"}, NEW to \in 0 .. logicalClock PROVE ChainVerifies(Window(auditLog, to))
  <2>1. Intact(auditLog) /\ to \in Nat
    BY <1>1, <1>5, <1>6 DEF DamageShows
  <2>2. PICK log \in Seq(S) : log = auditLog
    BY <1>4
  <2>3. \A i \in 1 .. Len(log) : log[i].createdAt \in Nat
    BY <1>2, <1>3, <2>2
  <2>4. InTimeOrder(log) /\ Intact(log)
    BY <1>5, <2>1, <2>2
  <2>5. ChainVerifies(Window(log, to))
    BY <2>1, <2>3, <2>4, WindowsAreIntact
  <2> QED
    BY <2>2, <2>5
<1>7. damage \in {"none", "unhashed_altered"} => Len(auditLog) = emitted
  BY <1>1 DEF DamageShows
<1>8. ASSUME damage \in {"altered", "inner_lost"}, \A e \in Emitters : emitting[e].step = "idle"
      PROVE  ~ChainVerifies(auditLog)
  <2>1. ~Intact(auditLog)
    <3>1. CASE damage = "altered"
      BY <1>1, <3>1 DEF DamageShows, Intact
    <3>2. CASE damage = "inner_lost"
      <4>1. \A e \in Emitters : emitting[e].step # "read"
        BY <1>8
      <4> QED
        BY <1>1, <3>2, <4>1 DEF DamageShows, Intact
    <3> QED
      BY <1>8, <3>1, <3>2
  <2>2. PICK log : log = auditLog
    OBVIOUS
  <2>3. DOMAIN log = 1 .. n /\ Len(log) = n /\ (\A i \in 1 .. n : log[i].createdAt \in Nat) /\ InTimeOrder(log)
    BY <1>2, <1>3, <1>5, <2>2
  <2>4. ChainVerifies(log) <=> Intact(log)
    BY <2>3, OrderedChains
  <2> QED
    BY <2>1, <2>2, <2>4
<1> QED
  BY <1>6, <1>7, <1>8 DEF ChainVerdictIsRight

\* Over a log that no two emissions wrote at once and no restart interrupted, the verification of
\* the chain says what happened to it: every window from the first row on verifies and holds
\* every event emitted, whatever becomes of what the hash leaves out, and a row altered in what
\* is hashed, or lost with one after it, breaks the chain for good
\* (emitAudit, audit-service.ts:22; verifyAuditChain, audit-integrity-service.ts:28).
THEOREM VerdictsAreRight == AuditSpec => []ChainVerdictIsRight
<1>1. AuditInit => AuditInv
  BY AuditStarts
<1>2. AuditInv /\ [AuditNext]_auditVars => AuditInv'
  BY AuditKeepsInvariant
<1>3. AuditInv => ChainVerdictIsRight
  BY VerdictsFollow
<1> QED
  BY <1>1, <1>2, <1>3, PTL DEF AuditSpec

\* What holds of the log and the counters whatever overlaps or is restarted: an emission takes
\* one of the ids that are left, and a restart only gives ids out again.
UnderWayEmitters == {e \in Emitters : emitting[e].step # "idle"}

AuditCounted ==
    /\ auditLog \in Seq({auditLog[i] : i \in DOMAIN auditLog})
    /\ \A i \in DOMAIN auditLog : "id" \in DOMAIN auditLog[i] /\ auditLog[i].id \in 1 .. MaxAuditEvents
    /\ DOMAIN emitting = Emitters
    /\ \A e \in Emitters : /\ DOMAIN emitting[e] = {"step", "createdAt", "previousHash"}
                           /\ emitting[e].step \in {"idle", "timed", "read"}
    /\ {logicalClock, auditIds, emitted, restarts} \subseteq Nat
    /\ auditOverlap \in BOOLEAN
    /\ damage \in {"none", "altered", "unhashed_altered", "inner_lost", "tail_lost"}
    /\ IsFiniteSet(UnderWayEmitters) /\ auditIds <= emitted
    /\ emitted + Cardinality(UnderWayEmitters) <= MaxAuditEvents

LEMMA CountingStarts == AuditInit => AuditCounted
<1> SUFFICES ASSUME AuditInit PROVE AuditCounted
  OBVIOUS
<1>1. UnderWayEmitters = {}
  BY DEF AuditInit, UnderWayEmitters, IdleEmitter
<1>2. IsFiniteSet(UnderWayEmitters) /\ Cardinality(UnderWayEmitters) = 0
  BY <1>1, FS_EmptySet
<1>3. auditLog = << >> /\ auditLog \in Seq({auditLog[i] : i \in DOMAIN auditLog})
  BY EmptySeq DEF AuditInit
<1>4. \A e \in Emitters : DOMAIN emitting[e] = {"step", "createdAt", "previousHash"} /\ emitting[e].step = "idle"
  BY DEF AuditInit, IdleEmitter
<1>5. DOMAIN auditLog = {} /\ DOMAIN emitting = Emitters
  BY <1>3 DEF AuditInit
<1>6. emitted + Cardinality(UnderWayEmitters) <= MaxAuditEvents
  BY <1>2, AuditAssumption DEF AuditInit
<1>7. \A e \in Emitters : emitting[e].step \in {"idle", "timed", "read"}
  BY <1>4
<1>8. {logicalClock, auditIds, emitted, restarts} \subseteq Nat /\ auditIds <= emitted
  BY DEF AuditInit
<1>9. auditOverlap \in BOOLEAN /\ damage \in {"none", "altered", "unhashed_altered", "inner_lost", "tail_lost"}
  BY Zenon DEF AuditInit
<1> QED
  BY <1>2, <1>3, <1>4, <1>5, <1>6, <1>7, <1>8, <1>9 DEF AuditCounted

\* An emitter that moves on, and who is under way then.
LEMMA CountMoves ==
    ASSUME AuditCounted, NEW e \in Emitters, NEW to, MoveEmitter(e, to),
           DOMAIN to = {"step", "createdAt", "previousHash"}, to.step \in {"idle", "timed", "read"}
    PROVE  /\ DOMAIN emitting' = Emitters /\ auditOverlap' \in BOOLEAN
           /\ \A f \in Emitters : /\ DOMAIN emitting'[f] = {"step", "createdAt", "previousHash"}
                                  /\ emitting'[f].step \in {"idle", "timed", "read"}
           /\ UnderWayEmitters' = IF to.step = "idle" THEN UnderWayEmitters \ {e} ELSE UnderWayEmitters \cup {e}
<1>1. DOMAIN emitting' = Emitters /\ emitting'[e] = to /\ \A f \in Emitters \ {e} : emitting'[f] = emitting[f]
  BY DEF AuditCounted, MoveEmitter
<1>2. auditOverlap' \in BOOLEAN
  BY DEF AuditCounted, MoveEmitter
<1>3. \A f \in Emitters : /\ DOMAIN emitting'[f] = {"step", "createdAt", "previousHash"}
                          /\ emitting'[f].step \in {"idle", "timed", "read"}
  BY <1>1 DEF AuditCounted
<1>4. UnderWayEmitters' = IF to.step = "idle" THEN UnderWayEmitters \ {e} ELSE UnderWayEmitters \cup {e}
  BY <1>1 DEF UnderWayEmitters
<1> QED
  BY <1>1, <1>2, <1>3, <1>4

LEMMA TakeTimeCounts ==
    ASSUME AuditCounted, NEW e \in Emitters, TakeTime(e)
    PROVE  AuditCounted'
<1>1. PICK to : /\ to = [IdleEmitter EXCEPT !.step = "timed", !.createdAt = logicalClock + 1]
                /\ MoveEmitter(e, to)
                /\ DOMAIN to = {"step", "createdAt", "previousHash"} /\ to.step = "timed"
  <2>1. DOMAIN IdleEmitter = {"step", "createdAt", "previousHash"}
    BY DEF IdleEmitter
  <2>2. PICK at : at = logicalClock + 1
    OBVIOUS
  <2>3. PICK to : to = [IdleEmitter EXCEPT !.step = "timed", !.createdAt = at]
    OBVIOUS
  <2>4. DOMAIN to = {"step", "createdAt", "previousHash"} /\ to.step = "timed"
    BY <2>1, <2>3
  <2> QED
    BY <2>2, <2>3, <2>4 DEF TakeTime
<1>2. PICK n \in Nat : n = Cardinality(UnderWayEmitters) /\ emitted + n < MaxAuditEvents
  BY FS_CardinalityType DEF AuditCounted, TakeTime, UnderWayEmitters
<1>3. UnderWayEmitters' = UnderWayEmitters \cup {e} /\ e \notin UnderWayEmitters
  BY <1>1, CountMoves DEF UnderWayEmitters, TakeTime
<1>4. IsFiniteSet(UnderWayEmitters') /\ Cardinality(UnderWayEmitters') = n + 1
  BY <1>2, <1>3, FS_AddElement DEF AuditCounted
<1>5. emitted' + Cardinality(UnderWayEmitters') <= MaxAuditEvents
  BY <1>2, <1>4, AuditAssumption DEF TakeTime, AuditCounted
<1>6. /\ UNCHANGED <<auditLog, auditIds, emitted, restarts, damage>> /\ logicalClock' \in Nat
  BY DEF TakeTime, AuditCounted
<1>7. /\ DOMAIN emitting' = Emitters /\ auditOverlap' \in BOOLEAN
      /\ \A f \in Emitters : /\ DOMAIN emitting'[f] = {"step", "createdAt", "previousHash"}
                             /\ emitting'[f].step \in {"idle", "timed", "read"}
  BY <1>1, CountMoves
<1> QED
  BY <1>4, <1>5, <1>6, <1>7 DEF AuditCounted

LEMMA ReadTailCounts ==
    ASSUME AuditCounted, NEW e \in Emitters, ReadTail(e)
    PROVE  AuditCounted'
<1>1. PICK to : /\ to = [emitting[e] EXCEPT !.step = "read", !.previousHash = LatestHash] /\ MoveEmitter(e, to)
                /\ DOMAIN to = {"step", "createdAt", "previousHash"} /\ to.step = "read"
  <2>1. DOMAIN emitting[e] = {"step", "createdAt", "previousHash"}
    BY DEF AuditCounted
  <2>2. PICK to : to = [emitting[e] EXCEPT !.step = "read", !.previousHash = LatestHash]
    OBVIOUS
  <2>3. DOMAIN to = {"step", "createdAt", "previousHash"} /\ to.step = "read"
    BY <2>1, <2>2
  <2> QED
    BY <2>2, <2>3 DEF ReadTail
<1>2. UnderWayEmitters' = UnderWayEmitters
  BY <1>1, CountMoves DEF UnderWayEmitters, ReadTail
<1>3. UNCHANGED <<auditLog, logicalClock, auditIds, emitted, restarts, damage>>
  BY DEF ReadTail
<1>4. /\ DOMAIN emitting' = Emitters /\ auditOverlap' \in BOOLEAN
      /\ \A f \in Emitters : /\ DOMAIN emitting'[f] = {"step", "createdAt", "previousHash"}
                             /\ emitting'[f].step \in {"idle", "timed", "read"}
  BY <1>1, CountMoves
<1> QED
  BY <1>2, <1>3, <1>4 DEF AuditCounted

LEMMA InsertEventCounts ==
    ASSUME AuditCounted, NEW e \in Emitters, InsertEvent(e)
    PROVE  AuditCounted'
<1>1. PICK row : /\ row = [id |-> auditIds + 1, createdAt |-> emitting[e].createdAt, content |-> "original",
                           unhashed |-> "original", previousHash |-> emitting[e].previousHash,
                           eventHash |-> EventHash("original", emitting[e].createdAt, emitting[e].previousHash)]
                 /\ auditLog' = Stored(auditLog, row)
  BY DEF InsertEvent
<1>2. "id" \in DOMAIN row /\ row.id = auditIds + 1
  BY <1>1
<1>3. MoveEmitter(e, IdleEmitter) /\ e \in UnderWayEmitters
  BY DEF InsertEvent, UnderWayEmitters
<1>4. UnderWayEmitters' = UnderWayEmitters \ {e}
  BY <1>3, CountMoves DEF IdleEmitter
<1>5. PICK n \in Nat : n = Cardinality(UnderWayEmitters) /\ emitted + n <= MaxAuditEvents
  BY FS_CardinalityType DEF AuditCounted
<1>6. IsFiniteSet(UnderWayEmitters') /\ Cardinality(UnderWayEmitters') = n - 1 /\ n # 0
  BY <1>3, <1>4, <1>5, FS_RemoveElement, FS_EmptySet DEF AuditCounted
<1>7. /\ row.id \in 1 .. MaxAuditEvents /\ auditIds' <= emitted' /\ {auditIds', emitted'} \subseteq Nat
      /\ emitted' + Cardinality(UnderWayEmitters') <= MaxAuditEvents
  BY <1>2, <1>5, <1>6, AuditAssumption DEF InsertEvent, AuditCounted
<1>8. PICK m \in Nat : m = Len(auditLog) /\ DOMAIN auditLog = 1 .. m
  BY LenProperties DEF AuditCounted
<1>9. auditLog' \in Seq({auditLog'[i] : i \in DOMAIN auditLog'}) /\ \A i \in DOMAIN auditLog' :
        auditLog'[i] = row \/ \E k \in DOMAIN auditLog : auditLog'[i] = auditLog[k]
  <2>1. PICK S : S = {auditLog[i] : i \in DOMAIN auditLog} \cup {row}
    OBVIOUS
  <2>2. CASE \E i \in DOMAIN auditLog : auditLog[i].id = row.id
    <3>1. auditLog' = [i \in 1 .. m |-> IF auditLog[i].id = row.id THEN row ELSE auditLog[i]]
      BY <1>1, <1>8, <2>2 DEF Stored
    <3>2. auditLog' \in [1 .. m -> S]
      BY <1>8, <2>1, <3>1
    <3>3. auditLog' \in Seq(S)
      BY <3>2
    <3>4. auditLog' \in Seq({auditLog'[i] : i \in DOMAIN auditLog'})
      BY <3>3, SequenceOfItsOwn
    <3> QED
      BY <1>8, <3>1, <3>4
  <2>3. CASE ~ \E i \in DOMAIN auditLog : auditLog[i].id = row.id
    <3>1. auditLog' = Append(auditLog, row)
      BY <1>1, <2>3 DEF Stored
    <3>2. PICK R : R = {auditLog[i] : i \in DOMAIN auditLog} /\ auditLog \in Seq(R)
      BY DEF AuditCounted
    <3>3. /\ auditLog' \in Seq(R \cup {row}) /\ DOMAIN auditLog' = 1 .. m + 1
          /\ auditLog'[m + 1] = row /\ \A i \in 1 .. m : auditLog'[i] = auditLog[i]
      BY <1>8, <3>1, <3>2, RowAdded
    <3>4. auditLog' \in Seq({auditLog'[i] : i \in DOMAIN auditLog'})
      BY <3>3, SequenceOfItsOwn
    <3> QED
      BY <1>8, <3>3, <3>4
  <2> QED
    BY <2>2, <2>3
<1>10. \A i \in DOMAIN auditLog' : "id" \in DOMAIN auditLog'[i] /\ auditLog'[i].id \in 1 .. MaxAuditEvents
  BY <1>2, <1>7, <1>9 DEF AuditCounted
<1>11. "step" \in DOMAIN IdleEmitter /\ DOMAIN IdleEmitter = {"step", "createdAt", "previousHash"} /\ IdleEmitter.step = "idle"
  BY DEF IdleEmitter
<1> QED
  BY <1>3, <1>6, <1>7, <1>9, <1>10, <1>11, CountMoves DEF AuditCounted, InsertEvent

LEMMA RestartCounts == AuditCounted /\ RestartProcess => AuditCounted'
<1> SUFFICES ASSUME AuditCounted, RestartProcess PROVE AuditCounted'
  OBVIOUS
<1>1. UnderWayEmitters' = {}
  BY DEF RestartProcess, UnderWayEmitters, IdleEmitter
<1>2. IsFiniteSet(UnderWayEmitters') /\ Cardinality(UnderWayEmitters') = 0
  BY <1>1, FS_EmptySet
<1>3. /\ DOMAIN emitting' = Emitters
      /\ \A e \in Emitters : DOMAIN emitting'[e] = {"step", "createdAt", "previousHash"} /\ emitting'[e].step = "idle"
  BY DEF RestartProcess, IdleEmitter
<1>4. emitted' <= MaxAuditEvents
  BY FS_CardinalityType, AuditAssumption DEF AuditCounted, RestartProcess
<1> QED
  BY <1>2, <1>3, <1>4, AuditAssumption DEF AuditCounted, RestartProcess

LEMMA DamageCounts ==
    ASSUME AuditCounted, NEW p \in DOMAIN auditLog, AlterEvent(p) \/ AlterUnhashed(p) \/ LoseEvent(p)
    PROVE  AuditCounted'
<1>1. PICK m \in Nat : m = Len(auditLog) /\ DOMAIN auditLog = 1 .. m
  BY LenProperties DEF AuditCounted
<1>2. PICK R : R = {auditLog[i] : i \in DOMAIN auditLog} /\ auditLog \in Seq(R)
  BY DEF AuditCounted
<1>3. /\ auditLog' \in Seq({auditLog'[i] : i \in DOMAIN auditLog'})
      /\ \A i \in DOMAIN auditLog' : \E k \in DOMAIN auditLog : "id" \in DOMAIN auditLog'[i] /\ auditLog'[i].id = auditLog[k].id
  <2>1. CASE AlterEvent(p) \/ AlterUnhashed(p)
    <3>1. PICK row : /\ row = [auditLog[p] EXCEPT !.content = "altered"] \/ row = [auditLog[p] EXCEPT !.unhashed = "altered"]
                   /\ auditLog' = [auditLog EXCEPT ![p] = row]
      BY <2>1 DEF AlterEvent, AlterUnhashed
    <3>2. auditLog' = [auditLog EXCEPT ![p] = row] /\ "id" \in DOMAIN row /\ row.id = auditLog[p].id
      BY <3>1 DEF AuditCounted
    <3>3. PICK T : T = R \cup {row}
      OBVIOUS
    <3>4. auditLog' \in [1 .. m -> T]
      BY <1>1, <1>2, <3>2, <3>3
    <3>5. auditLog' \in Seq(T)
      BY <3>4
    <3>6. auditLog' \in Seq({auditLog'[i] : i \in DOMAIN auditLog'})
      BY <3>5, SequenceOfItsOwn
    <3> QED
      BY <1>1, <3>2, <3>4, <3>6 DEF AuditCounted
  <2>2. CASE LoseEvent(p)
    <3>1. auditLog' = RemoveAt(auditLog, p)
      BY <2>2 DEF LoseEvent, RemoveAt
    <3>2. /\ auditLog' \in Seq(R) /\ Len(auditLog') = m - 1
          /\ \A i \in 1 .. m - 1 : auditLog'[i] = auditLog[IF i < p THEN i ELSE i + 1]
      <4>1. /\ RemoveAt(auditLog, p) \in Seq(R) /\ Len(RemoveAt(auditLog, p)) = Len(auditLog) - 1
            /\ \A i \in 1 .. Len(auditLog) - 1 : RemoveAt(auditLog, p)[i] = auditLog[IF i < p THEN i ELSE i + 1]
        <5>1. p \in 1 .. Len(auditLog)
          BY <1>1
        <5> QED
          BY <1>2, <5>1, RemovalIsPart
      <4> QED
        BY <1>1, <3>1, <4>1
    <3>3. DOMAIN auditLog' = 1 .. m - 1
      BY <3>2, LenProperties
    <3>4. auditLog' \in Seq({auditLog'[i] : i \in DOMAIN auditLog'})
      BY <3>2, SequenceOfItsOwn
    <3>5. \A i \in 1 .. m - 1 : (IF i < p THEN i ELSE i + 1) \in 1 .. m
      BY <1>1
    <3> QED
      BY <1>1, <3>2, <3>3, <3>4, <3>5 DEF AuditCounted
  <2> QED
    BY <2>1, <2>2
<1>4. /\ UNCHANGED <<emitting, logicalClock, auditIds, emitted, auditOverlap, restarts>>
      /\ damage' \in {"altered", "unhashed_altered", "inner_lost", "tail_lost"}
  BY DEF AlterEvent, AlterUnhashed, LoseEvent
<1>5. UnderWayEmitters' = UnderWayEmitters
  BY <1>4 DEF UnderWayEmitters
<1> QED
  BY <1>3, <1>4, <1>5 DEF AuditCounted

LEMMA AuditStepCounts == AuditCounted /\ [AuditNext]_auditVars => AuditCounted'
<1> SUFFICES ASSUME AuditCounted, [AuditNext]_auditVars PROVE AuditCounted'
  OBVIOUS
<1>1. CASE UNCHANGED auditVars
  BY <1>1 DEF auditVars, AuditCounted, UnderWayEmitters
<1> QED
  BY <1>1, TakeTimeCounts, ReadTailCounts, InsertEventCounts, RestartCounts, DamageCounts DEF AuditNext

LEMMA AuditIsTyped == AuditCounted => AuditTypeOK
BY DEF AuditCounted, AuditTypeOK

\* However emissions overlap, whatever restarts there are and whatever happens to the stored
\* rows: the ids are of those the counter gives out (emitAudit, audit-service.ts:22).
THEOREM AuditTypeCorrect == AuditSpec => []AuditTypeOK
<1>1. AuditCounted /\ [AuditNext]_auditVars => AuditCounted'
  BY AuditStepCounts
<1>2. AuditCounted => AuditTypeOK
  BY AuditIsTyped
<1> QED
  BY <1>1, <1>2, CountingStarts, PTL DEF AuditSpec

-----------------------------------------------------------------------------
\* The services together. A behaviour of the composition is one of its part's, and the
\* other parts stay as they began.
DataInv ==
    /\ part = "ontology" => LedgerInv /\ LinksLead
    /\ part = "preflight" => PreflightInv /\ scope \in Scopes
    /\ part = "audit" => AuditCounted
    /\ part = "notify" => NotifyInv
    /\ part = "ingest" => IngestInv /\ ReturnsLater
    /\ part = "retention" => RetentionInv /\ JobsWithin /\ Noted
    /\ part = "store" => StoreInv
    /\ part = "access" => AccessInv
    /\ part = "merge" => MergeInv
    /\ part = "packs" => PackInv
    /\ part = "learning" => LearningInv /\ Reviewed

LEMMA DataStarts == NoLoops /\ Init => DataInv
<1> SUFFICES ASSUME NoLoops, Init PROVE DataInv
  OBVIOUS
<1>1. OntologyInit /\ AuditInit /\ NotifyInit /\ IngestInit /\ RetentionInit /\ MergeInit /\ PackInit /\ LearningInit
  BY DEF Init
<1>2. StoreInit
  BY DEF Init
<1>3. part = "preflight" => PreflightInit
  BY DEF Init
<1>4. part = "access" => AccessInit
  BY DEF Init
<1>5. LedgerInv /\ LinksLead /\ MergeInv /\ PackInv
  BY <1>1, MergeAssumption, OntologyInitInv, NothingLeadsYet, MergeInvInit, PackStarts
<1>6. AuditCounted /\ NotifyInv /\ IngestInv /\ ReturnsLater
  BY <1>1, CountingStarts, NotifyInitInv, IngestInitInv, NothingIsReturnedYet
<1>7. RetentionInv /\ JobsWithin /\ Noted /\ StoreInv
  BY <1>1, <1>2, RetentionInitInv, JobsStartWithin, NothingIsNoted, StoreInitInv
<1>8. LearningInv /\ Reviewed
  BY <1>1, LearningInitInv, ReviewsStart
<1> QED
  BY <1>3, <1>4, <1>5, <1>6, <1>7, <1>8, PreflightStarts, AccessStarts DEF DataInv

LEMMA OneDataPartMoves ==
    ASSUME [Next]_vars
    PROVE  /\ part' = part
           /\ [OntologyNext]_ontologyVars
           /\ [PreflightNext]_preflightVars
           /\ [AuditNext]_auditVars
           /\ [NotifyNext]_notifyVars
           /\ [IngestNext]_ingestVars
           /\ [RetentionNext]_retentionVars
           /\ [StoreNext]_storeVars
           /\ [EnforceObjectAccess]_accessVars
           /\ [MergeNext]_mergeVars
           /\ [PackNext]_packVars
           /\ [LearningNext]_learningVars
<1>1. CASE UNCHANGED vars
  BY <1>1 DEF vars
<1>2. CASE Next
  BY <1>2 DEF Next
<1> QED
  BY <1>1, <1>2

\* What the composition shows of a data service, how it begins and each step, is what the
\* service's own specification allows, so what was proved of the service's states holds in it.
THEOREM DataServicesFollowTheirSpecs ==
    Spec =>
      /\ OntologyInit
      /\ AuditInit
      /\ NotifyInit
      /\ IngestInit
      /\ RetentionInit
      /\ StoreInit
      /\ MergeInit
      /\ PackInit
      /\ LearningInit
      /\ (part = "preflight" => PreflightInit)
      /\ (part = "access" => AccessInit)
      /\ [][OntologyNext]_ontologyVars
      /\ [][PreflightNext]_preflightVars
      /\ [][AuditNext]_auditVars
      /\ [][NotifyNext]_notifyVars
      /\ [][IngestNext]_ingestVars
      /\ [][RetentionNext]_retentionVars
      /\ [][StoreNext]_storeVars
      /\ [][EnforceObjectAccess]_accessVars
      /\ [][MergeNext]_mergeVars
      /\ [][PackNext]_packVars
      /\ [][LearningNext]_learningVars
<1>1. Init => /\ OntologyInit /\ AuditInit /\ NotifyInit /\ IngestInit /\ RetentionInit /\ StoreInit
              /\ MergeInit /\ PackInit /\ LearningInit
              /\ (part = "preflight" => PreflightInit)
              /\ (part = "access" => AccessInit)
  BY DEF Init
<1>2. [Next]_vars => [OntologyNext]_ontologyVars
  BY OneDataPartMoves
<1>3. [Next]_vars => [PreflightNext]_preflightVars
  BY OneDataPartMoves
<1>4. [Next]_vars => [AuditNext]_auditVars
  BY OneDataPartMoves
<1>5. [Next]_vars => [NotifyNext]_notifyVars
  BY OneDataPartMoves
<1>6. [Next]_vars => [IngestNext]_ingestVars
  BY OneDataPartMoves
<1>7. [Next]_vars => [RetentionNext]_retentionVars
  BY OneDataPartMoves
<1>8. [Next]_vars => [StoreNext]_storeVars
  BY OneDataPartMoves
<1>9. [Next]_vars => [EnforceObjectAccess]_accessVars
  BY OneDataPartMoves
<1>10. [Next]_vars => [MergeNext]_mergeVars
  BY OneDataPartMoves
<1>11. [Next]_vars => [PackNext]_packVars
  BY OneDataPartMoves
<1>12. [Next]_vars => [LearningNext]_learningVars
  BY OneDataPartMoves
<1> QED
  BY <1>1, <1>2, <1>3, <1>4, <1>5, <1>6, <1>7, <1>8, <1>9, <1>10, <1>11, <1>12, PTL DEF Spec

LEMMA DataStepKeeps == EndsAreThere /\ DataInv /\ [Next]_vars => DataInv'
<1> SUFFICES ASSUME EndsAreThere, DataInv, [Next]_vars PROVE DataInv'
  OBVIOUS
<1>1. part' = part
  BY OneDataPartMoves
<1>2. CASE part = "ontology"
  <2>1. (LedgerInv /\ LinksLead)'
    BY <1>2, OneDataPartMoves, OntologyNextLedger, LinksLeadOn DEF DataInv
  <2> QED
    BY <1>1, <1>2, <2>1 DEF DataInv
<1>3. CASE part = "preflight"
  <2>1. (PreflightInv /\ scope \in Scopes)'
    BY <1>3, OneDataPartMoves, ScopeStepKeeps DEF DataInv
  <2> QED
    BY <1>1, <1>3, <2>1 DEF DataInv
<1>4. CASE part = "audit"
  <2>1. AuditCounted'
    BY <1>4, OneDataPartMoves, AuditStepCounts DEF DataInv
  <2> QED
    BY <1>1, <1>4, <2>1 DEF DataInv
<1>5. CASE part = "notify"
  <2>1. NotifyInv'
    BY <1>5, OneDataPartMoves, NotifyNextInv DEF DataInv
  <2> QED
    BY <1>1, <1>5, <2>1 DEF DataInv
<1>6. CASE part = "ingest"
  <2>1. (IngestInv /\ ReturnsLater)'
    BY <1>6, OneDataPartMoves, IngestNextInv, ReturningStaysLater DEF DataInv
  <2> QED
    BY <1>1, <1>6, <2>1 DEF DataInv
<1>7. CASE part = "retention"
  <2>1. (RetentionInv /\ JobsWithin /\ Noted)'
    BY <1>7, OneDataPartMoves, RetentionNextInv, JobsStayWithin, ObjectsAreNoted DEF DataInv
  <2> QED
    BY <1>1, <1>7, <2>1 DEF DataInv
<1>8. CASE part = "store"
  <2>1. StoreInv'
    BY <1>8, OneDataPartMoves, StoreNextInv DEF DataInv
  <2> QED
    BY <1>1, <1>8, <2>1 DEF DataInv
<1>9. CASE part = "access"
  <2>1. AccessInv'
    BY <1>9, OneDataPartMoves, AccessStepKeeps DEF DataInv
  <2> QED
    BY <1>1, <1>9, <2>1 DEF DataInv
<1>10. CASE part = "merge"
  <2>1. MergeInv'
    BY <1>10, OneDataPartMoves, MergeAssumption, MergeStepKeeps DEF DataInv
  <2> QED
    BY <1>1, <1>10, <2>1 DEF DataInv
<1>11. CASE part = "packs"
  <2>1. PackInv'
    BY <1>11, OneDataPartMoves, PackKeepsInvariant DEF DataInv
  <2> QED
    BY <1>1, <1>11, <2>1 DEF DataInv
<1>12. CASE part = "learning"
  <2>1. (LearningInv /\ Reviewed)'
    BY <1>12, OneDataPartMoves, LearningNextInv, ReviewsGoOn DEF DataInv
  <2> QED
    BY <1>1, <1>12, <2>1 DEF DataInv
<1> QED
  BY <1>1, <1>2, <1>3, <1>4, <1>5, <1>6, <1>7, <1>8, <1>9, <1>10, <1>11, <1>12 DEF DataInv

\* Whichever data service is under way, and whatever the values its instance is given, its
\* state keeps the type its component declares. Three things are asked of the instance: a link
\* is asked for between objects there are, no edge leads from an object to itself at first, and
\* the links of a whole graph join its objects.
THEOREM DataTypeCorrect == EndsAreThere /\ NoLoops /\ LinksJoinObjects => (Spec => []TypeOK)
<1> SUFFICES ASSUME EndsAreThere, NoLoops, LinksJoinObjects PROVE Spec => []TypeOK
  OBVIOUS
<1>1. Init => DataInv
  BY DataStarts
<1>2. DataInv /\ [Next]_vars => DataInv'
  BY DataStepKeeps
<1>3. DataInv => TypeOK
  BY OntologyIsTyped, PreflightsAreTyped, AuditIsTyped, NotificationsAreTyped, IngestionIsTyped,
     RetentionIsTyped, DocumentsAreTyped, DecisionsAreTyped, MergesAreTyped, PacksAreTyped, LearningIsTyped
  DEF DataInv, TypeOK
<1> QED
  BY <1>1, <1>2, <1>3, PTL DEF Spec

=============================================================================
