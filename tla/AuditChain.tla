----------------------------- MODULE AuditChain -----------------------------
(***************************************************************************)
(* The tamper-evident audit log of one tenant                              *)
(* (src/lib/lawrence-core/audit, src/lib/security/audit-integrity-service):*)
(* each event hashes its content, its time and the hash of the latest      *)
(* event.  An emission takes its time, reads the tail and inserts in three *)
(* steps.  Time and ids are per-process counters; on Postgres the rows     *)
(* outlive the process and the counters do not.                            *)
(***************************************************************************)
EXTENDS Subsequences, FiniteSets

CONSTANTS
    Emitters,           \* concurrent service calls that audit
    MaxAuditEvents,     \* bound on events emitted
    MaxRestarts         \* bound on process restarts

ASSUME AuditAssumption == {MaxAuditEvents, MaxRestarts} \subseteq Nat

VARIABLES
    auditLog,       \* db.auditEvents, in storage order
    emitting,       \* each emitter: step, createdAt and previousHash
    logicalClock,   \* the clock behind now()
    auditIds,       \* the counter behind id()
    emitted,        \* emissions that returned
    auditOverlap,   \* two emissions were under way at once
    restarts,
    damage          \* what happened to the stored rows outside the service

auditVars == <<auditLog, emitting, logicalClock, auditIds, emitted, auditOverlap, restarts, damage>>

NoHash == << >>

\* Mutated: the content is not hashed.
HashOfPlace(content, createdAt, previousHash) == <<createdAt, previousHash>>

\* computeEventHash.  content is the text that is hashed: tenant, action, subject and
\* metadata, joined.  What it leaves out, who acted (actorUserId) and where the text
\* divides into its fields, is the event's unhashed part.
EventHash(content, createdAt, previousHash) == <<content, createdAt, previousHash>>

IdleEmitter == [step |-> "idle", createdAt |-> 0, previousHash |-> NoHash]

AuditInit ==
    /\ auditLog = << >>
    /\ emitting = [e \in Emitters |-> IdleEmitter]
    /\ logicalClock = 0
    /\ auditIds = 0
    /\ emitted = 0
    /\ auditOverlap = FALSE
    /\ restarts = 0
    /\ damage = "none"

\* latestEventHash: the first of the events with the greatest createdAt.
LatestHash ==
    LET latest == {i \in DOMAIN auditLog : \A j \in DOMAIN auditLog :
                     \/ auditLog[j].createdAt < auditLog[i].createdAt
                     \/ auditLog[j].createdAt = auditLog[i].createdAt /\ i <= j}
    IN  IF auditLog = << >> THEN NoHash ELSE auditLog[CHOOSE i \in latest : TRUE].eventHash

MoveEmitter(e, to) ==
    /\ emitting' = [emitting EXCEPT ![e] = to]
    /\ auditOverlap' = (auditOverlap \/ \E f \in Emitters \ {e} : emitting[f].step # "idle")

TakeTime(e) ==
    /\ emitting[e].step = "idle"
    /\ emitted + Cardinality({f \in Emitters : emitting[f].step # "idle"}) < MaxAuditEvents
    /\ logicalClock' = logicalClock + 1
    /\ MoveEmitter(e, [IdleEmitter EXCEPT !.step = "timed", !.createdAt = logicalClock + 1])
    /\ UNCHANGED <<auditLog, auditIds, emitted, restarts, damage>>

ReadTail(e) ==
    /\ emitting[e].step = "timed"
    /\ MoveEmitter(e, [emitting[e] EXCEPT !.step = "read", !.previousHash = LatestHash])
    /\ UNCHANGED <<auditLog, logicalClock, auditIds, emitted, restarts, damage>>

\* The collection's insert replaces a row that has the id already.
Stored(log, event) ==
    IF \E i \in DOMAIN log : log[i].id = event.id
    THEN [i \in DOMAIN log |-> IF log[i].id = event.id THEN event ELSE log[i]]
    ELSE Append(log, event)

InsertEvent(e) ==
    LET at == emitting[e].createdAt
        previous == emitting[e].previousHash
    IN  /\ emitting[e].step = "read"
        /\ auditIds' = auditIds + 1
        /\ auditLog' = Stored(auditLog,
             [id |-> auditIds + 1, createdAt |-> at, content |-> "original", unhashed |-> "original",
              previousHash |-> previous, eventHash |-> EventHash("original", at, previous)])
        /\ emitted' = emitted + 1
        /\ MoveEmitter(e, IdleEmitter)
        /\ UNCHANGED <<logicalClock, restarts, damage>>

\* The process is restarted over its durable rows; emissions under way are lost.
RestartProcess ==
    /\ restarts < MaxRestarts
    /\ restarts' = restarts + 1
    /\ emitting' = [e \in Emitters |-> IdleEmitter]
    /\ logicalClock' = 0
    /\ auditIds' = 0
    /\ UNCHANGED <<auditLog, emitted, auditOverlap, damage>>

\* A stored row is altered, in what is hashed or in what is not, or lost.
AlterEvent(i) ==
    /\ damage = "none"
    /\ auditLog' = [auditLog EXCEPT ![i].content = "altered"]
    /\ damage' = "altered"
    /\ UNCHANGED <<emitting, logicalClock, auditIds, emitted, auditOverlap, restarts>>

AlterUnhashed(i) ==
    /\ damage = "none"
    /\ auditLog' = [auditLog EXCEPT ![i].unhashed = "altered"]
    /\ damage' = "unhashed_altered"
    /\ UNCHANGED <<emitting, logicalClock, auditIds, emitted, auditOverlap, restarts>>

LoseEvent(i) ==
    /\ damage = "none"
    /\ auditLog' = SubSeq(auditLog, 1, i - 1) \o SubSeq(auditLog, i + 1, Len(auditLog))
    /\ damage' = IF \E e \in Emitters : emitting[e].step = "read" \/ i < Len(auditLog)
                 THEN "inner_lost" ELSE "tail_lost"
    /\ UNCHANGED <<emitting, logicalClock, auditIds, emitted, auditOverlap, restarts>>

AuditNext ==
    \/ \E e \in Emitters : TakeTime(e) \/ ReadTail(e) \/ InsertEvent(e)
    \/ RestartProcess
    \/ \E i \in DOMAIN auditLog : AlterEvent(i) \/ AlterUnhashed(i) \/ LoseEvent(i)

AuditSpec == AuditInit /\ [][AuditNext]_auditVars

-----------------------------------------------------------------------------
\* The events verifyAuditChain walks before event i: sorted by createdAt, stably.
WalkedBefore(log, i) ==
    {j \in DOMAIN log : \/ log[j].createdAt < log[i].createdAt
                        \/ log[j].createdAt = log[i].createdAt /\ j < i}

\* verifyAuditChain on the events of a window: each links to the event before it, the
\* first to none, and hashes to what is stored.
ChainVerifies(log) ==
    \A i \in DOMAIN log :
      LET before == WalkedBefore(log, i)
          prior == CHOOSE j \in before : Cardinality(WalkedBefore(log, j)) = Cardinality(before) - 1
      IN  /\ log[i].previousHash = (IF before = {} THEN NoHash ELSE log[prior].eventHash)
          /\ log[i].eventHash = EventHash(log[i].content, log[i].createdAt, log[i].previousHash)

Window(log, to) == Kept(log, {i \in DOMAIN log : log[i].createdAt <= to})

AuditTypeOK ==
    /\ \A i \in DOMAIN auditLog : auditLog[i].id \in 1 .. MaxAuditEvents
    /\ \A e \in Emitters : emitting[e].step \in {"idle", "timed", "read"}
    /\ {logicalClock, auditIds, emitted, restarts} \subseteq Nat
    /\ auditOverlap \in BOOLEAN
    /\ damage \in {"none", "altered", "unhashed_altered", "inner_lost", "tail_lost"}

\* The verdict on the log is right as long as no two emissions overlapped and the process
\* was not restarted.  An intact log is never reported as tampered: every event emitted is
\* stored and every window from the first event on verifies.  Damage is not grown over:
\* once what was hashed of an event was altered, or the event lost with one after it, no
\* later emission makes the log verify again.  Two things go unnoticed: the loss of the
\* last event, and a change of what the hash leaves out, such as who acted (emitAudit,
\* audit-service.ts:22, and computeEventHash, audit-hash-service.ts:17, against
\* verifyAuditChain, audit-integrity-service.ts:28).
ChainVerdictIsRight ==
    ~auditOverlap /\ restarts = 0 =>
      /\ damage \in {"none", "unhashed_altered"} =>
           /\ Len(auditLog) = emitted
           /\ \A to \in 0 .. logicalClock : ChainVerifies(Window(auditLog, to))
      /\ damage \in {"altered", "inner_lost"} /\ (\A e \in Emitters : emitting[e].step = "idle")
           => ~ChainVerifies(auditLog)

=============================================================================
