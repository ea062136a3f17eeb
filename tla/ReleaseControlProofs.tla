------------------------ MODULE ReleaseControlProofs ------------------------
(***************************************************************************)
(* Proofs about the governance of releases, for any bundles, components,   *)
(* policies, requests in flight and kinds of request.                      *)
(*                                                                         *)
(* None of the properties is inductive: that a promotion is approved       *)
(* depends on who may have written "approved" to its bundle, and that in   *)
(* turn on what the requests in flight still hold in local variables.      *)
(* IInv states that, in one named part per kind of state:                  *)
(*   JobOK          what a request holds while it is in a phase;           *)
(*   RowsKnown      the rows a request refers to exist;                    *)
(*   GateKnown      an approval request has a subject that exists;         *)
(*   ReleaseInv, RecordInv, DecisionInv, PromotionInv                      *)
(*                  wherever "approved" is written, held or acted on, a    *)
(*                  reviewer or the policy stands behind it;               *)
(*   KillInv        a submission under an enabled switch has found the     *)
(*                  switch, or has yet to look at the item it blocks.      *)
(*                                                                         *)
(* On top of it, what promotions and rollbacks do to the components.  A    *)
(* bundle is tracked while before[r] says what its components were when    *)
(* its last promotion began, that is while nothing else has written them.  *)
(* EInv follows a tracked bundle through its promotion and its rollbacks:  *)
(*   SnapshotInv   a snapshot was taken of a row that exists;              *)
(*   ItemInv       what a request in flight holds is about its item;       *)
(*   PromoteInv    a promotion is alone, has applied the items before its  *)
(*                 own and kept their snapshots, and left the others;      *)
(*   ExecuteInv    a rollback holds the snapshots of the promotion and has *)
(*                 restored the items before its own;                      *)
(*   SettledInv    what holds of a bundle no promotion is working on.      *)
(* Nothing in the code refuses a bundle that names one component twice,    *)
(* and for such a bundle neither property holds: the second item overwrites*)
(* what the first one wrote.  DistinctItems is therefore a hypothesis.     *)
(***************************************************************************)
EXTENDS ReleaseControl, TLAPS

Row == RuntimeComponent \cup {Absent}
Patch == [status: ComponentStatus, version: VersionOrNull, statusOnly: BOOLEAN]
Snapshots == {<<>>} \cup UNION {[DOMAIN Items[r] -> Row] : r \in Release}

JobKind == {"none", "submit", "decide", "promote", "rollback", "execute",
            "kill", "unkill", "sweep"}

JobRecord ==
    [kind: JobKind, rel: Release \cup {"none"}, rec: Rollback \cup {"none"},
     gate: Gate \cup {"none"}, verdict: {"none", "approved", "rejected"},
     i: Nat, blocked: BOOLEAN, snaps: Snapshots, todo: SUBSET Component,
     comp: Component \cup {"none"}, found: Row, patch: Patch \cup {Absent}]

\* The phases a request of each kind goes through.
Phases(kind) ==
    CASE kind = "submit" -> {"check", "settle", "reset", "autoapprove", "restate",
                             "request", "raise", "pend"}
      [] kind = "decide" -> {"decide", "advance"}
      [] kind = "promote" -> {"previous", "keep", "find", "write", "promoted", "unapplied"}
      [] kind = "rollback" -> {"record", "request", "raise", "pend"}
      [] kind = "execute" -> {"reverse", "find", "write", "complete", "rolledback",
                              "unreversed"}
      [] kind = "kill" -> {"raise", "lookup", "throw", "find", "write"}
      [] kind = "unkill" -> {"throw", "find", "write"}
      [] kind = "sweep" -> {"probe", "find", "write"}
      [] OTHER -> {"idle"}

\* What a request holds, whatever the rows are.
JobOK(w) ==
    LET phase == pc[w]
        j == job[w]
    IN  /\ phase \in Phases(j.kind)
        /\ j.kind \in {"submit", "promote", "rollback", "execute"} =>
                j.rel \in Release /\ j.i \in DOMAIN Items[j.rel]
        /\ j.rel \in Release => j.kind \in {"submit", "promote", "rollback", "execute"}
        /\ j.kind = "rollback" /\ phase # "record" => j.rec \in Rollback
        /\ j.kind = "execute" => j.rec \in Rollback /\ j.snaps \in [DOMAIN Items[j.rel] -> Row]
        /\ j.kind = "decide" => j.gate \in Gate /\ j.verdict # "none"
        /\ j.kind \in {"kill", "unkill"} \/ phase \in {"keep", "find", "write"} =>
                j.comp \in Component
        /\ phase \in {"keep", "find", "write"} => j.patch \in Patch
        /\ phase = "keep" => j.found \in RuntimeComponent
        /\ phase \in {"autoapprove", "restate"} => j.rel \notin Production

\* The rows a request refers to exist.
RowsKnown(w) ==
    /\ job[w].rec \in Rollback => record[job[w].rec].status # "absent"
    /\ job[w].kind = "decide" => gate[job[w].gate].state # "absent"
    /\ pc[w] = "write" /\ job[w].found # Absent => component[job[w].comp] # Absent

GateKnown(g) ==
    gate[g].state # "absent" =>
        /\ gate[g].subject \in Release \cup Rollback \cup Component
        /\ gate[g].subject \in Rollback => record[gate[g].subject].status # "absent"

ReleaseInv(r) == r \in Production /\ release[r] = "approved" => r \in sanctioned

\* The rollback policy lets record b through without a reviewer.
LetThrough(b) ==
    /\ RollbackPolicy.present
    /\ \/ RollbackPolicy.allowEmergencyBypass /\ record[b].emergency
       \/ ~RollbackPolicy.requireApproval /\ ~RollbackPolicy.ruleMatches

RecordInv(b) ==
    /\ record[b].status # "absent" => record[b].rel \in Release
    /\ record[b].status = "approved" => b \in sanctioned \/ LetThrough(b)
    /\ b \in reversed => record[b].status # "absent" /\ (b \in sanctioned \/ LetThrough(b))

DecisionInv(w) ==
    pc[w] = "advance" /\ job[w].verdict = "approved" => gate[job[w].gate].subject \in sanctioned

PromotionInv(w) ==
    job[w].kind = "promote" /\ job[w].rel \in Production => job[w].rel \in sanctioned

KillInv(w) ==
    w \in underKill /\ job[w].kind = "submit" =>
        /\ pc[w] \in {"check", "settle", "reset"}
        /\ \E k \in DOMAIN Items[job[w].rel] :
            /\ SwitchBlocks(Items[job[w].rel][k])
            /\ job[w].blocked \/ (pc[w] = "check" /\ k >= job[w].i)

HoldsFor(w) == JobOK(w) /\ RowsKnown(w) /\ DecisionInv(w) /\ PromotionInv(w) /\ KillInv(w)

Typed ==
    /\ TypeOK
    /\ DOMAIN snapshot = Release
    /\ job \in [Worker -> JobRecord]

IInv ==
    /\ Typed
    /\ \A w \in Worker : HoldsFor(w)
    /\ \A g \in Gate : GateKnown(g)
    /\ \A r \in Release : ReleaseInv(r)
    /\ \A b \in Rollback : RecordInv(b)
    /\ ProductionChangesAreApproved

\* What a step of worker w must keep for the other requests in flight.
Keeps(w) ==
    /\ \A c \in Component : component[c] # Absent => component'[c] # Absent
    /\ \A g \in Gate : gate[g].state # "absent" =>
            gate'[g].state # "absent" /\ gate'[g].subject = gate[g].subject
    /\ \A b \in Rollback : record[b].status # "absent" => record'[b].status # "absent"
    /\ sanctioned \subseteq sanctioned'
    /\ \A x \in underKill' \ {w} : x \in underKill
    /\ \A x \in underKill' \ {w} : job[x].kind = "submit" =>
            \A c \in Touches(job[x].rel) : switch[c] = "on" => switch'[c] = "on"

-----------------------------------------------------------------------------

LEMMA ItemFacts ==
  ASSUME NEW r \in Release
  PROVE  /\ Items[r] \in Seq(ReleaseBundleItem)
         /\ Len(Items[r]) \in Nat \ {0}
         /\ DOMAIN Items[r] = 1..Len(Items[r])
         /\ 1 \in DOMAIN Items[r]
         /\ \A k \in DOMAIN Items[r] :
                /\ Items[r][k] \in ReleaseBundleItem
                /\ Items[r][k].component \in Component
                /\ Items[r][k].version \in VersionOrNull
                /\ StatusApplied(Items[r][k]) \in ComponentStatus
                /\ StatusUndone(Items[r][k]) \in ComponentStatus
<1>1. Items[r] \in Seq(ReleaseBundleItem) /\ Items[r] # <<>>
  BY ReleaseAssumption DEF ReleaseAssumption
<1>2. /\ Len(Items[r]) \in Nat \ {0}
      /\ DOMAIN Items[r] = 1..Len(Items[r])
      /\ \A k \in DOMAIN Items[r] : Items[r][k] \in ReleaseBundleItem
  BY <1>1
<1> QED
  BY <1>1, <1>2 DEF ReleaseBundleItem, StatusApplied, StatusUndone, ComponentStatus

LEMMA GotoFacts ==
  ASSUME Typed, NEW w \in Worker, NEW next, NEW j, Goto(w, next, j)
  PROVE  /\ pc'[w] = next
         /\ job'[w] = j
         /\ \A x \in Worker \ {w} : pc'[x] = pc[x] /\ job'[x] = job[x]
         /\ next \in JobPhase => pc' \in [Worker -> JobPhase]
         /\ j \in JobRecord => job' \in [Worker -> JobRecord]
BY DEF Typed, TypeOK, Goto

\* The other requests in flight keep what they hold.
LEMMA OthersHold ==
  ASSUME IInv, NEW w \in Worker, NEW next, NEW j, Goto(w, next, j), Keeps(w),
         NEW x \in Worker \ {w}
  PROVE  HoldsFor(x)'
<1>1. pc'[x] = pc[x] /\ job'[x] = job[x]
  BY GotoFacts DEF IInv
<1>2. HoldsFor(x) /\ job[x] \in JobRecord /\ Typed
  BY DEF IInv, Typed
<1>3. JobOK(x)'
  BY <1>1, <1>2 DEF HoldsFor, JobOK
<1>4. RowsKnown(x)'
  BY <1>1, <1>2 DEF HoldsFor, JobOK, RowsKnown, Keeps
<1>5. DecisionInv(x)' /\ PromotionInv(x)'
  <2>1. PromotionInv(x)'
    BY <1>1, <1>2 DEF HoldsFor, PromotionInv, Keeps
  <2>2. DecisionInv(x)'
    BY <1>1, <1>2 DEF HoldsFor, JobOK, Phases, RowsKnown, DecisionInv, Keeps
  <2> QED
    BY <2>1, <2>2
<1>6. KillInv(x)'
  <2> SUFFICES ASSUME x \in underKill', job[x].kind = "submit"
               PROVE  KillInv(x)'
    BY <1>1 DEF KillInv
  <2>1. PICK k \in DOMAIN Items[job[x].rel] :
            /\ SwitchBlocks(Items[job[x].rel][k])
            /\ job[x].blocked \/ (pc[x] = "check" /\ k >= job[x].i)
    BY <1>2 DEF HoldsFor, KillInv, Keeps
  <2>2. Items[job[x].rel][k].component \in Touches(job[x].rel)
    BY DEF Touches
  <2>3. SwitchBlocks(Items[job[x].rel][k])'
    BY <1>1, <2>1, <2>2 DEF SwitchBlocks, Keeps
  <2> QED
    BY <1>1, <1>2, <2>1, <2>3 DEF HoldsFor, KillInv, Keeps
<1> QED
  BY <1>3, <1>4, <1>5, <1>6 DEF HoldsFor

\* A step that writes no row and notes nothing.
LEMMA LocalStep ==
  ASSUME IInv, NEW w \in Worker, NEW next \in JobPhase, NEW j \in JobRecord,
         Goto(w, next, j), UNCHANGED <<rows, seen>>, HoldsFor(w)'
  PROVE  IInv'
<1> USE DEF rows, seen
<1>1. Typed'
  BY GotoFacts DEF IInv, Typed, TypeOK
<1>2. Keeps(w)
  BY DEF Keeps
<1>3. \A x \in Worker : HoldsFor(x)'
  BY <1>2, OthersHold
<1> QED
  BY <1>1, <1>3
     DEF IInv, GateKnown, ReleaseInv, RecordInv, LetThrough, ProductionChangesAreApproved

LEMMA FreshJobs ==
  /\ NoJob \in JobRecord /\ NoJob.kind = "none" /\ NoJob.rel = "none"
  /\ NoJob.rec = "none" /\ NoJob.i = 1
  /\ \A kind \in JobKind :
        LET j == Job(kind)
        IN  j \in JobRecord /\ j.kind = kind /\ j.rel = "none" /\ j.rec = "none" /\ j.i = 1
  /\ \A kind \in JobKind, r \in Release :
        LET j == OnRelease(kind, r)
        IN  j \in JobRecord /\ j.kind = kind /\ j.rel = r /\ j.rec = "none" /\ j.i = 1
  /\ \A kind \in JobKind, c \in Component :
        LET j == OnComponent(kind, c)
        IN  /\ j \in JobRecord /\ j.kind = kind /\ j.comp = c
            /\ j.rel = "none" /\ j.rec = "none" /\ j.i = 1
<1>1. /\ NoJob \in JobRecord /\ NoJob.kind = "none" /\ NoJob.rel = "none"
      /\ NoJob.rec = "none" /\ NoJob.i = 1
  BY DEF NoJob, JobRecord, JobKind, Row, Snapshots
<1>2. ASSUME NEW kind \in JobKind
      PROVE  /\ Job(kind) \in JobRecord /\ Job(kind).kind = kind
             /\ Job(kind).rel = "none" /\ Job(kind).rec = "none" /\ Job(kind).i = 1
  BY <1>1 DEF JobRecord, Job
<1>3. ASSUME NEW kind \in JobKind, NEW r \in Release
      PROVE  LET j == OnRelease(kind, r)
             IN  j \in JobRecord /\ j.kind = kind /\ j.rel = r /\ j.rec = "none" /\ j.i = 1
  BY <1>2 DEF JobRecord, OnRelease
<1>4. ASSUME NEW kind \in JobKind, NEW c \in Component
      PROVE  LET j == OnComponent(kind, c)
             IN  /\ j \in JobRecord /\ j.kind = kind /\ j.comp = c
            /\ j.rel = "none" /\ j.rec = "none" /\ j.i = 1
  BY <1>2 DEF JobRecord, OnComponent
<1> QED
  BY <1>1, <1>2, <1>3, <1>4

\* A finished request holds nothing.
LEMMA FinishHolds ==
  ASSUME Typed, NEW w \in Worker, Finish(w)
  PROVE  /\ Goto(w, "idle", NoJob) /\ "idle" \in JobPhase /\ NoJob \in JobRecord
         /\ HoldsFor(w)'
<1>1. Goto(w, "idle", NoJob) /\ pc'[w] = "idle" /\ job'[w] = NoJob
  BY GotoFacts DEF Finish
<1>2. HoldsFor(w)'
  BY <1>1, FreshJobs, ReleaseAssumption
     DEF ReleaseAssumption, HoldsFor, JobOK, Phases, RowsKnown, DecisionInv, PromotionInv, KillInv
<1> QED
  BY <1>1, <1>2, FreshJobs DEF JobPhase

LEMMA WorkerFacts ==
  ASSUME IInv, NEW w \in Worker
  PROVE  /\ Typed /\ TypeOK /\ HoldsFor(w) /\ JobOK(w) /\ RowsKnown(w)
         /\ DecisionInv(w) /\ PromotionInv(w) /\ KillInv(w)
         /\ job[w] \in JobRecord
BY DEF IInv, Typed, HoldsFor

-----------------------------------------------------------------------------
(* Steps that read rows and go on.                                         *)

LEMMA CheckItemIInv ==
  ASSUME IInv, NEW w \in Worker, CheckItem(w)
  PROVE  IInv'
<1> DEFINE b == job[w].blocked \/ SwitchBlocks(Item(w))
           n == IF LastItem(w) THEN 1 ELSE job[w].i + 1
           j == [job[w] EXCEPT !.blocked = b, !.i = n]
           next == IF LastItem(w) THEN "settle" ELSE "check"
<1>1. /\ Typed /\ HoldsFor(w) /\ pc[w] = "check" /\ job[w] \in JobRecord
      /\ Goto(w, next, j) /\ UNCHANGED <<rows, seen>>
  BY DEF IInv, Typed, CheckItem
<1>2. /\ job[w].kind = "submit" /\ job[w].rel \in Release
      /\ job[w].i \in 1..Len(Items[job[w].rel]) /\ Len(Items[job[w].rel]) \in Nat
      /\ 1 \in DOMAIN Items[job[w].rel]
      /\ DOMAIN Items[job[w].rel] = 1..Len(Items[job[w].rel])
  BY <1>1, ItemFacts DEF HoldsFor, JobOK, Phases, JobRecord, JobKind
<1>3. b \in BOOLEAN
  OBVIOUS
<1>4. n \in Nat
  BY <1>2
<1>5. next \in JobPhase
  BY DEF JobPhase
<1> HIDE DEF b, n, next
<1>6. j \in JobRecord
  BY <1>1, <1>3, <1>4 DEF JobRecord
<1>7. pc'[w] = next /\ job'[w] = j
  BY <1>1, GotoFacts
<1>8. /\ j.kind = job[w].kind /\ j.rel = job[w].rel /\ j.rec = job[w].rec
      /\ j.gate = job[w].gate /\ j.verdict = job[w].verdict
      /\ j.blocked = b /\ j.i = n
  BY <1>1 DEF JobRecord
<1> HIDE DEF j
<1>9. n \in 1..Len(Items[job[w].rel])
  BY <1>2 DEF n, LastItem
<1>10. JobOK(w)'
  BY <1>1, <1>2, <1>7, <1>8, <1>9 DEF HoldsFor, JobOK, Phases, next
<1>11. RowsKnown(w)' /\ DecisionInv(w)' /\ PromotionInv(w)'
  BY <1>1, <1>2, <1>7, <1>8 DEF HoldsFor, RowsKnown, DecisionInv, PromotionInv, rows, seen, next
<1>12. KillInv(w)'
  <2> SUFFICES ASSUME w \in underKill
               PROVE  \E k \in DOMAIN Items[job[w].rel] :
                        /\ SwitchBlocks(Items[job[w].rel][k])
                        /\ b \/ (next = "check" /\ k >= n)
    BY <1>1, <1>2, <1>7, <1>8 DEF KillInv, SwitchBlocks, rows, seen, next
  <2>1. PICK k \in DOMAIN Items[job[w].rel] :
            /\ SwitchBlocks(Items[job[w].rel][k])
            /\ job[w].blocked \/ k >= job[w].i
    BY <1>1, <1>2 DEF HoldsFor, KillInv
  <2>2. b \/ (next = "check" /\ k >= n)
    BY <1>2, <2>1 DEF b, n, next, Item, LastItem
  <2> QED
    BY <2>1, <2>2
<1> QED
  BY <1>1, <1>5, <1>6, <1>10, <1>11, <1>12, LocalStep DEF HoldsFor

LEMMA SettleValidationIInv ==
  ASSUME IInv, NEW w \in Worker, SettleValidation(w)
  PROVE  IInv'
<1>1. UNCHANGED <<rows, seen>> /\ pc[w] = "settle"
  BY DEF SettleValidation
<1>2. PICK next \in {"reset", "request", "autoapprove"} :
        /\ Goto(w, next, job[w])
        /\ job[w].blocked => next = "reset"
        /\ next = "autoapprove" => job[w].rel \notin Production
  BY DEF SettleValidation
<1>3. pc'[w] = next /\ job'[w] = job[w]
  BY <1>2, WorkerFacts, GotoFacts
<1>4. job[w].kind = "submit"
  BY <1>1, WorkerFacts DEF JobOK, Phases, JobRecord, JobKind
<1>5. JobOK(w)' /\ RowsKnown(w)' /\ DecisionInv(w)' /\ PromotionInv(w)'
  BY <1>1, <1>2, <1>3, <1>4, WorkerFacts
     DEF JobOK, Phases, RowsKnown, DecisionInv, PromotionInv, rows, seen
<1>6. KillInv(w)'
  BY <1>1, <1>2, <1>3, <1>4, WorkerFacts DEF KillInv, SwitchBlocks, rows, seen
<1> QED
  BY <1>1, <1>2, <1>5, <1>6, LocalStep, WorkerFacts DEF HoldsFor, JobPhase

LEMMA LookUpPendingIInv ==
  ASSUME IInv, NEW w \in Worker, LookUpPending(w)
  PROVE  IInv'
<1>1. UNCHANGED <<rows, seen>> /\ pc[w] = "request"
  BY DEF LookUpPending
<1>2. PICK next \in {"pend", "raise"} : Goto(w, next, job[w])
  BY DEF LookUpPending
<1>3. pc'[w] = next /\ job'[w] = job[w]
  BY <1>2, WorkerFacts, GotoFacts
<1>4. job[w].kind \in {"submit", "rollback"}
  BY <1>1, WorkerFacts DEF JobOK, Phases, JobRecord, JobKind
<1>5. HoldsFor(w)'
  BY <1>1, <1>2, <1>3, <1>4, WorkerFacts
     DEF HoldsFor, JobOK, Phases, RowsKnown, DecisionInv, PromotionInv, KillInv, rows, seen
<1> QED
  BY <1>1, <1>2, <1>5, LocalStep, WorkerFacts DEF JobPhase

LEMMA ItemThrowsIInv ==
  ASSUME IInv, NEW w \in Worker, ItemThrows(w)
  PROVE  IInv'
<1> DEFINE j == [Cleared(w) EXCEPT !.i = 1]
<1>1. /\ UNCHANGED <<rows, seen>> /\ job[w].kind \in {"promote", "execute"}
      /\ pc[w] \in {"previous", "keep", "reverse", "find", "write"}
  BY DEF ItemThrows
<1>2. PICK next \in {"unapplied", "unreversed"} :
        /\ Goto(w, next, j)
        /\ next = "unapplied" <=> job[w].kind = "promote"
  BY DEF ItemThrows
<1>3. /\ j \in JobRecord /\ j.i = 1
      /\ j.kind = job[w].kind /\ j.rel = job[w].rel /\ j.rec = job[w].rec
      /\ j.verdict = job[w].verdict /\ j.snaps = job[w].snaps
  BY WorkerFacts, ZenonT(60) DEF Cleared, JobRecord, Row
<1>4. pc'[w] = next /\ job'[w] = j
  BY <1>2, WorkerFacts, GotoFacts
<1> HIDE DEF j
<1>5. JobOK(w)'
  BY <1>1, <1>2, <1>3, <1>4, WorkerFacts, ItemFacts DEF JobOK, Phases
<1>6. RowsKnown(w)' /\ DecisionInv(w)' /\ PromotionInv(w)' /\ KillInv(w)'
  BY <1>1, <1>2, <1>3, <1>4, WorkerFacts
     DEF RowsKnown, DecisionInv, PromotionInv, KillInv, rows, seen
<1> QED
  BY <1>1, <1>2, <1>3, <1>5, <1>6, LocalStep DEF HoldsFor, JobPhase

LEMMA FindComponentIInv ==
  ASSUME IInv, NEW w \in Worker, FindComponent(w)
  PROVE  IInv'
<1> DEFINE j == [job[w] EXCEPT !.found = component[job[w].comp]]
<1>1. UNCHANGED <<rows, seen>> /\ pc[w] = "find" /\ Goto(w, "write", j)
  BY DEF FindComponent
<1>2. job[w].comp \in Component /\ component[job[w].comp] \in Row
  BY <1>1, WorkerFacts DEF JobOK, TypeOK, Row
<1>3. /\ j \in JobRecord /\ j.found = component[job[w].comp]
      /\ j.kind = job[w].kind /\ j.rel = job[w].rel /\ j.rec = job[w].rec /\ j.i = job[w].i
      /\ j.verdict = job[w].verdict /\ j.snaps = job[w].snaps /\ j.gate = job[w].gate
      /\ j.comp = job[w].comp /\ j.patch = job[w].patch
  BY <1>2, WorkerFacts DEF JobRecord
<1>4. pc'[w] = "write" /\ job'[w] = j
  BY <1>1, WorkerFacts, GotoFacts
<1> HIDE DEF j
<1>5. JobOK(w)'
  BY <1>1, <1>3, <1>4, WorkerFacts DEF JobOK, Phases, JobRecord, JobKind
<1>6. RowsKnown(w)' /\ DecisionInv(w)' /\ PromotionInv(w)' /\ KillInv(w)'
  BY <1>1, <1>3, <1>4, WorkerFacts
     DEF JobOK, Phases, RowsKnown, DecisionInv, PromotionInv, KillInv, rows, seen
<1> QED
  BY <1>1, <1>3, <1>5, <1>6, LocalStep DEF HoldsFor, JobPhase

LEMMA BeginDecisionIInv ==
  ASSUME IInv, NEW w \in Worker, NEW g \in Gate, NEW verdict \in {"approved", "rejected"},
         BeginDecision(w, g, verdict)
  PROVE  IInv'
<1> DEFINE j == [Job("decide") EXCEPT !.gate = g, !.verdict = verdict]
<1>1. /\ UNCHANGED <<rows, seen>> /\ Goto(w, "decide", j) /\ gate[g].state = "pending"
  BY DEF BeginDecision, Take
<1>2. /\ j \in JobRecord /\ j.kind = "decide" /\ j.rel = "none" /\ j.rec = "none"
      /\ j.gate = g /\ j.verdict = verdict
  <2>1. /\ Job("decide") \in JobRecord
        /\ Job("decide").kind = "decide"
        /\ Job("decide").rel = "none" /\ Job("decide").rec = "none"
    BY FreshJobs DEF JobKind
  <2> QED
    BY <2>1 DEF JobRecord
<1>3. pc'[w] = "decide" /\ job'[w] = j
  BY <1>1, WorkerFacts, GotoFacts
<1> HIDE DEF j
<1>4. HoldsFor(w)'
  BY <1>1, <1>2, <1>3, ReleaseAssumption
     DEF ReleaseAssumption, HoldsFor, JobOK, Phases, RowsKnown, DecisionInv, PromotionInv,
         KillInv, rows, seen
<1> QED
  BY <1>1, <1>2, <1>4, LocalStep DEF JobPhase

LEMMA RequestRollbackIInv ==
  ASSUME IInv, NEW w \in Worker, NEW r \in Release, NEW emergency \in BOOLEAN,
         RequestRollback(w, r, emergency)
  PROVE  IInv'
<1> DEFINE j == [OnRelease("rollback", r) EXCEPT !.blocked = emergency]
<1>1. UNCHANGED <<rows, seen>> /\ Goto(w, "record", j)
  BY DEF RequestRollback, Take
<1>2. /\ j \in JobRecord /\ j.kind = "rollback" /\ j.rec = "none"
      /\ j.rel = r /\ j.i = 1
  BY FreshJobs DEF JobRecord, JobKind
<1>3. pc'[w] = "record" /\ job'[w] = j
  BY <1>1, WorkerFacts, GotoFacts
<1> HIDE DEF j
<1>4. HoldsFor(w)'
  BY <1>1, <1>2, <1>3, ItemFacts, ReleaseAssumption
     DEF ReleaseAssumption, HoldsFor, JobOK, Phases, RowsKnown, DecisionInv, PromotionInv,
         KillInv, rows, seen
<1> QED
  BY <1>1, <1>2, <1>4, LocalStep DEF JobPhase

LEMMA BeginSwitchIInv ==
  ASSUME IInv, NEW w \in Worker, NEW c \in Component,
         EnableKillSwitch(w, c) \/ DisableKillSwitch(w, c)
  PROVE  IInv'
<1>1. PICK kind \in {"kill", "unkill"}, next \in {"raise", "lookup", "throw"} :
        /\ UNCHANGED <<rows, seen>> /\ Goto(w, next, OnComponent(kind, c))
        /\ kind = "unkill" => next = "throw"
  BY DEF EnableKillSwitch, DisableKillSwitch, Take
<1> DEFINE j == OnComponent(kind, c)
<1>2. j \in JobRecord /\ j.kind = kind /\ j.rel = "none" /\ j.rec = "none" /\ j.comp = c
  BY FreshJobs DEF JobRecord, JobKind
<1>3. pc'[w] = next /\ job'[w] = j
  BY <1>1, WorkerFacts, GotoFacts
<1> HIDE DEF j
<1>4. HoldsFor(w)'
  BY <1>1, <1>2, <1>3, ReleaseAssumption
     DEF ReleaseAssumption, HoldsFor, JobOK, Phases, RowsKnown, DecisionInv, PromotionInv,
         KillInv, rows, seen
<1> QED
  BY <1>1, <1>2, <1>4, LocalStep DEF JobPhase, j

LEMMA LookUpSwitchIInv ==
  ASSUME IInv, NEW w \in Worker, LookUpSwitch(w)
  PROVE  IInv'
<1> DEFINE b == switch[job[w].comp] # "none"
           j == [job[w] EXCEPT !.blocked = b]
<1>1. UNCHANGED <<rows, seen>> /\ pc[w] = "lookup" /\ Goto(w, "throw", j)
  BY DEF LookUpSwitch
<1>2. b \in BOOLEAN
  OBVIOUS
<1> HIDE DEF b
<1>3. /\ j \in JobRecord
      /\ j.kind = job[w].kind /\ j.rel = job[w].rel /\ j.rec = job[w].rec
      /\ j.comp = job[w].comp
  BY <1>2, WorkerFacts DEF JobRecord
<1>4. pc'[w] = "throw" /\ job'[w] = j
  BY <1>1, WorkerFacts, GotoFacts
<1> HIDE DEF j
<1>5. job[w].kind = "kill"
  BY <1>1, WorkerFacts DEF JobOK, Phases, JobRecord, JobKind
<1>6. HoldsFor(w)'
  BY <1>1, <1>3, <1>4, <1>5, WorkerFacts
     DEF HoldsFor, JobOK, Phases, RowsKnown, DecisionInv, PromotionInv, KillInv, rows, seen
<1> QED
  BY <1>1, <1>3, <1>6, LocalStep DEF JobPhase

LEMMA SweepIInv ==
  ASSUME IInv, NEW w \in Worker, Sweep(w)
  PROVE  IInv'
<1> DEFINE todo == {c \in Component : component[c] # Absent /\ component[c].status # "disabled"}
           j == [Job("sweep") EXCEPT !.todo = todo]
<1>1. UNCHANGED <<rows, seen>> /\ Goto(w, "probe", j)
  BY DEF Sweep, Take
<1>2. todo \subseteq Component
  OBVIOUS
<1> HIDE DEF todo
<1>3. j \in JobRecord /\ j.kind = "sweep" /\ j.rel = "none" /\ j.rec = "none"
  BY <1>2, FreshJobs DEF JobRecord, JobKind
<1>4. pc'[w] = "probe" /\ job'[w] = j
  BY <1>1, WorkerFacts, GotoFacts
<1> HIDE DEF j
<1>5. HoldsFor(w)'
  BY <1>1, <1>3, <1>4, ReleaseAssumption
     DEF ReleaseAssumption, HoldsFor, JobOK, Phases, RowsKnown, DecisionInv, PromotionInv,
         KillInv, rows, seen
<1> QED
  BY <1>1, <1>3, <1>5, LocalStep DEF JobPhase

LEMMA ProbeIInv ==
  ASSUME IInv, NEW w \in Worker, Probe(w)
  PROVE  IInv'
<1>1. UNCHANGED <<rows, seen>> /\ pc[w] = "probe"
  BY DEF Probe
<1>2. job[w].kind = "sweep"
  BY <1>1, WorkerFacts DEF JobOK, Phases, JobRecord, JobKind
<1>3. PICK c \in Component :
        \/ \E health \in Health :
            Goto(w, "find", [job[w] EXCEPT !.todo = @ \ {c}, !.comp = c,
                                           !.patch = SetStatus(Probed[health])])
        \/ Goto(w, "probe", [job[w] EXCEPT !.todo = @ \ {c}])
  BY WorkerFacts DEF Probe, JobRecord
<1>4. CASE Goto(w, "probe", [job[w] EXCEPT !.todo = @ \ {c}])
  <2> DEFINE j == [job[w] EXCEPT !.todo = @ \ {c}]
  <2>1. /\ j \in JobRecord
        /\ j.kind = job[w].kind /\ j.rel = job[w].rel /\ j.rec = job[w].rec
    BY WorkerFacts DEF JobRecord
  <2>2. pc'[w] = "probe" /\ job'[w] = j
    BY <1>4, WorkerFacts, GotoFacts
  <2> HIDE DEF j
  <2>3. HoldsFor(w)'
    BY <1>1, <1>2, <2>1, <2>2, WorkerFacts
       DEF HoldsFor, JobOK, Phases, RowsKnown, DecisionInv, PromotionInv, KillInv, rows, seen
  <2> QED
    BY <1>1, <1>4, <2>1, <2>3, LocalStep DEF JobPhase, j
<1>5. ASSUME NEW health \in Health,
             Goto(w, "find", [job[w] EXCEPT !.todo = @ \ {c}, !.comp = c,
                                            !.patch = SetStatus(Probed[health])])
      PROVE  IInv'
  <2> DEFINE patch == SetStatus(Probed[health])
             j == [job[w] EXCEPT !.todo = @ \ {c}, !.comp = c, !.patch = patch]
  <2>1. patch \in Patch
    BY ReleaseAssumption
       DEF ReleaseAssumption, SetStatus, Probed, Patch, ComponentStatus, VersionOrNull
  <2> HIDE DEF patch
  <2>2. /\ j \in JobRecord /\ j.comp = c /\ j.patch = patch
        /\ j.kind = job[w].kind /\ j.rel = job[w].rel /\ j.rec = job[w].rec
    BY <2>1, WorkerFacts DEF JobRecord
  <2>3. pc'[w] = "find" /\ job'[w] = j
    BY <1>5, WorkerFacts, GotoFacts DEF patch
  <2> HIDE DEF j
  <2>4. HoldsFor(w)'
    BY <1>1, <1>2, <2>1, <2>2, <2>3, WorkerFacts
       DEF HoldsFor, JobOK, Phases, RowsKnown, DecisionInv, PromotionInv, KillInv, rows, seen
  <2> QED
    BY <1>1, <1>5, <2>2, <2>4, LocalStep DEF JobPhase, j, patch
<1> QED
  BY <1>3, <1>4, <1>5

LEMMA SweepDoneIInv ==
  ASSUME IInv, NEW w \in Worker, SweepDone(w)
  PROVE  IInv'
BY FinishHolds, LocalStep, WorkerFacts DEF SweepDone

LEMMA ReverseItemIInv ==
  ASSUME IInv, NEW w \in Worker, ReverseItem(w)
  PROVE  IInv'
<1> DEFINE snap == job[w].snaps[job[w].i]
           c == Item(w).component
           patch == IF snap = Absent THEN SetStatus(StatusUndone(Item(w)))
                    ELSE Upsert(snap.status, snap.version)
           j == [job[w] EXCEPT !.comp = c, !.patch = patch]
<1>1. UNCHANGED <<rows, seen>> /\ pc[w] = "reverse" /\ Goto(w, "find", j)
  BY DEF ReverseItem, GotoWrite
<1>2. job[w].kind = "execute"
  BY <1>1, WorkerFacts DEF JobOK, Phases, JobRecord, JobKind
<1>3. snap \in Row /\ c \in Component /\ StatusUndone(Item(w)) \in ComponentStatus
  BY <1>2, WorkerFacts, ItemFacts DEF JobOK, Item
<1>4. patch \in Patch
  BY <1>3 DEF Row, RuntimeComponent, SetStatus, Upsert, Patch, VersionOrNull
<1> HIDE DEF c, patch
<1>5. /\ j \in JobRecord /\ j.comp = c /\ j.patch = patch
      /\ j.kind = job[w].kind /\ j.rel = job[w].rel /\ j.rec = job[w].rec
      /\ j.i = job[w].i /\ j.verdict = job[w].verdict /\ j.snaps = job[w].snaps
  BY <1>3, <1>4, WorkerFacts DEF JobRecord
<1>6. pc'[w] = "find" /\ job'[w] = j
  BY <1>1, WorkerFacts, GotoFacts
<1> HIDE DEF j
<1>7. HoldsFor(w)'
  BY <1>1, <1>2, <1>3, <1>4, <1>5, <1>6, WorkerFacts
     DEF HoldsFor, JobOK, Phases, RowsKnown, DecisionInv, PromotionInv, KillInv, rows, seen
<1> QED
  BY <1>1, <1>5, <1>7, LocalStep DEF JobPhase

LEMMA ReadPreviousIInv ==
  ASSUME IInv, NEW w \in Worker, ReadPrevious(w)
  PROVE  IInv'
<1> DEFINE c == Item(w).component
           patch == Upsert(StatusApplied(Item(w)), Item(w).version)
           next == IF component[c] = Absent THEN "find" ELSE "keep"
           j == [job[w] EXCEPT !.comp = c, !.found = component[c], !.patch = patch]
<1>1. UNCHANGED <<rows, seen>> /\ pc[w] = "previous" /\ Goto(w, next, j)
  BY DEF ReadPrevious
<1>2. job[w].kind = "promote"
  BY <1>1, WorkerFacts DEF JobOK, Phases, JobRecord, JobKind
<1>3. /\ c \in Component /\ StatusApplied(Item(w)) \in ComponentStatus
      /\ Item(w).version \in VersionOrNull
  BY <1>2, WorkerFacts, ItemFacts DEF JobOK, Item
<1>4. patch \in Patch /\ component[c] \in Row
  BY <1>3, WorkerFacts DEF Upsert, Patch, TypeOK, Row
<1>5. next \in JobPhase
  BY DEF JobPhase
<1> HIDE DEF c, patch
<1>6. /\ j \in JobRecord /\ j.comp = c /\ j.patch = patch /\ j.found = component[c]
      /\ j.kind = job[w].kind /\ j.rel = job[w].rel /\ j.rec = job[w].rec
      /\ j.i = job[w].i /\ j.verdict = job[w].verdict /\ j.snaps = job[w].snaps
  BY <1>3, <1>4, WorkerFacts DEF JobRecord
<1>7. pc'[w] = next /\ job'[w] = j
  BY <1>1, WorkerFacts, GotoFacts
<1> HIDE DEF j
<1>8. HoldsFor(w)'
  BY <1>1, <1>2, <1>3, <1>4, <1>6, <1>7, WorkerFacts
     DEF HoldsFor, JobOK, Phases, RowsKnown, DecisionInv, PromotionInv, KillInv, rows, seen, Row
<1> QED
  BY <1>1, <1>5, <1>6, <1>8, LocalStep

-----------------------------------------------------------------------------
(* Steps that take up a request or cut it off: no row is written.          *)

LEMMA SeenStep ==
  ASSUME IInv, NEW w \in Worker, NEW next \in JobPhase, NEW j \in JobRecord,
         Goto(w, next, j), UNCHANGED <<rows, sanctioned, touched>>, HoldsFor(w)',
         before' \in [Release -> [Component -> Row] \cup {Absent}],
         underKill' \subseteq underKill \cup {w},
         \A b \in reversed' : b \in reversed \/ (b \in Rollback /\ record[b].status = "approved")
  PROVE  IInv'
<1> USE DEF rows
<1>1. Typed'
  BY WorkerFacts, GotoFacts DEF Typed, TypeOK, Row
<1>2. Keeps(w)
  BY DEF Keeps
<1>3. \A x \in Worker : HoldsFor(x)'
  BY <1>2, OthersHold
<1>4. \A b \in Rollback : RecordInv(b)'
  BY DEF IInv, RecordInv, LetThrough
<1> QED
  BY <1>1, <1>3, <1>4 DEF IInv, GateKnown, ReleaseInv, ProductionChangesAreApproved

LEMMA SubmitIInv ==
  ASSUME IInv, NEW w \in Worker, NEW r \in Release, Submit(w, r)
  PROVE  IInv'
<1> DEFINE j == OnRelease("submit", r)
<1>1. /\ UNCHANGED <<rows, sanctioned, touched, reversed, before>>
      /\ Goto(w, "check", j) /\ NoteKill(w, r)
  BY DEF Submit, Take
<1>2. j \in JobRecord /\ j.kind = "submit" /\ j.rec = "none" /\ j.rel = r /\ j.i = 1
  BY FreshJobs DEF JobKind
<1>3. pc'[w] = "check" /\ job'[w] = j
  BY <1>1, WorkerFacts, GotoFacts
<1> HIDE DEF j
<1>4. JobOK(w)' /\ RowsKnown(w)' /\ DecisionInv(w)' /\ PromotionInv(w)'
  BY <1>1, <1>2, <1>3, ItemFacts, ReleaseAssumption
     DEF ReleaseAssumption, JobOK, Phases, RowsKnown, DecisionInv, PromotionInv
<1>5. KillInv(w)'
  <2> SUFFICES ASSUME w \in underKill'
               PROVE  \E k \in DOMAIN Items[r] : SwitchBlocks(Items[r][k])' /\ k >= 1
    BY <1>2, <1>3 DEF KillInv
  <2>1. HasEnabledSwitch(r)
    BY <1>1 DEF NoteKill
  <2>2. PICK k \in DOMAIN Items[r] : SwitchBlocks(Items[r][k])
    BY <2>1 DEF HasEnabledSwitch, SwitchBlocks
  <2>3. SwitchBlocks(Items[r][k])' /\ k >= 1
    BY <1>1, <2>2, ItemFacts DEF SwitchBlocks, rows
  <2> QED
    BY <2>3
<1>6. underKill' \subseteq underKill \cup {w}
  BY <1>1 DEF NoteKill
<1>7. before' \in [Release -> [Component -> Row] \cup {Absent}]
  BY <1>1, WorkerFacts DEF TypeOK, Row
<1> QED
  BY <1>1, <1>2, <1>4, <1>5, <1>6, <1>7, SeenStep DEF HoldsFor, JobPhase

LEMMA PromoteIInv ==
  ASSUME IInv, NEW w \in Worker, NEW r \in Release, Promote(w, r)
  PROVE  IInv'
<1> DEFINE j == OnRelease("promote", r)
<1>1. /\ UNCHANGED <<rows, sanctioned, touched, reversed>>
      /\ Goto(w, "previous", j) /\ NoteKill(w, r) /\ Promotable(r)
  BY DEF Promote, Take
<1>2. j \in JobRecord /\ j.kind = "promote" /\ j.rec = "none" /\ j.rel = r /\ j.i = 1
  BY FreshJobs DEF JobKind
<1>3. pc'[w] = "previous" /\ job'[w] = j
  BY <1>1, WorkerFacts, GotoFacts
<1> HIDE DEF j
<1>4. JobOK(w)' /\ RowsKnown(w)' /\ DecisionInv(w)' /\ KillInv(w)'
  BY <1>1, <1>2, <1>3, ItemFacts, ReleaseAssumption
     DEF ReleaseAssumption, JobOK, Phases, RowsKnown, DecisionInv, KillInv
<1>5. PromotionInv(w)'
  BY <1>1, <1>2, <1>3 DEF IInv, PromotionInv, Promotable, ReleaseInv
<1>6. underKill' \subseteq underKill \cup {w}
  BY <1>1 DEF NoteKill
<1>7. before' \in [Release -> [Component -> Row] \cup {Absent}]
  BY WorkerFacts DEF Promote, TypeOK, Row
<1> QED
  BY <1>1, <1>2, <1>4, <1>5, <1>6, <1>7, SeenStep DEF HoldsFor, JobPhase

LEMMA ExecuteIInv ==
  ASSUME IInv, NEW w \in Worker, NEW b \in Rollback, Execute(w, b)
  PROVE  IInv'
<1> DEFINE r == record[b].rel
           j == [OnRelease("execute", r) EXCEPT !.rec = b, !.snaps = snapshot[r]]
<1>1. /\ UNCHANGED <<rows, sanctioned, touched, underKill>>
      /\ Goto(w, "reverse", j) /\ record[b].status = "approved" /\ reversed' = reversed \cup {b}
  BY DEF Execute, Take, Executable
<1>2. r \in Release
  BY <1>1 DEF IInv, RecordInv
<1>3. snapshot[r] \in [DOMAIN Items[r] -> Row]
  BY <1>2, WorkerFacts DEF TypeOK, Row
<1>4. /\ OnRelease("execute", r) \in JobRecord /\ OnRelease("execute", r).kind = "execute"
      /\ OnRelease("execute", r).rel = r /\ OnRelease("execute", r).i = 1
  BY <1>2, FreshJobs DEF JobKind
<1>5. snapshot[r] \in Snapshots
  BY <1>2, <1>3 DEF Snapshots
<1>6. /\ j \in JobRecord /\ j.kind = "execute" /\ j.rec = b /\ j.rel = r /\ j.i = 1
      /\ j.snaps = snapshot[r]
  BY <1>4, <1>5 DEF JobRecord
<1>7. pc'[w] = "reverse" /\ job'[w] = j
  BY <1>1, WorkerFacts, GotoFacts
<1>8. before' \in [Release -> [Component -> Row] \cup {Absent}]
  BY WorkerFacts DEF Execute, TypeOK, Row
<1> HIDE DEF j, r
<1>9. HoldsFor(w)'
  BY <1>1, <1>2, <1>3, <1>6, <1>7, ItemFacts
     DEF HoldsFor, JobOK, Phases, RowsKnown, DecisionInv, PromotionInv, KillInv, rows
<1> QED
  BY <1>1, <1>6, <1>8, <1>9, SeenStep DEF JobPhase

LEMMA CutOffIInv ==
  ASSUME IInv, NEW w \in Worker, CutOff(w)
  PROVE  IInv'
<1>1. before' \in [Release -> [Component -> Row] \cup {Absent}]
  BY WorkerFacts DEF CutOff, TypeOK, Row
<1>2. /\ Goto(w, "idle", NoJob) /\ "idle" \in JobPhase /\ NoJob \in JobRecord
      /\ HoldsFor(w)'
  BY WorkerFacts, FinishHolds DEF CutOff
<1> QED
  BY <1>1, <1>2, SeenStep DEF CutOff

-----------------------------------------------------------------------------
(* Steps that write a bundle's or a rollback record's status.              *)

LEMMA SetReleaseStep ==
  ASSUME IInv, NEW w \in Worker, NEW next \in JobPhase, NEW j \in JobRecord,
         Goto(w, next, j), HoldsFor(w)', NEW st \in ReleaseStatus, SetRelease(w, st),
         st = "approved" => job[w].rel \notin Production,
         UNCHANGED <<snapshot, component, switch, gate, record,
                     sanctioned, touched, reversed, underKill>>,
         before' \in [Release -> [Component -> Row] \cup {Absent}]
  PROVE  IInv'
<1>1. Typed'
  BY WorkerFacts, GotoFacts DEF Typed, TypeOK, Row, SetRelease
<1>2. Keeps(w)
  BY DEF Keeps
<1>3. \A x \in Worker : HoldsFor(x)'
  BY <1>2, OthersHold
<1>4. \A r \in Release : ReleaseInv(r)'
  BY WorkerFacts DEF IInv, ReleaseInv, SetRelease, TypeOK
<1> QED
  BY <1>1, <1>3, <1>4 DEF IInv, GateKnown, RecordInv, LetThrough, ProductionChangesAreApproved

LEMMA FinishReleaseIInv ==
  ASSUME IInv, NEW w \in Worker,
         \/ ReturnToDraft(w) \/ RestateApproved(w) \/ MarkPromoted(w)
         \/ MarkFailed(w) \/ MarkRolledBack(w)
  PROVE  IInv'
<1>1. PICK st \in ReleaseStatus :
        /\ SetRelease(w, st) /\ Finish(w)
        /\ st = "approved" => job[w].rel \notin Production
        /\ UNCHANGED <<snapshot, component, switch, gate, record,
                       sanctioned, touched, reversed, underKill>>
  BY WorkerFacts
     DEF ReturnToDraft, RestateApproved, MarkPromoted, MarkFailed, MarkRolledBack,
         ReleaseStatus, JobOK, seen
<1>2. before' \in [Release -> [Component -> Row] \cup {Absent}]
  BY WorkerFacts
     DEF ReturnToDraft, RestateApproved, MarkPromoted, MarkFailed, MarkRolledBack,
         seen, TypeOK, Row
<1>3. /\ Goto(w, "idle", NoJob) /\ "idle" \in JobPhase /\ NoJob \in JobRecord
      /\ HoldsFor(w)'
  BY <1>1, WorkerFacts, FinishHolds
<1> QED
  BY <1>1, <1>2, <1>3, SetReleaseStep

LEMMA AutoApproveIInv ==
  ASSUME IInv, NEW w \in Worker, AutoApprove(w)
  PROVE  IInv'
<1>1. /\ pc[w] = "autoapprove" /\ SetRelease(w, "approved") /\ Goto(w, "restate", job[w])
      /\ UNCHANGED <<snapshot, component, switch, gate, record, seen>>
  BY DEF AutoApprove
<1>2. job[w].kind = "submit"
  BY <1>1, WorkerFacts DEF JobOK, Phases, JobRecord, JobKind
<1>3. pc'[w] = "restate" /\ job'[w] = job[w]
  BY <1>1, WorkerFacts, GotoFacts
<1>4. HoldsFor(w)'
  BY <1>1, <1>2, <1>3, WorkerFacts
     DEF HoldsFor, JobOK, Phases, RowsKnown, DecisionInv, PromotionInv, KillInv, seen
<1>5. /\ before' \in [Release -> [Component -> Row] \cup {Absent}]
      /\ job[w].rel \notin Production
  BY <1>1, WorkerFacts DEF TypeOK, Row, seen, JobOK
<1> QED
  BY <1>1, <1>4, <1>5, WorkerFacts, SetReleaseStep DEF JobPhase, ReleaseStatus, seen

LEMMA SetRecordStep ==
  ASSUME IInv, NEW w \in Worker, NEW next \in JobPhase, NEW j \in JobRecord,
         Goto(w, next, j), HoldsFor(w)', NEW st \in RollbackStatus \ {"absent"},
         job[w].rec \in Rollback, SetRecord(w, st),
         st = "approved" => LetThrough(job[w].rec),
         UNCHANGED <<release, snapshot, component, switch, gate, seen>>
  PROVE  IInv'
<1> USE DEF seen
<1>1. Typed'
  <2>1. record' \in [Rollback -> [rel: Release \cup {"none"}, emergency: BOOLEAN,
                                  status: RollbackStatus]]
    BY WorkerFacts, SMTT(60) DEF TypeOK, SetRecord
  <2> QED
    BY <2>1, WorkerFacts, GotoFacts DEF Typed, TypeOK
<1>2. \A b \in Rollback :
        /\ record'[b].rel = record[b].rel /\ record'[b].emergency = record[b].emergency
        /\ record'[b].status = IF b = job[w].rec THEN st ELSE record[b].status
  BY WorkerFacts DEF SetRecord, TypeOK
<1>3. record[job[w].rec].status # "absent"
  BY WorkerFacts DEF RowsKnown
<1>4. Keeps(w)
  BY <1>2 DEF Keeps
<1>5. \A x \in Worker : HoldsFor(x)'
  BY <1>4, OthersHold
<1>6. \A b \in Rollback : RecordInv(b)'
  BY <1>2, <1>3 DEF IInv, RecordInv, LetThrough
<1>7. \A g \in Gate : GateKnown(g)'
  BY <1>2 DEF IInv, GateKnown
<1> QED
  BY <1>1, <1>5, <1>6, <1>7 DEF IInv, ReleaseInv, ProductionChangesAreApproved

LEMMA PolicyAsks ==
  ASSUME NEW w \in Worker, job[w].kind = "rollback", ~ApprovalRequired(w)
  PROVE  LetThrough(job[w].rec)
<1>1. RollbackPolicy \in ApprovalPolicy
  BY ReleaseAssumption DEF ReleaseAssumption
<1> QED
  BY <1>1 DEF ApprovalPolicy, ApprovalRequired, LetThrough, evaluateApprovalPolicy, emergencyBypass

LEMMA AwaitDecisionIInv ==
  ASSUME IInv, NEW w \in Worker, AwaitDecision(w)
  PROVE  IInv'
<1>1. /\ pc[w] = "pend" /\ Finish(w)
      /\ UNCHANGED <<snapshot, component, switch, gate, seen>>
  BY DEF AwaitDecision
<1>2. /\ Goto(w, "idle", NoJob) /\ "idle" \in JobPhase /\ NoJob \in JobRecord
      /\ HoldsFor(w)'
  BY <1>1, WorkerFacts, FinishHolds
<1>3. job[w].kind \in {"submit", "rollback"}
  BY <1>1, WorkerFacts DEF JobOK, Phases, JobRecord, JobKind
<1>4. CASE job[w].kind = "submit"
  <2>1. SetRelease(w, "pending_approval") /\ UNCHANGED record
    BY <1>4 DEF AwaitDecision
  <2>2. before' \in [Release -> [Component -> Row] \cup {Absent}]
    BY <1>1, WorkerFacts DEF TypeOK, Row, seen
  <2> QED
    BY <1>1, <1>2, <2>1, <2>2, SetReleaseStep DEF ReleaseStatus, seen
<1>5. CASE job[w].kind = "rollback"
  <2>1. PICK st \in {"pending_approval", "approved"} :
            /\ SetRecord(w, st) /\ UNCHANGED release
            /\ st = "approved" => ~ApprovalRequired(w)
    BY <1>5 DEF AwaitDecision, SetRecord
  <2>2. job[w].rec \in Rollback
    BY <1>1, <1>5, WorkerFacts DEF JobOK
  <2> QED
    BY <1>1, <1>2, <1>5, <2>1, <2>2, PolicyAsks, SetRecordStep DEF RollbackStatus
<1> QED
  BY <1>3, <1>4, <1>5

LEMMA CompleteRecordIInv ==
  ASSUME IInv, NEW w \in Worker, CompleteRecord(w)
  PROVE  IInv'
<1>1. /\ pc[w] = "complete" /\ SetRecord(w, "completed") /\ Goto(w, "rolledback", job[w])
      /\ UNCHANGED <<release, snapshot, component, switch, gate, seen>>
  BY DEF CompleteRecord
<1>2. job[w].kind = "execute" /\ job[w].rec \in Rollback
  BY <1>1, WorkerFacts DEF JobOK, Phases, JobRecord, JobKind
<1>3. pc'[w] = "rolledback" /\ job'[w] = job[w]
  BY <1>1, WorkerFacts, GotoFacts
<1>4. record'[job[w].rec].status # "absent"
  BY <1>1, <1>2, WorkerFacts DEF SetRecord, TypeOK
<1>5. HoldsFor(w)'
  BY <1>1, <1>2, <1>3, <1>4, WorkerFacts
     DEF HoldsFor, JobOK, Phases, RowsKnown, DecisionInv, PromotionInv, KillInv, seen
<1> QED
  BY <1>1, <1>2, <1>5, WorkerFacts, SetRecordStep DEF JobPhase, RollbackStatus

LEMMA FailRecordIInv ==
  ASSUME IInv, NEW w \in Worker, FailRecord(w)
  PROVE  IInv'
<1>1. /\ pc[w] = "unreversed" /\ SetRecord(w, "failed") /\ Finish(w)
      /\ UNCHANGED <<release, snapshot, component, switch, gate, seen>>
  BY DEF FailRecord
<1>2. job[w].kind = "execute" /\ job[w].rec \in Rollback
  BY <1>1, WorkerFacts DEF JobOK, Phases, JobRecord, JobKind
<1> QED
  BY <1>1, <1>2, WorkerFacts, FinishHolds, SetRecordStep DEF RollbackStatus

-----------------------------------------------------------------------------
(* Steps that write approval requests and new rollback records.            *)

LEMMA RaiseRequestIInv ==
  ASSUME IInv, NEW w \in Worker, RaiseRequest(w)
  PROVE  IInv'
<1>1. /\ pc[w] = "raise"
      /\ UNCHANGED <<release, snapshot, component, switch, record, seen>>
  BY DEF RaiseRequest
<1>2. job[w].kind \in {"submit", "rollback", "kill"}
  BY <1>1, WorkerFacts DEF JobOK, Phases, JobRecord, JobKind
<1>3. PICK g \in Gate : /\ gate[g].state = "absent"
                        /\ gate' = [gate EXCEPT ![g] = [subject |-> SubjectOf(w),
                                                        state |-> "pending"]]
  BY DEF RaiseRequest, FreeGate
<1>4. /\ SubjectOf(w) \in Release \cup Rollback \cup Component
      /\ SubjectOf(w) \in Rollback => record[SubjectOf(w)].status # "absent"
  BY <1>1, <1>2, WorkerFacts, ReleaseAssumption
     DEF ReleaseAssumption, SubjectOf, JobOK, RowsKnown
<1> HIDE DEF SubjectOf
<1>5. \A h \in Gate : gate'[h] = IF h = g THEN [subject |-> SubjectOf(w), state |-> "pending"]
                                 ELSE gate[h]
  BY <1>3, WorkerFacts DEF TypeOK
<1>6. PICK next \in JobPhase, j \in JobRecord : Goto(w, next, j) /\ HoldsFor(w)'
  <2>1. CASE job[w].kind = "kill"
    BY <2>1, WorkerFacts, FinishHolds DEF RaiseRequest
  <2>2. CASE job[w].kind # "kill"
    <3>1. Goto(w, "pend", job[w]) /\ pc'[w] = "pend" /\ job'[w] = job[w]
      BY <2>2, WorkerFacts, GotoFacts DEF RaiseRequest
    <3>2. HoldsFor(w)'
      BY <1>1, <1>2, <2>2, <3>1, WorkerFacts
         DEF HoldsFor, JobOK, Phases, RowsKnown, DecisionInv, PromotionInv, KillInv, seen
    <3> QED
      BY <3>1, <3>2, WorkerFacts DEF JobPhase
  <2> QED
    BY <2>1, <2>2
<1>7. Typed'
  <2>1. gate' \in [Gate -> [subject: Release \cup Rollback \cup Component \cup {"none"},
                            state: {"absent", "pending", "approved", "rejected"}]]
    BY <1>3, <1>4, WorkerFacts DEF TypeOK
  <2> QED
    BY <1>1, <1>6, <2>1, WorkerFacts, GotoFacts DEF Typed, TypeOK, seen
<1>8. Keeps(w)
  BY <1>1, <1>3, <1>5 DEF Keeps, seen
<1>9. \A x \in Worker : HoldsFor(x)'
  BY <1>6, <1>8, OthersHold
<1>10. \A h \in Gate : GateKnown(h)'
  BY <1>1, <1>4, <1>5 DEF IInv, GateKnown
<1> QED
  BY <1>1, <1>7, <1>9, <1>10
     DEF IInv, ReleaseInv, RecordInv, LetThrough, ProductionChangesAreApproved, seen

LEMMA DecideIInv ==
  ASSUME IInv, NEW w \in Worker, Decide(w)
  PROVE  IInv'
<1> DEFINE g == job[w].gate
           v == job[w].verdict
<1>1. /\ pc[w] = "decide" /\ Goto(w, "advance", job[w])
      /\ gate' = [gate EXCEPT ![g].state = v]
      /\ sanctioned' = IF v = "approved" THEN sanctioned \cup {gate[g].subject} ELSE sanctioned
      /\ UNCHANGED <<release, snapshot, component, switch, record,
                     touched, reversed, before, underKill>>
  BY DEF Decide
<1>2. job[w].kind = "decide"
  BY <1>1, WorkerFacts DEF JobOK, Phases, JobRecord, JobKind
<1>3. g \in Gate /\ v \in {"approved", "rejected"} /\ gate[g].state # "absent"
  BY <1>2, WorkerFacts DEF JobOK, RowsKnown, JobRecord
<1>4. gate[g].subject \in Release \cup Rollback \cup Component
  BY <1>3 DEF IInv, GateKnown
<1>5. pc'[w] = "advance" /\ job'[w] = job[w]
  BY <1>1, WorkerFacts, GotoFacts
<1>6. \A h \in Gate : /\ gate'[h].subject = gate[h].subject
                      /\ gate'[h].state = IF h = g THEN v ELSE gate[h].state
  BY <1>1, WorkerFacts DEF TypeOK
<1>7. HoldsFor(w)'
  BY <1>1, <1>2, <1>3, <1>5, <1>6, WorkerFacts, SMTT(60)
     DEF HoldsFor, JobOK, Phases, RowsKnown, DecisionInv, PromotionInv, KillInv
<1>8. Typed'
  <2>1. gate' \in [Gate -> [subject: Release \cup Rollback \cup Component \cup {"none"},
                            state: {"absent", "pending", "approved", "rejected"}]]
    BY <1>1, <1>3, WorkerFacts DEF TypeOK
  <2>2. sanctioned' \subseteq Release \cup Rollback \cup Component
    BY <1>1, <1>4, WorkerFacts DEF TypeOK
  <2> QED
    BY <1>1, <2>1, <2>2, WorkerFacts, GotoFacts DEF Typed, TypeOK, JobPhase
<1>9. sanctioned \subseteq sanctioned'
  BY <1>1
<1>10. Keeps(w)
  BY <1>1, <1>3, <1>6, <1>9 DEF Keeps
<1>11. \A x \in Worker : HoldsFor(x)'
  BY <1>1, <1>7, <1>10, OthersHold
<1>12. \A h \in Gate : GateKnown(h)'
  BY <1>1, <1>3, <1>6 DEF IInv, GateKnown
<1> QED
  BY <1>1, <1>8, <1>9, <1>11, <1>12
     DEF IInv, ReleaseInv, RecordInv, LetThrough, ProductionChangesAreApproved

LEMMA AdvanceSubjectIInv ==
  ASSUME IInv, NEW w \in Worker, AdvanceSubject(w)
  PROVE  IInv'
<1> DEFINE subject == gate[job[w].gate].subject
           v == job[w].verdict
<1>1. /\ pc[w] = "advance" /\ Finish(w)
      /\ release' = IF subject \in Release /\ v = "approved"
                    THEN [release EXCEPT ![subject] = "approved"] ELSE release
      /\ record' = IF subject \in Rollback
                   THEN [record EXCEPT ![subject].status = v] ELSE record
      /\ UNCHANGED <<snapshot, component, switch, gate, seen>>
  BY DEF AdvanceSubject
<1>2. job[w].kind = "decide"
  BY <1>1, WorkerFacts DEF JobOK, Phases, JobRecord, JobKind
<1>3. job[w].gate \in Gate /\ v \in {"approved", "rejected"}
  BY <1>2, WorkerFacts DEF JobOK, JobRecord
<1>4. subject \in Rollback => record[subject].status # "absent"
  BY <1>2, <1>3, WorkerFacts DEF IInv, GateKnown, RowsKnown
<1>5. v = "approved" => subject \in sanctioned
  BY <1>1, WorkerFacts DEF DecisionInv
<1>6. /\ Goto(w, "idle", NoJob) /\ "idle" \in JobPhase /\ NoJob \in JobRecord
      /\ HoldsFor(w)'
  BY <1>1, WorkerFacts, FinishHolds
<1> HIDE DEF subject
<1>7. \A b \in Rollback :
        /\ record'[b].rel = record[b].rel /\ record'[b].emergency = record[b].emergency
        /\ record'[b].status = IF b = subject THEN v ELSE record[b].status
  BY <1>1, WorkerFacts DEF TypeOK
<1>8. Typed'
  <2>1. record' \in [Rollback -> [rel: Release \cup {"none"}, emergency: BOOLEAN,
                                  status: RollbackStatus]]
    BY <1>1, <1>3, WorkerFacts, SMTT(60) DEF TypeOK, RollbackStatus
  <2>2. release' \in [Release -> ReleaseStatus]
    BY <1>1, WorkerFacts DEF TypeOK, ReleaseStatus
  <2> QED
    BY <1>1, <1>6, <2>1, <2>2, WorkerFacts, GotoFacts DEF Typed, TypeOK, seen
<1>9. Keeps(w)
  BY <1>1, <1>3, <1>7 DEF Keeps, seen
<1>10. \A x \in Worker : HoldsFor(x)'
  BY <1>6, <1>9, OthersHold
<1>11. \A h \in Gate : GateKnown(h)'
  BY <1>1, <1>3, <1>7 DEF IInv, GateKnown
<1>12. \A r \in Release : ReleaseInv(r)'
  BY <1>1, <1>5, WorkerFacts DEF IInv, ReleaseInv, TypeOK, seen
<1>13. \A b \in Rollback : RecordInv(b)'
  BY <1>1, <1>3, <1>4, <1>5, <1>7 DEF IInv, RecordInv, LetThrough, seen
<1> QED
  BY <1>1, <1>8, <1>10, <1>11, <1>12, <1>13 DEF IInv, ProductionChangesAreApproved, seen

LEMMA CreateRollbackRecordIInv ==
  ASSUME IInv, NEW w \in Worker, CreateRollbackRecord(w)
  PROVE  IInv'
<1>1. /\ pc[w] = "record"
      /\ UNCHANGED <<release, snapshot, component, switch, gate, seen>>
  BY DEF CreateRollbackRecord
<1>2. job[w].kind = "rollback" /\ job[w].rel \in Release
  BY <1>1, WorkerFacts DEF JobOK, Phases, JobRecord, JobKind
<1> DEFINE row == [rel |-> job[w].rel, emergency |-> job[w].blocked, status |-> "requested"]
<1>3. PICK b \in Rollback :
        /\ record[b].status = "absent"
        /\ record' = [record EXCEPT ![b] = row]
        /\ Goto(w, "request", [job[w] EXCEPT !.rec = b])
  BY DEF CreateRollbackRecord, FreeRecord
<1> DEFINE j == [job[w] EXCEPT !.rec = b]
<1>4. /\ j \in JobRecord /\ j.rec = b
      /\ j.kind = job[w].kind /\ j.rel = job[w].rel /\ j.i = job[w].i
  BY WorkerFacts DEF JobRecord
<1>5. pc'[w] = "request" /\ job'[w] = j
  BY <1>3, WorkerFacts, GotoFacts
<1>6. \A d \in Rollback : record'[d] = IF d = b THEN row ELSE record[d]
  BY <1>3, WorkerFacts DEF TypeOK
<1>7. row \in [rel: Release \cup {"none"}, emergency: BOOLEAN, status: RollbackStatus]
  BY <1>2, WorkerFacts DEF JobRecord, RollbackStatus
<1>8. row.status = "requested" /\ row.rel = job[w].rel
  OBVIOUS
<1> HIDE DEF row, j
<1>9. HoldsFor(w)'
  BY <1>1, <1>2, <1>4, <1>5, <1>6, <1>8, WorkerFacts
     DEF HoldsFor, JobOK, Phases, RowsKnown, DecisionInv, PromotionInv, KillInv, seen
<1>10. Typed'
  <2>1. record' \in [Rollback -> [rel: Release \cup {"none"}, emergency: BOOLEAN,
                                  status: RollbackStatus]]
    BY <1>3, <1>7, WorkerFacts DEF TypeOK
  <2> QED
    BY <1>1, <1>3, <1>4, <2>1, WorkerFacts, GotoFacts DEF Typed, TypeOK, JobPhase, seen, j
<1>11. Keeps(w)
  BY <1>1, <1>3, <1>6, <1>8 DEF Keeps, seen
<1>12. \A x \in Worker : HoldsFor(x)'
  BY <1>3, <1>9, <1>11, OthersHold
<1>13. \A h \in Gate : GateKnown(h)'
  BY <1>1, <1>3, <1>6, <1>8 DEF IInv, GateKnown
<1>14. \A d \in Rollback : RecordInv(d)'
  BY <1>1, <1>2, <1>3, <1>6, <1>8 DEF IInv, RecordInv, LetThrough, seen
<1> QED
  BY <1>1, <1>10, <1>12, <1>13, <1>14 DEF IInv, ReleaseInv, ProductionChangesAreApproved, seen

-----------------------------------------------------------------------------
(* Steps that write snapshots, switches and components.                    *)

LEMMA KeepSnapshotIInv ==
  ASSUME IInv, NEW w \in Worker, KeepSnapshot(w)
  PROVE  IInv'
<1>1. /\ pc[w] = "keep" /\ Goto(w, "find", job[w])
      /\ snapshot' = [snapshot EXCEPT ![job[w].rel][job[w].i] = job[w].found]
      /\ UNCHANGED <<release, component, switch, gate, record, seen>>
  BY DEF KeepSnapshot
<1>2. /\ job[w].kind = "promote" /\ job[w].rel \in Release /\ job[w].i \in DOMAIN Items[job[w].rel]
      /\ job[w].found \in Row
  BY <1>1, WorkerFacts DEF JobOK, Phases, JobRecord, JobKind
<1>3. pc'[w] = "find" /\ job'[w] = job[w]
  BY <1>1, WorkerFacts, GotoFacts
<1>4. HoldsFor(w)'
  BY <1>1, <1>2, <1>3, WorkerFacts
     DEF HoldsFor, JobOK, Phases, RowsKnown, DecisionInv, PromotionInv, KillInv, seen
<1>5. Typed'
  <2>1. DOMAIN snapshot' = Release
    BY <1>1, WorkerFacts DEF Typed
  <2>2. ASSUME NEW r \in Release
        PROVE  snapshot'[r] \in [DOMAIN Items[r] -> Row]
    <3>1. snapshot'[r] = IF r = job[w].rel
                         THEN [snapshot[r] EXCEPT ![job[w].i] = job[w].found] ELSE snapshot[r]
      BY <1>1, WorkerFacts DEF Typed
    <3>2. snapshot[r] \in [DOMAIN Items[r] -> Row]
      BY WorkerFacts DEF TypeOK, Row
    <3> QED
      BY <1>2, <3>1, <3>2
  <2> QED
    BY <1>1, <2>1, <2>2, WorkerFacts, GotoFacts DEF Typed, TypeOK, JobPhase, Row, seen
<1>6. Keeps(w)
  BY <1>1 DEF Keeps, seen
<1>7. \A x \in Worker : HoldsFor(x)'
  BY <1>1, <1>4, <1>6, OthersHold
<1> QED
  BY <1>1, <1>5, <1>7
     DEF IInv, GateKnown, ReleaseInv, RecordInv, LetThrough, ProductionChangesAreApproved, seen

LEMMA WriteSwitchIInv ==
  ASSUME IInv, NEW w \in Worker, WriteSwitch(w)
  PROVE  IInv'
<1> DEFINE c == job[w].comp
           on == job[w].kind = "kill"
           patch == SetStatus(IF on THEN "disabled" ELSE "enabled")
           j == [job[w] EXCEPT !.comp = c, !.patch = patch]
<1>1. /\ pc[w] = "throw" /\ Goto(w, "find", j)
      /\ switch' = [switch EXCEPT ![c] =
                        IF ~on THEN "off"
                        ELSE IF ~job[w].blocked /\ @ # "none" THEN @ ELSE "on"]
      /\ underKill' = IF on THEN underKill
                      ELSE {v \in underKill : job[v].rel # "none" => c \notin Touches(job[v].rel)}
      /\ UNCHANGED <<release, snapshot, component, gate, record,
                     sanctioned, touched, reversed, before>>
  BY DEF WriteSwitch, GotoWrite
<1>2. job[w].kind \in {"kill", "unkill"} /\ c \in Component
  BY <1>1, WorkerFacts DEF JobOK, Phases, JobRecord, JobKind
<1>3. patch \in Patch
  BY DEF SetStatus, Patch, ComponentStatus, VersionOrNull
<1> HIDE DEF patch
<1>4. /\ j \in JobRecord /\ j.comp = c /\ j.patch = patch
      /\ j.kind = job[w].kind /\ j.rec = job[w].rec /\ j.rel = job[w].rel
  BY <1>2, <1>3, WorkerFacts DEF JobRecord
<1>5. pc'[w] = "find" /\ job'[w] = j
  BY <1>1, WorkerFacts, GotoFacts
<1> HIDE DEF j
<1>6. HoldsFor(w)'
  BY <1>1, <1>2, <1>3, <1>4, <1>5, WorkerFacts
     DEF HoldsFor, JobOK, Phases, RowsKnown, DecisionInv, PromotionInv, KillInv
<1>7. underKill' \subseteq underKill
  BY <1>1
<1>8. Typed'
  <2>1. switch' \in [Component -> {"none", "on", "off"}]
    BY <1>1, WorkerFacts DEF TypeOK
  <2> QED
    BY <1>1, <1>4, <1>7, <2>1, WorkerFacts, GotoFacts DEF Typed, TypeOK, JobPhase
<1>9. Keeps(w)
  <2>1. ASSUME NEW x \in underKill' \ {w}, job[x].kind = "submit",
               NEW d \in Touches(job[x].rel), switch[d] = "on"
        PROVE  switch'[d] = "on"
    <3>1. x \in underKill /\ job[x].rel \in Release
      BY <1>7, <2>1 DEF IInv, Typed, TypeOK, HoldsFor, JobOK
    <3>2. d \in Component /\ job[x].rel # "none"
      BY <3>1, ItemFacts, ReleaseAssumption DEF ReleaseAssumption, Touches
    <3>3. CASE on
      BY <1>1, <2>1, <3>2, <3>3, WorkerFacts DEF TypeOK
    <3>4. CASE ~on
      BY <1>1, <2>1, <3>2, <3>4, WorkerFacts DEF TypeOK
    <3> QED
      BY <3>3, <3>4
  <2> QED
    BY <1>1, <1>7, <2>1 DEF Keeps
<1>10. \A x \in Worker : HoldsFor(x)'
  BY <1>1, <1>6, <1>9, OthersHold
<1> QED
  BY <1>1, <1>8, <1>10
     DEF IInv, GateKnown, ReleaseInv, RecordInv, LetThrough, ProductionChangesAreApproved

\* What a write makes of a row, once the row found is known to be there still.
LEMMA PatchedIsRow ==
  ASSUME NEW found \in Row, NEW current \in Row, NEW patch \in Patch,
         found # Absent => current # Absent
  PROVE  Patched(found, current, patch) \in RuntimeComponent
BY DEF Patched, Row, Patch, RuntimeComponent, VersionOrNull

LEMMA OnwardFacts ==
  ASSUME IInv, NEW w \in Worker, job[w].kind \in {"promote", "execute", "sweep"},
         NEW first, NEW last,
         \/ job[w].kind # "sweep" /\ Onward(w, first, last)
         \/ job[w].kind = "sweep" /\ Goto(w, first, Cleared(w))
  PROVE  \E next \in {first, last}, j \in JobRecord :
            /\ Goto(w, next, j)
            /\ j.kind = job[w].kind /\ j.rel = job[w].rel /\ j.rec = job[w].rec
            /\ j.verdict = job[w].verdict /\ j.snaps = job[w].snaps
            /\ j.kind # "sweep" => /\ j.i \in DOMAIN Items[j.rel]
                                   /\ IF LastItem(w) THEN next = last
                                      ELSE next = first /\ j.i = job[w].i + 1
<1>1. /\ Cleared(w) \in JobRecord
      /\ Cleared(w).kind = job[w].kind /\ Cleared(w).rel = job[w].rel
      /\ Cleared(w).rec = job[w].rec /\ Cleared(w).verdict = job[w].verdict
      /\ Cleared(w).snaps = job[w].snaps /\ Cleared(w).i = job[w].i
  BY WorkerFacts, ZenonT(60) DEF Cleared, JobRecord, Row
<1>2. CASE job[w].kind = "sweep" /\ Goto(w, first, Cleared(w))
  BY <1>1, <1>2
<1>3. CASE job[w].kind # "sweep" /\ Onward(w, first, last)
  <2> DEFINE n == IF LastItem(w) THEN 1 ELSE job[w].i + 1
             j == [Cleared(w) EXCEPT !.i = n]
  <2>1. /\ job[w].i \in 1..Len(Items[job[w].rel]) /\ Len(Items[job[w].rel]) \in Nat
        /\ 1 \in DOMAIN Items[job[w].rel]
        /\ DOMAIN Items[job[w].rel] = 1..Len(Items[job[w].rel])
    BY <1>3, WorkerFacts, ItemFacts DEF JobOK
  <2>2. n \in Nat /\ n \in DOMAIN Items[job[w].rel]
    BY <2>1 DEF LastItem
  <2>3. Goto(w, IF LastItem(w) THEN last ELSE first, j)
    BY <1>1, <1>3 DEF Onward
  <2> HIDE DEF n
  <2>4. /\ j \in JobRecord /\ j.i = n
        /\ j.kind = job[w].kind /\ j.rel = job[w].rel /\ j.rec = job[w].rec
        /\ j.verdict = job[w].verdict /\ j.snaps = job[w].snaps
    BY <1>1, <2>2 DEF JobRecord
  <2>5. n \in DOMAIN Items[j.rel] /\ (~LastItem(w) => j.i = job[w].i + 1)
    BY <2>2, <2>4 DEF n
  <2> HIDE DEF j
  <2> QED
    BY <1>3, <2>3, <2>4, <2>5
<1> QED
  BY <1>2, <1>3

LEMMA WriteComponentIInv ==
  ASSUME IInv, NEW w \in Worker, WriteComponent(w)
  PROVE  IInv'
<1> DEFINE c == job[w].comp
<1>1. /\ pc[w] = "write"
      /\ component' = [component EXCEPT ![c] = Patched(job[w].found, @, job[w].patch)]
      /\ touched' = IF job[w].kind = "promote" THEN touched \cup {job[w].rel} ELSE touched
      /\ before' = [r \in Release |->
                        IF c \in Touches(r) /\ job[w].rel # r THEN Absent ELSE before[r]]
      /\ UNCHANGED <<release, snapshot, switch, gate, record, sanctioned, reversed, underKill>>
  BY DEF WriteComponent
<1>2. /\ job[w].kind \in {"promote", "execute", "sweep", "kill", "unkill"}
      /\ c \in Component /\ job[w].patch \in Patch
      /\ job[w].found # Absent => component[c] # Absent
      /\ job[w].kind = "promote" => job[w].rel \in Release
  BY <1>1, WorkerFacts DEF JobOK, RowsKnown, Phases, JobRecord, JobKind
<1>3. Patched(job[w].found, component[c], job[w].patch) \in RuntimeComponent
  BY <1>2, WorkerFacts, PatchedIsRow DEF JobRecord, TypeOK, Row
<1>4. PICK next \in JobPhase, j \in JobRecord : Goto(w, next, j) /\ HoldsFor(w)'
  <2>1. CASE job[w].kind \in {"kill", "unkill"}
    BY <2>1, WorkerFacts, FinishHolds DEF WriteComponent
  <2>2. CASE job[w].kind \in {"promote", "execute", "sweep"}
    <3>1. PICK next \in {"previous", "promoted", "reverse", "complete", "probe"},
               j \in JobRecord :
            /\ Goto(w, next, j) /\ next \in Phases(job[w].kind)
            /\ j.kind = job[w].kind /\ j.rel = job[w].rel /\ j.rec = job[w].rec
            /\ j.verdict = job[w].verdict /\ j.snaps = job[w].snaps
            /\ j.kind # "sweep" => j.i \in DOMAIN Items[j.rel]
      <4>1. CASE job[w].kind = "promote"
        BY <4>1, OnwardFacts DEF WriteComponent, Phases
      <4>2. CASE job[w].kind = "execute"
        BY <4>2, OnwardFacts DEF WriteComponent, Phases
      <4>3. CASE job[w].kind = "sweep"
        BY <4>3, OnwardFacts DEF WriteComponent, Phases
      <4> QED
        BY <2>2, <4>1, <4>2, <4>3
    <3>2. pc'[w] = next /\ job'[w] = j
      BY <3>1, WorkerFacts, GotoFacts
    <3>3. JobOK(w)'
      BY <2>2, <3>1, <3>2, WorkerFacts DEF JobOK
    <3>4. RowsKnown(w)' /\ DecisionInv(w)' /\ PromotionInv(w)' /\ KillInv(w)'
      BY <1>1, <2>2, <3>1, <3>2, WorkerFacts DEF RowsKnown, DecisionInv, PromotionInv, KillInv
    <3> QED
      BY <3>1, <3>3, <3>4 DEF HoldsFor, JobPhase
  <2> QED
    BY <1>2, <2>1, <2>2
<1>5. Typed'
  <2>1. component' \in [Component -> RuntimeComponent \cup {Absent}]
    BY <1>1, <1>2, <1>3, WorkerFacts DEF TypeOK
  <2>2. before' \in [Release -> [Component -> RuntimeComponent \cup {Absent}] \cup {Absent}]
    BY <1>1, WorkerFacts DEF TypeOK
  <2>3. touched' \subseteq Release
    BY <1>1, <1>2, WorkerFacts DEF TypeOK
  <2> QED
    BY <1>1, <1>4, <2>1, <2>2, <2>3, WorkerFacts, GotoFacts DEF Typed, TypeOK
<1>6. Keeps(w)
  <2>1. \A d \in Component : component[d] # Absent => component'[d] # Absent
    BY <1>1, <1>3, WorkerFacts, ReleaseAssumption DEF ReleaseAssumption, TypeOK
  <2> QED
    BY <1>1, <2>1 DEF Keeps
<1>7. \A x \in Worker : HoldsFor(x)'
  BY <1>4, <1>6, OthersHold
<1>8. ProductionChangesAreApproved'
  BY <1>1, WorkerFacts DEF IInv, ProductionChangesAreApproved, PromotionInv
<1> QED
  BY <1>1, <1>5, <1>7, <1>8 DEF IInv, GateKnown, ReleaseInv, RecordInv, LetThrough

-----------------------------------------------------------------------------

LEMMA InitIInv == Init => IInv
<1> SUFFICES ASSUME Init PROVE IInv
  OBVIOUS
<1> USE DEF Init
<1>1. Typed
  <2>1. \A r \in Release : snapshot[r] \in [DOMAIN Items[r] -> RuntimeComponent \cup {Absent}]
    OBVIOUS
  <2>2. component \in [Component -> RuntimeComponent \cup {Absent}]
    BY ReleaseAssumption DEF ReleaseAssumption
  <2>3. record \in [Rollback -> [rel: Release \cup {"none"}, emergency: BOOLEAN,
                                 status: RollbackStatus]]
    BY DEF RollbackStatus
  <2> QED
    BY <2>1, <2>2, <2>3, FreshJobs DEF Typed, TypeOK, ReleaseStatus, JobPhase
<1>2. \A w \in Worker : HoldsFor(w)
  BY FreshJobs, ReleaseAssumption
     DEF ReleaseAssumption, HoldsFor, JobOK, Phases, RowsKnown, DecisionInv, PromotionInv, KillInv
<1>3. \A g \in Gate : GateKnown(g)
  BY DEF GateKnown
<1>4. \A b \in Rollback : RecordInv(b)
  BY DEF RecordInv
<1> QED
  BY <1>1, <1>2, <1>3, <1>4 DEF IInv, ReleaseInv, ProductionChangesAreApproved

LEMMA StutterIInv == IInv /\ UNCHANGED vars => IInv'
<1> SUFFICES ASSUME IInv, UNCHANGED vars PROVE IInv'
  OBVIOUS
<1> USE DEF vars, rows, seen
<1>1. Typed'
  BY DEF IInv, Typed, TypeOK
<1>2. \A w \in Worker : HoldsFor(w)'
  BY DEF IInv, HoldsFor, JobOK, RowsKnown, DecisionInv, PromotionInv, KillInv, SwitchBlocks
<1> QED
  BY <1>1, <1>2
     DEF IInv, GateKnown, ReleaseInv, RecordInv, LetThrough, ProductionChangesAreApproved

LEMMA NextIInv == IInv /\ [Next]_vars => IInv'
<1> SUFFICES ASSUME IInv, Next PROVE IInv'
  BY StutterIInv
<1> PICK w \in Worker : Begin(w) \/ Continue(w)
  BY DEF Next
<1>1. CASE Begin(w)
  BY <1>1, SubmitIInv, PromoteIInv, RequestRollbackIInv, ExecuteIInv, BeginDecisionIInv,
     BeginSwitchIInv, SweepIInv DEF Begin
<1>2. CASE Continue(w)
  BY <1>2, CheckItemIInv, SettleValidationIInv, LookUpPendingIInv, RaiseRequestIInv,
     AwaitDecisionIInv, AutoApproveIInv, DecideIInv, AdvanceSubjectIInv, ReadPreviousIInv,
     KeepSnapshotIInv, ItemThrowsIInv, FinishReleaseIInv, CreateRollbackRecordIInv,
     ReverseItemIInv, CompleteRecordIInv, FailRecordIInv, LookUpSwitchIInv, WriteSwitchIInv,
     ProbeIInv, SweepDoneIInv, FindComponentIInv, WriteComponentIInv, CutOffIInv DEF Continue
<1> QED
  BY <1>1, <1>2

\* The invariant holds throughout, whatever requests are in flight, however
\* they overlap and wherever they are cut off.
THEOREM InductiveInvariant == Spec => []IInv
BY InitIInv, NextIInv, PTL DEF Spec

\* Rows, requests in flight and observations keep their types: no bundle or
\* record gets a status outside its list and no request an unknown phase.
THEOREM TypeCorrect == Spec => []TypeOK
<1>1. IInv => TypeOK
  BY DEF IInv, Typed
<1> QED
  BY <1>1, InductiveInvariant, PTL

\* No item of a production bundle reaches a component unless a reviewer
\* approved a request for that bundle.
THEOREM ProductionNeedsApproval == Spec => []ProductionChangesAreApproved
<1>1. IInv => ProductionChangesAreApproved
  BY DEF IInv
<1> QED
  BY <1>1, InductiveInvariant, PTL

\* The execution of a rollback begins only for a record a reviewer approved or
\* the policy explicitly lets through.
THEOREM RollbackNeedsApproval == Spec => []RollbacksAreApproved
<1>1. IInv => RollbacksAreApproved
  BY DEF IInv, Typed, TypeOK, RollbacksAreApproved, RecordInv, LetThrough
<1> QED
  BY <1>1, InductiveInvariant, PTL

\* A submission that began under an enabled switch of a component its bundle
\* would enable neither asks for nor grants an approval.
THEOREM KillStopsSubmission == Spec => []SubmissionStopsAtKill
<1>1. IInv => SubmissionStopsAtKill
  BY DEF IInv, Typed, TypeOK, HoldsFor, KillInv, SubmissionStopsAtKill
<1> QED
  BY <1>1, InductiveInvariant, PTL

-----------------------------------------------------------------------------
\* The effects of promotions and rollbacks.
DistinctItems ==
    \A r \in Release : \A j, k \in DOMAIN Items[r] :
        Items[r][j].component = Items[r][k].component => j = k

Comp(r, j) == Items[r][j].component

\* Item j of bundle r is what its component runs.
Applied(r, j) ==
    LET row == component[Comp(r, j)]
    IN  /\ row # Absent
        /\ row.status = StatusApplied(Items[r][j])
        /\ Items[r][j].version \in {NoVersion, row.version}

\* Item j of bundle r is undone.  A row that had no version keeps the one the
\* promotion gave it.
Restored(r, j) ==
    LET old == before[r][Comp(r, j)]
        row == component[Comp(r, j)]
    IN  /\ row # Absent
        /\ IF old # Absent
           THEN row.status = old.status /\ (old.version # NoVersion => row = old)
           ELSE row.status = StatusUndone(Items[r][j])

Kept(r, j) == snapshot[r][j] = before[r][Comp(r, j)]
Untouched(r, j) == component[Comp(r, j)] = before[r][Comp(r, j)]

Tracked(r) == before[r] # Absent
Moves == {"promote", "execute"}
MovesOn(w, r) == job[w].kind \in Moves /\ job[w].rel = r
PromotesOn(w, r) == job[w].kind = "promote" /\ job[w].rel = r
ExecutesOn(w, r) == job[w].kind = "execute" /\ job[w].rel = r

NeverReversed(r) == \A b \in reversed : record[b].rel # r

\* The patches the two kinds of request write for item j of bundle r.
ApplyPatch(r, j) == Upsert(StatusApplied(Items[r][j]), Items[r][j].version)
UndoPatch(r, j, snap) ==
    IF snap = Absent THEN SetStatus(StatusUndone(Items[r][j]))
    ELSE Upsert(snap.status, snap.version)

SnapshotInv(r) ==
    \A j \in DOMAIN Items[r] : snapshot[r][j] # Absent => component[Comp(r, j)] # Absent

ItemInv(w) ==
    LET r == job[w].rel
        i == job[w].i
    IN  /\ job[w].kind \in Moves /\ pc[w] \in {"keep", "find", "write"} =>
                job[w].comp = Comp(r, i)
        /\ job[w].kind = "promote" /\ pc[w] \in {"keep", "find", "write"} =>
                job[w].patch = ApplyPatch(r, i)
        /\ job[w].kind = "execute" /\ pc[w] \in {"find", "write"} =>
                job[w].patch = UndoPatch(r, i, job[w].snaps[i])
        /\ pc[w] = "keep" => component[job[w].comp] # Absent
        /\ job[w].kind = "execute" => job[w].rec \in reversed /\ record[job[w].rec].rel = r

PromoteInv(w, r) ==
    PromotesOn(w, r) /\ Tracked(r) =>
        /\ \A v \in Worker \ {w} : ~MovesOn(v, r)
        /\ release[r] \notin {"promoted", "rolled_back"}
        /\ pc[w] \in {"keep", "write"} => job[w].found = component[job[w].comp]
        /\ \A j \in DOMAIN Items[r] :
            /\ pc[w] \in {"previous", "keep", "find", "write"} =>
                    IF j < job[w].i THEN Applied(r, j) /\ Kept(r, j) ELSE Untouched(r, j)
            /\ pc[w] \in {"find", "write"} /\ j = job[w].i => Kept(r, j)
            /\ pc[w] = "promoted" => Applied(r, j) /\ Kept(r, j)

ExecuteInv(w, r) ==
    ExecutesOn(w, r) /\ Tracked(r) =>
        /\ pc[w] = "write" => job[w].found # Absent
        /\ \A j \in DOMAIN Items[r] :
            /\ job[w].snaps[j] = before[r][Comp(r, j)]
            /\ pc[w] \in {"reverse", "find", "write"} /\ j < job[w].i => Restored(r, j)
            /\ pc[w] \in {"complete", "rolledback"} => Restored(r, j)

SettledInv(r) ==
    Tracked(r) /\ (\A w \in Worker : ~PromotesOn(w, r)) =>
        \A j \in DOMAIN Items[r] :
            /\ Kept(r, j)
            /\ component[Comp(r, j)] # Absent
            /\ NeverReversed(r) => Applied(r, j)
            /\ release[r] = "rolled_back" => Restored(r, j)

BundleInv(r) ==
    /\ \A w \in Worker : PromoteInv(w, r)
    /\ \A w \in Worker : ExecuteInv(w, r)
    /\ SettledInv(r)

EInv ==
    /\ IInv
    /\ \A r \in Release : SnapshotInv(r)
    /\ \A w \in Worker : ItemInv(w)
    /\ \A r \in Release : BundleInv(r)

\* Every row the tracked promotion of a bundle found had a version.
VersionedBefore ==
    \A r \in {q \in Release : before[q] # Absent} : \A c \in Touches(r) :
        before[r][c] # Absent => before[r][c].version # NoVersion

-----------------------------------------------------------------------------

LEMMA EInvFacts ==
  ASSUME EInv, NEW w \in Worker
  PROVE  /\ IInv /\ Typed /\ TypeOK /\ job[w] \in JobRecord
         /\ JobOK(w) /\ RowsKnown(w) /\ ItemInv(w)
BY WorkerFacts DEF EInv

LEMMA TrackedFacts ==
  ASSUME Typed, NEW r \in Release, NEW j \in DOMAIN Items[r]
  PROVE  /\ Comp(r, j) \in Component
         /\ component[Comp(r, j)] \in Row
         /\ snapshot[r][j] \in Row
         /\ Tracked(r) => before[r] \in [Component -> Row] /\ before[r][Comp(r, j)] \in Row
         /\ j \in Nat
BY ItemFacts DEF Typed, TypeOK, Row, Comp, Tracked

LEMMA SameItem ==
  ASSUME NEW r \in Release, NEW j \in DOMAIN Items[r], before'[r] = before[r],
         component'[Comp(r, j)] = component[Comp(r, j)], snapshot'[r][j] = snapshot[r][j]
  PROVE  /\ Applied(r, j)' <=> Applied(r, j)
         /\ Restored(r, j)' <=> Restored(r, j)
         /\ Kept(r, j)' <=> Kept(r, j)
         /\ Untouched(r, j)' <=> Untouched(r, j)
<1>1. Comp(r, j)' = Comp(r, j)
  BY DEF Comp
<1> QED
  BY <1>1 DEF Applied, StatusApplied, Restored, StatusUndone, Kept, Untouched, Comp

LEMMA GotoOthers ==
  ASSUME EInv, NEW w \in Worker, NEW next, NEW j, Goto(w, next, j)
  PROVE  /\ pc'[w] = next /\ job'[w] = j
         /\ \A x \in Worker \ {w} : pc'[x] = pc[x] /\ job'[x] = job[x]
BY EInvFacts, GotoFacts

\* Only worker w goes on, rows that exist stay, and rollbacks stay begun.
StepOf(w) ==
    /\ \A x \in Worker \ {w} : pc'[x] = pc[x] /\ job'[x] = job[x]
    /\ \A c \in Component : component[c] # Absent => component'[c] # Absent
    /\ reversed \subseteq reversed'
    /\ \A b \in Rollback : record[b].status # "absent" =>
            record'[b].status # "absent" /\ record'[b].rel = record[b].rel

\* The step leaves what bundle r promises of its components as it is.
Leaves(r) ==
    /\ before'[r] = before[r]
    /\ \A j \in DOMAIN Items[r] : /\ component'[Comp(r, j)] = component[Comp(r, j)]
                                  /\ snapshot'[r][j] = snapshot[r][j]
    /\ NeverReversed(r)' => NeverReversed(r)

LEMMA OtherItemInv ==
  ASSUME EInv, NEW w \in Worker, StepOf(w), NEW x \in Worker \ {w}
  PROVE  ItemInv(x)'
<1>1. pc'[x] = pc[x] /\ job'[x] = job[x]
  BY DEF StepOf
<1>2. /\ ItemInv(x) /\ RowsKnown(x)
      /\ pc[x] = "keep" => job[x].comp \in Component
      /\ job[x].kind = "execute" => job[x].rec \in Rollback
  BY EInvFacts DEF JobOK
<1> QED
  BY <1>1, <1>2 DEF StepOf, ItemInv, RowsKnown, Comp, ApplyPatch, UndoPatch

LEMMA UntrackedBundle ==
  ASSUME NEW r \in Release, ~Tracked(r)'
  PROVE  BundleInv(r)'
BY DEF BundleInv, PromoteInv, ExecuteInv, SettledInv

LEMMA OtherPromote ==
  ASSUME EInv, NEW w \in Worker, StepOf(w), NEW r \in Release, Leaves(r),
         MovesOn(w, r)' => MovesOn(w, r),
         release'[r] = release[r] \/ release'[r] \notin {"promoted", "rolled_back"},
         NEW x \in Worker \ {w}
  PROVE  PromoteInv(x, r)'
<1>1. pc'[x] = pc[x] /\ job'[x] = job[x]
  BY DEF StepOf
<1>2. PromoteInv(x, r)
  BY DEF EInv, BundleInv
<1> SUFFICES ASSUME PromotesOn(x, r), Tracked(r) PROVE PromoteInv(x, r)'
  BY <1>1 DEF PromoteInv, PromotesOn, Tracked, Leaves
<1>3. \A v \in Worker \ {x} : ~MovesOn(v, r)'
  BY <1>2 DEF PromoteInv, MovesOn, StepOf
<1>4. pc[x] \in {"keep", "write"} => component'[job[x].comp] = component[job[x].comp]
  BY EInvFacts DEF ItemInv, JobOK, PromotesOn, Moves, Leaves
<1>5. \A j \in DOMAIN Items[r] : /\ Applied(r, j)' <=> Applied(r, j)
                                 /\ Kept(r, j)' <=> Kept(r, j)
                                 /\ Untouched(r, j)' <=> Untouched(r, j)
  BY SameItem DEF Leaves
<1> QED
  BY <1>1, <1>2, <1>3, <1>4, <1>5 DEF PromoteInv

LEMMA OtherExecute ==
  ASSUME EInv, NEW w \in Worker, StepOf(w), NEW r \in Release, Leaves(r),
         NEW x \in Worker \ {w}
  PROVE  ExecuteInv(x, r)'
<1>1. pc'[x] = pc[x] /\ job'[x] = job[x]
  BY DEF StepOf
<1>2. ExecuteInv(x, r)
  BY DEF EInv, BundleInv
<1>3. \A j \in DOMAIN Items[r] : Restored(r, j)' <=> Restored(r, j)
  BY SameItem DEF Leaves
<1>4. Tracked(r)' <=> Tracked(r)
  BY DEF Tracked, Leaves
<1> QED
  BY <1>1, <1>2, <1>3, <1>4 DEF ExecuteInv, ExecutesOn, Comp, Leaves

\* A bundle the step's own request does not move, before or after.
LEMMA OtherBundle ==
  ASSUME EInv, NEW w \in Worker, StepOf(w), NEW r \in Release, Leaves(r),
         ~MovesOn(w, r), ~MovesOn(w, r)',
         release'[r] = release[r] \/ release'[r] \notin {"promoted", "rolled_back"}
  PROVE  BundleInv(r)'
<1>1. PromoteInv(w, r)' /\ ExecuteInv(w, r)'
  BY DEF PromoteInv, ExecuteInv, PromotesOn, ExecutesOn, MovesOn, Moves
<1>2. \A x \in Worker : PromoteInv(x, r)' /\ ExecuteInv(x, r)'
  BY <1>1, OtherPromote, OtherExecute
<1>3. SettledInv(r)'
  <2>1. (\A x \in Worker : ~PromotesOn(x, r))' => \A x \in Worker : ~PromotesOn(x, r)
    BY DEF PromotesOn, MovesOn, Moves, StepOf
  <2>2. \A j \in DOMAIN Items[r] : /\ Applied(r, j)' <=> Applied(r, j)
                                   /\ Restored(r, j)' <=> Restored(r, j)
                                   /\ Kept(r, j)' <=> Kept(r, j)
                                   /\ component'[Comp(r, j)] = component[Comp(r, j)]
    BY SameItem DEF Leaves
  <2>3. SettledInv(r)
    BY DEF EInv, BundleInv
  <2>4. Tracked(r)' <=> Tracked(r)
    BY DEF Tracked, Leaves
  <2> QED
    BY <2>1, <2>2, <2>3, <2>4 DEF SettledInv, Comp, Leaves
<1> QED
  BY <1>2, <1>3 DEF BundleInv

\* A bundle the step's own request goes on moving.
LEMMA MovedBundle ==
  ASSUME EInv, NEW w \in Worker, StepOf(w), NEW r \in Release, Leaves(r),
         PromotesOn(w, r)' <=> PromotesOn(w, r), ExecutesOn(w, r)' <=> ExecutesOn(w, r),
         release'[r] = release[r], PromoteInv(w, r)', ExecuteInv(w, r)'
  PROVE  BundleInv(r)'
<1>1. MovesOn(w, r)' => MovesOn(w, r)
  BY DEF MovesOn, Moves, PromotesOn, ExecutesOn
<1>2. \A x \in Worker : PromoteInv(x, r)' /\ ExecuteInv(x, r)'
  BY <1>1, OtherPromote, OtherExecute
<1>3. SettledInv(r)'
  <2>1. (\A x \in Worker : ~PromotesOn(x, r))' => \A x \in Worker : ~PromotesOn(x, r)
    BY DEF PromotesOn, StepOf
  <2>2. \A j \in DOMAIN Items[r] : /\ Applied(r, j)' <=> Applied(r, j)
                                   /\ Restored(r, j)' <=> Restored(r, j)
                                   /\ Kept(r, j)' <=> Kept(r, j)
                                   /\ component'[Comp(r, j)] = component[Comp(r, j)]
    BY SameItem DEF Leaves
  <2>3. SettledInv(r)
    BY DEF EInv, BundleInv
  <2>4. Tracked(r)' <=> Tracked(r)
    BY DEF Tracked, Leaves
  <2> QED
    BY <2>1, <2>2, <2>3, <2>4 DEF SettledInv, Comp, Leaves
<1> QED
  BY <1>2, <1>3 DEF BundleInv

-----------------------------------------------------------------------------
(* Requests that neither promote nor roll back, and write no component.    *)

Undisturbed(w) ==
    /\ UNCHANGED <<component, snapshot, before, reversed>>
    /\ \A b \in Rollback : record[b].status # "absent" =>
            record'[b].status # "absent" /\ record'[b].rel = record[b].rel
    /\ \A x \in Worker \ {w} : pc'[x] = pc[x] /\ job'[x] = job[x]
    /\ pc'[w] # "keep" /\ job[w].kind \notin Moves /\ job'[w].kind \notin Moves
    /\ \A r \in Release :
            release'[r] = release[r] \/ release'[r] \notin {"promoted", "rolled_back"}

LEMMA QuietStep ==
  ASSUME EInv, IInv', NEW w \in Worker, Undisturbed(w)
  PROVE  EInv'
<1> USE DEF Undisturbed
<1>1. \A r \in Release : SnapshotInv(r)'
  BY DEF EInv, SnapshotInv, Comp
<1>2. StepOf(w)
  BY DEF StepOf
<1>3. ItemInv(w)'
  BY DEF ItemInv, Moves
<1>4. \A x \in Worker : ItemInv(x)'
  BY <1>2, <1>3, OtherItemInv
<1>5. ASSUME NEW r \in Release PROVE BundleInv(r)'
  <2>1. NeverReversed(r)' => NeverReversed(r)
    BY EInvFacts DEF EInv, IInv, RecordInv, NeverReversed, TypeOK
  <2> QED
    BY <1>2, <2>1, OtherBundle DEF Leaves, MovesOn
<1> QED
  BY <1>1, <1>4, <1>5 DEF EInv

LEMMA QuietBegin ==
  ASSUME EInv, NEW w \in Worker,
         \/ \E r \in Release : Submit(w, r)
         \/ \E r \in Release, emergency \in BOOLEAN : RequestRollback(w, r, emergency)
         \/ \E g \in Gate, verdict \in {"approved", "rejected"} : BeginDecision(w, g, verdict)
         \/ \E c \in Component : EnableKillSwitch(w, c) \/ DisableKillSwitch(w, c)
         \/ Sweep(w)
  PROVE  Undisturbed(w)
<1>1. PICK next, j :
        /\ pc[w] = "idle" /\ Goto(w, next, j) /\ next # "keep"
        /\ j.kind \in {"submit", "rollback", "decide", "kill", "unkill", "sweep"}
        /\ UNCHANGED <<rows, sanctioned, touched, reversed, before>>
  <2>1. CASE \E r \in Release : Submit(w, r)
    BY <2>1, FreshJobs DEF Submit, Take, JobKind
  <2>2. CASE \E r \in Release, emergency \in BOOLEAN : RequestRollback(w, r, emergency)
    <3> PICK r \in Release, emergency \in BOOLEAN : RequestRollback(w, r, emergency)
      BY <2>2
    <3>1. /\ OnRelease("rollback", r) \in JobRecord
          /\ OnRelease("rollback", r).kind = "rollback"
      BY FreshJobs DEF JobKind
    <3>2. [OnRelease("rollback", r) EXCEPT !.blocked = emergency].kind = "rollback"
      BY <3>1 DEF JobRecord
    <3> QED
      BY <3>2 DEF RequestRollback, Take, seen
  <2>3. CASE \E g \in Gate, verdict \in {"approved", "rejected"} : BeginDecision(w, g, verdict)
    <3> PICK g \in Gate, verdict \in {"approved", "rejected"} : BeginDecision(w, g, verdict)
      BY <2>3
    <3>1. Job("decide") \in JobRecord /\ Job("decide").kind = "decide"
      BY FreshJobs DEF JobKind
    <3>2. [Job("decide") EXCEPT !.gate = g, !.verdict = verdict].kind = "decide"
      BY <3>1 DEF JobRecord
    <3> QED
      BY <3>2 DEF BeginDecision, Take, seen
  <2>4. CASE \E c \in Component : EnableKillSwitch(w, c) \/ DisableKillSwitch(w, c)
    BY <2>4, FreshJobs DEF EnableKillSwitch, DisableKillSwitch, Take, JobKind, seen
  <2>5. CASE Sweep(w)
    <3> DEFINE todo == {c \in Component : component[c] # Absent
                                            /\ component[c].status # "disabled"}
    <3> HIDE DEF todo
    <3>1. Job("sweep") \in JobRecord /\ Job("sweep").kind = "sweep"
      BY FreshJobs DEF JobKind
    <3>2. [Job("sweep") EXCEPT !.todo = todo].kind = "sweep"
      BY <3>1 DEF JobRecord
    <3> QED
      BY <2>5, <3>2 DEF Sweep, Take, seen, todo
  <2> QED
    BY <2>1, <2>2, <2>3, <2>4, <2>5
<1>2. job[w].kind = "none"
  BY <1>1, EInvFacts DEF JobOK, Phases, JobRecord, JobKind
<1> QED
  BY <1>1, <1>2, GotoOthers DEF Undisturbed, Moves, rows

LEMMA QuietSubmission ==
  ASSUME EInv, NEW w \in Worker,
         \/ CheckItem(w) \/ SettleValidation(w) \/ ReturnToDraft(w)
         \/ AutoApprove(w) \/ RestateApproved(w)
  PROVE  Undisturbed(w)
<1>1. pc[w] \in {"check", "settle", "reset", "autoapprove", "restate"}
  BY DEF CheckItem, SettleValidation, ReturnToDraft, AutoApprove, RestateApproved
<1>2. job[w].kind = "submit"
  BY <1>1, EInvFacts DEF JobOK, Phases, JobRecord, JobKind
<1>3. PICK next, j : Goto(w, next, j) /\ next # "keep" /\ j.kind \notin Moves
  <2>1. CASE CheckItem(w)
    <3> DEFINE b == job[w].blocked \/ SwitchBlocks(Item(w))
               n == IF LastItem(w) THEN 1 ELSE job[w].i + 1
               j == [job[w] EXCEPT !.blocked = b, !.i = n]
    <3> HIDE DEF b, n
    <3>1. j.kind = job[w].kind
      BY EInvFacts DEF JobRecord
    <3>2. Goto(w, IF LastItem(w) THEN "settle" ELSE "check", j)
      BY <2>1 DEF CheckItem, b, n
    <3> QED
      BY <1>2, <3>1, <3>2 DEF Moves
  <2>2. CASE SettleValidation(w) \/ AutoApprove(w)
    BY <1>2, <2>2 DEF SettleValidation, AutoApprove, Moves
  <2>3. CASE ReturnToDraft(w) \/ RestateApproved(w)
    BY <2>3, FreshJobs DEF ReturnToDraft, RestateApproved, Finish, Moves
  <2> QED
    BY <2>1, <2>2, <2>3
<1>4. /\ UNCHANGED <<component, snapshot, before, reversed, record>>
      /\ \A r \in Release :
            release'[r] = release[r] \/ release'[r] \notin {"promoted", "rolled_back"}
  BY EInvFacts DEF CheckItem, SettleValidation, ReturnToDraft, AutoApprove, RestateApproved,
     rows, seen, SetRelease, TypeOK
<1> QED
  BY <1>2, <1>3, <1>4, GotoOthers DEF Undisturbed, Moves

LEMMA QuietApproval ==
  ASSUME EInv, NEW w \in Worker,
         \/ LookUpPending(w) \/ RaiseRequest(w) \/ AwaitDecision(w)
         \/ Decide(w) \/ AdvanceSubject(w) \/ CreateRollbackRecord(w)
  PROVE  Undisturbed(w)
<1>1. pc[w] \in {"request", "raise", "pend", "decide", "advance", "record"}
  BY DEF LookUpPending, RaiseRequest, AwaitDecision, Decide, AdvanceSubject, CreateRollbackRecord
<1>2. job[w].kind \in {"submit", "rollback", "kill", "decide"}
  BY <1>1, EInvFacts DEF JobOK, Phases, JobRecord, JobKind
<1>3. PICK next, j : Goto(w, next, j) /\ next # "keep" /\ j.kind \notin Moves
  <2>1. CASE LookUpPending(w) \/ RaiseRequest(w) \/ Decide(w)
    BY <1>2, <2>1, FreshJobs DEF LookUpPending, RaiseRequest, Decide, Finish, Moves
  <2>2. CASE AwaitDecision(w) \/ AdvanceSubject(w)
    BY <2>2, FreshJobs DEF AwaitDecision, AdvanceSubject, Finish, Moves
  <2>3. CASE CreateRollbackRecord(w)
    <3>1. PICK b : Goto(w, "request", [job[w] EXCEPT !.rec = b])
      BY <2>3 DEF CreateRollbackRecord
    <3>2. [job[w] EXCEPT !.rec = b].kind = job[w].kind
      BY EInvFacts DEF JobRecord
    <3> QED
      BY <1>2, <3>1, <3>2 DEF Moves
  <2> QED
    BY <2>1, <2>2, <2>3
<1>4. /\ UNCHANGED <<component, snapshot, before, reversed>>
      /\ \A r \in Release :
            release'[r] = release[r] \/ release'[r] \notin {"promoted", "rolled_back"}
  BY EInvFacts DEF LookUpPending, RaiseRequest, AwaitDecision, Decide, AdvanceSubject,
     CreateRollbackRecord, rows, seen, SetRelease, TypeOK
<1>5. \A b \in Rollback : record[b].status # "absent" =>
        record'[b].status # "absent" /\ record'[b].rel = record[b].rel
  <2>1. CASE LookUpPending(w) \/ RaiseRequest(w) \/ Decide(w)
    BY <2>1 DEF LookUpPending, RaiseRequest, Decide, rows
  <2>2. CASE AwaitDecision(w)
    BY <2>2, EInvFacts DEF AwaitDecision, TypeOK
  <2>3. CASE AdvanceSubject(w)
    <3>1. job[w].verdict # "absent"
      BY EInvFacts DEF JobRecord
    <3> QED
      BY <2>3, <3>1, EInvFacts DEF AdvanceSubject, TypeOK
  <2>4. CASE CreateRollbackRecord(w)
    BY <2>4, EInvFacts DEF CreateRollbackRecord, FreeRecord, TypeOK
  <2> QED
    BY <2>1, <2>2, <2>3, <2>4
<1> QED
  BY <1>2, <1>3, <1>4, <1>5, GotoOthers DEF Undisturbed, Moves

LEMMA QuietHealth ==
  ASSUME EInv, NEW w \in Worker,
         LookUpSwitch(w) \/ WriteSwitch(w) \/ Probe(w) \/ SweepDone(w)
  PROVE  Undisturbed(w)
<1>1. pc[w] \in {"lookup", "throw", "probe"}
  BY DEF LookUpSwitch, WriteSwitch, Probe, SweepDone
<1>2. job[w].kind \in {"kill", "unkill", "sweep"}
  BY <1>1, EInvFacts DEF JobOK, Phases, JobRecord, JobKind
<1>3. PICK next, j : Goto(w, next, j) /\ next # "keep" /\ j.kind \notin Moves
  <2>1. CASE LookUpSwitch(w)
    <3> DEFINE b == switch[job[w].comp] # "none"
    <3> HIDE DEF b
    <3>1. [job[w] EXCEPT !.blocked = b].kind = job[w].kind
      BY EInvFacts DEF JobRecord
    <3> QED
      BY <1>2, <2>1, <3>1 DEF LookUpSwitch, Moves, b
  <2>2. CASE WriteSwitch(w)
    <3>1. PICK patch : Goto(w, "find", [job[w] EXCEPT !.comp = job[w].comp, !.patch = patch])
      BY <2>2 DEF WriteSwitch, GotoWrite
    <3>2. [job[w] EXCEPT !.comp = job[w].comp, !.patch = patch].kind = job[w].kind
      BY EInvFacts DEF JobRecord
    <3> QED
      BY <1>2, <3>1, <3>2 DEF Moves
  <2>3. CASE Probe(w)
    <3>1. PICK todo, c, patch :
            \/ Goto(w, "find", [job[w] EXCEPT !.todo = todo, !.comp = c, !.patch = patch])
            \/ Goto(w, "probe", [job[w] EXCEPT !.todo = todo])
      BY <2>3 DEF Probe
    <3>2. /\ [job[w] EXCEPT !.todo = todo, !.comp = c, !.patch = patch].kind = job[w].kind
          /\ [job[w] EXCEPT !.todo = todo].kind = job[w].kind
      BY EInvFacts DEF JobRecord
    <3> QED
      BY <1>2, <3>1, <3>2 DEF Moves
  <2>4. CASE SweepDone(w)
    BY <2>4, FreshJobs DEF SweepDone, Finish, Moves
  <2> QED
    BY <2>1, <2>2, <2>3, <2>4
<1>4. UNCHANGED <<component, snapshot, before, reversed, record, release>>
  BY DEF LookUpSwitch, WriteSwitch, Probe, SweepDone, rows, seen
<1> QED
  BY <1>2, <1>3, <1>4, GotoOthers DEF Undisturbed, Moves

-----------------------------------------------------------------------------
(* Requests that go on with their item, or with their record.              *)

LEMMA NeverReversedFact ==
  ASSUME EInv, NEW w \in Worker, StepOf(w), NEW r \in Release, NeverReversed(r)'
  PROVE  NeverReversed(r)
<1>1. \A b \in reversed : b \in Rollback /\ record[b].status # "absent"
  BY DEF EInv, IInv, Typed, TypeOK, RecordInv
<1> QED
  BY <1>1 DEF NeverReversed, StepOf

LEMMA ContinueStep ==
  ASSUME EInv, IInv', NEW w \in Worker, NEW next, NEW j, Goto(w, next, j),
         j.kind = job[w].kind, j.rel = job[w].rel,
         UNCHANGED <<component, snapshot, before, reversed, release>>,
         \A b \in Rollback : record[b].status # "absent" =>
            record'[b].status # "absent" /\ record'[b].rel = record[b].rel,
         ItemInv(w)', \A r \in Release : PromoteInv(w, r)' /\ ExecuteInv(w, r)'
  PROVE  EInv'
<1>1. pc'[w] = next /\ job'[w] = j /\ StepOf(w)
  BY GotoOthers DEF StepOf
<1>2. \A x \in Worker : ItemInv(x)'
  BY <1>1, OtherItemInv
<1>3. ASSUME NEW r \in Release PROVE BundleInv(r)'
  <2>1. Leaves(r)
    BY <1>1, NeverReversedFact DEF Leaves
  <2> QED
    BY <1>1, <2>1, MovedBundle DEF PromotesOn, ExecutesOn
<1>4. \A r \in Release : SnapshotInv(r)'
  BY DEF EInv, SnapshotInv, Comp
<1> QED
  BY <1>2, <1>3, <1>4 DEF EInv

\* While a bundle is rolled back no promotion of it is tracked, and all its
\* components exist.
LEMMA RollbackSettled ==
  ASSUME EInv, NEW w \in Worker, NEW r \in Release, ExecutesOn(w, r), Tracked(r)
  PROVE  /\ \A x \in Worker : ~PromotesOn(x, r)
         /\ \A j \in DOMAIN Items[r] : Kept(r, j) /\ component[Comp(r, j)] # Absent
<1>1. \A x \in Worker : ~PromotesOn(x, r)
  BY DEF EInv, BundleInv, PromoteInv, PromotesOn, ExecutesOn, MovesOn, Moves
<1> QED
  BY <1>1 DEF EInv, BundleInv, SettledInv

LEMMA FindComponentEInv ==
  ASSUME EInv, IInv', NEW w \in Worker, FindComponent(w)
  PROVE  EInv'
<1> DEFINE j == [job[w] EXCEPT !.found = component[job[w].comp]]
<1>1. UNCHANGED <<rows, seen>> /\ pc[w] = "find" /\ Goto(w, "write", j)
  BY DEF FindComponent
<1>2. job[w].comp \in Component /\ component[job[w].comp] \in Row
  BY <1>1, EInvFacts DEF JobOK, TypeOK, Row
<1>3. /\ j.found = component[job[w].comp]
      /\ j.kind = job[w].kind /\ j.rel = job[w].rel /\ j.rec = job[w].rec /\ j.i = job[w].i
      /\ j.snaps = job[w].snaps /\ j.comp = job[w].comp /\ j.patch = job[w].patch
  BY <1>2, EInvFacts DEF JobRecord
<1>4. pc'[w] = "write" /\ job'[w] = j
  BY <1>1, GotoOthers
<1> HIDE DEF j
<1>5. ItemInv(w)'
  BY <1>1, <1>3, <1>4, EInvFacts DEF ItemInv, Comp, ApplyPatch, UndoPatch, rows, seen
<1>6. ASSUME NEW r \in Release PROVE PromoteInv(w, r)' /\ ExecuteInv(w, r)'
  <2>1. \A k \in DOMAIN Items[r] : /\ Applied(r, k)' <=> Applied(r, k)
                                   /\ Restored(r, k)' <=> Restored(r, k)
                                   /\ Kept(r, k)' <=> Kept(r, k)
                                   /\ Untouched(r, k)' <=> Untouched(r, k)
    BY <1>1, SameItem DEF rows, seen
  <2>2. PromoteInv(w, r) /\ ExecuteInv(w, r)
    BY DEF EInv, BundleInv
  <2>3. PromoteInv(w, r)'
    <3>1. \A v \in Worker \ {w} : ~MovesOn(v, r) => ~MovesOn(v, r)'
      BY <1>1, GotoOthers DEF MovesOn
    <3> QED
      BY <1>1, <1>3, <1>4, <2>1, <2>2, <3>1 DEF PromoteInv, PromotesOn, Tracked, rows, seen
  <2>4. ExecuteInv(w, r)'
    <3> SUFFICES ASSUME ExecutesOn(w, r), Tracked(r) PROVE ExecuteInv(w, r)'
      BY <1>1, <1>3, <1>4 DEF ExecuteInv, ExecutesOn, Tracked, seen
    <3>1. job[w].comp = Comp(r, job[w].i) /\ job[w].i \in DOMAIN Items[r]
      BY <1>1, EInvFacts DEF ItemInv, JobOK, ExecutesOn, Moves
    <3>2. component[job[w].comp] # Absent
      BY <3>1, RollbackSettled
    <3> QED
      BY <1>1, <1>3, <1>4, <2>1, <2>2, <3>2 DEF ExecuteInv, Comp, rows, seen
  <2> QED
    BY <2>3, <2>4
<1> QED
  BY <1>1, <1>3, <1>5, <1>6, ContinueStep DEF rows, seen

LEMMA ReadPreviousEInv ==
  ASSUME EInv, IInv', NEW w \in Worker, ReadPrevious(w)
  PROVE  EInv'
<1> DEFINE q == job[w].rel
           i == job[w].i
           c == Comp(q, i)
           patch == ApplyPatch(q, i)
           next == IF component[c] = Absent THEN "find" ELSE "keep"
           j == [job[w] EXCEPT !.comp = c, !.found = component[c], !.patch = patch]
<1>1. UNCHANGED <<rows, seen>> /\ pc[w] = "previous" /\ Goto(w, next, j)
  BY DEF ReadPrevious, Comp, ApplyPatch, Item
<1>2. job[w].kind = "promote" /\ q \in Release /\ i \in DOMAIN Items[q]
  BY <1>1, EInvFacts DEF JobOK, Phases, JobRecord, JobKind
<1>3. c \in Component /\ component[c] \in Row
  BY <1>2, EInvFacts, TrackedFacts
<1> HIDE DEF c, patch
<1>4. /\ j.comp = c /\ j.patch = patch /\ j.found = component[c]
      /\ j.kind = job[w].kind /\ j.rel = q /\ j.i = i
  BY EInvFacts DEF JobRecord
<1>5. pc'[w] = next /\ job'[w] = j
  BY <1>1, GotoOthers
<1> HIDE DEF j
<1>6. ItemInv(w)'
  BY <1>1, <1>2, <1>4, <1>5
     DEF ItemInv, c, patch, Comp, ApplyPatch, StatusApplied, Upsert, rows
<1>7. ASSUME NEW r \in Release PROVE PromoteInv(w, r)' /\ ExecuteInv(w, r)'
  <2>1. ExecuteInv(w, r)'
    BY <1>2, <1>4, <1>5 DEF ExecuteInv, ExecutesOn
  <2>2. PromoteInv(w, r)'
    <3> SUFFICES ASSUME PromotesOn(w, r), Tracked(r) PROVE PromoteInv(w, r)'
      BY <1>1, <1>2, <1>4, <1>5 DEF PromoteInv, PromotesOn, Tracked, seen
    <3>1. \A k \in DOMAIN Items[r] : /\ Applied(r, k)' <=> Applied(r, k)
                                     /\ Kept(r, k)' <=> Kept(r, k)
                                     /\ Untouched(r, k)' <=> Untouched(r, k)
      BY <1>1, SameItem DEF rows, seen
    <3>2. PromoteInv(w, r) /\ r = q
      BY DEF EInv, BundleInv, PromotesOn
    <3>3. \A v \in Worker \ {w} : ~MovesOn(v, r) => ~MovesOn(v, r)'
      BY <1>1, GotoOthers DEF MovesOn
    <3>4. Untouched(r, i) /\ i \in Nat
      BY <1>1, <1>2, <3>2, EInvFacts, TrackedFacts DEF PromoteInv
    <3>5. next = "find" => Kept(r, i)
      BY <1>2, <3>2, <3>4 DEF EInv, SnapshotInv, Kept, Untouched, c
    <3> QED
      BY <1>1, <1>4, <1>5, <3>1, <3>2, <3>3, <3>5 DEF PromoteInv, Tracked, rows, seen
  <2> QED
    BY <2>1, <2>2
<1> QED
  BY <1>1, <1>4, <1>6, <1>7, ContinueStep DEF rows, seen

LEMMA ReverseItemEInv ==
  ASSUME EInv, IInv', NEW w \in Worker, ReverseItem(w)
  PROVE  EInv'
<1> DEFINE q == job[w].rel
           i == job[w].i
           c == Comp(q, i)
           patch == UndoPatch(q, i, job[w].snaps[i])
           j == [job[w] EXCEPT !.comp = c, !.patch = patch]
<1>1. UNCHANGED <<rows, seen>> /\ pc[w] = "reverse" /\ Goto(w, "find", j)
  BY DEF ReverseItem, GotoWrite, Comp, UndoPatch, Item
<1>2. job[w].kind = "execute"
  BY <1>1, EInvFacts DEF JobOK, Phases, JobRecord, JobKind
<1> HIDE DEF c, patch
<1>3. /\ j.comp = c /\ j.patch = patch /\ j.snaps = job[w].snaps
      /\ j.kind = job[w].kind /\ j.rel = q /\ j.i = i /\ j.rec = job[w].rec
  BY EInvFacts DEF JobRecord
<1>4. pc'[w] = "find" /\ job'[w] = j
  BY <1>1, GotoOthers
<1> HIDE DEF j
<1>5. ItemInv(w)'
  BY <1>1, <1>2, <1>3, <1>4, EInvFacts
     DEF ItemInv, c, patch, Comp, UndoPatch, StatusUndone, SetStatus, Upsert, rows, seen
<1>6. ASSUME NEW r \in Release PROVE PromoteInv(w, r)' /\ ExecuteInv(w, r)'
  <2>1. PromoteInv(w, r)'
    BY <1>2, <1>3, <1>4 DEF PromoteInv, PromotesOn
  <2>2. \A k \in DOMAIN Items[r] : Restored(r, k)' <=> Restored(r, k)
    BY <1>1, SameItem DEF rows, seen
  <2>3. ExecuteInv(w, r)
    BY DEF EInv, BundleInv
  <2>4. ExecuteInv(w, r)'
    BY <1>1, <1>3, <1>4, <2>2, <2>3 DEF ExecuteInv, ExecutesOn, Tracked, Comp, seen
  <2> QED
    BY <2>1, <2>4
<1> QED
  BY <1>1, <1>3, <1>5, <1>6, ContinueStep DEF rows, seen

LEMMA ItemThrowsEInv ==
  ASSUME EInv, IInv', NEW w \in Worker, ItemThrows(w)
  PROVE  EInv'
<1> DEFINE j == [Cleared(w) EXCEPT !.i = 1]
<1>1. PICK next \in {"unapplied", "unreversed"} :
        /\ UNCHANGED <<rows, seen>> /\ job[w].kind \in {"promote", "execute"}
        /\ Goto(w, next, j)
  BY DEF ItemThrows
<1>2. /\ j.kind = job[w].kind /\ j.rel = job[w].rel /\ j.rec = job[w].rec
      /\ j.snaps = job[w].snaps
  BY EInvFacts DEF Cleared, JobRecord, Row
<1>3. pc'[w] = next /\ job'[w] = j
  BY <1>1, GotoOthers
<1> HIDE DEF j
<1>4. ItemInv(w)'
  BY <1>1, <1>2, <1>3, EInvFacts DEF ItemInv, rows, seen
<1>5. ASSUME NEW r \in Release PROVE PromoteInv(w, r)' /\ ExecuteInv(w, r)'
  <2>1. PromoteInv(w, r) /\ ExecuteInv(w, r)
    BY DEF EInv, BundleInv
  <2>2. \A v \in Worker \ {w} : ~MovesOn(v, r) => ~MovesOn(v, r)'
    BY <1>1, GotoOthers DEF MovesOn
  <2>3. PromoteInv(w, r)'
    BY <1>1, <1>2, <1>3, <2>1, <2>2 DEF PromoteInv, PromotesOn, Tracked, rows, seen
  <2>4. ExecuteInv(w, r)'
    BY <1>1, <1>2, <1>3, <2>1 DEF ExecuteInv, ExecutesOn, Tracked, Comp, seen
  <2> QED
    BY <2>3, <2>4
<1> QED
  BY <1>1, <1>2, <1>4, <1>5, ContinueStep DEF rows, seen

LEMMA CompleteRecordEInv ==
  ASSUME EInv, IInv', NEW w \in Worker, CompleteRecord(w)
  PROVE  EInv'
<1>1. /\ pc[w] = "complete" /\ SetRecord(w, "completed") /\ Goto(w, "rolledback", job[w])
      /\ UNCHANGED <<release, snapshot, component, switch, gate, seen>>
  BY DEF CompleteRecord
<1>2. job[w].kind = "execute" /\ job[w].rec \in Rollback
  BY <1>1, EInvFacts DEF JobOK, Phases, JobRecord, JobKind
<1>3. pc'[w] = "rolledback" /\ job'[w] = job[w]
  BY <1>1, GotoOthers
<1>4. \A b \in Rollback : record'[b].rel = record[b].rel
                          /\ (record[b].status # "absent" => record'[b].status # "absent")
  BY <1>1, EInvFacts DEF SetRecord, TypeOK
<1>5. ItemInv(w)'
  BY <1>1, <1>2, <1>3, <1>4, EInvFacts DEF ItemInv, seen
<1>6. ASSUME NEW r \in Release PROVE PromoteInv(w, r)' /\ ExecuteInv(w, r)'
  <2>1. PromoteInv(w, r)'
    BY <1>2, <1>3 DEF PromoteInv, PromotesOn
  <2>2. \A k \in DOMAIN Items[r] : Restored(r, k)' <=> Restored(r, k)
    BY <1>1, SameItem DEF seen
  <2>3. ExecuteInv(w, r)
    BY DEF EInv, BundleInv
  <2>4. ExecuteInv(w, r)'
    BY <1>1, <1>3, <2>2, <2>3 DEF ExecuteInv, ExecutesOn, Tracked, Comp, seen
  <2> QED
    BY <2>1, <2>4
<1> QED
  BY <1>1, <1>4, <1>5, <1>6, ContinueStep DEF seen

-----------------------------------------------------------------------------
(* Promotions and rollbacks that end.                                      *)

LEMMA FinishStep ==
  ASSUME EInv, NEW w \in Worker, Finish(w), UNCHANGED <<component, reversed>>,
         \A b \in Rollback : record[b].status # "absent" =>
            record'[b].status # "absent" /\ record'[b].rel = record[b].rel
  PROVE  /\ StepOf(w) /\ (\A x \in Worker : ItemInv(x)')
         /\ \A r \in Release : ~MovesOn(w, r)'
         /\ \A r \in Release : NeverReversed(r)' => NeverReversed(r)
<1>1. pc'[w] = "idle" /\ job'[w] = NoJob /\ StepOf(w)
  BY GotoOthers DEF Finish, StepOf
<1>2. ItemInv(w)'
  BY <1>1, FreshJobs DEF ItemInv, Moves
<1>3. \A r \in Release : ~MovesOn(w, r)'
  BY <1>1, FreshJobs DEF MovesOn, Moves
<1> QED
  BY <1>1, <1>2, <1>3, OtherItemInv, NeverReversedFact

\* A rollback ends; its bundle becomes rolled_back only when all is restored.
LEMMA EndRollback ==
  ASSUME EInv, IInv', NEW w \in Worker, Finish(w), job[w].kind = "execute",
         UNCHANGED <<component, snapshot, before, reversed>>,
         \A b \in Rollback : record[b].status # "absent" =>
            record'[b].status # "absent" /\ record'[b].rel = record[b].rel,
         \A r \in Release :
            \/ release'[r] = release[r]
            \/ /\ r = job[w].rel
               /\ Tracked(r) => \A j \in DOMAIN Items[r] : Restored(r, j)
  PROVE  EInv'
<1>1. ASSUME NEW r \in Release PROVE BundleInv(r)'
  <2>1. Leaves(r) /\ ~MovesOn(w, r)'
    BY FinishStep DEF Leaves
  <2>2. CASE r # job[w].rel
    BY <2>1, <2>2, FinishStep, OtherBundle DEF MovesOn
  <2>3. CASE r = job[w].rel
    <3> SUFFICES ASSUME Tracked(r) PROVE BundleInv(r)'
      BY <2>1, UntrackedBundle DEF Tracked, Leaves
    <3>1. \A x \in Worker : ~PromotesOn(x, r)
      BY <2>3, RollbackSettled DEF ExecutesOn
    <3>2. \A x \in Worker : PromotesOn(x, r)' => x # w /\ PromotesOn(x, r)
      BY <2>1, FinishStep DEF StepOf, PromotesOn, MovesOn, Moves
    <3>3. \A x \in Worker : PromoteInv(x, r)'
      BY <3>1, <3>2 DEF PromoteInv
    <3>4. ExecuteInv(w, r)'
      BY <2>1 DEF ExecuteInv, ExecutesOn, MovesOn, Moves
    <3>5. \A x \in Worker : ExecuteInv(x, r)'
      BY <2>1, <3>4, FinishStep, OtherExecute
    <3>6. \A j \in DOMAIN Items[r] : /\ Applied(r, j)' <=> Applied(r, j)
                                     /\ Restored(r, j)' <=> Restored(r, j)
                                     /\ Kept(r, j)' <=> Kept(r, j)
      BY SameItem
    <3>7. SettledInv(r) /\ (release'[r] = release[r] \/ \A j \in DOMAIN Items[r] : Restored(r, j))
      BY DEF EInv, BundleInv
    <3>8. SettledInv(r)'
      BY <2>1, <3>1, <3>6, <3>7 DEF SettledInv, Leaves, Comp
    <3> QED
      BY <3>3, <3>5, <3>8 DEF BundleInv
  <2> QED
    BY <2>2, <2>3
<1>2. \A r \in Release : SnapshotInv(r)'
  BY DEF EInv, SnapshotInv, Comp
<1> QED
  BY <1>1, <1>2, FinishStep DEF EInv

LEMMA EndRollbackEInv ==
  ASSUME EInv, IInv', NEW w \in Worker,
         MarkRolledBack(w) \/ FailRecord(w) \/ (CutOff(w) /\ job[w].kind = "execute")
  PROVE  EInv'
<1>1. /\ Finish(w) /\ UNCHANGED <<component, snapshot, before, reversed>>
  BY DEF MarkRolledBack, FailRecord, CutOff, rows, seen
<1>2. job[w].kind = "execute"
  BY EInvFacts DEF MarkRolledBack, FailRecord, JobOK, Phases, JobRecord, JobKind
<1>3. \A b \in Rollback : record[b].status # "absent" =>
        record'[b].status # "absent" /\ record'[b].rel = record[b].rel
  BY EInvFacts DEF MarkRolledBack, FailRecord, CutOff, SetRecord, TypeOK, rows
<1>4. ASSUME NEW r \in Release
      PROVE  \/ release'[r] = release[r]
             \/ /\ r = job[w].rel
                /\ Tracked(r) => \A j \in DOMAIN Items[r] : Restored(r, j)
  <2>1. CASE FailRecord(w) \/ CutOff(w)
    BY <2>1 DEF FailRecord, CutOff, rows
  <2>2. CASE MarkRolledBack(w) /\ r # job[w].rel
    BY <2>2, EInvFacts DEF MarkRolledBack, SetRelease, TypeOK
  <2>3. CASE MarkRolledBack(w) /\ r = job[w].rel
    BY <1>2, <2>3 DEF MarkRolledBack, EInv, BundleInv, ExecuteInv, ExecutesOn
  <2> QED
    BY <2>1, <2>2, <2>3
<1> QED
  BY <1>1, <1>2, <1>3, <1>4, EndRollback

LEMMA MarkPromotedEInv ==
  ASSUME EInv, IInv', NEW w \in Worker, MarkPromoted(w)
  PROVE  EInv'
<1>1. /\ pc[w] = "promoted" /\ Finish(w) /\ SetRelease(w, "promoted")
      /\ UNCHANGED <<snapshot, component, before, reversed, record>>
  BY DEF MarkPromoted, seen
<1>2. job[w].kind = "promote"
  BY <1>1, EInvFacts DEF JobOK, Phases, JobRecord, JobKind
<1>3. ASSUME NEW r \in Release PROVE BundleInv(r)'
  <2>1. Leaves(r) /\ ~MovesOn(w, r)' /\ StepOf(w)
    BY <1>1, FinishStep DEF Leaves
  <2>2. CASE r # job[w].rel
    <3>1. release'[r] = release[r]
      BY <1>1, <2>2, EInvFacts DEF SetRelease, TypeOK
    <3> QED
      BY <2>1, <2>2, <3>1, OtherBundle DEF MovesOn
  <2>3. CASE r = job[w].rel
    <3> SUFFICES ASSUME Tracked(r) PROVE BundleInv(r)'
      BY <2>1, UntrackedBundle DEF Tracked, Leaves
    <3>1. PromoteInv(w, r) /\ PromotesOn(w, r)
      BY <1>2, <2>3 DEF EInv, BundleInv, PromotesOn
    <3>2. \A x \in Worker : ~MovesOn(x, r)'
      BY <2>1, <3>1 DEF PromoteInv, StepOf, MovesOn
    <3>3. \A x \in Worker : PromoteInv(x, r)' /\ ExecuteInv(x, r)'
      BY <3>2 DEF PromoteInv, ExecuteInv, PromotesOn, ExecutesOn, MovesOn, Moves
    <3>4. \A j \in DOMAIN Items[r] : /\ Applied(r, j)' <=> Applied(r, j)
                                     /\ Kept(r, j)' <=> Kept(r, j)
      BY <1>1, SameItem
    <3>5. \A j \in DOMAIN Items[r] : Applied(r, j)' /\ Kept(r, j)'
      BY <1>1, <3>1, <3>4 DEF PromoteInv
    <3>6. release'[r] = "promoted"
      BY <1>1, <2>3, EInvFacts DEF SetRelease, TypeOK
    <3>7. SettledInv(r)'
      BY <3>5, <3>6 DEF SettledInv, Applied
    <3> QED
      BY <3>3, <3>7 DEF BundleInv
  <2> QED
    BY <2>2, <2>3
<1>4. \A r \in Release : SnapshotInv(r)'
  BY <1>1 DEF EInv, SnapshotInv, Comp
<1> QED
  BY <1>1, <1>3, <1>4, FinishStep DEF EInv

\* A promotion that fails or is cut off leaves its bundle untracked.
LEMMA EndPromotionEInv ==
  ASSUME EInv, IInv', NEW w \in Worker,
         MarkFailed(w) \/ (CutOff(w) /\ job[w].kind = "promote")
  PROVE  EInv'
<1>1. /\ Finish(w) /\ before' = [before EXCEPT ![job[w].rel] = Absent]
      /\ UNCHANGED <<component, snapshot, reversed, record>>
      /\ \A r \in Release \ {job[w].rel} : release'[r] = release[r]
  BY EInvFacts DEF MarkFailed, CutOff, SetRelease, TypeOK, rows
<1>2. ASSUME NEW r \in Release PROVE BundleInv(r)'
  <2>1. CASE r = job[w].rel
    <3>1. ~Tracked(r)'
      BY <1>1, <2>1, EInvFacts DEF Tracked, TypeOK
    <3> QED
      BY <3>1, UntrackedBundle
  <2>2. CASE r # job[w].rel
    <3>1. before'[r] = before[r]
      BY <1>1, <2>2, EInvFacts DEF TypeOK
    <3>2. Leaves(r) /\ ~MovesOn(w, r)' /\ StepOf(w)
      BY <1>1, <3>1, FinishStep DEF Leaves
    <3> QED
      BY <1>1, <2>2, <3>2, OtherBundle DEF MovesOn
  <2> QED
    BY <2>1, <2>2
<1>3. \A r \in Release : SnapshotInv(r)'
  BY <1>1 DEF EInv, SnapshotInv, Comp
<1> QED
  BY <1>1, <1>2, <1>3, FinishStep DEF EInv

LEMMA CutOffEInv ==
  ASSUME EInv, IInv', NEW w \in Worker, CutOff(w)
  PROVE  EInv'
<1>1. CASE job[w].kind \notin Moves
  <2>1. Undisturbed(w)
    BY <1>1, FreshJobs, GotoOthers DEF CutOff, Finish, Undisturbed, Moves, rows
  <2> QED
    BY <2>1, QuietStep
<1> QED
  BY <1>1, EndRollbackEInv, EndPromotionEInv DEF Moves

-----------------------------------------------------------------------------
(* Promotions and rollbacks that begin.                                    *)

LEMMA PromoteEInv ==
  ASSUME EInv, IInv', NEW w \in Worker, NEW q \in Release, Promote(w, q)
  PROVE  EInv'
<1> DEFINE j == OnRelease("promote", q)
<1>1. /\ pc[w] = "idle" /\ Goto(w, "previous", j) /\ UNCHANGED <<rows, reversed>>
      /\ before' = [before EXCEPT ![q] = IF OtherJobOn(w, q, {"promote", "execute"})
                                         THEN Absent ELSE component]
      /\ Promotable(q)
  BY DEF Promote, Take
<1>2. j.kind = "promote" /\ j.rel = q /\ j.i = 1
  BY FreshJobs DEF JobKind
<1>3. pc'[w] = "previous" /\ job'[w] = j
  BY <1>1, GotoOthers
<1> HIDE DEF j
<1>4. job[w].kind = "none"
  BY <1>1, EInvFacts DEF JobOK, Phases, JobRecord, JobKind
<1>5. StepOf(w) /\ UNCHANGED <<component, snapshot, release, record>>
  BY <1>1, GotoOthers DEF StepOf, rows
<1>6. ASSUME NEW r \in Release PROVE BundleInv(r)'
  <2>1. CASE r # q
    <3>1. before'[r] = before[r]
      BY <1>1, <2>1, EInvFacts DEF TypeOK
    <3>2. Leaves(r)
      BY <1>5, <3>1, NeverReversedFact DEF Leaves
    <3> QED
      BY <1>2, <1>3, <1>4, <1>5, <2>1, <3>2, OtherBundle DEF MovesOn, Moves
  <2>2. CASE r = q
    <3>0. Tracked(q)' => before'[q] = component /\ ~OtherJobOn(w, q, {"promote", "execute"})
      BY <1>1, EInvFacts DEF Tracked, TypeOK
    <3> SUFFICES ASSUME Tracked(q)' PROVE BundleInv(q)'
      BY <2>2, UntrackedBundle
    <3>1. \A x \in Worker \ {w} : ~MovesOn(x, q)'
      BY <1>5, <3>0 DEF OtherJobOn, MovesOn, Moves, StepOf
    <3>2. \A x \in Worker \ {w} : PromoteInv(x, q)' /\ ExecuteInv(x, q)'
      BY <3>1 DEF PromoteInv, ExecuteInv, PromotesOn, ExecutesOn, MovesOn, Moves
    <3>3. ExecuteInv(w, q)'
      BY <1>2, <1>3 DEF ExecuteInv, ExecutesOn
    <3>4. PromoteInv(w, q)'
      <4>1. release'[q] \notin {"promoted", "rolled_back"}
        BY <1>1, <1>5 DEF Promotable
      <4>2. \A k \in DOMAIN Items[q] : Untouched(q, k)' /\ ~(k < 1)
        BY <1>5, <3>0, ItemFacts DEF Untouched, Comp
      <4> QED
        BY <1>2, <1>3, <3>1, <4>1, <4>2 DEF PromoteInv
    <3>5. SettledInv(q)'
      BY <1>2, <1>3 DEF SettledInv, PromotesOn
    <3> QED
      BY <3>2, <3>3, <3>4, <3>5 DEF BundleInv
  <2> QED
    BY <2>1, <2>2
<1>7. ItemInv(w)'
  BY <1>2, <1>3 DEF ItemInv
<1>8. \A x \in Worker : ItemInv(x)'
  BY <1>5, <1>7, OtherItemInv
<1>9. \A r \in Release : SnapshotInv(r)'
  BY <1>5 DEF EInv, SnapshotInv, Comp
<1> QED
  BY <1>6, <1>8, <1>9 DEF EInv

LEMMA ExecuteEInv ==
  ASSUME EInv, IInv', NEW w \in Worker, NEW b \in Rollback, Execute(w, b)
  PROVE  EInv'
<1> PICK q : q = record[b].rel
  OBVIOUS
<1> DEFINE j == [OnRelease("execute", q) EXCEPT !.rec = b, !.snaps = snapshot[q]]
<1>1. /\ pc[w] = "idle" /\ Goto(w, "reverse", j) /\ UNCHANGED rows
      /\ reversed' = reversed \cup {b} /\ record[b].status = "approved"
      /\ before' = [before EXCEPT ![q] = IF OtherJobOn(w, q, {"promote"}) THEN Absent ELSE @]
  BY DEF Execute, Take, Executable
<1>2. q \in Release
  BY <1>1 DEF EInv, IInv, RecordInv
<1>3. j.kind = "execute" /\ j.rel = q /\ j.i = 1 /\ j.rec = b /\ j.snaps = snapshot[q]
  <2>1. /\ OnRelease("execute", q) \in JobRecord /\ OnRelease("execute", q).kind = "execute"
        /\ OnRelease("execute", q).rel = q /\ OnRelease("execute", q).i = 1
    BY <1>2, FreshJobs DEF JobKind
  <2> QED
    BY <2>1 DEF JobRecord
<1>4. pc'[w] = "reverse" /\ job'[w] = j
  BY <1>1, GotoOthers
<1> HIDE DEF j
<1>5. job[w].kind = "none"
  BY <1>1, EInvFacts DEF JobOK, Phases, JobRecord, JobKind
<1>6. StepOf(w) /\ UNCHANGED <<component, snapshot, release, record>>
  BY <1>1, GotoOthers DEF StepOf, rows
<1>7. ASSUME NEW r \in Release PROVE BundleInv(r)'
  <2>1. CASE r # q
    <3>1. before'[r] = before[r]
      BY <1>1, <2>1, EInvFacts DEF TypeOK
    <3>2. Leaves(r)
      BY <1>6, <3>1, NeverReversedFact DEF Leaves
    <3> QED
      BY <1>3, <1>4, <1>5, <1>6, <2>1, <3>2, OtherBundle DEF MovesOn, Moves
  <2>2. CASE r = q
    <3>0. Tracked(q)' => before'[q] = before[q] /\ Tracked(q) /\ ~OtherJobOn(w, q, {"promote"})
      BY <1>1, <1>2, EInvFacts DEF Tracked, TypeOK
    <3> SUFFICES ASSUME Tracked(q)' PROVE BundleInv(q)'
      BY <2>2, UntrackedBundle
    <3>1. \A x \in Worker : ~PromotesOn(x, q)' /\ ~PromotesOn(x, q)
      BY <1>3, <1>4, <1>5, <1>6, <3>0 DEF OtherJobOn, PromotesOn, StepOf
    <3>2. \A x \in Worker : PromoteInv(x, q)'
      BY <3>1 DEF PromoteInv
    <3>3. Leaves(q)
      BY <1>2, <1>6, <3>0, NeverReversedFact DEF Leaves
    <3>4. \A x \in Worker \ {w} : ExecuteInv(x, q)'
      BY <1>2, <1>6, <3>3, OtherExecute
    <3>5. SettledInv(q) /\ \A k \in DOMAIN Items[q] : Kept(q, k)
      BY <1>2, <3>0, <3>1 DEF EInv, BundleInv, SettledInv
    <3>6. ExecuteInv(w, q)'
      BY <1>2, <1>3, <1>4, <1>6, <3>0, <3>5, ItemFacts, SMTT(60) DEF ExecuteInv, Kept, Comp
    <3>7. \A k \in DOMAIN Items[q] : /\ Applied(q, k)' <=> Applied(q, k)
                                     /\ Restored(q, k)' <=> Restored(q, k)
                                     /\ Kept(q, k)' <=> Kept(q, k)
      BY <1>2, <1>6, <3>0, SameItem
    <3>8. SettledInv(q)'
      BY <1>6, <3>0, <3>1, <3>3, <3>5, <3>7 DEF SettledInv, Leaves, Comp
    <3> QED
      BY <3>2, <3>4, <3>6, <3>8 DEF BundleInv
  <2> QED
    BY <2>1, <2>2
<1>8. ItemInv(w)'
  BY <1>1, <1>3, <1>4, <1>6 DEF ItemInv
<1>9. \A x \in Worker : ItemInv(x)'
  BY <1>6, <1>8, OtherItemInv
<1>10. \A r \in Release : SnapshotInv(r)'
  BY <1>6 DEF EInv, SnapshotInv, Comp
<1> QED
  BY <1>7, <1>9, <1>10 DEF EInv

-----------------------------------------------------------------------------
(* Snapshots kept and components written.                                  *)

LEMMA KeepSnapshotEInv ==
  ASSUME EInv, IInv', NEW w \in Worker, KeepSnapshot(w)
  PROVE  EInv'
<1> PICK q, i : q = job[w].rel /\ i = job[w].i
  OBVIOUS
<1>1. /\ pc[w] = "keep" /\ Goto(w, "find", job[w])
      /\ snapshot' = [snapshot EXCEPT ![q][i] = job[w].found]
      /\ UNCHANGED <<release, component, record, before, reversed>>
  BY DEF KeepSnapshot, seen
<1>2. /\ job[w].kind = "promote" /\ q \in Release /\ i \in DOMAIN Items[q]
      /\ job[w].comp = Comp(q, i) /\ component[Comp(q, i)] # Absent
  BY <1>1, EInvFacts DEF JobOK, Phases, JobRecord, JobKind, ItemInv, Moves
<1>3. pc'[w] = "find" /\ job'[w] = job[w] /\ StepOf(w)
  BY <1>1, GotoOthers DEF StepOf
<1>4. /\ \A r \in Release \ {q} : snapshot'[r] = snapshot[r]
      /\ \A k \in DOMAIN Items[q] : snapshot'[q][k] = IF k = i THEN job[w].found
                                                    ELSE snapshot[q][k]
  <2>1. snapshot'[q] = [snapshot[q] EXCEPT ![i] = job[w].found]
    BY <1>1, <1>2, EInvFacts DEF Typed
  <2>2. snapshot[q] \in [DOMAIN Items[q] -> Row]
    BY <1>2, EInvFacts DEF TypeOK, Row
  <2>3. \A r \in Release \ {q} : snapshot'[r] = snapshot[r]
    BY <1>1, EInvFacts DEF Typed
  <2> QED
    BY <2>1, <2>2, <2>3
<1>5. ASSUME NEW r \in Release PROVE SnapshotInv(r)'
  BY <1>1, <1>2, <1>4, SMTT(60) DEF EInv, SnapshotInv, Comp
<1>6. ItemInv(w)'
  BY <1>1, <1>2, <1>3, EInvFacts DEF ItemInv, Comp, ApplyPatch, UndoPatch
<1>7. ASSUME NEW r \in Release PROVE BundleInv(r)'
  <2>1. CASE r # q
    BY <1>1, <1>3, <1>4, <2>1, OtherBundle, NeverReversedFact DEF Leaves, MovesOn
  <2>2. CASE r = q
    <3> SUFFICES ASSUME Tracked(q) PROVE BundleInv(q)'
      BY <1>1, <2>2, UntrackedBundle DEF Tracked
    <3>1. PromoteInv(w, q) /\ PromotesOn(w, q)
      BY <1>2 DEF EInv, BundleInv, PromotesOn
    <3>2. \A x \in Worker \ {w} : ~MovesOn(x, q)'
      BY <1>3, <3>1 DEF PromoteInv, StepOf, MovesOn
    <3>3. \A x \in Worker \ {w} : PromoteInv(x, q)' /\ ExecuteInv(x, q)'
      BY <3>2 DEF PromoteInv, ExecuteInv, PromotesOn, ExecutesOn, MovesOn, Moves
    <3>4. ExecuteInv(w, q)' /\ SettledInv(q)'
      BY <1>2, <1>3 DEF ExecuteInv, SettledInv, ExecutesOn, PromotesOn
    <3>5. \A k \in DOMAIN Items[q] \ {i} : /\ Applied(q, k)' <=> Applied(q, k)
                                           /\ Kept(q, k)' <=> Kept(q, k)
      BY <1>1, <1>2, <1>4, SameItem
    <3>6. \A k \in DOMAIN Items[q] : Untouched(q, k)' <=> Untouched(q, k)
      BY <1>1 DEF Untouched, Comp
    <3>7. i \in Nat /\ ~(i < i)
      BY <1>2, ItemFacts
    <3>8. Kept(q, i)'
      BY <1>1, <1>2, <1>4, <3>1, <3>7, ZenonT(60) DEF PromoteInv, Untouched, Kept, Comp
    <3>9. PromoteInv(w, q)'
      BY <1>1, <1>3, <3>1, <3>2, <3>5, <3>6, <3>7, <3>8 DEF PromoteInv
    <3> QED
      BY <3>3, <3>4, <3>9 DEF BundleInv
  <2> QED
    BY <2>1, <2>2
<1> QED
  BY <1>3, <1>5, <1>6, <1>7, OtherItemInv DEF EInv

\* What a component write does to the rows, and where it takes its request.
LEMMA WriteFacts ==
  ASSUME EInv, NEW w \in Worker, WriteComponent(w)
  PROVE  /\ pc[w] = "write" /\ job[w].comp \in Component
         /\ job[w].kind \in Moves \cup {"kill", "unkill", "sweep"}
         /\ component'[job[w].comp] =
                Patched(job[w].found, component[job[w].comp], job[w].patch)
         /\ component'[job[w].comp] \in RuntimeComponent
         /\ \A c \in Component \ {job[w].comp} : component'[c] = component[c]
         /\ \A r \in Release :
                before'[r] = IF job[w].comp \in Touches(r) /\ job[w].rel # r
                             THEN Absent ELSE before[r]
         /\ UNCHANGED <<release, snapshot, record, reversed>>
         /\ StepOf(w) /\ ItemInv(w)'
         /\ \A r \in Release : MovesOn(w, r)' <=> MovesOn(w, r)
<1>1. /\ pc[w] = "write"
      /\ component' = [component EXCEPT ![job[w].comp] =
                            Patched(job[w].found, @, job[w].patch)]
      /\ \A r \in Release :
            before'[r] = IF job[w].comp \in Touches(r) /\ job[w].rel # r
                         THEN Absent ELSE before[r]
      /\ UNCHANGED <<release, snapshot, record, reversed>>
  BY DEF WriteComponent
<1>2. /\ job[w].comp \in Component /\ job[w].patch \in Patch
      /\ job[w].kind \in Moves \cup {"kill", "unkill", "sweep"}
      /\ job[w].found # Absent => component[job[w].comp] # Absent
  BY <1>1, EInvFacts DEF JobOK, RowsKnown, Phases, JobRecord, JobKind, Moves
<1>3. Patched(job[w].found, component[job[w].comp], job[w].patch) \in RuntimeComponent
  BY <1>2, EInvFacts, PatchedIsRow DEF JobRecord, TypeOK, Row
<1>4. /\ component'[job[w].comp] = Patched(job[w].found, component[job[w].comp], job[w].patch)
      /\ \A c \in Component \ {job[w].comp} : component'[c] = component[c]
  BY <1>1, <1>2, EInvFacts DEF TypeOK
<1>5. \A c \in Component : component[c] # Absent => component'[c] # Absent
  BY <1>3, <1>4, ReleaseAssumption DEF ReleaseAssumption
<1>6. PICK next, j :
        /\ Goto(w, next, j) /\ next \notin {"keep", "find", "write"}
        /\ IF job[w].kind \in Moves
           THEN j.kind = job[w].kind /\ j.rel = job[w].rel /\ j.rec = job[w].rec
           ELSE j.kind \notin Moves
  <2>1. CASE job[w].kind \in {"kill", "unkill"}
    BY <2>1, FreshJobs DEF WriteComponent, Finish, Moves
  <2>2. CASE job[w].kind = "promote"
    BY <2>2, EInvFacts, OnwardFacts DEF WriteComponent, Moves
  <2>3. CASE job[w].kind = "execute"
    BY <2>3, EInvFacts, OnwardFacts DEF WriteComponent, Moves
  <2>4. CASE job[w].kind = "sweep"
    <3>1. Goto(w, "probe", Cleared(w))
      BY <2>4 DEF WriteComponent
    <3>2. Cleared(w).kind = job[w].kind
      BY EInvFacts DEF Cleared, JobRecord
    <3> QED
      BY <2>4, <3>1, <3>2 DEF Moves
  <2> QED
    BY <1>2, <2>1, <2>2, <2>3, <2>4 DEF Moves
<1>7. pc'[w] = next /\ job'[w] = j /\ StepOf(w)
  BY <1>1, <1>5, <1>6, GotoOthers DEF StepOf
<1>8. ItemInv(w)'
  BY <1>1, <1>6, <1>7, EInvFacts DEF ItemInv, Moves
<1>9. \A r \in Release : MovesOn(w, r)' <=> MovesOn(w, r)
  BY <1>6, <1>7 DEF MovesOn
<1> QED
  BY <1>1, <1>2, <1>3, <1>4, <1>7, <1>8, <1>9

\* Where a write takes a request that promotes or rolls back.
LEMMA WriteOnward ==
  ASSUME EInv, NEW w \in Worker, WriteComponent(w), job[w].kind \in Moves
  PROVE  /\ job'[w].kind = job[w].kind /\ job'[w].rel = job[w].rel
         /\ job'[w].snaps = job[w].snaps
         /\ IF LastItem(w)
            THEN pc'[w] = IF job[w].kind = "promote" THEN "promoted" ELSE "complete"
            ELSE /\ pc'[w] = IF job[w].kind = "promote" THEN "previous" ELSE "reverse"
                 /\ job'[w].i = job[w].i + 1
<1>1. CASE job[w].kind = "promote"
  <2>1. Onward(w, "previous", "promoted")
    BY <1>1 DEF WriteComponent
  <2>2. PICK next \in {"previous", "promoted"}, j \in JobRecord :
            /\ Goto(w, next, j)
            /\ j.kind = job[w].kind /\ j.rel = job[w].rel /\ j.snaps = job[w].snaps
            /\ IF LastItem(w) THEN next = "promoted"
               ELSE next = "previous" /\ j.i = job[w].i + 1
    BY <1>1, <2>1, EInvFacts, OnwardFacts
  <2> QED
    BY <1>1, <2>2, GotoOthers
<1>2. CASE job[w].kind = "execute"
  <2>1. Onward(w, "reverse", "complete")
    BY <1>2 DEF WriteComponent
  <2>2. PICK next \in {"reverse", "complete"}, j \in JobRecord :
            /\ Goto(w, next, j)
            /\ j.kind = job[w].kind /\ j.rel = job[w].rel /\ j.snaps = job[w].snaps
            /\ IF LastItem(w) THEN next = "complete"
               ELSE next = "reverse" /\ j.i = job[w].i + 1
    BY <1>2, <2>1, EInvFacts, OnwardFacts
  <2> QED
    BY <1>2, <2>2, GotoOthers
<1> QED
  BY <1>1, <1>2 DEF Moves

LEMMA PromoteWrite ==
  ASSUME DistinctItems, EInv, NEW w \in Worker, WriteComponent(w),
         NEW r \in Release, PromotesOn(w, r)
  PROVE  BundleInv(r)'
<1> PICK i : i = job[w].i
  OBVIOUS
<1>1. /\ i \in DOMAIN Items[r] /\ i \in Nat /\ job[w].comp = Comp(r, i)
      /\ DOMAIN Items[r] = 1..Len(Items[r]) /\ Len(Items[r]) \in Nat
      /\ job[w].patch = ApplyPatch(r, i) /\ job[w].kind \in Moves
  BY EInvFacts, WriteFacts, ItemFacts DEF JobOK, ItemInv, PromotesOn, Moves
<1>2. before'[r] = before[r] /\ (Tracked(r)' <=> Tracked(r))
  BY WriteFacts DEF PromotesOn, Tracked
<1> SUFFICES ASSUME Tracked(r) PROVE BundleInv(r)'
  BY <1>2, UntrackedBundle
<1>3. PromoteInv(w, r)
  BY DEF EInv, BundleInv
<1>4. \A x \in Worker \ {w} : ~MovesOn(x, r)'
  BY <1>3, WriteFacts DEF PromoteInv, StepOf, MovesOn
<1>5. \A x \in Worker \ {w} : PromoteInv(x, r)' /\ ExecuteInv(x, r)'
  BY <1>4 DEF PromoteInv, ExecuteInv, PromotesOn, ExecutesOn, MovesOn, Moves
<1>6. PromotesOn(w, r)' /\ ~ExecutesOn(w, r)'
  BY <1>1, WriteOnward DEF PromotesOn, ExecutesOn
<1>7. \A k \in DOMAIN Items[r] \ {i} : Comp(r, k) \in Component \ {job[w].comp}
  BY <1>1, EInvFacts, TrackedFacts DEF DistinctItems, Comp
<1>8. \A k \in DOMAIN Items[r] \ {i} : /\ Applied(r, k)' <=> Applied(r, k)
                                       /\ Kept(r, k)' <=> Kept(r, k)
                                       /\ Untouched(r, k)' <=> Untouched(r, k)
  BY <1>2, <1>7, WriteFacts, SameItem
<1>9. Kept(r, i)'
  BY <1>1, <1>2, <1>3, WriteFacts DEF PromoteInv, Kept, Comp
<1>10. Applied(r, i)'
  <2>1. /\ component'[Comp(r, i)] = Patched(job[w].found, job[w].found, ApplyPatch(r, i))
        /\ component'[Comp(r, i)] \in RuntimeComponent /\ job[w].found \in Row
    BY <1>1, <1>3, WriteFacts, EInvFacts DEF PromoteInv, JobRecord
  <2>2. component'[Comp(r, i)] # Absent
    BY <2>1, ReleaseAssumption DEF ReleaseAssumption
  <2>3. /\ component'[Comp(r, i)].status = StatusApplied(Items[r][i])
        /\ Items[r][i].version \in {NoVersion, component'[Comp(r, i)].version}
    BY <2>1 DEF Patched, ApplyPatch, Upsert
  <2> QED
    BY <2>2, <2>3 DEF Applied, Comp, StatusApplied
<1>11. PromoteInv(w, r)'
  <2>1. release'[r] \notin {"promoted", "rolled_back"}
    BY <1>3, WriteFacts DEF PromoteInv
  <2>2. CASE LastItem(w)
    <3>1. \A k \in DOMAIN Items[r] : k = i \/ k < i
      BY <1>1, <2>2 DEF LastItem, PromotesOn
    <3>2. \A k \in DOMAIN Items[r] : Applied(r, k)' /\ Kept(r, k)'
      BY <1>3, <1>8, <1>9, <1>10, <3>1, WriteFacts DEF PromoteInv
    <3>3. pc'[w] = "promoted"
      BY <1>1, <2>2, WriteOnward DEF PromotesOn
    <3> QED
      BY <1>4, <2>1, <3>2, <3>3 DEF PromoteInv
  <2>3. CASE ~LastItem(w)
    <3>1. pc'[w] = "previous" /\ job'[w].i = i + 1
      BY <1>1, <2>3, WriteOnward DEF PromotesOn
    <3>2. ASSUME NEW k \in DOMAIN Items[r]
          PROVE  IF k < i + 1 THEN Applied(r, k)' /\ Kept(r, k)' ELSE Untouched(r, k)'
      <4>1. CASE k = i
        BY <1>1, <1>9, <1>10, <4>1
      <4>2. CASE k # i
        <5>1. k < i + 1 <=> k < i
          BY <1>1, <4>2
        <5> QED
          BY <1>3, <1>8, <4>2, <5>1, WriteFacts DEF PromoteInv
      <4> QED
        BY <4>1, <4>2
    <3> QED
      BY <1>4, <2>1, <3>1, <3>2 DEF PromoteInv
  <2> QED
    BY <2>2, <2>3
<1>12. ExecuteInv(w, r)' /\ SettledInv(r)'
  BY <1>6 DEF ExecuteInv, SettledInv
<1> QED
  BY <1>5, <1>11, <1>12 DEF BundleInv

LEMMA ExecuteWrite ==
  ASSUME DistinctItems, EInv, NEW w \in Worker, WriteComponent(w),
         NEW r \in Release, ExecutesOn(w, r)
  PROVE  BundleInv(r)'
<1> PICK i : i = job[w].i
  OBVIOUS
<1>1. /\ i \in DOMAIN Items[r] /\ i \in Nat /\ job[w].comp = Comp(r, i)
      /\ DOMAIN Items[r] = 1..Len(Items[r]) /\ Len(Items[r]) \in Nat
      /\ job[w].patch = UndoPatch(r, i, job[w].snaps[i]) /\ job[w].kind \in Moves
      /\ job[w].rec \in reversed /\ record[job[w].rec].rel = r
  BY EInvFacts, WriteFacts, ItemFacts DEF JobOK, ItemInv, ExecutesOn, Moves
<1>2. before'[r] = before[r] /\ (Tracked(r)' <=> Tracked(r))
  BY WriteFacts DEF ExecutesOn, Tracked
<1> SUFFICES ASSUME Tracked(r) PROVE BundleInv(r)'
  BY <1>2, UntrackedBundle
<1>3. /\ \A x \in Worker : ~PromotesOn(x, r)
      /\ \A j \in DOMAIN Items[r] : Kept(r, j) /\ component[Comp(r, j)] # Absent
  BY RollbackSettled
<1>4. job'[w].kind = "execute" /\ job'[w].rel = r /\ job'[w].snaps = job[w].snaps
  BY <1>1, WriteOnward DEF ExecutesOn
<1>5. \A x \in Worker : ~PromotesOn(x, r)'
  BY <1>3, <1>4, WriteFacts DEF StepOf, PromotesOn
<1>6. \A k \in DOMAIN Items[r] \ {i} : Comp(r, k) \in Component \ {job[w].comp}
  BY <1>1, EInvFacts, TrackedFacts DEF DistinctItems, Comp
<1>7. \A k \in DOMAIN Items[r] \ {i} : Restored(r, k)' <=> Restored(r, k)
  BY <1>2, <1>6, WriteFacts, SameItem
<1>8. Restored(r, i)'
  <2>1. ExecuteInv(w, r) /\ pc[w] = "write"
    BY WriteFacts DEF EInv, BundleInv
  <2>2. /\ job[w].found # Absent /\ job[w].snaps[i] = before[r][Comp(r, i)]
        /\ before[r][Comp(r, i)] \in Row
    BY <1>1, <2>1, EInvFacts, TrackedFacts DEF ExecuteInv
  <2> DEFINE old == before[r][Comp(r, i)]
             row == component'[Comp(r, i)]
  <2>3. /\ row = Patched(job[w].found, component[Comp(r, i)], UndoPatch(r, i, old))
        /\ row \in RuntimeComponent
    BY <1>1, <2>2, WriteFacts
  <2>4. row # Absent
    BY <2>3, ReleaseAssumption DEF ReleaseAssumption
  <2>5. CASE old = Absent
    <3>1. row.status = StatusUndone(Items[r][i])
      BY <2>2, <2>3, <2>5 DEF Patched, UndoPatch, SetStatus
    <3> QED
      BY <1>2, <2>4, <2>5, <3>1 DEF Restored, Comp, StatusUndone
  <2>6. CASE old # Absent
    <3>1. row.status = old.status /\ (old.version # NoVersion => row = old)
      BY <2>2, <2>3, <2>6 DEF Patched, UndoPatch, Upsert, Row, RuntimeComponent
    <3> QED
      BY <1>2, <2>4, <2>6, <3>1 DEF Restored, Comp
  <2> QED
    BY <2>5, <2>6
<1>9. \A k \in DOMAIN Items[r] : Restored(r, k) => Restored(r, k)'
  BY <1>7, <1>8
<1>10. ASSUME NEW x \in Worker PROVE ExecuteInv(x, r)'
  <2>1. ExecuteInv(x, r)
    BY DEF EInv, BundleInv
  <2>2. CASE x # w
    BY <1>2, <1>9, <2>1, <2>2, WriteFacts DEF ExecuteInv, ExecutesOn, StepOf, Comp
  <2>3. CASE x = w /\ LastItem(w)
    <3>1. \A k \in DOMAIN Items[r] : k = i \/ k < i
      BY <1>1, <2>3 DEF LastItem, ExecutesOn
    <3>2. \A k \in DOMAIN Items[r] : Restored(r, k)'
      BY <1>8, <1>9, <2>1, <2>3, <3>1, WriteFacts DEF ExecuteInv
    <3>3. pc'[w] = "complete"
      BY <1>1, <2>3, WriteOnward DEF ExecutesOn
    <3> QED
      BY <1>2, <1>4, <2>1, <2>3, <3>2, <3>3 DEF ExecuteInv, Comp
  <2>4. CASE x = w /\ ~LastItem(w)
    <3>1. pc'[w] = "reverse" /\ job'[w].i = i + 1
      BY <1>1, <2>4, WriteOnward DEF ExecutesOn
    <3>2. \A k \in DOMAIN Items[r] : k < i + 1 => k = i \/ k < i
      BY <1>1
    <3>3. \A k \in DOMAIN Items[r] : k < i + 1 => Restored(r, k)'
      BY <1>8, <1>9, <2>1, <2>4, <3>2, WriteFacts DEF ExecuteInv
    <3> QED
      BY <1>2, <1>4, <2>1, <2>4, <3>1, <3>3 DEF ExecuteInv, Comp
  <2> QED
    BY <2>2, <2>3, <2>4
<1>11. SettledInv(r)'
  <2>1. ~NeverReversed(r)'
    BY <1>1, WriteFacts DEF NeverReversed
  <2>2. SettledInv(r)
    BY DEF EInv, BundleInv
  <2>3. \A k \in DOMAIN Items[r] : Kept(r, k)' /\ component'[Comp(r, k)] # Absent
    <3>1. \A k \in DOMAIN Items[r] : component'[Comp(r, k)] # Absent
      BY <1>3, EInvFacts, TrackedFacts, WriteFacts DEF StepOf
    <3> QED
      BY <1>2, <1>3, <3>1, WriteFacts DEF Kept, Comp
  <2> QED
    BY <1>3, <1>9, <2>1, <2>2, <2>3, WriteFacts DEF SettledInv, Comp
<1>12. \A x \in Worker : PromoteInv(x, r)'
  BY <1>5 DEF PromoteInv
<1> QED
  BY <1>10, <1>11, <1>12 DEF BundleInv

LEMMA WriteComponentEInv ==
  ASSUME DistinctItems, EInv, IInv', NEW w \in Worker, WriteComponent(w)
  PROVE  EInv'
<1>1. ASSUME NEW r \in Release PROVE BundleInv(r)'
  <2>1. CASE MovesOn(w, r)
    BY <2>1, PromoteWrite, ExecuteWrite DEF MovesOn, Moves, PromotesOn, ExecutesOn
  <2>2. CASE ~MovesOn(w, r)
    <3>1. job[w].rel # r
      BY <2>2, WriteFacts, EInvFacts DEF MovesOn, Moves, JobOK
    <3>2. CASE job[w].comp \in Touches(r)
      <4>1. ~Tracked(r)'
        BY <3>1, <3>2, WriteFacts DEF Tracked
      <4> QED
        BY <4>1, UntrackedBundle
    <3>3. CASE job[w].comp \notin Touches(r)
      <4>1. \A j \in DOMAIN Items[r] : Comp(r, j) \in Component \ {job[w].comp}
        BY <3>3, EInvFacts, TrackedFacts DEF Touches, Comp
      <4>2. Leaves(r)
        BY <3>3, <4>1, WriteFacts, NeverReversedFact DEF Leaves
      <4> QED
        BY <2>2, <4>2, WriteFacts, OtherBundle
    <3> QED
      BY <3>2, <3>3
  <2> QED
    BY <2>1, <2>2
<1>2. \A x \in Worker : ItemInv(x)'
  BY WriteFacts, OtherItemInv
<1>3. ASSUME NEW r \in Release PROVE SnapshotInv(r)'
  BY WriteFacts, EInvFacts, TrackedFacts DEF EInv, SnapshotInv, StepOf, Comp
<1> QED
  BY <1>1, <1>2, <1>3 DEF EInv

-----------------------------------------------------------------------------

LEMMA InitEInv == Init => EInv
<1> SUFFICES ASSUME Init PROVE EInv
  OBVIOUS
<1>1. IInv
  BY InitIInv
<1>2. \A r \in Release : SnapshotInv(r) /\ ~Tracked(r)
  BY DEF Init, SnapshotInv, Tracked
<1>3. \A w \in Worker : ItemInv(w)
  BY FreshJobs DEF Init, ItemInv, Moves
<1>4. \A r \in Release : BundleInv(r)
  BY <1>2 DEF BundleInv, PromoteInv, ExecuteInv, SettledInv
<1> QED
  BY <1>1, <1>2, <1>3, <1>4 DEF EInv

LEMMA StutterEInv == EInv /\ UNCHANGED vars => EInv'
<1> SUFFICES ASSUME EInv, UNCHANGED vars PROVE EInv'
  OBVIOUS
<1>1. /\ UNCHANGED <<release, snapshot, component, record, pc, job, reversed, before>>
      /\ IInv'
  BY StutterIInv DEF EInv, vars, rows, seen
<1>2. \A r \in Release : SnapshotInv(r)'
  BY <1>1 DEF EInv, SnapshotInv, Comp
<1>3. \A w \in Worker : ItemInv(w)'
  BY <1>1 DEF EInv, ItemInv, Comp, ApplyPatch, UndoPatch
<1>4. ASSUME NEW r \in Release PROVE BundleInv(r)'
  <2>1. \A j \in DOMAIN Items[r] : /\ Applied(r, j)' <=> Applied(r, j)
                                   /\ Restored(r, j)' <=> Restored(r, j)
                                   /\ Kept(r, j)' <=> Kept(r, j)
                                   /\ Untouched(r, j)' <=> Untouched(r, j)
    BY <1>1, SameItem
  <2>2. BundleInv(r)
    BY DEF EInv
  <2>3. \A w \in Worker : PromoteInv(w, r)'
    BY <1>1, <2>1, <2>2 DEF BundleInv, PromoteInv, PromotesOn, Tracked, MovesOn
  <2>4. \A w \in Worker : ExecuteInv(w, r)'
    BY <1>1, <2>1, <2>2 DEF BundleInv, ExecuteInv, ExecutesOn, Tracked, Comp
  <2>5. SettledInv(r)'
    BY <1>1, <2>1, <2>2 DEF BundleInv, SettledInv, PromotesOn, Tracked, NeverReversed, Comp
  <2> QED
    BY <2>3, <2>4, <2>5 DEF BundleInv
<1> QED
  BY <1>1, <1>2, <1>3, <1>4 DEF EInv

LEMMA NextEInv ==
  ASSUME DistinctItems, EInv, [Next]_vars
  PROVE  EInv'
<1> SUFFICES ASSUME Next PROVE EInv'
  BY StutterEInv
<1>1. IInv'
  BY NextIInv DEF EInv
<1> PICK w \in Worker : Begin(w) \/ Continue(w)
  BY DEF Next
<1>2. CASE Begin(w)
  <2>1. CASE \E r \in Release : Promote(w, r)
    BY <1>1, <2>1, PromoteEInv
  <2>2. CASE \E b \in Rollback : Execute(w, b)
    BY <1>1, <2>2, ExecuteEInv
  <2> QED
    BY <1>1, <1>2, <2>1, <2>2, QuietBegin, QuietStep DEF Begin
<1>3. CASE Continue(w)
  BY <1>1, <1>3, QuietSubmission, QuietApproval, QuietHealth, QuietStep, ReadPreviousEInv,
     KeepSnapshotEInv, MarkPromotedEInv, ItemThrowsEInv, EndPromotionEInv, ReverseItemEInv,
     CompleteRecordEInv, EndRollbackEInv, FindComponentEInv, WriteComponentEInv,
     CutOffEInv DEF Continue
<1> QED
  BY <1>2, <1>3

\* The invariant holds throughout for bundles that name no component twice.
THEOREM EffectsInvariant ==
  ASSUME DistinctItems
  PROVE  Spec => []EInv
<1>1. EInv /\ [Next]_vars => EInv'
  BY NextEInv
<1> QED
  BY <1>1, InitEInv, PTL DEF Spec

\* While nothing else has written its components, a bundle that is promoted
\* and was never rolled back is what its components run.
THEOREM PromotedRuns ==
  ASSUME DistinctItems
  PROVE  Spec => []PromotedIsWhatRuns
<1>1. EInv => PromotedIsWhatRuns
  <2> SUFFICES ASSUME EInv, NEW r \in Release, before[r] # Absent, release[r] = "promoted",
                      \A b \in reversed : record[b].rel # r, NEW j \in DOMAIN Items[r]
               PROVE  Applied(r, j)
    BY DEF PromotedIsWhatRuns, Applied, Comp
  <2>1. Tracked(r) /\ NeverReversed(r) /\ BundleInv(r)
    BY DEF EInv, Tracked, NeverReversed
  <2>2. \A w \in Worker : ~PromotesOn(w, r)
    BY <2>1 DEF BundleInv, PromoteInv
  <2> QED
    BY <2>1, <2>2 DEF BundleInv, SettledInv
<1> QED
  BY <1>1, EffectsInvariant, PTL

\* A rolled back bundle has restored what each component was before it, and
\* undone what it added, if each row it found had a version; without one the
\* rollback leaves the version of the promotion.
THEOREM RollbackUndoes ==
  ASSUME DistinctItems
  PROVE  Spec => [](VersionedBefore => RollbackRestores)
<1>1. EInv => (VersionedBefore => RollbackRestores)
  <2> SUFFICES ASSUME EInv, VersionedBefore, NEW r \in Release, before[r] # Absent,
                      release[r] = "rolled_back", NEW j \in DOMAIN Items[r]
               PROVE  IF before[r][Comp(r, j)] # Absent
                      THEN component[Comp(r, j)] = before[r][Comp(r, j)]
                      ELSE component[Comp(r, j)].status = StatusUndone(Items[r][j])
    BY DEF RollbackRestores, Comp
  <2>1. Tracked(r) /\ BundleInv(r)
    BY DEF EInv, Tracked
  <2>2. \A w \in Worker : ~PromotesOn(w, r)
    BY <2>1 DEF BundleInv, PromoteInv
  <2>3. Restored(r, j)
    BY <2>1, <2>2 DEF BundleInv, SettledInv
  <2>4. Comp(r, j) \in Touches(r)
    BY DEF Touches, Comp
  <2> QED
    BY <2>3, <2>4 DEF Restored, VersionedBefore
<1> QED
  BY <1>1, EffectsInvariant, PTL

=============================================================================
