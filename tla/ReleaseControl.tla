--------------------------- MODULE ReleaseControl ---------------------------
(***************************************************************************)
(* Release control of Mission Control: release bundles are validated,      *)
(* submitted, approved, promoted onto runtime components and rolled back,  *)
(* while kill switches and health sweeps write the same component rows.    *)
(*                                                                         *)
(* As everywhere in this system a request holds no lock and no transaction *)
(* across an await.  A Worker is one request in flight; it takes one job   *)
(* after another, so a run has any number of requests of which at most     *)
(* |Worker| overlap.  pc[w] is the store operation worker w performs next  *)
(* and job[w] what its handler holds in local variables.  One environment  *)
(* is modelled: the one every bundle targets, which is active.  The        *)
(* reverse bundle a rollback request stores, audit events, traces, health  *)
(* records and incidents are written and never read here: left out.        *)
(***************************************************************************)
EXTENDS ApprovalPolicy, Naturals, Sequences, FiniteSets

CONSTANTS
    Worker,             \* requests that may be in flight at once
    Release,            \* release bundles
    Production,         \* the bundles that target a production environment
    Component,          \* keys of runtime components
    Items,              \* the items of each bundle, in order
    Version, NoVersion, \* version numbers, and null
    Absent,             \* no row, no snapshot
    Seeded,             \* the component rows there are at the start
    Rollback,           \* ids rollback records may get
    Gate,               \* ids approval requests may get
    ReleasePolicy,      \* the row of prod_release_requires_approval
    RollbackPolicy,     \* the row of rollback_requires_approval
    KillSwitchGated,    \* what kill_switch_requires_approval may say when it is
                        \* read: an import may replace the row between calls
    Jobs,               \* bound: the kinds of request each worker takes
    Health,             \* bound: what a probe may find, besides unknown
    Faulty              \* may a store operation throw or the server stop?

VersionOrNull == Version \cup {NoVersion}
ComponentStatus == {"enabled", "disabled", "degraded", "failed"}
RuntimeComponent == [status: ComponentStatus, version: VersionOrNull]
ReleaseBundleItem ==
    [component: Component, version: VersionOrNull,
     change: {"create", "update", "enable", "disable", "delete"},
     disabled: BOOLEAN]     \* payload.disabled === true

ASSUME ReleaseAssumption ==
    /\ Production \subseteq Release
    /\ Items \in [Release -> Seq(ReleaseBundleItem)]
    /\ \A r \in Release : Items[r] # <<>>
    \* An approval request stores its subject's type beside the id.
    /\ Release \cap Rollback = {} /\ Component \cap (Release \cup Rollback) = {}
    /\ "none" \notin Release \cup Rollback \cup Component
    /\ NoVersion \notin Version
    /\ Absent \notin RuntimeComponent
    /\ Seeded \in [Component -> RuntimeComponent \cup {Absent}]
    /\ {ReleasePolicy, RollbackPolicy} \subseteq ApprovalPolicy
    /\ KillSwitchGated \subseteq BOOLEAN
    /\ Jobs \in [Worker -> SUBSET {"submit", "decide", "promote", "rollback", "execute",
                                   "kill", "unkill", "sweep"}]
    /\ Health \subseteq {"healthy", "degraded", "failed"}
    /\ Faulty \in BOOLEAN

VARIABLES
    release,    \* status of each bundle
    snapshot,   \* previousSnapshot of each item of each bundle
    component,  \* runtime component rows
    switch,     \* kill switch rows: "none", "on" or "off"
    gate,       \* approval requests: subject and state
    record,     \* rollback records: bundle, emergency and status
    pc, job,    \* the requests in flight
    (***********************************************************************)
    (* Observations, read by no action's guard                             *)
    (***********************************************************************)
    sanctioned, \* subjects for which a reviewer's approval was written
    touched,    \* bundles of which an item was written to a component
    reversed,   \* rollback records whose execution began
    before,     \* the components when each bundle's last promotion began, or
                \* Absent once anything else has written one of them
    underKill   \* workers that began under an enabled switch of a component
                \* their bundle would enable, enabled ever since

rows == <<release, snapshot, component, switch, gate, record>>
seen == <<sanctioned, touched, reversed, before, underKill>>
vars == <<rows, pc, job, seen>>

\* The local variables of a handler; a finished worker holds none.
NoJob ==
    [kind |-> "none", rel |-> "none", rec |-> "none", gate |-> "none", verdict |-> "none",
     i |-> 1, blocked |-> FALSE, snaps |-> <<>>, todo |-> {},
     comp |-> "none", found |-> Absent, patch |-> Absent]

Job(kind) == [NoJob EXCEPT !.kind = kind]
OnRelease(kind, r) == [Job(kind) EXCEPT !.rel = r]
OnComponent(kind, c) == [Job(kind) EXCEPT !.comp = c]

\* Worker w goes on to the store operation next with local state j.
Goto(w, next, j) ==
    /\ pc' = [pc EXCEPT ![w] = next]
    /\ job' = [job EXCEPT ![w] = j]

Finish(w) == Goto(w, "idle", NoJob)

\* Worker w takes up a new job.
Take(w, next, j) == pc[w] = "idle" /\ j.kind \in Jobs[w] /\ Goto(w, next, j)

Item(w) == Items[job[w].rel][job[w].i]
LastItem(w) == job[w].i = Len(Items[job[w].rel])
Touches(r) == {Items[r][i].component : i \in DOMAIN Items[r]}

\* An item leaves its component disabled when its change or its payload says so;
\* the kill switch guard and the rollback look at the change only.
StatusApplied(item) ==
    IF item.change = "disable" \/ item.disabled THEN "disabled" ELSE "enabled"

\* What a rollback writes for an item that has no snapshot.
StatusUndone(item) == IF item.change = "disable" THEN "enabled" ELSE "disabled"

HasEnabledSwitch(r) ==
    \E i \in DOMAIN Items[r] :
        Items[r][i].change # "disable" /\ switch[Items[r][i].component] = "on"

NoteKill(w, r) ==
    underKill' = IF HasEnabledSwitch(r) THEN underKill \cup {w} ELSE underKill \ {w}

Init ==
    /\ release = [r \in Release |-> "draft"]
    /\ snapshot = [r \in Release |-> [i \in DOMAIN Items[r] |-> Absent]]
    /\ component = Seeded
    /\ switch = [c \in Component |-> "none"]
    /\ gate = [g \in Gate |-> [subject |-> "none", state |-> "absent"]]
    /\ record = [b \in Rollback |-> [rel |-> "none", emergency |-> FALSE, status |-> "absent"]]
    /\ pc = [w \in Worker |-> "idle"]
    /\ job = [w \in Worker |-> NoJob]
    /\ sanctioned = {}
    /\ touched = {}
    /\ reversed = {}
    /\ before = [r \in Release |-> Absent]
    /\ underKill = {}

-----------------------------------------------------------------------------
(* The component rows every service writes: look up, then write.           *)

\* A patch with status only leaves the version alone; an upsert takes its own
\* version or, when that is null, the version it found.  A row that another
\* request inserted after the lookup stays the one every lookup finds.
Patched(found, current, patch) ==
    IF found = Absent
    THEN IF current = Absent THEN [status |-> patch.status, version |-> patch.version]
         ELSE current
    ELSE [status |-> patch.status,
          version |-> IF patch.statusOnly THEN current.version
                      ELSE IF patch.version # NoVersion THEN patch.version
                      ELSE found.version]

SetStatus(status) == [status |-> status, version |-> NoVersion, statusOnly |-> TRUE]
Upsert(status, version) == [status |-> status, version |-> version, statusOnly |-> FALSE]

\* Worker w goes on to write patch to the row of component c.
GotoWrite(w, c, patch) == Goto(w, "find", [job[w] EXCEPT !.comp = c, !.patch = patch])

FindComponent(w) ==
    /\ pc[w] = "find"
    /\ Goto(w, "write", [job[w] EXCEPT !.found = component[job[w].comp]])
    /\ UNCHANGED <<rows, seen>>

\* The local state of w without what it held for one component.
Cleared(w) == [job[w] EXCEPT !.comp = "none", !.found = Absent, !.patch = Absent]

\* Where a worker goes on to after a component write: the next item of its
\* bundle, the next component of its sweep, or the end of its job.
Onward(w, first, last) ==
    LET j == Cleared(w)
    IN  IF LastItem(w)
        THEN Goto(w, last, [j EXCEPT !.i = 1])
        ELSE Goto(w, first, [j EXCEPT !.i = @ + 1])

WriteComponent(w) ==
    LET c == job[w].comp
    IN  /\ pc[w] = "write"
        /\ component' = [component EXCEPT ![c] = Patched(job[w].found, @, job[w].patch)]
        /\ CASE job[w].kind = "promote" -> Onward(w, "previous", "promoted")
             [] job[w].kind = "execute" -> Onward(w, "reverse", "complete")
             [] job[w].kind = "sweep" -> Goto(w, "probe", Cleared(w))
             [] OTHER -> Finish(w)
        /\ touched' = IF job[w].kind = "promote" THEN touched \cup {job[w].rel} ELSE touched
        /\ before' = [r \in Release |->
                        IF c \in Touches(r) /\ job[w].rel # r THEN Absent ELSE before[r]]
        /\ UNCHANGED <<release, snapshot, switch, gate, record,
                       sanctioned, reversed, underKill>>

-----------------------------------------------------------------------------
(* submitReleaseForApproval: validate, then ask for or grant approval.     *)

FreeGate == {g \in Gate : gate[g].state = "absent"}

\* Bound: a job that may create an approval request starts only while there
\* is an id left for it.
MayRaise ==
    Cardinality({w \in Worker : job[w].kind \in {"submit", "rollback"} \/ pc[w] = "raise"})
        < Cardinality(FreeGate)

\* Nothing is asked of the status the bundle is in.
Submit(w, r) ==
    /\ MayRaise
    /\ Take(w, "check", OnRelease("submit", r))
    /\ NoteKill(w, r)
    /\ UNCHANGED <<rows, sanctioned, touched, reversed, before>>

\* Mutated: only enabling a switched off component is refused.
SwitchBlocksEnable(item) == item.change = "enable" /\ switch[item.component] = "on"

\* Mutated: a component is switched off if its row says so.
SwitchBlocksShown(item) ==
    item.change # "disable" /\ component[item.component].status = "disabled"

\* A switched off component blocks every change but its disabling.
SwitchBlocks(item) == item.change # "disable" /\ switch[item.component] = "on"

CheckItem(w) ==
    LET blocked == job[w].blocked \/ SwitchBlocks(Item(w))
    IN  /\ pc[w] = "check"
        /\ Goto(w, IF LastItem(w) THEN "settle" ELSE "check",
                [job[w] EXCEPT !.blocked = blocked, !.i = IF LastItem(w) THEN 1 ELSE @ + 1])
        /\ UNCHANGED <<rows, seen>>

\* Every other blocker (a missing item, a destructive change without policy,
\* a failed evaluation) is something a validation may or may not find.
SettleValidation(w) ==
    /\ pc[w] = "settle"
    /\ \E found \in BOOLEAN :
        Goto(w, IF found \/ job[w].blocked THEN "reset"
                ELSE IF job[w].rel \in Production THEN "request" ELSE "autoapprove",
             job[w])
    /\ UNCHANGED <<rows, seen>>

\* The bundle of worker w gets status st, whatever status it had.
SetRelease(w, st) == release' = [release EXCEPT ![job[w].rel] = st]

ReturnToNothing(w) ==                                             \* mutated
    /\ pc[w] = "reset"
    /\ SetRelease(w, "blocked")
    /\ Finish(w)
    /\ UNCHANGED <<snapshot, component, switch, gate, record, seen>>

ReturnToDraft(w) ==
    /\ pc[w] = "reset"
    /\ SetRelease(w, "draft")
    /\ Finish(w)
    /\ UNCHANGED <<snapshot, component, switch, gate, record, seen>>

\* Non-production: markReleaseApproved, then updateReleaseStatus.
AutoApprove(w) ==
    /\ pc[w] = "autoapprove"
    /\ SetRelease(w, "approved")
    /\ Goto(w, "restate", job[w])
    /\ UNCHANGED <<snapshot, component, switch, gate, record, seen>>

RestateApproved(w) ==
    /\ pc[w] = "restate"
    /\ SetRelease(w, "approved")
    /\ Finish(w)
    /\ UNCHANGED <<snapshot, component, switch, gate, record, seen>>

-----------------------------------------------------------------------------
(* createApprovalForSubject, for a bundle or for a rollback record.        *)

SubjectOf(w) ==
    CASE job[w].kind = "submit" -> job[w].rel
      [] job[w].kind = "rollback" -> job[w].rec
      [] OTHER -> job[w].comp

ApprovalRequired(w) ==
    IF job[w].kind = "submit"
    THEN evaluateApprovalPolicy(ReleasePolicy, "release_bundle", FALSE).approvalRequired
    ELSE evaluateApprovalPolicy(RollbackPolicy, "rollback",
                                record[job[w].rec].emergency).approvalRequired

\* A pending request for the subject is used again.
LookUpPending(w) ==
    /\ pc[w] = "request"
    /\ Goto(w, IF \/ ~ApprovalRequired(w)
                  \/ \E g \in Gate : gate[g] = [subject |-> SubjectOf(w), state |-> "pending"]
               THEN "pend" ELSE "raise",
            job[w])
    /\ UNCHANGED <<rows, seen>>

RaiseRequest(w) ==
    /\ pc[w] = "raise"
    /\ \E g \in FreeGate :
        gate' = [gate EXCEPT ![g] = [subject |-> SubjectOf(w), state |-> "pending"]]
    /\ IF job[w].kind = "kill" THEN Finish(w) ELSE Goto(w, "pend", job[w])
    /\ UNCHANGED <<release, snapshot, component, switch, record, seen>>

\* The subject is made to wait after the request can already be decided.
AwaitDecision(w) ==
    /\ pc[w] = "pend"
    /\ IF job[w].kind = "submit"
       THEN SetRelease(w, "pending_approval") /\ UNCHANGED record
       ELSE /\ record' = [record EXCEPT ![job[w].rec].status =
                            IF ApprovalRequired(w) THEN "pending_approval" ELSE "approved"]
            /\ UNCHANGED release
    /\ Finish(w)
    /\ UNCHANGED <<snapshot, component, switch, gate, seen>>

-----------------------------------------------------------------------------
(* approveRequest and rejectRequest.                                       *)

\* decideApproval reads the request again and refuses a decided one; that read
\* and the write of the verdict are two steps.
BeginDecision(w, g, verdict) ==
    /\ gate[g].state = "pending"
    /\ Take(w, "decide", [Job("decide") EXCEPT !.gate = g, !.verdict = verdict])
    /\ UNCHANGED <<rows, seen>>

Decide(w) ==
    LET g == job[w].gate
    IN  /\ pc[w] = "decide"
        /\ gate' = [gate EXCEPT ![g].state = job[w].verdict]
        /\ Goto(w, "advance", job[w])
        /\ sanctioned' = IF job[w].verdict = "approved"
                         THEN sanctioned \cup {gate[g].subject} ELSE sanctioned
        /\ UNCHANGED <<release, snapshot, component, switch, record,
                       touched, reversed, before, underKill>>

\* The verdict reaches the subject, whatever status that has by now.  A
\* rejection leaves a bundle as it is; a kill_switch request moves nothing.
AdvanceSubject(w) ==
    LET subject == gate[job[w].gate].subject
        verdict == job[w].verdict
    IN  /\ pc[w] = "advance"
        /\ release' = IF subject \in Release /\ verdict = "approved"
                      THEN [release EXCEPT ![subject] = "approved"] ELSE release
        /\ record' = IF subject \in Rollback
                     THEN [record EXCEPT ![subject].status = verdict] ELSE record
        /\ Finish(w)
        /\ UNCHANGED <<snapshot, component, switch, gate, seen>>

-----------------------------------------------------------------------------
(* promoteRelease.                                                         *)

\* Mutated: the production gate only refuses what a reviewer has yet to see.
PromotableUnlessPending(r) == release[r] \in {"draft", "approved"}

\* The fail-closed production gate; elsewhere only final states are refused.
Promotable(r) ==
    IF r \in Production
    THEN release[r] = "approved"
    ELSE release[r] \notin {"promoted", "failed", "rolled_back"}

OtherJobOn(w, r, kinds) ==
    \E v \in Worker \ {w} : job[v].rel = r /\ job[v].kind \in kinds

Promote(w, r) ==
    /\ Promotable(r)
    /\ Take(w, "previous", OnRelease("promote", r))
    /\ before' = [before EXCEPT ![r] = IF OtherJobOn(w, r, {"promote", "execute"})
                                      THEN Absent ELSE component]
    /\ NoteKill(w, r)
    /\ UNCHANGED <<rows, sanctioned, touched, reversed>>

\* applyItem reads the component for the snapshot ...
ReadPrevious(w) ==
    LET c == Item(w).component
        j == [job[w] EXCEPT !.comp = c, !.found = component[c],
                            !.patch = Upsert(StatusApplied(Item(w)), Item(w).version)]
    IN  /\ pc[w] = "previous"
        /\ Goto(w, IF component[c] = Absent THEN "find" ELSE "keep", j)
        /\ UNCHANGED <<rows, seen>>

SkipSnapshot(w) ==                                                \* mutated
    /\ pc[w] = "keep"
    /\ Goto(w, "find", job[w])
    /\ UNCHANGED <<rows, seen>>

\* ... keeps the snapshot if there is one, and upserts the component.
KeepSnapshot(w) ==
    /\ pc[w] = "keep"
    /\ snapshot' = [snapshot EXCEPT ![job[w].rel][job[w].i] = job[w].found]
    /\ Goto(w, "find", job[w])
    /\ UNCHANGED <<release, component, switch, gate, record, seen>>

MarkPromoted(w) ==
    /\ pc[w] = "promoted"
    /\ SetRelease(w, "promoted")
    /\ Finish(w)
    /\ UNCHANGED <<snapshot, component, switch, gate, record, seen>>

\* An exception while items are applied or reversed; what was written stays.
ItemThrows(w) ==
    /\ Faulty
    /\ job[w].kind \in {"promote", "execute"}
    /\ pc[w] \in {"previous", "keep", "reverse", "find", "write"}
    /\ Goto(w, IF job[w].kind = "promote" THEN "unapplied" ELSE "unreversed",
            [Cleared(w) EXCEPT !.i = 1])
    /\ UNCHANGED <<rows, seen>>

MarkFailedAsPromoted(w) ==                                        \* mutated
    /\ pc[w] = "unapplied"
    /\ SetRelease(w, "promoted")
    /\ Finish(w)
    /\ UNCHANGED <<snapshot, component, switch, gate, record, seen>>

MarkFailed(w) ==
    /\ pc[w] = "unapplied"
    /\ SetRelease(w, "failed")
    /\ Finish(w)
    /\ before' = [before EXCEPT ![job[w].rel] = Absent]
    /\ UNCHANGED <<snapshot, component, switch, gate, record,
                   sanctioned, touched, reversed, underKill>>

-----------------------------------------------------------------------------
(* requestRollback and executeRollback.                                    *)

FreeRecord == {b \in Rollback : record[b].status = "absent"}

\* Bound: a rollback is requested only while there is an id left for it.
MayRecord == Cardinality({w \in Worker : pc[w] = "record"}) < Cardinality(FreeRecord)

RequestRollback(w, r, emergency) ==
    /\ MayRaise /\ MayRecord
    /\ release[r] = "promoted"
    /\ Take(w, "record", [OnRelease("rollback", r) EXCEPT !.blocked = emergency])
    /\ UNCHANGED <<rows, seen>>

CreateRollbackRecord(w) ==
    /\ pc[w] = "record"
    /\ \E b \in FreeRecord :
        /\ record' = [record EXCEPT ![b] = [rel |-> job[w].rel, emergency |-> job[w].blocked,
                                            status |-> "requested"]]
        /\ Goto(w, "request", [job[w] EXCEPT !.rec = b])
    /\ UNCHANGED <<release, snapshot, component, switch, gate, seen>>

\* Mutated: only a rejected or finished record is refused.
ExecutableUnlessRejected(b) == record[b].status \in {"requested", "pending_approval", "approved"}

\* Only the record is asked; the bundle may be in any status by now.  Record,
\* bundle and items are read in one step.
Executable(b) == record[b].status = "approved"

Execute(w, b) ==
    LET r == record[b].rel
    IN  /\ Executable(b)
        /\ Take(w, "reverse",
                [OnRelease("execute", r) EXCEPT !.rec = b, !.snaps = snapshot[r]])
        /\ reversed' = reversed \cup {b}
        /\ before' = [before EXCEPT ![r] = IF OtherJobOn(w, r, {"promote"}) THEN Absent ELSE @]
        /\ UNCHANGED <<rows, sanctioned, touched, underKill>>

\* reverseItem: the snapshot if there is one, else the opposite status.
\* Items are reversed in the order in which they were applied.
ReverseItem(w) ==
    LET snap == job[w].snaps[job[w].i]
    IN  /\ pc[w] = "reverse"
        /\ GotoWrite(w, Item(w).component,
                     IF snap = Absent THEN SetStatus(StatusUndone(Item(w)))
                     ELSE Upsert(snap.status, snap.version))
        /\ UNCHANGED <<rows, seen>>

\* The record of worker w gets status st, whatever status it had.
SetRecord(w, st) == record' = [record EXCEPT ![job[w].rec].status = st]

CompleteRecord(w) ==
    /\ pc[w] = "complete"
    /\ SetRecord(w, "completed")
    /\ Goto(w, "rolledback", job[w])
    /\ UNCHANGED <<release, snapshot, component, switch, gate, seen>>

MarkRolledBack(w) ==
    /\ pc[w] = "rolledback"
    /\ SetRelease(w, "rolled_back")
    /\ Finish(w)
    /\ UNCHANGED <<snapshot, component, switch, gate, record, seen>>

FailRecord(w) ==
    /\ pc[w] = "unreversed"
    /\ SetRecord(w, "failed")
    /\ Finish(w)
    /\ UNCHANGED <<release, snapshot, component, switch, gate, seen>>

-----------------------------------------------------------------------------
(* Kill switches and health sweeps.                                        *)

\* With a policy that asks for approval the switch is only requested.
EnableKillSwitch(w, c) ==
    /\ \E gated \in KillSwitchGated :
        /\ gated => MayRaise
        /\ Take(w, IF gated THEN "raise" ELSE "lookup", OnComponent("kill", c))
    /\ UNCHANGED <<rows, seen>>

DisableKillSwitch(w, c) ==
    /\ switch[c] # "none"
    /\ Take(w, "throw", OnComponent("unkill", c))
    /\ UNCHANGED <<rows, seen>>

LookUpSwitch(w) ==
    /\ pc[w] = "lookup"
    /\ Goto(w, "throw", [job[w] EXCEPT !.blocked = switch[job[w].comp] # "none"])
    /\ UNCHANGED <<rows, seen>>

\* Updates the row found; a row inserted after another request inserted one is
\* shadowed by it.
WriteSwitch(w) ==
    LET c == job[w].comp
        on == job[w].kind = "kill"
    IN  /\ pc[w] = "throw"
        /\ switch' = [switch EXCEPT ![c] =
                        IF ~on THEN "off"
                        ELSE IF ~job[w].blocked /\ @ # "none" THEN @ ELSE "on"]
        /\ underKill' = IF on THEN underKill
                        ELSE {v \in underKill : job[v].rel # "none" => c \notin Touches(job[v].rel)}
        /\ GotoWrite(w, c, SetStatus(IF on THEN "disabled" ELSE "enabled"))
        /\ UNCHANGED <<release, snapshot, component, gate, record,
                       sanctioned, touched, reversed, before>>

\* runAllHealthChecks lists the components once and skips the disabled ones.
Sweep(w) ==
    /\ Take(w, "probe",
            [Job("sweep") EXCEPT !.todo =
                {c \in Component : component[c] # Absent /\ component[c].status # "disabled"}])
    /\ UNCHANGED <<rows, seen>>

Probed == [healthy |-> "enabled", degraded |-> "degraded", failed |-> "failed"]

\* The next component is probed; "unknown" writes nothing.  The order of the
\* list does not matter.
Probe(w) ==
    /\ pc[w] = "probe"
    /\ \E c \in job[w].todo :
        \/ \E health \in Health :
            Goto(w, "find", [job[w] EXCEPT !.todo = @ \ {c}, !.comp = c,
                                           !.patch = SetStatus(Probed[health])])
        \/ Goto(w, "probe", [job[w] EXCEPT !.todo = @ \ {c}])
    /\ UNCHANGED <<rows, seen>>

SweepDone(w) ==
    /\ pc[w] = "probe"
    /\ job[w].todo = {}
    /\ Finish(w)
    /\ UNCHANGED <<rows, seen>>

\* The server stops or a store operation throws outside the item loops.
CutOff(w) ==
    /\ Faulty
    /\ pc[w] # "idle"
    /\ Finish(w)
    /\ before' = IF job[w].kind = "promote"
                 THEN [before EXCEPT ![job[w].rel] = Absent] ELSE before
    /\ UNCHANGED <<rows, sanctioned, touched, reversed, underKill>>

-----------------------------------------------------------------------------

Begin(w) ==
    \/ \E r \in Release : Submit(w, r) \/ Promote(w, r)
    \/ \E r \in Release, emergency \in BOOLEAN : RequestRollback(w, r, emergency)
    \/ \E b \in Rollback : Execute(w, b)
    \/ \E g \in Gate, verdict \in {"approved", "rejected"} : BeginDecision(w, g, verdict)
    \/ \E c \in Component : EnableKillSwitch(w, c) \/ DisableKillSwitch(w, c)
    \/ Sweep(w)

Continue(w) ==
    \/ CheckItem(w) \/ SettleValidation(w) \/ ReturnToDraft(w)
    \/ AutoApprove(w) \/ RestateApproved(w)
    \/ LookUpPending(w) \/ RaiseRequest(w) \/ AwaitDecision(w)
    \/ Decide(w) \/ AdvanceSubject(w)
    \/ ReadPrevious(w) \/ KeepSnapshot(w) \/ MarkPromoted(w)
    \/ ItemThrows(w) \/ MarkFailed(w)
    \/ CreateRollbackRecord(w) \/ ReverseItem(w)
    \/ CompleteRecord(w) \/ MarkRolledBack(w) \/ FailRecord(w)
    \/ LookUpSwitch(w) \/ WriteSwitch(w)
    \/ Probe(w) \/ SweepDone(w)
    \/ FindComponent(w) \/ WriteComponent(w)
    \/ CutOff(w)

Next == \E w \in Worker : Begin(w) \/ Continue(w)

Spec == Init /\ [][Next]_vars

-----------------------------------------------------------------------------
(* What release control promises.                                          *)

ReleaseStatus == {"draft", "pending_approval", "approved", "promoted", "failed", "rolled_back"}
RollbackStatus == {"absent", "requested", "pending_approval", "approved", "rejected",
                   "completed", "failed"}
JobPhase == {"idle", "check", "settle", "reset", "autoapprove", "restate", "request", "raise",
             "pend", "decide", "advance", "previous", "keep", "find", "write", "promoted",
             "unapplied", "record", "reverse", "complete", "rolledback", "unreversed",
             "lookup", "throw", "probe"}

\* Type invariant of the rows and of the phases of the requests in flight.
TypeOK ==
    /\ release \in [Release -> ReleaseStatus]
    /\ \A r \in Release : snapshot[r] \in [DOMAIN Items[r] -> RuntimeComponent \cup {Absent}]
    /\ component \in [Component -> RuntimeComponent \cup {Absent}]
    /\ switch \in [Component -> {"none", "on", "off"}]
    /\ gate \in [Gate -> [subject: Release \cup Rollback \cup Component \cup {"none"},
                          state: {"absent", "pending", "approved", "rejected"}]]
    /\ record \in [Rollback -> [rel: Release \cup {"none"}, emergency: BOOLEAN,
                                status: RollbackStatus]]
    /\ pc \in [Worker -> JobPhase]
    /\ sanctioned \subseteq Release \cup Rollback \cup Component
    /\ touched \subseteq Release
    /\ reversed \subseteq Rollback
    /\ before \in [Release -> [Component -> RuntimeComponent \cup {Absent}] \cup {Absent}]
    /\ underKill \subseteq Worker

\* "production release requires approval before promotion": no item of a
\* production bundle reaches a component unless a reviewer approved a request
\* for that bundle, however submissions, decisions and promotions interleave.
ProductionChangesAreApproved == touched \cap Production \subseteq sanctioned

\* executeRollback begins only for a record a reviewer approved, or an
\* emergency that the policy explicitly lets through.
RollbacksAreApproved ==
    \A b \in reversed :
        \/ b \in sanctioned
        \/ /\ RollbackPolicy.present
           /\ \/ RollbackPolicy.allowEmergencyBypass /\ record[b].emergency
              \/ ~RollbackPolicy.requireApproval /\ ~RollbackPolicy.ruleMatches

\* "no fake success": while nothing else has written its components, a bundle
\* that is promoted and not being rolled back is what its components run.
PromotedIsWhatRuns ==
    \A r \in {q \in Release : before[q] # Absent} :
        release[r] = "promoted" /\ (\A b \in reversed : record[b].rel # r) =>
            \A i \in DOMAIN Items[r] :
                LET row == component[Items[r][i].component]
                IN  /\ row # Absent
                    /\ row.status = StatusApplied(Items[r][i])
                    /\ Items[r][i].version \in {NoVersion, row.version}

\* Rolling back restores what each component was before the promotion, and
\* disables what the promotion added, as long as nothing else wrote them.
RollbackRestores ==
    \A r \in {q \in Release : before[q] # Absent} : release[r] = "rolled_back" =>
        \A i \in DOMAIN Items[r] :
            LET c == Items[r][i].component
            IN  IF before[r][c] # Absent
                THEN component[c] = before[r][c]
                ELSE component[c].status = StatusUndone(Items[r][i])

\* A submission that began under an enabled kill switch of a component its
\* bundle would enable never asks for, and never grants, an approval.
SubmissionStopsAtKill ==
    \A w \in underKill : job[w].kind = "submit" => pc[w] \in {"check", "settle", "reset"}

-----------------------------------------------------------------------------
(* What the comments say and release control does not keep.                *)

\* release-promotion-service.ts: "a re-validation with blockers aborts".  A
\* promotion begun under an enabled switch of a component it would enable
\* runs to its end all the same: nothing is validated again.
PromotionRevalidates ==
    \A w \in underKill : job[w].kind = "promote" => pc[w] # "promoted"

\* health-service.ts: "never override a kill-switch disable".  The sweep may
\* have listed the component before the switch disabled it.
HealthKeepsKill ==
    [][\A w \in Worker :
        (pc[w] = "write" /\ job[w].kind = "sweep" /\ component' # component
            /\ component[job[w].comp].status = "disabled") => switch[job[w].comp] # "on"]_vars

=============================================================================
