---------------------------- MODULE ActionEngine ----------------------------
(***************************************************************************)
(* The action execution engine of Mission Control with the two human       *)
(* gates in front of it: approval requests (policy engine) and review      *)
(* cases, and with the kill switch.                                        *)
(*                                                                         *)
(* The service is asynchronous code over a document store and holds no     *)
(* lock and no transaction across an await, so requests interleave between *)
(* any two store operations.  A process is one request:                    *)
(*   a Call      one executeAction(...), which owns at most one row of     *)
(*               actionExecutions, named after the call;                   *)
(*   a Decision  one reviewer's approveRequest, rejectRequest or           *)
(*               resolve-review-case request on the row of one call.       *)
(* pc[p] is the store operation process p performs next.  Consecutive      *)
(* reads of rows the model never changes (policies, access lists) are one  *)
(* step.  What a client asks and what a reviewer decides are fixed in the  *)
(* initial state and otherwise unconstrained.                              *)
(***************************************************************************)
EXTENDS ApprovalPolicy

CONSTANTS
    Call,           \* executeAction requests
    Decision,       \* reviewers' requests
    Action,         \* registered action keys
    Key,            \* idempotency keys, explicit or derived
    PolicyGated,    \* actions whose handler names an approvalPolicyKey
    ReviewGated,    \* actions whose handler sets requiresApproval
    Policies,       \* the policy row each action's key resolves to
    Requests,       \* the inputs clients send
    Faulty          \* the requests an exception or a server crash may cut off

Process == Call \cup Decision

ExecuteActionInput ==
    [action: Action, key: Key, force: BOOLEAN, exempt: BOOLEAN, allowed: BOOLEAN]

ASSUME EngineAssumption ==
    /\ Call \cap Decision = {}
    /\ Policies \in [Action -> ApprovalPolicy]
    /\ Requests \subseteq ExecuteActionInput

VARIABLES
    req,        \* what each call asks; "allowed" stands for the permission,
                \* object access and precondition checks
    target,     \* the call whose row each decision is about
    vote,       \* the verdict of each decision
    pc,         \* the next store operation of each process
    status,     \* actionExecutions: status per call, "absent" before insert
    approval,   \* approvalRequests: the request gating each row, or "none"
    review,     \* reviewCases: the case gating each row, or "none"
    killed,     \* the enabled flag of each action's kill switch
    (***********************************************************************)
    (* Observations, read by no action's guard                             *)
    (***********************************************************************)
    granted,    \* decisions that wrote an approval
    applied,    \* processes whose handler run took effect
    contested,  \* calls on which two decisions were in flight at once
    raced,      \* keys two unforced calls passed the lookup of at once
    underKill   \* processes entered under an enabled kill switch that has
                \* stayed enabled since

inputs == <<req, target, vote>>
rows == <<status, approval, review>>
seen == <<granted, applied, contested, raced, underKill>>
vars == <<inputs, pc, rows, killed, seen>>

\* The call whose row process p works on.
Row(p) == IF p \in Call THEN p ELSE target[p]

\* Where process p goes on to; the rest of its step is in the action.
Goto(p, next) == pc' = [pc EXCEPT ![p] = next]

InFlight(p) == pc[p] \notin {"idle", "done", "dead"}

\* A row in one of these states answers a later call with the same key.
LiveButNotAwaiting == {"queued", "running", "completed"}          \* mutated Live
Live == {"queued", "running", "completed", "awaiting_approval"}

\* The kill switch guard: one enabled row refuses the component.
IgnoresSwitch(a) == FALSE                                         \* mutated
isKilled(a) == killed[a]

\* A request can be decided while it is pending.
DecidedTwice(c) == approval[c] # "none"                           \* mutated
Undecided(c) == approval[c] = "pending"

ApprovalRequired(a) ==
    evaluateApprovalPolicy(Policies[a], "action_execution", FALSE).approvalRequired

\* The gate executeAction routes an admitted call to.
Route(r) ==
    IF r.action \in PolicyGated /\ ~r.exempt /\ ApprovalRequired(r.action)
    THEN "request"
    ELSE IF r.action \in ReviewGated /\ ~r.exempt THEN "open" ELSE "start"

\* Only a row that still waits may be released.
AwaitingUnchecked(c) == status[c] # "absent"                      \* mutated
AwaitingQueued(c) == status[c] = "queued"                         \* mutated
Awaiting(c) == status[c] = "awaiting_approval"

Init ==
    /\ req \in [Call -> Requests]
    /\ target \in [Decision -> Call]
    /\ vote \in [Decision -> {"approved", "rejected", "resolved"}]
    /\ pc = [p \in Process |-> "idle"]
    /\ status = [c \in Call |-> "absent"]
    /\ approval = [c \in Call |-> "none"]
    /\ review = [c \in Call |-> "none"]
    /\ killed = [a \in Action |-> FALSE]
    /\ granted = {}
    /\ applied = {}
    /\ contested = {}
    /\ raced = {}
    /\ underKill = {}

-----------------------------------------------------------------------------
(* Entering a request.                                                     *)

\* The observation made when process p starts: was the switch on already?
NoteKill(p) ==
    underKill' = IF killed[req[Row(p)].action]
                 THEN underKill \cup {p} ELSE underKill

\* The row the idempotency lookup of call c would answer with.
Prior(c) == {d \in Call : req[d].key = req[c].key /\ status[d] \in Live}

\* The lookup finds a live row: it is returned and nothing is written.
Deduplicate(c) ==
    /\ pc[c] = "idle"
    /\ ~req[c].force
    /\ Prior(c) # {}
    /\ Goto(c, "done")
    /\ NoteKill(c)
    /\ UNCHANGED <<inputs, rows, killed, granted, applied, contested, raced>>

\* The lookup finds none, or is skipped.
PassLookup(c) ==
    /\ pc[c] = "idle"
    /\ req[c].force \/ Prior(c) = {}
    /\ Goto(c, "insert")
    /\ NoteKill(c)
    /\ raced' = IF \E d \in Call \ {c} : /\ pc[d] = "insert"
                                         /\ req[d].key = req[c].key
                                         /\ ~req[d].force /\ ~req[c].force
                THEN raced \cup {req[c].key} ELSE raced
    /\ UNCHANGED <<inputs, rows, killed, granted, applied, contested>>

-----------------------------------------------------------------------------
(* executeAction after the lookup.                                         *)

InsertQueued(c) ==
    /\ pc[c] = "insert"
    /\ status' = [status EXCEPT ![c] = "queued"]
    /\ Goto(c, "guard")
    /\ UNCHANGED <<inputs, approval, review, killed, seen>>

\* Kill switch, permission, object access, precondition, then the gate.
Guard(c) ==
    /\ pc[c] = "guard"
    /\ Goto(c, IF isKilled(req[c].action) \/ ~req[c].allowed
               THEN "block" ELSE Route(req[c]))
    /\ UNCHANGED <<inputs, rows, killed, seen>>

Block(c) ==
    /\ pc[c] = "block"
    /\ status' = [status EXCEPT ![c] = "blocked"]
    /\ Goto(c, "done")
    /\ UNCHANGED <<inputs, approval, review, killed, seen>>

\* createApprovalForSubject inserts the request before the row awaits it.
RequestApproval(c) ==
    /\ pc[c] = "request"
    /\ approval' = [approval EXCEPT ![c] = "pending"]
    /\ Goto(c, "await")
    /\ UNCHANGED <<inputs, status, review, killed, seen>>

OpenReviewCase(c) ==
    /\ pc[c] = "open"
    /\ review' = [review EXCEPT ![c] = "open"]
    /\ Goto(c, "await")
    /\ UNCHANGED <<inputs, status, approval, killed, seen>>

AwaitApproval(c) ==
    /\ pc[c] = "await"
    /\ status' = [status EXCEPT ![c] = "awaiting_approval"]
    /\ Goto(c, "done")
    /\ UNCHANGED <<inputs, approval, review, killed, seen>>

-----------------------------------------------------------------------------
(* runHandler, on behalf of a call or of a decision.                       *)

StartHandler(p) ==
    /\ pc[p] = "start"
    /\ status' = [status EXCEPT ![Row(p)] = "running"]
    /\ Goto(p, "run")
    /\ UNCHANGED <<inputs, approval, review, killed, seen>>

\* The handler runs to its end: its side effect has happened.
HandlerReturns(p) ==
    /\ pc[p] = "run"
    /\ applied' = applied \cup {p}
    /\ Goto(p, "complete")
    /\ UNCHANGED <<inputs, rows, killed, granted, contested, raced, underKill>>

HandlerThrows(p) ==
    /\ pc[p] = "run"
    /\ Goto(p, "fail")
    /\ UNCHANGED <<inputs, rows, killed, seen>>

Complete(p) ==
    /\ pc[p] = "complete"
    /\ status' = [status EXCEPT ![Row(p)] = "completed"]
    /\ Goto(p, "record")
    /\ UNCHANGED <<inputs, approval, review, killed, seen>>

\* The audit event and the runtime trace are written.
Record(p) ==
    /\ pc[p] = "record"
    /\ Goto(p, "done")
    /\ UNCHANGED <<inputs, rows, killed, seen>>

\* Still inside the try: an exception of the completing update, of the audit
\* or of the trace is caught like an exception of the handler.
RecordThrows(p) ==
    /\ p \in Faulty
    /\ pc[p] \in {"complete", "record"}
    /\ Goto(p, "fail")
    /\ UNCHANGED <<inputs, rows, killed, seen>>

FailAsError(p) ==                                                 \* mutated
    /\ pc[p] = "fail"
    /\ status' = [status EXCEPT ![Row(p)] = "error"]
    /\ Goto(p, "done")
    /\ UNCHANGED <<inputs, approval, review, killed, seen>>

FailUnrecorded(p) ==                                              \* mutated
    /\ pc[p] = "fail"
    /\ Goto(p, "done")
    /\ UNCHANGED <<inputs, rows, killed, seen>>

Fail(p) ==
    /\ pc[p] = "fail"
    /\ status' = [status EXCEPT ![Row(p)] = "failed"]
    /\ Goto(p, "done")
    /\ UNCHANGED <<inputs, approval, review, killed, seen>>

-----------------------------------------------------------------------------
(* Reviewers' decisions.                                                   *)

\* The observation made when decision d starts: is another one in flight?
NoteContest(d) ==
    contested' = IF \E e \in Decision \ {d} : InFlight(e) /\ target[e] = target[d]
                 THEN contested \cup {target[d]} ELSE contested

\* decideApproval reads the request and finds it pending ...
BeginDecision(d) ==
    /\ pc[d] = "idle"
    /\ vote[d] \in {"approved", "rejected"}
    /\ Undecided(target[d])
    /\ Goto(d, "decide")
    /\ NoteKill(d)
    /\ NoteContest(d)
    /\ UNCHANGED <<inputs, rows, killed, granted, applied, raced>>

\* ... or finds it decided and throws.
RefuseDecision(d) ==
    /\ pc[d] = "idle"
    /\ vote[d] \in {"approved", "rejected"}
    /\ approval[target[d]] # "none" /\ ~Undecided(target[d])
    /\ Goto(d, "done")
    /\ UNCHANGED <<inputs, rows, killed, seen>>

\* The verdict of decision d is written: an approval goes on to the row.
Verdict(d) ==
    /\ Goto(d, IF vote[d] = "approved" THEN "resume" ELSE "done")
    /\ granted' = IF vote[d] = "approved" THEN granted \cup {d} ELSE granted

Decide(d) ==
    /\ pc[d] = "decide"
    /\ approval' = [approval EXCEPT ![target[d]] = vote[d]]
    /\ Verdict(d)
    /\ UNCHANGED <<inputs, status, review, killed, applied, contested, raced, underKill>>

\* resolveReviewCase asks nothing of the case's current status.
ResolveReviewCase(d) ==
    /\ pc[d] = "idle"
    /\ review[target[d]] # "none"
    /\ review' = [review EXCEPT ![target[d]] = vote[d]]
    /\ Verdict(d)
    /\ NoteKill(d)
    /\ NoteContest(d)
    /\ UNCHANGED <<inputs, status, approval, killed, applied, raced>>

\* continueApprovedAction and releaseApprovedAction: the row must be waiting.
\* A review case is linked to its row by the update that makes the row wait.
ResumeApproved(d) ==
    /\ pc[d] = "resume"
    /\ Awaiting(target[d])
    /\ Goto(d, "start")
    /\ UNCHANGED <<inputs, rows, killed, seen>>

ResumeNothing(d) ==
    /\ pc[d] = "resume"
    /\ ~Awaiting(target[d])
    /\ Goto(d, "done")
    /\ UNCHANGED <<inputs, rows, killed, seen>>

-----------------------------------------------------------------------------
(* The environment.                                                        *)

\* Switches of actions that no call asks for make no difference: left alone.
EnableKillSwitch(a) ==
    /\ ~killed[a]
    /\ \E c \in Call : req[c].action = a
    /\ killed' = [killed EXCEPT ![a] = TRUE]
    /\ UNCHANGED <<inputs, pc, rows, seen>>

DisableKillSwitch(a) ==
    /\ killed[a]
    /\ killed' = [killed EXCEPT ![a] = FALSE]
    /\ underKill' = {p \in underKill : req[Row(p)].action # a}
    /\ UNCHANGED <<inputs, pc, rows, granted, applied, contested, raced>>

\* The server stops, or a store operation outside runHandler's try throws:
\* what was written stays and nothing resumes the request.
CutOff(p) ==
    /\ p \in Faulty
    /\ InFlight(p)
    /\ Goto(p, "dead")
    /\ UNCHANGED <<inputs, rows, killed, seen>>

-----------------------------------------------------------------------------

CallStep(c) ==
    \/ Deduplicate(c) \/ PassLookup(c)
    \/ InsertQueued(c) \/ Guard(c) \/ Block(c)
    \/ RequestApproval(c) \/ OpenReviewCase(c) \/ AwaitApproval(c)

HandlerStep(p) ==
    \/ StartHandler(p) \/ HandlerReturns(p) \/ HandlerThrows(p)
    \/ Complete(p) \/ Record(p) \/ RecordThrows(p) \/ Fail(p)

DecisionStep(d) ==
    \/ BeginDecision(d) \/ RefuseDecision(d) \/ Decide(d)
    \/ ResolveReviewCase(d) \/ ResumeApproved(d) \/ ResumeNothing(d)

Next ==
    \/ \E c \in Call : CallStep(c)
    \/ \E p \in Process : HandlerStep(p) \/ CutOff(p)
    \/ \E d \in Decision : DecisionStep(d)
    \/ \E a \in Action : EnableKillSwitch(a) \/ DisableKillSwitch(a)

Spec == Init /\ [][Next]_vars

\* The event loop resumes every request whose store operation has answered;
\* nobody is obliged to send a request, to decide or to touch a switch.
ProcessStep(p) ==
    \/ p \in Call /\ InFlight(p) /\ CallStep(p)
    \/ p \in Decision /\ InFlight(p) /\ DecisionStep(p)
    \/ HandlerStep(p)

FairSpec == Spec /\ \A p \in Process : WF_vars(ProcessStep(p))

-----------------------------------------------------------------------------
(* What the engine promises.                                               *)

ExecStatus == {"absent", "queued", "running", "completed", "failed", "blocked",
               "awaiting_approval"}

Phase == {"idle", "insert", "guard", "block", "request", "open", "await",
          "start", "run", "complete", "record", "fail",
          "decide", "resume", "done", "dead"}

\* Type invariant: every row, request and case holds one of the states its
\* interface declares, and every observation is about this model's processes.
TypeOK ==
    /\ req \in [Call -> Requests]
    /\ target \in [Decision -> Call]
    /\ vote \in [Decision -> {"approved", "rejected", "resolved"}]
    /\ pc \in [Process -> Phase]
    /\ status \in [Call -> ExecStatus]
    /\ approval \in [Call -> {"none", "pending", "approved", "rejected"}]
    /\ review \in [Call -> {"none", "open", "approved", "rejected", "resolved"}]
    /\ killed \in [Action -> BOOLEAN]
    /\ granted \subseteq Decision
    /\ applied \subseteq Process
    /\ contested \subseteq Call
    /\ raced \subseteq Key
    /\ underKill \subseteq Process

\* The actions and policies say this request must not run unapproved: stated
\* from the handler's two gates and the policy row, not from the routing.
MustBeApproved(r) ==
    /\ ~r.exempt
    /\ \/ r.action \in ReviewGated
       \/ /\ r.action \in PolicyGated
          /\ LET policy == Policies[r.action]
             IN  ~policy.present \/ policy.requireApproval \/ policy.ruleMatches

\* A gated action takes effect only on behalf of a decision that wrote an
\* approval, whatever requests interleave and wherever they are cut off.
GatedRunsOnlyWhenGranted ==
    \A p \in applied : IF p \in Call THEN ~MustBeApproved(req[p]) ELSE p \in granted

\* "action runs exactly once after approval": a row's handler takes effect at
\* most once, unless two decisions on that row were in flight at the same time.
AtMostOnceUnlessContested ==
    \A p, q \in applied : Row(p) = Row(q) => p = q \/ Row(p) \in contested

\* The handler of an execution whose approval request stands rejected never
\* took effect and never will, unless decisions on it overlapped.
RejectedNeverRuns ==
    \A c \in Call \ contested : approval[c] = "rejected" =>
        /\ \A p \in applied : Row(p) # c
        /\ \A p \in Process : pc[p] \in {"resume", "start", "run"} => Row(p) # c

\* executeAction never gets past its kill switch check when the switch was on
\* before the request arrived and was not turned off in between.
KillRespectedAtAdmission ==
    \A c \in Call \cap underKill :
        /\ status[c] \in {"absent", "queued", "blocked"}
        /\ approval[c] = "none" /\ review[c] = "none"
        /\ c \notin applied

\* Idempotency: two unforced calls with one key never both hold a live row,
\* unless both were between lookup and insert at once, or overlapping
\* decisions revived a row that had already failed.
OneLiveRowPerKey ==
    \A c, d \in Call :
        /\ c # d /\ req[c].key = req[d].key
        /\ ~req[c].force /\ ~req[d].force
        /\ status[c] \in {"queued", "running", "completed", "awaiting_approval"}
        /\ status[d] \in {"queued", "running", "completed", "awaiting_approval"}
        => req[c].key \in raced \/ c \in contested \/ d \in contested

\* Every row goes through the life cycle ActionLifecycle promises, one step of
\* it at a time, however the requests behind it interleave or are cut off.
Lifecycle == INSTANCE ActionLifecycle WITH
    Exec <- Call,
    Occasion <- Process,
    gated <- [c \in Call |-> MustBeApproved(req[c])],
    state <- status,
    approvedAt <- {target[d] : d \in granted},
    disturbed <- contested,
    effect <- [c \in Call |-> {p \in applied : Row(p) = c}]

ImplementsLifecycle == Lifecycle!Spec

\* While no request is cut off, an inserted or running row always settles or
\* comes to wait for a human.
InFlightRowsSettle ==
    \A c \in Call : status[c] \in {"queued", "running"} ~>
        status[c] \in {"blocked", "awaiting_approval", "completed", "failed"}

\* An approval written while its row is waiting runs the row to its end.
GrantedWhileAwaitingSettles ==
    \A d \in Decision :
        (d \in granted /\ pc[d] = "resume" /\ status[target[d]] = "awaiting_approval")
            ~> status[target[d]] \in {"completed", "failed"}

-----------------------------------------------------------------------------
(* What the comments and tests say and the engine does not keep.           *)

\* kill-switch-guard.ts: the guard is "the single chokepoint every runtime
\* entrypoint calls before executing a component".  Continuing or releasing
\* an approved action does not call it.
NoHandlerUnderKill == applied \cap underKill = {}

\* action-executor.ts: "completed actions dedupe (no double side effect)".
\* Two calls may both pass the lookup before either inserts its row.
OneEffectPerKey ==
    \A p, q \in applied :
        /\ req[Row(p)].key = req[Row(q)].key
        /\ ~req[Row(p)].force /\ ~req[Row(q)].force
        => p = q

\* continueApprovedAction: "Continue an action execution that was gated by the
\* hardened approval-request path, once its approval has been granted".  An
\* approval granted before the row is made to wait continues nothing, and no
\* later one can be granted.
ApprovedActionContinues ==
    \A c \in Call : approval[c] = "approved" ~>
        status[c] \in {"running", "completed", "failed"}

=============================================================================
