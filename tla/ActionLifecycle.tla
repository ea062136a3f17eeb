-------------------------- MODULE ActionLifecycle --------------------------
(***************************************************************************)
(* What a user of the action engine is promised about one row of           *)
(* actionExecutions, with no requests, phases or interleavings in sight:   *)
(* a row is opened once, refused or held or started, takes effect at most  *)
(* once and only while it runs, and settles for good.  A gated row starts  *)
(* only after an approval of its own.                                      *)
(*                                                                         *)
(* The promise is withdrawn, but never the need for an approval, for a     *)
(* "disturbed" row: one on which two decisions were in flight at once.     *)
(***************************************************************************)

CONSTANTS
    Exec,       \* rows
    Occasion    \* occasions on which a handler takes effect

VARIABLES
    gated,      \* which rows must be approved before they run
    state,      \* each row's status
    approvedAt, \* rows some reviewer has approved
    disturbed,  \* rows the promise is withdrawn for
    effect      \* the occasions each row's handler took effect on

vars == <<gated, state, approvedAt, disturbed, effect>>

Init ==
    /\ gated \in [Exec -> BOOLEAN]
    /\ state = [x \in Exec |-> "absent"]
    /\ approvedAt = {}
    /\ disturbed = {}
    /\ effect = [x \in Exec |-> {}]

Becomes(x, from, to) ==
    /\ state[x] \in from
    /\ state' = [state EXCEPT ![x] = to]

Open(x) == Becomes(x, {"absent"}, "queued") /\ UNCHANGED effect

Refuse(x) == Becomes(x, {"queued"}, "blocked") /\ UNCHANGED effect

Hold(x) == gated[x] /\ Becomes(x, {"queued"}, "awaiting_approval") /\ UNCHANGED effect

Start(x) ==
    /\ \/ ~gated[x] /\ Becomes(x, {"queued"}, "running")
       \/ x \in approvedAt /\ Becomes(x, {"awaiting_approval"}, "running")
    /\ UNCHANGED effect

TakeEffect(x) ==
    /\ state[x] = "running"
    /\ effect[x] = {}
    /\ \E o \in Occasion : effect' = [effect EXCEPT ![x] = {o}]
    /\ UNCHANGED state

Succeed(x) == effect[x] # {} /\ Becomes(x, {"running"}, "completed") /\ UNCHANGED effect

\* A completed row may still turn failed: its completion could not be recorded.
GiveUp(x) == Becomes(x, {"running", "completed"}, "failed") /\ UNCHANGED effect

Advance(x) ==
    /\ \/ Open(x) \/ Refuse(x) \/ Hold(x) \/ Start(x)
       \/ TakeEffect(x) \/ Succeed(x) \/ GiveUp(x)
    /\ UNCHANGED <<approvedAt, disturbed>>

Approve(x) == approvedAt' = approvedAt \cup {x} /\ UNCHANGED <<state, effect>>

Disturb(x) == disturbed' = disturbed \cup {x} /\ UNCHANGED <<state, effect>>

\* The states of a row whose handler has been started.
Ran == {"running", "completed", "failed"}

\* Nothing is promised of a disturbed row's status and of how often it takes
\* effect, except that it needs an approval if it is gated.
Lapse(x) ==
    /\ x \in disturbed
    /\ gated[x] => x \in approvedAt
    /\ \/ UNCHANGED state
       \/ \E s \in Ran : Becomes(x, Ran, s)
    /\ \/ UNCHANGED effect
       \/ \E o \in Occasion : effect' = [effect EXCEPT ![x] = @ \cup {o}]
    /\ UNCHANGED <<approvedAt, disturbed>>

\* An approval may come in the same step as the disturbance it causes.
Decided(x) ==
    /\ Approve(x) \/ UNCHANGED <<approvedAt, state, effect>>
    /\ Disturb(x) \/ UNCHANGED <<disturbed, state, effect>>

Next == UNCHANGED gated /\ \E x \in Exec : Advance(x) \/ Lapse(x) \/ Decided(x)

Spec == Init /\ [][Next]_vars

=============================================================================
