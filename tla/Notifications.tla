---------------------------- MODULE Notifications ----------------------------
(***************************************************************************)
(* The notification engine                                                 *)
(* (src/lib/mission-control/notifications/notification-service.ts) for one *)
(* event, recipient and subject: every emission walks the matching rules,  *)
(* looks for an earlier row of the rule, delivers, and records a row.      *)
(***************************************************************************)
EXTENDS Naturals, Sequences, FiniteSets

CONSTANTS
    Emissions,      \* calls of emitEvent with the same event
    RuleChannels    \* channels of the matching rules, in order

\* An event that no rule matches is not answered at all.
ASSUME NotifyAssumption == RuleChannels \in Seq(STRING) /\ RuleChannels # << >>

VARIABLES
    notified,       \* db.notifications of the event: rule, state
    emission,       \* each call: step, rule index, state to record
    delivered,      \* messages that reached each rule's destination
    unrecorded,     \* rules with a delivery that no row or a failed row records
    emitOverlap     \* two calls were under way at once

notifyVars == <<notified, emission, delivered, unrecorded, emitOverlap>>

Rules == DOMAIN RuleChannels

NotifyInit ==
    /\ notified = << >>
    /\ emission = [e \in Emissions |-> [step |-> "start", rule |-> 1, state |-> "none"]]
    /\ delivered = [r \in Rules |-> 0]
    /\ unrecorded = {}
    /\ emitOverlap = FALSE

EmissionOver == {"start", "returned", "rejected"}

MoveEmission(e, to) ==
    /\ emission' = [emission EXCEPT ![e] = to]
    /\ emitOverlap' = (emitOverlap \/ \E f \in Emissions \ {e} : emission[f].step \notin EmissionOver)

\* Mutated: one rule too far.
NextRuleTooFar(e) ==
    [step |-> IF emission[e].rule > Len(RuleChannels) THEN "returned" ELSE "looking",
     rule |-> emission[e].rule + 1, state |-> "none"]

\* On to the next rule, or back to the caller.
NextRule(e) ==
    [step |-> IF emission[e].rule = Len(RuleChannels) THEN "returned" ELSE "looking",
     rule |-> IF emission[e].rule = Len(RuleChannels) THEN 1 ELSE emission[e].rule + 1,
     state |-> "none"]

\* Mutated: only a message that left suppresses the rule.
LookForSent(e) ==
    LET r == emission[e].rule
        duplicate == \E i \in DOMAIN notified : notified[i].rule = r /\ notified[i].state = "sent"
    IN  /\ emission[e].step \in {"start", "looking"}
        /\ MoveEmission(e, IF duplicate THEN NextRule(e)
                           ELSE [emission[e] EXCEPT !.step = "delivering"])
        /\ UNCHANGED <<notified, delivered, unrecorded>>

\* The duplicate look-up: a row that did not fail suppresses the rule.
LookForDuplicate(e) ==
    LET r == emission[e].rule
        duplicate == \E i \in DOMAIN notified : notified[i].rule = r /\ notified[i].state # "failed"
    IN  /\ emission[e].step \in {"start", "looking"}
        /\ MoveEmission(e, IF duplicate THEN NextRule(e)
                           ELSE [emission[e] EXCEPT !.step = "delivering"])
        /\ UNCHANGED <<notified, delivered, unrecorded>>

\* dispatch: a killed rule, a destination that is not allowlisted and a channel that is
\* not configured queue the message; an adapter answers for what it sent, and a failure
\* it reports may have happened after the message left.
Deliver(e, state, reached) ==
    LET r == emission[e].rule IN
    /\ emission[e].step = "delivering"
    /\ RuleChannels[r] = "in_app" => state \in {"sent", "queued"} /\ ~reached
    /\ RuleChannels[r] # "in_app" =>
         /\ state = "sent" => reached
         /\ state = "queued" => ~reached
    /\ delivered' = [delivered EXCEPT ![r] = @ + IF reached THEN 1 ELSE 0]
    /\ unrecorded' = IF reached /\ state = "failed" THEN unrecorded \cup {r} ELSE unrecorded
    /\ MoveEmission(e, [emission[e] EXCEPT !.step = "recording", !.state = state])
    /\ UNCHANGED notified

\* The row, then the audit event and the trace, any of which may throw.
RecordNotification(e, throws) ==
    /\ emission[e].step = "recording"
    /\ notified' = Append(notified, [rule |-> emission[e].rule, state |-> emission[e].state])
    /\ MoveEmission(e, IF throws THEN [step |-> "rejected", rule |-> 1, state |-> "none"]
                       ELSE NextRule(e))
    /\ UNCHANGED <<delivered, unrecorded>>

RecordFails(e) ==
    /\ emission[e].step = "recording"
    /\ unrecorded' = IF emission[e].state = "sent" /\ RuleChannels[emission[e].rule] # "in_app"
                     THEN unrecorded \cup {emission[e].rule} ELSE unrecorded
    /\ MoveEmission(e, [step |-> "rejected", rule |-> 1, state |-> "none"])
    /\ UNCHANGED <<notified, delivered>>

NotifyNext ==
    \E e \in Emissions :
      \/ LookForDuplicate(e)
      \/ \E state \in {"sent", "queued", "failed"}, reached \in BOOLEAN : Deliver(e, state, reached)
      \/ \E throws \in BOOLEAN : RecordNotification(e, throws)
      \/ RecordFails(e)

NotifySpec == NotifyInit /\ [][NotifyNext]_notifyVars

-----------------------------------------------------------------------------
NotifyTypeOK ==
    /\ \A i \in DOMAIN notified : notified[i].rule \in Rules /\ notified[i].state \in {"sent", "queued", "failed"}
    /\ \A e \in Emissions :
         /\ emission[e].step \in EmissionOver \cup {"looking", "delivering", "recording"}
         /\ emission[e].rule \in Rules
    /\ delivered \in [Rules -> Nat]
    /\ unrecorded \subseteq Rules

\* Nobody is told the same thing twice and nothing is dropped silently.  Unless two
\* emissions overlapped, or an earlier delivery went unrecorded or was reported as failed,
\* a rule's destination receives the event at most once and one row stands for it; and
\* once an emission returned, every matching rule has a row that says what became of it
\* (emitEvent, notification-service.ts:113).
EachRuleAnsweredOnce ==
    /\ ~emitOverlap =>
         \A r \in Rules :
           /\ Cardinality({i \in DOMAIN notified : notified[i].rule = r /\ notified[i].state # "failed"}) <= 1
           /\ r \notin unrecorded => delivered[r] <= 1
    /\ (\E e \in Emissions : emission[e].step = "returned") =>
         \A r \in Rules : \E i \in DOMAIN notified : notified[i].rule = r

=============================================================================
