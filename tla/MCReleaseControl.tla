-------------------------- MODULE MCReleaseControl --------------------------
(* Small instances of release control for TLC.                             *)
EXTENDS ReleaseControl, TLC

CONSTANTS w1, w2, r1, agent, model, v1, v2, nil, b1, g1, g2

Change(c, v, kind) ==
    [component |-> c, version |-> v, change |-> kind, disabled |-> FALSE]

\* A bundle of two items: an update whose payload disables its component, and
\* a new component.
MCItems ==
    [r \in {r1} |-> <<[Change(agent, v2, "update") EXCEPT !.disabled = TRUE],
                      Change(model, v2, "create")>>]

\* A bundle of one item.
MCSmallItems == [r \in {r1} |-> <<Change(agent, v2, "update")>>]

MCSmallSeeded == [c \in {agent} |-> [status |-> "enabled", version |-> v1]]

MCSeeded == [c \in {agent, model} |->
                IF c = agent THEN [status |-> "enabled", version |-> v1] ELSE Absent]

\* Components registered without a version, as a kill switch or a health check does.
MCUnversioned == [c \in {agent, model} |->
                IF c = agent THEN [status |-> "enabled", version |-> nil] ELSE Absent]

MCReleasePolicy ==
    [present |-> TRUE, requireApproval |-> TRUE, ruleMatches |-> FALSE,
     reasonRequired |-> "no", allowEmergencyBypass |-> FALSE]

MCRollbackPolicy ==
    [present |-> TRUE, requireApproval |-> TRUE, ruleMatches |-> FALSE,
     reasonRequired |-> "yes", allowEmergencyBypass |-> TRUE]

\* A rollback policy that asks for no approval.
MCOpenRollbackPolicy == [MCRollbackPolicy EXCEPT !.requireApproval = FALSE]

\* The kinds of request each worker takes.
MCGovern == [w \in Worker |-> {"submit", "decide", "promote", "rollback", "execute", "kill", "unkill"}]
MCEffects == [w \in Worker |->
    IF w = w1 THEN {"promote", "rollback"} ELSE {"execute", "submit", "sweep"}]
MCHealth == [w \in Worker |-> {"kill", "sweep"}]
MCStale == [w \in Worker |-> {"submit", "decide", "promote", "kill"}]
MCUndo == [w \in Worker |-> {"promote", "rollback", "execute"}]

MCSymmetry == Permutations(Worker) \cup Permutations(Gate)

=============================================================================
