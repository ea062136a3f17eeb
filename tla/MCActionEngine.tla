--------------------------- MODULE MCActionEngine ---------------------------
(* Small instances of the action engine for TLC.                           *)
EXTENDS ActionEngine, TLC

CONSTANTS c1, c2, d1, d2, send, advance, note, k1, k2

\* "send" is gated by a policy key no policy row exists for, "advance" by a
\* review case, "note" by nothing.
MCPolicies ==
    [a \in {send, advance, note} |->
        [present |-> a # send, requireApproval |-> FALSE, ruleMatches |-> FALSE,
         reasonRequired |-> "unset", allowEmergencyBypass |-> FALSE]]

Ask(a, k) == [action |-> a, key |-> k, force |-> FALSE, exempt |-> FALSE, allowed |-> TRUE]

MCRequests ==
    {Ask(send, k1), Ask(advance, k1), Ask(note, k1),
     [Ask(send, k1) EXCEPT !.force = TRUE, !.exempt = TRUE],
     [Ask(note, k2) EXCEPT !.allowed = FALSE]}

\* The liveness instances keep one request of each kind.
MCFewRequests == {Ask(send, k1), Ask(advance, k1), Ask(note, k2)}

MCSymmetry == Permutations({c1, c2}) \cup Permutations({d1, d2})

=============================================================================
