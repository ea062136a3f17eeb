--------------------------- MODULE CircuitBreaker ---------------------------
(***************************************************************************)
(* One circuit of the breaker (src/lib/aiops/circuit/circuit-breaker.ts):  *)
(* what an admission, a success and a failure do to its record.  A circuit *)
(* is shared by every execution of the same provider and model.            *)
(***************************************************************************)
EXTENDS Naturals

CONSTANTS
    FailureThreshold,   \* qualifying failures that open a closed circuit
    SuccessThreshold,   \* half-open successes that close it
    Cooldown            \* time an open circuit rejects

ASSUME CircuitAssumption ==
    /\ FailureThreshold \in Nat \ {0}
    /\ SuccessThreshold \in Nat \ {0}
    /\ Cooldown \in Nat

Circuits ==
    [state : {"closed", "open", "half_open"}, failures : Nat, successes : Nat, openedAt : Nat]

NewCircuit == [state |-> "closed", failures |-> 0, successes |-> 0, openedAt |-> 0]

\* aroundInvoke lets the call through ...
Admits(r, now) == r.state # "open" \/ now >= r.openedAt + Cooldown

\* Mutated: a cooled-down circuit stays open.
AdmittedUnchanged(r) == r

\* ... and turns a cooled-down open circuit half open; half open admits every caller.
AfterAdmission(r) ==
    IF r.state = "open" THEN [r EXCEPT !.state = "half_open", !.successes = 0] ELSE r

\* onSuccess: the record may have moved since the call was admitted.
AfterSuccess(r) ==
    IF r.state # "half_open" THEN [r EXCEPT !.failures = 0]
    ELSE IF r.successes + 1 >= SuccessThreshold
         THEN [r EXCEPT !.state = "closed", !.failures = 0, !.successes = 0]
         ELSE [r EXCEPT !.successes = @ + 1]

Opened(r, failures, now) ==
    [r EXCEPT !.state = "open", !.openedAt = now, !.failures = failures]

\* onFailure with a tripping kind; a late failure of an open circuit extends it.
AfterFailure(r, now) ==
    IF r.state = "half_open"
    THEN Opened(r, IF r.failures > FailureThreshold THEN r.failures ELSE FailureThreshold, now)
    ELSE IF r.failures + 1 >= FailureThreshold
         THEN Opened(r, r.failures + 1, now)
         ELSE [r EXCEPT !.failures = @ + 1]

=============================================================================
