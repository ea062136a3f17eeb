--------------------------- MODULE ProviderHealth ---------------------------
(***************************************************************************)
(* The provider health manager (src/lib/aiops/health): a bus subscriber    *)
(* that folds execution outcomes and circuit transitions of one provider   *)
(* and model into a status, with hysteresis on recovery.  Thresholds are   *)
(* percentages of the successes in the observation window.                 *)
(***************************************************************************)
EXTENDS Naturals, Sequences, SequencesExt

CONSTANTS
    ObservationWindow,  \* samples kept
    UnavailableBelow,   \* availability below this: unavailable
    DegradedBelow,      \* availability below this: degraded
    RecoverAbove        \* availability a degraded provider needs to be healthy

ASSUME HealthAssumption ==
    /\ ObservationWindow \in Nat \ {0}
    /\ {UnavailableBelow, DegradedBelow, RecoverAbove} \subseteq 0 .. 100

HealthStatus == {"unknown", "healthy", "degraded", "unavailable"}
ObservedCircuit == {"unknown", "closed", "open", "half_open"}

NewHealth == [samples |-> << >>, circuit |-> "unknown", status |-> "unknown"]

Successes(samples) == Len(SelectSeq(samples, LAMBDA s : s))

\* availability < pct, without the division
Below(samples, pct) == 100 * Successes(samples) < pct * Len(samples)

EvaluateHealth(prior, samples, circuit) ==
    IF circuit = "open" THEN "unavailable"
    ELSE IF samples = << >> THEN "unknown"
    ELSE IF Below(samples, UnavailableBelow) THEN "unavailable"
    ELSE IF Below(samples, DegradedBelow) THEN "degraded"
    ELSE IF prior \in {"degraded", "unavailable"} /\ Below(samples, RecoverAbove)
         THEN "degraded" ELSE "healthy"

Refreshed(h, samples, circuit) ==
    [samples |-> samples, circuit |-> circuit,
     status |-> EvaluateHealth(h.status, samples, circuit)]

\* onEvent: execution.completed / execution.failed
AfterExecution(h, success) ==
    LET all == Append(h.samples, success)
    IN  Refreshed(h, IF Len(all) > ObservationWindow THEN Tail(all) ELSE all, h.circuit)

\* onEvent: circuit.opened, circuit.rejected, circuit.half_opened, circuit.closed
AfterCircuitEvent(h, state) == Refreshed(h, h.samples, state)

=============================================================================
