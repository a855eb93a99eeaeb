--------------------------- MODULE CircuitBreaker ---------------------------
(***************************************************************************)
(* The circuit breaker of crates/shaka-queue/src/lib.rs: one snapshot      *)
(* behind a mutex, written through to SQLite by every operation that       *)
(* changes it, so a restart (load_circuit) finds what it left.  Time is    *)
(* kept only as whether next_probe_at has been reached.                    *)
(***************************************************************************)
EXTENDS Integers

CONSTANT Threshold   \* CircuitConfig.failure_threshold

ASSUME ThresholdAssumption == Threshold \in Nat \ {0}

VARIABLE breaker

(* failure_count is only compared with the threshold, so it is counted up  *)
(* to the threshold and no further.                                        *)
Snapshot == [state: {"closed", "open", "half_open"},
             failures: 0..Threshold,
             probe: {"none", "waiting", "due"}]

InitBreaker == breaker = [state |-> "closed", failures |-> 0, probe |-> "none"]

allow_closed ==
    /\ breaker.state = "closed"
    /\ UNCHANGED breaker

(* The window is over: the caller is the probe.                            *)
allow_probe ==
    /\ breaker.state = "open"
    /\ breaker.probe = "due"
    /\ breaker' = [breaker EXCEPT !.state = "half_open", !.probe = "none"]

allow_blocked ==
    /\ \/ breaker.state = "half_open"
       \/ breaker.state = "open" /\ breaker.probe # "due"
    /\ UNCHANGED breaker

record_success ==
    breaker' = [state |-> "closed", failures |-> 0, probe |-> "none"]

CountFailure == IF breaker.failures < Threshold THEN breaker.failures + 1 ELSE Threshold

(* Mutant: the circuit opens without a time for its probe.                 *)
record_failure_without_probe ==
    breaker' = IF breaker.state = "half_open" \/ CountFailure >= Threshold
               THEN [breaker EXCEPT !.state = "open", !.failures = CountFailure]
               ELSE [breaker EXCEPT !.failures = CountFailure]

record_failure ==
    breaker' = IF breaker.state = "half_open" \/ CountFailure >= Threshold
               THEN [state |-> "open", failures |-> CountFailure, probe |-> "waiting"]
               ELSE [breaker EXCEPT !.failures = CountFailure]

(* open_for has passed since opened_at.                                    *)
WindowElapses ==
    /\ breaker.probe = "waiting"
    /\ breaker' = [breaker EXCEPT !.probe = "due"]
=============================================================================
