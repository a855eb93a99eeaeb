----------------------------- MODULE PlanStates -----------------------------
(***************************************************************************)
(* The states of a plan and of a step and the transitions between them     *)
(* (crates/shaka-core): what both the engine and the persisted history are *)
(* held to.                                                                *)
(***************************************************************************)

(* PlanState::validate_transition and PlanStepState::validate_transition   *)

PlanNext ==
    [draft             |-> {"proposed", "rejected"},
     proposed          |-> {"validated", "rejected"},
     validated         |-> {"awaiting_approval", "approved", "rejected"},
     awaiting_approval |-> {"approved", "rejected"},
     approved          |-> {"running", "rejected", "cancel_requested"},
     running           |-> {"paused", "succeeded", "failed", "cancel_requested",
                            "compensating", "unknown"},
     paused            |-> {"running", "cancel_requested", "failed"},
     cancel_requested  |-> {"cancelled", "unknown", "compensating"},
     compensating      |-> {"compensated", "failed", "unknown"},
     unknown           |-> {"running", "failed", "compensating", "cancelled"},
     succeeded |-> {}, failed |-> {}, cancelled |-> {}, compensated |-> {}, rejected |-> {}]

StepNext ==
    [pending           |-> {"ready", "blocked", "cancelled"},
     ready             |-> {"running", "awaiting_approval", "blocked", "cancelled"},
     awaiting_approval |-> {"ready", "blocked", "cancelled"},
     running           |-> {"succeeded", "failed", "cancel_requested", "unknown",
                            "compensating"},
     failed            |-> {"ready", "compensating", "unknown"},
     cancel_requested  |-> {"cancelled", "unknown"},
     compensating      |-> {"compensated", "failed", "unknown"},
     unknown           |-> {"ready", "failed", "compensating", "cancelled"},
     succeeded         |-> {"compensating"},
     blocked |-> {}, cancelled |-> {}, compensated |-> {}]

(* PlanState::is_terminal: nothing follows.                                *)
PlanTerminal == {p \in DOMAIN PlanNext : PlanNext[p] = {}}
=============================================================================
