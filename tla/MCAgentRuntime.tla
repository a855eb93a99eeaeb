-------------------------- MODULE MCAgentRuntime --------------------------
(* Instances of AgentRuntime for TLC.                                      *)
EXTENDS AgentRuntime

MCNeeds == [n \in Name |-> IF n = "write" THEN {"filesystem_write"} ELSE {}]

Budget(steps, calls) ==
    [max_steps |-> steps, max_tool_calls |-> calls, max_cost |-> 1, max_elapsed_ms |-> 1]

Envelope(t, dry, caps, scope, b) ==
    [tenant |-> t, dry_run |-> dry, capabilities |-> caps, scope |-> scope, budget |-> b]

(* A live task, a dry run confined to one tool by its plan step, and a     *)
(* task whose budget is refused.                                           *)
MCEnvelopes ==
    {Envelope("t1", FALSE, {"filesystem_write"}, None, Budget(2, 2)),
     Envelope("t2", TRUE, {"filesystem_write"}, "write", Budget(2, 1)),
     Envelope("t1", FALSE, {}, None, Budget(0, 1))}
===========================================================================
