--------------------------- MODULE TaskLifecycle ---------------------------
(***************************************************************************)
(* What the queue promises of a task, with no rows, clocks, retries or     *)
(* lease deadlines: the status table of V0.5_DESIGN.md, section 5          *)
(* ("Estados e ciclo de vida da tarefa"), and the fencing of ADR-024.  A   *)
(* task is executed by one grant at a time, grants are numbered in the     *)
(* order they are given, and only the grant in force can end an execution  *)
(* or leave a result.                                                      *)
(***************************************************************************)
EXTENDS Integers

CONSTANT Task

VARIABLES
    state,   \* status of each task, "none" before it is submitted
    grant,   \* number of the execution grant in force, 0 when there is none
    last,    \* number of the last grant given to any task
    winner   \* grant whose result is the task's result, 0 when there is none

lifecycle == <<state, grant, last, winner>>

Init ==
    /\ state = [t \in Task |-> "none"]
    /\ grant = [t \in Task |-> 0]
    /\ last = 0
    /\ winner = [t \in Task |-> 0]

Submit(t) ==
    /\ state[t] = "none"
    /\ state' = [state EXCEPT ![t] = "queued"]
    /\ UNCHANGED <<grant, last, winner>>

Start(t) ==
    /\ state[t] = "queued"
    /\ state' = [state EXCEPT ![t] = "running"]
    /\ last' = last + 1
    /\ grant' = [grant EXCEPT ![t] = last']
    /\ UNCHANGED winner

(* A queued task stops at once, a running one is asked to.                 *)
Cancel(t) ==
    /\ \/ /\ state[t] = "queued"
          /\ state' = [state EXCEPT ![t] = "cancelled"]
       \/ /\ state[t] = "running"
          /\ state' = [state EXCEPT ![t] = "cancel_requested"]
    /\ UNCHANGED <<grant, last, winner>>

Succeed(t) ==
    /\ state[t] = "running"
    /\ state' = [state EXCEPT ![t] = "succeeded"]
    /\ winner' = [winner EXCEPT ![t] = grant[t]]
    /\ grant' = [grant EXCEPT ![t] = 0]
    /\ UNCHANGED last

Fail(t) ==
    /\ state[t] = "running"
    /\ state' = [state EXCEPT ![t] = "failed"]
    /\ grant' = [grant EXCEPT ![t] = 0]
    /\ UNCHANGED <<last, winner>>

(* Executions that end without an outcome (a retry, a cancellation obeyed, *)
(* leases recovered in one batch): the task waits again, unless its        *)
(* cancellation was asked for.                                             *)
GiveBack(S) ==
    /\ \A t \in S : state[t] \in {"running", "cancel_requested"}
    /\ state' = [t \in Task |->
                   IF t \notin S THEN state[t]
                   ELSE IF state[t] = "running" THEN "queued" ELSE "cancelled"]
    /\ grant' = [t \in Task |-> IF t \in S THEN 0 ELSE grant[t]]
    /\ UNCHANGED <<last, winner>>

Next ==
    \/ \E t \in Task :
          Submit(t) \/ Start(t) \/ Cancel(t) \/ Succeed(t) \/ Fail(t)
    \/ \E S \in SUBSET Task : GiveBack(S)

Spec == Init /\ [][Next]_lifecycle
=============================================================================
