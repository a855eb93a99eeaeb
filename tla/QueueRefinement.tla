-------------------------- MODULE QueueRefinement --------------------------
(* QueueStore implements TaskLifecycle: tokens are grants, a stored result *)
(* is the grant that produced it.                                          *)
EXTENDS QueueStore

(* A column of the table, or a default for the tasks that have no row.     *)
StateOf  == [t \in Task |-> IF t \in Stored THEN task[t].status ELSE "none"]
GrantOf  == [t \in Task |-> IF t \in Stored THEN task[t].lease_token ELSE NoToken]
WinnerOf == [t \in Task |-> IF t \in Stored THEN task[t].result ELSE NoResult]

Lifecycle == INSTANCE TaskLifecycle WITH
    state <- StateOf, grant <- GrantOf, last <- nextToken - 1, winner <- WinnerOf

(* Every step of the queue (submission, claim, cancellation, a finish that *)
(* arrives late or twice, recovery of a batch of leases) is a step of the  *)
(* documented lifecycle or invisible in it: no status is skipped, no grant *)
(* is shared or reused, no late worker ends an execution that is not its   *)
(* own.                                                                    *)
ImplementsLifecycle == Lifecycle!Spec
=============================================================================
