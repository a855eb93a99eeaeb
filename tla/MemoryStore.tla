---------------------------- MODULE MemoryStore ----------------------------
(***************************************************************************)
(* The memory database of crates/shaka-memory: the episodes and the audit  *)
(* chain of each tenant.  Every operation holds the mutex of               *)
(* the connection; append_audit_event also holds an immediate transaction, *)
(* so another process cannot come between its read and its insert, and the *)
(* SQLite backup API copies the whole database or nothing.                 *)
(*                                                                         *)
(* Rows are numbered by `fresh', which stands for their UUIDs, their       *)
(* creation times and the event hash: two events never share one, and the  *)
(* number of a lost row is not used again.                                 *)
(***************************************************************************)
EXTENDS Integers, Sequences, FiniteSets

CONSTANTS
    Tenant,
    Run,        \* executions that may write to the memory
    None

VARIABLES
    episodes,   \* episodic_memory
    audit,      \* audit_events in rowid order
    snapshot,   \* the file of the last backup
    fresh       \* the number of the next row

memory_vars == <<episodes, audit, snapshot, fresh>>

Outcome == {"success", "partial_failure", "failure", "cancelled"}

EpisodicRecord == [id : Nat, tenant : Tenant, run : Run, outcome : Outcome]

AuditEvent ==
    [hash : Nat, previous : Nat \cup {None}, tenant : Tenant, run : Run \cup {None},
     action : {"tool.execute", "agent.run", "control"}, outcome : Outcome]

memory_init ==
    /\ episodes = {}
    /\ audit = << >>
    /\ snapshot = None
    /\ fresh = 0

-----------------------------------------------------------------------------

(* Mutant: the record takes the identifier of the row that comes next.     *)
EpisodeSharesId(t, r, outcome) ==
    /\ episodes' = episodes \cup {[id |-> fresh, tenant |-> t, run |-> r, outcome |-> outcome]}
    /\ UNCHANGED <<audit, snapshot, fresh>>

append_episode(t, r, outcome) ==
    /\ episodes' = episodes \cup {[id |-> fresh, tenant |-> t, run |-> r, outcome |-> outcome]}
    /\ fresh' = fresh + 1
    /\ UNCHANGED <<audit, snapshot>>

(* i is the last of the first n rows that belongs to t.                    *)
IsLast(rows, t, n, i) ==
    /\ i \in 1..n
    /\ rows[i].tenant = t
    /\ \A k \in (i + 1)..n : rows[k].tenant # t

(* Mutant: the query leaves out WHERE tenant_id.                           *)
PreviousOfAnyTenant(rows, t, n) == IF n = 0 THEN None ELSE rows[n].hash

(* SELECT event_hash ... WHERE tenant_id = t ORDER BY rowid DESC LIMIT 1   *)
previous_hash(rows, t, n) ==
    IF \E i \in 1..n : IsLast(rows, t, n, i)
    THEN rows[CHOOSE i \in 1..n : IsLast(rows, t, n, i)].hash
    ELSE None

append_audit_event(t, r, action, outcome) ==
    /\ audit' = Append(audit,
         [hash |-> fresh, previous |-> previous_hash(audit, t, Len(audit)), tenant |-> t,
          run |-> r, action |-> action, outcome |-> outcome])
    /\ fresh' = fresh + 1
    /\ UNCHANGED <<episodes, snapshot>>

(* The walk over the rows of t: each names the one before it.              *)
verify_audit_chain(rows, t) ==
    \A i \in 1..Len(rows) : rows[i].tenant = t =>
        \/ /\ rows[i].previous = None
           /\ \A j \in 1..(i - 1) : rows[j].tenant # t
        \/ \E j \in 1..(i - 1) : IsLast(rows, t, i - 1, j) /\ rows[i].previous = rows[j].hash

(* DELETE ... WHERE tenant_id = t AND created_at < cutoff                  *)
purge_older_than(t, cutoff) ==
    /\ episodes' = {e \in episodes : ~(e.tenant = t /\ e.id < cutoff)}
    /\ UNCHANGED <<audit, snapshot, fresh>>

backup_to ==
    /\ snapshot' = [episodes |-> episodes, audit |-> audit]
    /\ UNCHANGED <<episodes, audit, fresh>>

restore_from ==
    /\ snapshot # None
    /\ episodes' = snapshot.episodes
    /\ audit' = snapshot.audit
    /\ UNCHANGED <<snapshot, fresh>>
=============================================================================
