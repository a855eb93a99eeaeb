-------------------------- MODULE QueueStoreProofs --------------------------
(* Proofs that the task queue keeps its types, its fencing, its accepted   *)
(* cancellations and its bound on attempts, that it admits each key once   *)
(* and no more than the windows and quotas allow, and that it implements   *)
(* TaskLifecycle, for any number of tasks, operators, retries, leases and  *)
(* clock values.                                                           *)
EXTENDS QueueRefinement, FiniteSetTheorems, InductionLemmas, TLAPS

(* Every lease in a worker's hands was issued, for a task that exists.     *)
LeasesIssued ==
    \A l \in leases : l.token < nextToken /\ l.task \in Stored

(* The inductive invariant.  LeasesIssued is the strengthening: without it *)
(* the next token could already be in the hands of a worker.               *)
IInv ==
    /\ TypeOK
    /\ Fencing
    /\ CancelSticks
    /\ AttemptsBounded
    /\ LeasesIssued

-----------------------------------------------------------------------------
(* A row that is stored has the shape of a row.                            *)
LEMMA StoredRow ==
    ASSUME TypeOK, NEW t \in Stored
    PROVE  t \in Task /\ task[t] \in Row
BY DEF TypeOK, Stored, Row, Absent

LEMMA StoredNumbers ==
    ASSUME TypeOK, NEW t \in Stored
    PROVE  /\ task[t].attempts \in Nat
           /\ task[t].max_attempts \in Nat
           /\ recovered[t] \in Nat
<1>1. t \in Task /\ task[t] \in Row
  BY StoredRow
<1>2. recovered[t] \in Nat
  BY <1>1 DEF TypeOK
<1>3. task[t].attempts \in Nat /\ task[t].max_attempts \in MaxAttempts
  BY <1>1 DEF Row
<1>4. MaxAttempts \subseteq Nat
  <2>1. MaxAttempts \subseteq 1..10
    BY ConstantsAssumption
  <2> QED
    BY <2>1
<1> QED
  BY <1>2, <1>3, <1>4

(* What releasing a lease changes, and that it yields a row.               *)
LEMMA ReleaseRow ==
    ASSUME NEW t, task[t] \in Row, NEW s \in Status
    PROVE  /\ Release(t, s) \in Row
           /\ Release(t, s).status = s
           /\ Release(t, s).lease_until = NoLease
           /\ Release(t, s).lease_token = NoToken
           /\ Release(t, s).cancel_requested = task[t].cancel_requested
           /\ Release(t, s).attempts = task[t].attempts
           /\ Release(t, s).max_attempts = task[t].max_attempts
           /\ Release(t, s).result = task[t].result
BY DEF Release, Row, NoLease, NoToken

(* The backoff is a duration, whatever the number of attempts.             *)
LEMMA BackoffNat ==
    ASSUME NEW n \in Nat
    PROVE  Backoff(n) \in Nat
<1> DEFINE e == IF n = 0 THEN 0 ELSE IF n - 1 < 10 THEN n - 1 ELSE 10
<1>1. e + 1 \in 1..11
  OBVIOUS
<1>2. \A i \in 1..11 : Multiplier[i] \in Nat
  BY DEF Multiplier
<1>3. Multiplier[e + 1] \in Nat
  BY <1>1, <1>2
<1>4. BaseDelay * Multiplier[e + 1] \in Nat
  BY <1>3, ConstantsAssumption
<1> QED
  BY <1>4, ConstantsAssumption DEF Backoff

(* The instants at which an operation may run.                             *)
LEMMA NowNat ==
    ASSUME TypeOK, NEW now \in Now
    PROVE  now \in Nat
BY ConstantsAssumption DEF TypeOK, Now

(* What an ended execution leaves in the row: the lease is gone, a         *)
(* requested cancellation wins over every outcome, a retry needs an        *)
(* attempt left, and only a success leaves a result, the caller's.         *)
LEMMA FinishedRow ==
    ASSUME IInv, NEW l \in leases, NEW outcome, NEW now \in Nat,
           ~LeaseLost(l, now), task[l.task].status \notin Terminal,
           NEW f, f = Finished(l, outcome, now)
    PROVE  /\ f \in Row
           /\ f.lease_token = NoToken /\ f.lease_until = NoLease
           /\ f.cancel_requested = task[l.task].cancel_requested
           /\ f.attempts = task[l.task].attempts
           /\ f.max_attempts = task[l.task].max_attempts
           /\ \/ /\ task[l.task].status = "cancel_requested"
                 /\ f.status = "cancelled" /\ f.result = NoResult
              \/ /\ task[l.task].status = "running"
                 /\ f.status = "queued" /\ f.result = NoResult
                 /\ f.attempts < f.max_attempts
              \/ /\ task[l.task].status = "running"
                 /\ f.status = "succeeded" /\ f.result = task[l.task].lease_token
              \/ /\ task[l.task].status = "running"
                 /\ f.status = "failed" /\ f.result = NoResult
<1> DEFINE t == l.task
           r == task[t]
<1>1. t \in Stored /\ t \in Task /\ r \in Row
  BY StoredRow DEF IInv, LeasesIssued
<1>2. /\ r.lease_token = l.token /\ l.token \in Nat \ {0}
      /\ r.status \in {"running", "cancel_requested"}
      /\ r.cancel_requested <=> r.status = "cancel_requested"
      /\ r.cancel_requested \in BOOLEAN
      /\ r.result = NoResult
  BY <1>1 DEF IInv, TypeOK, Fencing, CancelSticks, LeaseLost, Row, NoToken, NoResult
<1>3. CASE r.cancel_requested
  <2>1. f = [Release(t, "cancelled") EXCEPT !.cancel_requested = TRUE]
    BY <1>3 DEF Finished
  <2>2. "cancelled" \in Status
    BY DEF Status, Terminal
  <2>3. r.cancel_requested = TRUE
    BY <1>2, <1>3
  <2>4. PICK x : x = Release(t, "cancelled")
    OBVIOUS
  <2>5. /\ x \in Row /\ x.status = "cancelled"
        /\ x.lease_token = NoToken /\ x.lease_until = NoLease
        /\ x.attempts = r.attempts /\ x.max_attempts = r.max_attempts
        /\ x.result = r.result
    BY <1>1, <2>2, <2>4, ReleaseRow
  <2>6. f = [x EXCEPT !.cancel_requested = TRUE]
    BY <2>1, <2>4
  <2>7. f \in Row /\ f.cancel_requested = TRUE
    BY <2>5, <2>6 DEF Row
  <2> QED
    BY <1>2, <1>3, <2>3, <2>5, <2>6, <2>7 DEF Row
<1>4. CASE ~r.cancel_requested /\ outcome = "retryable" /\ r.attempts < r.max_attempts
  <2>1. f = [Release(t, "queued") EXCEPT !.next_attempt_at = now + Backoff(r.attempts),
                                         !.result = NoResult]
    BY <1>2, <1>4 DEF Finished
  <2>2. "queued" \in Status
    BY DEF Status, Active
  <2>3. now + Backoff(r.attempts) \in Nat
    BY <1>1, BackoffNat DEF Row
  <2>4. PICK x : x = Release(t, "queued")
    OBVIOUS
  <2>5. /\ x \in Row /\ x.status = "queued"
        /\ x.lease_token = NoToken /\ x.lease_until = NoLease
        /\ x.cancel_requested = r.cancel_requested
        /\ x.attempts = r.attempts /\ x.max_attempts = r.max_attempts
    BY <1>1, <2>2, <2>4, ReleaseRow
  <2>6. PICK d \in Nat : d = now + Backoff(r.attempts)
    BY <2>3
  <2>7. PICK y : y = [x EXCEPT !.next_attempt_at = d]
    OBVIOUS
  <2>8. f = [y EXCEPT !.result = NoResult]
    BY <2>1, <2>4, <2>6, <2>7
  <2>9. /\ y \in Row /\ y.status = "queued"
        /\ y.lease_token = NoToken /\ y.lease_until = NoLease
        /\ y.cancel_requested = r.cancel_requested
        /\ y.attempts = r.attempts /\ y.max_attempts = r.max_attempts
    BY <2>5, <2>6, <2>7 DEF Row
  <2> QED
    BY <1>2, <1>4, <2>8, <2>9 DEF Row, NoResult
<1>5. CASE /\ ~r.cancel_requested
           /\ ~(outcome = "retryable" /\ r.attempts < r.max_attempts)
           /\ outcome = "ok"
  <2>1. f = [Release(t, "succeeded") EXCEPT !.result = l.token]
    BY <1>2, <1>5 DEF Finished
  <2>2. "succeeded" \in Status
    BY DEF Status, Terminal
  <2> QED
    BY <1>1, <1>2, <1>5, <2>1, <2>2, ReleaseRow DEF Row
<1>6. CASE /\ ~r.cancel_requested
           /\ ~(outcome = "retryable" /\ r.attempts < r.max_attempts)
           /\ outcome # "ok"
  <2>1. f = [Release(t, "failed") EXCEPT !.result = NoResult]
    BY <1>2, <1>6 DEF Finished
  <2>2. "failed" \in Status
    BY DEF Status, Terminal
  <2> QED
    BY <1>1, <1>2, <1>6, <2>1, <2>2, ReleaseRow DEF Row, NoResult
<1> QED
  BY <1>3, <1>4, <1>5, <1>6

-----------------------------------------------------------------------------
(* Counting one more admission keeps a table of counters.                  *)
LEMMA CountOne ==
    ASSUME NEW D, NEW g \in [D -> Nat], NEW w
    PROVE  [g EXCEPT ![w] = @ + 1] \in [D -> Nat]
<1>1. CASE w \in D
  BY <1>1
<1>2. CASE w \notin D
  <2>1. [g EXCEPT ![w] = @ + 1] = [x \in D |-> g[x]]
    BY <1>2
  <2> QED
    BY <2>1
<1> QED
  BY <1>1, <1>2

(* A step that replaces the rows of some tasks by rows keeps every row a   *)
(* row and every task that was stored, stored.                             *)
LEMMA RowsKept ==
    ASSUME TypeOK, NEW S \in SUBSET Task, NEW f \in [S -> Row],
           task' = [t \in Task |-> IF t \in S THEN f[t] ELSE task[t]]
    PROVE  /\ task' \in [Task -> Row \cup {Absent}]
           /\ Stored' = Stored \cup S
           /\ \A t \in S : task'[t] = f[t]
           /\ \A t \in Task \ S : task'[t] = task[t]
<1>1. \A r \in Row : r.status # "absent"
  BY DEF Row, Status, Active, Terminal
<1>2. task' \in [Task -> Row \cup {Absent}]
  BY DEF TypeOK
<1>3. /\ \A t \in S : task'[t] = f[t]
      /\ \A t \in Task \ S : task'[t] = task[t]
  OBVIOUS
<1>4. \A t \in S : task'[t].status # "absent"
  BY <1>1, <1>3
<1>5. Stored' = Stored \cup S
  BY <1>3, <1>4 DEF Stored
<1> QED
  BY <1>2, <1>3, <1>5

LEMMA RowKept ==
    ASSUME TypeOK, NEW t \in Task, NEW r \in Row, task' = [task EXCEPT ![t] = r]
    PROVE  /\ task' \in [Task -> Row \cup {Absent}]
           /\ Stored' = Stored \cup {t}
           /\ task'[t] = r
           /\ \A u \in Task \ {t} : task'[u] = task[u]
<1>1. r.status # "absent"
  BY DEF Row, Status, Active, Terminal
<1> QED
  BY <1>1 DEF TypeOK, Stored

LEMMA RowRewritten ==
    ASSUME TypeOK, NEW t \in Stored, NEW r \in Row, task' = [task EXCEPT ![t] = r]
    PROVE  /\ task' \in [Task -> Row \cup {Absent}]
           /\ Stored' = Stored
           /\ task'[t] = r
           /\ \A u \in Task \ {t} : task'[u] = task[u]
<1>1. t \in Task
  BY DEF Stored
<1>2. Stored' = Stored \cup {t}
  BY <1>1, RowKept
<1>3. Stored' = Stored
  BY <1>2
<1> QED
  BY <1>1, <1>3, RowKept

(* What the invariant says of one task.                                    *)
RowOK(t) ==
    /\ task[t].status \in {"running", "cancel_requested"}
          <=> task[t].lease_token # NoToken
    /\ task[t].lease_token # NoToken <=> task[t].lease_until # NoLease
    /\ task[t].lease_token # NoToken => Newest(t, task[t].lease_token)
    /\ task[t].result # NoResult => /\ task[t].status = "succeeded"
                                    /\ Newest(t, task[t].result)
    /\ task[t].cancel_requested <=> task[t].status \in {"cancel_requested", "cancelled"}
    /\ task[t].attempts <= task[t].max_attempts + recovered[t]
    /\ task[t].status = "queued" => task[t].attempts < task[t].max_attempts + recovered[t]

LEMMA IInvByRow ==
    IInv <=> TypeOK /\ LeasesIssued /\ \A t \in Stored : RowOK(t)
BY DEF IInv, Fencing, CancelSticks, AttemptsBounded, RowOK

LEMMA IInvByRowNext ==
    ASSUME TypeOK', LeasesIssued', \A t \in Stored' : RowOK(t)'
    PROVE  IInv'
BY DEF IInv, Fencing, CancelSticks, AttemptsBounded, RowOK

(* A task whose row and leases a step leaves alone keeps it.               *)
LEMMA OtherRows ==
    ASSUME NEW t, RowOK(t), task'[t] = task[t], recovered'[t] = recovered[t],
           \A l \in leases' : l.task = t => l \in leases,
           leases \subseteq leases'
    PROVE  RowOK(t)'
BY DEF RowOK, Newest

-----------------------------------------------------------------------------
(* One lemma per operation.                                                *)

LEMMA SubmitKeeps ==
    ASSUME IInv, NEW op \in Operator, NEW k \in Key, NEW fp \in Fingerprint,
           NEW c \in Cost, NEW p \in Priority, NEW m \in MaxAttempts,
           NEW now \in Now, submit_created(op, k, fp, c, p, m, now)
    PROVE  IInv' /\ Stored \subseteq Stored'
<1>1. PICK t \in Task \ Stored : task' = [task EXCEPT ![t] = NewRow(op, k, fp, c, p, m, now)]
  BY DEF submit_created
<1> DEFINE r == NewRow(op, k, fp, c, p, m, now)
<1>2. now \in Nat
  BY NowNat DEF IInv
<1>3. r \in Row
  BY <1>2 DEF NewRow, Row, Status, Active, NoLease, NoToken, NoResult
<1>4. /\ task' \in [Task -> Row \cup {Absent}]
      /\ Stored' = Stored \cup {t}
      /\ task'[t] = r
      /\ \A u \in Task \ {t} : task'[u] = task[u]
  BY <1>1, <1>3, RowKept DEF IInv
<1>5. rate' \in [Scope -> [0..MaxClock -> Nat]]
  <2>1. \A s \in Scope : rate[s] \in [0..MaxClock -> Nat]
    BY DEF IInv, TypeOK
  <2>2. rate' = Charge(op, now)
    BY DEF submit_created
  <2>3. ASSUME NEW s \in Scope, NEW w
        PROVE  [rate[s] EXCEPT ![w] = @ + 1] \in [0..MaxClock -> Nat]
    BY <2>1, CountOne
  <2> DEFINE n(s) == IF s \in ScopesOf(op)
                     THEN [rate[s] EXCEPT ![fixed_window_start(now)] = @ + 1]
                     ELSE rate[s]
  <2>4. \A s \in Scope : n(s) \in [0..MaxClock -> Nat]
    BY <2>1, <2>3
  <2>5. rate' = [s \in Scope |-> n(s)]
    BY <2>2 DEF Charge
  <2> HIDE DEF n
  <2> QED
    BY <2>4, <2>5
<1>6. TypeOK'
  BY <1>4, <1>5 DEF IInv, TypeOK, submit_created
<1>7. LeasesIssued'
  BY <1>4 DEF IInv, LeasesIssued, submit_created
<1>8. \A u \in Stored : RowOK(u)'
  <2> TAKE u \in Stored
  <2>1. u \in Task /\ u # t /\ RowOK(u)
    BY IInvByRow DEF Stored
  <2> QED
    BY <1>4, <2>1, OtherRows DEF submit_created
<1>9. RowOK(t)'
  <2>1. /\ recovered'[t] \in Nat /\ m \in 1..10
    BY ConstantsAssumption DEF IInv, TypeOK, submit_created
  <2> QED
    BY <1>4, <2>1 DEF RowOK, NewRow, NoToken, NoLease, NoResult
<1> QED
  BY <1>4, <1>6, <1>7, <1>8, <1>9, IInvByRowNext

LEMMA ClaimKeeps ==
    ASSUME IInv, NEW t \in Task, NEW now \in Now, claim_task(t, now)
    PROVE  IInv' /\ Stored \subseteq Stored'
<1> DEFINE r == [task[t] EXCEPT !.status = "running",
                                !.attempts = @ + 1,
                                !.lease_until = now + LeaseFor,
                                !.lease_token = nextToken]
<1>1. now \in Nat
  BY NowNat DEF IInv
<1>2. t \in Stored /\ task[t] \in Row /\ task[t].status = "queued" /\ ~task[t].cancel_requested
  BY StoredRow DEF IInv, claim_task, Claimable
<1>3. /\ now + LeaseFor \in Nat \ {0}
      /\ nextToken \in Nat \ {0}
  BY <1>1, ConstantsAssumption DEF IInv, TypeOK
<1>4. /\ r \in Row
      /\ r.status = "running" /\ r.lease_token = nextToken
      /\ r.lease_until = now + LeaseFor
      /\ r.cancel_requested = task[t].cancel_requested
      /\ r.attempts = task[t].attempts + 1
      /\ r.max_attempts = task[t].max_attempts
      /\ r.result = task[t].result
  <2> PICK x, n, k : x = task[t] /\ n = now + LeaseFor /\ k = nextToken
    OBVIOUS
  <2>1. x \in Row /\ n \in Nat /\ k \in Nat /\ x.attempts + 1 \in Nat
    BY <1>2, <1>3 DEF Row
  <2>2. "running" \in Status
    BY DEF Status, Active
  <2>3. r = [x EXCEPT !.status = "running", !.attempts = @ + 1,
                      !.lease_until = n, !.lease_token = k]
    OBVIOUS
  <2> HIDE DEF r
  <2> QED
    BY <2>1, <2>2, <2>3 DEF Row
<1>5. task' = [task EXCEPT ![t] = r]
  BY DEF claim_task
<1> HIDE DEF r
<1>6. /\ task' \in [Task -> Row \cup {Absent}]
      /\ Stored' = Stored
      /\ task'[t] = r
      /\ \A u \in Task \ {t} : task'[u] = task[u]
  BY <1>2, <1>4, <1>5, RowRewritten DEF IInv
<1>7. /\ nextToken' = nextToken + 1
      /\ leases' = leases \cup {[task |-> t, token |-> nextToken]}
      /\ UNCHANGED <<rate, clock, recovered>>
  BY DEF claim_task
<1>8. TypeOK'
  BY <1>3, <1>6, <1>7 DEF IInv, TypeOK
<1>9. LeasesIssued'
  BY <1>2, <1>3, <1>6, <1>7 DEF IInv, LeasesIssued, TypeOK
<1>10. \A u \in Stored \ {t} : RowOK(u)'
  <2> TAKE u \in Stored \ {t}
  <2>1. u \in Task /\ RowOK(u)
    BY IInvByRow DEF Stored
  <2> QED
    BY <1>6, <1>7, <2>1, OtherRows
<1>11. RowOK(t)'
  <2>1. RowOK(t) /\ recovered[t] \in Nat /\ task[t].attempts \in Nat
        /\ task[t].max_attempts \in Nat
    BY <1>2, IInvByRow, StoredNumbers
  <2> PICK k : k = nextToken
    OBVIOUS
  <2>2. Newest(t, k)'
    <3>1. \A l \in leases' : l.task = t => l.token <= k
      BY <1>3, <1>7 DEF IInv, LeasesIssued, TypeOK
    <3> QED
      BY <1>7, <3>1 DEF Newest
  <2>3. task[t].result = NoResult
    BY <1>2, <2>1 DEF RowOK
  <2> QED
    BY <1>2, <1>3, <1>4, <1>6, <1>7, <2>1, <2>2, <2>3 DEF RowOK, NoToken, NoLease, NoResult
<1> QED
  BY <1>6, <1>8, <1>9, <1>10, <1>11, IInvByRowNext

(* A step that replaces the row of one stored task and gives no lease.     *)
LEMMA RewriteKeeps ==
    ASSUME IInv, NEW t \in Stored, NEW r \in Row, task' = [task EXCEPT ![t] = r],
           UNCHANGED <<rate, clock, nextToken, leases, recovered>>, RowOK(t)'
    PROVE  IInv' /\ Stored \subseteq Stored'
<1>1. t \in Task
  BY DEF Stored
<1>2. /\ task' \in [Task -> Row \cup {Absent}]
      /\ Stored' = Stored
      /\ \A u \in Task \ {t} : task'[u] = task[u]
  BY RowRewritten DEF IInv
<1>3. TypeOK' /\ LeasesIssued'
  BY <1>2 DEF IInv, TypeOK, LeasesIssued
<1>4. \A u \in Stored \ {t} : RowOK(u)'
  <2> TAKE u \in Stored \ {t}
  <2>1. u \in Task /\ RowOK(u)
    BY IInvByRow DEF Stored
  <2> QED
    BY <1>2, <2>1, OtherRows
<1> QED
  BY <1>2, <1>3, <1>4, IInvByRowNext

LEMMA CancelKeeps ==
    ASSUME IInv, NEW t \in Task, request_cancel(t)
    PROVE  IInv' /\ Stored \subseteq Stored'
<1>1. t \in Stored /\ task[t] \in Row /\ RowOK(t)
  BY StoredRow, IInvByRow DEF request_cancel
<1>2. UNCHANGED <<rate, clock, nextToken, leases, recovered>>
  BY DEF request_cancel
<1>3. ASSUME NEW s \in {"cancelled", "cancel_requested"},
             s = "cancelled" => task[t].status = "queued",
             s = "cancel_requested" => task[t].status \in {"running", "cancel_requested"},
             task' = [task EXCEPT ![t].status = s, ![t].cancel_requested = TRUE]
      PROVE  IInv' /\ Stored \subseteq Stored'
  <2>1. PICK r : r = [task[t] EXCEPT !.status = s, !.cancel_requested = TRUE]
    OBVIOUS
  <2>2. /\ r \in Row /\ r.status = s /\ r.cancel_requested = TRUE
        /\ r.lease_token = task[t].lease_token /\ r.lease_until = task[t].lease_until
        /\ r.attempts = task[t].attempts /\ r.max_attempts = task[t].max_attempts
        /\ r.result = task[t].result
    BY <1>1, <2>1 DEF Row, Status, Active, Terminal
  <2>3. task' = [task EXCEPT ![t] = r]
    BY <1>3, <2>1
  <2>4. task'[t] = r
    BY <2>3 DEF IInv, TypeOK
  <2>5. RowOK(t)'
    <3>1. \A k : Newest(t, k)' <=> Newest(t, k)
      BY <1>2 DEF Newest
    <3>2. task[t].result = NoResult
      BY <1>1, <1>3 DEF RowOK
    <3> QED
      BY <1>1, <1>2, <1>3, <2>2, <2>4, <3>1, <3>2 DEF RowOK
  <2> QED
    BY <1>1, <1>2, <2>2, <2>3, <2>5, RewriteKeeps
<1>4. CASE task[t].status = "queued"
  BY <1>3, <1>4 DEF request_cancel
<1>5. CASE task[t].status \in {"running", "cancel_requested"}
  BY <1>3, <1>5 DEF request_cancel
<1>6. CASE task[t].status \notin {"queued", "running", "cancel_requested"}
  <2>1. task' = task
    BY <1>6 DEF request_cancel
  <2> QED
    BY <1>2, <2>1 DEF IInv, TypeOK, Fencing, CancelSticks, AttemptsBounded,
                      LeasesIssued, Stored, Newest
<1> QED
  BY <1>4, <1>5, <1>6

LEMMA FinishKeeps ==
    ASSUME IInv, NEW l \in leases, NEW outcome, NEW now \in Now,
           finish_held(l, outcome, now)
    PROVE  IInv' /\ Stored \subseteq Stored'
<1> DEFINE t == l.task
<1>1. PICK r : r = Finished(l, outcome, now)
  OBVIOUS
<1>2. t \in Stored /\ t \in Task /\ RowOK(t) /\ task[t] \in Row
  BY StoredRow, IInvByRow DEF IInv, LeasesIssued
<1>3. ~LeaseLost(l, now) /\ task[t].status \notin Terminal /\ now \in Nat
  BY NowNat DEF finish_held, IInv
<1>4. /\ r \in Row
      /\ r.lease_token = NoToken /\ r.lease_until = NoLease
      /\ r.cancel_requested = task[t].cancel_requested
      /\ r.attempts = task[t].attempts
      /\ r.max_attempts = task[t].max_attempts
      /\ \/ /\ task[t].status = "cancel_requested"
            /\ r.status = "cancelled" /\ r.result = NoResult
         \/ /\ task[t].status = "running"
            /\ r.status = "queued" /\ r.result = NoResult
            /\ r.attempts < r.max_attempts
         \/ /\ task[t].status = "running"
            /\ r.status = "succeeded" /\ r.result = task[t].lease_token
         \/ /\ task[t].status = "running"
            /\ r.status = "failed" /\ r.result = NoResult
  BY <1>1, <1>3, FinishedRow
<1>5. /\ task' = [task EXCEPT ![t] = r]
      /\ UNCHANGED <<rate, clock, nextToken, leases, recovered>>
  BY <1>1 DEF finish_held
<1>6. task'[t] = r
  BY <1>2, <1>5 DEF IInv, TypeOK
<1>7. RowOK(t)'
  <2>1. recovered[t] \in Nat /\ task[t].attempts \in Nat /\ task[t].max_attempts \in Nat
    BY <1>2, StoredNumbers DEF IInv
  <2> PICK k : k = task[t].lease_token
    OBVIOUS
  <2>2. Newest(t, k)'
    BY <1>2, <1>4, <1>5 DEF RowOK, Newest
  <2> QED
    BY <1>2, <1>4, <1>5, <1>6, <2>1, <2>2 DEF RowOK
<1> QED
  BY <1>2, <1>4, <1>5, <1>7, RewriteKeeps

LEMMA RecoverKeeps ==
    ASSUME IInv, NEW now \in Now, recover_expired_leases(now)
    PROVE  IInv' /\ Stored \subseteq Stored'
<1> DEFINE S == Expired(now)
           to(t) == IF task[t].cancel_requested THEN "cancelled" ELSE "queued"
<1>1. S \subseteq Stored /\ S \subseteq Task
  BY DEF Expired, Stored
<1>2. \A t \in S : to(t) \in Status
  BY DEF Status, Active, Terminal
<1>3. \A t \in S : Release(t, to(t)) \in Row
  BY <1>1, <1>2, StoredRow, ReleaseRow DEF IInv
<1>4. PICK f : f = [t \in S |-> Release(t, to(t))]
  OBVIOUS
<1>5. f \in [S -> Row]
  BY <1>3, <1>4
<1>6. task' = [t \in Task |-> IF t \in S THEN f[t] ELSE task[t]]
  BY <1>4 DEF recover_expired_leases
<1>7. /\ recovered' = [t \in Task |-> IF t \in S THEN recovered[t] + 1 ELSE recovered[t]]
      /\ UNCHANGED <<rate, clock, nextToken, leases>>
  BY DEF recover_expired_leases
<1>8. /\ task' \in [Task -> Row \cup {Absent}]
      /\ Stored' = Stored \cup S
      /\ \A t \in S : task'[t] = f[t]
      /\ \A t \in Task \ S : task'[t] = task[t]
  BY <1>1, <1>5, <1>6, RowsKept DEF IInv
<1>9. Stored' = Stored
  BY <1>1, <1>8
<1>10. recovered' \in [Task -> Nat]
  BY <1>7 DEF IInv, TypeOK
<1>11. TypeOK' /\ LeasesIssued'
  BY <1>7, <1>8, <1>9, <1>10 DEF IInv, TypeOK, LeasesIssued
<1>12. \A u \in Stored \ S : RowOK(u)'
  <2> TAKE u \in Stored \ S
  <2>1. u \in Task /\ RowOK(u)
    BY IInvByRow DEF Stored
  <2>2. recovered'[u] = recovered[u]
    BY <1>7, <2>1
  <2> QED
    BY <1>7, <1>8, <2>1, <2>2, OtherRows
<1>13. \A t \in S : RowOK(t)'
  <2> TAKE t \in S
  <2>1. t \in Stored /\ t \in Task /\ task[t] \in Row /\ RowOK(t)
    BY <1>1, IInvByRow, StoredRow
  <2>2. task[t].attempts \in Nat /\ task[t].max_attempts \in Nat /\ recovered[t] \in Nat
    BY <2>1, StoredNumbers DEF IInv
  <2>3. task'[t] = Release(t, to(t)) /\ recovered'[t] = recovered[t] + 1
    BY <1>4, <1>7, <1>8, <2>1
  <2>4. to(t) \in Status
    BY <1>2
  <2>5. task[t].status \in {"running", "cancel_requested"}
    BY DEF Expired
  <2>6. /\ task'[t].status = to(t)
        /\ task'[t].lease_until = NoLease /\ task'[t].lease_token = NoToken
        /\ task'[t].cancel_requested = task[t].cancel_requested
        /\ task'[t].attempts = task[t].attempts
        /\ task'[t].max_attempts = task[t].max_attempts
        /\ task'[t].result = task[t].result
    BY <2>1, <2>3, <2>4, ReleaseRow
  <2>7. task[t].result = NoResult
    BY <2>1, <2>5 DEF RowOK
  <2> QED
    BY <2>1, <2>2, <2>3, <2>5, <2>6, <2>7 DEF RowOK
<1> QED
  BY <1>9, <1>11, <1>12, <1>13, IInvByRowNext

LEMMA TickKeeps ==
    ASSUME IInv, Tick
    PROVE  IInv' /\ Stored \subseteq Stored'
<1>1. clock' \in 0..MaxClock /\ UNCHANGED <<task, rate, nextToken, leases, recovered>>
  BY ConstantsAssumption DEF IInv, TypeOK, Tick
<1> QED
  BY <1>1 DEF IInv, TypeOK, Fencing, CancelSticks, AttemptsBounded, LeasesIssued,
              Stored, Newest

LEMMA StutterKeeps ==
    ASSUME IInv, UNCHANGED vars
    PROVE  IInv' /\ Stored \subseteq Stored'
BY DEF vars, IInv, TypeOK, Fencing, CancelSticks, AttemptsBounded, LeasesIssued,
       Stored, Newest

(* A step of the queue leaves everything alone or is one of the six that   *)
(* change it.                                                              *)
LEMMA Steps ==
    ASSUME [Next]_vars
    PROVE  \/ UNCHANGED vars
           \/ \E op \in Operator, k \in Key, fp \in Fingerprint, c \in Cost,
                 p \in Priority, m \in MaxAttempts, now \in Now :
                 submit_created(op, k, fp, c, p, m, now)
           \/ \E t \in Task, now \in Now : claim_task(t, now)
           \/ \E t \in Task : request_cancel(t)
           \/ \E l \in leases, outcome \in {"ok", "error", "retryable"}, now \in Now :
                 finish_held(l, outcome, now)
           \/ \E now \in Now : recover_expired_leases(now)
           \/ Tick
<1>1. ASSUME NEW op \in Operator, NEW now \in Now, submit_task(op, now)
      PROVE  \/ UNCHANGED vars
             \/ \E k \in Key, fp \in Fingerprint, c \in Cost, p \in Priority, m \in MaxAttempts :
                   submit_created(op, k, fp, c, p, m, now)
  BY <1>1 DEF submit_task, submit_forbidden, submit_replay, submit_conflict,
              submit_rate_limited, submit_over_quota
<1>2. ASSUME NEW now \in Now, claim_next(now)
      PROVE  UNCHANGED vars \/ \E t \in Task : claim_task(t, now)
  BY <1>2 DEF claim_next, claim_empty
<1>3. ASSUME NEW l \in leases, NEW now \in Now, finish_task(l, now)
      PROVE  \/ UNCHANGED vars
             \/ \E outcome \in {"ok", "error", "retryable"} : finish_held(l, outcome, now)
  BY <1>3 DEF finish_task, finish_terminal, finish_lease_lost
<1> QED
  BY <1>1, <1>2, <1>3 DEF Next

(* The queue keeps its inductive invariant.                                *)
LEMMA InitHolds == Init => IInv
<1> SUFFICES ASSUME Init PROVE IInv
  OBVIOUS
<1>1. Stored = {}
  BY DEF Init, Stored, Absent
<1>2. TypeOK
  <2>1. rate \in [Scope -> [0..MaxClock -> Nat]]
    BY DEF Init
  <2> QED
    BY <2>1, ConstantsAssumption DEF Init, TypeOK
<1> QED
  BY <1>1, <1>2 DEF Init, IInv, Fencing, CancelSticks, AttemptsBounded, LeasesIssued

LEMMA StepHolds == IInv /\ [Next]_vars => IInv'
<1> SUFFICES ASSUME IInv, [Next]_vars PROVE IInv'
  OBVIOUS
<1> QED
  BY Steps, SubmitKeeps, ClaimKeeps, CancelKeeps, FinishKeeps, RecoverKeeps, TickKeeps,
     StutterKeeps

THEOREM Invariance == Spec => []IInv
  BY InitHolds, StepHolds, PTL DEF Spec

(* Every reachable state is well typed, for all values of the constants.   *)
THEOREM TypeCorrect == Spec => []TypeOK
<1>1. IInv => TypeOK
  BY DEF IInv
<1> QED
  BY Invariance, <1>1, PTL

(* A row carries the newest lease issued for it or none, and a result was  *)
(* written by the newest lease: no worker that lost its lease ever writes  *)
(* (claim_next, finish_task, recover_expired_leases).                      *)
THEOREM FencingHolds == Spec => []Fencing
<1>1. IInv => Fencing
  BY DEF IInv
<1> QED
  BY Invariance, <1>1, PTL

(* No retry, late success, expiry or recovery undoes a cancellation        *)
(* (request_cancel).                                                       *)
THEOREM CancelHolds == Spec => []CancelSticks
<1>1. IInv => CancelSticks
  BY DEF IInv
<1> QED
  BY Invariance, <1>1, PTL

(* Executions never exceed max_attempts plus the recoveries of the task    *)
(* (finish_task, recover_expired_leases).                                  *)
THEOREM AttemptsHold == Spec => []AttemptsBounded
<1>1. IInv => AttemptsBounded
  BY DEF IInv
<1> QED
  BY Invariance, <1>1, PTL

(* What one step may do to the tasks that exist.                           *)
LEMMA FinalStep ==
    ASSUME IInv, [Next]_vars, NEW t \in Stored
    PROVE  /\ task'[t].status # "absent"
           /\ task[t].status \in Terminal => task'[t] = task[t]
<1>1. t \in Task /\ task \in [Task -> Row \cup {Absent}]
  BY DEF IInv, TypeOK, Stored
<1>2. Stored \subseteq Stored'
  BY Steps, SubmitKeeps, ClaimKeeps, CancelKeeps, FinishKeeps, RecoverKeeps, TickKeeps,
     StutterKeeps
<1>3. ASSUME NEW u \in Task \ {t}, NEW r, task' = [task EXCEPT ![u] = r]
      PROVE  task'[t] = task[t]
  BY <1>1, <1>3
<1>4. SUFFICES ASSUME task[t].status \in Terminal
               PROVE  task'[t] = task[t]
  BY <1>2 DEF Stored
<1>5. CASE UNCHANGED vars \/ Tick
  BY <1>5 DEF vars, Tick
<1>6. ASSUME NEW op \in Operator, NEW k \in Key, NEW fp \in Fingerprint, NEW c \in Cost,
             NEW p \in Priority, NEW m \in MaxAttempts, NEW now \in Now,
             submit_created(op, k, fp, c, p, m, now)
      PROVE  task'[t] = task[t]
  BY <1>3, <1>6 DEF submit_created
<1>7. ASSUME NEW u \in Task, NEW now \in Now, claim_task(u, now)
      PROVE  task'[t] = task[t]
  <2>1. u # t
    BY <1>4, <1>7 DEF claim_task, Claimable, Terminal
  <2>2. PICK r : task' = [task EXCEPT ![u] = r]
    BY <1>7 DEF claim_task
  <2> QED
    BY <1>3, <2>1, <2>2
<1>8. ASSUME NEW u \in Task, request_cancel(u)
      PROVE  task'[t] = task[t]
  <2>1. CASE u # t
    BY <1>1, <1>8, <2>1 DEF request_cancel
  <2>2. CASE u = t
    BY <1>4, <1>8, <2>2 DEF request_cancel, Terminal
  <2> QED
    BY <2>1, <2>2
<1>9. ASSUME NEW l \in leases, NEW outcome, NEW now \in Now, finish_held(l, outcome, now)
      PROVE  task'[t] = task[t]
  <2>1. l.task \in Task \ {t}
    BY <1>4, <1>9 DEF IInv, LeasesIssued, Stored, finish_held
  <2> QED
    BY <1>3, <1>9, <2>1 DEF finish_held
<1>10. ASSUME NEW now \in Now, recover_expired_leases(now)
      PROVE  task'[t] = task[t]
  BY <1>1, <1>4, <1>10 DEF recover_expired_leases, Expired, Terminal
<1> QED
  BY <1>5, <1>6, <1>7, <1>8, <1>9, <1>10, Steps

(* A terminal task never changes again and no row is deleted               *)
(* (TaskStatus::is_terminal).                                              *)
THEOREM TerminalHolds == Spec => TerminalIsFinal
<1>1. IInv /\ [Next]_vars
        => [\A t \in Stored : /\ task'[t].status # "absent"
                              /\ task[t].status \in Terminal => task'[t] = task[t]]_vars
  BY FinalStep
<1> QED
  BY Invariance, <1>1, PTL DEF Spec, TerminalIsFinal

-----------------------------------------------------------------------------
(* Admission: keys, rate windows and quotas.                               *)

(* The invariant of admission.  The store is finite because every step     *)
(* adds at most one row; without that the cardinalities say nothing.       *)
AdmissionInv ==
    /\ IsFiniteSet(Stored)
    /\ OneTaskPerKey
    /\ RateIsAdmissions
    /\ WithinQuotas

(* What a step leaves alone when it admits nothing.                        *)
SameAdmission(t) ==
    /\ task'[t].operator = task[t].operator
    /\ task'[t].key = task[t].key
    /\ task'[t].cost = task[t].cost
    /\ task'[t].created_at = task[t].created_at
    /\ task'[t].status \in Active => task[t].status \in Active

AdmitsNothing ==
    /\ Stored' = Stored
    /\ rate' = rate
    /\ \A t \in Stored : SameAdmission(t)

LEMMA ReleaseAdmission ==
    ASSUME NEW t, task[t] \in Row, NEW s, NEW x, x = Release(t, s)
    PROVE  /\ x.operator = task[t].operator /\ x.key = task[t].key
           /\ x.cost = task[t].cost /\ x.created_at = task[t].created_at
BY DEF Release, Row

(* Only a submission that is admitted adds a row, counts in a window or    *)
(* makes an ended task active.                                             *)
LEMMA OnlySubmitAdmits ==
    ASSUME IInv, [Next]_vars
    PROVE  \/ AdmitsNothing
           \/ \E op \in Operator, k \in Key, fp \in Fingerprint, c \in Cost,
                 p \in Priority, m \in MaxAttempts, now \in Now :
                 submit_created(op, k, fp, c, p, m, now)
<1>0. ASSUME NEW t \in Stored, NEW r \in Row, task' = [task EXCEPT ![t] = r],
             rate' = rate, task[t].status \in Active,
             r.operator = task[t].operator, r.key = task[t].key,
             r.cost = task[t].cost, r.created_at = task[t].created_at
      PROVE  AdmitsNothing
  <2>1. Stored' = Stored /\ task'[t] = r /\ \A u \in Task \ {t} : task'[u] = task[u]
    BY <1>0, RowRewritten DEF IInv
  <2>2. SameAdmission(t)
    BY <1>0, <2>1 DEF SameAdmission
  <2>3. \A u \in Stored \ {t} : SameAdmission(u)
    BY <2>1 DEF SameAdmission, Stored
  <2> QED
    BY <1>0, <2>1, <2>2, <2>3 DEF AdmitsNothing
<1>1. CASE UNCHANGED vars \/ Tick
  BY <1>1 DEF vars, Tick, AdmitsNothing, SameAdmission, Stored
<1>2. ASSUME NEW t \in Task, NEW now \in Now, claim_task(t, now)
      PROVE  AdmitsNothing
  <2>1. /\ t \in Stored /\ task[t] \in Row /\ task[t].status = "queued"
        /\ now + LeaseFor \in Nat /\ nextToken \in Nat
    <3>1. TypeOK /\ t \in Stored /\ task[t].status = "queued"
      BY <1>2 DEF IInv, claim_task, Claimable
    <3>2. now \in Nat /\ LeaseFor \in Nat /\ nextToken \in Nat
      BY <3>1, NowNat, ConstantsAssumption DEF TypeOK
    <3> QED
      BY <3>1, <3>2, StoredRow
  <2> PICK x, n, k : x = task[t] /\ n = now + LeaseFor /\ k = nextToken
    OBVIOUS
  <2>2. PICK r : r = [x EXCEPT !.status = "running", !.attempts = @ + 1,
                               !.lease_until = n, !.lease_token = k]
    OBVIOUS
  <2>3. x \in Row /\ n \in Nat /\ k \in Nat /\ x.attempts + 1 \in Nat
    BY <2>1 DEF Row
  <2>4. "running" \in Status /\ "queued" \in Active
    BY DEF Status, Active
  <2>5. /\ r \in Row /\ r.operator = x.operator /\ r.key = x.key
        /\ r.cost = x.cost /\ r.created_at = x.created_at
    BY <2>2, <2>3, <2>4 DEF Row
  <2>6. task' = [task EXCEPT ![t] = r] /\ rate' = rate
    BY <1>2, <2>2 DEF claim_task
  <2> QED
    BY <1>0, <2>1, <2>4, <2>5, <2>6
<1>3. ASSUME NEW t \in Task, request_cancel(t)
      PROVE  AdmitsNothing
  <2>1. t \in Stored /\ task[t] \in Row /\ rate' = rate
    BY <1>3, StoredRow DEF request_cancel, IInv
  <2>2. ASSUME NEW s \in {"cancelled", "cancel_requested"}, task[t].status \in Active,
               task' = [task EXCEPT ![t].status = s, ![t].cancel_requested = TRUE]
        PROVE  AdmitsNothing
    <3>1. PICK r : r = [task[t] EXCEPT !.status = s, !.cancel_requested = TRUE]
      OBVIOUS
    <3>2. /\ r \in Row /\ r.operator = task[t].operator /\ r.key = task[t].key
          /\ r.cost = task[t].cost /\ r.created_at = task[t].created_at
      BY <2>1, <3>1 DEF Row, Status, Active, Terminal
    <3>3. task' = [task EXCEPT ![t] = r]
      BY <2>2, <3>1
    <3> QED
      BY <1>0, <2>1, <2>2, <3>2, <3>3
  <2>3. CASE task[t].status = "queued"
    BY <1>3, <2>2, <2>3 DEF request_cancel, Active
  <2>4. CASE task[t].status \in {"running", "cancel_requested"}
    BY <1>3, <2>2, <2>4 DEF request_cancel, Active
  <2>5. CASE task[t].status \notin {"queued", "running", "cancel_requested"}
    BY <1>3, <2>1, <2>5 DEF request_cancel, AdmitsNothing, SameAdmission, Stored
  <2> QED
    BY <2>3, <2>4, <2>5
<1>4. ASSUME NEW l \in leases, NEW outcome, NEW now \in Now, finish_held(l, outcome, now)
      PROVE  AdmitsNothing
  <2>1. PICK r : r = Finished(l, outcome, now)
    OBVIOUS
  <2>2. /\ l.task \in Stored /\ task[l.task] \in Row /\ now \in Nat
        /\ ~LeaseLost(l, now) /\ task[l.task].status \notin Terminal
        /\ task' = [task EXCEPT ![l.task] = r] /\ rate' = rate
    BY <1>4, <2>1, StoredRow, NowNat DEF IInv, LeasesIssued, finish_held
  <2>3. r \in Row
    BY <2>1, <2>2, FinishedRow
  <2>4. task[l.task].status \in Active
    BY <2>2 DEF Row, Status
  <2>5. PICK s \in Status :
          \E x : /\ x = Release(l.task, s)
                 /\ \/ r = [x EXCEPT !.cancel_requested = TRUE]
                    \/ \E n : r = [x EXCEPT !.next_attempt_at = n, !.result = NoResult]
                    \/ \E n : r = [x EXCEPT !.result = n]
    <3>1. {"cancelled", "queued", "succeeded", "failed"} \subseteq Status
      BY DEF Status, Active, Terminal
    <3> QED
      BY <2>1, <3>1 DEF Finished
  <2>6. PICK x : /\ x = Release(l.task, s)
                 /\ \/ r = [x EXCEPT !.cancel_requested = TRUE]
                    \/ \E n : r = [x EXCEPT !.next_attempt_at = n, !.result = NoResult]
                    \/ \E n : r = [x EXCEPT !.result = n]
    BY <2>5
  <2>7. /\ x.operator = task[l.task].operator /\ x.key = task[l.task].key
        /\ x.cost = task[l.task].cost /\ x.created_at = task[l.task].created_at
        /\ x \in Row
    <3>1. x = Release(l.task, s)
      BY <2>6
    <3> QED
      BY <2>2, <3>1, ReleaseAdmission, ReleaseRow
  <2>8. /\ r.operator = x.operator /\ r.key = x.key
        /\ r.cost = x.cost /\ r.created_at = x.created_at
    BY <2>6, <2>7 DEF Row
  <2> QED
    BY <1>0, <2>2, <2>3, <2>4, <2>7, <2>8
<1>5. ASSUME NEW now \in Now, recover_expired_leases(now)
      PROVE  AdmitsNothing
  <2> DEFINE S == Expired(now)
             to(t) == IF task[t].cancel_requested THEN "cancelled" ELSE "queued"
  <2>1. S \subseteq Stored /\ S \subseteq Task /\ rate' = rate
    BY <1>5 DEF Expired, Stored, recover_expired_leases
  <2>2. \A t \in S : to(t) \in Status
    BY DEF Status, Active, Terminal
  <2>3. \A t \in S : Release(t, to(t)) \in Row
    BY <2>1, <2>2, StoredRow, ReleaseRow DEF IInv
  <2>4. PICK f : f = [t \in S |-> Release(t, to(t))]
    OBVIOUS
  <2>5. f \in [S -> Row]
    BY <2>3, <2>4
  <2>6. task' = [t \in Task |-> IF t \in S THEN f[t] ELSE task[t]]
    BY <1>5, <2>4 DEF recover_expired_leases
  <2>7. /\ Stored' = Stored \cup S
        /\ \A t \in S : task'[t] = f[t]
        /\ \A t \in Task \ S : task'[t] = task[t]
    BY <2>1, <2>5, <2>6, RowsKept DEF IInv
  <2>8. \A t \in S : SameAdmission(t)
    <3> TAKE t \in S
    <3>1. task'[t] = Release(t, to(t)) /\ task[t] \in Row
      BY <2>1, <2>4, <2>7, StoredRow DEF IInv
    <3>2. task[t].status \in Active
      BY DEF Expired, Active
    <3> QED
      BY <3>1, <3>2, ReleaseAdmission DEF SameAdmission
  <2>9. \A t \in Stored \ S : SameAdmission(t)
    BY <2>7 DEF SameAdmission, Stored
  <2>10. Stored' = Stored
    BY <2>1, <2>7
  <2> HIDE DEF S
  <2> QED
    BY <2>1, <2>8, <2>9, <2>10 DEF AdmitsNothing
<1> QED
  BY <1>1, <1>2, <1>3, <1>4, <1>5, Steps

(* Such a step keeps the invariant.                                        *)
LEMMA AdmissionUntouched ==
    ASSUME IInv, AdmissionInv, AdmitsNothing
    PROVE  AdmissionInv'
<1>1. /\ Stored' = Stored /\ rate' = rate
      /\ \A t \in Stored : /\ task'[t].operator = task[t].operator
                           /\ task'[t].key = task[t].key
                           /\ task'[t].cost = task[t].cost
                           /\ task'[t].created_at = task[t].created_at
                           /\ task'[t].status \in Active => task[t].status \in Active
  BY DEF AdmitsNothing, SameAdmission
<1>2. IsFiniteSet(Stored')
  BY <1>1 DEF AdmissionInv
<1>3. OneTaskPerKey'
  BY <1>1 DEF AdmissionInv, OneTaskPerKey
<1>4. RateIsAdmissions'
  <2> SUFFICES ASSUME NEW s \in Scope, NEW w \in 0..MaxClock
               PROVE  rate'[s][w] =
                        Cardinality({t \in Stored' :
                                       /\ s \in ScopesOf(task'[t].operator)
                                       /\ fixed_window_start(task'[t].created_at) = w})
    BY DEF RateIsAdmissions
  <2>1. {t \in Stored' : /\ s \in ScopesOf(task'[t].operator)
                         /\ fixed_window_start(task'[t].created_at) = w}
        = {t \in Stored : /\ s \in ScopesOf(task[t].operator)
                          /\ fixed_window_start(task[t].created_at) = w}
    BY <1>1
  <2> QED
    BY <1>1, <2>1 DEF AdmissionInv, RateIsAdmissions
<1>5. WithinQuotas'
  <2> SUFFICES ASSUME NEW tn \in Tenant
               PROVE  /\ Cardinality({t \in {u \in Stored' : TenantOf(task'[u].operator) = tn} :
                                        task'[t].status \in Active}) <= MaxActive
                      /\ \A d \in {day_start(n) : n \in 0..MaxClock} :
                           LET made == {t \in {u \in Stored' : TenantOf(task'[u].operator) = tn} :
                                          day_start(task'[t].created_at) = d} IN
                           /\ Cardinality(made) <= MaxDaily
                           /\ SumFunction([t \in made |-> task'[t].cost]) <= MaxDailyCost
    BY DEF WithinQuotas, ActiveOf, Of, CostOf
  <2>1. PICK of : of = {u \in Stored' : TenantOf(task'[u].operator) = tn}
    OBVIOUS
  <2>2. of = Of(tn) /\ of \subseteq Stored
    BY <1>1, <2>1 DEF Of
  <2>3. Cardinality({t \in of : task'[t].status \in Active}) <= MaxActive
    <3>1. {t \in of : task'[t].status \in Active} \subseteq ActiveOf(tn)
      BY <1>1, <2>2 DEF ActiveOf
    <3>2. IsFiniteSet(ActiveOf(tn))
      BY <2>2, FS_Subset DEF AdmissionInv, ActiveOf
    <3>3. PICK A : A = {t \in of : task'[t].status \in Active}
      OBVIOUS
    <3>4. /\ Cardinality(A) <= Cardinality(ActiveOf(tn))
          /\ Cardinality(A) \in Nat /\ Cardinality(ActiveOf(tn)) \in Nat
      BY <3>1, <3>2, <3>3, FS_Subset, FS_CardinalityType
    <3>5. Cardinality(ActiveOf(tn)) <= MaxActive
      BY DEF AdmissionInv, WithinQuotas
    <3> QED
      BY <3>3, <3>4, <3>5, ConstantsAssumption
  <2>4. ASSUME NEW d \in {day_start(n) : n \in 0..MaxClock}, NEW made,
               made = {t \in of : day_start(task'[t].created_at) = d}
        PROVE  /\ Cardinality(made) <= MaxDaily
               /\ SumFunction([t \in made |-> task'[t].cost]) <= MaxDailyCost
    <3>1. made = {t \in Of(tn) : day_start(task[t].created_at) = d} /\ made \subseteq Stored
      BY <1>1, <2>2, <2>4
    <3>2. Cardinality(made) <= MaxDaily /\ CostOf(made) <= MaxDailyCost
      BY <3>1 DEF AdmissionInv, WithinQuotas
    <3>3. [t \in made |-> task'[t].cost] = [t \in made |-> task[t].cost]
      BY <1>1, <3>1
    <3> QED
      BY <3>2, <3>3 DEF CostOf
  <2> QED
    BY <2>1, <2>3, <2>4
<1> QED
  BY <1>2, <1>3, <1>4, <1>5 DEF AdmissionInv

(* An admission adds one queued row, whose key no task of the tenant had.  *)
LEMMA AdmittedRow ==
    ASSUME IInv, NEW op \in Operator, NEW k \in Key, NEW fp \in Fingerprint,
           NEW c \in Cost, NEW p \in Priority, NEW m \in MaxAttempts,
           NEW now \in Now, submit_created(op, k, fp, c, p, m, now)
    PROVE  \E t \in Task \ Stored :
              /\ Stored' = Stored \cup {t}
              /\ task'[t].operator = op /\ task'[t].key = k /\ task'[t].cost = c
              /\ task'[t].created_at = now /\ task'[t].status \in Active
              /\ \A u \in Stored : u # t /\ task'[u] = task[u]
<1>1. PICK t \in Task \ Stored : task' = [task EXCEPT ![t] = NewRow(op, k, fp, c, p, m, now)]
  BY DEF submit_created
<1>2. now \in Nat
  BY NowNat DEF IInv
<1>3. NewRow(op, k, fp, c, p, m, now) \in Row
  BY <1>2 DEF NewRow, Row, Status, Active, NoLease, NoToken, NoResult
<1>4. /\ Stored' = Stored \cup {t}
      /\ task'[t] = NewRow(op, k, fp, c, p, m, now)
      /\ \A u \in Task \ {t} : task'[u] = task[u]
  BY <1>1, <1>3, RowKept DEF IInv
<1>5. \A u \in Stored : u # t /\ task'[u] = task[u]
  BY <1>1, <1>4 DEF Stored
<1> QED
  BY <1>1, <1>4, <1>5 DEF NewRow, Active

(* One more element in a finite set.                                       *)
LEMMA OneMore ==
    ASSUME NEW S, IsFiniteSet(S), NEW t, t \notin S
    PROVE  /\ IsFiniteSet(S \cup {t})
           /\ Cardinality(S) \in Nat
           /\ Cardinality(S \cup {t}) = Cardinality(S) + 1
BY FS_AddElement, FS_CardinalityType

(* The limiter keeps counting admissions.                                  *)
LEMMA RateKeeps ==
    ASSUME IInv, AdmissionInv,
           NEW op \in Operator, NEW k \in Key, NEW fp \in Fingerprint,
           NEW c \in Cost, NEW p \in Priority, NEW m \in MaxAttempts,
           NEW now \in Now, submit_created(op, k, fp, c, p, m, now)
    PROVE  RateIsAdmissions'
<1>1. PICK t \in Task \ Stored :
              /\ Stored' = Stored \cup {t}
              /\ task'[t].operator = op /\ task'[t].created_at = now
              /\ \A u \in Stored : u # t /\ task'[u] = task[u]
  BY AdmittedRow
<1> SUFFICES ASSUME NEW s \in Scope, NEW w \in 0..MaxClock
             PROVE  rate'[s][w] =
                        Cardinality({u \in Stored' :
                                       /\ s \in ScopesOf(task'[u].operator)
                                       /\ fixed_window_start(task'[u].created_at) = w})
  BY DEF RateIsAdmissions
<1>2. PICK S : S = {u \in Stored : /\ s \in ScopesOf(task[u].operator)
                                   /\ fixed_window_start(task[u].created_at) = w}
  OBVIOUS
<1>3. IsFiniteSet(S) /\ t \notin S
  BY <1>2, FS_Subset DEF AdmissionInv
<1>4. rate[s][w] = Cardinality(S)
  BY <1>2 DEF AdmissionInv, RateIsAdmissions
<1>5. rate[s] \in [0..MaxClock -> Nat]
  BY DEF IInv, TypeOK
<1>6. rate' = Charge(op, now)
  BY DEF submit_created
<1>7. CASE s \in ScopesOf(op) /\ fixed_window_start(now) = w
  <2>1. {u \in Stored' : /\ s \in ScopesOf(task'[u].operator)
                         /\ fixed_window_start(task'[u].created_at) = w} = S \cup {t}
    BY <1>1, <1>2, <1>7
  <2>2. rate'[s] = [rate[s] EXCEPT ![w] = @ + 1]
    BY <1>6, <1>7 DEF Charge
  <2>3. rate'[s][w] = rate[s][w] + 1
    BY <1>5, <2>2
  <2> QED
    BY <1>3, <1>4, <2>1, <2>3, OneMore
<1>8. CASE ~(s \in ScopesOf(op) /\ fixed_window_start(now) = w)
  <2>1. {u \in Stored' : /\ s \in ScopesOf(task'[u].operator)
                         /\ fixed_window_start(task'[u].created_at) = w} = S
    BY <1>1, <1>2, <1>8
  <2>2. rate'[s][w] = rate[s][w]
    <3>1. CASE s \notin ScopesOf(op)
      BY <1>6, <3>1 DEF Charge
    <3>2. CASE s \in ScopesOf(op)
      <4>1. rate'[s] = [rate[s] EXCEPT ![fixed_window_start(now)] = @ + 1]
        BY <1>6, <3>2 DEF Charge
      <4> QED
        BY <1>5, <1>8, <3>2, <4>1
    <3> QED
      BY <3>1, <3>2
  <2> QED
    BY <1>4, <2>1, <2>2
<1> QED
  BY <1>7, <1>8

(* A task made on the day of `now' is among those the quota counts.        *)
LEMMA MadeToday ==
    ASSUME NEW n \in Nat, NEW now \in Nat, day_start(n) = day_start(now)
    PROVE  n >= day_start(now)
<1>1. n % DayLen \in Nat
  BY ConstantsAssumption
<1>2. day_start(n) = n - (n % DayLen)
  BY DEF day_start
<1>3. PICK r \in Nat : r = n % DayLen
  BY <1>1
<1>4. day_start(now) = n - r
  BY <1>2, <1>3
<1>5. n - r <= n
  BY <1>3
<1> QED
  BY <1>4, <1>5

(* The quotas of every tenant keep holding.                                *)
LEMMA QuotasKeep ==
    ASSUME IInv, AdmissionInv,
           NEW op \in Operator, NEW k \in Key, NEW fp \in Fingerprint,
           NEW c \in Cost, NEW p \in Priority, NEW m \in MaxAttempts,
           NEW now \in Now, submit_created(op, k, fp, c, p, m, now)
    PROVE  WithinQuotas'
<1>1. PICK t \in Task \ Stored :
              /\ Stored' = Stored \cup {t}
              /\ task'[t].operator = op /\ task'[t].cost = c
              /\ task'[t].created_at = now /\ task'[t].status \in Active
              /\ \A u \in Stored : u # t /\ task'[u] = task[u]
  BY AdmittedRow
<1>2. now \in Nat
  BY NowNat DEF IInv
<1>3. ~QuotaFull(op, c, now)
  BY DEF submit_created
<1>4. \A u \in Stored : task[u] \in Row
  BY StoredRow DEF IInv
<1> SUFFICES ASSUME NEW tn \in Tenant
             PROVE  /\ Cardinality({u \in {v \in Stored' : TenantOf(task'[v].operator) = tn} :
                                      task'[u].status \in Active}) <= MaxActive
                    /\ \A d \in {day_start(n) : n \in 0..MaxClock} :
                         LET made == {u \in {v \in Stored' : TenantOf(task'[v].operator) = tn} :
                                        day_start(task'[u].created_at) = d} IN
                         /\ Cardinality(made) <= MaxDaily
                         /\ SumFunction([u \in made |-> task'[u].cost]) <= MaxDailyCost
  BY DEF WithinQuotas, ActiveOf, Of, CostOf
<1>5. PICK of : of = {v \in Stored' : TenantOf(task'[v].operator) = tn}
  OBVIOUS
<1>6. Of(tn) \subseteq Stored /\ t \notin Of(tn) /\ IsFiniteSet(Of(tn))
  BY FS_Subset DEF AdmissionInv, Of
<1>7. IF TenantOf(op) = tn THEN of = Of(tn) \cup {t} ELSE of = Of(tn)
  BY <1>1, <1>5 DEF Of
<1>8. Cardinality({u \in of : task'[u].status \in Active}) <= MaxActive
  <2>1. IsFiniteSet(ActiveOf(tn)) /\ t \notin ActiveOf(tn)
    BY <1>6, FS_Subset DEF ActiveOf
  <2>2. Cardinality(ActiveOf(tn)) <= MaxActive
    BY DEF AdmissionInv, WithinQuotas
  <2>3. CASE TenantOf(op) = tn
    <3>1. {u \in of : task'[u].status \in Active} = ActiveOf(tn) \cup {t}
      BY <1>1, <1>6, <1>7, <2>3 DEF ActiveOf
    <3>2. ~(Cardinality(ActiveOf(tn)) >= MaxActive)
      BY <1>3, <2>3 DEF QuotaFull
    <3>3. PICK n \in Nat : n = Cardinality(ActiveOf(tn))
      BY <2>1, FS_CardinalityType
    <3>4. Cardinality(ActiveOf(tn) \cup {t}) = n + 1
      BY <2>1, <3>3, OneMore
    <3>5. MaxActive \in Nat
      BY ConstantsAssumption
    <3>6. ~(n >= MaxActive)
      BY <3>2, <3>3
    <3>7. n + 1 <= MaxActive
      BY <3>5, <3>6
    <3> QED
      BY <3>1, <3>4, <3>7
  <2>4. CASE TenantOf(op) # tn
    <3>1. {u \in of : task'[u].status \in Active} = ActiveOf(tn)
      BY <1>1, <1>6, <1>7, <2>4 DEF ActiveOf
    <3> QED
      BY <2>2, <3>1
  <2> QED
    BY <2>3, <2>4
<1>9. ASSUME NEW d \in {day_start(n) : n \in 0..MaxClock}, NEW made,
             made = {u \in of : day_start(task'[u].created_at) = d}
      PROVE  /\ Cardinality(made) <= MaxDaily
             /\ SumFunction([u \in made |-> task'[u].cost]) <= MaxDailyCost
  <2>1. PICK old : old = {u \in Of(tn) : day_start(task[u].created_at) = d}
    OBVIOUS
  <2>2. /\ old \subseteq Stored /\ t \notin old /\ IsFiniteSet(old)
        /\ Cardinality(old) <= MaxDaily /\ CostOf(old) <= MaxDailyCost
    BY <1>6, <2>1, FS_Subset DEF AdmissionInv, WithinQuotas
  <2>3. CASE TenantOf(op) = tn /\ day_start(now) = d
    <3>1. made = old \cup {t}
      BY <1>1, <1>6, <1>7, <1>9, <2>1, <2>3
    <3>2. old \subseteq Today(tn, now)
      <4>1. ASSUME NEW u \in old PROVE task[u].created_at >= day_start(now)
        <5>1. task[u].created_at \in Nat /\ day_start(task[u].created_at) = day_start(now)
          BY <1>4, <2>1, <2>2, <2>3 DEF Row
        <5> QED
          BY <1>2, <5>1, MadeToday
      <4> QED
        BY <2>1, <4>1 DEF Today
    <3>3. IsFiniteSet(Today(tn, now)) /\ Today(tn, now) \subseteq Stored
      BY <1>6, FS_Subset DEF Today
    <3>4. Cardinality(made) <= MaxDaily
      <4>1. ~(Cardinality(Today(tn, now)) >= MaxDaily)
        BY <1>3, <2>3 DEF QuotaFull
      <4>2. PICK n \in Nat : n = Cardinality(Today(tn, now))
        BY <3>3, FS_CardinalityType
      <4>3. PICK i \in Nat : i = Cardinality(old) /\ i <= n
        BY <3>2, <3>3, <4>2, FS_Subset, FS_CardinalityType
      <4>4. Cardinality(old \cup {t}) = i + 1
        BY <2>2, <4>3, OneMore
      <4>5. MaxDaily \in Nat
        BY ConstantsAssumption
      <4> QED
        BY <3>1, <4>1, <4>2, <4>3, <4>4, <4>5
    <3>5. SumFunction([u \in made |-> task'[u].cost]) <= MaxDailyCost
      <4>1. PICK f, g, h : /\ f = [u \in old |-> task[u].cost]
                           /\ g = [u \in Today(tn, now) |-> task[u].cost]
                           /\ h = [u \in old \cup {t} |-> task'[u].cost]
        OBVIOUS
      <4>2. Cost \subseteq Nat /\ MaxDailyCost \in Nat
        BY ConstantsAssumption
      <4>3. \A u \in Stored : task[u].cost \in Nat
        BY <1>4, <4>2 DEF Row
      <4>4. /\ f \in [old -> Nat] /\ g \in [Today(tn, now) -> Nat]
            /\ h \in [old \cup {t} -> Nat]
            /\ \A u \in old : f[u] = g[u] /\ f[u] = h[u]
            /\ h[t] = c
        BY <1>1, <2>2, <3>2, <3>3, <4>1, <4>2, <4>3
      <4>5. SumFunction(h) = SumFunction(f) + h[t]
        BY <2>2, <4>4, SumAdd
      <4>6. SumFunction(f) <= SumFunction(g)
        BY <3>2, <3>3, <4>4, SumMonotonic
      <4>7. SumFunction(f) \in Nat /\ SumFunction(g) \in Nat
        BY <2>2, <3>3, <4>4, SumType
      <4>8. ~(SumFunction(g) + c > MaxDailyCost)
        BY <1>3, <2>3, <4>1 DEF QuotaFull, daily_cost, CostOf
      <4>9. SumFunction(h) <= MaxDailyCost
        BY <4>2, <4>4, <4>5, <4>6, <4>7, <4>8
      <4> QED
        BY <3>1, <4>1, <4>9
    <3> QED
      BY <3>4, <3>5
  <2>4. CASE ~(TenantOf(op) = tn /\ day_start(now) = d)
    <3>1. made = old
      BY <1>1, <1>6, <1>7, <1>9, <2>1, <2>4
    <3>2. [u \in made |-> task'[u].cost] = [u \in old |-> task[u].cost]
      BY <1>1, <2>2, <3>1
    <3> QED
      BY <2>2, <3>1, <3>2 DEF CostOf
  <2> QED
    BY <2>3, <2>4
<1> QED
  BY <1>5, <1>8, <1>9

LEMMA AdmissionInit == Init => AdmissionInv
<1> SUFFICES ASSUME Init PROVE AdmissionInv
  OBVIOUS
<1>1. Stored = {}
  BY DEF Init, Stored, Absent
<1>2. Cardinality({}) = 0 /\ IsFiniteSet({})
  BY FS_EmptySet
<1>3. RateIsAdmissions
  <2> SUFFICES ASSUME NEW s \in Scope, NEW w \in 0..MaxClock
               PROVE  rate[s][w] =
                        Cardinality({u \in Stored :
                                       /\ s \in ScopesOf(task[u].operator)
                                       /\ fixed_window_start(task[u].created_at) = w})
    BY DEF RateIsAdmissions
  <2>1. rate[s][w] = 0
    BY DEF Init
  <2>2. {u \in Stored : /\ s \in ScopesOf(task[u].operator)
                        /\ fixed_window_start(task[u].created_at) = w} = {}
    BY <1>1
  <2> QED
    BY <1>2, <2>1, <2>2
<1>4. WithinQuotas
  <2>1. \A tn : Of(tn) = {} /\ ActiveOf(tn) = {}
    BY <1>1 DEF Of, ActiveOf
  <2>2. MaxActive \in Nat /\ MaxDaily \in Nat /\ MaxDailyCost \in Nat
    BY ConstantsAssumption
  <2>3. CostOf({}) = 0
    <3>1. [u \in {} |-> task[u].cost] \in [{} -> Nat]
      OBVIOUS
    <3>2. PICK f \in [{} -> Nat] : f = [u \in {} |-> task[u].cost]
      BY <3>1
    <3>3. PICK g \in [SUBSET {} -> Nat] : IsSum(g, f, {}) /\ SumFunction(f) = g[{}]
      BY <1>2, SumIsSum
    <3>4. g[{}] = 0
      BY <3>3 DEF IsSum
    <3> QED
      BY <3>2, <3>3, <3>4 DEF CostOf
  <2>4. \A tn, d : {u \in Of(tn) : day_start(task[u].created_at) = d} = {}
    BY <2>1
  <2> QED
    BY <1>2, <2>1, <2>2, <2>3, <2>4 DEF WithinQuotas
<1> QED
  BY <1>1, <1>2, <1>3, <1>4 DEF AdmissionInv, OneTaskPerKey

LEMMA AdmissionStep ==
    ASSUME IInv, AdmissionInv, [Next]_vars
    PROVE  AdmissionInv'
<1>1. ASSUME NEW op \in Operator, NEW k \in Key, NEW fp \in Fingerprint,
             NEW c \in Cost, NEW p \in Priority, NEW m \in MaxAttempts,
             NEW now \in Now, submit_created(op, k, fp, c, p, m, now)
      PROVE  AdmissionInv'
  <2>1. PICK t \in Task \ Stored :
              /\ Stored' = Stored \cup {t}
              /\ task'[t].operator = op /\ task'[t].key = k
              /\ \A u \in Stored : u # t /\ task'[u] = task[u]
    BY <1>1, AdmittedRow
  <2>2. IsFiniteSet(Stored')
    BY <2>1, OneMore DEF AdmissionInv
  <2>3. \A u \in Stored : ~(TenantOf(task[u].operator) = TenantOf(op) /\ task[u].key = k)
    BY <1>1 DEF submit_created, SameKey, Of
  <2>4. OneTaskPerKey'
    <3> SUFFICES ASSUME NEW v \in Stored', NEW u \in Stored',
                        TenantOf(task'[v].operator) = TenantOf(task'[u].operator),
                        task'[v].key = task'[u].key
                 PROVE  v = u
      BY DEF OneTaskPerKey
    <3>1. CASE v \in Stored /\ u \in Stored
      BY <2>1, <3>1 DEF AdmissionInv, OneTaskPerKey
    <3>2. CASE v = t /\ u \in Stored
      BY <2>1, <2>3, <3>2
    <3>3. CASE u = t /\ v \in Stored
      BY <2>1, <2>3, <3>3
    <3> QED
      BY <2>1, <3>1, <3>2, <3>3
  <2> QED
    BY <1>1, <2>2, <2>4, RateKeeps, QuotasKeep DEF AdmissionInv
<1> QED
  BY <1>1, OnlySubmitAdmits, AdmissionUntouched

THEOREM AdmissionInvariance == Spec => []AdmissionInv
<1>1. IInv /\ AdmissionInv /\ [Next]_vars => AdmissionInv'
  BY AdmissionStep
<1> QED
  BY Invariance, AdmissionInit, <1>1, PTL DEF Spec

(* An idempotency key stands for at most one task of its tenant, through   *)
(* every order of submissions and whatever becomes of the task             *)
(* (submit_task).                                                          *)
THEOREM KeysAreUnique == Spec => []OneTaskPerKey
<1>1. AdmissionInv => OneTaskPerKey
  BY DEF AdmissionInv
<1> QED
  BY AdmissionInvariance, <1>1, PTL

(* The counter of a scope in a window is the number of tasks it created    *)
(* then: rejections leave no trace, admissions are never missed            *)
(* (submit_task).  Repetitions are not counted, and not limited either.    *)
THEOREM RateCountsAdmissions == Spec => []RateIsAdmissions
<1>1. AdmissionInv => RateIsAdmissions
  BY DEF AdmissionInv
<1> QED
  BY AdmissionInvariance, <1>1, PTL

(* No tenant ever exceeds its active, daily or cost quota, also when the   *)
(* instant of an admission is older than rows already there and when       *)
(* retries and recoveries requeue tasks (submit_task, finish_task,         *)
(* recover_expired_leases).                                                *)
THEOREM QuotasHold == Spec => []WithinQuotas
<1>1. AdmissionInv => WithinQuotas
  BY DEF AdmissionInv
<1> QED
  BY AdmissionInvariance, <1>1, PTL

-----------------------------------------------------------------------------
(* The refinement: the task queue implements TaskLifecycle, and a terminal *)
(* task is final, from the inductive invariant above.                      *)

(* A function that differs from another in one place.                      *)
LEMMA Update ==
    ASSUME NEW S, NEW f, NEW g, NEW t \in S, NEW v,
           f = [u \in S |-> f[u]], g = [u \in S |-> g[u]],
           g[t] = v, \A u \in S \ {t} : g[u] = f[u]
    PROVE  g = [f EXCEPT ![t] = v]
OBVIOUS

(* What a step that rewrites the row of one stored task does to the        *)
(* lifecycle's view of the tasks.                                          *)
LEMMA OneColumn ==
    ASSUME IInv, NEW t \in Stored, NEW r \in Row, task' = [task EXCEPT ![t] = r]
    PROVE  /\ StateOf' = [StateOf EXCEPT ![t] = r.status]
           /\ GrantOf' = [GrantOf EXCEPT ![t] = r.lease_token]
           /\ WinnerOf' = [WinnerOf EXCEPT ![t] = r.result]
           /\ t \in Task
<1>1. t \in Task
  BY DEF Stored
<1>2. /\ Stored' = Stored
      /\ task'[t] = r
      /\ \A u \in Task \ {t} : task'[u] = task[u]
  BY RowRewritten DEF IInv
<1>3. StateOf' = [StateOf EXCEPT ![t] = r.status]
  <2>1. \A u \in Task \ {t} : StateOf'[u] = StateOf[u]
    BY <1>2 DEF StateOf
  <2>2. StateOf'[t] = r.status
    BY <1>1, <1>2 DEF StateOf
  <2>3. StateOf = [u \in Task |-> StateOf[u]] /\ StateOf' = [u \in Task |-> StateOf'[u]]
    BY DEF StateOf
  <2> QED
    BY <1>1, <2>1, <2>2, <2>3, Update
<1>4. GrantOf' = [GrantOf EXCEPT ![t] = r.lease_token]
  <2>1. \A u \in Task \ {t} : GrantOf'[u] = GrantOf[u]
    BY <1>2 DEF GrantOf
  <2>2. GrantOf'[t] = r.lease_token
    BY <1>1, <1>2 DEF GrantOf
  <2>3. GrantOf = [u \in Task |-> GrantOf[u]] /\ GrantOf' = [u \in Task |-> GrantOf'[u]]
    BY DEF GrantOf
  <2> QED
    BY <1>1, <2>1, <2>2, <2>3, Update
<1>5. WinnerOf' = [WinnerOf EXCEPT ![t] = r.result]
  <2>1. \A u \in Task \ {t} : WinnerOf'[u] = WinnerOf[u]
    BY <1>2 DEF WinnerOf
  <2>2. WinnerOf'[t] = r.result
    BY <1>1, <1>2 DEF WinnerOf
  <2>3. WinnerOf = [u \in Task |-> WinnerOf[u]] /\ WinnerOf' = [u \in Task |-> WinnerOf'[u]]
    BY DEF WinnerOf
  <2> QED
    BY <1>1, <2>1, <2>2, <2>3, Update
<1> QED
  BY <1>1, <1>3, <1>4, <1>5

LEMMA SubmitMaps ==
    ASSUME IInv, NEW op \in Operator, NEW k \in Key, NEW fp \in Fingerprint,
           NEW c \in Cost, NEW p \in Priority, NEW m \in MaxAttempts,
           NEW now \in Now, submit_created(op, k, fp, c, p, m, now)
    PROVE  Lifecycle!Next
<1>1. PICK t \in Task \ Stored : task' = [task EXCEPT ![t] = NewRow(op, k, fp, c, p, m, now)]
  BY DEF submit_created
<1>2. PICK r : r = NewRow(op, k, fp, c, p, m, now)
  OBVIOUS
<1>3. now \in Nat
  BY NowNat DEF IInv
<1>4. r \in Row /\ r.status = "queued" /\ r.lease_token = NoToken /\ r.result = NoResult
  BY <1>2, <1>3 DEF NewRow, Row, Status, Active, NoLease, NoToken, NoResult
<1>5. /\ Stored' = Stored \cup {t}
      /\ task'[t] = r
      /\ \A u \in Task \ {t} : task'[u] = task[u]
  BY <1>1, <1>2, <1>4, RowKept DEF IInv
<1>6. StateOf[t] = "none"
  BY <1>1 DEF StateOf
<1>7. StateOf' = [StateOf EXCEPT ![t] = "queued"]
  <2>1. \A u \in Task \ {t} : StateOf'[u] = StateOf[u]
    BY <1>5 DEF StateOf
  <2>2. StateOf'[t] = "queued"
    BY <1>4, <1>5 DEF StateOf
  <2>3. StateOf = [u \in Task |-> StateOf[u]] /\ StateOf' = [u \in Task |-> StateOf'[u]]
    BY DEF StateOf
  <2> QED
    BY <2>1, <2>2, <2>3, Update
<1>8. GrantOf' = GrantOf /\ WinnerOf' = WinnerOf
  BY <1>1, <1>4, <1>5 DEF GrantOf, WinnerOf
<1>9. nextToken' = nextToken
  BY DEF submit_created
<1>10. Lifecycle!Submit(t)
  BY <1>6, <1>7, <1>8, <1>9 DEF Lifecycle!Submit
<1> QED
  BY <1>10 DEF Lifecycle!Next

LEMMA ClaimMaps ==
    ASSUME IInv, NEW t \in Task, NEW now \in Now, claim_task(t, now)
    PROVE  Lifecycle!Next
<1>1. IInv'
  BY ClaimKeeps
<1>2. t \in Stored /\ task[t].status = "queued" /\ task[t] \in Row /\ RowOK(t)
  BY StoredRow, IInvByRow DEF IInv, claim_task, Claimable
<1>3. PICK r : r = [task[t] EXCEPT !.status = "running", !.attempts = @ + 1,
                                   !.lease_until = now + LeaseFor,
                                   !.lease_token = nextToken]
  OBVIOUS
<1>4. task' = [task EXCEPT ![t] = r]
  BY <1>3 DEF claim_task
<1>5. r.status = "running" /\ r.lease_token = nextToken /\ r.result = task[t].result
  BY <1>2, <1>3 DEF Row
<1>6. task'[t] = r
  BY <1>4 DEF IInv, TypeOK
<1>7. r \in Row
  <2>1. task'[t] \in Row \cup {Absent}
    BY <1>1 DEF IInv, TypeOK
  <2>2. Absent.status # "running"
    BY DEF Absent
  <2> QED
    BY <1>5, <1>6, <2>1, <2>2
<1>8. /\ StateOf' = [StateOf EXCEPT ![t] = "running"]
      /\ GrantOf' = [GrantOf EXCEPT ![t] = nextToken]
      /\ WinnerOf' = [WinnerOf EXCEPT ![t] = task[t].result]
  <2>1. /\ StateOf' = [StateOf EXCEPT ![t] = r.status]
        /\ GrantOf' = [GrantOf EXCEPT ![t] = r.lease_token]
        /\ WinnerOf' = [WinnerOf EXCEPT ![t] = r.result]
    BY <1>2, <1>4, <1>7, OneColumn
  <2> QED
    BY <1>5, <2>1
<1>9. StateOf[t] = "queued" /\ WinnerOf[t] = task[t].result
  BY <1>2 DEF StateOf, WinnerOf
<1>10. WinnerOf' = WinnerOf
  BY <1>8, <1>9 DEF WinnerOf
<1>11. nextToken \in Nat /\ nextToken' = nextToken + 1
  BY DEF IInv, TypeOK, claim_task
<1>12. Lifecycle!Start(t)
  BY <1>8, <1>9, <1>10, <1>11 DEF Lifecycle!Start
<1> QED
  BY <1>12 DEF Lifecycle!Next

LEMMA CancelMaps ==
    ASSUME IInv, NEW t \in Task, request_cancel(t)
    PROVE  Lifecycle!Next \/ UNCHANGED Lifecycle!lifecycle
<1>1. t \in Stored /\ task[t] \in Row
  BY StoredRow DEF IInv, request_cancel
<1>2. UNCHANGED <<nextToken>>
  BY DEF request_cancel
<1>3. ASSUME NEW s \in {"cancelled", "cancel_requested"},
             task' = [task EXCEPT ![t].status = s, ![t].cancel_requested = TRUE]
      PROVE  /\ StateOf' = [StateOf EXCEPT ![t] = s]
             /\ GrantOf' = GrantOf
             /\ WinnerOf' = WinnerOf
             /\ StateOf[t] = task[t].status
  <2>1. PICK r : r = [task[t] EXCEPT !.status = s, !.cancel_requested = TRUE]
    OBVIOUS
  <2>2. /\ r \in Row /\ r.status = s
        /\ r.lease_token = task[t].lease_token /\ r.result = task[t].result
    BY <1>1, <2>1 DEF Row, Status, Active, Terminal
  <2>3. task' = [task EXCEPT ![t] = r]
    BY <1>3, <2>1
  <2>4. /\ StateOf' = [StateOf EXCEPT ![t] = s]
        /\ GrantOf' = [GrantOf EXCEPT ![t] = task[t].lease_token]
        /\ WinnerOf' = [WinnerOf EXCEPT ![t] = task[t].result]
    <3>1. /\ StateOf' = [StateOf EXCEPT ![t] = r.status]
          /\ GrantOf' = [GrantOf EXCEPT ![t] = r.lease_token]
          /\ WinnerOf' = [WinnerOf EXCEPT ![t] = r.result]
      BY <1>1, <2>2, <2>3, OneColumn
    <3> QED
      BY <2>2, <3>1
  <2>5. /\ StateOf[t] = task[t].status
        /\ GrantOf[t] = task[t].lease_token
        /\ WinnerOf[t] = task[t].result
    BY <1>1 DEF StateOf, GrantOf, WinnerOf
  <2>6. GrantOf' = GrantOf /\ WinnerOf' = WinnerOf
    BY <2>4, <2>5 DEF GrantOf, WinnerOf
  <2> QED
    BY <2>4, <2>5, <2>6
<1>4. CASE task[t].status = "queued"
  <2>1. task' = [task EXCEPT ![t].status = "cancelled", ![t].cancel_requested = TRUE]
    BY <1>4 DEF request_cancel
  <2>2. Lifecycle!Cancel(t)
    BY <1>2, <1>3, <1>4, <2>1 DEF Lifecycle!Cancel
  <2> QED
    BY <2>2 DEF Lifecycle!Next
<1>5. CASE task[t].status = "running"
  <2>1. task' = [task EXCEPT ![t].status = "cancel_requested", ![t].cancel_requested = TRUE]
    BY <1>5 DEF request_cancel
  <2>2. Lifecycle!Cancel(t)
    BY <1>2, <1>3, <1>5, <2>1 DEF Lifecycle!Cancel
  <2> QED
    BY <2>2 DEF Lifecycle!Next
<1>6. CASE task[t].status = "cancel_requested"
  <2>1. task' = [task EXCEPT ![t].status = "cancel_requested", ![t].cancel_requested = TRUE]
    BY <1>6 DEF request_cancel
  <2>2. StateOf' = StateOf
    BY <1>3, <1>6, <2>1 DEF StateOf
  <2> QED
    BY <1>2, <1>3, <2>1, <2>2 DEF Lifecycle!lifecycle
<1>7. CASE task[t].status \notin {"queued", "running", "cancel_requested"}
  <2>1. task' = task
    BY <1>7 DEF request_cancel
  <2> QED
    BY <1>2, <2>1 DEF Lifecycle!lifecycle, StateOf, GrantOf, WinnerOf, Stored
<1> QED
  BY <1>4, <1>5, <1>6, <1>7

LEMMA FinishMaps ==
    ASSUME IInv, NEW l \in leases, NEW outcome, NEW now \in Now,
           finish_held(l, outcome, now)
    PROVE  Lifecycle!Next
<1> DEFINE t == l.task
<1>1. PICK r : r = Finished(l, outcome, now)
  OBVIOUS
<1>2. t \in Stored /\ t \in Task /\ RowOK(t) /\ task[t] \in Row
  BY StoredRow, IInvByRow DEF IInv, LeasesIssued
<1>3. ~LeaseLost(l, now) /\ task[t].status \notin Terminal /\ now \in Nat
  BY NowNat DEF finish_held, IInv
<1>4. /\ r \in Row
      /\ r.lease_token = NoToken
      /\ \/ /\ task[t].status = "cancel_requested"
            /\ r.status = "cancelled" /\ r.result = NoResult
         \/ /\ task[t].status = "running"
            /\ r.status = "queued" /\ r.result = NoResult
         \/ /\ task[t].status = "running"
            /\ r.status = "succeeded" /\ r.result = task[t].lease_token
         \/ /\ task[t].status = "running"
            /\ r.status = "failed" /\ r.result = NoResult
  BY <1>1, <1>3, FinishedRow
<1>5. task' = [task EXCEPT ![t] = r] /\ nextToken' = nextToken
  BY <1>1 DEF finish_held
<1>6. /\ StateOf' = [StateOf EXCEPT ![t] = r.status]
      /\ GrantOf' = [GrantOf EXCEPT ![t] = 0]
      /\ WinnerOf' = [WinnerOf EXCEPT ![t] = r.result]
  BY <1>2, <1>4, <1>5, OneColumn DEF NoToken
<1>7. /\ StateOf[t] = task[t].status /\ GrantOf[t] = task[t].lease_token
      /\ WinnerOf[t] = NoResult
  BY <1>2, <1>4 DEF StateOf, GrantOf, WinnerOf, RowOK
<1>8. r.result = NoResult => WinnerOf' = WinnerOf
  BY <1>6, <1>7 DEF WinnerOf
<1>9. CASE r.status \in {"queued", "cancelled"}
  <2>1. r.result = NoResult
    BY <1>4, <1>9
  <2>2. StateOf' = [u \in Task |->
                      IF u \notin {t} THEN StateOf[u]
                      ELSE IF StateOf[u] = "running" THEN "queued" ELSE "cancelled"]
    BY <1>2, <1>4, <1>6, <1>7, <1>9 DEF StateOf
  <2>3. GrantOf' = [u \in Task |-> IF u \in {t} THEN 0 ELSE GrantOf[u]]
    BY <1>2, <1>6 DEF GrantOf
  <2>4. Lifecycle!GiveBack({t})
    BY <1>4, <1>5, <1>7, <1>8, <1>9, <2>1, <2>2, <2>3 DEF Lifecycle!GiveBack
  <2> QED
    BY <1>2, <2>4 DEF Lifecycle!Next
<1>10. CASE r.status = "succeeded"
  <2>1. Lifecycle!Succeed(t)
    BY <1>4, <1>5, <1>6, <1>7, <1>10 DEF Lifecycle!Succeed
  <2> QED
    BY <1>2, <2>1 DEF Lifecycle!Next
<1>11. CASE r.status = "failed"
  <2>1. Lifecycle!Fail(t)
    BY <1>4, <1>5, <1>6, <1>7, <1>8, <1>11 DEF Lifecycle!Fail
  <2> QED
    BY <1>2, <2>1 DEF Lifecycle!Next
<1> QED
  BY <1>4, <1>9, <1>10, <1>11

LEMMA RecoverMaps ==
    ASSUME IInv, NEW now \in Now, recover_expired_leases(now)
    PROVE  Lifecycle!Next
<1> DEFINE S == Expired(now)
           to(t) == IF task[t].cancel_requested THEN "cancelled" ELSE "queued"
<1>1. IInv'
  BY RecoverKeeps
<1>2. S \in SUBSET Task /\ S \subseteq Stored
  BY DEF Expired, Stored
<1>3. \A t \in S : /\ task[t] \in Row /\ RowOK(t)
                   /\ task[t].status \in {"running", "cancel_requested"}
  BY <1>2, StoredRow, IInvByRow DEF IInv, Expired
<1>4. \A t \in Task \ S : task'[t] = task[t]
  BY DEF recover_expired_leases
<1>5. \A t \in S : task'[t] = Release(t, to(t)) /\ to(t) \in Status
  BY <1>2 DEF recover_expired_leases, Status, Active, Terminal
<1>6. \A t \in S : /\ task'[t].status = to(t) /\ task'[t].lease_token = NoToken
                   /\ task'[t].result = task[t].result
  BY <1>3, <1>5, ReleaseRow
<1>7. \A t \in S : to(t) = IF task[t].status = "running" THEN "queued" ELSE "cancelled"
  BY <1>3 DEF RowOK
<1>8. Stored' = Stored
  <2>1. \A t \in S : task'[t].status # "absent"
    BY <1>6
  <2> QED
    BY <1>2, <1>4, <2>1 DEF Stored
<1>9. StateOf' = [t \in Task |->
                    IF t \notin S THEN StateOf[t]
                    ELSE IF StateOf[t] = "running" THEN "queued" ELSE "cancelled"]
  BY <1>2, <1>4, <1>6, <1>7, <1>8 DEF StateOf
<1>10. GrantOf' = [t \in Task |-> IF t \in S THEN 0 ELSE GrantOf[t]]
  BY <1>2, <1>4, <1>6, <1>8 DEF GrantOf, NoToken
<1>11. WinnerOf' = WinnerOf
  BY <1>2, <1>4, <1>6, <1>8 DEF WinnerOf
<1>12. \A t \in S : StateOf[t] \in {"running", "cancel_requested"}
  BY <1>2, <1>3 DEF StateOf
<1>13. nextToken' = nextToken
  BY DEF recover_expired_leases
<1>14. Lifecycle!GiveBack(S)
  BY <1>9, <1>10, <1>11, <1>12, <1>13 DEF Lifecycle!GiveBack
<1> QED
  BY <1>2, <1>14 DEF Lifecycle!Next

LEMMA InitMaps == Init => Lifecycle!Init
<1> SUFFICES ASSUME Init PROVE Lifecycle!Init
  OBVIOUS
<1>1. Stored = {}
  BY DEF Init, Stored, Absent
<1> QED
  BY <1>1 DEF Init, Lifecycle!Init, StateOf, GrantOf, WinnerOf, NoToken, NoResult

LEMMA StepMaps == IInv /\ [Next]_vars => [Lifecycle!Next]_(Lifecycle!lifecycle)
<1> SUFFICES ASSUME IInv, [Next]_vars
             PROVE  Lifecycle!Next \/ UNCHANGED Lifecycle!lifecycle
  OBVIOUS
<1>1. ASSUME task' = task, nextToken' = nextToken
      PROVE  UNCHANGED Lifecycle!lifecycle
  BY <1>1 DEF Lifecycle!lifecycle, StateOf, GrantOf, WinnerOf, Stored
<1>2. CASE UNCHANGED vars
  BY <1>1, <1>2 DEF vars
<1>3. CASE Tick
  BY <1>1, <1>3 DEF Tick
<1> QED
  BY <1>2, <1>3, Steps, SubmitMaps, ClaimMaps, CancelMaps, FinishMaps, RecoverMaps

(* The queue implements the documented lifecycle: every behaviour of the   *)
(* rows, leases, retries, late finishes and recoveries is, seen through    *)
(* the status, the token and the result of each task, a behaviour of       *)
(* TaskLifecycle.                                                          *)
THEOREM Refinement == Spec => ImplementsLifecycle
  BY Invariance, InitMaps, StepMaps, PTL DEF Spec, ImplementsLifecycle, Lifecycle!Spec
=============================================================================
