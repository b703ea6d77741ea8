---------------------------- MODULE ComputeQueue ----------------------------
(***************************************************************************)
(* The table compute_jobs (compute/queue.py): one row per job, every       *)
(* operation one write transaction.  Rows are never deleted.  A clock is   *)
(* not modelled: "live" says whether lease_expires_at is still ahead, and  *)
(* LeaseExpires(j) is the moment it stops being so.  created_at, job_id is *)
(* the arrival number "rank".                                              *)
(***************************************************************************)
EXTENDS Naturals, FiniteSets

CONSTANTS
    Jobs,         \* jobs that may be submitted
    Workers,      \* worker ids
    Users,        \* tenants
    UserOf,       \* the tenant of each job
    NoWorker,     \* lease_owner IS NULL
    NoUser,       \* no last_user_id yet
    MaxWaiting,   \* settings.compute.max_waiting_per_user
    MaxAttempts   \* settings.compute.max_attempts

ASSUME QueueConstants ==
    /\ IsFiniteSet(Jobs)
    /\ UserOf \in [Jobs -> Users]
    /\ NoWorker \notin Workers
    /\ NoUser \notin Users
    /\ MaxWaiting \in Nat \ {0}
    /\ MaxAttempts \in Nat \ {0}

VARIABLES
    job,          \* the rows
    rank,         \* arrival number of a job, 0 before it arrived
    lastUser      \* compute_queue_state.last_user_id

queueVars == <<job, rank, lastUser>>

Active == {"leased", "running"}
Terminal == {"succeeded", "failed", "cancelled"}

Row == [status   : {"absent", "queued"} \cup Active \cup Terminal,
        attempts : 0..MaxAttempts,
        holder   : Workers \cup {NoWorker},
        live     : BOOLEAN]

NewRow(status) ==
    [status |-> status, attempts |-> 0, holder |-> NoWorker, live |-> FALSE]

\* A row as a transition out of the lease leaves it.
Released(row, status) ==
    [row EXCEPT !.status = status, !.holder = NoWorker, !.live = FALSE]

QueueInit ==
    /\ job = [j \in Jobs |-> NewRow("absent")]
    /\ rank = [j \in Jobs |-> 0]
    /\ lastUser = NoUser

Present == {j \in Jobs : job[j].status # "absent"}

(***************************************************************************)
(* enqueue                                                                 *)
(***************************************************************************)
QueueFull(j) ==
    Cardinality({k \in Jobs : /\ UserOf[k] = UserOf[j]
                              /\ job[k].status = "queued"}) >= MaxWaiting

Enqueue(j) ==
    /\ job[j].status = "absent"
    /\ ~QueueFull(j)
    /\ job' = [job EXCEPT ![j] = NewRow("queued")]
    /\ rank' = [rank EXCEPT ![j] = Cardinality(Present) + 1]
    /\ UNCHANGED lastUser

(***************************************************************************)
(* Leases                                                                  *)
(***************************************************************************)
LeaseExpires(j) ==
    /\ job[j].status \in Active
    /\ job[j].live
    /\ job' = [job EXCEPT ![j].live = FALSE]
    /\ UNCHANGED <<rank, lastUser>>

\* A slip: the number of tries is not looked at.
RecoveredAlways(row) ==
    IF row.status \in Active /\ ~row.live THEN Released(row, "queued") ELSE row

\* A slip: only leases that were never started are taken back.
RecoveredUnstarted(row) ==
    IF row.status = "leased" /\ ~row.live
    THEN Released(row, IF row.attempts < MaxAttempts THEN "queued" ELSE "failed")
    ELSE row

RecoveredRow(row) ==
    IF row.status \in Active /\ ~row.live
    THEN Released(row, IF row.attempts < MaxAttempts THEN "queued" ELSE "failed")
    ELSE row

\* The table after _recover_expired.
Recovered == [j \in Jobs |-> RecoveredRow(job[j])]

RecoverExpired ==
    /\ job' = Recovered
    /\ UNCHANGED <<rank, lastUser>>

\* A slip: without the NOT EXISTS of the query.
LeasableBesideActive(rows) == {j \in Jobs : rows[j].status = "queued"}

Leasable(rows) ==
    {j \in Jobs : /\ rows[j].status = "queued"
                  /\ \A k \in Jobs : UserOf[k] = UserOf[j] => rows[k].status \notin Active}

\* ORDER BY: the user served last comes last, then the older job.
Precedes(k, j) ==
    LET turn(i) == IF UserOf[i] = lastUser THEN 1 ELSE 0
    IN  \/ turn(k) < turn(j)
        \/ turn(k) = turn(j) /\ rank[k] < rank[j]

LeaseNext(j, w) ==
    /\ j \in Leasable(Recovered)
    /\ \A k \in Leasable(Recovered) : ~Precedes(k, j)
    /\ job' = [Recovered EXCEPT ![j] = [status   |-> "leased",
                                        attempts |-> job[j].attempts + 1,
                                        holder   |-> w,
                                        live     |-> TRUE]]
    /\ lastUser' = UserOf[j]
    /\ UNCHANGED rank

LeaseNothing ==
    /\ Leasable(Recovered) = {}
    /\ RecoverExpired

\* The WHERE clause of _transition_lease (any active status) and of _finish
\* (status running).
Holds(j, w, statuses) ==
    /\ job[j].holder = w
    /\ job[j].status \in statuses
    /\ job[j].live

MarkRunning(j, w) ==
    /\ Holds(j, w, Active)
    /\ job' = [job EXCEPT ![j].status = "running"]
    /\ UNCHANGED <<rank, lastUser>>

Finish(j, w, status) ==
    /\ Holds(j, w, {"running"})
    /\ job' = [job EXCEPT ![j] = Released(@, status)]
    /\ UNCHANGED <<rank, lastUser>>

\* get_leased does not look at the expiry.
LeasedTo(j, w) == job[j].holder = w /\ job[j].status = "running"

\* A slip: only a waiting job is cancelled.
CancelWaiting(j) ==
    /\ job' = IF job[j].status = "queued"
              THEN [job EXCEPT ![j] = Released(@, "cancelled")]
              ELSE job
    /\ UNCHANGED <<rank, lastUser>>

\* A slip: cancel without its status guard.
CancelAnything(j) ==
    /\ job' = [job EXCEPT ![j] = Released(@, "cancelled")]
    /\ UNCHANGED <<rank, lastUser>>

\* cancel: no row changes when the job has ended already.
Cancel(j) ==
    /\ job' = IF job[j].status \in {"queued"} \cup Active
              THEN [job EXCEPT ![j] = Released(@, "cancelled")]
              ELSE job
    /\ UNCHANGED <<rank, lastUser>>
=============================================================================
