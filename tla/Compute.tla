------------------------------ MODULE Compute ------------------------------
(***************************************************************************)
(* The isolated compute channel end to end: a submitter of the server      *)
(* (RemoteComputeExecutor.execute) queues a job and polls it; workers      *)
(* (compute/worker.py) lease, run and finish jobs through the internal API *)
(* (server/compute_api.py), which owns the queue, the input packages and   *)
(* the output directories.                                                 *)
(*                                                                         *)
(* A worker process is restarted by its container under the same id        *)
(* (hostname and pid), so "w" outlives a process.  A request a worker has  *)
(* stopped waiting for goes on in the server: "call" holds one finish      *)
(* request of each kind per worker id.                                     *)
(***************************************************************************)
EXTENDS ComputeQueue

CONSTANTS
    NoJob,        \* a worker's poll found nothing
    MaxFaults     \* bound: kills, lost requests and server crashes

ASSUME ComputeConstants ==
    /\ NoJob \notin Jobs
    /\ MaxFaults \in Nat

VARIABLES
    sub,          \* submitters: where execute stands, its enqueue thread, what it returned
    pkg,          \* jobs whose input package is on disk
    dir,          \* output directory of a job; "torn" is one a crash left half-written
    worker,       \* worker processes: where run_once stands, on which job
    call,         \* finish requests in the server
    faults

vars == <<job, rank, lastUser, sub, pkg, dir, worker, call, faults>>

Kinds == {"result", "report"}
\* What a finish request carries: output files, a result that is no object,
\* a result with a file that cannot be decoded, or an error.  A result without
\* files, which ends the job and touches no directory, is left out.
Bodies == {"blobs", "bad", "badblob", "error"}
Codes == {204, 409, 422, 500}

NoCall == [step |-> "none"]

Call == {NoCall}
    \cup [step : {"checked"}, job : Jobs, body : Bodies]
    \cup [step : {"invalid"}, job : Jobs, made : BOOLEAN]
    \cup [step : {"unwinding"}, job : Jobs, code : Codes, made : BOOLEAN]

Submitter == [pc     : {"new", "enqueueing", "polling", "done", "gone"},
              thread : BOOLEAN,
              told   : {"nothing", "full", "timeout", "stopped"} \cup Terminal]

WorkerState == [pc  : {"idle", "leasing", "got", "running",
                       "finishing", "erred", "reporting", "exited"},
                job : Jobs \cup {NoJob}]

TypeOK ==
    /\ job \in [Jobs -> Row]
    /\ rank \in [Jobs -> Nat]
    /\ lastUser \in Users \cup {NoUser}
    /\ sub \in [Jobs -> Submitter]
    /\ pkg \subseteq Jobs
    /\ dir \in [Jobs -> {"none", "written", "torn"}]
    /\ worker \in [Workers -> WorkerState]
    /\ call \in [Workers -> [Kinds -> Call]]
    /\ faults \in 0..MaxFaults

Init ==
    /\ QueueInit
    /\ sub = [j \in Jobs |-> [pc |-> "new", thread |-> FALSE, told |-> "nothing"]]
    /\ pkg = {}
    /\ dir = [j \in Jobs |-> "none"]
    /\ worker = [w \in Workers |-> [pc |-> "idle", job |-> NoJob]]
    /\ call = [w \in Workers |-> [k \in Kinds |-> NoCall]]
    /\ faults = 0

(***************************************************************************)
(* Submitter: execute                                                      *)
(***************************************************************************)
\* The package is written and the enqueue thread started without a pause.
Submit(j) ==
    /\ sub[j].pc = "new"
    /\ sub' = [sub EXCEPT ![j].pc = "enqueueing", ![j].thread = TRUE]
    /\ pkg' = pkg \cup {j}
    /\ UNCHANGED <<queueVars, dir, worker, call, faults>>

\* Every return runs the finally clause, which unlinks the package.
Returned(told) == [pc |-> "done", thread |-> FALSE, told |-> told]

Return(j, told) ==
    /\ sub' = [sub EXCEPT ![j] = Returned(told)]
    /\ pkg' = pkg \ {j}

\* The thread outlives a coroutine that has been cancelled.
EnqueueThread(j) ==
    /\ sub[j].thread
    /\ \/ /\ Enqueue(j)
          /\ sub' = [sub EXCEPT ![j].thread = FALSE,
                                ![j].pc = IF @ = "enqueueing" THEN "polling" ELSE @]
          /\ UNCHANGED pkg
       \/ /\ QueueFull(j)
          /\ \/ sub[j].pc = "enqueueing" /\ Return(j, "full")
             \/ /\ sub[j].pc # "enqueueing"
                /\ sub' = [sub EXCEPT ![j].thread = FALSE]
                /\ UNCHANGED pkg
          /\ UNCHANGED queueVars
    /\ UNCHANGED <<dir, worker, call, faults>>

SeesEnd(j) ==
    /\ sub[j].pc = "polling"
    /\ job[j].status \in Terminal
    /\ Return(j, job[j].status)
    /\ UNCHANGED <<queueVars, dir, worker, call, faults>>

\* The status was read before the deadline is looked at: the job may have
\* ended since, and then cancel changes nothing.
TimesOut(j) ==
    /\ sub[j].pc = "polling"
    /\ Cancel(j)
    /\ Return(j, "timeout")
    /\ UNCHANGED <<dir, worker, call, faults>>

\* A stop, a disconnect or the tool's own time-out cancels the coroutine.
\* While it waits for the enqueue thread "queued" is None: nothing is
\* cancelled in the queue, and the thread is withdrawn only if the pool has
\* not started it.
StopEnqueueing(j) ==
    /\ sub[j].pc = "enqueueing"
    /\ \E thread \in BOOLEAN :
           sub' = [sub EXCEPT ![j] = [Returned("stopped") EXCEPT !.thread = thread]]
    /\ pkg' = pkg \ {j}
    /\ UNCHANGED <<queueVars, dir, worker, call, faults>>

StopPolling(j) ==
    /\ sub[j].pc = "polling"
    /\ Cancel(j)
    /\ Return(j, "stopped")
    /\ UNCHANGED <<dir, worker, call, faults>>

(***************************************************************************)
(* Clean-up of the inputs of ended jobs, which also recovers leases.       *)
(***************************************************************************)
CleanupTerminalPackages ==
    /\ RecoverExpired
    /\ pkg' = {j \in pkg : Recovered[j].status \notin Terminal}

CleanupTick ==
    /\ CleanupTerminalPackages
    /\ UNCHANGED <<sub, dir, worker, call, faults>>

LeaseRunsOut(j) ==
    /\ LeaseExpires(j)
    /\ UNCHANGED <<sub, pkg, dir, worker, call, faults>>

(***************************************************************************)
(* Worker: run_once, with the server's side of lease and running           *)
(***************************************************************************)
Goes(w, pc) == worker' = [worker EXCEPT ![w].pc = pc]

\* run_once returns and the loop polls again.
Idles(w) == worker' = [worker EXCEPT ![w] = [pc |-> "idle", job |-> NoJob]]

Lease(w) ==
    /\ worker[w].pc = "idle"
    /\ \/ \E j \in Jobs :
              /\ LeaseNext(j, w)
              /\ worker' = [worker EXCEPT ![w] = [pc |-> "leasing", job |-> j]]
       \/ LeaseNothing /\ Goes(w, "leasing")
    /\ UNCHANGED <<sub, pkg, dir, call, faults>>

\* The lease handler goes on with a clean-up and reads the package.  Without
\* it the leased job is answered with a 500, which ends the worker process.
LeaseAnswer(w) ==
    LET j == worker[w].job IN
    /\ worker[w].pc = "leasing"
    /\ CleanupTerminalPackages
    /\ \/ j = NoJob /\ Idles(w)
       \/ j \in pkg' /\ Goes(w, "got")
       \/ j \in Jobs \ pkg' /\ Goes(w, "exited")
    /\ UNCHANGED <<sub, dir, call, faults>>

\* The running request is sent outside the try of run_once.
StartJob(w) ==
    LET j == worker[w].job IN
    /\ worker[w].pc = "got"
    /\ \/ MarkRunning(j, w) /\ Goes(w, "running")
       \/ ~Holds(j, w, Active) /\ Goes(w, "exited") /\ UNCHANGED queueVars
    /\ UNCHANGED <<sub, pkg, dir, call, faults>>

\* What run_once does with a refused or failed finish request: the handler
\* of the try reports the error, a second failure leaves run_once.
AfterRefusal(k) == IF k = "result" THEN "erred" ELSE "exited"

Awaiting(k) == IF k = "result" THEN "finishing" ELSE "reporting"

\* Bound: one finish request of a kind in flight per worker id.
SendFinish(w, k, body) ==
    LET j == worker[w].job IN
    /\ call[w][k] = NoCall
    /\ \/ /\ LeasedTo(j, w)
          /\ call' = [call EXCEPT ![w][k] = [step |-> "checked", job |-> j, body |-> body]]
          /\ Goes(w, Awaiting(k))
       \/ ~LeasedTo(j, w) /\ Goes(w, AfterRefusal(k)) /\ UNCHANGED call
    /\ UNCHANGED <<queueVars, sub, pkg, dir, faults>>

ChildEnds(w) ==
    /\ worker[w].pc = "running"
    /\ \E body \in Bodies : SendFinish(w, "result", body)

ChildRaises(w) ==
    /\ worker[w].pc = "running"
    /\ Goes(w, "erred")
    /\ UNCHANGED <<queueVars, sub, pkg, dir, call, faults>>

ReportError(w) ==
    /\ worker[w].pc = "erred"
    /\ SendFinish(w, "report", "error")

\* A refused renewal stops the child; nothing is submitted.  A renewal that
\* is granted changes nothing the model keeps.
RenewRefused(w) ==
    /\ worker[w].pc = "running"
    /\ ~Holds(worker[w].job, w, Active)
    /\ Idles(w)
    /\ UNCHANGED <<queueVars, sub, pkg, dir, call, faults>>

Restart(w) ==
    /\ worker[w].pc = "exited"
    /\ Idles(w)
    /\ UNCHANGED <<queueVars, sub, pkg, dir, call, faults>>

(***************************************************************************)
(* The server's side of finish                                             *)
(***************************************************************************)
Unwinds(w, k, code, made) ==
    call' = [call EXCEPT ![w][k] = [step |-> "unwinding", job |-> call[w][k].job,
                                    code |-> code, made |-> made]]

\* _finish with the materialising callback, in one write transaction.  The
\* callback creates the directory exclusively, and removes it when a file
\* cannot be written, because of what came or because of the disk; the lease is
\* checked before it and once more after it.
Transaction(w, k) ==
    LET c == call[w][k]
        j == c.job
        owned == Holds(j, w, {"running"})
        writes == owned /\ c.body \in {"blobs", "badblob"}
        Invalid(made) ==
            /\ call' = [call EXCEPT ![w][k] = [step |-> "invalid", job |-> j, made |-> made]]
            /\ UNCHANGED <<queueVars, dir>>
        Refused(code) == Unwinds(w, k, code, FALSE) /\ UNCHANGED <<queueVars, dir>>
    IN
    /\ c.step = "checked"
    /\ \/ ~owned /\ Refused(409)
       \/ owned /\ c.body = "bad" /\ Invalid(FALSE)
       \/ writes /\ Refused(500)
       \/ writes /\ dir[j] = "none" /\ Unwinds(w, k, 500, TRUE) /\ UNCHANGED <<queueVars, dir>>
       \/ writes /\ dir[j] = "none" /\ c.body = "badblob" /\ Invalid(TRUE)
       \/ /\ writes /\ dir[j] = "none" /\ c.body = "blobs"
          /\ dir' = [dir EXCEPT ![j] = "written"]
          /\ \/ Finish(j, w, "succeeded") /\ Unwinds(w, k, 204, FALSE)
             \/ LeaseExpires(j) /\ Unwinds(w, k, 409, TRUE)
       \/ /\ c.body = "error"
          /\ Finish(j, w, "failed")
          /\ Unwinds(w, k, 204, FALSE)
          /\ UNCHANGED dir
    /\ UNCHANGED <<sub, pkg, worker, faults>>

\* A 422 is followed by a transaction of its own that fails the job.
FailInvalid(w, k) ==
    LET c == call[w][k] IN
    /\ c.step = "invalid"
    /\ \/ Finish(c.job, w, "failed") /\ Unwinds(w, k, 422, c.made)
       \/ /\ ~Holds(c.job, w, {"running"})
          /\ Unwinds(w, k, 409, c.made)
          /\ UNCHANGED queueVars
    /\ UNCHANGED <<sub, pkg, dir, worker, faults>>

\* A slip: the directory of a finish that was not committed stays.
OutputKept(c) == dir

\* The directory on the "created" list of the request is removed by its path
\* when the request did not commit, whoever has made it since.
OutputAfter(c) == IF c.made THEN [dir EXCEPT ![c.job] = "none"] ELSE dir

\* A slip: the package goes with the request, not with the end of the job.
PackagesDropped(c) == pkg \ {c.job}

PackagesAfter(c) == IF job[c.job].status \in Terminal THEN pkg \ {c.job} ELSE pkg

\* The finally clause and the response, which a worker that has gone on
\* does not see.
Unwind(w, k) ==
    LET c == call[w][k]
        heard == worker[w].pc = Awaiting(k) /\ worker[w].job = c.job
    IN
    /\ c.step = "unwinding"
    /\ call' = [call EXCEPT ![w][k] = NoCall]
    /\ dir' = OutputAfter(c)
    /\ pkg' = PackagesAfter(c)
    /\ \/ ~heard /\ UNCHANGED worker
       \/ heard /\ c.code = 204 /\ Idles(w)
       \/ heard /\ c.code # 204 /\ Goes(w, AfterRefusal(k))
    /\ UNCHANGED <<queueVars, sub, faults>>

(***************************************************************************)
(* Faults                                                                  *)
(***************************************************************************)
\* Where run_once goes when the request it waits for, or the next one it
\* sends, gets no answer; with a child running it is the renewal.
Unanswered(pc) ==
    CASE pc \in {"leasing", "got", "erred", "reporting"} -> "exited"
      [] pc = "finishing" -> "erred"
      [] pc = "running" -> "idle"
      [] OTHER -> pc

Fault == faults < MaxFaults /\ faults' = faults + 1

LoseAnswer(w) ==
    /\ Fault
    /\ worker[w].pc \notin {"idle", "exited"}
    /\ IF Unanswered(worker[w].pc) = "idle" THEN Idles(w)
                                            ELSE Goes(w, Unanswered(worker[w].pc))
    /\ UNCHANGED <<queueVars, sub, pkg, dir, call>>

KillWorker(w) ==
    /\ Fault
    /\ worker[w].pc \notin {"idle", "exited"}
    /\ Goes(w, "exited")
    /\ UNCHANGED <<queueVars, sub, pkg, dir, call>>

\* Output directories the server may be writing, and those it left for its
\* finally clause to remove.
Writing == {j \in Jobs : /\ dir[j] = "none"
                         /\ \E w \in Workers : \E k \in Kinds :
                               /\ call[w][k].step = "checked"
                               /\ call[w][k].job = j
                               /\ call[w][k].body \in {"blobs", "badblob"}
                               /\ Holds(j, w, {"running"})}

Removing == {j \in Jobs : /\ dir[j] = "written"
                          /\ job[j].status # "succeeded"
                          /\ \E w \in Workers : \E k \in Kinds :
                                /\ call[w][k].step = "unwinding"
                                /\ call[w][k].job = j
                                /\ call[w][k].made}

\* The server process dies: its coroutines, threads and requests are gone,
\* the table and the files stay, an open transaction is rolled back.  A
\* transaction holds the write lock, so at most one directory is being
\* written.
ServerCrash ==
    /\ Fault
    /\ \E written \in {{}} \cup {{j} : j \in Writing} :
           dir' = [j \in Jobs |-> IF j \in written \cup Removing THEN "torn" ELSE dir[j]]
    /\ sub' = [j \in Jobs |->
                  [sub[j] EXCEPT !.pc = IF @ \in {"new", "done"} THEN @ ELSE "gone",
                                 !.thread = FALSE]]
    /\ call' = [w \in Workers |-> [k \in Kinds |-> NoCall]]
    /\ worker' = [w \in Workers |->
                     IF worker[w].pc \in {"leasing", "finishing", "reporting"}
                     THEN [worker[w] EXCEPT !.pc = Unanswered(@)]
                     ELSE worker[w]]
    /\ UNCHANGED <<queueVars, pkg>>

(***************************************************************************)
(* The system                                                              *)
(***************************************************************************)
Submitting(j) ==
    \/ Submit(j) \/ EnqueueThread(j) \/ SeesEnd(j) \/ TimesOut(j)
    \/ StopEnqueueing(j) \/ StopPolling(j)

Working(w) ==
    \/ Lease(w) \/ LeaseAnswer(w) \/ StartJob(w) \/ ChildEnds(w) \/ ChildRaises(w)
    \/ ReportError(w) \/ RenewRefused(w) \/ Restart(w)

Serving(w, k) == Transaction(w, k) \/ FailInvalid(w, k) \/ Unwind(w, k)

Next ==
    \/ \E j \in Jobs : Submitting(j) \/ LeaseRunsOut(j)
    \/ \E w \in Workers : Working(w) \/ LoseAnswer(w) \/ KillWorker(w)
    \/ \E w \in Workers : \E k \in Kinds : Serving(w, k)
    \/ CleanupTick
    \/ ServerCrash

Spec == Init /\ [][Next]_vars

\* A lease nobody renews runs out: only a worker whose child runs renews.
Abandoned(j) ==
    ~\E w \in Workers : worker[w].pc = "running" /\ worker[w].job = j

\* The restart policy of the container, time-outs of child and requests, and
\* an event loop that runs its tasks.  No deadline, stop or fault is assumed.
Fairness ==
    /\ \A w \in Workers : WF_vars(Working(w))
    /\ \A w \in Workers : \A k \in Kinds : WF_vars(Serving(w, k))
    /\ \A j \in Jobs :
          /\ WF_vars(EnqueueThread(j))
          /\ WF_vars(SeesEnd(j))
          /\ WF_vars(Abandoned(j) /\ LeaseRunsOut(j))

FairSpec == Spec /\ Fairness

(***************************************************************************)
(* Properties                                                              *)
(***************************************************************************)

\* Two pollers, a recovery and a requeue never leave one tenant with two jobs
\* under lease (the NOT EXISTS of lease_next).
OneActivePerUser ==
    \A j, k \in Jobs :
        /\ job[j].status \in Active
        /\ job[k].status \in Active
        /\ UserOf[j] = UserOf[k]
        => j = k

\* No output is left behind under a job that did not succeed: whatever lost
\* a race against a cancel, an expiry or another try is about to be removed.
\* Only a crash of the server leaves a directory, and never under a job that
\* counts as done (finish_compute_job, allocate_artifact_dir).
NoStrayOutput ==
    \A j \in Jobs :
        /\ dir[j] = "written" => job[j].status = "succeeded" \/ j \in Removing
        /\ dir[j] = "torn" => job[j].status # "succeeded"

\* A job that can still be handed to a worker has its input, as long as its
\* submitter waits for it: no clean-up of another try takes it away.
PackageWaits ==
    \A j \in Jobs :
        /\ sub[j].pc = "polling"
        /\ job[j].status \notin Terminal
        => j \in pkg

\* What execute has returned stays what the queue says: no retry, late finish
\* or recovery changes the outcome a submitter was told, and a submitter that
\* gave up has left nothing to run.
ReportIsTrue ==
    \A j \in Jobs :
        /\ sub[j].told \in Terminal => job[j].status = sub[j].told
        /\ sub[j].told = "timeout" => job[j].status \in Terminal
        /\ sub[j].told = "full" => job[j].status = "absent"

\* The queue keeps the promise of JobLifecycle.
Stage(row) ==
    IF row.status = "queued" THEN "waiting"
    ELSE IF row.status \in Active THEN "held" ELSE row.status

Lifecycle == INSTANCE JobLifecycle WITH
    stage <- [j \in Jobs |-> Stage(job[j])],
    tries <- [j \in Jobs |-> job[j].attempts]

LifecycleSpec == Lifecycle!Spec

\* A queued job comes to an end, whatever becomes of its submitter, its
\* package, the workers that try it and the jobs of other tenants.
JobsEnd ==
    \A j \in Jobs : job[j].status = "queued" ~> job[j].status \in Terminal

\* tests/compute/test_executor.py: a cancelled submitter has taken its job
\* out of the queue.
CancelledIsDequeued ==
    \A j \in Jobs :
        sub[j].told = "stopped" => job[j].status \notin {"queued"} \cup Active

\* compute_api.py, of the directory a failed request removes: it "can only be
\* the one this call has just created".  The output of a job that has
\* succeeded stays.
OutputSurvives ==
    \A j \in Jobs : job[j].status = "succeeded" => dir[j] = "written"
=============================================================================
