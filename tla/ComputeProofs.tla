--------------------------- MODULE ComputeProofs ---------------------------
(***************************************************************************)
(* Proofs about Compute.  Every action changes the table by one operation  *)
(* of the queue or not at all (QueueOnly); what the operations preserve is *)
(* proved of QueueNext once.  On top of that: what the channel promises to *)
(* its submitters, about its files and to whoever reads the queue.         *)
(***************************************************************************)
EXTENDS Compute, TLAPS, FiniteSetTheorems

\* One operation on the table.  Only Finish makes a job succeed, and only
\* enqueue brings one into the table.
QueueRoutine ==
    \/ RecoverExpired
    \/ \E j \in Jobs : LeaseExpires(j) \/ Cancel(j)
    \/ \E j \in Jobs, w \in Workers :
          LeaseNext(j, w) \/ MarkRunning(j, w) \/ Finish(j, w, "failed")

QueueKeeps == QueueRoutine \/ \E j \in Jobs, w \in Workers : Finish(j, w, "succeeded")

QueueNext == QueueKeeps \/ \E j \in Jobs : Enqueue(j)

QueueTypeOK ==
    /\ job \in [Jobs -> Row]
    /\ rank \in [Jobs -> Nat]
    /\ lastUser \in Users \cup {NoUser}

(***************************************************************************)
(* The table                                                               *)
(***************************************************************************)
\* A row that leaves the lease is a row, and nobody holds it.
LEMMA ReleasedType ==
    ASSUME NEW row \in Row, NEW status \in {"queued"} \cup Terminal
    PROVE  /\ Released(row, status) \in Row
           /\ Released(row, status).status = status
           /\ Released(row, status).attempts = row.attempts
BY DEF Released, Row, Terminal

\* Taking back expired leases leaves rows of their type.
LEMMA RecoveredType ==
    ASSUME job \in [Jobs -> Row]
    PROVE  /\ Recovered \in [Jobs -> Row]
           /\ \A j \in Jobs : Recovered[j].attempts = job[j].attempts
           /\ \A j \in Jobs : Recovered[j].status = "queued" =>
                 \/ job[j].status = "queued"
                 \/ job[j].attempts < MaxAttempts
BY DEF Recovered, RecoveredRow, Released, Row, Active, Terminal

\* A waiting job has tries left: this is what lease_next counts on.
TriesLeft == \A j \in Jobs : job[j].status = "queued" => job[j].attempts < MaxAttempts

\* Every operation keeps the rows, the arrival numbers and the last tenant of
\* their types, and the tries of a waiting job below the limit.
LEMMA QueueTyped ==
    ASSUME QueueTypeOK, TriesLeft, QueueNext
    PROVE  QueueTypeOK' /\ TriesLeft'
<1> USE QueueConstants
<1>1. CASE RecoverExpired
  BY <1>1, RecoveredType DEF RecoverExpired, QueueTypeOK, TriesLeft
<1>2. ASSUME NEW j \in Jobs, Enqueue(j) PROVE QueueTypeOK' /\ TriesLeft'
  <2>1. Cardinality(Present) \in Nat
    BY FS_Subset, FS_CardinalityType DEF Present
  <2>. QED
    BY <1>2, <2>1 DEF Enqueue, NewRow, QueueTypeOK, TriesLeft, Row, Active, Terminal
<1>3. ASSUME NEW j \in Jobs, LeaseExpires(j) PROVE QueueTypeOK' /\ TriesLeft'
  BY <1>3 DEF LeaseExpires, QueueTypeOK, TriesLeft, Row, Active
<1>7. ASSUME NEW j \in Jobs, Cancel(j) PROVE QueueTypeOK' /\ TriesLeft'
  <2>1. /\ Released(job[j], "cancelled") \in Row
        /\ Released(job[j], "cancelled").status = "cancelled"
    BY ReleasedType DEF QueueTypeOK, Terminal
  <2>. QED
    BY <1>7, <2>1 DEF Cancel, QueueTypeOK, TriesLeft
<1>4. ASSUME NEW j \in Jobs, NEW w \in Workers, LeaseNext(j, w) PROVE QueueTypeOK' /\ TriesLeft'
  <2>1. /\ Recovered[j].status = "queued"
        /\ job[j].attempts < MaxAttempts
        /\ UserOf[j] \in Users
    BY <1>4, RecoveredType DEF LeaseNext, Leasable, QueueTypeOK, TriesLeft
  <2>2. [status |-> "leased", attempts |-> job[j].attempts + 1, holder |-> w, live |-> TRUE] \in Row
    BY <2>1 DEF Row, Active, QueueTypeOK
  <2>. QED
    BY <1>4, <2>1, <2>2, RecoveredType DEF LeaseNext, QueueTypeOK, TriesLeft
<1>5. ASSUME NEW j \in Jobs, NEW w \in Workers, MarkRunning(j, w) PROVE QueueTypeOK' /\ TriesLeft'
  BY <1>5 DEF MarkRunning, QueueTypeOK, TriesLeft, Row, Active, Terminal
<1>6. ASSUME NEW j \in Jobs, NEW w \in Workers, NEW status \in {"succeeded", "failed"},
             Finish(j, w, status)
      PROVE  QueueTypeOK' /\ TriesLeft'
  <2>1. /\ Released(job[j], status) \in Row
        /\ Released(job[j], status).status = status
    BY ReleasedType DEF QueueTypeOK, Terminal
  <2>. QED
    BY <1>6, <2>1 DEF Finish, QueueTypeOK, TriesLeft
<1>. QED
  BY <1>1, <1>2, <1>3, <1>4, <1>5, <1>6, <1>7 DEF QueueNext, QueueKeeps, QueueRoutine

\* No operation puts two jobs of a tenant under lease.
LEMMA QueueExclusive ==
    ASSUME QueueTypeOK, OneActivePerUser, QueueNext
    PROVE  OneActivePerUser'
<1>1. \A j \in Jobs : Recovered[j].status \in Active => job[j].status \in Active
  BY DEF Recovered, RecoveredRow, Released, QueueTypeOK, Row, Active, Terminal
<1>2. CASE RecoverExpired
  BY <1>1, <1>2 DEF RecoverExpired, OneActivePerUser
<1>3. ASSUME NEW j \in Jobs, Enqueue(j) \/ LeaseExpires(j) PROVE OneActivePerUser'
  BY <1>3 DEF Enqueue, LeaseExpires, NewRow, OneActivePerUser, QueueTypeOK, Row, Active
<1>7. ASSUME NEW j \in Jobs, Cancel(j) PROVE OneActivePerUser'
  <2>1. Released(job[j], "cancelled").status \notin Active
    BY ReleasedType DEF QueueTypeOK, Active, Terminal
  <2>. QED
    BY <1>7, <2>1 DEF Cancel, OneActivePerUser, QueueTypeOK
<1>4. ASSUME NEW j \in Jobs, NEW w \in Workers, LeaseNext(j, w) PROVE OneActivePerUser'
  <2>1. \A k \in Jobs : UserOf[k] = UserOf[j] => Recovered[k].status \notin Active
    BY <1>4 DEF LeaseNext, Leasable
  <2>2. \A k \in Jobs : k # j => job'[k] = Recovered[k]
    BY <1>4, RecoveredType DEF LeaseNext, QueueTypeOK
  <2>3. SUFFICES ASSUME NEW k \in Jobs, NEW l \in Jobs, job'[k].status \in Active,
                        job'[l].status \in Active, UserOf[k] = UserOf[l], k # l
                 PROVE  FALSE
    BY DEF OneActivePerUser
  <2>4. CASE k = j
    BY <2>1, <2>2, <2>3, <2>4
  <2>5. CASE l = j
    BY <2>1, <2>2, <2>3, <2>5
  <2>6. CASE k # j /\ l # j
    BY <1>1, <2>2, <2>3, <2>6 DEF OneActivePerUser
  <2>. QED
    BY <2>4, <2>5, <2>6
<1>5. ASSUME NEW j \in Jobs, NEW w \in Workers, MarkRunning(j, w) PROVE OneActivePerUser'
  BY <1>5 DEF MarkRunning, Holds, OneActivePerUser, QueueTypeOK, Row, Active
<1>6. ASSUME NEW j \in Jobs, NEW w \in Workers, NEW status \in {"succeeded", "failed"},
             Finish(j, w, status)
      PROVE  OneActivePerUser'
  BY <1>6 DEF Finish, Released, OneActivePerUser, QueueTypeOK, Row, Active
<1>. QED
  BY <1>2, <1>3, <1>4, <1>5, <1>6, <1>7 DEF QueueNext, QueueKeeps, QueueRoutine

\* No operation changes the row of a job that has ended, and none brings back
\* a job that never arrived except enqueue.
LEMMA EndsStay ==
    ASSUME QueueTypeOK, QueueNext, NEW j \in Jobs, job[j].status \in Terminal
    PROVE  job'[j].status = job[j].status
<1>1. CASE RecoverExpired
  BY <1>1 DEF RecoverExpired, Recovered, RecoveredRow, Active, Terminal
<1>2. ASSUME NEW k \in Jobs, Enqueue(k) \/ LeaseExpires(k) \/ Cancel(k)
      PROVE  job'[j].status = job[j].status
  BY <1>2 DEF Enqueue, LeaseExpires, Cancel, Active, Terminal, QueueTypeOK
<1>3. ASSUME NEW k \in Jobs, NEW w \in Workers, LeaseNext(k, w)
      PROVE  job'[j].status = job[j].status
  <2>1. Recovered[j] = job[j]
    BY DEF Recovered, RecoveredRow, Active, Terminal
  <2>2. k # j
    BY <1>3, <2>1 DEF LeaseNext, Leasable, Terminal
  <2>. QED
    BY <1>3, <2>1, <2>2, RecoveredType DEF LeaseNext, QueueTypeOK
<1>4. ASSUME NEW k \in Jobs, NEW w \in Workers, MarkRunning(k, w)
      PROVE  job'[j].status = job[j].status
  BY <1>4 DEF MarkRunning, Holds, Active, Terminal, QueueTypeOK
<1>5. ASSUME NEW k \in Jobs, NEW w \in Workers, NEW status \in {"succeeded", "failed"},
             Finish(k, w, status)
      PROVE  job'[j].status = job[j].status
  BY <1>5 DEF Finish, Holds, Terminal, QueueTypeOK
<1>. QED
  BY <1>1, <1>2, <1>3, <1>4, <1>5 DEF QueueNext, QueueKeeps, QueueRoutine

\* Only enqueue brings a job into the table, and none leaves it.
LEMMA ArrivedStays ==
    ASSUME QueueTypeOK, QueueKeeps, NEW j \in Jobs
    PROVE  job'[j].status = "absent" <=> job[j].status = "absent"
<1>1. (Recovered[j].status = "absent") <=> (job[j].status = "absent")
  BY DEF Recovered, RecoveredRow, Released, QueueTypeOK, Row, Active, Terminal
<1>2. CASE RecoverExpired
  BY <1>1, <1>2 DEF RecoverExpired
<1>3. ASSUME NEW k \in Jobs, LeaseExpires(k)
      PROVE  job'[j].status = "absent" <=> job[j].status = "absent"
  BY <1>3 DEF LeaseExpires, QueueTypeOK
<1>4. ASSUME NEW k \in Jobs, Cancel(k)
      PROVE  job'[j].status = "absent" <=> job[j].status = "absent"
  BY <1>4 DEF Cancel, Released, Active, QueueTypeOK, Row
<1>5. ASSUME NEW k \in Jobs, NEW w \in Workers, LeaseNext(k, w)
      PROVE  job'[j].status = "absent" <=> job[j].status = "absent"
  BY <1>1, <1>5, RecoveredType DEF LeaseNext, Leasable, QueueTypeOK
<1>6. ASSUME NEW k \in Jobs, NEW w \in Workers, MarkRunning(k, w)
      PROVE  job'[j].status = "absent" <=> job[j].status = "absent"
  BY <1>6 DEF MarkRunning, Holds, Active, QueueTypeOK
<1>7. ASSUME NEW k \in Jobs, NEW w \in Workers, NEW status \in {"succeeded", "failed"},
             Finish(k, w, status)
      PROVE  job'[j].status = "absent" <=> job[j].status = "absent"
  BY <1>7 DEF Finish, Holds, Released, QueueTypeOK, Row
<1>. QED
  BY <1>2, <1>3, <1>4, <1>5, <1>6, <1>7 DEF QueueKeeps, QueueRoutine

(***************************************************************************)
(* The steps of the system                                                 *)
(***************************************************************************)
\* The disjuncts of Next, by name.
LEMMA Steps ==
    ASSUME Next
    PROVE  \/ \E j \in Jobs : Submit(j) \/ EnqueueThread(j) \/ SeesEnd(j) \/ TimesOut(j)
                            \/ StopEnqueueing(j) \/ StopPolling(j) \/ LeaseRunsOut(j)
           \/ \E w \in Workers : \/ Lease(w) \/ LeaseAnswer(w) \/ StartJob(w) \/ ChildEnds(w)
                                 \/ ChildRaises(w) \/ ReportError(w) \/ RenewRefused(w)
                                 \/ Restart(w) \/ LoseAnswer(w) \/ KillWorker(w)
           \/ \E w \in Workers, k \in Kinds :
                  Transaction(w, k) \/ FailInvalid(w, k) \/ Unwind(w, k)
           \/ CleanupTick
           \/ ServerCrash
BY DEF Next, Submitting, Working, Serving

\* A request in a given step has the fields of that step.
LEMMA CallFields ==
    ASSUME TypeOK, NEW w \in Workers, NEW k \in Kinds
    PROVE  /\ call[w][k] \in Call
           /\ call[w][k].step \in {"none", "checked", "invalid", "unwinding"}
           /\ call[w][k].step = "none" => call[w][k] = NoCall
           /\ call[w][k].step = "checked" =>
                 call[w][k].job \in Jobs /\ call[w][k].body \in Bodies
           /\ call[w][k].step = "invalid" =>
                 call[w][k].job \in Jobs /\ call[w][k].made \in BOOLEAN
           /\ call[w][k].step = "unwinding" =>
                 /\ call[w][k].job \in Jobs
                 /\ call[w][k].made \in BOOLEAN
                 /\ call[w][k].code \in Codes
<1>1. call[w][k] \in Call
  BY DEF TypeOK
<1>. QED
  BY <1>1 DEF Call, NoCall

\* A worker that is past its lease has a job.
WorkerHasJob ==
    \A w \in Workers :
        worker[w].pc \in {"got", "running", "finishing", "erred", "reporting"}
        => worker[w].job \in Jobs

\* Every step is one operation on the table or leaves it alone, and a job
\* arrives only by its enqueue thread and succeeds only by a finish request.
LEMMA QueueOnly ==
    ASSUME TypeOK, WorkerHasJob, Next
    PROVE  \/ UNCHANGED queueVars
           \/ QueueRoutine
           \/ \E w \in Workers, k \in Kinds :
                 Transaction(w, k) /\ Finish(call[w][k].job, w, "succeeded")
           \/ \E j \in Jobs : EnqueueThread(j) /\ Enqueue(j)
<1>1. ASSUME NEW j \in Jobs, Submit(j) \/ SeesEnd(j) \/ StopEnqueueing(j)
      PROVE  UNCHANGED queueVars
  BY <1>1 DEF Submit, SeesEnd, StopEnqueueing
<1>2. ASSUME NEW j \in Jobs, EnqueueThread(j)
      PROVE  UNCHANGED queueVars \/ (EnqueueThread(j) /\ Enqueue(j))
  BY <1>2 DEF EnqueueThread
<1>3. ASSUME NEW j \in Jobs, TimesOut(j) \/ StopPolling(j) \/ LeaseRunsOut(j)
      PROVE  QueueRoutine
  BY <1>3 DEF TimesOut, StopPolling, LeaseRunsOut, QueueRoutine
<1>4. ASSUME NEW w \in Workers, Lease(w)
      PROVE  QueueRoutine
  BY <1>4 DEF Lease, LeaseNothing, QueueRoutine
<1>5. ASSUME NEW w \in Workers, LeaseAnswer(w)
      PROVE  QueueRoutine
  BY <1>5 DEF LeaseAnswer, CleanupTerminalPackages, QueueRoutine
<1>6. ASSUME NEW w \in Workers, StartJob(w)
      PROVE  UNCHANGED queueVars \/ QueueRoutine
  <2>1. worker[w].job \in Jobs
    BY <1>6 DEF StartJob, WorkerHasJob
  <2>. QED
    BY <1>6, <2>1 DEF StartJob, QueueRoutine
<1>7. ASSUME NEW w \in Workers,
             ChildEnds(w) \/ ChildRaises(w) \/ ReportError(w) \/ RenewRefused(w)
                \/ Restart(w) \/ LoseAnswer(w) \/ KillWorker(w)
      PROVE  UNCHANGED queueVars
  BY <1>7 DEF ChildEnds, SendFinish, ChildRaises, ReportError, RenewRefused, Restart,
              LoseAnswer, KillWorker
<1>8. ASSUME NEW w \in Workers, NEW k \in Kinds, Transaction(w, k)
      PROVE  \/ UNCHANGED queueVars
             \/ QueueRoutine
             \/ Transaction(w, k) /\ Finish(call[w][k].job, w, "succeeded")
  <2>1. call[w][k].job \in Jobs
    BY <1>8, CallFields DEF Transaction
  <2>. QED
    BY <1>8, <2>1 DEF Transaction, QueueRoutine
<1>9. ASSUME NEW w \in Workers, NEW k \in Kinds, FailInvalid(w, k)
      PROVE  UNCHANGED queueVars \/ QueueRoutine
  <2>1. call[w][k].job \in Jobs
    BY <1>9, CallFields DEF FailInvalid
  <2>. QED
    BY <1>9, <2>1 DEF FailInvalid, QueueRoutine
<1>10. ASSUME NEW w \in Workers, NEW k \in Kinds, Unwind(w, k)
       PROVE  UNCHANGED queueVars
  BY <1>10 DEF Unwind
<1>11. ASSUME CleanupTick PROVE QueueRoutine
  BY <1>11 DEF CleanupTick, CleanupTerminalPackages, QueueRoutine
<1>12. ASSUME ServerCrash PROVE UNCHANGED queueVars
  BY <1>12 DEF ServerCrash
<1>. QED
  BY <1>1, <1>2, <1>3, <1>4, <1>5, <1>6, <1>7, <1>8, <1>9, <1>10, <1>11, <1>12, Steps

\* In particular every step is one operation on the table, or none.
LEMMA QueueSteps ==
    ASSUME TypeOK, WorkerHasJob, Next
    PROVE  UNCHANGED queueVars \/ QueueNext
<1>1. ASSUME NEW w \in Workers, NEW k \in Kinds,
             Transaction(w, k), Finish(call[w][k].job, w, "succeeded")
      PROVE  QueueNext
  BY <1>1, CallFields DEF Transaction, QueueNext, QueueKeeps
<1>. QED
  BY <1>1, QueueOnly DEF QueueNext, QueueKeeps

(***************************************************************************)
(* Types                                                                   *)
(***************************************************************************)
\* What TypeOK says beside the table.
ChannelTypeOK ==
    /\ sub \in [Jobs -> Submitter]
    /\ pkg \subseteq Jobs
    /\ dir \in [Jobs -> {"none", "written", "torn"}]
    /\ worker \in [Workers -> WorkerState]
    /\ call \in [Workers -> [Kinds -> Call]]
    /\ faults \in 0..MaxFaults

\* Moving a worker keeps its type, and its job unless it goes idle.
LEMMA WorkerMoves ==
    ASSUME worker \in [Workers -> WorkerState], WorkerHasJob, NEW w \in Workers,
           NEW pc \in {"idle", "leasing", "got", "running",
                       "finishing", "erred", "reporting", "exited"},
           \/ Goes(w, pc) /\ (worker[w].job \in Jobs \/ pc \in {"idle", "leasing", "exited"})
           \/ Idles(w)
    PROVE  worker' \in [Workers -> WorkerState] /\ WorkerHasJob'
BY ComputeConstants DEF Goes, Idles, WorkerState, WorkerHasJob

\* A submitter that is moved on keeps its type.
LEMMA SubmitterMoves ==
    ASSUME sub \in [Jobs -> Submitter], NEW j \in Jobs, NEW thread \in BOOLEAN,
           NEW pc \in {"new", "enqueueing", "polling", "done", "gone"},
           sub' = [sub EXCEPT ![j].pc = pc, ![j].thread = thread]
    PROVE  sub' \in [Jobs -> Submitter]
BY DEF Submitter

\* So does one that has returned.
LEMMA SubmitterReturns ==
    ASSUME sub \in [Jobs -> Submitter], NEW j \in Jobs,
           NEW told \in {"full", "timeout", "stopped"} \cup Terminal,
           sub' = [sub EXCEPT ![j] = Returned(told)]
    PROVE  sub' \in [Jobs -> Submitter]
BY DEF Submitter, Returned

\* The fields beside the table keep their types when a submitter moves.
LEMMA SubmitterTyped ==
    ASSUME TypeOK, WorkerHasJob, NEW j \in Jobs,
           \/ Submit(j) \/ EnqueueThread(j) \/ SeesEnd(j) \/ TimesOut(j)
           \/ StopEnqueueing(j) \/ StopPolling(j) \/ LeaseRunsOut(j)
    PROVE  ChannelTypeOK' /\ WorkerHasJob'
<1>1. sub' \in [Jobs -> Submitter] /\ pkg' \subseteq Jobs
  <2>0. sub \in [Jobs -> Submitter] /\ pkg \subseteq Jobs
    BY DEF TypeOK
  <2>1. CASE Submit(j)
    BY <2>0, <2>1, SubmitterMoves DEF Submit
  <2>5. CASE LeaseRunsOut(j)
    BY <2>0, <2>5 DEF LeaseRunsOut
  <2>4. CASE StopEnqueueing(j)
    <3>1. PICK thread \in BOOLEAN :
             sub' = [sub EXCEPT ![j] = [Returned("stopped") EXCEPT !.thread = thread]]
      BY <2>4 DEF StopEnqueueing
    <3>2. [Returned("stopped") EXCEPT !.thread = thread] \in Submitter
      BY DEF Returned, Submitter
    <3>. QED
      BY <2>4, <3>1, <3>2 DEF StopEnqueueing, TypeOK
  <2>2. CASE EnqueueThread(j)
    <3>1. CASE Return(j, "full")
      BY <2>0, <3>1, SubmitterReturns DEF Return
    <3>2. CASE pkg' = pkg /\ sub' = [sub EXCEPT ![j].thread = FALSE]
      BY <2>0, <3>2 DEF Submitter
    <3>3. CASE /\ pkg' = pkg
               /\ sub' = [sub EXCEPT ![j].thread = FALSE,
                                     ![j].pc = IF @ = "enqueueing" THEN "polling" ELSE @]
      <4> DEFINE pc == IF sub[j].pc = "enqueueing" THEN "polling" ELSE sub[j].pc
      <4>1. sub' = [sub EXCEPT ![j].pc = pc, ![j].thread = FALSE]
        BY <2>0, <3>3
      <4>2. pc \in {"new", "enqueueing", "polling", "done", "gone"}
        BY <2>0 DEF Submitter
      <4>. HIDE DEF pc
      <4>. QED
        BY <2>0, <3>3, <4>1, <4>2, SubmitterMoves
    <3>. QED
      BY <2>2, <3>1, <3>2, <3>3 DEF EnqueueThread
  <2>3. CASE SeesEnd(j) \/ TimesOut(j) \/ StopPolling(j)
    <3>1. \E told \in {"full", "timeout", "stopped"} \cup Terminal : Return(j, told)
      BY <2>3 DEF SeesEnd, TimesOut, StopPolling
    <3>. QED
      BY <2>0, <3>1, SubmitterReturns DEF Return
  <2>. QED
    BY <2>1, <2>2, <2>3, <2>4, <2>5
<1>2. UNCHANGED <<dir, worker, call, faults>>
  BY DEF Submit, EnqueueThread, SeesEnd, TimesOut, StopEnqueueing, StopPolling, LeaseRunsOut
<1>. QED
  BY <1>1, <1>2 DEF ChannelTypeOK, TypeOK, WorkerHasJob
\* A request moved on to another step keeps the type of "call".
LEMMA CallMoves ==
    ASSUME TypeOK, NEW w \in Workers, NEW k \in Kinds, NEW c \in Call,
           call' = [call EXCEPT ![w][k] = c]
    PROVE  call' \in [Workers -> [Kinds -> Call]]
BY DEF TypeOK

\* They keep their types when a worker moves: what is past its lease has a job.
LEMMA WorkerTyped ==
    ASSUME TypeOK, WorkerHasJob, NEW w \in Workers,
           \/ Lease(w) \/ LeaseAnswer(w) \/ StartJob(w) \/ ChildEnds(w) \/ ChildRaises(w)
           \/ ReportError(w) \/ RenewRefused(w) \/ Restart(w) \/ LoseAnswer(w) \/ KillWorker(w)
    PROVE  ChannelTypeOK' /\ WorkerHasJob'
<1> DEFINE Moved == worker' \in [Workers -> WorkerState] /\ WorkerHasJob'
<1>0. worker \in [Workers -> WorkerState]
  BY DEF TypeOK
<1>1. ASSUME Lease(w) PROVE ChannelTypeOK' /\ WorkerHasJob'
  <2>1. CASE Goes(w, "leasing")
    BY <1>0, <1>1, <2>1, WorkerMoves DEF Lease, ChannelTypeOK, TypeOK
  <2>2. CASE \E j \in Jobs : worker' = [worker EXCEPT ![w] = [pc |-> "leasing", job |-> j]]
    <3>1. Moved
      BY <1>0, <2>2 DEF WorkerState, WorkerHasJob
    <3>. QED
      BY <1>1, <3>1 DEF Lease, ChannelTypeOK, TypeOK
  <2>. QED
    BY <1>1, <2>1, <2>2 DEF Lease
<1>2. ASSUME LeaseAnswer(w) PROVE ChannelTypeOK' /\ WorkerHasJob'
  <2>1. pkg' \subseteq Jobs
    BY <1>2 DEF LeaseAnswer, CleanupTerminalPackages, TypeOK
  <2>2. Moved
    BY <1>0, <1>2, <2>1, WorkerMoves DEF LeaseAnswer
  <2>. QED
    BY <1>2, <2>1, <2>2 DEF LeaseAnswer, ChannelTypeOK, TypeOK
<1>3. ASSUME StartJob(w) PROVE ChannelTypeOK' /\ WorkerHasJob'
  <2>1. worker[w].job \in Jobs
    BY <1>3 DEF StartJob, WorkerHasJob
  <2>2. Moved
    BY <1>0, <1>3, <2>1, WorkerMoves DEF StartJob
  <2>. QED
    BY <1>3, <2>2 DEF StartJob, ChannelTypeOK, TypeOK
<1>4. ASSUME NEW k \in Kinds, NEW body \in Bodies, worker[w].job \in Jobs, SendFinish(w, k, body)
      PROVE  ChannelTypeOK' /\ WorkerHasJob'
  <2>1. Moved
    BY <1>0, <1>4, WorkerMoves DEF SendFinish, Awaiting, AfterRefusal
  <2>2. [step |-> "checked", job |-> worker[w].job, body |-> body] \in Call
    BY <1>4 DEF Call
  <2>3. call' \in [Workers -> [Kinds -> Call]]
    <3>1. CASE call' = [call EXCEPT ![w][k] = [step |-> "checked", job |-> worker[w].job,
                                               body |-> body]]
      BY <2>2, <3>1, CallMoves
    <3>2. CASE UNCHANGED call
      BY <3>2 DEF TypeOK
    <3>. QED
      BY <1>4, <3>1, <3>2 DEF SendFinish
  <2>. QED
    BY <1>4, <2>1, <2>3 DEF SendFinish, ChannelTypeOK, TypeOK
<1>5. ASSUME ChildEnds(w) \/ ReportError(w) PROVE ChannelTypeOK' /\ WorkerHasJob'
  <2>1. worker[w].job \in Jobs
    BY <1>5 DEF ChildEnds, ReportError, WorkerHasJob
  <2>. QED
    BY <1>4, <1>5, <2>1 DEF ChildEnds, ReportError, Kinds, Bodies
<1>6. ASSUME ChildRaises(w) PROVE ChannelTypeOK' /\ WorkerHasJob'
  <2>1. worker[w].job \in Jobs
    BY <1>6 DEF ChildRaises, WorkerHasJob
  <2>2. Moved
    BY <1>0, <1>6, <2>1, WorkerMoves DEF ChildRaises
  <2>. QED
    BY <1>6, <2>2 DEF ChildRaises, ChannelTypeOK, TypeOK
<1>7. ASSUME RenewRefused(w) \/ Restart(w) PROVE ChannelTypeOK' /\ WorkerHasJob'
  <2>1. Moved
    BY <1>0, <1>7, WorkerMoves DEF RenewRefused, Restart
  <2>. QED
    BY <1>7, <2>1 DEF RenewRefused, Restart, ChannelTypeOK, TypeOK
<1>8. ASSUME LoseAnswer(w) \/ KillWorker(w) PROVE ChannelTypeOK' /\ WorkerHasJob'
  <2>1. faults' \in 0..MaxFaults
    BY <1>8, ComputeConstants DEF LoseAnswer, KillWorker, Fault, TypeOK
  <2>2. worker[w].pc \in {"leasing", "got", "running", "finishing", "erred", "reporting"}
    BY <1>0, <1>8 DEF LoseAnswer, KillWorker, WorkerState
  <2>3. worker[w].pc = "finishing" => worker[w].job \in Jobs
    BY DEF WorkerHasJob
  <2>4. Unanswered(worker[w].pc) \in {"exited", "erred", "idle"}
    BY <2>2 DEF Unanswered
  <2>5. Unanswered(worker[w].pc) = "erred" => worker[w].pc = "finishing"
    BY <2>2 DEF Unanswered
  <2>6. Moved
    BY <1>0, <1>8, <2>3, <2>4, <2>5, WorkerMoves DEF LoseAnswer, KillWorker
  <2>. QED
    BY <1>8, <2>1, <2>6 DEF LoseAnswer, KillWorker, ChannelTypeOK, TypeOK
<1>. QED
  BY <1>1, <1>2, <1>3, <1>5, <1>6, <1>7, <1>8

\* They keep their types when the server works on a request, cleans up or dies.
LEMMA ServerTyped ==
    ASSUME TypeOK, WorkerHasJob,
           \/ \E w \in Workers, k \in Kinds :
                 Transaction(w, k) \/ FailInvalid(w, k) \/ Unwind(w, k)
           \/ CleanupTick
           \/ ServerCrash
    PROVE  ChannelTypeOK' /\ WorkerHasJob'
<1>1. ASSUME NEW w \in Workers, NEW k \in Kinds, NEW code \in Codes, NEW made \in BOOLEAN,
             call[w][k].job \in Jobs, Unwinds(w, k, code, made)
      PROVE  call' \in [Workers -> [Kinds -> Call]]
  <2>1. [step |-> "unwinding", job |-> call[w][k].job, code |-> code, made |-> made] \in Call
    BY <1>1 DEF Call
  <2>. QED
    BY <1>1, <2>1, CallMoves DEF Unwinds
<1>2. ASSUME NEW w \in Workers, NEW k \in Kinds, Transaction(w, k)
      PROVE  ChannelTypeOK' /\ WorkerHasJob'
  <2>1. call[w][k].job \in Jobs
    BY <1>2, CallFields DEF Transaction
  <2>2. dir' \in [Jobs -> {"none", "written", "torn"}]
    BY <1>2, <2>1 DEF Transaction, TypeOK
  <2>3. \A made \in BOOLEAN : [step |-> "invalid", job |-> call[w][k].job, made |-> made] \in Call
    BY <2>1 DEF Call
  <2>4. \/ \E made \in BOOLEAN :
              call' = [call EXCEPT ![w][k] = [step |-> "invalid", job |-> call[w][k].job,
                                              made |-> made]]
        \/ \E code \in Codes, made \in BOOLEAN : Unwinds(w, k, code, made)
    <3>1. CASE \E code \in Codes, made \in BOOLEAN : Unwinds(w, k, code, made)
      BY <3>1
    <3>2. CASE \E made \in BOOLEAN :
                  call' = [call EXCEPT ![w][k] = [step |-> "invalid", job |-> call[w][k].job,
                                                  made |-> made]]
      BY <3>2
    <3>3. 204 \in Codes /\ 409 \in Codes /\ 500 \in Codes
      BY DEF Codes
    <3>. QED
      BY <1>2, <3>1, <3>2, <3>3, Zenon DEF Transaction
  <2>5. call' \in [Workers -> [Kinds -> Call]]
    BY <1>1, <2>1, <2>3, <2>4, CallMoves
  <2>. QED
    BY <1>2, <2>2, <2>5 DEF Transaction, ChannelTypeOK, TypeOK, WorkerHasJob
<1>3. ASSUME NEW w \in Workers, NEW k \in Kinds, FailInvalid(w, k)
      PROVE  ChannelTypeOK' /\ WorkerHasJob'
  <2>1. call[w][k].job \in Jobs /\ call[w][k].made \in BOOLEAN
    BY <1>3, CallFields DEF FailInvalid
  <2>2. \E code \in Codes : Unwinds(w, k, code, call[w][k].made)
    BY <1>3 DEF FailInvalid, Codes
  <2>3. call' \in [Workers -> [Kinds -> Call]]
    BY <1>1, <2>1, <2>2
  <2>. QED
    BY <1>3, <2>3 DEF FailInvalid, ChannelTypeOK, TypeOK, WorkerHasJob
<1>4. ASSUME NEW w \in Workers, NEW k \in Kinds, Unwind(w, k)
      PROVE  ChannelTypeOK' /\ WorkerHasJob'
  <2>1. call[w][k].job \in Jobs
    BY <1>4, CallFields DEF Unwind
  <2>2. dir' \in [Jobs -> {"none", "written", "torn"}] /\ pkg' \subseteq Jobs
    BY <1>4, <2>1 DEF Unwind, OutputAfter, PackagesAfter, TypeOK
  <2>3. call' \in [Workers -> [Kinds -> Call]]
    BY <1>4, CallMoves DEF Unwind, Call
  <2>4. worker' \in [Workers -> WorkerState] /\ WorkerHasJob'
    <3>1. CASE UNCHANGED worker
      BY <3>1 DEF TypeOK, WorkerHasJob
    <3>2. CASE Idles(w)
      BY <3>2, WorkerMoves DEF TypeOK
    <3>3. CASE worker[w].job = call[w][k].job /\ Goes(w, AfterRefusal(k))
      BY <2>1, <3>3, WorkerMoves DEF TypeOK, AfterRefusal
    <3>. QED
      BY <1>4, <3>1, <3>2, <3>3 DEF Unwind
  <2>. QED
    BY <1>4, <2>2, <2>3, <2>4 DEF Unwind, ChannelTypeOK, TypeOK
<1>5. ASSUME CleanupTick PROVE ChannelTypeOK' /\ WorkerHasJob'
  BY <1>5 DEF CleanupTick, CleanupTerminalPackages, ChannelTypeOK, TypeOK, WorkerHasJob
<1>6. ASSUME ServerCrash PROVE ChannelTypeOK' /\ WorkerHasJob'
  <2>0. sub \in [Jobs -> Submitter] /\ worker \in [Workers -> WorkerState]
    BY DEF TypeOK
  <2>1. sub' \in [Jobs -> Submitter]
    <3> DEFINE pc(j) == IF sub[j].pc \in {"new", "done"} THEN sub[j].pc ELSE "gone"
    <3>1. sub' = [j \in Jobs |-> [sub[j] EXCEPT !.pc = pc(j), !.thread = FALSE]]
      BY <1>6 DEF ServerCrash
    <3>2. \A j \in Jobs : pc(j) \in {"new", "enqueueing", "polling", "done", "gone"}
      OBVIOUS
    <3>. HIDE DEF pc
    <3>3. ASSUME NEW j \in Jobs PROVE [sub[j] EXCEPT !.pc = pc(j), !.thread = FALSE] \in Submitter
      BY <2>0, <3>2 DEF Submitter
    <3>. QED
      BY <3>1, <3>3
  <2>2. dir' \in [Jobs -> {"none", "written", "torn"}]
    BY <1>6 DEF ServerCrash, TypeOK
  <2>3. call' \in [Workers -> [Kinds -> Call]]
    BY <1>6 DEF ServerCrash, Call
  <2>4. \A w \in Workers :
           \/ worker'[w] = worker[w]
           \/ worker'[w] = [worker[w] EXCEPT !.pc = "exited"]
           \/ /\ worker[w].pc = "finishing"
              /\ worker'[w] = [worker[w] EXCEPT !.pc = "erred"]
    <3>1. SUFFICES ASSUME NEW w \in Workers, worker[w].pc \in {"leasing", "finishing", "reporting"}
                   PROVE  worker'[w] = [worker[w] EXCEPT !.pc =
                                           IF worker[w].pc = "finishing" THEN "erred" ELSE "exited"]
      BY <1>6, <2>0 DEF ServerCrash, WorkerState
    <3>2. Unanswered(worker[w].pc) = IF worker[w].pc = "finishing" THEN "erred" ELSE "exited"
      BY <3>1 DEF Unanswered
    <3>. QED
      BY <1>6, <3>1, <3>2 DEF ServerCrash
  <2>5. worker' \in [Workers -> WorkerState]
    <3>1. ASSUME NEW w \in Workers PROVE worker'[w] \in WorkerState
      <4>1. worker[w] \in WorkerState
        BY <2>0
      <4>2. \A pc \in {"exited", "erred"} : [worker[w] EXCEPT !.pc = pc] \in WorkerState
        BY <4>1 DEF WorkerState
      <4>. QED
        BY <2>4, <4>1, <4>2
    <3>. QED
      BY <1>6, <3>1 DEF ServerCrash
  <2>6. WorkerHasJob'
    <3>1. SUFFICES ASSUME NEW w \in Workers,
                          worker'[w].pc \in {"got", "running", "finishing", "erred", "reporting"}
                   PROVE  worker'[w].job \in Jobs
      BY DEF WorkerHasJob
    <3>2. worker[w].job \in Jobs /\ worker'[w].job = worker[w].job
      BY <2>0, <2>4, <3>1 DEF WorkerHasJob, WorkerState
    <3>. QED
      BY <3>2
  <2>7. faults' \in 0..MaxFaults
    <3>1. Fault
      BY <1>6 DEF ServerCrash
    <3>. QED
      BY <3>1, ComputeConstants DEF Fault, TypeOK
  <2>. QED
    BY <1>6, <2>1, <2>2, <2>3, <2>4, <2>5, <2>6, <2>7 DEF ServerCrash, ChannelTypeOK, TypeOK
<1>. QED
  BY <1>2, <1>3, <1>4, <1>5, <1>6

(***************************************************************************)
(* The inductive invariant of the table                                    *)
(***************************************************************************)
TableInv == TypeOK /\ TriesLeft /\ WorkerHasJob /\ OneActivePerUser

\* The initial states satisfy it.
LEMMA TableInitially == Init => TableInv
BY ComputeConstants, QueueConstants
   DEF Init, QueueInit, NewRow, TableInv, TypeOK, TriesLeft, WorkerHasJob, OneActivePerUser,
       Row, Submitter, WorkerState, Call, Active, Terminal

\* Every step keeps it.
LEMMA TableKept == TableInv /\ [Next]_vars => TableInv'
<1>1. ASSUME TableInv, UNCHANGED vars PROVE TableInv'
  BY <1>1 DEF TableInv, vars, TypeOK, TriesLeft, WorkerHasJob, OneActivePerUser
<1>2. ASSUME TableInv, Next PROVE TableInv'
  <2>1. ChannelTypeOK' /\ WorkerHasJob'
    BY <1>2, Steps, SubmitterTyped, WorkerTyped, ServerTyped DEF TableInv
  <2>2. QueueTypeOK' /\ TriesLeft' /\ OneActivePerUser'
    <3>1. QueueTypeOK
      BY <1>2 DEF TableInv, TypeOK, QueueTypeOK
    <3>2. CASE UNCHANGED queueVars
      BY <1>2, <3>1, <3>2 DEF TableInv, queueVars, QueueTypeOK, TriesLeft, OneActivePerUser
    <3>3. CASE QueueNext
      BY <1>2, <3>1, <3>3, QueueTyped, QueueExclusive DEF TableInv
    <3>4. UNCHANGED queueVars \/ QueueNext
      BY <1>2, QueueSteps DEF TableInv
    <3>. QED
      BY <3>2, <3>3, <3>4
  <2>. QED
    BY <2>1, <2>2 DEF TableInv, TypeOK, ChannelTypeOK, QueueTypeOK
<1>. QED
  BY <1>1, <1>2

\* The table, the submitters, the files, the workers and the requests keep
\* their types in every execution of the channel.
THEOREM ComputeTypeCorrect == Spec => []TypeOK
<1>1. TableInv => TypeOK
  BY DEF TableInv
<1>. QED
  BY TableInitially, TableKept, <1>1, PTL DEF Spec

\* In every execution, with any number of workers that poll, lose their
\* leases and come back, a tenant has at most one job under lease.
THEOREM TenantsTakeTurns == Spec => []OneActivePerUser
<1>1. TableInv => OneActivePerUser
  BY DEF TableInv
<1>. QED
  BY TableInitially, TableKept, <1>1, PTL DEF Spec

----------------------------------------------------------------------------

(***************************************************************************)
(* The queue implements JobLifecycle                                       *)
(***************************************************************************)
\* What may become of a job's row in one step, in the terms of JobLifecycle.
RowSteps(old, new) ==
    \/ old.status = "absent" /\ new.status = "queued" /\ new.attempts = 0
    \/ /\ old.status \in {"queued"} \cup Active /\ new.status \in Active
       /\ old.attempts < MaxAttempts /\ new.attempts = old.attempts + 1
    \/ /\ old.status \in Active /\ new.status = "queued"
       /\ old.attempts < MaxAttempts /\ new.attempts = old.attempts
    \/ /\ \/ old.status \in Active /\ new.status \in Terminal
          \/ old.status = "queued" /\ new.status = "cancelled"
       /\ new.attempts = old.attempts
    \/ /\ new.status = old.status \/ (old.status \in Active /\ new.status \in Active)
       /\ new.attempts = old.attempts

\* A row that keeps its stage and its tries takes no step.
LEMMA RowStays ==
    ASSUME NEW old \in Row, NEW new \in Row, new.attempts = old.attempts,
           new.status = old.status \/ (old.status \in Active /\ new.status \in Active)
    PROVE  RowSteps(old, new)
BY DEF RowSteps

\* A row that reaches an end from where it may does.
LEMMA RowEnds ==
    ASSUME NEW old \in Row, NEW new \in Row, new.attempts = old.attempts, new.status \in Terminal,
           old.status \in Active \/ (old.status = "queued" /\ new.status = "cancelled")
    PROVE  RowSteps(old, new)
BY DEF RowSteps

\* Taking a lease back gives the job up for another try or fails it.
LEMMA RecoveredSteps ==
    ASSUME QueueTypeOK, NEW j \in Jobs
    PROVE  RowSteps(job[j], Recovered[j])
<1>1. job[j] \in Row /\ Recovered[j] \in Row
  BY RecoveredType DEF QueueTypeOK
<1>2. CASE job[j].status \in Active /\ ~job[j].live
  <2> DEFINE end == IF job[j].attempts < MaxAttempts THEN "queued" ELSE "failed"
  <2>1. Recovered[j] = Released(job[j], end)
    BY <1>2 DEF Recovered, RecoveredRow
  <2>2. Released(job[j], end).status = end /\ Released(job[j], end).attempts = job[j].attempts
    BY <1>1, ReleasedType DEF Terminal
  <2>. QED
    BY <1>2, <2>1, <2>2 DEF RowSteps, Terminal
<1>3. CASE ~(job[j].status \in Active /\ ~job[j].live)
  <2>1. Recovered[j] = job[j]
    BY <1>3 DEF Recovered, RecoveredRow
  <2>. QED
    BY <1>1, <2>1, RowStays
<1>. QED
  BY <1>2, <1>3

\* Every operation moves every row as JobLifecycle allows.
LEMMA QueueRowSteps ==
    ASSUME QueueTypeOK, TriesLeft, QueueNext, NEW i \in Jobs
    PROVE  RowSteps(job[i], job'[i])
<1>0. job[i] \in Row /\ job'[i] \in Row
  BY QueueTyped DEF QueueTypeOK
<1>1. CASE RecoverExpired
  BY <1>1, RecoveredSteps DEF RecoverExpired
<1>2. ASSUME NEW j \in Jobs, Enqueue(j) PROVE RowSteps(job[i], job'[i])
  <2>1. \/ job'[i] = job[i]
        \/ job[i].status = "absent" /\ job'[i] = NewRow("queued")
    BY <1>2 DEF Enqueue, QueueTypeOK
  <2>2. NewRow("queued").status = "queued" /\ NewRow("queued").attempts = 0
    BY DEF NewRow
  <2>. QED
    BY <1>0, <2>1, <2>2, RowStays DEF RowSteps
<1>3. ASSUME NEW j \in Jobs, LeaseExpires(j) PROVE RowSteps(job[i], job'[i])
  <2>1. job'[i].status = job[i].status /\ job'[i].attempts = job[i].attempts
    BY <1>0, <1>3 DEF LeaseExpires, QueueTypeOK, Row
  <2>. QED
    BY <1>0, <2>1, RowStays
<1>4. ASSUME NEW j \in Jobs, NEW status \in Terminal,
             job' = [job EXCEPT ![j] = Released(@, status)],
             job[j].status \in Active \/ (job[j].status = "queued" /\ status = "cancelled")
      PROVE  RowSteps(job[i], job'[i])
  <2>1. CASE i # j
    BY <1>0, <1>4, <2>1, RowStays DEF QueueTypeOK
  <2>2. CASE i = j
    <3>1. job'[i] = Released(job[i], status)
      BY <1>4, <2>2 DEF QueueTypeOK
    <3>2. /\ Released(job[i], status).status = status
          /\ Released(job[i], status).attempts = job[i].attempts
      BY <1>0, ReleasedType
    <3>. QED
      BY <1>0, <1>4, <2>2, <3>1, <3>2, RowEnds
  <2>. QED
    BY <2>1, <2>2
<1>5. ASSUME NEW j \in Jobs, Cancel(j) PROVE RowSteps(job[i], job'[i])
  <2>1. CASE job' = job
    BY <1>0, <2>1, RowStays
  <2>2. CASE /\ job[j].status \in {"queued"} \cup Active
             /\ job' = [job EXCEPT ![j] = Released(@, "cancelled")]
    BY <1>4, <2>2 DEF Terminal
  <2>. QED
    BY <1>5, <2>1, <2>2 DEF Cancel
<1>6. ASSUME NEW j \in Jobs, NEW w \in Workers, LeaseNext(j, w) PROVE RowSteps(job[i], job'[i])
  <2>1. CASE i # j
    <3>1. job'[i] = Recovered[i]
      BY <1>6, <2>1, RecoveredType DEF LeaseNext, QueueTypeOK
    <3>. QED
      BY <3>1, RecoveredSteps
  <2>2. CASE i = j
    <3>1. Recovered[i].status = "queued"
      BY <1>6, <2>2 DEF LeaseNext, Leasable
    <3>2. job[i].attempts < MaxAttempts
      BY <3>1, RecoveredType DEF TriesLeft, QueueTypeOK
    <3>3. job[i].status \in {"queued"} \cup Active
      BY <1>0, <3>1 DEF Recovered, RecoveredRow
    <3>4. job'[i].status = "leased" /\ job'[i].attempts = job[i].attempts + 1
      BY <1>6, <2>2, RecoveredType DEF LeaseNext, QueueTypeOK
    <3>. QED
      BY <3>2, <3>3, <3>4 DEF RowSteps, Active
  <2>. QED
    BY <2>1, <2>2
<1>7. ASSUME NEW j \in Jobs, NEW w \in Workers, MarkRunning(j, w) PROVE RowSteps(job[i], job'[i])
  <2>1. /\ job'[i].status = job[i].status \/ (job[i].status \in Active /\ job'[i].status \in Active)
        /\ job'[i].attempts = job[i].attempts
    BY <1>0, <1>7 DEF MarkRunning, Holds, QueueTypeOK, Row, Active
  <2>. QED
    BY <1>0, <2>1, RowStays
<1>8. ASSUME NEW j \in Jobs, NEW w \in Workers, NEW status \in {"succeeded", "failed"},
             Finish(j, w, status)
      PROVE  RowSteps(job[i], job'[i])
  <2>1. job' = [job EXCEPT ![j] = Released(@, status)] /\ job[j].status \in Active
    BY <1>8 DEF Finish, Holds, Active
  <2>2. status \in Terminal
    BY DEF Terminal
  <2>. QED
    BY <1>4, <2>1, <2>2
<1>. QED
  BY <1>1, <1>2, <1>3, <1>5, <1>6, <1>7, <1>8 DEF QueueNext, QueueKeeps, QueueRoutine

\* An allowed move of every row that leaves each tenant one lease is a step
\* of JobLifecycle.
LEMMA LifecycleStep ==
    ASSUME QueueTypeOK, QueueTypeOK', OneActivePerUser', \A j \in Jobs : RowSteps(job[j], job'[j])
    PROVE  Lifecycle!Next
<1>1. ASSUME NEW j \in Jobs
      PROVE  \/ Lifecycle!Submit(j) \/ Lifecycle!Take(j) \/ Lifecycle!GiveBack(j)
             \/ Lifecycle!End(j) \/ Lifecycle!Stay(j)
  <2>1. job[j] \in Row /\ job'[j] \in Row
    BY DEF QueueTypeOK
  <2>2. RowSteps(job[j], job'[j])
    OBVIOUS
  <2>3. \/ job[j].status = "absent" /\ Stage(job[j]) = "absent"
        \/ job[j].status = "queued" /\ Stage(job[j]) = "waiting"
        \/ job[j].status \in Active /\ Stage(job[j]) = "held"
        \/ job[j].status \in Terminal /\ Stage(job[j]) = job[j].status
    BY <2>1 DEF Stage, Row, Active, Terminal
  <2>4. \/ job'[j].status = "absent" /\ Stage(job'[j]) = "absent"
        \/ job'[j].status = "queued" /\ Stage(job'[j]) = "waiting"
        \/ job'[j].status \in Active /\ Stage(job'[j]) = "held"
        \/ job'[j].status \in Terminal /\ Stage(job'[j]) = job'[j].status
    BY <2>1 DEF Stage, Row, Active, Terminal
  <2>. QED
    BY <2>2, <2>3, <2>4
       DEF RowSteps, Lifecycle!Submit, Lifecycle!Take, Lifecycle!GiveBack, Lifecycle!End,
           Lifecycle!Stay, Lifecycle!Moves, Lifecycle!Ends, Active, Terminal
<1>2. Lifecycle!OneHeldPerUser'
  BY DEF Lifecycle!OneHeldPerUser, OneActivePerUser, QueueTypeOK, Stage, Row, Active, Terminal
<1>. QED
  BY <1>1, <1>2 DEF Lifecycle!Next

\* The queue, driven by submitters, workers, server, faults and clocks,
\* implements JobLifecycle: at most MaxAttempts tries of a job, one held job
\* per tenant, only a held job succeeds, and an end is final.
THEOREM QueueImplementsLifecycle == Spec => LifecycleSpec
<1>1. Init => Lifecycle!Init
  BY DEF Init, QueueInit, NewRow, Lifecycle!Init, Stage, Active
<1>2. TableInv /\ TableInv' /\ [Next]_vars
      => [Lifecycle!Next]_<<[j \in Jobs |-> Stage(job[j])], [j \in Jobs |-> job[j].attempts]>>
  <2>1. ASSUME UNCHANGED queueVars
        PROVE  UNCHANGED <<[j \in Jobs |-> Stage(job[j])], [j \in Jobs |-> job[j].attempts]>>
    BY <2>1 DEF queueVars
  <2>2. ASSUME TableInv, TableInv', QueueNext PROVE Lifecycle!Next
    <3>1. QueueTypeOK /\ QueueTypeOK'
      BY <2>2 DEF TableInv, TypeOK, QueueTypeOK
    <3>. QED
      BY <2>2, <3>1, QueueRowSteps, LifecycleStep DEF TableInv
  <2>3. ASSUME UNCHANGED vars PROVE UNCHANGED queueVars
    BY <2>3 DEF vars, queueVars
  <2>. QED
    BY <2>1, <2>2, <2>3, QueueSteps DEF TableInv
<1>. QED
  BY <1>1, <1>2, TableInitially, TableKept, PTL DEF Spec, LifecycleSpec, Lifecycle!Spec

(***************************************************************************)
(* Submitters                                                              *)
(***************************************************************************)
\* How a submitter stands to its row and its package: until the enqueue thread
\* has run the job has not arrived, while it polls the job has, and the input
\* is there as long as the job may be tried.
SubmitterInv(j) ==
    /\ sub[j].thread => job[j].status = "absent"
    /\ sub[j].pc = "new" => ~sub[j].thread /\ job[j].status = "absent"
    /\ sub[j].pc = "enqueueing" => sub[j].thread /\ j \in pkg
    /\ sub[j].pc = "polling" =>
          /\ ~sub[j].thread
          /\ job[j].status # "absent"
          /\ job[j].status \notin Terminal => j \in pkg
    /\ sub[j].told # "nothing" => sub[j].pc = "done"
    /\ sub[j].told = "full" => ~sub[j].thread /\ job[j].status = "absent"
    /\ sub[j].told \in Terminal => job[j].status = sub[j].told
    /\ sub[j].told = "timeout" => job[j].status \in Terminal

SubmittersInv == \A j \in Jobs : SubmitterInv(j)

\* What every step that is not the submitter's own leaves of a job: whether it
\* has arrived, how it ended, and its package until it has ended.
Kept(j) ==
    /\ (job'[j].status = "absent") <=> (job[j].status = "absent")
    /\ job[j].status \in Terminal => job'[j].status = job[j].status
    /\ j \in pkg /\ job'[j].status \notin Terminal => j \in pkg'

\* Its submitter then still stands to it as it did.
LEMMA KeptSubmitter ==
    ASSUME NEW j \in Jobs, SubmitterInv(j), Kept(j), sub'[j] = sub[j]
    PROVE  SubmitterInv(j)'
<1>1. /\ sub'[j].pc = sub[j].pc /\ sub'[j].told = sub[j].told
      /\ sub'[j].thread <=> sub[j].thread
  OBVIOUS
<1>. QED
  BY <1>1 DEF SubmitterInv, Kept, Terminal

\* An operation on the table other than its own enqueue keeps a job.
LEMMA RowKept ==
    ASSUME QueueTypeOK, NEW j \in Jobs,
           UNCHANGED queueVars \/ QueueKeeps \/ (\E k \in Jobs \ {j} : Enqueue(k))
    PROVE  /\ (job'[j].status = "absent") <=> (job[j].status = "absent")
           /\ job[j].status \in Terminal => job'[j].status = job[j].status
<1>1. CASE UNCHANGED queueVars
  BY <1>1 DEF queueVars
<1>2. CASE QueueKeeps
  BY <1>2, ArrivedStays, EndsStay DEF QueueNext
<1>3. CASE \E k \in Jobs \ {j} : Enqueue(k)
  BY <1>3 DEF Enqueue, QueueTypeOK
<1>. QED
  BY <1>1, <1>2, <1>3

\* A step of another submitter, of a worker, of the server or of the clock
\* keeps a job and its submitter.
LEMMA OthersKeep ==
    ASSUME TableInv, Next, NEW j \in Jobs,
           ~ServerCrash,
           ~(\/ Submit(j) \/ EnqueueThread(j) \/ SeesEnd(j) \/ TimesOut(j)
             \/ StopEnqueueing(j) \/ StopPolling(j))
    PROVE  sub'[j] = sub[j] /\ Kept(j)
<1>0. TypeOK /\ QueueTypeOK /\ WorkerHasJob /\ sub \in [Jobs -> Submitter]
  BY DEF TableInv, TypeOK, QueueTypeOK
<1>1. /\ (job'[j].status = "absent") <=> (job[j].status = "absent")
      /\ job[j].status \in Terminal => job'[j].status = job[j].status
  <2>1. ASSUME NEW w \in Workers, NEW k \in Kinds, Transaction(w, k),
               Finish(call[w][k].job, w, "succeeded")
        PROVE  QueueKeeps
    BY <1>0, <2>1, CallFields DEF Transaction, QueueKeeps
  <2>2. UNCHANGED queueVars \/ QueueKeeps \/ (\E k \in Jobs \ {j} : Enqueue(k))
    BY <1>0, <2>1, QueueOnly DEF QueueKeeps
  <2>. QED
    BY <1>0, <2>2, RowKept
<1>2. ASSUME sub'[j] = sub[j], j \in pkg /\ job'[j].status \notin Terminal => j \in pkg'
      PROVE  sub'[j] = sub[j] /\ Kept(j)
  BY <1>1, <1>2 DEF Kept
<1>3. ASSUME NEW k \in Jobs,
             \/ Submit(k) \/ EnqueueThread(k) \/ SeesEnd(k) \/ TimesOut(k)
             \/ StopEnqueueing(k) \/ StopPolling(k) \/ LeaseRunsOut(k)
      PROVE  sub'[j] = sub[j] /\ (j \in pkg => j \in pkg')
  <2>1. CASE LeaseRunsOut(k)
    BY <2>1 DEF LeaseRunsOut
  <2>2. CASE k # j
    BY <1>0, <1>3, <2>2
       DEF Submit, EnqueueThread, SeesEnd, TimesOut, StopEnqueueing, StopPolling, LeaseRunsOut,
           Return
  <2>. QED
    BY <1>3, <2>1, <2>2
<1>4. ASSUME CleanupTerminalPackages
      PROVE  j \in pkg /\ job'[j].status \notin Terminal => j \in pkg'
  BY <1>4 DEF CleanupTerminalPackages, RecoverExpired
<1>5. ASSUME NEW w \in Workers,
             \/ Lease(w) \/ LeaseAnswer(w) \/ StartJob(w) \/ ChildEnds(w) \/ ChildRaises(w)
             \/ ReportError(w) \/ RenewRefused(w) \/ Restart(w) \/ LoseAnswer(w) \/ KillWorker(w)
      PROVE  sub'[j] = sub[j] /\ (j \in pkg /\ job'[j].status \notin Terminal => j \in pkg')
  <2>1. CASE LeaseAnswer(w)
    BY <1>4, <2>1 DEF LeaseAnswer
  <2>2. CASE \/ Lease(w) \/ StartJob(w) \/ ChildEnds(w) \/ ChildRaises(w) \/ ReportError(w)
             \/ RenewRefused(w) \/ Restart(w) \/ LoseAnswer(w) \/ KillWorker(w)
    BY <2>2 DEF Lease, StartJob, ChildEnds, SendFinish, ChildRaises, ReportError, RenewRefused,
                Restart, LoseAnswer, KillWorker
  <2>. QED
    BY <1>5, <2>1, <2>2
<1>6. ASSUME NEW w \in Workers, NEW k \in Kinds,
             Transaction(w, k) \/ FailInvalid(w, k) \/ Unwind(w, k)
      PROVE  sub'[j] = sub[j] /\ (j \in pkg /\ job'[j].status \notin Terminal => j \in pkg')
  <2>1. CASE Unwind(w, k)
    <3>1. pkg' = PackagesAfter(call[w][k]) /\ UNCHANGED <<queueVars, sub>>
      BY <2>1 DEF Unwind
    <3>. QED
      BY <3>1 DEF PackagesAfter, queueVars
  <2>2. CASE Transaction(w, k) \/ FailInvalid(w, k)
    BY <2>2 DEF Transaction, FailInvalid
  <2>. QED
    BY <1>6, <2>1, <2>2
<1>7. ASSUME CleanupTick
      PROVE  sub'[j] = sub[j] /\ (j \in pkg /\ job'[j].status \notin Terminal => j \in pkg')
  BY <1>4, <1>7 DEF CleanupTick
<1>. QED
  BY <1>2, <1>3, <1>5, <1>6, <1>7, Steps

\* Nor does its own step, or a crash of the server, break it.
LEMMA OwnKeeps ==
    ASSUME TableInv, TypeOK', NEW j \in Jobs, SubmitterInv(j),
           \/ Submit(j) \/ EnqueueThread(j) \/ SeesEnd(j) \/ TimesOut(j)
           \/ StopEnqueueing(j) \/ StopPolling(j) \/ ServerCrash
    PROVE  SubmitterInv(j)'
<1>0. sub \in [Jobs -> Submitter] /\ job \in [Jobs -> Row] /\ pkg \subseteq Jobs
  BY DEF TableInv, TypeOK
<1>1. CASE Submit(j)
  BY <1>0, <1>1 DEF Submit, SubmitterInv, queueVars, Submitter, Terminal
<1>2. CASE EnqueueThread(j)
  <2>1. sub[j].thread /\ job[j].status = "absent"
    BY <1>2 DEF EnqueueThread, SubmitterInv
  <2>2. CASE Enqueue(j)
    <3>1. job'[j].status = "queued"
      BY <1>0, <2>2 DEF Enqueue, NewRow
    <3>2. /\ sub'[j].thread = FALSE
          /\ sub'[j].pc = IF sub[j].pc = "enqueueing" THEN "polling" ELSE sub[j].pc
          /\ sub'[j].told = sub[j].told
          /\ pkg' = pkg
      BY <1>0, <1>2, <2>2 DEF EnqueueThread, Enqueue, QueueFull, Submitter
    <3>. QED
      BY <2>1, <3>1, <3>2 DEF SubmitterInv, Terminal
  <2>3. CASE sub[j].pc = "enqueueing" /\ Return(j, "full") /\ UNCHANGED queueVars
    <3>1. sub'[j] = [pc |-> "done", thread |-> FALSE, told |-> "full"] /\ job' = job
      BY <1>0, <2>3 DEF Return, Returned, queueVars
    <3>. QED
      BY <2>1, <3>1 DEF SubmitterInv, Terminal
  <2>4. CASE /\ sub[j].pc # "enqueueing"
             /\ sub' = [sub EXCEPT ![j].thread = FALSE]
             /\ UNCHANGED <<pkg, queueVars>>
    <3>1. /\ sub'[j].thread = FALSE /\ sub'[j].pc = sub[j].pc /\ sub'[j].told = sub[j].told
          /\ job' = job /\ pkg' = pkg
      BY <1>0, <2>4 DEF Submitter, queueVars
    <3>. QED
      BY <2>1, <2>4, <3>1 DEF SubmitterInv
  <2>. QED
    BY <1>2, <2>2, <2>3, <2>4 DEF EnqueueThread
<1>3. CASE SeesEnd(j)
  <2>1. sub'[j] = [pc |-> "done", thread |-> FALSE, told |-> job[j].status] /\ job' = job
        /\ job[j].status \in Terminal
    BY <1>0, <1>3 DEF SeesEnd, Return, Returned, queueVars
  <2>. QED
    BY <2>1 DEF SubmitterInv, Terminal
<1>4. CASE TimesOut(j) \/ StopPolling(j)
  <2>1. /\ sub[j].pc = "polling" /\ Cancel(j)
        /\ \E told \in {"timeout", "stopped"} :
              sub'[j] = [pc |-> "done", thread |-> FALSE, told |-> told]
    BY <1>0, <1>4 DEF TimesOut, StopPolling, Return, Returned
  <2>2. job[j].status # "absent"
    BY <2>1 DEF SubmitterInv
  <2>3. job'[j].status \in Terminal
    BY <1>0, <2>1, <2>2 DEF Cancel, Released, Row, Active, Terminal
  <2>. QED
    BY <2>1, <2>3 DEF SubmitterInv, Terminal
<1>5. CASE StopEnqueueing(j)
  <2>1. /\ sub'[j].pc = "done" /\ sub'[j].told = "stopped" /\ job' = job
        /\ sub[j].pc = "enqueueing"
    BY <1>0, <1>5 DEF StopEnqueueing, Returned, queueVars
  <2>. QED
    BY <2>1 DEF SubmitterInv, Terminal
<1>6. CASE ServerCrash
  <2>1. /\ sub'[j].pc = IF sub[j].pc \in {"new", "done"} THEN sub[j].pc ELSE "gone"
        /\ sub'[j].thread = FALSE /\ sub'[j].told = sub[j].told
        /\ job' = job /\ pkg' = pkg
    <3>1. sub'[j] = [sub[j] EXCEPT !.pc = IF sub[j].pc \in {"new", "done"} THEN sub[j].pc ELSE "gone",
                                   !.thread = FALSE]
      BY <1>6 DEF ServerCrash
    <3>2. sub[j] \in Submitter
      BY <1>0
    <3>. QED
      BY <1>6, <3>1, <3>2 DEF ServerCrash, Submitter, queueVars
  <2>. QED
    BY <2>1 DEF SubmitterInv
<1>. QED
  BY <1>1, <1>2, <1>3, <1>4, <1>5, <1>6

\* The inductive invariant of the submitters.
LEMMA SubmittersKept ==
    TableInv /\ TableInv' /\ SubmittersInv /\ [Next]_vars => SubmittersInv'
<1>1. ASSUME SubmittersInv, UNCHANGED vars PROVE SubmittersInv'
  BY <1>1 DEF SubmittersInv, SubmitterInv, vars
<1>2. ASSUME TableInv, TableInv', SubmittersInv, Next, NEW j \in Jobs PROVE SubmitterInv(j)'
  BY <1>2, OthersKeep, OwnKeeps, KeptSubmitter DEF SubmittersInv, TableInv
<1>. QED
  BY <1>1, <1>2 DEF SubmittersInv

\* The initial states satisfy it: nothing has been submitted.
LEMMA SubmittersInitially == Init => SubmittersInv
BY DEF Init, QueueInit, NewRow, SubmittersInv, SubmitterInv, Terminal

\* A job that may still be tried has its input as long as its submitter waits,
\* whatever clean-ups, late finishes and other jobs do.
THEOREM InputWaits == Spec => []PackageWaits
<1>1. SubmittersInv => PackageWaits
  BY DEF SubmittersInv, SubmitterInv, PackageWaits
<1>. QED
  BY TableInitially, TableKept, SubmittersInitially, SubmittersKept, <1>1, PTL DEF Spec

\* What a submitter was told stays true for ever.
THEOREM ReportStaysTrue == Spec => []ReportIsTrue
<1>1. SubmittersInv => ReportIsTrue
  BY DEF SubmittersInv, SubmitterInv, ReportIsTrue
<1>. QED
  BY TableInitially, TableKept, SubmittersInitially, SubmittersKept, <1>1, PTL DEF Spec

(***************************************************************************)
(* Output directories                                                      *)
(***************************************************************************)
\* A request is about to remove the directory of the job.
Doomed(j) ==
    \E w \in Workers, k \in Kinds :
        call[w][k].step = "unwinding" /\ call[w][k].job = j /\ call[w][k].made

\* NoStrayOutput, job by job.
OutputInv(j) ==
    /\ dir[j] = "written" => job[j].status = "succeeded" \/ Doomed(j)
    /\ dir[j] = "torn" => job[j].status # "succeeded"

\* The two say the same.
LEMMA OutputInvIs == NoStrayOutput <=> \A j \in Jobs : OutputInv(j)
BY DEF NoStrayOutput, OutputInv, Doomed, Removing

\* Only a finish makes a job succeed.
LEMMA NoNewSuccess ==
    ASSUME QueueTypeOK, NEW j \in Jobs,
           UNCHANGED queueVars \/ QueueRoutine \/ (\E k \in Jobs : Enqueue(k))
    PROVE  job'[j].status = "succeeded" <=> job[j].status = "succeeded"
<1>0. job[j] \in Row
  BY DEF QueueTypeOK
<1>1. Recovered[j].status = "succeeded" => job[j].status = "succeeded"
  BY DEF Recovered, RecoveredRow, Released
<1>2. job[j].status = "succeeded" => job'[j].status = "succeeded"
  <2>1. CASE UNCHANGED queueVars
    BY <2>1 DEF queueVars
  <2>2. CASE QueueNext
    BY <2>2, EndsStay DEF Terminal
  <2>. QED
    BY <2>1, <2>2 DEF QueueNext, QueueKeeps
<1>3. CASE UNCHANGED queueVars
  BY <1>3 DEF queueVars
<1>4. CASE RecoverExpired
  BY <1>1, <1>2, <1>4 DEF RecoverExpired
<1>5. ASSUME NEW k \in Jobs, Enqueue(k) \/ LeaseExpires(k)
      PROVE  job'[j].status = "succeeded" => job[j].status = "succeeded"
  BY <1>0, <1>5 DEF Enqueue, NewRow, LeaseExpires, QueueTypeOK, Row
<1>6. ASSUME NEW k \in Jobs, NEW status \in {"cancelled", "failed"},
             job' = [job EXCEPT ![k] = Released(@, status)]
      PROVE  job'[j].status = "succeeded" => job[j].status = "succeeded"
  BY <1>0, <1>6 DEF Released, QueueTypeOK, Row
<1>7. ASSUME NEW k \in Jobs, Cancel(k)
      PROVE  job'[j].status = "succeeded" => job[j].status = "succeeded"
  BY <1>6, <1>7 DEF Cancel
<1>8. ASSUME NEW k \in Jobs, NEW w \in Workers, LeaseNext(k, w)
      PROVE  job'[j].status = "succeeded" => job[j].status = "succeeded"
  BY <1>1, <1>8, RecoveredType DEF LeaseNext, QueueTypeOK
<1>9. ASSUME NEW k \in Jobs, NEW w \in Workers, MarkRunning(k, w)
      PROVE  job'[j].status = "succeeded" => job[j].status = "succeeded"
  BY <1>0, <1>9 DEF MarkRunning, QueueTypeOK, Row
<1>10. ASSUME NEW k \in Jobs, NEW w \in Workers, Finish(k, w, "failed")
       PROVE  job'[j].status = "succeeded" => job[j].status = "succeeded"
  BY <1>6, <1>10 DEF Finish
<1>. QED
  BY <1>2, <1>3, <1>4, <1>5, <1>7, <1>8, <1>9, <1>10 DEF QueueRoutine

\* A request moved on from a step that dooms nothing leaves the doomed doomed.
LEMMA DoomedStays ==
    ASSUME TypeOK, NEW j \in Jobs, Doomed(j), NEW w \in Workers, NEW k \in Kinds,
           call[w][k].step # "unwinding", NEW c, call' = [call EXCEPT ![w][k] = c]
    PROVE  Doomed(j)'
<1>1. PICK v \in Workers, l \in Kinds :
         call[v][l].step = "unwinding" /\ call[v][l].job = j /\ call[v][l].made
  BY DEF Doomed
<1>2. call'[v][l] = call[v][l]
  BY <1>1 DEF TypeOK
<1>. QED
  BY <1>1, <1>2 DEF Doomed

\* Without a new directory or a new success nothing is left behind.
LEMMA OutputStays ==
    ASSUME NEW j \in Jobs, OutputInv(j), dir'[j] = dir[j], Doomed(j) => Doomed(j)',
           job'[j].status = "succeeded" <=> job[j].status = "succeeded"
    PROVE  OutputInv(j)'
BY DEF OutputInv

\* No step leaves output under a job that did not succeed.
LEMMA OutputStep ==
    ASSUME TableInv, Next, NEW j \in Jobs, OutputInv(j)
    PROVE  OutputInv(j)'
<1>0. TypeOK /\ QueueTypeOK /\ WorkerHasJob /\ job[j] \in Row
      /\ dir \in [Jobs -> {"none", "written", "torn"}]
  BY DEF TableInv, TypeOK, QueueTypeOK
<1>1. ASSUME UNCHANGED queueVars \/ QueueRoutine \/ (\E k \in Jobs : Enqueue(k)),
             UNCHANGED dir,
             \/ UNCHANGED call
             \/ \E w \in Workers, k \in Kinds :
                   /\ call[w][k].step # "unwinding"
                   /\ \E c : call' = [call EXCEPT ![w][k] = c]
      PROVE  OutputInv(j)'
  <2>1. Doomed(j) => Doomed(j)'
    <3>1. CASE UNCHANGED call
      BY <3>1 DEF Doomed
    <3>. QED
      BY <1>0, <1>1, <3>1, DoomedStays
  <2>. QED
    BY <1>0, <1>1, <2>1, NoNewSuccess, OutputStays
<1>2. ASSUME NEW w \in Workers, NEW k \in Kinds, Transaction(w, k) PROVE OutputInv(j)'
  <2>0. call[w][k].job \in Jobs /\ call[w][k].step = "checked"
    BY <1>0, <1>2, CallFields DEF Transaction
  <2>1. CASE UNCHANGED dir
    <3>1. \E c : call' = [call EXCEPT ![w][k] = c]
      BY <1>2 DEF Transaction, Unwinds
    <3>2. UNCHANGED queueVars \/ Finish(call[w][k].job, w, "failed")
      <4>1. dir'[call[w][k].job] # "written" \/ dir[call[w][k].job] # "none"
        BY <2>1
      <4>2. dir' # [dir EXCEPT ![call[w][k].job] = "written"] \/ dir[call[w][k].job] # "none"
        BY <1>0, <2>0, <4>1
      <4>. QED
        BY <1>2, <4>2 DEF Transaction
    <3>3. UNCHANGED queueVars \/ QueueRoutine
      BY <2>0, <3>2 DEF QueueRoutine
    <3>. QED
      BY <1>1, <2>0, <2>1, <3>1, <3>3
  <2>2. CASE dir' = [dir EXCEPT ![call[w][k].job] = "written"]
             /\ Finish(call[w][k].job, w, "succeeded") /\ Unwinds(w, k, 204, FALSE)
    <3>1. job' = [job EXCEPT ![call[w][k].job] = Released(@, "succeeded")]
      BY <2>2 DEF Finish
    <3>2. CASE j = call[w][k].job
      <4>1. job'[j].status = "succeeded" /\ dir'[j] = "written"
        BY <1>0, <2>2, <3>1, <3>2, ReleasedType DEF QueueTypeOK, Terminal
      <4>. QED
        BY <4>1 DEF OutputInv
    <3>3. CASE j # call[w][k].job
      <4>1. job'[j] = job[j] /\ dir'[j] = dir[j]
        BY <1>0, <2>2, <3>1, <3>3 DEF QueueTypeOK
      <4>2. Doomed(j) => Doomed(j)'
        BY <1>0, <2>0, <2>2, DoomedStays DEF Unwinds
      <4>. QED
        BY <4>1, <4>2, OutputStays
    <3>. QED
      BY <3>2, <3>3
  <2>3. CASE dir' = [dir EXCEPT ![call[w][k].job] = "written"]
             /\ LeaseExpires(call[w][k].job) /\ Unwinds(w, k, 409, TRUE)
    <3>1. job'[j].status = "succeeded" <=> job[j].status = "succeeded"
      BY <1>0, <2>0, <2>3, NoNewSuccess DEF QueueRoutine
    <3>2. CASE j = call[w][k].job
      <4>1. call'[w][k] = [step |-> "unwinding", job |-> j, code |-> 409, made |-> TRUE]
        BY <1>0, <2>3, <3>2 DEF Unwinds, TypeOK
      <4>2. Doomed(j)' /\ dir'[j] = "written"
        BY <1>0, <2>0, <2>3, <3>2, <4>1 DEF Doomed
      <4>. QED
        BY <4>2 DEF OutputInv
    <3>3. CASE j # call[w][k].job
      <4>1. dir'[j] = dir[j]
        BY <1>0, <2>3, <3>3
      <4>2. Doomed(j) => Doomed(j)'
        BY <1>0, <2>0, <2>3, DoomedStays DEF Unwinds
      <4>. QED
        BY <3>1, <4>1, <4>2, OutputStays
    <3>. QED
      BY <3>2, <3>3
  <2>. QED
    BY <1>2, <2>1, <2>2, <2>3 DEF Transaction
<1>3. ASSUME NEW w \in Workers, NEW k \in Kinds, FailInvalid(w, k) PROVE OutputInv(j)'
  <2>1. call[w][k].job \in Jobs /\ call[w][k].step # "unwinding"
    BY <1>0, <1>3, CallFields DEF FailInvalid
  <2>2. UNCHANGED queueVars \/ QueueRoutine
    BY <1>3, <2>1 DEF FailInvalid, QueueRoutine
  <2>3. \E c : call' = [call EXCEPT ![w][k] = c]
    BY <1>3 DEF FailInvalid, Unwinds
  <2>. QED
    BY <1>1, <1>3, <2>1, <2>2, <2>3 DEF FailInvalid
<1>4. ASSUME NEW w \in Workers, NEW k \in Kinds, Unwind(w, k) PROVE OutputInv(j)'
  <2>1. /\ call' = [call EXCEPT ![w][k] = NoCall]
        /\ dir' = OutputAfter(call[w][k])
        /\ job' = job
        /\ call[w][k].job \in Jobs
    BY <1>0, <1>4, CallFields DEF Unwind, queueVars
  <2>2. CASE call[w][k].made /\ call[w][k].job = j
    <3>1. dir'[j] = "none"
      BY <1>0, <2>1, <2>2 DEF OutputAfter
    <3>. QED
      BY <3>1 DEF OutputInv
  <2>3. CASE ~(call[w][k].made /\ call[w][k].job = j)
    <3>1. dir'[j] = dir[j]
      BY <1>0, <2>1, <2>3 DEF OutputAfter
    <3>2. ASSUME Doomed(j) PROVE Doomed(j)'
      <4>1. PICK v \in Workers, l \in Kinds :
               call[v][l].step = "unwinding" /\ call[v][l].job = j /\ call[v][l].made
        BY <3>2 DEF Doomed
      <4>2. call'[v][l] = call[v][l]
        BY <1>0, <2>1, <2>3, <4>1 DEF TypeOK
      <4>. QED
        BY <4>1, <4>2 DEF Doomed
    <3>. QED
      BY <2>1, <3>1, <3>2, OutputStays
  <2>. QED
    BY <2>2, <2>3
<1>5. ASSUME ServerCrash PROVE OutputInv(j)'
  <2>1. PICK written \in {{}} \cup {{i} : i \in Writing} :
           dir' = [i \in Jobs |-> IF i \in written \cup Removing THEN "torn" ELSE dir[i]]
    BY <1>5 DEF ServerCrash
  <2>2. job' = job
    BY <1>5 DEF ServerCrash, queueVars
  <2>3. CASE j \in written
    <3>1. j \in Writing
      BY <2>1, <2>3
    <3>2. job[j].status # "succeeded"
      BY <3>1 DEF Writing, Holds
    <3>. QED
      BY <2>1, <2>2, <2>3, <3>2 DEF OutputInv
  <2>4. CASE j \in Removing
    BY <2>1, <2>2, <2>4 DEF OutputInv, Removing
  <2>5. CASE j \notin written \cup Removing
    <3>1. dir'[j] = dir[j]
      BY <2>1, <2>5
    <3>2. dir[j] = "written" => job[j].status = "succeeded"
      BY <2>5 DEF OutputInv, Removing, Doomed
    <3>. QED
      BY <2>2, <3>1, <3>2 DEF OutputInv
  <2>. QED
    BY <2>3, <2>4, <2>5
<1>6. ASSUME NEW w \in Workers, ChildEnds(w) \/ ReportError(w) PROVE OutputInv(j)'
  <2>1. PICK k \in Kinds, body \in Bodies : SendFinish(w, k, body)
    BY <1>6 DEF ChildEnds, ReportError, Kinds, Bodies
  <2>2. /\ UNCHANGED queueVars /\ UNCHANGED dir
        /\ call[w][k].step = "none"
        /\ UNCHANGED call \/ \E c : call' = [call EXCEPT ![w][k] = c]
    BY <2>1 DEF SendFinish, NoCall
  <2>. QED
    BY <1>1, <2>2
<1>7. ASSUME UNCHANGED dir, UNCHANGED call
      PROVE  OutputInv(j)'
  <2>1. ASSUME \E w \in Workers, k \in Kinds : Transaction(w, k) PROVE OutputInv(j)'
    BY <1>2, <2>1
  <2>. QED
    BY <1>0, <1>1, <1>7, <2>1, QueueOnly
<1>8. \/ \E w \in Workers, k \in Kinds : Transaction(w, k) \/ FailInvalid(w, k) \/ Unwind(w, k)
      \/ ServerCrash
      \/ \E w \in Workers : ChildEnds(w) \/ ReportError(w)
      \/ UNCHANGED dir /\ UNCHANGED call
  BY Steps DEF Submit, EnqueueThread, SeesEnd, TimesOut, StopEnqueueing, StopPolling,
        LeaseRunsOut, Lease, LeaseAnswer, StartJob, ChildRaises, RenewRefused, Restart,
        LoseAnswer, KillWorker, CleanupTick
<1>. QED
  BY <1>2, <1>3, <1>4, <1>5, <1>6, <1>7, <1>8

\* No execution leaves output behind under a job that did not succeed: what
\* lost a race is about to be removed, and a half-written directory is never
\* the output of a job that counts as done.
THEOREM NoOutputIsStray == Spec => []NoStrayOutput
<1>1. Init => NoStrayOutput
  BY DEF Init, NoStrayOutput
<1>2. TableInv /\ NoStrayOutput /\ [Next]_vars => NoStrayOutput'
  <2>1. ASSUME NoStrayOutput, UNCHANGED vars PROVE NoStrayOutput'
    BY <2>1 DEF vars, NoStrayOutput, Removing
  <2>2. ASSUME TableInv, NoStrayOutput, Next PROVE NoStrayOutput'
    <3>1. \A j \in Jobs : OutputInv(j)'
      BY <2>2, OutputInvIs, OutputStep
    <3>. QED
      BY <3>1 DEF NoStrayOutput, OutputInv, Doomed, Removing
  <2>. QED
    BY <2>1, <2>2
<1>. QED
  BY TableInitially, TableKept, <1>1, <1>2, PTL DEF Spec
============================================================================
