------------------------------ MODULE ChatStream ------------------------------
(***************************************************************************)
(* A chat request from admission to its last frame: the session registry   *)
(* (server/sessions.py) that lets one request at a time work on a           *)
(* conversation, the stream handler and its generator (server/api.py), the  *)
(* run they drive, and the prompts of that run on the interaction bus       *)
(* (ConfirmBus, with the requests as callers: a run asks one thing at a     *)
(* time).  The run itself is AgentRun; here it is what a stream can see of  *)
(* it: it emits done, flushes and returns, or raises, or is cancelled.      *)
(* Time is abstract: a session may be idle too long whenever it is idle.    *)
(***************************************************************************)
EXTENDS ConfirmBus

CONSTANTS Convs,      \* conversations, all of one user
          MaxStreams  \* quota.max_concurrent_streams of the user

ASSUME ChatAssumption == MaxStreams \in Nat \ {0} /\ Nobody \notin Convs

Requests == Callers
Seats == BusSessions      \* session ids the registry hands out

VARIABLES
    registered,  \* the sessions in the registry
    convOf,      \* conversation a session is bound to; Nobody: not created yet
    busy,        \* the sessions marked busy
    signal,      \* stop signal of a session
    stage,       \* where a request is
    seat,        \* the session of a request
    engine,      \* the task of the run
    told,        \* requests that got a terminal frame (done, or error and done)
    rows,        \* rows of the usage ledger
    gone,        \* requests whose client has disconnected (seen by the server)
    deleting     \* conversations whose deletion has passed its check

seatVars == <<registered, convOf, busy, signal>>
chatVars == <<busVars, seatVars, engine, stage, seat, told, rows, gone, deleting>>

Stages == {"new", "refused", "opening", "first", "loop", "ledger", "frame", "abort",
           "closed", "failed", "lost"}

ChatTypeOK ==
    /\ BusTypeOK
    /\ registered \subseteq Seats /\ busy \subseteq Seats
    /\ convOf \in [Seats -> Convs \cup {Nobody}]
    /\ signal \in [Seats -> {"none", "armed", "requested"}]
    /\ stage \in [Requests -> Stages]
    /\ seat \in [Requests -> Seats \cup {Nobody}]
    /\ engine \in [Requests -> {"none", "running", "flushing", "cancelling",
                                "ended", "silent", "cancelled"}]
    /\ told \subseteq Requests
    /\ rows \in [Requests -> 0..3]
    /\ gone \subseteq Requests /\ deleting \subseteq Convs

ChatInit ==
    /\ BusInit
    /\ registered = {} /\ busy = {} /\ told = {} /\ gone = {} /\ deleting = {}
    /\ convOf = [s \in Seats |-> Nobody]
    /\ signal = [s \in Seats |-> "none"]
    /\ stage = [r \in Requests |-> "new"]
    /\ seat = [r \in Requests |-> Nobody]
    /\ engine = [r \in Requests |-> "none"]
    /\ rows = [r \in Requests |-> 0]

-------------------------------------------------------------------------------
(* The registry *)

Attached(r) == stage[r] \in {"opening", "first", "loop", "ledger", "frame", "abort"}
Live(r) == engine[r] \in {"running", "flushing", "cancelling"}

\* _is_stale: an idle session may have outlived its time; a busy one only when no
\* stream is there to release it (a stream ends well within busy_timeout_s).
Stale(s) == s \in busy => ~\E r \in Requests : seat[r] = s /\ Attached(r)

\* _evict_expired: some of the stale sessions have been so for long enough.
AfterEviction == {registered \ E : E \in SUBSET {s \in registered : Stale(s)}}

\* A slip: a session is looked up by the handle of the client alone.
FoundByHandle(reg, handle, c) == {handle} \cap reg

\* The session ensure() finds in the registry reg: the handle of the client, or
\* the session bound to the conversation.
Found(reg, handle, c) ==
    IF handle \in reg THEN {handle} ELSE {s \in reg : convOf[s] = c}

\* ensure(), the quota and the resume check, then the part of chat_stream up to
\* its first await: all of it in one step.  A refusal after ensure() leaves a new
\* session behind.
Admit(r, handle, c) ==
    /\ stage[r] = "new"
    /\ \E reg \in AfterEviction :
         LET found == Found(reg, handle, c)
             fresh == {s \in Seats : convOf[s] = Nobody}
             s == IF found # {} THEN CHOOSE f \in found : TRUE ELSE CHOOSE f \in fresh : TRUE
             taken == found # {} /\ s \in busy
             full == Cardinality(reg \cap busy) >= MaxStreams
         IN /\ found # {} \/ fresh # {}
            /\ registered' = IF taken THEN reg ELSE reg \cup {s}
            /\ convOf' = IF found = {} THEN [convOf EXCEPT ![s] = c] ELSE convOf
            /\ \/ /\ \* busy, over the quota, too many turns or nothing to resume
                     stage' = [stage EXCEPT ![r] = "refused"]
                  /\ UNCHANGED <<busy, signal, seat>>
               \/ /\ ~taken /\ ~full
                  /\ stage' = [stage EXCEPT ![r] = "opening"]
                  /\ seat' = [seat EXCEPT ![r] = s]
                  /\ busy' = busy \cup {s}
                  /\ signal' = [signal EXCEPT ![s] = "armed"]
    /\ UNCHANGED <<busVars, engine, told, rows, gone, deleting>>

-------------------------------------------------------------------------------
(* The handler and the generator *)

Move(r, to) == stage' = [stage EXCEPT ![r] = to]

\* A slip: the finally clause leaves the stop signal in place.
ReleaseSignalKept(s) ==
    /\ busy' = busy \ {s}
    /\ \E reg \in {registered \ E : E \in SUBSET (registered \ busy)} : registered' = reg
    /\ UNCHANGED signal

\* release(): the mark and the signal go, then the idle sessions are looked at.
Release(s) ==
    /\ busy' = busy \ {s}
    /\ signal' = [signal EXCEPT ![s] = "none"]
    /\ \E reg \in {registered \ E : E \in SUBSET {t \in registered : t # s /\ Stale(t)}} :
         registered' = reg

\* The start of the trace is awaited; then the task of the run is created.
Open(r) ==
    /\ stage[r] = "opening"
    /\ Move(r, "first")
    /\ engine' = [engine EXCEPT ![r] = "running"]
    /\ UNCHANGED <<busVars, seatVars, seat, told, rows, gone, deleting>>

\* Between the mark and the generator's try nothing releases the session: the
\* store raises before the task exists, or the client is gone before the first
\* frame and the generator ends at it (or is never started).
GetLost(r) ==
    /\ stage[r] \in {"opening", "first"}
    /\ gone' = IF stage[r] = "first" THEN gone \cup {r} ELSE gone
    /\ Move(r, "lost")
    /\ UNCHANGED <<busVars, seatVars, engine, seat, told, rows, deleting>>

FirstFrame(r) ==
    /\ stage[r] = "first"
    /\ Move(r, "loop")
    /\ UNCHANGED <<busVars, seatVars, engine, seat, told, rows, gone, deleting>>

\* The done event is taken, and settle_engine waits until the engine has flushed.
TakeDone(r) ==
    /\ stage[r] = "loop" /\ engine[r] = "ended"
    /\ Move(r, "ledger")
    /\ UNCHANGED <<busVars, seatVars, engine, seat, told, rows, gone, deleting>>

\* A slip: the generator waits for the next event and not for the task.
WaitsForEvent(r) == FALSE

\* The task is over, nothing is queued and no done event came: terminal_frames.
SeesEnd(r) ==
    /\ stage[r] = "loop" /\ engine[r] = "silent"
    /\ Move(r, "ledger")
    /\ UNCHANGED <<busVars, seatVars, engine, seat, told, rows, gone, deleting>>

\* A slip: the generator comes back to the ledger after each attempt.
WriteRowAgain(r) ==
    /\ stage[r] = "ledger"
    /\ rows' = [rows EXCEPT ![r] = @ + 1]
    /\ stage' = stage
    /\ UNCHANGED <<busVars, seatVars, engine, seat, told, gone, deleting>>

\* finish_trace: the row of the ledger, then the trace.
WriteRow(r) ==
    /\ stage[r] = "ledger"
    /\ rows' = [rows EXCEPT ![r] = @ + 1]
    /\ Move(r, "frame")
    /\ UNCHANGED <<busVars, seatVars, engine, seat, told, gone, deleting>>

\* A slip: the connection is closed without a terminal frame.
LastFrameSilent(r) ==
    /\ stage[r] = "frame"
    /\ Move(r, "closed")
    /\ Release(seat[r])
    /\ UNCHANGED <<busVars, engine, convOf, seat, told, rows, gone, deleting>>

\* The last frame goes out and the finally clause runs.
LastFrame(r) ==
    /\ stage[r] = "frame"
    /\ told' = told \cup {r}
    /\ Move(r, "closed")
    /\ Release(seat[r])
    /\ UNCHANGED <<busVars, engine, convOf, seat, rows, gone, deleting>>

\* The CancelledError branch: cancel the run and what it asks, and wait for it.  A
\* row that is being written is written by its thread all the same.
Abort(r) ==
    /\ Move(r, "abort")
    /\ rows' = IF stage[r] = "ledger" THEN [rows EXCEPT ![r] = @ + 1] ELSE rows
    /\ engine' = [engine EXCEPT ![r] = IF Live(r) THEN "cancelling" ELSE @]
    /\ CancelSession(seat[r])
    /\ UNCHANGED <<seatVars, seat, told, deleting>>

\* The client disconnects while the generator is at work.
Disconnect(r) ==
    /\ stage[r] \in {"loop", "ledger", "frame"}
    /\ gone' = gone \cup {r}
    /\ Abort(r)

\* A stop has cancelled the run at its prompt: settle_engine raises the run's own
\* CancelledError, which the generator takes for the end of its connection.
SeesCancelled(r) ==
    /\ stage[r] = "loop" /\ engine[r] = "cancelled"
    /\ Abort(r)
    /\ UNCHANGED gone

\* A slip: a run that is cut off leaves no row in the ledger.
AbortEndsUnpaid(r) ==
    /\ stage[r] = "abort" /\ ~Live(r)
    /\ Move(r, "closed")
    /\ Release(seat[r])
    /\ UNCHANGED <<busVars, engine, convOf, seat, told, rows, gone, deleting>>

\* The rest of the branch: one more row, release, and the error is raised again.
AbortEnds(r) ==
    /\ stage[r] = "abort" /\ ~Live(r)
    /\ rows' = [rows EXCEPT ![r] = @ + 1]
    /\ Move(r, "closed")
    /\ Release(seat[r])
    /\ UNCHANGED <<busVars, engine, convOf, seat, told, gone, deleting>>

\* An event that cannot be encoded: a row, the terminal frames with their own row,
\* release.  The run is not cancelled.
TransportFails(r) ==
    /\ stage[r] = "loop" /\ engine[r] = "running"
    /\ rows' = [rows EXCEPT ![r] = @ + 2]
    /\ told' = told \cup {r}
    /\ Move(r, "failed")
    /\ Release(seat[r])
    /\ UNCHANGED <<busVars, engine, convOf, seat, gone, deleting>>

-------------------------------------------------------------------------------
(* The run *)

Step(r, from, to) == engine[r] = from /\ engine' = [engine EXCEPT ![r] = to]

\* The run asks whether data may be sent out, a prompt that is merged per session.
RunAsks(r) ==
    /\ engine[r] = "running" /\ Ask(r, seat[r], TRUE)
    /\ UNCHANGED <<seatVars, engine, stage, seat, told, rows, gone, deleting>>

\* The prompt ends; a cancelled one cancels the task it is awaited in.
RunWakes(r) ==
    /\ engine[r] = "running" /\ Wake(r)
    /\ engine' = IF future[waitsFor[r]] = "cancelled"
                 THEN [engine EXCEPT ![r] = "cancelled"] ELSE engine
    /\ UNCHANGED <<seatVars, stage, seat, told, rows, gone, deleting>>

RunTimer(r) ==
    /\ TimerFires(r)
    /\ UNCHANGED <<seatVars, engine, stage, seat, told, rows, gone, deleting>>

\* An answer, a stop or the budget has brought the run to its end.
RunEmitsDone(r) ==
    /\ Step(r, "running", "flushing") /\ ~Waiting(r)
    /\ UNCHANGED <<busVars, seatVars, stage, seat, told, rows, gone, deleting>>

\* The run returns (or raises) after its flush, or without a done event.
RunEnds(r) ==
    /\ Step(r, "flushing", "ended") \/ (Step(r, "running", "silent") /\ ~Waiting(r))
    /\ UNCHANGED <<busVars, seatVars, stage, seat, told, rows, gone, deleting>>

\* The cancelled task leaves its prompt and ends after saving what it has.
RunCancelled(r) ==
    /\ Step(r, "cancelling", "cancelled")
    /\ IF Waiting(r) THEN Kill(r) ELSE UNCHANGED busVars
    /\ UNCHANGED <<seatVars, stage, seat, told, rows, gone, deleting>>

-------------------------------------------------------------------------------
(* Other requests and the client *)

\* POST /v1/chat/respond
Answer(r) ==
    /\ Respond(r)
    /\ UNCHANGED <<seatVars, engine, stage, seat, told, rows, gone, deleting>>

\* POST /v1/chat/stop: the signal and, at once, the prompts of the session.
Stop(s) ==
    /\ s \in registered /\ s \in busy /\ signal[s] = "armed"
    /\ signal' = [signal EXCEPT ![s] = "requested"]
    /\ CancelSession(s)
    /\ UNCHANGED <<registered, convOf, busy, engine, stage, seat, told, rows, gone, deleting>>

\* DELETE /v1/conversations/{id}: refused while a session of it is busy; then the
\* rows are deleted in a thread that is awaited.
DeleteStarts(c) ==
    /\ c \notin deleting
    /\ ~\E s \in registered : convOf[s] = c /\ s \in busy
    /\ deleting' = deleting \cup {c}
    /\ UNCHANGED <<busVars, seatVars, engine, stage, seat, told, rows, gone>>

\* Afterwards every session of the conversation is dropped, busy or not.
DeleteEnds(c) ==
    /\ c \in deleting
    /\ deleting' = deleting \ {c}
    /\ registered' = {s \in registered : convOf[s] # c}
    /\ UNCHANGED <<busVars, convOf, busy, signal, engine, stage, seat, told, rows, gone>>

Generator(r) ==
    \/ Open(r) \/ FirstFrame(r) \/ TakeDone(r) \/ SeesEnd(r)
    \/ WriteRow(r) \/ LastFrame(r) \/ SeesCancelled(r) \/ AbortEnds(r)

Run(r) == RunWakes(r) \/ RunTimer(r) \/ RunEmitsDone(r) \/ RunEnds(r) \/ RunCancelled(r)

ChatNext ==
    \/ \E r \in Requests, h \in Seats \cup {Nobody}, c \in Convs : Admit(r, h, c)
    \/ \E r \in Requests : Generator(r) \/ TransportFails(r) \/ Run(r) \/ RunAsks(r)
                           \/ Answer(r) \/ GetLost(r) \/ Disconnect(r)
    \/ \E s \in Seats : Stop(s)
    \/ \E c \in Convs : DeleteStarts(c) \/ DeleteEnds(c)

\* The event loop keeps running the generator, the run (whose rounds and time are
\* bounded) and its timers; nobody has to answer, stop, disconnect or delete.
ChatFairness == \A r \in Requests : WF_chatVars(Generator(r)) /\ WF_chatVars(Run(r))

ChatSpec == ChatInit /\ [][ChatNext]_chatVars /\ ChatFairness

-------------------------------------------------------------------------------
\* One run at a time works on a conversation: two live runs of one conversation
\* mean that a stream has ended without ending its run (lost before its first
\* frame, or a transport failure), or that the session was dropped by a deletion
\* that passed its check before the run began (api.py:1240, sessions.py:73).
RunsAreAlone ==
    \A q, r \in Requests :
      q # r /\ Live(q) /\ Live(r) /\ convOf[seat[q]] = convOf[seat[r]]
      => \E x \in {q, r} : stage[x] \in {"lost", "failed"} \/ seat[x] \notin registered

\* A session is busy only on behalf of a request that will release it, or of one
\* that was lost before its try block (api.py:1385); its stop signal does not
\* outlive that request.
BusyHasARequest ==
    /\ \A s \in busy : \E r \in Requests : seat[r] = s /\ (Attached(r) \/ stage[r] = "lost")
    /\ \A s \in Seats : signal[s] # "none" => s \in busy

\* Usage is accounted once per stream: twice only when the client left while the
\* row was being written or after it, or when the transport failed.
UsageIsAccounted ==
    \A r \in Requests : /\ stage[r] = "closed" => rows[r] >= 1
                        /\ rows[r] > 1 => r \in gone \/ stage[r] = "failed"

\* A client that stays is told how the run ended, except when a stop has cancelled
\* the run at an open prompt (api.py:1441).
ClientIsTold ==
    \A r \in Requests : stage[r] = "closed" /\ r \notin gone /\ r \notin told
      => engine[r] = "cancelled" /\ got[r] = "cancelled"

\* What the generator's documentation promises: every client that stays is told.
EveryStreamIsEnded ==
    \A r \in Requests : stage[r] = "closed" /\ r \notin gone => r \in told

\* Every stream whose generator is at work comes to its end, whether or not the
\* user ever answers what the run asks.
StreamsClose ==
    \A r \in Requests : (stage[r] = "loop") ~> (stage[r] \in {"closed", "failed"})
===============================================================================
