---------------------------- MODULE AgentRunInv ----------------------------
(***************************************************************************)
(* The inductive invariant behind BatchResolvable, PromptCoversWaiting and *)
(* NoBlindReplay.                                                          *)
(* Each part relates the snapshot, which survives a crash, to what the     *)
(* live coroutines believe about it.                                       *)
(***************************************************************************)
EXTENDS AgentRun

Open(c) == st.status[c] \in {"pending", "running"}

Waiting(c) == st.status[c] \in {"awaitingconfirmation", "uncertain"}

Closed(c) == st.status[c] \in {"absent", "completed", "failed"}

Alive(c) == task[c] \in {"queued", "started", "running"}

\* A write that is on record as running although no pass of this process
\* started it.
Interrupted(c) == c \notin Reads /\ st.status[c] = "running"

\* The rounds that end in an abort: no coroutine but the loop's can step.
Aborting == At("looped") \/ At("cancelled")

\* The snapshot a resume is about to reopen in the given phase.
Reopens(phase) == st.phase = "hydrate" /\ loop.resumeFrom = phase

----------------------------------------------------------------------------
\* Where the coroutine is goes with the phase of the snapshot.
PositionInv ==
  /\ At("stream") => st.phase = "thinking"
  /\ loop.pc \in {"classify", "tools", "looped", "cancelled", "audit", "wrapup"} =>
       st.phase = "tooluse" /\ ~loop.isResume
  /\ At("prompt") => st.phase = "awaitingconfirmation" /\ ~loop.isResume
  /\ At("idle") \/ At("starting") => loop.resumeFrom = "none"

\* A tool round or a prompt is reopened by a resume only, and never after a
\* compaction.
ReopenInv ==
  /\ st.resumePhase \in {"none", "thinking"}
  /\ st.phase = "hydrate" /\ loop.resumeFrom # "none" => At("run") /\ loop.isResume

\* A call still open has no result, and a completed one has.
ResultInv ==
  \A c \in Calls : /\ Open(c) \/ Waiting(c) => st.result[c] = "none"
                   /\ st.status[c] = "completed" => st.result[c] # "none"

\* A pass owns the open calls of the batch: each is scheduled or to be asked
\* about.
ScheduleInv ==
  /\ ~At("tools") => loop.allow = {} /\ loop.deny = {}
  /\ ~At("tools") /\ ~At("classify") => loop.ask = {}
  /\ At("tools") =>
       \A c \in Calls :
         /\ c \in loop.ask => c \notin Scheduled /\ Open(c) /\ ~Interrupted(c)
         /\ c \notin Scheduled /\ Open(c) => c \in loop.ask
         /\ c \in Scheduled => \/ task[c] = "queued" /\ Open(c) /\ ~Interrupted(c)
                               \/ task[c] \in {"started", "running"} /\ st.status[c] = "running"
                               \/ task[c] = "done" /\ Closed(c)

\* Coroutines left behind belong to calls that are closed on record.
OrphanInv ==
  \A c \in Calls \ Scheduled : Alive(c) /\ ~Aborting => Closed(c)

\* While a prompt is on record, it names the calls that wait.
PromptInv ==
  st.phase = "awaitingconfirmation" \/ Reopens("awaitingconfirmation") =>
    /\ st.confirmation.ids # {}
    /\ st.confirmation.ids = {c \in Calls : Waiting(c)}
    /\ \A c \in Calls : ~Interrupted(c)

\* In tool use nothing waits, except for writes a resume still has to ask about.
RoundInv ==
  /\ st.phase = "tooluse" \/ Reopens("tooluse") =>
       \A c \in Calls : st.status[c] # "awaitingconfirmation"
  /\ At("classify") =>
       /\ loop.ask # {}
       /\ \A c \in loop.ask : ~Closed(c)
       /\ \A c \in Calls : Waiting(c) \/ Interrupted(c) => c \in loop.ask
  /\ loop.pc \in {"tools", "looped", "cancelled"} => \A c \in Calls : ~Waiting(c)
  /\ At("audit") \/ At("wrapup") \/ (Handling("tooluse") /\ ~loop.isResume) =>
       \A c \in Calls : ~Waiting(c) /\ ~Interrupted(c)

\* Only ids the model has handed out have a history.
HandedInv ==
  \A c \in Calls \ handed : task[c] = "idle" /\ st.status[c] = "absent" /\ blind[c] = 0

\* A write that may still run without an approval of its own has had no effect
\* without one.
ReplayInv ==
  \A c \in Calls \ Reads :
    c \notin unspent /\ (task[c] \in {"queued", "started"} \/ st.status[c] = "pending") =>
      blind[c] = 0

\* What holds of every snapshot together with every state of the coroutines
\* that can be above it, and is kept by every step.
InductiveInv ==
  /\ TypeOK
  /\ PositionInv
  /\ ReopenInv
  /\ ResultInv
  /\ ScheduleInv
  /\ OrphanInv
  /\ PromptInv
  /\ RoundInv
  /\ HandedInv
  /\ ReplayInv
  /\ NoBlindReplay

=============================================================================
