------------------------------ MODULE AgentRun ------------------------------
(***************************************************************************)
(* One conversation of the agent loop: AgentLoop (engine/loop.py) driven   *)
(* by AgentRunner (engine/runner.py) through AgentStateMachine             *)
(* (engine/machine.py) over the append-only snapshot store                 *)
(* (context/memory/state_store.py, store.py).                              *)
(*                                                                         *)
(* Durable: the newest snapshot st, which is machine.state as long as a    *)
(* machine exists, and the message log.  Both change in one SQLite         *)
(* transaction per dispatch (commit_agent_transition).  Everything in loop *)
(* and task dies with the process.                                         *)
(*                                                                         *)
(* A step is what the coroutine does between two points where another      *)
(* coroutine, a cancellation or a process crash can get in: one dispatch,  *)
(* together with the local work around it that never suspends.             *)
(***************************************************************************)
EXTENDS AgentState, Sequences, SequencesExt

CONSTANTS
  Reads,        \* calls of tools whose permission is "read"
  Gate,         \* what the registry and the gate say of each call, see Gates
  MaxTurns,     \* settings.context.max_turns
  MaxStarts,    \* bound: calls of AgentLoop.run, new messages and resumes
  MaxFaults     \* bound: crashes and cancellations

\* "write" and "egress" ask for consent in that category, "question" is the
\* interactive ask_user tool, "deny" is refused whatever was granted.
AskedGates == {"write", "egress", "question"}

Gates == AskedGates \cup {"allow", "deny"}

ASSUME ReadsAssumption == Reads \subseteq Calls
ASSUME GateAssumption == Gate \in [Calls -> Gates]
ASSUME BoundsAssumption ==
  MaxTurns \in Nat /\ MaxStarts \in Nat /\ MaxFaults \in Nat

VARIABLES
  st,           \* newest durable snapshot of the conversation
  log,          \* durable messages of the conversation, oldest first
  loop,         \* the loop's coroutine and its per-run fields
  task,         \* where the coroutine of each tool call is
  orphans,      \* tool coroutines left behind that still hold the live machine
  stop,         \* the stop event of the current request
  granted,      \* categories the user allowed for good (gate)
  starts, faults,                     \* counters for the bounds
  handed, execs, blind, unspent, torn \* history: ids handed out by the model, effects
                                      \* of each call, those nobody approved, approvals
                                      \* not used yet, a broken message history

process == <<loop, task, orphans, stop, granted>>
history == <<handed, execs, blind, unspent, torn>>
vars == <<st, log, loop, task, orphans, stop, granted, starts, faults,
          handed, execs, blind, unspent, torn>>

Positions == {"idle", "starting", "run", "stream", "classify", "tools",
              "looped", "cancelled", "audit", "wrapup", "prompt"}

TaskStates == {"idle", "queued", "started", "running", "done"}

Frames == [kind : {"user", "use", "result", "answer"}, run : Nat, ids : SUBSET Calls]

Loops ==
  [pc         : Positions,
   isResume   : BOOLEAN,                  \* _is_resume
   resumeFrom : Phases \cup {"none"},     \* _resume_phase
   pending    : Seq(Frames),              \* memory.pending
   allow      : SUBSET Calls,             \* allow_calls
   deny       : SUBSET Calls,             \* deny_calls
   ask        : SUBSET Calls,             \* confirm_specs, or uncertain_ids
   approved   : SUBSET Calls,             \* _confirmation_approved_ids
   skip       : SUBSET Calls,             \* _skip_permission_ids
   reminded   : BOOLEAN]                  \* _reminded is not empty

\* _reset_run_locals and the two fields _run_once sets.
FreshLoop(pc, isResume, resumeFrom) ==
  [pc |-> pc, isResume |-> isResume, resumeFrom |-> resumeFrom,
   pending |-> <<>>, allow |-> {}, deny |-> {}, ask |-> {},
   approved |-> {}, skip |-> {}, reminded |-> FALSE]

\* A run that is left keeps what its abandoned tool coroutines still read.
LeaveRun == [FreshLoop("idle", FALSE, "none") EXCEPT !.skip = loop.skip]

NoTask == [c \in Calls |-> "idle"]

Frame(kind, ids) == [kind |-> kind, run |-> st.run, ids |-> ids]

----------------------------------------------------------------------------
\* State formulae.

\* What the provider is shown: the durable messages and the buffered ones.
History == log \o loop.pending

\* A tool round whose results are not in the log yet.
OpenRound == log # <<>> /\ Last(log).kind = "use"

At(pc) == loop.pc = pc

Handling(phase) == At("run") /\ st.phase = phase

\* The verdict of PermissionGate.decide once granted categories are counted.
Verdict(c) == IF Gate[c] \in granted THEN "allow" ELSE Gate[c]

\* A slip: a write that was running is taken for one that never started.
UncertainUnlessRunning ==
  {c \in Batch(st) : \/ st.status[c] = "uncertain"
                     \/ st.status[c] = "pending" /\ c \notin Reads}

\* Writes whose effect is unknown to a resumed run.
Uncertain ==
  {c \in Batch(st) : \/ st.status[c] = "uncertain"
                     \/ st.status[c] \in {"pending", "running"} /\ c \notin Reads}

Scheduled == loop.allow \cup loop.deny

\* Calls of the batch that still have to run.
ToRun == {c \in Batch(st) : st.status[c] \in {"pending", "running"}}

Answered == {c \in Batch(st) : st.result[c] # "none"}

\* A slip: nobody synthesizes the refusal.
RoundAnswersWithoutRefusals == Answered

\* The calls the round's result frame answers; a denied call, which has no
\* result of its own, gets a synthesized refusal.
RoundAnswers == Batch(st)

\* Calls _persist_aborted_results still has to close.
Unanswered ==
  {c \in Batch(st) : /\ st.result[c] = "none"
                     /\ st.status[c] \notin {"completed", "failed", "uncertain"}}

Unscheduled == [c \in Calls |-> IF c \in Scheduled THEN "idle" ELSE task[c]]

----------------------------------------------------------------------------
\* No snapshot exists yet: nothing to resume, nothing to abandon.
Init ==
  /\ st = Abandoned(NewAgentState(0))
  /\ log = <<>>
  /\ loop = FreshLoop("idle", FALSE, "none")
  /\ task = NoTask
  /\ orphans = {}
  /\ stop = FALSE
  /\ granted = {}
  /\ starts = 0
  /\ faults = 0
  /\ handed = {}
  /\ execs = [c \in Calls |-> 0]
  /\ blind = [c \in Calls |-> 0]
  /\ unspent = {}
  /\ torn = FALSE

----------------------------------------------------------------------------
\* Starting a run (_run_once).

\* A new message supersedes whatever could have been resumed.
AbandonPrevious ==
  /\ At("idle") /\ IsResumable(st)
  /\ starts < MaxStarts
  /\ st' = Abandoned(st)
  /\ loop' = FreshLoop("starting", FALSE, "none")
  /\ orphans' = {}
  /\ stop' = FALSE
  /\ torn' = (torn \/ (OpenRound /\ st.phase \in {"tooluse", "awaitingconfirmation", "hydrate"}))
  /\ UNCHANGED <<log, task, granted, starts, faults, handed, execs, blind, unspent>>

StartRun ==
  /\ At("starting") \/ (At("idle") /\ ~IsResumable(st))
  /\ starts < MaxStarts
  /\ starts' = starts + 1
  /\ st' = NewAgentState(st.run + 1)
  /\ loop' = FreshLoop("run", FALSE, "none")
  /\ orphans' = {}
  /\ stop' = FALSE
  /\ UNCHANGED <<log, task, granted, faults, history>>

\* The reducer forgets the phase it resumes from; only _resume_phase has it.
Resume ==
  /\ At("idle") /\ IsResumable(st)
  /\ starts < MaxStarts
  /\ starts' = starts + 1
  /\ st' = ResumeRequested(st)
  /\ loop' = FreshLoop("run", TRUE, st.phase)
  /\ orphans' = {}
  /\ stop' = FALSE
  /\ UNCHANGED <<log, task, granted, faults, history>>

----------------------------------------------------------------------------
\* Hydration and compaction.

ResumeTarget ==
  LET candidate == IF loop.resumeFrom = "none" THEN st.resumePhase ELSE loop.resumeFrom
  IN  IF candidate \in ResumablePhases THEN candidate ELSE "none"

Hydrate ==
  /\ Handling("hydrate") /\ CanHydrationFinish(st)
  /\ \E needsCompaction \in
        IF loop.resumeFrom \in {"tooluse", "awaitingconfirmation"} THEN {FALSE} ELSE BOOLEAN :
          st' = HydrationFinished(st, needsCompaction, ResumeTarget)
  /\ loop' = [loop EXCEPT !.pending = IF loop.isResume THEN <<>> ELSE <<Frame("user", {})>>]
  /\ torn' = (torn \/ (OpenRound /\ loop.resumeFrom = "hydrate"))
  /\ UNCHANGED <<log, task, orphans, stop, granted, starts, faults, handed, execs, blind, unspent>>

Compact ==
  /\ Handling("compact") /\ CanCompactionFinish(st)
  /\ st' = CompactionFinished(st)
  /\ UNCHANGED <<log, process, starts, faults, history>>

----------------------------------------------------------------------------
\* Thinking: one provider stream per turn (_effect_think).

ThinkExhausted ==
  /\ Handling("thinking") /\ CanFail(st)
  /\ st.turn >= MaxTurns
  /\ st' = RunFailed(st)
  /\ UNCHANGED <<log, process, starts, faults, history>>

ThinkStopped ==
  /\ Handling("thinking") /\ CanStop(st)
  /\ st.turn < MaxTurns
  /\ stop
  /\ st' = StopRequested(st)
  /\ UNCHANGED <<log, process, starts, faults, history>>

CallModel ==
  /\ Handling("thinking")
  /\ st.turn < MaxTurns
  /\ ~stop
  /\ loop' = [loop EXCEPT !.pc = "stream"]
  /\ UNCHANGED <<st, log, task, orphans, stop, granted, starts, faults, history>>

StreamStopped ==
  /\ At("stream") /\ CanStop(st)
  /\ stop
  /\ st' = StopRequested(st)
  /\ loop' = [loop EXCEPT !.pc = "run"]
  /\ UNCHANGED <<log, task, orphans, stop, granted, starts, faults, history>>

StreamFails ==
  /\ At("stream") /\ CanFail(st)
  /\ st' = RunFailed(st)
  /\ loop' = [loop EXCEPT !.pc = "run"]
  /\ UNCHANGED <<log, task, orphans, stop, granted, starts, faults, history>>

\* The buffered frames and the assistant's tool-use frame are committed with
\* the snapshot; call ids are fresh.
ModelCalls(ids) ==
  /\ At("stream") /\ CanModelFinish(st)
  /\ ids # {} /\ ids \cap handed = {}
  /\ st' = ModelFinishedTools(st, ids)
  /\ log' = Append(History, Frame("use", ids))
  /\ loop' = [loop EXCEPT !.pc = "run", !.pending = <<>>]
  /\ handed' = handed \cup ids
  /\ UNCHANGED <<task, orphans, stop, granted, starts, faults, execs, blind, unspent, torn>>

ModelAnswers ==
  /\ At("stream") /\ CanModelFinish(st)
  /\ st' = ModelFinishedAnswer(st)
  /\ loop' = [loop EXCEPT !.pc = "run"]
  /\ UNCHANGED <<log, task, orphans, stop, granted, starts, faults, history>>

----------------------------------------------------------------------------
\* Tool use: what to do with the persisted calls (_effect_tooluse).

\* The first tool round of a resumed process asks before it repeats a write.
ClassifyAfterResume ==
  /\ Handling("tooluse")
  /\ loop.isResume /\ Uncertain # {}
  /\ loop' = [loop EXCEPT !.pc = "classify", !.isResume = FALSE, !.ask = Uncertain]
  /\ UNCHANGED <<st, log, task, orphans, stop, granted, starts, faults, history>>

MarkUncertain(c) ==
  /\ At("classify") /\ CanCallFinish(st, c)
  /\ c \in loop.ask /\ st.status[c] # "uncertain"
  /\ st' = ToolCallFinished(st, c, "uncertain", "none")
  /\ UNCHANGED <<log, process, starts, faults, history>>

AskRetry ==
  /\ At("classify") /\ CanRequestConfirmation(st)
  /\ \A c \in loop.ask : st.status[c] = "uncertain"
  /\ st' = ConfirmationRequested(st, loop.ask, "retry")
  /\ loop' = [loop EXCEPT !.pc = "run", !.ask = {}]
  /\ UNCHANGED <<log, task, orphans, stop, granted, starts, faults, history>>

\* _partition_tool_calls over the calls that still have to run.
PartitionCalls ==
  /\ Handling("tooluse")
  /\ ~(loop.isResume /\ Uncertain # {})
  /\ LET approved == ToRun \cap loop.approved
         Judged(verdicts) == {c \in ToRun \ approved : Verdict(c) \in verdicts}
     IN /\ loop' = [loop EXCEPT !.pc       = "tools",
                                !.isResume = FALSE,
                                !.allow    = approved \cup Judged({"allow"}),
                                !.deny     = Judged({"deny"}),
                                !.ask      = Judged(AskedGates),
                                !.approved = @ \ approved,
                                !.skip     = @ \cup approved]
        /\ task' = [c \in Calls |-> IF c \in approved \cup Judged({"allow", "deny"})
                                    THEN "queued" ELSE task[c]]
  /\ UNCHANGED <<st, log, orphans, stop, granted, starts, faults, history>>

----------------------------------------------------------------------------
\* Tool use: running the calls (_run_allow_calls, run_one, _execute_inner).
\* Denied calls go one after the other, then the allowed ones are gathered.

StartCall(c) ==
  /\ At("tools") /\ CanCallStart(st, c)
  /\ c \in Scheduled /\ task[c] = "queued"
  /\ IF c \in loop.deny
     THEN \A d \in loop.deny : task[d] \in {"queued", "done"}
     ELSE \A d \in loop.deny : task[d] = "done"
  /\ st' = ToolCallStarted(st, c)
  /\ task' = [task EXCEPT ![c] = "started"]
  /\ UNCHANGED <<log, loop, orphans, stop, granted, starts, faults, history>>

CloseCall(c, status) ==
  /\ At("tools") /\ CanCallFinish(st, c)
  /\ c \in Scheduled
  /\ st' = ToolCallFinished(st, c, status, "value")
  /\ task' = [task EXCEPT ![c] = "done"]

\* The repeat guard answers for the tool: it replays the earlier result, or
\* fails the call when there is none.
GuardReplies(c) ==
  /\ task[c] = "started" /\ ~loop.reminded
  /\ \E status \in {"completed", "failed"} : CloseCall(c, status)
  /\ loop' = [loop EXCEPT !.reminded = TRUE]
  /\ UNCHANGED <<log, orphans, stop, granted, starts, faults, history>>

\* A second repeat raises LoopDetected out of the gather.  The siblings have
\* all been scheduled by then, and nobody cancels them.
GuardEscalates(c) ==
  /\ At("tools")
  /\ c \in Scheduled /\ task[c] = "started" /\ loop.reminded
  /\ c \in loop.allow => \A d \in loop.allow : task[d] # "queued"
  /\ orphans' = {d \in Scheduled \ {c} : task[d] \in {"started", "running"}}
  /\ task' = [d \in Calls |-> IF d \in Scheduled \ orphans' THEN "idle" ELSE task[d]]
  /\ loop' = [loop EXCEPT !.pc = "looped", !.allow = {}, !.deny = {}, !.ask = {}]
  /\ UNCHANGED <<st, log, stop, granted, starts, faults, history>>

\* Unknown tool, gate denial or a pre-hook that blocks.
RefuseCall(c) ==
  /\ task[c] = "started"
  /\ CloseCall(c, "failed")
  /\ UNCHANGED <<log, loop, orphans, stop, granted, starts, faults, history>>

\* The tool's effect.  An orphan gets here too, whatever the loop is doing,
\* except between two dispatches that have no suspension point in between.
RunTool(c) ==
  /\ task[c] = "started"
  /\ ~At("looped") /\ ~At("cancelled")
  /\ c \in loop.skip \/ Verdict(c) = "allow"
  /\ task' = [task EXCEPT ![c] = "running"]
  /\ loop' = [loop EXCEPT !.skip = @ \ {c}]
  /\ execs' = [execs EXCEPT ![c] = @ + 1]
  /\ unspent' = unspent \ {c}
  /\ blind' = IF c \in unspent THEN blind ELSE [blind EXCEPT ![c] = @ + 1]
  /\ UNCHANGED <<st, log, orphans, stop, granted, starts, faults, handed, torn>>

FinishTool(c) ==
  /\ task[c] = "running"
  /\ \E status \in {"completed", "failed"} : CloseCall(c, status)
  /\ UNCHANGED <<log, loop, orphans, stop, granted, starts, faults, history>>

\* An orphan's last dispatch is accepted only while its machine is the newest
\* writer and still in tool use; it then overwrites what the abort recorded.
OrphanEnds(c) ==
  /\ c \notin Scheduled /\ task[c] \in {"started", "running"}
  /\ ~At("looped") /\ ~At("cancelled")
  /\ \/ /\ c \in orphans /\ CanCallFinish(st, c)
        /\ \E status \in {"completed", "failed"} :
              st' = ToolCallFinished(st, c, status, "value")
     \/ UNCHANGED st
  /\ task' = [task EXCEPT ![c] = "idle"]
  /\ orphans' = orphans \ {c}
  /\ UNCHANGED <<log, loop, stop, granted, starts, faults, history>>

----------------------------------------------------------------------------
\* Tool use: the end of a pass.

PassDone == At("tools") /\ \A c \in Scheduled : task[c] = "done"

\* One homogeneous group per prompt; the others wait for the next pass.  The
\* stop event is not looked at here.
AskUser(kind) ==
  /\ PassDone /\ CanRequestConfirmation(st)
  /\ LET group == {c \in loop.ask : Gate[c] = kind}
     IN /\ group # {}
        /\ st' = ConfirmationRequested(st, group, kind)
  /\ loop' = [loop EXCEPT !.pc = "run", !.allow = {}, !.deny = {}, !.ask = {}]
  /\ task' = Unscheduled
  /\ UNCHANGED <<log, orphans, stop, granted, starts, faults, history>>

\* One tool-result frame for the whole batch.
EndBatch ==
  /\ PassDone /\ loop.ask = {}
  /\ CanBatchFinish(st)
  /\ st' = IF stop THEN StopRequested(st) ELSE ToolBatchFinished(st)
  /\ log' = Append(log, Frame("result", RoundAnswers))
  /\ loop' = [loop EXCEPT !.pc = "run", !.allow = {}, !.deny = {}]
  /\ task' = Unscheduled
  /\ UNCHANGED <<orphans, stop, granted, starts, faults, history>>

----------------------------------------------------------------------------
\* Tool use: aborted batches (_persist_aborted_results and its two callers).

AbortCall(c) ==
  /\ At("looped") \/ At("cancelled")
  /\ c \in Unanswered /\ CanCallFinish(st, c)
  /\ st' = ToolCallFinished(st, c, "failed", "cancelled")
  /\ UNCHANGED <<log, process, starts, faults, history>>

LoopAborted ==
  /\ At("looped") /\ Unanswered = {}
  /\ loop' = [loop EXCEPT !.pc = "audit"]
  /\ UNCHANGED <<st, log, task, orphans, stop, granted, starts, faults, history>>

\* Nothing worth reporting was found: the round fails with its result frame.
FailAfterLoop ==
  /\ At("audit") /\ CanFail(st)
  /\ st' = RunFailed(st)
  /\ log' = Append(log, Frame("result", Answered))
  /\ loop' = [loop EXCEPT !.pc = "run"]
  /\ torn' = (torn \/ Answered # Batch(st))
  /\ UNCHANGED <<task, orphans, stop, granted, starts, faults, handed, execs, blind, unspent>>

\* Otherwise the model is asked for a closing answer without tools; the
\* result frame is only buffered.
WrapUp ==
  /\ At("audit")
  /\ loop' = [loop EXCEPT !.pc = "wrapup",
                          !.pending = Append(@, Frame("result", Answered))]
  /\ torn' = (torn \/ Answered # Batch(st))
  /\ UNCHANGED <<st, log, task, orphans, stop, granted, starts, faults, handed, execs, blind, unspent>>

WrapUpEnds ==
  /\ At("wrapup")
  /\ \/ CanComplete(st) /\ st' = RunCompleted(st, "succeeded")
     \/ CanFail(st) /\ st' = RunFailed(st)
  /\ loop' = [loop EXCEPT !.pc = "run"]
  /\ UNCHANGED <<log, task, orphans, stop, granted, starts, faults, history>>

\* A cancelled gather closes the round before the exception leaves the run.
CancelledRoundCloses ==
  /\ At("cancelled") /\ Unanswered = {}
  /\ CanBatchFinish(st)
  /\ st' = ToolBatchFinished(st)
  /\ log' = Append(log, Frame("result", Answered)) \o loop.pending
  /\ loop' = LeaveRun
  /\ torn' = (torn \/ Answered # Batch(st))
  /\ UNCHANGED <<task, orphans, stop, granted, starts, faults, handed, execs, blind, unspent>>

----------------------------------------------------------------------------
\* Confirmation (_effect_await_confirmation, PermissionGate.resolve).

Prompt ==
  /\ Handling("awaitingconfirmation")
  /\ loop' = [loop EXCEPT !.pc = "prompt", !.isResume = FALSE]
  /\ UNCHANGED <<st, log, task, orphans, stop, granted, starts, faults, history>>

\* "none" is the expiry of the prompt.  A question counts as approved whatever
\* comes back; "always" is not offered for a retry.
Answer(answer) ==
  /\ At("prompt") /\ CanResolveConfirmation(st)
  /\ LET asked == st.confirmation
         approved == asked.kind = "question" \/ answer \in {"yes", "always"}
     IN /\ answer = "always" => asked.kind \in {"write", "egress"}
        /\ st' = ConfirmationResolved(st, approved)
        /\ loop' = [loop EXCEPT !.pc = "run",
                                !.approved = IF approved THEN @ \cup asked.ids ELSE @]
        /\ granted' = IF answer = "always" THEN granted \cup {asked.kind} ELSE granted
        /\ unspent' = IF approved THEN unspent \cup asked.ids ELSE unspent \ asked.ids
  /\ UNCHANGED <<log, task, orphans, stop, starts, faults, handed, execs, blind, torn>>

----------------------------------------------------------------------------
\* The end of a run, and what can happen to it from outside.

\* _finish_run and _persist_turn.  A success always has an answer; a stopped
\* or failed run has one when it found something.
Finish ==
  /\ At("run") /\ Terminal(st)
  /\ \E answers \in IF st.outcome = "succeeded" THEN {TRUE} ELSE BOOLEAN :
        log' = IF answers THEN Append(History, Frame("answer", {})) ELSE History
  /\ loop' = LeaveRun
  /\ UNCHANGED <<st, task, orphans, stop, granted, starts, faults, history>>

\* The server's stop: a flag the loop polls, except that a prompt is broken
\* off at once, which unwinds the run like a cancellation.
Stop ==
  /\ ~At("idle") /\ ~At("starting")
  /\ IF At("prompt")
     THEN /\ log' = History
          /\ loop' = LeaveRun
          /\ UNCHANGED stop
     ELSE /\ ~stop /\ stop' = TRUE
          /\ UNCHANGED <<log, loop>>
  /\ UNCHANGED <<st, task, orphans, granted, starts, faults, history>>

\* Cancellation of the request's task lands where the coroutine really
\* waits; _run_once flushes the buffer on its way out.
CancelWaiting ==
  /\ \/ Handling("compact")
     \/ loop.pc \in {"stream", "audit", "wrapup", "prompt"}
  /\ faults < MaxFaults /\ faults' = faults + 1
  /\ log' = History
  /\ loop' = LeaveRun
  /\ torn' = (torn \/ At("wrapup"))
  /\ UNCHANGED <<st, task, orphans, stop, granted, starts, handed, execs, blind, unspent>>

CancelTools ==
  /\ At("tools")
  /\ \E c \in Scheduled : task[c] \in {"started", "running"}
  /\ faults < MaxFaults /\ faults' = faults + 1
  /\ task' = Unscheduled
  /\ loop' = [loop EXCEPT !.pc = "cancelled", !.allow = {}, !.deny = {}, !.ask = {}]
  /\ UNCHANGED <<st, log, orphans, stop, granted, starts, history>>

\* The process dies: only the database is left.
Crash ==
  /\ faults < MaxFaults /\ faults' = faults + 1
  /\ loop' = FreshLoop("idle", FALSE, "none")
  /\ task' = NoTask
  /\ orphans' = {}
  /\ stop' = FALSE
  /\ granted' = {}
  /\ torn' = (torn \/ (OpenRound /\ Terminal(st)))
  /\ UNCHANGED <<st, log, starts, handed, execs, blind, unspent>>

\* Nothing is left to do within the bounds.
Quiescent ==
  /\ At("idle") /\ starts = MaxStarts /\ faults = MaxFaults
  /\ task = NoTask
  /\ UNCHANGED vars

----------------------------------------------------------------------------
ToolStep ==
  \E c \in Calls : \/ MarkUncertain(c) \/ StartCall(c) \/ GuardReplies(c)
                   \/ GuardEscalates(c) \/ RefuseCall(c) \/ RunTool(c)
                   \/ FinishTool(c) \/ OrphanEnds(c) \/ AbortCall(c)

Engine ==
  \/ Hydrate \/ Compact
  \/ ThinkExhausted \/ ThinkStopped \/ CallModel
  \/ StreamStopped \/ StreamFails \/ ModelAnswers
  \/ \E ids \in SUBSET Calls : ModelCalls(ids)
  \/ ClassifyAfterResume \/ AskRetry \/ PartitionCalls
  \/ ToolStep
  \/ \E kind \in AskedGates : AskUser(kind)
  \/ EndBatch
  \/ LoopAborted \/ FailAfterLoop \/ WrapUp \/ WrapUpEnds \/ CancelledRoundCloses
  \/ Prompt
  \/ \E answer \in {"yes", "always", "no", "none"} : Answer(answer)
  \/ Finish

Outside ==
  \/ AbandonPrevious \/ StartRun \/ Resume
  \/ Stop \/ CancelWaiting \/ CancelTools \/ Crash \/ Quiescent

Next == Engine \/ Outside

Spec == Init /\ [][Next]_vars

\* The engine keeps stepping once it is started: the provider's stream ends
\* or fails (its timeouts and retry limit), a tool returns or times out
\* (wait_for), a prompt is answered or expires (confirm_ttl_s).
FairSpec == Spec /\ WF_vars(Engine)

----------------------------------------------------------------------------
TypeOK ==
  /\ st \in AgentStates
  /\ log \in Seq(Frames)
  /\ loop \in Loops
  /\ task \in [Calls -> TaskStates]
  /\ orphans \subseteq Calls
  /\ stop \in BOOLEAN
  /\ granted \subseteq Gates
  /\ starts \in Nat /\ faults \in Nat
  /\ handed \subseteq Calls
  /\ execs \in [Calls -> Nat] /\ blind \in [Calls -> Nat]
  /\ unspent \subseteq Calls
  /\ torn \in BOOLEAN

\* The loop's bookkeeping over several passes, groups of prompts, denials and
\* resumes never leaves a call of the batch without a result when the round's
\* result message is put together (results_by_id would raise KeyError).
BatchResolvable ==
  PassDone /\ loop.ask = {} =>
    \A c \in Batch(st) : st.result[c] # "none" \/ st.status[c] = "failed"

\* While the user is asked, the prompt on record names exactly the calls that
\* wait for it, and no write is in flight beside it: a resume from this
\* snapshot can ask again without repeating an effect.
PromptCoversWaiting ==
  st.phase = "awaitingconfirmation" =>
    /\ st.confirmation.ids # {}
    /\ st.confirmation.ids =
         {c \in Calls : st.status[c] \in {"awaitingconfirmation", "uncertain"}}
    /\ \A c \in Calls \ Reads : st.status[c] # "running"

\* A write that was cut off is never replayed on the loop's own account: at
\* most one of its effects is without an approval of its own (a standing grant
\* or a whitelisted path let it through), over any sequence of crashes,
\* cancellations, stops and resumes.
NoBlindReplay == \A c \in Calls \ Reads : blind[c] <= 1

\* Every tool-use frame is directly followed by one result frame that answers
\* all its calls, and no result frame stands alone.
Paired(messages) ==
  \A i \in DOMAIN messages :
    /\ messages[i].kind = "use" =>
         /\ i < Len(messages)
         /\ messages[i + 1].kind = "result"
         /\ messages[i + 1].ids = messages[i].ids
    /\ messages[i].kind = "result" => i > 1 /\ messages[i - 1].kind = "use"

ModelReads == At("stream") \/ At("wrapup")

\* The history the provider reads is paired, unless one of five events has
\* happened, each of which marks torn: a new message abandoned an open round; a
\* resume forgot one because the previous resume died in hydrate; an aborted
\* round left out a call the user had denied; a wrap-up was cancelled; or the
\* process died between the end of a wrap-up and the flush of its buffer.  Any
\* other crash, resume, stop or cancellation keeps it paired.
PairedUnlessTorn == ModelReads /\ ~torn => Paired(History)

\* A snapshot that can no longer be resumed is never overwritten, not even by
\* tool coroutines that outlive their run: only a new run follows it.
TerminalIsFinal ==
  [][~IsResumable(st) => st' = st \/ st'.run = st.run + 1]_vars

\* The abstract ledger of tool effects.
Entry(c) ==
  CASE c \notin handed -> "new"
    [] c \in handed /\ c \in Batch(st) /\ st.status[c] \in {"pending", "awaitingconfirmation"} -> "open"
    [] c \in handed /\ c \in Batch(st) /\ st.status[c] \in {"running", "uncertain"} -> "inflight"
    [] OTHER -> IF c \notin Scheduled /\ task[c] \in {"started", "running"}
                THEN "abandoned" ELSE "closed"

Ledger == INSTANCE ToolLedger WITH entry <- [c \in Calls |-> Entry(c)]

\* The run implements the ledger.
LedgerSpec == Ledger!Spec

\* Once a run is under way it ends, whatever mixture of tool rounds, prompts,
\* stops and failures it goes through.
RunEnds == loop.pc \notin {"idle", "starting"} ~> At("idle")

----------------------------------------------------------------------------
\* Statements of the documentation that the code does not keep.

\* docs/superpowers/specs/2026-09-25-agent-loop-fsm-design.md:40: a tool-use
\* message always has its complete tool results.
PairedHistory == ModelReads => Paired(History)

\* docs/modules/03.7-governance.md: no grant bypasses a hard denial.
DenyIsFinal == \A c \in Calls : Gate[c] = "deny" => execs[c] = 0

=============================================================================
