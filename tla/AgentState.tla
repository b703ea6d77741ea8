----------------------------- MODULE AgentState -----------------------------
(***************************************************************************)
(* The pure reducer of the agent loop, src/finharness/engine/state.py:     *)
(* transition(state, event) either returns the next snapshot or raises     *)
(* InvalidTransition.  Every event is an operator on a snapshot; its guard *)
(* (the _require of that event) is a predicate of the same name prefixed   *)
(* with Can.                                                               *)
(*                                                                         *)
(* A snapshot keeps what control depends on.  The revision, the usage and  *)
(* retry counters, timestamps and texts are left out: snapshots of a run   *)
(* are totally ordered by the steps that write them.  The tuple of calls   *)
(* is a pair of functions over all call ids, "absent" marking the ids that *)
(* are not in the current batch; a provider gives every call a fresh id.   *)
(***************************************************************************)
EXTENDS Naturals, FiniteSets

CONSTANT Calls             \* the call ids the provider may hand out

Phases == {"hydrate", "compact", "thinking", "tooluse",
           "awaitingconfirmation", "complete", "error"}

CallStatuses == {"absent", "pending", "running", "awaitingconfirmation",
                 "completed", "failed", "uncertain"}

\* result_json: none yet, an answer of the execution path, or the invented
\* "tool call cancelled" of an aborted batch.
Results == {"none", "value", "cancelled"}

Outcomes == {"none", "succeeded", "stopped", "abandoned"}

\* The wording of a prompt is dropped; "retry" is the prompt about a write
\* whose last outcome is unknown (it has the category of a write in the code).
ConfirmationKinds == {"write", "egress", "question", "retry"}

NoConfirmation == [ids |-> {}, kind |-> "none"]

Confirmations == [ids : SUBSET Calls, kind : ConfirmationKinds \cup {"none"}]

ResumablePhases == {"thinking", "tooluse", "awaitingconfirmation"}

AgentStates ==
  [run          : Nat,
   phase        : Phases,
   resumePhase  : ResumablePhases \cup {"none"},
   turn         : Nat,
   status       : [Calls -> CallStatuses],
   result       : [Calls -> Results],
   confirmation : Confirmations,
   outcome      : Outcomes]

NewAgentState(run) ==
  [run          |-> run,
   phase        |-> "hydrate",
   resumePhase  |-> "none",
   turn         |-> 0,
   status       |-> [c \in Calls |-> "absent"],
   result       |-> [c \in Calls |-> "none"],
   confirmation |-> NoConfirmation,
   outcome      |-> "none"]

----------------------------------------------------------------------------
\* Helpers on a snapshot s.

Batch(s) == {c \in Calls : s.status[c] # "absent"}

Terminal(s) == s.phase \in {"complete", "error"}

\* _is_resumable, and _snapshot_resumable of the store: everything but an
\* error and a finished or abandoned run; a user stop stays resumable.
IsResumable(s) ==
  \/ ~Terminal(s)
  \/ s.phase = "complete" /\ s.outcome = "stopped"

MarkCalls(status, ids, new) ==
  [c \in Calls |-> IF c \in ids /\ status[c] # "absent" THEN new ELSE status[c]]

----------------------------------------------------------------------------
\* The events.

ResumeRequested(s) == [s EXCEPT !.phase = "hydrate", !.outcome = "none"]

CanHydrationFinish(s) == s.phase = "hydrate"

\* A slip: no fall-back to thinking when nothing was interrupted.
HydrationWithoutDefault(s, needsCompaction, resumePhase) ==
  IF needsCompaction
  THEN [s EXCEPT !.phase = "compact", !.resumePhase = resumePhase]
  ELSE [s EXCEPT !.phase = resumePhase, !.resumePhase = "none"]

HydrationFinished(s, needsCompaction, resumePhase) ==
  IF needsCompaction
  THEN [s EXCEPT !.phase = "compact", !.resumePhase = resumePhase]
  ELSE [s EXCEPT !.phase = IF resumePhase = "none" THEN "thinking" ELSE resumePhase,
                 !.resumePhase = "none"]

CanCompactionFinish(s) == s.phase = "compact"

CompactionFinished(s) ==
  [s EXCEPT !.phase = IF s.resumePhase = "none" THEN "thinking" ELSE s.resumePhase,
            !.resumePhase = "none"]

CanModelFinish(s) == s.phase = "thinking"

ModelFinishedTools(s, ids) ==
  [s EXCEPT !.phase   = "tooluse",
            !.turn    = @ + 1,
            !.status  = [c \in Calls |-> IF c \in ids THEN "pending" ELSE "absent"],
            !.result  = [c \in Calls |-> "none"],
            !.outcome = "none"]

ModelFinishedAnswer(s) ==
  [s EXCEPT !.phase        = "complete",
            !.turn         = @ + 1,
            !.outcome      = "succeeded",
            !.confirmation = NoConfirmation]

CanCallStart(s, c) == s.phase = "tooluse" /\ c \in Batch(s)

\* A slip: the start of a call is not put on record.
ToolCallStartedUnrecorded(s, c) == s

ToolCallStarted(s, c) == [s EXCEPT !.status[c] = "running"]

\* A slip: a late result is accepted in any phase.
CanCallFinishAnyPhase(s, c) == c \in Batch(s)

CanCallFinish(s, c) == s.phase = "tooluse" /\ c \in Batch(s)

ToolCallFinished(s, c, status, result) ==
  [s EXCEPT !.status[c] = status, !.result[c] = result]

CanBatchFinish(s) == s.phase = "tooluse"

ToolBatchFinished(s) == [s EXCEPT !.phase = "thinking"]

CanRequestConfirmation(s) == s.phase = "tooluse"

\* A slip: the calls that wait are not marked.
ConfirmationUnmarked(s, ids, kind) ==
  [s EXCEPT !.phase        = "awaitingconfirmation",
            !.confirmation = [ids |-> ids, kind |-> kind]]

ConfirmationRequested(s, ids, kind) ==
  [s EXCEPT !.phase        = "awaitingconfirmation",
            !.confirmation = [ids |-> ids, kind |-> kind],
            !.status       = MarkCalls(@, {c \in ids : s.status[c] # "uncertain"},
                                       "awaitingconfirmation")]

CanResolveConfirmation(s) == s.phase = "awaitingconfirmation"

\* Slips: a denial leaves the calls waiting, or to be asked about again.
DenialKeepsStatus(s, approved) ==
  [s EXCEPT !.phase        = "tooluse",
            !.confirmation = NoConfirmation,
            !.status       = IF approved THEN MarkCalls(@, s.confirmation.ids, "pending") ELSE @]

DenialAsksAgain(s, approved) ==
  [s EXCEPT !.phase        = "tooluse",
            !.confirmation = NoConfirmation,
            !.status       = MarkCalls(@, s.confirmation.ids, "pending")]

ConfirmationResolved(s, approved) ==
  [s EXCEPT !.phase        = "tooluse",
            !.confirmation = NoConfirmation,
            !.status       = MarkCalls(@, s.confirmation.ids,
                                       IF approved THEN "pending" ELSE "failed")]

CanStop(s) == s.phase \in ResumablePhases

StopRequested(s) ==
  [s EXCEPT !.phase        = "complete",
            !.outcome      = "stopped",
            !.confirmation = NoConfirmation]

CanComplete(s) == ~Terminal(s)

RunCompleted(s, kind) ==
  [s EXCEPT !.phase        = "complete",
            !.outcome      = kind,
            !.confirmation = NoConfirmation]

CanFail(s) == s.phase \in ResumablePhases

RunFailed(s) ==
  [s EXCEPT !.phase        = "error",
            !.outcome      = "none",
            !.confirmation = NoConfirmation]

\* _next_abandoned of the state store: a resumable stop is rewritten in
\* place, any other resumable snapshot goes through RunCompleted.
Abandoned(s) == RunCompleted(s, "abandoned")

=============================================================================
