------------------------ MODULE AgentRunRecordProofs ------------------------
(***************************************************************************)
(* What the records of a conversation say of it, for every set of calls,   *)
(* every gate and every bound: the messages the provider reads are paired  *)
(* (PairedUnlessTorn), and the effects of the calls are those ToolLedger   *)
(* allows (LedgerSpec).                                                    *)
(***************************************************************************)
EXTENDS AgentRunProofs

\* Paired, except that the last frame may be a tool round without its results.
PairedSoFar(messages) ==
  \A i \in DOMAIN messages :
    /\ messages[i].kind = "use" =>
         \/ i = Len(messages)
         \/ messages[i + 1].kind = "result" /\ messages[i + 1].ids = messages[i].ids
    /\ messages[i].kind = "result" => i > 1 /\ messages[i - 1].kind = "use"

EndsInUse(messages) == messages # <<>> /\ messages[Len(messages)].kind = "use"

OnlyUser(messages) == \A i \in DOMAIN messages : messages[i].kind = "user"

\* The results of the open round are buffered.
Closing ==
  /\ OpenRound
  /\ Len(loop.pending) = 1
  /\ loop.pending[1].kind = "result" /\ loop.pending[1].ids = Last(log).ids

\* The open round of the log is the batch of the snapshot.
OpenInv ==
  st.phase \in {"tooluse", "awaitingconfirmation"}
    \/ Reopens("tooluse") \/ Reopens("awaitingconfirmation") =>
  OpenRound /\ Last(log).ids = Batch(st)

\* Where a round may be open: under a snapshot that can take it up again, or with its
\* results buffered by a run that is about to flush them.
ClosedInv ==
  OpenRound =>
    \/ st.phase \in {"tooluse", "awaitingconfirmation"}
    \/ /\ st.phase = "hydrate"
       /\ At("idle") \/ loop.resumeFrom \in {"tooluse", "awaitingconfirmation", "hydrate"}
    \/ Terminal(st) /\ At("run") /\ Closing

\* What the buffer holds: nothing, the user's message, or the results of the round.
BufferInv ==
  /\ At("wrapup") => Closing
  /\ ~At("wrapup") =>
       \/ OnlyUser(loop.pending)
       \/ Terminal(st) /\ At("run") /\ Closing
  /\ At("idle") \/ At("starting") => loop.pending = <<>>
  /\ ~At("wrapup") /\ st.phase \in {"hydrate", "tooluse", "awaitingconfirmation"} =>
       loop.pending = <<>>

\* A new run starts above an abandoned snapshot.
StartingInv == At("starting") => Terminal(st)

LogInv ==
  /\ StartingInv
  /\ ~torn => PairedSoFar(log) /\ OpenInv /\ ClosedInv /\ BufferInv

----------------------------------------------------------------------------
\* A prompt that can grant a category asks about calls of that category only.
GroupInv ==
  /\ st.phase = "awaitingconfirmation" \/ Reopens("awaitingconfirmation") =>
       (st.confirmation.kind \in {"write", "egress"} =>
         \A c \in st.confirmation.ids : Gate[c] = st.confirmation.kind)
  /\ unspent \subseteq handed

\* An approval the loop still means to use has not been used.
ApprovalInv ==
  /\ \A c \in loop.approved :
       /\ Handling("tooluse") /\ ~loop.isResume
       /\ st.status[c] = "pending" /\ c \in unspent
  /\ \A c \in loop.skip :
       /\ c \in unspent
       /\ Closed(c) \/ (At("tools") /\ c \in Scheduled) \/ Aborting

ConsentInv == GroupInv /\ ApprovalInv

----------------------------------------------------------------------------
(* Message sequences *)

\* Pairing is about the frames one by one and the last of them.
LEMMA PairedEnds ==
  ASSUME NEW m \in Seq(Frames), PairedSoFar(m), ~EndsInUse(m)
  PROVE  Paired(m)
BY DEF PairedSoFar, EndsInUse, Paired

LEMMA OpenRoundEnds == log \in Seq(Frames) => (OpenRound <=> EndsInUse(log))
BY DEF OpenRound, EndsInUse, Last

\* A frame that is not a result follows a closed history.
LEMMA AppendFrame ==
  ASSUME NEW m \in Seq(Frames), NEW f \in Frames,
         PairedSoFar(m), ~EndsInUse(m), f.kind # "result"
  PROVE  /\ Append(m, f) \in Seq(Frames) /\ PairedSoFar(Append(m, f))
         /\ EndsInUse(Append(m, f)) <=> f.kind = "use"
         /\ Append(m, f) # <<>> /\ Last(Append(m, f)) = f
<1> DEFINE n == Append(m, f)
<1>1. /\ n \in Seq(Frames) /\ Len(n) = Len(m) + 1 /\ n[Len(m) + 1] = f
      /\ \A i \in 1..Len(m) : n[i] = m[i]
      /\ DOMAIN m = 1..Len(m) /\ DOMAIN n = 1..Len(m) + 1 /\ Len(m) \in Nat
  OBVIOUS
<1>2. n # <<>> /\ Last(n) = f
  BY <1>1 DEF Last
<1>3. EndsInUse(n) <=> f.kind = "use"
  BY <1>1, <1>2 DEF EndsInUse
<1> HIDE DEF n
<1>4. ASSUME NEW i \in 1..Len(m)
      PROVE  /\ n[i].kind = "use" => n[i + 1].kind = "result" /\ n[i + 1].ids = n[i].ids
             /\ n[i].kind = "result" => i > 1 /\ n[i - 1].kind = "use"
  <2>1. m[i].kind = "use" => i # Len(m)
    BY DEF EndsInUse
  <2>2. i # Len(m) => i + 1 \in 1..Len(m) /\ n[i + 1] = m[i + 1]
    <3>1. Len(m) \in Nat
      BY <1>1
    <3>2. i # Len(m) => i + 1 \in 1..Len(m)
      BY <3>1
    <3> QED BY <1>1, <3>2, Zenon
  <2>3. i > 1 => i - 1 \in 1..Len(m) /\ n[i - 1] = m[i - 1]
    <3>1. Len(m) \in Nat
      BY <1>1
    <3>2. i > 1 => i - 1 \in 1..Len(m)
      BY <3>1
    <3> QED BY <1>1, <3>2, Zenon
  <2> QED BY <1>1, <2>1, <2>2, <2>3 DEF PairedSoFar
<1>5. PairedSoFar(n)
  BY <1>1, <1>4 DEF PairedSoFar
<1> QED BY <1>1, <1>2, <1>3, <1>5 DEF n

\* The results of the open round close it.
LEMMA AppendResult ==
  ASSUME NEW m \in Seq(Frames), NEW f \in Frames,
         PairedSoFar(m), EndsInUse(m), f.kind = "result", f.ids = m[Len(m)].ids
  PROVE  /\ Append(m, f) \in Seq(Frames) /\ PairedSoFar(Append(m, f))
         /\ ~EndsInUse(Append(m, f))
<1> DEFINE n == Append(m, f)
<1>1. /\ n \in Seq(Frames) /\ Len(n) = Len(m) + 1 /\ n[Len(m) + 1] = f
      /\ \A i \in 1..Len(m) : n[i] = m[i]
      /\ DOMAIN m = 1..Len(m) /\ DOMAIN n = 1..Len(m) + 1 /\ Len(m) \in Nat
  OBVIOUS
<1>2. ~EndsInUse(n)
  BY <1>1 DEF EndsInUse
<1>3. Len(m) \in 1..Len(m) /\ m[Len(m)].kind = "use"
  BY DEF EndsInUse
<1> HIDE DEF n
<1>4. ASSUME NEW i \in 1..Len(m)
      PROVE  /\ n[i].kind = "use" => n[i + 1].kind = "result" /\ n[i + 1].ids = n[i].ids
             /\ n[i].kind = "result" => i > 1 /\ n[i - 1].kind = "use"
  <2>1. i # Len(m) => i + 1 \in 1..Len(m) /\ n[i + 1] = m[i + 1]
    <3>1. Len(m) \in Nat
      BY <1>1
    <3>2. i # Len(m) => i + 1 \in 1..Len(m)
      BY <3>1
    <3> QED BY <1>1, <3>2, Zenon
  <2>2. i > 1 => i - 1 \in 1..Len(m) /\ n[i - 1] = m[i - 1]
    <3>1. Len(m) \in Nat
      BY <1>1
    <3>2. i > 1 => i - 1 \in 1..Len(m)
      BY <3>1
    <3> QED BY <1>1, <3>2, Zenon
  <2> QED BY <1>1, <2>1, <2>2 DEF PairedSoFar
<1>5. Len(m) + 1 > 1 /\ n[Len(m)].kind = "use" /\ f.kind = "result"
  BY <1>1, <1>3
<1>6. PairedSoFar(n)
  BY <1>1, <1>4, <1>5 DEF PairedSoFar
<1> QED BY <1>1, <1>2, <1>6 DEF n

\* The user's message follows a closed history.
LEMMA AppendUser ==
  ASSUME NEW m \in Seq(Frames), NEW p \in Seq(Frames),
         PairedSoFar(m), ~EndsInUse(m), OnlyUser(p)
  PROVE  m \o p \in Seq(Frames) /\ PairedSoFar(m \o p) /\ ~EndsInUse(m \o p)
<1> DEFINE n == m \o p
<1>1. /\ n \in Seq(Frames) /\ Len(n) = Len(m) + Len(p)
      /\ \A i \in 1..Len(m) : n[i] = m[i]
      /\ \A i \in 1..Len(n) : i > Len(m) => n[i] = p[i - Len(m)] /\ i - Len(m) \in 1..Len(p)
      /\ DOMAIN m = 1..Len(m) /\ DOMAIN n = 1..Len(n) /\ DOMAIN p = 1..Len(p)
      /\ Len(m) \in Nat /\ Len(p) \in Nat
  OBVIOUS
<1> HIDE DEF n
<1>2. \A i \in 1..Len(n) : i > Len(m) => n[i].kind = "user"
  BY <1>1 DEF OnlyUser
<1>3. m # <<>> <=> Len(m) > 0
  BY <1>1
<1>4. ASSUME NEW i \in 1..Len(m)
      PROVE  /\ n[i].kind = "use" => n[i + 1].kind = "result" /\ n[i + 1].ids = n[i].ids
             /\ n[i].kind = "result" => i > 1 /\ n[i - 1].kind = "use"
  <2>1. m[i].kind = "use" => i # Len(m)
    BY <1>3 DEF EndsInUse
  <2>2. i # Len(m) => i + 1 \in 1..Len(m) /\ n[i + 1] = m[i + 1]
    <3>1. Len(m) \in Nat
      BY <1>1
    <3>2. i # Len(m) => i + 1 \in 1..Len(m)
      BY <3>1
    <3> QED BY <1>1, <3>2, Zenon
  <2>3. i > 1 => i - 1 \in 1..Len(m) /\ n[i - 1] = m[i - 1]
    <3>1. Len(m) \in Nat
      BY <1>1
    <3>2. i > 1 => i - 1 \in 1..Len(m)
      BY <3>1
    <3> QED BY <1>1, <3>2, Zenon
  <2> QED BY <1>1, <2>1, <2>2, <2>3 DEF PairedSoFar
<1>5. PairedSoFar(n)
  <2>1. \A i \in 1..Len(n) : i \in 1..Len(m) \/ i > Len(m)
    BY <1>1
  <2> QED BY <1>1, <1>2, <1>4, <2>1 DEF PairedSoFar
<1>6. ~EndsInUse(n)
  <2>1. CASE Len(p) = 0
    BY <2>1, <1>1, <1>3 DEF EndsInUse
  <2>2. CASE Len(p) > 0
    BY <2>2, <1>1, <1>2 DEF EndsInUse
  <2> QED BY <1>1, <2>1, <2>2
<1> QED BY <1>1, <1>5, <1>6 DEF n

LEMMA EmptyBuffer == OnlyUser(<<>>)
BY DEF OnlyUser

----------------------------------------------------------------------------
(* Steps and the log *)

LEMMA LogTypes ==
  ASSUME TypeOK
  PROVE  /\ log \in Seq(Frames) /\ loop.pending \in Seq(Frames) /\ History \in Seq(Frames)
         /\ OpenRound <=> EndsInUse(log)
         /\ Batch(st) \in SUBSET Calls
<1>1. log \in Seq(Frames) /\ loop.pending \in Seq(Frames)
  BY LoopType DEF TypeOK
<1>2. History \in Seq(Frames)
  BY <1>1 DEF History
<1> QED BY <1>1, <1>2, OpenRoundEnds DEF Batch

\* Steps within a round, or of tool coroutines at any time, do not move the log.
LEMMA LogKept ==
  ASSUME InductiveInv, LogInv, UNCHANGED <<log, torn>>,
         loop'.pending = loop.pending, loop'.resumeFrom = loop.resumeFrom, Batch(st)' = Batch(st),
         \/ st'.phase = st.phase
         \/ {st.phase, st'.phase} \subseteq {"tooluse", "awaitingconfirmation"},
         \/ loop'.pc = loop.pc
         \/ /\ st.phase \in {"thinking", "tooluse", "awaitingconfirmation"}
            /\ {loop.pc, loop'.pc} \cap {"idle", "starting", "wrapup"} = {}
  PROVE  LogInv'
<1>1. OpenRound' = OpenRound /\ (Closing' <=> Closing) /\ (Last(log).ids)' = Last(log).ids
  BY DEF OpenRound, Closing
<1>2. StartingInv' /\ (~torn => ClosedInv' /\ BufferInv')
  BY <1>1 DEF LogInv, StartingInv, ClosedInv, BufferInv, Terminal, At
<1>3. ~torn => OpenInv' /\ PairedSoFar(log)'
  BY <1>1 DEF LogInv, OpenInv, Reopens
<1> QED BY <1>2, <1>3 DEF LogInv

\* The model's turn begins and ends with a closed log.
LEMMA LogOfThinking ==
  ASSUME InductiveInv, LogInv, UNCHANGED <<log, torn>>,
         loop'.pending = loop.pending, loop'.resumeFrom = loop.resumeFrom,
         st.phase \in {"compact", "thinking"}, st'.phase \in {"thinking", "complete", "error"},
         At("run") \/ At("stream"), loop'.pc = "run"
  PROVE  LogInv'
<1>1. /\ ~torn => ~OpenRound /\ PairedSoFar(log) /\ OnlyUser(loop.pending)
      /\ OpenRound' = OpenRound
  BY DEF LogInv, ClosedInv, BufferInv, OpenRound, Terminal, At
<1>2. StartingInv' /\ (~torn => OpenInv' /\ ClosedInv' /\ BufferInv' /\ PairedSoFar(log)')
  BY <1>1 DEF StartingInv, OpenInv, ClosedInv, BufferInv, Reopens, At
<1> QED BY <1>2 DEF LogInv

\* A closed log under a snapshot outside tool rounds, with an empty buffer.
LEMMA LogIsClosed ==
  ASSUME StartingInv',
         ~torn' => PairedSoFar(log') /\ log' \in Seq(Frames) /\ ~EndsInUse(log'),
         st'.phase \notin {"tooluse", "awaitingconfirmation"},
         st'.phase = "hydrate" => loop'.resumeFrom \notin {"tooluse", "awaitingconfirmation"},
         OnlyUser(loop'.pending), loop'.pc # "wrapup",
         loop'.pending = <<>> \/ (loop'.pc = "run" /\ st'.phase # "hydrate")
  PROVE  LogInv'
<1>1. ~torn' => ~OpenRound'
  BY DEF OpenRound, EndsInUse, Last
<1> QED BY <1>1 DEF LogInv, OpenInv, ClosedInv, BufferInv, Reopens, At

\* A run that is left has nothing but its coroutines.
LEMMA RunIsLeft ==
  /\ LeaveRun.pc = "idle" /\ LeaveRun.pending = <<>> /\ LeaveRun.resumeFrom = "none"
  /\ LeaveRun.allow = {} /\ LeaveRun.deny = {} /\ LeaveRun.ask = {} /\ LeaveRun.approved = {}
  /\ LeaveRun.skip = loop.skip
BY DEF LeaveRun, FreshLoop

\* What is flushed is paired as well as the log was, with results that close it.
LEMMA HistoryIsPaired ==
  ASSUME InductiveInv, LogInv, ~torn, ~OpenRound => OnlyUser(loop.pending)
  PROVE  /\ History \in Seq(Frames) /\ PairedSoFar(History)
         /\ EndsInUse(History) => OpenRound /\ loop.pending = <<>>
<1>1. /\ log \in Seq(Frames) /\ loop.pending \in Seq(Frames) /\ History \in Seq(Frames)
      /\ OpenRound <=> EndsInUse(log)
      /\ PairedSoFar(log)
  BY LogTypes DEF InductiveInv, LogInv
<1>2. CASE ~OpenRound
  BY <1>1, <1>2, AppendUser DEF History
<1>3. CASE OpenRound /\ loop.pending = <<>>
  BY <1>1, <1>3 DEF History
<1>4. CASE OpenRound /\ loop.pending # <<>>
  <2>1. Closing
    BY <1>4 DEF LogInv, ClosedInv, BufferInv, InductiveInv, PositionInv, At, Terminal
  <2> DEFINE f == loop.pending[1]
  <2>2. f \in Frames /\ f.kind = "result" /\ f.ids = log[Len(log)].ids
    BY <1>1, <2>1 DEF Closing, Last
  <2>3. loop.pending = <<f>>
    BY <1>1, <2>1 DEF Closing
  <2>4. History = Append(log, f)
    <3>1. \A g : log \o <<g>> = Append(log, g)
      BY <1>1
    <3> QED BY <2>3, <3>1 DEF History
  <2> HIDE DEF f
  <2> QED BY <1>1, <1>4, <2>2, <2>4, AppendResult
<1> QED BY <1>2, <1>3, <1>4

\* Marks and outcomes do not change which calls the batch has.
LEMMA BatchStays ==
  ASSUME InductiveInv
  PROVE  /\ \A c \in Batch(st), status \in CallStatuses \ {"absent"}, result \in Results :
              Batch(ToolCallFinished(st, c, status, result)) = Batch(st)
         /\ \A c \in Batch(st) : Batch(ToolCallStarted(st, c)) = Batch(st)
         /\ \A ids \in SUBSET Calls : \A kind : Batch(ConfirmationRequested(st, ids, kind)) = Batch(st)
         /\ \A approved \in BOOLEAN : Batch(ConfirmationResolved(st, approved)) = Batch(st)
<1>1. st \in AgentStates
  BY DEF InductiveInv, TypeOK
<1>2. \A c \in Batch(st), status \in CallStatuses \ {"absent"}, result \in Results :
        Batch(ToolCallFinished(st, c, status, result)) = Batch(st)
  BY <1>1 DEF Batch, ToolCallFinished, AgentStates
<1>3. \A c \in Batch(st) : Batch(ToolCallStarted(st, c)) = Batch(st)
  BY <1>1 DEF Batch, ToolCallStarted, AgentStates
<1>4. \A ids \in SUBSET Calls : \A kind : Batch(ConfirmationRequested(st, ids, kind)) = Batch(st)
  BY <1>1 DEF Batch, ConfirmationRequested, MarkCalls, AgentStates
<1>5. \A approved \in BOOLEAN : Batch(ConfirmationResolved(st, approved)) = Batch(st)
  BY <1>1 DEF Batch, ConfirmationResolved, MarkCalls, AgentStates
<1> QED BY <1>2, <1>3, <1>4, <1>5

LEMMA ToolStepKeepsLog ==
  ASSUME InductiveInv, LogInv, ToolStep
  PROVE  LogInv'
<1> PICK c \in Calls : \/ MarkUncertain(c) \/ StartCall(c) \/ GuardReplies(c)
                       \/ GuardEscalates(c) \/ RefuseCall(c) \/ RunTool(c)
                       \/ FinishTool(c) \/ OrphanEnds(c) \/ AbortCall(c)
  BY DEF ToolStep
<1>1. UNCHANGED <<log, torn>>
  BY DEF MarkUncertain, StartCall, GuardReplies, GuardEscalates, RefuseCall, RunTool, FinishTool,
     OrphanEnds, AbortCall, history
<1>2. /\ loop'.pending = loop.pending /\ loop'.resumeFrom = loop.resumeFrom
      /\ \/ loop'.pc = loop.pc
         \/ At("tools") /\ loop'.pc = "looped"
  BY DEF MarkUncertain, StartCall, GuardReplies, GuardEscalates, RefuseCall, RunTool, FinishTool,
     OrphanEnds, AbortCall, CloseCall, process, InductiveInv, TypeOK, Loops
<1>3. \/ st' = st
      \/ c \in Batch(st) /\ st' = ToolCallStarted(st, c)
      \/ c \in Batch(st) /\ \E status \in {"uncertain", "completed", "failed"},
                              result \in {"none", "value", "cancelled"} :
                                 st' = ToolCallFinished(st, c, status, result)
  BY DEF MarkUncertain, StartCall, GuardReplies, GuardEscalates, RefuseCall, RunTool, FinishTool,
     OrphanEnds, AbortCall, CloseCall, CanCallFinish, CanCallStart
<1>4. Batch(st') = Batch(st) /\ st'.phase = st.phase
  <2>1. st \in AgentStates
    BY DEF InductiveInv, TypeOK
  <2>2. CASE st' = st
    BY <2>2
  <2>3. CASE c \in Batch(st) /\ st' = ToolCallStarted(st, c)
    BY <2>1, <2>3, BatchStays DEF ToolCallStarted, AgentStates
  <2>4. ASSUME c \in Batch(st), NEW status \in {"uncertain", "completed", "failed"},
               NEW result \in {"none", "value", "cancelled"},
               st' = ToolCallFinished(st, c, status, result)
        PROVE  Batch(st') = Batch(st) /\ st'.phase = st.phase
    <3>1. status \in CallStatuses \ {"absent"} /\ result \in Results
      BY DEF CallStatuses, Results
    <3>2. Batch(st') = Batch(st)
      BY <2>4, <3>1, BatchStays
    <3> QED BY <2>1, <2>4, <3>2 DEF ToolCallFinished, AgentStates
  <2> QED BY <1>3, <2>2, <2>3, <2>4
<1>5. At("tools") => st.phase = "tooluse"
  BY DEF InductiveInv, PositionInv, At
<1> QED BY <1>1, <1>2, <1>4, <1>5, LogKept DEF At

\* Steps of the loop inside a round.
LEMMA RoundKeepsLog ==
  ASSUME InductiveInv, LogInv,
         \/ ClassifyAfterResume \/ AskRetry \/ PartitionCalls
         \/ (\E kind \in AskedGates : AskUser(kind))
         \/ LoopAborted \/ CancelTools
         \/ Prompt \/ (\E answer \in {"yes", "always", "no", "none"} : Answer(answer))
         \/ CallModel
  PROVE  LogInv'
<1>1. UNCHANGED <<log, torn>>
  BY DEF ClassifyAfterResume, AskRetry, PartitionCalls, AskUser, LoopAborted, CancelTools, Prompt,
     Answer, CallModel, history
<1>2. /\ loop'.pending = loop.pending /\ loop'.resumeFrom = loop.resumeFrom
      /\ loop'.pc \in {"stream", "classify", "run", "tools", "audit", "cancelled", "prompt"}
      /\ loop.pc \in {"run", "classify", "tools", "looped", "prompt"}
  BY DEF ClassifyAfterResume, AskRetry, PartitionCalls, AskUser, LoopAborted, CancelTools, Prompt,
     Answer, CallModel, PassDone, Handling, At, InductiveInv, TypeOK, Loops
<1>3. CASE st' = st
  <2>1. st.phase \in {"thinking", "tooluse", "awaitingconfirmation"}
    BY DEF ClassifyAfterResume, AskRetry, PartitionCalls, AskUser, LoopAborted, CancelTools, Prompt,
       Answer, CallModel, PassDone, Handling, At, InductiveInv, PositionInv
  <2> QED BY <1>1, <1>2, <1>3, <2>1, LogKept
<1>4. ASSUME NEW ids \in SUBSET Calls, NEW kind, st.phase = "tooluse",
             st' = ConfirmationRequested(st, ids, kind)
      PROVE  LogInv'
  <2>1. st'.phase = "awaitingconfirmation"
    BY <1>4 DEF ConfirmationRequested, InductiveInv, TypeOK, AgentStates
  <2> QED BY <1>1, <1>2, <1>4, <2>1, BatchStays, LogKept
<1>5. ASSUME NEW approved \in BOOLEAN, st.phase = "awaitingconfirmation",
             st' = ConfirmationResolved(st, approved)
      PROVE  LogInv'
  <2>1. st'.phase = "tooluse"
    BY <1>5 DEF ConfirmationResolved, InductiveInv, TypeOK, AgentStates
  <2> QED BY <1>1, <1>2, <1>5, <2>1, BatchStays, LogKept
<1>6. loop.ask \in SUBSET Calls
  BY LoopType DEF InductiveInv, TypeOK
<1>7. CASE AskRetry
  BY <1>4, <1>6, <1>7 DEF AskRetry, CanRequestConfirmation
<1>8. ASSUME NEW kind \in AskedGates, AskUser(kind) PROVE LogInv'
  <2>1. {c \in loop.ask : Gate[c] = kind} \in SUBSET Calls
    BY <1>6
  <2> QED BY <1>4, <1>8, <2>1 DEF AskUser, CanRequestConfirmation
<1>9. ASSUME NEW answer \in {"yes", "always", "no", "none"}, Answer(answer) PROVE LogInv'
  <2>1. (st.confirmation.kind = "question" \/ answer \in {"yes", "always"}) \in BOOLEAN
    OBVIOUS
  <2> QED BY <1>5, <1>9, <2>1 DEF Answer, CanResolveConfirmation
<1>10. CASE ClassifyAfterResume \/ PartitionCalls \/ LoopAborted \/ CancelTools \/ Prompt \/ CallModel
  <2>1. st' = st
    BY <1>10 DEF ClassifyAfterResume, PartitionCalls, LoopAborted, CancelTools, Prompt, CallModel
  <2> QED BY <1>3, <2>1
<1> QED BY <1>7, <1>8, <1>9, <1>10

\* The model's turn: compaction, a stream that ends or fails, a turn that is refused.
LEMMA ThinkingKeepsLog ==
  ASSUME InductiveInv, LogInv,
         Compact \/ ThinkExhausted \/ ThinkStopped \/ StreamStopped \/ StreamFails \/ ModelAnswers
  PROVE  LogInv'
<1>1. st \in AgentStates
  BY DEF InductiveInv, TypeOK
<1>2. /\ UNCHANGED <<log, torn>> /\ loop'.pending = loop.pending
      /\ loop'.resumeFrom = loop.resumeFrom /\ loop'.pc = "run"
      /\ At("run") \/ At("stream")
      /\ st.phase \in {"compact", "thinking"}
  BY DEF Compact, ThinkExhausted, ThinkStopped, StreamStopped, StreamFails, ModelAnswers, process,
     history, Handling, At, InductiveInv, TypeOK, Loops, PositionInv
<1>3. CASE Compact
  BY <1>1, <1>2, <1>3, LogOfThinking
  DEF Compact, CompactionFinished, AgentStates, InductiveInv, ReopenInv
<1>4. CASE ThinkExhausted \/ ThinkStopped \/ StreamStopped \/ StreamFails \/ ModelAnswers
  <2>1. st' = RunFailed(st) \/ st' = StopRequested(st) \/ st' = ModelFinishedAnswer(st)
    BY <1>4 DEF ThinkExhausted, ThinkStopped, StreamStopped, StreamFails, ModelAnswers
  <2>2. st'.phase \in {"complete", "error"}
    BY <1>1, <2>1 DEF RunFailed, StopRequested, ModelFinishedAnswer, AgentStates
  <2> QED BY <1>2, <2>2, LogOfThinking
<1> QED BY <1>3, <1>4

\* A resume takes the open round up again, or it marks the log torn.
LEMMA HydrateKeepsLog ==
  ASSUME InductiveInv, LogInv, Hydrate
  PROVE  LogInv'
<1>1. PICK b \in BOOLEAN :
        /\ st' = HydrationFinished(st, b, ResumeTarget)
        /\ loop.resumeFrom \in {"tooluse", "awaitingconfirmation"} => ~b
  BY DEF Hydrate
<1>2. /\ st.phase = "hydrate" /\ At("run") /\ log' = log
      /\ loop' = [loop EXCEPT !.pending = IF loop.isResume THEN <<>> ELSE <<Frame("user", {})>>]
      /\ torn' = (torn \/ (OpenRound /\ loop.resumeFrom = "hydrate"))
      /\ OpenRound' = OpenRound
  BY DEF Hydrate, Handling, At, OpenRound
<1>3. st \in AgentStates /\ loop \in Loops
  BY DEF InductiveInv, TypeOK
<1>4. /\ loop'.pc = "run" /\ loop'.resumeFrom = loop.resumeFrom
      /\ loop'.pending = IF loop.isResume THEN <<>> ELSE <<Frame("user", {})>>
  BY <1>2, <1>3 DEF Loops, At
<1>5. OnlyUser(loop'.pending)
  <2>1. OnlyUser(<<Frame("user", {})>>)
    BY DEF OnlyUser, Frame
  <2>2. CASE loop.isResume
    BY <1>4, <2>2, EmptyBuffer
  <2>3. CASE ~loop.isResume
    BY <1>4, <2>1, <2>3
  <2> QED BY <2>2, <2>3
<1>6. StartingInv'
  BY <1>4 DEF StartingInv, At
<1>7. CASE loop.resumeFrom \in {"tooluse", "awaitingconfirmation"}
  <2>1. st' = [st EXCEPT !.phase = loop.resumeFrom, !.resumePhase = "none"]
    BY <1>1, <1>7 DEF HydrationFinished, ResumeTarget, ResumablePhases
  <2>2. st'.phase = loop.resumeFrom /\ Batch(st') = Batch(st)
    BY <1>3, <1>7, <2>1 DEF AgentStates, Batch
  <2>3. loop.isResume
    BY <1>2, <1>7 DEF InductiveInv, ReopenInv
  <2>4. loop'.pending = <<>>
    BY <1>4, <2>3
  <2>5. ~torn => OpenRound /\ Last(log).ids = Batch(st)
    BY <1>2, <1>7 DEF LogInv, OpenInv, Reopens
  <2>6. ~torn => OpenInv' /\ ClosedInv' /\ BufferInv' /\ PairedSoFar(log)'
    BY <1>2, <1>4, <1>5, <1>7, <2>2, <2>4, <2>5 DEF LogInv, OpenInv, ClosedInv, BufferInv, At
  <2> QED BY <1>2, <1>6, <2>6 DEF LogInv
<1>8. CASE loop.resumeFrom \notin {"tooluse", "awaitingconfirmation"}
  <2>1. st'.phase \in {"compact", "thinking"}
    <3>1. ResumeTarget \in {"none", "thinking"}
      BY <1>8 DEF ResumeTarget, ResumablePhases, InductiveInv, ReopenInv
    <3> QED BY <1>1, <1>3, <3>1 DEF HydrationFinished, AgentStates
  <2>2. ~torn' => PairedSoFar(log) /\ ~OpenRound
    BY <1>2, <1>8 DEF LogInv, ClosedInv, Terminal, At
  <2>3. ~torn' => PairedSoFar(log') /\ log' \in Seq(Frames) /\ ~EndsInUse(log')
    BY <1>2, <2>2, LogTypes DEF InductiveInv
  <2> QED BY <1>4, <1>5, <1>6, <2>1, <2>3, LogIsClosed
<1> QED BY <1>7, <1>8

\* The model asks for calls: the buffer and the round go into the log.
LEMMA ModelCallsKeepsLog ==
  ASSUME InductiveInv, LogInv, NEW ids \in SUBSET Calls, ModelCalls(ids)
  PROVE  LogInv'
<1>1. /\ At("stream") /\ st.phase = "thinking" /\ torn' = torn
      /\ st' = ModelFinishedTools(st, ids)
      /\ log' = Append(History, Frame("use", ids))
      /\ loop' = [loop EXCEPT !.pc = "run", !.pending = <<>>]
  BY DEF ModelCalls, CanModelFinish
<1>2. st \in AgentStates /\ loop \in Loops
  BY DEF InductiveInv, TypeOK
<1>3. st'.phase = "tooluse" /\ Batch(st') = ids
  BY <1>1, <1>2 DEF ModelFinishedTools, AgentStates, Batch
<1>4. loop'.pc = "run" /\ loop'.pending = <<>>
  BY <1>1, <1>2 DEF Loops
<1>5. /\ Frame("use", ids) \in Frames /\ Frame("use", ids).kind = "use"
      /\ Frame("use", ids).ids = ids
  BY FrameType DEF InductiveInv, TypeOK, Frame
<1>6. ~torn => PairedSoFar(log') /\ EndsInUse(log') /\ Last(log').ids = ids /\ log' \in Seq(Frames)
  <2> SUFFICES ASSUME ~torn
               PROVE  /\ PairedSoFar(log') /\ EndsInUse(log') /\ Last(log').ids = ids
                      /\ log' \in Seq(Frames)
    OBVIOUS
  <2>1. ~OpenRound /\ OnlyUser(loop.pending)
    BY <1>1 DEF LogInv, ClosedInv, BufferInv, Terminal, At
  <2>2. History \in Seq(Frames) /\ PairedSoFar(History) /\ ~EndsInUse(History)
    BY <2>1, HistoryIsPaired
  <2> QED BY <1>1, <1>5, <2>2, AppendFrame
<1>7. ~torn => OpenRound' /\ Last(log').ids = ids
  BY <1>6 DEF OpenRound, EndsInUse, Last
<1>8. StartingInv' /\ (~torn => OpenInv' /\ ClosedInv' /\ BufferInv')
  <2>1. OnlyUser(loop'.pending)
    BY <1>4, EmptyBuffer
  <2> QED BY <1>1, <1>3, <1>4, <1>7, <2>1 DEF StartingInv, OpenInv, ClosedInv, BufferInv, At
<1> QED BY <1>1, <1>6, <1>8 DEF LogInv

\* The round's results close the log.
LEMMA ResultsKeepLog ==
  ASSUME InductiveInv, LogInv, EndBatch \/ FailAfterLoop \/ CancelledRoundCloses
  PROVE  LogInv'
<1>1. st \in AgentStates /\ loop \in Loops /\ TypeOK
  BY DEF InductiveInv, TypeOK
<1>2. st.phase = "tooluse" /\ ~At("wrapup") /\ ~At("idle") /\ ~At("starting")
  BY DEF EndBatch, FailAfterLoop, CancelledRoundCloses, PassDone, At, InductiveInv, PositionInv
<1>3. st'.phase \in {"thinking", "complete", "error"}
  BY <1>1 DEF EndBatch, FailAfterLoop, CancelledRoundCloses, ToolBatchFinished, StopRequested,
     RunFailed, AgentStates
<1>4. /\ loop'.pc \in {"run", "idle"}
      /\ loop'.pending = loop.pending \/ loop'.pending = <<>>
      /\ torn => torn'
  <2>1. CASE EndBatch
    BY <1>1, <2>1 DEF EndBatch, Loops, history
  <2>2. CASE FailAfterLoop
    BY <1>1, <2>2 DEF FailAfterLoop, Loops
  <2>3. CASE CancelledRoundCloses
    BY <2>3, RunIsLeft DEF CancelledRoundCloses
  <2> QED BY <2>1, <2>2, <2>3
<1>5. ~torn => loop.pending = <<>> /\ OpenRound /\ Last(log).ids = Batch(st) /\ PairedSoFar(log)
  BY <1>2 DEF LogInv, BufferInv, OpenInv
<1>6. ~torn' => log' = Append(log, Frame("result", Batch(st)))
  <2> SUFFICES ASSUME ~torn' PROVE log' = Append(log, Frame("result", Batch(st)))
    OBVIOUS
  <2>1. CASE EndBatch
    BY <2>1 DEF EndBatch, RoundAnswers
  <2>2. CASE FailAfterLoop
    BY <2>2 DEF FailAfterLoop
  <2>3. CASE CancelledRoundCloses
    <3>1. log' = Append(log, Frame("result", Batch(st))) \o loop.pending /\ loop.pending = <<>>
      BY <1>4, <1>5, <2>3 DEF CancelledRoundCloses
    <3>2. Append(log, Frame("result", Batch(st))) \in Seq(Frames)
      BY <1>1, LogTypes, FrameType
    <3> QED BY <3>1, <3>2
  <2> QED BY <2>1, <2>2, <2>3
<1>7. ~torn' => PairedSoFar(log') /\ log' \in Seq(Frames) /\ ~EndsInUse(log')
  <2> DEFINE f == Frame("result", Batch(st))
  <2>1. f \in Frames /\ f.kind = "result" /\ f.ids = Batch(st)
    BY <1>1, LogTypes, FrameType DEF Frame
  <2>2. ~torn => log \in Seq(Frames) /\ EndsInUse(log) /\ log[Len(log)].ids = f.ids
    BY <1>1, <1>5, <2>1, LogTypes DEF Last
  <2> HIDE DEF f
  <2>3. ~torn' => log' = Append(log, f)
    BY <1>6 DEF f
  <2> QED BY <1>4, <1>5, <2>1, <2>2, <2>3, AppendResult
<1>8. torn' \/ loop'.pending = <<>>
  BY <1>4, <1>5
<1>9. StartingInv'
  BY <1>4 DEF StartingInv, At
<1>10. CASE torn'
  BY <1>9, <1>10 DEF LogInv
<1>11. CASE ~torn'
  BY <1>3, <1>4, <1>7, <1>8, <1>9, <1>11, LogIsClosed, EmptyBuffer
<1> QED BY <1>10, <1>11

\* The closing answer: its results are buffered until the run is over.
LEMMA WrapUpKeepsLog ==
  ASSUME InductiveInv, LogInv, WrapUp \/ WrapUpEnds
  PROVE  LogInv'
<1>1. st \in AgentStates /\ loop \in Loops /\ TypeOK
  BY DEF InductiveInv, TypeOK
<1>2. st.phase = "tooluse" /\ log' = log /\ OpenRound' = OpenRound /\ (torn => torn')
  <2>1. CASE WrapUp
    BY <2>1 DEF WrapUp, At, InductiveInv, PositionInv, OpenRound
  <2>2. CASE WrapUpEnds
    BY <2>2 DEF WrapUpEnds, At, InductiveInv, PositionInv, OpenRound, history
  <2> QED BY <2>1, <2>2
<1>3. ~torn => PairedSoFar(log) /\ OpenRound /\ Last(log).ids = Batch(st)
  BY <1>2 DEF LogInv, OpenInv
<1>4. CASE WrapUp
  <2>1. /\ At("audit") /\ st' = st /\ torn' = (torn \/ Answered # Batch(st))
        /\ loop' = [loop EXCEPT !.pc = "wrapup",
                                !.pending = Append(@, Frame("result", Answered))]
    BY <1>4 DEF WrapUp
  <2>2. loop'.pc = "wrapup" /\ loop'.pending = Append(loop.pending, Frame("result", Answered))
    BY <1>1, <2>1 DEF Loops
  <2>3. ~torn' => /\ Len(loop'.pending) = 1
                  /\ loop'.pending[1].kind = "result" /\ loop'.pending[1].ids = Batch(st)
    <3>1. ~torn => loop.pending = <<>>
      BY <1>2, <2>1 DEF LogInv, BufferInv, At
    <3>2. Frame("result", Batch(st)).kind = "result" /\ Frame("result", Batch(st)).ids = Batch(st)
      BY DEF Frame
    <3>3. \A g : Len(Append(<<>>, g)) = 1 /\ Append(<<>>, g)[1] = g
      OBVIOUS
    <3>4. ~torn' => loop'.pending = Append(<<>>, Frame("result", Batch(st)))
      BY <2>1, <2>2, <3>1
    <3> QED BY <3>2, <3>3, <3>4
  <2>4. ~torn' => Closing'
    BY <1>2, <1>3, <2>1, <2>3 DEF Closing
  <2>5. StartingInv'
    BY <2>2 DEF StartingInv, At
  <2>6. ~torn' => OpenInv' /\ ClosedInv' /\ BufferInv'
    BY <1>2, <1>3, <2>1, <2>2, <2>4 DEF OpenInv, ClosedInv, BufferInv, At
  <2> QED BY <1>2, <1>3, <2>5, <2>6 DEF LogInv
<1>5. CASE WrapUpEnds
  <2>1. /\ At("wrapup") /\ torn' = torn /\ loop' = [loop EXCEPT !.pc = "run"]
        /\ st' = RunCompleted(st, "succeeded") \/ st' = RunFailed(st)
    BY <1>5 DEF WrapUpEnds, history
  <2>2. loop'.pc = "run" /\ loop'.pending = loop.pending
    BY <1>1, <2>1 DEF Loops
  <2>3. st'.phase \in {"complete", "error"}
    BY <1>1, <2>1 DEF RunCompleted, RunFailed, AgentStates
  <2>4. ~torn => Closing'
    BY <1>2, <2>1, <2>2 DEF LogInv, BufferInv, Closing
  <2>5. StartingInv'
    BY <2>2 DEF StartingInv, At
  <2>6. ~torn => OpenInv' /\ ClosedInv' /\ BufferInv'
    BY <2>2, <2>3, <2>4 DEF OpenInv, ClosedInv, BufferInv, Reopens, Terminal, At
  <2> QED BY <1>2, <1>3, <2>1, <2>5, <2>6 DEF LogInv
<1> QED BY <1>4, <1>5

\* The end of a run, and a run that is broken off: the buffer is flushed.
LEMMA FlushKeepsLog ==
  ASSUME InductiveInv, LogInv, Finish \/ CancelWaiting
  PROVE  LogInv'
<1>1. st \in AgentStates /\ loop \in Loops /\ TypeOK
  BY DEF InductiveInv, TypeOK
<1>2. loop'.pc = "idle" /\ loop'.pending = <<>> /\ loop'.resumeFrom = "none" /\ st' = st
  BY RunIsLeft DEF Finish, CancelWaiting
<1>3. (torn => torn') /\ StartingInv'
  <2>1. torn => torn'
    <3>1. Finish => torn' = torn
      BY DEF Finish, history
    <3>2. CancelWaiting => (torn => torn')
      BY DEF CancelWaiting
    <3> QED BY <3>1, <3>2
  <2>2. StartingInv'
    BY <1>2 DEF StartingInv, At
  <2> QED BY <2>1, <2>2
<1>4. CASE torn'
  BY <1>3, <1>4 DEF LogInv
<1>5. CASE ~torn' /\ st.phase \in {"tooluse", "awaitingconfirmation"}
  <2>1. log' = History /\ ~At("wrapup")
    BY <1>5 DEF Finish, CancelWaiting, Terminal
  <2>2. loop.pending = <<>> /\ OpenInv /\ PairedSoFar(log)
    BY <1>3, <1>5, <2>1 DEF LogInv, BufferInv
  <2>3. log' = log
    BY <1>1, <2>1, <2>2, LogTypes DEF History
  <2>4. OpenRound' = OpenRound
    BY <2>3 DEF OpenRound
  <2>5. OpenInv' /\ ClosedInv' /\ BufferInv'
    BY <1>2, <1>5, <2>2, <2>3, <2>4, EmptyBuffer DEF OpenInv, ClosedInv, BufferInv, Reopens, At
  <2> QED BY <1>3, <1>5, <2>2, <2>3, <2>5 DEF LogInv
<1>6. CASE ~torn' /\ st.phase \notin {"tooluse", "awaitingconfirmation"}
  <2>1. ~torn /\ st.phase # "hydrate"
    BY <1>3, <1>6 DEF Finish, CancelWaiting, Handling, Terminal, At, InductiveInv, PositionInv
  <2>2. OpenRound => loop.pending # <<>>
    BY <1>6, <2>1 DEF LogInv, ClosedInv, Closing
  <2>3. ~OpenRound => OnlyUser(loop.pending)
    BY <1>6, <2>1 DEF LogInv, BufferInv, Closing
  <2>4. History \in Seq(Frames) /\ PairedSoFar(History) /\ ~EndsInUse(History)
    BY <2>1, <2>2, <2>3, HistoryIsPaired
  <2>5. \/ log' = History
        \/ log' = Append(History, Frame("answer", {}))
    BY DEF Finish, CancelWaiting
  <2>6. Frame("answer", {}) \in Frames /\ Frame("answer", {}).kind = "answer"
    BY <1>1, FrameType DEF Frame
  <2>7. PairedSoFar(log') /\ log' \in Seq(Frames) /\ ~EndsInUse(log')
    BY <2>4, <2>5, <2>6, AppendFrame
  <2> QED BY <1>2, <1>3, <1>6, <2>1, <2>7, LogIsClosed, EmptyBuffer
<1> QED BY <1>4, <1>5, <1>6

\* A stop breaks off a prompt, or waits to be looked at.
LEMMA StopKeepsLog ==
  ASSUME InductiveInv, LogInv, Stop
  PROVE  LogInv'
<1>1. CASE At("prompt")
  <2>1. st.phase = "awaitingconfirmation" /\ ~At("wrapup") /\ log' = History /\ torn' = torn
    BY <1>1 DEF Stop, InductiveInv, PositionInv, At, history
  <2>2. loop'.pc = "idle" /\ loop'.pending = <<>> /\ loop'.resumeFrom = "none" /\ st' = st
    BY <1>1, RunIsLeft DEF Stop
  <2>3. ~torn => loop.pending = <<>> /\ OpenInv /\ PairedSoFar(log)
    BY <2>1 DEF LogInv, BufferInv
  <2>4. ~torn => log' = log
    BY <2>1, <2>3, LogTypes DEF History, InductiveInv
  <2>5. StartingInv'
    BY <2>2 DEF StartingInv, At
  <2>6. ~torn => OpenRound' = OpenRound
    BY <2>4 DEF OpenRound
  <2>7. ~torn => OpenInv' /\ ClosedInv' /\ BufferInv'
    BY <2>1, <2>2, <2>3, <2>4, <2>6, EmptyBuffer
    DEF OpenInv, ClosedInv, BufferInv, Reopens, At
  <2> QED BY <2>1, <2>3, <2>4, <2>5, <2>7 DEF LogInv
<1>2. CASE ~At("prompt")
  <2>1. UNCHANGED <<st, log, loop, torn>>
    BY <1>2 DEF Stop, history
  <2> QED BY <2>1, LogKept
<1> QED BY <1>1, <1>2

\* A crash loses the buffer and the loop; the snapshot says what is open.
LEMMA CrashKeepsLog ==
  ASSUME InductiveInv, LogInv, Crash
  PROVE  LogInv'
<1>1. /\ st' = st /\ log' = log /\ torn' = (torn \/ (OpenRound /\ Terminal(st)))
      /\ loop'.pc = "idle" /\ loop'.pending = <<>> /\ loop'.resumeFrom = "none"
      /\ OpenRound' = OpenRound
  BY DEF Crash, FreshLoop, OpenRound
<1>2. StartingInv'
  BY <1>1 DEF StartingInv, At
<1>3. ~torn' => OpenInv' /\ ClosedInv' /\ BufferInv' /\ PairedSoFar(log')
  BY <1>1, EmptyBuffer DEF LogInv, OpenInv, ClosedInv, BufferInv, Reopens, At
<1> QED BY <1>2, <1>3 DEF LogInv

\* A start or a resume.
LEMMA StartKeepsLog ==
  ASSUME InductiveInv, LogInv, AbandonPrevious \/ StartRun \/ Resume
  PROVE  LogInv'
<1>1. st \in AgentStates /\ loop \in Loops /\ TypeOK
  BY DEF InductiveInv, TypeOK
<1>2. /\ log' = log /\ (torn => torn') /\ loop'.pending = <<>> /\ OpenRound' = OpenRound
      /\ AbandonPrevious => loop'.pc = "starting" /\ loop'.resumeFrom = "none"
      /\ StartRun => loop'.pc = "run" /\ loop'.resumeFrom = "none"
      /\ Resume => loop'.pc = "run" /\ loop'.resumeFrom = st.phase
  <2>1. CASE AbandonPrevious
    BY <2>1 DEF AbandonPrevious, StartRun, Resume, FreshLoop, OpenRound, At
  <2>2. CASE StartRun
    BY <2>2 DEF AbandonPrevious, StartRun, Resume, FreshLoop, OpenRound, history, IsResumable, At
  <2>3. CASE Resume
    BY <2>3 DEF AbandonPrevious, StartRun, Resume, FreshLoop, OpenRound, history, IsResumable, At
  <2> QED BY <2>1, <2>2, <2>3
<1>3. /\ AbandonPrevious => st'.phase = "complete"
      /\ StartRun => st'.phase = "hydrate"
  <2>1. AbandonPrevious => st'.phase = "complete"
    BY <1>1 DEF AbandonPrevious, Abandoned, RunCompleted, AgentStates
  <2>2. StartRun => st'.phase = "hydrate"
    BY DEF StartRun, NewAgentState
  <2> QED BY <2>1, <2>2
<1>4. StartingInv'
  BY <1>2, <1>3 DEF StartingInv, Terminal, At
<1>5. CASE torn'
  BY <1>5, <1>4 DEF LogInv
<1>6. CASE ~torn' /\ (AbandonPrevious \/ StartRun)
  <2>1. ~OpenRound /\ PairedSoFar(log)
    <3>1. CASE AbandonPrevious
      BY <1>2, <1>6, <3>1 DEF AbandonPrevious, LogInv, ClosedInv, At
    <3>2. CASE StartRun
      BY <1>2, <1>6, <3>2 DEF StartRun, LogInv, ClosedInv, StartingInv, Terminal, IsResumable, At
    <3> QED BY <1>6, <3>1, <3>2
  <2>2. log' \in Seq(Frames) /\ ~EndsInUse(log')
    BY <1>1, <1>2, <2>1, LogTypes
  <2>3. /\ st'.phase \in {"complete", "hydrate"} /\ loop'.resumeFrom = "none"
        /\ loop'.pc \in {"starting", "run"}
    BY <1>2, <1>6, <1>3
  <2> QED BY <1>2, <1>4, <2>1, <2>2, <2>3, LogIsClosed, EmptyBuffer
<1>7. CASE ~torn' /\ Resume
  <2>1. /\ At("idle") /\ st' = ResumeRequested(st) /\ torn' = torn
        /\ loop'.pc = "run" /\ loop'.resumeFrom = st.phase
    BY <1>7 DEF Resume, FreshLoop, history
  <2>2. st'.phase = "hydrate" /\ Batch(st') = Batch(st)
    BY <1>1, <2>1 DEF ResumeRequested, AgentStates, Batch
  <2>3. OpenInv /\ ClosedInv /\ PairedSoFar(log)
    BY <1>7, <2>1 DEF LogInv
  <2>4. OpenInv' /\ ClosedInv' /\ BufferInv'
    BY <1>2, <2>1, <2>2, <2>3, EmptyBuffer DEF OpenInv, ClosedInv, BufferInv, Reopens, At
  <2> QED BY <1>2, <1>4, <2>3, <2>4 DEF LogInv
<1> QED BY <1>5, <1>6, <1>7

\* What the provider reads is paired unless one of the five events has happened.
LEMMA LogInvImplies == InductiveInv /\ LogInv => PairedUnlessTorn
<1> SUFFICES ASSUME InductiveInv, LogInv, ModelReads, ~torn PROVE Paired(History)
  BY DEF PairedUnlessTorn
<1>1. st.phase = "thinking" \/ At("wrapup")
  BY DEF ModelReads, InductiveInv, PositionInv
<1>2. /\ ~OpenRound => OnlyUser(loop.pending)
      /\ OpenRound => loop.pending # <<>>
  BY <1>1 DEF LogInv, ClosedInv, BufferInv, Closing, Terminal, At
<1> QED BY <1>2, HistoryIsPaired, PairedEnds

\* In every run the messages the provider reads are paired unless torn is marked.
THEOREM HistoryStaysPaired == Spec => []PairedUnlessTorn
<1>1. Init => LogInv
  <2> SUFFICES ASSUME Init PROVE LogInv
    OBVIOUS
  <2>1. st.phase = "complete" /\ log = <<>> /\ loop.pc = "idle" /\ loop.pending = <<>>
    BY DEF Init, Abandoned, RunCompleted, NewAgentState, FreshLoop
  <2>2. PairedSoFar(<<>>) /\ ~OpenRound
    BY <2>1 DEF PairedSoFar, OpenRound
  <2> QED BY <2>1, <2>2, EmptyBuffer
      DEF LogInv, StartingInv, OpenInv, ClosedInv, BufferInv, Reopens, Terminal, At
<1>2. InductiveInv /\ LogInv /\ [Next]_vars => LogInv'
  <2> SUFFICES ASSUME InductiveInv, LogInv, [Next]_vars PROVE LogInv'
    OBVIOUS
  <2>1. CASE UNCHANGED vars
    BY <2>1, LogKept DEF vars
  <2>2. CASE Engine
    BY <2>2, HydrateKeepsLog, ThinkingKeepsLog, ModelCallsKeepsLog, RoundKeepsLog,
       ToolStepKeepsLog, ResultsKeepLog, WrapUpKeepsLog, FlushKeepsLog
    DEF Engine
  <2>3. CASE Outside
    <3>1. Quiescent => UNCHANGED vars
      BY DEF Quiescent
    <3> QED BY <2>1, <2>3, <3>1, StartKeepsLog, StopKeepsLog, FlushKeepsLog, RoundKeepsLog,
               CrashKeepsLog
        DEF Outside
  <2> QED BY <2>1, <2>2, <2>3 DEF Next
<1> QED BY <1>1, <1>2, Inductive, LogInvImplies, PTL DEF Spec

----------------------------------------------------------------------------
(* Consent *)

\* Which calls a finished pass, or the end of an abort, leaves behind.
LEMMA PassClosed ==
  ASSUME InductiveInv, PassDone
  PROVE  \A c \in Calls : c \in Scheduled => Closed(c)
BY DEF InductiveInv, PassDone, ScheduleInv, At, Open, Closed

\* Calls that are to be asked about are open; those that wait have no coroutine.
LEMMA AskedAreOpen ==
  ASSUME InductiveInv
  PROVE  /\ loop.ask \subseteq Calls
         /\ At("tools") => \A c \in loop.ask : Open(c)
         /\ At("classify") => \A c \in loop.ask : ~Closed(c)
<1>1. loop.ask \subseteq Calls
  BY LoopType DEF InductiveInv, TypeOK
<1> QED BY <1>1 DEF InductiveInv, ScheduleInv, RoundInv

\* The calls a prompt names.
LEMMA PromptedWait ==
  ASSUME InductiveInv, At("prompt")
  PROVE  /\ st.phase = "awaitingconfirmation" /\ ~loop.isResume /\ Scheduled = {}
         /\ st.confirmation.ids = {c \in Calls : Waiting(c)}
         /\ \A c \in st.confirmation.ids :
               ~Closed(c) /\ ~Alive(c) /\ c \in handed
<1>1. /\ st.phase = "awaitingconfirmation" /\ ~loop.isResume /\ Scheduled = {}
      /\ st.confirmation.ids = {c \in Calls : Waiting(c)}
  BY DEF InductiveInv, PositionInv, PromptInv, ScheduleInv, Scheduled, At
<1>2. \A c \in Calls : Waiting(c) => ~Closed(c) /\ c \in handed
  BY DEF InductiveInv, HandedInv, Waiting, Closed
<1>3. \A c \in Calls : Waiting(c) => ~Alive(c)
  BY <1>1, <1>2 DEF InductiveInv, OrphanInv, Aborting, At
<1> QED BY <1>1, <1>2, <1>3

\* An approval is held only where the loop is about to use it.
LEMMA NotApproved ==
  ASSUME ApprovalInv, ~Handling("tooluse") \/ loop.isResume
  PROVE  loop.approved = {}
BY DEF ApprovalInv

\* Steps that leave the calls alone, outside passes and aborts.
LEMMA ApprovalKept ==
  ASSUME InductiveInv, ApprovalInv,
         UNCHANGED unspent, st'.status = st.status,
         loop'.approved = {}, loop'.skip \subseteq loop.skip, ~At("tools"), ~Aborting
  PROVE  ApprovalInv'
BY DEF ApprovalInv, Closed

LEMMA GroupKept ==
  ASSUME InductiveInv, GroupInv, UNCHANGED <<unspent, handed>>,
         \/ st'.phase \notin {"awaitingconfirmation", "hydrate"}
         \/ /\ st'.confirmation = st.confirmation
            /\ \/ st'.phase = st.phase /\ loop'.resumeFrom = loop.resumeFrom
               \/ Reopens(st'.phase) /\ st'.phase # "hydrate"
               \/ st'.phase = "hydrate" /\ loop'.resumeFrom = st.phase
               \/ st'.phase = "hydrate" /\ loop'.resumeFrom = "none"
  PROVE  GroupInv'
BY DEF GroupInv, Reopens

\* A prompt is about the calls of one category.
LEMMA GroupStays ==
  ASSUME InductiveInv, GroupInv, [Next]_vars
  PROVE  GroupInv'
<1>1. st \in AgentStates /\ loop \in Loops
  BY DEF InductiveInv, TypeOK
<1> USE DEF Handling, At, history, process
<1>2. CASE AbandonPrevious \/ StartRun \/ Resume
  <2>1. UNCHANGED <<unspent, handed>>
    BY <1>2 DEF AbandonPrevious, StartRun, Resume
  <2>2. CASE AbandonPrevious
    BY <1>1, <2>1, <2>2, GroupKept DEF AbandonPrevious, Abandoned, RunCompleted, AgentStates
  <2>3. CASE StartRun
    BY <2>1, <2>3 DEF GroupInv, StartRun, NewAgentState, FreshLoop, Reopens
  <2>4. CASE Resume
    BY <1>1, <2>1, <2>4, GroupKept DEF Resume, ResumeRequested, FreshLoop, AgentStates
  <2> QED BY <1>2, <2>2, <2>3, <2>4
<1>3. CASE Hydrate
  <2>1. PICK b \in BOOLEAN :
          /\ st' = HydrationFinished(st, b, ResumeTarget)
          /\ UNCHANGED <<unspent, handed>> /\ st.phase = "hydrate"
    BY <1>3 DEF Hydrate
  <2>2. /\ st'.confirmation = st.confirmation
        /\ st'.phase = "awaitingconfirmation" => Reopens(st'.phase)
        /\ st'.phase # "hydrate"
    BY <1>1, <2>1 DEF HydrationFinished, ResumeTarget, ResumablePhases, AgentStates, Reopens,
       InductiveInv, ReopenInv
  <2> QED BY <2>1, <2>2, GroupKept
<1>4. CASE \/ Compact \/ ThinkExhausted \/ ThinkStopped \/ StreamStopped \/ StreamFails
           \/ ModelAnswers \/ EndBatch \/ FailAfterLoop \/ WrapUpEnds \/ CancelledRoundCloses
  <2>1. UNCHANGED <<unspent, handed>>
    BY <1>4 DEF Compact, ThinkExhausted, ThinkStopped, StreamStopped, StreamFails, ModelAnswers,
       EndBatch, FailAfterLoop, WrapUpEnds, CancelledRoundCloses
  <2>2. CASE Compact
    <3>1. st'.phase = "thinking"
      BY <1>1, <2>2 DEF Compact, CompactionFinished, AgentStates, InductiveInv, ReopenInv
    <3> QED BY <2>1, <3>1, GroupKept
  <2>3. CASE ~Compact
    <3>1. \/ st' = RunFailed(st) \/ st' = StopRequested(st) \/ st' = ModelFinishedAnswer(st)
          \/ st' = ToolBatchFinished(st) \/ st' = RunCompleted(st, "succeeded")
      BY <1>4, <2>3 DEF ThinkExhausted, ThinkStopped, StreamStopped, StreamFails,
         ModelAnswers, EndBatch, FailAfterLoop, WrapUpEnds, CancelledRoundCloses
    <3>2. st'.phase \in {"complete", "error", "thinking"}
      BY <1>1, <3>1 DEF RunFailed, StopRequested, ModelFinishedAnswer, ToolBatchFinished,
         RunCompleted, AgentStates
    <3> QED BY <2>1, <3>2, GroupKept
  <2> QED BY <2>2, <2>3
<1>5. ASSUME NEW ids \in SUBSET Calls, ModelCalls(ids) PROVE GroupInv'
  <2>1. st'.phase = "tooluse"
    BY <1>1, <1>5 DEF ModelCalls, ModelFinishedTools, AgentStates
  <2> QED BY <1>5, <2>1 DEF ModelCalls, GroupInv, Reopens
<1>6. CASE AskRetry
  <2>1. st'.confirmation.kind = "retry" /\ UNCHANGED <<unspent, handed>>
    BY <1>1, <1>6 DEF AskRetry, ConfirmationRequested, AgentStates
  <2> QED BY <2>1 DEF GroupInv
<1>7. ASSUME NEW kind \in AskedGates, AskUser(kind) PROVE GroupInv'
  <2>1. /\ st'.confirmation = [ids |-> {c \in loop.ask : Gate[c] = kind}, kind |-> kind]
        /\ UNCHANGED <<unspent, handed>>
    BY <1>1, <1>7 DEF AskUser, ConfirmationRequested, AgentStates
  <2> QED BY <2>1 DEF GroupInv
<1>8. ASSUME NEW answer \in {"yes", "always", "no", "none"}, Answer(answer) PROVE GroupInv'
  <2>1. st'.phase = "tooluse" /\ unspent' \subseteq unspent \cup st.confirmation.ids
    BY <1>1, <1>8 DEF Answer, ConfirmationResolved, AgentStates
  <2>2. st.confirmation.ids \subseteq handed /\ handed' = handed
    BY <1>8, PromptedWait DEF Answer
  <2> QED BY <2>1, <2>2 DEF GroupInv, Reopens
<1>9. CASE ToolStep
  <2> PICK c \in Calls : \/ MarkUncertain(c) \/ StartCall(c) \/ GuardReplies(c)
                         \/ GuardEscalates(c) \/ RefuseCall(c) \/ RunTool(c)
                         \/ FinishTool(c) \/ OrphanEnds(c) \/ AbortCall(c)
    BY <1>9 DEF ToolStep
  <2>1. /\ unspent' \subseteq unspent /\ handed' = handed
        /\ loop'.resumeFrom = loop.resumeFrom
    BY <1>1 DEF MarkUncertain, StartCall, GuardReplies, GuardEscalates, RefuseCall, RunTool,
       FinishTool, OrphanEnds, AbortCall, CloseCall, Loops
  <2>2. \/ st' = st
        \/ st' = ToolCallStarted(st, c)
        \/ \E status, result : st' = ToolCallFinished(st, c, status, result)
    BY DEF MarkUncertain, StartCall, GuardReplies, GuardEscalates, RefuseCall, RunTool, FinishTool,
       OrphanEnds, AbortCall, CloseCall
  <2>3. st'.phase = st.phase /\ st'.confirmation = st.confirmation
    BY <1>1, <2>2 DEF ToolCallStarted, ToolCallFinished, AgentStates
  <2> QED BY <2>1, <2>3 DEF GroupInv, Reopens
<1>10. CASE ClassifyAfterResume \/ PartitionCalls \/ LoopAborted \/ CancelTools \/ Prompt
           \/ CallModel \/ WrapUp
  <2>1. UNCHANGED <<st, unspent, handed>> /\ loop'.resumeFrom = loop.resumeFrom
    BY <1>1, <1>10 DEF ClassifyAfterResume, PartitionCalls, LoopAborted, CancelTools, Prompt,
       CallModel, WrapUp, Loops
  <2> QED BY <2>1, GroupKept
<1>11. CASE Finish \/ CancelWaiting \/ Stop \/ Crash
  <2>1. UNCHANGED <<st, unspent, handed>>
    BY <1>11 DEF Finish, CancelWaiting, Stop, Crash
  <2>2. loop'.resumeFrom = loop.resumeFrom \/ loop'.resumeFrom = "none"
    <3>1. Finish \/ CancelWaiting => loop'.resumeFrom = "none"
      BY RunIsLeft DEF Finish, CancelWaiting
    <3>2. Stop => loop' = LeaveRun \/ loop' = loop
      BY DEF Stop
    <3>3. Crash => loop'.resumeFrom = "none"
      BY DEF Crash, FreshLoop
    <3> QED BY <1>11, <3>1, <3>2, <3>3, RunIsLeft
  <2> QED BY <2>1, <2>2 DEF GroupInv, Reopens
<1>12. CASE UNCHANGED vars \/ Quiescent
  BY <1>12 DEF vars, Quiescent, GroupInv, Reopens
<1> QED BY <1>2, <1>3, <1>4, <1>5, <1>6, <1>7, <1>8, <1>9, <1>10, <1>11, <1>12
    DEF Next, Engine, Outside

\* An approval the loop still means to use has not been used.
LEMMA ApprovalStays ==
  ASSUME InductiveInv, GroupInv, ApprovalInv, [Next]_vars
  PROVE  ApprovalInv'
<1>1. st \in AgentStates /\ loop \in Loops /\ unspent \subseteq handed
  BY DEF InductiveInv, TypeOK, GroupInv
<1> USE DEF Handling, At, history, process, Aborting
<1>2. CASE \/ AbandonPrevious \/ StartRun \/ Resume \/ Crash
  <2>1. loop'.approved = {} /\ loop'.skip = {}
    BY <1>2 DEF AbandonPrevious, StartRun, Resume, Crash, FreshLoop
  <2> QED BY <2>1 DEF ApprovalInv
<1>3. CASE \/ Hydrate \/ Compact \/ ThinkExhausted \/ ThinkStopped \/ CallModel \/ StreamStopped
           \/ StreamFails \/ ModelAnswers \/ FailAfterLoop \/ WrapUp \/ WrapUpEnds
  <2>1. ~Handling("tooluse") /\ ~At("tools") /\ ~Aborting
    BY <1>3 DEF Hydrate, Compact, ThinkExhausted, ThinkStopped, CallModel, StreamStopped,
       StreamFails, ModelAnswers, FailAfterLoop, WrapUp, WrapUpEnds
  <2>2. /\ UNCHANGED unspent /\ loop'.approved = loop.approved /\ loop'.skip = loop.skip
    BY <1>1, <1>3 DEF Hydrate, Compact, ThinkExhausted, ThinkStopped, CallModel, StreamStopped,
       StreamFails, ModelAnswers, FailAfterLoop, WrapUp, WrapUpEnds, Loops
  <2>3. \/ st' = st \/ st' = RunFailed(st) \/ st' = StopRequested(st)
        \/ st' = ModelFinishedAnswer(st) \/ st' = RunCompleted(st, "succeeded")
        \/ st' = CompactionFinished(st)
        \/ \E b \in BOOLEAN : st' = HydrationFinished(st, b, ResumeTarget)
    BY <1>3 DEF Hydrate, Compact, ThinkExhausted, ThinkStopped, CallModel, StreamStopped,
       StreamFails, ModelAnswers, FailAfterLoop, WrapUp, WrapUpEnds
  <2>4. st'.status = st.status
    BY <1>1, <2>3 DEF RunFailed, StopRequested, ModelFinishedAnswer, RunCompleted,
       CompactionFinished, HydrationFinished, AgentStates
  <2> QED BY <2>1, <2>2, <2>4, NotApproved, ApprovalKept
<1>4. ASSUME NEW ids \in SUBSET Calls, ModelCalls(ids) PROVE ApprovalInv'
  <2>1. /\ ~Handling("tooluse") /\ ~At("tools") /\ ~Aborting /\ UNCHANGED unspent
        /\ loop'.approved = loop.approved /\ loop'.skip = loop.skip
        /\ ids \cap handed = {}
        /\ \A c \in Calls : st'.status[c] = IF c \in ids THEN "pending" ELSE "absent"
    BY <1>1, <1>4 DEF ModelCalls, ModelFinishedTools, AgentStates, Loops
  <2>2. loop.skip \subseteq Calls
    BY <1>1 DEF Loops
  <2> QED BY <1>1, <2>1, <2>2, NotApproved DEF ApprovalInv, Closed
<1>5. CASE ClassifyAfterResume \/ Prompt
  <2>1. /\ ~Handling("tooluse") \/ loop.isResume
        /\ ~At("tools") /\ ~Aborting /\ UNCHANGED <<st, unspent>>
        /\ loop'.approved = loop.approved /\ loop'.skip = loop.skip
    BY <1>1, <1>5 DEF ClassifyAfterResume, Prompt, Loops
  <2> QED BY <2>1, NotApproved, ApprovalKept
<1>6. CASE AskRetry \/ \E kind \in AskedGates : AskUser(kind)
  <2>1. PICK ids \in SUBSET loop.ask : \E kind : st' = ConfirmationRequested(st, ids, kind)
    BY <1>6 DEF AskRetry, AskUser
  <2>2. /\ At("classify") \/ PassDone
        /\ loop'.approved = loop.approved /\ loop'.skip = loop.skip
    BY <1>1, <1>6 DEF AskRetry, AskUser, Loops
  <2>3. UNCHANGED unspent
    BY <1>6 DEF AskRetry, AskUser
  <2>4. \A c \in loop.ask : c \in Calls /\ ~Closed(c)
    BY <2>2, AskedAreOpen DEF PassDone, Open, Closed
  <2>5. \A c \in Calls : Closed(c) => Closed(c)'
    BY <1>1, <2>1, <2>4 DEF ConfirmationRequested, MarkCalls, Closed, AgentStates
  <2>6. loop.approved = {} /\ loop.skip \subseteq Calls
    BY <1>1, <2>2, NotApproved DEF PassDone, Loops
  <2>7. \A c \in loop.skip : Closed(c)
    BY <2>2, <2>6, PassClosed DEF ApprovalInv, PassDone
  <2> QED BY <2>2, <2>3, <2>5, <2>6, <2>7 DEF ApprovalInv
<1>7. CASE PartitionCalls
  <2>1. /\ loop'.approved = loop.approved \ (ToRun \cap loop.approved)
        /\ loop'.skip = loop.skip \cup (ToRun \cap loop.approved)
        /\ ToRun \cap loop.approved \subseteq loop'.allow
        /\ loop'.pc = "tools" /\ UNCHANGED <<st, unspent>> /\ ~At("tools") /\ ~Aborting
    BY <1>1, <1>7 DEF PartitionCalls, Loops
  <2>2. loop.approved \subseteq ToRun
    BY <1>1 DEF ApprovalInv, ToRun, Batch, Loops
  <2> QED BY <2>1, <2>2 DEF ApprovalInv, Closed, Scheduled
<1>8. CASE ToolStep
  <2> PICK c \in Calls : \/ MarkUncertain(c) \/ StartCall(c) \/ GuardReplies(c)
                         \/ GuardEscalates(c) \/ RefuseCall(c) \/ RunTool(c)
                         \/ FinishTool(c) \/ OrphanEnds(c) \/ AbortCall(c)
    BY <1>8 DEF ToolStep
  <2>1. loop.approved \subseteq Calls /\ loop.skip \subseteq Calls
    BY <1>1 DEF Loops
  <2>2. CASE MarkUncertain(c)
    <3>1. ~Closed(c) /\ loop.approved = {}
      BY <2>2, AskedAreOpen, NotApproved DEF MarkUncertain
    <3> QED BY <1>1, <2>1, <2>2, <3>1 DEF MarkUncertain, ApprovalInv, Closed, ToolCallFinished, AgentStates
  <2>3. CASE StartCall(c)
    <3>1. ~Closed(c) /\ loop.approved = {}
      BY <2>3, NotApproved DEF StartCall, InductiveInv, ScheduleInv, Open, Closed
    <3>2. /\ At("tools") /\ UNCHANGED <<loop, unspent>>
          /\ \A d \in Calls : d # c => st'.status[d] = st.status[d]
      BY <1>1, <2>3 DEF StartCall, ToolCallStarted, AgentStates
    <3> QED BY <2>1, <3>1, <3>2 DEF ApprovalInv, Closed, Scheduled
  <2>4. CASE GuardReplies(c) \/ RefuseCall(c) \/ FinishTool(c)
    <3>1. PICK status \in {"completed", "failed"} : st' = ToolCallFinished(st, c, status, "value")
      BY <2>4 DEF GuardReplies, RefuseCall, FinishTool, CloseCall
    <3>2. /\ At("tools") /\ loop'.pc = loop.pc /\ loop'.approved = loop.approved
          /\ loop'.skip = loop.skip /\ Scheduled' = Scheduled /\ UNCHANGED unspent
      BY <1>1, <2>4 DEF GuardReplies, RefuseCall, FinishTool, CloseCall, Scheduled, Loops
    <3>3. loop.approved = {}
      BY <3>2, NotApproved
    <3>4. \A d \in Calls : Closed(d) => Closed(d)'
      BY <1>1, <3>1 DEF ToolCallFinished, Closed, AgentStates
    <3> QED BY <2>1, <3>2, <3>3, <3>4 DEF ApprovalInv
  <2>5. CASE GuardEscalates(c)
    BY <1>1, <2>5, NotApproved DEF GuardEscalates, ApprovalInv, Closed, Loops
  <2>6. CASE RunTool(c)
    <3>1. c \notin loop.approved
      BY <2>6 DEF RunTool, ApprovalInv, InductiveInv, OrphanInv, ScheduleInv, Alive, Scheduled, Closed
    <3>2. /\ loop'.pc = loop.pc /\ loop'.approved = loop.approved /\ loop'.skip = loop.skip \ {c}
          /\ loop'.isResume = loop.isResume /\ Scheduled' = Scheduled
          /\ unspent' = unspent \ {c} /\ st' = st
      BY <1>1, <2>6 DEF RunTool, Scheduled, Loops
    <3> QED BY <2>1, <3>1, <3>2 DEF ApprovalInv, Closed
  <2>7. CASE OrphanEnds(c)
    <3>1. Closed(c)
      BY <2>7 DEF OrphanEnds, InductiveInv, OrphanInv, Alive
    <3>2. \/ st' = st
          \/ \E status \in {"completed", "failed"} : st' = ToolCallFinished(st, c, status, "value")
      BY <2>7 DEF OrphanEnds
    <3>3. /\ st'.phase = st.phase
          /\ \A d \in Calls : d # c => st'.status[d] = st.status[d]
          /\ Closed(c)'
      <4>1. CASE st' = st
        BY <3>1, <4>1 DEF Closed
      <4>2. ASSUME NEW status \in {"completed", "failed"},
                   st' = ToolCallFinished(st, c, status, "value")
            PROVE  /\ st'.phase = st.phase /\ st'.status[c] = status
                   /\ \A d \in Calls : d # c => st'.status[d] = st.status[d]
        BY <1>1, <4>2 DEF ToolCallFinished, AgentStates
      <4> QED BY <3>2, <4>1, <4>2 DEF Closed
    <3>4. UNCHANGED <<loop, unspent>>
      BY <2>7 DEF OrphanEnds
    <3> QED BY <2>1, <3>1, <3>3, <3>4 DEF ApprovalInv, Closed, Scheduled
  <2>8. CASE AbortCall(c)
    BY <1>1, <2>1, <2>8, NotApproved DEF AbortCall, ApprovalInv
  <2> QED BY <2>2, <2>3, <2>4, <2>5, <2>6, <2>7, <2>8
<1>9. CASE EndBatch
  <2>1. /\ PassDone /\ UNCHANGED unspent /\ loop'.approved = loop.approved /\ loop'.skip = loop.skip
        /\ st' = StopRequested(st) \/ st' = ToolBatchFinished(st)
    BY <1>1, <1>9 DEF EndBatch, Loops
  <2>2. st'.status = st.status
    BY <1>1, <2>1 DEF StopRequested, ToolBatchFinished, AgentStates
  <2>3. loop.approved = {} /\ loop.skip \subseteq Calls
    BY <1>1, <2>1, NotApproved DEF PassDone, Loops
  <2>4. \A c \in loop.skip : Closed(c)
    BY <2>1, <2>3, PassClosed DEF ApprovalInv, PassDone
  <2> QED BY <2>1, <2>2, <2>3, <2>4 DEF ApprovalInv, Closed
<1>10. CASE LoopAborted \/ CancelledRoundCloses
  <2>1. /\ Aborting /\ Unanswered = {} /\ UNCHANGED unspent
        /\ loop'.approved = loop.approved \/ loop'.approved = {}
        /\ loop'.skip = loop.skip
    BY <1>1, <1>10, RunIsLeft DEF LoopAborted, CancelledRoundCloses, Loops
  <2>2. st' = st \/ st' = ToolBatchFinished(st)
    BY <1>10 DEF LoopAborted, CancelledRoundCloses
  <2>3. st'.status = st.status
    BY <1>1, <2>2 DEF ToolBatchFinished, AgentStates
  <2>4. loop'.approved = {}
    BY <2>1, NotApproved
  <2>5. \A c \in loop.skip : Closed(c)
    <3>1. loop.skip \subseteq Calls
      BY <1>1 DEF Loops
    <3> QED BY <2>1, <3>1, AbortDone
  <2> QED BY <2>1, <2>3, <2>4, <2>5 DEF ApprovalInv, Closed
<1>11. CASE CancelTools
  BY <1>1, <1>11, NotApproved DEF CancelTools, ApprovalInv, Loops
<1>12. ASSUME NEW answer \in {"yes", "always", "no", "none"}, Answer(answer) PROVE ApprovalInv'
  <2> DEFINE ids == st.confirmation.ids
             approved == st.confirmation.kind = "question" \/ answer \in {"yes", "always"}
  <2>1. /\ At("prompt") /\ st' = ConfirmationResolved(st, approved)
        /\ loop' = [loop EXCEPT !.pc = "run",
                                !.approved = IF approved THEN @ \cup ids ELSE @]
        /\ unspent' = IF approved THEN unspent \cup ids ELSE unspent \ ids
    BY <1>12 DEF Answer
  <2>2. /\ loop'.pc = "run" /\ loop'.isResume = loop.isResume /\ loop'.skip = loop.skip
        /\ loop'.approved = IF approved THEN loop.approved \cup ids ELSE loop.approved
    BY <1>1, <2>1 DEF Loops
  <2>3. loop.approved = {} /\ loop.skip \subseteq Calls
    BY <1>1, <2>1, NotApproved DEF Loops
  <2>4. /\ ~loop.isResume
        /\ ids = {c \in Calls : Waiting(c)}
        /\ \A c \in ids : ~Closed(c)
    BY <2>1, PromptedWait
  <2>5. /\ st'.phase = "tooluse"
        /\ \A c \in Calls : st'.status[c] = IF c \in ids /\ st.status[c] # "absent"
                                            THEN (IF approved THEN "pending" ELSE "failed")
                                            ELSE st.status[c]
    BY <1>1, <2>1 DEF ConfirmationResolved, MarkCalls, AgentStates
  <2>6. \A c \in loop.skip : Closed(c) /\ c \notin ids /\ c \in unspent
    BY <2>1, <2>4 DEF ApprovalInv
  <2> HIDE DEF ids, approved
  <2> QED BY <2>1, <2>2, <2>3, <2>4, <2>5, <2>6 DEF ApprovalInv, Closed, Waiting
<1>13. CASE Finish \/ CancelWaiting
  <2>1. /\ ~At("tools") /\ ~Aborting /\ UNCHANGED <<st, unspent>>
        /\ loop'.approved = {} /\ loop'.skip = loop.skip
    BY <1>13, RunIsLeft DEF Finish, CancelWaiting
  <2> QED BY <2>1, ApprovalKept
<1>14. CASE Stop
  <2>1. UNCHANGED <<st, unspent>>
    BY <1>14 DEF Stop
  <2>2. CASE At("prompt")
    BY <1>14, <2>1, <2>2, RunIsLeft, ApprovalKept DEF Stop
  <2>3. CASE ~At("prompt")
    BY <1>14, <2>1, <2>3 DEF Stop, ApprovalInv, Closed, Scheduled
  <2> QED BY <2>2, <2>3
<1>15. CASE UNCHANGED vars \/ Quiescent
  BY <1>15 DEF vars, Quiescent, ApprovalInv, Closed, Scheduled
<1> QED BY <1>2, <1>3, <1>4, <1>5, <1>6, <1>7, <1>8, <1>9, <1>10, <1>11, <1>12, <1>13, <1>14, <1>15
    DEF Next, Engine, Outside

----------------------------------------------------------------------------
(* The ledger of effects *)

\* A coroutine that outlived its pass and has not ended.
Left(c) == c \notin Scheduled /\ task[c] \in {"started", "running"}

\* The one thing a step must not do without an effect: reopen a closed call, or leave a
\* coroutine behind for it.
ClosedStay ==
  \A c \in Calls : c \in handed /\ Closed(c) => Closed(c)' /\ (Left(c)' => Left(c))

LEMMA EntryNow ==
  \A c \in Calls :
    /\ c \notin handed => Entry(c) = "new"
    /\ c \in handed /\ st.status[c] \in {"pending", "awaitingconfirmation"} => Entry(c) = "open"
    /\ c \in handed /\ st.status[c] \in {"running", "uncertain"} => Entry(c) = "inflight"
    /\ c \in handed /\ Closed(c) => Entry(c) = IF Left(c) THEN "abandoned" ELSE "closed"
BY DEF Entry, Batch, Closed, Left

LEMMA EntryNext ==
  \A c \in Calls :
    /\ c \notin handed' => Entry(c)' = "new"
    /\ c \in handed' /\ st'.status[c] \in {"pending", "awaitingconfirmation"} => Entry(c)' = "open"
    /\ c \in handed' /\ st'.status[c] \in {"running", "uncertain"} => Entry(c)' = "inflight"
    /\ c \in handed' /\ Closed(c)' => Entry(c)' = IF Left(c)' THEN "abandoned" ELSE "closed"
BY DEF Entry, Batch, Closed, Left

LEMMA StatusCases ==
  ASSUME TypeOK, NEW c \in Calls
  PROVE  \/ st.status[c] \in {"pending", "awaitingconfirmation"}
         \/ st.status[c] \in {"running", "uncertain"}
         \/ Closed(c)
BY DEF TypeOK, AgentStates, CallStatuses, Closed

\* A step without an effect or an approval is an entry in the ledger.
LEMMA Recorded ==
  ASSUME InductiveInv, InductiveInv', ClosedStay,
         \A c \in Calls : c \in handed => c \in handed',
         \A c \in Calls : c \notin handed /\ c \in handed' => st'.status[c] = "pending",
         unspent' \subseteq unspent, granted' \subseteq granted, UNCHANGED <<execs, blind>>
  PROVE  Ledger!Record
<1>1. TypeOK /\ TypeOK'
  BY DEF InductiveInv
<1>2. ASSUME NEW c \in Calls
      PROVE  Entry(c)' = Entry(c) \/ <<Entry(c), Entry(c)'>> \in Ledger!Moves
  <2>1. CASE c \notin handed
    BY <1>2, <2>1, EntryNow, EntryNext DEF Ledger!Moves
  <2>2. CASE c \in handed /\ Closed(c)
    BY <1>2, <2>2, EntryNow, EntryNext DEF Ledger!Moves, ClosedStay
  <2>3. CASE c \in handed /\ ~Closed(c)
    <3>1. Entry(c) \in {"open", "inflight"}
      BY <1>1, <1>2, <2>3, EntryNow, StatusCases
    <3>2. /\ c \in handed'
          /\ \/ st'.status[c] \in {"pending", "awaitingconfirmation"}
             \/ st'.status[c] \in {"running", "uncertain"}
             \/ Closed(c)'
      BY <1>1, <1>2, <2>3 DEF TypeOK, AgentStates, CallStatuses, Closed
    <3>3. Entry(c)' \in {"open", "inflight", "abandoned", "closed"}
      BY <1>2, <3>2, EntryNext
    <3> QED BY <3>1, <3>3 DEF Ledger!Moves
  <2> QED BY <2>1, <2>2, <2>3
<1>3. \A c \in Calls : Entry(c)' \in Ledger!Entries
  BY DEF Entry, Ledger!Entries
<1> QED BY <1>2, <1>3, Zenon DEF Ledger!Record

\* Steps that keep the marks of all calls, and end passes and coroutines at most.
LEMMA MarksStay ==
  ASSUME InductiveInv, st'.status = st.status,
         \/ /\ \A c \in Calls : task'[c] \in {"started", "running"} => task[c] = task'[c]
            /\ Scheduled' = Scheduled \/ Scheduled = {}
         \/ /\ \A c \in Calls : task'[c] \in {"started", "running"} => c \notin Scheduled /\ task[c] = task'[c]
  PROVE  ClosedStay
BY DEF ClosedStay, Closed, Left

\* A pass that is over, or is cut off, leaves no coroutine of a closed call.
LEMMA PassEnds ==
  ASSUME InductiveInv, NEW c \in Calls, Unscheduled[c] \in {"started", "running"}
  PROVE  c \notin Scheduled /\ task[c] = Unscheduled[c]
BY DEF Unscheduled

\* Starts, ends and the model's turn.
LEMMA QuietRecords ==
  ASSUME InductiveInv,
         \/ AbandonPrevious \/ Resume \/ Hydrate \/ Compact \/ ThinkExhausted \/ ThinkStopped
         \/ CallModel \/ StreamStopped \/ StreamFails \/ ModelAnswers \/ ClassifyAfterResume
         \/ PartitionCalls \/ EndBatch \/ LoopAborted \/ FailAfterLoop \/ WrapUp \/ WrapUpEnds
         \/ CancelledRoundCloses \/ Prompt \/ Finish \/ Stop \/ CancelWaiting \/ CancelTools
         \/ Crash
  PROVE  ClosedStay
<1>1. st \in AgentStates /\ loop \in Loops /\ task \in [Calls -> TaskStates]
  BY DEF InductiveInv, TypeOK
<1> USE DEF history, process, At, Handling
<1>2. st'.status = st.status
  <2>1. \/ st' = st \/ st' = Abandoned(st) \/ st' = ResumeRequested(st)
        \/ (\E b : st' = HydrationFinished(st, b, ResumeTarget))
        \/ st' = CompactionFinished(st) \/ st' = RunFailed(st) \/ st' = StopRequested(st)
        \/ st' = ModelFinishedAnswer(st) \/ st' = ToolBatchFinished(st)
        \/ st' = RunCompleted(st, "succeeded")
    BY DEF AbandonPrevious, Resume, Hydrate, Compact, ThinkExhausted, ThinkStopped,
       CallModel, StreamStopped, StreamFails, ModelAnswers, ClassifyAfterResume, PartitionCalls,
       EndBatch, LoopAborted, FailAfterLoop, WrapUp, WrapUpEnds, CancelledRoundCloses, Prompt,
       Finish, Stop, CancelWaiting, CancelTools, Crash
  <2> QED BY <1>1, <2>1 DEF Abandoned, ResumeRequested, HydrationFinished, CompactionFinished,
          RunFailed, StopRequested, ModelFinishedAnswer, ToolBatchFinished, RunCompleted, AgentStates
<1>3. CASE \/ AbandonPrevious \/ Resume \/ Finish \/ CancelWaiting \/ CancelledRoundCloses
           \/ Hydrate \/ Compact \/ ThinkExhausted \/ ThinkStopped \/ CallModel \/ StreamStopped
           \/ StreamFails \/ ModelAnswers \/ ClassifyAfterResume \/ LoopAborted \/ FailAfterLoop
           \/ WrapUp \/ WrapUpEnds \/ Prompt
  <2>1. ~At("tools")
    BY <1>3 DEF AbandonPrevious, Resume, Finish, CancelWaiting, CancelledRoundCloses, Hydrate,
       Compact, ThinkExhausted, ThinkStopped, CallModel, StreamStopped, StreamFails, ModelAnswers,
       ClassifyAfterResume, LoopAborted, FailAfterLoop, WrapUp, WrapUpEnds, Prompt
  <2>2. Scheduled = {}
    BY <2>1 DEF InductiveInv, ScheduleInv, Scheduled
  <2>3. task' = task
    BY <1>3 DEF AbandonPrevious, Resume, Finish, CancelWaiting, CancelledRoundCloses, Hydrate,
       Compact, ThinkExhausted, ThinkStopped, CallModel, StreamStopped, StreamFails, ModelAnswers,
       ClassifyAfterResume, LoopAborted, FailAfterLoop, WrapUp, WrapUpEnds, Prompt
  <2> QED BY <1>2, <2>2, <2>3, MarksStay
<1>4. CASE PartitionCalls
  <2>1. ~At("tools")
    BY <1>4 DEF PartitionCalls
  <2>2. Scheduled = {}
    BY <2>1 DEF InductiveInv, ScheduleInv, Scheduled
  <2>3. \A c \in Calls : task'[c] \in {"started", "running"} => task[c] = task'[c]
    BY <1>4 DEF PartitionCalls
  <2> QED BY <1>2, <2>2, <2>3, MarksStay
<1>5. CASE EndBatch \/ CancelTools
  <2>1. task' = Unscheduled
    BY <1>5 DEF EndBatch, CancelTools
  <2> QED BY <1>2, <2>1, PassEnds, MarksStay
<1>6. CASE Stop
  <2>1. task' = task
    BY <1>6 DEF Stop
  <2>2. CASE At("prompt")
    BY <1>2, <2>1, <2>2, PromptedWait, MarksStay
  <2>3. CASE ~At("prompt")
    <3>1. Scheduled' = Scheduled
      BY <1>6, <2>3 DEF Stop, Scheduled
    <3> QED BY <1>2, <2>1, <3>1, MarksStay
  <2> QED BY <2>2, <2>3
<1>7. CASE Crash
  <2>1. \A c \in Calls : task'[c] = "idle"
    BY <1>7 DEF Crash, NoTask
  <2> QED BY <1>2, <2>1, MarksStay
<1> QED BY <1>3, <1>4, <1>5, <1>6, <1>7

\* Prompts, denials and the steps of the pass that mark a call.
LEMMA MarkingRecords ==
  ASSUME InductiveInv,
         \/ StartRun \/ AskRetry \/ (\E kind \in AskedGates : AskUser(kind))
         \/ (\E answer \in {"yes", "always", "no", "none"} : Answer(answer))
         \/ (ToolStep /\ ~\E c \in Calls : RunTool(c))
  PROVE  ClosedStay
<1>1. st \in AgentStates /\ loop \in Loops /\ task \in [Calls -> TaskStates]
  BY DEF InductiveInv, TypeOK
<1> USE DEF history, process, At, Handling
<1>2. CASE StartRun
  <2>1. Scheduled = {} /\ task' = task
    BY <1>2 DEF StartRun, InductiveInv, ScheduleInv, Scheduled
  <2>2. \A c \in Calls : st'.status[c] = "absent"
    BY <1>2 DEF StartRun, NewAgentState
  <2> QED BY <2>1, <2>2 DEF ClosedStay, Closed, Left
<1>3. CASE AskRetry \/ \E kind \in AskedGates : AskUser(kind)
  <2>1. PICK ids \in SUBSET loop.ask : \E kind : st' = ConfirmationRequested(st, ids, kind)
    BY <1>3 DEF AskRetry, AskUser
  <2>2. At("classify") \/ At("tools")
    BY <1>3 DEF AskRetry, AskUser, PassDone
  <2>3. \A c \in loop.ask : c \in Calls /\ ~Closed(c)
    BY <2>2, AskedAreOpen DEF Open, Closed
  <2>4. \A c \in Calls : Closed(c) => Closed(c)'
    BY <1>1, <2>1, <2>3 DEF ConfirmationRequested, MarkCalls, Closed, AgentStates
  <2>5. \A c \in Calls : Left(c)' => Left(c)
    <3>1. CASE AskRetry
      <4>1. Scheduled = {} /\ task' = task
        BY <3>1 DEF AskRetry, InductiveInv, ScheduleInv, Scheduled
      <4> QED BY <4>1 DEF Left
    <3>2. CASE \E kk \in AskedGates : AskUser(kk)
      <4>1. task' = Unscheduled
        BY <3>2 DEF AskUser
      <4> QED BY <4>1, PassEnds DEF Left
    <3> QED BY <1>3, <3>1, <3>2
  <2> QED BY <2>4, <2>5 DEF ClosedStay
<1>4. ASSUME NEW answer \in {"yes", "always", "no", "none"}, Answer(answer) PROVE ClosedStay
  <2>1. PICK approved \in BOOLEAN : st' = ConfirmationResolved(st, approved)
    BY <1>4 DEF Answer
  <2>2. Scheduled = {} /\ task' = task /\ \A c \in st.confirmation.ids : ~Closed(c)
    BY <1>4, PromptedWait DEF Answer
  <2>3. \A c \in Calls : Closed(c) => Closed(c)'
    BY <1>1, <2>1, <2>2 DEF ConfirmationResolved, MarkCalls, Closed, AgentStates
  <2> QED BY <2>2, <2>3 DEF ClosedStay, Left
<1>5. CASE ToolStep /\ ~\E c \in Calls : RunTool(c)
  <2> PICK c \in Calls : \/ MarkUncertain(c) \/ StartCall(c) \/ GuardReplies(c)
                         \/ GuardEscalates(c) \/ RefuseCall(c)
                         \/ FinishTool(c) \/ OrphanEnds(c) \/ AbortCall(c)
    BY <1>5 DEF ToolStep
  <2>1. CASE MarkUncertain(c)
    <3>1. ~Closed(c) /\ UNCHANGED <<loop, task>>
      BY <2>1, AskedAreOpen DEF MarkUncertain
    <3>2. \A d \in Calls : d # c => st'.status[d] = st.status[d]
      BY <1>1, <2>1 DEF MarkUncertain, ToolCallFinished, AgentStates
    <3> QED BY <3>1, <3>2 DEF ClosedStay, Closed, Left, Scheduled
  <2>2. CASE StartCall(c)
    <3>1. ~Closed(c) /\ UNCHANGED loop /\ \A d \in Calls : d # c => task'[d] = task[d]
      BY <1>1, <2>2 DEF StartCall, InductiveInv, ScheduleInv, Open, Closed
    <3>2. \A d \in Calls : d # c => st'.status[d] = st.status[d]
      BY <1>1, <2>2 DEF StartCall, ToolCallStarted, AgentStates
    <3> QED BY <3>1, <3>2 DEF ClosedStay, Closed, Left, Scheduled
  <2>3. CASE GuardReplies(c) \/ RefuseCall(c) \/ FinishTool(c)
    <3>1. PICK status \in {"completed", "failed"} : st' = ToolCallFinished(st, c, status, "value")
      BY <2>3 DEF GuardReplies, RefuseCall, FinishTool, CloseCall
    <3>2. /\ Scheduled' = Scheduled
          /\ task' = [task EXCEPT ![c] = "done"]
      BY <1>1, <2>3 DEF GuardReplies, RefuseCall, FinishTool, CloseCall, Scheduled, Loops
    <3>3. \A d \in Calls : Closed(d) => Closed(d)'
      BY <1>1, <3>1 DEF ToolCallFinished, Closed, AgentStates
    <3>4. \A d \in Calls : Left(d)' => Left(d)
      BY <1>1, <3>2 DEF Left
    <3> QED BY <3>3, <3>4 DEF ClosedStay
  <2>4. CASE GuardEscalates(c)
    <3>1. /\ At("tools") /\ st' = st /\ c \in Scheduled /\ task[c] = "started"
          /\ \A d \in Calls : task'[d] \in {"idle", task[d]}
      BY <2>4 DEF GuardEscalates
    <3>2. \A d \in Calls : d \in Scheduled /\ Closed(d) => task[d] \notin {"started", "running"}
      BY <3>1 DEF InductiveInv, ScheduleInv, Open, Closed
    <3> QED BY <3>1, <3>2 DEF ClosedStay, Closed, Left
  <2>5. CASE OrphanEnds(c)
    <3>1. /\ \/ st' = st
             \/ \E status \in {"completed", "failed"} : st' = ToolCallFinished(st, c, status, "value")
          /\ task' = [task EXCEPT ![c] = "idle"] /\ loop' = loop
      BY <2>5 DEF OrphanEnds
    <3>2. \A d \in Calls : Closed(d) => Closed(d)'
      <4>1. CASE st' = st
        BY <4>1 DEF Closed
      <4>2. ASSUME NEW status \in {"completed", "failed"},
                   st' = ToolCallFinished(st, c, status, "value")
            PROVE  \A d \in Calls : Closed(d) => Closed(d)'
        BY <1>1, <4>2 DEF ToolCallFinished, Closed, AgentStates
      <4> QED BY <3>1, <4>1, <4>2
    <3>3. \A d \in Calls : Left(d)' => Left(d)
      BY <1>1, <3>1 DEF Left, Scheduled
    <3> QED BY <3>2, <3>3 DEF ClosedStay
  <2>6. CASE AbortCall(c)
    <3>1. st' = ToolCallFinished(st, c, "failed", "cancelled") /\ UNCHANGED <<loop, task>>
      BY <2>6 DEF AbortCall
    <3>2. \A d \in Calls : Closed(d) => Closed(d)'
      BY <1>1, <3>1 DEF ToolCallFinished, Closed, AgentStates
    <3> QED BY <3>1, <3>2 DEF ClosedStay, Left, Scheduled
  <2> QED BY <2>1, <2>2, <2>3, <2>4, <2>5, <2>6
<1> QED BY <1>2, <1>3, <1>4, <1>5

\* New calls are open.
LEMMA ModelCallsRecord ==
  ASSUME InductiveInv, InductiveInv', NEW ids \in SUBSET Calls, ModelCalls(ids)
  PROVE  Ledger!Record
<1>1. /\ At("stream") /\ UNCHANGED <<task, execs, blind, unspent, granted>>
      /\ handed' = handed \cup ids /\ ids \cap handed = {}
  BY DEF ModelCalls
<1>2. \A c \in Calls : st'.status[c] = IF c \in ids THEN "pending" ELSE "absent"
  BY DEF ModelCalls, ModelFinishedTools, InductiveInv, TypeOK, AgentStates
<1>3. Scheduled = {}
  BY <1>1 DEF InductiveInv, ScheduleInv, Scheduled, At
<1>4. ClosedStay
  BY <1>1, <1>2, <1>3 DEF ClosedStay, Closed, Left
<1> QED BY <1>1, <1>2, <1>4, Recorded

\* The user's word: an approval of what is asked, perhaps for the whole category.
LEMMA AnswerRecords ==
  ASSUME InductiveInv, InductiveInv', GroupInv,
         NEW answer \in {"yes", "always", "no", "none"}, Answer(answer)
  PROVE  Ledger!Next
<1> DEFINE ids == st.confirmation.ids
           approved == st.confirmation.kind = "question" \/ answer \in {"yes", "always"}
<1>1. /\ At("prompt") /\ st' = ConfirmationResolved(st, approved)
      /\ answer = "always" => st.confirmation.kind \in {"write", "egress"}
      /\ granted' = IF answer = "always" THEN granted \cup {st.confirmation.kind} ELSE granted
      /\ unspent' = IF approved THEN unspent \cup ids ELSE unspent \ ids
      /\ UNCHANGED <<task, handed, execs, blind>>
  BY DEF Answer
<1>2. /\ Scheduled = {} /\ ids = {c \in Calls : Waiting(c)}
      /\ st.phase = "awaitingconfirmation"
      /\ \A c \in ids : ~Alive(c) /\ c \in handed
  BY <1>1, PromptedWait
<1>3. Scheduled' = {}
  <2>1. loop'.allow = loop.allow /\ loop'.deny = loop.deny
    BY DEF Answer, InductiveInv, TypeOK, Loops
  <2> QED BY <1>2, <2>1 DEF Scheduled
<1>4. \A c \in Calls : st'.status[c] = IF c \in ids /\ st.status[c] # "absent"
                                       THEN (IF approved THEN "pending" ELSE "failed")
                                       ELSE st.status[c]
  BY <1>1 DEF ConfirmationResolved, MarkCalls, InductiveInv, TypeOK, AgentStates
<1> HIDE DEF ids, approved
<1>5. CASE ~approved
  <2>1. answer # "always"
    BY <1>5 DEF approved
  <2>2. ClosedStay
    BY MarkingRecords
  <2>3. unspent' \subseteq unspent /\ granted' = granted
    BY <1>1, <1>5, <2>1
  <2>4. Ledger!Record
    BY <1>1, <2>2, <2>3, Recorded
  <2> QED BY <2>4 DEF Ledger!Next
<1>6. CASE approved
  <2>1. \A c \in ids : Entry(c) \in {"open", "inflight"} /\ Entry(c)' = "open"
    BY <1>1, <1>2, <1>4, <1>6, EntryNow, EntryNext DEF Waiting
  <2>2. \A c \in Calls \ ids : Entry(c)' = Entry(c)
    BY <1>1, <1>2, <1>3, <1>4 DEF Entry, Batch
  <2>3. ids \in SUBSET Calls
    BY <1>2
  <2>4. [c \in Calls |-> Entry(c)]' =
          [c \in Calls |-> IF c \in ids THEN "open" ELSE [d \in Calls |-> Entry(d)][c]]
    BY <2>1, <2>2, <2>3
  <2>5. \A c \in ids : [d \in Calls |-> Entry(d)][c] \in {"open", "inflight"}
    BY <2>1, <2>3
  <2>6. CASE answer # "always"
    <3>1. Ledger!Approve(ids, {})
      BY <1>1, <1>6, <2>4, <2>5, <2>6 DEF Ledger!Approve
    <3> QED BY <2>3, <3>1 DEF Ledger!Next
  <2>7. CASE answer = "always"
    <3>1. ids # {}
      BY <1>2 DEF InductiveInv, PromptInv, ids
    <3>2. PICK c \in ids : TRUE
      BY <3>1
    <3>3. Gate[c] = st.confirmation.kind
      BY <1>1, <1>2, <2>7, <3>2 DEF GroupInv, ids
    <3>4. Ledger!Approve(ids, {Gate[c]})
      BY <1>1, <1>6, <2>4, <2>5, <2>7, <3>3 DEF Ledger!Approve
    <3> QED BY <2>3, <3>2, <3>4 DEF Ledger!Next
  <2> QED BY <2>6, <2>7
<1> QED BY <1>5, <1>6

\* An effect: approved, or under a standing grant and the first of its kind.
LEMMA RunToolPerforms ==
  ASSUME InductiveInv, ApprovalInv, NEW c \in Calls, RunTool(c)
  PROVE  Ledger!Next
<1>1. /\ task[c] = "started" /\ ~Aborting
      /\ c \in loop.skip \/ Verdict(c) = "allow"
      /\ task' = [task EXCEPT ![c] = "running"] /\ loop' = [loop EXCEPT !.skip = @ \ {c}]
      /\ execs' = [execs EXCEPT ![c] = @ + 1] /\ unspent' = unspent \ {c}
      /\ blind' = IF c \in unspent THEN blind ELSE [blind EXCEPT ![c] = @ + 1]
      /\ UNCHANGED <<st, granted, handed>>
  BY DEF RunTool, At, Aborting
<1>2. \A d \in Calls : d # c => task'[d] = task[d]
  BY <1>1 DEF InductiveInv, TypeOK
<1>3. Scheduled' = Scheduled
  BY <1>1 DEF Scheduled, InductiveInv, TypeOK, Loops
<1>4. c \in handed
  BY <1>1 DEF InductiveInv, HandedInv
<1>5. \A d \in Calls : Entry(d)' = Entry(d)
  <2>1. task'[c] = "running"
    BY <1>1 DEF InductiveInv, TypeOK
  <2> QED BY <1>1, <1>2, <1>3, <2>1 DEF Entry, Batch
<1>6. [d \in Calls |-> Entry(d)]' = [d \in Calls |-> Entry(d)]
  BY <1>5
<1>7. [d \in Calls |-> Entry(d)][c] \in {"inflight", "abandoned"}
  <2>1. CASE c \in Scheduled
    <3>1. st.status[c] = "running"
      BY <1>1, <2>1 DEF InductiveInv, ScheduleInv, Scheduled, At
    <3> QED BY <1>4, <3>1, EntryNow
  <2>2. CASE c \notin Scheduled
    <3>1. Closed(c)
      BY <1>1, <2>2 DEF InductiveInv, OrphanInv, Alive
    <3> QED BY <1>1, <1>4, <2>2, <3>1, EntryNow DEF Left
  <2> QED BY <2>1, <2>2
<1>8. CASE c \in unspent
  <2>1. Ledger!PerformApproved(c)
    BY <1>1, <1>6, <1>7, <1>8 DEF Ledger!PerformApproved
  <2> QED BY <2>1 DEF Ledger!Next
<1>9. CASE c \notin unspent
  <2>1. Gate[c] = "allow" \/ Gate[c] \in granted
    BY <1>1, <1>9 DEF ApprovalInv, Verdict
  <2>2. c \in Reads \/ blind[c] = 0
    BY <1>1, <1>9 DEF InductiveInv, ReplayInv
  <2>3. unspent' = unspent
    BY <1>1, <1>9
  <2>4. Ledger!PerformBlind(c)
    BY <1>1, <1>6, <1>7, <1>9, <2>1, <2>2, <2>3 DEF Ledger!PerformBlind
  <2> QED BY <2>4 DEF Ledger!Next
<1> QED BY <1>8, <1>9

LEMMA LedgerStep ==
  ASSUME InductiveInv, InductiveInv', ConsentInv, [Next]_vars
  PROVE  [Ledger!Next]_<<[c \in Calls |-> Entry(c)], execs, blind, unspent, granted>>
<1> USE DEF history, process
<1>1. CASE UNCHANGED vars \/ Quiescent
  <2>1. UNCHANGED <<st, loop, task, handed, execs, blind, unspent, granted>>
    BY <1>1 DEF vars, Quiescent
  <2>2. [c \in Calls |-> Entry(c)]' = [c \in Calls |-> Entry(c)]
    BY <2>1 DEF Entry, Batch, Scheduled
  <2> QED BY <2>1, <2>2
<1>2. ASSUME NEW c \in Calls, RunTool(c) PROVE Ledger!Next
  BY <1>2, RunToolPerforms DEF ConsentInv
<1>3. ASSUME NEW answer \in {"yes", "always", "no", "none"}, Answer(answer) PROVE Ledger!Next
  BY <1>3, AnswerRecords DEF ConsentInv
<1>4. ASSUME NEW ids \in SUBSET Calls, ModelCalls(ids) PROVE Ledger!Next
  <2>1. Ledger!Record
    BY <1>4, ModelCallsRecord
  <2> QED BY <2>1 DEF Ledger!Next
<1>5. ASSUME ClosedStay, handed' = handed, unspent' = unspent, granted' \subseteq granted,
             UNCHANGED <<execs, blind>>
      PROVE  Ledger!Next
  <2>1. Ledger!Record
    BY <1>5, Recorded
  <2> QED BY <2>1 DEF Ledger!Next
<1>6. CASE \/ AbandonPrevious \/ Resume \/ Hydrate \/ Compact \/ ThinkExhausted \/ ThinkStopped
           \/ CallModel \/ StreamStopped \/ StreamFails \/ ModelAnswers \/ ClassifyAfterResume
           \/ PartitionCalls \/ EndBatch \/ LoopAborted \/ FailAfterLoop \/ WrapUp \/ WrapUpEnds
           \/ CancelledRoundCloses \/ Prompt \/ Finish \/ Stop \/ CancelWaiting \/ CancelTools
           \/ Crash
  <2>1. UNCHANGED <<handed, unspent, execs, blind>> /\ granted' \subseteq granted
    BY <1>6 DEF AbandonPrevious, Resume, Hydrate, Compact, ThinkExhausted, ThinkStopped,
       CallModel, StreamStopped, StreamFails, ModelAnswers, ClassifyAfterResume, PartitionCalls,
       EndBatch, LoopAborted, FailAfterLoop, WrapUp, WrapUpEnds, CancelledRoundCloses, Prompt,
       Finish, Stop, CancelWaiting, CancelTools, Crash
  <2> QED BY <1>5, <1>6, <2>1, QuietRecords
<1>7. CASE \/ StartRun \/ AskRetry \/ (\E kind \in AskedGates : AskUser(kind))
           \/ (ToolStep /\ ~\E c \in Calls : RunTool(c))
  <2>1. UNCHANGED <<handed, unspent, execs, blind, granted>>
    BY <1>7 DEF StartRun, AskRetry, AskUser, ToolStep, MarkUncertain, StartCall, GuardReplies,
       GuardEscalates, RefuseCall, FinishTool, OrphanEnds, AbortCall
  <2> QED BY <1>5, <1>7, <2>1, MarkingRecords
<1> QED BY <1>1, <1>2, <1>3, <1>4, <1>6, <1>7 DEF Next, Engine, Outside

\* The run implements the ledger: whatever crashes, stops, cancellations and resumes happen,
\* a call has an effect only while it is on record as in flight or abandoned, each effect
\* uses an approval or is the first that a standing grant lets through, and a closed call
\* never has one again.
THEOREM RunImplementsLedger == Spec => LedgerSpec
<1>1. Init => Ledger!Init /\ ConsentInv
  <2> SUFFICES ASSUME Init PROVE Ledger!Init /\ ConsentInv
    OBVIOUS
  <2>1. st.phase = "complete" /\ loop.approved = {} /\ loop.skip = {}
    BY DEF Init, Abandoned, RunCompleted, NewAgentState, FreshLoop
  <2>2. ConsentInv
    BY <2>1 DEF Init, ConsentInv, GroupInv, ApprovalInv, Reopens
  <2>3. \A c \in Calls : Entry(c) = "new"
    BY EntryNow DEF Init
  <2>4. Ledger!Init
    BY <2>3 DEF Init, Ledger!Init
  <2> QED BY <2>2, <2>4
<1>2. InductiveInv /\ ConsentInv /\ [Next]_vars => ConsentInv'
  BY GroupStays, ApprovalStays DEF ConsentInv
<1>3. InductiveInv /\ InductiveInv' /\ ConsentInv /\ [Next]_vars =>
        [Ledger!Next]_<<[c \in Calls |-> Entry(c)], execs, blind, unspent, granted>>
  BY LedgerStep
<1> QED BY <1>1, <1>2, <1>3, Inductive, PTL DEF Spec, LedgerSpec, Ledger!Spec, Ledger!ledger

=============================================================================
