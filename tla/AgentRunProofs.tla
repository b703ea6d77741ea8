--------------------------- MODULE AgentRunProofs ---------------------------
(***************************************************************************)
(* What holds of AgentRun for every set of calls, every gate and every     *)
(* value of the bounds: its types, what a terminal snapshot is followed by, *)
(* and InductiveInv, which implies BatchResolvable, PromptCoversWaiting    *)
(* and NoBlindReplay of every run of the loop.                             *)
(***************************************************************************)
EXTENDS AgentRunInv, TLAPS

----------------------------------------------------------------------------
\* The reducer maps snapshots to snapshots.

LEMMA MarkCallsType ==
  ASSUME NEW status \in [Calls -> CallStatuses], NEW ids, NEW new \in CallStatuses
  PROVE  MarkCalls(status, ids, new) \in [Calls -> CallStatuses]
BY DEF MarkCalls

LEMMA NewAgentStateType ==
  ASSUME NEW run \in Nat
  PROVE  NewAgentState(run) \in AgentStates
BY DEF NewAgentState, AgentStates, Phases, CallStatuses, Results, Outcomes,
       Confirmations, NoConfirmation

LEMMA ReducerType ==
  ASSUME NEW s \in AgentStates
  PROVE  /\ ResumeRequested(s) \in AgentStates
         /\ \A b \in BOOLEAN, p \in ResumablePhases \cup {"none"} :
              HydrationFinished(s, b, p) \in AgentStates
         /\ CompactionFinished(s) \in AgentStates
         /\ \A ids \in SUBSET Calls : ModelFinishedTools(s, ids) \in AgentStates
         /\ ModelFinishedAnswer(s) \in AgentStates
         /\ \A c \in Calls : ToolCallStarted(s, c) \in AgentStates
         /\ \A c \in Calls, status \in CallStatuses, result \in Results :
              ToolCallFinished(s, c, status, result) \in AgentStates
         /\ ToolBatchFinished(s) \in AgentStates
         /\ \A ids \in SUBSET Calls, kind \in ConfirmationKinds :
              ConfirmationRequested(s, ids, kind) \in AgentStates
         /\ \A approved \in BOOLEAN : ConfirmationResolved(s, approved) \in AgentStates
         /\ StopRequested(s) \in AgentStates
         /\ \A kind \in Outcomes : RunCompleted(s, kind) \in AgentStates
         /\ RunFailed(s) \in AgentStates
<1> USE DEF AgentStates, Phases, CallStatuses, Results, Outcomes, Confirmations,
            NoConfirmation, ResumablePhases, ConfirmationKinds
<1>1. ResumeRequested(s) \in AgentStates
  BY DEF ResumeRequested
<1>2. \A b \in BOOLEAN, p \in ResumablePhases \cup {"none"} :
        HydrationFinished(s, b, p) \in AgentStates
  <2> TAKE b \in BOOLEAN, p \in ResumablePhases \cup {"none"}
  <2>1. [s EXCEPT !.phase = "compact", !.resumePhase = p] \in AgentStates
    OBVIOUS
  <2>2. ASSUME NEW q \in Phases
        PROVE  [s EXCEPT !.phase = q, !.resumePhase = "none"] \in AgentStates
    OBVIOUS
  <2>3. (IF p = "none" THEN "thinking" ELSE p) \in Phases
    OBVIOUS
  <2> HIDE DEF AgentStates
  <2> QED
    BY <2>1, <2>2, <2>3, Zenon DEF HydrationFinished
<1>3. CompactionFinished(s) \in AgentStates
  <2>1. ASSUME NEW q \in Phases
        PROVE  [s EXCEPT !.phase = q, !.resumePhase = "none"] \in AgentStates
    OBVIOUS
  <2>2. (IF s.resumePhase = "none" THEN "thinking" ELSE s.resumePhase) \in Phases
    OBVIOUS
  <2> HIDE DEF AgentStates, Phases
  <2> QED
    BY <2>1, <2>2, Zenon DEF CompactionFinished
<1>4. \A ids \in SUBSET Calls : ModelFinishedTools(s, ids) \in AgentStates
  <2> TAKE ids \in SUBSET Calls
  <2>1. ASSUME NEW status \in [Calls -> CallStatuses], NEW result \in [Calls -> Results],
               NEW turn \in Nat
        PROVE  [s EXCEPT !.phase = "tooluse", !.turn = turn, !.status = status,
                         !.result = result, !.outcome = "none"] \in AgentStates
    <3> HIDE DEF CallStatuses, Results, Confirmations
    <3> QED OBVIOUS
  <2>2. [c \in Calls |-> IF c \in ids THEN "pending" ELSE "absent"] \in [Calls -> CallStatuses]
    OBVIOUS
  <2>3. [c \in Calls |-> "none"] \in [Calls -> Results]
    OBVIOUS
  <2>4. s.turn + 1 \in Nat
    OBVIOUS
  <2> HIDE DEF AgentStates, CallStatuses, Results
  <2> QED
    BY <2>1, <2>2, <2>3, <2>4, Zenon DEF ModelFinishedTools
<1>5. ModelFinishedAnswer(s) \in AgentStates
  <2>1. ASSUME NEW turn \in Nat
        PROVE  [s EXCEPT !.phase = "complete", !.turn = turn, !.outcome = "succeeded",
                         !.confirmation = NoConfirmation] \in AgentStates
    OBVIOUS
  <2>2. s.turn + 1 \in Nat
    OBVIOUS
  <2> HIDE DEF AgentStates, NoConfirmation
  <2> QED
    BY <2>1, <2>2, Zenon DEF ModelFinishedAnswer
<1>6. \A c \in Calls : ToolCallStarted(s, c) \in AgentStates
  BY DEF ToolCallStarted
<1>7. \A c \in Calls, status \in CallStatuses, result \in Results :
        ToolCallFinished(s, c, status, result) \in AgentStates
  BY DEF ToolCallFinished
<1>8. ToolBatchFinished(s) \in AgentStates
  BY DEF ToolBatchFinished
<1>9. \A ids \in SUBSET Calls, kind \in ConfirmationKinds :
        ConfirmationRequested(s, ids, kind) \in AgentStates
  BY DEF ConfirmationRequested, MarkCalls
<1>10. \A approved \in BOOLEAN : ConfirmationResolved(s, approved) \in AgentStates
  BY DEF ConfirmationResolved, MarkCalls
<1>11. StopRequested(s) \in AgentStates
  BY DEF StopRequested
<1>12. \A kind \in Outcomes : RunCompleted(s, kind) \in AgentStates
  BY DEF RunCompleted
<1>13. RunFailed(s) \in AgentStates
  BY DEF RunFailed
<1> QED
  BY <1>1, <1>2, <1>3, <1>4, <1>5, <1>6, <1>7, <1>8, <1>9, <1>10, <1>11, <1>12, <1>13

----------------------------------------------------------------------------
\* Type correctness.

LEMMA FreshLoopType ==
  ASSUME NEW pc \in Positions, NEW b \in BOOLEAN, NEW p \in Phases \cup {"none"}
  PROVE  FreshLoop(pc, b, p) \in Loops
BY DEF FreshLoop, Loops

LEMMA LoopType ==
  ASSUME loop \in Loops
  PROVE  /\ \A pc \in Positions : [loop EXCEPT !.pc = pc] \in Loops
         /\ LeaveRun \in Loops
         /\ loop.pending \in Seq(Frames)
         /\ {loop.allow, loop.deny, loop.ask, loop.approved, loop.skip} \subseteq SUBSET Calls
         /\ Scheduled \subseteq Calls
<1>1. LeaveRun \in Loops
  <2>1. ASSUME NEW l \in Loops, NEW skip \in SUBSET Calls
        PROVE  [l EXCEPT !.skip = skip] \in Loops
    BY DEF Loops
  <2>2. FreshLoop("idle", FALSE, "none") \in Loops
    BY FreshLoopType DEF Positions
  <2>3. loop.skip \in SUBSET Calls
    BY DEF Loops
  <2> QED
    BY <2>1, <2>2, <2>3, Zenon DEF LeaveRun
<1> QED
  BY <1>1 DEF Loops, Scheduled

LEMMA FrameType ==
  ASSUME st \in AgentStates, NEW kind \in {"user", "use", "result", "answer"},
         NEW ids \in SUBSET Calls
  PROVE  Frame(kind, ids) \in Frames
BY DEF Frame, Frames, AgentStates

LEMMA InitType == Init => TypeOK
<1> SUFFICES ASSUME Init PROVE TypeOK
  OBVIOUS
<1>1. st \in AgentStates
  BY NewAgentStateType, ReducerType DEF Init, Abandoned, Outcomes
<1>2. loop \in Loops
  BY FreshLoopType DEF Init, Positions
<1>3. log \in Seq(Frames)
  BY DEF Init
<1>4. task \in [Calls -> TaskStates]
  BY DEF Init, NoTask, TaskStates
<1>5. execs \in [Calls -> Nat] /\ blind \in [Calls -> Nat]
  BY DEF Init
<1> QED
  BY <1>1, <1>2, <1>3, <1>4, <1>5 DEF Init, TypeOK

LEMMA HistoryType ==
  ASSUME log \in Seq(Frames), loop \in Loops
  PROVE  History \in Seq(Frames)
BY LoopType DEF History

LEMMA UnscheduledType ==
  ASSUME task \in [Calls -> TaskStates]
  PROVE  Unscheduled \in [Calls -> TaskStates]
BY DEF Unscheduled, TaskStates

LEMMA ToolStepType ==
  ASSUME TypeOK, ToolStep
  PROVE  TypeOK'
<1> PICK c \in Calls : \/ MarkUncertain(c) \/ StartCall(c) \/ GuardReplies(c)
                       \/ GuardEscalates(c) \/ RefuseCall(c) \/ RunTool(c)
                       \/ FinishTool(c) \/ OrphanEnds(c) \/ AbortCall(c)
  BY DEF ToolStep
<1>0. \A status \in {"completed", "failed"} :
        CloseCall(c, status) => st' \in AgentStates /\ task' \in [Calls -> TaskStates]
  <2> TAKE status \in {"completed", "failed"}
  <2> HAVE CloseCall(c, status)
  <2>1. status \in CallStatuses /\ "value" \in Results
    BY DEF CallStatuses, Results
  <2>2. st' \in AgentStates
    BY <2>1, ReducerType, Zenon DEF CloseCall, TypeOK
  <2>3. task' \in [Calls -> TaskStates]
    BY DEF CloseCall, TypeOK, TaskStates
  <2> QED
    BY <2>2, <2>3
<1>1. CASE MarkUncertain(c)
  BY <1>1, ReducerType DEF MarkUncertain, TypeOK, CallStatuses, Results, process, history
<1>2. CASE StartCall(c)
  BY <1>2, ReducerType DEF StartCall, TypeOK, TaskStates, history
<1>3. CASE GuardReplies(c)
  <2>1. loop' \in Loops
    BY <1>3 DEF GuardReplies, TypeOK, Loops
  <2> QED
    BY <1>0, <1>3, <2>1 DEF GuardReplies, TypeOK, history
<1>4. CASE GuardEscalates(c)
  <2>1. loop' \in Loops
    BY <1>4 DEF GuardEscalates, TypeOK, Loops, Positions
  <2>2. orphans' \subseteq Calls
    BY <1>4, LoopType DEF GuardEscalates, TypeOK
  <2>3. task' \in [Calls -> TaskStates]
    BY <1>4 DEF GuardEscalates, TypeOK, TaskStates
  <2> QED
    BY <1>4, <2>1, <2>2, <2>3 DEF GuardEscalates, TypeOK, history
<1>5. CASE RefuseCall(c)
  BY <1>0, <1>5 DEF RefuseCall, TypeOK, history
<1>6. CASE RunTool(c)
  <2>1. loop' \in Loops
    BY <1>6 DEF RunTool, TypeOK, Loops
  <2>2. task' \in [Calls -> TaskStates]
    BY <1>6 DEF RunTool, TypeOK, TaskStates
  <2>3. execs' \in [Calls -> Nat]
    BY <1>6 DEF RunTool, TypeOK
  <2>4. blind' \in [Calls -> Nat]
    BY <1>6 DEF RunTool, TypeOK
  <2> QED
    BY <1>6, <2>1, <2>2, <2>3, <2>4 DEF RunTool, TypeOK
<1>7. CASE FinishTool(c)
  BY <1>0, <1>7 DEF FinishTool, TypeOK, history
<1>8. CASE OrphanEnds(c)
  <2>1. st' \in AgentStates
    BY <1>8, ReducerType DEF OrphanEnds, TypeOK, CallStatuses, Results
  <2>2. task' \in [Calls -> TaskStates]
    BY <1>8 DEF OrphanEnds, TypeOK, TaskStates
  <2> QED
    BY <1>8, <2>1, <2>2 DEF OrphanEnds, TypeOK, history
<1>9. CASE AbortCall(c)
  BY <1>9, ReducerType DEF AbortCall, TypeOK, CallStatuses, Results, process, history
<1> QED
  BY <1>1, <1>2, <1>3, <1>4, <1>5, <1>6, <1>7, <1>8, <1>9

LEMMA NextType == TypeOK /\ [Next]_vars => TypeOK'
<1> SUFFICES ASSUME TypeOK, [Next]_vars PROVE TypeOK'
  OBVIOUS
<1>1. CASE AbandonPrevious
  BY <1>1, ReducerType, FreshLoopType DEF AbandonPrevious, TypeOK, Abandoned, Outcomes, Positions
<1>2. CASE StartRun
  <2>1. st.run + 1 \in Nat /\ starts + 1 \in Nat
    BY DEF TypeOK, AgentStates
  <2> QED
    BY <1>2, <2>1, NewAgentStateType, FreshLoopType DEF StartRun, TypeOK, Positions, history
<1>3. CASE Resume
  <2>1. st.phase \in Phases /\ starts + 1 \in Nat
    BY DEF TypeOK, AgentStates
  <2> QED
    BY <1>3, <2>1, ReducerType, FreshLoopType DEF Resume, TypeOK, Positions, history
<1>4. CASE Hydrate
  <2>1. ResumeTarget \in ResumablePhases \cup {"none"}
    BY DEF ResumeTarget
  <2>2. st' \in AgentStates
    BY <1>4, <2>1, ReducerType DEF Hydrate, TypeOK
  <2>3. <<>> \in Seq(Frames) /\ <<Frame("user", {})>> \in Seq(Frames)
    BY FrameType DEF TypeOK
  <2>4. loop' \in Loops
    <3>1. ASSUME NEW pending \in Seq(Frames)
          PROVE  [loop EXCEPT !.pending = pending] \in Loops
      BY DEF TypeOK, Loops
    <3>2. CASE loop.isResume
      BY <1>4, <2>3, <3>1, <3>2 DEF Hydrate
    <3>3. CASE ~loop.isResume
      BY <1>4, <2>3, <3>1, <3>3 DEF Hydrate
    <3> QED
      BY <3>2, <3>3
  <2> QED
    BY <1>4, <2>2, <2>4 DEF Hydrate, TypeOK
<1>5. CASE Compact
  BY <1>5, ReducerType DEF Compact, TypeOK, process, history
<1>6. CASE ThinkExhausted
  BY <1>6, ReducerType DEF ThinkExhausted, TypeOK, process, history
<1>7. CASE ThinkStopped
  BY <1>7, ReducerType DEF ThinkStopped, TypeOK, process, history
<1>8. CASE CallModel
  BY <1>8, LoopType DEF CallModel, TypeOK, Positions, history
<1>9. CASE StreamStopped
  BY <1>9, ReducerType, LoopType DEF StreamStopped, TypeOK, Positions, history
<1>10. CASE StreamFails
  BY <1>10, ReducerType, LoopType DEF StreamFails, TypeOK, Positions, history
<1>11. CASE ModelAnswers
  BY <1>11, ReducerType, LoopType DEF ModelAnswers, TypeOK, Positions, history
<1>12. CASE \E ids \in SUBSET Calls : ModelCalls(ids)
  <2> PICK ids \in SUBSET Calls : ModelCalls(ids)
    BY <1>12
  <2>1. st' \in AgentStates
    BY ReducerType DEF ModelCalls, TypeOK
  <2>2. loop' \in Loops
    <3>1. ASSUME NEW pending \in Seq(Frames)
          PROVE  [loop EXCEPT !.pc = "run", !.pending = pending] \in Loops
      BY DEF TypeOK, Loops, Positions
    <3>2. <<>> \in Seq(Frames)
      OBVIOUS
    <3> QED
      BY <3>1, <3>2, Zenon DEF ModelCalls
  <2>3. log' \in Seq(Frames)
    BY HistoryType, FrameType DEF ModelCalls, TypeOK
  <2> QED
    BY <2>1, <2>2, <2>3 DEF ModelCalls, TypeOK
<1>13. CASE ClassifyAfterResume
  <2>1. Uncertain \in SUBSET Calls
    BY DEF Uncertain, Batch
  <2>2. loop' \in Loops
    BY <1>13, <2>1 DEF ClassifyAfterResume, TypeOK, Loops, Positions
  <2> QED
    BY <1>13, <2>2 DEF ClassifyAfterResume, TypeOK, history
<1>14. CASE AskRetry
  <2>1. st' \in AgentStates
    BY <1>14, ReducerType, LoopType DEF AskRetry, TypeOK, ConfirmationKinds
  <2>2. loop' \in Loops
    BY <1>14 DEF AskRetry, TypeOK, Loops, Positions
  <2> QED
    BY <1>14, <2>1, <2>2 DEF AskRetry, TypeOK, history
<1>15. CASE PartitionCalls
  <2>1. loop' \in Loops
    BY <1>15 DEF PartitionCalls, TypeOK, Loops, Positions, ToRun, Batch
  <2>2. task' \in [Calls -> TaskStates]
    BY <1>15 DEF PartitionCalls, TypeOK, TaskStates
  <2> QED
    BY <1>15, <2>1, <2>2 DEF PartitionCalls, TypeOK, history
<1>16. CASE ToolStep
  BY <1>16, ToolStepType
<1>17. CASE \E kind \in AskedGates : AskUser(kind)
  <2> PICK kind \in AskedGates : AskUser(kind)
    BY <1>17
  <2> DEFINE group == {c \in loop.ask : Gate[c] = kind}
  <2>1. group \in SUBSET Calls /\ st' = ConfirmationRequested(st, group, kind)
    BY LoopType DEF AskUser, TypeOK
  <2>2. kind \in ConfirmationKinds
    BY DEF ConfirmationKinds, AskedGates
  <2>3. st' \in AgentStates
    BY <2>1, <2>2, ReducerType DEF TypeOK
  <2>4. loop' \in Loops
    BY DEF AskUser, TypeOK, Loops, Positions
  <2>5. task' \in [Calls -> TaskStates]
    BY UnscheduledType DEF AskUser, TypeOK
  <2> QED
    BY <2>3, <2>4, <2>5 DEF AskUser, TypeOK, history
<1>18. CASE EndBatch
  <2>1. st' \in AgentStates
    BY <1>18, ReducerType DEF EndBatch, TypeOK
  <2>2. loop' \in Loops
    BY <1>18 DEF EndBatch, TypeOK, Loops, Positions
  <2>3. task' \in [Calls -> TaskStates]
    BY <1>18, UnscheduledType DEF EndBatch, TypeOK
  <2>4. log' \in Seq(Frames)
    BY <1>18, FrameType DEF EndBatch, TypeOK, RoundAnswers, Batch
  <2> QED
    BY <1>18, <2>1, <2>2, <2>3, <2>4 DEF EndBatch, TypeOK, history
<1>19. CASE LoopAborted
  BY <1>19, LoopType DEF LoopAborted, TypeOK, Positions, history
<1>20. CASE FailAfterLoop
  <2>1. log' \in Seq(Frames)
    BY <1>20, FrameType DEF FailAfterLoop, TypeOK, Answered, Batch
  <2> QED
    BY <1>20, <2>1, ReducerType, LoopType DEF FailAfterLoop, TypeOK, Positions
<1>21. CASE WrapUp
  <2>1. Append(loop.pending, Frame("result", Answered)) \in Seq(Frames)
    BY FrameType, LoopType DEF TypeOK, Answered, Batch
  <2>2. loop' \in Loops
    BY <1>21, <2>1 DEF WrapUp, TypeOK, Loops, Positions
  <2> QED
    BY <1>21, <2>2 DEF WrapUp, TypeOK
<1>22. CASE WrapUpEnds
  BY <1>22, ReducerType, LoopType DEF WrapUpEnds, TypeOK, Positions, history, Outcomes
<1>23. CASE CancelledRoundCloses
  <2>1. Append(log, Frame("result", Answered)) \in Seq(Frames)
    BY FrameType DEF TypeOK, Answered, Batch
  <2>2. log' \in Seq(Frames)
    BY <1>23, <2>1, LoopType DEF CancelledRoundCloses, TypeOK
  <2> QED
    BY <1>23, <2>2, ReducerType, LoopType DEF CancelledRoundCloses, TypeOK
<1>24. CASE Prompt
  <2>1. loop' \in Loops
    BY <1>24 DEF Prompt, TypeOK, Loops, Positions
  <2> QED
    BY <1>24, <2>1 DEF Prompt, TypeOK, history
<1>25. CASE \E answer \in {"yes", "always", "no", "none"} : Answer(answer)
  <2> PICK answer \in {"yes", "always", "no", "none"} : Answer(answer)
    BY <1>25
  <2> DEFINE approved == st.confirmation.kind = "question" \/ answer \in {"yes", "always"}
  <2>1. st' \in AgentStates
    BY ReducerType DEF Answer, TypeOK
  <2>2. st.confirmation.ids \in SUBSET Calls
    BY DEF TypeOK, AgentStates, Confirmations
  <2>3. (IF approved THEN loop.approved \cup st.confirmation.ids ELSE loop.approved) \in SUBSET Calls
    BY <2>2, LoopType DEF TypeOK
  <2>4. loop' \in Loops
    BY <2>3 DEF Answer, TypeOK, Loops, Positions
  <2>5. granted' \subseteq Gates
    BY DEF Answer, TypeOK, Gates, AskedGates
  <2>6. unspent' \subseteq Calls
    BY <2>2 DEF Answer, TypeOK
  <2> QED
    BY <2>1, <2>4, <2>5, <2>6 DEF Answer, TypeOK
<1>26. CASE Finish
  <2>1. log' \in Seq(Frames)
    BY <1>26, HistoryType, FrameType DEF Finish, TypeOK
  <2> QED
    BY <1>26, <2>1, LoopType DEF Finish, TypeOK, history
<1>27. CASE Stop
  <2>1. CASE At("prompt")
    BY <1>27, <2>1, HistoryType, LoopType DEF Stop, TypeOK, history
  <2>2. CASE ~At("prompt")
    BY <1>27, <2>2 DEF Stop, TypeOK, history
  <2> QED
    BY <2>1, <2>2
<1>28. CASE CancelWaiting
  <2>1. faults + 1 \in Nat
    BY DEF TypeOK
  <2> QED
    BY <1>28, <2>1, HistoryType, LoopType DEF CancelWaiting, TypeOK
<1>29. CASE CancelTools
  <2>1. loop' \in Loops
    BY <1>29 DEF CancelTools, TypeOK, Loops, Positions
  <2>2. task' \in [Calls -> TaskStates]
    BY <1>29, UnscheduledType DEF CancelTools, TypeOK
  <2>3. faults + 1 \in Nat
    BY DEF TypeOK
  <2> QED
    BY <1>29, <2>1, <2>2, <2>3 DEF CancelTools, TypeOK, history
<1>30. CASE Crash
  <2>1. faults + 1 \in Nat
    BY DEF TypeOK
  <2>2. loop' \in Loops
    BY <1>30, FreshLoopType DEF Crash, Positions
  <2>3. task' \in [Calls -> TaskStates]
    BY <1>30 DEF Crash, NoTask, TaskStates
  <2> QED
    BY <1>30, <2>1, <2>2, <2>3 DEF Crash, TypeOK
<1>31. CASE Quiescent
  BY <1>31 DEF Quiescent, TypeOK, vars
<1>32. CASE UNCHANGED vars
  BY <1>32 DEF TypeOK, vars
<1> QED
  BY <1>1, <1>2, <1>3, <1>4, <1>5, <1>6, <1>7, <1>8, <1>9, <1>10, <1>11, <1>12, <1>13, <1>14,
     <1>15, <1>16, <1>17, <1>18, <1>19, <1>20, <1>21, <1>22, <1>23, <1>24, <1>25, <1>26, <1>27, <1>28, <1>29, <1>30, <1>31, <1>32
  DEF Next, Engine, Outside

\* Every run of the loop stays within its types.
THEOREM TypeCorrect == Spec => []TypeOK
<1>1. Init => TypeOK
  BY InitType
<1>2. TypeOK /\ [Next]_vars => TypeOK'
  BY NextType
<1> QED
  BY <1>1, <1>2, PTL DEF Spec

\* A snapshot that can no longer be resumed is final: no tool coroutine that
\* outlives its run, no late cancellation and no resume overwrites it.
THEOREM TerminalStaysFinal == Spec => TerminalIsFinal
<1>1. ASSUME TypeOK, ~IsResumable(st), [Next]_vars
      PROVE  st' = st \/ st'.run = st.run + 1
  <2> USE DEF IsResumable, Terminal, Handling, At
  <2>1. st.phase \notin {"hydrate", "compact", "thinking", "tooluse", "awaitingconfirmation"}
    BY <1>1 DEF TypeOK, AgentStates, Phases
  <2>2. CASE StartRun
    BY <2>2 DEF StartRun, NewAgentState
  <2>3. CASE ToolStep
    BY <2>1, <2>3 DEF ToolStep, MarkUncertain, StartCall, GuardReplies, GuardEscalates, RefuseCall,
       RunTool, FinishTool, OrphanEnds, AbortCall, CloseCall, CanCallStart, CanCallFinish
  <2>4. CASE AbandonPrevious \/ Resume
    BY <1>1, <2>4 DEF AbandonPrevious, Resume
  <2>5. CASE Hydrate \/ Compact \/ ThinkExhausted \/ ThinkStopped \/ CallModel
    BY <2>1, <2>5 DEF Hydrate, Compact, ThinkExhausted, ThinkStopped, CallModel
  <2>6. CASE StreamStopped \/ StreamFails \/ ModelAnswers \/ \E ids \in SUBSET Calls : ModelCalls(ids)
    BY <2>1, <2>6 DEF StreamStopped, StreamFails, ModelAnswers, ModelCalls, CanStop, CanFail, CanModelFinish,
       ResumablePhases
  <2>7. CASE ClassifyAfterResume \/ AskRetry \/ PartitionCalls \/ \E kind \in AskedGates : AskUser(kind)
    BY <2>1, <2>7 DEF ClassifyAfterResume, AskRetry, PartitionCalls, AskUser, CanRequestConfirmation
  <2>8. CASE EndBatch \/ LoopAborted \/ FailAfterLoop \/ WrapUp \/ CancelledRoundCloses
    BY <2>1, <2>8 DEF EndBatch, LoopAborted, FailAfterLoop, WrapUp, CancelledRoundCloses, CanBatchFinish,
       CanFail, ResumablePhases
  <2>9. CASE WrapUpEnds
    BY <1>1, <2>1, <2>9 DEF WrapUpEnds, CanComplete, CanFail, ResumablePhases
  <2>10. CASE Prompt \/ \E answer \in {"yes", "always", "no", "none"} : Answer(answer)
    BY <2>1, <2>10 DEF Prompt, Answer, CanResolveConfirmation
  <2>11. CASE Finish \/ Stop \/ CancelWaiting \/ CancelTools \/ Crash \/ Quiescent \/ UNCHANGED vars
    BY <2>11 DEF Finish, Stop, CancelWaiting, CancelTools, Crash, Quiescent, vars
  <2> QED
    BY <1>1, <2>2, <2>3, <2>4, <2>5, <2>6, <2>7, <2>8, <2>9, <2>10, <2>11 DEF Next, Engine, Outside
<1>2. TypeOK /\ [Next]_vars => [~IsResumable(st) => st' = st \/ st'.run = st.run + 1]_vars
  BY <1>1
<1> QED
  BY <1>2, TypeCorrect, PTL DEF Spec, TerminalIsFinal


----------------------------------------------------------------------------
(***************************************************************************)
(* InductiveInv is inductive                                               *)
(***************************************************************************)

\* InductiveInv without its types, which NextType deals with.
SafetyParts ==
  /\ PositionInv /\ ReopenInv /\ ResultInv /\ ScheduleInv /\ OrphanInv
  /\ PromptInv /\ RoundInv /\ HandedInv /\ ReplayInv /\ NoBlindReplay

----------------------------------------------------------------------------
\* The steps that need an argument.

LEMMA AbortDone ==
  ASSUME InductiveInv, Aborting, Unanswered = {}
  PROVE  \A c \in Calls : Closed(c)
BY DEF InductiveInv, TypeOK, AgentStates, CallStatuses, Aborting, At, ResultInv, RoundInv,
       Open, Waiting, Closed, Unanswered, Batch

LEMMA HydrateReopen ==
  ASSUME InductiveInv, Hydrate
  PROVE  ReopenInv'
<1>1. PICK b \in BOOLEAN :
        /\ st' = HydrationFinished(st, b, ResumeTarget)
        /\ loop.resumeFrom \in {"tooluse", "awaitingconfirmation"} => ~b
  BY DEF Hydrate
<1>2. b => ResumeTarget \in {"none", "thinking"}
  BY <1>1 DEF InductiveInv, ReopenInv, ResumeTarget, ResumablePhases
<1>3. st'.phase # "hydrate" /\ st'.resumePhase \in {"none", "thinking"}
  BY <1>1, <1>2 DEF HydrationFinished, ResumeTarget, ResumablePhases, InductiveInv, TypeOK, AgentStates
<1> QED
  BY <1>3 DEF ReopenInv

LEMMA RunToolReplay ==
  ASSUME InductiveInv, NEW c \in Calls, RunTool(c)
  PROVE  ReplayInv' /\ NoBlindReplay'
<1>1. st.status[c] # "pending"
  BY DEF InductiveInv, RunTool, ScheduleInv, OrphanInv, Alive, Aborting, Closed, At, Scheduled
<1>2. c \notin Reads /\ c \notin unspent => blind[c] = 0
  BY DEF InductiveInv, ReplayInv, RunTool
<1>3. \A d \in Calls : d # c => task'[d] = task[d] /\ blind'[d] = blind[d]
  BY DEF RunTool, InductiveInv, TypeOK
<1>4. /\ task'[c] = "running" /\ st' = st /\ unspent' = unspent \ {c}
      /\ blind'[c] = IF c \in unspent THEN blind[c] ELSE blind[c] + 1
  BY DEF RunTool, InductiveInv, TypeOK
<1>5. ReplayInv'
  BY <1>1, <1>3, <1>4 DEF InductiveInv, ReplayInv
<1>6. NoBlindReplay'
  BY <1>2, <1>3, <1>4 DEF InductiveInv, NoBlindReplay
<1> QED
  BY <1>5, <1>6

LEMMA AskUserPrompt ==
  ASSUME InductiveInv, NEW kind \in AskedGates, AskUser(kind)
  PROVE  PromptInv'
<1> DEFINE group == {c \in loop.ask : Gate[c] = kind}
<1>1. /\ At("tools") /\ st.phase = "tooluse" /\ group # {} /\ group \subseteq loop.ask
      /\ st' = ConfirmationRequested(st, group, kind)
      /\ \A c \in Scheduled : task[c] = "done"
  BY DEF AskUser, PassDone, CanRequestConfirmation
<1>2. \A c \in Calls : ~Waiting(c) /\ ~Interrupted(c)
  BY <1>1 DEF InductiveInv, RoundInv, ScheduleInv, At, Interrupted, Open, Closed
<1>3. group \subseteq Calls
  BY <1>1 DEF InductiveInv, TypeOK, Loops
<1>4. \A c \in group : st.status[c] \in {"pending", "running"}
  BY <1>1, <1>3 DEF InductiveInv, ScheduleInv, Open
<1>5. /\ st'.confirmation.ids = group
      /\ st'.status = [c \in Calls |-> IF c \in group THEN "awaitingconfirmation" ELSE st.status[c]]
  <2>1. \A c \in group : st.status[c] # "uncertain" /\ st.status[c] # "absent"
    BY <1>4
  <2>2. MarkCalls(st.status, {c \in group : st.status[c] # "uncertain"}, "awaitingconfirmation")
          = [c \in Calls |-> IF c \in group THEN "awaitingconfirmation" ELSE st.status[c]]
    BY <2>1 DEF MarkCalls
  <2> HIDE DEF group
  <2> QED
    BY <1>1, <2>2 DEF ConfirmationRequested
<1> HIDE DEF group
<1>6. \A c \in Calls : Waiting(c)' <=> c \in group
  BY <1>2, <1>5 DEF Waiting
<1>7. \A c \in Calls : ~Interrupted(c)'
  BY <1>2, <1>5 DEF Interrupted
<1> QED
  BY <1>1, <1>3, <1>5, <1>6, <1>7 DEF PromptInv

LEMMA PartitionSchedule ==
  ASSUME InductiveInv, PartitionCalls
  PROVE  ScheduleInv'
<1> DEFINE approved == ToRun \cap loop.approved
           Judged(verdicts) == {c \in ToRun \ approved : Verdict(c) \in verdicts}
<1>1. /\ loop'.pc = "tools" /\ st' = st
      /\ loop'.allow = approved \cup Judged({"allow"})
      /\ loop'.deny = Judged({"deny"})
      /\ loop'.ask = Judged(AskedGates)
  BY DEF PartitionCalls
<1>2. \A c \in Calls : c \in approved \cup Judged({"allow", "deny"}) => task'[c] = "queued"
  BY DEF PartitionCalls
<1>3. \A c \in Calls : Verdict(c) \in AskedGates \cup {"allow", "deny"}
  BY GateAssumption DEF Verdict, Gates
<1>4. \A c \in Calls : c \in ToRun <=> Open(c)
  BY DEF ToRun, Batch, Open
<1>5. \A c \in Calls : ~Interrupted(c)
  BY DEF InductiveInv, PartitionCalls, RoundInv, Handling, Interrupted, Uncertain, Batch
<1>6. \A c \in Calls : c \in Scheduled' => task'[c] = "queued" /\ Open(c)
  BY <1>1, <1>2, <1>4 DEF Scheduled
<1>7. \A c \in Calls : c \in loop'.ask => c \notin Scheduled' /\ Open(c)
  BY <1>1, <1>4 DEF Scheduled, AskedGates
<1>8. \A c \in Calls : Open(c) => c \in Scheduled' \/ c \in loop'.ask
  BY <1>1, <1>3, <1>4 DEF Scheduled
<1> QED
  BY <1>1, <1>5, <1>6, <1>7, <1>8 DEF ScheduleInv, At, Open, Interrupted

LEMMA OrphanEndsSafe ==
  ASSUME InductiveInv, NEW c \in Calls, OrphanEnds(c)
  PROVE  SafetyParts'
<1> USE DEF Open, Waiting, Closed, Alive, Interrupted, Aborting, Reopens, At, Handling, Scheduled
<1>1. /\ c \notin Scheduled /\ Closed(c) /\ ~Aborting /\ c \in handed
      /\ task' = [task EXCEPT ![c] = "idle"]
      /\ UNCHANGED <<loop, handed, blind, unspent>>
  BY DEF OrphanEnds, InductiveInv, OrphanInv, HandedInv, history
<1>2. \/ st' = st
      \/ /\ st.phase = "tooluse" /\ st.status[c] # "absent"
         /\ \E status \in {"completed", "failed"} : st' = ToolCallFinished(st, c, status, "value")
  BY DEF OrphanEnds, CanCallFinish, Batch
<1>3. CASE st' = st
  <2>1. /\ PositionInv' /\ ReopenInv' /\ ResultInv' /\ PromptInv' /\ RoundInv'
        /\ HandedInv' /\ ReplayInv' /\ NoBlindReplay'
    BY <1>1, <1>3 DEF InductiveInv, TypeOK, PositionInv, ReopenInv, ResultInv, PromptInv, RoundInv,
       HandedInv, ReplayInv, NoBlindReplay
  <2>2. ScheduleInv' /\ OrphanInv'
    BY <1>1, <1>3 DEF InductiveInv, TypeOK, ScheduleInv, OrphanInv
  <2> QED
    BY <2>1, <2>2 DEF SafetyParts
<1>4. ASSUME st.phase = "tooluse", st.status[c] # "absent",
             NEW status \in {"completed", "failed"}, st' = ToolCallFinished(st, c, status, "value")
      PROVE  SafetyParts'
  <2>1. /\ st'.phase = st.phase /\ st'.resumePhase = st.resumePhase
        /\ st'.confirmation = st.confirmation
        /\ Closed(c)' /\ st'.result[c] = "value"
        /\ st'.status[c] \in {"completed", "failed"}
        /\ \A d \in Calls : d # c => st'.status[d] = st.status[d] /\ st'.result[d] = st.result[d]
    BY <1>4 DEF ToolCallFinished, InductiveInv, TypeOK, AgentStates
  <2>2. \A d \in Calls : d # c => task'[d] = task[d]
    BY <1>1 DEF InductiveInv, TypeOK
  <2>3. task'[c] = "idle"
    BY <1>1 DEF InductiveInv, TypeOK
  <2>4. PositionInv' /\ ReopenInv' /\ ResultInv' /\ NoBlindReplay'
    BY <1>1, <2>1 DEF InductiveInv, PositionInv, ReopenInv, ResultInv, NoBlindReplay
  <2>5. ScheduleInv'
    BY <1>1, <2>1, <2>2 DEF InductiveInv, ScheduleInv
  <2>6. OrphanInv'
    BY <1>1, <2>1, <2>2 DEF InductiveInv, OrphanInv
  <2>7. PromptInv'
    BY <1>1, <1>4, <2>1 DEF InductiveInv, PromptInv
  <2>8. RoundInv'
    <3>1. loop.ask \subseteq Calls
      BY LoopType DEF InductiveInv, TypeOK
    <3> QED
      BY <1>1, <1>4, <2>1, <3>1 DEF InductiveInv, RoundInv
  <2>9. HandedInv' /\ ReplayInv'
    BY <1>1, <2>1, <2>2, <2>3 DEF InductiveInv, HandedInv, ReplayInv
  <2> QED
    BY <2>4, <2>5, <2>6, <2>7, <2>8, <2>9 DEF SafetyParts
<1> QED
  BY <1>2, <1>3, <1>4

LEMMA WrapUpEndsSafe ==
  ASSUME InductiveInv, WrapUpEnds
  PROVE  SafetyParts'
<1> USE DEF Open, Waiting, Closed, Alive, Interrupted, Aborting, Reopens, At, Handling, Scheduled
<1>1. /\ st'.phase \in {"complete", "error"}
      /\ st'.status = st.status /\ st'.result = st.result
      /\ st'.resumePhase = st.resumePhase
  <2>1. CASE st' = RunCompleted(st, "succeeded")
    BY <2>1 DEF RunCompleted, InductiveInv, TypeOK, AgentStates
  <2>2. CASE st' = RunFailed(st)
    BY <2>2 DEF RunFailed, InductiveInv, TypeOK, AgentStates
  <2> QED
    BY <2>1, <2>2 DEF WrapUpEnds
<1>2. /\ loop'.pc = "run" /\ loop'.allow = loop.allow /\ loop'.deny = loop.deny /\ loop'.ask = loop.ask
      /\ loop'.resumeFrom = loop.resumeFrom /\ At("wrapup")
      /\ UNCHANGED <<task, handed, blind, unspent>>
  BY DEF WrapUpEnds, InductiveInv, TypeOK, Loops, history
<1> QED
  BY <1>1, <1>2 DEF SafetyParts, InductiveInv, PositionInv, ReopenInv, ResultInv, ScheduleInv,
     OrphanInv, PromptInv, RoundInv, HandedInv, ReplayInv, NoBlindReplay

----------------------------------------------------------------------------
\* One step per action.

LEMMA ToolStepSafe ==
  ASSUME InductiveInv, ToolStep
  PROVE  SafetyParts'
<1> USE DEF Open, Waiting, Closed, Alive, Interrupted, Aborting, Reopens, At, Handling, Scheduled
<1> PICK c \in Calls : \/ MarkUncertain(c) \/ StartCall(c) \/ GuardReplies(c)
                       \/ GuardEscalates(c) \/ RefuseCall(c) \/ RunTool(c)
                       \/ FinishTool(c) \/ OrphanEnds(c) \/ AbortCall(c)
  BY DEF ToolStep
<1>1. CASE MarkUncertain(c)
  <2>1. /\ PositionInv' /\ ReopenInv' /\ ScheduleInv' /\ PromptInv'
        /\ RoundInv' /\ HandedInv' /\ ReplayInv' /\ NoBlindReplay'
    BY <1>1 DEF InductiveInv, PositionInv, ReopenInv, ScheduleInv, PromptInv, RoundInv,
                HandedInv, ReplayInv, NoBlindReplay, MarkUncertain, ToolCallFinished,
                CanCallFinish, Batch, process, history
  <2>2. ResultInv'
    BY <1>1 DEF InductiveInv, ResultInv, TypeOK, AgentStates, MarkUncertain,
                ToolCallFinished, CanCallFinish, Batch, process, history
  <2>3. OrphanInv'
    BY <1>1 DEF InductiveInv, PositionInv, ScheduleInv, OrphanInv, RoundInv, MarkUncertain,
                ToolCallFinished, CanCallFinish, Batch, process, history
  <2> QED
    BY <2>1, <2>2, <2>3 DEF SafetyParts
<1>2. CASE StartCall(c)
  <2>1. /\ PositionInv' /\ ReopenInv' /\ OrphanInv' /\ PromptInv'
        /\ RoundInv' /\ HandedInv' /\ ReplayInv' /\ NoBlindReplay'
    BY <1>2 DEF InductiveInv, PositionInv, ReopenInv, OrphanInv, PromptInv, RoundInv,
                HandedInv, ReplayInv, NoBlindReplay, StartCall, ToolCallStarted,
                CanCallStart, Batch, history
  <2>2. ResultInv'
    BY <1>2 DEF InductiveInv, PositionInv, ResultInv, ScheduleInv, StartCall,
                ToolCallStarted, CanCallStart, Batch, history
  <2>3. ScheduleInv'
    BY <1>2 DEF InductiveInv, ScheduleInv, TypeOK, AgentStates, TaskStates, StartCall,
                ToolCallStarted, CanCallStart, Batch, history
  <2> QED
    BY <2>1, <2>2, <2>3 DEF SafetyParts
<1>3. CASE GuardReplies(c)
  <2>1. /\ PositionInv' /\ ReopenInv' /\ OrphanInv' /\ PromptInv'
        /\ RoundInv' /\ HandedInv' /\ ReplayInv' /\ NoBlindReplay'
    BY <1>3 DEF InductiveInv, PositionInv, ReopenInv, OrphanInv, PromptInv, RoundInv,
                HandedInv, ReplayInv, NoBlindReplay, GuardReplies, CloseCall,
                ToolCallFinished, CanCallFinish, Batch, history
  <2>2. ResultInv'
    BY <1>3 DEF InductiveInv, ResultInv, TypeOK, AgentStates, GuardReplies, CloseCall,
                ToolCallFinished, CanCallFinish, Batch, history
  <2>3. ScheduleInv'
    BY <1>3 DEF InductiveInv, ScheduleInv, TypeOK, AgentStates, TaskStates, GuardReplies,
                CloseCall, ToolCallFinished, CanCallFinish, Batch, history
  <2> QED
    BY <2>1, <2>2, <2>3 DEF SafetyParts
<1>4. CASE GuardEscalates(c)
  BY <1>4 DEF InductiveInv, SafetyParts, PositionInv, ReopenInv, ResultInv, ScheduleInv,
              OrphanInv, PromptInv, RoundInv, HandedInv, ReplayInv, NoBlindReplay,
              GuardEscalates, history
<1>5. CASE RefuseCall(c)
  <2>1. /\ PositionInv' /\ ReopenInv' /\ OrphanInv' /\ PromptInv'
        /\ RoundInv' /\ HandedInv' /\ ReplayInv' /\ NoBlindReplay'
    BY <1>5 DEF InductiveInv, PositionInv, ReopenInv, OrphanInv, PromptInv, RoundInv,
                HandedInv, ReplayInv, NoBlindReplay, RefuseCall, CloseCall,
                ToolCallFinished, CanCallFinish, Batch, history
  <2>2. ResultInv'
    BY <1>5 DEF InductiveInv, ResultInv, TypeOK, AgentStates, RefuseCall, CloseCall,
                ToolCallFinished, CanCallFinish, Batch, history
  <2>3. ScheduleInv'
    BY <1>5 DEF InductiveInv, ScheduleInv, TypeOK, AgentStates, TaskStates, RefuseCall,
                CloseCall, ToolCallFinished, CanCallFinish, Batch, history
  <2> QED
    BY <2>1, <2>2, <2>3 DEF SafetyParts
<1>6. CASE RunTool(c)
  <2>1. /\ PositionInv' /\ ReopenInv' /\ ResultInv' /\ ScheduleInv'
        /\ OrphanInv' /\ PromptInv' /\ RoundInv' /\ HandedInv'
    BY <1>6 DEF InductiveInv, PositionInv, ReopenInv, ResultInv, ScheduleInv, OrphanInv,
                PromptInv, RoundInv, HandedInv, RunTool
  <2>2. ReplayInv' /\ NoBlindReplay'
    BY <1>6, RunToolReplay
  <2> QED
    BY <2>1, <2>2 DEF SafetyParts
<1>7. CASE FinishTool(c)
  <2>1. /\ PositionInv' /\ ReopenInv' /\ OrphanInv' /\ PromptInv'
        /\ RoundInv' /\ HandedInv' /\ ReplayInv' /\ NoBlindReplay'
    BY <1>7 DEF InductiveInv, PositionInv, ReopenInv, OrphanInv, PromptInv, RoundInv,
                HandedInv, ReplayInv, NoBlindReplay, FinishTool, CloseCall,
                ToolCallFinished, CanCallFinish, Batch, history
  <2>2. ResultInv'
    BY <1>7 DEF InductiveInv, ResultInv, TypeOK, AgentStates, FinishTool, CloseCall,
                ToolCallFinished, CanCallFinish, Batch, history
  <2>3. ScheduleInv'
    BY <1>7 DEF InductiveInv, ScheduleInv, TypeOK, AgentStates, TaskStates, FinishTool,
                CloseCall, ToolCallFinished, CanCallFinish, Batch, history
  <2> QED
    BY <2>1, <2>2, <2>3 DEF SafetyParts
<1>8. CASE OrphanEnds(c)
  BY <1>8, OrphanEndsSafe
<1>9. CASE AbortCall(c)
  <2>1. /\ PositionInv' /\ ReopenInv' /\ ScheduleInv' /\ OrphanInv' /\ PromptInv'
        /\ RoundInv' /\ HandedInv' /\ ReplayInv' /\ NoBlindReplay'
    BY <1>9 DEF InductiveInv, PositionInv, ReopenInv, ScheduleInv, OrphanInv, PromptInv,
                RoundInv, HandedInv, ReplayInv, NoBlindReplay, AbortCall, Unanswered,
                ToolCallFinished, CanCallFinish, Batch, process, history
  <2>2. ResultInv'
    BY <1>9 DEF InductiveInv, ResultInv, TypeOK, AgentStates, AbortCall, Unanswered,
                ToolCallFinished, CanCallFinish, Batch, process, history
  <2> QED
    BY <2>1, <2>2 DEF SafetyParts
<1> QED
  BY <1>1, <1>2, <1>3, <1>4, <1>5, <1>6, <1>7, <1>8, <1>9

LEMMA NextSafe ==
  ASSUME InductiveInv, [Next]_vars
  PROVE  SafetyParts'
<1> USE DEF Open, Waiting, Closed, Alive, Interrupted, Aborting, Reopens, At, Handling, Scheduled
<1>1. CASE AbandonPrevious
  <2>1. /\ PositionInv' /\ ReopenInv' /\ ResultInv' /\ ScheduleInv' /\ PromptInv'
        /\ RoundInv' /\ HandedInv' /\ ReplayInv' /\ NoBlindReplay'
    BY <1>1 DEF InductiveInv, PositionInv, ReopenInv, ResultInv, ScheduleInv, PromptInv,
                RoundInv, HandedInv, ReplayInv, NoBlindReplay, AbandonPrevious, Abandoned,
                RunCompleted, FreshLoop, IsResumable, Terminal, NoConfirmation
  <2>2. OrphanInv'
    BY <1>1 DEF InductiveInv, OrphanInv, PositionInv, ScheduleInv, AbandonPrevious,
                Abandoned, RunCompleted, FreshLoop, IsResumable, Terminal, NoConfirmation
  <2> QED
    BY <2>1, <2>2 DEF SafetyParts
<1>2. CASE StartRun
  BY <1>2 DEF InductiveInv, SafetyParts, PositionInv, ReopenInv, ResultInv, ScheduleInv,
              OrphanInv, PromptInv, RoundInv, HandedInv, ReplayInv, NoBlindReplay, StartRun,
              NewAgentState, FreshLoop, NoConfirmation, history
<1>3. CASE Resume
  <2>1. /\ PositionInv' /\ ReopenInv' /\ ResultInv' /\ ScheduleInv' /\ PromptInv'
        /\ RoundInv' /\ HandedInv' /\ ReplayInv' /\ NoBlindReplay'
    BY <1>3 DEF InductiveInv, PositionInv, ReopenInv, ResultInv, ScheduleInv, PromptInv,
                RoundInv, HandedInv, ReplayInv, NoBlindReplay, Resume, ResumeRequested,
                FreshLoop, IsResumable, Terminal, history
  <2>2. OrphanInv'
    BY <1>3 DEF InductiveInv, OrphanInv, PositionInv, ScheduleInv, Resume, ResumeRequested,
                FreshLoop, IsResumable, Terminal, history
  <2> QED
    BY <2>1, <2>2 DEF SafetyParts
<1>4. CASE Hydrate
  <2>1. /\ PositionInv' /\ ResultInv' /\ ScheduleInv' /\ OrphanInv'
        /\ HandedInv' /\ ReplayInv' /\ NoBlindReplay'
    BY <1>4 DEF InductiveInv, PositionInv, ResultInv, ScheduleInv, OrphanInv, HandedInv,
                ReplayInv, NoBlindReplay, Hydrate, HydrationFinished, CanHydrationFinish,
                ResumeTarget, ResumablePhases
  <2>2. ReopenInv'
    BY <1>4, HydrateReopen
  <2>3. PromptInv'
    BY <1>4 DEF InductiveInv, PositionInv, PromptInv, ReopenInv, RoundInv, Hydrate,
                HydrationFinished, CanHydrationFinish, ResumeTarget, ResumablePhases
  <2>4. RoundInv'
    BY <1>4 DEF InductiveInv, PositionInv, PromptInv, ReopenInv, RoundInv, Hydrate,
                HydrationFinished, CanHydrationFinish, ResumeTarget, ResumablePhases
  <2> QED
    BY <2>1, <2>2, <2>3, <2>4 DEF SafetyParts
<1>5. CASE Compact
  <2>1. /\ PositionInv' /\ ReopenInv' /\ ResultInv' /\ ScheduleInv'
        /\ OrphanInv' /\ HandedInv' /\ ReplayInv' /\ NoBlindReplay'
    BY <1>5 DEF InductiveInv, PositionInv, ReopenInv, ResultInv, ScheduleInv, OrphanInv,
                HandedInv, ReplayInv, NoBlindReplay, Compact, CompactionFinished,
                CanCompactionFinish, process, history
  <2>2. PromptInv'
    BY <1>5 DEF InductiveInv, PositionInv, PromptInv, ReopenInv, RoundInv, Compact,
                CompactionFinished, CanCompactionFinish, process, history
  <2>3. RoundInv'
    BY <1>5 DEF InductiveInv, PositionInv, PromptInv, ReopenInv, RoundInv, Compact,
                CompactionFinished, CanCompactionFinish, process, history
  <2> QED
    BY <2>1, <2>2, <2>3 DEF SafetyParts
<1>6. CASE ThinkExhausted
  BY <1>6 DEF InductiveInv, SafetyParts, PositionInv, ReopenInv, ResultInv, ScheduleInv,
              OrphanInv, PromptInv, RoundInv, HandedInv, ReplayInv, NoBlindReplay,
              ThinkExhausted, RunFailed, CanFail, NoConfirmation, process, history
<1>7. CASE ThinkStopped
  BY <1>7 DEF InductiveInv, SafetyParts, PositionInv, ReopenInv, ResultInv, ScheduleInv,
              OrphanInv, PromptInv, RoundInv, HandedInv, ReplayInv, NoBlindReplay,
              ThinkStopped, StopRequested, CanStop, NoConfirmation, process, history
<1>8. CASE CallModel
  BY <1>8 DEF InductiveInv, SafetyParts, PositionInv, ReopenInv, ResultInv, ScheduleInv,
              OrphanInv, PromptInv, RoundInv, HandedInv, ReplayInv, NoBlindReplay,
              CallModel, history
<1>9. CASE StreamStopped
  BY <1>9 DEF InductiveInv, SafetyParts, PositionInv, ReopenInv, ResultInv, ScheduleInv,
              OrphanInv, PromptInv, RoundInv, HandedInv, ReplayInv, NoBlindReplay,
              StreamStopped, StopRequested, CanStop, NoConfirmation, history
<1>10. CASE StreamFails
  BY <1>10 DEF InductiveInv, SafetyParts, PositionInv, ReopenInv, ResultInv, ScheduleInv,
               OrphanInv, PromptInv, RoundInv, HandedInv, ReplayInv, NoBlindReplay,
               StreamFails, RunFailed, CanFail, NoConfirmation, history
<1>11. CASE \E ids \in SUBSET Calls : ModelCalls(ids)
  <2> PICK ids \in SUBSET Calls : ModelCalls(ids)
    BY <1>11
  <2>1. /\ PositionInv' /\ ReopenInv' /\ ResultInv' /\ ScheduleInv'
        /\ PromptInv' /\ RoundInv' /\ HandedInv' /\ NoBlindReplay'
    BY DEF InductiveInv, PositionInv, ReopenInv, ResultInv, ScheduleInv, PromptInv,
           RoundInv, HandedInv, NoBlindReplay, ModelCalls, ModelFinishedTools,
           CanModelFinish
  <2>2. OrphanInv'
    BY DEF InductiveInv, HandedInv, OrphanInv, PositionInv, RoundInv, ScheduleInv,
           ModelCalls, ModelFinishedTools, CanModelFinish
  <2>3. ReplayInv'
    BY DEF InductiveInv, HandedInv, OrphanInv, PositionInv, ReplayInv, RoundInv,
           ScheduleInv, ModelCalls, ModelFinishedTools, CanModelFinish
  <2> QED
    BY <2>1, <2>2, <2>3 DEF SafetyParts
<1>12. CASE ModelAnswers
  BY <1>12 DEF InductiveInv, SafetyParts, PositionInv, ReopenInv, ResultInv, ScheduleInv,
               OrphanInv, PromptInv, RoundInv, HandedInv, ReplayInv, NoBlindReplay,
               ModelAnswers, ModelFinishedAnswer, CanModelFinish, NoConfirmation, history
<1>13. CASE ClassifyAfterResume
  BY <1>13 DEF InductiveInv, SafetyParts, PositionInv, ReopenInv, ResultInv, ScheduleInv,
               OrphanInv, PromptInv, RoundInv, HandedInv, ReplayInv, NoBlindReplay,
               ClassifyAfterResume, Uncertain, Batch, history
<1>14. CASE AskRetry
  <2>1. /\ PositionInv' /\ ReopenInv' /\ ResultInv' /\ ScheduleInv' /\ OrphanInv'
        /\ RoundInv' /\ HandedInv' /\ ReplayInv' /\ NoBlindReplay'
    BY <1>14 DEF InductiveInv, PositionInv, ReopenInv, ResultInv, ScheduleInv, OrphanInv,
                 RoundInv, HandedInv, ReplayInv, NoBlindReplay, AskRetry,
                 ConfirmationRequested, CanRequestConfirmation, MarkCalls, Batch, history
  <2>2. PromptInv'
    BY <1>14 DEF InductiveInv, PositionInv, PromptInv, RoundInv, TypeOK, AgentStates, Loops,
                 AskRetry, ConfirmationRequested, CanRequestConfirmation, MarkCalls, Batch,
                 history
  <2> QED
    BY <2>1, <2>2 DEF SafetyParts
<1>15. CASE PartitionCalls
  <2>1. /\ PositionInv' /\ ReopenInv' /\ ResultInv' /\ PromptInv'
        /\ RoundInv' /\ HandedInv' /\ NoBlindReplay'
    BY <1>15 DEF InductiveInv, PositionInv, ReopenInv, ResultInv, PromptInv, RoundInv,
                 HandedInv, NoBlindReplay, PartitionCalls, ToRun, Uncertain, Batch, Verdict,
                 AskedGates, Gates, history
  <2>2. ScheduleInv'
    BY <1>15, PartitionSchedule
  <2>3. OrphanInv'
    BY <1>15 DEF InductiveInv, OrphanInv, PositionInv, ScheduleInv, PartitionCalls, ToRun,
                 Uncertain, Batch, Verdict, AskedGates, Gates, history
  <2>4. ReplayInv'
    BY <1>15 DEF InductiveInv, PositionInv, ReplayInv, RoundInv, PartitionCalls, ToRun,
                 Uncertain, Batch, Verdict, AskedGates, Gates, history
  <2> QED
    BY <2>1, <2>2, <2>3, <2>4 DEF SafetyParts
<1>16. CASE \E kind \in AskedGates : AskUser(kind)
  <2> PICK kind \in AskedGates : AskUser(kind)
    BY <1>16
  <2>1. /\ PositionInv' /\ ReopenInv' /\ ScheduleInv' /\ RoundInv'
        /\ HandedInv' /\ ReplayInv' /\ NoBlindReplay'
    BY DEF InductiveInv, PositionInv, ReopenInv, ScheduleInv, RoundInv, HandedInv,
           ReplayInv, NoBlindReplay, AskUser, PassDone, ConfirmationRequested,
           CanRequestConfirmation, MarkCalls, Unscheduled, history
  <2>2. ResultInv'
    BY DEF InductiveInv, PositionInv, ResultInv, ScheduleInv, AskUser, PassDone,
           ConfirmationRequested, CanRequestConfirmation, MarkCalls, Unscheduled, history
  <2>3. OrphanInv'
    BY DEF InductiveInv, OrphanInv, PositionInv, ScheduleInv, AskUser, PassDone,
           ConfirmationRequested, CanRequestConfirmation, MarkCalls, Unscheduled, history
  <2>4. PromptInv'
    BY AskUserPrompt
  <2> QED
    BY <2>1, <2>2, <2>3, <2>4 DEF SafetyParts
<1>17. CASE EndBatch
  BY <1>17 DEF InductiveInv, SafetyParts, PositionInv, ReopenInv, ResultInv, ScheduleInv,
               OrphanInv, PromptInv, RoundInv, HandedInv, ReplayInv, NoBlindReplay,
               EndBatch, PassDone, CanBatchFinish, StopRequested, ToolBatchFinished,
               NoConfirmation, Unscheduled, history
<1>18. CASE LoopAborted
  <2>1. /\ PositionInv' /\ ReopenInv' /\ ResultInv' /\ ScheduleInv'
        /\ PromptInv' /\ HandedInv' /\ ReplayInv' /\ NoBlindReplay'
    BY <1>18 DEF InductiveInv, PositionInv, ReopenInv, ResultInv, ScheduleInv, PromptInv,
                 HandedInv, ReplayInv, NoBlindReplay, LoopAborted, Unanswered, Batch,
                 history
  <2>2. OrphanInv'
    BY <1>18, AbortDone DEF OrphanInv, LoopAborted, Unanswered, Batch
  <2>3. RoundInv'
    BY <1>18 DEF InductiveInv, PositionInv, ResultInv, RoundInv, ScheduleInv, LoopAborted,
                 Unanswered, Batch, history
  <2> QED
    BY <2>1, <2>2, <2>3 DEF SafetyParts
<1>19. CASE FailAfterLoop
  BY <1>19 DEF InductiveInv, SafetyParts, PositionInv, ReopenInv, ResultInv, ScheduleInv,
               OrphanInv, PromptInv, RoundInv, HandedInv, ReplayInv, NoBlindReplay,
               FailAfterLoop, RunFailed, CanFail, NoConfirmation
<1>20. CASE WrapUp
  BY <1>20 DEF InductiveInv, SafetyParts, PositionInv, ReopenInv, ResultInv, ScheduleInv,
               OrphanInv, PromptInv, RoundInv, HandedInv, ReplayInv, NoBlindReplay, WrapUp
<1>21. CASE WrapUpEnds
  BY <1>21, WrapUpEndsSafe
<1>22. CASE CancelledRoundCloses
  <2>1. /\ PositionInv' /\ ReopenInv' /\ ResultInv' /\ ScheduleInv' /\ PromptInv'
        /\ RoundInv' /\ HandedInv' /\ ReplayInv' /\ NoBlindReplay'
    BY <1>22 DEF InductiveInv, PositionInv, ReopenInv, ResultInv, ScheduleInv, PromptInv,
                 RoundInv, HandedInv, ReplayInv, NoBlindReplay, CancelledRoundCloses,
                 ToolBatchFinished, CanBatchFinish, LeaveRun, FreshLoop
  <2>2. OrphanInv'
    BY <1>22, AbortDone DEF OrphanInv, CancelledRoundCloses, ToolBatchFinished,
                            CanBatchFinish, LeaveRun, FreshLoop
  <2> QED
    BY <2>1, <2>2 DEF SafetyParts
<1>23. CASE Prompt
  BY <1>23 DEF InductiveInv, SafetyParts, PositionInv, ReopenInv, ResultInv, ScheduleInv,
               OrphanInv, PromptInv, RoundInv, HandedInv, ReplayInv, NoBlindReplay, Prompt,
               history
<1>24. CASE \E answer \in {"yes", "always", "no", "none"} : Answer(answer)
  <2> PICK answer \in {"yes", "always", "no", "none"} : Answer(answer)
    BY <1>24
  <2>1. /\ PositionInv' /\ ReopenInv' /\ ScheduleInv'
        /\ PromptInv' /\ HandedInv' /\ NoBlindReplay'
    BY DEF InductiveInv, PositionInv, ReopenInv, ScheduleInv, PromptInv, HandedInv,
           NoBlindReplay, Answer, ConfirmationResolved, CanResolveConfirmation, MarkCalls,
           NoConfirmation
  <2>2. ResultInv'
    BY DEF InductiveInv, OrphanInv, PositionInv, PromptInv, ResultInv, ScheduleInv, Answer,
           ConfirmationResolved, CanResolveConfirmation, MarkCalls, NoConfirmation
  <2>3. OrphanInv'
    BY DEF InductiveInv, OrphanInv, PositionInv, PromptInv, ScheduleInv, Answer,
           ConfirmationResolved, CanResolveConfirmation, MarkCalls, NoConfirmation
  <2>4. RoundInv'
    BY DEF InductiveInv, OrphanInv, PositionInv, PromptInv, RoundInv, ScheduleInv, Answer,
           ConfirmationResolved, CanResolveConfirmation, MarkCalls, NoConfirmation
  <2>5. ReplayInv'
    BY DEF InductiveInv, OrphanInv, PositionInv, PromptInv, ReplayInv, ScheduleInv, Answer,
           ConfirmationResolved, CanResolveConfirmation, MarkCalls, NoConfirmation
  <2> QED
    BY <2>1, <2>2, <2>3, <2>4, <2>5 DEF SafetyParts
<1>25. CASE Finish
  <2>1. /\ PositionInv' /\ ReopenInv' /\ ResultInv' /\ ScheduleInv' /\ PromptInv'
        /\ RoundInv' /\ HandedInv' /\ ReplayInv' /\ NoBlindReplay'
    BY <1>25 DEF InductiveInv, PositionInv, ReopenInv, ResultInv, ScheduleInv, PromptInv,
                 RoundInv, HandedInv, ReplayInv, NoBlindReplay, Finish, Terminal, LeaveRun,
                 FreshLoop, history
  <2>2. OrphanInv'
    BY <1>25 DEF InductiveInv, OrphanInv, PositionInv, ScheduleInv, Finish, Terminal,
                 LeaveRun, FreshLoop, history
  <2> QED
    BY <2>1, <2>2 DEF SafetyParts
<1>26. CASE Stop
  <2>1. /\ PositionInv' /\ ReopenInv' /\ ResultInv' /\ ScheduleInv' /\ PromptInv'
        /\ RoundInv' /\ HandedInv' /\ ReplayInv' /\ NoBlindReplay'
    BY <1>26 DEF InductiveInv, PositionInv, ReopenInv, ResultInv, ScheduleInv, PromptInv,
                 RoundInv, HandedInv, ReplayInv, NoBlindReplay, Stop, LeaveRun, FreshLoop,
                 history
  <2>2. OrphanInv'
    BY <1>26 DEF InductiveInv, OrphanInv, PositionInv, ScheduleInv, Stop, LeaveRun,
                 FreshLoop, history
  <2> QED
    BY <2>1, <2>2 DEF SafetyParts
<1>27. CASE CancelWaiting
  <2>1. /\ PositionInv' /\ ReopenInv' /\ ResultInv' /\ ScheduleInv' /\ PromptInv'
        /\ RoundInv' /\ HandedInv' /\ ReplayInv' /\ NoBlindReplay'
    BY <1>27 DEF InductiveInv, PositionInv, ReopenInv, ResultInv, ScheduleInv, PromptInv,
                 RoundInv, HandedInv, ReplayInv, NoBlindReplay, CancelWaiting, LeaveRun,
                 FreshLoop
  <2>2. OrphanInv'
    BY <1>27 DEF InductiveInv, OrphanInv, PositionInv, ScheduleInv, CancelWaiting, LeaveRun,
                 FreshLoop
  <2> QED
    BY <2>1, <2>2 DEF SafetyParts
<1>28. CASE CancelTools
  BY <1>28 DEF InductiveInv, SafetyParts, PositionInv, ReopenInv, ResultInv, ScheduleInv,
               OrphanInv, PromptInv, RoundInv, HandedInv, ReplayInv, NoBlindReplay,
               CancelTools, Unscheduled, history
<1>29. CASE Crash
  BY <1>29 DEF InductiveInv, SafetyParts, PositionInv, ReopenInv, ResultInv, ScheduleInv,
               OrphanInv, PromptInv, RoundInv, HandedInv, ReplayInv, NoBlindReplay, Crash,
               FreshLoop, NoTask
<1>30. CASE ToolStep
  BY <1>30, ToolStepSafe
<1>31. CASE Quiescent \/ UNCHANGED vars
  BY <1>31 DEF SafetyParts, InductiveInv, PositionInv, ReopenInv, ResultInv, ScheduleInv,
     OrphanInv, PromptInv, RoundInv, HandedInv, ReplayInv, NoBlindReplay, Quiescent, vars
<1> QED
  BY <1>1, <1>2, <1>3, <1>4, <1>5, <1>6, <1>7, <1>8, <1>9, <1>10, <1>11, <1>12, <1>13,
     <1>14, <1>15, <1>16, <1>17, <1>18, <1>19, <1>20, <1>21, <1>22, <1>23, <1>24, <1>25,
     <1>26, <1>27, <1>28, <1>29, <1>30, <1>31
  DEF Next, Engine, Outside

LEMMA InitSafe == Init => InductiveInv
<1> SUFFICES ASSUME Init PROVE InductiveInv
  OBVIOUS
<1> USE DEF Open, Waiting, Closed, Alive, Interrupted, Aborting, Reopens, At, Handling, Scheduled
<1>1. /\ st.phase = "complete" /\ st.resumePhase = "none"
      /\ \A c \in Calls : st.status[c] = "absent"
  BY DEF Init, Abandoned, RunCompleted, NewAgentState
<1>2. SafetyParts
  BY <1>1 DEF Init, FreshLoop, NoTask, SafetyParts, PositionInv, ReopenInv, ResultInv, ScheduleInv, OrphanInv,
     PromptInv, RoundInv, HandedInv, ReplayInv, NoBlindReplay
<1> QED
  BY <1>2, InitType DEF InductiveInv, SafetyParts

\* The invariant is kept by every step of the loop, its tool coroutines and
\* the world outside.
THEOREM Inductive == Spec => []InductiveInv
<1>1. Init => InductiveInv
  BY InitSafe
<1>2. InductiveInv /\ [Next]_vars => InductiveInv'
  BY NextSafe, NextType DEF InductiveInv, SafetyParts
<1> QED
  BY <1>1, <1>2, PTL DEF Spec

\* No write that was cut off is ever replayed without the user's word: at most
\* one effect of a call is without an approval of its own, over any number of
\* crashes, cancellations, stops and resumes.
THEOREM ReplayNeedsApproval == Spec => []NoBlindReplay
<1>1. InductiveInv => NoBlindReplay
  BY DEF InductiveInv
<1> QED
  BY <1>1, Inductive, PTL

\* A snapshot that waits for the user names exactly the calls that wait, and no
\* write is in flight beside the prompt.
THEOREM PromptIsExact == Spec => []PromptCoversWaiting
<1>1. InductiveInv => PromptCoversWaiting
  BY DEF InductiveInv, PromptInv, PromptCoversWaiting, Waiting, Interrupted
<1> QED
  BY <1>1, Inductive, PTL

\* When a round's result message is put together every call of the batch has a
\* result or was refused, so that the look-up of results never fails.
THEOREM BatchIsResolvable == Spec => []BatchResolvable
<1>1. InductiveInv => BatchResolvable
  <2> SUFFICES ASSUME InductiveInv, PassDone, loop.ask = {}, NEW c \in Batch(st)
               PROVE  st.result[c] # "none" \/ st.status[c] = "failed"
    BY DEF BatchResolvable
  <2>1. c \in Calls /\ st.status[c] # "absent"
    BY DEF Batch
  <2>2. ~Open(c) /\ ~Waiting(c)
    BY <2>1 DEF InductiveInv, PassDone, ScheduleInv, RoundInv, At, Open, Closed
  <2>3. st.status[c] \in {"completed", "failed"}
    BY <2>1, <2>2 DEF InductiveInv, TypeOK, AgentStates, CallStatuses, Open, Waiting
  <2> QED
    BY <2>1, <2>3 DEF InductiveInv, ResultInv
<1> QED
  BY <1>1, Inductive, PTL

============================================================================
