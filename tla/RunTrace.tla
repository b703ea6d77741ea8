------------------------------- MODULE RunTrace -------------------------------
(***************************************************************************)
(* What is kept of a run beside the conversation.                           *)
(*   - The trace store (observability/trace_store.py): a row per run, its    *)
(*     events with a sequence number counted in memory, a row per round that *)
(*     is written twice (live, and in one batch when the run is finished).   *)
(*     The writers are the engine, on the event loop, and the stream, in     *)
(*     threads; every write may fail and is then dropped.                    *)
(*   - The spans of the observer (observability/observer.py): a stack per    *)
(*     task, copied when a task is forked, says under which span a new one   *)
(*     hangs.                                                                *)
(* A request has a trace id of its own unless neither metrics nor tracing    *)
(* is on: then the id is made from the session and its requests share it.   *)
(* The cases of an evaluation share theirs with their earlier runs.         *)
(***************************************************************************)
EXTENDS Naturals, Sequences, FiniteSets, Functions

CONSTANTS TracedRuns,   \* requests of one session, one after the other
          MaxEmits,     \* emissions of all the runs
          SpanTasks,    \* tool calls that run beside the main task
          MainTask,
          MaxSpans,     \* spans opened in a run
          MaxBlocks,    \* bound: with-blocks of a task inside one another
          NoTrace       \* no phase, no span

ASSUME RunTraceAssumption ==
    /\ NoTrace \notin Nat /\ NoTrace # "live"
    /\ MainTask \notin SpanTasks /\ MaxSpans \in Nat

VARIABLES
    trShared,    \* the requests of the session share one trace id
    trRun,       \* trace_runs: id |-> [of, status]
    trEvents,    \* trace_events
    trRounds,    \* trace_rounds: <<id, turn>> |-> [of, phase]
    trSeq,       \* _seq: the last sequence number given out per id, 0: none
    trEngine,    \* the task of a run: none, running, ended (with an outcome), failed
    trStage,     \* the stream of a run: new, open, row, rounds, pop, closed
    trDone,      \* emissions so far: [all, rounds]
    trLive,      \* rounds whose live row was written, as <<run, turn>>
    trOutlived   \* runs finished while their engine was still at work

traceVars == <<trShared, trRun, trEvents, trRounds, trSeq, trEngine,
               trStage, trDone, trLive, trOutlived>>

TraceIds == TracedRuns \cup {"session"}
TraceKey(r) == IF trShared THEN "session" ELSE r

TraceTypeOK ==
    /\ trShared \in BOOLEAN
    /\ DOMAIN trRun \subseteq TraceIds
    /\ \A e \in trEvents : e.id \in TraceIds /\ e.of \in TracedRuns
    /\ DOMAIN trRounds \subseteq TraceIds \X (1..MaxEmits)
    /\ trSeq \in [TraceIds -> Nat]
    /\ trEngine \in [TracedRuns -> {"none", "running", "ended", "failed"}]
    /\ trStage \in [TracedRuns -> {"new", "open", "row", "rounds", "pop", "closed"}]
    /\ trLive \subseteq TracedRuns \X (1..MaxEmits) /\ trOutlived \subseteq TracedRuns

TraceInit ==
    /\ trShared \in BOOLEAN
    /\ trRun = <<>> /\ trEvents = {} /\ trRounds = <<>>
    /\ trSeq = [i \in TraceIds |-> 0]
    /\ trEngine = [r \in TracedRuns |-> "none"]
    /\ trStage = [r \in TracedRuns |-> "new"]
    /\ trDone = [r \in TracedRuns |-> [all |-> 0, rounds |-> 0]]
    /\ trLive = {} /\ trOutlived = {}

Upsert(f, k, v) == [x \in DOMAIN f \cup {k} |-> IF x = k THEN v ELSE f[x]]
Removed(f, K) == [x \in DOMAIN f \ K |-> f[x]]

\* start_run, then the task of the run: the id is the primary key, so a second
\* run under the same id finds the row taken and leaves it; so does a failure.
StartTrace(r) ==
    /\ trStage[r] = "new"
    /\ \A q \in TracedRuns : trStage[q] \in {"new", "closed"}
    /\ trStage' = [trStage EXCEPT ![r] = "open"]
    /\ trEngine' = [trEngine EXCEPT ![r] = "running"]
    /\ \/ TraceKey(r) \notin DOMAIN trRun
          /\ trRun' = Upsert(trRun, TraceKey(r), [of |-> r, status |-> "running"])
       \/ UNCHANGED trRun
    /\ UNCHANGED <<trShared, trEvents, trRounds, trSeq, trDone, trLive,
                   trOutlived>>

\* The engine may go on; MaxEmits bounds what is emitted in all.
Working(r) ==
    /\ trEngine[r] = "running"
    /\ FoldFunction(LAMBDA d, n : d.all + n, 0, trDone) < MaxEmits

\* record_event: the number is given out under a lock, whether the event is then
\* written or not.  (An event of kind "state" writes its revision to trace_states in
\* the same transaction; that table is a copy of these rows and is left out.)
RecordEvent(r) ==
    /\ Working(r) /\ trDone' = [trDone EXCEPT ![r].all = @ + 1]
    /\ LET seq == trSeq[TraceKey(r)] + 1
           event == [id |-> TraceKey(r), of |-> r, at |-> trDone'[r].all, seq |-> seq]
       IN /\ trSeq' = [trSeq EXCEPT ![TraceKey(r)] = seq]
          /\ trEvents' = trEvents \/ trEvents' = trEvents \cup {event}
    /\ UNCHANGED <<trShared, trRun, trRounds, trEngine, trStage, trLive, trOutlived>>

\* A slip: the batch puts its own empty phase into the rows.
UpsertRoundsPlain(rows, keys, r, phase) ==
    [k \in DOMAIN rows \cup keys |->
        IF k \in keys THEN [of |-> r, phase |-> phase] ELSE rows[k]]

\* _ROUND_UPSERT for some rounds: a row that says no phase keeps the one that is there.
UpsertRounds(rows, keys, r, phase) ==
    [k \in DOMAIN rows \cup keys |->
        IF k \notin keys THEN rows[k]
        ELSE [of |-> r, phase |-> IF phase = NoTrace /\ k \in DOMAIN rows
                                  THEN rows[k].phase ELSE phase]]

\* The loop counts the round and keeps it; a recorder that fails does not stop it.
CountRound(r) ==
    trDone' = [trDone EXCEPT ![r] = [all |-> @.all + 1, rounds |-> @.rounds + 1]]

\* record_round, with the phase the machine is in.
RecordRound(r) ==
    /\ Working(r) /\ CountRound(r)
    /\ LET turn == trDone'[r].rounds
       IN \/ UNCHANGED <<trRounds, trLive>>
          \/ /\ trRounds' = UpsertRounds(trRounds, {<<TraceKey(r), turn>>}, r, "live")
             /\ trLive' = trLive \cup {<<r, turn>>}
    /\ UNCHANGED <<trShared, trRun, trEvents, trSeq, trEngine, trStage,
                   trOutlived>>

EngineEnds(r) ==
    /\ trEngine[r] = "running"
    /\ \E how \in {"ended", "failed"} : trEngine' = [trEngine EXCEPT ![r] = how]
    /\ UNCHANGED <<trShared, trRun, trEvents, trRounds, trSeq, trStage,
                   trDone, trLive, trOutlived>>

\* finish_run, first transaction.  The stream comes here when the task is over or,
\* its connection lost, while the task still runs.
FinishRow(r) ==
    /\ trStage[r] = "open"
    /\ trOutlived' = IF trEngine[r] = "running" THEN trOutlived \cup {r} ELSE trOutlived
    /\ \/ /\ TraceKey(r) \in DOMAIN trRun
          /\ trRun' = [trRun EXCEPT ![TraceKey(r)].status = "finished"]
          /\ trStage' = [trStage EXCEPT ![r] = "row"]
       \/ /\ TraceKey(r) \notin DOMAIN trRun
          /\ trStage' = [trStage EXCEPT ![r] = "row"] /\ UNCHANGED trRun
       \/ trStage' = [trStage EXCEPT ![r] = "closed"] /\ UNCHANGED trRun
    /\ UNCHANGED <<trShared, trEvents, trRounds, trSeq, trEngine, trDone, trLive>>

\* _write_rounds: the rounds of the outcome, when there is one.
FinishRounds(r) ==
    /\ trStage[r] = "row"
    /\ \/ /\ trEngine[r] = "ended" /\ r \notin trOutlived
          /\ trRounds' = UpsertRounds(trRounds, {TraceKey(r)} \X (1..trDone[r].rounds),
                                      r, NoTrace)
          /\ trStage' = [trStage EXCEPT ![r] = "rounds"]
       \/ /\ trEngine[r] # "ended" \/ r \in trOutlived
          /\ trStage' = [trStage EXCEPT ![r] = "rounds"] /\ UNCHANGED trRounds
       \/ trStage' = [trStage EXCEPT ![r] = "closed"] /\ UNCHANGED trRounds
    /\ UNCHANGED <<trShared, trRun, trEvents, trSeq, trEngine, trDone, trLive,
                   trOutlived>>

FinishPop(r) ==
    /\ trStage[r] = "rounds"
    /\ trSeq' = [trSeq EXCEPT ![TraceKey(r)] = 0]
    /\ trStage' = [trStage EXCEPT ![r] = "closed"]
    /\ UNCHANGED <<trShared, trRun, trEvents, trRounds, trEngine, trDone,
                   trLive, trOutlived>>

\* cleanup: everything of a run started before the retention period.
Cleanup(i) ==
    /\ i \in DOMAIN trRun
    /\ \A r \in TracedRuns : TraceKey(r) = i => trStage[r] \in {"new", "closed"}
                                             /\ trEngine[r] # "running"
    /\ trRun' = Removed(trRun, {i})
    /\ trEvents' = {e \in trEvents : e.id # i}
    /\ trRounds' = Removed(trRounds, {k \in DOMAIN trRounds : k[1] = i})
    /\ trLive' = {x \in trLive : TraceKey(x[1]) # i}
    /\ UNCHANGED <<trShared, trSeq, trEngine, trStage, trDone, trOutlived>>

TraceNext ==
    \/ \E r \in TracedRuns :
          StartTrace(r) \/ RecordEvent(r) \/ RecordRound(r) \/ EngineEnds(r)
          \/ FinishRow(r) \/ FinishRounds(r) \/ FinishPop(r)
    \/ \E i \in TraceIds : Cleanup(i)

\* run_detail: the events of a run, to be read by number, and its rounds by turn.
RunDetail(i) ==
    [events |-> {e \in trEvents : e.id = i},
     rounds |-> [n \in {k[2] : k \in {x \in DOMAIN trRounds : x[1] = i}} |->
                    trRounds[<<i, n>>]]]

\* With an id of its own, a run reads back as it happened: its events have numbers of
\* their own that rise as they were emitted, unless the run outlived its finish, and a
\* round shows the phase its live row recorded, also after the batch that ends the run.
TraceReadsTrue ==
    ~trShared => \A r \in TracedRuns :
      LET detail == RunDetail(r)
      IN /\ r \notin trOutlived =>
              \A e, f \in detail.events : e # f /\ e.seq <= f.seq => e.at < f.at
         /\ \A x \in trLive : x[1] = r =>
              x[2] \in DOMAIN detail.rounds /\ detail.rounds[x[2]].phase = "live"

-------------------------------------------------------------------------------
(* Spans *)

VARIABLES
    spStack,   \* _RUN_STACK of a task: handles, the innermost last
    spBlocks,  \* the with-blocks a task is in: handles, NoTrace where there is none
    spOpen,    \* handles not finished
    spAlive,   \* tasks that run
    spCount    \* handles given out

spanVars == <<spStack, spBlocks, spOpen, spAlive, spCount>>

AllTasks == SpanTasks \cup {MainTask}
Handles == 1..MaxSpans

SpanTypeOK ==
    /\ \A t \in AllTasks : \A k \in DOMAIN spStack[t] : spStack[t][k] \in Handles
    /\ \A t \in AllTasks : \A k \in DOMAIN spBlocks[t] : spBlocks[t][k] \in Handles \cup {NoTrace}
    /\ spOpen \subseteq Handles /\ spAlive \subseteq AllTasks /\ spCount \in 0..MaxSpans

SpanInit ==
    /\ spStack = [t \in AllTasks |-> <<>>] /\ spBlocks = [t \in AllTasks |-> <<>>]
    /\ spOpen = {} /\ spAlive = {MainTask} /\ spCount = 0

LastOf(s) == s[Len(s)]
Popped(s) == SubSeq(s, 1, Len(s) - 1)

\* request_span, llm_span, tool_span: _start_run pushes the handle; without a
\* tracer, or when it fails, the block has none.
OpenSpan(t) ==
    /\ t \in spAlive /\ Len(spBlocks[t]) < MaxBlocks
    /\ \/ /\ spCount < MaxSpans
          /\ LET h == spCount + 1
             IN /\ spCount' = h /\ spOpen' = spOpen \cup {h}
                /\ spStack' = [spStack EXCEPT ![t] = Append(@, h)]
                /\ spBlocks' = [spBlocks EXCEPT ![t] = Append(@, h)]
       \/ /\ spBlocks' = [spBlocks EXCEPT ![t] = Append(@, NoTrace)]
          /\ UNCHANGED <<spStack, spOpen, spCount>>
    /\ UNCHANGED spAlive

\* A slip: the top of the stack is taken off whatever block ends.
UnstackAny(t, h) == IF spStack[t] = <<>> THEN <<>> ELSE Popped(spStack[t])

\* _finish_span: the handle leaves the stack when it is the innermost.
Unstack(t, h) ==
    IF spStack[t] # <<>> /\ LastOf(spStack[t]) = h THEN Popped(spStack[t]) ELSE spStack[t]

\* A block ends, normally or by an exception or a cancellation.  The main task may
\* end its blocks while calls it gathered are still at work: gather does not wait
\* for the siblings of the one that raised.
CloseSpan(t) ==
    /\ t \in spAlive /\ spBlocks[t] # <<>>
    /\ LET h == LastOf(spBlocks[t])
       IN /\ spStack' = [spStack EXCEPT ![t] = Unstack(t, h)]
          /\ spOpen' = spOpen \ {h}
    /\ spBlocks' = [spBlocks EXCEPT ![t] = Popped(@)]
    /\ UNCHANGED <<spAlive, spCount>>

\* gather makes a task per call; a task starts with a copy of the context.
ForkTask(t) ==
    /\ t \in SpanTasks \ spAlive /\ spBlocks[MainTask] # <<>>
    /\ spStack' = [spStack EXCEPT ![t] = spStack[MainTask]]
    /\ spAlive' = spAlive \cup {t}
    /\ UNCHANGED <<spBlocks, spOpen, spCount>>

TaskReturns(t) ==
    /\ t \in SpanTasks \cap spAlive /\ spBlocks[t] = <<>>
    /\ spAlive' = spAlive \ {t}
    /\ UNCHANGED <<spStack, spBlocks, spOpen, spCount>>

SpanNext ==
    \/ \E t \in AllTasks : OpenSpan(t) \/ CloseSpan(t)
    \/ \E t \in SpanTasks : ForkTask(t) \/ TaskReturns(t)

\* The blocks of a list that have a handle.
Held(blocks) == {i \in DOMAIN blocks : blocks[i] # NoTrace}

\* The last m handles of a stack are those of the blocks, in their order.
EndsWith(stack, m, blocks) ==
    \E place \in [1..m -> Held(blocks)] :
      /\ \A i \in Held(blocks) : \E k \in 1..m : place[k] = i
      /\ \A j, k \in 1..m : j < k => place[j] < place[k]
      /\ \A k \in 1..m : stack[Len(stack) - m + k] = blocks[place[k]]

\* What a task has on its stack beyond what it was forked with is exactly the
\* handles of the blocks it is in, in their order, all of them unfinished: a new
\* span hangs under the innermost open span of its own task, whatever failed,
\* was cancelled or ended out of turn in the others.
SpansFollowBlocks ==
    \A t \in spAlive :
      /\ \E m \in 0..Len(spStack[t]) :
           /\ EndsWith(spStack[t], m, spBlocks[t])
           /\ t = MainTask => m = Len(spStack[t])
      /\ \A i \in Held(spBlocks[t]) : spBlocks[t][i] \in spOpen

\* The trace store and the span tree both tell what the run did.
TraceTellsTheRun == TraceReadsTrue /\ SpansFollowBlocks
===============================================================================
