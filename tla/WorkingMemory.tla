---------------------------- MODULE WorkingMemory ----------------------------
(***************************************************************************)
(* The history one conversation keeps: the window the model reads           *)
(* (context/memory/working.py), the summary segments that stand for what    *)
(* was folded away (summary.py, compaction.py), the messages and segments   *)
(* on disk (store.py), and the reload of a bounded window by another        *)
(* process (engine/loop.py).  A message is its role; sizes are abstract:    *)
(* how many rounds fit the budget, and whether the window is still too      *)
(* large, is any outcome.                                                   *)
(***************************************************************************)
EXTENDS Naturals, Sequences, FiniteSets, FiniteSetsExt

CONSTANTS MaxMessages,      \* bound: messages of the conversation
          MaxLoadedRounds,  \* context.max_loaded_rounds
          MaxWindowRounds,  \* context.max_window_rounds
          MinRecentRounds   \* context.min_recent_rounds

KeepRecentRounds == 2

ASSUME MemoryAssumption ==
    /\ MaxMessages \in Nat /\ MaxLoadedRounds \in Nat \ {0}
    /\ MaxWindowRounds \in Nat \ {0} /\ MinRecentRounds \in Nat \ {0}

VARIABLES
    wmLog,       \* messages on disk; the position is the sequence number
    wmStored,    \* summary segments on disk, <<seq_from, seq_to>>
    wmLive,      \* a process has the conversation loaded
    wmRaw,       \* memory.raw of that process
    wmPending,   \* how many of its newest messages are not on disk
    wmGone,      \* memory.discarded
    wmSegments,  \* summary.segments, in the order of the list
    wmSummed,    \* history: messages that went into some summary
    wmCut        \* history: a compaction removed more than it had summarised

memoryVars == <<wmLog, wmStored, wmLive, wmRaw, wmPending, wmGone, wmSegments,
                wmSummed, wmCut>>

Roles == {"user", "assistant", "tool"}
Spans == (1..MaxMessages) \X (1..MaxMessages)

MemoryTypeOK ==
    /\ wmLog \in Seq(Roles) /\ wmRaw \in Seq(Roles)
    /\ wmStored \subseteq Spans /\ wmSegments \in Seq(Spans)
    /\ wmLive \in BOOLEAN /\ wmCut \in BOOLEAN
    /\ wmPending \in 0..Len(wmRaw) /\ wmGone \in 0..MaxMessages
    /\ wmSummed \subseteq 1..MaxMessages

MemoryInit ==
    /\ wmLog = <<>> /\ wmStored = {} /\ wmRaw = <<>> /\ wmSegments = <<>>
    /\ wmLive = FALSE /\ wmPending = 0 /\ wmGone = 0
    /\ wmSummed = {} /\ wmCut = FALSE

-------------------------------------------------------------------------------
Answers(msgs) == {i \in DOMAIN msgs : msgs[i] = "assistant"}

\* The position of the k-th newest assistant frame.
RoundStart(msgs, k) == CHOOSE i \in Answers(msgs) :
                           Cardinality({j \in Answers(msgs) : j >= i}) = k

\* _recent_boundary: how many messages lie before the newest rounds.
RecentBoundary(msgs, keep) ==
    IF Cardinality(Answers(msgs)) <= keep THEN 0 ELSE RoundStart(msgs, keep) - 1

\* _rounds_to_keep: what fits the budget, capped and never below the floor.
RoundsToKeep == MinRecentRounds..Max({MinRecentRounds, MaxWindowRounds})

\* load_messages: where a reload of the newest rounds starts.
LoadStart(rounds) ==
    IF Cardinality(Answers(wmLog)) < rounds THEN 1 ELSE RoundStart(wmLog, rounds)

Covers(spans) == UNION {s[1]..s[2] : s \in spans}

\* count_covered_prefix: segments in order, up to the first hole.
CoveredPrefix == Max({n \in 0..MaxMessages : 1..n \subseteq Covers(wmStored)})

\* A slip: the load is bounded whether or not a summary covers the rest.
SkippedAlways == LoadStart(MaxLoadedRounds) - 1

\* _load_recent_history: bounded only when the skipped prefix is covered.
Skipped ==
    LET skipped == LoadStart(MaxLoadedRounds) - 1
    IN IF wmLog # <<>> /\ CoveredPrefix >= skipped THEN skipped ELSE 0

-------------------------------------------------------------------------------
\* list_summary_segments orders by seq_from, and by nothing else.
InOrder(spans) ==
    {q \in [1..Cardinality(spans) -> spans] :
        /\ {q[i] : i \in DOMAIN q} = spans
        /\ \A i, j \in DOMAIN q : i < j => q[i][1] <= q[j][1]}

\* _load_memory_if_first_turn: history, discarded count and summary.
Load ==
    /\ ~wmLive
    /\ wmLive' = TRUE
    /\ wmGone' = Skipped
    /\ wmRaw' = SubSeq(wmLog, Skipped + 1, Len(wmLog))
    /\ wmPending' = 0
    /\ wmSegments' \in InOrder(wmStored)
    /\ UNCHANGED <<wmLog, wmStored, wmSummed, wmCut>>

Buffer(role) ==
    /\ wmLive /\ wmGone + Len(wmRaw) < MaxMessages
    /\ wmRaw' = Append(wmRaw, role)
    /\ wmPending' = wmPending + 1
    /\ UNCHANGED <<wmLog, wmStored, wmLive, wmGone, wmSegments, wmSummed, wmCut>>

Newest == IF wmRaw = <<>> THEN "none" ELSE wmRaw[Len(wmRaw)]

\* A turn starts, or the results of a round come in: buffered only.
AppendUser == wmPending = 0 /\ Newest # "user" /\ Buffer("user")
AppendResults == Newest = "assistant" /\ Buffer("tool")

\* The model answers: the buffered messages and the answer go to disk in the
\* transaction of the snapshot, with the next sequence numbers.
AppendAnswer ==
    /\ wmLive /\ Newest \in {"user", "tool"}
    /\ wmGone + Len(wmRaw) < MaxMessages
    /\ wmRaw' = Append(wmRaw, "assistant")
    /\ wmLog' = wmLog \o SubSeq(wmRaw, Len(wmRaw) - wmPending + 1, Len(wmRaw))
                      \o <<"assistant">>
    /\ wmPending' = 0
    /\ UNCHANGED <<wmStored, wmLive, wmGone, wmSegments, wmSummed, wmCut>>

\* A slip: the flushed messages stay in the buffer.
PersistTwice ==
    /\ wmLive /\ wmPending > 0 /\ Len(wmLog) < MaxMessages
    /\ wmLog' = wmLog \o SubSeq(wmRaw, Len(wmRaw) - wmPending + 1, Len(wmRaw))
    /\ UNCHANGED <<wmStored, wmLive, wmRaw, wmPending, wmGone, wmSegments, wmSummed, wmCut>>

\* _persist_turn at the end of a run, cancelled or not.
PersistTurn ==
    /\ wmLive /\ wmPending > 0
    /\ wmLog' = wmLog \o SubSeq(wmRaw, Len(wmRaw) - wmPending + 1, Len(wmRaw))
    /\ wmPending' = 0
    /\ UNCHANGED <<wmStored, wmLive, wmRaw, wmGone, wmSegments, wmSummed, wmCut>>

\* enforce_budget: the oldest two segments become one, as long as more than two
\* are left and the text is too long; the table is rewritten.
Merged(segments) ==
    {segments} \cup
    {<<<<segments[1][1], segments[k][2]>>>> \o SubSeq(segments, k + 1, Len(segments))
        : k \in {m \in 2..Len(segments) : Len(segments) - m + 2 > 2}}

\* The range a summary stands for: what follows the messages discarded so far.
SpanOf(boundary) == <<wmGone + 1, wmGone + boundary>>

\* compact(): summarise what lies before the newest two rounds, squash the window
\* to the budget, then to one round as long as it is too large; at the end the
\* segment is added and the summary brought within its budget.
Compact(keep, tighten) ==
    LET boundary == RecentBoundary(wmRaw, KeepRecentRounds)
        first == RecentBoundary(wmRaw, keep)
        removed == IF tighten THEN Max({first, RecentBoundary(wmRaw, 1)}) ELSE first
        span == SpanOf(boundary)
        folded == (wmGone + 1)..(wmGone + boundary)
    IN /\ wmLive /\ boundary > 0
       /\ removed > 0
       /\ wmRaw' = SubSeq(wmRaw, removed + 1, Len(wmRaw))
       /\ wmGone' = wmGone + removed
       /\ \E q \in Merged(Append(wmSegments, span)) :
            /\ wmSegments' = q
            /\ wmStored' = IF q = Append(wmSegments, span) THEN wmStored \cup {span}
                           ELSE {q[i] : i \in DOMAIN q}
       /\ wmSummed' = wmSummed \cup folded
       /\ wmCut' = (wmCut \/ removed > boundary)
       /\ UNCHANGED <<wmLog, wmLive, wmPending>>

\* The process dies, or the session is evicted: the buffered messages are lost.
Unload ==
    /\ wmLive
    /\ wmLive' = FALSE
    /\ wmRaw' = <<>> /\ wmPending' = 0 /\ wmGone' = 0 /\ wmSegments' = <<>>
    /\ UNCHANGED <<wmLog, wmStored, wmSummed, wmCut>>

MemoryNext ==
    \/ Load \/ AppendUser \/ AppendResults \/ AppendAnswer \/ PersistTurn \/ Unload
    \/ \E keep \in RoundsToKeep, tighten \in BOOLEAN : Compact(keep, tighten)

MemorySpec == MemoryInit /\ [][MemoryNext]_memoryVars

-------------------------------------------------------------------------------
\* The window is the tail of the conversation: what was discarded, what is held
\* and what is on disk line up, so a segment names the messages it was made of
\* (store.py:490), across reloads and lost buffers.
WindowLinesUp ==
    wmLive => /\ wmGone + Len(wmRaw) = Len(wmLog) + wmPending
              /\ \A i \in 1..(Len(wmRaw) - wmPending) : wmRaw[i] = wmLog[wmGone + i]

\* What the window has left behind is in some summary, in the process that folded
\* it and in every one that reloads, unless a compaction has kept fewer rounds than its
\* summary leaves out: because the window was too large (compaction.py:135), or because
\* min_recent_rounds is 1 (settings_models.py:200) where the summary leaves out two.
NothingIsForgotten == wmLive /\ ~wmCut => 1..wmGone \subseteq wmSummed

\* The window is the tail of the history, and the summaries hold what is before it.
HistoryIsAccountedFor == WindowLinesUp /\ NothingIsForgotten

\* What the documentation of the reload says: it skips only what a summary holds
\* (loop.py:568).
SkippedWasSummarised == [][~wmLive /\ wmLive' => 1..wmGone' \subseteq wmSummed]_memoryVars
===============================================================================
