---------------------------- MODULE LongTermMemory ----------------------------
(***************************************************************************)
(* What outlives a conversation (context/memory/distill.py, store.py,       *)
(* vector.py): episodes and facts a model extracts from idle conversations, *)
(* by the sweeper and by the backlog of a new loop, and what the user edits *)
(* and deletes meanwhile.  Rows are in SQLite; with a vector database the   *)
(* vector of a fact is a point there, and the row only has the mark         *)
(* indexed_at.  Handlers await their store call in a thread; everything     *)
(* else, the embedding call included, holds the event loop.                 *)
(***************************************************************************)
EXTENDS Naturals, FiniteSets, FiniteSetsExt

CONSTANTS Chats,         \* conversations of the user
          Distillers,    \* the sweeper, the backlog of a new loop
          Summaries,     \* texts of episodes
          Statements,    \* texts of facts
          Keys,          \* fact keys
          MaxAttempts,   \* ltm.distill_max_attempts
          Absent         \* no row, no point, no conversation

ASSUME LtmAssumption ==
    MaxAttempts \in Nat \ {0} /\ Absent \notin Chats

Subjects == {"stock", "market"}

VARIABLES
    ltChats,     \* conversations in the store
    ltLedger,    \* ltm_processed: none, or attempts and episodes_written
    ltEpisodes,  \* ltm_episodes, <<conversation, summary>>
    ltFacts,     \* ltm_facts: Absent, or statement and subject
    ltMarks,     \* keys whose row says it is indexed
    ltPoints,    \* the vector database: the text a point was made of
    ltWorker,    \* what a distiller is doing
    ltIndexing,  \* the fact the event loop is embedding, with the text it read
    ltTodo,      \* edited keys whose handler will index them next
    ltDropped,   \* deleted keys whose handler will remove the point next
    ltLate,      \* history: conversations deleted while being distilled
    ltOverlap    \* history: keys whose vector was made or left while they changed

ltmVars == <<ltChats, ltLedger, ltEpisodes, ltFacts, ltMarks, ltPoints, ltWorker,
             ltIndexing, ltTodo, ltDropped, ltLate, ltOverlap>>
ltmRows == <<ltFacts, ltMarks>>

Fact == [statement : Statements, subject : Subjects]
ASSUME NoFactAssumption == Absent \notin Fact

NoRow == [attempts |-> 0, written |-> 0, known |-> FALSE]
Idle == [at |-> "idle", chat |-> Absent, written |-> 0, attempts |-> 0]

LtmTypeOK ==
    /\ ltChats \subseteq Chats /\ ltLate \subseteq Chats
    /\ ltLedger \in [Chats -> [attempts : 0..MaxAttempts, written : 0..Cardinality(Summaries),
                               known : BOOLEAN]]
    /\ ltEpisodes \subseteq Chats \X Summaries
    /\ ltFacts \in [Keys -> Fact \cup {Absent}]
    /\ ltPoints \in [Keys -> Fact \cup {Absent}]
    /\ ltMarks \subseteq Keys /\ ltTodo \subseteq Keys
    /\ ltDropped \subseteq Keys /\ ltOverlap \subseteq Keys
    /\ ltWorker \in [Distillers -> [at : {"idle", "chosen", "asking", "done", "failed"},
                        chat : Chats \cup {Absent}, written : 0..Cardinality(Summaries),
                        attempts : 0..MaxAttempts]]
    /\ ltIndexing \in [key : Keys, text : Fact] \cup {Absent}

LtmInit ==
    /\ ltChats = Chats /\ ltLedger = [c \in Chats |-> NoRow]
    /\ ltEpisodes = {} /\ ltFacts = [k \in Keys |-> Absent]
    /\ ltMarks = {} /\ ltPoints = [k \in Keys |-> Absent]
    /\ ltWorker = [d \in Distillers |-> Idle]
    /\ ltIndexing = Absent /\ ltTodo = {} /\ ltDropped = {}
    /\ ltLate = {} /\ ltOverlap = {}

LoopIsFree == ltIndexing = Absent

-------------------------------------------------------------------------------
\* ltm_distill_candidates: idle, nothing written yet, attempts left.
Candidates ==
    {c \in ltChats : ltLedger[c].written = 0 /\ ltLedger[c].attempts < MaxAttempts}

Work(d, at, c) == ltWorker' = [ltWorker EXCEPT ![d].at = at, ![d].chat = c]

\* distill_user_backlog: a conversation of the list; others are distilled first.
Choose(d, c) ==
    /\ LoopIsFree /\ ltWorker[d].at = "idle" /\ c \in Candidates
    /\ Work(d, "chosen", c)
    /\ UNCHANGED <<ltChats, ltLedger, ltEpisodes, ltmRows, ltPoints, ltIndexing, ltTodo,
                   ltDropped, ltLate, ltOverlap>>

\* distill_conversation: skip one that is gone, or ask the model about it.
Extract(d) ==
    /\ LoopIsFree /\ ltWorker[d].at = "chosen"
    /\ IF ltWorker[d].chat \in ltChats THEN Work(d, "asking", ltWorker[d].chat)
       ELSE ltWorker' = [ltWorker EXCEPT ![d] = Idle]
    /\ UNCHANGED <<ltChats, ltLedger, ltEpisodes, ltmRows, ltPoints, ltIndexing, ltTodo,
                   ltDropped, ltLate, ltOverlap>>

\* A slip: an edited statement keeps the mark of the old vector.
PutKeepMark(k, f) ==
    /\ ltFacts' = [ltFacts EXCEPT ![k] = f]
    /\ ltMarks' = ltMarks
    /\ ltOverlap' = IF \/ ltIndexing # Absent /\ ltIndexing.key = k
                       \/ ltFacts[k] # Absent /\ ltFacts[k].subject # f.subject
                    THEN ltOverlap \cup {k} ELSE ltOverlap

\* upsert_ltm_fact: a changed statement drops the mark; a changed subject, which
\* is part of the embedded text, does not.
Put(k, f) ==
    /\ ltFacts' = [ltFacts EXCEPT ![k] = f]
    /\ ltMarks' = IF ltFacts[k] # Absent /\ ltFacts[k].statement = f.statement
                  THEN ltMarks ELSE ltMarks \ {k}
    /\ ltOverlap' = IF \/ ltIndexing # Absent /\ ltIndexing.key = k
                       \/ ltFacts[k] # Absent /\ ltFacts[k].subject # f.subject
                    THEN ltOverlap \cup {k} ELSE ltOverlap

\* _write_episodes: a summary is kept once per user, whatever its conversation.
Fresh(summaries) == {t \in summaries : \A e \in ltEpisodes : e[2] # t}

\* The model has answered: episodes, then facts, each indexed as it is written.
Write(d, summaries) ==
    /\ LoopIsFree /\ ltWorker[d].at = "asking"
    /\ LET c == ltWorker[d].chat
       IN /\ ltEpisodes' = ltEpisodes \cup ({c} \X Fresh(summaries))
          /\ ltWorker' = [ltWorker EXCEPT ![d].at = "done",
                                          ![d].written = Cardinality(Fresh(summaries))]
    /\ \/ UNCHANGED <<ltmRows, ltIndexing, ltOverlap>>
       \/ \E k \in Keys, f \in Fact :
             /\ Put(k, f)
             /\ ltIndexing' = [key |-> k, text |-> f]
    /\ UNCHANGED <<ltChats, ltLedger, ltPoints, ltTodo, ltDropped, ltLate>>

\* The call, or the parsing of what it returned, fails: attempts is read now.
Fail(d) ==
    /\ LoopIsFree /\ ltWorker[d].at = "asking"
    /\ ltWorker' = [ltWorker EXCEPT ![d].at = "failed",
                       ![d].attempts = Min({MaxAttempts, ltLedger[ltWorker[d].chat].attempts + 1})]
    /\ UNCHANGED <<ltChats, ltLedger, ltEpisodes, ltmRows, ltPoints, ltIndexing, ltTodo,
                   ltDropped, ltLate, ltOverlap>>

\* mark_ltm_distilled, in a thread: the last one to write is right.
Mark(d) ==
    /\ ltWorker[d].at \in {"done", "failed"}
    /\ LET w == ltWorker[d]
       IN ltLedger' = [ltLedger EXCEPT ![w.chat] =
              IF w.at = "done" THEN [@ EXCEPT !.written = w.written, !.known = TRUE]
              ELSE [@ EXCEPT !.attempts = w.attempts, !.known = TRUE]]
    /\ ltWorker' = [ltWorker EXCEPT ![d] = Idle]
    /\ UNCHANGED <<ltChats, ltEpisodes, ltmRows, ltPoints, ltIndexing, ltTodo, ltDropped,
                   ltLate, ltOverlap>>

\* prune_ltm_facts: facts the user did not state go, the oldest first.
FactsWithout(k) == [ltFacts EXCEPT ![k] = Absent]

\* After a distillation, and for all users when the server starts: the oldest episodes
\* and facts beyond a limit go, and the points of pruned facts stay.
Prune(e, k) ==
    /\ LoopIsFree
    /\ ltEpisodes' = ltEpisodes \ {e}
    /\ ltFacts' = FactsWithout(k)
    /\ ltMarks' = ltMarks \ {k}
    /\ UNCHANGED <<ltChats, ltLedger, ltPoints, ltWorker, ltIndexing, ltTodo, ltDropped,
                   ltLate, ltOverlap>>

-------------------------------------------------------------------------------
(* The vector of a fact *)

\* index_fact reads the row; the embedding call follows.
StartIndex(k) ==
    /\ LoopIsFree /\ k \in ltTodo
    /\ ltTodo' = ltTodo \ {k}
    /\ ltIndexing' = IF ltFacts[k] = Absent THEN Absent
                     ELSE [key |-> k, text |-> ltFacts[k]]
    /\ UNCHANGED <<ltChats, ltLedger, ltEpisodes, ltmRows, ltPoints, ltWorker, ltDropped,
                   ltLate, ltOverlap>>

\* index_pending at the start of the server: the rows without a mark.
IndexPending(k) ==
    /\ LoopIsFree /\ ltFacts[k] # Absent /\ k \notin ltMarks
    /\ ltIndexing' = [key |-> k, text |-> ltFacts[k]]
    /\ UNCHANGED <<ltChats, ltLedger, ltEpisodes, ltmRows, ltPoints, ltWorker, ltTodo,
                   ltDropped, ltLate, ltOverlap>>

\* The vector arrives: the point is written, then the row is marked.
FinishIndex ==
    /\ ~LoopIsFree
    /\ LET k == ltIndexing.key
       IN /\ ltPoints' = [ltPoints EXCEPT ![k] = ltIndexing.text]
          /\ ltMarks' = IF ltFacts[k] = Absent THEN ltMarks ELSE ltMarks \cup {k}
          /\ ltOverlap' = IF ltFacts[k] = ltIndexing.text THEN ltOverlap \ {k} ELSE ltOverlap
    /\ ltIndexing' = Absent
    /\ UNCHANGED <<ltChats, ltLedger, ltEpisodes, ltFacts, ltWorker, ltTodo, ltDropped,
                   ltLate>>

\* The embedding service or the vector database does not answer.
IndexFails ==
    /\ ~LoopIsFree
    /\ ltIndexing' = Absent
    /\ UNCHANGED <<ltChats, ltLedger, ltEpisodes, ltmRows, ltPoints, ltWorker, ltTodo,
                   ltDropped, ltLate, ltOverlap>>

-------------------------------------------------------------------------------
(* The user: threads that run beside the event loop *)

PatchFact(k, f) ==
    /\ ltFacts[k] # Absent /\ k \notin ltTodo
    /\ Put(k, f)
    /\ ltTodo' = ltTodo \cup {k}
    /\ UNCHANGED <<ltChats, ltLedger, ltEpisodes, ltPoints, ltWorker, ltIndexing, ltDropped,
                   ltLate>>

DeleteFact(k) ==
    /\ ltFacts[k] # Absent /\ k \notin ltDropped
    /\ ltFacts' = [ltFacts EXCEPT ![k] = Absent]
    /\ ltMarks' = ltMarks \ {k}
    /\ ltDropped' = ltDropped \cup {k}
    /\ UNCHANGED <<ltChats, ltLedger, ltEpisodes, ltPoints, ltWorker, ltIndexing, ltTodo,
                   ltLate, ltOverlap>>

\* unindex_fact on the event loop; the key may be in use again.
Unindex(k) ==
    /\ LoopIsFree /\ k \in ltDropped
    /\ ltDropped' = ltDropped \ {k}
    /\ ltPoints' \in {ltPoints, [ltPoints EXCEPT ![k] = Absent]}
    /\ ltOverlap' = IF ltFacts[k] = Absent THEN ltOverlap ELSE ltOverlap \cup {k}
    /\ UNCHANGED <<ltChats, ltLedger, ltEpisodes, ltmRows, ltWorker, ltIndexing, ltTodo,
                   ltLate>>

\* PATCH and DELETE of an episode; the unique hash refuses a duplicate.
EditEpisode(e, t) ==
    /\ e \in ltEpisodes
    /\ ltEpisodes' \in {ltEpisodes \ {e}} \cup
          (IF Fresh({t}) = {t} THEN {(ltEpisodes \ {e}) \cup {<<e[1], t>>}} ELSE {})
    /\ UNCHANGED <<ltChats, ltLedger, ltmRows, ltPoints, ltWorker, ltIndexing, ltTodo,
                   ltDropped, ltLate, ltOverlap>>

\* A slip: the episodes a conversation produced stay when it is deleted.
EpisodesKept(c) == ltEpisodes

EpisodesWithout(c) == {e \in ltEpisodes : e[1] # c}

\* delete_conversation: the rows of the conversation, its episodes, its ledger row.
DeleteChat(c) ==
    /\ c \in ltChats
    /\ ltChats' = ltChats \ {c}
    /\ ltEpisodes' = EpisodesWithout(c)
    /\ ltLedger' = [ltLedger EXCEPT ![c] = NoRow]
    /\ ltLate' = IF \E d \in Distillers : ltWorker[d].chat = c /\ ltWorker[d].at # "chosen"
                 THEN ltLate \cup {c} ELSE ltLate
    /\ UNCHANGED <<ltmRows, ltPoints, ltWorker, ltIndexing, ltTodo, ltDropped, ltOverlap>>

LtmNext ==
    \/ \E d \in Distillers :
         \/ \E c \in Chats : Choose(d, c)
         \/ \E summaries \in SUBSET Summaries : Write(d, summaries)
         \/ Extract(d) \/ Fail(d) \/ Mark(d)
    \/ \E e \in ltEpisodes, k \in Keys : Prune(e, k)
    \/ \E k \in Keys :
         \/ StartIndex(k) \/ IndexPending(k) \/ DeleteFact(k) \/ Unindex(k)
         \/ \E f \in Fact : PatchFact(k, f)
    \/ FinishIndex \/ IndexFails
    \/ \E e \in ltEpisodes, t \in Summaries : EditEpisode(e, t)
    \/ \E c \in Chats : DeleteChat(c)

-------------------------------------------------------------------------------
\* An episode or a ledger row points to a conversation that exists, unless the
\* conversation was deleted while a distillation of it was under way
\* (distill.py:128, store.py:1657).
EpisodesHaveAChat ==
    \A c \in Chats : c \notin ltChats /\ c \notin ltLate
        => ~ltLedger[c].known /\ \A e \in ltEpisodes : e[1] # c

\* A row marked as indexed has a vector of its present text, or a handler is about
\* to make one; otherwise the row changed while its vector was made or removed, or
\* only its subject changed, and nothing has indexed it since (vector.py:342).
MarkedIsCurrent ==
    \A k \in ltMarks : \/ ltPoints[k] = ltFacts[k] \/ k \in ltTodo
                       \/ k \in ltOverlap \/ k \in ltDropped

\* What long-term memory holds belongs to something that is still so: an episode
\* to its conversation, a vector to the present text of its fact.
MemoriesMatchTheirSource == EpisodesHaveAChat /\ MarkedIsCurrent
===============================================================================
