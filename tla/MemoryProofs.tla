----------------------------- MODULE MemoryProofs -----------------------------
(***************************************************************************)
(* Proofs about what a conversation leaves behind.                         *)
(*   - LongTermMemory, for any number of conversations, distillers, episodes*)
(*     and facts: an episode has its conversation, a vector the text of its*)
(*     fact;                                                               *)
(*   - WorkingMemory, for any number of messages and any budget: the window*)
(*     is the tail of the history, and summaries hold what is before it;   *)
(*   - ResearchState, for any data, plans and failures: a conclusion keeps *)
(*     its citation, and a plan does not go back.                          *)
(***************************************************************************)
EXTENDS LongTermMemory, WorkingMemory, ResearchState, FiniteSetTheorems, SequenceTheorems,
        WellFoundedInduction, TLAPS

----------------------------------------------------------------------------
(***************************************************************************)
(* What outlives a conversation                                            *)
(***************************************************************************)
LtmSpec == LtmInit /\ [][LtmNext]_ltmVars

\* A distiller that asks, or has its answer, is about a conversation that is there, or
\* was deleted meanwhile.
WorkIsOfAChat ==
    /\ ltWorker = [d \in Distillers |-> ltWorker[d]]
    /\ \A d \in Distillers :
         /\ ltWorker[d] \in [at : {"idle", "chosen", "asking", "done", "failed"},
                             chat : {ltWorker[d].chat}, written : {ltWorker[d].written},
                             attempts : {ltWorker[d].attempts}]
         /\ ltWorker[d].at # "idle" => ltWorker[d].chat \in Chats
         /\ ltWorker[d].at \in {"asking", "done", "failed"} =>
              ltWorker[d].chat \in ltChats \cup ltLate

\* Only a fact that is there is marked, and what is not current has been noted.
MarksAreOfFacts ==
    /\ ltFacts \in [Keys -> Fact \cup {Absent}] /\ ltPoints = [k \in Keys |-> ltPoints[k]]
    /\ ltMarks \subseteq Keys
    /\ \A k \in ltMarks : /\ ltFacts[k] # Absent
                          /\ ltPoints[k] = ltFacts[k] \/ k \in ltOverlap

\* The text that is being embedded is the text of the fact, unless it was changed or
\* deleted since.
EmbeddedIsRead ==
    ltIndexing # Absent =>
        /\ ltIndexing.key \in Keys
        /\ \/ ltFacts[ltIndexing.key] \in {ltIndexing.text, Absent}
           \/ ltIndexing.key \in ltOverlap

LtmInv ==
    /\ ltLedger = [c \in Chats |-> ltLedger[c]]
    /\ WorkIsOfAChat
    /\ EpisodesHaveAChat
    /\ MarksAreOfFacts
    /\ EmbeddedIsRead

LEMMA LtmInitially == LtmInit => LtmInv
BY DEF LtmInit, LtmInv, WorkIsOfAChat, EpisodesHaveAChat, MarksAreOfFacts, EmbeddedIsRead, Idle,
       NoRow

\* Writing a fact: what is still marked is current, or noted.
LEMMA PutKeeps ==
    ASSUME LtmInv, NEW k \in Keys, NEW f \in Fact, Put(k, f), UNCHANGED ltPoints
    PROVE  /\ MarksAreOfFacts' /\ ltFacts'[k] = f
           /\ UNCHANGED ltIndexing => EmbeddedIsRead'
<1>1. /\ ltFacts' = [ltFacts EXCEPT ![k] = f] /\ ltFacts'[k] = f
      /\ \A j \in Keys : j # k => ltFacts'[j] = ltFacts[j]
      /\ ltFacts' \in [Keys -> Fact \cup {Absent}]
  BY DEF Put, LtmInv, MarksAreOfFacts
<1>2. ltOverlap \subseteq ltOverlap' /\ ltMarks' \subseteq ltMarks
  BY DEF Put
<1>3. ASSUME k \in ltMarks', k \notin ltOverlap' PROVE ltPoints[k] = f
  <2>1. ltFacts[k] # Absent /\ ltFacts[k].statement = f.statement
    BY <1>3 DEF Put
  <2>2. ltFacts[k].subject = f.subject
    BY <1>3, <2>1 DEF Put
  <2>3. ltFacts[k] = f
    BY <2>1, <2>2 DEF LtmInv, MarksAreOfFacts, Fact
  <2> QED BY <1>2, <1>3, <2>3 DEF LtmInv, MarksAreOfFacts
<1>4. MarksAreOfFacts'
  <2> SUFFICES ASSUME NEW j \in ltMarks'
               PROVE  ltFacts'[j] # Absent /\ (ltPoints[j] = ltFacts'[j] \/ j \in ltOverlap')
    BY <1>1, <1>2 DEF LtmInv, MarksAreOfFacts
  <2> QED BY <1>1, <1>2, <1>3, NoFactAssumption DEF LtmInv, MarksAreOfFacts
<1>5. UNCHANGED ltIndexing => EmbeddedIsRead'
  <2> SUFFICES ASSUME UNCHANGED ltIndexing, ltIndexing # Absent,
                      ltIndexing.key \notin ltOverlap'
               PROVE  ltFacts'[ltIndexing.key] \in {ltIndexing.text, Absent}
    BY DEF LtmInv, EmbeddedIsRead
  <2>1. ltIndexing.key # k
    BY DEF Put
  <2>2. ltFacts'[ltIndexing.key] = ltFacts[ltIndexing.key]
    BY <1>1, <2>1 DEF LtmInv, MarksAreOfFacts
  <2> QED BY <1>2, <2>2 DEF LtmInv, EmbeddedIsRead
<1> QED BY <1>1, <1>4, <1>5

\* One distiller moves: what is known of the others stays.
LEMMA OneWorkerMoves ==
    ASSUME LtmInv, NEW d \in Distillers, UNCHANGED <<ltChats, ltLate>>,
           ltWorker' = [e \in Distillers |-> ltWorker'[e]],
           \A e \in Distillers : e # d => ltWorker'[e] = ltWorker[e],
           NEW at \in {"idle", "chosen", "asking", "done", "failed"}, NEW c, NEW n, NEW k,
           ltWorker'[d] \in [at : {at}, chat : {c}, written : {n}, attempts : {k}],
           at # "idle" => c \in Chats,
           at \in {"asking", "done", "failed"} => c \in ltChats \cup ltLate
    PROVE  WorkIsOfAChat'
<1>1. /\ ltWorker'[d].at = at /\ ltWorker'[d].chat = c
      /\ ltWorker'[d].written = n /\ ltWorker'[d].attempts = k
  OBVIOUS
<1>2. ltWorker'[d] \in [at : {"idle", "chosen", "asking", "done", "failed"},
                        chat : {ltWorker'[d].chat}, written : {ltWorker'[d].written},
                        attempts : {ltWorker'[d].attempts}]
  BY <1>1
<1> QED BY <1>1, <1>2 DEF LtmInv, WorkIsOfAChat

\* A distiller: it goes on with a conversation that is there, or gives it up.
LEMMA DistillerStep ==
    ASSUME LtmInv, NEW d \in Distillers,
           \/ \E c \in Chats : Choose(d, c)
           \/ \E summaries \in SUBSET Summaries : Write(d, summaries)
           \/ Extract(d) \/ Fail(d) \/ Mark(d)
    PROVE  LtmInv'
<1> USE DEF LtmInv, WorkIsOfAChat
<1>1. /\ ltWorker' = [e \in Distillers |-> ltWorker'[e]] /\ UNCHANGED <<ltChats, ltLate>>
      /\ \A e \in Distillers : e # d => ltWorker'[e] = ltWorker[e]
  BY DEF Choose, Work, Write, Extract, Fail, Mark
<1>2. ASSUME NEW c \in Chats, Choose(d, c) PROVE LtmInv'
  <2>1. ltWorker' = [ltWorker EXCEPT ![d].at = "chosen", ![d].chat = c]
    BY <1>2 DEF Choose, Work
  <2>2. ltWorker'[d] \in [at : {"chosen"}, chat : {c}, written : {ltWorker[d].written},
                          attempts : {ltWorker[d].attempts}]
    BY <2>1
  <2>3. WorkIsOfAChat'
    BY <1>1, <2>2, OneWorkerMoves
  <2> QED BY <1>2, <2>3 DEF Choose, ltmRows, EpisodesHaveAChat, MarksAreOfFacts, EmbeddedIsRead
<1>3. CASE Extract(d)
  <2>1. WorkIsOfAChat'
    <3>1. CASE ltWorker[d].chat \in ltChats
      <4>1. ltWorker[d].chat \in ltChats \cup ltLate
        BY <3>1
      <4>2. ltWorker' = [ltWorker EXCEPT ![d].at = "asking", ![d].chat = ltWorker[d].chat]
        BY <1>3, <3>1 DEF Extract, Work
      <4>3. ltWorker[d].chat \in Chats
        BY <1>3, <3>1 DEF Extract
      <4> QED BY <1>1, <4>1, <4>2, <4>3
    <3>2. CASE ltWorker[d].chat \notin ltChats
      BY <1>1, <1>3, <3>2 DEF Extract, Idle
    <3> QED BY <3>1, <3>2
  <2> QED BY <1>3, <2>1 DEF Extract, ltmRows, EpisodesHaveAChat, MarksAreOfFacts, EmbeddedIsRead
<1>4. CASE Fail(d)
  <2>1. PICK k : ltWorker' = [ltWorker EXCEPT ![d].at = "failed", ![d].attempts = k]
    BY <1>4 DEF Fail
  <2>2. ltWorker'[d] \in [at : {"failed"}, chat : {ltWorker[d].chat},
                          written : {ltWorker[d].written}, attempts : {k}]
    BY <2>1
  <2>3. ltWorker[d].chat \in Chats /\ ltWorker[d].chat \in ltChats \cup ltLate
    BY <1>4 DEF Fail
  <2>4. WorkIsOfAChat'
    BY <1>1, <2>2, <2>3, OneWorkerMoves
  <2> QED BY <1>4, <2>4 DEF Fail, ltmRows, EpisodesHaveAChat, MarksAreOfFacts, EmbeddedIsRead
<1>5. CASE Mark(d)
  <2>1. WorkIsOfAChat'
    BY <1>1, <1>5 DEF Mark, Idle
  <2>2. EpisodesHaveAChat' /\ ltLedger' = [c \in Chats |-> ltLedger'[c]]
    BY <1>5 DEF Mark, EpisodesHaveAChat
  <2> QED BY <1>5, <2>1, <2>2 DEF Mark, ltmRows, MarksAreOfFacts, EmbeddedIsRead
<1>6. ASSUME NEW summaries \in SUBSET Summaries, Write(d, summaries) PROVE LtmInv'
  <2> DEFINE c == ltWorker[d].chat
  <2>1. /\ ltEpisodes' = ltEpisodes \cup ({c} \X Fresh(summaries))
        /\ ltWorker' = [ltWorker EXCEPT ![d].at = "done",
                                        ![d].written = Cardinality(Fresh(summaries))]
        /\ ltIndexing = Absent /\ ltWorker[d].at = "asking"
        /\ UNCHANGED <<ltLedger, ltPoints>>
    BY <1>6 DEF Write, LoopIsFree
  <2>2. WorkIsOfAChat'
    <3>1. ltWorker'[d] \in [at : {"done"}, chat : {c}, written : {Cardinality(Fresh(summaries))},
                            attempts : {ltWorker[d].attempts}]
      BY <2>1
    <3>2. c \in Chats /\ c \in ltChats \cup ltLate
      BY <2>1
    <3> HIDE DEF c
    <3> QED BY <1>1, <3>1, <3>2, OneWorkerMoves
  <2>3. EpisodesHaveAChat'
    <3>1. c \in ltChats \cup ltLate /\ \A e \in ltEpisodes' : e \in ltEpisodes \/ e[1] = c
      BY <2>1
    <3> QED BY <1>1, <2>1, <3>1 DEF EpisodesHaveAChat
  <2>4. MarksAreOfFacts' /\ EmbeddedIsRead'
    <3>1. CASE UNCHANGED <<ltmRows, ltIndexing, ltOverlap>>
      BY <2>1, <3>1 DEF ltmRows, MarksAreOfFacts, EmbeddedIsRead
    <3>2. ASSUME NEW k \in Keys, NEW f \in Fact, Put(k, f), ltIndexing' = [key |-> k, text |-> f]
          PROVE  MarksAreOfFacts' /\ EmbeddedIsRead'
      BY <2>1, <3>2, PutKeeps DEF EmbeddedIsRead
    <3> QED BY <1>6, <3>1, <3>2 DEF Write
  <2> QED BY <2>1, <2>2, <2>3, <2>4
<1> QED BY <1>2, <1>3, <1>4, <1>5, <1>6

\* The vector of a fact.
LEMMA IndexStep ==
    ASSUME LtmInv, (\E k \in Keys : StartIndex(k) \/ IndexPending(k)) \/ FinishIndex \/ IndexFails
    PROVE  LtmInv'
<1>1. UNCHANGED <<ltChats, ltLedger, ltEpisodes, ltFacts, ltWorker, ltLate>>
  BY DEF StartIndex, IndexPending, FinishIndex, IndexFails, ltmRows
<1>2. ltLedger' = [c \in Chats |-> ltLedger'[c]] /\ WorkIsOfAChat' /\ EpisodesHaveAChat'
  BY <1>1 DEF LtmInv, WorkIsOfAChat, EpisodesHaveAChat
<1>3. MarksAreOfFacts' /\ EmbeddedIsRead'
  <2>1. CASE (\E k \in Keys : StartIndex(k) \/ IndexPending(k)) \/ IndexFails
    BY <1>1, <2>1
       DEF StartIndex, IndexPending, IndexFails, ltmRows, LtmInv, MarksAreOfFacts, EmbeddedIsRead
  <2>2. CASE FinishIndex
    <3> DEFINE k == ltIndexing.key
    <3>1. /\ ltPoints' = [ltPoints EXCEPT ![k] = ltIndexing.text]
          /\ ltMarks' = IF ltFacts[k] = Absent THEN ltMarks ELSE ltMarks \cup {k}
          /\ ltOverlap' = IF ltFacts[k] = ltIndexing.text THEN ltOverlap \ {k} ELSE ltOverlap
          /\ ltIndexing # Absent /\ ltIndexing' = Absent
      BY <2>2 DEF FinishIndex, LoopIsFree
    <3>2. k \in Keys /\ (ltFacts[k] \in {ltIndexing.text, Absent} \/ k \in ltOverlap)
      BY <3>1 DEF LtmInv, EmbeddedIsRead
    <3> HIDE DEF k
    <3>3. ltMarks' \subseteq Keys /\ ltPoints' = [j \in Keys |-> ltPoints'[j]]
      BY <3>1, <3>2 DEF LtmInv, MarksAreOfFacts
    <3>4. ASSUME NEW j \in ltMarks'
          PROVE  ltFacts[j] # Absent /\ (ltPoints'[j] = ltFacts[j] \/ j \in ltOverlap')
      <4>1. ltFacts[j] # Absent
        BY <3>1 DEF LtmInv, MarksAreOfFacts
      <4>2. CASE j = k
        <5>1. ltPoints'[k] = ltIndexing.text
          BY <3>1, <3>3, <4>2 DEF LtmInv, MarksAreOfFacts
        <5> QED BY <3>1, <3>2, <4>1, <4>2, <5>1
      <4>3. CASE j # k
        <5>1. j \in ltMarks /\ ltPoints'[j] = ltPoints[j]
          BY <3>1, <4>3 DEF LtmInv, MarksAreOfFacts
        <5> QED BY <3>1, <4>1, <4>3, <5>1 DEF LtmInv, MarksAreOfFacts
      <4> QED BY <4>2, <4>3
    <3> QED BY <1>1, <3>1, <3>3, <3>4 DEF LtmInv, MarksAreOfFacts, EmbeddedIsRead
  <2> QED BY <2>1, <2>2
<1> QED BY <1>2, <1>3 DEF LtmInv

\* The user, and what goes for lack of room.
LEMMA UserStep ==
    ASSUME LtmInv,
           \/ \E k \in Keys : \/ DeleteFact(k) \/ Unindex(k)
                              \/ \E f \in Fact : PatchFact(k, f)
           \/ \E e \in ltEpisodes, k \in Keys : Prune(e, k)
           \/ \E e \in ltEpisodes, t \in Summaries : EditEpisode(e, t)
           \/ \E c \in Chats : DeleteChat(c)
    PROVE  LtmInv'
<1>1. ASSUME NEW k \in Keys, DeleteFact(k) PROVE LtmInv'
  BY <1>1 DEF DeleteFact, LtmInv, WorkIsOfAChat, EpisodesHaveAChat, MarksAreOfFacts, EmbeddedIsRead
<1>2. ASSUME NEW k \in Keys, Unindex(k) PROVE LtmInv'
  <2>1. UNCHANGED <<ltChats, ltLedger, ltEpisodes, ltFacts, ltMarks, ltWorker, ltIndexing, ltLate>>
    BY <1>2 DEF Unindex, ltmRows
  <2>2. /\ ltIndexing = Absent /\ ltPoints' = [j \in Keys |-> ltPoints'[j]]
        /\ \A j \in Keys : j # k => ltPoints'[j] = ltPoints[j]
        /\ ltOverlap' = IF ltFacts[k] = Absent THEN ltOverlap ELSE ltOverlap \cup {k}
    BY <1>2 DEF Unindex, LoopIsFree, LtmInv, MarksAreOfFacts
  <2>3. MarksAreOfFacts' /\ EmbeddedIsRead'
    BY <2>1, <2>2 DEF LtmInv, MarksAreOfFacts, EmbeddedIsRead
  <2> QED BY <2>1, <2>3 DEF LtmInv, WorkIsOfAChat, EpisodesHaveAChat
<1>3. ASSUME NEW k \in Keys, NEW f \in Fact, PatchFact(k, f) PROVE LtmInv'
  <2>1. /\ Put(k, f)
        /\ UNCHANGED <<ltChats, ltLedger, ltEpisodes, ltPoints, ltWorker, ltIndexing, ltLate>>
    BY <1>3 DEF PatchFact
  <2> QED BY <2>1, PutKeeps DEF LtmInv, WorkIsOfAChat, EpisodesHaveAChat
<1>4. ASSUME NEW e \in ltEpisodes, NEW k \in Keys, Prune(e, k) PROVE LtmInv'
  <2>1. /\ ltEpisodes' \subseteq ltEpisodes /\ ltFacts' = [ltFacts EXCEPT ![k] = Absent]
        /\ ltMarks' = ltMarks \ {k} /\ ltIndexing = Absent
        /\ UNCHANGED <<ltChats, ltLedger, ltPoints, ltWorker, ltIndexing, ltLate, ltOverlap>>
    BY <1>4 DEF Prune, FactsWithout, LoopIsFree
  <2>2. MarksAreOfFacts' /\ EmbeddedIsRead'
    BY <2>1 DEF LtmInv, MarksAreOfFacts, EmbeddedIsRead
  <2> QED BY <2>1, <2>2 DEF LtmInv, WorkIsOfAChat, EpisodesHaveAChat
<1>5. ASSUME NEW e \in ltEpisodes, NEW t \in Summaries, EditEpisode(e, t) PROVE LtmInv'
  <2>1. UNCHANGED <<ltChats, ltLedger, ltFacts, ltMarks, ltPoints, ltWorker, ltIndexing, ltLate,
                    ltOverlap>>
    BY <1>5 DEF EditEpisode, ltmRows
  <2>2. \A x \in ltEpisodes' : \E y \in ltEpisodes : x[1] = y[1]
    BY <1>5 DEF EditEpisode
  <2> QED BY <2>1, <2>2
          DEF LtmInv, WorkIsOfAChat, EpisodesHaveAChat, MarksAreOfFacts, EmbeddedIsRead
<1>6. ASSUME NEW c \in Chats, DeleteChat(c) PROVE LtmInv'
  <2>1. /\ ltChats' = ltChats \ {c} /\ ltEpisodes' = {e \in ltEpisodes : e[1] # c}
        /\ ltLedger' = [ltLedger EXCEPT ![c] = NoRow]
        /\ ltLate' = IF \E d \in Distillers : ltWorker[d].chat = c /\ ltWorker[d].at # "chosen"
                     THEN ltLate \cup {c} ELSE ltLate
        /\ UNCHANGED <<ltFacts, ltMarks, ltPoints, ltWorker, ltIndexing, ltOverlap>>
    BY <1>6 DEF DeleteChat, EpisodesWithout, ltmRows
  <2>2. WorkIsOfAChat'
    BY <2>1 DEF LtmInv, WorkIsOfAChat
  <2>3. EpisodesHaveAChat' /\ ltLedger' = [x \in Chats |-> ltLedger'[x]]
    BY <2>1 DEF LtmInv, EpisodesHaveAChat, NoRow
  <2> QED BY <2>1, <2>2, <2>3 DEF LtmInv, MarksAreOfFacts, EmbeddedIsRead
<1> QED BY <1>1, <1>2, <1>3, <1>4, <1>5, <1>6

\* For any number of conversations, distillers, episodes and facts: an episode or a ledger
\* row points to a conversation that is there, unless it was deleted while it was being
\* distilled (distill.py:128, store.py:1657); and a fact marked as indexed has the vector
\* of its present text, unless it changed while its vector was made or removed, or in its
\* subject only (vector.py:342).
THEOREM MemoriesMatch == LtmSpec => []MemoriesMatchTheirSource
<1>1. LtmInv => MemoriesMatchTheirSource
  BY DEF LtmInv, MarksAreOfFacts, MemoriesMatchTheirSource, MarkedIsCurrent
<1>2. LtmInv /\ [LtmNext]_ltmVars => LtmInv'
  <2>1. LtmInv /\ UNCHANGED ltmVars => LtmInv'
    BY DEF ltmVars, LtmInv, WorkIsOfAChat, EpisodesHaveAChat, MarksAreOfFacts, EmbeddedIsRead
  <2> QED BY <2>1, DistillerStep, IndexStep, UserStep DEF LtmNext
<1> QED BY <1>1, <1>2, LtmInitially, PTL DEF LtmSpec

----------------------------------------------------------------------------
(***************************************************************************)
(* What the window has left behind                                         *)
(***************************************************************************)
\* Every nonempty set of naturals has a least member, every bounded one a largest.
LEMMA LeastNumber ==
    ASSUME NEW T, T \subseteq Nat, T # {}
    PROVE  \E m \in T : \A j \in T : m <= j
<1>1. PICK m \in T : \A j \in T : ~(<<j, m>> \in OpToRel(<, Nat))
  BY NatLessThanWellFounded, WFMin
<1>2. \A j \in T : ~(j < m)
  BY <1>1 DEF OpToRel
<1> QED BY <1>2

LEMMA LargestNumber ==
    ASSUME NEW n \in Nat, NEW S, S \subseteq 0..n, S # {}
    PROVE  Max(S) \in S /\ \A x \in S : x <= Max(S)
<1> DEFINE T == {m \in 0..n : n - m \in S}
<1>1. T \subseteq Nat /\ T # {}
  <2>1. PICK x : x \in S
    OBVIOUS
  <2>2. x \in 0..n
    BY <2>1
  <2>3. n - x \in 0..n /\ n - (n - x) \in S
    BY <2>1, <2>2
  <2>4. n - x \in T
    BY <2>3
  <2> QED BY <2>4
<1>2. PICK m \in T : \A j \in T : m <= j
  BY <1>1, LeastNumber
<1>3. \A x \in S : x <= n - m
  <2> TAKE x \in S
  <2>1. x \in 0..n /\ n - x \in T
    OBVIOUS
  <2> QED BY <1>2, <2>1
<1>4. n - m \in S /\ \A x \in S : n - m >= x
  BY <1>2, <1>3
<1>5. Max(S) = CHOOSE x \in S : \A y \in S : x >= y
  BY DEF Max
<1>6. Max(S) \in S /\ \A y \in S : Max(S) >= y
  BY <1>4, <1>5
<1>7. S \subseteq Int
  OBVIOUS
<1> QED BY <1>6, <1>7

\* Among at least k positions there is the k-th newest.
LEMMA NewestExists ==
    ASSUME NEW n \in Nat, NEW S, IsFiniteSet(S), \A j \in S : j \in 1..n,
           NEW k \in Nat \ {0}, Cardinality(S) >= k
    PROVE  \E i \in S : Cardinality({j \in S : j >= i}) = k
<1> DEFINE From(i) == {j \in S : j >= i}
           count(i) == Cardinality(From(i))
           T == {m \in 0..n : count(n + 1 - m) >= k}
<1>1. \A i : IsFiniteSet(From(i)) /\ count(i) \in Nat
  <2> TAKE i
  <2>1. From(i) \in SUBSET S
    OBVIOUS
  <2> HIDE DEF From
  <2>2. IsFiniteSet(From(i))
    BY <2>1, FS_Subset
  <2> QED BY <2>2, FS_CardinalityType
<1>2. From(1) = S
  OBVIOUS
<1>3. count(n + 1) = 0
  <2>1. \A j \in S : ~(j >= n + 1)
    OBVIOUS
  <2>2. From(n + 1) = {}
    BY <2>1
  <2> QED BY <2>2, FS_EmptySet
<1>4. \A i \in S : count(i) = count(i + 1) + 1
  <2> TAKE i \in S
  <2>1. \A j \in S : j >= i <=> j >= i + 1 \/ j = i
    OBVIOUS
  <2>2. i \notin From(i + 1)
    OBVIOUS
  <2>3. From(i) = From(i + 1) \cup {i}
    BY <2>1
  <2> HIDE DEF From
  <2> QED BY <1>1, <2>2, <2>3, FS_AddElement
<1>5. \A i \in 1..n : i \notin S => count(i) = count(i + 1)
  <2> TAKE i \in 1..n
  <2> HAVE i \notin S
  <2>1. \A j \in S : j >= i <=> j >= i + 1
    OBVIOUS
  <2>2. From(i) = From(i + 1)
    BY <2>1
  <2> QED BY <2>2
<1>6. count(1) >= k
  BY <1>2
<1> HIDE DEF count
<1>7. PICK m \in T : \A j \in T : m <= j
  <2>1. n \in 0..n /\ n + 1 - n = 1
    OBVIOUS
  <2>2. n \in T
    BY <1>6, <2>1
  <2>3. \A j \in T : j \in Nat
    OBVIOUS
  <2> HIDE DEF T
  <2>4. T \subseteq Nat /\ T # {}
    BY <2>2, <2>3
  <2> QED BY <2>4, LeastNumber
<1>8. m \in 0..n /\ count(n + 1 - m) >= k /\ \A j \in 0..n : count(n + 1 - j) >= k => m <= j
  BY <1>7
<1> HIDE DEF T
<1>9. m # 0
  BY <1>3, <1>8
<1>10. PICK i \in 1..n : i = n + 1 - m /\ m - 1 \in 0..n /\ n + 1 - (m - 1) = i + 1
  BY <1>8, <1>9
<1>11. ~(count(i + 1) >= k)
  <2>1. ~(m <= m - 1)
    BY <1>8
  <2> QED BY <1>8, <1>10, <2>1
<1>12. count(i) >= k /\ count(i) \in Nat /\ count(i + 1) \in Nat
  BY <1>1, <1>8, <1>10
<1>13. i \in S /\ count(i) = count(i + 1) + 1
  BY <1>4, <1>5, <1>11, <1>12
<1>14. count(i) = k
  BY <1>11, <1>12, <1>13
<1> QED BY <1>13, <1>14 DEF count

\* What follows the first k elements of a sequence.
LEMMA TailOf ==
    ASSUME NEW R, NEW s \in Seq(R), NEW k \in 0..Len(s), NEW rest,
           rest = SubSeq(s, k + 1, Len(s))
    PROVE  /\ rest \in Seq(R) /\ Len(rest) = Len(s) - k
           /\ \A i \in 1..(Len(s) - k) : rest[i] = s[k + i]
<1> DEFINE tail == SubSeq(s, k + 1, Len(s))
<1>1. Len(s) \in Nat /\ k + 1 \in Int /\ \A i \in (k + 1)..Len(s) : s[i] \in R
  OBVIOUS
<1>2. /\ tail \in Seq(R)
      /\ Len(tail) = IF k + 1 <= Len(s) THEN Len(s) - (k + 1) + 1 ELSE 0
      /\ \A i \in 1..(Len(s) - (k + 1) + 1) : tail[i] = s[k + 1 + i - 1]
  BY <1>1, SubSeqProperties
<1>3. rest = tail
  OBVIOUS
<1> HIDE DEF tail
<1>4. Len(tail) = Len(s) - k
  BY <1>1, <1>2
<1>5. ASSUME NEW i \in 1..(Len(s) - k) PROVE tail[i] = s[k + i]
  <2>1. i \in 1..(Len(s) - (k + 1) + 1) /\ k + 1 + i - 1 = k + i
    BY <1>1
  <2> QED BY <1>2, <2>1
<1> QED BY <1>2, <1>3, <1>4, <1>5

LEMMA AnswersAreFinite ==
    ASSUME NEW msgs \in Seq(Roles)
    PROVE  IsFiniteSet(Answers(msgs)) /\ Cardinality(Answers(msgs)) \in Nat
<1>1. Len(msgs) \in Nat /\ Answers(msgs) \in SUBSET (1..Len(msgs))
  BY DEF Answers
<1>2. IsFiniteSet(1..Len(msgs))
  BY <1>1, FS_Interval
<1>3. IsFiniteSet(Answers(msgs))
  BY <1>1, <1>2, FS_Subset
<1> QED BY <1>3, FS_CardinalityType

\* The k-th newest round starts at an answer.
LEMMA RoundStartIsAnswer ==
    ASSUME NEW msgs \in Seq(Roles), NEW k \in Nat \ {0}, Cardinality(Answers(msgs)) >= k
    PROVE  RoundStart(msgs, k) \in Answers(msgs)
<1>1. Len(msgs) \in Nat /\ \A j \in Answers(msgs) : j \in 1..Len(msgs)
  BY DEF Answers
<1> QED BY <1>1, AnswersAreFinite, NewestExists DEF RoundStart

----------------------------------------------------------------------------
\* No answer waits in the buffer.
RequestsAreBuffered ==
    \A i \in 1..Len(wmRaw) : i > Len(wmRaw) - wmPending => wmRaw[i] # "assistant"

\* Everything up to the end of a segment is in some summary, and so is what the
\* window of a process has left behind, as long as no compaction had to cut more.
SummariesReachBack ==
    ~wmCut => /\ wmLive => 1..wmGone \subseteq wmSummed
              /\ \A s \in wmStored : 1..s[2] \subseteq wmSummed
              /\ \A i \in 1..Len(wmSegments) : 1..wmSegments[i][2] \subseteq wmSummed

HistoryInv ==
    /\ MemoryTypeOK
    /\ Len(wmLog) <= MaxMessages
    /\ wmLive => wmGone + Len(wmRaw) <= MaxMessages
    /\ WindowLinesUp
    /\ RequestsAreBuffered
    /\ SummariesReachBack

LEMMA HistoryInitially == MemoryInit => HistoryInv
<1> SUFFICES ASSUME MemoryInit PROVE HistoryInv
  OBVIOUS
<1>1. /\ wmLog \in Seq(Roles) /\ Len(wmLog) = 0 /\ wmRaw \in Seq(Roles) /\ Len(wmRaw) = 0
      /\ wmSegments \in Seq(Spans) /\ Len(wmSegments) = 0
  BY EmptySeq DEF MemoryInit
<1>2. /\ wmStored = {} /\ wmLive = FALSE /\ wmPending = 0 /\ wmGone = 0 /\ wmSummed = {}
      /\ wmCut = FALSE
  BY DEF MemoryInit
<1>3. MemoryTypeOK
  <2>1. wmPending \in 0..Len(wmRaw) /\ wmGone \in 0..MaxMessages
    BY <1>1, <1>2, MemoryAssumption
  <2>2. wmStored \subseteq Spans /\ wmSummed \subseteq 1..MaxMessages
    BY <1>2
  <2> QED BY <1>1, <1>2, <2>1, <2>2 DEF MemoryTypeOK
<1>4. RequestsAreBuffered /\ Len(wmLog) <= MaxMessages
  BY <1>1, <1>2, MemoryAssumption DEF RequestsAreBuffered
<1>5. WindowLinesUp /\ SummariesReachBack
  BY <1>1, <1>2 DEF WindowLinesUp, SummariesReachBack
<1> QED BY <1>2, <1>3, <1>4, <1>5 DEF HistoryInv

\* What compaction and reload count are messages that are there and on disk.
LEMMA BoundaryIsOnDisk ==
    ASSUME HistoryInv, NEW keep \in Nat \ {0}
    PROVE  RecentBoundary(wmRaw, keep) \in 0..(Len(wmRaw) - wmPending)
<1>1. wmRaw \in Seq(Roles) /\ Len(wmRaw) \in Nat /\ wmPending \in 0..Len(wmRaw)
  BY DEF HistoryInv, MemoryTypeOK
<1>2. CASE Cardinality(Answers(wmRaw)) <= keep
  BY <1>1, <1>2 DEF RecentBoundary
<1>3. CASE ~(Cardinality(Answers(wmRaw)) <= keep)
  <2>1. Cardinality(Answers(wmRaw)) \in Nat
    BY <1>1, AnswersAreFinite
  <2>2. RoundStart(wmRaw, keep) \in Answers(wmRaw)
    BY <1>1, <1>3, <2>1, RoundStartIsAnswer
  <2>3. /\ RoundStart(wmRaw, keep) \in 1..Len(wmRaw)
        /\ wmRaw[RoundStart(wmRaw, keep)] = "assistant"
    BY <1>1, <2>2 DEF Answers
  <2>4. ~(RoundStart(wmRaw, keep) > Len(wmRaw) - wmPending)
    BY <2>3 DEF HistoryInv, RequestsAreBuffered
  <2>5. RecentBoundary(wmRaw, keep) = RoundStart(wmRaw, keep) - 1
    BY <1>3 DEF RecentBoundary
  <2> QED BY <1>1, <2>3, <2>4, <2>5
<1> QED BY <1>2, <1>3

LEMMA SkippedIsCovered ==
    ASSUME HistoryInv
    PROVE  Skipped \in 0..Len(wmLog) /\ (~wmCut => 1..Skipped \subseteq wmSummed)
<1> DEFINE skipped == LoadStart(MaxLoadedRounds) - 1
<1>1. wmLog \in Seq(Roles) /\ Len(wmLog) \in Nat
  BY DEF HistoryInv, MemoryTypeOK
<1>2. wmLog # <<>> => skipped \in 0..Len(wmLog)
  <2>1. CASE Cardinality(Answers(wmLog)) < MaxLoadedRounds
    BY <1>1, <2>1 DEF LoadStart
  <2>2. CASE ~(Cardinality(Answers(wmLog)) < MaxLoadedRounds)
    <3>1. Cardinality(Answers(wmLog)) \in Nat
      BY <1>1, AnswersAreFinite
    <3>2. RoundStart(wmLog, MaxLoadedRounds) \in Answers(wmLog)
      BY <1>1, <2>2, <3>1, RoundStartIsAnswer, MemoryAssumption
    <3>3. RoundStart(wmLog, MaxLoadedRounds) \in 1..Len(wmLog)
      BY <1>1, <3>2 DEF Answers
    <3> QED BY <1>1, <2>2, <3>3 DEF LoadStart
  <2> QED BY <2>1, <2>2
<1>3. ~wmCut => 1..CoveredPrefix \subseteq wmSummed /\ CoveredPrefix \in Nat
  <2> SUFFICES ASSUME ~wmCut PROVE 1..CoveredPrefix \subseteq wmSummed /\ CoveredPrefix \in Nat
    OBVIOUS
  <2> DEFINE N == {n \in 0..MaxMessages : 1..n \subseteq Covers(wmStored)}
  <2>1. 0 \in N /\ N \subseteq 0..MaxMessages
    BY MemoryAssumption
  <2>2. CoveredPrefix = Max(N)
    BY DEF CoveredPrefix
  <2>3. CoveredPrefix \in N
    <3> HIDE DEF N
    <3> QED BY <2>1, <2>2, LargestNumber, MemoryAssumption
  <2>4. Covers(wmStored) \subseteq wmSummed
    <3> SUFFICES ASSUME NEW s \in wmStored, NEW x \in s[1]..s[2] PROVE x \in wmSummed
      BY DEF Covers
    <3>1. s[1] \in 1..MaxMessages /\ s[2] \in 1..MaxMessages
      BY DEF HistoryInv, MemoryTypeOK, Spans
    <3>2. x \in 1..s[2]
      BY <3>1
    <3> QED BY <3>2 DEF HistoryInv, SummariesReachBack
  <2> QED BY <2>3, <2>4, MemoryAssumption
<1>4. CASE wmLog # <<>> /\ CoveredPrefix >= skipped
  <2>1. Skipped = skipped
    BY <1>4 DEF Skipped
  <2> HIDE DEF skipped
  <2>2. skipped \in 0..Len(wmLog)
    BY <1>2, <1>4
  <2>3. ~wmCut => 1..skipped \subseteq 1..CoveredPrefix
    BY <1>1, <1>3, <1>4, <2>2
  <2> QED BY <1>3, <2>1, <2>2, <2>3
<1>5. CASE ~(wmLog # <<>> /\ CoveredPrefix >= skipped)
  BY <1>1, <1>5 DEF Skipped
<1> QED BY <1>4, <1>5

\* A reload takes the tail of the history, and knows what stands for the rest.
LEMMA LoadKeeps ==
    ASSUME HistoryInv, Load
    PROVE  HistoryInv'
<1>1. /\ wmLog \in Seq(Roles) /\ Len(wmLog) \in Nat /\ Len(wmLog) <= MaxMessages
      /\ Skipped \in 0..Len(wmLog) /\ MaxMessages \in Nat
  BY SkippedIsCovered, MemoryAssumption DEF HistoryInv, MemoryTypeOK
<1>2. /\ wmGone' = Skipped /\ wmRaw' = SubSeq(wmLog, Skipped + 1, Len(wmLog)) /\ wmPending' = 0
      /\ wmLive' = TRUE /\ wmSegments' \in InOrder(wmStored)
      /\ UNCHANGED <<wmLog, wmStored, wmSummed, wmCut>>
  BY DEF Load
<1>3. /\ wmRaw' \in Seq(Roles) /\ Len(wmRaw') = Len(wmLog) - Skipped
      /\ \A i \in 1..Len(wmRaw') : wmRaw'[i] = wmLog[Skipped + i]
  <2>1. /\ wmRaw' \in Seq(Roles) /\ Len(wmRaw') = Len(wmLog) - Skipped
        /\ \A i \in 1..(Len(wmLog) - Skipped) : wmRaw'[i] = wmLog[Skipped + i]
    BY <1>1, <1>2, TailOf
  <2> QED BY <2>1
<1>4. /\ wmSegments' \in Seq(Spans)
      /\ \A i \in 1..Len(wmSegments') : wmSegments'[i] \in wmStored
  <2>1. wmStored \subseteq Spans /\ IsFiniteSet(wmStored) /\ Cardinality(wmStored) \in Nat
    <3>1. wmStored \subseteq Spans
      BY DEF HistoryInv, MemoryTypeOK
    <3>2. IsFiniteSet(1..MaxMessages)
      BY <1>1, FS_Interval
    <3>3. IsFiniteSet(Spans)
      BY <3>2, FS_Product DEF Spans
    <3> QED BY <3>1, <3>3, FS_Subset, FS_CardinalityType
  <2>2. wmSegments' \in [1..Cardinality(wmStored) -> wmStored]
    BY <1>2 DEF InOrder
  <2> QED BY <2>1, <2>2
<1>5. MemoryTypeOK'
  <2>1. wmPending' \in 0..Len(wmRaw') /\ wmGone' \in 0..MaxMessages
    BY <1>1, <1>2, <1>3
  <2> QED BY <1>1, <1>2, <1>3, <1>4, <2>1 DEF HistoryInv, MemoryTypeOK
<1>6. /\ Len(wmLog') <= MaxMessages /\ wmGone' + Len(wmRaw') <= MaxMessages
      /\ WindowLinesUp' /\ RequestsAreBuffered'
  BY <1>1, <1>2, <1>3 DEF WindowLinesUp, RequestsAreBuffered
<1>7. SummariesReachBack'
  BY <1>2, <1>4, SkippedIsCovered DEF HistoryInv, SummariesReachBack
<1> QED BY <1>5, <1>6, <1>7 DEF HistoryInv

\* A request or a result is buffered.
LEMMA BufferKeeps ==
    ASSUME HistoryInv, NEW role \in {"user", "tool"}, Buffer(role)
    PROVE  HistoryInv'
<1>1. /\ wmRaw \in Seq(Roles) /\ Len(wmRaw) \in Nat /\ wmPending \in 0..Len(wmRaw)
      /\ wmGone \in Nat /\ role \in Roles
  BY MemoryAssumption DEF HistoryInv, MemoryTypeOK, Roles
<1>2. /\ wmLive /\ wmGone + Len(wmRaw) < MaxMessages
      /\ wmRaw' = Append(wmRaw, role) /\ wmPending' = wmPending + 1
      /\ UNCHANGED <<wmLog, wmStored, wmLive, wmGone, wmSegments, wmSummed, wmCut>>
  BY DEF Buffer
<1>3. /\ wmRaw' \in Seq(Roles) /\ Len(wmRaw') = Len(wmRaw) + 1
      /\ \A i \in 1..Len(wmRaw) : wmRaw'[i] = wmRaw[i]
      /\ wmRaw'[Len(wmRaw) + 1] = role
  BY <1>1, <1>2, AppendProperties
<1>4. MemoryTypeOK'
  <2>1. wmPending' \in 0..Len(wmRaw')
    BY <1>1, <1>2, <1>3
  <2> QED BY <1>1, <1>2, <1>3, <2>1 DEF HistoryInv, MemoryTypeOK
<1>5. WindowLinesUp' /\ wmGone' + Len(wmRaw') <= MaxMessages
  <2>1. wmGone' + Len(wmRaw') <= MaxMessages
    BY <1>1, <1>2, <1>3, MemoryAssumption
  <2>2. /\ wmPending \in 0..Len(wmRaw) /\ wmGone + Len(wmRaw) = Len(wmLog) + wmPending
        /\ \A i \in 1..(Len(wmRaw) - wmPending) : wmRaw[i] = wmLog[wmGone + i]
    BY <1>1, <1>2 DEF HistoryInv, MemoryTypeOK, WindowLinesUp
  <2>3. wmGone + Len(wmRaw') = Len(wmLog) + wmPending'
    <3>1. wmLog \in Seq(Roles) /\ Len(wmLog) \in Nat
      BY DEF HistoryInv, MemoryTypeOK
    <3>2. Len(wmRaw') = Len(wmRaw) + 1 /\ wmPending' = wmPending + 1
      BY <1>2, <1>3
    <3>3. wmGone + Len(wmRaw) = Len(wmLog) + wmPending /\ wmPending \in Nat
      BY <1>1, <2>2
    <3> QED BY <1>1, <3>1, <3>2, <3>3
  <2>4. ASSUME NEW i \in 1..(Len(wmRaw') - wmPending') PROVE wmRaw'[i] = wmLog[wmGone + i]
    <3>1. i \in 1..(Len(wmRaw) - wmPending) /\ i \in 1..Len(wmRaw)
      BY <1>1, <1>2, <1>3, <2>2
    <3> QED BY <1>3, <2>2, <3>1
  <2> QED BY <1>2, <2>1, <2>3, <2>4 DEF WindowLinesUp
<1>6. RequestsAreBuffered'
  BY <1>1, <1>2, <1>3 DEF HistoryInv, RequestsAreBuffered
<1> QED BY <1>2, <1>4, <1>5, <1>6 DEF HistoryInv, SummariesReachBack

Flushed == wmLog \o SubSeq(wmRaw, Len(wmRaw) - wmPending + 1, Len(wmRaw))

\* Where a message of the buffer stands in the history.
LEMMA BufferedPlace ==
    ASSUME NEW gone \in Nat, NEW held \in Nat, NEW logged \in Nat, NEW pending \in 0..held,
           gone + held = logged + pending, NEW i \in 1..held, ~(i <= held - pending)
    PROVE  /\ gone + i - logged \in 1..pending /\ ~(gone + i <= logged)
           /\ held - pending + (gone + i - logged) = i
           /\ gone + i \in 1..(logged + pending)
OBVIOUS

\* The log with the buffered messages is the history the window is the tail of.
LEMMA FlushLinesUp ==
    ASSUME HistoryInv, wmLive,
           NEW log, log = Flushed
    PROVE  /\ log \in Seq(Roles) /\ Len(log) = wmGone + Len(wmRaw)
           /\ \A i \in 1..Len(wmRaw) : wmRaw[i] = log[wmGone + i]
<1>1. /\ wmRaw \in Seq(Roles) /\ Len(wmRaw) \in Nat /\ wmPending \in 0..Len(wmRaw)
      /\ wmGone \in Nat /\ wmLog \in Seq(Roles) /\ Len(wmLog) \in Nat
      /\ wmGone + Len(wmRaw) = Len(wmLog) + wmPending
      /\ \A i \in 1..(Len(wmRaw) - wmPending) : wmRaw[i] = wmLog[wmGone + i]
  BY MemoryAssumption DEF HistoryInv, MemoryTypeOK, WindowLinesUp
<1> DEFINE from == Len(wmRaw) - wmPending + 1
           tail == SubSeq(wmRaw, from, Len(wmRaw))
<1>2. /\ tail \in Seq(Roles) /\ Len(tail) = wmPending
      /\ \A i \in 1..wmPending : tail[i] = wmRaw[Len(wmRaw) - wmPending + i]
  <2>1. Len(wmRaw) - wmPending \in 0..Len(wmRaw) /\ Len(wmRaw) - (Len(wmRaw) - wmPending) = wmPending
    BY <1>1
  <2>2. /\ tail \in Seq(Roles) /\ Len(tail) = Len(wmRaw) - (Len(wmRaw) - wmPending)
        /\ \A i \in 1..(Len(wmRaw) - (Len(wmRaw) - wmPending)) :
             tail[i] = wmRaw[Len(wmRaw) - wmPending + i]
    BY <1>1, <2>1, TailOf
  <2> HIDE DEF tail
  <2> QED BY <2>1, <2>2
<1> HIDE DEF tail
<1>3. /\ log \in Seq(Roles) /\ Len(log) = Len(wmLog) + wmPending
      /\ \A i \in 1..Len(wmLog) + wmPending :
           log[i] = IF i <= Len(wmLog) THEN wmLog[i] ELSE tail[i - Len(wmLog)]
  BY <1>1, <1>2, ConcatProperties DEF tail, Flushed
<1>4. ASSUME NEW i \in 1..Len(wmRaw) PROVE wmRaw[i] = log[wmGone + i]
  <2>1. CASE i <= Len(wmRaw) - wmPending
    <3>1. i \in 1..(Len(wmRaw) - wmPending) /\ wmGone + i <= Len(wmLog)
          /\ wmGone + i \in 1..(Len(wmLog) + wmPending)
      BY <1>1, <2>1
    <3>2. wmRaw[i] = wmLog[wmGone + i]
      BY <1>1, <3>1
    <3> QED BY <1>3, <3>1, <3>2
  <2>2. CASE ~(i <= Len(wmRaw) - wmPending)
    <3>1. /\ wmGone + i - Len(wmLog) \in 1..wmPending /\ ~(wmGone + i <= Len(wmLog))
          /\ Len(wmRaw) - wmPending + (wmGone + i - Len(wmLog)) = i
          /\ wmGone + i \in 1..(Len(wmLog) + wmPending)
      BY <1>1, <2>2, BufferedPlace
    <3>2. PICK j \in 1..(Len(wmLog) + wmPending) :
            /\ j = wmGone + i /\ ~(j <= Len(wmLog)) /\ j - Len(wmLog) \in 1..wmPending
            /\ Len(wmRaw) - wmPending + (j - Len(wmLog)) = i
      BY <1>1, <3>1
    <3>3. log[j] = tail[j - Len(wmLog)]
      <4>1. \A x \in 1..(Len(wmLog) + wmPending) :
              ~(x <= Len(wmLog)) => log[x] = tail[x - Len(wmLog)]
        BY <1>3
      <4> QED BY <3>2, <4>1
    <3>4. wmRaw[i] = log[j]
      BY <1>2, <3>2, <3>3
    <3> QED BY <3>2, <3>4
  <2> QED BY <2>1, <2>2
<1> QED BY <1>1, <1>3, <1>4

LEMMA PersistKeeps ==
    ASSUME HistoryInv, PersistTurn
    PROVE  HistoryInv'
<1>1. /\ wmRaw \in Seq(Roles) /\ Len(wmRaw) \in Nat /\ wmGone \in Nat
      /\ wmGone + Len(wmRaw) <= MaxMessages
  BY DEF PersistTurn, HistoryInv, MemoryTypeOK
<1>2. /\ wmLog' \in Seq(Roles) /\ Len(wmLog') = wmGone + Len(wmRaw)
      /\ \A i \in 1..Len(wmRaw) : wmRaw[i] = wmLog'[wmGone + i]
  BY FlushLinesUp DEF PersistTurn, Flushed
<1>3. MemoryTypeOK' /\ WindowLinesUp' /\ RequestsAreBuffered' /\ Len(wmLog') <= MaxMessages
  BY <1>1, <1>2
     DEF PersistTurn, HistoryInv, MemoryTypeOK, WindowLinesUp, RequestsAreBuffered
<1> QED BY <1>3 DEF PersistTurn, HistoryInv, SummariesReachBack

LEMMA AnswerKeeps ==
    ASSUME HistoryInv, AppendAnswer
    PROVE  HistoryInv'
<1> DEFINE log == Flushed
           answer == <<"assistant">>
<1>1. /\ wmRaw \in Seq(Roles) /\ Len(wmRaw) \in Nat /\ wmGone \in Nat /\ "assistant" \in Roles
      /\ wmLive /\ wmGone + Len(wmRaw) < MaxMessages /\ MaxMessages \in Nat
      /\ wmPending' = 0
      /\ UNCHANGED <<wmStored, wmLive, wmGone, wmSegments, wmSummed, wmCut>>
  BY MemoryAssumption DEF AppendAnswer, HistoryInv, MemoryTypeOK, Roles
<1>0. wmRaw' = Append(wmRaw, "assistant") /\ wmLog' = log \o answer
  BY DEF AppendAnswer, Flushed
<1>2. /\ log \in Seq(Roles) /\ Len(log) = wmGone + Len(wmRaw)
      /\ \A i \in 1..Len(wmRaw) : wmRaw[i] = log[wmGone + i]
  BY <1>1, FlushLinesUp
<1>3. /\ wmRaw' \in Seq(Roles) /\ Len(wmRaw') = Len(wmRaw) + 1
      /\ \A i \in 1..Len(wmRaw) : wmRaw'[i] = wmRaw[i]
      /\ wmRaw'[Len(wmRaw) + 1] = "assistant"
  BY <1>0, <1>1, AppendProperties
<1> HIDE DEF log
<1>4. /\ wmLog' \in Seq(Roles) /\ Len(wmLog') = Len(log) + 1
      /\ \A i \in 1..Len(log) : wmLog'[i] = log[i]
      /\ wmLog'[Len(log) + 1] = "assistant"
  <2>1. answer \in Seq(Roles) /\ Len(answer) = 1 /\ answer[1] = "assistant"
    BY DEF Roles
  <2> HIDE DEF answer
  <2> DEFINE both == log \o answer
  <2>2. /\ both \in Seq(Roles) /\ Len(both) = Len(log) + Len(answer)
        /\ \A i \in 1..Len(log) + Len(answer) :
             both[i] = IF i <= Len(log) THEN log[i] ELSE answer[i - Len(log)]
    <3>1. log \in Seq(Roles)
      BY <1>2
    <3> QED BY <2>1, <3>1, ConcatProperties
  <2>3. wmLog' = both
    BY <1>0
  <2> HIDE DEF both
  <2> QED BY <1>1, <1>2, <2>1, <2>2, <2>3
<1>5. WindowLinesUp'
  <2>0. /\ Len(wmRaw) \in Nat /\ wmGone \in Nat
        /\ Len(wmRaw') = Len(wmRaw) + 1 /\ Len(log) = wmGone + Len(wmRaw)
    BY <1>1, <1>2, <1>3
  <2>1. ASSUME NEW i \in 1..Len(wmRaw') PROVE wmRaw'[i] = wmLog'[wmGone + i]
    <3>1. CASE i <= Len(wmRaw)
      <4>1. i \in 1..Len(wmRaw) /\ wmGone + i \in 1..Len(log)
        BY <1>1, <1>2, <1>3, <3>1
      <4>2. wmRaw'[i] = log[wmGone + i]
        BY <1>2, <1>3, <4>1
      <4> QED BY <1>4, <4>1, <4>2
    <3>2. CASE ~(i <= Len(wmRaw))
      <4>1. i = Len(wmRaw) + 1 /\ wmGone + i = Len(log) + 1
        BY <2>0, <3>2
      <4>2. wmRaw'[i] = "assistant"
        BY <1>3, <4>1
      <4> QED BY <1>4, <4>1, <4>2
    <3> QED BY <3>1, <3>2
  <2>2. wmGone + Len(wmRaw') = Len(wmLog')
    BY <1>1, <1>2, <1>3, <1>4
  <2> QED BY <1>1, <1>3, <1>4, <2>1, <2>2 DEF WindowLinesUp
<1>6. MemoryTypeOK' /\ Len(wmLog') <= MaxMessages /\ wmGone' + Len(wmRaw') <= MaxMessages
  BY <1>1, <1>2, <1>3, <1>4 DEF HistoryInv, MemoryTypeOK
<1>7. RequestsAreBuffered'
  BY <1>1, <1>3 DEF RequestsAreBuffered
<1> QED BY <1>1, <1>5, <1>6, <1>7 DEF HistoryInv, SummariesReachBack

\* Bringing the summary within its budget ends no segment where none ended before.
LEMMA MergedEnds ==
    ASSUME NEW segments \in Seq(Spans), NEW q \in Merged(segments)
    PROVE  /\ q \in Seq(Spans)
           /\ \A i \in 1..Len(q) : \E j \in 1..Len(segments) : q[i][2] = segments[j][2]
<1>1. CASE q = segments
  BY <1>1
<1>2. CASE q # segments
  <2>1. PICK k \in 2..Len(segments) :
          q = <<<<segments[1][1], segments[k][2]>>>> \o SubSeq(segments, k + 1, Len(segments))
    BY <1>2 DEF Merged
  <2> DEFINE first == <<segments[1][1], segments[k][2]>>
             head == <<first>>
             rest == SubSeq(segments, k + 1, Len(segments))
  <2>2. first \in Spans /\ first[2] = segments[k][2]
    <3>1. segments[1] \in Spans /\ segments[k] \in Spans
      BY <2>1
    <3> QED BY <3>1 DEF Spans
  <2>3. /\ rest \in Seq(Spans) /\ Len(rest) = Len(segments) - k
        /\ \A i \in 1..Len(rest) : rest[i] = segments[k + i]
    <3>1. k \in 0..Len(segments)
      BY <2>1
    <3>2. /\ rest \in Seq(Spans) /\ Len(rest) = Len(segments) - k
          /\ \A i \in 1..(Len(segments) - k) : rest[i] = segments[k + i]
      BY <3>1, TailOf
    <3> HIDE DEF rest
    <3> QED BY <3>2
  <2>4. head \in Seq(Spans) /\ Len(head) = 1 /\ head[1] = first
    <3> HIDE DEF first
    <3> QED BY <2>2
  <2> DEFINE both == head \o rest
  <2>5. q = both
    BY <2>1
  <2> HIDE DEF head, rest, first
  <2>6. /\ q \in Seq(Spans) /\ Len(q) = 1 + Len(rest)
        /\ \A i \in 1..(1 + Len(rest)) : q[i] = IF i <= 1 THEN head[i] ELSE rest[i - 1]
    <3>1. /\ both \in Seq(Spans) /\ Len(both) = Len(head) + Len(rest)
          /\ \A i \in 1..Len(head) + Len(rest) :
               both[i] = IF i <= Len(head) THEN head[i] ELSE rest[i - Len(head)]
      <4>1. head \in Seq(Spans) /\ rest \in Seq(Spans)
        BY <2>3, <2>4
      <4> QED BY <4>1, ConcatProperties
    <3> HIDE DEF both
    <3> QED BY <2>4, <2>5, <3>1
  <2> HIDE DEF both
  <2>7. ASSUME NEW i \in 1..Len(q)
        PROVE  \E j \in 1..Len(segments) : q[i][2] = segments[j][2]
    <3>1. CASE i = 1
      BY <2>1, <2>2, <2>4, <2>6, <3>1
    <3>2. CASE i # 1
      <4>1. i - 1 \in 1..Len(rest) /\ k + (i - 1) \in 1..Len(segments)
        BY <2>1, <2>3, <2>6, <3>2
      <4>2. q[i] = rest[i - 1] /\ rest[i - 1] = segments[k + (i - 1)]
        <5>1. i \in 1..(1 + Len(rest)) /\ ~(i <= 1)
          BY <2>3, <2>6, <3>2
        <5>3. q[i] = IF i <= 1 THEN head[i] ELSE rest[i - 1]
          BY <2>6, <5>1, Zenon
        <5>2. rest[i - 1] = segments[k + (i - 1)]
          BY <2>3, <4>1
        <5> QED BY <5>1, <5>2, <5>3, Zenon
      <4> QED BY <4>1, <4>2
    <3> QED BY <3>1, <3>2
  <2> QED BY <2>6, <2>7
<1> QED BY <1>1, <1>2

\* A compaction.
LEMMA CompactKeeps ==
    ASSUME HistoryInv, NEW keep \in RoundsToKeep, NEW tighten \in BOOLEAN, Compact(keep, tighten)
    PROVE  HistoryInv'
<1> DEFINE boundary == RecentBoundary(wmRaw, KeepRecentRounds)
           first == RecentBoundary(wmRaw, keep)
           last == RecentBoundary(wmRaw, 1)
           removed == IF tighten THEN Max({first, last}) ELSE first
           span == SpanOf(boundary)
           added == Append(wmSegments, span)
           folded == (wmGone + 1)..(wmGone + boundary)
<1>1. /\ wmRaw \in Seq(Roles) /\ Len(wmRaw) \in Nat /\ wmPending \in 0..Len(wmRaw)
      /\ wmGone \in Nat /\ MaxMessages \in Nat /\ wmLive
      /\ wmGone + Len(wmRaw) <= MaxMessages /\ wmSegments \in Seq(Spans)
      /\ wmGone + Len(wmRaw) = Len(wmLog) + wmPending
      /\ \A i \in 1..(Len(wmRaw) - wmPending) : wmRaw[i] = wmLog[wmGone + i]
  BY MemoryAssumption DEF Compact, HistoryInv, MemoryTypeOK, WindowLinesUp
<1>2. keep \in Nat \ {0}
  BY MemoryAssumption DEF RoundsToKeep
<1>3. /\ boundary \in 0..(Len(wmRaw) - wmPending) /\ first \in 0..(Len(wmRaw) - wmPending)
      /\ last \in 0..(Len(wmRaw) - wmPending)
  BY <1>2, BoundaryIsOnDisk DEF KeepRecentRounds
<1>0. wmRaw' = SubSeq(wmRaw, removed + 1, Len(wmRaw))
  BY DEF Compact
<1>4. /\ boundary > 0 /\ wmGone' = wmGone + removed
      /\ wmSummed' = wmSummed \cup folded /\ wmCut' = (wmCut \/ removed > boundary)
      /\ UNCHANGED <<wmLog, wmLive, wmPending>>
  BY DEF Compact
<1>5. PICK q \in Merged(added) :
        /\ wmSegments' = q
        /\ wmStored' = IF q = added THEN wmStored \cup {span} ELSE {q[i] : i \in DOMAIN q}
  BY DEF Compact
<1>6. removed \in 0..(Len(wmRaw) - wmPending)
  <2> HIDE DEF first, last
  <2>1. Max({first, last}) \in {first, last}
    <3>1. {first, last} \subseteq 0..Len(wmRaw) /\ {first, last} # {}
      BY <1>1, <1>3
    <3> QED BY <1>1, <3>1, LargestNumber
  <2> QED BY <1>3, <2>1
<1>7. /\ span \in Spans /\ span[2] = wmGone + boundary
  <2> HIDE DEF boundary
  <2>1. wmGone + 1 \in 1..MaxMessages /\ wmGone + boundary \in 1..MaxMessages
    BY <1>1, <1>3, <1>4
  <2>2. span = <<wmGone + 1, wmGone + boundary>>
    BY DEF SpanOf
  <2> QED BY <2>1, <2>2 DEF Spans
<1> HIDE DEF boundary, first, last, removed, span
<1>8. /\ wmRaw' \in Seq(Roles) /\ Len(wmRaw') = Len(wmRaw) - removed
      /\ \A i \in 1..Len(wmRaw') : wmRaw'[i] = wmRaw[removed + i]
  <2>1. removed \in 0..Len(wmRaw)
    BY <1>1, <1>6
  <2>2. /\ wmRaw' \in Seq(Roles) /\ Len(wmRaw') = Len(wmRaw) - removed
        /\ \A i \in 1..(Len(wmRaw) - removed) : wmRaw'[i] = wmRaw[removed + i]
    BY <1>0, <1>1, <2>1, TailOf
  <2> QED BY <2>2
<1>9. /\ added \in Seq(Spans) /\ Len(added) = Len(wmSegments) + 1
      /\ \A i \in 1..Len(wmSegments) : added[i] = wmSegments[i]
      /\ added[Len(wmSegments) + 1] = span
  BY <1>1, <1>7, AppendProperties
<1> HIDE DEF added
<1>10. /\ q \in Seq(Spans)
       /\ \A i \in 1..Len(q) : \E j \in 1..Len(added) : q[i][2] = added[j][2]
  BY <1>5, <1>9, MergedEnds
<1>11. MemoryTypeOK'
  <2>1. wmStored' \subseteq Spans
    <3>1. wmStored \subseteq Spans
      BY DEF HistoryInv, MemoryTypeOK
    <3>2. \A i \in DOMAIN q : q[i] \in Spans
      BY <1>10
    <3> QED BY <1>5, <1>7, <3>1, <3>2
  <2>2. wmSummed' \subseteq 1..MaxMessages
    <3>1. folded \subseteq 1..MaxMessages
      BY <1>1, <1>3
    <3> QED BY <1>4, <3>1 DEF HistoryInv, MemoryTypeOK
  <2>3. /\ wmPending' \in 0..Len(wmRaw') /\ wmGone' \in 0..MaxMessages
        /\ wmCut' \in BOOLEAN /\ wmLive' \in BOOLEAN /\ wmLog' \in Seq(Roles)
    BY <1>1, <1>4, <1>6, <1>8 DEF HistoryInv, MemoryTypeOK
  <2> QED BY <1>5, <1>8, <1>10, <2>1, <2>2, <2>3 DEF MemoryTypeOK
<1>12. Len(wmLog') <= MaxMessages /\ wmGone' + Len(wmRaw') <= MaxMessages
  BY <1>1, <1>4, <1>6, <1>8 DEF HistoryInv
<1>13. WindowLinesUp'
  <2>1. ASSUME NEW i \in 1..(Len(wmRaw') - wmPending) PROVE wmRaw'[i] = wmLog[wmGone' + i]
    <3>1. removed + i \in 1..(Len(wmRaw) - wmPending) /\ i \in 1..Len(wmRaw')
          /\ wmGone + (removed + i) = wmGone' + i
      BY <1>1, <1>4, <1>6, <1>8
    <3> QED BY <1>1, <1>8, <3>1
  <2>2. wmGone' + Len(wmRaw') = Len(wmLog) + wmPending
    BY <1>1, <1>4, <1>6, <1>8
  <2> QED BY <1>4, <2>1, <2>2 DEF WindowLinesUp
<1>14. RequestsAreBuffered'
  <2> SUFFICES ASSUME NEW i \in 1..Len(wmRaw'), i > Len(wmRaw') - wmPending
               PROVE  wmRaw'[i] # "assistant"
    BY <1>4 DEF RequestsAreBuffered
  <2>1. removed + i \in 1..Len(wmRaw) /\ removed + i > Len(wmRaw) - wmPending
    BY <1>1, <1>6, <1>8
  <2> QED BY <1>8, <2>1 DEF HistoryInv, RequestsAreBuffered
<1>15. SummariesReachBack'
  <2> SUFFICES ASSUME ~wmCut'
               PROVE  /\ 1..wmGone' \subseteq wmSummed'
                      /\ \A s \in wmStored' : 1..s[2] \subseteq wmSummed'
                      /\ \A i \in 1..Len(wmSegments') : 1..wmSegments'[i][2] \subseteq wmSummed'
    BY DEF SummariesReachBack
  <2>1. ~wmCut /\ removed <= boundary
    <3>1. ~wmCut /\ ~(removed > boundary)
      BY <1>4, Zenon
    <3> QED BY <1>1, <1>3, <1>6, <3>1
  <2>2. /\ 1..wmGone \subseteq wmSummed
        /\ \A s \in wmStored : 1..s[2] \subseteq wmSummed
        /\ \A i \in 1..Len(wmSegments) : 1..wmSegments[i][2] \subseteq wmSummed
    BY <1>1, <2>1 DEF HistoryInv, SummariesReachBack
  <2>3. 1..(wmGone + boundary) \subseteq wmSummed'
    BY <1>1, <1>3, <1>4, <2>2
  <2>4. 1..wmGone' \subseteq wmSummed'
    BY <1>1, <1>3, <1>4, <1>6, <2>1, <2>3
  <2>5. \A j \in 1..Len(added) : 1..added[j][2] \subseteq wmSummed'
    <3> TAKE j \in 1..Len(added)
    <3>1. CASE j \in 1..Len(wmSegments)
      BY <1>4, <1>9, <2>2, <3>1
    <3>2. CASE j = Len(wmSegments) + 1
      BY <1>7, <1>9, <2>3, <3>2
    <3> QED BY <1>1, <1>9, <3>1, <3>2
  <2>6. \A i \in 1..Len(q) : 1..q[i][2] \subseteq wmSummed'
    <3> TAKE i \in 1..Len(q)
    <3>1. PICK j \in 1..Len(added) : q[i][2] = added[j][2]
      BY <1>10
    <3> QED BY <2>5, <3>1
  <2>7. \A s \in wmStored' : 1..s[2] \subseteq wmSummed'
    <3>1. CASE q = added
      BY <1>4, <1>5, <1>7, <2>2, <2>3, <3>1
    <3>2. CASE q # added
      <4>1. DOMAIN q = 1..Len(q)
        BY <1>10
      <4> QED BY <1>5, <2>6, <3>2, <4>1
    <3> QED BY <3>1, <3>2
  <2> QED BY <1>5, <2>4, <2>6, <2>7
<1> QED BY <1>4, <1>11, <1>12, <1>13, <1>14, <1>15 DEF HistoryInv

LEMMA UnloadKeeps ==
    ASSUME HistoryInv, Unload
    PROVE  HistoryInv'
<1>1. /\ wmRaw' \in Seq(Roles) /\ Len(wmRaw') = 0
      /\ wmSegments' \in Seq(Spans) /\ Len(wmSegments') = 0
  BY EmptySeq DEF Unload
<1>2. /\ wmLive' = FALSE /\ wmPending' = 0 /\ wmGone' = 0
      /\ UNCHANGED <<wmLog, wmStored, wmSummed, wmCut>>
  BY DEF Unload
<1>3. MemoryTypeOK'
  <2>1. wmPending' \in 0..Len(wmRaw') /\ wmGone' \in 0..MaxMessages
    BY <1>1, <1>2, MemoryAssumption
  <2> QED BY <1>1, <1>2, <2>1 DEF HistoryInv, MemoryTypeOK
<1>4. WindowLinesUp' /\ RequestsAreBuffered' /\ SummariesReachBack'
  BY <1>1, <1>2
     DEF HistoryInv, WindowLinesUp, RequestsAreBuffered, SummariesReachBack
<1> QED BY <1>2, <1>3, <1>4 DEF HistoryInv

LEMMA HistoryStep == HistoryInv /\ [MemoryNext]_memoryVars => HistoryInv'
<1> SUFFICES ASSUME HistoryInv, [MemoryNext]_memoryVars PROVE HistoryInv'
  OBVIOUS
<1>1. CASE Load
  BY <1>1, LoadKeeps
<1>2. CASE AppendUser \/ AppendResults
  BY <1>2, BufferKeeps DEF AppendUser, AppendResults
<1>3. CASE AppendAnswer
  BY <1>3, AnswerKeeps
<1>4. CASE PersistTurn
  BY <1>4, PersistKeeps
<1>5. CASE Unload
  BY <1>5, UnloadKeeps
<1>6. ASSUME NEW keep \in RoundsToKeep, NEW tighten \in BOOLEAN, Compact(keep, tighten)
      PROVE  HistoryInv'
  BY <1>6, CompactKeeps
<1>7. CASE UNCHANGED memoryVars
  BY <1>7
     DEF memoryVars, HistoryInv, MemoryTypeOK, WindowLinesUp, RequestsAreBuffered,
         SummariesReachBack
<1> QED BY <1>1, <1>2, <1>3, <1>4, <1>5, <1>6, <1>7 DEF MemoryNext

\* The window is the tail of the conversation and what it has left behind is in some
\* summary, for any number of messages and any settings of the window, as long as no
\* compaction has kept fewer rounds than its summary leaves out (compaction.py, store.py:555).
THEOREM HistoryKept == MemorySpec => []HistoryIsAccountedFor
<1>1. HistoryInv => HistoryIsAccountedFor
  BY DEF HistoryInv, SummariesReachBack, HistoryIsAccountedFor, NothingIsForgotten
<1> QED BY HistoryInitially, HistoryStep, <1>1, PTL DEF MemorySpec

----------------------------------------------------------------------------
(***************************************************************************)
(* What becomes of the research                                            *)
(***************************************************************************)
ResearchSpec == ResearchInit /\ [][PlanNext \/ CiteNext]_researchVars

\* A run that goes on has its loop, and only a clear that failed leaves a checkpoint
\* beside it.
LivesInv ==
    /\ rsUp \in {"no", "fresh", "up"} /\ rsRunning \in BOOLEAN /\ rsMishaps \in Nat
    /\ rsRunning => rsUp = "up"
    /\ rsRunning /\ rsCheck # <<>> => rsMishaps > 0

\* Rounds without progress: the first round of a run only takes note of the plan.
StallInv ==
    /\ rsRounds \in Nat /\ rsStall \in Nat
    /\ rsRounds = 0 => rsSeen = NoPlan /\ rsStall = 0
    /\ rsStall > 0 => rsStall < rsRounds

\* A checkpoint is of the plan the conversation last had, unless its clear has failed
\* and the plan was changed since; then the run of that change is still under way.
PlanInv ==
    /\ rsPlan \in {rsNewest, NoPlan}
    /\ rsMishaps <= MaxMishaps
    /\ rsCheck # <<>> /\ rsCheck.stopped /\ rsCheck.plan \notin {NoPlan, rsNewest}
       => rsRunning /\ rsMishaps > 0

LEMMA LivesStep ==
    LivesInv /\ StallInv /\ [PlanNext \/ CiteNext]_researchVars => LivesInv' /\ StallInv'
<1> SUFFICES ASSUME LivesInv, StallInv, [PlanNext \/ CiteNext]_researchVars
             PROVE  LivesInv' /\ StallInv'
  OBVIOUS
<1> USE DEF LivesInv, StallInv
<1>0. Mishap => rsMishaps' \in Nat /\ rsMishaps' > 0
  BY DEF Mishap
<1>1. CASE UNCHANGED researchVars
  BY <1>1 DEF researchVars, tables, planVars, citeVars
<1>2. CASE BuildResearchLoop
  BY <1>2 DEF BuildResearchLoop, tables
<1>3. CASE Evict \/ Crash
  <2>1. Gone /\ (UNCHANGED rsMishaps \/ Mishap)
    BY <1>3 DEF Evict, Crash
  <2> QED BY <1>0, <2>1 DEF Gone
<1>4. ASSUME NEW message \in BOOLEAN, BeginRun(message)
      PROVE  LivesInv' /\ StallInv'
  BY <1>0, <1>4 DEF BeginRun, Restored
<1>5. ASSUME NEW answered, NEW buffered, EndResearch(answered, buffered)
      PROVE  LivesInv' /\ StallInv'
  BY <1>0, <1>5 DEF EndResearch, planVars
<1>6. ASSUME NEW n, NEW some, PersistFails(n, some)
      PROVE  LivesInv' /\ StallInv'
  <2>1. Mishap /\ UNCHANGED rsCheck /\ rsRunning' = FALSE
        /\ (Gone \/ UNCHANGED <<rsUp, planVars>>)
    BY <1>6 DEF PersistFails, Gone
  <2>2. CASE Gone
    BY <1>0, <2>1, <2>2 DEF Gone
  <2>3. CASE UNCHANGED <<rsUp, planVars>>
    BY <1>0, <2>1, <2>3 DEF planVars
  <2> QED BY <2>1, <2>2, <2>3
<1>7. ASSUME NEW plan, Planned(plan)
      PROVE  LivesInv' /\ StallInv'
  BY <1>7 DEF Planned, tables
<1>8. CASE EndRound
  <2>1. rsRounds' = rsRounds + 1 /\ rsRounds' \in Nat
    BY <1>8 DEF EndRound
  <2>2. CASE rsPlan = NoPlan
    BY <1>8, <2>1, <2>2 DEF EndRound, tables
  <2>3. CASE rsPlan # NoPlan
    BY <1>8, <2>1, <2>3 DEF EndRound, tables
  <2> QED BY <2>2, <2>3
<1>9. ASSUME NEW d, FetchData(d)
      PROVE  LivesInv' /\ StallInv'
  BY <1>9 DEF FetchData, tables, planVars
<1>10. ASSUME NEW x, Conclude(x)
       PROVE  LivesInv' /\ StallInv'
  BY <1>10 DEF Conclude, tables, planVars
<1>11. CASE LifeNext
  BY <1>2, <1>3, <1>4, <1>5, <1>6, <1>11 DEF LifeNext
<1> QED BY <1>1, <1>7, <1>8, <1>9, <1>10, <1>11 DEF PlanNext, CiteNext, SetPlan, MarkStep

LEMMA PlanStep ==
    ASSUME MaxMishaps <= 1
    PROVE  LivesInv /\ PlanInv /\ [PlanNext \/ CiteNext]_researchVars => PlanInv'
<1> SUFFICES ASSUME LivesInv, PlanInv, [PlanNext \/ CiteNext]_researchVars
             PROVE  PlanInv'
  OBVIOUS
<1> USE ResearchAssumption DEF LivesInv, PlanInv
<1>1. CASE UNCHANGED researchVars
  BY <1>1 DEF researchVars, tables, planVars, citeVars
<1>2. CASE BuildResearchLoop
  BY <1>2 DEF BuildResearchLoop, tables
<1>3. CASE Evict \/ Crash
  BY <1>3 DEF Evict, Crash, Gone, Mishap, tables
<1>4. ASSUME NEW message \in BOOLEAN, BeginRun(message)
      PROVE  PlanInv'
  <2>1. ~rsRunning /\ UNCHANGED rsNewest /\ rsRunning' = TRUE /\ Restored
    BY <1>4 DEF BeginRun
  <2>2. CheckedPlan \in {rsNewest, NoPlan}
    BY <2>1 DEF CheckedPlan
  <2>3. CASE UNCHANGED rsMishaps /\ rsCheck' = <<>> /\ rsPlan' = CheckedPlan
    BY <2>1, <2>2, <2>3
  <2>4. CASE Mishap /\ UNCHANGED rsCheck /\ rsPlan' \in {rsPlan, CheckedPlan}
    BY <2>1, <2>2, <2>4 DEF Mishap
  <2> QED BY <2>1, <2>3, <2>4 DEF Restored
<1>5. ASSUME NEW answered, NEW buffered, EndResearch(answered, buffered)
      PROVE  PlanInv'
  BY <1>5 DEF EndResearch, Mishap, planVars, Checkpoint
<1>6. ASSUME NEW n, NEW some, PersistFails(n, some)
      PROVE  PlanInv'
  BY <1>6 DEF PersistFails, Gone, Mishap, planVars
<1>7. ASSUME NEW plan, Planned(plan)
      PROVE  PlanInv'
  BY <1>7 DEF Planned, Researching, tables
<1>8. CASE EndRound
  BY <1>8 DEF EndRound, Researching, tables
<1>9. ASSUME NEW d, FetchData(d)
      PROVE  PlanInv'
  BY <1>9 DEF FetchData, tables, planVars
<1>10. ASSUME NEW x, Conclude(x)
       PROVE  PlanInv'
  BY <1>10 DEF Conclude, tables, planVars
<1>11. CASE LifeNext
  BY <1>2, <1>3, <1>4, <1>5, <1>6, <1>11 DEF LifeNext
<1> QED BY <1>1, <1>7, <1>8, <1>9, <1>10, <1>11 DEF PlanNext, CiteNext, SetPlan, MarkStep

----------------------------------------------------------------------------
Saved == DOMAIN rsCites
Unsaved(items) == {x \in items : x[1] \notin Saved}

\* The registry gives a number once; what of it is saved is saved as it is, what is not
\* is newer than all that is.
RegistryInv ==
    /\ rsRegistry \subseteq Numbers \X Data /\ IsFiniteSet(rsRegistry)
    /\ Cardinality(rsRegistry) <= MaxEntries
    /\ rsCounter \in 0..MaxCites
    /\ \A x, y \in rsRegistry : x[1] = y[1] => x = y
    /\ \A x \in rsRegistry : x[1] <= rsCounter
    /\ \A x \in rsRegistry : x[1] \in Saved => rsCites[x[1]] = x[2]
    /\ \A x \in Unsaved(rsRegistry), n \in Saved : n < x[1]

\* A full registry of entries newer than n has been saved, or is about to be.
Outlived(n) == \A x \in rsRegistry : n < x[1]
SavedAfter(n) == {m \in Saved : m > n}

\* What is drawn and not written cites what the registry or the table has, or the
\* registry has been filled since.
PendingInv ==
    \A c \in rsPending :
      \/ <<c.cid, c.data>> \in rsRegistry
      \/ c.cid \in Saved /\ rsCites[c.cid] = c.data
      \/ /\ c.cid \in Nat /\ c.cid \notin Saved
         /\ Cardinality(rsRegistry) >= MaxEntries /\ Outlived(c.cid)

CitesInv ==
    /\ Saved \subseteq Numbers /\ \A n \in Saved : rsCites[n] \in Data
    /\ rsUp = "up" => \A n \in Saved : n <= rsCounter
    /\ rsUp # "up" => rsRegistry = {} /\ rsPending = {}
    /\ RegistryInv
    /\ PendingInv
    /\ ConclusionsKeepTheirData /\ \A c \in rsStored : c.cid \in Nat

LEMMA ResearchInitially == ResearchInit => LivesInv /\ StallInv /\ PlanInv /\ CitesInv
<1> SUFFICES ASSUME ResearchInit PROVE LivesInv /\ StallInv /\ PlanInv /\ CitesInv
  OBVIOUS
<1>1. LivesInv /\ StallInv /\ PlanInv
  <2>1. rsCheck = <<>> /\ ~rsRunning /\ rsPlan = rsNewest
    BY DEF ResearchInit
  <2>2. rsMishaps = 0 /\ 0 <= MaxMishaps
    BY ResearchAssumption DEF ResearchInit
  <2>3. PlanInv
    BY <2>1, <2>2 DEF PlanInv
  <2> QED BY <2>3 DEF ResearchInit, LivesInv, StallInv
<1>2. Saved = {} /\ IsFiniteSet({}) /\ Cardinality({}) = 0
  BY FS_EmptySet DEF ResearchInit, Saved
<1>3. CitesInv
  BY <1>2, ResearchAssumption
     DEF ResearchInit, CitesInv, RegistryInv, PendingInv, Unsaved, ConclusionsKeepTheirData
<1> QED BY <1>1, <1>3

\* Trimming keeps what fewer than max_entries others are newer than.
LEMMA TrimmedKeeps ==
    ASSUME NEW items, IsFiniteSet(items), NEW x \in items, NEW newer,
           IsFiniteSet(newer), Cardinality(newer) < MaxEntries,
           \A y \in items : y[1] > x[1] => y \in newer
    PROVE  x \in Trimmed(items)
<1> DEFINE above == {y \in items : y[1] > x[1]}
<1>1. above \in SUBSET newer
  OBVIOUS
<1> HIDE DEF above
<1>2. Cardinality(above) \in Nat /\ Cardinality(newer) \in Nat /\ Cardinality(above) <= Cardinality(newer)
  BY <1>1, FS_Subset, FS_CardinalityType
<1>3. Cardinality(above) < MaxEntries
  BY <1>2, ResearchAssumption
<1> QED BY <1>3 DEF Trimmed, above

LEMMA TrimmedIsPart ==
    ASSUME NEW items, IsFiniteSet(items)
    PROVE  Trimmed(items) \subseteq items /\ IsFiniteSet(Trimmed(items))
<1>1. Trimmed(items) \in SUBSET items
  BY DEF Trimmed
<1> QED BY <1>1, FS_Subset

\* Trimming leaves no more than max_entries.
LEMMA TrimmedIsSmall ==
    ASSUME NEW items, IsFiniteSet(items), \A x \in items : x[1] \in Nat,
           \A x, y \in items : x[1] = y[1] => x = y
    PROVE  Cardinality(Trimmed(items)) <= MaxEntries
<1> DEFINE kept == Trimmed(items)
           numbers == {x[1] : x \in kept}
<1>1. kept \subseteq items /\ IsFiniteSet(kept)
  BY TrimmedIsPart
<1>2. CASE kept = {}
  BY <1>2, FS_EmptySet, ResearchAssumption
<1>3. CASE kept # {}
  <2>1. PICK low \in kept : \A y \in kept : low[1] <= y[1]
    <3>1. numbers \subseteq Nat /\ numbers # {}
      BY <1>1, <1>3
    <3> HIDE DEF numbers
    <3>2. PICK n \in numbers : \A m \in numbers : n <= m
      BY <3>1, LeastNumber
    <3> USE DEF numbers
    <3> QED BY <3>2
  <2> DEFINE above == {y \in items : y[1] > low[1]}
             rest == kept \ {low}
  <2>2. above \in SUBSET items /\ Cardinality(above) < MaxEntries
    BY DEF Trimmed
  <2>3. rest \in SUBSET above
    <3> SUFFICES ASSUME NEW y \in kept, y # low PROVE y[1] > low[1]
      BY <1>1
    <3>1. y[1] \in Nat /\ low[1] \in Nat /\ low[1] <= y[1] /\ y[1] # low[1]
      BY <1>1, <2>1
    <3> QED BY <3>1
  <2> HIDE DEF above, rest, kept
  <2>4. IsFiniteSet(above) /\ Cardinality(above) \in Nat
    BY <2>2, FS_Subset, FS_CardinalityType
  <2>5. Cardinality(rest) <= Cardinality(above)
    BY <2>3, <2>4, FS_Subset
  <2>6. Cardinality(rest) = Cardinality(kept) - 1
    BY <1>1, FS_RemoveElement DEF rest
  <2>7. Cardinality(kept) \in Nat
    BY <1>1, FS_CardinalityType
  <2>8. Cardinality(kept) <= MaxEntries
    BY <2>2, <2>4, <2>5, <2>6, <2>7, ResearchAssumption
  <2> QED BY <2>8 DEF kept
<1> QED BY <1>2, <1>3

\* Of one entry too many only the oldest goes, and the rest fills the registry.
LEMMA TrimmedIsFull ==
    ASSUME NEW items, IsFiniteSet(items), \A x \in items : x[1] \in Nat,
           Cardinality(items) <= MaxEntries + 1
    PROVE  /\ \A x \in items \ Trimmed(items) :
                 /\ Cardinality(items) = MaxEntries + 1
                 /\ \A y \in items \ {x} : y[1] > x[1]
           /\ Cardinality(items) = MaxEntries + 1 => Cardinality(Trimmed(items)) >= MaxEntries
<1> DEFINE gone == items \ Trimmed(items)
           above(x) == {y \in items : y[1] > x[1]}
<1>0. Cardinality(items) \in Nat
  BY FS_CardinalityType
<1>1. \A x \in gone : /\ Cardinality(items) = MaxEntries + 1
                      /\ \A y \in items \ {x} : y[1] > x[1]
  <2> SUFFICES ASSUME NEW x \in gone
               PROVE  Cardinality(items) = MaxEntries + 1 /\ above(x) = items \ {x}
    OBVIOUS
  <2> DEFINE rest == items \ {x}
  <2>1. IsFiniteSet(rest) /\ Cardinality(rest) = Cardinality(items) - 1
    BY FS_RemoveElement
  <2>2. above(x) \in SUBSET rest
    <3> SUFFICES ASSUME NEW y \in items, y[1] > x[1] PROVE y # x
      OBVIOUS
    <3> QED OBVIOUS
  <2>3. ~(Cardinality(above(x)) < MaxEntries)
    BY DEF Trimmed
  <2> HIDE DEF above, rest
  <2>4. IsFiniteSet(above(x)) /\ Cardinality(above(x)) <= Cardinality(rest)
    BY <2>1, <2>2, FS_Subset
  <2>5. Cardinality(above(x)) \in Nat
    BY <2>4, FS_CardinalityType
  <2>6. Cardinality(above(x)) = Cardinality(rest) /\ Cardinality(items) = MaxEntries + 1
    BY <1>0, <2>1, <2>3, <2>4, <2>5, ResearchAssumption
  <2>7. above(x) = rest
    BY <2>1, <2>2, <2>6, FS_Subset
  <2> QED BY <2>6, <2>7 DEF rest
<1>2. \A x, y \in gone : x = y
  <2> SUFFICES ASSUME NEW x \in gone, NEW y \in gone, x # y PROVE FALSE
    OBVIOUS
  <2>1. y[1] > x[1] /\ x[1] > y[1] /\ x[1] \in Nat /\ y[1] \in Nat
    BY <1>1
  <2> QED BY <2>1
<1>3. Trimmed(items) \subseteq items
  BY DEF Trimmed
<1>4. ASSUME Cardinality(items) = MaxEntries + 1 PROVE Cardinality(Trimmed(items)) >= MaxEntries
  <2>1. CASE gone = {}
    <3>1. Trimmed(items) = items
      BY <1>3, <2>1
    <3> QED BY <1>4, <3>1, ResearchAssumption
  <2>2. CASE gone # {}
    <3>1. PICK x \in gone : Trimmed(items) = items \ {x}
      BY <1>2, <1>3, <2>2
    <3>2. Cardinality(items \ {x}) = Cardinality(items) - 1
      BY FS_RemoveElement
    <3> QED BY <1>4, <3>1, <3>2, ResearchAssumption
  <2> QED BY <2>1, <2>2
<1> QED BY <1>1, <1>4

LEMMA SameCites ==
    CitesInv /\ UNCHANGED <<rsCites, rsStored, rsRegistry, rsCounter, rsPending, rsUp>> => CitesInv'
<1> SUFFICES ASSUME CitesInv,
                    UNCHANGED <<rsCites, rsStored, rsRegistry, rsCounter, rsPending, rsUp>>
             PROVE  CitesInv'
  OBVIOUS
<1>1. Saved' = Saved /\ RegistryInv'
  BY DEF CitesInv, RegistryInv, Unsaved, Saved
<1>2. PendingInv'
  BY <1>1 DEF CitesInv, PendingInv, Outlived
<1>3. ConclusionsKeepTheirData'
  BY DEF CitesInv, ConclusionsKeepTheirData
<1> QED BY <1>1, <1>2, <1>3 DEF CitesInv

\* A loop that loads what the conversation has cited goes on numbering above all of it.
LEMMA LoadKeepsCites ==
    ASSUME LivesInv, CitesInv, NEW message, BeginRun(message)
    PROVE  CitesInv'
<1>1. UNCHANGED <<rsCites, rsStored, rsPending>> /\ rsUp # "no" /\ rsUp' = "up" /\ Loaded
  BY DEF BeginRun
<1>2. CASE rsUp # "fresh"
  <2>1. UNCHANGED <<rsRegistry, rsCounter>> /\ rsUp = "up"
    BY <1>1, <1>2 DEF Loaded, LivesInv
  <2> QED BY <1>1, <2>1, SameCites
<1>3. CASE rsUp = "fresh"
  <2> DEFINE all == {<<n, rsCites[n]>> : n \in Saved}
             kept == Trimmed(all)
             given == {0} \cup {x[1] : x \in kept}
  <2>1. rsRegistry' = kept /\ rsCounter' = Max(given)
    BY <1>1, <1>3 DEF Loaded, HighestOf, Saved
  <2>2. IsFiniteSet(Saved) /\ IsFiniteSet(all)
    <3>1. IsFiniteSet(1..MaxCites)
      BY ResearchAssumption, FS_Interval
    <3>2. IsFiniteSet(Saved)
      BY <3>1, FS_Subset DEF CitesInv, Numbers
    <3> DEFINE entry == [n \in Saved |-> <<n, rsCites[n]>>]
    <3>3. entry \in Surjection(Saved, all)
      BY DEF Surjection
    <3> HIDE DEF entry, all
    <3> QED BY <3>2, <3>3, FS_Surjection
  <2>3. /\ all \subseteq Numbers \X Data
        /\ \A x \in all : x[1] \in Saved /\ x[2] = rsCites[x[1]] /\ x = <<x[1], rsCites[x[1]]>>
    BY DEF CitesInv
  <2> HIDE DEF all
  <2>4. kept \subseteq all /\ IsFiniteSet(kept) /\ Cardinality(kept) <= MaxEntries
    <3>1. /\ \A x \in all : x[1] \in Nat
          /\ \A x, y \in all : x[1] = y[1] => x = y
      BY <2>3 DEF Numbers
    <3> QED BY <2>2, <3>1, TrimmedIsPart, TrimmedIsSmall
  <2>5. given \subseteq 0..MaxCites /\ given # {}
    BY <2>3, <2>4, ResearchAssumption DEF Numbers
  <2> HIDE DEF kept
  <2>6. /\ Max(given) \in 0..MaxCites /\ \A x \in kept : x[1] <= Max(given)
    <3>1. Max(given) \in given /\ \A g \in given : g <= Max(given)
      <4> HIDE DEF given
      <4> QED BY <2>5, LargestNumber, ResearchAssumption
    <3> QED BY <2>5, <3>1
  <2> HIDE DEF given
  <2>7. \A n \in Saved : n <= Max(given)
    <3> SUFFICES ASSUME Saved # {} PROVE \A n \in Saved : n <= Max(given)
      OBVIOUS
    <3>1. Saved \subseteq 0..MaxCites
      BY ResearchAssumption DEF CitesInv, Numbers
    <3>2. Max(Saved) \in Saved /\ \A n \in Saved : n <= Max(Saved)
      BY <3>1, LargestNumber, ResearchAssumption
    <3> DEFINE x == <<Max(Saved), rsCites[Max(Saved)]>>
    <3>3. x \in all /\ x[1] = Max(Saved)
      BY <3>2 DEF all
    <3> HIDE DEF x
    <3>4. x \in kept
      <4>1. \A y \in all : ~(y[1] > x[1])
        <5> TAKE y \in all
        <5>1. y[1] \in Saved /\ y[1] \in 0..MaxCites /\ y[1] <= x[1] /\ x[1] \in 0..MaxCites
          BY <2>3, <3>1, <3>2, <3>3
        <5> QED BY <5>1, ResearchAssumption
      <4>2. IsFiniteSet({}) /\ Cardinality({}) = 0
        BY FS_EmptySet
      <4>3. Cardinality({}) < MaxEntries
        BY <4>2, ResearchAssumption
      <4> QED BY <2>2, <3>3, <4>1, <4>2, <4>3, TrimmedKeeps DEF kept
    <3>5. Max(Saved) <= Max(given)
      BY <2>6, <3>3, <3>4
    <3> TAKE n \in Saved
    <3>6. /\ n \in 0..MaxCites /\ Max(Saved) \in 0..MaxCites /\ Max(given) \in 0..MaxCites
          /\ n <= Max(Saved)
      BY <2>6, <3>1, <3>2
    <3> QED BY <3>5, <3>6, ResearchAssumption
  <2>8. RegistryInv'
    <3>1. \A x \in kept : x \in Numbers \X Data /\ x[1] \in Saved /\ rsCites[x[1]] = x[2]
                          /\ x = <<x[1], rsCites[x[1]]>>
      BY <2>3, <2>4
    <3>2. Saved' = Saved
      BY <1>1 DEF Saved
    <3> QED BY <1>1, <2>1, <2>4, <2>6, <3>1, <3>2 DEF RegistryInv, Unsaved
  <2>9. rsPending = {}
    BY <1>3 DEF CitesInv
  <2> QED BY <1>1, <2>1, <2>7, <2>8, <2>9
          DEF CitesInv, PendingInv, Saved, ConclusionsKeepTheirData
<1> QED BY <1>2, <1>3

\* What is fetched gets a number no citation had; what goes unsaved leaves a full registry.
LEMMA FetchKeepsCites ==
    ASSUME LivesInv, CitesInv, NEW d \in Data, FetchData(d)
    PROVE  CitesInv'
<1> DEFINE new == <<rsCounter + 1, d>>
           items == rsRegistry \cup {new}
<1>1. /\ rsCounter' = rsCounter + 1 /\ rsRegistry' = Trimmed(items) /\ rsUp = "up"
      /\ UNCHANGED <<rsCites, rsStored, rsPending, rsUp>> /\ rsCounter < MaxCites
  BY DEF FetchData, Researching, LivesInv, tables
<1>2. rsCounter \in Nat /\ MaxCites \in Nat /\ rsCounter + 1 \in Numbers
  BY <1>1, ResearchAssumption DEF CitesInv, RegistryInv, Numbers
<1>3. new \in Numbers \X Data /\ new[1] = rsCounter + 1
  BY <1>2
<1> HIDE DEF new
<1>8. \A x \in rsRegistry : /\ x \in Numbers \X Data /\ x[1] \in Nat /\ x[1] <= rsCounter
                            /\ x[1] # new[1]
  BY <1>2, <1>3 DEF CitesInv, RegistryInv, Numbers
<1>4. /\ IsFiniteSet(rsRegistry) /\ IsFiniteSet(items) /\ new \notin rsRegistry
      /\ Cardinality(items) = Cardinality(rsRegistry) + 1
      /\ Cardinality(rsRegistry) <= MaxEntries /\ Cardinality(rsRegistry) \in Nat
  <2>1. new \notin rsRegistry
    BY <1>8
  <2> QED BY <2>1, FS_AddElement, FS_CardinalityType DEF CitesInv, RegistryInv
<1>5. /\ \A x \in items : x[1] \in Nat
      /\ \A x, y \in items : x[1] = y[1] => x = y
  BY <1>2, <1>3, <1>8 DEF CitesInv, RegistryInv
<1>6. Cardinality(items) <= MaxEntries + 1
  BY <1>4, ResearchAssumption
<1>7. rsRegistry' \subseteq items /\ IsFiniteSet(rsRegistry') /\ Cardinality(rsRegistry') <= MaxEntries
  BY <1>1, <1>4, <1>5, TrimmedIsPart, TrimmedIsSmall
<1>9. \A n \in Saved : n \in Nat /\ n <= rsCounter /\ n < new[1]
  BY <1>1, <1>2, <1>3 DEF CitesInv, Numbers
<1>10. new[1] \notin Saved
  BY <1>9, <1>2, <1>3
<1>11. /\ \A x \in items \ rsRegistry' : /\ Cardinality(items) = MaxEntries + 1
                                         /\ \A y \in items \ {x} : y[1] > x[1]
       /\ Cardinality(items) = MaxEntries + 1 => Cardinality(rsRegistry') >= MaxEntries
  BY <1>1, <1>4, <1>5, <1>6, TrimmedIsFull
<1>12. RegistryInv'
  <2>1. \A x \in rsRegistry' : x = new \/ x \in rsRegistry
    BY <1>7
  <2>2. rsRegistry' \subseteq Numbers \X Data /\ rsCounter' \in 0..MaxCites
    <3>1. rsCounter' \in 0..MaxCites
      BY <1>1, <1>2
    <3>2. \A x \in rsRegistry' : x \in Numbers \X Data
      BY <1>3, <1>8, <2>1
    <3> QED BY <3>1, <3>2
  <2>3. \A x, y \in rsRegistry' : x[1] = y[1] => x = y
    BY <1>8, <2>1 DEF CitesInv, RegistryInv
  <2>4. \A x \in rsRegistry' : x[1] <= rsCounter'
    <3> TAKE x \in rsRegistry'
    <3>1. CASE x = new
      BY <1>1, <1>2, <1>3, <3>1
    <3>2. CASE x \in rsRegistry
      <4>1. x[1] \in Nat /\ x[1] <= rsCounter
        BY <1>8, <3>2
      <4> QED BY <1>1, <1>2, <4>1
    <3> QED BY <2>1, <3>1, <3>2
  <2>5. /\ \A x \in rsRegistry' : x[1] \in Saved => rsCites[x[1]] = x[2]
        /\ \A x \in rsRegistry', n \in Saved : x[1] \notin Saved => n < x[1]
    BY <1>9, <1>10, <2>1 DEF CitesInv, RegistryInv, Unsaved
  <2> QED BY <1>1, <1>7, <2>2, <2>3, <2>4, <2>5 DEF RegistryInv, Unsaved, Saved
<1>13. PendingInv'
  <2> SUFFICES ASSUME NEW c \in rsPending,
                      ~(c.cid \in Saved /\ rsCites[c.cid] = c.data),
                      <<c.cid, c.data>> \notin rsRegistry'
               PROVE  /\ c.cid \in Nat /\ c.cid \notin Saved
                      /\ Cardinality(rsRegistry') >= MaxEntries
                      /\ \A x \in rsRegistry' : c.cid < x[1]
    BY <1>1 DEF PendingInv, Saved, Outlived
  <2> DEFINE x == <<c.cid, c.data>>
  <2>0. x[1] = c.cid /\ x[2] = c.data
    OBVIOUS
  <2>1. CASE x \in rsRegistry
    <3> HIDE DEF x
    <3>1. x[1] \in Nat /\ x[1] \notin Saved
      BY <1>8, <2>0, <2>1 DEF CitesInv, RegistryInv
    <3>2. x \in items \ rsRegistry'
      BY <2>1 DEF x
    <3>3. Cardinality(rsRegistry') >= MaxEntries /\ \A y \in items \ {x} : y[1] > x[1]
      BY <1>11, <3>2
    <3>4. \A y \in rsRegistry' : y \in items \ {x} /\ y[1] \in Nat
      BY <1>5, <1>7, <3>2
    <3> QED BY <2>0, <3>1, <3>3, <3>4
  <2>2. CASE x \notin rsRegistry
    <3>1. /\ c.cid \in Nat /\ c.cid \notin Saved
          /\ Cardinality(rsRegistry) >= MaxEntries /\ \A y \in rsRegistry : c.cid < y[1]
      BY <2>2 DEF CitesInv, PendingInv, Outlived
    <3>2. Cardinality(items) = MaxEntries + 1
      BY <1>4, <3>1, ResearchAssumption
    <3>3. c.cid < new[1]
      <4>1. PICK y \in rsRegistry : TRUE
        BY <1>4, <3>1, FS_EmptySet, ResearchAssumption
      <4>2. c.cid < y[1] /\ y[1] <= rsCounter /\ y[1] \in Nat
        BY <1>8, <3>1
      <4> QED BY <1>2, <1>3, <3>1, <4>2
    <3> QED BY <1>7, <1>11, <3>1, <3>2, <3>3
  <2> QED BY <2>1, <2>2
<1>14. ConclusionsKeepTheirData' /\ \A c \in rsStored' : c.cid \in Nat
  BY <1>1 DEF CitesInv, ConclusionsKeepTheirData
<1> QED BY <1>1, <1>9, <1>2, <1>12, <1>13, <1>14 DEF CitesInv, Saved

\* What the transactions of a run's end leave: nothing yet, or the whole registry and,
\* of the conclusions, some.
Written ==
    /\ Saved' = Saved \cup {x[1] : x \in rsRegistry}
    /\ \A m \in Saved : rsCites'[m] = rsCites[m]
    /\ \A x \in rsRegistry : rsCites'[x[1]] = x[2]
    /\ rsStored' \subseteq rsStored \cup rsPending

LEMMA PersistedIs ==
    ASSUME CitesInv, NEW n \in 0..3, NEW some \in SUBSET rsPending, Persisted(n, some)
    PROVE  UNCHANGED <<rsCites, rsStored>> \/ Written
<1> DEFINE written == {PersistOrder[i] : i \in 1..n}
           kept == IF "conclusions" \in written THEN rsPending
                   ELSE IF n < 3 /\ PersistOrder[n + 1] = "conclusions" THEN some ELSE {}
           numbers == {x[1] : x \in rsRegistry}
           entry(m) == CHOOSE x \in rsRegistry : x[1] = m
<1>1. /\ rsStored' = rsStored \cup kept
      /\ rsCites' = IF "citations" \notin written THEN rsCites
                    ELSE [m \in Saved \cup numbers |->
                            IF \E x \in rsRegistry : x[1] = m THEN entry(m)[2] ELSE rsCites[m]]
  BY DEF Persisted, Saved
<1>2. PersistOrder[1] = "messages" /\ PersistOrder[2] = "citations" /\ PersistOrder[3] = "conclusions"
  BY DEF PersistOrder
<1>3. CASE n < 2
  <2>1. n = 0 \/ n = 1
    BY <1>3
  <2>2. \A i \in 1..n : i = 1
    BY <2>1
  <2>3. \A w \in written : w = "messages"
    BY <1>2, <2>2
  <2>4. PersistOrder[n + 1] # "conclusions"
    BY <1>2, <2>1
  <2> HIDE DEF written
  <2>5. kept = {}
    BY <2>3, <2>4
  <2>6. "citations" \notin written
    BY <2>3
  <2> QED BY <1>1, <2>5, <2>6
<1>4. CASE ~(n < 2)
  <2>1. 2 \in 1..n
    BY <1>4
  <2>2. "citations" \in written
    BY <1>2, <2>1
  <2>3. kept \subseteq rsPending
    <3> HIDE DEF written
    <3> QED OBVIOUS
  <2> HIDE DEF written, kept
  <2>4. rsCites' = [m \in Saved \cup numbers |->
                      IF \E x \in rsRegistry : x[1] = m THEN entry(m)[2] ELSE rsCites[m]]
    BY <1>1, <2>2
  <2>5. Saved' = Saved \cup numbers
    BY <2>4 DEF Saved
  <2>6. \A x \in rsRegistry : entry(x[1]) = x
    BY DEF CitesInv, RegistryInv
  <2> HIDE DEF entry
  <2>7. \A x \in rsRegistry : rsCites'[x[1]] = x[2]
    <3> TAKE x \in rsRegistry
    <3>1. x[1] \in Saved \cup numbers
      OBVIOUS
    <3>2. rsCites'[x[1]] = entry(x[1])[2]
      BY <2>4, <3>1
    <3> QED BY <2>6, <3>2
  <2>8. \A m \in Saved : rsCites'[m] = rsCites[m]
    <3> TAKE m \in Saved
    <3>1. CASE \E x \in rsRegistry : x[1] = m
      BY <2>7, <3>1 DEF CitesInv, RegistryInv
    <3>2. CASE ~(\E x \in rsRegistry : x[1] = m)
      BY <2>4, <3>2
    <3> QED BY <3>1, <3>2
  <2> QED BY <1>1, <2>3, <2>5, <2>7, <2>8 DEF Written
<1> QED BY <1>3, <1>4

\* The end of a run, whole or cut off: the conclusions that are in have their citations.
LEMMA PersistKeepsCites ==
    ASSUME CitesInv, UNCHANGED <<rsCites, rsStored>> \/ Written,
           \/ UNCHANGED <<rsRegistry, rsCounter, rsUp>> /\ rsPending' \subseteq rsPending
           \/ Gone
    PROVE  CitesInv'
<1>1. CASE UNCHANGED <<rsCites, rsStored>>
  <2>1. ConclusionsKeepTheirData' /\ Saved' = Saved
    BY <1>1 DEF CitesInv, ConclusionsKeepTheirData, Saved
  <2>2. CASE UNCHANGED <<rsRegistry, rsCounter, rsUp>> /\ rsPending' \subseteq rsPending
    <3>1. RegistryInv'
      BY <1>1, <2>1, <2>2 DEF CitesInv, RegistryInv, Unsaved
    <3>2. PendingInv'
      BY <1>1, <2>1, <2>2 DEF CitesInv, PendingInv, Outlived
    <3> QED BY <1>1, <2>1, <2>2, <3>1, <3>2 DEF CitesInv
  <2>3. CASE Gone
    BY <1>1, <2>1, <2>3, FS_EmptySet, ResearchAssumption
       DEF Gone, CitesInv, RegistryInv, PendingInv, Unsaved
  <2> QED BY <2>2, <2>3
<1>2. CASE Written
  <2>1. /\ \A n \in Saved : n \in Saved' /\ rsCites'[n] = rsCites[n]
        /\ \A x \in rsRegistry : x[1] \in Saved' /\ rsCites'[x[1]] = x[2]
        /\ \A n \in Saved' : n \in Saved \/ \E x \in rsRegistry : x[1] = n
        /\ \A c \in rsStored' : c \in rsStored \/ c \in rsPending
    BY <1>2 DEF Written
  <2>2. \A x \in rsRegistry : x[1] \in Numbers /\ x[2] \in Data
    BY DEF CitesInv, RegistryInv
  <2>3. Saved' \subseteq Numbers /\ \A n \in Saved' : rsCites'[n] \in Data
    BY <2>1, <2>2 DEF CitesInv
  <2>8. /\ IsFiniteSet(Saved) /\ IsFiniteSet(Saved') /\ Saved \subseteq Saved'
        /\ Saved \subseteq Nat /\ Saved' \subseteq Nat
    <3>1. IsFiniteSet(1..MaxCites) /\ 1..MaxCites \subseteq Nat
      BY ResearchAssumption, FS_Interval
    <3>2. Saved \in SUBSET (1..MaxCites) /\ Saved' \in SUBSET (1..MaxCites)
      BY <2>3 DEF CitesInv, Numbers
    <3> QED BY <2>1, <3>1, <3>2, FS_Subset
  <2>9. ASSUME NEW c, Cardinality(rsRegistry) >= MaxEntries, c \in Nat, Outlived(c), c \notin Saved
        PROVE  c \notin Saved' /\ Cardinality(SavedAfter(c)') >= MaxEntries
    <3> DEFINE numbers == {x[1] : x \in rsRegistry}
               number == [x \in rsRegistry |-> x[1]]
               after == SavedAfter(c)'
    <3>1. number \in Bijection(rsRegistry, numbers)
      BY DEF Bijection, Injection, Surjection, IsInjective, CitesInv, RegistryInv
    <3> HIDE DEF number, numbers
    <3>2. IsFiniteSet(numbers) /\ Cardinality(numbers) = Cardinality(rsRegistry)
      BY <3>1, FS_Bijection DEF ExistsBijection, CitesInv, RegistryInv
    <3>3. numbers \in SUBSET after
      BY <2>1, <2>9 DEF numbers, SavedAfter, Outlived
    <3>4. IsFiniteSet(after) /\ Cardinality(after) \in Nat
      <4>1. after \in SUBSET Saved'
        BY DEF SavedAfter
      <4> HIDE DEF after
      <4> QED BY <2>8, <4>1, FS_Subset, FS_CardinalityType
    <3>5. Cardinality(numbers) <= Cardinality(after) /\ Cardinality(numbers) \in Nat
      <4> HIDE DEF after
      <4> QED BY <3>2, <3>3, <3>4, FS_Subset, FS_CardinalityType
    <3>6. c \notin Saved'
      BY <2>1, <2>2, <2>9 DEF Outlived, Numbers
    <3> QED BY <2>9, <3>2, <3>4, <3>5, <3>6, ResearchAssumption
  <2>10. ASSUME NEW c \in Nat, Cardinality(SavedAfter(c)) >= MaxEntries, c \notin Saved
         PROVE  c \notin Saved' /\ Cardinality(SavedAfter(c)') >= MaxEntries
    <3> DEFINE before == SavedAfter(c)
               after == SavedAfter(c)'
    <3>1. before \in SUBSET after /\ after \in SUBSET Saved'
      BY <2>8 DEF SavedAfter
    <3> HIDE DEF after, before
    <3>2. IsFiniteSet(after) /\ Cardinality(after) \in Nat /\ IsFiniteSet(before)
          /\ Cardinality(before) \in Nat /\ Cardinality(before) <= Cardinality(after)
      BY <2>8, <3>1, FS_Subset, FS_CardinalityType
    <3>3. Cardinality(after) >= MaxEntries /\ before # {}
      BY <2>10, <3>2, FS_EmptySet, ResearchAssumption DEF before
    <3>4. PICK n \in Saved : n > c
      BY <3>3 DEF before, SavedAfter
    <3>5. ASSUME NEW x \in rsRegistry, x[1] = c PROVE FALSE
      <4>1. x \in Unsaved(rsRegistry)
        BY <2>10, <3>5 DEF Unsaved
      <4>2. n < c
        BY <3>5, <4>1 DEF CitesInv, RegistryInv
      <4> QED BY <2>8, <3>4, <4>2
    <3> QED BY <2>1, <2>10, <3>3, <3>5 DEF after
  <2>4. \A c \in rsPending :
          \/ c.cid \in Saved' /\ rsCites'[c.cid] = c.data
          \/ c.cid \in Nat /\ c.cid \notin Saved' /\ Cardinality(SavedAfter(c.cid)') >= MaxEntries
    <3> TAKE c \in rsPending
    <3> DEFINE x == <<c.cid, c.data>>
    <3>1. x[1] = c.cid /\ x[2] = c.data
      OBVIOUS
    <3> HIDE DEF x
    <3>2. CASE x \in rsRegistry
      BY <2>1, <3>1, <3>2
    <3>3. CASE c.cid \in Saved /\ rsCites[c.cid] = c.data
      BY <2>1, <3>3
    <3>4. CASE /\ c.cid \in Nat /\ c.cid \notin Saved
               /\ Cardinality(rsRegistry) >= MaxEntries /\ Outlived(c.cid)
      BY <2>9, <3>4
    <3> QED BY <3>2, <3>3, <3>4 DEF CitesInv, PendingInv, x
  <2>5. ConclusionsKeepTheirData' /\ \A c \in rsStored' : c.cid \in Nat
    <3> SUFFICES ASSUME NEW c \in rsStored'
                 PROVE  /\ c.cid \in Nat
                        /\ \/ c.cid \in Saved' /\ rsCites'[c.cid] = c.data
                           \/ /\ c.cid \notin Saved'
                              /\ Cardinality(SavedAfter(c.cid)') >= MaxEntries
      BY DEF ConclusionsKeepTheirData, Saved, SavedAfter
    <3>1. CASE c \in rsPending
      BY <2>4, <2>8, <3>1
    <3>2. CASE c \in rsStored
      <4>1. c.cid \in Nat
        BY <3>2 DEF CitesInv
      <4>2. CASE c.cid \in Saved
        BY <2>1, <3>2, <4>1, <4>2 DEF CitesInv, ConclusionsKeepTheirData, Saved
      <4>3. CASE c.cid \notin Saved
        <5>1. Cardinality(SavedAfter(c.cid)) >= MaxEntries
          BY <3>2, <4>3 DEF CitesInv, ConclusionsKeepTheirData, Saved, SavedAfter
        <5> QED BY <2>10, <4>1, <4>3, <5>1
      <4> QED BY <4>2, <4>3
    <3> QED BY <2>1, <3>1, <3>2
  <2>6. CASE UNCHANGED <<rsRegistry, rsCounter, rsUp>> /\ rsPending' \subseteq rsPending
    <3>1. RegistryInv'
      BY <2>1, <2>6 DEF CitesInv, RegistryInv, Unsaved
    <3>2. PendingInv'
      <4> SUFFICES ASSUME NEW c \in rsPending
                   PROVE  \/ <<c.cid, c.data>> \in rsRegistry
                          \/ c.cid \in Saved' /\ rsCites'[c.cid] = c.data
                          \/ /\ c.cid \in Nat /\ c.cid \notin Saved'
                             /\ Cardinality(rsRegistry) >= MaxEntries /\ Outlived(c.cid)
        BY <2>6 DEF PendingInv, Outlived
      <4>1. CASE /\ c.cid \in Nat /\ c.cid \notin Saved
                 /\ Cardinality(rsRegistry) >= MaxEntries /\ Outlived(c.cid)
        <5>1. c.cid \notin Saved'
          BY <2>9, <4>1
        <5> QED BY <4>1, <5>1
      <4>2. CASE c.cid \in Saved /\ rsCites[c.cid] = c.data
        BY <2>1, <4>2
      <4> QED BY <4>1, <4>2 DEF CitesInv, PendingInv
    <3>3. rsUp = "up" => \A n \in Saved' : n <= rsCounter
      BY <2>1 DEF CitesInv, RegistryInv
    <3> QED BY <2>3, <2>5, <2>6, <3>1, <3>2, <3>3 DEF CitesInv
  <2>7. CASE Gone
    BY <2>3, <2>5, <2>7, FS_EmptySet, ResearchAssumption
       DEF Gone, CitesInv, RegistryInv, PendingInv, Unsaved
  <2> QED BY <2>6, <2>7
<1> QED BY <1>1, <1>2

LEMMA CitesStep ==
    LivesInv /\ CitesInv /\ [PlanNext \/ CiteNext]_researchVars => CitesInv'
<1> SUFFICES ASSUME LivesInv, CitesInv, [PlanNext \/ CiteNext]_researchVars
             PROVE  CitesInv'
  OBVIOUS
<1>1. CASE UNCHANGED <<rsCites, rsStored, citeVars, rsUp>>
  <2>1. /\ UNCHANGED <<rsCites, rsStored>>
        /\ UNCHANGED <<rsRegistry, rsCounter, rsUp>> /\ rsPending' \subseteq rsPending
    BY <1>1 DEF citeVars
  <2> QED BY <2>1, PersistKeepsCites
<1>2. CASE BuildResearchLoop
  BY <1>2, FS_EmptySet, ResearchAssumption
     DEF BuildResearchLoop, tables, CitesInv, RegistryInv, PendingInv, Unsaved, Saved,
         ConclusionsKeepTheirData
<1>3. CASE Evict \/ Crash
  <2>1. UNCHANGED <<rsCites, rsStored>> /\ Gone
    BY <1>3 DEF Evict, Crash, tables
  <2> QED BY <2>1, PersistKeepsCites
<1>4. ASSUME NEW message \in BOOLEAN, BeginRun(message)
      PROVE  CitesInv'
  BY <1>4, LoadKeepsCites
<1>5. ASSUME NEW answered, NEW buffered, EndResearch(answered, buffered)
      PROVE  CitesInv'
  <2>1. UNCHANGED <<rsCites, rsStored>> \/ Written
    <3>1. CASE Persisted(3, {})
      <4>1. 3 \in 0..3 /\ {} \in SUBSET rsPending
        OBVIOUS
      <4> QED BY <3>1, <4>1, PersistedIs
    <3> QED BY <1>5, <3>1 DEF EndResearch
  <2>2. UNCHANGED <<rsRegistry, rsCounter, rsUp>> /\ rsPending' \subseteq rsPending
    BY <1>5 DEF EndResearch
  <2> QED BY <2>1, <2>2, PersistKeepsCites
<1>6. ASSUME NEW n \in 0..2, NEW some \in SUBSET rsPending, PersistFails(n, some)
      PROVE  CitesInv'
  <2>1. n \in 0..3 /\ Persisted(n, some)
    BY <1>6 DEF PersistFails
  <2>2. UNCHANGED <<rsCites, rsStored>> \/ Written
    BY <2>1, PersistedIs
  <2>3. \/ UNCHANGED <<rsRegistry, rsCounter, rsUp>> /\ rsPending' \subseteq rsPending
        \/ Gone
    BY <1>6 DEF PersistFails, citeVars
  <2> QED BY <2>2, <2>3, PersistKeepsCites
<1>7. ASSUME NEW plan, Planned(plan)
      PROVE  CitesInv'
  BY <1>1, <1>7 DEF Planned, tables
<1>8. CASE EndRound
  BY <1>1, <1>8 DEF EndRound, tables
<1>9. ASSUME NEW d \in Data, FetchData(d)
      PROVE  CitesInv'
  BY <1>9, FetchKeepsCites
<1>10. ASSUME NEW x \in rsRegistry, Conclude(x)
       PROVE  CitesInv'
  <2>1. /\ UNCHANGED <<rsCites, rsStored, rsRegistry, rsCounter, rsUp>> /\ rsUp = "up"
        /\ rsPending' = rsPending \cup {[cid |-> x[1], data |-> x[2]]}
    BY <1>10 DEF Conclude, Researching, LivesInv, tables
  <2>2. x = <<x[1], x[2]>>
    BY DEF CitesInv, RegistryInv
  <2>3. PendingInv'
    <3> SUFFICES ASSUME NEW c \in rsPending'
                 PROVE  \/ <<c.cid, c.data>> \in rsRegistry
                        \/ c.cid \in Saved /\ rsCites[c.cid] = c.data
                        \/ /\ c.cid \in Nat /\ c.cid \notin Saved
                           /\ Cardinality(rsRegistry) >= MaxEntries /\ Outlived(c.cid)
      BY <2>1 DEF PendingInv, Saved, Outlived
    <3>1. CASE c \in rsPending
      BY <3>1 DEF CitesInv, PendingInv
    <3>2. CASE c = [cid |-> x[1], data |-> x[2]]
      <4>1. <<c.cid, c.data>> = x
        BY <2>2, <3>2
      <4> QED BY <4>1
    <3> QED BY <2>1, <3>1, <3>2
  <2> QED BY <2>1, <2>3 DEF CitesInv, RegistryInv, Unsaved, Saved, ConclusionsKeepTheirData
<1>11. CASE LifeNext
  BY <1>2, <1>3, <1>4, <1>5, <1>6, <1>11 DEF LifeNext
<1> QED BY <1>1, <1>7, <1>8, <1>9, <1>10, <1>11
        DEF PlanNext, CiteNext, SetPlan, MarkStep, researchVars, tables

\* For any data, capacity, plans and number of crashes and failing transactions: a stored
\* conclusion cites a stored citation that stands for what it stood for when the
\* conclusion was drawn (citation.py, _persist_turn), and the rounds without progress are
\* counted within the run (plan_progress.py).
THEOREM ConclusionsKept == ResearchSpec => [](ConclusionsKeepTheirData /\ StallIsOfThisRun)
<1>1. LivesInv /\ StallInv /\ CitesInv => ConclusionsKeepTheirData /\ StallIsOfThisRun
  BY DEF CitesInv, StallInv, StallIsOfThisRun
<1> QED BY <1>1, ResearchInitially, LivesStep, CitesStep, PTL DEF ResearchSpec

\* With no more than one mishap in the life of a conversation, besides: no checkpoint takes
\* its plan back to an older one.  (A clear that fails and a crash after it do that.)
THEOREM ResearchKept ==
    ASSUME MaxMishaps <= 1
    PROVE  ResearchSpec => []ResearchIsKept
<1>1. LivesInv /\ StallInv /\ PlanInv /\ CitesInv => ResearchIsKept
  BY DEF CitesInv, StallInv, PlanInv, ResearchIsKept, StallIsOfThisRun, PlanNeverGoesBack
<1>2. LivesInv /\ StallInv /\ PlanInv /\ CitesInv /\ [PlanNext \/ CiteNext]_researchVars
      => LivesInv' /\ StallInv' /\ PlanInv' /\ CitesInv'
  BY LivesStep, PlanStep, CitesStep
<1> QED BY <1>1, <1>2, ResearchInitially, PTL DEF ResearchSpec
===============================================================================
