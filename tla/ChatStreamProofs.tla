-------------------------- MODULE ChatStreamProofs --------------------------
(***************************************************************************)
(* Proofs about ConfirmBus, for any number of callers and sessions, and of  *)
(* ChatStream on top of it, for any number of requests, sessions and        *)
(* conversations.  BusSpec is the bus by itself, with callers that ask,     *)
(* answers, timers, stops and ends of tasks at any time.                    *)
(***************************************************************************)
EXTENDS ChatStream, TLAPS

BusSpec == BusInit /\ [][BusNext]_busVars

\* A caller that waits does so for a prompt that was registered.
WaitersHavePrompts ==
    \A c \in Callers : Waiting(c) => /\ waitsFor[c] \in Callers
                                     /\ future[waitsFor[c]] # "none"

\* A caller that has not asked has registered nothing.
IdleHaveNone == \A c \in Callers : wait[c] = "idle" => future[c] = "none"

\* The invariant: types, the registry that PromptsHaveWaiters describes, and
\* the two facts above, which tell an open prompt from one never registered.
BusInv ==
    /\ BusTypeOK
    /\ PromptsHaveWaiters
    /\ WaitersHavePrompts
    /\ IdleHaveNone

\* A prompt on record was registered, so its caller is not idle.
LEMMA PendingWasAsked ==
    ASSUME BusInv, NEW r \in pending
    PROVE  r \in Callers /\ future[r] # "none" /\ wait[r] # "idle"
BY DEF BusInv, BusTypeOK, PromptsHaveWaiters, WaitersHavePrompts, WaitersOf, IdleHaveNone

\* A prompt that was registered and is not settled is open.
LEMMA UnsettledIsOpen ==
    ASSUME BusTypeOK, NEW r \in Callers, future[r] # "none", ~Done(r)
    PROVE  future[r] = "open"
BY DEF BusTypeOK, Done

\* In the beginning nobody has asked.
LEMMA BusInitially == BusInit => BusInv
BY BusAssumption DEF BusInit, BusInv, BusTypeOK, PromptsHaveWaiters, WaitersHavePrompts,
   IdleHaveNone, Waiting, WaitersOf

-------------------------------------------------------------------------------
(* Asking *)

\* request() keeps the invariant, and waits for a prompt that is open.
LEMMA AskKeeps ==
    ASSUME BusInv, NEW c \in Callers, NEW s \in BusSessions, NEW merge \in BOOLEAN,
           Ask(c, s, merge)
    PROVE  BusInv' /\ future'[waitsFor'[c]] = "open"
<1> DEFINE r == IF merge THEN LookupShared(s) ELSE Nobody
<1>1. CASE r = Nobody
  <2>1. /\ waitsFor' = [waitsFor EXCEPT ![c] = c]
        /\ future' = [future EXCEPT ![c] = "open"]
        /\ pending' = pending \cup {c}
        /\ home' = [home EXCEPT ![c] = s]
        /\ shared' = IF merge THEN [shared EXCEPT ![s] = c] ELSE shared
        /\ wait' = [wait EXCEPT ![c] = "waiting"]
        /\ got' = got /\ wait[c] = "idle"
    BY <1>1 DEF Ask
  <2>2. BusTypeOK'
    BY <2>1 DEF BusInv, BusTypeOK
  <2>3. \A d \in Callers : Waiting(d) => waitsFor[d] # c /\ d # c
    BY <2>1 DEF BusInv, IdleHaveNone, WaitersHavePrompts, Waiting
  <2>4. \A d \in Callers : d # c => /\ Waiting(d)' = Waiting(d)
                                    /\ waitsFor'[d] = waitsFor[d]
                                    /\ future'[d] = future[d]
    BY <2>1 DEF Waiting, BusInv, BusTypeOK
  <2>5. Waiting(c)' /\ waitsFor'[c] = c /\ future'[c] = "open"
    BY <2>1 DEF Waiting, BusInv, BusTypeOK
  <2>6. WaitersHavePrompts' /\ IdleHaveNone'
    BY <2>1, <2>3, <2>4, <2>5 DEF BusInv, BusTypeOK, WaitersHavePrompts, IdleHaveNone, Waiting
  <2>7. PromptsHaveWaiters'
    BY <2>1, <2>3, <2>4, <2>5 DEF BusInv, BusTypeOK, PromptsHaveWaiters, WaitersOf, Done, Waiting,
       WaitersHavePrompts
  <2> QED BY <2>2, <2>5, <2>6, <2>7 DEF BusInv
<1>2. CASE r # Nobody
  <2>1. /\ waitsFor' = [waitsFor EXCEPT ![c] = r]
        /\ wait' = [wait EXCEPT ![c] = "waiting"]
        /\ UNCHANGED <<future, pending, shared, home, got>> /\ wait[c] = "idle"
    BY <1>2 DEF Ask
  <2>2. r \in pending /\ ~Done(r)
    BY <1>2 DEF LookupShared
  <2>3. r \in Callers /\ future[r] = "open"
    BY <2>2, PendingWasAsked, UnsettledIsOpen DEF BusInv
  <2> HIDE DEF r
  <2>4. \A d \in Callers : d # c => Waiting(d)' = Waiting(d) /\ waitsFor'[d] = waitsFor[d]
    BY <2>1 DEF Waiting, BusInv, BusTypeOK
  <2>5. Waiting(c)' /\ waitsFor'[c] = r /\ ~Waiting(c)
    BY <2>1 DEF Waiting, BusInv, BusTypeOK
  <2>6. BusTypeOK'
    BY <2>1, <2>3 DEF BusInv, BusTypeOK
  <2>7. WaitersHavePrompts' /\ IdleHaveNone'
    BY <2>1, <2>3, <2>4, <2>5 DEF BusInv, BusTypeOK, WaitersHavePrompts, IdleHaveNone
  <2>8. PromptsHaveWaiters'
    BY <2>1, <2>2, <2>4, <2>5 DEF BusInv, BusTypeOK, PromptsHaveWaiters, WaitersOf, Done
  <2> QED BY <2>1, <2>3, <2>5, <2>6, <2>7, <2>8 DEF BusInv
<1> QED BY <1>1, <1>2

-------------------------------------------------------------------------------
(* Leaving *)

\* The finally clause keeps the invariant whatever the caller takes away, and settles
\* no prompt that another caller still waits for.
LEMMA LeaveKeeps ==
    ASSUME BusInv, NEW c \in Callers, Waiting(c),
           NEW o \in {"answer", "timeout", "cancelled", "killed"}, Leave(c, o)
    PROVE  /\ BusInv'
           /\ \A d \in Callers : Waiting(d) /\ d # c /\ ~Done(waitsFor[d])
                => future'[waitsFor[d]] = "open"
<1> DEFINE r == waitsFor[c]
           last == WaitersOf(r) = {c}
<1>1. /\ wait' = [wait EXCEPT ![c] = "returned"]
      /\ got' = [got EXCEPT ![c] = o]
      /\ pending' = IF last THEN pending \ {r} ELSE pending
      /\ shared' = [s \in BusSessions |-> IF last /\ shared[s] = r THEN Nobody ELSE shared[s]]
      /\ future' = IF last /\ ~Done(r) THEN [future EXCEPT ![r] = "cancelled"] ELSE future
      /\ UNCHANGED <<home, waitsFor>>
  BY DEF Leave
<1>2. r \in Callers /\ future[r] # "none"
  BY DEF BusInv, WaitersHavePrompts
<1>3. \A d \in Callers : last /\ Waiting(d) /\ d # c => waitsFor[d] # r
  BY DEF WaitersOf
<1>4. ~last => \E d \in Callers : d # c /\ Waiting(d) /\ waitsFor[d] = r
  BY DEF WaitersOf
<1> HIDE DEF r, last
<1>5. /\ \A d \in Callers : d # c => wait'[d] = wait[d] /\ Waiting(d)' = Waiting(d)
      /\ wait'[c] = "returned" /\ ~Waiting(c)'
      /\ r = waitsFor[c]
  BY <1>1 DEF Waiting, BusInv, BusTypeOK, r
<1>6. /\ \A q \in Callers : q # r \/ ~last => future'[q] = future[q]
      /\ \A q \in Callers : future'[q] = "none" <=> future[q] = "none"
  BY <1>1, <1>2 DEF BusInv, BusTypeOK
<1>7. BusTypeOK'
  BY <1>1, <1>2 DEF BusInv, BusTypeOK
<1>8. WaitersHavePrompts' /\ IdleHaveNone'
  BY <1>1, <1>5, <1>6 DEF BusInv, WaitersHavePrompts, IdleHaveNone
<1>9. PromptsHaveWaiters'
  <2>1. \A d \in Callers : Waiting(d)' /\ ~Done(waitsFor[d])' => waitsFor[d] \in pending'
    BY <1>1, <1>3, <1>5, <1>6 DEF BusInv, PromptsHaveWaiters, WaitersHavePrompts, Done
  <2>2. \A q \in pending' : \E d \in Callers : Waiting(d)' /\ waitsFor[d] = q
    <3> SUFFICES ASSUME NEW q \in pending' PROVE \E d \in Callers : Waiting(d)' /\ waitsFor[d] = q
      OBVIOUS
    <3>1. q \in pending /\ (q = r => ~last)
      BY <1>1
    <3>2. PICK d \in Callers : Waiting(d) /\ waitsFor[d] = q
      BY <3>1 DEF BusInv, PromptsHaveWaiters, WaitersOf
    <3>3. CASE q = r
      BY <3>1, <3>3, <1>4, <1>5
    <3>4. CASE q # r
      BY <3>2, <3>4, <1>5
    <3> QED BY <3>3, <3>4
  <2>3. \A s \in BusSessions : shared'[s] # Nobody => shared'[s] \in pending'
    BY <1>1 DEF BusInv, PromptsHaveWaiters
  <2> QED BY <1>1, <2>1, <2>2, <2>3 DEF PromptsHaveWaiters, WaitersOf
<1>10. \A d \in Callers : Waiting(d) /\ d # c /\ ~Done(waitsFor[d]) => future'[waitsFor[d]] = "open"
  BY <1>3, <1>6, UnsettledIsOpen DEF BusInv, WaitersHavePrompts
<1> QED BY <1>7, <1>8, <1>9, <1>10 DEF BusInv

\* A caller that leaves has waited; the answer it was given is the one it gets.
LEMMA LeavesByWakeOrKill ==
    ASSUME BusInv, NEW c \in Callers, Wake(c) \/ Kill(c)
    PROVE  /\ Waiting(c)
           /\ \E o \in {"answer", "timeout", "cancelled", "killed"} :
                 /\ Leave(c, o)
                 /\ future[waitsFor[c]] = "answered" => o \in {"answer", "killed"}
<1>1. CASE Kill(c)
  BY <1>1 DEF Kill
<1>2. CASE Wake(c) /\ future[waitsFor[c]] = "answered"
  <2>1. Waiting(c) /\ Leave(c, "answer")
    BY <1>2 DEF Wake
  <2> QED BY <2>1
<1>3. CASE Wake(c) /\ future[waitsFor[c]] = "cancelled"
  <2>1. Waiting(c) /\ Leave(c, "cancelled")
    BY <1>3 DEF Wake
  <2> QED BY <2>1, <1>3
<1>4. CASE Wake(c) /\ future[waitsFor[c]] \notin {"answered", "cancelled"}
  <2>1. Waiting(c) /\ Leave(c, "timeout")
    BY <1>4 DEF Wake
  <2> QED BY <2>1, <1>4
<1> QED BY <1>1, <1>2, <1>3, <1>4

-------------------------------------------------------------------------------
(* The steps from outside *)

\* A timer that fires changes the position of its caller only.
LEMMA TimerKeeps ==
    ASSUME BusInv, NEW c \in Callers, TimerFires(c)
    PROVE  BusInv' /\ \A d \in Callers : Waiting(d)' = Waiting(d)
<1>1. \A d \in Callers : Waiting(d)' = Waiting(d)
  BY DEF TimerFires, Waiting, BusInv, BusTypeOK
<1>2. BusTypeOK'
  BY DEF TimerFires, BusInv, BusTypeOK
<1>3. \A d \in Callers : wait'[d] = "idle" => wait[d] = "idle"
  BY DEF TimerFires, BusInv, BusTypeOK
<1>4. WaitersHavePrompts' /\ IdleHaveNone'
  BY <1>1, <1>3 DEF TimerFires, BusInv, WaitersHavePrompts, IdleHaveNone
<1>5. PromptsHaveWaiters'
  BY <1>1 DEF TimerFires, BusInv, PromptsHaveWaiters, WaitersOf, Done
<1> QED BY <1>1, <1>2, <1>4, <1>5 DEF BusInv

\* An answer settles one prompt on record.
LEMMA RespondKeeps ==
    ASSUME BusInv, NEW r \in Callers, Respond(r)
    PROVE  BusInv'
<1>1. r \in pending /\ future[r] # "none" /\ wait[r] # "idle"
  BY PendingWasAsked DEF Respond
<1>2. BusTypeOK'
  BY DEF Respond, BusInv, BusTypeOK
<1>3. WaitersHavePrompts' /\ IdleHaveNone'
  BY <1>1 DEF Respond, BusInv, BusTypeOK, WaitersHavePrompts, IdleHaveNone, Waiting
<1>4. PromptsHaveWaiters'
  BY DEF Respond, BusInv, BusTypeOK, PromptsHaveWaiters, WaitersOf, Waiting, Done
<1> QED BY <1>2, <1>3, <1>4 DEF BusInv

\* A stop settles the prompts of its session and takes them off the record.
LEMMA CancelKeeps ==
    ASSUME BusInv, NEW s \in BusSessions, CancelSession(s)
    PROVE  BusInv'
<1> DEFINE mine == {r \in pending : home[r] = s}
<1>1. /\ future' = [r \in Callers |-> IF r \in mine /\ ~Done(r) THEN "cancelled" ELSE future[r]]
      /\ pending' = pending \ mine
      /\ shared' = [k \in BusSessions |-> IF shared[k] \in pending \ mine
                                          THEN shared[k] ELSE Nobody]
      /\ UNCHANGED <<home, waitsFor, wait, got>>
  BY DEF CancelSession
<1>2. \A r \in mine : r \in Callers /\ future[r] # "none" /\ wait[r] # "idle"
  BY PendingWasAsked
<1> HIDE DEF mine
<1>3. BusTypeOK'
  BY <1>1 DEF BusInv, BusTypeOK
<1>4. \A d \in Callers : Waiting(d)' = Waiting(d)
  BY <1>1 DEF Waiting
<1>5. WaitersHavePrompts' /\ IdleHaveNone'
  BY <1>1, <1>2, <1>4 DEF BusInv, BusTypeOK, WaitersHavePrompts, IdleHaveNone
<1>6. PromptsHaveWaiters'
  BY <1>1, <1>4 DEF BusInv, BusTypeOK, PromptsHaveWaiters, WaitersHavePrompts, WaitersOf, Done
<1> QED BY <1>3, <1>5, <1>6 DEF BusInv

-------------------------------------------------------------------------------
(* Every step *)

\* A step of the bus is one of its callers', or changes nothing.
LEMMA BusKept == BusInv /\ [BusNext]_busVars => BusInv'
<1> SUFFICES ASSUME BusInv, [BusNext]_busVars PROVE BusInv'
  OBVIOUS
<1>1. ASSUME NEW c \in Callers, NEW s \in BusSessions, NEW merge \in BOOLEAN, Ask(c, s, merge)
      PROVE  BusInv'
  BY <1>1, AskKeeps
<1>2. ASSUME NEW c \in Callers, Wake(c) \/ Kill(c) PROVE BusInv'
  BY <1>2, LeavesByWakeOrKill, LeaveKeeps
<1>3. ASSUME NEW c \in Callers, TimerFires(c) PROVE BusInv'
  BY <1>3, TimerKeeps
<1>4. ASSUME NEW c \in Callers, Respond(c) PROVE BusInv'
  BY <1>4, RespondKeeps
<1>5. ASSUME NEW s \in BusSessions, CancelSession(s) PROVE BusInv'
  BY <1>5, CancelKeeps
<1>6. CASE UNCHANGED busVars
  BY <1>6 DEF busVars, BusInv, BusTypeOK, PromptsHaveWaiters, WaitersHavePrompts, IdleHaveNone,
     Waiting, WaitersOf, Done
<1> QED BY <1>1, <1>2, <1>3, <1>4, <1>5, <1>6 DEF BusNext

\* Whoever begins to wait has asked, whoever returns has left.
LEMMA OnlyAskWaits ==
    ASSUME BusInv, BusNext, NEW d \in Callers
    PROVE  /\ wait[d] = "idle" /\ wait'[d] = "waiting" =>
                \E s \in BusSessions, merge \in BOOLEAN : Ask(d, s, merge)
           /\ Waiting(d) /\ wait'[d] = "returned" => Wake(d) \/ Kill(d)
<1>1. ASSUME NEW c \in Callers, NEW s \in BusSessions, NEW merge \in BOOLEAN, Ask(c, s, merge)
      PROVE  wait' = [wait EXCEPT ![c] = "waiting"] /\ wait[c] = "idle"
  BY <1>1 DEF Ask
<1>2. ASSUME NEW c \in Callers, Wake(c) \/ Kill(c)
      PROVE  wait' = [wait EXCEPT ![c] = "returned"]
  BY <1>2, LeavesByWakeOrKill DEF Leave
<1>3. ASSUME NEW c \in Callers, TimerFires(c)
      PROVE  wait' = [wait EXCEPT ![c] = "woken"] /\ wait[c] = "waiting"
  BY <1>3 DEF TimerFires
<1>4. ASSUME NEW c \in Callers, Respond(c) PROVE wait' = wait
  BY <1>4 DEF Respond
<1>5. ASSUME NEW s \in BusSessions, CancelSession(s) PROVE wait' = wait
  BY <1>5 DEF CancelSession
<1> QED BY <1>1, <1>2, <1>3, <1>4, <1>5 DEF BusNext, BusInv, BusTypeOK, Waiting

-------------------------------------------------------------------------------
(* The theorems *)

\* At every moment a caller that waits for a prompt not yet settled can be answered, and
\* no prompt or merge key is kept that nobody waits for (confirm.py, _release).
THEOREM NoPromptLeaks == BusSpec => [](BusTypeOK /\ PromptsHaveWaiters)
<1>1. BusInv => BusTypeOK /\ PromptsHaveWaiters
  BY DEF BusInv
<1> QED BY BusInitially, BusKept, <1>1, PTL DEF BusSpec

\* An answer reaches every caller that waits when it is accepted, none that asks
\* afterwards, and a caller that leaves takes it from no other, for any number of
\* callers and however timers, answers, stops and cancellations interleave.
THEOREM AnswersArrive == BusSpec => AnswersReachTheirWaiters
<1> DEFINE Fresh == \A c \in Callers : wait[c] = "idle" /\ wait'[c] = "waiting"
                        => future'[waitsFor'[c]] = "open"
           Arrives == \A c \in Callers : Waiting(c) /\ wait'[c] = "returned"
                        /\ future[waitsFor[c]] = "answered" => got'[c] \in {"answer", "killed"}
           Undisturbed == (\E c \in Callers : Waiting(c) /\ wait'[c] = "returned")
                        => \A d \in Callers : Waiting(d) /\ wait'[d] # "returned"
                              /\ ~Done(waitsFor[d]) => future'[waitsFor[d]] = "open"
<1>1. BusInv /\ [BusNext]_busVars => [Fresh]_busVars
  BY OnlyAskWaits, AskKeeps
<1>2. BusInv /\ [BusNext]_busVars => [Arrives]_busVars
  <2> SUFFICES ASSUME BusInv, BusNext, NEW c \in Callers, Waiting(c), wait'[c] = "returned",
                      future[waitsFor[c]] = "answered"
               PROVE  got'[c] \in {"answer", "killed"}
    OBVIOUS
  <2>1. PICK o \in {"answer", "killed"} : Leave(c, o)
    BY OnlyAskWaits, LeavesByWakeOrKill
  <2> QED BY <2>1 DEF Leave, BusInv, BusTypeOK
<1>3. BusInv /\ [BusNext]_busVars => [Undisturbed]_busVars
  <2> SUFFICES ASSUME BusInv, BusNext, NEW c \in Callers, Waiting(c), wait'[c] = "returned",
                      NEW d \in Callers, Waiting(d), wait'[d] # "returned", ~Done(waitsFor[d])
               PROVE  future'[waitsFor[d]] = "open"
    OBVIOUS
  <2>1. PICK o \in {"answer", "timeout", "cancelled", "killed"} : Leave(c, o)
    BY OnlyAskWaits, LeavesByWakeOrKill
  <2> QED BY <2>1, LeaveKeeps
<1>4. /\ JoinsAreFresh <=> [][Fresh]_busVars
      /\ AcceptedAnswerArrives <=> [][Arrives]_busVars
      /\ LeavingDisturbsNobody <=> [][Undisturbed]_busVars
  BY DEF JoinsAreFresh, AcceptedAnswerArrives, LeavingDisturbsNobody
<1> HIDE DEF Fresh, Arrives, Undisturbed
<1>5. BusSpec => [][Fresh]_busVars /\ [][Arrives]_busVars /\ [][Undisturbed]_busVars
  BY BusInitially, BusKept, <1>1, <1>2, <1>3, PTL DEF BusSpec
<1> QED BY <1>4, <1>5, PTL DEF AnswersReachTheirWaiters

----------------------------------------------------------------------------
(* The chat server *)


\* A request that was let in has a session of a conversation; its run begins after it
\* and is over once the generator has gone to the ledger.
PlacesInv ==
    \A r \in Requests :
        /\ stage[r] \notin {"new", "refused"} =>
              seat[r] \in Seats /\ convOf[seat[r]] # Nobody
        /\ engine[r] # "none" => stage[r] \notin {"new", "refused", "opening"}
        /\ Live(r) => stage[r] \in {"first", "loop", "abort", "lost", "failed"}

\* The registry has one session for a conversation, and a session one stream at a time,
\* which keeps it busy.
SessionsInv ==
    /\ \A s \in registered \cup busy : convOf[s] # Nobody
    /\ \A s, t \in registered : convOf[s] = convOf[t] => s = t
    /\ \A r \in Requests : Attached(r) => seat[r] \in busy
    /\ \A q, r \in Requests : Attached(q) /\ Attached(r) /\ seat[q] = seat[r] => q = r

\* How many rows of the ledger a request may have where it is.
LedgerInv ==
    \A r \in Requests :
        /\ stage[r] \notin {"frame", "abort", "closed", "failed"} => rows[r] = 0
        /\ stage[r] = "frame" => rows[r] = 1
        /\ stage[r] = "abort" => rows[r] = 0 \/ (rows[r] = 1 /\ r \in gone)
        /\ stage[r] = "closed" => rows[r] = 1 \/ (rows[r] = 2 /\ r \in gone)
        /\ stage[r] = "failed" => rows[r] = 2

\* A run ends by a cancellation when its client has gone, or when a stop has settled
\* what it asked; nothing else takes a stream off its way to the last frame.
ToldInv ==
    \A r \in Requests :
        /\ engine[r] = "cancelling" => r \in gone
        /\ engine[r] = "cancelled" => r \in gone \/ (got[r] = "cancelled" /\ wait[r] = "returned")
        /\ stage[r] = "abort" => r \in gone \/ engine[r] = "cancelled"
        /\ stage[r] = "closed" => r \in gone \/ r \in told \/ engine[r] = "cancelled"

ChatInv ==
    /\ ChatTypeOK
    /\ BusInv
    /\ PlacesInv
    /\ SessionsInv
    /\ BusyHasARequest
    /\ LedgerInv
    /\ ToldInv

\* In the beginning nothing has been asked for.
LEMMA ChatInitially == ChatInit => ChatInv
<1> SUFFICES ASSUME ChatInit PROVE ChatInv
  OBVIOUS
<1>1. BusInv
  BY BusInitially DEF ChatInit
<1>2. ChatTypeOK
  BY <1>1 DEF ChatInit, ChatTypeOK, BusInv, Stages
<1>3. PlacesInv /\ SessionsInv /\ BusyHasARequest /\ LedgerInv /\ ToldInv
  BY DEF ChatInit, PlacesInv, SessionsInv, BusyHasARequest, LedgerInv, ToldInv, Live, Attached
<1> QED BY <1>1, <1>2, <1>3 DEF ChatInv

-------------------------------------------------------------------------------
(* The bus *)

\* What has been returned to a caller stays.
LEMMA ReturnedStays ==
    ASSUME BusInv, [BusNext]_busVars, NEW d \in Callers, wait[d] = "returned"
    PROVE  wait'[d] = "returned" /\ got'[d] = got[d]
<1>1. ASSUME NEW c \in Callers, NEW s \in BusSessions, NEW merge \in BOOLEAN, Ask(c, s, merge)
      PROVE  wait' = [wait EXCEPT ![c] = "waiting"] /\ wait[c] = "idle" /\ got' = got
  BY <1>1 DEF Ask
<1>2. ASSUME NEW c \in Callers, Wake(c) \/ Kill(c)
      PROVE  /\ Waiting(c) /\ wait' = [wait EXCEPT ![c] = "returned"]
             /\ \A e \in Callers : e # c => got'[e] = got[e]
  BY <1>2, LeavesByWakeOrKill DEF Leave, Wake, Kill, BusInv, BusTypeOK
<1>3. ASSUME NEW c \in Callers, TimerFires(c)
      PROVE  wait' = [wait EXCEPT ![c] = "woken"] /\ wait[c] = "waiting" /\ got' = got
  BY <1>3 DEF TimerFires
<1>4. ASSUME NEW c \in Callers, Respond(c) PROVE wait' = wait /\ got' = got
  BY <1>4 DEF Respond
<1>5. ASSUME NEW s \in BusSessions, CancelSession(s) PROVE wait' = wait /\ got' = got
  BY <1>5 DEF CancelSession
<1>6. CASE UNCHANGED busVars
  BY <1>6 DEF busVars
<1> QED BY <1>1, <1>2, <1>3, <1>4, <1>5, <1>6 DEF BusNext, BusInv, BusTypeOK, Waiting

\* Every step of the server is one of the bus, or leaves it alone.
LEMMA ChatIsOnTheBus ==
    ASSUME ChatInv, ChatNext
    PROVE  [BusNext]_busVars
<1>1. ASSUME NEW r \in Requests, NEW h \in Seats \cup {Nobody}, NEW c \in Convs, Admit(r, h, c)
      PROVE  UNCHANGED busVars
  BY <1>1 DEF Admit
<1>2. ASSUME NEW r \in Requests,
             \/ Open(r) \/ FirstFrame(r) \/ TakeDone(r) \/ SeesEnd(r) \/ WriteRow(r)
             \/ LastFrame(r) \/ AbortEnds(r) \/ TransportFails(r) \/ GetLost(r)
             \/ RunEmitsDone(r) \/ RunEnds(r)
      PROVE  UNCHANGED busVars
  BY <1>2 DEF Open, FirstFrame, TakeDone, SeesEnd, WriteRow, LastFrame, AbortEnds, TransportFails,
     GetLost, RunEmitsDone, RunEnds
<1>3. ASSUME NEW r \in Requests, SeesCancelled(r) \/ Disconnect(r)
      PROVE  BusNext
  <2>1. seat[r] \in BusSessions /\ CancelSession(seat[r])
    BY <1>3 DEF SeesCancelled, Disconnect, Abort, ChatInv, PlacesInv, Seats
  <2> QED BY <2>1 DEF BusNext
<1>4. ASSUME NEW r \in Requests, RunWakes(r) \/ RunTimer(r) \/ Answer(r)
      PROVE  BusNext
  BY <1>4 DEF RunWakes, RunTimer, Answer, BusNext, Requests
<1>5. ASSUME NEW r \in Requests, RunCancelled(r)
      PROVE  BusNext \/ UNCHANGED busVars
  BY <1>5 DEF RunCancelled, BusNext, Requests
<1>6. ASSUME NEW r \in Requests, RunAsks(r)
      PROVE  BusNext
  <2>1. seat[r] \in BusSessions /\ Ask(r, seat[r], TRUE)
    BY <1>6 DEF RunAsks, ChatInv, PlacesInv, Seats
  <2> QED BY <2>1 DEF BusNext, Requests
<1>7. ASSUME NEW s \in Seats, Stop(s)
      PROVE  BusNext
  BY <1>7 DEF Stop, BusNext, Seats
<1>8. ASSUME NEW c \in Convs, DeleteStarts(c) \/ DeleteEnds(c)
      PROVE  UNCHANGED busVars
  BY <1>8 DEF DeleteStarts, DeleteEnds
<1> QED BY <1>1, <1>2, <1>3, <1>4, <1>5, <1>6, <1>7, <1>8 DEF ChatNext, Generator, Run

-------------------------------------------------------------------------------
(* What the steps do *)

\* The run and its prompts move nothing of the stream but the task.
LEMMA RunMoves ==
    ASSUME ChatInv, NEW r \in Requests, Run(r) \/ RunAsks(r) \/ Answer(r)
    PROVE  /\ UNCHANGED <<seatVars, stage, seat, told, rows, gone, deleting>>
           /\ engine' \in [Requests -> {"none", "running", "flushing", "cancelling",
                                        "ended", "silent", "cancelled"}]
           /\ \A q \in Requests : /\ engine'[q] # "none" => engine[q] # "none"
                                  /\ Live(q)' => Live(q)
                                  /\ engine'[q] = "cancelling" => engine[q] = "cancelling"
                                  /\ engine[q] = "cancelled" => engine'[q] = "cancelled"
                                  /\ engine'[q] = "cancelled" /\ engine[q] # "cancelled" =>
                                       \/ engine[q] = "cancelling"
                                       \/ got'[q] = "cancelled" /\ wait'[q] = "returned"
<1>1. /\ got \in [Requests -> {"none", "answer", "timeout", "cancelled", "killed"}]
      /\ wait \in [Requests -> {"idle", "waiting", "woken", "returned"}]
      /\ engine \in [Requests -> {"none", "running", "flushing", "cancelling",
                                  "ended", "silent", "cancelled"}]
  BY DEF ChatInv, ChatTypeOK, BusTypeOK, Requests
<1>2. CASE RunWakes(r)
  <2>1. UNCHANGED <<seatVars, stage, seat, told, rows, gone, deleting>> /\ engine[r] = "running"
    BY <1>2 DEF RunWakes
  <2>2. CASE future[waitsFor[r]] = "cancelled"
    <3>1. engine' = [engine EXCEPT ![r] = "cancelled"] /\ Leave(r, "cancelled")
      BY <1>2, <2>2 DEF RunWakes, Wake
    <3>2. got'[r] = "cancelled" /\ wait'[r] = "returned"
      BY <1>1, <3>1 DEF Leave
    <3> QED BY <1>1, <2>1, <3>1, <3>2 DEF Live
  <2>3. CASE future[waitsFor[r]] # "cancelled"
    BY <1>1, <1>2, <2>1, <2>3 DEF RunWakes, Live
  <2> QED BY <2>2, <2>3
<1>3. CASE RunTimer(r) \/ RunAsks(r) \/ Answer(r)
  BY <1>1, <1>3 DEF RunTimer, RunAsks, Answer, Live
<1>4. CASE RunEmitsDone(r) \/ RunEnds(r) \/ RunCancelled(r)
  BY <1>1, <1>4 DEF RunEmitsDone, RunEnds, RunCancelled, Step, Live
<1> QED BY <1>2, <1>3, <1>4 DEF Run

\* ensure() finds a session of the registry, or makes one that was never used, and then
\* the registry has none of that conversation.
LEMMA AdmitMoves ==
    ASSUME ChatInv, NEW r \in Requests, NEW h \in Seats \cup {Nobody}, NEW c \in Convs,
           Admit(r, h, c)
    PROVE  /\ stage[r] = "new" /\ UNCHANGED <<engine, told, rows, gone, deleting>>
           /\ \E s \in Seats :
                /\ registered' \subseteq registered \cup {s}
                /\ \/ convOf' = convOf /\ convOf[s] # Nobody /\ registered' \subseteq registered
                   \/ /\ convOf[s] = Nobody /\ convOf' = [convOf EXCEPT ![s] = c]
                      /\ \A t \in registered' : t # s => convOf[t] # c
                /\ \/ /\ stage' = [stage EXCEPT ![r] = "refused"]
                      /\ UNCHANGED <<busy, signal, seat>>
                   \/ /\ s \notin busy /\ stage' = [stage EXCEPT ![r] = "opening"]
                      /\ seat' = [seat EXCEPT ![r] = s] /\ busy' = busy \cup {s}
                      /\ signal' = [signal EXCEPT ![s] = "armed"]
<1> DEFINE fresh == {s \in Seats : convOf[s] = Nobody}
<1>1. PICK reg \in AfterEviction :
        LET found == Found(reg, h, c)
            s == IF found # {} THEN CHOOSE f \in found : TRUE ELSE CHOOSE f \in fresh : TRUE
            taken == found # {} /\ s \in busy
        IN /\ found # {} \/ fresh # {}
           /\ registered' = IF taken THEN reg ELSE reg \cup {s}
           /\ convOf' = IF found = {} THEN [convOf EXCEPT ![s] = c] ELSE convOf
           /\ \/ /\ stage' = [stage EXCEPT ![r] = "refused"]
                 /\ UNCHANGED <<busy, signal, seat>>
              \/ /\ ~taken
                 /\ stage' = [stage EXCEPT ![r] = "opening"]
                 /\ seat' = [seat EXCEPT ![r] = s]
                 /\ busy' = busy \cup {s}
                 /\ signal' = [signal EXCEPT ![s] = "armed"]
  BY DEF Admit
<1>2. stage[r] = "new" /\ UNCHANGED <<engine, told, rows, gone, deleting>>
  BY DEF Admit
<1>3. reg \subseteq registered /\ registered \subseteq Seats
  BY DEF AfterEviction, ChatInv, ChatTypeOK
<1> DEFINE found == Found(reg, h, c)
<1>4. found \subseteq reg /\ (found = {} => \A t \in reg : convOf[t] # c)
  BY DEF Found
<1>5. CASE found # {}
  <2> DEFINE s == CHOOSE f \in found : TRUE
  <2>1. s \in found
    BY <1>5
  <2>2. s \in registered /\ s \in reg /\ s \in Seats /\ convOf[s] # Nobody
    BY <2>1, <1>3, <1>4 DEF ChatInv, SessionsInv
  <2>3. registered' = reg /\ convOf' = convOf
    BY <1>1, <1>5, <2>2
  <2>4. \/ /\ stage' = [stage EXCEPT ![r] = "refused"]
           /\ UNCHANGED <<busy, signal, seat>>
        \/ /\ s \notin busy /\ stage' = [stage EXCEPT ![r] = "opening"]
           /\ seat' = [seat EXCEPT ![r] = s] /\ busy' = busy \cup {s}
           /\ signal' = [signal EXCEPT ![s] = "armed"]
    BY <1>1, <1>5
  <2> HIDE DEF s
  <2> QED BY <1>2, <1>3, <2>2, <2>3, <2>4
<1>6. CASE found = {}
  <2> DEFINE s == CHOOSE f \in fresh : TRUE
  <2>1. s \in fresh
    BY <1>1, <1>6
  <2>2. s \in Seats /\ convOf[s] = Nobody /\ s \notin busy
    BY <2>1 DEF ChatInv, SessionsInv
  <2>3. registered' = reg \cup {s} /\ convOf' = [convOf EXCEPT ![s] = c]
    BY <1>1, <1>6
  <2>4. \/ /\ stage' = [stage EXCEPT ![r] = "refused"]
           /\ UNCHANGED <<busy, signal, seat>>
        \/ /\ stage' = [stage EXCEPT ![r] = "opening"]
           /\ seat' = [seat EXCEPT ![r] = s] /\ busy' = busy \cup {s}
           /\ signal' = [signal EXCEPT ![s] = "armed"]
    BY <1>1, <1>6
  <2> HIDE DEF s
  <2> QED BY <1>2, <1>3, <1>4, <1>6, <2>2, <2>3, <2>4
<1> QED BY <1>5, <1>6

\* The generator passes from one stage to the next and keeps its session.
Goes(r, from, to) ==
    /\ stage[r] = from /\ stage' = [stage EXCEPT ![r] = to]
    /\ UNCHANGED <<seatVars, seat, told, gone, deleting>>

\* The generator is through, and its session is released.
Ends(r, from, to) ==
    /\ stage[r] = from /\ stage' = [stage EXCEPT ![r] = to]
    /\ registered' \subseteq registered /\ busy' = busy \ {seat[r]}
    /\ signal' = [signal EXCEPT ![seat[r]] = "none"]
    /\ UNCHANGED <<engine, convOf, seat, gone, deleting>>

\* The steps of a generator and of what befalls it, by what they do.
LEMMA GeneratorMoves ==
    ASSUME ChatInv, NEW r \in Requests,
           Generator(r) \/ TransportFails(r) \/ GetLost(r) \/ Disconnect(r)
    PROVE  \/ /\ Goes(r, "opening", "first") /\ rows' = rows
              /\ engine' = [engine EXCEPT ![r] = "running"]
           \/ Goes(r, "first", "loop") /\ UNCHANGED <<rows, engine>>
           \/ Goes(r, "loop", "ledger") /\ ~Live(r) /\ UNCHANGED <<rows, engine>>
           \/ /\ Goes(r, "ledger", "frame") /\ rows' = [rows EXCEPT ![r] = @ + 1]
              /\ engine' = engine
           \/ Ends(r, "frame", "closed") /\ told' = told \cup {r} /\ rows' = rows
           \/ /\ Ends(r, "abort", "closed") /\ ~Live(r) /\ told' = told
              /\ rows' = [rows EXCEPT ![r] = @ + 1]
           \/ /\ Ends(r, "loop", "failed") /\ told' = told \cup {r}
              /\ rows' = [rows EXCEPT ![r] = @ + 2]
           \/ /\ stage[r] \in {"opening", "first"} /\ stage' = [stage EXCEPT ![r] = "lost"]
              /\ gone \subseteq gone' /\ gone' \subseteq gone \cup {r}
              /\ UNCHANGED <<seatVars, engine, seat, told, rows, deleting>>
           \/ /\ stage[r] \in {"loop", "ledger", "frame"}
              /\ stage' = [stage EXCEPT ![r] = "abort"]
              /\ rows' = IF stage[r] = "ledger" THEN [rows EXCEPT ![r] = @ + 1] ELSE rows
              /\ engine' = [engine EXCEPT ![r] = IF Live(r) THEN "cancelling" ELSE @]
              /\ gone' = gone \cup {r}
              /\ UNCHANGED <<seatVars, seat, told, deleting>>
           \/ /\ Goes(r, "loop", "abort") /\ engine[r] = "cancelled"
              /\ UNCHANGED <<rows, engine>>
<1>1. CASE Open(r) \/ FirstFrame(r)
  BY <1>1 DEF Open, FirstFrame, Move, Goes
<1>2. CASE TakeDone(r) \/ SeesEnd(r)
  BY <1>2 DEF TakeDone, SeesEnd, Move, Goes, Live
<1>3. CASE WriteRow(r)
  BY <1>3 DEF WriteRow, Move, Goes
<1>4. ASSUME Release(seat[r])
      PROVE  /\ registered' \subseteq registered /\ busy' = busy \ {seat[r]}
             /\ signal' = [signal EXCEPT ![seat[r]] = "none"]
  BY <1>4 DEF Release
<1>5. CASE LastFrame(r)
  BY <1>4, <1>5 DEF LastFrame, Move, Ends
<1>6. CASE AbortEnds(r)
  BY <1>4, <1>6 DEF AbortEnds, Move, Ends
<1>7. CASE TransportFails(r)
  BY <1>4, <1>7 DEF TransportFails, Move, Ends
<1>8. CASE GetLost(r)
  BY <1>8 DEF GetLost, Move
<1>9. CASE Disconnect(r)
  BY <1>9 DEF Disconnect, Abort, Move
<1>10. CASE SeesCancelled(r)
  <2>1. engine \in [Requests -> {"none", "running", "flushing", "cancelling",
                                 "ended", "silent", "cancelled"}]
    BY DEF ChatInv, ChatTypeOK
  <2>2. engine' = engine /\ rows' = rows
    BY <1>10, <2>1 DEF SeesCancelled, Abort, Live
  <2> QED BY <1>10, <2>2 DEF SeesCancelled, Abort, Move, Goes
<1> QED BY <1>1, <1>2, <1>3, <1>5, <1>6, <1>7, <1>8, <1>9, <1>10 DEF Generator

\* A stop and a deletion.
LEMMA OthersMove ==
    ASSUME ChatInv,
           (\E s \in Seats : Stop(s)) \/ (\E c \in Convs : DeleteStarts(c) \/ DeleteEnds(c))
    PROVE  /\ UNCHANGED <<convOf, busy, engine, stage, seat, told, rows, gone>>
           /\ registered' \subseteq registered
           /\ deleting' \subseteq Convs
           /\ \/ signal' = signal
              \/ \E t \in busy : signal' = [signal EXCEPT ![t] = "requested"]
BY DEF Stop, DeleteStarts, DeleteEnds, seatVars, ChatInv, ChatTypeOK

-------------------------------------------------------------------------------
(* The invariant is kept *)

\* Everything of the invariant but the bus, which ChatIsOnTheBus takes care of.
ServerInv ==
    ChatTypeOK /\ PlacesInv /\ SessionsInv /\ BusyHasARequest /\ LedgerInv /\ ToldInv

LEMMA AdmitKeeps ==
    ASSUME ChatInv, BusInv', NEW r \in Requests, NEW h \in Seats \cup {Nobody}, NEW c \in Convs,
           Admit(r, h, c)
    PROVE  ServerInv'
<1>1. stage[r] = "new" /\ UNCHANGED <<engine, told, rows, gone, deleting>>
  BY AdmitMoves
<1>2. PICK s \in Seats :
        /\ registered' \subseteq registered \cup {s}
        /\ \/ convOf' = convOf /\ convOf[s] # Nobody /\ registered' \subseteq registered
           \/ /\ convOf[s] = Nobody /\ convOf' = [convOf EXCEPT ![s] = c]
              /\ \A t \in registered' : t # s => convOf[t] # c
        /\ \/ /\ stage' = [stage EXCEPT ![r] = "refused"]
              /\ UNCHANGED <<busy, signal, seat>>
           \/ /\ s \notin busy /\ stage' = [stage EXCEPT ![r] = "opening"]
              /\ seat' = [seat EXCEPT ![r] = s] /\ busy' = busy \cup {s}
              /\ signal' = [signal EXCEPT ![s] = "armed"]
  BY AdmitMoves
<1>3. UNCHANGED <<wait, got>>
  BY DEF Admit, busVars
<1>4. /\ convOf \in [Seats -> Convs \cup {Nobody}] /\ seat \in [Requests -> Seats \cup {Nobody}]
      /\ stage \in [Requests -> Stages] /\ registered \subseteq Seats /\ busy \subseteq Seats
      /\ signal \in [Seats -> {"none", "armed", "requested"}]
  BY DEF ChatInv, ChatTypeOK
<1>5. engine[r] = "none" /\ rows[r] = 0 /\ ~Live(r)
  BY <1>1 DEF ChatInv, PlacesInv, LedgerInv, Live
<1>6. /\ \A q \in Requests : q # r => stage'[q] = stage[q] /\ seat'[q] = seat[q]
      /\ stage'[r] \in {"refused", "opening"}
      /\ stage'[r] = "opening" => seat'[r] = s /\ s \notin busy /\ busy' = busy \cup {s}
      /\ stage'[r] = "refused" => busy' = busy /\ signal' = signal
  BY <1>2, <1>4
<1>7. /\ convOf'[s] # Nobody
      /\ \A t \in Seats : convOf[t] # Nobody => convOf'[t] = convOf[t]
      /\ \A t \in Seats : t # s => convOf'[t] = convOf[t]
  BY <1>2, <1>4, ChatAssumption
<1>8. ChatTypeOK'
  BY <1>1, <1>2, <1>4 DEF ChatInv, ChatTypeOK, BusInv, Stages
<1>9. PlacesInv'
  BY <1>1, <1>4, <1>5, <1>6, <1>7 DEF ChatInv, PlacesInv, Live
<1>10. SessionsInv'
  <2>1. \A t \in registered' \cup busy' : convOf'[t] # Nobody
    BY <1>2, <1>4, <1>7 DEF ChatInv, SessionsInv
  <2>2. \A t, u \in registered' : convOf'[t] = convOf'[u] => t = u
    BY <1>2, <1>4, <1>7 DEF ChatInv, SessionsInv
  <2>3. \A q \in Requests : Attached(q)' => seat'[q] \in busy'
    BY <1>1, <1>2, <1>6 DEF ChatInv, SessionsInv, Attached
  <2>4. \A q, p \in Requests : Attached(q)' /\ Attached(p)' /\ seat'[q] = seat'[p] => q = p
    BY <1>1, <1>6 DEF ChatInv, SessionsInv, Attached
  <2> QED BY <2>1, <2>2, <2>3, <2>4 DEF SessionsInv
<1>11. BusyHasARequest'
  <2>1. \A t \in busy' : \E q \in Requests : seat'[q] = t /\ (Attached(q)' \/ stage'[q] = "lost")
    BY <1>1, <1>2, <1>6 DEF ChatInv, BusyHasARequest, Attached
  <2>2. \A t \in Seats : signal'[t] # "none" => t \in busy'
    BY <1>2, <1>4 DEF ChatInv, BusyHasARequest
  <2> QED BY <2>1, <2>2 DEF BusyHasARequest
<1>12. LedgerInv' /\ ToldInv'
  BY <1>1, <1>3, <1>5, <1>6 DEF ChatInv, LedgerInv, ToldInv
<1> QED BY <1>8, <1>9, <1>10, <1>11, <1>12 DEF ServerInv

LEMMA RunKeeps ==
    ASSUME ChatInv, BusInv', [BusNext]_busVars, NEW r \in Requests,
           Run(r) \/ RunAsks(r) \/ Answer(r)
    PROVE  ServerInv'
<1>1. UNCHANGED <<registered, convOf, busy, signal, stage, seat, told, rows, gone, deleting>>
  BY RunMoves DEF seatVars
<1>2. ChatTypeOK'
  BY <1>1, RunMoves DEF ChatInv, ChatTypeOK, BusInv
<1>3. PlacesInv'
  BY <1>1, RunMoves DEF ChatInv, PlacesInv
<1>4. SessionsInv' /\ BusyHasARequest' /\ LedgerInv'
  BY <1>1 DEF ChatInv, SessionsInv, BusyHasARequest, LedgerInv, Attached
<1>5. ToldInv'
  BY <1>1, RunMoves, ReturnedStays DEF ChatInv, ToldInv, Requests
<1> QED BY <1>2, <1>3, <1>4, <1>5 DEF ServerInv

LEMMA OthersKeep ==
    ASSUME ChatInv, BusInv', [BusNext]_busVars,
           (\E s \in Seats : Stop(s)) \/ (\E c \in Convs : DeleteStarts(c) \/ DeleteEnds(c))
    PROVE  ServerInv'
<1>1. /\ UNCHANGED <<convOf, busy, engine, stage, seat, told, rows, gone>>
      /\ registered' \subseteq registered /\ deleting' \subseteq Convs
      /\ \/ signal' = signal
         \/ \E t \in busy : signal' = [signal EXCEPT ![t] = "requested"]
  BY OthersMove
<1>2. ChatTypeOK'
  BY <1>1 DEF ChatInv, ChatTypeOK, BusInv
<1>3. PlacesInv' /\ SessionsInv' /\ LedgerInv'
  BY <1>1 DEF ChatInv, PlacesInv, SessionsInv, LedgerInv, Attached, Live
<1>4. BusyHasARequest'
  BY <1>1 DEF ChatInv, ChatTypeOK, BusyHasARequest, Attached
<1>5. ToldInv'
  BY <1>1, ReturnedStays DEF ChatInv, ToldInv, Requests
<1> QED BY <1>2, <1>3, <1>4, <1>5 DEF ServerInv

\* A generator that has not ended keeps its session, and with it what others rely on.
LEMMA GeneratorKeeps ==
    ASSUME ChatInv, BusInv', [BusNext]_busVars, NEW r \in Requests,
           Generator(r) \/ TransportFails(r) \/ GetLost(r) \/ Disconnect(r)
    PROVE  ServerInv'
<1>1. /\ convOf \in [Seats -> Convs \cup {Nobody}] /\ seat \in [Requests -> Seats \cup {Nobody}]
      /\ stage \in [Requests -> Stages] /\ registered \subseteq Seats /\ busy \subseteq Seats
      /\ signal \in [Seats -> {"none", "armed", "requested"}] /\ rows \in [Requests -> 0..3]
      /\ engine \in [Requests -> {"none", "running", "flushing", "cancelling",
                                  "ended", "silent", "cancelled"}]
      /\ told \subseteq Requests /\ gone \subseteq Requests /\ deleting \subseteq Convs
  BY DEF ChatInv, ChatTypeOK
<1>2. \A q \in Requests : engine[q] = "cancelled" /\ q \notin gone =>
                            got'[q] = "cancelled" /\ wait'[q] = "returned"
  BY ReturnedStays DEF ChatInv, ToldInv, Requests
<1>3. /\ rows[r] \in {0, 1, 2}
      /\ stage[r] \in {"opening", "first", "loop", "ledger"} => rows[r] = 0
      /\ stage[r] = "frame" => rows[r] = 1
      /\ stage[r] = "abort" => rows[r] = 0 \/ (rows[r] = 1 /\ r \in gone)
  BY <1>1 DEF ChatInv, LedgerInv, Stages
<1>4. CASE \/ Goes(r, "opening", "first") /\ engine' = [engine EXCEPT ![r] = "running"]
              /\ rows' = rows
           \/ Goes(r, "first", "loop") /\ UNCHANGED <<rows, engine>>
           \/ Goes(r, "loop", "ledger") /\ ~Live(r) /\ UNCHANGED <<rows, engine>>
           \/ Goes(r, "ledger", "frame") /\ rows' = [rows EXCEPT ![r] = @ + 1] /\ engine' = engine
           \/ Goes(r, "loop", "abort") /\ engine[r] = "cancelled" /\ UNCHANGED <<rows, engine>>
  <2>1. /\ UNCHANGED <<registered, convOf, busy, signal, seat, told, gone, deleting>>
        /\ \A q \in Requests : q # r => stage'[q] = stage[q] /\ engine'[q] = engine[q]
                                        /\ rows'[q] = rows[q]
    BY <1>1, <1>4 DEF Goes, seatVars
  <2>2. \A q \in Requests : Attached(q)' = Attached(q) /\ (stage[q] = "lost" => stage'[q] = "lost")
    BY <1>1, <1>4, <2>1 DEF Goes, Attached
  <2>3. ChatTypeOK'
    BY <1>1, <1>3, <1>4, <2>1 DEF Goes, ChatTypeOK, BusInv, Stages
  <2>4. PlacesInv'
    BY <1>1, <1>4, <2>1 DEF Goes, ChatInv, PlacesInv, Live
  <2>5. SessionsInv' /\ BusyHasARequest'
    BY <2>1, <2>2 DEF ChatInv, SessionsInv, BusyHasARequest
  <2>6. LedgerInv'
    BY <1>1, <1>3, <1>4, <2>1 DEF Goes, ChatInv, LedgerInv
  <2>7. ToldInv'
    BY <1>1, <1>2, <1>4, <2>1 DEF Goes, ChatInv, ToldInv
  <2> QED BY <2>3, <2>4, <2>5, <2>6, <2>7 DEF ServerInv
<1>5. CASE \/ Ends(r, "frame", "closed") /\ told' = told \cup {r} /\ rows' = rows
           \/ Ends(r, "abort", "closed") /\ ~Live(r) /\ told' = told
              /\ rows' = [rows EXCEPT ![r] = @ + 1]
           \/ Ends(r, "loop", "failed") /\ told' = told \cup {r} /\ rows' = [rows EXCEPT ![r] = @ + 2]
  <2>1. /\ registered' \subseteq registered /\ busy' = busy \ {seat[r]}
        /\ signal' = [signal EXCEPT ![seat[r]] = "none"]
        /\ UNCHANGED <<engine, convOf, seat, gone, deleting>>
        /\ stage[r] \in {"frame", "abort", "loop"} /\ stage'[r] \in {"closed", "failed"}
        /\ \A q \in Requests : q # r => stage'[q] = stage[q] /\ rows'[q] = rows[q]
        /\ told' \subseteq told \cup {r} /\ told \subseteq told'
    BY <1>1, <1>5 DEF Ends
  <2>2. seat[r] \in Seats
    BY <2>1 DEF ChatInv, PlacesInv
  <2>3. ChatTypeOK'
    <3>1. rows' \in [Requests -> 0..3]
      BY <1>1, <1>3, <1>5 DEF Ends
    <3>2. stage' \in [Requests -> Stages]
      BY <1>1, <1>5 DEF Ends, Stages
    <3>3. told' \subseteq Requests
      BY <1>1, <2>1
    <3> QED BY <1>1, <2>1, <2>2, <3>1, <3>2, <3>3 DEF ChatTypeOK, BusInv
  <2>4. PlacesInv'
    BY <1>1, <1>5, <2>1 DEF Ends, ChatInv, PlacesInv, Live
  <2>5. \A q \in Requests : Attached(q)' => q # r /\ Attached(q)
    BY <2>1 DEF Attached
  <2>6. Attached(r)
    BY <2>1 DEF Attached
  <2>7. SessionsInv'
    BY <2>1, <2>5, <2>6 DEF ChatInv, SessionsInv
  <2>8. BusyHasARequest'
    <3>1. \A s \in busy' : \E q \in Requests : seat'[q] = s /\ (Attached(q)' \/ stage'[q] = "lost")
      BY <2>1 DEF ChatInv, BusyHasARequest, Attached
    <3>2. \A s \in Seats : signal'[s] # "none" => s \in busy'
      BY <1>1, <2>1, <2>2 DEF ChatInv, BusyHasARequest
    <3> QED BY <3>1, <3>2 DEF BusyHasARequest
  <2>9. LedgerInv'
    BY <1>1, <1>3, <1>5, <2>1 DEF Ends, ChatInv, LedgerInv
  <2>10. ToldInv'
    BY <1>1, <1>2, <1>5, <2>1 DEF Ends, ChatInv, ToldInv
  <2> QED BY <2>3, <2>4, <2>7, <2>8, <2>9, <2>10 DEF ServerInv
<1>6. CASE /\ stage[r] \in {"opening", "first"} /\ stage' = [stage EXCEPT ![r] = "lost"]
           /\ gone \subseteq gone' /\ gone' \subseteq gone \cup {r}
           /\ UNCHANGED <<seatVars, engine, seat, told, rows, deleting>>
  <2>1. /\ UNCHANGED <<registered, convOf, busy, signal>> /\ stage'[r] = "lost"
        /\ \A q \in Requests : q # r => stage'[q] = stage[q]
    BY <1>1, <1>6 DEF seatVars
  <2>2. ChatTypeOK'
    BY <1>1, <1>6, <2>1 DEF ChatTypeOK, BusInv, Stages
  <2>3. PlacesInv' /\ SessionsInv'
    BY <1>6, <2>1 DEF ChatInv, PlacesInv, SessionsInv, Live, Attached
  <2>4. BusyHasARequest'
    BY <1>6, <2>1 DEF ChatInv, BusyHasARequest, Attached
  <2>5. LedgerInv' /\ ToldInv'
    BY <1>2, <1>3, <1>6, <2>1 DEF ChatInv, LedgerInv, ToldInv
  <2> QED BY <2>2, <2>3, <2>4, <2>5 DEF ServerInv
<1>7. CASE /\ stage[r] \in {"loop", "ledger", "frame"}
           /\ stage' = [stage EXCEPT ![r] = "abort"]
           /\ rows' = IF stage[r] = "ledger" THEN [rows EXCEPT ![r] = @ + 1] ELSE rows
           /\ engine' = [engine EXCEPT ![r] = IF Live(r) THEN "cancelling" ELSE @]
           /\ gone' = gone \cup {r}
           /\ UNCHANGED <<seatVars, seat, told, deleting>>
  <2>1. /\ UNCHANGED <<registered, convOf, busy, signal>> /\ stage'[r] = "abort"
        /\ \A q \in Requests : q # r => /\ stage'[q] = stage[q] /\ engine'[q] = engine[q]
                                        /\ rows'[q] = rows[q] /\ (q \in gone' <=> q \in gone)
        /\ r \in gone'
    BY <1>1, <1>7 DEF seatVars
  <2>2. \A q \in Requests : Attached(q)' = Attached(q) /\ (stage[q] = "lost" => stage'[q] = "lost")
    BY <1>7, <2>1 DEF Attached
  <2>3. ChatTypeOK'
    BY <1>1, <1>3, <1>7, <2>1 DEF ChatTypeOK, BusInv, Stages
  <2>4. PlacesInv'
    BY <1>1, <1>7, <2>1 DEF ChatInv, PlacesInv, Live
  <2>5. SessionsInv' /\ BusyHasARequest'
    BY <1>7, <2>1, <2>2 DEF ChatInv, SessionsInv, BusyHasARequest
  <2>6. rows'[r] \in {0, 1}
    BY <1>1, <1>3, <1>7
  <2>7. LedgerInv' /\ ToldInv'
    BY <1>2, <1>7, <2>1, <2>6 DEF ChatInv, LedgerInv, ToldInv
  <2> QED BY <2>3, <2>4, <2>5, <2>7 DEF ServerInv
<1> QED BY <1>4, <1>5, <1>6, <1>7, GeneratorMoves

LEMMA ChatKept == ChatInv /\ [ChatNext]_chatVars => ChatInv'
<1> SUFFICES ASSUME ChatInv, [ChatNext]_chatVars PROVE ChatInv'
  OBVIOUS
<1>1. CASE UNCHANGED chatVars
  <2>1. UNCHANGED busVars
    BY <1>1 DEF chatVars
  <2>2. BusInv'
    BY <2>1, BusKept DEF ChatInv
  <2>3. ServerInv'
    BY <1>1, <2>1 DEF chatVars, busVars, seatVars, ChatInv, ServerInv, ChatTypeOK, BusTypeOK,
       PlacesInv, SessionsInv, BusyHasARequest, LedgerInv, ToldInv, Live, Attached
  <2> QED BY <2>2, <2>3 DEF ServerInv, ChatInv
<1>2. CASE ChatNext
  <2>1. [BusNext]_busVars
    BY <1>2, ChatIsOnTheBus
  <2>2. BusInv'
    BY <2>1, BusKept DEF ChatInv
  <2>3. ASSUME NEW r \in Requests, NEW h \in Seats \cup {Nobody}, NEW c \in Convs, Admit(r, h, c)
        PROVE  ServerInv'
    BY <2>2, <2>3, AdmitKeeps
  <2>4. ASSUME NEW r \in Requests,
               Generator(r) \/ TransportFails(r) \/ GetLost(r) \/ Disconnect(r)
        PROVE  ServerInv'
    BY <2>1, <2>2, <2>4, GeneratorKeeps
  <2>5. ASSUME NEW r \in Requests, Run(r) \/ RunAsks(r) \/ Answer(r)
        PROVE  ServerInv'
    BY <2>1, <2>2, <2>5, RunKeeps
  <2>6. ASSUME NEW s \in Seats, Stop(s)
        PROVE  ServerInv'
    BY <2>1, <2>2, <2>6, OthersKeep
  <2>7. ASSUME NEW c \in Convs, DeleteStarts(c) \/ DeleteEnds(c)
        PROVE  ServerInv'
    BY <2>1, <2>2, <2>7, OthersKeep
  <2> QED BY <1>2, <2>2, <2>3, <2>4, <2>5, <2>6, <2>7 DEF ChatNext, ServerInv, ChatInv
<1> QED BY <1>1, <1>2

-------------------------------------------------------------------------------
(* The theorems *)

LEMMA ChatInvariant == ChatSpec => []ChatInv
BY ChatInitially, ChatKept, PTL DEF ChatSpec

\* Every reachable state of the chat server is of its type.
THEOREM ChatTypeCorrect == ChatSpec => []ChatTypeOK
<1>1. ChatInv => ChatTypeOK
  BY DEF ChatInv
<1> QED BY ChatInvariant, <1>1, PTL

\* The prompts of all runs are waited for, and can be answered while they are: the
\* stream asks for live sessions only, so that the bus keeps what it promises by itself.
THEOREM PromptsOfRunsHaveWaiters == ChatSpec => []PromptsHaveWaiters
<1>1. ChatInv => PromptsHaveWaiters
  BY DEF ChatInv, BusInv
<1> QED BY ChatInvariant, <1>1, PTL

\* Two live runs of a conversation are only there if one of them was left behind by a
\* lost stream or a failed transport, or its session was dropped by a deletion: runs that
\* still have their stream and their session share it, and it carries one stream.
THEOREM RunsDoNotMeet == ChatSpec => []RunsAreAlone
<1>1. ASSUME ChatInv PROVE RunsAreAlone
  <2> SUFFICES ASSUME NEW q \in Requests, NEW r \in Requests, q # r, Live(q), Live(r),
                      convOf[seat[q]] = convOf[seat[r]],
                      stage[q] \notin {"lost", "failed"}, stage[r] \notin {"lost", "failed"},
                      seat[q] \in registered, seat[r] \in registered
               PROVE  FALSE
    BY DEF RunsAreAlone
  <2>1. Attached(q) /\ Attached(r)
    BY <1>1 DEF ChatInv, PlacesInv, Attached
  <2>2. seat[q] = seat[r]
    BY <1>1 DEF ChatInv, SessionsInv
  <2> QED BY <1>1, <2>1, <2>2 DEF ChatInv, SessionsInv
<1> QED BY ChatInvariant, <1>1, PTL

\* A session marked busy has a request that will release it, or one that was lost before
\* its generator began; a stop signal is only armed meanwhile.
THEOREM BusyIsAccountedFor == ChatSpec => []BusyHasARequest
<1>1. ChatInv => BusyHasARequest
  BY DEF ChatInv
<1> QED BY ChatInvariant, <1>1, PTL

\* Every stream that ends has its row in the usage ledger, and one only, unless its client
\* left or its transport failed.
THEOREM UsageIsBooked == ChatSpec => []UsageIsAccounted
<1>1. ChatInv => UsageIsAccounted
  BY DEF ChatInv, ChatTypeOK, Stages, LedgerInv, UsageIsAccounted
<1> QED BY ChatInvariant, <1>1, PTL

\* A client that stays is told the end of its run, except after a stop that has cancelled
\* the run at a prompt.
THEOREM ClientLearnsTheEnd == ChatSpec => []ClientIsTold
<1>1. ChatInv => ClientIsTold
  BY DEF ChatInv, ToldInv, ClientIsTold
<1> QED BY ChatInvariant, <1>1, PTL
============================================================================
