------------------------------ MODULE ConfirmBus ------------------------------
(***************************************************************************)
(* The interaction bus (server/confirm.py): a caller inside a run asks the *)
(* user something and waits on a future; an HTTP request of the user        *)
(* settles it.  Callers with the same merge key share one prompt.  Each     *)
(* waiter has a timer of its own; the last waiter to leave removes the      *)
(* prompt.  A prompt is named by the caller that registered it.  Everything *)
(* runs on one event loop, so a step is what happens between two awaits;    *)
(* the announcement only puts an event on an unbounded queue and does not   *)
(* give the loop away.                                                      *)
(***************************************************************************)
EXTENDS Naturals, FiniteSets

CONSTANTS Callers,     \* calls that may ask, one prompt each
          BusSessions, \* session ids; also the merge keys (one per session)
          Nobody       \* no prompt, no session

ASSUME BusAssumption == Nobody \notin Callers \cup BusSessions

VARIABLES
    future,     \* the future of the prompt a caller registered
    pending,    \* _pending: prompts that can be answered or cancelled
    shared,     \* _shared: merge key -> prompt
    home,       \* session_id of a prompt
    waitsFor,   \* the prompt a caller waits for
    wait,       \* idle, waiting, woken (its timer has fired), returned
    got         \* what request() gave the caller

busVars == <<future, pending, shared, home, waitsFor, wait, got>>

BusTypeOK ==
    /\ future \in [Callers -> {"none", "open", "answered", "cancelled"}]
    /\ pending \subseteq Callers
    /\ shared \in [BusSessions -> Callers \cup {Nobody}]
    /\ home \in [Callers -> BusSessions \cup {Nobody}]
    /\ waitsFor \in [Callers -> Callers \cup {Nobody}]
    /\ wait \in [Callers -> {"idle", "waiting", "woken", "returned"}]
    /\ got \in [Callers -> {"none", "answer", "timeout", "cancelled", "killed"}]

BusInit ==
    /\ future = [c \in Callers |-> "none"]
    /\ pending = {}
    /\ shared = [s \in BusSessions |-> Nobody]
    /\ home = [c \in Callers |-> Nobody]
    /\ waitsFor = [c \in Callers |-> Nobody]
    /\ wait = [c \in Callers |-> "idle"]
    /\ got = [c \in Callers |-> "none"]

Done(r) == future[r] \in {"answered", "cancelled"}
Waiting(c) == wait[c] \in {"waiting", "woken"}
WaitersOf(r) == {c \in Callers : Waiting(c) /\ waitsFor[c] = r}

\* A slip: a settled prompt that still has waiters is handed out again.
LookupSharedStale(key) ==
    IF shared[key] # Nobody /\ shared[key] \in pending THEN shared[key] ELSE Nobody

\* _lookup_shared: the prompt a merge key stands for, unless it is settled.
LookupShared(key) ==
    IF shared[key] # Nobody /\ shared[key] \in pending /\ ~Done(shared[key])
    THEN shared[key] ELSE Nobody

\* request(): join the prompt of the key, or register one and announce it.
Ask(c, s, merge) ==
    /\ wait[c] = "idle"
    /\ LET r == IF merge THEN LookupShared(s) ELSE Nobody
           p == IF r = Nobody THEN c ELSE r
       IN /\ waitsFor' = [waitsFor EXCEPT ![c] = p]
          /\ IF r # Nobody
             THEN UNCHANGED <<future, pending, shared, home>>
             ELSE /\ future' = [future EXCEPT ![c] = "open"]
                  /\ pending' = pending \cup {c}
                  /\ home' = [home EXCEPT ![c] = s]
                  /\ shared' = IF merge THEN [shared EXCEPT ![s] = c] ELSE shared
    /\ wait' = [wait EXCEPT ![c] = "waiting"]
    /\ UNCHANGED got

\* The timer of one waiter; the caller looks at the future when it runs again.
TimerFires(c) ==
    /\ wait[c] = "waiting" /\ ~Done(waitsFor[c])
    /\ wait' = [wait EXCEPT ![c] = "woken"]
    /\ UNCHANGED <<future, pending, shared, home, waitsFor, got>>

\* A slip: as with wait_for, whoever times out takes the prompt away.
LeaveFirst(c, outcome) ==
    LET r == waitsFor[c]
        last == WaitersOf(r) = {c} \/ outcome = "timeout"
    IN /\ wait' = [wait EXCEPT ![c] = "returned"]
       /\ got' = [got EXCEPT ![c] = outcome]
       /\ pending' = IF last THEN pending \ {r} ELSE pending
       /\ shared' = [s \in BusSessions |-> IF last /\ shared[s] = r THEN Nobody
                                           ELSE shared[s]]
       /\ future' = IF last /\ ~Done(r) THEN [future EXCEPT ![r] = "cancelled"]
                    ELSE future
       /\ UNCHANGED <<home, waitsFor>>

\* A slip: the last waiter leaves the prompt in the registry.
LeaveKeep(c, outcome) ==
    /\ wait' = [wait EXCEPT ![c] = "returned"]
    /\ got' = [got EXCEPT ![c] = outcome]
    /\ UNCHANGED <<future, pending, shared, home, waitsFor>>

\* The finally clause of _await_answer; the last waiter runs _release.
Leave(c, outcome) ==
    LET r == waitsFor[c]
        last == WaitersOf(r) = {c}
    IN /\ wait' = [wait EXCEPT ![c] = "returned"]
       /\ got' = [got EXCEPT ![c] = outcome]
       /\ pending' = IF last THEN pending \ {r} ELSE pending
       /\ shared' = [s \in BusSessions |-> IF last /\ shared[s] = r THEN Nobody
                                           ELSE shared[s]]
       /\ future' = IF last /\ ~Done(r) THEN [future EXCEPT ![r] = "cancelled"]
                    ELSE future
       /\ UNCHANGED <<home, waitsFor>>

\* A slip: a caller whose timer has fired does not look at the future again.
WakeLate(c) ==
    /\ Waiting(c) /\ (wait[c] = "woken" \/ Done(waitsFor[c]))
    /\ Leave(c, IF wait[c] = "woken" THEN "timeout"
                ELSE IF future[waitsFor[c]] = "answered" THEN "answer" ELSE "cancelled")

\* asyncio.wait returns: a future settled by now counts, whatever the timer did.
Wake(c) ==
    /\ Waiting(c) /\ (wait[c] = "woken" \/ Done(waitsFor[c]))
    /\ Leave(c, CASE future[waitsFor[c]] = "answered"  -> "answer"
                  [] future[waitsFor[c]] = "cancelled" -> "cancelled"
                  [] OTHER                             -> "timeout")

\* The task of a waiting caller is cancelled.
Kill(c) == Waiting(c) /\ Leave(c, "killed")

\* respond() by the user the prompt belongs to; refused once it is settled.
Respond(r) ==
    /\ r \in pending /\ ~Done(r)
    /\ future' = [future EXCEPT ![r] = "answered"]
    /\ UNCHANGED <<pending, shared, home, waitsFor, wait, got>>

\* cancel_session(): the prompts of a session fail and leave the registry.
CancelSession(s) ==
    LET mine == {r \in pending : home[r] = s}
    IN /\ future' = [r \in Callers |-> IF r \in mine /\ ~Done(r) THEN "cancelled"
                                       ELSE future[r]]
       /\ pending' = pending \ mine
       /\ shared' = [k \in BusSessions |-> IF shared[k] \in pending \ mine
                                           THEN shared[k] ELSE Nobody]
       /\ UNCHANGED <<home, waitsFor, wait, got>>

BusNext ==
    \/ \E c \in Callers, s \in BusSessions, merge \in BOOLEAN : Ask(c, s, merge)
    \/ \E c \in Callers : TimerFires(c) \/ Wake(c) \/ Kill(c) \/ Respond(c)
    \/ \E s \in BusSessions : CancelSession(s)

-------------------------------------------------------------------------------
\* A caller that starts to wait finds a prompt nobody has answered yet: an
\* answer is never used for a call that was made after it (confirm.py:135).
JoinsAreFresh ==
    [][\A c \in Callers : wait[c] = "idle" /\ wait'[c] = "waiting"
           => future'[waitsFor'[c]] = "open"]_busVars

\* A caller that is waiting when an answer is accepted gets that answer, also
\* when its own timer has fired by then (confirm.py:103); only the end of its
\* own task takes it away.
AcceptedAnswerArrives ==
    [][\A c \in Callers : Waiting(c) /\ wait'[c] = "returned"
           /\ future[waitsFor[c]] = "answered" => got'[c] \in {"answer", "killed"}]_busVars

\* A caller that leaves - its time is up, its task ends - cancels no prompt that
\* others still wait for (confirm.py:147).
LeavingDisturbsNobody ==
    [][(\E c \in Callers : Waiting(c) /\ wait'[c] = "returned")
       => \A d \in Callers : Waiting(d) /\ wait'[d] # "returned" /\ ~Done(waitsFor[d])
              => future'[waitsFor[d]] = "open"]_busVars

\* An answer reaches those who wait for it, all of them and no others, whoever
\* joins or leaves the prompt meanwhile (confirm.py:103, :135, :147).
AnswersReachTheirWaiters ==
    /\ JoinsAreFresh
    /\ AcceptedAnswerArrives
    /\ LeavingDisturbsNobody

\* While someone waits, the prompt is open and can be answered, or settled; no
\* prompt is kept without a waiter (confirm.py:147).
PromptsHaveWaiters ==
    /\ \A c \in Callers : Waiting(c) /\ ~Done(waitsFor[c]) => waitsFor[c] \in pending
    /\ \A r \in pending : WaitersOf(r) # {}
    /\ \A s \in BusSessions : shared[s] # Nobody => shared[s] \in pending

===============================================================================
