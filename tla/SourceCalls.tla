----------------------------- MODULE SourceCalls -----------------------------
(***************************************************************************)
(* How the adapters reach their sources (data/adapters).  A fetch of the    *)
(* akshare adapter walks a chain of interfaces; for quotes an interface     *)
(* that failed twice running is left out for a while.  A fetch of the       *)
(* fuyao adapter asks for one dataset or one per report period, through a   *)
(* client that all threads share: it holds one session of the server, is    *)
(* locked for the whole of a call, and builds the session anew, once, when  *)
(* the server no longer knows it.  Frames are abstract: rows or none.       *)
(***************************************************************************)
EXTENDS Naturals, Sequences

CONSTANTS Threads,      \* threads that fetch
          Feeds,        \* length of the longest chain of interfaces
          MaxLinks,     \* bound: sessions the server may open
          Free          \* nobody holds the client

ASSUME SourceAssumption == Feeds \in Nat \ {0} /\ MaxLinks \in Nat /\ Free \notin Threads

UnhealthyAfterFailures == 2
ReadinessRetryAttempts == 2
SectorAttempts == 3

VARIABLES
    scCall,     \* a fetch of a thread
    scFailures, \* _failures of an interface; what lies above the limit is not told apart
    scHealth,   \* _unhealthy_until: absent, cooling down, or over but not looked at
    scLast,     \* history: the last two outcomes of an interface
    scHolder,   \* who holds the lock of the client
    scClient,   \* the client: handshake done, its session id (0: none)
    scKnown,    \* sessions the server knows
    scOpened    \* how many it has opened

sourceVars == <<scCall, scFailures, scHealth, scLast, scHolder, scClient, scKnown, scOpened>>

Kinds == {"quote", "kline", "table", "macro", "sector", "dataset", "periods"}
NoCall == [at |-> "idle", kind |-> "quote", todo |-> <<>>, tries |-> 0, rows |-> 0, made |-> 0]

SourceTypeOK ==
    /\ \A t \in Threads :
         /\ scCall[t].at \in {"idle", "chain", "want", "sent", "again", "rows", "failed", "lost"}
         /\ scCall[t].kind \in Kinds /\ scCall[t].todo \in Seq(Nat)
         /\ scCall[t].tries \in 0..SectorAttempts
         /\ scCall[t].rows \in 0..Feeds /\ scCall[t].made \in 0..MaxLinks
    /\ scFailures \in [1..Feeds -> 0..UnhealthyAfterFailures]
    /\ scHealth \in [1..Feeds -> {"well", "cooling", "over"}]
    /\ scLast \in [1..Feeds -> Seq({"ok", "failed"})]
    /\ scHolder \in Threads \cup {Free}
    /\ scClient \in [ready : BOOLEAN, id : 0..MaxLinks]
    /\ scKnown \subseteq 1..MaxLinks /\ scOpened \in 0..MaxLinks

SourceInit ==
    /\ scCall = [t \in Threads |-> NoCall]
    /\ scFailures = [i \in 1..Feeds |-> 0]
    /\ scHealth = [i \in 1..Feeds |-> "well"]
    /\ scLast = [i \in 1..Feeds |-> <<>>]
    /\ scHolder = Free /\ scClient = [ready |-> FALSE, id |-> 0]
    /\ scKnown = {} /\ scOpened = 0

Chain == [i \in 1..Feeds |-> i]
Finish(t, how) == scCall' = [scCall EXCEPT ![t].at = how, ![t].todo = <<>>]

-------------------------------------------------------------------------------
(* akshare: chains of interfaces and the breaker *)

healthVars == <<scFailures, scHealth, scLast>>
clientVars == <<scHolder, scClient, scKnown, scOpened>>

\* fetch_quote: the interfaces that are not cooling down, or all when none is left.
QuoteChain ==
    LET healthy == SelectSeq(Chain, LAMBDA i : scHealth[i] # "cooling")
    IN IF healthy # <<>> THEN healthy ELSE Chain

\* fetch_kline and the index chain.
KlineChain == Chain

\* Indicators, statements, valuation, peers, news, announcements: one interface.
TableChain == <<1>>

\* The sources of the macro indicators, each once; the two tables of sectors.
MacroChain == Chain
SectorChain == <<1, 2>>

ChainOf(kind) ==
    CASE kind = "quote" -> QuoteChain
      [] kind = "kline" -> KlineChain
      [] kind = "table" -> TableChain
      [] kind = "macro" -> MacroChain
      [] kind = "sector" -> SectorChain

\* _interface_available, asked for each interface of a quote: a cooldown that is
\* over ends here.
Look ==
    /\ scFailures' = [i \in 1..Feeds |-> IF scHealth[i] = "over" THEN 0 ELSE scFailures[i]]
    /\ scHealth' = [i \in 1..Feeds |-> IF scHealth[i] = "over" THEN "well" ELSE scHealth[i]]

StartChain(t, kind) ==
    /\ scCall[t].at = "idle" /\ kind \in {"quote", "kline", "table", "macro", "sector"}
    /\ scCall' = [scCall EXCEPT ![t] = [NoCall EXCEPT !.at = "chain", !.kind = kind,
                                                      !.todo = ChainOf(kind)]]
    /\ IF kind = "quote" THEN Look ELSE UNCHANGED <<scFailures, scHealth>>
    /\ UNCHANGED <<scLast, clientVars>>

LastTwo(outcomes, o) ==
    LET all == Append(outcomes, o)
    IN IF Len(all) > 2 THEN Tail(all) ELSE all

\* A slip: a success ends the cooldown and leaves the count.
NoteSuccessKeepsCount(i) ==
    /\ scHealth' = [scHealth EXCEPT ![i] = "well"]
    /\ UNCHANGED scFailures

NoteSuccess(i) ==
    /\ scHealth' = [scHealth EXCEPT ![i] = "well"]
    /\ scFailures' = [scFailures EXCEPT ![i] = 0]

NoteFailure(i) ==
    LET count == IF scFailures[i] < UnhealthyAfterFailures THEN scFailures[i] + 1
                 ELSE scFailures[i]
    IN /\ scFailures' = [scFailures EXCEPT ![i] = count]
       /\ scHealth' = IF count >= UnhealthyAfterFailures
                      THEN [scHealth EXCEPT ![i] = "cooling"] ELSE scHealth

InterfaceOf(t) == Head(scCall[t].todo)
Walks(t, kinds) == scCall[t].at = "chain" /\ scCall[t].kind \in kinds

\* On to the next interface of the chain; after the last one the fetch fails.
NextOf(t) ==
    IF Len(scCall[t].todo) = 1 THEN Finish(t, "failed")
    ELSE scCall' = [scCall EXCEPT ![t].todo = Tail(@), ![t].tries = 0]

\* An interface comes back with a usable table: the chain ends.
InterfaceAnswers(t) ==
    /\ Walks(t, {"quote", "kline", "table"})
    /\ Finish(t, "rows")
    /\ IF scCall[t].kind = "quote"
       THEN /\ NoteSuccess(InterfaceOf(t))
            /\ scLast' = [scLast EXCEPT ![InterfaceOf(t)] = LastTwo(@, "ok")]
       ELSE UNCHANGED healthVars
    /\ UNCHANGED clientVars

\* It raises, runs out of its time (its thread is left behind), gives no table, an
\* empty or (index) a stale one, or one without the symbol: the next is tried.
InterfaceFails(t) ==
    /\ Walks(t, {"quote", "kline", "table"})
    /\ NextOf(t)
    /\ IF scCall[t].kind = "quote"
       THEN /\ NoteFailure(InterfaceOf(t))
            /\ scLast' = [scLast EXCEPT ![InterfaceOf(t)] = LastTwo(@, "failed")]
       ELSE UNCHANGED healthVars
    /\ UNCHANGED clientVars

\* fetch_macro: a source that fails, fails the fetch; one without the columns is
\* left out, and there must be one with them.
MacroSource(t, outcome) ==
    /\ Walks(t, {"macro"})
    /\ LET rows == scCall[t].rows + (IF outcome = "rows" THEN 1 ELSE 0)
       IN IF outcome = "error" \/ (Len(scCall[t].todo) = 1 /\ rows = 0) THEN Finish(t, "failed")
          ELSE IF Len(scCall[t].todo) = 1 THEN Finish(t, "rows")
          ELSE scCall' = [scCall EXCEPT ![t].todo = Tail(@), ![t].rows = rows]
    /\ UNCHANGED <<healthVars, clientVars>>

\* _sw_code: a table of sectors is asked for up to three times; the sector is in
\* it, and its own table is next, or the other table is looked at.
SectorTable(t, outcome) ==
    /\ Walks(t, {"sector"})
    /\ CASE outcome = "found" ->
              scCall' = [scCall EXCEPT ![t].kind = "table", ![t].todo = TableChain]
         [] outcome = "error" /\ scCall[t].tries + 1 < SectorAttempts ->
              scCall' = [scCall EXCEPT ![t].tries = @ + 1]
         [] OTHER -> NextOf(t)
    /\ UNCHANGED <<healthVars, clientVars>>

\* The 300 s of a cooldown are over; nothing changes until somebody looks.
CooldownEnds(i) ==
    /\ scHealth[i] = "cooling"
    /\ scHealth' = [scHealth EXCEPT ![i] = "over"]
    /\ UNCHANGED <<scCall, scFailures, scLast, clientVars>>

-------------------------------------------------------------------------------
(* fuyao: datasets over one session *)

\* fetch_dataset and the typed fetches ask once, fetch_indicators once per period.
StartDataset(t, kind) ==
    /\ scCall[t].at = "idle" /\ kind \in {"dataset", "periods"}
    /\ scCall' = [scCall EXCEPT ![t] = [NoCall EXCEPT !.at = "want", !.kind = kind,
                     !.todo = IF kind = "periods" THEN Chain ELSE <<1>>]]
    /\ UNCHANGED <<healthVars, clientVars>>

\* A slip: the handshake leaves the id of the lost session in place.
HandshakeKeepsId(t, link) ==
    /\ scClient' = [ready |-> TRUE, id |-> IF link = 0 THEN scClient.id ELSE link]
    /\ scKnown' = IF link = 0 THEN scKnown ELSE scKnown \cup {link}
    /\ scOpened' = IF link = 0 THEN scOpened ELSE link

\* _initialize, after the id was dropped: the server gives a session or none.
Handshake(t, link) ==
    /\ scClient' = [ready |-> TRUE, id |-> link]
    /\ scKnown' = IF link = 0 THEN scKnown ELSE scKnown \cup {link}
    /\ scOpened' = IF link = 0 THEN scOpened ELSE link

Links == {0} \cup ({scOpened + 1} \cap (1..MaxLinks))

\* _call_locked: take the lock, shake hands when there is no session, and send.
Send(t) ==
    /\ scCall[t].at = "want" /\ scHolder = Free
    /\ scHolder' = t
    /\ \/ /\ scClient.ready
          /\ scCall' = [scCall EXCEPT ![t].at = "sent", ![t].made = 0]
          /\ UNCHANGED <<scClient, scKnown, scOpened>>
       \/ /\ ~scClient.ready
          /\ \E link \in Links :
               /\ Handshake(t, link)
               /\ scCall' = [scCall EXCEPT ![t].at = "sent", ![t].made = link]
    /\ UNCHANGED healthVars

\* The server answers a call whose session it knows, or one without a session.
\* Environment: a call that carries a session is answered 400 or 404 exactly when
\* the server has forgotten that session; the client takes any such answer for it.
Known == scClient.id = 0 \/ scClient.id \in scKnown

\* The session is not known: drop it, shake hands again, send once more.
Rebuild(t) ==
    /\ scCall[t].at = "sent" /\ ~Known
    /\ \E link \in Links :
         /\ Handshake(t, link)
         /\ scCall' = [scCall EXCEPT ![t].at = "again", ![t].made = link]
    /\ UNCHANGED <<healthVars, scHolder>>

\* The retry is not answered either: the caller gets the loss as an error.
LoseAgain(t) ==
    /\ scCall[t].at = "again" /\ ~Known
    /\ Finish(t, "lost")
    /\ scHolder' = Free
    /\ UNCHANGED <<healthVars, scClient, scKnown, scOpened>>

\* The network fails: an error the caller may repeat.  A handshake that fails
\* leaves no session behind.
LinkFails(t) ==
    /\ \/ scCall[t].at \in {"sent", "again"}
       \/ scCall[t].at = "want" /\ scHolder = Free /\ ~scClient.ready
    /\ Finish(t, "failed")
    /\ scHolder' = Free
    /\ \/ UNCHANGED scClient
       \/ scCall[t].at = "sent" /\ ~Known /\ scClient' = [ready |-> FALSE, id |-> 0]
    /\ UNCHANGED <<healthVars, scKnown, scOpened>>

Answered(t) == scCall[t].at \in {"sent", "again"} /\ Known

\* What a dataset call leaves to do: the next period, or the end of the fetch.
AfterDataset(t, rows) ==
    IF Len(scCall[t].todo) = 1
    THEN Finish(t, IF rows > 0 THEN "rows" ELSE "failed")
    ELSE scCall' = [scCall EXCEPT ![t].at = "want", ![t].todo = Tail(@), ![t].rows = rows,
                                  ![t].tries = 0]

\* Rows come back; a fan-out over periods may stop at its time budget.
DatasetAnswers(t) ==
    /\ Answered(t)
    /\ scHolder' = Free
    /\ AfterDataset(t, scCall[t].rows + 1) \/ Finish(t, "rows")
    /\ UNCHANGED <<healthVars, scClient, scKnown, scOpened>>

\* Data not ready: the call is made once more, later.  No data, or an error of the
\* tool: a period is left out, a single dataset fails.  Busy: the fetch fails.
DatasetFails(t, why) ==
    /\ Answered(t)
    /\ scHolder' = Free
    /\ CASE why = "not ready" /\ scCall[t].tries + 1 < ReadinessRetryAttempts ->
              scCall' = [scCall EXCEPT ![t].at = "want", ![t].tries = @ + 1]
         [] why = "busy" -> Finish(t, "failed")
         [] OTHER -> AfterDataset(t, scCall[t].rows)
    /\ UNCHANGED <<healthVars, scClient, scKnown, scOpened>>

\* The server restarts and forgets a session.
Forget(link) ==
    /\ link \in scKnown
    /\ scKnown' = scKnown \ {link}
    /\ UNCHANGED <<scCall, healthVars, scHolder, scClient, scOpened>>

\* invalidate(): the next call shakes hands again.
Invalidate ==
    /\ scHolder = Free /\ scClient.ready
    /\ scClient' = [ready |-> FALSE, id |-> 0]
    /\ UNCHANGED <<scCall, healthVars, scHolder, scKnown, scOpened>>

\* The caller has its result; the thread serves another fetch.
Collect(t) ==
    /\ scCall[t].at \in {"rows", "failed", "lost"}
    /\ scCall' = [scCall EXCEPT ![t] = NoCall]
    /\ UNCHANGED <<healthVars, clientVars>>

\* The two adapters share no state.
ChainNext ==
    \/ \E t \in Threads :
         \/ \E k \in Kinds : StartChain(t, k)
         \/ InterfaceAnswers(t) \/ InterfaceFails(t)
         \/ \E o \in {"rows", "no column", "error"} : MacroSource(t, o)
         \/ \E o \in {"found", "missing", "error"} : SectorTable(t, o)
         \/ Collect(t)
    \/ \E i \in 1..Feeds : CooldownEnds(i)

DatasetNext ==
    \/ \E t \in Threads :
         \/ \E k \in Kinds : StartDataset(t, k)
         \/ Send(t) \/ Rebuild(t) \/ LoseAgain(t) \/ LinkFails(t) \/ DatasetAnswers(t)
         \/ \E why \in {"not ready", "no data", "busy"} : DatasetFails(t, why)
         \/ Collect(t)
    \/ \E link \in 1..MaxLinks : Forget(link)
    \/ Invalidate

-------------------------------------------------------------------------------
\* A source is turned away only for cause, whatever the threads do: an interface
\* cools down only after two failures with no success between them
\* (akshare_adapter.py:242), and a lost session reaches the caller only when the
\* server forgot the very session this call had just made (mcp_client.py:291).
RefusalsHaveCause ==
    /\ \A i \in 1..Feeds : scHealth[i] = "cooling" => scLast[i] = <<"failed", "failed">>
    /\ \A t \in Threads : scCall[t].at = "lost" => scCall[t].made # 0 /\ scCall[t].made \notin scKnown
===============================================================================
