----------------------------- MODULE BacktestPool -----------------------------
(***************************************************************************)
(* The backtest of a pool of stocks (tools/fin/backtest.py). Their tables    *)
(* are fetched at once and answer in any order; every few days the stocks    *)
(* are ranked and cut into groups. What a request may ask for is given by    *)
(* the factor language (Backtest). Of what a group earns, kept is which      *)
(* ranking earns the return of which day. The cost of a group, a fixed rate  *)
(* every day whatever it trades (line 402), performance figures, benchmark,  *)
(* IC and the report's text are left out: nothing modelled here reads them.  *)
(***************************************************************************)
EXTENDS Integers, Sequences, FiniteSets, Functions

CONSTANTS PoolAsks,      \* the requests for a pool that are accepted
          ValuationAsks, \* those of them that need a valuation of every stock
          MaxDays,       \* bound: days of the series and of the pool
          Stocks,        \* the symbols of a pool
          Scores,        \* values of a factor
          MaxStocks,     \* max_symbols
          Groups,        \* params.groups, at least 2 (backtest.py:337)
          Rebalance,     \* params.rebalance, at least 1
          NewsEvery      \* _PROGRESS_EVERY

ASSUME PoolAssumption ==
    /\ MaxDays \in Nat /\ Groups \in Nat \ {0, 1} /\ Rebalance \in Nat \ {0} /\ NewsEvery \in Nat \ {0}
    /\ IsFiniteSet(Stocks) /\ Scores \subseteq Int

VARIABLES
    bpAsk,     \* the request
    bpPhase,   \* where _cross_section is
    bpTasks,   \* Stocks -> the state of the task that fetches its table
    bpReady,   \* answers not yet taken up, in the order they came
    bpFetched, \* answers taken up
    bpColumns, \* stocks with a table, in the order taken up: the panel's columns
    bpNews,    \* progress reports of this phase
    bpDay,     \* next day the stocks are ranked
    bpRow,     \* the factor on that day, of the stocks that have one
    bpLabels,  \* the group of each of them
    bpPaid     \* day -> the day whose groups earn its return; 0: nobody does

poolVars == <<bpAsk, bpPhase, bpTasks, bpReady, bpFetched, bpColumns, bpNews,
              bpDay, bpRow, bpLabels, bpPaid>>

PoolTypeOK ==
    /\ bpPhase # "idle" => bpAsk \in PoolAsks
    /\ bpPhase \in {"idle", "panel", "valuation", "ranking", "done", "failed"}
    /\ bpTasks \in [Stocks -> {"none", "running", "done", "cancelled"}]
    /\ bpFetched \in 0..Cardinality(Stocks) /\ Range(bpColumns) \subseteq Stocks
    /\ Len(bpNews) <= Cardinality(Stocks) /\ bpDay \in 1..(MaxDays + Rebalance)
    /\ DOMAIN bpLabels = DOMAIN bpRow /\ Range(bpLabels) \subseteq 1..Groups
    /\ bpPaid \in [1..MaxDays -> 0..MaxDays]

PoolInit ==
    /\ bpAsk = <<>> /\ bpPhase = "idle" /\ bpTasks = [s \in Stocks |-> "none"]
    /\ bpReady = <<>> /\ bpFetched = 0 /\ bpColumns = <<>> /\ bpNews = <<>>
    /\ bpDay = 1 /\ bpRow = <<>> /\ bpLabels = <<>>
    /\ bpPaid = [t \in 1..MaxDays |-> 0]

Total == Cardinality({s \in Stocks : bpTasks[s] # "none"})

\* One task per stock, all at once.
CollectStocks(stocks) ==
    /\ bpTasks' = [s \in Stocks |-> IF s \in stocks THEN "running" ELSE "none"]
    /\ bpReady' = <<>> /\ bpFetched' = 0 /\ bpColumns' = <<>> /\ bpNews' = <<>>

CancelRest == bpTasks' = [s \in Stocks |-> IF bpTasks[s] = "running" THEN "cancelled" ELSE bpTasks[s]]

PoolStart ==
    /\ bpPhase = "idle"
    /\ \E ask \in PoolAsks, stocks \in SUBSET Stocks :
         /\ Cardinality(stocks) <= MaxStocks
         /\ bpAsk' = ask /\ bpPhase' = "panel" /\ CollectStocks(stocks)
    /\ UNCHANGED <<bpDay, bpRow, bpLabels, bpPaid>>

\* A task ends: with a table, without one (the source refused), or with an
\* error nobody expected.
TaskEnds ==
    /\ bpPhase \in {"panel", "valuation"}
    /\ \E s \in Stocks, how \in {"table", "nothing", "error"} :
         /\ bpTasks[s] = "running"
         /\ bpTasks' = [bpTasks EXCEPT ![s] = "done"]
         /\ bpReady' = Append(bpReady, [stock |-> s, how |-> how])
    /\ UNCHANGED <<bpAsk, bpPhase, bpFetched, bpColumns, bpNews, bpDay, bpRow, bpLabels, bpPaid>>

TakeUp ==
    /\ bpPhase \in {"panel", "valuation"} /\ bpReady # <<>> /\ Head(bpReady).how # "error"
    /\ bpReady' = Tail(bpReady) /\ bpFetched' = bpFetched + 1
    /\ bpColumns' = IF Head(bpReady).how = "table"
                    THEN Append(bpColumns, Head(bpReady).stock) ELSE bpColumns
    /\ bpNews' = IF bpFetched' % NewsEvery = 0 \/ bpFetched' = Total
                 THEN Append(bpNews, [fetched |-> bpFetched', available |-> Len(bpColumns')])
                 ELSE bpNews
    /\ UNCHANGED <<bpAsk, bpPhase, bpTasks, bpDay, bpRow, bpLabels, bpPaid>>

\* The time limit of the tool or a stop cancels it, or a task's error reaches it.
PoolFails ==
    /\ bpPhase \in {"panel", "valuation"}
    /\ bpPhase' = "failed" /\ CancelRest
    /\ UNCHANGED <<bpAsk, bpReady, bpFetched, bpColumns, bpNews, bpDay, bpRow, bpLabels, bpPaid>>

NeedsValuation == bpAsk \in ValuationAsks

\* The panel is there: values next, or the ranking; too few stocks end it, and
\* so does a value no stock has.
PoolProceeds ==
    /\ bpFetched = Total
    /\ \/ /\ bpPhase = "panel" /\ Len(bpColumns) >= Groups /\ NeedsValuation
          /\ bpPhase' = "valuation" /\ CollectStocks(Range(bpColumns))
       \/ /\ bpPhase = "panel" /\ Len(bpColumns) < Groups
          /\ bpPhase' = "failed"
          /\ UNCHANGED <<bpTasks, bpReady, bpFetched, bpColumns, bpNews>>
       \/ /\ \/ bpPhase = "panel" /\ Len(bpColumns) >= Groups /\ ~NeedsValuation
             \/ bpPhase = "valuation"
          /\ bpPhase' = IF bpColumns = <<>> THEN "failed" ELSE "ranking"
          /\ UNCHANGED <<bpTasks, bpReady, bpFetched, bpColumns, bpNews>>
    /\ UNCHANGED <<bpAsk, bpDay, bpRow, bpLabels, bpPaid>>

Pos(s) == CHOOSE i \in DOMAIN bpColumns : bpColumns[i] = s

\* rank(method="first"): equal values in the order of the columns.
RankIn(row, s) ==
    Cardinality({c \in DOMAIN row :
        row[c] < row[s] \/ (row[c] = row[s] /\ Pos(c) <= Pos(s))})

\* Labels rise with the rank: the ceiling of rank / stocks * groups.
LabelsOf(row) ==
    LET n == Cardinality(DOMAIN row)
    IN [s \in DOMAIN row |-> (RankIn(row, s) * Groups + n - 1) \div n]

\* A day of adjustment. The factor is there for some of the stocks; those that
\* have no close Rebalance days on do not count, so the last days have none.
\* With too few stocks nobody holds anything until the next day of adjustment;
\* else the groups earn what their stocks do from the day they were ranked on.
RankDay ==
    /\ bpPhase = "ranking" /\ bpDay <= MaxDays
    /\ \E row \in UNION {[known -> Scores] : known \in SUBSET Range(bpColumns)} :
         /\ bpDay + Rebalance > MaxDays => row = <<>>
         /\ bpRow' = IF Cardinality(DOMAIN row) < Groups THEN <<>> ELSE row
         /\ bpLabels' = LabelsOf(bpRow')
    /\ bpPaid' = [t \in 1..MaxDays |->
                    IF bpRow' # <<>> /\ t \in bpDay..(bpDay + Rebalance - 1)
                    THEN bpDay ELSE bpPaid[t]]
    /\ bpDay' = bpDay + Rebalance
    /\ UNCHANGED <<bpAsk, bpPhase, bpTasks, bpReady, bpFetched, bpColumns, bpNews>>

PoolEnds ==
    /\ bpPhase = "ranking" /\ bpDay > MaxDays
    /\ bpPhase' = "done"
    /\ UNCHANGED <<bpAsk, bpTasks, bpReady, bpFetched, bpColumns, bpNews, bpDay, bpRow, bpLabels,
                   bpPaid>>

PoolNext == PoolStart \/ TaskEnds \/ TakeUp \/ PoolFails \/ PoolProceeds \/ RankDay \/ PoolEnds

\* Of the stocks ranked on a day every group has some, as many as any other up
\* to one, and no stock is in a higher group than one of a higher factor.
GroupsAreFair ==
    bpRow # <<>> =>
      LET Of(g) == Cardinality({s \in DOMAIN bpRow : bpLabels[s] = g})
      IN /\ \A g, h \in 1..Groups : Of(g) > 0 /\ Of(g) <= Of(h) + 1
         /\ \A s, u \in DOMAIN bpRow : bpRow[s] < bpRow[u] => bpLabels[s] <= bpLabels[u]

\* A day's return is earned by one ranking, of that day or before it, and a ranking
\* earns every return up to the next day of adjustment and none after it. That it
\* earns the one of its own day, with whose close it was made, is what the code does
\* (line 639), where it says "forward" (lines 617-618): a group looks ahead by that day.
GroupsAreHeld ==
    \A t \in 1..MaxDays : bpPaid[t] # 0 =>
      /\ bpPaid[t] <= t /\ bpPaid[t] + Rebalance <= MaxDays
      /\ \A u \in 1..MaxDays :
           bpPaid[u] = bpPaid[t] <=> u \in bpPaid[t]..(bpPaid[t] + Rebalance - 1)

\* Once a backtest has left a collection no task of it runs on, and what it
\* told of it went up and, if it was carried through, up to the end.
CollectionsEnd ==
    /\ bpPhase \notin {"panel", "valuation"} => "running" \notin Range(bpTasks)
    /\ \A i \in DOMAIN bpNews :
         /\ bpNews[i].available <= bpNews[i].fetched
         /\ i > 1 => bpNews[i].fetched > bpNews[i - 1].fetched
    /\ bpPhase \in {"ranking", "done"} =>
         bpNews # <<>> /\ bpNews[Len(bpNews)].fetched = Total
===============================================================================
