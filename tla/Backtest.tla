------------------------------- MODULE Backtest -------------------------------
(***************************************************************************)
(* Backtests (tools/fin/backtest.py) and factor expressions                  *)
(* (factor/engine.py).                                                       *)
(*   - series: one stock, its closes day by day. A factor expression or a    *)
(*     strategy gives a position for every day, the position of a day earns  *)
(*     the return of the next one.                                           *)
(*   - pool: many stocks, fetched, ranked and cut into groups: BacktestPool, *)
(*     with the requests it may be asked for defined here.                   *)
(* A price is a small number or Missing. Of the operators one of each way to *)
(* read the rows is kept: a shift, a difference, windows, a rank, elementwise *)
(* ones. Performance figures, benchmark, IC and the report's text are left   *)
(* out: they read what is modelled here and change nothing.                  *)
(***************************************************************************)
EXTENDS Integers, Sequences, FiniteSets, SequencesExt, BacktestPool

CONSTANTS MinRows,    \* fewest rows of a backtest (60 in the code)
          MaxDepth,   \* MAX_DEPTH
          MaxWindow,  \* MAX_WINDOW
          MaxTrials,  \* MAX_TRIALS
          Missing     \* NaN

ASSUME BacktestAssumption == MaxDays >= MinRows /\ MinRows > 0

-------------------------------------------------------------------------------
(* Expressions: trees of constants, variables, operators and calls *)

Const(n) == [kind |-> "const", num |-> n]
Var(name) == [kind |-> "name", name |-> name]
Neg(a) == [kind |-> "unary", args |-> <<a>>]
Bin(op, a, b) == [kind |-> "binop", fun |-> op, args |-> <<a, b>>]
Gt(a, b) == [kind |-> "compare", args |-> <<a, b>>]
Both(a, b) == [kind |-> "and", args |-> <<a, b>>]
Call(f, args) == [kind |-> "call", fun |-> f, args |-> args]
Attribute == [kind |-> "attribute"]   \* stands for every other syntax

Shifts == {"ts_delay", "ts_delta"}
Windows == {"ts_sum", "ts_max", "ts_rank"}
TsOps == Shifts \cup Windows
CsOps == {"rank"}
EwOps == {"sign", "where"}
Arity == [f \in TsOps \cup CsOps \cup EwOps |->
            IF f \in TsOps THEN 2 ELSE IF f = "where" THEN 3 ELSE 1]

MarketVariables == {"close"}
ValuationVariables == {"pe"}

RECURSIVE FunctionsOf(_), VariablesOf(_), Accepted(_, _), Sound(_, _), Eval(_, _, _)

Args(node) == IF node.kind \in {"const", "name", "attribute"} THEN <<>> ELSE node.args

\* What describe() finds in an expression.
FunctionsOf(node) ==
    (IF node.kind = "call" THEN {node.fun} ELSE {})
        \cup UNION {FunctionsOf(a) : a \in Range(Args(node))}
VariablesOf(node) ==
    (IF node.kind = "name" THEN {node.name} ELSE {})
        \cup UNION {VariablesOf(a) : a \in Range(Args(node))}

Accepted(node, depth) ==
    /\ depth <= MaxDepth
    /\ node.kind # "attribute"
    /\ node.kind = "binop" => node.fun \in {"-", "*"}
    /\ node.kind = "call" => node.fun \in DOMAIN Arity
    /\ \A a \in Range(Args(node)) : Accepted(a, depth + 1)

\* A value is kept as its rows, a number as the same number in every row.
IsNumber(node) == VariablesOf(node) = {} /\ FunctionsOf(node) = {}

Minus(a, b) == [t \in DOMAIN a |-> IF Missing \in {a[t], b[t]} THEN Missing ELSE a[t] - b[t]]
Times(a, b) == [t \in DOMAIN a |-> IF Missing \in {a[t], b[t]} THEN Missing ELSE a[t] * b[t]]
Shifted(rows, by) ==
    [t \in DOMAIN rows |-> IF t - by \in DOMAIN rows THEN rows[t - by] ELSE Missing]
SumOf(w) == FoldSeq(+, 0, w)
MaxOf(w) == CHOOSE m \in Range(w) : \A v \in Range(w) : v <= m
RankOf(w) == Cardinality({i \in DOMAIN w : w[i] <= w[Len(w)]})  \* of Len(w)
SignOf(v) == IF v > 0 THEN 1 ELSE IF v < 0 THEN -1 ELSE 0
AsOne(b) == IF b THEN 1 ELSE 0
Holds(v) == v = Missing \/ v # 0      \* astype(bool): NaN is true

Rolled(f, rows, window) ==
    LET Latest(t) == SubSeq(rows, t - window + 1, t)
    IN [t \in DOMAIN rows |->
          IF t < window \/ \E u \in (t - window + 1)..t : rows[u] = Missing THEN Missing
          ELSE CASE f = "ts_sum" -> SumOf(Latest(t))
                 [] f = "ts_max" -> MaxOf(Latest(t))
                 [] f = "ts_rank" -> RankOf(Latest(t))]

TsCall(f, rows, window) ==
    CASE f = "ts_delay" -> Shifted(rows, window)
      [] f = "ts_delta" -> Minus(rows, Shifted(rows, window))
      [] f \in Windows -> Rolled(f, rows, window)

Eval(node, env, days) ==
    LET Arg(i) == Eval(node.args[i], env, days)
    IN CASE node.kind = "const" -> [t \in 1..days |-> node.num]
         [] node.kind = "name" -> env[node.name]
         [] node.kind = "unary" -> Minus([t \in 1..days |-> 0], Arg(1))
         [] node.kind = "binop" /\ node.fun = "-" -> Minus(Arg(1), Arg(2))
         [] node.kind = "binop" /\ node.fun = "*" -> Times(Arg(1), Arg(2))
         [] node.kind = "compare" ->
              [t \in 1..days |-> AsOne(/\ Missing \notin {Arg(1)[t], Arg(2)[t]}
                                       /\ Arg(1)[t] > Arg(2)[t])]
         [] node.kind = "and" ->
              [t \in 1..days |-> AsOne(Holds(Arg(1)[t]) /\ Holds(Arg(2)[t]))]
         [] node.kind = "call" /\ node.fun \in TsOps -> TsCall(node.fun, Arg(1), Arg(2)[1])
         [] node.kind = "call" /\ node.fun = "rank" ->   \* of one stock: the first of one
              [t \in 1..days |-> IF Arg(1)[t] = Missing THEN Missing ELSE 1]
         [] node.kind = "call" /\ node.fun = "sign" ->
              [t \in 1..days |-> IF Arg(1)[t] = Missing THEN Missing ELSE SignOf(Arg(1)[t])]
         [] node.kind = "call" /\ node.fun = "where" ->
              [t \in 1..days |-> IF Holds(Arg(1)[t]) THEN Arg(2)[t] ELSE Arg(3)[t]]

\* The errors of _eval and _call, and those of pandas on truth values; every
\* one of them ends the tool call.
IsTruth(node) == node.kind \in {"compare", "and"}

Sound(node, env) ==
    /\ node.kind = "name" => node.name \in DOMAIN env
    /\ node.kind = "unary" \/ (node.kind = "call" /\ node.fun = "sign") =>
         \A a \in Range(node.args) : ~IsTruth(a)
    /\ node.kind = "binop" /\ node.fun = "-" => \E a \in Range(node.args) : ~IsTruth(a)
    /\ node.kind = "and" => \A a \in Range(node.args) : ~IsNumber(a)
    /\ node.kind = "call" =>
         /\ Len(node.args) = Arity[node.fun]
         /\ \E a \in Range(node.args) : ~IsNumber(a)
         /\ node.fun \in TsOps \cup CsOps => ~IsNumber(node.args[1])
         /\ node.fun \in TsOps =>
              IsNumber(node.args[2]) /\ Eval(node.args[2], env, 1)[1] \in 1..MaxWindow
    /\ \A a \in Range(Args(node)) : Sound(a, env)

-------------------------------------------------------------------------------
(* What is asked *)

Close == Var("close")
Rise == Call("ts_delta", <<Close, Const(1)>>)
Expressions == {Const(1), Rise, Attribute, Var("roe"),
    Gt(Close, Call("ts_delay", <<Close, Const(2)>>)),
    Call("ts_delay", <<Close, Neg(Const(1))>>), Call("ts_sum", <<Close, Close>>),
    Call("ts_sum", <<Close>>), Both(Rise, Gt(Close, Const(1))), Both(Const(1), Rise),
    Bin("-", Call("ts_max", <<Rise, Const(2)>>), Call("ts_rank", <<Close, Const(2)>>)),
    Call("where", <<Rise, Neg(Call("sign", <<Rise>>)), Bin("*", Close, Const(0))>>),
    Call("rank", <<Close>>), Call("rank", <<Neg(Var("pe"))>>),
    Call("exec", <<Close>>), Neg(Neg(Neg(Neg(Rise))))}

\* Defaults of _dispatch, the absent arguments "none"; the ratio in tenths.
Base == [symbol |-> TRUE, pool |-> FALSE, expr |-> <<>>, strategy |-> "none",
         first |-> 1, second |-> 2, signal |-> "long_only", ratio |-> 7, trials |-> 1]

Requests ==
    {[Base EXCEPT !.expr = <<e>>, !.signal = s] : e \in Expressions, s \in {"long_only", "long_short"}}
      \cup {[Base EXCEPT !.strategy = "ma", !.first = f] : f \in 1..2}
      \cup {[Base EXCEPT !.strategy = "momentum", !.first = w, !.second = h] :
              w \in {-1, 1, 2}, h \in 1..2}
      \cup {[Base EXCEPT !.symbol = FALSE, !.pool = TRUE, !.expr = <<e>>] : e \in Expressions}
      \cup {Base, [Base EXCEPT !.strategy = "grid"], [Base EXCEPT !.pool = TRUE],
            [Base EXCEPT !.symbol = FALSE, !.strategy = "ma"],
            [Base EXCEPT !.strategy = "ma", !.ratio = 10],
            [Base EXCEPT !.strategy = "ma", !.trials = MaxTrials + 1]}

Dispatched(ask) ==
    /\ ask.trials <= MaxTrials
    /\ ask.ratio \in 1..9
    /\ ask.symbol # ask.pool
    /\ ask.expr # <<>> \/ ask.strategy # "none"

-------------------------------------------------------------------------------
(* One stock *)

VARIABLES
    bsRows,  \* closes of the stock up to today
    bsSaid   \* what the backtest run today says

seriesVars == <<bsRows, bsSaid>>

Unsaid == [ask |-> Base, ok |-> FALSE, held |-> <<>>, turnover |-> <<>>, split |-> 0]

SeriesTypeOK ==
    /\ bsRows \in Seq({1, 2, Missing}) /\ Len(bsRows) <= MaxDays
    /\ bsSaid.ask \in Requests /\ bsSaid.ok \in BOOLEAN
    /\ bsSaid.ok => Len(bsSaid.held) = Len(bsRows) /\ Len(bsSaid.turnover) = Len(bsRows)
    /\ bsSaid.split \in 0..Len(bsRows)

SeriesInit == bsRows = <<>> /\ bsSaid = Unsaid

Env(rows) == [close |-> rows]

Runs(ask, rows) ==
    /\ Dispatched(ask) /\ ask.symbol
    /\ Len(rows) >= MinRows
    /\ IF ask.expr # <<>>
       THEN /\ Accepted(ask.expr[1], 0) /\ Sound(ask.expr[1], Env(rows))
            /\ ask.signal = "long_short" => ~IsTruth(ask.expr[1])
       ELSE \/ ask.strategy = "ma" /\ ask.first < ask.second
            \/ ask.strategy = "momentum"

SignalFromFactor(factor, signal) ==
    [t \in DOMAIN factor |->
        IF factor[t] = Missing THEN 0
        ELSE IF signal = "long_short" THEN SignOf(factor[t]) ELSE AsOne(factor[t] > 0)]

\* The mean of the last first days above that of the last second ones.
AboveSlow(rows, fast, slow) ==
    LET quick == Rolled("ts_sum", rows, fast)
        calm == Rolled("ts_sum", rows, slow)
    IN [t \in DOMAIN rows |-> AsOne(/\ Missing \notin {quick[t], calm[t]}
                                    /\ quick[t] * slow > calm[t] * fast)]

Momentum(rows, window, holding) ==
    LET before == Shifted(rows, window)
        up == [t \in DOMAIN rows |-> AsOne(/\ Missing \notin {rows[t], before[t]}
                                           /\ rows[t] > before[t])]
        kept == Rolled("ts_max", up, holding)
    IN [t \in DOMAIN rows |-> IF kept[t] = Missing THEN 0 ELSE kept[t]]

Position(ask, rows) ==
    IF ask.expr # <<>>
    THEN SignalFromFactor(Eval(ask.expr[1], Env(rows), Len(rows)), ask.signal)
    ELSE IF ask.strategy = "ma" THEN AboveSlow(rows, ask.first, ask.second)
    ELSE Momentum(rows, ask.first, ask.second)

\* A slip: the position of a day earns the return of that day.
HeldSameDay(position) == position

\* Held while the return of a day is earned: the position of the day before.
HeldOn(position) == [t \in DOMAIN position |-> IF t = 1 THEN 0 ELSE position[t - 1]]

AbsOf(v) == IF v < 0 THEN -v ELSE v
Turnover(position) ==
    [t \in DOMAIN position |->
        AbsOf(IF t = 1 THEN position[1] ELSE position[t] - position[t - 1])]

SplitAt(days, ratio) == (days * ratio) \div 10

SingleSeries(ask, rows) ==
    LET position == Position(ask, rows)
    IN [ask |-> ask, ok |-> TRUE, held |-> HeldOn(position), turnover |-> Turnover(position),
        split |-> SplitAt(Len(rows), ask.ratio)]

Trade ==
    /\ Len(bsRows) < MaxDays
    /\ \E price \in {1, 2, Missing} : bsRows' = Append(bsRows, price)
    /\ bsSaid' = Unsaid

RunSeries ==
    /\ ~bsSaid.ok
    /\ \E ask \in Requests :
         /\ Runs(ask, bsRows)
         /\ bsSaid' = SingleSeries(ask, bsRows)
    /\ UNCHANGED bsRows

SeriesNext == Trade \/ RunSeries

\* The window of a momentum strategy is taken as it comes; below zero it
\* compares with days to come.
LooksAhead(ask) == ask.expr = <<>> /\ ask.strategy = "momentum" /\ ask.first < 0

\* What earns a day's return is the position with which a backtest over the
\* days before it would have ended, and every change of it has been charged.
NoHindsight ==
    bsSaid.ok =>
      /\ ~LooksAhead(bsSaid.ask) =>
           \A t \in DOMAIN bsRows : bsSaid.held[t] =
              IF t = 1 THEN 0 ELSE Position(bsSaid.ask, SubSeq(bsRows, 1, t - 1))[t - 1]
      /\ \A t \in 2..Len(bsRows) :
           AbsOf(bsSaid.held[t] - bsSaid.held[t - 1]) = bsSaid.turnover[t - 1]

-------------------------------------------------------------------------------
(* Many stocks: which requests are accepted; the rest is in BacktestPool *)

\* Checked before anything is fetched.
PoolAccepted(ask) ==
    /\ Dispatched(ask) /\ ask.pool /\ ask.expr # <<>>
    /\ Accepted(ask.expr[1], 0)
    /\ FunctionsOf(ask.expr[1]) \cap CsOps # {}
    /\ VariablesOf(ask.expr[1]) \subseteq MarketVariables \cup ValuationVariables

UsesValuation(ask) == VariablesOf(ask.expr[1]) \cap ValuationVariables # {}

\* A backtest tells what it did. Of one stock: no return is earned by a position that
\* looked ahead, but for a momentum window below zero (NoHindsight), and no change is
\* free of cost. Of a pool: groups are cut evenly along the factor, from tables nobody
\* still fetches, and held from one adjustment to the next; they do earn the return of
\* the very day they are ranked on (GroupsAreHeld), and nothing is said of their cost.
BacktestIsHonest == NoHindsight /\ GroupsAreFair /\ GroupsAreHeld /\ CollectionsEnd
===============================================================================
