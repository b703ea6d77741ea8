----------------------------- MODULE ResultBudget ------------------------------
(***************************************************************************)
(* How the result of a tool becomes the text the model reads: the tool       *)
(* renders it within a budget (tools/base.py), the loop cuts what is still   *)
(* too long and encodes it (engine/loop.py), both with the budget of         *)
(* shared/budget.py. Text is a sequence of pieces with a size in tokens; a   *)
(* cell of a table is one piece, and so is a fence around quoted text        *)
(* (shared/fencing.py), a note or a word. Wording and markdown are left out. *)
(***************************************************************************)
EXTENDS Integers, Sequences, FiniteSets, SequencesExt

CONSTANTS Budgets,     \* token budgets an operator or a tool may set, 0: none
          Default,     \* context.max_result_tokens
          TrimRows,    \* context.trim_rows
          ColumnCap,   \* MAX_RENDER_COLS
          GroupRows,   \* per_group_rows, of a stacked table
          Stretch,     \* FULL_DETAIL_MULTIPLIER
          MaxTableRows \* bound: rows of a table, or of a group of it

ASSUME BudgetAssumption ==
    Default \in Nat \ {0} /\ Stretch \in Nat \ {0, 1} /\ TrimRows > 0 /\ ColumnCap > 0 /\ GroupRows > 0

\* a and b: the row and column of a cell, how many of them a note says are left out.
Piece(kind, size, a, b) == [kind |-> kind, size |-> size, a |-> a, b |-> b]
Word == Piece("word", 1, 0, 0)
Open == Piece("open", 2, 0, 0)
CloseTag == Piece("close", 2, 0, 0)
Marker == Piece("marker", 2, 0, 0)
Provenance == Piece("stale", 1, 0, 0)
NoData == <<Piece("nodata", 1, 0, 0)>>
NoteOf(rows, cols) ==
    IF rows = 0 /\ cols = 0 THEN <<>> ELSE <<Piece("note", 2, rows, cols)>>

Size(text) == FoldLeft(LAMBDA n, p : n + p.size, 0, text)
Count(text, kind) == Cardinality({i \in DOMAIN text : text[i].kind = kind})

-------------------------------------------------------------------------------
(* What a tool returns *)

\* A table has groups of rows, one if it is not stacked, and columns, true for those of an
\* annual report.  A text is what it is, its fences in pairs.
Tables ==
    [kind : {"table", "stacked"}, groups : {<<n>> : n \in 0..MaxTableRows}
        \cup {<<n, m>> : n, m \in 1..MaxTableRows},
     columns : {<<FALSE>>, <<FALSE, TRUE>>, <<FALSE, FALSE, TRUE>>, <<FALSE, FALSE>>}]
Texts ==
    {[kind |-> "text", body |-> b] : b \in {<<>>, <<Word>>,
        <<Open, Word, Word, CloseTag>>, <<Word, Open, Word, CloseTag, Open, Word, CloseTag>>,
        <<Word, Word, Word, Word, Word, Word>>}}

Requested ==
    [what : Texts \cup Tables, full : BOOLEAN, cached : BOOLEAN,
     override : {0} \cup Budgets, declared : {0} \cup Budgets]

\* Override, declaration, default; stretched once for detail="full".
BaseBudget(call) ==
    IF call.override # 0 THEN call.override
    ELSE IF call.declared # 0 THEN call.declared ELSE Default
BudgetOf(call) == BaseBudget(call) * (IF call.full THEN Stretch ELSE 1)

RowsAllowed(call) == TrimRows * (IF call.full THEN Stretch ELSE 1)
ColumnsAllowed(call) == ColumnCap * (IF call.full THEN Stretch ELSE 1)

LeastOf(a, b) == IF a < b THEN a ELSE b
RowCount(groups) == FoldLeft(+, 0, groups)

\* Annual columns first, each kind in its order.
DisplayOrder(columns) ==
    LET all == [i \in DOMAIN columns |-> i]
    IN SelectSeq(all, LAMBDA i : columns[i]) \o SelectSeq(all, LAMBDA i : ~columns[i])

\* Group g of a table with its first rows, in the first n columns shown: a header
\* and the cells.
Body(rowsOf, columns, n) ==
    LET shown == SubSeq(DisplayOrder(columns), 1, n)
        Row(g) == [c \in 1..n |-> Piece("cell", 1, g, shown[c])]
        Rows(g) == FlattenSeq([r \in 1..rowsOf[g] |-> Row(g)])
    IN [c \in 1..n |-> Piece("head", 1, 0, shown[c])]
         \o FlattenSeq([g \in DOMAIN rowsOf |-> Rows(g)])

\* The most columns that fit, one in any case.
ColumnsThatFit(rowsOf, columns, most, budget) ==
    CHOOSE n \in 1..most :
        /\ n = 1 \/ Size(Body(rowsOf, columns, n)) <= budget
        /\ \A k \in (n + 1)..most : Size(Body(rowsOf, columns, k)) > budget

\* trim_dataframe: the first rows, whatever group they are of, then fewer columns.
FirstRows(groups, most) ==
    [g \in DOMAIN groups |->
        LET before == RowCount(SubSeq(groups, 1, g - 1))
        IN IF before >= most THEN 0 ELSE LeastOf(groups[g], most - before)]

TrimTable(call) ==
    LET t == call.what
        rows == FirstRows(t.groups, RowsAllowed(call))
        n == ColumnsThatFit(rows, t.columns, LeastOf(Len(t.columns), ColumnsAllowed(call)),
                            BudgetOf(call))
    IN IF RowCount(t.groups) = 0 THEN NoData
       ELSE Body(rows, t.columns, n)
              \o NoteOf(RowCount(t.groups) - RowCount(rows), Len(t.columns) - n)

Heads(groups, rows) == [g \in DOMAIN groups |-> LeastOf(groups[g], rows)]

\* trim_dataframe_grouped: as many rows of every group as fit with all columns; if
\* not even one does, one of each and fewer columns.
TrimGrouped(call) ==
    LET t == call.what
        most == LeastOf(Len(t.columns), ColumnsAllowed(call))
        fits == {r \in 1..GroupRows :
                   Size(Body(Heads(t.groups, r), t.columns, most)) <= BudgetOf(call)}
        rows == IF fits = {} THEN 1 ELSE CHOOSE r \in fits : \A q \in fits : q <= r
        n == IF fits # {} THEN most
             ELSE ColumnsThatFit(Heads(t.groups, 1), t.columns, most, BudgetOf(call))
    IN IF RowCount(t.groups) = 0 THEN NoData
       ELSE Body(Heads(t.groups, rows), t.columns, n)
              \o NoteOf(RowCount(t.groups) - RowCount(Heads(t.groups, rows)), Len(t.columns) - n)

\* The macro tool puts a line with the latest value of every group above the table.
LatestOf(call) ==
    IF RowCount(call.what.groups) = 0 THEN <<>> ELSE [g \in DOMAIN call.what.groups |-> Word]

Rendered(call) ==
    CASE call.what.kind = "text" -> IF call.what.body = <<>> THEN NoData ELSE call.what.body
      [] call.what.kind = "table" -> TrimTable(call)
      [] call.what.kind = "stacked" -> LatestOf(call) \o TrimGrouped(call)

WithProvenance(call, text) == IF call.cached THEN <<Provenance>> \o text ELSE text

-------------------------------------------------------------------------------
(* What the loop makes of it *)

\* _fit_prefix: the longest prefix within the budget.
FitPrefix(text, budget) ==
    LET fits == {n \in 0..Len(text) : n = 0 \/ Size(SubSeq(text, 1, n)) <= budget}
    IN SubSeq(text, 1, CHOOSE n \in fits : \A m \in fits : m <= n)

CloseDangled(prefix) ==
    prefix \o [i \in 1..(Count(prefix, "open") - Count(prefix, "close")) |-> CloseTag]

\* Three times at most: cut, close, and if the closing went beyond the limit cut
\* that much more.
CutWithin(text, limit) ==
    LET Cut[round \in 1..3, budget \in Int] ==
          LET prefix == FitPrefix(text, budget)
              over == Size(CloseDangled(prefix)) - limit
          IN IF over <= 0 \/ round = 3 THEN prefix ELSE Cut[round + 1, budget - over - 1]
    IN CloseDangled(Cut[1, limit])

Truncate(text, limit) ==
    IF Size(text) <= limit THEN text
    ELSE IF Marker.size >= limit THEN CutWithin(text, limit)
    ELSE Append(CutWithin(text, limit), Marker)

\* A slip, once in the code: the loop does not know of detail="full".
BudgetUnstretched(call) == BaseBudget(call)

\* _result_budget reads detail from the arguments of the call.
LoopBudget(call) == BudgetOf(call)

-------------------------------------------------------------------------------

VARIABLES
    bgCall,  \* the call
    bgAt,    \* idle, called, rendered, encoded, or refused
    bgText   \* rendered, then encoded, text of its result

budgetVars == <<bgCall, bgAt, bgText>>

FirstCall == [what |-> [kind |-> "text", body |-> <<>>], full |-> FALSE, cached |-> FALSE,
              override |-> 0, declared |-> 0]

BudgetTypeOK ==
    /\ bgCall \in Requested
    /\ bgAt \in {"idle", "called", "rendered", "encoded", "refused"}
    /\ \A i \in DOMAIN bgText : bgText[i].size \in 1..2

BudgetInit == bgCall = FirstCall /\ bgAt = "idle" /\ bgText = <<>>

CallTool ==
    /\ bgAt = "idle" /\ bgAt' = "called"
    /\ bgCall' \in {c \in Requested : c.override = 0 \/ c.declared = 0 \/ ~c.cached}
    /\ UNCHANGED bgText

\* run: arguments refused, the data unavailable, or an error in the tool or in its
\* rendering end it with an error and no content.
ToolRefuses ==
    /\ bgAt = "called" /\ bgAt' = "refused"
    /\ UNCHANGED <<bgCall, bgText>>

ToolRenders ==
    /\ bgAt = "called" /\ bgAt' = "rendered"
    /\ bgText' = WithProvenance(bgCall, Rendered(bgCall))
    /\ UNCHANGED bgCall

Encode ==
    /\ bgAt = "rendered" /\ bgAt' = "encoded"
    /\ bgText' = Truncate(bgText, LoopBudget(bgCall))
    /\ UNCHANGED bgCall

BudgetNext == CallTool \/ ToolRefuses \/ ToolRenders \/ Encode

-------------------------------------------------------------------------------
Shows(kind) == Count(bgText, kind) > 0

\* What is left out of a table is told, by the note with its exact numbers or, where
\* the loop has cut the note, by the marker, if the budget has room for a marker.
NothingIsLeftOutSilently ==
    bgAt = "encoded" /\ bgCall.what.kind # "text" /\ RowCount(bgCall.what.groups) > 0 =>
      LET cells == RowCount(bgCall.what.groups) * Len(bgCall.what.columns)
          columns == {bgText[i].b : i \in {j \in DOMAIN bgText : bgText[j].kind = "cell"}}
          told == {i \in DOMAIN bgText : bgText[i].kind = "note"}
      IN \/ Count(bgText, "cell") = cells
         \/ Shows("marker") \/ Marker.size >= LoopBudget(bgCall)
         \/ \E i \in told :
              /\ Len(bgCall.what.columns) - bgText[i].b = Cardinality(columns)
              /\ Count(bgText, "cell")
                   = (RowCount(bgCall.what.groups) - bgText[i].a) * Cardinality(columns)

\* What a tool has rendered within its budget the loop does not cut again: only what
\* has been added to the table may go, and with it nothing of the table is lost.
BudgetsAgree ==
    bgAt = "encoded" /\ bgCall.what.kind # "text" =>
      LET text == WithProvenance(bgCall, Rendered(bgCall))
      IN Size(text) <= BudgetOf(bgCall) => bgText = text

\* A stacked table shows some of every group, a table no plain column in place of
\* an annual one.
EveryGroupIsShown ==
    bgAt = "rendered" /\ bgCall.what.kind # "text" =>
      /\ bgCall.what.kind = "stacked" => \A g \in DOMAIN bgCall.what.groups :
            bgCall.what.groups[g] > 0 =>
              \E i \in DOMAIN bgText : bgText[i].kind = "cell" /\ bgText[i].a = g
      /\ \A i \in DOMAIN bgText : \A c \in DOMAIN bgCall.what.columns :
            bgText[i].kind = "cell" /\ ~bgCall.what.columns[bgText[i].b] /\ bgCall.what.columns[c]
              => \E j \in DOMAIN bgText : bgText[j].kind = "cell" /\ bgText[j].b = c

\* Quoted text stays inside its fence, and the text within the budget but for the marker.
CutIsClean ==
    bgAt = "encoded" =>
      /\ Count(bgText, "open") = Count(bgText, "close")
      /\ Size(bgText) <= LoopBudget(bgCall) + (IF Shows("marker") THEN Marker.size ELSE 0)

\* The model is never misled about the extent of a result.
ResultsTellTheirExtent ==
    NothingIsLeftOutSilently /\ BudgetsAgree /\ EveryGroupIsShown /\ CutIsClean
===============================================================================
