----------------------------- MODULE ToolLedger -----------------------------
(***************************************************************************)
(* What the agent loop promises about the effects of tool calls, whatever  *)
(* crashes, cancellations, stops and resumes happen on the way:            *)
(*   - a call has an effect only once it is on record as in flight;        *)
(*   - a call that needs consent has one effect per approval, or runs      *)
(*     under a standing grant of its category;                             *)
(*   - a call that writes has at most one effect nobody approved;          *)
(*   - a call that is closed never has an effect again.                    *)
(* An abandoned call is one whose result is already on record as cancelled *)
(* while its coroutine is still alive: its one effect may still come.      *)
(***************************************************************************)
EXTENDS Naturals

CONSTANTS Calls, Reads, Gate

VARIABLES
  entry,        \* what is on record of each call
  execs,        \* effects of each call
  blind,        \* those of them without an approval of their own
  unspent,      \* calls with an approval that no effect has used
  granted       \* categories with a standing grant

ledger == <<entry, execs, blind, unspent, granted>>

Entries == {"new", "open", "inflight", "abandoned", "closed"}

Init ==
  /\ entry = [c \in Calls |-> "new"]
  /\ execs = [c \in Calls |-> 0]
  /\ blind = [c \in Calls |-> 0]
  /\ unspent = {}
  /\ granted = {}

\* What a step may make of one entry without any effect; closed is final.
Moves == {<<"new", "open">>, <<"open", "inflight">>, <<"open", "closed">>,
          <<"open", "abandoned">>, <<"inflight", "open">>, <<"inflight", "closed">>,
          <<"inflight", "abandoned">>, <<"abandoned", "closed">>}

Record ==
  /\ entry' \in [Calls -> Entries]
  /\ \A c \in Calls : entry'[c] = entry[c] \/ <<entry[c], entry'[c]>> \in Moves
  /\ unspent' \subseteq unspent
  /\ granted' \subseteq granted
  /\ UNCHANGED <<execs, blind>>

\* Only calls whose outcome is still open can be approved, in one answer, which
\* may also grant their category.
Approve(ids, grants) ==
  /\ \A c \in ids : entry[c] \in {"open", "inflight"}
  /\ entry' = [c \in Calls |-> IF c \in ids THEN "open" ELSE entry[c]]
  /\ unspent' = unspent \cup ids
  /\ granted' = granted \cup grants
  /\ UNCHANGED <<execs, blind>>

PerformApproved(c) ==
  /\ entry[c] \in {"inflight", "abandoned"}
  /\ c \in unspent
  /\ unspent' = unspent \ {c}
  /\ execs' = [execs EXCEPT ![c] = @ + 1]
  /\ UNCHANGED <<entry, blind, granted>>

PerformBlind(c) ==
  /\ entry[c] \in {"inflight", "abandoned"}
  /\ Gate[c] = "allow" \/ Gate[c] \in granted
  /\ c \in Reads \/ blind[c] = 0
  /\ blind' = [blind EXCEPT ![c] = @ + 1]
  /\ execs' = [execs EXCEPT ![c] = @ + 1]
  /\ UNCHANGED <<entry, unspent, granted>>

Next ==
  \/ Record
  \/ \E ids \in SUBSET Calls :
        Approve(ids, {}) \/ \E c \in ids : Approve(ids, {Gate[c]})
  \/ \E c \in Calls : PerformApproved(c) \/ PerformBlind(c)

Spec == Init /\ [][Next]_ledger

=============================================================================
