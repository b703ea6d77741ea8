------------------------------- MODULE ToolCalls -------------------------------
(***************************************************************************)
(* What decides over a tool call, beside the batch AgentRun models.         *)
(*   - The shelf (tools/registry.py): which tools are offered to the model;  *)
(*     lazy ones are activated by a search or by their use, and the oldest   *)
(*     go back when there are too many.                                      *)
(*   - The repeat guard (engine/loop.py): calls are counted by tool and      *)
(*     arguments; a repeated one is answered from memory, then the run ends. *)
(*   - Consent (permissions/gate.py): what the user allowed for the session  *)
(*     lives in the gate of a loop, what he allowed for the conversation in  *)
(*     a set that loops share and a bounded map forgets.                     *)
(* Schemas, descriptions, scores of a search and texts are left out.         *)
(***************************************************************************)
EXTENDS Naturals, Sequences, FiniteSets, SequencesExt

CONSTANTS Residents,      \* tools that are always offered
          Lazies,         \* tools activated on demand, Spawn among them
          Spawn,          \* spawn_agent
          Companions,     \* _SPAWN_COMPANIONS: they bring spawn_agent along
          ShelfCaps,      \* values of tools.max_active, 0: no bound
          MaxActivations, \* bound: activations in a session
          GuardCalls,     \* calls of a run
          Prints,         \* fingerprints: tool and arguments
          RepeatLimit,    \* max_identical_tool_calls
          Loops,          \* agent loops, one per session
          Talks,          \* conversations
          MaxTalks        \* capacity of the map of confirmed categories

ASSUME ToolCallsAssumption ==
    /\ Spawn \in Lazies /\ Companions \subseteq Lazies \ {Spawn}
    /\ Residents \cap Lazies = {} /\ IsFiniteSet(Residents) /\ ShelfCaps \subseteq Nat
    /\ RepeatLimit \in Nat \ {0, 1}

-------------------------------------------------------------------------------
(* The shelf *)

VARIABLES
    shCap,     \* tools.max_active
    shActive,  \* _active
    shOrder,   \* _order: the tools in the list, and which activation put them there
    shLog      \* the lazy tools as they were activated, the newest last

shelfVars == <<shCap, shActive, shOrder, shLog>>

ShelfTypeOK ==
    /\ shCap \in ShelfCaps /\ shActive \subseteq Residents \cup Lazies
    /\ DOMAIN shOrder \subseteq Residents \cup Lazies
    /\ \A n \in DOMAIN shOrder : shOrder[n] \in 0..Len(shLog)
    /\ shLog \in Seq(Lazies) /\ Len(shLog) <= MaxActivations + 1

\* Before the first activation the list holds the residents, in no order.
ShelfInit ==
    /\ shCap \in ShelfCaps
    /\ shActive = Residents /\ shOrder = [n \in Residents |-> 0] /\ shLog = <<>>

Shelf == [active |-> shActive, order |-> shOrder, log |-> shLog]

\* A slip: the newest lazy tools go first.
DemoteNewest(shelf) ==
    LET over == Cardinality(shelf.active) - shCap
        lazy == Lazies \cap DOMAIN shelf.order \cap shelf.active
        gone == {n \in lazy : Cardinality({m \in lazy : shelf.order[m] >= shelf.order[n]}) <= over}
    IN IF shCap = 0 \/ over <= 0 THEN shelf
       ELSE [active |-> shelf.active \ gone, log |-> shelf.log,
             order |-> Restrict(shelf.order, DOMAIN shelf.order \ gone)]

\* _demote_beyond_cap: the lazy tools go back, those activated first before the
\* others, until the bound holds or only residents are left.
Demote(shelf) ==
    LET over == Cardinality(shelf.active) - shCap
        lazy == Lazies \cap DOMAIN shelf.order \cap shelf.active
        gone == {n \in lazy : Cardinality({m \in lazy : shelf.order[m] <= shelf.order[n]}) <= over}
    IN IF shCap = 0 \/ over <= 0 THEN shelf
       ELSE [active |-> shelf.active \ gone, log |-> shelf.log,
             order |-> Restrict(shelf.order, DOMAIN shelf.order \ gone)]

\* One tool is put on the shelf, unless it is there.
Shelve(shelf, n) ==
    IF n \in shelf.active THEN shelf
    ELSE LET log == Append(shelf.log, n)
         IN Demote([active |-> shelf.active \cup {n},
                    order |-> [m \in DOMAIN shelf.order \cup {n} |->
                                 IF m = n THEN Len(log) ELSE shelf.order[m]],
                    log |-> log])

\* activate: a companion brings spawn_agent along, also when it is there itself.
Activated(shelf, n) ==
    IF n \in Companions THEN Shelve(Shelve(shelf, n), Spawn) ELSE Shelve(shelf, n)

\* A hit of search_tools, the first use of a lazy tool, or the engine's own wish for
\* a fan-out.
Activate(n) ==
    /\ Len(shLog) < MaxActivations
    /\ shActive' = Activated(Shelf, n).active
    /\ shOrder' = Activated(Shelf, n).order
    /\ shLog' = Activated(Shelf, n).log
    /\ UNCHANGED shCap

ShelfNext == \E n \in Residents \cup Lazies : Activate(n)

\* The first of the activations whose tools the bound leaves room for.
OldestShelved(log) ==
    LET residents == Cardinality(Residents)
        room == IF shCap = 0 THEN Len(log) ELSE IF shCap < residents THEN 0 ELSE shCap - residents
    IN IF room < Len(log) THEN Len(log) - room + 1 ELSE 1

\* The shelf offers all residents and, of the lazy tools, those activated last, as
\* many as the bound leaves room for, each once and in that order: a tool is never
\* pushed off by an older one.
ShelfHoldsNewest ==
    LET newest == OldestShelved(shLog)..Len(shLog)
    IN /\ shActive = Residents \cup {shLog[i] : i \in newest}
       /\ shActive = DOMAIN shOrder
       /\ \A i, j \in newest : i < j => shOrder[shLog[i]] < shOrder[shLog[j]]

-------------------------------------------------------------------------------
(* The repeat guard *)

VARIABLES
    rgPrint,    \* the fingerprints of the calls begun
    rgStage,    \* a call: new, run, ok, failed, refused, replayed, told, abort
    rgCount,    \* _call_counts
    rgReminded, \* _reminded
    rgError,    \* _call_errors: fingerprints with an error
    rgResult,   \* _successful_results: fingerprint |-> call whose result it is
    rgLast      \* per fingerprint, the call that was settled last; 0: none

guardVars == <<rgPrint, rgStage, rgCount, rgReminded, rgError, rgResult, rgLast>>

Settled == {"ok", "failed", "refused"}

GuardTypeOK ==
    /\ DOMAIN rgPrint \subseteq GuardCalls /\ Range(rgPrint) \subseteq Prints
    /\ rgStage \in [GuardCalls -> {"new", "run", "replayed", "told", "abort"} \cup Settled]
    /\ rgCount \in [Prints -> Nat] /\ rgReminded \subseteq Prints /\ rgError \subseteq Prints
    /\ DOMAIN rgResult \subseteq Prints /\ \A p \in DOMAIN rgResult : rgResult[p] \in GuardCalls
    /\ rgLast \in [Prints -> GuardCalls \cup {0}]

\* _reset_run_locals: a run, or its resume, starts with nothing remembered.
GuardInit ==
    /\ rgPrint = <<>>
    /\ rgStage = [c \in GuardCalls |-> "new"]
    /\ rgCount = [p \in Prints |-> 0] /\ rgReminded = {} /\ rgError = {}
    /\ rgResult = <<>> /\ rgLast = [p \in Prints |-> 0]

\* _check_repeat counts every attempt, refused ones too; the guard speaks up first
\* with a reminder and then ends the run.
Guarded(c, p) ==
    /\ rgStage[c] = "new"
    /\ rgPrint' = [d \in DOMAIN rgPrint \cup {c} |-> IF d = c THEN p ELSE rgPrint[d]]
    /\ rgCount' = [rgCount EXCEPT ![p] = @ + 1]
    /\ UNCHANGED <<rgError, rgResult, rgLast>>

StartCall(c, p) ==
    /\ Guarded(c, p) /\ rgCount'[p] < RepeatLimit
    /\ rgStage' = [rgStage EXCEPT ![c] = "run"]
    /\ UNCHANGED rgReminded

\* _repeat_result: the last result is played back, if the last attempt had one.
Remind(c, p) ==
    /\ Guarded(c, p) /\ rgCount'[p] >= RepeatLimit /\ p \notin rgReminded
    /\ rgReminded' = rgReminded \cup {p}
    /\ rgStage' = [rgStage EXCEPT ![c] =
                     IF p \notin rgError /\ p \in DOMAIN rgResult THEN "replayed" ELSE "told"]

\* LoopDetected; the calls gathered with this one go on.
Escalate(c, p) ==
    /\ Guarded(c, p) /\ rgCount'[p] >= RepeatLimit /\ p \in rgReminded
    /\ rgStage' = [rgStage EXCEPT ![c] = "abort"]
    /\ UNCHANGED rgReminded

\* The gate or a hook refuses, the tool runs out of time or fails: _reject keeps
\* the error.  So does a result that is not ok.
CallFails(c) ==
    LET p == rgPrint[c] IN
    /\ rgStage[c] = "run"
    /\ \E how \in {"failed", "refused"} : rgStage' = [rgStage EXCEPT ![c] = how]
    /\ rgError' = rgError \cup {p} /\ rgLast' = [rgLast EXCEPT ![p] = c]
    /\ UNCHANGED <<rgPrint, rgCount, rgReminded, rgResult>>

\* A slip: an error, once noted, stays.
KeptErrors(p) == rgError

\* A success takes the error of an earlier attempt back.
ErrorsAfter(p) == rgError \ {p}

CallSucceeds(c) ==
    LET p == rgPrint[c] IN
    /\ rgStage[c] = "run"
    /\ rgStage' = [rgStage EXCEPT ![c] = "ok"]
    /\ rgError' = ErrorsAfter(p)
    /\ rgResult' = [q \in DOMAIN rgResult \cup {p} |-> IF q = p THEN c ELSE rgResult[q]]
    /\ rgLast' = [rgLast EXCEPT ![p] = c]
    /\ UNCHANGED <<rgPrint, rgCount, rgReminded>>

\* A pass gathers its calls: they start and end in any order.
GuardNext == \E c \in GuardCalls :
    \/ \E p \in Prints : StartCall(c, p) \/ Remind(c, p) \/ Escalate(c, p)
    \/ CallFails(c) \/ CallSucceeds(c)

\* What the guard would play back or report for a fingerprint is the outcome of the
\* attempt that was settled last, however the attempts overlapped; and no fingerprint
\* is tried as often as the limit says.
GuardTellsTheLatest ==
    \A p \in Prints :
      /\ rgLast[p] # 0 =>
           IF rgStage[rgLast[p]] = "ok"
           THEN p \notin rgError /\ p \in DOMAIN rgResult /\ rgResult[p] = rgLast[p]
           ELSE p \in rgError
      /\ Cardinality({c \in DOMAIN rgPrint : rgPrint[c] = p
                        /\ rgStage[c] \in {"run"} \cup Settled}) < RepeatLimit

-------------------------------------------------------------------------------
(* Consent *)

VARIABLES
    cnMap,      \* confirmed_categories: conversations, least recently used first
    cnSet,      \* conversation |-> number of the set the map holds for it
    cnShared,   \* the sets: number |-> categories
    cnLoop,     \* a loop: [talk, set, session], or <<>> before it is built
    cnWriteOK, cnEgressOK  \* loops and conversations the user has said yes for

consentVars == <<cnMap, cnSet, cnShared, cnLoop, cnWriteOK, cnEgressOK>>

Categories == {"write", "egress"}

ConsentTypeOK ==
    /\ Range(cnMap) \subseteq Talks /\ Len(cnMap) <= MaxTalks
    /\ DOMAIN cnSet \subseteq Talks /\ \A n \in DOMAIN cnShared : cnShared[n] \subseteq Categories
    /\ cnWriteOK \subseteq Loops /\ cnEgressOK \subseteq Talks

ConsentInit ==
    /\ cnMap = <<>> /\ cnSet = <<>> /\ cnShared = <<>>
    /\ cnLoop = [l \in Loops |-> <<>>] /\ cnWriteOK = {} /\ cnEgressOK = {}

\* A slip: all conversations share the set of the first.
ConsentKeyShared(t) == CHOOSE x \in Talks : TRUE

ConsentKey(t) == t

\* loop_factory: the conversation's set, or a new one, which may push out the
\* least recently used; loops that hold it keep it.
BuildLoop(l, t) ==
    /\ cnLoop[l] = <<>>
    /\ LET k == ConsentKey(t)
           held == Contains(cnMap, k)
           order == Append(RemoveFirst(cnMap, k), k)
           kept == IF Len(order) > MaxTalks THEN Tail(order) ELSE order
           n == IF held THEN cnSet[k] ELSE Len(cnShared) + 1
       IN /\ cnMap' = kept
          /\ cnSet' = [x \in Range(kept) |-> IF x = k THEN n ELSE cnSet[x]]
          /\ cnShared' = IF held THEN cnShared ELSE Append(cnShared, {})
          /\ cnLoop' = [cnLoop EXCEPT ![l] = [talk |-> t, set |-> n, session |-> {}]]
    /\ UNCHANGED <<cnWriteOK, cnEgressOK>>

\* What decide looks at: a deny rule that hits, the permission of the tool, a read
\* that goes out to the network, a path in the cache, a path in the output directory.
Looks == [denied : BOOLEAN, write : BOOLEAN, egress : BOOLEAN, cache : BOOLEAN,
          output : BOOLEAN]

\* decide, outside auto mode; in auto mode nothing is confirmed.
Verdict(l, k) ==
    CASE k.denied \/ (k.write /\ k.cache) -> "deny"
      [] ~k.denied /\ ~k.write -> IF ~k.egress \/ "egress" \in cnShared[cnLoop[l].set]
                                 THEN "allow" ELSE "confirm"
      [] OTHER -> IF k.output \/ "write" \in cnLoop[l].session THEN "allow" ELSE "confirm"

\* resolve: y_session is offered for writes, y_remember for the network; a plain
\* yes, a no or no answer leaves nothing behind.
Resolve(l, k) ==
    /\ cnLoop[l] # <<>> /\ Verdict(l, k) = "confirm"
    /\ IF k.write
       THEN /\ cnLoop' = [cnLoop EXCEPT ![l].session = @ \cup {"write"}]
            /\ cnWriteOK' = cnWriteOK \cup {l}
            /\ UNCHANGED <<cnShared, cnEgressOK>>
       ELSE /\ cnShared' = [cnShared EXCEPT ![cnLoop[l].set] = @ \cup {"egress"}]
            /\ cnEgressOK' = cnEgressOK \cup {cnLoop[l].talk}
            /\ UNCHANGED <<cnLoop, cnWriteOK>>
    /\ UNCHANGED <<cnMap, cnSet>>

\* The session of a loop ends.
DropLoop(l) ==
    /\ cnLoop[l] # <<>>
    /\ cnLoop' = [cnLoop EXCEPT ![l] = <<>>]
    /\ cnWriteOK' = cnWriteOK \ {l}
    /\ UNCHANGED <<cnMap, cnSet, cnShared, cnEgressOK>>

ConsentNext == \E l \in Loops :
    \/ \E t \in Talks : Len(cnShared) < 3 /\ BuildLoop(l, t)
    \/ \E k \in Looks : Resolve(l, k)
    \/ DropLoop(l)

\* Outside auto mode a write runs unasked only in the session whose user allowed it (or
\* into the output directory), the network is used unasked only in a conversation he
\* allowed it for, and no consent reaches past a deny rule or the cache; whatever
\* sessions came and went, and whatever the bounded map forgot meanwhile.
ConsentStaysWhereGiven ==
    \A l \in Loops : cnLoop[l] # <<>> =>
      \A k \in Looks : Verdict(l, k) = "allow" =>
        /\ ~k.denied
        /\ k.write => ~k.cache /\ (k.output \/ l \in cnWriteOK)
        /\ ~k.write /\ k.egress => cnLoop[l].talk \in cnEgressOK

\* What the loop remembers between calls - the tools it offers, the outcomes the
\* repeat guard would report, the consents of a session - is what the calls and
\* answers so far were, in whatever order they ended (registry.py:308, loop.py:2534,
\* api.py:596).
CallsAreRememberedTrue == ShelfHoldsNewest /\ GuardTellsTheLatest /\ ConsentStaysWhereGiven
===============================================================================
