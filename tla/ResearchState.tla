----------------------------- MODULE ResearchState -----------------------------
(***************************************************************************)
(* The research a conversation builds up: the plan, its progress, the        *)
(* citations and the conclusions drawn from them (context/session.py,        *)
(* data/citation.py, engine/plan_progress.py), and what of it outlives the    *)
(* loop: _persist_turn and the checkpoint at the end of a run, and their      *)
(* reading at the beginning of one (engine/loop.py).                         *)
(* Of the messages only this is kept: whether some are buffered, since       *)
(* without them a run's end writes nothing but its checkpoint.               *)
(***************************************************************************)
EXTENDS Naturals, Sequences, FiniteSets, FiniteSetsExt

CONSTANTS Data,       \* what a citation can stand for
          MaxEntries, \* max_entries of the registry
          MaxCites,   \* bound: citations registered by loops
          PlanSteps,      \* steps of a plan
          MaxPlans,   \* bound: revisions of a plan
          MaxRounds,  \* bound: tool rounds of a run
          MaxMishaps  \* bound: crashes and failing transactions

ASSUME ResearchAssumption ==
    /\ MaxEntries \in Nat \ {0} /\ MaxCites \in Nat /\ MaxMishaps \in Nat

VARIABLES
    rsCites,    \* table citations: number |-> what it stands for
    rsStored,   \* table conclusions: [cid, data] as recorded
    rsCheck,    \* turn_checkpoints: <<>>, or [stopped, plan]
    rsUp,       \* the session's loop: no, fresh (memory not loaded), up
    rsRunning,  \* a run is under way
    rsBuffered, \* memory.pending is not empty
    rsRegistry, \* _items: <<number, data>>
    rsCounter,  \* _counter
    rsPending,  \* pending_conclusions
    rsPlan,     \* ctx.plan: [rev, done], or NoPlan
    rsSeen,     \* _plan_signature
    rsStall,    \* _plan_stall_turns
    rsRounds,   \* rounds of this run
    rsNewest,   \* the plan as the conversation last had it
    rsMishaps

tables == <<rsCites, rsStored, rsCheck>>
planVars == <<rsPlan, rsSeen, rsStall, rsRounds, rsNewest>>
citeVars == <<rsRegistry, rsCounter, rsPending>>
researchVars == <<tables, planVars, citeVars, rsUp, rsRunning, rsBuffered, rsMishaps>>

NoPlan == [rev |-> 0, done |-> {}]
Plans == [rev : 0..MaxPlans, done : SUBSET PlanSteps]
Numbers == 1..MaxCites
Conclusions == [cid : Numbers, data : Data]

ResearchTypeOK ==
    /\ DOMAIN rsCites \subseteq Numbers /\ \A n \in DOMAIN rsCites : rsCites[n] \in Data
    /\ rsStored \subseteq Conclusions /\ rsPending \subseteq Conclusions
    /\ rsCheck = <<>> \/ (rsCheck.stopped \in BOOLEAN /\ rsCheck.plan \in Plans)
    /\ rsUp \in {"no", "fresh", "up"} /\ rsRunning \in BOOLEAN /\ rsBuffered \in BOOLEAN
    /\ rsRegistry \subseteq Numbers \X Data /\ Cardinality(rsRegistry) <= MaxEntries
    /\ rsCounter \in 0..MaxCites
    /\ rsPlan \in Plans /\ rsSeen \in Plans /\ rsNewest \in Plans
    /\ {rsStall, rsRounds} \subseteq 0..MaxRounds /\ rsMishaps \in 0..MaxMishaps

ResearchInit ==
    /\ rsCites = <<>> /\ rsStored = {} /\ rsCheck = <<>>
    /\ rsUp = "no" /\ rsRunning = FALSE /\ rsBuffered = FALSE
    /\ rsRegistry = {} /\ rsCounter = 0 /\ rsPending = {}
    /\ rsPlan = NoPlan /\ rsSeen = NoPlan /\ rsStall = 0 /\ rsRounds = 0
    /\ rsNewest = NoPlan /\ rsMishaps = 0

\* _trim: the entries that were registered first go.
Trimmed(items) ==
    {x \in items : Cardinality({y \in items : y[1] > x[1]}) < MaxEntries}

Mishap == rsMishaps < MaxMishaps /\ rsMishaps' = rsMishaps + 1

\* A session gets its loop, or, evicted or after a restart, loses it.
BuildResearchLoop ==
    /\ rsUp = "no" /\ rsUp' = "fresh"
    /\ rsRegistry' = {} /\ rsCounter' = 0 /\ rsPending' = {} /\ rsPlan' = NoPlan
    /\ UNCHANGED <<tables, rsRunning, rsBuffered, rsSeen, rsStall, rsRounds,
                   rsNewest, rsMishaps>>

Gone ==
    /\ rsUp' = "no" /\ rsRunning' = FALSE
    /\ rsRegistry' = {} /\ rsCounter' = 0 /\ rsPending' = {} /\ rsPlan' = NoPlan
    /\ rsBuffered' = FALSE /\ rsSeen' = NoPlan /\ rsStall' = 0 /\ rsRounds' = 0

Evict ==
    /\ rsUp # "no" /\ ~rsRunning /\ Gone
    /\ UNCHANGED <<tables, rsNewest, rsMishaps>>

Crash ==
    /\ rsUp # "no" /\ Mishap /\ Gone
    /\ UNCHANGED <<tables, rsNewest>>

\* A slip: numbering goes on from the number of entries.
CountedOn(items) == Cardinality(items)

\* restore: numbering goes on from the highest number that was given out.
HighestOf(items) == Max({0} \cup {x[1] : x \in items})

\* _load_memory_if_first_turn: what the conversation has cited is restored once.
Loaded ==
    LET all == {<<n, rsCites[n]>> : n \in DOMAIN rsCites} IN
    IF rsUp = "fresh"
    THEN rsRegistry' = Trimmed(all) /\ rsCounter' = HighestOf(Trimmed(all))
    ELSE UNCHANGED <<rsRegistry, rsCounter>>

\* load_latest_checkpoint: the plan of a stopped run, if there is one.
CheckedPlan ==
    IF rsCheck # <<>> /\ rsCheck.stopped /\ rsCheck.plan # NoPlan THEN rsCheck.plan ELSE rsPlan

\* _restore_checkpoint: it is read, cleared, and its plan taken over if the run it is of
\* was stopped.  Neither a failing read nor a failing clear stops the run.
Restored ==
    \/ /\ UNCHANGED rsMishaps
       /\ rsCheck' = <<>>
       /\ rsPlan' = CheckedPlan
    \/ /\ rsCheck # <<>> /\ Mishap /\ UNCHANGED rsCheck
       /\ rsPlan' \in {rsPlan, CheckedPlan}

\* A run begins with its counters reset; a new message is buffered, a resume has none.
BeginRun(message) ==
    /\ rsUp # "no" /\ ~rsRunning
    /\ rsRunning' = TRUE /\ rsUp' = "up" /\ rsBuffered' = message
    /\ Loaded /\ Restored
    /\ rsSeen' = NoPlan /\ rsStall' = 0 /\ rsRounds' = 0
    /\ UNCHANGED <<rsCites, rsStored, rsPending, rsNewest>>

\* The calls of a round; what was buffered has been committed with the round's
\* assistant message.
Researching == rsRunning /\ rsRounds < MaxRounds /\ rsBuffered' = FALSE

\* A tool has fetched something: register gives it the next number and trims, what is
\* not saved yet as well.
FetchData(d) ==
    /\ Researching /\ rsCounter < MaxCites
    /\ rsCounter' = rsCounter + 1
    /\ rsRegistry' = Trimmed(rsRegistry \cup {<<rsCounter + 1, d>>})
    /\ UNCHANGED <<tables, planVars, rsPending, rsUp, rsRunning, rsMishaps>>

\* record_conclusion, on data the registry knows.
Conclude(x) ==
    /\ Researching /\ x \in rsRegistry
    /\ rsPending' = rsPending \cup {[cid |-> x[1], data |-> x[2]]}
    /\ UNCHANGED <<tables, planVars, rsRegistry, rsCounter, rsUp, rsRunning, rsMishaps>>

Planned(plan) ==
    /\ Researching /\ rsPlan' = plan /\ rsNewest' = plan
    /\ UNCHANGED <<tables, citeVars, rsUp, rsRunning, rsSeen, rsStall, rsRounds, rsMishaps>>

\* research_plan: a plan, or a revision of it with all steps open again.
SetPlan == rsPlan.rev < MaxPlans /\ Planned([rev |-> rsPlan.rev + 1, done |-> {}])

\* update_plan_step: done, or back to pending; a step the plan lacks is refused.
MarkStep(s) ==
    /\ rsPlan # NoPlan
    /\ \E done \in {rsPlan.done \cup {s}, rsPlan.done \ {s}} :
         Planned([rsPlan EXCEPT !.done = done])

\* The round ends: _plan_progress compares revision and statuses with those it
\* saw last.
EndRound ==
    /\ Researching /\ rsRounds' = rsRounds + 1
    /\ IF rsPlan = NoPlan THEN UNCHANGED <<rsSeen, rsStall>>
       ELSE /\ rsSeen' = rsPlan
            /\ rsStall' = IF rsPlan = rsSeen THEN rsStall + 1 ELSE 0
    /\ UNCHANGED <<tables, citeVars, rsUp, rsRunning, rsPlan, rsNewest, rsMishaps>>

\* A slip: conclusions are written before what they cite.
ConclusionsFirst == <<"messages", "conclusions", "citations">>

\* _persist_turn, transaction by transaction.
PersistOrder == <<"messages", "citations", "conclusions">>

\* The first n transactions of it have been committed, of the next perhaps, if it is
\* that of the conclusions, some.
Persisted(n, some) ==
    LET written == {PersistOrder[i] : i \in 1..n}
        kept == IF "conclusions" \in written THEN rsPending
                ELSE IF n < 3 /\ PersistOrder[n + 1] = "conclusions" THEN some ELSE {}
    IN /\ rsStored' = rsStored \cup kept
       /\ rsCites' = IF "citations" \notin written THEN rsCites
                     ELSE [m \in DOMAIN rsCites \cup {x[1] : x \in rsRegistry} |->
                             IF \E x \in rsRegistry : x[1] = m
                             THEN (CHOOSE x \in rsRegistry : x[1] = m)[2]
                             ELSE rsCites[m]]

\* save_checkpoint: one row per conversation, the last one stays.
Checkpoint(answered) == rsCheck' = [stopped |-> ~answered, plan |-> rsPlan]

\* A run ends: answered, failed or stopped with something to say (buffered), or without.
\* Without buffered messages _persist_turn returns at once; the checkpoint is written
\* in any case.
EndResearch(answered, buffered) ==
    /\ rsRunning /\ rsRunning' = FALSE /\ rsBuffered' = FALSE
    /\ answered => buffered
    /\ IF buffered THEN Persisted(3, {}) /\ rsPending' = {}
       ELSE UNCHANGED <<rsStored, rsCites, rsPending>>
    /\ \/ Checkpoint(answered) /\ UNCHANGED rsMishaps
       \/ UNCHANGED rsCheck /\ Mishap
    /\ UNCHANGED <<planVars, rsRegistry, rsCounter, rsUp>>

\* A transaction of _persist_turn fails: the exception leaves the run, without a
\* checkpoint.  Or the process dies there.
PersistFails(n, some) ==
    /\ rsRunning /\ Mishap /\ n < 3
    /\ Persisted(n, some)
    /\ \/ /\ rsRunning' = FALSE /\ rsBuffered' = (n = 0)
          /\ UNCHANGED <<rsCheck, planVars, citeVars, rsUp>>
       \/ Gone /\ UNCHANGED <<rsCheck, rsNewest>>

\* The loop, its runs and their ends.
LifeNext ==
    \/ BuildResearchLoop \/ Evict \/ Crash
    \/ \E message \in BOOLEAN : BeginRun(message)
    \/ \E answered, said \in BOOLEAN : EndResearch(answered, said \/ rsBuffered)
    \/ \E n \in 0..2, some \in SUBSET rsPending : PersistFails(n, some)

\* Plans and citations do not look at each other: they are explored one at a time.
PlanNext == LifeNext \/ SetPlan \/ (\E s \in PlanSteps : MarkStep(s)) \/ EndRound

CiteNext ==
    \/ LifeNext
    \/ \E d \in Data : FetchData(d)
    \/ \E x \in rsRegistry : Conclude(x)

-------------------------------------------------------------------------------
\* A stored conclusion cites a stored citation, and that stands for what it stood for
\* when the conclusion was drawn: through trimming, reloads, a crash and a failing
\* transaction.  The one way to a conclusion without its citation is a run that registers
\* as many as the registry holds after it and before they are saved (citation.py:101,
\* loop.py:602); its number is not given to anything else then.
ConclusionsKeepTheirData ==
    \A c \in rsStored :
      IF c.cid \in DOMAIN rsCites THEN rsCites[c.cid] = c.data
      ELSE Cardinality({n \in DOMAIN rsCites : n > c.cid}) >= MaxEntries

\* The plan in use is the one the conversation last had, or none: no single failure lets
\* a checkpoint take it back to an older one.  (A clear that fails and a crash do.)
PlanNeverGoesBack == rsPlan \in {rsNewest, NoPlan}

\* The rounds the model is told nothing was written back in are rounds of this run, and
\* its first round, which only takes note of the plan, is not one of them.
StallIsOfThisRun == rsStall > 0 => rsStall < rsRounds

ResearchIsKept == ConclusionsKeepTheirData /\ PlanNeverGoesBack /\ StallIsOfThisRun
===============================================================================
