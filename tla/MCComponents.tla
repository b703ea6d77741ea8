---------------------------- MODULE MCComponents -----------------------------
(* The components of the server that share no state with one another, in one   *)
(* run: part says which of them moves, and the others stay where they began.   *)
EXTENDS ConfirmBus, WorkingMemory, LongTermMemory, Erasure, Accounts, DataCache,
        SourceCalls, ProviderConfigs, ChatClient, RunTrace, ToolCalls,
        ReportReview, ResearchState, Backtest, ResultBudget, StateMigration

VARIABLE part

MCPoolAsks == {ask \in Requests : PoolAccepted(ask)}
MCValuationAsks == {ask \in MCPoolAsks : UsesValuation(ask)}

Parts == {"bus", "memory", "facts", "erasure", "accounts", "tables", "chains",
          "datasets", "settings", "panel", "app", "trace", "spans",
          "shelf", "guard", "consent", "review", "jobs", "plans", "cites",
          "series", "pool", "results", "migration"}

Init ==
    /\ part \in Parts
    /\ BusInit /\ MemoryInit /\ LtmInit /\ ErasureInit /\ AccountsInit
    /\ DataInit /\ SourceInit /\ ConfigInit /\ ClientInit /\ TraceInit /\ SpanInit
    /\ ShelfInit /\ GuardInit /\ ConsentInit /\ ReviewInit /\ JobsInit
    /\ ResearchInit /\ SeriesInit /\ PoolInit /\ BudgetInit
    /\ MigrationInit
    /\ part # "erasure" => erNotes = {}
    /\ part # "trace" => ~trShared
    /\ part # "shelf" => shCap = 0
    /\ part # "migration" =>
         /\ mgOldConfigs = {} /\ mgHistory = {} /\ mgKey = "none"
         /\ \A l \in Logins : mgOldUsers[l] = "none" /\ mgUsers[l] = "none"

Rest(these) ==
    /\ UNCHANGED part
    /\ "bus" \in these => UNCHANGED busVars
    /\ "memory" \in these => UNCHANGED memoryVars
    /\ "facts" \in these => UNCHANGED ltmVars
    /\ "erasure" \in these => UNCHANGED erasureVars
    /\ "accounts" \in these => UNCHANGED accountVars
    /\ "tables" \in these => UNCHANGED dataVars
    /\ "chains" \in these => UNCHANGED sourceVars
    /\ "settings" \in these => UNCHANGED configVars
    /\ "panel" \in these => UNCHANGED panelVars
    /\ "trace" \in these => UNCHANGED traceVars
    /\ "spans" \in these => UNCHANGED spanVars
    /\ "shelf" \in these => UNCHANGED shelfVars
    /\ "guard" \in these => UNCHANGED guardVars
    /\ "consent" \in these => UNCHANGED consentVars
    /\ "review" \in these => UNCHANGED reviewVars
    /\ "jobs" \in these => UNCHANGED jobVars
    /\ "plans" \in these => UNCHANGED researchVars
    /\ "series" \in these => UNCHANGED seriesVars
    /\ "pool" \in these => UNCHANGED poolVars
    /\ "results" \in these => UNCHANGED budgetVars
    /\ "migration" \in these => UNCHANGED migrationVars

\* Bounds: facts differ in statement or in subject, not in both; when a conversation is
\* deleted, which touches no fact, the user is done with them.
SomeFacts ==
    {f \in Fact : f.subject = "stock" \/ f.statement = CHOOSE t \in Statements : TRUE}
FactsInUse ==
    /\ Range(ltFacts') \subseteq SomeFacts \cup {Absent}
    /\ ~(ltChats' # Chats /\ ltTodo' \cup ltDropped' # {})

\* Bound: only accounts somebody erases have facts.
FactsOfErasable == erEmbedding' \subseteq Erasable

\* Bounds: loads under way at a time; deletions and changes of settings are apart.
ClicksInOrder ==
    /\ Cardinality(ccReads') <= 2
    /\ ~(ccDelete' # NoDialog /\ (ccRestart' # <<>> \/ ccMisfiled' # {}))

\* One of the runs is the first to start; they are alike.
FirstRunFirst ==
    LET first == CHOOSE r \in TracedRuns : TRUE
    IN trStage'[first] = "new" => \A r \in TracedRuns : trStage'[r] = "new"

Next ==
    \/ part = "bus" /\ BusNext /\ Rest(Parts \ {"bus"})
    \/ part = "memory" /\ MemoryNext /\ Rest(Parts \ {"memory"})
    \/ part = "facts" /\ LtmNext /\ FactsInUse /\ Rest(Parts \ {"facts"})
    \/ part = "erasure" /\ ErasureNext /\ FactsOfErasable /\ Rest(Parts \ {"erasure"})
    \/ part = "accounts" /\ AccountsNext /\ Rest(Parts \ {"accounts"})
    \/ part = "tables" /\ DataNext /\ Rest(Parts \ {"tables"})
    \/ part = "chains" /\ ChainNext /\ Rest(Parts \ {"chains", "datasets"})
    \/ part = "datasets" /\ DatasetNext /\ Rest(Parts \ {"chains", "datasets"})
    \/ part = "settings" /\ ConfigNext /\ Rest(Parts \ {"settings"})
    \/ part = "panel" /\ PanelNext /\ Rest(Parts \ {"panel", "app"})
    \/ part = "app" /\ AppNext /\ ClicksInOrder /\ Rest(Parts \ {"panel", "app"})
    \/ part = "trace" /\ TraceNext /\ FirstRunFirst /\ Rest(Parts \ {"trace"})
    \/ part = "spans" /\ SpanNext /\ Rest(Parts \ {"spans"})
    \/ part = "shelf" /\ ShelfNext /\ Rest(Parts \ {"shelf"})
    \/ part = "guard" /\ GuardNext /\ Rest(Parts \ {"guard"})
    \/ part = "consent" /\ ConsentNext /\ Rest(Parts \ {"consent"})
    \/ part = "review" /\ ReviewNext /\ Rest(Parts \ {"review"})
    \/ part = "jobs" /\ JobsNext /\ Rest(Parts \ {"jobs"})
    \/ part = "plans" /\ PlanNext /\ Rest(Parts \ {"plans", "cites"})
    \/ part = "cites" /\ CiteNext /\ Rest(Parts \ {"plans", "cites"})
    \/ part = "series" /\ SeriesNext /\ Rest(Parts \ {"series"})
    \/ part = "pool" /\ PoolNext /\ Rest(Parts \ {"pool"})
    \/ part = "results" /\ BudgetNext /\ Rest(Parts \ {"results"})
    \/ part = "migration" /\ MigrationNext /\ Rest(Parts \ {"migration"})

\* The component that moves keeps its types; the others are as they began.
PartsTypeOK ==
    /\ part \in Parts
    /\ part = "bus" => BusTypeOK
    /\ part = "memory" => MemoryTypeOK
    /\ part = "facts" => LtmTypeOK
    /\ part = "erasure" => ErasureTypeOK
    /\ part = "accounts" => AccountsTypeOK
    /\ part = "tables" => DataTypeOK
    /\ part = "settings" => ConfigTypeOK
    /\ part = "trace" => TraceTypeOK
    /\ part = "spans" => SpanTypeOK
    /\ part = "shelf" => ShelfTypeOK
    /\ part = "guard" => GuardTypeOK
    /\ part = "consent" => ConsentTypeOK
    /\ part = "review" => ReviewTypeOK
    /\ part = "jobs" => JobsTypeOK
    /\ part = "series" => SeriesTypeOK
    /\ part = "pool" => PoolTypeOK
    /\ part = "results" => BudgetTypeOK
    /\ part = "migration" => MigrationTypeOK
    /\ part \in {"chains", "datasets"} => SourceTypeOK
    /\ part \in {"panel", "app"} => ClientTypeOK
    /\ part \in {"plans", "cites"} => ResearchTypeOK
===============================================================================
