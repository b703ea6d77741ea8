--------------------------- MODULE ProviderConfigs ---------------------------
(***************************************************************************)
(* The provider settings of the users (config/store.py, server/config_api)  *)
(* and the resolver that hands a run its provider (provider/resolver.py).   *)
(* A request checks on the event loop, lets a thread change the table, and  *)
(* back on the loop throws the resolver's one cached provider away.  The    *)
(* resolver runs on the loop, but reads the row and its secret in two       *)
(* transactions.  The cache is keyed by the row's time stamp, which counts  *)
(* seconds.  Fields and secrets of a row are a version of it.               *)
(***************************************************************************)
EXTENDS Naturals, FiniteSets

CONSTANTS Owners,       \* users
          Labels,       \* names of configurations
          Writers,      \* requests that change the settings
          MaxConfigs,   \* bound: rows that are ever created
          MaxEdits,     \* bound: versions of a row
          MaxSecond,    \* bound: seconds that pass
          NoConfig

ASSUME ConfigAssumption == MaxConfigs \in Nat \ {0} /\ MaxEdits \in Nat \ {0} /\ MaxSecond \in Nat

VARIABLES
    pcRows,     \* provider_configs, by id
    pcNextId,   \* AUTOINCREMENT
    pcSecond,   \* the clock, in seconds
    pcWriter,   \* a request and how far it is
    pcReading,  \* the row that current() has read, before it reads the secret
    pcCache     \* _cached_key and _cached_provider

configVars == <<pcRows, pcNextId, pcSecond, pcWriter, pcReading, pcCache>>

Ids == 1..MaxConfigs
ConfigRow == [owner : Owners, label : Labels, edit : 1..MaxEdits, stamp : 0..MaxSecond,
              active : BOOLEAN]
ASSUME NoConfigAssumption == NoConfig \notin ConfigRow

Resting == [at |-> "idle", op |-> "create", id |-> 0, owner |-> NoConfig, label |-> NoConfig]

ConfigTypeOK ==
    /\ pcRows \in [Ids -> ConfigRow \cup {NoConfig}]
    /\ pcNextId \in 1..MaxConfigs + 1 /\ pcSecond \in 0..MaxSecond
    /\ \A w \in Writers : /\ pcWriter[w].at \in {"idle", "checked", "seen", "committed"}
                          /\ pcWriter[w].op \in {"create", "update", "activate", "delete"}
                          /\ pcWriter[w].id \in Ids \cup {0}
    /\ pcReading = NoConfig \/ pcReading.id \in Ids
    /\ pcCache = NoConfig \/ pcCache.id \in Ids \cup {0}
    \* the unique index of one active row per user, and UNIQUE(user_id, name)
    /\ \A i, j \in Ids : i # j /\ pcRows[i] # NoConfig /\ pcRows[j] # NoConfig
                         /\ pcRows[i].owner = pcRows[j].owner
         => ~(pcRows[i].active /\ pcRows[j].active) /\ pcRows[i].label # pcRows[j].label

ConfigInit ==
    /\ pcRows = [i \in Ids |-> NoConfig] /\ pcNextId = 1 /\ pcSecond = 0
    /\ pcWriter = [w \in Writers |-> Resting]
    /\ pcReading = NoConfig /\ pcCache = NoConfig

Exists(i, u) == pcRows[i] # NoConfig /\ pcRows[i].owner = u
RowsOf(u) == {i \in Ids : Exists(i, u)}
ActiveOf(u) == {i \in RowsOf(u) : pcRows[i].active}
ConfigLoopIsFree == pcReading = NoConfig

Taken(u, label, but) == \E i \in RowsOf(u) \ {but} : pcRows[i].label = label

\* A slip: the row that was active stays so.
NoneActiveForgotten(u) == pcRows

\* The rows with the active one of a user switched off.
NoneActive(u) == [i \in Ids |-> IF i \in RowsOf(u) THEN [pcRows[i] EXCEPT !.active = FALSE]
                                ELSE pcRows[i]]

-------------------------------------------------------------------------------
(* Requests *)

\* The routes: the payload is checked and, unless it is a creation, the row must be there.
Check(w, op, u, i, label) ==
    /\ ConfigLoopIsFree /\ pcWriter[w].at = "idle"
    /\ op # "create" => Exists(i, u)
    /\ pcWriter' = [pcWriter EXCEPT ![w] = [at |-> "checked", op |-> op, id |-> i, owner |-> u,
                                            label |-> label]]
    /\ UNCHANGED <<pcRows, pcNextId, pcSecond, pcReading, pcCache>>

Seen(w) == pcWriter' = [pcWriter EXCEPT ![w].at = "seen"]
Committed(w) == pcWriter' = [pcWriter EXCEPT ![w].at = "committed"]
Rejected(w) == pcWriter' = [pcWriter EXCEPT ![w] = Resting]

\* The thread looks at the row in a transaction of its own: ConfigNotFound, or the
\* active one of several, which is not deleted.
FindRow(w) ==
    LET r == pcWriter[w]
    IN /\ r.at = "checked" /\ r.op # "create"
       /\ IF ~Exists(r.id, r.owner)
             \/ (r.op = "delete" /\ pcRows[r.id].active /\ Cardinality(RowsOf(r.owner)) > 1)
          THEN Rejected(w) ELSE Seen(w)
       /\ UNCHANGED <<pcRows, pcNextId, pcSecond, pcReading, pcCache>>

\* create(): one transaction; a name that is taken undoes the deactivation as well.
CreateConfig(w, activate) ==
    LET r == pcWriter[w]
        new == [owner |-> r.owner, label |-> r.label, edit |-> 1, stamp |-> pcSecond,
                active |-> activate]
    IN /\ r.at = "checked" /\ r.op = "create" /\ pcNextId \in Ids
       /\ IF Taken(r.owner, r.label, 0)
          THEN Rejected(w) /\ UNCHANGED <<pcRows, pcNextId>>
          ELSE /\ pcRows' = [IF activate THEN NoneActive(r.owner) ELSE pcRows
                             EXCEPT ![pcNextId] = new]
               /\ pcNextId' = pcNextId + 1
               /\ Committed(w)
       /\ UNCHANGED <<pcSecond, pcReading, pcCache>>

\* update(): every field, and the secret unless it is left out.
UpdateConfig(w) ==
    LET r == pcWriter[w]
    IN /\ r.at = "seen" /\ r.op = "update"
       /\ IF Taken(r.owner, r.label, r.id) \/ ~Exists(r.id, r.owner)
          THEN Rejected(w) /\ UNCHANGED pcRows
          ELSE /\ pcRows[r.id].edit < MaxEdits
               /\ pcRows' = [pcRows EXCEPT ![r.id].label = r.label, ![r.id].edit = @ + 1,
                                           ![r.id].stamp = pcSecond]
               /\ Committed(w)
       /\ UNCHANGED <<pcNextId, pcSecond, pcReading, pcCache>>

\* activate(): all rows of the user are switched off, then this one on, if it is
\* still there; if not, the request fails with no row active.
ActivateConfig(w) ==
    LET r == pcWriter[w]
        off == NoneActive(r.owner)
    IN /\ r.at = "seen" /\ r.op = "activate"
       /\ IF Exists(r.id, r.owner)
          THEN /\ pcRows' = [off EXCEPT ![r.id].active = TRUE, ![r.id].stamp = pcSecond]
               /\ Committed(w)
          ELSE pcRows' = off /\ Rejected(w)
       /\ UNCHANGED <<pcNextId, pcSecond, pcReading, pcCache>>

\* delete(), on what the thread saw before.
DeleteConfig(w) ==
    LET r == pcWriter[w]
    IN /\ r.at = "seen" /\ r.op = "delete"
       /\ pcRows' = [pcRows EXCEPT ![r.id] = NoConfig]
       /\ Committed(w)
       /\ UNCHANGED <<pcNextId, pcSecond, pcReading, pcCache>>

\* A slip: the time stamp in the key is taken for enough.
RepliesOnly(w) ==
    /\ ConfigLoopIsFree /\ pcWriter[w].at = "committed"
    /\ pcWriter' = [pcWriter EXCEPT ![w] = Resting]
    /\ UNCHANGED <<pcRows, pcNextId, pcSecond, pcReading, pcCache>>

\* Back on the loop: resolver.invalidate(), and the reply.
Invalidates(w) ==
    /\ ConfigLoopIsFree /\ pcWriter[w].at = "committed"
    /\ pcWriter' = [pcWriter EXCEPT ![w] = Resting]
    /\ pcCache' = NoConfig
    /\ UNCHANGED <<pcRows, pcNextId, pcSecond, pcReading>>

-------------------------------------------------------------------------------
(* The resolver *)

KeyOf(u, i, stamp) == [owner |-> u, id |-> i, stamp |-> stamp]
Hit(u, i) == /\ pcCache # NoConfig
             /\ KeyOf(pcCache.owner, pcCache.id, pcCache.stamp) = KeyOf(u, i, pcRows[i].stamp)

\* current(): the active row is read; a cached provider of its key is served.
ReadActive(u) ==
    /\ ConfigLoopIsFree
    /\ \E i \in ActiveOf(u) :
         /\ ~Hit(u, i)
         /\ pcReading' = [owner |-> u, id |-> i, stamp |-> pcRows[i].stamp,
                          fields |-> pcRows[i].edit]
    /\ UNCHANGED <<pcRows, pcNextId, pcSecond, pcWriter, pcCache>>

\* resolve_key, the provider is built and takes the place of the cached one.
BuildProvider ==
    /\ pcReading # NoConfig
    /\ pcReading' = NoConfig
    /\ pcCache' = IF Exists(pcReading.id, pcReading.owner)
                  THEN [owner |-> pcReading.owner, id |-> pcReading.id, stamp |-> pcReading.stamp,
                        fields |-> pcReading.fields, secret |-> pcRows[pcReading.id].edit]
                  ELSE pcCache
    /\ UNCHANGED <<pcRows, pcNextId, pcSecond, pcWriter>>

\* Nothing active: the preset of the settings, kept in the same cache.
FromSettings(u) ==
    /\ ConfigLoopIsFree /\ ActiveOf(u) = {}
    /\ pcCache' = [owner |-> NoConfig, id |-> 0, stamp |-> 0, fields |-> 0, secret |-> 0]
    /\ UNCHANGED <<pcRows, pcNextId, pcSecond, pcWriter, pcReading>>

SecondPasses ==
    /\ pcSecond < MaxSecond
    /\ pcSecond' = pcSecond + 1
    /\ UNCHANGED <<pcRows, pcNextId, pcWriter, pcReading, pcCache>>

ConfigNext ==
    \/ \E w \in Writers :
         \/ \E u \in Owners, label \in Labels : Check(w, "create", u, 0, label)
         \/ \E u \in Owners, i \in Ids :
              \/ \E label \in Labels : Check(w, "update", u, i, label)
              \/ \E op \in {"activate", "delete"} : Check(w, op, u, i, NoConfig)
         \/ \E b \in BOOLEAN : CreateConfig(w, b)
         \/ FindRow(w) \/ UpdateConfig(w) \/ ActivateConfig(w) \/ DeleteConfig(w)
         \/ Invalidates(w)
    \/ \E u \in Owners : ReadActive(u) \/ FromSettings(u)
    \/ BuildProvider \/ SecondPasses

-------------------------------------------------------------------------------
\* When every change has come back to the loop, a provider that the resolver would
\* serve from its cache has the fields and the secret the active row has now, also
\* when the row was read and changed within one second (resolver.py:117).
ServedIsCurrent ==
    (\A w \in Writers : pcWriter[w].at # "committed") /\ ConfigLoopIsFree
    => \A u \in Owners : \A i \in ActiveOf(u) : Hit(u, i) =>
           pcCache.fields = pcRows[i].edit /\ pcCache.secret = pcRows[i].edit
===============================================================================
