--------------------------- MODULE StateMigration ---------------------------
(***************************************************************************)
(* The move of the state files (config/state_migration.py) from the data    *)
(* cache, where earlier versions kept them, to a directory of their own: the *)
(* check that keeps a server from starting without its old accounts, and the *)
(* command an operator runs while no server does. Files are copied one after *)
(* the other and the command can be cut off between any two; each database   *)
(* is copied in one transaction, the key is opened and then written. The old *)
(* place is a backup nobody writes. The new one may have been in use, by a   *)
(* version that did not check. A row of the configurations is whether a user *)
(* has claimed it and the key it is encrypted with.                          *)
(***************************************************************************)
EXTENDS Accounts

CONSTANT Logins     \* account names that differ in more than their case

Ownership == {"claimed", "unclaimed"}
KeyNames == {"old", "own"}

VARIABLES
    mgOldUsers,   \* users.db of the old place: how a name is written there
    mgOldConfigs, \* config.db of the old place: which rows it has
    mgUsers,      \* users.db of the new place
    mgHistory,    \* memory.db of the new place: whose conversations it has
    mgKey,        \* secret.key of the new place
    mgConfigs,    \* config.db of the new place: <<ownership, key>>
    mgStore,      \* config.db exists at the new place
    mgAt,         \* where the command stands
    mgReport,     \* what the last command that ended has reported
    mgServing     \* a server runs on the new place

migrationVars == <<mgOldUsers, mgOldConfigs, mgUsers, mgHistory, mgKey, mgConfigs,
                   mgStore, mgAt, mgReport, mgServing>>
mgFiles == <<mgUsers, mgHistory, mgKey, mgConfigs, mgStore>>
mgOld == <<mgOldUsers, mgOldConfigs>>

MigrationTypeOK ==
    /\ mgOldUsers \in [Logins -> {"none", "lower"}] /\ mgOldConfigs \subseteq Ownership
    /\ mgUsers \in [Logins -> {"none", "lower", "upper"}]
    /\ mgHistory \subseteq KeyNames /\ mgKey \in {"none", "empty"} \cup KeyNames
    /\ mgConfigs \subseteq Ownership \X KeyNames /\ mgStore \in BOOLEAN
    /\ mgAt \in {"idle", "secret", "write", "users", "history", "configs", "verify"}
    /\ mgReport \in {"none", "verified", "unverified", "unreadable"}
    /\ mgServing \in BOOLEAN

\* The old place has a key and conversations; nothing of it is at the new one.
MigrationInit ==
    /\ mgOldUsers \in [Logins -> {"none", "lower"}] /\ mgOldConfigs \in SUBSET Ownership
    /\ mgUsers \in [Logins -> {"none", "lower", "upper"}]
    /\ mgHistory \in {{}, {"own"}}
    /\ \/ mgKey = "none" /\ mgConfigs = {}
       \/ mgKey = "own" /\ mgConfigs \in {{}, {<<"claimed", "own">>}}
    /\ mgStore = (mgKey = "own") /\ mgAt = "idle" /\ mgReport = "none" /\ mgServing = FALSE

-------------------------------------------------------------------------------
\* _usernames: the accounts of a users.db as they are written there.
Spelt(users) == {<<l, users[l]>> : l \in {x \in Logins : users[x] # "none"}}

\* _destination_is_populated: a table that has rows is not copied over.
Populated(rows) == rows # {}

\* check_for_unmigrated_state: accounts of the old place that the new one lacks.
MissingAccounts == {account[1] : account \in Spelt(mgOldUsers) \ Spelt(mgUsers)}

\* validate_runtime lets the server start.
ServerStarts ==
    /\ mgAt = "idle" /\ ~mgServing /\ MissingAccounts = {}
    /\ mgServing' = TRUE
    /\ UNCHANGED <<mgOld, mgFiles, mgAt, mgReport>>

\* What its users do meanwhile: the names are unique but for their case, the first user
\* may be given what nobody owns, the key is made when a configuration is first looked for.
ServerWorks ==
    /\ mgServing
    /\ \/ \E l \in Logins, spelt \in {"lower", "upper"} :
            /\ mgUsers[l] = "none" /\ mgUsers' = [mgUsers EXCEPT ![l] = spelt]
            /\ \/ UNCHANGED mgConfigs
               \/ /\ \A m \in Logins : mgUsers[m] = "none"
                  /\ mgConfigs' = {<<"claimed", row[2]>> : row \in mgConfigs}
            /\ UNCHANGED <<mgHistory, mgKey, mgStore>>
       \/ /\ mgHistory' = mgHistory \cup {"own"}
          /\ UNCHANGED <<mgUsers, mgKey, mgConfigs, mgStore>>
       \/ /\ mgKey # "empty" /\ mgStore' = TRUE
          /\ mgKey' = IF mgKey = "none" THEN "own" ELSE mgKey
          /\ mgConfigs' \in {mgConfigs, mgConfigs \cup {<<"claimed", mgKey'>>}}
          /\ UNCHANGED <<mgUsers, mgHistory>>
    /\ UNCHANGED <<mgOld, mgAt, mgReport, mgServing>>

ServerStops == mgServing /\ mgServing' = FALSE
               /\ UNCHANGED <<mgOld, mgFiles, mgAt, mgReport>>

-------------------------------------------------------------------------------
\* _verify_key_pairing: the key is one, and opens the first row nobody has claimed.
KeyPairs(rows, key) ==
    key \in KeyNames /\ \A row \in rows : row[1] = "unclaimed" => row[2] = key

\* A slip: the key of the old place, which is the one its rows were written with.
OldSecretKey == "old"

\* _effective_secret_key: the key that is in force once the command is through.
EffectiveSecretKey == IF mgKey # "none" THEN mgKey ELSE "old"

OldRows == {<<o, "old">> : o \in mgOldConfigs}

Migrate(from, to) == mgAt = from /\ mgAt' = to /\ UNCHANGED <<mgOld, mgServing>>

MigrateLegacyState ==
    /\ ~mgServing /\ Migrate("idle", "secret") /\ UNCHANGED <<mgFiles, mgReport>>

\* _copy_secret opens the new file and truncates it, then writes; a key that is there
\* stays, whatever it is.
CopySecret ==
    \/ /\ mgKey = "none" /\ Migrate("secret", "write") /\ mgKey' = "empty"
       /\ UNCHANGED <<mgUsers, mgHistory, mgConfigs, mgStore, mgReport>>
    \/ /\ Migrate("write", "users") /\ mgKey' = "old"
       /\ UNCHANGED <<mgUsers, mgHistory, mgConfigs, mgStore, mgReport>>
    \/ /\ mgKey # "none" /\ Migrate("secret", "users") /\ UNCHANGED <<mgFiles, mgReport>>

\* _copy_sqlite into an empty table; _merge_users adds the names that are missing,
\* whatever their case.
CopyUsers ==
    /\ Migrate("users", "history")
    /\ mgUsers' = [l \in Logins |-> IF mgUsers[l] = "none" THEN mgOldUsers[l] ELSE mgUsers[l]]
    /\ UNCHANGED <<mgHistory, mgKey, mgConfigs, mgStore, mgReport>>

\* The conversations are not merged.
CopyHistory ==
    /\ Migrate("history", "configs")
    /\ mgHistory' = IF Populated(mgHistory) THEN mgHistory ELSE {"old"}
    /\ UNCHANGED <<mgUsers, mgKey, mgConfigs, mgStore, mgReport>>

\* The configurations are copied into an empty table, if the key in force opens them.
CopyConfigs ==
    /\ Migrate("configs", "verify")
    /\ IF ~Populated(mgConfigs) /\ KeyPairs(OldRows, EffectiveSecretKey)
       THEN mgConfigs' = OldRows /\ mgStore' = TRUE
       ELSE UNCHANGED <<mgConfigs, mgStore>>
    /\ UNCHANGED <<mgUsers, mgHistory, mgKey, mgReport>>

VerifyMigration ==
    /\ Migrate("verify", "idle")
    /\ mgReport' = IF ~Populated(mgConfigs) /\ ~KeyPairs(OldRows, EffectiveSecretKey)
                   THEN "unreadable"
                   ELSE IF mgStore /\ KeyPairs(mgConfigs, mgKey) THEN "verified"
                   ELSE "unverified"
    /\ UNCHANGED mgFiles

MigrationCutOff ==
    /\ mgAt # "idle" /\ mgAt' = "idle"
    /\ UNCHANGED <<mgOld, mgFiles, mgReport, mgServing>>

MigrationNext ==
    \/ ServerStarts \/ ServerWorks \/ ServerStops
    \/ MigrateLegacyState \/ CopySecret \/ CopyUsers \/ CopyHistory \/ CopyConfigs
    \/ VerifyMigration \/ MigrationCutOff

-------------------------------------------------------------------------------
\* Wherever the command was cut off, however often it was run and whatever a server did
\* in between: a configuration at the new place opens with the key there, unless the
\* old database had no row that was not claimed, so that nothing was tried on it
\* (state_migration.py:335).
ConfigurationsOpen ==
    \A row \in mgConfigs :
        \/ row[2] = mgKey
        \/ row = <<"claimed", "old">> /\ "unclaimed" \notin mgOldConfigs

\* When the command has been carried through, the server finds the old accounts, if
\* none of them has come up again in another case, and their conversations and
\* configurations, if the new place had none of its own and the key fits them.
CarriedThrough ==
    mgReport # "none" /\ mgAt = "idle" =>
      /\ \A l \in MissingAccounts : mgUsers[l] = "upper"
      /\ mgHistory # {}
      /\ mgReport = "verified" /\ mgConfigs = {} => mgOldConfigs = {}

MigrationIsWhole == ConfigurationsOpen /\ CarriedThrough

\* What was there before the accounts, or before the state files had a place of their
\* own, arrives as a whole: rows and settings nobody owns go to one user (auth/store.py,
\* server/api.py), accounts, conversations and configurations move with the key that
\* opens them (config/state_migration.py).
LegacyDataArrives == LegacyStaysTogether /\ MigrationIsWhole
===============================================================================
