---------------------------- MODULE AccountProofs ----------------------------
(***************************************************************************)
(* Proofs about what the server keeps for its accounts, for any number of   *)
(* accounts, requests and rows.                                             *)
(***************************************************************************)
EXTENDS Erasure, StateMigration, ProviderConfigs, TLAPS, FiniteSetTheorems

(***************************************************************************)
(* The erasure of an account                                               *)
(***************************************************************************)
ErasureSpec == ErasureInit /\ [][ErasureNext]_erasureVars

PurgedNow(p) == erPurge.at # "none" /\ erPurge.of = p

\* Why data of an account whose purge has gone past them may be there.
Excused(p, k) ==
    \/ <<p, k>> \in erSince
    \/ k = "facts" /\ p \in erNotes
    \/ k = "points" /\ p \in erHalf

\* A purge is of an account that counts as purged and not as erased.
PurgesAreNoted ==
    /\ erErased \subseteq erPurged
    /\ erPurge.at # "none" => erPurge.of \in erPurged \ erErased

\* What the purge under way has dealt with so far.
DoneSoFar ==
    /\ erPurge.at \in {"rows", "files", "read"} =>
         \A k \in {"rows", "facts"} : <<erPurge.of, k>> \in erData => Excused(erPurge.of, k)
    /\ erPurge.at \in {"files", "read"} \/ (erPurge.at # "none" /\ ~erPurge.listed) =>
         (<<erPurge.of, "points">> \in erData => Excused(erPurge.of, "points"))

\* A vector without its fact, unless the purge under way is about to remove it: so a
\* purge that finds no facts listed has no vectors to remove.
VectorsHaveFacts ==
    \A p \in People :
        <<p, "points">> \in erData /\ <<p, "facts">> \notin erData =>
            Excused(p, "points") \/ (PurgedNow(p) /\ erPurge.at = "rows" /\ erPurge.listed)

\* A fact whose vector is being made is there, unless a purge took it.
EmbeddedAreFacts == \A p \in erEmbedding : <<p, "facts">> \in erData \/ p \in erPurged

\* The lines kept by a purge that has read the file.
KeptLines ==
    erPurge.at = "read" =>
        \A l \in erWritten : l \notin erPurge.kept => l \in erGap \/ l[1] \in erPurged

ErasureInv ==
    /\ ErasureTypeOK
    /\ IsFiniteSet(erWritten)
    /\ PurgesAreNoted
    /\ DoneSoFar
    /\ VectorsHaveFacts
    /\ EmbeddedAreFacts
    /\ KeptLines
    /\ PurgeIsExact

LEMMA ErasureInitially == ErasureInit => ErasureInv
BY ErasureAssumption, FS_EmptySet
   DEF ErasureInit, ErasureInv, ErasureTypeOK, PurgesAreNoted, DoneSoFar, VectorsHaveFacts,
       EmbeddedAreFacts, KeptLines, PurgeIsExact, Excused, PurgedNow, NoPurge, RowOwners, StoredKinds

\* The types, step by step.
LEMMA ErasureTypes ==
    ASSUME ErasureInv, [ErasureNext]_erasureVars
    PROVE  ErasureTypeOK' /\ IsFiniteSet(erWritten')
<1> USE ErasureAssumption DEF ErasureInv, ErasureTypeOK, RowOwners, StoredKinds
<1> DEFINE Purges == [at : {"none", "listed", "rows", "files", "read"}, of : RowOwners,
                      listed : BOOLEAN, kept : SUBSET AuditLines]
<1>1. CASE UNCHANGED erasureVars
  BY <1>1 DEF erasureVars
<1>2. ASSUME NEW p \in People, StartRun(p) \/ SaveRows(p) \/ SaveFact(p) \/ SavePoint(p)
      PROVE  ErasureTypeOK' /\ IsFiniteSet(erWritten')
  BY <1>2 DEF StartRun, SaveRows, SaveFact, SavePoint, StoreFor, erAuditVars, erPurgeVars
<1>3. ASSUME NEW p \in People, WriteLine(p) PROVE ErasureTypeOK' /\ IsFiniteSet(erWritten')
  <2>1. Cardinality(erWritten) \in Nat
    BY FS_CardinalityType
  <2>2. <<p, Cardinality(erWritten) + 1>> \in AuditLines
    BY <1>3, <2>1 DEF WriteLine, AuditLines
  <2>3. IsFiniteSet(erWritten')
    BY <1>3, FS_AddElement DEF WriteLine
  <2> QED BY <1>3, <2>2, <2>3 DEF WriteLine, erPurgeVars
<1>4. ASSUME NEW p \in People, EndRun(p) \/ PurgeStarts(p)
      PROVE  ErasureTypeOK' /\ IsFiniteSet(erWritten')
  <2>1. CASE EndRun(p)
    BY <2>1 DEF EndRun, erAuditVars, erPurgeVars
  <2>2. CASE PurgeStarts(p)
    <3>1. erPurge' \in Purges
      BY <2>2 DEF PurgeStarts, Purges
    <3> QED BY <2>2, <3>1 DEF PurgeStarts, erAuditVars, Purges
  <2> QED BY <1>4, <2>1, <2>2
<1>5. CASE PurgeRows \/ PurgePoints \/ PurgeReads
  <2>1. \A at \in {"rows", "files", "read"}, kept \in SUBSET AuditLines :
          /\ [erPurge EXCEPT !.at = at] \in Purges
          /\ [erPurge EXCEPT !.at = at, !.kept = kept] \in Purges
    BY DEF Purges
  <2>2. {l \in erAudit : l[1] # erPurge.of} \in SUBSET AuditLines
    OBVIOUS
  <2>3. erPurge' \in Purges
    <3> HIDE DEF Purges
    <3>1. CASE PurgeRows
      BY <2>1, <3>1 DEF PurgeRows, Purging
    <3>2. CASE PurgePoints
      BY <2>1, <3>2 DEF PurgePoints, PointsGone, Purging
    <3>3. CASE PurgeReads
      BY <2>1, <2>2, <3>3 DEF PurgeReads
    <3> QED BY <1>5, <3>1, <3>2, <3>3
  <2> QED BY <1>5, <2>3 DEF PurgeRows, PurgePoints, PurgeReads, PointsGone, Purging, Without,
                            erAuditVars, Purges
<1>6. CASE PurgeReplaces \/ ErasureRestart
  <2>1. NoPurge \in Purges
    BY DEF NoPurge, Purges
  <2>2. erPurge.at # "none" => erPurge.of \in People
    BY DEF PurgesAreNoted
  <2>3. erPurge.kept \subseteq AuditLines
    OBVIOUS
  <2> QED BY <1>6, <2>1, <2>2, <2>3 DEF PurgeReplaces, ErasureRestart, erAuditVars, Purges
<1> QED BY <1>1, <1>2, <1>3, <1>4, <1>5, <1>6 DEF ErasureNext

\* Every step of a run, of a purge or of a restart keeps the invariant.
LEMMA ErasureStep == ErasureInv /\ [ErasureNext]_erasureVars => ErasureInv'
<1> SUFFICES ASSUME ErasureInv, [ErasureNext]_erasureVars PROVE ErasureInv'
  OBVIOUS
<1>0. ErasureTypeOK' /\ IsFiniteSet(erWritten')
  BY ErasureTypes
<1> DEFINE Rest == /\ PurgesAreNoted /\ DoneSoFar /\ VectorsHaveFacts
                   /\ EmbeddedAreFacts /\ KeptLines /\ PurgeIsExact
<1> USE ErasureAssumption
    DEF ErasureInv, ErasureTypeOK, PurgesAreNoted, DoneSoFar, VectorsHaveFacts, EmbeddedAreFacts,
        KeptLines, PurgeIsExact, Excused, PurgedNow, RowOwners, StoredKinds
<1>1. CASE UNCHANGED erasureVars
  BY <1>1 DEF erasureVars
<1>2. ASSUME NEW p \in People, StartRun(p) \/ SaveRows(p) \/ SaveFact(p) \/ SavePoint(p)
      PROVE  Rest'
  <2>1. CASE StartRun(p) \/ SaveRows(p)
    BY <2>1 DEF StartRun, SaveRows, StoreFor, erAuditVars, erPurgeVars
  <2>2. CASE SaveFact(p)
    BY <2>2 DEF SaveFact, StoreFor, erAuditVars, erPurgeVars
  <2>3. CASE SavePoint(p)
    BY <2>3 DEF SavePoint, StoreFor, erAuditVars, erPurgeVars
  <2> QED BY <1>2, <2>1, <2>2, <2>3
<1>3. ASSUME NEW p \in People, WriteLine(p) \/ EndRun(p) PROVE Rest'
  BY <1>3 DEF WriteLine, EndRun, erAuditVars, erPurgeVars
<1>4. ASSUME NEW p \in People, PurgeStarts(p) PROVE Rest'
  BY <1>4 DEF PurgeStarts, erAuditVars
<1>5. CASE PurgeRows
  BY <1>5 DEF PurgeRows, Purging, Without, erAuditVars
<1>6. CASE PurgePoints
  BY <1>6 DEF PurgePoints, PointsGone, Purging, Without, erAuditVars
<1>7. CASE PurgeReads
  BY <1>7 DEF PurgeReads, erAuditVars
<1>8. CASE PurgeReplaces
  BY <1>8 DEF PurgeReplaces, NoPurge
<1>9. CASE ErasureRestart
  BY <1>9 DEF ErasureRestart, NoPurge, erAuditVars
<1> HIDE DEF Rest
<1>10. Rest'
  BY <1>1, <1>2, <1>3, <1>4, <1>5, <1>6, <1>7, <1>8, <1>9 DEF ErasureNext, Rest
<1> QED BY <1>0, <1>10 DEF Rest

\* An erased account leaves nothing but what came after its own step of the purge, what
\* restarts bring back from the old notes and vectors orphaned by a purge cut off before
\* (tenant_data.py:87); the audit of others loses only lines appended while the file was
\* being replaced.
THEOREM ErasureLeavesNothing == ErasureSpec => []PurgeIsExact
<1>1. ErasureInv => PurgeIsExact
  BY DEF ErasureInv
<1> QED BY <1>1, ErasureInitially, ErasureStep, PTL DEF ErasureSpec

----------------------------------------------------------------------------
(***************************************************************************)
(* The data of the single-user days                                        *)
(***************************************************************************)
AccountsSpec == AccountsInit /\ [][AccountsNext]_accountVars

\* Only a registration that found no users goes on to claim, the rows first; what is
\* claimed belongs to one whose row is in the table of users.
ClaimsAreOfTheFirst ==
    /\ \A n \in Names : acSignUp[n] \in {"claims", "settings"} => n \in acFirst
    /\ \A n \in Names : acSignUp[n] = "settings" => acRows # Unclaimed
    /\ acRows # Unclaimed => acRows \in acFirst \cap Registered
    /\ acSettings # Unclaimed => acSettings \in acFirst \cap Registered /\ acRows # Unclaimed

AccountsInv ==
    /\ AccountsTypeOK
    /\ IsFiniteSet(acFirst)
    /\ ClaimsAreOfTheFirst

\* A set with two members has more than one.
LEMMA TwoAreMany ==
    ASSUME NEW S, IsFiniteSet(S), NEW a \in S, NEW b \in S, a # b
    PROVE  Cardinality(S) > 1
<1>1. {a, b} \subseteq S /\ Cardinality({a, b}) = 2
  <2>1. IsFiniteSet({a}) /\ Cardinality({a}) = 1 /\ b \notin {a}
    BY FS_Singleton
  <2>2. Cardinality({a} \cup {b}) = 2
    BY <2>1, FS_AddElement
  <2>3. {a} \cup {b} = {a, b}
    OBVIOUS
  <2> QED BY <2>2, <2>3
<1>2. Cardinality({a, b}) <= Cardinality(S)
  BY <1>1, FS_Subset
<1> QED BY <1>1, <1>2, FS_CardinalityType

LEMMA AccountsInitially == AccountsInit => AccountsInv
BY AccountsAssumption, FS_EmptySet
   DEF AccountsInit, AccountsInv, AccountsTypeOK, ClaimsAreOfTheFirst

LEMMA AccountsStep == AccountsInv /\ [AccountsNext]_accountVars => AccountsInv'
<1> SUFFICES ASSUME AccountsInv, [AccountsNext]_accountVars PROVE AccountsInv'
  OBVIOUS
<1> USE AccountsAssumption
    DEF AccountsInv, AccountsTypeOK, ClaimsAreOfTheFirst, Registered, legacyVars, limiterVars
<1>1. CASE UNCHANGED accountVars
  BY <1>1 DEF accountVars
<1>2. CASE ServerDies
  <2>1. acFirst' \subseteq acFirst /\ IsFiniteSet(acFirst')
    BY <1>2, FS_Subset DEF ServerDies
  <2> QED BY <1>2, <2>1 DEF ServerDies
<1>3. ASSUME NEW n \in Names, CheckName(n) PROVE AccountsInv'
  <2>1. IsFiniteSet(acFirst')
    BY <1>3, FS_AddElement DEF CheckName
  <2> QED BY <1>3, <2>1 DEF CheckName, SignUp
<1>4. ASSUME NEW n \in Names, InsertUser(n) PROVE AccountsInv'
  BY <1>4 DEF InsertUser, SignUp
<1>5. ASSUME NEW n \in Names, ClaimRows(n) \/ ClaimSettings(n) PROVE AccountsInv'
  BY <1>5 DEF ClaimRows, ClaimSettings, SignUp
<1>6. ASSUME NEW n \in Names, Attempt(n) \/ WindowOver(n) \/ TokenOver(n)
      PROVE  AccountsInv'
  BY <1>6 DEF Attempt, WindowOver, TokenOver
<1>7. ASSUME NEW n \in Names, NEW right \in BOOLEAN, Verified(n, right) PROVE AccountsInv'
  BY <1>7 DEF Verified
<1> QED BY <1>1, <1>2, <1>3, <1>4, <1>5, <1>6, <1>7 DEF AccountsNext

\* The old conversations and the old settings go to one account, unless several
\* registrations found the table of users empty (auth/store.py:208): a registration that
\* stops between the two claims leaves the settings to nobody.
LEMMA ClaimsStayTogether == AccountsSpec => []LegacyStaysTogether
<1>1. AccountsInv => LegacyStaysTogether
  BY TwoAreMany DEF AccountsInv, ClaimsAreOfTheFirst, LegacyStaysTogether
<1> QED BY <1>1, AccountsInitially, AccountsStep, PTL DEF AccountsSpec

----------------------------------------------------------------------------
(***************************************************************************)
(* The move of the state files                                             *)
(***************************************************************************)
MigrationSpec == MigrationInit /\ [][MigrationNext]_migrationVars

\* No server runs beside the command; past its first step there is a key, and while it is
\* being written the file is empty.  Without a key there are no configurations.
KeyComesFirst ==
    /\ mgServing => mgAt = "idle"
    /\ mgAt \notin {"idle", "secret"} => mgKey # "none"
    /\ mgAt = "write" => mgKey = "empty"
    /\ mgKey = "none" => mgConfigs = {}

\* What a command has done so far stays done: nothing takes it back.
DoneStaysDone ==
    /\ mgReport # "none" \/ mgAt \in {"history", "configs", "verify"} =>
         \A l \in Logins : mgUsers[l] = "none" => mgOldUsers[l] = "none"
    /\ mgReport # "none" \/ mgAt \in {"configs", "verify"} => mgHistory # {}
    /\ mgAt = "verify" /\ mgConfigs = {} =>
         mgOldConfigs = {} \/ ~KeyPairs(OldRows, EffectiveSecretKey)
    /\ mgReport = "verified" /\ mgConfigs = {} => mgOldConfigs = {}

MigrationInv ==
    /\ MigrationTypeOK
    /\ KeyComesFirst
    /\ DoneStaysDone
    /\ ConfigurationsOpen

LEMMA MigrationInitially == MigrationInit => MigrationInv
<1> SUFFICES ASSUME MigrationInit PROVE MigrationInv
  OBVIOUS
<1>1. /\ mgConfigs = {} \/ (mgConfigs = {<<"claimed", "own">>} /\ mgKey = "own")
      /\ mgKey \in {"none", "own"} /\ mgStore \in BOOLEAN
  BY DEF MigrationInit
<1>2. mgConfigs \subseteq Ownership \X KeyNames
  BY <1>1 DEF Ownership, KeyNames
<1>3. MigrationTypeOK
  BY <1>1, <1>2 DEF MigrationInit, MigrationTypeOK, KeyNames
<1>4. ConfigurationsOpen
  BY <1>1 DEF ConfigurationsOpen
<1> QED BY <1>1, <1>3, <1>4 DEF MigrationInit, MigrationInv, KeyComesFirst, DoneStaysDone

\* An account that is missing is written in another case at the new place.
LEMMA MissingIsRespelt ==
    ASSUME MigrationTypeOK, NEW l \in MissingAccounts
    PROVE  l \in Logins /\ mgOldUsers[l] = "lower" /\ mgUsers[l] \in {"none", "upper"}
<1>1. PICK account \in Spelt(mgOldUsers) \ Spelt(mgUsers) : l = account[1]
  BY DEF MissingAccounts
<1>2. l \in Logins /\ mgOldUsers[l] # "none" /\ account = <<l, mgOldUsers[l]>>
  BY <1>1 DEF Spelt
<1>3. mgUsers[l] # "lower"
  BY <1>1, <1>2 DEF Spelt, MigrationTypeOK
<1> QED BY <1>2, <1>3 DEF MigrationTypeOK

\* The rows of the old place, and those of the new one when somebody has claimed them.
LEMMA OldRowsAre ==
    ASSUME MigrationTypeOK
    PROVE  /\ OldRows \subseteq Ownership \X KeyNames
           /\ OldRows = {} <=> mgOldConfigs = {}
           /\ \A row \in OldRows : row[2] = "old" /\ row[1] \in mgOldConfigs
           /\ \A row \in OldRows : row[1] = "claimed" => row = <<"claimed", "old">>
           /\ "unclaimed" \in mgOldConfigs => \E row \in OldRows : row[1] = "unclaimed"
<1>1. mgOldConfigs \subseteq {"claimed", "unclaimed"}
  BY DEF MigrationTypeOK, Ownership
<1>2. \A row \in OldRows : \E o \in mgOldConfigs : row = <<o, "old">>
  BY DEF OldRows
<1>3. \A o \in mgOldConfigs : <<o, "old">> \in OldRows
  BY DEF OldRows
<1>4. OldRows \subseteq Ownership \X KeyNames
  BY <1>1, <1>2 DEF Ownership, KeyNames
<1>5. \A row \in OldRows : row[2] = "old" /\ row[1] \in mgOldConfigs
                           /\ (row[1] = "claimed" => row = <<"claimed", "old">>)
  BY <1>2
<1>6. OldRows = {} <=> mgOldConfigs = {}
  BY <1>2, <1>3
<1>7. "unclaimed" \in mgOldConfigs => \E row \in OldRows : row[1] = "unclaimed"
  BY <1>3
<1> QED BY <1>4, <1>5, <1>6, <1>7

\* Rows that pair with a key open with it, or had been claimed before the move.
LEMMA PairedRowsOpen ==
    ASSUME MigrationTypeOK, NEW key, KeyPairs(OldRows, key)
    PROVE  \A row \in OldRows :
             row[2] = key \/ (row = <<"claimed", "old">> /\ "unclaimed" \notin mgOldConfigs)
<1> SUFFICES ASSUME NEW row \in OldRows, row[2] # key
             PROVE  row = <<"claimed", "old">> /\ "unclaimed" \notin mgOldConfigs
  OBVIOUS
<1>1. \A other \in OldRows : other[1] = "unclaimed" => other[2] = key
  BY DEF KeyPairs
<1>2. "unclaimed" \notin mgOldConfigs
  BY <1>1, OldRowsAre
<1>3. row[1] = "claimed"
  BY <1>2, OldRowsAre DEF MigrationTypeOK, Ownership
<1> QED BY <1>2, <1>3, OldRowsAre

ClaimedRows == {<<"claimed", row[2]>> : row \in mgConfigs}

LEMMA ClaimedRowsAre ==
    ASSUME MigrationTypeOK, ConfigurationsOpen
    PROVE  /\ ClaimedRows \subseteq Ownership \X KeyNames
           /\ ClaimedRows = {} <=> mgConfigs = {}
           /\ \A row \in ClaimedRows :
                row[2] = mgKey \/ (row = <<"claimed", "old">> /\ "unclaimed" \notin mgOldConfigs)
<1>1. \A row \in ClaimedRows : \E old \in mgConfigs : row = <<"claimed", old[2]>>
  BY DEF ClaimedRows
<1>2. \A old \in mgConfigs : <<"claimed", old[2]>> \in ClaimedRows /\ old[2] \in KeyNames
  BY DEF ClaimedRows, MigrationTypeOK
<1>3. ClaimedRows \subseteq Ownership \X KeyNames
  BY <1>1, <1>2 DEF Ownership
<1>4. ClaimedRows = {} <=> mgConfigs = {}
  BY <1>1, <1>2
<1>5. ASSUME NEW row \in ClaimedRows
      PROVE  row[2] = mgKey \/ (row = <<"claimed", "old">> /\ "unclaimed" \notin mgOldConfigs)
  <2>1. PICK old \in mgConfigs : row = <<"claimed", old[2]>>
    BY <1>1
  <2>2. old[2] = mgKey \/ (old[2] = "old" /\ "unclaimed" \notin mgOldConfigs)
    BY DEF ConfigurationsOpen
  <2> QED BY <2>1, <2>2
<1> QED BY <1>3, <1>4, <1>5

LEMMA MigrationStep == MigrationInv /\ [MigrationNext]_migrationVars => MigrationInv'
<1> SUFFICES ASSUME MigrationInv, [MigrationNext]_migrationVars PROVE MigrationInv'
  OBVIOUS
<1> USE DEF MigrationInv, MigrationTypeOK, KeyComesFirst, DoneStaysDone, ConfigurationsOpen,
            mgFiles, mgOld
<1>1. CASE UNCHANGED migrationVars
  BY <1>1 DEF migrationVars, OldRows, EffectiveSecretKey, KeyPairs
<1>2. CASE ServerStarts \/ ServerStops
  BY <1>2 DEF ServerStarts, ServerStops
<1>3. CASE ServerWorks
  <2>1. /\ ClaimedRows \subseteq Ownership \X KeyNames
        /\ ClaimedRows = {} <=> mgConfigs = {}
        /\ \A row \in ClaimedRows :
              row[2] = mgKey \/ (row = <<"claimed", "old">> /\ "unclaimed" \notin mgOldConfigs)
    BY ClaimedRowsAre
  <2>2. ASSUME NEW l \in Logins, NEW spelt \in {"lower", "upper"}, mgUsers[l] = "none",
               mgUsers' = [mgUsers EXCEPT ![l] = spelt], mgConfigs' \in {mgConfigs, ClaimedRows},
               UNCHANGED <<mgHistory, mgKey, mgStore, mgOld, mgAt, mgReport, mgServing>>
        PROVE  MigrationInv'
    BY <1>3, <2>1, <2>2 DEF ServerWorks
  <2>3. CASE /\ mgHistory' = mgHistory \cup {"own"}
             /\ UNCHANGED <<mgUsers, mgKey, mgConfigs, mgStore, mgOld, mgAt, mgReport, mgServing>>
    BY <1>3, <2>3 DEF ServerWorks, KeyNames
  <2>4. CASE /\ mgKey # "empty" /\ mgStore' = TRUE
             /\ mgKey' = IF mgKey = "none" THEN "own" ELSE mgKey
             /\ mgConfigs' \in {mgConfigs, mgConfigs \cup {<<"claimed", mgKey'>>}}
             /\ UNCHANGED <<mgUsers, mgHistory, mgOld, mgAt, mgReport, mgServing>>
    <3>1. mgKey' \in KeyNames /\ mgAt = "idle"
      BY <1>3, <2>4 DEF ServerWorks, KeyNames
    <3>2. mgConfigs' \subseteq Ownership \X KeyNames
      BY <2>4, <3>1 DEF Ownership
    <3>3. ConfigurationsOpen'
      BY <2>4, <3>1
    <3> QED BY <1>3, <2>4, <3>1, <3>2, <3>3 DEF ServerWorks
  <2> QED BY <1>3, <2>2, <2>3, <2>4 DEF ServerWorks, ClaimedRows
<1>4. CASE MigrateLegacyState \/ CopySecret
  <2>1. CASE MigrateLegacyState
    BY <2>1 DEF MigrateLegacyState, Migrate
  <2>2. CASE mgAt = "secret" /\ CopySecret
    BY <2>2 DEF CopySecret, Migrate
  <2>3. CASE mgAt = "write" /\ CopySecret
    <3>1. \A row \in mgConfigs : row[2] \in KeyNames /\ mgKey = "empty"
      BY <2>3
    <3>2. \A row \in mgConfigs : row = <<"claimed", "old">> /\ "unclaimed" \notin mgOldConfigs
      BY <3>1 DEF KeyNames
    <3>3. /\ mgKey' = "old" /\ mgAt' = "users"
          /\ UNCHANGED <<mgUsers, mgHistory, mgConfigs, mgStore, mgReport, mgOld, mgServing>>
      BY <2>3 DEF CopySecret, Migrate
    <3>4. MigrationTypeOK' /\ KeyComesFirst'
      BY <2>3, <3>3 DEF KeyNames
    <3>5. ConfigurationsOpen'
      BY <3>2, <3>3
    <3>6. DoneStaysDone'
      BY <2>3, <3>3
    <3> QED BY <3>4, <3>5, <3>6
  <2> QED BY <1>4, <2>1, <2>2, <2>3 DEF CopySecret, Migrate
<1>5. CASE CopyUsers
  BY <1>5 DEF CopyUsers, Migrate
<1>6. CASE CopyHistory
  BY <1>6 DEF CopyHistory, Migrate, Populated, KeyNames
<1>7. CASE CopyConfigs
  <2>1. OldRows \subseteq Ownership \X KeyNames /\ (OldRows = {} <=> mgOldConfigs = {})
    BY OldRowsAre
  <2>2. KeyPairs(OldRows, mgKey) =>
          \A row \in OldRows :
            row[2] = mgKey \/ (row = <<"claimed", "old">> /\ "unclaimed" \notin mgOldConfigs)
    BY PairedRowsOpen
  <2>3. EffectiveSecretKey = mgKey /\ EffectiveSecretKey' = mgKey /\ UNCHANGED OldRows
    BY <1>7 DEF CopyConfigs, Migrate, EffectiveSecretKey, OldRows
  <2>4. CASE ~Populated(mgConfigs) /\ KeyPairs(OldRows, EffectiveSecretKey)
    BY <1>7, <2>1, <2>2, <2>3, <2>4 DEF CopyConfigs, Migrate
  <2>5. CASE ~(~Populated(mgConfigs) /\ KeyPairs(OldRows, EffectiveSecretKey))
    <3>1. KeyPairs(OldRows, EffectiveSecretKey)' = KeyPairs(OldRows, EffectiveSecretKey)
      BY <2>3 DEF KeyPairs
    <3> QED BY <1>7, <2>1, <2>3, <2>5, <3>1 DEF CopyConfigs, Migrate, Populated
  <2> QED BY <2>4, <2>5
<1>8. CASE VerifyMigration
  BY <1>8 DEF VerifyMigration, Migrate, Populated
<1>9. CASE MigrationCutOff
  BY <1>9 DEF MigrationCutOff
<1> QED BY <1>1, <1>2, <1>3, <1>4, <1>5, <1>6, <1>7, <1>8, <1>9 DEF MigrationNext

\* Wherever the command is cut off and whatever a server does in between: configurations
\* open with the key beside them, and a command carried through has brought accounts,
\* conversations and configurations as far as they were not there or not readable
\* (state_migration.py:335).
LEMMA MigrationBringsAll == MigrationSpec => []MigrationIsWhole
<1>1. MigrationInv => MigrationIsWhole
  <2> SUFFICES ASSUME MigrationInv PROVE MigrationIsWhole
    OBVIOUS
  <2>1. mgReport # "none" => \A l \in MissingAccounts : mgUsers[l] = "upper"
    BY MissingIsRespelt DEF MigrationInv, DoneStaysDone
  <2> QED BY <2>1 DEF MigrationInv, DoneStaysDone, MigrationIsWhole, CarriedThrough
<1> QED BY <1>1, MigrationInitially, MigrationStep, PTL DEF MigrationSpec

\* What was there before the accounts, or before the state files had a place of their own,
\* arrives as a whole (auth/store.py:208, state_migration.py:335), for any number of
\* accounts, registrations and moves.
THEOREM LegacyArrives == AccountsSpec /\ MigrationSpec => []LegacyDataArrives
BY ClaimsStayTogether, MigrationBringsAll, PTL DEF LegacyDataArrives

----------------------------------------------------------------------------
(***************************************************************************)
(* The provider settings and the resolver's cache                          *)
(***************************************************************************)
ConfigSpec == ConfigInit /\ [][ConfigNext]_configVars

\* What a request knows of its row.
Requests ==
    [at : {"idle", "checked", "seen", "committed"},
     op : {"create", "update", "activate", "delete"},
     id : Ids \cup {0}, owner : Owners \cup {NoConfig}, label : Labels \cup {NoConfig}]

RequestsAreDefinite ==
    /\ pcWriter \in [Writers -> Requests]
    /\ \A w \in Writers : pcWriter[w].at \in {"checked", "seen"} =>
         /\ pcWriter[w].owner \in Owners
         /\ pcWriter[w].op # "create" => pcWriter[w].id \in Ids
         /\ pcWriter[w].op \in {"create", "update"} => pcWriter[w].label \in Labels

\* Ids are given out once: a row that is gone does not come back under its id.
IdsAreFresh ==
    /\ \A i \in Ids : pcRows[i] # NoConfig => i < pcNextId
    /\ pcReading # NoConfig => pcReading.id < pcNextId
    /\ pcCache # NoConfig => pcCache.id < pcNextId

SomeoneCommitted == \E w \in Writers : pcWriter[w].at = "committed"

\* What the resolver has read or keeps of a row is what the row says, unless a request
\* that has changed it is still to come back to the loop.
ReadIsCurrent ==
    pcReading # NoConfig /\ Exists(pcReading.id, pcReading.owner) =>
        pcReading.fields = pcRows[pcReading.id].edit \/ SomeoneCommitted

CacheIsCurrent ==
    pcCache # NoConfig /\ pcCache.id \in Ids /\ Exists(pcCache.id, pcCache.owner) =>
        \/ pcCache.fields = pcRows[pcCache.id].edit /\ pcCache.secret = pcRows[pcCache.id].edit
        \/ SomeoneCommitted

ConfigInv ==
    /\ ConfigTypeOK
    /\ RequestsAreDefinite
    /\ IdsAreFresh
    /\ ReadIsCurrent
    /\ CacheIsCurrent

LEMMA ConfigInitially == ConfigInit => ConfigInv
BY ConfigAssumption
   DEF ConfigInit, ConfigInv, ConfigTypeOK, RequestsAreDefinite, Requests, IdsAreFresh,
       ReadIsCurrent, CacheIsCurrent, Resting, Ids

\* Switching the active row off leaves everything else of the rows as it is.
LEMMA NoneActiveKeeps ==
    ASSUME ConfigTypeOK, NEW u
    PROVE  /\ NoneActive(u) \in [Ids -> ConfigRow \cup {NoConfig}]
           /\ \A i \in Ids :
                /\ NoneActive(u)[i] = NoConfig <=> pcRows[i] = NoConfig
                /\ pcRows[i] # NoConfig =>
                     /\ NoneActive(u)[i].owner = pcRows[i].owner
                     /\ NoneActive(u)[i].label = pcRows[i].label
                     /\ NoneActive(u)[i].edit = pcRows[i].edit
                     /\ NoneActive(u)[i].active => pcRows[i].active
                     /\ ~(NoneActive(u)[i].active /\ NoneActive(u)[i].owner = u)
<1>1. NoneActive(u) \in [Ids -> ConfigRow \cup {NoConfig}]
  BY NoConfigAssumption DEF ConfigTypeOK, NoneActive, RowsOf, Exists, ConfigRow
<1>2. \A i \in Ids : NoneActive(u)[i] = NoConfig <=> pcRows[i] = NoConfig
  BY NoConfigAssumption DEF ConfigTypeOK, NoneActive, RowsOf, Exists, ConfigRow
<1>3. ASSUME NEW i \in Ids, pcRows[i] # NoConfig
      PROVE  /\ NoneActive(u)[i].owner = pcRows[i].owner
             /\ NoneActive(u)[i].label = pcRows[i].label
             /\ NoneActive(u)[i].edit = pcRows[i].edit
             /\ NoneActive(u)[i].active => pcRows[i].active
             /\ ~(NoneActive(u)[i].active /\ NoneActive(u)[i].owner = u)
  <2>1. pcRows[i] \in ConfigRow
    BY <1>3 DEF ConfigTypeOK
  <2>2. NoneActive(u)[i] = IF pcRows[i].owner = u THEN [pcRows[i] EXCEPT !.active = FALSE]
                           ELSE pcRows[i]
    BY <1>3 DEF NoneActive, RowsOf, Exists
  <2> QED BY <2>1, <2>2 DEF ConfigRow
<1> QED BY <1>1, <1>2, <1>3

\* The rows of the other accounts do not count for the unique names and the one active row.
RowsAreUnique(rows) ==
    \A i, j \in Ids : i # j /\ rows[i] # NoConfig /\ rows[j] # NoConfig
                      /\ rows[i].owner = rows[j].owner
        => ~(rows[i].active /\ rows[j].active) /\ rows[i].label # rows[j].label

\* The request table, when a request moves on.
LEMMA RequestMoves ==
    ASSUME ConfigInv, NEW w \in Writers, NEW at \in {"seen", "committed"},
           pcWriter[w].at \in {"checked", "seen"}
    PROVE  /\ [pcWriter EXCEPT ![w].at = at] \in [Writers -> Requests]
           /\ [pcWriter EXCEPT ![w] = Resting] \in [Writers -> Requests]
BY DEF ConfigInv, RequestsAreDefinite, Requests, Resting

\* A request that has changed the table keeps the promise open until it is back.
LEMMA TableStep ==
    ASSUME ConfigInv, NEW w \in Writers,
           \/ \E b \in BOOLEAN : CreateConfig(w, b)
           \/ UpdateConfig(w) \/ ActivateConfig(w) \/ DeleteConfig(w)
    PROVE  ConfigInv'
<1> USE ConfigAssumption, NoConfigAssumption
<1> DEFINE r == pcWriter[w]
<1>1. /\ r.owner \in Owners /\ r.at \in {"checked", "seen"} /\ r \in Requests
      /\ r.op # "create" => r.id \in Ids
      /\ r.op \in {"create", "update"} => r.label \in Labels
      /\ UNCHANGED <<pcSecond, pcReading, pcCache>>
  BY DEF CreateConfig, UpdateConfig, ActivateConfig, DeleteConfig, ConfigInv, RequestsAreDefinite
<1>2. pcWriter' \in [Writers -> Requests]
      /\ (pcWriter' = [pcWriter EXCEPT ![w].at = "committed"]
            \/ pcWriter' = [pcWriter EXCEPT ![w] = Resting])
  BY <1>1, RequestMoves
     DEF CreateConfig, UpdateConfig, ActivateConfig, DeleteConfig, Committed, Rejected
<1>3. RequestsAreDefinite'
  BY <1>1, <1>2 DEF ConfigInv, RequestsAreDefinite, Requests, Resting
<1>4. SomeoneCommitted => SomeoneCommitted'
  BY <1>1, <1>2 DEF SomeoneCommitted, ConfigInv, RequestsAreDefinite, Requests
<1>5. pcWriter' = [pcWriter EXCEPT ![w].at = "committed"] => SomeoneCommitted'
  BY DEF SomeoneCommitted, ConfigInv, RequestsAreDefinite, Requests
<1> DEFINE TableGoal ==
      /\ pcRows' \in [Ids -> ConfigRow \cup {NoConfig}] /\ RowsAreUnique(pcRows')
      /\ pcNextId' \in 1..MaxConfigs + 1 /\ pcNextId' >= pcNextId
      /\ \A i \in Ids : pcRows'[i] # NoConfig => i < pcNextId'
      /\ \A i \in Ids : i < pcNextId /\ pcRows'[i] # NoConfig =>
           /\ pcRows[i] # NoConfig /\ pcRows'[i].owner = pcRows[i].owner
           /\ pcRows'[i].edit = pcRows[i].edit \/ SomeoneCommitted'
<1> HIDE DEF TableGoal
<1>6. TableGoal
  <2>0. /\ pcRows \in [Ids -> ConfigRow \cup {NoConfig}] /\ RowsAreUnique(pcRows)
        /\ pcNextId \in 1..MaxConfigs + 1 /\ \A i \in Ids : pcRows[i] # NoConfig => i < pcNextId
        /\ pcSecond \in 0..MaxSecond
    BY DEF ConfigInv, ConfigTypeOK, IdsAreFresh, RowsAreUnique
  <2>1. ASSUME NEW b \in BOOLEAN, CreateConfig(w, b) PROVE TableGoal
    <3>1. CASE Taken(r.owner, r.label, 0)
      BY <2>0, <2>1, <3>1 DEF CreateConfig, TableGoal
    <3>2. CASE ~Taken(r.owner, r.label, 0)
      <4> DEFINE off == IF b THEN NoneActive(r.owner) ELSE pcRows
                 new == [owner |-> r.owner, label |-> r.label, edit |-> 1, stamp |-> pcSecond,
                         active |-> b]
      <4>1. /\ pcNextId \in Ids /\ pcRows' = [off EXCEPT ![pcNextId] = new]
            /\ pcNextId' = pcNextId + 1 /\ r.label \in Labels
        BY <1>1, <2>1, <3>2 DEF CreateConfig
      <4> HIDE DEF off
      <4>2. new \in ConfigRow
        BY <1>1, <2>0, <4>1 DEF ConfigRow
      <4>3. /\ off \in [Ids -> ConfigRow \cup {NoConfig}]
            /\ \A i \in Ids :
                 /\ off[i] = NoConfig <=> pcRows[i] = NoConfig
                 /\ pcRows[i] # NoConfig =>
                      /\ off[i].owner = pcRows[i].owner /\ off[i].label = pcRows[i].label
                      /\ off[i].edit = pcRows[i].edit
                      /\ off[i].active => pcRows[i].active
                      /\ b => ~(off[i].active /\ off[i].owner = r.owner)
        <5>1. CASE b
          <6>1. off = NoneActive(r.owner)
            BY <5>1 DEF off
          <6>2. ConfigTypeOK
            BY DEF ConfigInv
          <6> QED BY <5>1, <6>1, <6>2, NoneActiveKeeps
        <5>2. CASE ~b
          <6>1. off = pcRows
            BY <5>2 DEF off
          <6> QED BY <2>0, <5>2, <6>1
        <5> QED BY <5>1, <5>2
      <4>4. \A i \in Ids : pcRows[i] # NoConfig /\ pcRows[i].owner = r.owner =>
                             pcRows[i].label # r.label
        BY <3>2 DEF Taken, RowsOf, Exists, Ids
      <4>5. RowsAreUnique(pcRows')
        BY <2>0, <4>1, <4>3, <4>4 DEF RowsAreUnique
      <4>6. pcNextId' \in 1..MaxConfigs + 1 /\ pcNextId' >= pcNextId
            /\ pcRows' \in [Ids -> ConfigRow \cup {NoConfig}]
        BY <2>0, <4>1, <4>2, <4>3 DEF Ids
      <4>7. \A i \in Ids : i < pcNextId => i # pcNextId
        BY <4>1 DEF Ids
      <4> QED BY <2>0, <4>1, <4>3, <4>5, <4>6, <4>7 DEF TableGoal, Ids
    <3> QED BY <3>1, <3>2
  <2>2. CASE UpdateConfig(w)
    <3>1. CASE Taken(r.owner, r.label, r.id) \/ ~Exists(r.id, r.owner)
      BY <2>0, <2>2, <3>1 DEF UpdateConfig, TableGoal
    <3>2. CASE ~(Taken(r.owner, r.label, r.id) \/ ~Exists(r.id, r.owner))
      <4>1. /\ r.id \in Ids /\ r.label \in Labels /\ pcRows[r.id] \in ConfigRow
            /\ pcRows[r.id].owner = r.owner /\ pcRows[r.id].edit < MaxEdits
            /\ pcRows' = [pcRows EXCEPT ![r.id].label = r.label, ![r.id].edit = @ + 1,
                                        ![r.id].stamp = pcSecond]
            /\ pcWriter' = [pcWriter EXCEPT ![w].at = "committed"] /\ UNCHANGED pcNextId
        BY <1>1, <2>0, <2>2, <3>2 DEF UpdateConfig, Exists, Committed
      <4>2. \A i \in Ids \ {r.id} : pcRows[i] # NoConfig /\ pcRows[i].owner = r.owner =>
                             pcRows[i].label # r.label
        BY <3>2 DEF Taken, RowsOf, Exists
      <4>3. pcRows'[r.id] \in ConfigRow
        BY <2>0, <4>1 DEF ConfigRow
      <4>4. /\ pcRows'[r.id].owner = r.owner /\ pcRows'[r.id].label = r.label
            /\ pcRows'[r.id].active = pcRows[r.id].active
            /\ \A i \in Ids \ {r.id} : pcRows'[i] = pcRows[i]
        BY <2>0, <4>1 DEF ConfigRow
      <4>5. RowsAreUnique(pcRows')
        <5> SUFFICES ASSUME NEW i \in Ids, NEW j \in Ids, i # j,
                            pcRows'[i] # NoConfig, pcRows'[j] # NoConfig,
                            pcRows'[i].owner = pcRows'[j].owner
                     PROVE  /\ ~(pcRows'[i].active /\ pcRows'[j].active)
                            /\ pcRows'[i].label # pcRows'[j].label
          BY DEF RowsAreUnique
        <5>0. pcRows[r.id] # NoConfig
          BY <4>1
        <5>1. CASE i = r.id
          <6>1. pcRows'[j] = pcRows[j] /\ pcRows[j].owner = r.owner
            BY <4>4, <5>1
          <6>2. pcRows[j].label # r.label
            BY <4>2, <5>1, <6>1
          <6>3. ~(pcRows[i].active /\ pcRows[j].active)
            BY <2>0, <4>1, <5>0, <5>1, <6>1 DEF RowsAreUnique
          <6> QED BY <4>4, <5>1, <6>1, <6>2, <6>3
        <5>2. CASE j = r.id
          <6>1. pcRows'[i] = pcRows[i] /\ pcRows[i].owner = r.owner
            BY <4>4, <5>2
          <6>2. pcRows[i].label # r.label
            BY <4>2, <5>2, <6>1
          <6>3. ~(pcRows[i].active /\ pcRows[j].active)
            BY <2>0, <4>1, <5>0, <5>2, <6>1 DEF RowsAreUnique
          <6> QED BY <4>4, <5>2, <6>1, <6>2, <6>3
        <5>3. CASE i # r.id /\ j # r.id
          BY <2>0, <4>4, <5>3 DEF RowsAreUnique
        <5> QED BY <5>1, <5>2, <5>3
      <4>6. pcRows' \in [Ids -> ConfigRow \cup {NoConfig}]
        BY <2>0, <4>1, <4>3, <4>4
      <4>7. \A i \in Ids : pcRows'[i] # NoConfig => pcRows[i] # NoConfig /\ i < pcNextId
        <5> TAKE i \in Ids
        <5>1. CASE i = r.id
          BY <2>0, <4>1, <5>1
        <5>2. CASE i # r.id
          BY <2>0, <4>1, <4>4, <5>2
        <5> QED BY <5>1, <5>2
      <4>8. \A i \in Ids : pcRows'[i] # NoConfig => pcRows'[i].owner = pcRows[i].owner
        BY <4>1, <4>4
      <4>9. SomeoneCommitted'
        BY <1>5, <4>1
      <4>10. pcNextId' \in 1..MaxConfigs + 1 /\ pcNextId' >= pcNextId /\ pcNextId' = pcNextId
        BY <2>0, <4>1
      <4> QED BY <4>5, <4>6, <4>7, <4>8, <4>9, <4>10 DEF TableGoal
    <3> QED BY <3>1, <3>2
  <2>3. CASE ActivateConfig(w)
    <3> DEFINE off == NoneActive(r.owner)
    <3>1. /\ off \in [Ids -> ConfigRow \cup {NoConfig}]
          /\ \A i \in Ids :
               /\ off[i] = NoConfig <=> pcRows[i] = NoConfig
               /\ pcRows[i] # NoConfig =>
                    /\ off[i].owner = pcRows[i].owner /\ off[i].label = pcRows[i].label
                    /\ off[i].edit = pcRows[i].edit
                    /\ off[i].active => pcRows[i].active
                    /\ ~(off[i].active /\ off[i].owner = r.owner)
      <4>1. ConfigTypeOK
        BY DEF ConfigInv
      <4> QED BY <4>1, NoneActiveKeeps
    <3> HIDE DEF off
    <3>2. CASE Exists(r.id, r.owner)
      <4>1. /\ r.id \in Ids /\ off[r.id] \in ConfigRow /\ pcRows[r.id] # NoConfig
            /\ off[r.id].owner = r.owner
            /\ pcRows' = [off EXCEPT ![r.id].active = TRUE, ![r.id].stamp = pcSecond]
            /\ UNCHANGED pcNextId
        BY <1>1, <2>0, <2>3, <3>1, <3>2 DEF ActivateConfig, Exists, off
      <4>2. pcRows'[r.id] \in ConfigRow
        BY <2>0, <3>1, <4>1 DEF ConfigRow
      <4>3. /\ pcRows'[r.id].owner = r.owner /\ pcRows'[r.id].label = off[r.id].label
            /\ pcRows'[r.id].edit = off[r.id].edit
            /\ \A i \in Ids \ {r.id} : pcRows'[i] = off[i]
        BY <3>1, <4>1 DEF ConfigRow
      <4>4. RowsAreUnique(pcRows')
        <5> SUFFICES ASSUME NEW i \in Ids, NEW j \in Ids, i # j,
                            pcRows'[i] # NoConfig, pcRows'[j] # NoConfig,
                            pcRows'[i].owner = pcRows'[j].owner
                     PROVE  /\ ~(pcRows'[i].active /\ pcRows'[j].active)
                            /\ pcRows'[i].label # pcRows'[j].label
          BY DEF RowsAreUnique
        <5>1. \A n \in Ids : pcRows'[n] # NoConfig =>
                 /\ pcRows[n] # NoConfig /\ pcRows'[n].owner = pcRows[n].owner
                 /\ pcRows'[n].label = pcRows[n].label
                 /\ n # r.id /\ pcRows'[n].active =>
                      pcRows[n].active /\ pcRows'[n].owner # r.owner
          <6> TAKE n \in Ids
          <6>1. CASE n = r.id
            BY <2>0, <3>1, <4>1, <4>3, <6>1
          <6>2. CASE n # r.id
            BY <3>1, <4>3, <6>2
          <6> QED BY <6>1, <6>2
        <5>2. pcRows'[i].label # pcRows'[j].label
          BY <2>0, <5>1 DEF RowsAreUnique
        <5>3. ~(pcRows'[i].active /\ pcRows'[j].active)
          <6>1. CASE i = r.id \/ j = r.id
            BY <4>3, <5>1, <6>1
          <6>2. CASE i # r.id /\ j # r.id
            BY <2>0, <5>1, <6>2 DEF RowsAreUnique
          <6> QED BY <6>1, <6>2
        <5> QED BY <5>2, <5>3
      <4>5. pcRows' \in [Ids -> ConfigRow \cup {NoConfig}]
        BY <3>1, <4>1, <4>2, <4>3
      <4>6. \A i \in Ids : pcRows'[i] # NoConfig => pcRows[i] # NoConfig /\ i < pcNextId
        BY <2>0, <3>1, <4>1, <4>3
      <4>7. \A i \in Ids : pcRows'[i] # NoConfig =>
               pcRows'[i].owner = pcRows[i].owner /\ pcRows'[i].edit = pcRows[i].edit
        <5> TAKE i \in Ids
        <5>1. CASE i = r.id
          BY <3>1, <4>1, <4>3, <5>1
        <5>2. CASE i # r.id
          BY <3>1, <4>3, <5>2
        <5> QED BY <5>1, <5>2
      <4>8. pcNextId' \in 1..MaxConfigs + 1 /\ pcNextId' >= pcNextId /\ pcNextId' = pcNextId
        BY <2>0, <4>1
      <4> QED BY <4>4, <4>5, <4>6, <4>7, <4>8 DEF TableGoal
    <3>3. CASE ~Exists(r.id, r.owner)
      <4>1. pcRows' = off /\ UNCHANGED pcNextId
        BY <2>3, <3>3 DEF ActivateConfig, off
      <4>2. RowsAreUnique(pcRows')
        BY <2>0, <3>1, <4>1 DEF RowsAreUnique
      <4> QED BY <2>0, <3>1, <4>1, <4>2 DEF TableGoal
    <3> QED BY <3>2, <3>3
  <2>4. CASE DeleteConfig(w)
    <3>1. pcRows' = [pcRows EXCEPT ![r.id] = NoConfig] /\ UNCHANGED pcNextId /\ r.id \in Ids
      BY <1>1, <2>4 DEF DeleteConfig, ConfigInv, RequestsAreDefinite
    <3>2. \A i \in Ids : pcRows'[i] # NoConfig => pcRows'[i] = pcRows[i]
      BY <2>0, <3>1
    <3> QED BY <2>0, <3>1, <3>2 DEF TableGoal, RowsAreUnique
  <2> QED BY <2>1, <2>2, <2>3, <2>4 DEF TableGoal
<1> QED
  BY <1>1, <1>2, <1>3, <1>4, <1>6
     DEF ConfigInv, ConfigTypeOK, IdsAreFresh, ReadIsCurrent, CacheIsCurrent, Exists, RowsAreUnique, Ids, Requests, TableGoal

\* Every other step of a request or of the resolver: the table stays.
LEMMA ResolverStep ==
    ASSUME ConfigInv,
           \/ \E w \in Writers :
                \/ \E u \in Owners, label \in Labels : Check(w, "create", u, 0, label)
                \/ \E u \in Owners, i \in Ids :
                     \/ \E label \in Labels : Check(w, "update", u, i, label)
                     \/ \E op \in {"activate", "delete"} : Check(w, op, u, i, NoConfig)
                \/ FindRow(w) \/ Invalidates(w)
           \/ \E u \in Owners : ReadActive(u) \/ FromSettings(u)
           \/ BuildProvider \/ SecondPasses \/ UNCHANGED configVars
    PROVE  ConfigInv'
<1> USE ConfigAssumption, NoConfigAssumption
<1>0. UNCHANGED <<pcRows, pcNextId>>
  BY DEF Check, FindRow, Invalidates, ReadActive, FromSettings, BuildProvider, SecondPasses,
         configVars
<1>1. ASSUME NEW w \in Writers, NEW op \in {"create", "update", "activate", "delete"},
             NEW u \in Owners, NEW i \in Ids \cup {0}, NEW label \in Labels \cup {NoConfig},
             op # "create" => i \in Ids, op \in {"create", "update"} => label \in Labels,
             Check(w, op, u, i, label)
      PROVE  ConfigInv'
  <2>1. /\ pcWriter' = [pcWriter EXCEPT ![w] = [at |-> "checked", op |-> op, id |-> i,
                                                owner |-> u, label |-> label]]
        /\ pcWriter[w].at = "idle" /\ UNCHANGED <<pcSecond, pcReading, pcCache>>
    BY <1>1 DEF Check
  <2>2. pcWriter' \in [Writers -> Requests]
    BY <2>1 DEF ConfigInv, RequestsAreDefinite, Requests
  <2>3. RequestsAreDefinite'
    BY <1>1, <2>1, <2>2 DEF ConfigInv, RequestsAreDefinite, Requests
  <2>4. SomeoneCommitted => SomeoneCommitted'
    BY <2>1 DEF SomeoneCommitted, ConfigInv, RequestsAreDefinite, Requests
  <2> QED BY <1>0, <2>1, <2>2, <2>3, <2>4
          DEF ConfigInv, ConfigTypeOK, IdsAreFresh, ReadIsCurrent, CacheIsCurrent, Exists, Requests
<1>2. ASSUME NEW w \in Writers, FindRow(w) PROVE ConfigInv'
  <2>1. /\ pcWriter[w].at = "checked" /\ pcWriter[w].op # "create"
        /\ \/ pcWriter' = [pcWriter EXCEPT ![w].at = "seen"]
           \/ pcWriter' = [pcWriter EXCEPT ![w] = Resting]
        /\ UNCHANGED <<pcSecond, pcReading, pcCache>>
    BY <1>2 DEF FindRow, Rejected, Seen
  <2>2. pcWriter' \in [Writers -> Requests]
    BY <2>1, RequestMoves
  <2>3. RequestsAreDefinite'
    BY <2>1, <2>2 DEF ConfigInv, RequestsAreDefinite, Requests, Resting
  <2>4. SomeoneCommitted => SomeoneCommitted'
    BY <2>1 DEF SomeoneCommitted, ConfigInv, RequestsAreDefinite, Requests
  <2> QED BY <1>0, <2>1, <2>2, <2>3, <2>4
          DEF ConfigInv, ConfigTypeOK, IdsAreFresh, ReadIsCurrent, CacheIsCurrent, Exists, Requests
<1>3. ASSUME NEW w \in Writers, Invalidates(w) PROVE ConfigInv'
  <2>1. /\ pcWriter[w].at = "committed" /\ pcReading = NoConfig /\ pcCache' = NoConfig
        /\ pcWriter' = [pcWriter EXCEPT ![w] = Resting] /\ UNCHANGED <<pcSecond, pcReading>>
    BY <1>3 DEF Invalidates, ConfigLoopIsFree
  <2>2. pcWriter' \in [Writers -> Requests]
    BY <2>1 DEF ConfigInv, RequestsAreDefinite, Requests, Resting
  <2>3. RequestsAreDefinite'
    BY <2>1, <2>2 DEF ConfigInv, RequestsAreDefinite, Requests, Resting
  <2> QED BY <1>0, <2>1, <2>2, <2>3
          DEF ConfigInv, ConfigTypeOK, IdsAreFresh, ReadIsCurrent, CacheIsCurrent, Requests
<1>4. ASSUME NEW u \in Owners, ReadActive(u) PROVE ConfigInv'
  <2>1. PICK i \in Ids : /\ Exists(i, u)
                         /\ pcReading' = [owner |-> u, id |-> i, stamp |-> pcRows[i].stamp,
                                          fields |-> pcRows[i].edit]
                         /\ UNCHANGED <<pcSecond, pcWriter, pcCache>>
    BY <1>4 DEF ReadActive, ActiveOf, RowsOf
  <2>2. pcReading'.id = i /\ pcReading'.fields = pcRows[i].edit /\ pcReading'.id < pcNextId'
    BY <1>0, <2>1 DEF ConfigInv, IdsAreFresh, Exists
  <2> QED BY <1>0, <2>1, <2>2
          DEF ConfigInv, ConfigTypeOK, RequestsAreDefinite, IdsAreFresh, ReadIsCurrent,
              CacheIsCurrent, SomeoneCommitted, Exists
<1>5. CASE BuildProvider
  <2>1. /\ pcReading # NoConfig /\ pcReading' = NoConfig /\ UNCHANGED <<pcSecond, pcWriter>>
        /\ SomeoneCommitted' <=> SomeoneCommitted
    BY <1>5 DEF BuildProvider, SomeoneCommitted
  <2>2. CASE Exists(pcReading.id, pcReading.owner)
    <3> DEFINE built == [owner |-> pcReading.owner, id |-> pcReading.id, stamp |-> pcReading.stamp,
                         fields |-> pcReading.fields, secret |-> pcRows[pcReading.id].edit]
    <3>1. pcCache' = built
      BY <1>5, <2>2 DEF BuildProvider
    <3>2. /\ pcCache'.id = pcReading.id /\ pcCache'.fields = pcReading.fields
          /\ pcCache'.secret = pcRows[pcReading.id].edit
      BY <3>1
    <3>3. pcReading.id \in Ids /\ pcReading.id < pcNextId
      BY <2>1 DEF ConfigInv, ConfigTypeOK, IdsAreFresh
    <3>4. pcReading.fields = pcRows[pcReading.id].edit \/ SomeoneCommitted
      BY <2>1, <2>2 DEF ConfigInv, ReadIsCurrent
    <3>5. CacheIsCurrent' /\ ReadIsCurrent'
      BY <1>0, <2>1, <3>2, <3>4 DEF CacheIsCurrent, ReadIsCurrent, Exists
    <3> QED BY <1>0, <2>1, <3>2, <3>3, <3>5
            DEF ConfigInv, ConfigTypeOK, RequestsAreDefinite, IdsAreFresh
  <2>3. CASE ~Exists(pcReading.id, pcReading.owner)
    BY <1>0, <1>5, <2>1, <2>3
       DEF BuildProvider, ConfigInv, ConfigTypeOK, RequestsAreDefinite, IdsAreFresh,
           ReadIsCurrent, CacheIsCurrent, Exists
  <2> QED BY <2>2, <2>3
<1>6. ASSUME NEW u \in Owners, FromSettings(u) PROVE ConfigInv'
  <2>1. /\ pcCache'.id = 0 /\ UNCHANGED <<pcSecond, pcWriter, pcReading>>
        /\ SomeoneCommitted' <=> SomeoneCommitted
    BY <1>6 DEF FromSettings, SomeoneCommitted
  <2>2. 0 \notin Ids /\ 0 < pcNextId'
    BY <1>0 DEF Ids, ConfigInv, ConfigTypeOK
  <2> QED BY <1>0, <2>1, <2>2
          DEF ConfigInv, ConfigTypeOK, RequestsAreDefinite, IdsAreFresh, ReadIsCurrent,
              CacheIsCurrent, Exists
<1>7. CASE SecondPasses \/ UNCHANGED configVars
  BY <1>7 DEF SecondPasses, configVars, ConfigInv, ConfigTypeOK, RequestsAreDefinite, IdsAreFresh,
              ReadIsCurrent, CacheIsCurrent, SomeoneCommitted, Exists
<1>8. ASSUME NEW w \in Writers, NEW u \in Owners, NEW label \in Labels,
             Check(w, "create", u, 0, label)
      PROVE  ConfigInv'
  BY <1>1, <1>8
<1>9. ASSUME NEW w \in Writers, NEW u \in Owners, NEW i \in Ids, NEW label \in Labels,
             Check(w, "update", u, i, label)
      PROVE  ConfigInv'
  BY <1>1, <1>9
<1>10. ASSUME NEW w \in Writers, NEW u \in Owners, NEW i \in Ids,
              NEW op \in {"activate", "delete"}, Check(w, op, u, i, NoConfig)
       PROVE  ConfigInv'
  BY <1>1, <1>10
<1> QED BY <1>2, <1>3, <1>4, <1>5, <1>6, <1>7, <1>8, <1>9, <1>10

LEMMA ConfigStep == ConfigInv /\ [ConfigNext]_configVars => ConfigInv'
<1> SUFFICES ASSUME ConfigInv, [ConfigNext]_configVars PROVE ConfigInv'
  OBVIOUS
<1>1. CASE \E w \in Writers : \/ \E b \in BOOLEAN : CreateConfig(w, b)
                              \/ UpdateConfig(w) \/ ActivateConfig(w) \/ DeleteConfig(w)
  BY <1>1, TableStep
<1>2. CASE ~\E w \in Writers : \/ \E b \in BOOLEAN : CreateConfig(w, b)
                               \/ UpdateConfig(w) \/ ActivateConfig(w) \/ DeleteConfig(w)
  BY <1>2, ResolverStep DEF ConfigNext
<1> QED BY <1>1, <1>2

\* For any number of users, requests, rows and seconds: a provider that the resolver would
\* serve from its cache has the fields and the secret the active row has now, once every
\* change has come back to the loop, although the key of the cache counts seconds only
\* (resolver.py:117, config_api.py: invalidate after every change).
THEOREM CacheServesTheRow == ConfigSpec => []ServedIsCurrent
<1>1. ConfigInv => ServedIsCurrent
  <2> SUFFICES ASSUME ConfigInv, \A w \in Writers : pcWriter[w].at # "committed",
                      NEW u \in Owners, NEW i \in ActiveOf(u), Hit(u, i)
               PROVE  pcCache.fields = pcRows[i].edit /\ pcCache.secret = pcRows[i].edit
    BY DEF ServedIsCurrent
  <2>1. i \in Ids /\ Exists(i, u)
    BY DEF ActiveOf, RowsOf
  <2>2. pcCache # NoConfig /\ pcCache.id = i /\ pcCache.owner = u
    BY DEF Hit, KeyOf
  <2> QED BY <2>1, <2>2 DEF ConfigInv, CacheIsCurrent, SomeoneCommitted
<1> QED BY <1>1, ConfigInitially, ConfigStep, PTL DEF ConfigSpec
=============================================================================
