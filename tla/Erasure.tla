------------------------------- MODULE Erasure -------------------------------
(***************************************************************************)
(* What the server keeps of an account, and the erasure of all of it by an  *)
(* administrator (server/tenant_data.py, store.py, hooks/audit.py) while    *)
(* runs of this and of other accounts go on writing.  The steps of a purge  *)
(* run in a thread of the pool and share no transaction: a step is one      *)
(* transaction or one file operation.                                       *)
(***************************************************************************)
EXTENDS Naturals, FiniteSets

CONSTANTS People,       \* accounts
          Erasable,     \* bound: the accounts an administrator erases
          NoOwner,       \* the empty user_id
          MaxLines      \* bound: audit lines

ASSUME ErasureAssumption ==
    NoOwner \notin People /\ Erasable \subseteq People /\ MaxLines \in Nat

StoredKinds == {"rows", "facts", "points"}
RowOwners == People \cup {NoOwner}

VARIABLES
    erNotes,    \* accounts with rows in the notes table of older versions
    erRuns,     \* accounts with a run under way
    erData,     \* what is stored, <<owner, kind>>
    erEmbedding,\* accounts with a fact whose vector is being made
    erAudit,    \* lines of the shared audit file, <<owner, number>>
    erPurge,    \* the purge under way
    erPurged,   \* history: accounts whose purge has begun
    erHalf,     \* history: accounts with a purge cut off before their vectors
    erErased,   \* history: accounts whose purge has completed
    erSince,    \* history: written since, and not deleted by a step of a purge
    erGap,      \* history: lines appended between the reading and the replacing
    erWritten   \* history: every audit line

erasureVars == <<erNotes, erRuns, erData, erEmbedding, erAudit, erPurge, erPurged,
                 erHalf, erErased, erSince, erGap, erWritten>>
erAuditVars == <<erAudit, erGap, erWritten>>
erPurgeVars == <<erPurge, erPurged, erHalf, erErased>>

AuditLines == RowOwners \X (1..MaxLines)
NoPurge == [at |-> "none", of |-> NoOwner, listed |-> FALSE, kept |-> {}]

ErasureTypeOK ==
    /\ erNotes \subseteq People /\ erRuns \subseteq People /\ erEmbedding \subseteq People
    /\ erData \subseteq RowOwners \X StoredKinds /\ erSince \subseteq RowOwners \X StoredKinds
    /\ erPurge \in [at : {"none", "listed", "rows", "files", "read"},
                    of : RowOwners, listed : BOOLEAN, kept : SUBSET AuditLines]
    /\ erErased \subseteq People /\ erPurged \subseteq People /\ erHalf \subseteq People
    /\ erAudit \subseteq AuditLines /\ erGap \subseteq AuditLines /\ erWritten \subseteq AuditLines

\* Some accounts come from an older version.
ErasureInit ==
    /\ erNotes \in SUBSET Erasable
    /\ erData = {<<p, "facts">> : p \in erNotes}
    /\ erRuns = {} /\ erEmbedding = {} /\ erAudit = {} /\ erPurge = NoPurge
    /\ erErased = {} /\ erHalf = {} /\ erPurged = {} /\ erSince = {} /\ erGap = {} /\ erWritten = {}

-------------------------------------------------------------------------------
(* What runs write *)

StoreFor(things) ==
    /\ erData' = erData \cup things
    /\ erSince' = erSince \cup {d \in things : d[1] \in erPurged}

\* A request with a token; ensure_conversation makes the row.
StartRun(p) ==
    /\ p \in People \ erRuns
    /\ erRuns' = erRuns \cup {p}
    /\ StoreFor({<<p, "rows">>})
    /\ UNCHANGED <<erNotes, erEmbedding, erAuditVars, erPurgeVars>>

\* A snapshot: without the row of its conversation the run makes one of nobody's.
SaveRows(p) ==
    /\ p \in erRuns
    /\ StoreFor({<<IF <<p, "rows">> \in erData THEN p ELSE NoOwner, "rows">>})
    /\ UNCHANGED <<erNotes, erRuns, erEmbedding, erAuditVars, erPurgeVars>>

\* A fact is written and its vector is being made.
SaveFact(p) ==
    /\ p \in erRuns \ erEmbedding
    /\ StoreFor({<<p, "facts">>})
    /\ erEmbedding' = erEmbedding \cup {p}
    /\ UNCHANGED <<erNotes, erRuns, erAuditVars, erPurgeVars>>

SavePoint(p) ==
    /\ p \in erEmbedding
    /\ erEmbedding' = erEmbedding \ {p}
    /\ StoreFor({<<p, "points">>})
    /\ UNCHANGED <<erNotes, erRuns, erAuditVars, erPurgeVars>>

\* AuditLogWriter.write: a line at the end of the file.
WriteLine(p) ==
    /\ p \in erRuns /\ Cardinality(erWritten) < MaxLines
    /\ LET line == <<p, Cardinality(erWritten) + 1>>
       IN /\ erAudit' = erAudit \cup {line}
          /\ erWritten' = erWritten \cup {line}
          /\ erGap' = IF erPurge.at = "read" THEN erGap \cup {line} ELSE erGap
    /\ UNCHANGED <<erNotes, erRuns, erData, erEmbedding, erPurgeVars, erSince>>

EndRun(p) ==
    /\ p \in erRuns
    /\ erRuns' = erRuns \ {p}
    /\ UNCHANGED <<erNotes, erData, erEmbedding, erAuditVars, erPurgeVars, erSince>>

-------------------------------------------------------------------------------
(* DELETE /v1/admin/users/{id}/data; one purge at a time (a bound) *)

Purging(from, to) == erPurge.at = from /\ erPurge' = [erPurge EXCEPT !.at = to]

\* The facts are listed, for their vectors.
PurgeStarts(p) ==
    /\ erPurge.at = "none" /\ p \in Erasable
    /\ erPurge' = [at |-> "listed", of |-> p, listed |-> <<p, "facts">> \in erData, kept |-> {}]
    /\ erErased' = erErased \ {p} /\ erPurged' = erPurged \cup {p}
    /\ UNCHANGED erHalf
    /\ erSince' = {d \in erSince : d[1] # p \/ d[2] = "points"}
    /\ UNCHANGED <<erNotes, erRuns, erData, erEmbedding, erAuditVars>>

Without(kinds) == erData \ ({erPurge.of} \X kinds)

\* purge_user_data: one transaction; the old notes table is not among its tables.
PurgeRows ==
    /\ Purging("listed", "rows")
    /\ erData' = Without({"rows", "facts"})
    /\ erSince' = erSince \ ({erPurge.of} \X {"rows", "facts"})
    /\ UNCHANGED <<erNotes, erRuns, erEmbedding, erAuditVars, erPurged, erHalf, erErased>>

PointsGone(listed) ==
    /\ Purging("rows", "files")
    /\ erData' = IF listed THEN Without({"points"}) ELSE erData
    /\ erSince' = IF listed THEN erSince \ {<<erPurge.of, "points">>} ELSE erSince
    /\ UNCHANGED <<erNotes, erRuns, erEmbedding, erAuditVars, erPurged, erHalf, erErased>>

\* A slip: the facts are listed when their rows are gone.
PurgePointsUnlisted == PointsGone(<<erPurge.of, "facts">> \in erData)

\* unindex_fact for every listed fact, then the two directories of the account.
PurgePoints == PointsGone(erPurge.listed)

\* _strip_audit_lines reads the file, and replaces it by what it keeps.
PurgeReads ==
    /\ erPurge.at = "files"
    /\ erPurge' = [erPurge EXCEPT !.at = "read",
                      !.kept = {l \in erAudit : l[1] # erPurge.of}]
    /\ UNCHANGED <<erNotes, erRuns, erData, erEmbedding, erAuditVars, erPurged, erHalf, erErased, erSince>>

PurgeReplaces ==
    /\ erPurge.at = "read"
    /\ erAudit' = erPurge.kept
    /\ erErased' = erErased \cup {erPurge.of}
    /\ erPurge' = NoPurge
    /\ UNCHANGED <<erPurged, erHalf, erNotes, erRuns, erData, erEmbedding, erGap,
                   erWritten, erSince>>

\* The server restarts: everything under way is lost, and opening the store copies
\* the old notes into the facts that lack them.
ErasureRestart ==
    /\ erRuns' = {} /\ erEmbedding' = {}
    /\ erPurge' = NoPurge
    /\ erHalf' = IF erPurge.at = "rows" THEN erHalf \cup {erPurge.of} ELSE erHalf
    /\ erData' = erData \cup {<<o, "facts">> : o \in erNotes}
    /\ UNCHANGED <<erNotes, erAuditVars, erPurged, erErased, erSince>>

ErasureNext ==
    \/ \E p \in People :
         \/ StartRun(p) \/ SaveRows(p) \/ SaveFact(p) \/ SavePoint(p) \/ WriteLine(p)
         \/ EndRun(p) \/ PurgeStarts(p)
    \/ PurgeRows \/ PurgePoints \/ PurgeReads \/ PurgeReplaces \/ ErasureRestart

-------------------------------------------------------------------------------
\* What a completed purge leaves of its account was written after its own step of
\* it, or comes back from the old notes (store.py:1584), or is a vector whose
\* fact an earlier purge deleted before it was cut off (tenant_data.py:87); what is
\* missing of the audit of others was appended between the reading and the replacing
\* (tenant_data.py:134).
PurgeIsExact ==
    /\ \A p \in erErased, k \in StoredKinds :
         <<p, k>> \in erData =>
           \/ <<p, k>> \in erSince
           \/ k = "facts" /\ p \in erNotes
           \/ k = "points" /\ p \in erHalf
    /\ \A l \in erWritten : l \notin erAudit => l \in erGap \/ l[1] \in erPurged
===============================================================================
