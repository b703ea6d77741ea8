------------------------------ MODULE DataCache ------------------------------
(***************************************************************************)
(* Fetching data through the cache (data/access.py, data/cache.py).  A      *)
(* fetch reads the index and the file on the event loop, or asks the        *)
(* sources in their order in threads; a table that came back is written by  *)
(* a thread, first the file, then its row of the index, under the lock of   *)
(* the cache.  The lock belongs to the coroutine: when that is cancelled,   *)
(* its thread goes on.  A file is named by source, request and data date,   *)
(* so a later table of the same date replaces it.                           *)
(***************************************************************************)
EXTENDS Naturals, FiniteSets

CONSTANTS Fetches,      \* calls of _fetch
          Lookups,      \* requests: kind and parameters
          Sources,      \* how many sources are configured
          MaxVersion,   \* bound: tables a request may yield over time
          Nothing       \* no row, no file

ASSUME DataAssumption ==
    /\ Sources \in Nat \ {0} /\ MaxVersion \in Nat \ {0}
    /\ Nothing \notin Fetches

AdapterMaxAttempts == 3

VARIABLES
    dcFetch,    \* what a call is doing
    dcUpstream, \* the newest table of a request at the sources
    dcFiles,    \* content of a file: a version, or torn while it is written
    dcRows,     \* cache_index: the file of a request, its version, its freshness
    dcLock,     \* the call that holds the write lock
    dcThreads,  \* writing threads
    dcCutOff    \* history: files whose write lost its call or its process

dataVars == <<dcFetch, dcUpstream, dcFiles, dcRows, dcLock, dcThreads, dcCutOff>>

Versions == 1..MaxVersion
DateOf(v) == (v + 1) \div 2       \* a table may be revised once on its date
FileNames == (1..Sources) \X Lookups \X {DateOf(v) : v \in Versions}
Row == [file : FileNames, version : Versions, expired : BOOLEAN]
Thread == [of : Fetches, lookup : Lookups, file : FileNames, version : Versions,
           at : {"file", "row"}]

FetchCall == [at : {"idle", "asking", "fetched", "writing", "hit", "torn", "live", "failed",
               "cancelled"},
         lookup : Lookups \cup {Nothing}, source : 0..Sources,
         attempt : 0..AdapterMaxAttempts, version : 0..MaxVersion]

DataTypeOK ==
    /\ dcFetch \in [Fetches -> FetchCall]
    /\ dcUpstream \in [Lookups -> Versions]
    /\ dcFiles \in [FileNames -> Versions \cup {0, Nothing}]
    /\ dcRows \in [Lookups -> Row \cup {Nothing}]
    /\ dcLock \in Fetches \cup {Nothing}
    /\ dcThreads \subseteq Thread /\ dcCutOff \subseteq FileNames

Ready == [at |-> "idle", lookup |-> Nothing, source |-> 0, attempt |-> 0, version |-> 0]

DataInit ==
    /\ dcFetch = [f \in Fetches |-> Ready]
    /\ dcUpstream = [k \in Lookups |-> 1]
    /\ dcFiles = [n \in FileNames |-> Nothing] /\ dcRows = [k \in Lookups |-> Nothing]
    /\ dcLock = Nothing /\ dcThreads = {} /\ dcCutOff = {}

Torn == 0

-------------------------------------------------------------------------------
\* LocalCache.get: a row within its time whose file exists.
Usable(k) ==
    dcRows[k] # Nothing /\ ~dcRows[k].expired /\ dcFiles[dcRows[k].file] # Nothing

\* _fetch: the cache first; a file that cannot be read fails the call.
Fetch(f, k) ==
    /\ dcFetch[f].at = "idle"
    /\ dcFetch' = [dcFetch EXCEPT ![f] =
          IF Usable(k)
          THEN LET content == dcFiles[dcRows[k].file]
               IN [at |-> IF content = Torn THEN "torn" ELSE "hit", lookup |-> k, source |-> 0,
                   attempt |-> 0, version |-> content]
          ELSE [at |-> "asking", lookup |-> k, source |-> 1, attempt |-> 1, version |-> 0]]
    /\ UNCHANGED <<dcUpstream, dcFiles, dcRows, dcLock, dcThreads, dcCutOff>>

Asking(f) == dcFetch[f].at = "asking"

\* A source answers with a table; an empty one is not cached.
SourceAnswers(f, empty) ==
    /\ Asking(f)
    /\ dcFetch' = [dcFetch EXCEPT ![f].at = IF empty THEN "live" ELSE "fetched",
                                  ![f].version = dcUpstream[dcFetch[f].lookup]]
    /\ UNCHANGED <<dcUpstream, dcFiles, dcRows, dcLock, dcThreads, dcCutOff>>

\* A failure that may pass is tried again after a pause; any other, or the last,
\* moves on to the next source, and after the last source the call fails.
SourceFails(f, retryable) ==
    /\ Asking(f)
    /\ dcFetch' =
         IF retryable /\ dcFetch[f].attempt < AdapterMaxAttempts
         THEN [dcFetch EXCEPT ![f].attempt = @ + 1]
         ELSE IF dcFetch[f].source < Sources
              THEN [dcFetch EXCEPT ![f].source = @ + 1, ![f].attempt = 1]
              ELSE [dcFetch EXCEPT ![f].at = "failed"]
    /\ UNCHANGED <<dcUpstream, dcFiles, dcRows, dcLock, dcThreads, dcCutOff>>

\* A ValueError is the caller's mistake: no other source is asked.
SourceRefuses(f) ==
    /\ Asking(f)
    /\ dcFetch' = [dcFetch EXCEPT ![f].at = "failed"]
    /\ UNCHANGED <<dcUpstream, dcFiles, dcRows, dcLock, dcThreads, dcCutOff>>

FileOf(f) == <<dcFetch[f].source, dcFetch[f].lookup, DateOf(dcFetch[f].version)>>

StartThread(f) ==
    /\ dcFetch[f].at = "fetched"
    /\ dcLock' = f
    /\ dcFetch' = [dcFetch EXCEPT ![f].at = "writing"]
    /\ dcThreads' = dcThreads \cup {[of |-> f, lookup |-> dcFetch[f].lookup, file |-> FileOf(f),
                                     version |-> dcFetch[f].version, at |-> "file"]}
    /\ dcFiles' = [dcFiles EXCEPT ![FileOf(f)] = Torn]
    /\ UNCHANGED <<dcUpstream, dcRows, dcCutOff>>

\* A slip: the thread is started without the lock.
PutTableUnlocked(f) == StartThread(f)

\* put(): under the lock, a thread truncates the file and writes the table.
PutTable(f) == dcLock = Nothing /\ StartThread(f)

WriteFile(t) ==
    /\ t \in dcThreads /\ t.at = "file"
    /\ dcFiles' = [dcFiles EXCEPT ![t.file] = t.version]
    /\ dcThreads' = (dcThreads \ {t}) \cup {[t EXCEPT !.at = "row"]}
    /\ UNCHANGED <<dcFetch, dcUpstream, dcRows, dcLock, dcCutOff>>

\* INSERT OR REPLACE; the call that is still waiting gets its table and frees the lock.
WriteRow(t) ==
    /\ t \in dcThreads /\ t.at = "row"
    /\ dcRows' = [dcRows EXCEPT ![t.lookup] =
                     [file |-> t.file, version |-> t.version, expired |-> FALSE]]
    /\ dcThreads' = dcThreads \ {t}
    /\ IF dcFetch[t.of].at = "writing"
       THEN dcFetch' = [dcFetch EXCEPT ![t.of].at = "live"] /\ dcLock' = Nothing
       ELSE UNCHANGED <<dcFetch, dcLock>>
    /\ UNCHANGED <<dcUpstream, dcFiles, dcCutOff>>

\* The call is cancelled with its run; a thread of it goes on.
CancelFetch(f) ==
    /\ dcFetch[f].at \in {"asking", "fetched", "writing"}
    /\ dcFetch' = [dcFetch EXCEPT ![f].at = "cancelled"]
    /\ dcLock' = IF dcLock = f THEN Nothing ELSE dcLock
    /\ dcCutOff' = dcCutOff \cup {t.file : t \in {u \in dcThreads : u.of = f}}
    /\ UNCHANGED <<dcUpstream, dcFiles, dcRows, dcThreads>>

\* The source publishes a new table; the row of an old one outlives its time.
Publish(k) ==
    /\ dcUpstream[k] < MaxVersion
    /\ dcUpstream' = [dcUpstream EXCEPT ![k] = @ + 1]
    /\ UNCHANGED <<dcFetch, dcFiles, dcRows, dcLock, dcThreads, dcCutOff>>

Expire(k) ==
    /\ dcRows[k] # Nothing
    /\ dcRows' = [dcRows EXCEPT ![k].expired = TRUE]
    /\ UNCHANGED <<dcFetch, dcUpstream, dcFiles, dcLock, dcThreads, dcCutOff>>

\* The process dies; files and rows stay as they are.
DataCrash ==
    /\ dcThreads # {}
    /\ dcFetch' = [f \in Fetches |-> IF dcFetch[f].at \in {"asking", "fetched", "writing"}
                                     THEN [dcFetch[f] EXCEPT !.at = "cancelled"] ELSE dcFetch[f]]
    /\ dcLock' = Nothing /\ dcThreads' = {}
    /\ dcCutOff' = dcCutOff \cup {t.file : t \in dcThreads}
    /\ UNCHANGED <<dcUpstream, dcFiles, dcRows>>

DataNext ==
    \/ \E f \in Fetches :
         \/ \E k \in Lookups : Fetch(f, k)
         \/ \E b \in BOOLEAN : SourceAnswers(f, b) \/ SourceFails(f, b)
         \/ SourceRefuses(f) \/ PutTable(f) \/ CancelFetch(f)
    \/ \E t \in dcThreads : WriteFile(t) \/ WriteRow(t)
    \/ \E k \in Lookups : Publish(k) \/ Expire(k)
    \/ DataCrash

-------------------------------------------------------------------------------
\* The row of a request and the file it points to are of the same table, or the
\* file is just being replaced, or a write of it was cut off: then rows may point
\* to a file that cannot be read until their time is over (cache.py:144, 170).
RowsMatchFiles ==
    \A k \in Lookups : dcRows[k] # Nothing =>
        LET file == dcRows[k].file
        IN \/ dcFiles[file] = dcRows[k].version
           \/ \E t \in dcThreads : t.file = file
           \/ file \in dcCutOff
===============================================================================
