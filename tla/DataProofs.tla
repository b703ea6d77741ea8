----------------------------- MODULE DataProofs -----------------------------
(***************************************************************************)
(* Proofs about the way data comes to a run, and what is kept of the run.   *)
(*   - DataCache, for any number of calls, requests, sources and tables: the *)
(*     index and the files of the cache agree, except where a write lost its *)
(*     call or its process.                                                  *)
(*   - SourceCalls, for any number of threads, interfaces and sessions: an   *)
(*     interface or a session is given up only for cause.                    *)
(*   - RunTrace, for any number of runs, emissions, tasks and spans: the     *)
(*     trace and the tree of spans tell the run.                             *)
(***************************************************************************)
EXTENDS DataCache, SourceCalls, RunTrace, FiniteSetTheorems, SequenceTheorems, TLAPS

DataSpec == DataInit /\ [][DataNext]_dataVars

\* A call that asks, or has its table, knows the request, the source and the table.
CallsAreDefinite ==
    \A f \in Fetches :
        /\ dcFetch[f].at \in {"asking", "fetched"} =>
              dcFetch[f].lookup \in Lookups /\ dcFetch[f].source \in 1..Sources
        /\ dcFetch[f].at = "fetched" => dcFetch[f].version \in Versions

\* A file belongs to one request, whoever names it.
FilesAreOwn ==
    /\ \A t \in dcThreads : t.file[2] = t.lookup
    /\ \A k \in Lookups : dcRows[k] # Nothing => dcRows[k].file[2] = k

\* A thread writes for a call that waits for it and holds the lock, or its file counts
\* as cut off.
ThreadsHaveCalls ==
    \A t \in dcThreads :
        \/ dcFetch[t.of].at = "writing" /\ dcLock = t.of
        \/ dcFetch[t.of].at = "cancelled" /\ t.file \in dcCutOff

\* A call has one thread.
OneThreadEach == \A t, u \in dcThreads : t.of = u.of => t = u

\* Before the row is written the file holds the table of the row.
FileComesFirst ==
    \A t \in dcThreads :
        t.at = "row" => dcFiles[t.file] = t.version \/ t.file \in dcCutOff

\* The invariant: the lock lets one thread write that is not cut off, and that one
\* leaves file and row of one table.
DataInv ==
    /\ DataTypeOK
    /\ CallsAreDefinite
    /\ FilesAreOwn
    /\ ThreadsHaveCalls
    /\ OneThreadEach
    /\ FileComesFirst
    /\ RowsMatchFiles

\* Two threads whose files do not count as cut off are one.
LEMMA OneWriter ==
    ASSUME DataInv, NEW t \in dcThreads, NEW u \in dcThreads,
           t.file \notin dcCutOff, u.file \notin dcCutOff
    PROVE  t = u
BY DEF DataInv, ThreadsHaveCalls, OneThreadEach

\* In the beginning there are neither files nor rows nor threads.
LEMMA DataInitially == DataInit => DataInv
BY DataAssumption DEF DataInit, DataInv, DataTypeOK, CallsAreDefinite, FilesAreOwn,
   ThreadsHaveCalls, OneThreadEach, FileComesFirst, RowsMatchFiles, Ready,
   AdapterMaxAttempts, Versions, FetchCall

-------------------------------------------------------------------------------
(* Calls *)

\* What a call does before it writes touches neither files nor rows nor threads.
OnlyCalls(f) ==
    /\ UNCHANGED <<dcFiles, dcRows, dcLock, dcThreads, dcCutOff>>
    /\ dcFetch[f].at \notin {"writing", "cancelled"}
    /\ \A g \in Fetches : g # f => dcFetch'[g] = dcFetch[g]

LEMMA CallsKeep ==
    ASSUME DataInv, NEW f \in Fetches, OnlyCalls(f), DataTypeOK', CallsAreDefinite'
    PROVE  DataInv'
<1>1. \A t \in dcThreads : t.of \in Fetches /\ t.of # f
  BY DEF DataInv, DataTypeOK, Thread, ThreadsHaveCalls, OnlyCalls
<1>2. ThreadsHaveCalls'
  BY <1>1 DEF DataInv, ThreadsHaveCalls, OnlyCalls
<1> QED BY <1>2 DEF DataInv, OnlyCalls, FilesAreOwn, OneThreadEach, FileComesFirst,
        RowsMatchFiles

\* A call of its type that knows its request, source and table stays definite.
LEMMA CallMoves ==
    ASSUME DataInv, NEW f \in Fetches, OnlyCalls(f), dcUpstream' = dcUpstream,
           dcFetch' \in [Fetches -> FetchCall], dcFetch'[f].lookup \in Lookups,
           dcFetch'[f].source \in 1..Sources,
           dcFetch'[f].at = "fetched" => dcFetch'[f].version \in Versions
    PROVE  DataTypeOK' /\ CallsAreDefinite'
BY DEF OnlyCalls, DataInv, DataTypeOK, CallsAreDefinite

LEMMA FetchKeeps ==
    ASSUME DataInv, NEW f \in Fetches, NEW k \in Lookups, Fetch(f, k)
    PROVE  DataInv'
<1>1. OnlyCalls(f)
  BY DEF Fetch, OnlyCalls, DataInv, DataTypeOK
<1>2. Usable(k) => dcFiles[dcRows[k].file] \in 0..MaxVersion
  BY DataAssumption DEF Usable, DataInv, DataTypeOK, Row, Versions
<1>3. DataTypeOK'
  BY <1>2, DataAssumption DEF Fetch, DataInv, DataTypeOK, AdapterMaxAttempts, FetchCall
<1>4. CallsAreDefinite'
  BY DataAssumption DEF Fetch, DataInv, DataTypeOK, CallsAreDefinite
<1> QED BY <1>1, <1>3, <1>4, CallsKeep

LEMMA SourcesKeep ==
    ASSUME DataInv, NEW f \in Fetches, NEW b \in BOOLEAN,
           SourceAnswers(f, b) \/ SourceFails(f, b) \/ SourceRefuses(f)
    PROVE  DataInv'
<1>1. OnlyCalls(f)
  BY DEF SourceAnswers, SourceFails, SourceRefuses, Asking, OnlyCalls, DataInv, DataTypeOK
<1>2. dcFetch[f].lookup \in Lookups /\ dcFetch[f].source \in 1..Sources
  BY DEF DataInv, CallsAreDefinite, SourceAnswers, SourceFails, SourceRefuses, Asking
<1>3. dcFetch[f] \in FetchCall /\ dcFetch \in [Fetches -> FetchCall]
  BY DEF DataInv, DataTypeOK
<1>4. DataTypeOK' /\ CallsAreDefinite'
  <2>1. CASE SourceAnswers(f, b)
    <3> DEFINE v == dcUpstream[dcFetch[f].lookup]
    <3>1. v \in Versions /\ v \in 0..MaxVersion
      BY <1>2, DataAssumption DEF DataInv, DataTypeOK, Versions
    <3>2. dcFetch'[f] \in FetchCall /\ dcFetch' \in [Fetches -> FetchCall]
      <4>1. dcFetch' = [dcFetch EXCEPT ![f] =
                  [dcFetch[f] EXCEPT !.at = IF b THEN "live" ELSE "fetched", !.version = v]]
        BY <2>1, <1>3 DEF SourceAnswers
      <4>2. [dcFetch[f] EXCEPT !.at = IF b THEN "live" ELSE "fetched", !.version = v] \in FetchCall
        BY <1>3, <3>1 DEF FetchCall
      <4> HIDE DEF v
      <4> QED BY <1>3, <4>1, <4>2
    <3>3. /\ dcFetch'[f].version = v /\ dcFetch'[f].lookup = dcFetch[f].lookup
          /\ dcFetch'[f].source = dcFetch[f].source
      BY <1>3, <2>1 DEF SourceAnswers, FetchCall
    <3> HIDE DEF v
    <3> QED BY <1>1, <1>2, <2>1, <3>1, <3>2, <3>3, CallMoves DEF DataInv, DataTypeOK, SourceAnswers
  <2>2. CASE SourceFails(f, b)
    <3>1. /\ dcFetch'[f] \in FetchCall /\ dcFetch' \in [Fetches -> FetchCall]
          /\ dcFetch'[f].lookup = dcFetch[f].lookup /\ dcFetch'[f].source \in 1..Sources
          /\ dcFetch'[f].at # "fetched"
      <4>1. PICK r : /\ dcFetch' = [dcFetch EXCEPT ![f] = r]
                     /\ r = IF b /\ dcFetch[f].attempt < AdapterMaxAttempts
                            THEN [dcFetch[f] EXCEPT !.attempt = @ + 1]
                            ELSE IF dcFetch[f].source < Sources
                            THEN [dcFetch[f] EXCEPT !.source = @ + 1, !.attempt = 1]
                            ELSE [dcFetch[f] EXCEPT !.at = "failed"]
        BY <1>3, <2>2 DEF SourceFails
      <4>2. /\ r \in FetchCall /\ r.lookup = dcFetch[f].lookup /\ r.source \in 1..Sources
            /\ r.at # "fetched"
        <5>1. CASE b /\ dcFetch[f].attempt < AdapterMaxAttempts
          BY <1>2, <1>3, <2>2, <4>1, <5>1 DEF SourceFails, Asking, FetchCall, AdapterMaxAttempts
        <5>2. CASE ~(b /\ dcFetch[f].attempt < AdapterMaxAttempts) /\ dcFetch[f].source < Sources
          BY <1>2, <1>3, <2>2, <4>1, <5>2, DataAssumption DEF SourceFails, Asking, FetchCall,
             AdapterMaxAttempts
        <5>3. CASE ~(b /\ dcFetch[f].attempt < AdapterMaxAttempts) /\ ~(dcFetch[f].source < Sources)
          BY <1>2, <1>3, <4>1, <5>3 DEF FetchCall
        <5> QED BY <5>1, <5>2, <5>3
      <4> QED BY <1>3, <4>1, <4>2
    <3> QED BY <1>1, <1>2, <2>2, <3>1, CallMoves DEF DataInv, DataTypeOK, SourceFails
  <2>3. CASE SourceRefuses(f)
    BY <2>3 DEF SourceRefuses, DataInv, DataTypeOK, CallsAreDefinite, FetchCall
  <2> QED BY <2>1, <2>2, <2>3
<1> QED BY <1>1, <1>4, CallsKeep

-------------------------------------------------------------------------------
(* Writing *)

\* The lock is free, so no other thread writes whose file is not cut off.
LEMMA PutTableKeeps ==
    ASSUME DataInv, NEW f \in Fetches, PutTable(f)
    PROVE  DataInv'
<1> DEFINE n == FileOf(f)
           t == [of |-> f, lookup |-> dcFetch[f].lookup, file |-> n,
                 version |-> dcFetch[f].version, at |-> "file"]
<1>1. /\ dcFetch[f].at = "fetched" /\ dcLock = Nothing /\ dcLock' = f
      /\ dcFetch' = [dcFetch EXCEPT ![f].at = "writing"]
      /\ dcThreads' = dcThreads \cup {t}
      /\ dcFiles' = [dcFiles EXCEPT ![n] = Torn]
      /\ UNCHANGED <<dcUpstream, dcRows, dcCutOff>>
  BY DEF PutTable, StartThread
<1>2. /\ dcFetch[f].lookup \in Lookups /\ dcFetch[f].version \in Versions
      /\ n \in FileNames /\ n[2] = dcFetch[f].lookup /\ t \in Thread
  BY <1>1 DEF DataInv, CallsAreDefinite, FileOf, FileNames, Thread
<1>3. \A u \in dcThreads : u \in Thread /\ u.of \in Fetches /\ u.of # f /\ u.file \in dcCutOff
  BY <1>1, DataAssumption DEF DataInv, DataTypeOK, Thread, ThreadsHaveCalls
<1>4. t.of = f /\ t.file = n /\ t.at = "file" /\ t.lookup = dcFetch[f].lookup
  OBVIOUS
<1> HIDE DEF n, t
<1>5. DataTypeOK'
  BY <1>1, <1>2, DataAssumption DEF DataInv, DataTypeOK, Torn, FetchCall
<1>6. CallsAreDefinite'
  BY <1>1 DEF DataInv, DataTypeOK, CallsAreDefinite
<1>7. FilesAreOwn'
  BY <1>1, <1>2, <1>4 DEF DataInv, FilesAreOwn
<1>8. ThreadsHaveCalls'
  <2>1. \A u \in dcThreads : dcFetch'[u.of] = dcFetch[u.of] /\ dcFetch[u.of].at = "cancelled"
    BY <1>1, <1>3, DataAssumption DEF DataInv, DataTypeOK, ThreadsHaveCalls
  <2>2. dcFetch'[f].at = "writing"
    BY <1>1 DEF DataInv, DataTypeOK
  <2> QED BY <1>1, <1>3, <1>4, <2>1, <2>2 DEF ThreadsHaveCalls
<1>9. OneThreadEach' /\ FileComesFirst'
  BY <1>1, <1>3, <1>4 DEF DataInv, OneThreadEach, FileComesFirst
<1>10. RowsMatchFiles'
  BY <1>1, <1>2, <1>4 DEF DataInv, DataTypeOK, RowsMatchFiles, Row
<1> QED BY <1>5, <1>6, <1>7, <1>8, <1>9, <1>10 DEF DataInv

\* The file has its table; its row follows.
LEMMA WriteFileKeeps ==
    ASSUME DataInv, NEW t \in dcThreads, WriteFile(t)
    PROVE  DataInv'
<1> DEFINE w == [t EXCEPT !.at = "row"]
<1>1. /\ t.at = "file" /\ dcThreads' = (dcThreads \ {t}) \cup {w}
      /\ dcFiles' = [dcFiles EXCEPT ![t.file] = t.version]
      /\ UNCHANGED <<dcFetch, dcUpstream, dcRows, dcLock, dcCutOff>>
  BY DEF WriteFile
<1>2. t \in Thread /\ t.file \in FileNames /\ t.version \in Versions
  BY DEF DataInv, DataTypeOK, Thread
<1>3. /\ w \in Thread /\ w.of = t.of /\ w.lookup = t.lookup /\ w.file = t.file
      /\ w.version = t.version /\ w.at = "row"
  BY <1>2 DEF Thread
<1> HIDE DEF w
<1>4. DataTypeOK' /\ CallsAreDefinite'
  BY <1>1, <1>2, <1>3 DEF DataInv, DataTypeOK, CallsAreDefinite, FetchCall
<1>5. FilesAreOwn' /\ ThreadsHaveCalls' /\ OneThreadEach'
  BY <1>1, <1>3 DEF DataInv, FilesAreOwn, ThreadsHaveCalls, OneThreadEach
<1>6. FileComesFirst'
  <2> SUFFICES ASSUME NEW u \in dcThreads', u.at = "row", u.file \notin dcCutOff
               PROVE  dcFiles'[u.file] = u.version
    BY <1>1 DEF FileComesFirst
  <2>1. CASE u = w
    BY <2>1, <1>1, <1>2, <1>3 DEF DataInv, DataTypeOK
  <2>2. CASE u # w
    <3>1. u \in dcThreads /\ u # t /\ u \in Thread /\ u.file \in FileNames
      BY <2>2, <1>1 DEF DataInv, DataTypeOK, Thread
    <3>2. u.file # t.file
      BY <3>1, OneWriter
    <3> QED BY <3>1, <3>2, <1>1, <1>2 DEF DataInv, DataTypeOK, FileComesFirst
  <2> QED BY <2>1, <2>2
<1>7. RowsMatchFiles'
  BY <1>1, <1>2, <1>3 DEF DataInv, DataTypeOK, RowsMatchFiles, Row
<1> QED BY <1>4, <1>5, <1>6, <1>7 DEF DataInv

\* The row is of the table the file holds; no other row points to that file.
LEMMA WriteRowKeeps ==
    ASSUME DataInv, NEW t \in dcThreads, WriteRow(t)
    PROVE  DataInv'
<1> DEFINE row == [file |-> t.file, version |-> t.version, expired |-> FALSE]
<1>1. /\ t.at = "row" /\ dcThreads' = dcThreads \ {t}
      /\ dcRows' = [dcRows EXCEPT ![t.lookup] = row]
      /\ UNCHANGED <<dcUpstream, dcFiles, dcCutOff>>
  BY DEF WriteRow
<1>2. \/ /\ dcFetch[t.of].at = "writing"
         /\ dcFetch' = [dcFetch EXCEPT ![t.of].at = "live"] /\ dcLock' = Nothing
      \/ dcFetch[t.of].at # "writing" /\ UNCHANGED <<dcFetch, dcLock>>
  BY DEF WriteRow
<1>3. /\ t \in Thread /\ t.of \in Fetches /\ t.lookup \in Lookups /\ row \in Row
      /\ row.file = t.file /\ row.version = t.version
  BY DEF DataInv, DataTypeOK, Thread, Row
<1> HIDE DEF row
<1>4. DataTypeOK' /\ CallsAreDefinite'
  <2>1. CASE UNCHANGED <<dcFetch, dcLock>>
    BY <1>1, <1>3, <2>1 DEF DataInv, DataTypeOK, CallsAreDefinite
  <2>2. CASE /\ dcFetch[t.of].at = "writing"
             /\ dcFetch' = [dcFetch EXCEPT ![t.of].at = "live"] /\ dcLock' = Nothing
    <3>1. [dcFetch[t.of] EXCEPT !.at = "live"] \in FetchCall
      <4>1. dcFetch[t.of] \in FetchCall
        BY <1>3 DEF DataInv, DataTypeOK
      <4>2. \A c \in FetchCall : [c EXCEPT !.at = "live"] \in FetchCall
        BY DEF FetchCall
      <4> QED BY <4>1, <4>2
    <3>2. DataTypeOK'
      BY <1>1, <1>3, <2>2, <3>1 DEF DataInv, DataTypeOK
    <3>3. CallsAreDefinite'
      BY <1>3, <2>2 DEF DataInv, DataTypeOK, CallsAreDefinite, FetchCall
    <3> QED BY <3>2, <3>3
  <2> QED BY <1>2, <2>1, <2>2
<1>5. FilesAreOwn'
  BY <1>1, <1>3 DEF DataInv, DataTypeOK, FilesAreOwn
<1>6. ThreadsHaveCalls'
  <2> SUFFICES ASSUME NEW u \in dcThreads, u # t
               PROVE  \/ dcFetch'[u.of].at = "writing" /\ dcLock' = u.of
                      \/ dcFetch'[u.of].at = "cancelled" /\ u.file \in dcCutOff
    BY <1>1 DEF ThreadsHaveCalls
  <2>1. u.of # t.of /\ u.of \in Fetches
    BY DEF DataInv, OneThreadEach, DataTypeOK, Thread
  <2>2. dcFetch'[u.of] = dcFetch[u.of]
    BY <1>2, <1>3, <2>1 DEF DataInv, DataTypeOK
  <2>3. CASE dcFetch[t.of].at = "writing"
    BY <1>2, <2>1, <2>2, <2>3 DEF DataInv, ThreadsHaveCalls
  <2>4. CASE dcFetch[t.of].at # "writing"
    BY <1>2, <2>2, <2>4 DEF DataInv, ThreadsHaveCalls
  <2> QED BY <2>3, <2>4
<1>7. OneThreadEach' /\ FileComesFirst'
  BY <1>1 DEF DataInv, OneThreadEach, FileComesFirst
<1>8. RowsMatchFiles'
  <2> SUFFICES ASSUME NEW k \in Lookups, dcRows'[k] # Nothing
               PROVE  \/ dcFiles[dcRows'[k].file] = dcRows'[k].version
                      \/ \E u \in dcThreads' : u.file = dcRows'[k].file
                      \/ dcRows'[k].file \in dcCutOff
    BY <1>1 DEF RowsMatchFiles
  <2>1. CASE k = t.lookup
    BY <2>1, <1>1, <1>3 DEF DataInv, DataTypeOK, FileComesFirst
  <2>2. CASE k # t.lookup
    <3>1. dcRows'[k] = dcRows[k]
      BY <2>2, <1>1, <1>3 DEF DataInv, DataTypeOK
    <3>2. dcRows[k].file # t.file
      BY <2>2, <3>1 DEF DataInv, FilesAreOwn
    <3> QED BY <3>1, <3>2, <1>1 DEF DataInv, RowsMatchFiles
  <2> QED BY <2>1, <2>2
<1> QED BY <1>4, <1>5, <1>6, <1>7, <1>8 DEF DataInv

-------------------------------------------------------------------------------
(* Cancellation, crash and time *)

\* The lock is freed, the thread goes on, its file counts as cut off.
LEMMA CancelKeeps ==
    ASSUME DataInv, NEW f \in Fetches, CancelFetch(f)
    PROVE  DataInv'
<1>1. /\ dcFetch' = [dcFetch EXCEPT ![f].at = "cancelled"]
      /\ dcLock' = IF dcLock = f THEN Nothing ELSE dcLock
      /\ dcCutOff' = dcCutOff \cup {t.file : t \in {u \in dcThreads : u.of = f}}
      /\ UNCHANGED <<dcUpstream, dcFiles, dcRows, dcThreads>>
  BY DEF CancelFetch
<1>2. \A t \in dcThreads : t.of \in Fetches /\ t.file \in FileNames
  BY DEF DataInv, DataTypeOK, Thread
<1>3. DataTypeOK'
  <2>1. dcCutOff' \subseteq FileNames
    BY <1>1, <1>2 DEF DataInv, DataTypeOK
  <2> QED BY <1>1, <2>1 DEF DataInv, DataTypeOK, FetchCall
<1>4. CallsAreDefinite' /\ FilesAreOwn' /\ OneThreadEach'
  BY <1>1 DEF DataInv, DataTypeOK, CallsAreDefinite, FilesAreOwn, OneThreadEach
<1>5. ThreadsHaveCalls'
  <2> SUFFICES ASSUME NEW t \in dcThreads
               PROVE  \/ dcFetch'[t.of].at = "writing" /\ dcLock' = t.of
                      \/ dcFetch'[t.of].at = "cancelled" /\ t.file \in dcCutOff'
    BY <1>1 DEF ThreadsHaveCalls
  <2>1. CASE t.of = f
    BY <2>1, <1>1 DEF DataInv, DataTypeOK
  <2>2. CASE t.of # f
    BY <2>2, <1>1, <1>2 DEF DataInv, DataTypeOK, ThreadsHaveCalls
  <2> QED BY <2>1, <2>2
<1>6. FileComesFirst' /\ RowsMatchFiles'
  BY <1>1 DEF DataInv, FileComesFirst, RowsMatchFiles
<1> QED BY <1>3, <1>4, <1>5, <1>6 DEF DataInv

\* The files that were being written count as cut off.
LEMMA CrashKeeps == ASSUME DataInv, DataCrash PROVE DataInv'
<1>1. /\ dcFetch' = [f \in Fetches |->
             IF dcFetch[f].at \in {"asking", "fetched", "writing"}
             THEN [dcFetch[f] EXCEPT !.at = "cancelled"] ELSE dcFetch[f]]
      /\ dcLock' = Nothing /\ dcThreads' = {}
      /\ dcCutOff' = dcCutOff \cup {t.file : t \in dcThreads}
      /\ UNCHANGED <<dcUpstream, dcFiles, dcRows>>
  BY DEF DataCrash
<1>2. DataTypeOK'
  <2>1. dcCutOff' \subseteq FileNames
    BY <1>1 DEF DataInv, DataTypeOK, Thread
  <2> QED BY <1>1, <2>1 DEF DataInv, DataTypeOK, FetchCall
<1>3. CallsAreDefinite' /\ FilesAreOwn' /\ ThreadsHaveCalls' /\ OneThreadEach' /\ FileComesFirst'
  BY <1>1 DEF DataInv, DataTypeOK, CallsAreDefinite, FilesAreOwn, ThreadsHaveCalls,
     OneThreadEach, FileComesFirst
<1>4. RowsMatchFiles'
  BY <1>1 DEF DataInv, RowsMatchFiles
<1> QED BY <1>2, <1>3, <1>4 DEF DataInv

\* A newer table at the sources changes nothing here, an expired row only its mark.
LEMMA TimeKeeps ==
    ASSUME DataInv, NEW k \in Lookups, Publish(k) \/ Expire(k)
    PROVE  DataInv'
<1>1. CASE Publish(k)
  BY <1>1, DataAssumption DEF Publish, DataInv, DataTypeOK, CallsAreDefinite, FilesAreOwn,
     ThreadsHaveCalls, OneThreadEach, FileComesFirst, RowsMatchFiles, Versions
<1>2. CASE Expire(k)
  <2>1. /\ dcRows' = [dcRows EXCEPT ![k].expired = TRUE] /\ dcRows[k] # Nothing
        /\ UNCHANGED <<dcFetch, dcUpstream, dcFiles, dcLock, dcThreads, dcCutOff>>
    BY <1>2 DEF Expire
  <2>2. dcRows[k] \in Row
    BY <2>1 DEF DataInv, DataTypeOK
  <2>3. /\ dcRows'[k] \in Row /\ dcRows'[k].file = dcRows[k].file
        /\ dcRows'[k].version = dcRows[k].version
        /\ \A l \in Lookups : l # k => dcRows'[l] = dcRows[l]
    BY <2>1, <2>2 DEF DataInv, DataTypeOK, Row
  <2>4. DataTypeOK'
    BY <2>1, <2>3 DEF DataInv, DataTypeOK
  <2>5. FilesAreOwn' /\ RowsMatchFiles'
    BY <2>1, <2>3 DEF DataInv, FilesAreOwn, RowsMatchFiles
  <2> QED BY <2>1, <2>4, <2>5 DEF DataInv, CallsAreDefinite, ThreadsHaveCalls, OneThreadEach,
          FileComesFirst
<1> QED BY <1>1, <1>2

-------------------------------------------------------------------------------
LEMMA DataKept == DataInv /\ [DataNext]_dataVars => DataInv'
<1> SUFFICES ASSUME DataInv, [DataNext]_dataVars PROVE DataInv'
  OBVIOUS
<1>1. CASE UNCHANGED dataVars
  BY <1>1 DEF dataVars, DataInv, DataTypeOK, CallsAreDefinite, FilesAreOwn, ThreadsHaveCalls,
     OneThreadEach, FileComesFirst, RowsMatchFiles
<1>2. CASE DataNext
  BY <1>2, FetchKeeps, SourcesKeep, PutTableKeeps, WriteFileKeeps, WriteRowKeeps, CancelKeeps,
     CrashKeeps, TimeKeeps DEF DataNext
<1> QED BY <1>1, <1>2

\* Whatever calls, threads, cancellations, crashes and clocks do, a row of the index and
\* its file are of the same table, unless the file is being written or a write of it was
\* cut off (cache.py, put and get).
THEOREM IndexMatchesFiles == DataSpec => [](DataTypeOK /\ RowsMatchFiles)
<1>1. DataInv => DataTypeOK /\ RowsMatchFiles
  BY DEF DataInv
<1> QED BY DataInitially, DataKept, <1>1, PTL DEF DataSpec

-------------------------------------------------------------------------------
(***************************************************************************)
(* The breaker of the interfaces and the session of the client              *)
(***************************************************************************)
SourceSpec == SourceInit /\ [][ChainNext \/ DatasetNext]_sourceVars

\* A call is a record of these fields; which interfaces are to do is no matter here.
IsCall(c) ==
    c \in [at : {c.at}, kind : {c.kind}, todo : {c.todo}, tries : {c.tries}, rows : {c.rows},
          made : {c.made}]

CallsAreCalls ==
    /\ scCall = [t \in Threads |-> scCall[t]]
    /\ \A t \in Threads : IsCall(scCall[t]) /\ scCall[t].made \in 0..scOpened

Outcomes == {<<>>, <<"ok">>, <<"failed">>, <<"ok", "ok">>, <<"ok", "failed">>,
             <<"failed", "ok">>, <<"failed", "failed">>}
EndsInFailure == {<<"failed">>, <<"ok", "failed">>, <<"failed", "failed">>}

\* The count of an interface is about its last outcomes: one, and the last was a failure;
\* two, and so was the one before.
FailuresAreTheLast ==
    /\ scFailures \in [1..Feeds -> 0..UnhealthyAfterFailures]
    /\ scHealth \in [1..Feeds -> {"well", "cooling", "over"}]
    /\ scLast \in [1..Feeds -> Outcomes]
    /\ \A i \in 1..Feeds :
         /\ scFailures[i] = 1 => scLast[i] \in EndsInFailure
         /\ scFailures[i] = 2 => scLast[i] = <<"failed", "failed">>
         /\ scHealth[i] \in {"cooling", "over"} => scLast[i] = <<"failed", "failed">>

\* The server numbers its sessions, and does not give a number twice.
SessionsAreNumbered ==
    /\ scOpened \in Nat /\ scKnown \subseteq 1..scOpened /\ scClient.id \in 0..scOpened
    /\ scClient = [ready |-> scClient.ready, id |-> scClient.id]

\* A call that was sent holds the client; one sent again has made its session.
SentHoldsTheClient ==
    \A t \in Threads :
        /\ scCall[t].at \in {"sent", "again"} => scHolder = t
        /\ scCall[t].at = "again" => scCall[t].made = scClient.id

\* What was lost, was lost for good.
LostForGood ==
    \A t \in Threads : scCall[t].at = "lost" =>
        scCall[t].made # 0 /\ scCall[t].made \notin scKnown

SourceInv ==
    /\ CallsAreCalls
    /\ FailuresAreTheLast
    /\ SessionsAreNumbered
    /\ SentHoldsTheClient
    /\ LostForGood

\* Of the outcomes of an interface the last two are kept.
LEMMA LastTwoAre ==
    ASSUME NEW o \in {"ok", "failed"}
    PROVE  /\ LastTwo(<<>>, o) = <<o>>
           /\ \A a \in {"ok", "failed"} : LastTwo(<<a>>, o) = <<a, o>>
           /\ \A a, b \in {"ok", "failed"} : LastTwo(<<a, b>>, o) = <<b, o>>
<1>1. LastTwo(<<>>, o) = <<o>>
  BY DEF LastTwo
<1>2. ASSUME NEW a \in {"ok", "failed"} PROVE LastTwo(<<a>>, o) = <<a, o>>
  <2> DEFINE all == Append(<<a>>, o)
  <2>1. <<a>> \in Seq({"ok", "failed"}) /\ Len(<<a>>) = 1
    OBVIOUS
  <2>2. /\ all \in Seq({"ok", "failed"}) /\ Len(all) = 2
        /\ all[1] = a /\ all[2] = o
    BY <2>1
  <2>3. all = LastTwo(<<a>>, o)
    BY <2>2 DEF LastTwo
  <2> HIDE DEF all
  <2>4. all = <<a, o>>
    BY <2>2
  <2> QED BY <2>3, <2>4
<1>3. ASSUME NEW a \in {"ok", "failed"}, NEW b \in {"ok", "failed"}
      PROVE  LastTwo(<<a, b>>, o) = <<b, o>>
  <2> DEFINE all == Append(<<a, b>>, o)
             kept == Tail(all)
  <2>1. <<a, b>> \in Seq({"ok", "failed"}) /\ Len(<<a, b>>) = 2
    OBVIOUS
  <2>2. /\ all \in Seq({"ok", "failed"}) /\ Len(all) = 3
        /\ all[2] = b /\ all[3] = o
    BY <2>1
  <2>3. kept = LastTwo(<<a, b>>, o)
    BY <2>2 DEF LastTwo
  <2> HIDE DEF all
  <2>4. kept \in Seq({"ok", "failed"}) /\ Len(kept) = 2 /\ kept[1] = b /\ kept[2] = o
    BY <2>2
  <2> HIDE DEF kept
  <2>5. kept = <<b, o>>
    BY <2>4
  <2> QED BY <2>3, <2>5
<1> QED BY <1>1, <1>2, <1>3

LEMMA SourceInitially == SourceInit => SourceInv
BY SourceAssumption
   DEF SourceInit, SourceInv, CallsAreCalls, IsCall, NoCall, FailuresAreTheLast, Outcomes,
       EndsInFailure, SessionsAreNumbered, SentHoldsTheClient, LostForGood,
       UnhealthyAfterFailures

\* A step of one call that opens no session and leaves the client and who holds it alone,
\* or gives it back.
CallOnly(t, ats) ==
    /\ scCall' = [u \in Threads |-> scCall'[u]]
    /\ \A u \in Threads : u # t => scCall'[u] = scCall[u]
    /\ IsCall(scCall'[t]) /\ scCall'[t].at \in ats
    /\ scCall'[t].made \in {0, scCall[t].made}

LEMMA CallsKept ==
    ASSUME SourceInv, NEW t \in Threads,
           CallOnly(t, {"idle", "chain", "want", "rows", "failed"}), FailuresAreTheLast',
           UNCHANGED <<scKnown, scOpened>>,
           scClient' = scClient \/ (scClient' = [ready |-> FALSE, id |-> 0] /\ scHolder \in {t, Free}),
           scHolder' = scHolder \/ (scHolder' = Free /\ scHolder \in {t, Free})
    PROVE  SourceInv'
<1>1. CallsAreCalls' /\ SessionsAreNumbered'
  BY DEF SourceInv, CallsAreCalls, SessionsAreNumbered, CallOnly
<1>2. ASSUME NEW u \in Threads, u # t, scCall[u].at \in {"sent", "again"}
      PROVE  scHolder' = scHolder /\ scHolder = u /\ scClient' = scClient
  <2>1. scHolder = u
    BY <1>2 DEF SourceInv, SentHoldsTheClient
  <2> QED BY <1>2, <2>1, SourceAssumption
<1>3. SentHoldsTheClient'
  <2> SUFFICES ASSUME NEW u \in Threads, scCall'[u].at \in {"sent", "again"}
               PROVE  /\ scHolder' = u
                      /\ scCall'[u].at = "again" => scCall'[u].made = scClient'.id
    BY DEF SentHoldsTheClient
  <2>1. u # t /\ scCall'[u] = scCall[u]
    BY DEF CallOnly
  <2> QED BY <1>2, <2>1 DEF SourceInv, SentHoldsTheClient
<1>4. LostForGood'
  BY DEF SourceInv, LostForGood, CallOnly
<1> QED BY <1>1, <1>3, <1>4 DEF SourceInv

\* The two ways a call of a chain ends or goes on.
LEMMA CallForms ==
    ASSUME SourceInv, NEW t \in Threads
    PROVE  /\ \A how \in {"idle", "chain", "want", "rows", "failed", "lost"} :
                Finish(t, how) => CallOnly(t, {how}) /\ scCall'[t].made = scCall[t].made
           /\ NextOf(t) => CallOnly(t, {scCall[t].at, "failed"})
BY DEF SourceInv, CallsAreCalls, IsCall, Finish, NextOf, CallOnly

LEMMA ChainStep == SourceInv /\ ChainNext => SourceInv'
<1> SUFFICES ASSUME SourceInv, ChainNext PROVE SourceInv'
  OBVIOUS
<1>1. ASSUME NEW t \in Threads, NEW kind \in Kinds, StartChain(t, kind) PROVE SourceInv'
  <2>1. CallOnly(t, {"chain"}) /\ UNCHANGED <<scLast, clientVars>>
    BY <1>1 DEF StartChain, SourceInv, CallsAreCalls, IsCall, NoCall, CallOnly
  <2>2. FailuresAreTheLast'
    <3>1. CASE Look
      BY <2>1, <3>1 DEF Look, SourceInv, FailuresAreTheLast, UnhealthyAfterFailures
    <3>2. CASE UNCHANGED <<scFailures, scHealth>>
      BY <2>1, <3>2 DEF SourceInv, FailuresAreTheLast
    <3> QED BY <1>1, <3>1, <3>2 DEF StartChain
  <2> QED BY <2>1, <2>2, CallsKept DEF clientVars, CallOnly
<1>2. ASSUME NEW t \in Threads, InterfaceAnswers(t) PROVE SourceInv'
  <2> DEFINE i == InterfaceOf(t)
  <2>1. CallOnly(t, {"rows"}) /\ UNCHANGED clientVars
    BY <1>2, CallForms DEF InterfaceAnswers
  <2>2. FailuresAreTheLast'
    <3>1. CASE scCall[t].kind = "quote"
      <4>1. /\ scHealth' = [scHealth EXCEPT ![i] = "well"]
            /\ scFailures' = [scFailures EXCEPT ![i] = 0]
            /\ scLast' = [scLast EXCEPT ![i] = LastTwo(@, "ok")]
        BY <1>2, <3>1 DEF InterfaceAnswers, NoteSuccess
      <4>2. \A o \in Outcomes : LastTwo(o, "ok") \in Outcomes
        BY LastTwoAre DEF Outcomes
      <4> HIDE DEF i
      <4>3. /\ scFailures' \in [1..Feeds -> 0..UnhealthyAfterFailures]
            /\ scHealth' \in [1..Feeds -> {"well", "cooling", "over"}]
            /\ scLast' \in [1..Feeds -> Outcomes]
        <5>1. scHealth' \in [1..Feeds -> {"well", "cooling", "over"}]
          BY <4>1 DEF SourceInv, FailuresAreTheLast
        <5>3. 0 \in 0..UnhealthyAfterFailures
          BY DEF UnhealthyAfterFailures
        <5>4. scFailures' \in [1..Feeds -> 0..UnhealthyAfterFailures]
          BY <4>1, <5>3 DEF SourceInv, FailuresAreTheLast
        <5>2. scLast' \in [1..Feeds -> Outcomes]
          BY <4>1, <4>2 DEF SourceInv, FailuresAreTheLast
        <5> QED BY <5>1, <5>2, <5>4
      <4>4. ASSUME NEW j \in 1..Feeds, j # i
            PROVE  /\ scFailures'[j] = scFailures[j] /\ scHealth'[j] = scHealth[j]
                   /\ scLast'[j] = scLast[j]
        BY <4>1, <4>4 DEF SourceInv, FailuresAreTheLast
      <4>5. i \in 1..Feeds => scFailures'[i] = 0 /\ scHealth'[i] = "well"
        BY <4>1 DEF SourceInv, FailuresAreTheLast
      <4> QED BY <4>3, <4>4, <4>5 DEF SourceInv, FailuresAreTheLast
    <3>2. CASE scCall[t].kind # "quote"
      BY <1>2, <3>2 DEF InterfaceAnswers, healthVars, SourceInv, FailuresAreTheLast
    <3> QED BY <3>1, <3>2
  <2> QED BY <2>1, <2>2, CallsKept DEF clientVars, CallOnly
<1>3. ASSUME NEW t \in Threads, InterfaceFails(t) PROVE SourceInv'
  <2> DEFINE i == InterfaceOf(t)
  <2>1. CallOnly(t, {"chain", "failed"}) /\ UNCHANGED clientVars
    BY <1>3, CallForms DEF InterfaceFails, Walks
  <2>2. FailuresAreTheLast'
    <3>1. CASE scCall[t].kind = "quote"
      <4> DEFINE count == IF scFailures[i] < UnhealthyAfterFailures THEN scFailures[i] + 1
                          ELSE scFailures[i]
      <4>1. /\ scFailures' = [scFailures EXCEPT ![i] = count]
            /\ scHealth' = IF count >= UnhealthyAfterFailures
                           THEN [scHealth EXCEPT ![i] = "cooling"] ELSE scHealth
            /\ scLast' = [scLast EXCEPT ![i] = LastTwo(@, "failed")]
        BY <1>3, <3>1 DEF InterfaceFails, NoteFailure
      <4>2. /\ \A o \in Outcomes : LastTwo(o, "failed") \in EndsInFailure
            /\ \A o \in EndsInFailure : LastTwo(o, "failed") = <<"failed", "failed">>
            /\ EndsInFailure \subseteq Outcomes
        BY LastTwoAre DEF Outcomes, EndsInFailure
      <4>3. i \in 1..Feeds => count \in 1..2 /\ (count = 2 <=> scFailures[i] \in {1, 2})
        BY DEF SourceInv, FailuresAreTheLast, UnhealthyAfterFailures
      <4> HIDE DEF i, count
      <4>4. <<"failed", "failed">> \in EndsInFailure
        BY DEF EndsInFailure
      <4>5. ASSUME NEW j \in 1..Feeds, j # i
            PROVE  /\ scFailures'[j] = scFailures[j] /\ scHealth'[j] = scHealth[j]
                   /\ scLast'[j] = scLast[j]
        BY <4>1, <4>5 DEF SourceInv, FailuresAreTheLast
      <4>6. CASE i \in 1..Feeds
        <5>1. /\ scFailures'[i] = count /\ scLast'[i] = LastTwo(scLast[i], "failed")
              /\ scHealth'[i] = IF count = 2 THEN "cooling" ELSE scHealth[i]
          BY <4>1, <4>3, <4>6 DEF SourceInv, FailuresAreTheLast, UnhealthyAfterFailures
        <5>2. scLast'[i] \in EndsInFailure
          BY <4>2, <4>6, <5>1 DEF SourceInv, FailuresAreTheLast
        <5>3. scFailures[i] \in {1, 2} \/ scHealth[i] \in {"cooling", "over"} =>
                scLast'[i] = <<"failed", "failed">>
          BY <4>2, <4>4, <4>6, <5>1 DEF SourceInv, FailuresAreTheLast
        <5> QED BY <4>1, <4>2, <4>3, <4>5, <4>6, <5>1, <5>2, <5>3
                DEF SourceInv, FailuresAreTheLast, UnhealthyAfterFailures
      <4>7. CASE i \notin 1..Feeds
        BY <4>1, <4>5, <4>7 DEF SourceInv, FailuresAreTheLast
      <4> QED BY <4>6, <4>7
    <3>2. CASE scCall[t].kind # "quote"
      BY <1>3, <3>2 DEF InterfaceFails, healthVars, SourceInv, FailuresAreTheLast
    <3> QED BY <3>1, <3>2
  <2> QED BY <2>1, <2>2, CallsKept DEF clientVars, CallOnly
<1>4. ASSUME NEW t \in Threads, NEW o \in {"rows", "no column", "error"}, MacroSource(t, o)
      PROVE  SourceInv'
  <2>1. CallOnly(t, {"chain", "rows", "failed"}) /\ UNCHANGED <<healthVars, clientVars>>
    <3>1. CASE Finish(t, "failed") \/ Finish(t, "rows")
      BY <1>4, <3>1, CallForms DEF MacroSource, CallOnly
    <3>2. CASE \E rows : scCall' = [scCall EXCEPT ![t].todo = Tail(@), ![t].rows = rows]
      <4>1. PICK rows : scCall' = [scCall EXCEPT ![t].todo = Tail(@), ![t].rows = rows]
        BY <3>2
      <4>2. /\ scCall[t].at = "chain" /\ UNCHANGED <<healthVars, clientVars>>
            /\ scCall = [u \in Threads |-> scCall[u]] /\ IsCall(scCall[t])
        BY <1>4 DEF MacroSource, Walks, SourceInv, CallsAreCalls
      <4>3. /\ scCall' = [u \in Threads |-> scCall'[u]]
            /\ \A u \in Threads : u # t => scCall'[u] = scCall[u]
            /\ scCall'[t] = [scCall[t] EXCEPT !.todo = Tail(@), !.rows = rows]
        BY <4>1, <4>2
      <4>4. IsCall(scCall'[t]) /\ scCall'[t].at = "chain" /\ scCall'[t].made = scCall[t].made
        BY <4>2, <4>3 DEF IsCall
      <4> QED BY <4>2, <4>3, <4>4 DEF CallOnly
    <3> QED BY <1>4, <3>1, <3>2 DEF MacroSource
  <2> QED BY <2>1, CallsKept
          DEF clientVars, healthVars, CallOnly, SourceInv, FailuresAreTheLast
<1>5. ASSUME NEW t \in Threads, NEW o \in {"found", "missing", "error"}, SectorTable(t, o)
      PROVE  SourceInv'
  <2>1. CallOnly(t, {"chain", "failed"}) /\ UNCHANGED <<healthVars, clientVars>>
    BY <1>5, CallForms
       DEF SectorTable, Walks, SourceInv, CallsAreCalls, IsCall, CallOnly
  <2> QED BY <2>1, CallsKept
          DEF clientVars, healthVars, CallOnly, SourceInv, FailuresAreTheLast
<1>6. ASSUME NEW t \in Threads, Collect(t) PROVE SourceInv'
  <2>1. CallOnly(t, {"idle"}) /\ UNCHANGED <<healthVars, clientVars>>
    BY <1>6 DEF Collect, SourceInv, CallsAreCalls, IsCall, NoCall, CallOnly
  <2> QED BY <2>1, CallsKept
          DEF clientVars, healthVars, CallOnly, SourceInv, FailuresAreTheLast
<1>7. ASSUME NEW i \in 1..Feeds, CooldownEnds(i) PROVE SourceInv'
  BY <1>7 DEF CooldownEnds, clientVars, SourceInv, CallsAreCalls, FailuresAreTheLast,
              SessionsAreNumbered, SentHoldsTheClient, LostForGood
<1> QED BY <1>1, <1>2, <1>3, <1>4, <1>5, <1>6, <1>7 DEF ChainNext

\* Another call that was sent holds the client.
LEMMA OthersWait ==
    ASSUME SourceInv, NEW t \in Threads, scHolder \in {t, Free}, NEW u \in Threads, u # t
    PROVE  scCall[u].at \notin {"sent", "again"}
BY SourceAssumption DEF SourceInv, SentHoldsTheClient

\* The handshake opens a session nobody has had, or none.
LEMMA HandshakeFresh ==
    ASSUME SourceInv, NEW t \in Threads, NEW link \in Links, Handshake(t, link),
           scHolder' = t, scHolder \in {t, Free},
           scCall' = [u \in Threads |-> scCall'[u]], IsCall(scCall'[t]),
           \A u \in Threads : u # t => scCall'[u] = scCall[u],
           scCall'[t].at \in {"sent", "again"}, scCall'[t].made = link,
           UNCHANGED healthVars
    PROVE  SourceInv'
<1>1. link \in Nat /\ (link = 0 \/ link = scOpened + 1)
  BY DEF Links, SourceInv, SessionsAreNumbered
<1>2. /\ scClient' = [ready |-> TRUE, id |-> link] /\ scOpened \in Nat
      /\ scKnown' = IF link = 0 THEN scKnown ELSE scKnown \cup {link}
      /\ scOpened' = IF link = 0 THEN scOpened ELSE link
  BY DEF Handshake, SourceInv, SessionsAreNumbered
<1>3. SessionsAreNumbered'
  BY <1>1, <1>2 DEF SourceInv, SessionsAreNumbered
<1>4. CallsAreCalls'
  BY <1>1, <1>2 DEF SourceInv, CallsAreCalls
<1>5. SentHoldsTheClient'
  BY <1>2, OthersWait DEF SentHoldsTheClient
<1>6. LostForGood'
  BY <1>1, <1>2 DEF SourceInv, LostForGood, CallsAreCalls
<1> QED BY <1>3, <1>4, <1>5, <1>6 DEF SourceInv, healthVars, FailuresAreTheLast

LEMMA DatasetStep == SourceInv /\ DatasetNext => SourceInv'
<1> SUFFICES ASSUME SourceInv, DatasetNext PROVE SourceInv'
  OBVIOUS
<1>0. UNCHANGED healthVars => FailuresAreTheLast'
  BY DEF healthVars, SourceInv, FailuresAreTheLast
<1>1. ASSUME NEW t \in Threads, NEW kind \in Kinds, StartDataset(t, kind) PROVE SourceInv'
  <2>1. CallOnly(t, {"want"}) /\ UNCHANGED <<healthVars, clientVars>>
    BY <1>1 DEF StartDataset, SourceInv, CallsAreCalls, IsCall, NoCall, CallOnly
  <2> QED BY <1>0, <2>1, CallsKept DEF clientVars, CallOnly
<1>2. ASSUME NEW t \in Threads, Send(t) PROVE SourceInv'
  <2>1. scHolder = Free /\ scHolder' = t /\ UNCHANGED healthVars
    BY <1>2 DEF Send
  <2>2. CASE scCall' = [scCall EXCEPT ![t].at = "sent", ![t].made = 0]
             /\ UNCHANGED <<scClient, scKnown, scOpened>>
    <3>1. /\ scCall' = [u \in Threads |-> scCall'[u]] /\ IsCall(scCall'[t])
          /\ scCall'[t].at = "sent" /\ scCall'[t].made = 0
          /\ \A u \in Threads : u # t => scCall'[u] = scCall[u]
      BY <2>2 DEF SourceInv, CallsAreCalls, IsCall
    <3>2. SentHoldsTheClient'
      BY <2>1, <3>1, OthersWait DEF SentHoldsTheClient
    <3>3. CallsAreCalls' /\ SessionsAreNumbered' /\ LostForGood'
      BY <2>2, <3>1 DEF SourceInv, CallsAreCalls, SessionsAreNumbered, LostForGood
    <3> QED BY <1>0, <2>1, <3>2, <3>3 DEF SourceInv
  <2>3. ASSUME NEW link \in Links, Handshake(t, link),
               scCall' = [scCall EXCEPT ![t].at = "sent", ![t].made = link]
        PROVE  SourceInv'
    <3>1. /\ scCall' = [u \in Threads |-> scCall'[u]] /\ IsCall(scCall'[t])
          /\ scCall'[t].at = "sent" /\ scCall'[t].made = link
          /\ \A u \in Threads : u # t => scCall'[u] = scCall[u]
      BY <2>3 DEF SourceInv, CallsAreCalls, IsCall
    <3> QED BY <2>1, <2>3, <3>1, HandshakeFresh
  <2> QED BY <1>2, <2>2, <2>3 DEF Send
<1>3. ASSUME NEW t \in Threads, Rebuild(t) PROVE SourceInv'
  <2>1. PICK link \in Links : /\ Handshake(t, link)
                              /\ scCall' = [scCall EXCEPT ![t].at = "again", ![t].made = link]
    BY <1>3 DEF Rebuild
  <2>2. scHolder = t /\ scHolder' = t /\ UNCHANGED healthVars
    BY <1>3 DEF Rebuild, SourceInv, SentHoldsTheClient
  <2>3. /\ scCall' = [u \in Threads |-> scCall'[u]] /\ IsCall(scCall'[t])
        /\ scCall'[t].at = "again" /\ scCall'[t].made = link
        /\ \A u \in Threads : u # t => scCall'[u] = scCall[u]
    BY <2>1 DEF SourceInv, CallsAreCalls, IsCall
  <2> QED BY <2>1, <2>2, <2>3, HandshakeFresh
<1>4. ASSUME NEW t \in Threads, LoseAgain(t) PROVE SourceInv'
  <2>1. /\ scHolder = t /\ scHolder' = Free /\ UNCHANGED <<healthVars, scClient, scKnown, scOpened>>
        /\ scCall[t].made = scClient.id /\ scClient.id # 0 /\ scClient.id \notin scKnown
    BY <1>4 DEF LoseAgain, Known, SourceInv, SentHoldsTheClient
  <2>2. CallOnly(t, {"lost"}) /\ scCall'[t].made = scCall[t].made
    BY <1>4, CallForms DEF LoseAgain
  <2>3. SentHoldsTheClient'
    BY <2>1, <2>2, OthersWait DEF SentHoldsTheClient, CallOnly
  <2>4. LostForGood'
    BY <2>1, <2>2 DEF SourceInv, LostForGood, CallOnly
  <2>5. CallsAreCalls' /\ SessionsAreNumbered'
    BY <2>1, <2>2 DEF SourceInv, CallsAreCalls, SessionsAreNumbered, CallOnly
  <2> QED BY <1>0, <2>1, <2>3, <2>4, <2>5 DEF SourceInv
<1>5. ASSUME NEW t \in Threads, LinkFails(t) PROVE SourceInv'
  <2>1. scHolder \in {t, Free} /\ scHolder' = Free /\ UNCHANGED <<healthVars, scKnown, scOpened>>
    BY <1>5 DEF LinkFails, SourceInv, SentHoldsTheClient
  <2>2. CallOnly(t, {"failed"})
    BY <1>5, CallForms DEF LinkFails
  <2>3. scClient' = scClient \/ scClient' = [ready |-> FALSE, id |-> 0]
    BY <1>5 DEF LinkFails
  <2> QED BY <1>0, <2>1, <2>2, <2>3, CallsKept DEF CallOnly
<1>6. ASSUME NEW t \in Threads, NEW rows, AfterDataset(t, rows), Answered(t)
      PROVE  CallOnly(t, {"want", "rows", "failed"})
  <2>1. CASE Finish(t, "rows") \/ Finish(t, "failed")
    BY <2>1, CallForms DEF CallOnly
  <2>2. CASE scCall' = [scCall EXCEPT ![t].at = "want", ![t].todo = Tail(@), ![t].rows = rows,
                                      ![t].tries = 0]
    BY <2>2 DEF SourceInv, CallsAreCalls, IsCall, CallOnly
  <2> QED BY <1>6, <2>1, <2>2 DEF AfterDataset
<1>7. ASSUME NEW t \in Threads, DatasetAnswers(t) PROVE SourceInv'
  <2>1. /\ scHolder = t /\ scHolder' = Free /\ UNCHANGED <<healthVars, scClient, scKnown, scOpened>>
    BY <1>7 DEF DatasetAnswers, Answered, SourceInv, SentHoldsTheClient
  <2>2. CallOnly(t, {"want", "rows", "failed"})
    BY <1>6, <1>7, CallForms DEF DatasetAnswers, CallOnly
  <2> QED BY <1>0, <2>1, <2>2, CallsKept DEF CallOnly
<1>8. ASSUME NEW t \in Threads, NEW why \in {"not ready", "no data", "busy"},
             DatasetFails(t, why)
      PROVE  SourceInv'
  <2>1. /\ scHolder = t /\ scHolder' = Free /\ UNCHANGED <<healthVars, scClient, scKnown, scOpened>>
    BY <1>8 DEF DatasetFails, Answered, SourceInv, SentHoldsTheClient
  <2>2. CallOnly(t, {"want", "rows", "failed"})
    <3>1. CASE scCall' = [scCall EXCEPT ![t].at = "want", ![t].tries = @ + 1]
      BY <3>1 DEF SourceInv, CallsAreCalls, IsCall, CallOnly
    <3>2. CASE Finish(t, "failed")
      BY <3>2, CallForms DEF CallOnly
    <3>3. CASE AfterDataset(t, scCall[t].rows)
      BY <1>6, <1>8, <3>3 DEF DatasetFails
    <3> QED BY <1>8, <3>1, <3>2, <3>3 DEF DatasetFails
  <2> QED BY <1>0, <2>1, <2>2, CallsKept DEF CallOnly
<1>9. ASSUME NEW t \in Threads, Collect(t) PROVE SourceInv'
  BY <1>9, ChainStep DEF ChainNext
<1>10. ASSUME NEW link \in 1..MaxLinks, Forget(link) PROVE SourceInv'
  BY <1>10 DEF Forget, healthVars, SourceInv, CallsAreCalls, FailuresAreTheLast,
               SessionsAreNumbered, SentHoldsTheClient, LostForGood
<1>11. ASSUME Invalidate PROVE SourceInv'
  <2>1. \A t \in Threads : scCall[t].at \notin {"sent", "again"}
    BY <1>11, SourceAssumption DEF Invalidate, SourceInv, SentHoldsTheClient
  <2> QED BY <1>11, <2>1
          DEF Invalidate, healthVars, SourceInv, CallsAreCalls, FailuresAreTheLast,
              SessionsAreNumbered, SentHoldsTheClient, LostForGood
<1> QED BY <1>1, <1>2, <1>3, <1>4, <1>5, <1>7, <1>8, <1>9, <1>10, <1>11 DEF DatasetNext

\* For any number of threads, interfaces and sessions: an interface cools down only after
\* two failures with no success between them (akshare_adapter.py:242), and a lost session
\* reaches the caller only when the server forgot the very session this call had just
\* made (mcp_client.py:291).
THEOREM RefusedForCause == SourceSpec => []RefusalsHaveCause
<1>1. SourceInv => RefusalsHaveCause
  BY DEF SourceInv, FailuresAreTheLast, LostForGood, RefusalsHaveCause
<1>2. SourceInv /\ [ChainNext \/ DatasetNext]_sourceVars => SourceInv'
  <2>1. SourceInv /\ UNCHANGED sourceVars => SourceInv'
    BY DEF sourceVars, SourceInv, CallsAreCalls, FailuresAreTheLast, SessionsAreNumbered,
           SentHoldsTheClient, LostForGood
  <2> QED BY <2>1, ChainStep, DatasetStep
<1> QED BY <1>1, <1>2, SourceInitially, PTL DEF SourceSpec

----------------------------------------------------------------------------
(***************************************************************************)
(* The trace of a run                                                      *)
(***************************************************************************)
TraceSpec == TraceInit /\ [][TraceNext]_traceVars

\* Where a run stands.  A stream that is past its first transaction has either seen the
\* task end or noted that the run outlived it.
RunsInv ==
    /\ trStage = [r \in TracedRuns |-> trStage[r]]
    /\ trEngine = [r \in TracedRuns |-> trEngine[r]]
    /\ trSeq \in [TraceIds -> Nat]
    /\ trDone \in [TracedRuns -> [all : Nat, rounds : Nat]]
    /\ \A r \in TracedRuns :
         /\ trStage[r] = "new" => trEngine[r] = "none"
         /\ trStage[r] \in {"row", "rounds", "closed"} /\ r \notin trOutlived =>
              trEngine[r] # "running"
         /\ trStage[r] # "new" => trEngine[r] # "none"

\* The events of a run that was not outlived are numbered as they were emitted; while it
\* can emit more, the counter is at the highest number.
EventsInv ==
    \A r \in TracedRuns : r \notin trOutlived =>
      /\ \A e, f \in trEvents : e.id = r /\ f.id = r /\ e # f /\ e.seq <= f.seq => e.at < f.at
      /\ \A e \in trEvents : e.id = r =>
           /\ e.seq \in Nat /\ e.at \in Nat /\ e.at <= trDone[r].all
           /\ trEngine[r] \in {"none", "running"} => e.seq <= trSeq[r]

\* The row of a round that was written live is there and has kept its phase.
RoundsInv ==
    \A x \in trLive :
      /\ x \in TracedRuns \X Nat
      /\ x \in DOMAIN trRounds /\ trRounds[x].phase = "live"

TraceInv == RunsInv /\ (~trShared => EventsInv /\ RoundsInv)

LEMMA TraceInitially == TraceInit => TraceInv
BY DEF TraceInit, TraceInv, RunsInv, EventsInv, RoundsInv

LEMMA TraceRunsKept == RunsInv /\ [TraceNext]_traceVars => RunsInv'
<1> SUFFICES ASSUME RunsInv, [TraceNext]_traceVars PROVE RunsInv'
  OBVIOUS
<1> USE DEF RunsInv
<1>1. \A r \in TracedRuns : TraceKey(r) \in TraceIds
  BY DEF TraceKey, TraceIds
<1>2. ASSUME NEW r \in TracedRuns, StartTrace(r) PROVE RunsInv'
  BY <1>2 DEF StartTrace
<1>3. ASSUME NEW r \in TracedRuns, RecordEvent(r) PROVE RunsInv'
  <2>1. trSeq' \in [TraceIds -> Nat]
    BY <1>1, <1>3 DEF RecordEvent
  <2>2. trDone' \in [TracedRuns -> [all : Nat, rounds : Nat]]
    BY <1>3 DEF RecordEvent
  <2> QED BY <1>3, <2>1, <2>2 DEF RecordEvent
<1>4. ASSUME NEW r \in TracedRuns, RecordRound(r) PROVE RunsInv'
  <2>1. trDone' \in [TracedRuns -> [all : Nat, rounds : Nat]]
    BY <1>4 DEF RecordRound, CountRound
  <2> QED BY <1>4, <2>1 DEF RecordRound
<1>5. ASSUME NEW r \in TracedRuns, EngineEnds(r) PROVE RunsInv'
  BY <1>5 DEF EngineEnds
<1>6. ASSUME NEW r \in TracedRuns, FinishRow(r) PROVE RunsInv'
  BY <1>6 DEF FinishRow
<1>7. ASSUME NEW r \in TracedRuns, FinishRounds(r) PROVE RunsInv'
  BY <1>7 DEF FinishRounds
<1>8. ASSUME NEW r \in TracedRuns, FinishPop(r) PROVE RunsInv'
  <2>1. trSeq' \in [TraceIds -> Nat]
    BY <1>1, <1>8 DEF FinishPop
  <2> QED BY <1>8, <2>1 DEF FinishPop
<1>9. ASSUME NEW i \in TraceIds, Cleanup(i) PROVE RunsInv'
  BY <1>9 DEF Cleanup
<1>10. CASE UNCHANGED traceVars
  BY <1>10 DEF traceVars
<1> QED BY <1>2, <1>3, <1>4, <1>5, <1>6, <1>7, <1>8, <1>9, <1>10 DEF TraceNext

LEMMA EventsKept ==
    RunsInv /\ EventsInv /\ ~trShared /\ [TraceNext]_traceVars => EventsInv'
<1> SUFFICES ASSUME RunsInv, EventsInv, ~trShared, [TraceNext]_traceVars PROVE EventsInv'
  OBVIOUS
<1>1. \A r \in TracedRuns : TraceKey(r) = r
  BY DEF TraceKey
<1>2. ASSUME NEW r \in TracedRuns, StartTrace(r) PROVE EventsInv'
  BY <1>2 DEF StartTrace, RunsInv, EventsInv
<1>3. ASSUME NEW r \in TracedRuns, RecordEvent(r) PROVE EventsInv'
  <2> DEFINE event == [id |-> r, of |-> r, at |-> trDone[r].all + 1, seq |-> trSeq[r] + 1]
  <2>1. /\ trEngine[r] = "running" /\ trEngine' = trEngine /\ trOutlived' = trOutlived
        /\ trEvents' \in {trEvents, trEvents \cup {event}}
        /\ trSeq' = [trSeq EXCEPT ![r] = trSeq[r] + 1]
        /\ trDone'[r].all = trDone[r].all + 1
        /\ \A q \in TracedRuns : q # r => trDone'[q] = trDone[q]
    <3>1. trDone'[r].all = trDone[r].all + 1 /\ \A q \in TracedRuns : q # r => trDone'[q] = trDone[q]
      BY <1>3 DEF RecordEvent, RunsInv
    <3> QED BY <1>1, <1>3, <3>1 DEF RecordEvent, Working
  <2>2. r \in TraceIds /\ trSeq[r] \in Nat /\ trDone[r].all \in Nat
    BY DEF RunsInv, TraceIds
  <2>3. trSeq'[r] = trSeq[r] + 1 /\ \A q \in TracedRuns : q # r => trSeq'[q] = trSeq[q]
    BY <2>1, <2>2 DEF RunsInv, TraceIds
  <2>4. event.id = r /\ event.at = trDone[r].all + 1 /\ event.seq = trSeq[r] + 1
    OBVIOUS
  <2> HIDE DEF event
  <2>5. ASSUME NEW q \in TracedRuns, q \notin trOutlived, q # r
        PROVE  \A e \in trEvents' : e.id = q => e \in trEvents
    BY <2>1, <2>4, <2>5
  <2>6. ASSUME r \notin trOutlived, NEW e \in trEvents, e.id = r
        PROVE  e.seq \in Nat /\ e.at \in Nat /\ e.seq <= trSeq[r] /\ e.at <= trDone[r].all
    BY <2>1, <2>6 DEF EventsInv
  <2>7. ASSUME r \notin trOutlived, NEW e \in trEvents', NEW f \in trEvents',
               e.id = r, f.id = r, e # f, e.seq <= f.seq
        PROVE  e.at < f.at
    <3>1. CASE e \in trEvents /\ f \in trEvents
      BY <2>7, <3>1 DEF EventsInv
    <3>2. CASE e \in trEvents /\ f = event
      BY <2>2, <2>4, <2>6, <2>7, <3>2
    <3>3. CASE e = event /\ f \in trEvents
      BY <2>2, <2>4, <2>6, <2>7, <3>3
    <3> QED BY <2>1, <2>7, <3>1, <3>2, <3>3
  <2>8. ASSUME r \notin trOutlived, NEW e \in trEvents', e.id = r
        PROVE  e.seq \in Nat /\ e.at \in Nat /\ e.at <= trDone'[r].all /\ e.seq <= trSeq'[r]
    <3>1. CASE e \in trEvents
      BY <2>1, <2>2, <2>3, <2>6, <2>8, <3>1
    <3>2. CASE e = event
      BY <2>1, <2>2, <2>3, <2>4, <3>2
    <3> QED BY <2>1, <2>8, <3>1, <3>2
  <2> QED BY <2>1, <2>3, <2>5, <2>7, <2>8 DEF EventsInv
<1>4. ASSUME NEW r \in TracedRuns, RecordRound(r) PROVE EventsInv'
  <2>1. /\ trDone'[r].all = trDone[r].all + 1 /\ trDone[r].all \in Nat
        /\ \A q \in TracedRuns : q # r => trDone'[q] = trDone[q]
    BY <1>4 DEF RecordRound, CountRound, RunsInv
  <2>2. UNCHANGED <<trEvents, trSeq, trEngine, trOutlived>>
    BY <1>4 DEF RecordRound
  <2>3. \A q \in TracedRuns : \A a \in Nat : a <= trDone[q].all => a <= trDone'[q].all
    BY <2>1
  <2> QED BY <2>2, <2>3 DEF EventsInv
<1>5. ASSUME NEW r \in TracedRuns, EngineEnds(r) PROVE EventsInv'
  BY <1>5 DEF EngineEnds, RunsInv, EventsInv
<1>6. ASSUME NEW r \in TracedRuns, FinishRow(r) PROVE EventsInv'
  BY <1>6 DEF FinishRow, EventsInv
<1>7. ASSUME NEW r \in TracedRuns, FinishRounds(r) PROVE EventsInv'
  BY <1>7 DEF FinishRounds, EventsInv
<1>8. ASSUME NEW r \in TracedRuns, FinishPop(r) PROVE EventsInv'
  <2>1. UNCHANGED <<trEvents, trEngine, trOutlived, trDone>>
    BY <1>8 DEF FinishPop
  <2>2. \A q \in TracedRuns : q # r => trSeq'[q] = trSeq[q]
    BY <1>1, <1>8 DEF FinishPop, RunsInv, TraceIds
  <2>3. r \notin trOutlived => trEngine[r] \notin {"none", "running"}
    BY <1>8 DEF FinishPop, RunsInv
  <2> QED BY <2>1, <2>2, <2>3 DEF EventsInv
<1>9. ASSUME NEW i \in TraceIds, Cleanup(i) PROVE EventsInv'
  BY <1>9 DEF Cleanup, EventsInv
<1>10. CASE UNCHANGED traceVars
  BY <1>10 DEF traceVars, EventsInv
<1> QED BY <1>2, <1>3, <1>4, <1>5, <1>6, <1>7, <1>8, <1>9, <1>10 DEF TraceNext

LEMMA RoundsKept ==
    RunsInv /\ RoundsInv /\ ~trShared /\ [TraceNext]_traceVars => RoundsInv'
<1> SUFFICES ASSUME RunsInv, RoundsInv, ~trShared, [TraceNext]_traceVars PROVE RoundsInv'
  OBVIOUS
<1>1. \A r \in TracedRuns : TraceKey(r) = r
  BY DEF TraceKey
<1>2. ASSUME NEW r \in TracedRuns, RecordRound(r) PROVE RoundsInv'
  <2> DEFINE turn == trDone'[r].rounds
  <2>1. turn \in Nat
    BY <1>2, TraceRunsKept DEF RunsInv
  <2> HIDE DEF turn
  <2>2. CASE UNCHANGED <<trRounds, trLive>>
    BY <2>2 DEF RoundsInv
  <2>3. CASE /\ trRounds' = UpsertRounds(trRounds, {<<TraceKey(r), turn>>}, r, "live")
             /\ trLive' = trLive \cup {<<r, turn>>}
    BY <1>1, <2>1, <2>3, RunTraceAssumption DEF RoundsInv, UpsertRounds
  <2> QED BY <1>2, <2>2, <2>3 DEF RecordRound, turn
<1>3. ASSUME NEW r \in TracedRuns, FinishRounds(r) PROVE RoundsInv'
  BY <1>3 DEF FinishRounds, RoundsInv, UpsertRounds
<1>4. ASSUME NEW i \in TraceIds, Cleanup(i) PROVE RoundsInv'
  <2>1. /\ trRounds' = Removed(trRounds, {k \in DOMAIN trRounds : k[1] = i})
        /\ trLive' = {x \in trLive : TraceKey(x[1]) # i}
    BY <1>4 DEF Cleanup
  <2>2. \A x \in trLive' : x \in trLive /\ x[1] # i
    BY <1>1, <2>1 DEF RoundsInv
  <2> QED BY <2>1, <2>2 DEF RoundsInv, Removed
<1>5. ASSUME UNCHANGED <<trRounds, trLive>> PROVE RoundsInv'
  BY <1>5 DEF RoundsInv
<1> QED
  BY <1>2, <1>3, <1>4, <1>5
     DEF TraceNext, traceVars, StartTrace, RecordEvent, EngineEnds, FinishRow, FinishPop

LEMMA TraceStep == TraceInv /\ [TraceNext]_traceVars => TraceInv'
<1> SUFFICES ASSUME TraceInv, [TraceNext]_traceVars PROVE TraceInv'
  OBVIOUS
<1>1. trShared' = trShared
  BY DEF TraceNext, traceVars, StartTrace, RecordEvent, RecordRound, EngineEnds, FinishRow,
         FinishRounds, FinishPop, Cleanup
<1> QED BY <1>1, TraceRunsKept, EventsKept, RoundsKept DEF TraceInv

LEMMA TraceIsRead == TraceInv => TraceReadsTrue
<1> SUFFICES ASSUME TraceInv, ~trShared, NEW r \in TracedRuns
             PROVE  /\ r \notin trOutlived => \A e, f \in RunDetail(r).events :
                         e # f /\ e.seq <= f.seq => e.at < f.at
                    /\ \A x \in trLive : x[1] = r =>
                         x[2] \in DOMAIN RunDetail(r).rounds
                           /\ RunDetail(r).rounds[x[2]].phase = "live"
  BY DEF TraceReadsTrue
<1>1. ASSUME NEW x \in trLive, x[1] = r
      PROVE  x[2] \in DOMAIN RunDetail(r).rounds /\ RunDetail(r).rounds[x[2]].phase = "live"
  <2>1. x \in DOMAIN trRounds /\ trRounds[x].phase = "live" /\ x = <<r, x[2]>>
    BY <1>1 DEF TraceInv, RoundsInv
  <2> QED BY <1>1, <2>1 DEF RunDetail
<1>2. \A e \in RunDetail(r).events : e \in trEvents /\ e.id = r
  BY DEF RunDetail
<1> QED BY <1>1, <1>2 DEF TraceInv, EventsInv

----------------------------------------------------------------------------
(***************************************************************************)
(* Spans                                                                   *)
(***************************************************************************)
SpanSpec == SpanInit /\ [][SpanNext]_spanVars

SpanTypes ==
    /\ spStack \in [AllTasks -> Seq(Nat)]
    /\ spBlocks \in [AllTasks -> Seq(Nat \cup {NoTrace})]
    /\ spCount \in Nat /\ MainTask \in spAlive /\ spAlive \subseteq AllTasks
    /\ \A t \in AllTasks \ spAlive : spBlocks[t] = <<>>

\* A handle was given to one block of one task.
HandlesAreOwn ==
    /\ \A t \in AllTasks : \A i \in Held(spBlocks[t]) :
         spBlocks[t][i] <= spCount /\ spBlocks[t][i] \in spOpen
    /\ \A t, u \in AllTasks : \A i \in Held(spBlocks[t]), j \in Held(spBlocks[u]) :
         spBlocks[t][i] = spBlocks[u][j] => t = u /\ i = j

StacksFollow ==
    \A t \in spAlive : \E m \in 0..Len(spStack[t]) :
      /\ EndsWith(spStack[t], m, spBlocks[t])
      /\ t = MainTask => m = Len(spStack[t])

SpanInv == SpanTypes /\ HandlesAreOwn /\ StacksFollow

\* A stack ends with no blocks, whatever it holds.
LEMMA NoBlocks ==
    ASSUME NEW stack
    PROVE  EndsWith(stack, 0, <<>>)
<1>1. Held(<<>>) = {}
  BY DEF Held
<1>2. [k \in 1..0 |-> k] \in [1..0 -> {}]
  OBVIOUS
<1> QED BY <1>1, <1>2 DEF EndsWith

LEMMA SpanInitially == SpanInit => SpanInv
<1> SUFFICES ASSUME SpanInit PROVE SpanInv
  OBVIOUS
<1>1. SpanTypes
  BY DEF SpanInit, SpanTypes, AllTasks
<1>2. HandlesAreOwn
  BY DEF SpanInit, HandlesAreOwn, Held
<1>3. StacksFollow
  <2>1. \A t \in spAlive : spStack[t] = <<>> /\ spBlocks[t] = <<>> /\ Len(spStack[t]) = 0
    BY DEF SpanInit, AllTasks
  <2> QED BY <2>1, NoBlocks DEF StacksFollow
<1> QED BY <1>1, <1>2, <1>3 DEF SpanInv

\* A block without a handle changes nothing in what is held.
LEMMA HeldAppend ==
    ASSUME NEW blocks \in Seq(Nat \cup {NoTrace}), NEW h \in Nat \cup {NoTrace}
    PROVE  /\ Append(blocks, h) \in Seq(Nat \cup {NoTrace})
           /\ Held(Append(blocks, h)) = IF h = NoTrace THEN Held(blocks)
                                        ELSE Held(blocks) \cup {Len(blocks) + 1}
           /\ \A i \in Held(blocks) : i \in 1..Len(blocks) /\ Append(blocks, h)[i] = blocks[i]
           /\ Append(blocks, h)[Len(blocks) + 1] = h
BY DEF Held

LEMMA PoppedIs ==
    ASSUME NEW D, NEW s \in Seq(D), s # <<>>
    PROVE  /\ Popped(s) \in Seq(D) /\ Len(s) \in Nat \ {0}
           /\ Len(Popped(s)) = Len(s) - 1
           /\ \A i \in 1..(Len(s) - 1) : Popped(s)[i] = s[i]
<1>1. Len(s) \in Nat \ {0}
  BY EmptySeq
<1>2. Popped(s) = [i \in 1..(Len(s) - 1) |-> s[i]]
  BY <1>1 DEF Popped
<1>3. \A i \in 1..(Len(s) - 1) : i \in 1..Len(s)
  BY <1>1
<1>4. \A i \in 1..Len(s) : s[i] \in D
  BY ElementOfSeq
<1>5. Len(s) - 1 \in Nat
  BY <1>1
<1> DEFINE n == Len(s) - 1  p == [i \in 1..n |-> s[i]]
<1>6. p \in Seq(D) /\ Len(p) = n
  <2> HIDE DEF n
  <2>1. n \in Nat /\ p \in [1..n -> D]
    BY <1>3, <1>4, <1>5 DEF n
  <2> QED BY <2>1
<1> QED BY <1>1, <1>2, <1>6

LEMMA HeldPopped ==
    ASSUME NEW blocks \in Seq(Nat \cup {NoTrace}), blocks # <<>>
    PROVE  /\ Popped(blocks) \in Seq(Nat \cup {NoTrace})
           /\ Len(blocks) \in Nat \ {0} /\ Len(Popped(blocks)) = Len(blocks) - 1
           /\ Held(Popped(blocks)) = Held(blocks) \ {Len(blocks)}
           /\ \A i \in Held(Popped(blocks)) : Popped(blocks)[i] = blocks[i]
           /\ LastOf(blocks) = blocks[Len(blocks)] /\ LastOf(blocks) \in Nat \cup {NoTrace}
<1>1. /\ Popped(blocks) \in Seq(Nat \cup {NoTrace})
      /\ Len(blocks) \in Nat \ {0} /\ Len(Popped(blocks)) = Len(blocks) - 1
      /\ \A i \in 1..(Len(blocks) - 1) : Popped(blocks)[i] = blocks[i]
  BY PoppedIs
<1>2. DOMAIN blocks = 1..Len(blocks) /\ DOMAIN Popped(blocks) = 1..(Len(blocks) - 1)
  BY <1>1
<1> QED BY <1>1, <1>2 DEF Held, LastOf

LEMMA PushKeeps ==
    ASSUME NEW stack \in Seq(Nat), NEW blocks \in Seq(Nat \cup {NoTrace}), NEW h \in Nat,
           NEW m \in 0..Len(stack), EndsWith(stack, m, blocks)
    PROVE  EndsWith(Append(stack, h), m + 1, Append(blocks, h))
<1> DEFINE n == Len(blocks) + 1  stack1 == Append(stack, h)  blocks1 == Append(blocks, h)
<1>1. PICK place \in [1..m -> Held(blocks)] :
        /\ \A i \in Held(blocks) : \E k \in 1..m : place[k] = i
        /\ \A j, k \in 1..m : j < k => place[j] < place[k]
        /\ \A k \in 1..m : stack[Len(stack) - m + k] = blocks[place[k]]
  BY DEF EndsWith
<1>2. h # NoTrace
  BY RunTraceAssumption
<1>3. /\ Held(blocks1) = Held(blocks) \cup {n}
      /\ \A i \in Held(blocks) : i \in 1..(n - 1) /\ blocks1[i] = blocks[i]
      /\ blocks1[n] = h
  <2>1. /\ Held(blocks1) = Held(blocks) \cup {n}
        /\ \A i \in Held(blocks) : i \in 1..Len(blocks) /\ blocks1[i] = blocks[i]
        /\ blocks1[n] = h
    BY <1>2, HeldAppend
  <2>2. n - 1 = Len(blocks)
    OBVIOUS
  <2> HIDE DEF n, blocks1
  <2> QED BY <2>1, <2>2
<1>4. /\ Len(stack1) = Len(stack) + 1 /\ stack1[Len(stack) + 1] = h
      /\ \A i \in 1..Len(stack) : stack1[i] = stack[i]
      /\ Len(stack) \in Nat /\ m \in Nat /\ m <= Len(stack) /\ n \in Nat
  OBVIOUS
<1> DEFINE put == [k \in 1..(m + 1) |-> IF k = m + 1 THEN n ELSE place[k]]
<1> HIDE DEF n, stack1, blocks1
<1>5. \A k \in 1..(m + 1) : k = m + 1 \/ k \in 1..m
  BY <1>4
<1>6. put \in [1..(m + 1) -> Held(blocks1)]
  BY <1>1, <1>3, <1>5
<1>7. (m + 1) \in 1..(m + 1) /\ put[m + 1] = n /\ \A k \in 1..m : k \in 1..(m + 1) /\ put[k] = place[k]
  BY <1>4
<1> HIDE DEF put
<1>8. \A i \in Held(blocks1) : \E k \in 1..(m + 1) : put[k] = i
  BY <1>1, <1>3, <1>7
<1>9. \A j, k \in 1..(m + 1) : j < k => put[j] < put[k]
  <2> SUFFICES ASSUME NEW j \in 1..(m + 1), NEW k \in 1..(m + 1), j < k PROVE put[j] < put[k]
    OBVIOUS
  <2>1. j \in 1..m
    BY <1>4
  <2>2. place[j] \in 1..(n - 1)
    BY <1>1, <1>3, <2>1
  <2>3. CASE k \in 1..m
    BY <1>1, <1>7, <2>1, <2>3
  <2>4. CASE k = m + 1
    BY <1>4, <1>7, <2>1, <2>2, <2>4
  <2> QED BY <1>5, <2>3, <2>4
<1>10. \A k \in 1..(m + 1) : stack1[Len(stack1) - (m + 1) + k] = blocks1[put[k]]
  <2> TAKE k \in 1..(m + 1)
  <2>1. Len(stack1) - (m + 1) + k = Len(stack) - m + k
    BY <1>4
  <2>2. CASE k = m + 1
    <3>1. Len(stack) - m + k = Len(stack) + 1
      BY <1>4, <2>2
    <3> QED BY <1>3, <1>4, <1>7, <2>1, <2>2, <3>1
  <2>3. CASE k \in 1..m
    <3>1. Len(stack) - m + k \in 1..Len(stack)
      BY <1>4, <2>3
    <3>2. place[k] \in Held(blocks)
      BY <1>1, <2>3
    <3>3. stack[Len(stack) - m + k] = blocks[place[k]] /\ put[k] = place[k]
      BY <1>1, <1>7, <2>3
    <3>4. blocks1[place[k]] = blocks[place[k]]
      BY <1>3, <3>2
    <3>5. stack1[Len(stack) - m + k] = stack[Len(stack) - m + k]
      BY <1>4, <3>1
    <3> QED BY <2>1, <3>3, <3>4, <3>5
  <2> QED BY <1>5, <2>2, <2>3
<1> QED BY <1>6, <1>8, <1>9, <1>10 DEF EndsWith, stack1, blocks1

\* A block ends: its handle, if it has one, is on top.
LEMMA PopKeeps ==
    ASSUME NEW stack \in Seq(Nat), NEW blocks \in Seq(Nat \cup {NoTrace}), blocks # <<>>,
           NEW m \in 0..Len(stack), EndsWith(stack, m, blocks), LastOf(blocks) # NoTrace
    PROVE  /\ stack # <<>> /\ LastOf(stack) = LastOf(blocks)
           /\ m - 1 \in 0..Len(Popped(stack)) /\ Len(Popped(stack)) = Len(stack) - 1
           /\ EndsWith(Popped(stack), m - 1, Popped(blocks))
<1> DEFINE n == Len(blocks)  stack1 == Popped(stack)  blocks1 == Popped(blocks)
<1>1. PICK place \in [1..m -> Held(blocks)] :
        /\ \A i \in Held(blocks) : \E k \in 1..m : place[k] = i
        /\ \A j, k \in 1..m : j < k => place[j] < place[k]
        /\ \A k \in 1..m : stack[Len(stack) - m + k] = blocks[place[k]]
  BY DEF EndsWith
<1>2. /\ Held(blocks1) = Held(blocks) \ {n} /\ n \in Nat
      /\ \A i \in Held(blocks1) : blocks1[i] = blocks[i]
      /\ LastOf(blocks) = blocks[n] /\ n \in Held(blocks)
      /\ \A i \in Held(blocks) : i \in 1..n
  BY HeldPopped DEF Held
<1>3. PICK top \in 1..m : place[top] = n
  BY <1>1, <1>2
<1>4. m \in Nat /\ Len(stack) \in Nat /\ m <= Len(stack)
  OBVIOUS
<1> HIDE DEF n, blocks1
<1>5. top = m /\ m \in 1..m
  <2>1. m \in 1..m
    BY <1>3, <1>4
  <2>2. place[m] \in 1..n
    BY <1>1, <1>2, <2>1
  <2>3. top < m => place[top] < place[m]
    BY <1>1, <2>1
  <2> QED BY <1>2, <1>3, <1>4, <2>1, <2>2, <2>3
<1>6. stack # <<>> /\ LastOf(stack) = LastOf(blocks)
  <2>1. Len(stack) - m + m = Len(stack) /\ Len(stack) > 0
    BY <1>3, <1>4
  <2> QED BY <1>1, <1>2, <1>3, <1>5, <2>1 DEF LastOf
<1>7. /\ Len(stack1) = Len(stack) - 1
      /\ \A i \in 1..(Len(stack) - 1) : stack1[i] = stack[i]
  BY <1>6, PoppedIs
<1> HIDE DEF stack1
<1> DEFINE put == [k \in 1..(m - 1) |-> place[k]]
<1>8. \A k \in 1..(m - 1) : k \in 1..m /\ k # m
  BY <1>4
<1>9. \A k \in 1..(m - 1) : place[k] \in Held(blocks1)
  <2> TAKE k \in 1..(m - 1)
  <2>1. place[k] < place[m] /\ place[k] \in Held(blocks) /\ place[k] \in 1..n
    <3>1. k < m
      BY <1>4
    <3> QED BY <1>1, <1>2, <1>5, <1>8, <3>1
  <2> QED BY <1>2, <1>3, <1>5, <2>1
<1>10. put \in [1..(m - 1) -> Held(blocks1)] /\ \A k \in 1..(m - 1) : put[k] = place[k]
  BY <1>9
<1> HIDE DEF put
<1>11. \A i \in Held(blocks1) : \E k \in 1..(m - 1) : put[k] = i
  <2> TAKE i \in Held(blocks1)
  <2>1. PICK k \in 1..m : place[k] = i
    BY <1>1, <1>2
  <2>2. k # m
    BY <1>2, <1>3, <1>5, <2>1
  <2>3. k \in 1..(m - 1)
    BY <1>4, <2>1, <2>2
  <2> QED BY <1>10, <2>1, <2>3
<1>12. \A j, k \in 1..(m - 1) : j < k => put[j] < put[k]
  BY <1>1, <1>8, <1>10
<1>13. \A k \in 1..(m - 1) : stack1[Len(stack1) - (m - 1) + k] = blocks1[put[k]]
  <2> TAKE k \in 1..(m - 1)
  <2>1. Len(stack1) - (m - 1) + k = Len(stack) - m + k
        /\ Len(stack) - m + k \in 1..(Len(stack) - 1)
    <3> DEFINE a == Len(stack)  b == Len(stack1)
    <3>1. a \in Nat /\ m \in Nat /\ m <= a /\ b = a - 1 /\ k \in 1..(m - 1)
      BY <1>4, <1>7
    <3> HIDE DEF a, b
    <3>2. b - (m - 1) + k = a - m + k /\ a - m + k \in 1..(a - 1)
      BY <3>1
    <3> QED BY <3>2 DEF a, b
  <2>2. stack[Len(stack) - m + k] = blocks[place[k]] /\ put[k] = place[k]
    BY <1>1, <1>8, <1>10
  <2>3. blocks1[place[k]] = blocks[place[k]]
    BY <1>2, <1>9
  <2>4. stack1[Len(stack) - m + k] = stack[Len(stack) - m + k]
    BY <1>7, <2>1
  <2> QED BY <2>1, <2>2, <2>3, <2>4
<1>14. m - 1 \in 0..Len(stack1)
  BY <1>4, <1>5, <1>7
<1>15. EndsWith(stack1, m - 1, blocks1)
  BY <1>10, <1>11, <1>12, <1>13 DEF EndsWith
<1> QED BY <1>6, <1>7, <1>14, <1>15 DEF stack1, blocks1

\* A block without a handle comes or goes.
LEMMA OtherBlocks ==
    ASSUME NEW stack, NEW m, NEW blocks, NEW blocks1, EndsWith(stack, m, blocks),
           Held(blocks1) = Held(blocks), \A i \in Held(blocks) : blocks1[i] = blocks[i]
    PROVE  EndsWith(stack, m, blocks1)
<1>1. PICK place \in [1..m -> Held(blocks)] :
        /\ \A i \in Held(blocks) : \E k \in 1..m : place[k] = i
        /\ \A j, k \in 1..m : j < k => place[j] < place[k]
        /\ \A k \in 1..m : stack[Len(stack) - m + k] = blocks[place[k]]
  BY DEF EndsWith
<1>2. \A k \in 1..m : stack[Len(stack) - m + k] = blocks1[place[k]]
  BY <1>1
<1>3. place \in [1..m -> Held(blocks1)]
  BY <1>1
<1>4. \A i \in Held(blocks1) : \E k \in 1..m : place[k] = i
  BY <1>1
<1>5. \E p \in [1..m -> Held(blocks1)] :
        /\ \A i \in Held(blocks1) : \E k \in 1..m : p[k] = i
        /\ \A j, k \in 1..m : j < k => p[j] < p[k]
        /\ \A k \in 1..m : stack[Len(stack) - m + k] = blocks1[p[k]]
  <2> WITNESS place \in [1..m -> Held(blocks1)]
  <2> QED BY <1>1, <1>2, <1>4
<1> QED BY <1>5 DEF EndsWith

LEMMA OpenKeeps ==
    ASSUME SpanInv, NEW t \in AllTasks, OpenSpan(t)
    PROVE  SpanInv'
<1>1. /\ t \in spAlive /\ spAlive' = spAlive
      /\ spStack[t] \in Seq(Nat) /\ spBlocks[t] \in Seq(Nat \cup {NoTrace}) /\ spCount \in Nat
  BY DEF SpanInv, SpanTypes, OpenSpan
<1>2. CASE /\ spCount' = spCount + 1 /\ spOpen' = spOpen \cup {spCount + 1}
           /\ spStack' = [spStack EXCEPT ![t] = Append(@, spCount + 1)]
           /\ spBlocks' = [spBlocks EXCEPT ![t] = Append(@, spCount + 1)]
  <2> DEFINE h == spCount + 1  n == Len(spBlocks[t]) + 1
  <2>1. h \in Nat /\ h # NoTrace
    BY <1>1, RunTraceAssumption
  <2>2. /\ spStack'[t] = Append(spStack[t], h) /\ spBlocks'[t] = Append(spBlocks[t], h)
        /\ \A u \in AllTasks : u # t => spStack'[u] = spStack[u] /\ spBlocks'[u] = spBlocks[u]
    BY <1>2 DEF SpanInv, SpanTypes
  <2>3. /\ spBlocks'[t] \in Seq(Nat \cup {NoTrace}) /\ spStack'[t] \in Seq(Nat)
        /\ Held(spBlocks'[t]) = Held(spBlocks[t]) \cup {n}
        /\ \A i \in Held(spBlocks[t]) : i \in 1..(n - 1) /\ spBlocks'[t][i] = spBlocks[t][i]
        /\ spBlocks'[t][n] = h /\ n \in Nat /\ Len(spStack'[t]) = Len(spStack[t]) + 1
    <3>1. /\ Append(spBlocks[t], h) \in Seq(Nat \cup {NoTrace})
          /\ Held(Append(spBlocks[t], h)) = Held(spBlocks[t]) \cup {Len(spBlocks[t]) + 1}
          /\ \A i \in Held(spBlocks[t]) : /\ i \in 1..Len(spBlocks[t])
                                          /\ Append(spBlocks[t], h)[i] = spBlocks[t][i]
          /\ Append(spBlocks[t], h)[Len(spBlocks[t]) + 1] = h
      BY <1>1, <2>1, HeldAppend
    <3>2. Append(spStack[t], h) \in Seq(Nat) /\ Len(Append(spStack[t], h)) = Len(spStack[t]) + 1
      BY <1>1, <2>1
    <3>3. n \in Nat /\ n - 1 = Len(spBlocks[t])
      BY <1>1
    <3> HIDE DEF h
    <3> QED BY <2>2, <3>1, <3>2, <3>3
  <2>4. SpanTypes'
    <3>1. /\ spStack' = [u \in AllTasks |-> spStack'[u]] /\ spBlocks' = [u \in AllTasks |-> spBlocks'[u]]
      BY <1>2 DEF SpanInv, SpanTypes
    <3>2. \A u \in AllTasks : spStack'[u] \in Seq(Nat) /\ spBlocks'[u] \in Seq(Nat \cup {NoTrace})
      BY <2>2, <2>3 DEF SpanInv, SpanTypes
    <3>3. \A u \in AllTasks \ spAlive : spBlocks'[u] = <<>>
      BY <1>1, <2>2 DEF SpanInv, SpanTypes
    <3>4. spCount' \in Nat /\ MainTask \in spAlive'
      BY <1>1, <1>2 DEF SpanInv, SpanTypes
    <3>5. spAlive' \subseteq AllTasks /\ spAlive' = spAlive
      BY <1>1 DEF SpanInv, SpanTypes
    <3>6. spStack' \in [AllTasks -> Seq(Nat)] /\ spBlocks' \in [AllTasks -> Seq(Nat \cup {NoTrace})]
      BY <3>1, <3>2
    <3> QED BY <3>3, <3>4, <3>5, <3>6 DEF SpanTypes
  <2> HIDE DEF h, n
  <2>5. \A u \in AllTasks : \A i \in Held(spBlocks'[u]) :
          \/ u = t /\ i = n /\ spBlocks'[u][i] = h
          \/ /\ i \in Held(spBlocks[u]) /\ spBlocks'[u][i] = spBlocks[u][i]
             /\ spBlocks[u][i] <= spCount /\ spBlocks[u][i] \in spOpen
             /\ spBlocks[u][i] \in Nat /\ spBlocks[u][i] # h
    <3> TAKE u \in AllTasks
    <3> TAKE i \in Held(spBlocks'[u])
    <3>1. CASE u = t /\ i = n
      BY <2>3, <3>1
    <3>2. CASE ~(u = t /\ i = n)
      <4>1. i \in Held(spBlocks[u]) /\ spBlocks'[u][i] = spBlocks[u][i]
        <5>1. CASE u = t
          BY <2>3, <3>2, <5>1
        <5>2. CASE u # t
          BY <2>2, <5>2
        <5> QED BY <5>1, <5>2
      <4>2. spBlocks[u][i] <= spCount /\ spBlocks[u][i] \in spOpen
        BY <4>1 DEF SpanInv, HandlesAreOwn
      <4>3. spBlocks[u][i] \in Nat
        <5>1. spBlocks[u] \in Seq(Nat \cup {NoTrace})
          BY DEF SpanInv, SpanTypes
        <5> QED BY <4>1, <5>1, ElementOfSeq DEF Held
      <4>4. spBlocks[u][i] # h
        BY <1>1, <4>2, <4>3 DEF h
      <4> QED BY <4>1, <4>2, <4>3, <4>4
    <3> QED BY <3>1, <3>2
  <2>6. HandlesAreOwn'
    <3>1. \A u \in AllTasks : \A i \in Held(spBlocks'[u]) :
            spBlocks'[u][i] <= spCount' /\ spBlocks'[u][i] \in spOpen'
      <4>1. spCount' = h /\ spOpen' = spOpen \cup {h} /\ h = spCount + 1
        BY <1>2 DEF h
      <4>2. \A a \in Nat : a <= spCount => a <= spCount + 1
        BY <1>1
      <4>3. h <= h
        BY <2>1
      <4> QED BY <2>5, <4>1, <4>2, <4>3
    <3>2. \A u, v \in AllTasks : \A i \in Held(spBlocks'[u]), j \in Held(spBlocks'[v]) :
            spBlocks'[u][i] = spBlocks'[v][j] => u = v /\ i = j
      BY <2>5 DEF SpanInv, HandlesAreOwn
    <3> QED BY <3>1, <3>2 DEF HandlesAreOwn
  <2>7. StacksFollow'
    <3> SUFFICES ASSUME NEW u \in spAlive'
                 PROVE  \E m \in 0..Len(spStack'[u]) : /\ EndsWith(spStack'[u], m, spBlocks'[u])
                                                       /\ u = MainTask => m = Len(spStack'[u])
      BY DEF StacksFollow
    <3>1. PICK m \in 0..Len(spStack[u]) : /\ EndsWith(spStack[u], m, spBlocks[u])
                                          /\ u = MainTask => m = Len(spStack[u])
      BY <1>1 DEF SpanInv, StacksFollow
    <3>2. CASE u = t
      <4>1. EndsWith(spStack'[u], m + 1, spBlocks'[u])
        BY <1>1, <2>1, <2>2, <3>1, <3>2, PushKeeps
      <4>2. Len(spStack[t]) \in Nat
        BY <1>1
      <4>3. m + 1 \in 0..Len(spStack'[u]) /\ (u = MainTask => m + 1 = Len(spStack'[u]))
        BY <2>3, <3>1, <3>2, <4>2
      <4> QED BY <4>1, <4>3
    <3>3. CASE u # t
      <4>1. u \in AllTasks
        BY <1>1 DEF SpanInv, SpanTypes
      <4>2. spStack'[u] = spStack[u] /\ spBlocks'[u] = spBlocks[u]
        BY <2>2, <3>3, <4>1
      <4> QED BY <3>1, <4>2
    <3> QED BY <3>2, <3>3
  <2> QED BY <2>4, <2>6, <2>7 DEF SpanInv
<1>3. CASE /\ spBlocks' = [spBlocks EXCEPT ![t] = Append(@, NoTrace)]
           /\ UNCHANGED <<spStack, spOpen, spCount>>
  <2>1. /\ spBlocks'[t] = Append(spBlocks[t], NoTrace)
        /\ \A u \in AllTasks : u # t => spBlocks'[u] = spBlocks[u]
        /\ spBlocks' = [u \in AllTasks |-> spBlocks'[u]]
    BY <1>3 DEF SpanInv, SpanTypes
  <2>2. \A u \in AllTasks : /\ spBlocks'[u] \in Seq(Nat \cup {NoTrace})
                            /\ Held(spBlocks'[u]) = Held(spBlocks[u])
                            /\ \A i \in Held(spBlocks[u]) : spBlocks'[u][i] = spBlocks[u][i]
    <3>1. NoTrace \in Nat \cup {NoTrace}
      OBVIOUS
    <3>2. /\ spBlocks'[t] \in Seq(Nat \cup {NoTrace})
          /\ Held(spBlocks'[t]) = Held(spBlocks[t])
          /\ \A i \in Held(spBlocks[t]) : spBlocks'[t][i] = spBlocks[t][i]
      BY <1>1, <2>1, <3>1, HeldAppend
    <3>3. \A u \in AllTasks : spBlocks[u] \in Seq(Nat \cup {NoTrace})
      BY DEF SpanInv, SpanTypes
    <3> QED BY <2>1, <3>2, <3>3
  <2>3. SpanTypes'
    BY <1>1, <1>3, <2>1, <2>2 DEF SpanInv, SpanTypes
  <2>4. HandlesAreOwn'
    <3>1. HandlesAreOwn
      BY DEF SpanInv
    <3>2. spCount' = spCount /\ spOpen' = spOpen
      BY <1>3
    <3> QED BY <2>2, <3>1, <3>2 DEF HandlesAreOwn
  <2>5. StacksFollow'
    <3> SUFFICES ASSUME NEW u \in spAlive'
                 PROVE  \E m \in 0..Len(spStack'[u]) : /\ EndsWith(spStack'[u], m, spBlocks'[u])
                                                       /\ u = MainTask => m = Len(spStack'[u])
      BY DEF StacksFollow
    <3>1. u \in AllTasks /\ u \in spAlive /\ spStack' = spStack
      BY <1>1, <1>3 DEF SpanInv, SpanTypes
    <3>2. PICK m \in 0..Len(spStack[u]) : /\ EndsWith(spStack[u], m, spBlocks[u])
                                          /\ u = MainTask => m = Len(spStack[u])
      BY <3>1 DEF SpanInv, StacksFollow
    <3>3. EndsWith(spStack[u], m, spBlocks'[u])
      BY <2>2, <3>1, <3>2, OtherBlocks
    <3> QED BY <3>1, <3>2, <3>3
  <2> QED BY <2>3, <2>4, <2>5 DEF SpanInv
<1> QED BY <1>2, <1>3 DEF OpenSpan

LEMMA CloseKeeps ==
    ASSUME SpanInv, NEW t \in AllTasks, CloseSpan(t)
    PROVE  SpanInv'
<1> DEFINE h == LastOf(spBlocks[t])  n == Len(spBlocks[t])
<1>1. /\ t \in spAlive /\ spAlive' = spAlive /\ spCount' = spCount /\ spBlocks[t] # <<>>
      /\ spStack[t] \in Seq(Nat) /\ spBlocks[t] \in Seq(Nat \cup {NoTrace}) /\ spCount \in Nat
      /\ spOpen' = spOpen \ {h}
  BY DEF SpanInv, SpanTypes, CloseSpan
<1>2. /\ spStack'[t] = Unstack(t, h) /\ spBlocks'[t] = Popped(spBlocks[t])
      /\ \A u \in AllTasks : u # t => spStack'[u] = spStack[u] /\ spBlocks'[u] = spBlocks[u]
      /\ spStack' = [u \in AllTasks |-> spStack'[u]] /\ spBlocks' = [u \in AllTasks |-> spBlocks'[u]]
  BY DEF SpanInv, SpanTypes, CloseSpan
<1>3. /\ Popped(spBlocks[t]) \in Seq(Nat \cup {NoTrace})
      /\ n \in Nat \ {0}
      /\ Held(Popped(spBlocks[t])) = Held(spBlocks[t]) \ {n}
      /\ \A i \in Held(Popped(spBlocks[t])) : Popped(spBlocks[t])[i] = spBlocks[t][i]
      /\ h = spBlocks[t][n]
  BY <1>1, HeldPopped
<1> HIDE DEF h, n
<1>4. \A u \in AllTasks : \A i \in Held(spBlocks'[u]) :
        i \in Held(spBlocks[u]) /\ spBlocks'[u][i] = spBlocks[u][i] /\ (u = t => i # n)
  <2> TAKE u \in AllTasks
  <2>1. CASE u = t
    BY <1>2, <1>3, <2>1
  <2>2. CASE u # t
    BY <1>2, <2>2
  <2> QED BY <2>1, <2>2
<1>5. n \in Held(spBlocks[t]) <=> h # NoTrace
  <2>1. n \in DOMAIN spBlocks[t]
    BY <1>1, <1>3 DEF n
  <2> QED BY <1>3, <2>1 DEF Held
<1>6. HandlesAreOwn'
  <2>1. \A u \in AllTasks : \A i \in Held(spBlocks'[u]) : spBlocks'[u][i] # h
    <3> TAKE u \in AllTasks
    <3> TAKE i \in Held(spBlocks'[u])
    <3>1. CASE h = NoTrace
      BY <3>1 DEF Held
    <3>2. CASE h # NoTrace
      BY <1>3, <1>4, <1>5, <3>2 DEF SpanInv, HandlesAreOwn
    <3> QED BY <3>1, <3>2
  <2>2. HandlesAreOwn
    BY DEF SpanInv
  <2> QED BY <1>1, <1>4, <2>1, <2>2 DEF HandlesAreOwn
<1>7. PICK m \in 0..Len(spStack[t]) : /\ EndsWith(spStack[t], m, spBlocks[t])
                                      /\ t = MainTask => m = Len(spStack[t])
  BY <1>1 DEF SpanInv, StacksFollow
<1>8. /\ spStack'[t] \in Seq(Nat)
      /\ \E k \in 0..Len(spStack'[t]) : /\ EndsWith(spStack'[t], k, spBlocks'[t])
                                        /\ t = MainTask => k = Len(spStack'[t])
  <2>1. CASE h # NoTrace
    <3>1. /\ spStack[t] # <<>> /\ LastOf(spStack[t]) = h
          /\ m - 1 \in 0..Len(Popped(spStack[t])) /\ Len(Popped(spStack[t])) = Len(spStack[t]) - 1
          /\ EndsWith(Popped(spStack[t]), m - 1, Popped(spBlocks[t]))
      BY <1>1, <1>7, <2>1, PopKeeps DEF h
    <3>2. spStack'[t] = Popped(spStack[t])
      BY <1>2, <3>1 DEF Unstack
    <3>3. Popped(spStack[t]) \in Seq(Nat)
      BY <1>1, <3>1, PoppedIs
    <3>4. t = MainTask => m - 1 = Len(Popped(spStack[t]))
      BY <1>7, <3>1
    <3> QED BY <1>2, <3>1, <3>2, <3>3, <3>4
  <2>2. CASE h = NoTrace
    <3>1. spStack[t] # <<>> => LastOf(spStack[t]) \in Nat
      <4>1. spStack[t] # <<>> => Len(spStack[t]) \in 1..Len(spStack[t])
        BY <1>1, EmptySeq
      <4> QED BY <1>1, <4>1, ElementOfSeq DEF LastOf
    <3>2. spStack'[t] = spStack[t]
      BY <1>2, <2>2, <3>1, RunTraceAssumption DEF Unstack
    <3>3. EndsWith(spStack[t], m, spBlocks'[t])
      <4>1. Held(spBlocks'[t]) = Held(spBlocks[t])
        BY <1>2, <1>3, <1>5, <2>2
      <4>2. \A i \in Held(spBlocks[t]) : spBlocks'[t][i] = spBlocks[t][i]
        BY <1>2, <1>3, <4>1
      <4> QED BY <1>7, <4>1, <4>2, OtherBlocks
    <3> QED BY <1>1, <1>7, <3>2, <3>3
  <2> QED BY <2>1, <2>2
<1>9. SpanTypes'
  <2>1. \A u \in AllTasks : spStack'[u] \in Seq(Nat) /\ spBlocks'[u] \in Seq(Nat \cup {NoTrace})
    BY <1>2, <1>3, <1>8 DEF SpanInv, SpanTypes
  <2>2. \A u \in AllTasks \ spAlive : spBlocks'[u] = <<>>
    BY <1>1, <1>2 DEF SpanInv, SpanTypes
  <2>3. MainTask \in spAlive /\ spAlive \subseteq AllTasks
    BY DEF SpanInv, SpanTypes
  <2> QED BY <1>1, <1>2, <2>1, <2>2, <2>3 DEF SpanTypes
<1>10. StacksFollow'
  <2> SUFFICES ASSUME NEW u \in spAlive'
               PROVE  \E k \in 0..Len(spStack'[u]) : /\ EndsWith(spStack'[u], k, spBlocks'[u])
                                                     /\ u = MainTask => k = Len(spStack'[u])
    BY DEF StacksFollow
  <2>1. u \in AllTasks /\ u \in spAlive
    BY <1>1 DEF SpanInv, SpanTypes
  <2>2. CASE u = t
    BY <1>8, <2>2
  <2>3. CASE u # t
    <3>1. spStack'[u] = spStack[u] /\ spBlocks'[u] = spBlocks[u]
      BY <1>2, <2>1, <2>3
    <3> QED BY <2>1, <3>1 DEF SpanInv, StacksFollow
  <2> QED BY <2>2, <2>3
<1> QED BY <1>6, <1>9, <1>10 DEF SpanInv

LEMMA ForkKeeps ==
    ASSUME SpanInv, NEW t \in SpanTasks, ForkTask(t)
    PROVE  SpanInv'
<1>1. /\ t \in AllTasks /\ t # MainTask /\ MainTask \in AllTasks /\ spAlive' = spAlive \cup {t}
      /\ spBlocks[t] = <<>> /\ UNCHANGED <<spBlocks, spOpen, spCount>>
      /\ spStack' = [spStack EXCEPT ![t] = spStack[MainTask]]
  BY RunTraceAssumption DEF SpanInv, SpanTypes, ForkTask, AllTasks
<1>2. /\ spStack' \in [AllTasks -> Seq(Nat)]
      /\ spStack'[t] \in Seq(Nat)
      /\ \A u \in AllTasks : u # t => spStack'[u] = spStack[u]
  BY <1>1 DEF SpanInv, SpanTypes
<1>3. SpanTypes' /\ HandlesAreOwn'
  BY <1>1, <1>2 DEF SpanInv, SpanTypes, HandlesAreOwn
<1>4. StacksFollow'
  <2> SUFFICES ASSUME NEW u \in spAlive'
               PROVE  \E k \in 0..Len(spStack'[u]) : /\ EndsWith(spStack'[u], k, spBlocks'[u])
                                                     /\ u = MainTask => k = Len(spStack'[u])
    BY DEF StacksFollow
  <2>1. CASE u = t
    <3>1. EndsWith(spStack'[u], 0, spBlocks'[u])
      BY <1>1, <2>1, NoBlocks
    <3>2. 0 \in 0..Len(spStack'[u])
      BY <1>2, <2>1
    <3> QED BY <1>1, <2>1, <3>1, <3>2
  <2>2. CASE u # t
    <3>1. u \in spAlive /\ spStack'[u] = spStack[u] /\ spBlocks'[u] = spBlocks[u]
      BY <1>1, <1>2, <2>2 DEF SpanInv, SpanTypes
    <3> QED BY <3>1 DEF SpanInv, StacksFollow
  <2> QED BY <2>1, <2>2
<1> QED BY <1>3, <1>4 DEF SpanInv

LEMMA SpanStep == SpanInv /\ [SpanNext]_spanVars => SpanInv'
<1> SUFFICES ASSUME SpanInv, [SpanNext]_spanVars PROVE SpanInv'
  OBVIOUS
<1>1. ASSUME NEW t \in SpanTasks, TaskReturns(t) PROVE SpanInv'
  <2>1. /\ UNCHANGED <<spStack, spBlocks, spOpen, spCount>> /\ spBlocks[t] = <<>>
        /\ spAlive' = spAlive \ {t} /\ t # MainTask
    BY <1>1, RunTraceAssumption DEF TaskReturns
  <2> QED BY <2>1 DEF SpanInv, SpanTypes, HandlesAreOwn, StacksFollow
<1>2. CASE UNCHANGED spanVars
  BY <1>2 DEF spanVars, SpanInv, SpanTypes, HandlesAreOwn, StacksFollow
<1> QED BY <1>1, <1>2, OpenKeeps, CloseKeeps, ForkKeeps DEF SpanNext

\* What is kept of a run beside the conversation tells the run: the trace, in a store whose
\* every write may fail (observability/trace_store.py), and the tree of spans, whatever
\* calls ended out of turn (observability/observer.py).
THEOREM TraceIsTrue == TraceSpec /\ SpanSpec => []TraceTellsTheRun
<1>1. TraceSpec => []TraceInv
  BY TraceInitially, TraceStep, PTL DEF TraceSpec
<1>2. SpanSpec => []SpanInv
  BY SpanInitially, SpanStep, PTL DEF SpanSpec
<1>3. SpanInv => SpansFollowBlocks
  BY DEF SpanInv, SpanTypes, StacksFollow, HandlesAreOwn, SpansFollowBlocks
<1>4. TraceInv /\ SpanInv => TraceTellsTheRun
  BY <1>3, TraceIsRead DEF TraceTellsTheRun
<1> QED BY <1>1, <1>2, <1>4, PTL
===============================================================================
