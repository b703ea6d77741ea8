------------------------------ MODULE ReportReview ------------------------------
(***************************************************************************)
(* What sub-agents say, and what is kept of it.                            *)
(*   - write_report renders a report into a file named for topic and day and *)
(*     has it reviewed (tools/fin/writer.py, shared/review.py): the verdict   *)
(*     goes into a side file with the digest of the body it judges, an       *)
(*     unchanged body reuses it, and what is unresolved stays with the       *)
(*     session (context/session.py).                                        *)
(*   - Coordinator.spawn runs a list of tasks side by side                   *)
(*     (coordinator/reviewer.py) and books what each has used.               *)
(* Topics are taken whose file names agree. What a report says, the export   *)
(* to docx and the texts of the results are left out.                        *)
(***************************************************************************)
EXTENDS Naturals, Sequences, FiniteSets, FiniteSetsExt

CONSTANTS Reports,  \* calls of write_report on a day
          Desks,    \* agent loops, one per session
          Topics,   \* topics that safe_topic makes one name of
          Bodies,   \* what outlines render to
          TornBody, \* a body read while it is being written
          NoBody,   \* no file, no digest, no verdict
          Jobs      \* tasks of a spawn

ASSUME ReportReviewAssumption ==
    /\ TornBody \notin Bodies /\ NoBody \notin Bodies \cup {TornBody} /\ Jobs \subseteq Nat

-------------------------------------------------------------------------------
(* A report and its review *)

VARIABLES
    rvCall,     \* a call: [stage, desk, topic, body, read, status, says]
    rvFile,     \* the markdown file: what is in it
    rvSide,     \* the side file: [digest, says]
    rvGiven,    \* the verdicts reviewers gave: <<body, verdict>>
    rvFindings, \* ctx.review_findings: <<desk, topic>> with something unresolved
    rvLast      \* <<desk, topic>> |-> the call noted last; 0: none

reviewVars == <<rvCall, rvFile, rvSide, rvGiven, rvFindings, rvLast>>

\* Verdicts: nothing of high severity (or nothing at all), something of high severity, or
\* comments without a severity.  Of a side file cut short by a full disk, torn is
\* left; of one that cannot be read when it is reused, nothing.
Verdicts == {"clear", "high", "vague"}
ASSUME NoVerdictAssumption == NoBody \notin Verdicts
Said == Verdicts \cup {"torn", "lost"}

\* review_report's outcome.
ReviewStatuses == {"none", "skipped", "unreviewed", "done", "reused"}

ReviewTypeOK ==
    /\ \A c \in Reports : /\ rvCall[c].stage \in {"new", "open", "orphan", "full", "asked", "over"}
                          /\ rvCall[c].status \in ReviewStatuses
                          /\ rvCall[c].says \in Said \cup {NoBody}
    /\ rvFile \in Bodies \cup {TornBody, NoBody}
    /\ rvSide.digest \in Bodies \cup {TornBody, NoBody} /\ rvSide.says \in Said \cup {NoBody}
    /\ rvGiven \subseteq (Bodies \cup {TornBody}) \X Verdicts
    /\ rvFindings \subseteq Desks \X Topics
    /\ rvLast \in [Desks \X Topics -> Reports \cup {0}]

NoSide == [digest |-> NoBody, says |-> NoBody]

ReviewInit ==
    /\ rvCall = [c \in Reports |-> [stage |-> "new", desk |-> NoBody, topic |-> NoBody,
                                    body |-> NoBody, read |-> NoBody, status |-> "none",
                                    says |-> NoBody]]
    /\ rvFile = NoBody /\ rvSide = NoSide /\ rvGiven = {} /\ rvFindings = {}
    /\ rvLast = [k \in Desks \X Topics |-> 0]

\* A valid outline: export opens the file, in a thread.  (An invalid one writes nothing.)
WriteReport(c, d, t, b) ==
    /\ rvCall[c].stage = "new"
    /\ rvCall' = [rvCall EXCEPT ![c] = [@ EXCEPT !.stage = "open", !.desk = d,
                                                 !.topic = t, !.body = b]]
    /\ rvFile' = TornBody
    /\ UNCHANGED <<rvSide, rvGiven, rvFindings, rvLast>>

\* The thread has written it; it does so when the call is long gone, too.
Exported(c) ==
    /\ rvCall[c].stage \in {"open", "orphan"}
    /\ rvCall' = [rvCall EXCEPT ![c].stage = IF @ = "open" THEN "full" ELSE "over"]
    /\ rvFile' = rvCall[c].body
    /\ UNCHANGED <<rvSide, rvGiven, rvFindings, rvLast>>

\* unresolved_note: a verdict of nothing high, and comments that are lost, clear.
Unresolved(status, says) ==
    CASE status = "unreviewed" -> {TRUE}
      [] status # "unreviewed" /\ says = "torn" -> BOOLEAN
      [] OTHER -> {says \in {"high", "vague"}}

\* The outcome becomes the call's result, and _note_review_outcome keeps or takes back
\* what is unresolved of the topic; there is no await between.
Outcome(c, read, status, says) ==
    LET k == <<rvCall[c].desk, rvCall[c].topic>> IN
    /\ rvCall' = [rvCall EXCEPT ![c] = [@ EXCEPT !.stage = "over", !.read = read,
                                                 !.status = status, !.says = says]]
    /\ rvLast' = [rvLast EXCEPT ![k] = c]
    /\ \E open \in Unresolved(status, says) :
         rvFindings' = IF open THEN rvFindings \cup {k} ELSE rvFindings \ {k}

\* review_report without a coordinator, or with a file that cannot be read.
NotReviewed(c) ==
    /\ rvCall[c].stage = "full"
    /\ \E status \in {"skipped", "unreviewed"} : Outcome(c, NoBody, status, NoBody)
    /\ UNCHANGED <<rvFile, rvSide, rvGiven>>

\* The file is read; what another thread is writing may not decode, which fails the call.
ReadCut(c) ==
    /\ rvCall[c].stage = "full" /\ rvFile = TornBody
    /\ rvCall' = [rvCall EXCEPT ![c].stage = "over"]
    /\ UNCHANGED <<rvFile, rvSide, rvGiven, rvFindings, rvLast>>

\* The body is the one the side file was written for.
Reuse(c) ==
    /\ rvCall[c].stage = "full" /\ rvFile # NoBody /\ rvSide.digest = rvFile
    /\ \E says \in {rvSide.says, "lost"} : Outcome(c, rvFile, "reused", says)
    /\ UNCHANGED <<rvFile, rvSide, rvGiven>>

\* It is not: a reviewer gets it.
AskReviewer(c) ==
    /\ rvCall[c].stage = "full" /\ rvFile # NoBody /\ rvSide.digest # rvFile
    /\ rvCall' = [rvCall EXCEPT ![c] = [@ EXCEPT !.stage = "asked", !.read = rvFile]]
    /\ UNCHANGED <<rvFile, rvSide, rvGiven, rvFindings, rvLast>>

\* A slip: the digest of what is in the file when the verdict arrives.
DigestAfterwards(c) == rvFile

\* The digest is taken of the body that was read and sent.
DigestOf(c) == rvCall[c].read

\* The verdict; the side file is written, cannot be opened, or is cut short.
ReviewerAnswers(c, v) ==
    /\ rvCall[c].stage = "asked"
    /\ rvGiven' = rvGiven \cup {<<rvCall[c].read, v>>}
    /\ \E kept \in {v, "torn"} : \E side \in {rvSide, NoSide, [digest |-> DigestOf(c), says |-> kept]} :
         rvSide' = side
    /\ Outcome(c, rvCall[c].read, "done", v)
    /\ UNCHANGED rvFile

\* The reviewer's run was stopped, ran out of turns or raised.
ReviewerFails(c) ==
    /\ rvCall[c].stage = "asked"
    /\ Outcome(c, rvCall[c].read, "unreviewed", NoBody)
    /\ UNCHANGED <<rvFile, rvSide, rvGiven>>

\* The tool's timeout, or the end of its run, cancels the call at an await; the
\* thread of the export goes on.
ReportCancelled(c) ==
    /\ rvCall[c].stage \in {"open", "full", "asked"}
    /\ rvCall' = [rvCall EXCEPT ![c].stage = IF @ = "open" THEN "orphan" ELSE "over"]
    /\ UNCHANGED <<rvFile, rvSide, rvGiven, rvFindings, rvLast>>

ReviewNext == \E c \in Reports :
    \/ \E d \in Desks, t \in Topics, b \in Bodies : WriteReport(c, d, t, b)
    \/ Exported(c) \/ NotReviewed(c) \/ ReadCut(c) \/ Reuse(c) \/ AskReviewer(c)
    \/ \E v \in Verdicts : ReviewerAnswers(c, v)
    \/ ReviewerFails(c) \/ ReportCancelled(c)

\* Whatever calls share the file: a verdict in the side file was given on the body whose
\* digest it stands under, and a topic of a session is clear, or not, because a
\* reviewer said so of the body the last call for it had read (unless there is no
\* reviewer, or the disk failed on the side file).
VerdictsAreOfTheirBody ==
    /\ rvSide.says \in Verdicts => <<rvSide.digest, rvSide.says>> \in rvGiven
    /\ \A k \in Desks \X Topics : rvLast[k] # 0 =>
         LET call == rvCall[rvLast[k]] IN
         call.status \in {"done", "reused"} /\ call.says \in Verdicts =>
           /\ <<call.read, call.says>> \in rvGiven
           /\ k \in rvFindings <=> call.says # "clear"

-------------------------------------------------------------------------------
(* Tasks side by side *)

VARIABLES
    jbStage,  \* a task: new, run, ok, failed, raised (out of its loop), lost
    jbSpent,  \* what its loop has used
    jbBooked, \* _account: what the session's counters got, by task
    jbResult, \* the results of the spawn, by task; <<>> before
    jbOver    \* no (not called), run, refused, done, cancelled

jobVars == <<jbStage, jbSpent, jbBooked, jbResult, jbOver>>

MaxSpent == 2  \* bound: model calls of a task

JobsTypeOK ==
    /\ jbStage \in [Jobs -> {"new", "run", "ok", "failed", "raised", "lost"}]
    /\ jbSpent \in [Jobs -> 0..MaxSpent] /\ jbBooked \in [Jobs -> Nat]
    /\ jbOver \in {"no", "run", "refused", "done", "cancelled"}
    /\ DOMAIN jbResult \in {{}, Jobs}

JobsInit ==
    /\ jbStage = [j \in Jobs |-> "new"] /\ jbSpent = [j \in Jobs |-> 0]
    /\ jbBooked = [j \in Jobs |-> 0] /\ jbResult = <<>> /\ jbOver = "no"

\* _authorize_web_egress: one yes for all, or none of them is run.
SpawnJobs ==
    /\ jbOver = "no"
    /\ \/ jbOver' = "run" /\ UNCHANGED jbResult
       \/ jbOver' = "refused" /\ jbResult' = [j \in Jobs |-> "failed"]
    /\ UNCHANGED <<jbStage, jbSpent, jbBooked>>

\* tracked: what on_task does with the news is of no consequence.
JobStarts(j) ==
    /\ jbOver = "run" /\ jbStage[j] = "new"
    /\ jbStage' = [jbStage EXCEPT ![j] = "run"]
    /\ UNCHANGED <<jbSpent, jbBooked, jbResult, jbOver>>

JobSpends(j) ==
    /\ jbOver = "run" /\ jbStage[j] = "run" /\ jbSpent[j] < MaxSpent
    /\ jbSpent' = [jbSpent EXCEPT ![j] = @ + 1]
    /\ UNCHANGED <<jbStage, jbBooked, jbResult, jbOver>>

\* _run: a run that ends, well or not, or raises, is booked before it is reported;
\* one whose prompt is cancelled leaves with CancelledError, which no clause takes.
JobEnds(j, how) ==
    /\ jbOver = "run" /\ jbStage[j] = "run"
    /\ jbStage' = [jbStage EXCEPT ![j] = how]
    /\ jbBooked' = IF how = "lost" THEN jbBooked
                   ELSE [jbBooked EXCEPT ![j] = @ + jbSpent[j]]
    /\ UNCHANGED <<jbSpent, jbResult, jbOver>>

\* gather with return_exceptions: all tasks are waited for, and each has its result.
AllGathered ==
    /\ jbOver = "run" /\ \A j \in Jobs : jbStage[j] \notin {"new", "run"}
    /\ jbOver' = "done"
    /\ jbResult' = [j \in Jobs |-> IF jbStage[j] = "ok" THEN "ok" ELSE "failed"]
    /\ UNCHANGED <<jbStage, jbSpent, jbBooked>>

\* The timeout of spawn_agent cancels the gather, and with it those still running.
SpawnCancelled ==
    /\ jbOver = "run" /\ jbOver' = "cancelled"
    /\ jbStage' = [j \in Jobs |-> IF jbStage[j] = "run" THEN "lost" ELSE jbStage[j]]
    /\ UNCHANGED <<jbSpent, jbBooked, jbResult>>

JobsNext ==
    \/ SpawnJobs \/ AllGathered \/ SpawnCancelled
    \/ \E j \in Jobs : \/ JobStarts(j) \/ JobSpends(j)
                       \/ \E how \in {"ok", "failed", "raised", "lost"} : JobEnds(j, how)

\* A spawn that returns has a result for each task, a success only of one that
\* succeeded; and what a task used is booked once when it has ended by itself, also
\* when it raised, was cut off from its siblings or lost them to the timeout.
JobsAreBilled ==
    /\ jbOver = "done" => \A j \in Jobs : (jbResult[j] = "ok") = (jbStage[j] = "ok")
    /\ \A j \in Jobs : jbBooked[j] = IF jbStage[j] \in {"ok", "failed", "raised"}
                                     THEN jbSpent[j] ELSE 0

\* Both: what is kept of a sub-agent is what it said, of what it was asked.
SubAgentsAreReportedTrue == VerdictsAreOfTheirBody /\ JobsAreBilled
===============================================================================
