------------------------------ MODULE EdgeProofs ------------------------------
(***************************************************************************)
(* Proofs about what stands around the loop.                               *)
(*   - ReportReview, for any number of calls, sessions, topics, bodies and *)
(*     tasks: a verdict stays with the body it judges, and what sub-agents *)
(*     used is booked once;                                                *)
(*   - ChatClient, for any number of prompts and conversations: the panel  *)
(*     tells its turn, and shows the messages of its conversation;         *)
(*   - ToolCalls, for any number of calls, loops and conversations: the    *)
(*     repeat guard tells the last outcome, a consent stays where it was   *)
(*     given, and the shelf offers the newest tools;                       *)
(*   - BacktestPool, for any stocks, scores and groups: the groups are cut *)
(*     evenly along the factor, from tables nobody still fetches.          *)
(***************************************************************************)
EXTENDS ReportReview, ToolCalls, ChatClient, BacktestPool, FiniteSetTheorems, SequenceTheorems,
        WellFoundedInduction, TLAPS

----------------------------------------------------------------------------
(***************************************************************************)
(* A report and its review                                                 *)
(***************************************************************************)
ReviewSpec == ReviewInit /\ [][ReviewNext]_reviewVars

\* A call that has begun knows its session and its topic.
ReportsAreDefinite ==
    /\ rvCall = [c \in Reports |-> rvCall[c]]
    /\ \A c \in Reports :
         /\ rvCall[c] \in [stage : {"new", "open", "orphan", "full", "asked", "over"},
                           desk : {rvCall[c].desk}, topic : {rvCall[c].topic},
                           body : {rvCall[c].body}, read : {rvCall[c].read},
                           status : {rvCall[c].status}, says : {rvCall[c].says}]
         /\ rvCall[c].stage # "new" => <<rvCall[c].desk, rvCall[c].topic>> \in Desks \X Topics

\* The call noted last for a topic is over, and of that topic.
LastIsOver ==
    /\ rvLast = [k \in Desks \X Topics |-> rvLast[k]]
    /\ \A k \in Desks \X Topics : rvLast[k] # 0 =>
         /\ rvLast[k] \in Reports /\ rvCall[rvLast[k]].stage = "over"

ReviewInv ==
    /\ ReportsAreDefinite
    /\ LastIsOver
    /\ VerdictsAreOfTheirBody

LEMMA ReviewInitially == ReviewInit => ReviewInv
BY NoVerdictAssumption
   DEF ReviewInit, ReviewInv, ReportsAreDefinite, LastIsOver, VerdictsAreOfTheirBody, NoSide

\* A step of a call that does not end with an outcome.
LEMMA CallGoesOn ==
    ASSUME ReviewInv, NEW c \in Reports, rvCall[c].stage # "over",
           rvCall' = [d \in Reports |-> rvCall'[d]],
           \A d \in Reports : d # c => rvCall'[d] = rvCall[d],
           ReportsAreDefinite', UNCHANGED <<rvSide, rvGiven, rvFindings, rvLast>>
    PROVE  ReviewInv'
<1>1. \A k \in Desks \X Topics : rvLast[k] # 0 =>
        rvLast[k] \in Reports /\ rvCall'[rvLast[k]] = rvCall[rvLast[k]]
  BY DEF ReviewInv, LastIsOver
<1> QED BY <1>1 DEF ReviewInv, LastIsOver, VerdictsAreOfTheirBody

\* An outcome: it is noted with the topic of the call.
Justified(c, read, status, says) ==
    /\ Outcome(c, read, status, says)
    /\ status \in {"done", "reused"} /\ says \in Verdicts => <<read, says>> \in rvGiven'

LEMMA OutcomeKeeps ==
    ASSUME ReviewInv, NEW c \in Reports, NEW read, NEW status, NEW says,
           rvCall[c].stage \in {"full", "asked"}, Justified(c, read, status, says),
           rvGiven \subseteq rvGiven',
           rvSide'.says \in Verdicts => <<rvSide'.digest, rvSide'.says>> \in rvGiven'
    PROVE  ReviewInv'
<1> USE DEF Justified
<1> DEFINE k == <<rvCall[c].desk, rvCall[c].topic>>
<1>1. /\ rvCall' = [rvCall EXCEPT ![c] = [@ EXCEPT !.stage = "over", !.read = read,
                                                 !.status = status, !.says = says]]
      /\ rvLast' = [rvLast EXCEPT ![k] = c]
  BY DEF Outcome
<1>2. /\ rvCall' = [d \in Reports |-> rvCall'[d]]
      /\ \A d \in Reports : d # c => rvCall'[d] = rvCall[d]
      /\ rvCall'[c].stage = "over" /\ rvCall'[c].read = read /\ rvCall'[c].status = status
      /\ rvCall'[c].says = says /\ rvCall'[c].desk = rvCall[c].desk
      /\ rvCall'[c].topic = rvCall[c].topic
  BY <1>1 DEF ReviewInv, ReportsAreDefinite
<1>3. k \in Desks \X Topics
  BY DEF ReviewInv, ReportsAreDefinite
<1>4. ReportsAreDefinite'
  BY <1>1, <1>2, <1>3 DEF ReviewInv, ReportsAreDefinite
<1> HIDE DEF k
<1>5. ASSUME NEW m \in Desks \X Topics, m # k
      PROVE  /\ rvLast'[m] = rvLast[m] /\ (m \in rvFindings' <=> m \in rvFindings)
             /\ rvLast[m] # 0 => rvLast[m] \in Reports /\ rvLast[m] # c
  <2>1. rvLast'[m] = rvLast[m]
    BY <1>1, <1>5 DEF ReviewInv, LastIsOver
  <2>2. (m \in rvFindings' <=> m \in rvFindings)
    BY <1>5 DEF Outcome, k
  <2> QED BY <2>1, <2>2 DEF ReviewInv, LastIsOver
<1>6. rvLast'[k] = c /\ rvLast' = [m \in Desks \X Topics |-> rvLast'[m]]
  BY <1>1, <1>3 DEF ReviewInv, LastIsOver
<1>7. LastIsOver'
  BY <1>2, <1>5, <1>6 DEF ReviewInv, LastIsOver
<1>8. status \in {"done", "reused"} /\ says \in Verdicts =>
        (k \in rvFindings' <=> says # "clear")
  <2> SUFFICES ASSUME status \in {"done", "reused"}, says \in Verdicts
               PROVE  k \in rvFindings' <=> says # "clear"
    OBVIOUS
  <2>1. PICK open \in Unresolved(status, says) :
          rvFindings' = IF open THEN rvFindings \cup {k} ELSE rvFindings \ {k}
    BY DEF Outcome, k
  <2>2. open = (says \in {"high", "vague"})
    BY <2>1 DEF Unresolved, Verdicts
  <2>3. (says \in {"high", "vague"}) <=> says # "clear"
    BY DEF Verdicts
  <2>4. k \in rvFindings' <=> open
    BY <2>1, <2>2
  <2> QED BY <2>2, <2>3, <2>4
<1>9. VerdictsAreOfTheirBody'
  <2> SUFFICES ASSUME NEW m \in Desks \X Topics, rvLast'[m] # 0,
                      rvCall'[rvLast'[m]].status \in {"done", "reused"},
                      rvCall'[rvLast'[m]].says \in Verdicts
               PROVE  /\ <<rvCall'[rvLast'[m]].read, rvCall'[rvLast'[m]].says>> \in rvGiven'
                      /\ m \in rvFindings' <=> rvCall'[rvLast'[m]].says # "clear"
    BY DEF VerdictsAreOfTheirBody
  <2>1. CASE m = k
    BY <1>2, <1>6, <1>8, <2>1
  <2>2. CASE m # k
    <3>1. rvCall'[rvLast'[m]] = rvCall[rvLast[m]] /\ rvLast[m] # 0
      BY <1>2, <1>5, <2>2
    <3> QED BY <1>5, <2>2, <3>1 DEF ReviewInv, VerdictsAreOfTheirBody
  <2> QED BY <2>1, <2>2
<1> QED BY <1>4, <1>7, <1>9 DEF ReviewInv

LEMMA ReviewStep == ReviewInv /\ [ReviewNext]_reviewVars => ReviewInv'
<1> SUFFICES ASSUME ReviewInv, [ReviewNext]_reviewVars PROVE ReviewInv'
  OBVIOUS
<1>1. CASE UNCHANGED reviewVars
  <2>1. ReportsAreDefinite'
    BY <1>1 DEF reviewVars, ReviewInv, ReportsAreDefinite
  <2>2. LastIsOver'
    BY <1>1 DEF reviewVars, ReviewInv, LastIsOver
  <2>3. VerdictsAreOfTheirBody'
    BY <1>1 DEF reviewVars, ReviewInv, VerdictsAreOfTheirBody
  <2> QED BY <2>1, <2>2, <2>3 DEF ReviewInv
<1>2. ASSUME NEW c \in Reports, NEW d \in Desks, NEW t \in Topics, NEW b, WriteReport(c, d, t, b)
      PROVE  ReviewInv'
  <2>1. /\ rvCall[c].stage = "new" /\ UNCHANGED <<rvSide, rvGiven, rvFindings, rvLast>>
        /\ rvCall' = [rvCall EXCEPT ![c] = [@ EXCEPT !.stage = "open", !.desk = d,
                                                    !.topic = t, !.body = b]]
    BY <1>2 DEF WriteReport
  <2>2. ReportsAreDefinite' /\ \A x \in Reports : x # c => rvCall'[x] = rvCall[x]
    <3>1. rvCall' = [x \in Reports |-> IF x = c THEN [rvCall[c] EXCEPT !.stage = "open",
                             !.desk = d, !.topic = t, !.body = b] ELSE rvCall[x]]
      BY <2>1 DEF ReviewInv, ReportsAreDefinite
    <3>2. /\ rvCall' = [x \in Reports |-> rvCall'[x]]
          /\ \A x \in Reports : x # c => rvCall'[x] = rvCall[x]
          /\ rvCall'[c] = [rvCall[c] EXCEPT !.stage = "open", !.desk = d, !.topic = t, !.body = b]
      BY <3>1
    <3>3. rvCall'[c] \in [stage : {"open"}, desk : {d}, topic : {t}, body : {b},
                          read : {rvCall[c].read}, status : {rvCall[c].status},
                          says : {rvCall[c].says}]
      <4>1. rvCall[c] \in [stage : {"new", "open", "orphan", "full", "asked", "over"},
                           desk : {rvCall[c].desk}, topic : {rvCall[c].topic},
                           body : {rvCall[c].body}, read : {rvCall[c].read},
                           status : {rvCall[c].status}, says : {rvCall[c].says}]
        BY DEF ReviewInv, ReportsAreDefinite
      <4> QED BY <3>2, <4>1
    <3>4. /\ rvCall'[c].stage = "open" /\ rvCall'[c].desk = d /\ rvCall'[c].topic = t
          /\ rvCall'[c].body = b /\ rvCall'[c].read = rvCall[c].read
          /\ rvCall'[c].status = rvCall[c].status /\ rvCall'[c].says = rvCall[c].says
      BY <3>3
    <3>5. <<rvCall'[c].desk, rvCall'[c].topic>> \in Desks \X Topics
      BY <3>4
    <3>6. rvCall'[c] \in [stage : {"new", "open", "orphan", "full", "asked", "over"},
                           desk : {rvCall'[c].desk}, topic : {rvCall'[c].topic},
                           body : {rvCall'[c].body}, read : {rvCall'[c].read},
                           status : {rvCall'[c].status}, says : {rvCall'[c].says}]
      BY <3>3, <3>4
    <3> QED BY <3>2, <3>5, <3>6 DEF ReviewInv, ReportsAreDefinite
  <2> QED BY <2>1, <2>2, CallGoesOn DEF ReportsAreDefinite
<1>3. ASSUME NEW c \in Reports, Exported(c) \/ ReadCut(c) \/ AskReviewer(c) \/ ReportCancelled(c)
      PROVE  ReviewInv'
  <2>1. /\ rvCall[c].stage \in {"open", "orphan", "full", "asked"}
        /\ UNCHANGED <<rvSide, rvGiven, rvFindings, rvLast>>
    BY <1>3 DEF Exported, ReadCut, AskReviewer, ReportCancelled
  <2>2. PICK s \in {"orphan", "full", "asked", "over"} :
          \/ rvCall' = [rvCall EXCEPT ![c].stage = s]
          \/ rvCall' = [rvCall EXCEPT ![c] = [@ EXCEPT !.stage = s, !.read = rvFile]]
    BY <1>3 DEF Exported, ReadCut, AskReviewer, ReportCancelled, ReviewInv, ReportsAreDefinite
  <2>3. ReportsAreDefinite' /\ \A x \in Reports : x # c => rvCall'[x] = rvCall[x]
    <3>1. CASE rvCall' = [rvCall EXCEPT ![c].stage = s]
      BY <2>1, <2>2, <3>1 DEF ReviewInv, ReportsAreDefinite
    <3>2. CASE rvCall' = [rvCall EXCEPT ![c] = [@ EXCEPT !.stage = s, !.read = rvFile]]
      <4>1. /\ rvCall' = [x \in Reports |-> rvCall'[x]]
            /\ \A x \in Reports : x # c => rvCall'[x] = rvCall[x]
            /\ rvCall'[c] = [rvCall[c] EXCEPT !.stage = s, !.read = rvFile]
        BY <3>2 DEF ReviewInv, ReportsAreDefinite
      <4>2. /\ rvCall'[c] \in [stage : {s}, desk : {rvCall[c].desk}, topic : {rvCall[c].topic},
                               body : {rvCall[c].body}, read : {rvFile},
                               status : {rvCall[c].status}, says : {rvCall[c].says}]
            /\ <<rvCall[c].desk, rvCall[c].topic>> \in Desks \X Topics
        BY <2>1, <4>1 DEF ReviewInv, ReportsAreDefinite
      <4>3. /\ rvCall'[c].stage = s /\ rvCall'[c].desk = rvCall[c].desk
            /\ rvCall'[c].topic = rvCall[c].topic /\ rvCall'[c].body = rvCall[c].body
            /\ rvCall'[c].read = rvFile /\ rvCall'[c].status = rvCall[c].status
            /\ rvCall'[c].says = rvCall[c].says
        BY <4>2
      <4>4. rvCall'[c] \in [stage : {"new", "open", "orphan", "full", "asked", "over"},
                           desk : {rvCall'[c].desk}, topic : {rvCall'[c].topic},
                           body : {rvCall'[c].body}, read : {rvCall'[c].read},
                           status : {rvCall'[c].status}, says : {rvCall'[c].says}]
        BY <4>2, <4>3
      <4>5. ReportsAreDefinite
        BY DEF ReviewInv
      <4> QED BY <4>1, <4>2, <4>3, <4>4, <4>5 DEF ReportsAreDefinite
    <3> QED BY <2>2, <3>1, <3>2
  <2> QED BY <2>1, <2>3, CallGoesOn DEF ReportsAreDefinite
<1>4. ASSUME NEW c \in Reports, NotReviewed(c) PROVE ReviewInv'
  <2>1. PICK status \in {"skipped", "unreviewed"} : Outcome(c, NoBody, status, NoBody)
    BY <1>4 DEF NotReviewed
  <2>2. rvCall[c].stage = "full" /\ UNCHANGED <<rvSide, rvGiven>>
    BY <1>4 DEF NotReviewed
  <2>3. /\ rvGiven \subseteq rvGiven' /\ status \notin {"done", "reused"}
        /\ rvSide'.says \in Verdicts => <<rvSide'.digest, rvSide'.says>> \in rvGiven'
    BY <2>1, <2>2 DEF ReviewInv, VerdictsAreOfTheirBody
  <2>4. Justified(c, NoBody, status, NoBody) /\ rvCall[c].stage \in {"full", "asked"}
    BY <2>1, <2>2, <2>3 DEF Justified
  <2> QED BY <2>3, <2>4, OutcomeKeeps
<1>5. ASSUME NEW c \in Reports, Reuse(c) PROVE ReviewInv'
  <2>1. PICK says \in {rvSide.says, "lost"} : Outcome(c, rvFile, "reused", says)
    BY <1>5 DEF Reuse
  <2>2. rvCall[c].stage = "full" /\ rvSide.digest = rvFile /\ UNCHANGED <<rvSide, rvGiven>>
    BY <1>5 DEF Reuse
  <2>3. says \in Verdicts => <<rvFile, says>> \in rvGiven
    BY <2>1, <2>2 DEF ReviewInv, VerdictsAreOfTheirBody, Verdicts
  <2>4. /\ Justified(c, rvFile, "reused", says) /\ rvCall[c].stage \in {"full", "asked"}
        /\ rvGiven \subseteq rvGiven'
        /\ rvSide'.says \in Verdicts => <<rvSide'.digest, rvSide'.says>> \in rvGiven'
    BY <2>1, <2>2, <2>3 DEF Justified, ReviewInv, VerdictsAreOfTheirBody
  <2> QED BY <2>4, OutcomeKeeps
<1>6. ASSUME NEW c \in Reports, NEW v \in Verdicts, ReviewerAnswers(c, v) PROVE ReviewInv'
  <2>1. /\ rvCall[c].stage = "asked" /\ Outcome(c, rvCall[c].read, "done", v)
        /\ rvGiven' = rvGiven \cup {<<rvCall[c].read, v>>}
    BY <1>6 DEF ReviewerAnswers
  <2>2. PICK kept \in {v, "torn"} :
          rvSide' \in {rvSide, NoSide, [digest |-> rvCall[c].read, says |-> kept]}
    BY <1>6 DEF ReviewerAnswers, DigestOf
  <2>3. rvSide'.says \in Verdicts => <<rvSide'.digest, rvSide'.says>> \in rvGiven'
    BY <2>1, <2>2, NoVerdictAssumption
       DEF ReviewInv, VerdictsAreOfTheirBody, NoSide, Verdicts
  <2>4. <<rvCall[c].read, v>> \in rvGiven' /\ rvGiven \subseteq rvGiven'
    BY <2>1
  <2>5. rvCall[c].stage \in {"full", "asked"} /\ Justified(c, rvCall[c].read, "done", v)
    BY <2>1, <2>4 DEF Justified
  <2> QED BY <2>3, <2>4, <2>5, OutcomeKeeps
<1>7. ASSUME NEW c \in Reports, ReviewerFails(c) PROVE ReviewInv'
  <2>1. /\ rvCall[c].stage = "asked" /\ Outcome(c, rvCall[c].read, "unreviewed", NoBody)
        /\ UNCHANGED <<rvSide, rvGiven>>
    BY <1>7 DEF ReviewerFails
  <2>2. /\ rvGiven \subseteq rvGiven' /\ rvCall[c].stage \in {"full", "asked"}
        /\ rvSide'.says \in Verdicts => <<rvSide'.digest, rvSide'.says>> \in rvGiven'
    BY <2>1 DEF ReviewInv, VerdictsAreOfTheirBody
  <2>3. Justified(c, rvCall[c].read, "unreviewed", NoBody)
    BY <2>1 DEF Justified
  <2> QED BY <2>2, <2>3, OutcomeKeeps
<1> QED BY <1>1, <1>2, <1>3, <1>4, <1>5, <1>6, <1>7 DEF ReviewNext

----------------------------------------------------------------------------
(***************************************************************************)
(* Tasks side by side                                                      *)
(***************************************************************************)
JobsSpec == JobsInit /\ [][JobsNext]_jobVars

JobsInv ==
    /\ jbStage \in [Jobs -> {"new", "run", "ok", "failed", "raised", "lost"}]
    /\ jbSpent \in [Jobs -> Nat] /\ jbBooked \in [Jobs -> Nat]
    /\ JobsAreBilled

LEMMA JobsInitially == JobsInit => JobsInv
BY DEF JobsInit, JobsInv, JobsAreBilled

LEMMA JobsStep == JobsInv /\ [JobsNext]_jobVars => JobsInv'
<1> SUFFICES ASSUME JobsInv, [JobsNext]_jobVars PROVE JobsInv'
  OBVIOUS
<1> USE DEF JobsInv, JobsAreBilled
<1>1. CASE UNCHANGED jobVars
  BY <1>1 DEF jobVars
<1>2. CASE SpawnJobs
  BY <1>2 DEF SpawnJobs
<1>3. CASE AllGathered
  BY <1>3 DEF AllGathered
<1>4. CASE SpawnCancelled
  BY <1>4 DEF SpawnCancelled
<1>5. ASSUME NEW j \in Jobs, JobStarts(j) PROVE JobsInv'
  BY <1>5 DEF JobStarts
<1>6. ASSUME NEW j \in Jobs, JobSpends(j) PROVE JobsInv'
  BY <1>6 DEF JobSpends
<1>7. ASSUME NEW j \in Jobs, NEW how \in {"ok", "failed", "raised", "lost"}, JobEnds(j, how)
      PROVE  JobsInv'
  BY <1>7 DEF JobEnds
<1> QED BY <1>1, <1>2, <1>3, <1>4, <1>5, <1>6, <1>7 DEF JobsNext

\* For any number of reports, sessions, topics and tasks: what is kept of a sub-agent is
\* what it said of what it was asked, whichever calls share a file (review.py, writer.py),
\* and what it used is booked once, whatever becomes of its siblings (reviewer.py: _run).
THEOREM SubAgentsReported == ReviewSpec /\ JobsSpec => []SubAgentsAreReportedTrue
<1>1. ReviewInv /\ JobsInv => SubAgentsAreReportedTrue
  BY DEF ReviewInv, JobsInv, SubAgentsAreReportedTrue
<1> QED BY <1>1, ReviewInitially, ReviewStep, JobsInitially, JobsStep, PTL DEF ReviewSpec, JobsSpec

----------------------------------------------------------------------------
(***************************************************************************)
(* The web client: the panel with its timers and prompts, and the App that *)
(* mounts panels, each step of one or of the other.                        *)
(***************************************************************************)
ClientSpec == ClientInit /\ [][PanelNext \/ AppNext]_panelVars

\* The invariant: a view is of the conversation it is cached under, unless a late restart
\* has put it there; a panel with a stream has messages.
AppInv ==
    /\ MessagesAreOfTheShown
    /\ \A d \in DOMAIN ccViews : d # NoDialog /\ (ccViews[d].of = d \/ d \in ccMisfiled)
    /\ NoDialog \notin ccMisfiled
    /\ ccStream # "none" => ccTrace # "none"

LEMMA AppInitially == ClientInit => AppInv
BY DEF ClientInit, AppInv, MessagesAreOfTheShown, HasMessages

\* What is cached under d is of d, or d is from now on excepted.
LEMMA CachedIsOf ==
    ASSUME AppInv, NEW d,
           ~HasMessages \/ ccContent = d \/ d \in ccMisfiled' \cup {NoDialog},
           ccMisfiled \subseteq ccMisfiled'
    PROVE  \A x \in DOMAIN ViewsWith(d) :
             x # NoDialog /\ (ViewsWith(d)[x].of = x \/ x \in ccMisfiled')
BY DEF AppInv, ViewsWith, View

\* A panel is mounted with messages of its conversation.
LEMMA MountKeeps ==
    ASSUME AppInv, NEW d, NEW views, NEW history, Mount(d, views, history),
           ccShown' = d, ccViews' = views, NoDialog \notin ccMisfiled',
           \A x \in DOMAIN views : x # NoDialog /\ (views[x].of = x \/ x \in ccMisfiled')
    PROVE  AppInv'
<1>1. CASE d \in DOMAIN views
  BY <1>1 DEF Mount, AppInv, MessagesAreOfTheShown, HasMessages
<1>2. CASE d \notin DOMAIN views
  BY <1>2 DEF Mount, RestoredMessages, AppInv, MessagesAreOfTheShown, HasMessages
<1> QED BY <1>1, <1>2

\* A turn goes on, and whatever is shown of it stays in its panel.
LEMMA TurnKeeps ==
    ASSUME AppInv, UNCHANGED <<ccShown, ccContent, ccViews, ccMisfiled>>,
           \/ UNCHANGED ccTrace /\ ccStream' \in {ccStream, "none"}
           \/ ccStream # "none" /\ ccTrace' # "none"
    PROVE  AppInv'
BY DEF AppInv, MessagesAreOfTheShown, HasMessages

LEMMA AppStep == AppInv /\ [PanelNext \/ AppNext]_panelVars => AppInv'
<1> SUFFICES ASSUME AppInv, [PanelNext \/ AppNext]_panelVars PROVE AppInv'
  OBVIOUS
<1>1. CASE SendMessage
  BY <1>1 DEF SendMessage, appVars, AppInv, MessagesAreOfTheShown, HasMessages
<1>2. CASE WorkStarts \/ WorkEnds \/ NoticeFrame \/ DeltaFrame \/ ResetFrame \/ ErrorFrame
  <2>1. UNCHANGED <<ccShown, ccContent, ccViews, ccMisfiled, ccStream>> /\ ccStream = "open"
    BY <1>2 DEF WorkStarts, WorkEnds, NoticeFrame, DeltaFrame, ResetFrame, ErrorFrame, Frame,
                Keeps, appVars
  <2>2. ccTrace' \in {ccTrace, "error"}
    BY <1>2 DEF WorkStarts, WorkEnds, NoticeFrame, DeltaFrame, ResetFrame, ErrorFrame, Frame
  <2> QED BY <2>1, <2>2, TurnKeeps DEF AppInv
<1>3. ASSUME NEW how \in Statuses, DoneFrame(how) PROVE AppInv'
  <2>1. /\ UNCHANGED <<ccShown, ccContent, ccViews, ccMisfiled, ccStream>> /\ ccStream = "open"
        /\ ccTrace' # "none"
    BY <1>3 DEF DoneFrame, Frame, appVars, Statuses
  <2> QED BY <2>1, TurnKeeps
<1>4. ASSUME NEW phase \in {"running"} \cup Statuses, StateFrame(phase) PROVE AppInv'
  <2>1. /\ UNCHANGED <<ccShown, ccContent, ccViews, ccMisfiled, ccStream>> /\ ccStream = "open"
        /\ ccTrace' # "none"
    BY <1>4 DEF StateFrame, Frame, appVars, Statuses, AppInv
  <2> QED BY <2>1, TurnKeeps
<1>5. ASSUME NEW q \in Asks, AskFrame(q) \/ ResolvedFrame(q) PROVE AppInv'
  <2>1. UNCHANGED <<ccShown, ccContent, ccViews, ccMisfiled, ccStream, ccTrace>>
    BY <1>5 DEF AskFrame, ResolvedFrame, Frame, appVars
  <2> QED BY <2>1, TurnKeeps
<1>6. CASE Finally
  <2>1. /\ UNCHANGED <<ccShown, ccContent, ccViews, ccMisfiled>> /\ ccStream # "none"
        /\ ccTrace' \in {ccTrace, "stopped", "error"}
    BY <1>6 DEF Finally, appVars
  <2> QED BY <2>1, TurnKeeps DEF AppInv
<1>7. CASE \/ HandleRespond \/ WatchdogFires \/ Stop \/ GraceRunsOut \/ StopTaken
           \/ StopRefused \/ UNCHANGED panelVars
  <2>1. UNCHANGED <<ccShown, ccContent, ccViews, ccMisfiled, ccTrace>>
    BY <1>7 DEF HandleRespond, WatchdogFires, Stop, GraceRunsOut, StopTaken, StopRefused,
                panelVars, appVars, turnVars
  <2>2. ccStream' = ccStream \/ ccStream' = Aborted
    BY <1>7 DEF HandleRespond, WatchdogFires, Stop, GraceRunsOut, StopTaken, StopRefused, panelVars
  <2> QED BY <2>1, <2>2 DEF Aborted, AppInv, MessagesAreOfTheShown, HasMessages
<1>8. ASSUME NEW d \in Dialogs, SessionFrame(d) PROVE AppInv'
  BY <1>8 DEF SessionFrame, Frame, AppInv, MessagesAreOfTheShown, HasMessages
<1>9. ASSUME NEW d \in Dialogs, SelectConversation(d) PROVE AppInv'
  <2>1. /\ Mount(d, ViewsWith(ccShown), ccHistory) /\ ccShown' = d
        /\ ccViews' = ViewsWith(ccShown) /\ ccMisfiled' = ccMisfiled
    BY <1>9 DEF SelectConversation
  <2>2. ~HasMessages \/ ccContent = ccShown \/ ccShown \in ccMisfiled' \cup {NoDialog}
    BY <2>1 DEF AppInv, MessagesAreOfTheShown
  <2>3. \A x \in DOMAIN ViewsWith(ccShown) :
           x # NoDialog /\ (ViewsWith(ccShown)[x].of = x \/ x \in ccMisfiled')
    BY <2>1, <2>2, CachedIsOf
  <2> QED BY <2>1, <2>3, MountKeeps DEF AppInv
<1>10. CASE NewConversation
  <2>1. /\ Mount(NoDialog, ViewsWith(ccShown), NoDialog) /\ ccShown' = NoDialog
        /\ ccViews' = ViewsWith(ccShown) /\ ccMisfiled' = ccMisfiled
    BY <1>10 DEF NewConversation, StartNewConversation
  <2>2. ~HasMessages \/ ccContent = ccShown \/ ccShown \in ccMisfiled' \cup {NoDialog}
    BY <2>1 DEF AppInv, MessagesAreOfTheShown
  <2>3. \A x \in DOMAIN ViewsWith(ccShown) :
           x # NoDialog /\ (ViewsWith(ccShown)[x].of = x \/ x \in ccMisfiled')
    BY <2>1, <2>2, CachedIsOf
  <2> QED BY <2>1, <2>3, MountKeeps DEF AppInv
<1>11. CASE RestartReturns
  <2>1. CASE UNCHANGED <<ccShown, ccHistory, ccReads, ccViews, ccMisfiled, ccStream, turnVars,
                         refVars, askVars, ccSends>>
    BY <2>1, TurnKeeps DEF turnVars
  <2>2. CASE /\ StartNewConversation(ViewsWith(ccRestart[1]))
             /\ ccMisfiled' = IF HasMessages /\ ccContent # ccRestart[1]
                              THEN ccMisfiled \cup ({ccRestart[1]} \ {NoDialog})
                              ELSE ccMisfiled
    <3> DEFINE d == ccRestart[1]
    <3>1. /\ Mount(NoDialog, ViewsWith(d), NoDialog) /\ ccShown' = NoDialog
          /\ ccViews' = ViewsWith(d)
      BY <2>2 DEF StartNewConversation
    <3>2. /\ NoDialog \notin ccMisfiled' /\ ccMisfiled \subseteq ccMisfiled'
          /\ ~HasMessages \/ ccContent = d \/ d \in ccMisfiled' \cup {NoDialog}
      BY <2>2 DEF AppInv
    <3> HIDE DEF d
    <3>3. \A x \in DOMAIN ViewsWith(d) : x # NoDialog /\ (ViewsWith(d)[x].of = x \/ x \in ccMisfiled')
      BY <3>2, CachedIsOf
    <3> QED BY <3>1, <3>2, <3>3, MountKeeps
  <2> QED BY <1>11, <2>1, <2>2 DEF RestartReturns
<1>12. CASE DeleteReturns
  <2> DEFINE d == ccDelete[1]
             views == [x \in DOMAIN ccViews \ {d} |-> ccViews[x]]
  <2>1. ccMisfiled' = ccMisfiled \ ({d} \ {ccShown})
    BY <1>12 DEF DeleteReturns
  <2>2. /\ \A x \in DOMAIN views : x # NoDialog /\ (views[x].of = x \/ x \in ccMisfiled')
        /\ NoDialog \notin ccMisfiled'
    BY <2>1 DEF AppInv
  <2>3. CASE StartNewConversation(views)
    BY <2>2, <2>3, MountKeeps DEF StartNewConversation
  <2>4. CASE ccViews' = views /\ UNCHANGED <<ccShown, ccStream, turnVars>>
    BY <2>1, <2>2, <2>4 DEF AppInv, MessagesAreOfTheShown, HasMessages, turnVars
  <2> QED BY <1>12, <2>3, <2>4 DEF DeleteReturns
<1>13. ASSUME NEW d \in Dialogs, DeleteClicked(d) PROVE AppInv'
  BY <1>13, TurnKeeps DEF DeleteClicked, turnVars
<1>14. CASE SettingsSaved
  BY <1>14, TurnKeeps DEF SettingsSaved, turnVars
<1>15. ASSUME NEW r \in ccReads, HistoryArrives(r) PROVE AppInv'
  BY <1>15 DEF HistoryArrives, RestoredMessages, AppInv, MessagesAreOfTheShown, HasMessages
<1>16. CASE PanelNext
  BY <1>1, <1>2, <1>3, <1>4, <1>5, <1>6, <1>7, <1>16 DEF PanelNext
<1>17. CASE AppNext
  <2>1. "done" \in Statuses
    BY DEF Statuses
  <2> QED BY <1>1, <1>3, <1>6, <1>8, <1>9, <1>10, <1>11, <1>12, <1>13, <1>14, <1>15, <1>17, <2>1
          DEF AppNext
<1> QED BY <1>7, <1>16, <1>17

\* The messages of the panel are those of the conversation it is open for, for any
\* number of conversations, loads, deletions and restarts (App.tsx, restoredMessages,
\* cacheCurrentView), but for the views a late restart has put in the wrong place.
THEOREM MessagesFollow == ClientSpec => []MessagesAreOfTheShown
<1>1. AppInv => MessagesAreOfTheShown
  BY DEF AppInv
<1> QED BY AppInitially, AppStep, <1>1, PTL DEF ClientSpec

\* A turn that is settled has no prompt open and nothing running; what is left to come
\* is the final public state of a turn whose last one was not final.
SettledIsQuiet ==
    ccSettled => /\ ccQueue = <<>> /\ ccRunning = {}
                 /\ ccTrace = "running" => ccPhase = "running"

\* The invariant: a stream that ends finds a turn either settled, and quiet, or still
\* open, and is the one that ends it.
PanelInv ==
    /\ ccQueue \in Seq(Asks) /\ ccStream \in {"none", "open", "aborted"}
    /\ SettledIsQuiet
    /\ PromptsAreKept
    /\ TurnsComeToRest

LEMMA PanelInitially == ClientInit => PanelInv
BY EmptySeq
   DEF ClientInit, PanelInv, SettledIsQuiet, PromptsAreKept, TurnsComeToRest, Contains

LEMMA FirstPosition ==
    ASSUME NEW I, I \subseteq Nat, I # {}
    PROVE  Min(I) \in I
<1>1. PICK m \in I : \A j \in I : ~(<<j, m>> \in OpToRel(<, Nat))
  BY NatLessThanWellFounded, WFMin
<1>2. \A j \in I : ~(j < m)
  BY <1>1 DEF OpToRel
<1>3. \A j \in I : m <= j
  BY <1>2
<1>4. Min(I) = CHOOSE x \in I : \A y \in I : x <= y
  BY DEF Min
<1> QED BY <1>3, <1>4

\* Removing a prompt leaves the others in the queue.
LEMMA OthersStay ==
    ASSUME NEW S, NEW s \in Seq(S), NEW q, NEW rest, rest = RemoveFirst(s, q)
    PROVE  /\ rest \in Seq(S)
           /\ \A x : x # q /\ Contains(s, x) => Contains(rest, x)
           /\ s = <<>> => rest = <<>>
<1>1. Len(s) \in Nat
  OBVIOUS
<1>2. CASE ~(\E i \in 1..Len(s) : s[i] = q)
  BY <1>2 DEF RemoveFirst
<1>3. CASE \E i \in 1..Len(s) : s[i] = q
  <2> DEFINE I == {i \in 1..Len(s) : s[i] = q}
             k == SelectInSeq(s, LAMBDA v : v = q)
  <2>1. k \in I
    <3>1. I \subseteq Nat /\ I # {} /\ k = Min(I)
      BY <1>1, <1>3 DEF SelectInSeq
    <3> HIDE DEF I
    <3> QED BY <3>1, FirstPosition
  <2> HIDE DEF k
  <2>2. k \in 1..Len(s) /\ s[k] = q
    BY <2>1
  <2> DEFINE head == SubSeq(s, 1, k - 1)
             tail == SubSeq(s, k + 1, Len(s))
             both == head \o tail
  <2>3. rest = both
    BY <1>3 DEF RemoveFirst, RemoveAt, k
  <2>4. /\ head \in Seq(S) /\ Len(head) = k - 1
        /\ \A i \in 1..(k - 1) : head[i] = s[i]
    <3>1. \A i \in 1..(k - 1) : s[i] \in S
      BY <1>1, <2>2
    <3>2. /\ head \in Seq(S)
          /\ Len(head) = IF 1 <= k - 1 THEN k - 1 - 1 + 1 ELSE 0
          /\ \A i \in 1..(k - 1 - 1 + 1) : head[i] = s[1 + i - 1]
      BY <1>1, <2>2, <3>1, SubSeqProperties
    <3> HIDE DEF head
    <3> QED BY <1>1, <2>2, <3>2
  <2>5. /\ tail \in Seq(S) /\ Len(tail) = Len(s) - k
        /\ \A i \in 1..(Len(s) - k) : tail[i] = s[k + i]
    <3>1. \A i \in (k + 1)..Len(s) : s[i] \in S
      BY <1>1, <2>2
    <3>2. /\ tail \in Seq(S)
          /\ Len(tail) = IF k + 1 <= Len(s) THEN Len(s) - (k + 1) + 1 ELSE 0
          /\ \A i \in 1..(Len(s) - (k + 1) + 1) : tail[i] = s[k + 1 + i - 1]
      BY <1>1, <2>2, <3>1, SubSeqProperties
    <3> HIDE DEF tail
    <3> QED BY <1>1, <2>2, <3>2
  <2> HIDE DEF head, tail
  <2>6. /\ both \in Seq(S) /\ Len(both) = Len(head) + Len(tail)
        /\ \A i \in 1..Len(head) + Len(tail) :
             both[i] = IF i <= Len(head) THEN head[i] ELSE tail[i - Len(head)]
    BY <2>4, <2>5, ConcatProperties
  <2> HIDE DEF both
  <2>7. ASSUME NEW x, x # q, NEW i \in 1..Len(s), s[i] = x
        PROVE  \E j \in 1..Len(both) : both[j] = x
    <3>0. /\ Len(s) \in Nat /\ k \in 1..Len(s) /\ Len(head) = k - 1
          /\ Len(tail) = Len(s) - k /\ Len(both) = Len(head) + Len(tail)
      BY <1>1, <2>2, <2>4, <2>5, <2>6
    <3>1. CASE i < k
      <4>1. i \in 1..(k - 1) /\ i \in 1..Len(both) /\ i <= Len(head)
        BY <3>0, <3>1
      <4> QED BY <2>4, <2>6, <2>7, <4>1
    <3>2. CASE i > k
      <4>1. PICK j \in 1..Len(both) :
              /\ j = i - 1 /\ ~(j <= Len(head)) /\ j - Len(head) \in 1..(Len(s) - k)
              /\ k + (j - Len(head)) = i
        BY <3>0, <3>2
      <4>2. both[j] = tail[j - Len(head)]
        BY <2>6, <4>1
      <4> QED BY <2>5, <2>7, <4>1, <4>2
    <3>3. i # k
      BY <2>2, <2>7
    <3> QED BY <2>2, <3>1, <3>2, <3>3
  <2>8. s # <<>>
    BY <1>3
  <2> QED BY <2>3, <2>6, <2>7, <2>8 DEF Contains
<1> QED BY <1>2, <1>3

LEMMA PanelStep == PanelInv /\ [PanelNext \/ AppNext]_panelVars => PanelInv'
<1> SUFFICES ASSUME PanelInv, [PanelNext \/ AppNext]_panelVars PROVE PanelInv'
  OBVIOUS
<1> USE DEF PanelInv, SettledIsQuiet, PromptsAreKept, TurnsComeToRest
<1>1. CASE SendMessage
  BY <1>1 DEF SendMessage, refVars
<1>2. CASE WorkStarts \/ DeltaFrame
  BY <1>2 DEF WorkStarts, DeltaFrame, Frame, Keeps, askVars
<1>3. CASE WorkEnds \/ NoticeFrame \/ ResetFrame
  BY <1>3 DEF WorkEnds, NoticeFrame, ResetFrame, Frame, Keeps, askVars
<1>4. ASSUME NEW phase \in {"running"} \cup Statuses, StateFrame(phase)
      PROVE  PanelInv'
  BY <1>4 DEF StateFrame, Frame, askVars
<1>5. CASE HandleRespond
  <2>1. ccQueue' \in Seq(Asks) /\ Len(ccQueue) \in Nat /\ Len(ccQueue) > 0
    BY <1>5 DEF HandleRespond
  <2>2. ASSUME NEW x, x # Head(ccQueue), Contains(ccQueue, x)
        PROVE  Contains(ccQueue', x)
    <3>1. PICK i \in 1..Len(ccQueue) : ccQueue[i] = x
      BY <2>2 DEF Contains
    <3>2. i # 1 /\ Len(ccQueue') = Len(ccQueue) - 1 /\ \A j \in 1..Len(ccQueue') : ccQueue'[j] = ccQueue[j + 1]
      BY <1>5, <2>2, <2>1, <3>1 DEF HandleRespond
    <3>3. i - 1 \in 1..Len(ccQueue') /\ i - 1 + 1 = i
      BY <2>1, <3>1, <3>2
    <3> QED BY <3>1, <3>2, <3>3 DEF Contains
  <2>3. PromptsAreKept'
    BY <1>5, <2>2 DEF HandleRespond
  <2>4. ccStream # "none" /\ ~ccSettled
    BY <1>5 DEF HandleRespond
  <2> QED BY <1>5, <2>1, <2>3, <2>4 DEF HandleRespond
<1>6. ASSUME NEW q \in Asks, AskFrame(q)
      PROVE  PanelInv'
  <2>1. ccQueue' \in Seq(Asks) /\ Contains(ccQueue', q)
        /\ \A x : Contains(ccQueue, x) => Contains(ccQueue', x)
    <3>1. CASE Contains(ccQueue, q)
      BY <1>6, <3>1 DEF AskFrame, Frame, Enqueue
    <3>2. CASE ~Contains(ccQueue, q)
      <4>1. ccQueue' = Append(ccQueue, q)
        BY <1>6, <3>2 DEF AskFrame, Frame, Enqueue
      <4>2. /\ ccQueue' \in Seq(Asks) /\ Len(ccQueue') = Len(ccQueue) + 1
            /\ \A i \in 1..Len(ccQueue) : ccQueue'[i] = ccQueue[i]
            /\ ccQueue'[Len(ccQueue) + 1] = q
        BY <4>1, AppendProperties
      <4>3. Len(ccQueue) \in Nat
        OBVIOUS
      <4> QED BY <4>2, <4>3 DEF Contains
    <3> QED BY <3>1, <3>2
  <2> QED BY <1>6, <2>1 DEF AskFrame, Frame
<1>7. ASSUME NEW q \in Asks, ResolvedFrame(q)
      PROVE  PanelInv'
  <2>1. /\ ccQueue' \in Seq(Asks)
        /\ \A x : x # q /\ Contains(ccQueue, x) => Contains(ccQueue', x)
        /\ ccQueue = <<>> => ccQueue' = <<>>
    BY <1>7, OthersStay DEF ResolvedFrame, Frame
  <2> QED BY <1>7, <2>1 DEF ResolvedFrame, Frame
<1>8. CASE ErrorFrame
  BY <1>8, EmptySeq DEF ErrorFrame, Frame
<1>9. ASSUME NEW how \in Statuses, DoneFrame(how)
      PROVE  PanelInv'
  BY <1>9, EmptySeq DEF DoneFrame, Frame, Statuses
<1>10. CASE Finally
  BY <1>10, EmptySeq DEF Finally, askVars
<1>11. CASE WatchdogFires \/ Stop \/ GraceRunsOut \/ StopTaken \/ StopRefused
  BY <1>11 DEF WatchdogFires, Stop, GraceRunsOut, StopTaken, StopRefused, Aborted, turnVars,
               askVars
<1>12. ASSUME NEW d, NEW views, NEW history, Mount(d, views, history)
       PROVE  PanelInv'
  BY <1>12, EmptySeq DEF Mount
<1>13. CASE UNCHANGED <<ccStream, turnVars, refVars, askVars>>
  BY <1>13 DEF turnVars, refVars, askVars
<1>14. ASSUME NEW d \in Dialogs, SessionFrame(d)
       PROVE  PanelInv'
  BY <1>14 DEF SessionFrame, Frame, askVars
<1>15. CASE NewConversation \/ DeleteReturns
  BY <1>12, <1>13, <1>15 DEF NewConversation, DeleteReturns, StartNewConversation
<1>21. CASE SettingsSaved \/ RestartReturns
  BY <1>12, <1>13, <1>21 DEF SettingsSaved, RestartReturns, StartNewConversation
<1>16. ASSUME NEW d \in Dialogs, SelectConversation(d) \/ DeleteClicked(d)
       PROVE  PanelInv'
  BY <1>12, <1>13, <1>16 DEF SelectConversation, DeleteClicked
<1>17. ASSUME NEW r \in ccReads, HistoryArrives(r)
       PROVE  PanelInv'
  BY <1>17 DEF HistoryArrives, refVars, askVars
<1>18. CASE UNCHANGED panelVars
  BY <1>13, <1>18 DEF panelVars
<1>19. CASE PanelNext
  BY <1>1, <1>2, <1>3, <1>4, <1>5, <1>6, <1>7, <1>8, <1>9, <1>10, <1>11, <1>19 DEF PanelNext
<1>20. CASE AppNext
  <2>1. "done" \in Statuses
    BY DEF Statuses
  <2> QED BY <1>1, <1>9, <1>10, <1>14, <1>15, <1>16, <1>17, <1>20, <1>21, <2>1 DEF AppNext
<1> QED BY <1>18, <1>19, <1>20

\* For any number of prompts, conversations and turns, whatever selections and deletions
\* mount another panel meanwhile: a prompt the server waits for stays on the screen, and
\* a stream that is over leaves no timer, no prompt and nothing running behind
\* (ChatPanel.tsx:703, :896).
THEOREM PanelIsTrue == ClientSpec => []PanelTellsTheTurn
<1>1. PanelInv => PanelTellsTheTurn
  BY DEF PanelInv, PanelTellsTheTurn
<1> QED BY PanelInitially, PanelStep, <1>1, PTL DEF ClientSpec

----------------------------------------------------------------------------
(***************************************************************************)
(* What the loop remembers of its calls                                    *)
(***************************************************************************)
GuardSpec == GuardInit /\ [][GuardNext]_guardVars

Tried(p) == {c \in DOMAIN rgPrint : rgPrint[c] = p /\ rgStage[c] \in {"run"} \cup Settled}

\* What is remembered of the last attempt is about that attempt.
LastIsSettled ==
    \A p \in Prints : rgLast[p] # 0 =>
      /\ rgLast[p] \in DOMAIN rgPrint /\ rgPrint[rgLast[p]] = p
      /\ rgStage[rgLast[p]] \in Settled
      /\ rgStage[rgLast[p]] = "ok" =>
           p \notin rgError /\ p \in DOMAIN rgResult /\ rgResult[p] = rgLast[p]
      /\ rgStage[rgLast[p]] # "ok" => p \in rgError

\* The attempts are counted before the limit is looked at.
TriesAreCounted ==
    \A p \in Prints : /\ IsFiniteSet(Tried(p)) /\ rgCount[p] \in Nat
                      /\ Cardinality(Tried(p)) <= rgCount[p]
                      /\ Cardinality(Tried(p)) < RepeatLimit

GuardInv ==
    /\ DOMAIN rgPrint \subseteq GuardCalls /\ \A c \in DOMAIN rgPrint : rgPrint[c] \in Prints
    /\ rgStage \in [GuardCalls -> {"new", "run", "replayed", "told", "abort"} \cup Settled]
    /\ \A c \in GuardCalls : rgStage[c] = "new" <=> c \notin DOMAIN rgPrint
    /\ rgCount \in [Prints -> Nat] /\ rgLast \in [Prints -> GuardCalls \cup {0}]
    /\ LastIsSettled
    /\ TriesAreCounted

LEMMA GuardInitially == GuardInit => GuardInv
<1> SUFFICES ASSUME GuardInit PROVE GuardInv
  OBVIOUS
<1>1. rgPrint = <<>> /\ DOMAIN rgPrint = {}
  BY DEF GuardInit
<1>2. \A p \in Prints : Tried(p) = {}
  BY <1>1 DEF Tried
<1>3. TriesAreCounted
  <2>1. IsFiniteSet({}) /\ Cardinality({}) = 0
    BY FS_EmptySet
  <2>2. RepeatLimit \in Nat /\ 0 < RepeatLimit
    BY ToolCallsAssumption
  <2>3. \A p \in Prints : rgCount[p] = 0
    BY DEF GuardInit
  <2> SUFFICES ASSUME NEW p \in Prints
               PROVE  /\ IsFiniteSet(Tried(p)) /\ rgCount[p] \in Nat
                      /\ Cardinality(Tried(p)) <= rgCount[p]
                      /\ Cardinality(Tried(p)) < RepeatLimit
    BY DEF TriesAreCounted
  <2>4. Tried(p) = {} /\ rgCount[p] = 0
    BY <1>2, <2>3
  <2> QED BY <2>1, <2>2, <2>4
<1> QED BY <1>1, <1>3 DEF GuardInv, GuardInit, LastIsSettled

\* A call that is guarded has had no print, and gets the one it comes with.
LEMMA GuardedPrints ==
    ASSUME GuardInv, NEW c \in GuardCalls, NEW p \in Prints, Guarded(c, p)
    PROVE  /\ c \notin DOMAIN rgPrint /\ DOMAIN rgPrint' = DOMAIN rgPrint \cup {c}
           /\ rgPrint'[c] = p /\ \A d \in DOMAIN rgPrint : rgPrint'[d] = rgPrint[d]
<1>1. rgStage[c] = "new"
  BY DEF Guarded
<1>2. c \notin DOMAIN rgPrint
  BY <1>1 DEF GuardInv
<1>3. rgPrint' = [d \in DOMAIN rgPrint \cup {c} |-> IF d = c THEN p ELSE rgPrint[d]]
  BY DEF Guarded
<1> QED BY <1>2, <1>3

\* One attempt more, for one fingerprint at most, and then still below the limit.
LEMMA TryIsCounted ==
    ASSUME GuardInv, NEW p \in Prints, NEW c, rgCount' = [rgCount EXCEPT ![p] = @ + 1],
           \A q \in Prints : Tried(q)' = Tried(q) \/ (q = p /\ Tried(q)' = Tried(q) \cup {c}
                                                   /\ rgCount'[q] < RepeatLimit)
    PROVE  TriesAreCounted'
<1> SUFFICES ASSUME NEW q \in Prints
             PROVE  /\ IsFiniteSet(Tried(q)') /\ rgCount'[q] \in Nat
                    /\ Cardinality(Tried(q)') <= rgCount'[q]
                    /\ Cardinality(Tried(q)') < RepeatLimit
  BY DEF TriesAreCounted
<1>1. /\ IsFiniteSet(Tried(q)) /\ rgCount[q] \in Nat
      /\ Cardinality(Tried(q)) <= rgCount[q] /\ Cardinality(Tried(q)) < RepeatLimit
  BY DEF GuardInv, TriesAreCounted
<1>2. Cardinality(Tried(q)) \in Nat /\ RepeatLimit \in Nat
  BY <1>1, FS_CardinalityType, ToolCallsAssumption
<1>3. /\ q = p => rgCount'[q] = rgCount[q] + 1
      /\ q # p => rgCount'[q] = rgCount[q]
  BY DEF GuardInv
<1>4. CASE Tried(q)' = Tried(q)
  BY <1>1, <1>2, <1>3, <1>4
<1>5. CASE q = p /\ Tried(q)' = Tried(q) \cup {c} /\ rgCount'[q] < RepeatLimit
  <2>1. /\ IsFiniteSet(Tried(q)')
        /\ \/ Cardinality(Tried(q)') = Cardinality(Tried(q))
           \/ Cardinality(Tried(q)') = Cardinality(Tried(q)) + 1
    BY <1>1, <1>5, FS_AddElement
  <2> QED BY <1>1, <1>2, <1>3, <1>5, <2>1
<1> QED BY <1>4, <1>5

LEMMA GuardStep == GuardInv /\ [GuardNext]_guardVars => GuardInv'
<1> SUFFICES ASSUME GuardInv, [GuardNext]_guardVars PROVE GuardInv'
  OBVIOUS
<1>1. CASE UNCHANGED guardVars
  BY <1>1 DEF guardVars, GuardInv, LastIsSettled, TriesAreCounted, Tried
<1>2. ASSUME NEW c \in GuardCalls, NEW p \in Prints,
             StartCall(c, p) \/ Remind(c, p) \/ Escalate(c, p)
      PROVE  GuardInv'
  <2>1. /\ Guarded(c, p)
        /\ c \notin DOMAIN rgPrint /\ DOMAIN rgPrint' = DOMAIN rgPrint \cup {c}
        /\ rgPrint'[c] = p /\ \A d \in DOMAIN rgPrint : rgPrint'[d] = rgPrint[d]
    BY <1>2, GuardedPrints DEF StartCall, Remind, Escalate
  <2>2. PICK stage \in {"run", "replayed", "told", "abort"} :
          /\ rgStage' = [rgStage EXCEPT ![c] = stage]
          /\ stage = "run" => rgCount'[p] < RepeatLimit
    BY <1>2 DEF StartCall, Remind, Escalate
  <2>3. /\ rgStage' \in [GuardCalls -> {"new", "run", "replayed", "told", "abort"} \cup Settled]
        /\ rgStage'[c] = stage /\ \A d \in GuardCalls \ {c} : rgStage'[d] = rgStage[d]
    BY <2>2 DEF GuardInv
  <2>4. /\ rgCount' = [rgCount EXCEPT ![p] = @ + 1]
        /\ UNCHANGED <<rgError, rgResult, rgLast>>
    BY <2>1 DEF Guarded
  <2>5. LastIsSettled'
    <3> SUFFICES ASSUME NEW q \in Prints, rgLast[q] # 0
                 PROVE  /\ rgLast[q] \in DOMAIN rgPrint' /\ rgPrint'[rgLast[q]] = q
                        /\ rgStage'[rgLast[q]] = rgStage[rgLast[q]]
      BY <2>4 DEF GuardInv, LastIsSettled
    <3>1. rgLast[q] \in DOMAIN rgPrint /\ rgPrint[rgLast[q]] = q
      BY DEF GuardInv, LastIsSettled
    <3>2. rgLast[q] # c /\ rgLast[q] \in GuardCalls
      BY <2>1, <3>1 DEF GuardInv
    <3> QED BY <2>1, <2>3, <3>1, <3>2
  <2>6. TriesAreCounted'
    <3>1. ASSUME NEW q \in Prints
          PROVE  \/ Tried(q)' = Tried(q)
                 \/ q = p /\ Tried(q)' = Tried(q) \cup {c} /\ rgCount'[q] < RepeatLimit
      <4>1. \A d \in DOMAIN rgPrint : d \in Tried(q)' <=> d \in Tried(q)
        BY <2>1, <2>3 DEF Tried, GuardInv
      <4>2. c \notin Tried(q) /\ (c \in Tried(q)' <=> q = p /\ stage = "run")
        BY <2>1, <2>3 DEF Tried, Settled
      <4>3. \A d \in Tried(q)' : d \in DOMAIN rgPrint \cup {c}
        BY <2>1 DEF Tried
      <4>4. \A d \in Tried(q) : d \in DOMAIN rgPrint
        BY DEF Tried
      <4> QED BY <2>2, <4>1, <4>2, <4>3, <4>4
    <3> QED BY <2>4, <3>1, TryIsCounted
  <2>7. \A d \in GuardCalls : rgStage'[d] = "new" <=> d \notin DOMAIN rgPrint'
    BY <2>1, <2>3 DEF GuardInv
  <2>8. rgCount' \in [Prints -> Nat]
    BY <2>4 DEF GuardInv
  <2>9. DOMAIN rgPrint' \subseteq GuardCalls /\ \A d \in DOMAIN rgPrint' : rgPrint'[d] \in Prints
    BY <2>1 DEF GuardInv
  <2> QED BY <2>3, <2>4, <2>5, <2>6, <2>7, <2>8, <2>9 DEF GuardInv
<1>3. ASSUME NEW c \in GuardCalls, CallFails(c) \/ CallSucceeds(c)
      PROVE  GuardInv'
  <2> DEFINE p == rgPrint[c]
  <2>1. rgStage[c] = "run" /\ c \in DOMAIN rgPrint /\ p \in Prints
    BY <1>3 DEF CallFails, CallSucceeds, GuardInv
  <2>2. PICK stage \in Settled :
          /\ rgStage' = [rgStage EXCEPT ![c] = stage]
          /\ rgLast' = [rgLast EXCEPT ![p] = c]
          /\ UNCHANGED <<rgPrint, rgCount>>
          /\ IF stage = "ok"
             THEN /\ rgError' = rgError \ {p}
                  /\ rgResult' = [q \in DOMAIN rgResult \cup {p} |->
                                    IF q = p THEN c ELSE rgResult[q]]
             ELSE rgError' = rgError \cup {p} /\ UNCHANGED rgResult
    BY <1>3 DEF CallFails, CallSucceeds, ErrorsAfter, Settled
  <2>3. /\ rgStage' \in [GuardCalls -> {"new", "run", "replayed", "told", "abort"} \cup Settled]
        /\ rgStage'[c] = stage /\ \A d \in GuardCalls \ {c} : rgStage'[d] = rgStage[d]
    BY <2>2 DEF GuardInv
  <2>4. /\ rgLast' \in [Prints -> GuardCalls \cup {0}]
        /\ rgLast'[p] = c /\ \A q \in Prints \ {p} : rgLast'[q] = rgLast[q]
    BY <2>1, <2>2 DEF GuardInv
  <2>5. LastIsSettled'
    <3> SUFFICES ASSUME NEW q \in Prints, rgLast'[q] # 0
                 PROVE  /\ rgLast'[q] \in DOMAIN rgPrint /\ rgPrint[rgLast'[q]] = q
                        /\ rgStage'[rgLast'[q]] \in Settled
                        /\ rgStage'[rgLast'[q]] = "ok" =>
                             q \notin rgError' /\ q \in DOMAIN rgResult' /\ rgResult'[q] = rgLast'[q]
                        /\ rgStage'[rgLast'[q]] # "ok" => q \in rgError'
      BY <2>2 DEF LastIsSettled
    <3>1. CASE q = p
      BY <2>1, <2>2, <2>3, <2>4, <3>1
    <3>2. CASE q # p
      <4>1. /\ rgLast'[q] = rgLast[q] /\ rgLast[q] \in DOMAIN rgPrint /\ rgPrint[rgLast[q]] = q
            /\ rgStage[rgLast[q]] \in Settled
            /\ rgStage[rgLast[q]] = "ok" =>
                 q \notin rgError /\ q \in DOMAIN rgResult /\ rgResult[q] = rgLast[q]
            /\ rgStage[rgLast[q]] # "ok" => q \in rgError
        BY <2>4, <3>2 DEF GuardInv, LastIsSettled
      <4>2. rgLast[q] # c /\ rgLast[q] \in GuardCalls
        BY <3>2, <4>1 DEF GuardInv
      <4>3. rgStage'[rgLast[q]] = rgStage[rgLast[q]] /\ (q \in rgError' <=> q \in rgError)
        BY <2>2, <2>3, <3>2, <4>2
      <4>4. q \in DOMAIN rgResult => q \in DOMAIN rgResult' /\ rgResult'[q] = rgResult[q]
        BY <2>2, <3>2
      <4> QED BY <4>1, <4>3, <4>4
    <3> QED BY <3>1, <3>2
  <2>6. TriesAreCounted'
    <3>1. \A q \in Prints, d \in DOMAIN rgPrint : d \in Tried(q)' <=> d \in Tried(q)
      BY <2>1, <2>2, <2>3 DEF Tried, GuardInv
    <3>2. \A q \in Prints : Tried(q)' = Tried(q)
      BY <2>2, <3>1 DEF Tried
    <3> QED BY <2>2, <3>2 DEF GuardInv, TriesAreCounted
  <2>7. \A d \in GuardCalls : rgStage'[d] = "new" <=> d \notin DOMAIN rgPrint'
    BY <2>1, <2>2, <2>3 DEF GuardInv, Settled
  <2> QED BY <2>2, <2>3, <2>4, <2>5, <2>6, <2>7 DEF GuardInv
<1> QED BY <1>1, <1>2, <1>3 DEF GuardNext

\* For any number of calls, fingerprints and any limit, in whatever order the calls of a
\* pass end: what the guard would report is the outcome of the attempt settled last, and
\* no fingerprint is tried as often as the limit says (loop.py:2534).
THEOREM RepeatsAreTold == GuardSpec => []GuardTellsTheLatest
<1>1. GuardInv => GuardTellsTheLatest
  BY DEF GuardInv, LastIsSettled, TriesAreCounted, Tried, GuardTellsTheLatest
<1> QED BY <1>1, GuardInitially, GuardStep, PTL DEF GuardSpec

----------------------------------------------------------------------------
(***************************************************************************)
(* Consent                                                                 *)
(***************************************************************************)
ConsentSpec == ConsentInit /\ [][ConsentNext]_consentVars

Built(l) == cnLoop[l] # <<>>

\* A set belongs to one conversation: that of the entry of the map, and of every loop
\* that holds it, whether the map still knows it or not.
SetsAreOfOneTalk ==
    /\ \A t, u \in DOMAIN cnSet : cnSet[t] = cnSet[u] => t = u
    /\ \A l \in Loops, t \in DOMAIN cnSet :
         Built(l) /\ cnLoop[l].set = cnSet[t] => cnLoop[l].talk = t
    /\ \A l, m \in Loops :
         Built(l) /\ Built(m) /\ cnLoop[l].set = cnLoop[m].set => cnLoop[l].talk = cnLoop[m].talk

\* What a set or a gate holds, the user has said yes to.
SetsHoldAnswers ==
    /\ \A t \in DOMAIN cnSet : "egress" \in cnShared[cnSet[t]] => t \in cnEgressOK
    /\ \A l \in Loops : Built(l) =>
         /\ "egress" \in cnShared[cnLoop[l].set] => cnLoop[l].talk \in cnEgressOK
         /\ "write" \in cnLoop[l].session => l \in cnWriteOK

ConsentInv ==
    /\ cnMap \in Seq(DOMAIN cnSet) /\ cnShared \in Seq(SUBSET Categories)
    /\ \A t \in DOMAIN cnSet : cnSet[t] \in 1..Len(cnShared)
    /\ DOMAIN cnLoop = Loops
    /\ \A l \in Loops : Built(l) =>
         cnLoop[l] \in [talk : Talks, set : 1..Len(cnShared), session : SUBSET Categories]
    /\ SetsAreOfOneTalk
    /\ SetsHoldAnswers

LEMMA ConsentInitially == ConsentInit => ConsentInv
<1> SUFFICES ASSUME ConsentInit PROVE ConsentInv
  OBVIOUS
<1>1. cnMap = <<>> /\ DOMAIN cnSet = {} /\ cnShared = <<>>
  BY DEF ConsentInit
<1>2. DOMAIN cnLoop = Loops /\ \A l \in Loops : ~Built(l)
  BY DEF ConsentInit, Built
<1> QED BY <1>1, <1>2, EmptySeq DEF ConsentInv, SetsAreOfOneTalk, SetsHoldAnswers

\* A loop is given the set of its conversation, or a new one.
LEMMA BuildKeeps ==
    ASSUME ConsentInv, NEW l \in Loops, NEW t \in Talks, BuildLoop(l, t)
    PROVE  ConsentInv'
<1> DEFINE rest == RemoveFirst(cnMap, t)
           order == Append(rest, t)
           kept == IF Len(order) > MaxTalks THEN Tail(order) ELSE order
           held == Contains(cnMap, t)
           n == IF held THEN cnSet[t] ELSE Len(cnShared) + 1
           D == DOMAIN cnSet
           loop == [talk |-> t, set |-> n, session |-> {}]
<1>1. /\ cnMap' = kept
      /\ cnSet' = [x \in Range(kept) |-> IF x = t THEN n ELSE cnSet[x]]
      /\ cnShared' = IF held THEN cnShared ELSE Append(cnShared, {})
      /\ cnLoop' = [cnLoop EXCEPT ![l] = loop]
      /\ UNCHANGED <<cnWriteOK, cnEgressOK>>
  BY DEF BuildLoop, ConsentKey
<1>2. kept \in Seq(D \cup {t})
  <2>1. rest \in Seq(D)
    BY OthersStay DEF ConsentInv
  <2> HIDE DEF rest, D
  <2>2. order \in Seq(D \cup {t})
    <3>1. rest \in Seq(D \cup {t})
      <4>1. \A i \in 1..Len(rest) : rest[i] \in D \cup {t}
        BY <2>1
      <4> QED BY <2>1, <4>1
    <3> QED BY <3>1
  <2>3. order # <<>>
    <3>1. Len(order) = Len(rest) + 1 /\ Len(rest) \in Nat
      BY <2>1
    <3> HIDE DEF order
    <3> QED BY <3>1
  <2> HIDE DEF order
  <2> QED BY <2>2, <2>3
<1> HIDE DEF kept, rest, order
<1>3. /\ DOMAIN cnSet' = Range(kept) /\ kept \in Seq(DOMAIN cnSet')
      /\ \A x \in DOMAIN cnSet' : \/ x = t /\ cnSet'[x] = n
                                  \/ x # t /\ x \in D /\ cnSet'[x] = cnSet[x]
  <2>1. DOMAIN cnSet' = Range(kept)
    BY <1>1
  <2>2. kept \in Seq(Range(kept)) /\ \A x \in Range(kept) : x \in D \cup {t}
    BY <1>2 DEF Range
  <2> HIDE DEF D, n
  <2>3. \A x \in Range(kept) : cnSet'[x] = IF x = t THEN n ELSE cnSet[x]
    BY <1>1
  <2> QED BY <2>1, <2>2, <2>3
<1>4. held => t \in D
  <2>1. cnMap \in Seq(D)
    BY DEF ConsentInv
  <2> HIDE DEF D
  <2> QED BY <2>1 DEF Contains
<1>5. /\ cnShared' \in Seq(SUBSET Categories) /\ Len(cnShared) \in Nat
      /\ \A i \in 1..Len(cnShared) : i \in 1..Len(cnShared') /\ cnShared'[i] = cnShared[i]
      /\ n \in 1..Len(cnShared')
      /\ ~held => n \notin 1..Len(cnShared) /\ cnShared'[n] = {}
  <2>1. cnShared \in Seq(SUBSET Categories) /\ Len(cnShared) \in Nat
    BY DEF ConsentInv
  <2>2. CASE held
    <3>1. n \in 1..Len(cnShared)
      BY <1>4, <2>2 DEF ConsentInv
    <3> HIDE DEF n
    <3> QED BY <1>1, <2>1, <2>2, <3>1
  <2>3. CASE ~held
    <3>1. n = Len(cnShared) + 1 /\ cnShared' = Append(cnShared, {})
      BY <1>1, <2>3
    <3>2. {} \in SUBSET Categories
      OBVIOUS
    <3> HIDE DEF n, held
    <3>3. /\ cnShared' \in Seq(SUBSET Categories) /\ Len(cnShared') = Len(cnShared) + 1
          /\ \A i \in 1..Len(cnShared) : cnShared'[i] = cnShared[i]
          /\ cnShared'[Len(cnShared) + 1] = {}
      BY <2>1, <3>1, <3>2, AppendProperties
    <3> QED BY <2>1, <3>1, <3>3
  <2> QED BY <2>2, <2>3
<1>6. /\ DOMAIN cnLoop' = Loops /\ cnLoop'[l] = loop
      /\ \A m \in Loops \ {l} : cnLoop'[m] = cnLoop[m]
  BY <1>1 DEF ConsentInv
<1>7. /\ \A x \in D : x # t => cnSet[x] # n
      /\ \A m \in Loops : Built(m) /\ cnLoop[m].set = n => cnLoop[m].talk = t
      /\ "egress" \in cnShared'[n] => t \in cnEgressOK
  <2>1. CASE held
    <3>1. n = cnSet[t] /\ n \in 1..Len(cnShared)
      BY <1>4, <2>1 DEF ConsentInv
    <3>2. cnShared'[n] = cnShared[n]
      BY <1>5, <3>1
    <3> QED BY <1>4, <3>1, <3>2 DEF ConsentInv, SetsAreOfOneTalk, SetsHoldAnswers
  <2>2. CASE ~held
    <3>1. \A x \in D : cnSet[x] \in 1..Len(cnShared)
      BY DEF ConsentInv
    <3>2. \A m \in Loops : Built(m) => cnLoop[m].set \in 1..Len(cnShared)
      BY DEF ConsentInv
    <3> HIDE DEF D, n, held
    <3> QED BY <1>5, <2>2, <3>1, <3>2
  <2> QED BY <2>1, <2>2
<1>8. loop \in [talk : Talks, set : 1..Len(cnShared'), session : SUBSET Categories]
  BY <1>5
<1>9. loop.talk = t /\ loop.set = n /\ loop.session = {}
  OBVIOUS
<1> DEFINE of(m) == cnLoop[m]
<1> HIDE DEF n, held, loop, D
<1>10. \A m \in Loops : Built(m)' =>
         \/ m = l /\ cnLoop'[m] = loop
         \/ /\ m # l /\ cnLoop'[m] = cnLoop[m] /\ Built(m)
            /\ cnLoop[m] \in [talk : Talks, set : 1..Len(cnShared), session : SUBSET Categories]
  BY <1>6 DEF Built, ConsentInv
<1>11. \A m \in Loops : Built(m)' =>
         cnLoop'[m] \in [talk : Talks, set : 1..Len(cnShared'), session : SUBSET Categories]
  BY <1>5, <1>8, <1>10
<1>12. SetsAreOfOneTalk'
  <2>1. \A x, y \in DOMAIN cnSet' : cnSet'[x] = cnSet'[y] => x = y
    BY <1>3, <1>7 DEF ConsentInv, SetsAreOfOneTalk, D
  <2>2. \A m \in Loops, x \in DOMAIN cnSet' :
          Built(m)' /\ cnLoop'[m].set = cnSet'[x] => cnLoop'[m].talk = x
    BY <1>3, <1>7, <1>9, <1>10 DEF ConsentInv, SetsAreOfOneTalk, D
  <2>3. \A m, k \in Loops :
          Built(m)' /\ Built(k)' /\ cnLoop'[m].set = cnLoop'[k].set
          => cnLoop'[m].talk = cnLoop'[k].talk
    BY <1>7, <1>9, <1>10 DEF ConsentInv, SetsAreOfOneTalk
  <2> QED BY <2>1, <2>2, <2>3 DEF SetsAreOfOneTalk
<1>13. SetsHoldAnswers'
  <2>1. ASSUME NEW x \in DOMAIN cnSet', "egress" \in cnShared'[cnSet'[x]]
        PROVE  x \in cnEgressOK
    <3>1. CASE x = t
      BY <1>3, <1>7, <2>1, <3>1
    <3>2. CASE x # t
      <4>1. x \in DOMAIN cnSet /\ cnSet'[x] = cnSet[x] /\ cnSet[x] \in 1..Len(cnShared)
        BY <1>3, <3>2 DEF D, ConsentInv
      <4> QED BY <1>5, <2>1, <4>1 DEF ConsentInv, SetsHoldAnswers
    <3> QED BY <3>1, <3>2
  <2>2. ASSUME NEW m \in Loops, Built(m)'
        PROVE  /\ "egress" \in cnShared'[cnLoop'[m].set] => cnLoop'[m].talk \in cnEgressOK
               /\ "write" \in cnLoop'[m].session => m \in cnWriteOK
    <3>1. CASE m = l /\ cnLoop'[m] = loop
      BY <1>7, <1>9, <3>1
    <3>2. CASE cnLoop'[m] = cnLoop[m] /\ Built(m)
      <4>1. cnLoop[m].set \in 1..Len(cnShared)
        BY <3>2 DEF ConsentInv
      <4> QED BY <1>5, <3>2, <4>1 DEF ConsentInv, SetsHoldAnswers
    <3> QED BY <1>10, <2>2, <3>1, <3>2
  <2> QED BY <1>1, <2>1, <2>2 DEF SetsHoldAnswers
<1>14. \A x \in DOMAIN cnSet' : cnSet'[x] \in 1..Len(cnShared')
  BY <1>3, <1>5 DEF ConsentInv, D
<1> QED BY <1>1, <1>3, <1>5, <1>6, <1>11, <1>12, <1>13, <1>14 DEF ConsentInv

\* An answer is kept where it was asked for.
LEMMA ResolveKeeps ==
    ASSUME ConsentInv, NEW l \in Loops, NEW k \in Looks, Resolve(l, k)
    PROVE  ConsentInv'
<1>1. /\ Built(l) /\ DOMAIN cnLoop = Loops /\ UNCHANGED <<cnMap, cnSet>>
      /\ cnLoop[l] \in [talk : Talks, set : 1..Len(cnShared), session : SUBSET Categories]
  BY DEF Resolve, Built, ConsentInv
<1>2. CASE k.write
  <2>1. /\ cnLoop' = [cnLoop EXCEPT ![l].session = @ \cup {"write"}]
        /\ cnWriteOK' = cnWriteOK \cup {l} /\ UNCHANGED <<cnShared, cnEgressOK>>
    BY <1>2 DEF Resolve
  <2>2. /\ cnLoop'[l] \in [talk : Talks, set : 1..Len(cnShared), session : SUBSET Categories]
        /\ cnLoop'[l].talk = cnLoop[l].talk /\ cnLoop'[l].set = cnLoop[l].set
    BY <1>1, <2>1 DEF Categories
  <2>3. DOMAIN cnLoop' = Loops /\ \A m \in Loops \ {l} : cnLoop'[m] = cnLoop[m]
    BY <1>1, <2>1
  <2>4. \A m \in Loops : Built(m)' =>
          /\ Built(m) /\ cnLoop'[m].talk = cnLoop[m].talk /\ cnLoop'[m].set = cnLoop[m].set
          /\ m = l \/ cnLoop'[m] = cnLoop[m]
    BY <1>1, <2>2, <2>3 DEF Built
  <2>5. SetsAreOfOneTalk' /\ SetsHoldAnswers'
    BY <1>1, <2>1, <2>4 DEF ConsentInv, SetsAreOfOneTalk, SetsHoldAnswers
  <2>6. \A m \in Loops : Built(m)' =>
          cnLoop'[m] \in [talk : Talks, set : 1..Len(cnShared), session : SUBSET Categories]
    BY <2>2, <2>4 DEF ConsentInv
  <2> QED BY <1>1, <2>1, <2>3, <2>5, <2>6 DEF ConsentInv
<1>3. CASE ~k.write
  <2> DEFINE n == cnLoop[l].set
             talk == cnLoop[l].talk
  <2>1. /\ cnShared' = [cnShared EXCEPT ![n] = @ \cup {"egress"}]
        /\ cnEgressOK' = cnEgressOK \cup {talk} /\ UNCHANGED <<cnLoop, cnWriteOK>>
    BY <1>3 DEF Resolve
  <2>2. n \in 1..Len(cnShared) /\ cnShared \in Seq(SUBSET Categories)
    BY <1>1 DEF ConsentInv
  <2>3. /\ cnShared' \in Seq(SUBSET Categories) /\ Len(cnShared') = Len(cnShared)
        /\ \A i \in 1..Len(cnShared) : i # n => cnShared'[i] = cnShared[i]
    <3> HIDE DEF n
    <3> QED BY <2>1, <2>2 DEF Categories
  <2>4. /\ \A t \in DOMAIN cnSet : cnSet[t] \in 1..Len(cnShared) /\ (cnSet[t] = n => t = talk)
        /\ \A m \in Loops : Built(m) => /\ cnLoop[m].set \in 1..Len(cnShared)
                                        /\ cnLoop[m].set = n => cnLoop[m].talk = talk
    BY <1>1 DEF ConsentInv, SetsAreOfOneTalk
  <2>5. SetsHoldAnswers'
    BY <1>1, <2>1, <2>3, <2>4 DEF ConsentInv, SetsHoldAnswers, Built
  <2>6. SetsAreOfOneTalk'
    BY <1>1, <2>1 DEF ConsentInv, SetsAreOfOneTalk, Built
  <2> QED BY <1>1, <2>1, <2>3, <2>5, <2>6 DEF ConsentInv, Built
<1> QED BY <1>2, <1>3

LEMMA ConsentStep == ConsentInv /\ [ConsentNext]_consentVars => ConsentInv'
<1> SUFFICES ASSUME ConsentInv, [ConsentNext]_consentVars PROVE ConsentInv'
  OBVIOUS
<1>1. CASE UNCHANGED consentVars
  BY <1>1 DEF consentVars, ConsentInv, SetsAreOfOneTalk, SetsHoldAnswers, Built
<1>2. ASSUME NEW l \in Loops, DropLoop(l)
      PROVE  ConsentInv'
  <2>1. /\ cnLoop' = [cnLoop EXCEPT ![l] = <<>>] /\ cnWriteOK' = cnWriteOK \ {l}
        /\ UNCHANGED <<cnMap, cnSet, cnShared, cnEgressOK>>
    BY <1>2 DEF DropLoop
  <2>2. DOMAIN cnLoop' = Loops /\ ~Built(l)' /\ \A m \in Loops \ {l} : cnLoop'[m] = cnLoop[m]
    BY <2>1 DEF ConsentInv, Built
  <2>3. \A m \in Loops : Built(m)' => m # l /\ Built(m) /\ cnLoop'[m] = cnLoop[m]
    BY <2>2 DEF Built
  <2> QED BY <2>1, <2>2, <2>3 DEF ConsentInv, SetsAreOfOneTalk, SetsHoldAnswers
<1> QED BY <1>1, <1>2, BuildKeeps, ResolveKeeps DEF ConsentNext

\* What decide allows: never what a deny rule or the cache forbids, and unasked only
\* what the gate or the conversation's set holds a yes for.
LEMMA AllowedUnasked ==
    ASSUME NEW l, NEW k \in Looks, Verdict(l, k) = "allow"
    PROVE  /\ ~k.denied
           /\ k.write => ~k.cache /\ (k.output \/ "write" \in cnLoop[l].session)
           /\ ~k.write /\ k.egress => "egress" \in cnShared[cnLoop[l].set]
<1>1. CASE k.denied \/ (k.write /\ k.cache)
  BY <1>1 DEF Verdict
<1>2. CASE ~k.denied /\ ~k.write
  BY <1>2 DEF Verdict
<1>3. CASE ~k.denied /\ k.write /\ ~k.cache
  BY <1>3 DEF Verdict
<1> QED BY <1>1, <1>2, <1>3

\* For any number of loops and conversations and any capacity of the map: outside auto
\* mode nothing runs unasked but what the user allowed in this session, or in this
\* conversation, and no consent reaches past a deny rule or the cache (api.py:596).
THEOREM ConsentStays == ConsentSpec => []ConsentStaysWhereGiven
<1>1. ConsentInv => ConsentStaysWhereGiven
  <2> SUFFICES ASSUME ConsentInv, NEW l \in Loops, cnLoop[l] # <<>>, NEW k \in Looks,
                      Verdict(l, k) = "allow"
               PROVE  /\ ~k.denied
                      /\ k.write => ~k.cache /\ (k.output \/ l \in cnWriteOK)
                      /\ ~k.write /\ k.egress => cnLoop[l].talk \in cnEgressOK
    BY DEF ConsentStaysWhereGiven
  <2>1. Built(l)
    BY DEF Built
  <2> QED BY <2>1, AllowedUnasked DEF ConsentInv, SetsHoldAnswers
<1> QED BY <1>1, ConsentInitially, ConsentStep, PTL DEF ConsentSpec

----------------------------------------------------------------------------
(***************************************************************************)
(* The shelf                                                               *)
(***************************************************************************)
ShelfSpec == ShelfInit /\ [][ShelfNext]_shelfVars

\* The offered tools are the residents and those of the newest activations, all of them
\* different, and the list says which activation it was.
ShelvedAre(active, order, log) ==
    LET newest == OldestShelved(log)..Len(log)
    IN /\ log \in Seq(Lazies)
       /\ active = Residents \cup {log[i] : i \in newest}
       /\ order = [n \in active |-> order[n]]
       /\ \A i \in newest : order[log[i]] = i

ShelfInv == shCap \in Nat /\ ShelvedAre(shActive, shOrder, shLog)

LEMMA ShelfInitially == ShelfInit => ShelfInv
<1> SUFFICES ASSUME ShelfInit PROVE ShelfInv
  OBVIOUS
<1>1. shLog \in Seq(Lazies) /\ Len(shLog) = 0 /\ shCap \in Nat
  BY ToolCallsAssumption DEF ShelfInit
<1>2. Cardinality(Residents) \in Nat
  BY FS_CardinalityType, ToolCallsAssumption
<1>3. OldestShelved(shLog) = 1
  BY <1>1, <1>2 DEF OldestShelved
<1>4. {shLog[i] : i \in 1..0} = {}
  OBVIOUS
<1> QED BY <1>1, <1>3, <1>4 DEF ShelfInit, ShelfInv, ShelvedAre

\* Where the newest activations begin, before and after one more.
LEMMA OneMore ==
    ASSUME shCap \in Nat, NEW log \in Seq(Lazies), NEW n \in Lazies
    PROVE  /\ Cardinality(Residents) \in Nat
           /\ OldestShelved(log) \in 1..(Len(log) + 1)
           /\ shCap = 0 => OldestShelved(log) = 1
           /\ OldestShelved(Append(log, n)) \in {OldestShelved(log), OldestShelved(log) + 1}
           /\ shCap # 0 =>
                (OldestShelved(Append(log, n)) = OldestShelved(log) <=>
                   Cardinality(Residents) + (Len(log) + 2 - OldestShelved(log)) <= shCap)
           /\ shCap # 0 /\ Cardinality(Residents) <= shCap =>
                Cardinality(Residents) + (Len(log) + 1 - OldestShelved(log)) <= shCap
           /\ shCap # 0 /\ Cardinality(Residents) > shCap =>
                OldestShelved(log) = Len(log) + 1
<1>1. Cardinality(Residents) \in Nat
  BY FS_CardinalityType, ToolCallsAssumption
<1>2. Len(log) \in Nat /\ Len(Append(log, n)) = Len(log) + 1
  OBVIOUS
<1> DEFINE residents == Cardinality(Residents)  k == Len(log)
           room == IF shCap = 0 THEN k ELSE IF shCap < residents THEN 0 ELSE shCap - residents
           room1 == IF shCap = 0 THEN k + 1 ELSE IF shCap < residents THEN 0 ELSE shCap - residents
           old == IF room < k THEN k - room + 1 ELSE 1
           new == IF room1 < k + 1 THEN k + 1 - room1 + 1 ELSE 1
<1>3. OldestShelved(log) = old /\ OldestShelved(Append(log, n)) = new
  <2>1. OldestShelved(log) = old
    BY DEF OldestShelved
  <2>2. OldestShelved(Append(log, n)) = new
    <3>1. Len(Append(log, n)) = k + 1
      BY <1>2
    <3>2. OldestShelved(Append(log, n)) =
            LET r == IF shCap = 0 THEN Len(Append(log, n))
                     ELSE IF shCap < residents THEN 0 ELSE shCap - residents
            IN IF r < Len(Append(log, n)) THEN Len(Append(log, n)) - r + 1 ELSE 1
      BY DEF OldestShelved
    <3>3. k \in Nat /\ residents \in Nat
      BY <1>1, <1>2
    <3> HIDE DEF k, residents
    <3>4. CASE shCap = 0
      BY <3>1, <3>2, <3>3, <3>4
    <3>5. CASE shCap # 0 /\ shCap < residents
      BY <3>1, <3>2, <3>3, <3>5
    <3>6. CASE shCap # 0 /\ ~(shCap < residents)
      BY <3>1, <3>2, <3>3, <3>6
    <3> QED BY <3>4, <3>5, <3>6
  <2> QED BY <2>1, <2>2
<1>4. residents \in Nat /\ k \in Nat
  BY <1>1, <1>2
<1> HIDE DEF residents, k
<1>5. /\ old \in 1..(k + 1) /\ new \in {old, old + 1}
      /\ shCap = 0 => old = 1
  BY <1>4
<1>6. /\ shCap # 0 => (new = old <=> residents + (k + 2 - old) <= shCap)
      /\ shCap # 0 /\ residents <= shCap => residents + (k + 1 - old) <= shCap
      /\ shCap # 0 /\ residents > shCap => old = k + 1
  BY <1>4
<1> HIDE DEF old, new
<1> QED BY <1>3, <1>4, <1>5, <1>6 DEF residents, k

\* How many tools there are on the shelf.
LEMMA ShelfSize ==
    ASSUME NEW log \in Seq(Lazies), NEW a \in 1..(Len(log) + 1),
           \A i, j \in a..Len(log) : i # j => log[i] # log[j]
    PROVE  /\ IsFiniteSet({log[i] : i \in a..Len(log)})
           /\ Cardinality({log[i] : i \in a..Len(log)}) = Len(log) + 1 - a
           /\ Cardinality(Residents \cup {log[i] : i \in a..Len(log)})
                = Cardinality(Residents) + (Len(log) + 1 - a)
<1> DEFINE I == a..Len(log)  S == {log[i] : i \in I}  f == [i \in I |-> log[i]]
<1>1. IsFiniteSet(I) /\ Cardinality(I) = Len(log) + 1 - a
  <2>1. a \in Int /\ Len(log) \in Int /\ a <= Len(log) + 1
    OBVIOUS
  <2>2. IsFiniteSet(I) /\ Cardinality(I) = IF a > Len(log) THEN 0 ELSE Len(log) - a + 1
    BY <2>1, FS_Interval
  <2> HIDE DEF I
  <2> QED BY <2>1, <2>2
<1>2. f \in Injection(I, S) /\ f \in Surjection(I, S)
  BY DEF Injection, Surjection, IsInjective
<1> HIDE DEF f, S, I
<1>3. IsFiniteSet(S) /\ Cardinality(S) = Cardinality(I)
  BY <1>1, <1>2, FS_Surjection
<1>4. Residents \cap S = {}
  BY ToolCallsAssumption, ElementOfSeq DEF S, I
<1>5. Cardinality(Residents \cap S) = 0
  BY <1>4, FS_EmptySet
<1>6. Cardinality(Residents) \in Nat
  BY FS_CardinalityType, ToolCallsAssumption
<1>7. Cardinality(Residents \cup S) = Cardinality(Residents) + Cardinality(S) - Cardinality(Residents \cap S)
  BY <1>3, FS_Union, ToolCallsAssumption
<1> QED BY <1>1, <1>3, <1>5, <1>6, <1>7 DEF S, I

\* The bound is kept by sending back the oldest of the newest, or all of them.
LEMMA ShelveKeeps ==
    ASSUME shCap \in Nat, NEW active, NEW order, NEW log, ShelvedAre(active, order, log),
           NEW n \in Lazies, n \notin active,
           NEW after, after = Shelve([active |-> active, order |-> order, log |-> log], n)
    PROVE  ShelvedAre(after.active, after.order, after.log)
<1> DEFINE old == OldestShelved(log)  log1 == Append(log, n)  last == Len(log) + 1
           active1 == active \cup {n}
           order1 == [m \in DOMAIN order \cup {n} |-> IF m = n THEN Len(log1) ELSE order[m]]
           over == Cardinality(active1) - shCap
           lazy == Lazies \cap DOMAIN order1 \cap active1
           gone == {m \in lazy : Cardinality({k \in lazy : order1[k] <= order1[m]}) <= over}
           before == [active |-> active1, order |-> order1, log |-> log1]
<1>1. /\ log \in Seq(Lazies) /\ log1 \in Seq(Lazies) /\ Len(log1) = last /\ Len(log) \in Nat
      /\ \A i \in 1..Len(log) : log1[i] = log[i]
      /\ log1[last] = n
  BY DEF ShelvedAre
<1>2. old \in 1..last
  BY OneMore, <1>1
<1>3. /\ active1 = Residents \cup {log1[i] : i \in old..last}
      /\ \A i \in old..last : log1[i] \in active1 /\ order1[log1[i]] = i
      /\ DOMAIN order1 = active1 /\ order1 = [m \in active1 |-> order1[m]]
  <2>1. \A i \in old..last : i = last \/ (i \in old..Len(log) /\ i \in 1..Len(log))
    BY <1>1, <1>2
  <2>2. last \in old..last /\ \A i \in old..Len(log) : i \in old..last /\ i \in 1..Len(log)
    BY <1>1, <1>2
  <2>3. active = Residents \cup {log[i] : i \in old..Len(log)} /\ DOMAIN order = active
    BY DEF ShelvedAre
  <2>4. \A i \in old..Len(log) : log1[i] = log[i] /\ log[i] \in active /\ order[log[i]] = i
    BY <1>1, <2>2, <2>3 DEF ShelvedAre
  <2>5. active1 = Residents \cup {log1[i] : i \in old..last}
    BY <1>1, <2>1, <2>2, <2>3, <2>4
  <2>6. \A i \in old..last : log1[i] \in active1 /\ order1[log1[i]] = i
    BY <1>1, <2>1, <2>3, <2>4
  <2> QED BY <2>3, <2>5, <2>6
<1> HIDE DEF log1, old, last, order1, active1
<1>4. Lazies \cap active1 = {log1[i] : i \in old..last}
  BY <1>1, <1>2, <1>3, ToolCallsAssumption, ElementOfSeq
<1>5. \A i, j \in old..last : i # j => log1[i] # log1[j]
  BY <1>3
<1>6. /\ IsFiniteSet(lazy) /\ Cardinality(lazy) = last + 1 - old
      /\ Cardinality(active1) = Cardinality(Residents) + (last + 1 - old)
  <2>1. old \in 1..(Len(log1) + 1) /\ lazy = {log1[i] : i \in old..Len(log1)}
    BY <1>1, <1>2, <1>3, <1>4
  <2>2. \A i, j \in old..Len(log1) : i # j => log1[i] # log1[j]
    BY <1>1, <1>5
  <2>3. active1 = Residents \cup {log1[i] : i \in old..Len(log1)}
    BY <1>1, <1>3
  <2> HIDE DEF lazy
  <2>4. /\ IsFiniteSet({log1[i] : i \in old..Len(log1)})
        /\ Cardinality({log1[i] : i \in old..Len(log1)}) = Len(log1) + 1 - old
        /\ Cardinality(Residents \cup {log1[i] : i \in old..Len(log1)})
             = Cardinality(Residents) + (Len(log1) + 1 - old)
    BY <1>1, <2>1, <2>2, ShelfSize
  <2> QED BY <1>1, <2>1, <2>3, <2>4
<1>7. after = Demote(before)
  BY DEF Shelve, log1, order1, active1
<1>8. Demote(before) = IF shCap = 0 \/ over <= 0 THEN before
                       ELSE [active |-> active1 \ gone,
                             order |-> [m \in active1 \ gone |-> order1[m]], log |-> log1]
  <2>1. before.active = active1 /\ before.order = order1 /\ before.log = log1
    OBVIOUS
  <2>2. DOMAIN order1 \ gone = active1 \ gone
    BY <1>3
  <2>3. Demote(before) = IF shCap = 0 \/ over <= 0 THEN before
          ELSE [active |-> active1 \ gone, log |-> log1,
                order |-> Restrict(order1, DOMAIN order1 \ gone)]
    BY <2>1 DEF Demote
  <2> HIDE DEF gone, over, before
  <2> QED BY <2>2, <2>3 DEF Restrict
<1> DEFINE new == OldestShelved(log1)
<1>9. /\ Cardinality(Residents) \in Nat
      /\ new \in {old, old + 1}
      /\ shCap = 0 => new = 1 /\ old = 1
      /\ shCap # 0 => (new = old <=> over <= 0)
      /\ shCap # 0 /\ Cardinality(Residents) <= shCap => over <= 1
      /\ shCap # 0 /\ Cardinality(Residents) > shCap => old = last
  <2>1. /\ Cardinality(Residents) \in Nat
        /\ new \in {old, old + 1}
        /\ shCap = 0 => old = 1
        /\ shCap # 0 => (new = old <=> Cardinality(Residents) + (Len(log) + 2 - old) <= shCap)
        /\ shCap # 0 /\ Cardinality(Residents) <= shCap =>
             Cardinality(Residents) + (Len(log) + 1 - old) <= shCap
        /\ shCap # 0 /\ Cardinality(Residents) > shCap => old = Len(log) + 1
    BY OneMore, <1>1 DEF old, log1
  <2>2. shCap = 0 => new = 1
    BY OneMore, <1>1
  <2>3. last = Len(log) + 1 /\ Len(log) \in Nat
    BY <1>1 DEF last
  <2>5. old \in Nat
    BY <1>2, <1>1
  <2>4. over = Cardinality(Residents) + (last + 1 - old) - shCap
    <3>1. Cardinality(active1) = Cardinality(Residents) + (last + 1 - old)
      BY <1>6
    <3> HIDE DEF active1
    <3> QED BY <2>1, <2>3, <2>5, <3>1, SMT DEF over
  <2> HIDE DEF new, over
  <2> QED BY <2>1, <2>2, <2>3, <2>4, <2>5
<1> HIDE DEF new
<1>10. CASE shCap = 0 \/ over <= 0
  <2>1. new = old
    BY <1>9, <1>10
  <2>2. after.active = active1 /\ after.order = order1 /\ after.log = log1
    BY <1>7, <1>8, <1>10
  <2>3. ShelvedAre(active1, order1, log1)
    BY <1>1, <1>3, <2>1 DEF ShelvedAre, new
  <2> QED BY <2>2, <2>3
<1>11. CASE ~(shCap = 0 \/ over <= 0)
  <2>1. new = old + 1
    BY <1>9, <1>11
  <2>2. gone = {log1[old]}
    <3>1. CASE Cardinality(Residents) <= shCap
      <4>1. over = 1 /\ old \in old..last
        BY <1>1, <1>2, <1>6, <1>9, <1>11, <3>1
      <4>2. {k \in lazy : order1[k] <= order1[log1[old]]} = {log1[old]}
        <5>1. \A k \in lazy : \E i \in old..last : k = log1[i] /\ order1[k] = i
          BY <1>3, <1>4
        <5>2. log1[old] \in lazy /\ order1[log1[old]] = old
          BY <1>3, <1>4, <4>1
        <5>3. \A i \in old..last : i <= old => i = old
          BY <1>1, <1>2
        <5>4. old <= old
          BY <1>1, <1>2
        <5> HIDE DEF lazy
        <5> QED BY <5>1, <5>2, <5>3, <5>4
      <4>3. ASSUME NEW i \in old..last, i # old
            PROVE  Cardinality({k \in lazy : order1[k] <= order1[log1[i]]}) > 1
        <5> DEFINE below == {k \in lazy : order1[k] <= order1[log1[i]]}
        <5>1. {log1[old], log1[i]} \subseteq below /\ log1[old] # log1[i]
          <6>1. log1[old] \in lazy /\ log1[i] \in lazy /\ log1[old] # log1[i]
            BY <1>3, <1>4, <1>5, <4>1, <4>3
          <6>2. order1[log1[old]] = old /\ order1[log1[i]] = i
            BY <1>3, <4>1
          <6>3. old <= i /\ i <= i
            BY <1>1, <1>2
          <6> HIDE DEF lazy
          <6> QED BY <6>1, <6>2, <6>3
        <5>2. IsFiniteSet(below) /\ Cardinality({log1[old], log1[i]}) = 2
          <6>1. IsFiniteSet(below)
            BY <1>6, FS_Subset
          <6>2. Cardinality({log1[old]} \cup {log1[i]}) = 2
            <7>1. IsFiniteSet({log1[old]}) /\ Cardinality({log1[old]}) = 1
              BY FS_Singleton
            <7>2. log1[i] \notin {log1[old]}
              BY <5>1
            <7>3. Cardinality({log1[old]} \cup {log1[i]}) = Cardinality({log1[old]}) + 1
              BY <7>1, <7>2, FS_AddElement
            <7> QED BY <7>1, <7>3
          <6>3. {log1[old]} \cup {log1[i]} = {log1[old], log1[i]}
            OBVIOUS
          <6> QED BY <6>1, <6>2, <6>3
        <5>3. Cardinality(below) \in Nat /\ 2 <= Cardinality(below)
          BY <5>1, <5>2, FS_Subset, FS_CardinalityType
        <5> QED BY <5>3
      <4>4. Cardinality({k \in lazy : order1[k] <= order1[log1[old]]}) = 1
        BY <4>2, FS_Singleton
      <4>5. log1[old] \in lazy /\ \A m \in lazy : \E i \in old..last : m = log1[i]
        BY <1>3, <1>4, <4>1
      <4>6. log1[old] \in gone
        <5>1. Cardinality({k \in lazy : order1[k] <= order1[log1[old]]}) <= over
          <6> HIDE DEF over, lazy
          <6> QED BY <4>1, <4>4
        <5> HIDE DEF lazy, over
        <5> QED BY <4>5, <5>1
      <4>7. \A i \in old..last : log1[i] \in gone => i = old
        <5> TAKE i \in old..last
        <5>1. CASE i # old
          <6>1. Cardinality({k \in lazy : order1[k] <= order1[log1[i]]}) > 1
            BY <4>3, <5>1
          <6>2. Cardinality({k \in lazy : order1[k] <= order1[log1[i]]}) \in Nat
            BY <1>6, FS_Subset, FS_CardinalityType
          <6>3. ~(Cardinality({k \in lazy : order1[k] <= order1[log1[i]]}) <= over)
            BY <4>1, <6>1, <6>2
          <6> QED BY <6>3
        <5> QED BY <5>1
      <4>8. gone \subseteq lazy
        OBVIOUS
      <4> HIDE DEF gone, lazy
      <4> QED BY <4>5, <4>6, <4>7, <4>8
    <3>2. CASE Cardinality(Residents) > shCap
      <4>1. old = last /\ Cardinality(lazy) = 1
        BY <1>1, <1>2, <1>6, <1>9, <1>11, <3>2
      <4>2. lazy = {log1[old]}
        BY <1>1, <1>3, <1>4, <4>1
      <4>3. over >= 1
        BY <1>6, <1>9, <1>11, <1>1, <4>1
      <4>4. {k \in lazy : order1[k] <= order1[log1[old]]} \in SUBSET lazy
        OBVIOUS
      <4>5. Cardinality({k \in lazy : order1[k] <= order1[log1[old]]}) <= over
        <5>1. Cardinality({k \in lazy : order1[k] <= order1[log1[old]]}) <= Cardinality(lazy)
          BY <1>6, <4>4, FS_Subset
        <5>2. Cardinality({k \in lazy : order1[k] <= order1[log1[old]]}) \in Nat
          BY <1>6, <4>4, FS_Subset, FS_CardinalityType
        <5>3. over \in Int
          BY <1>1, <1>2, <1>6, <1>9
        <5> HIDE DEF over
        <5> QED BY <4>1, <4>3, <5>1, <5>2, <5>3
      <4> QED BY <4>2, <4>5
    <3> QED BY <1>9, <3>1, <3>2
  <2>3. active1 \ gone = Residents \cup {log1[i] : i \in new..last}
    <3>1. \A i \in old..last : i = old \/ i \in new..last
      BY <1>1, <1>2, <2>1
    <3>2. \A i \in new..last : i \in old..last /\ i # old
      BY <1>1, <1>2, <2>1
    <3>3. old \in old..last
      BY <1>1, <1>2
    <3>4. log1[old] \in Lazies
      BY <1>4, <3>3
    <3>5. log1[old] \notin Residents
      BY <3>4, ToolCallsAssumption
    <3>6. \A i \in old..last : log1[i] = log1[old] <=> i = old
      BY <1>5, <3>3
    <3> HIDE DEF gone
    <3> QED BY <1>3, <2>2, <3>1, <3>2, <3>3, <3>5, <3>6
  <2>4. \A i \in new..last : i \in old..last /\ log1[i] \in active1 \ gone
    <3>1. \A i \in new..last : i \in old..last
      BY <1>1, <1>2, <2>1
    <3> QED BY <2>3, <3>1
  <2>5. after.active = active1 \ gone /\ after.log = log1
        /\ after.order = [m \in active1 \ gone |-> order1[m]]
    <3>1. after = [active |-> active1 \ gone, log |-> log1,
                   order |-> [m \in active1 \ gone |-> order1[m]]]
      BY <1>7, <1>8, <1>11
    <3> HIDE DEF gone
    <3> QED BY <3>1
  <2>6. ShelvedAre(active1 \ gone, [m \in active1 \ gone |-> order1[m]], log1)
    <3> DEFINE left == active1 \ gone  list == [m \in left |-> order1[m]]
    <3>1. list = [m \in left |-> list[m]]
      OBVIOUS
    <3>2. \A i \in new..last : list[log1[i]] = i
      BY <1>3, <2>4
    <3> HIDE DEF left, list
    <3>3. left = Residents \cup {log1[i] : i \in new..last}
      BY <2>3 DEF left
    <3>4. ShelvedAre(left, list, log1)
      <4> HIDE DEF left, list
      <4> QED BY <1>1, <3>1, <3>2, <3>3 DEF ShelvedAre, new
    <3>5. left = active1 \ gone /\ list = [m \in active1 \ gone |-> order1[m]]
      BY DEF left, list
    <3> HIDE DEF left, list, gone
    <3> QED BY <3>4, <3>5
  <2> QED BY <2>5, <2>6
<1> QED BY <1>10, <1>11

LEMMA ShelfStep == ShelfInv /\ [ShelfNext]_shelfVars => ShelfInv'
<1> SUFFICES ASSUME ShelfInv, [ShelfNext]_shelfVars PROVE ShelfInv'
  OBVIOUS
<1>1. ASSUME NEW shelf, shelf = [active |-> shelf.active, order |-> shelf.order, log |-> shelf.log],
             ShelvedAre(shelf.active, shelf.order, shelf.log), NEW n \in Residents \cup Lazies,
             NEW after, after = Shelve(shelf, n)
      PROVE  /\ ShelvedAre(after.active, after.order, after.log)
             /\ after = [active |-> after.active, order |-> after.order, log |-> after.log]
  <2>1. CASE n \in shelf.active
    BY <1>1, <2>1 DEF Shelve
  <2>2. CASE n \notin shelf.active
    <3>1. n \in Lazies
      BY <1>1, <2>2 DEF ShelvedAre
    <3>2. ShelvedAre(after.active, after.order, after.log)
      BY <1>1, <2>2, <3>1, ShelveKeeps DEF ShelfInv
    <3>3. after = [active |-> after.active, order |-> after.order, log |-> after.log]
      BY <1>1, <2>2 DEF Shelve, Demote
    <3> QED BY <3>2, <3>3
  <2> QED BY <2>1, <2>2
<1>2. ASSUME NEW n \in Residents \cup Lazies, Activate(n)
      PROVE  ShelfInv'
  <2>1. /\ ShelvedAre(Activated(Shelf, n).active, Activated(Shelf, n).order,
                       Activated(Shelf, n).log)
    <3>1. /\ ShelvedAre(Shelf.active, Shelf.order, Shelf.log)
          /\ Shelf = [active |-> Shelf.active, order |-> Shelf.order, log |-> Shelf.log]
      BY DEF ShelfInv, Shelf
    <3>2. Spawn \in Residents \cup Lazies
      BY ToolCallsAssumption
    <3> HIDE DEF Shelf
    <3>3. /\ ShelvedAre(Shelve(Shelf, n).active, Shelve(Shelf, n).order, Shelve(Shelf, n).log)
          /\ Shelve(Shelf, n) = [active |-> Shelve(Shelf, n).active,
                                 order |-> Shelve(Shelf, n).order, log |-> Shelve(Shelf, n).log]
      BY <1>1, <3>1
    <3> QED BY <1>1, <3>2, <3>3 DEF Activated
  <2> QED BY <1>2, <2>1 DEF Activate, ShelfInv, ShelvedAre, OldestShelved
<1>3. CASE UNCHANGED shelfVars
  BY <1>3 DEF ShelfInv, ShelvedAre, OldestShelved, shelfVars
<1> QED BY <1>2, <1>3 DEF ShelfNext

LEMMA ShelfIsTold == ShelfInv => ShelfHoldsNewest
<1> SUFFICES ASSUME ShelfInv PROVE ShelfHoldsNewest
  OBVIOUS
<1> DEFINE newest == OldestShelved(shLog)..Len(shLog)
<1>1. shActive = Residents \cup {shLog[i] : i \in newest} /\ shActive = DOMAIN shOrder
  BY DEF ShelfInv, ShelvedAre
<1>2. \A i \in newest : shOrder[shLog[i]] = i /\ i \in Int
  BY DEF ShelfInv, ShelvedAre
<1> HIDE DEF newest
<1>3. \A i, j \in newest : i < j => shOrder[shLog[i]] < shOrder[shLog[j]]
  BY <1>2
<1> QED BY <1>1, <1>3 DEF ShelfHoldsNewest, newest

\* The shelf always offers the residents and the lazy tools activated last, in their
\* order, as many as the bound leaves room for (tools/registry.py).
THEOREM ShelfOffersNewest == ShelfSpec => []ShelfHoldsNewest
<1>1. ShelfSpec => []ShelfInv
  BY ShelfInitially, ShelfStep, PTL DEF ShelfSpec
<1> QED BY <1>1, ShelfIsTold, PTL

\* What the loop remembers between calls is what the calls and answers so far were: the
\* tools it offers (registry.py), the outcomes the repeat guard reports (loop.py), the
\* consents of a session (api.py).
THEOREM CallsRemembered == ShelfSpec /\ GuardSpec /\ ConsentSpec => []CallsAreRememberedTrue
<1>1. ShelfHoldsNewest /\ GuardTellsTheLatest /\ ConsentStaysWhereGiven => CallsAreRememberedTrue
  BY DEF CallsAreRememberedTrue
<1> QED BY <1>1, ShelfOffersNewest, RepeatsAreTold, ConsentStays, PTL

----------------------------------------------------------------------------
(***************************************************************************)
(* The groups of a pool                                                    *)
(***************************************************************************)
PoolSpec == PoolInit /\ [][PoolNext]_poolVars

LEMMA CancelFactor ==
    ASSUME NEW x \in Int, NEW y \in Int, NEW d \in Nat \ {0}, x * d < y * d
    PROVE  x < y
<1>1. CASE x >= y
  <2>1. x - y \in Nat
    BY <1>1
  <2>2. (x - y) * d >= 0
    BY <2>1
  <2>3. (x - y) * d = x * d - y * d
    OBVIOUS
  <2> DEFINE a == x * d  b == y * d  c == (x - y) * d
  <2>4. a \in Int /\ b \in Int /\ c \in Int
    OBVIOUS
  <2>5. a < b /\ c >= 0 /\ c = a - b
    BY <2>2, <2>3
  <2> HIDE DEF a, b, c
  <2> QED BY <2>4, <2>5
<1>2. CASE x < y
  BY <1>2
<1> QED BY <1>1, <1>2

\* The quotient is the number whose product comes closest from below.
LEMMA Quotient ==
    ASSUME NEW a \in Int, NEW d \in Nat \ {0}
    PROVE  /\ a \div d \in Int
           /\ (a \div d) * d <= a /\ a < (a \div d) * d + d
OBVIOUS

LEMMA QuotientIs ==
    ASSUME NEW a \in Int, NEW d \in Nat \ {0}, NEW q \in Int, q * d <= a, a < q * d + d
    PROVE  a \div d = q
<1> DEFINE p == a \div d
<1>1. p \in Int /\ p * d <= a /\ a < p * d + d
  BY Quotient
<1> HIDE DEF p
<1>2. p * d < (q + 1) * d /\ q * d < (p + 1) * d
  <2> DEFINE pd == p * d  qd == q * d  pe == (p + 1) * d  qe == (q + 1) * d
  <2>1. pd \in Int /\ qd \in Int /\ pe = pd + d /\ qe = qd + d
    BY <1>1
  <2>2. pd <= a /\ a < pd + d /\ qd <= a /\ a < qd + d
    BY <1>1
  <2> HIDE DEF pd, qd, pe, qe
  <2>3. pd < qe /\ qd < pe
    BY <2>1, <2>2
  <2> QED BY <2>3 DEF pd, qd, pe, qe
<1>3. p < q + 1 /\ q < p + 1
  BY <1>1, <1>2, CancelFactor
<1> QED BY <1>1, <1>3 DEF p


\* Group g of n stocks ends at this rank.
CutAt(n, g) == (g * n) \div Groups

LEMMA CutsAreEven ==
    ASSUME NEW n \in Nat, Groups <= n, NEW g \in 1..Groups
    PROVE  /\ CutAt(n, g) \in Int /\ CutAt(n, g - 1) \in Nat /\ CutAt(n, g) <= n
           /\ n \div Groups \in Nat \ {0}
           /\ CutAt(n, g) - CutAt(n, g - 1) \in {n \div Groups, n \div Groups + 1}
<1> DEFINE d == Groups  hi == CutAt(n, g)  lo == CutAt(n, g - 1)  a == n \div Groups
           hid == hi * d  lod == lo * d  ad == a * d  top == g * n  low == (g - 1) * n
<1>1. d \in Nat \ {0} /\ g \in Int /\ n \in Int /\ d <= n
  BY PoolAssumption
<1>2. top \in Int /\ low \in Int /\ top = low + n
  BY <1>1
<1>3. /\ hi \in Int /\ lo \in Int /\ a \in Int
      /\ hid <= top /\ top < hid + d /\ lod <= low /\ low < lod + d
      /\ ad <= n /\ n < ad + d
  <2>1. hi \in Int /\ hid <= top /\ top < hid + d
    BY <1>1, <1>2, Quotient DEF CutAt
  <2>2. lo \in Int /\ lod <= low /\ low < lod + d
    BY <1>1, <1>2, Quotient DEF CutAt
  <2>3. a \in Int /\ ad <= n /\ n < ad + d
    BY <1>1, Quotient
  <2> QED BY <2>1, <2>2, <2>3
<1>4. low >= 0 /\ top <= n * d
  <2>1. g - 1 \in Nat /\ d - g \in Nat
    BY <1>1
  <2>2. (g - 1) * n >= 0 /\ (d - g) * n >= 0
    BY <2>1
  <2>3. (d - g) * n = n * d - g * n
    BY <1>1
  <2> QED BY <1>1, <2>2, <2>3
<1>5. /\ (lo + a) * d = lod + ad /\ (hi + 1) * d = hid + d /\ (lo + a + 2) * d = lod + ad + d + d
      /\ (a + 1) * d = ad + d /\ (lo + 1) * d = lod + d
      /\ hid \in Int /\ lod \in Int /\ ad \in Int /\ n * d \in Int
      /\ (n + 1) * d = n * d + d /\ 0 * d = 0 /\ 1 * d = d
  BY <1>1, <1>3
<1> HIDE DEF d, hi, lo, a, hid, lod, ad, top, low
<1>6. /\ (lo + a) * d < (hi + 1) * d
      /\ hi * d < (lo + a + 2) * d
      /\ 0 * d < (lo + 1) * d
      /\ hi * d < (n + 1) * d
      /\ 0 * d < (a + 1) * d
      /\ 1 * d < (a + 1) * d
  <2> DEFINE nd == n * d
  <2>1. nd \in Int /\ top <= nd
    BY <1>4, <1>5
  <2>2. hi * d = hid
    BY DEF hid
  <2> HIDE DEF nd
  <2>3. lod + ad < hid + d /\ hid < lod + ad + d + d /\ 0 < lod + d /\ hid < nd + d
        /\ 0 < ad + d /\ d < ad + d
    BY <1>1, <1>2, <1>3, <1>4, <1>5, <2>1
  <2> QED BY <1>5, <2>2, <2>3 DEF nd
<1>7. lo + a < hi + 1 /\ hi < lo + a + 2 /\ 0 < lo + 1 /\ hi < n + 1 /\ 1 < a + 1
  <2>1. lo + a < hi + 1 /\ hi < lo + a + 2
    BY <1>1, <1>3, <1>6, CancelFactor
  <2>2. 0 < lo + 1 /\ hi < n + 1 /\ 1 < a + 1
    BY <1>1, <1>3, <1>6, CancelFactor
  <2> QED BY <2>1, <2>2
<1>8. hi - lo \in {a, a + 1} /\ lo \in Nat /\ a \in Nat \ {0} /\ hi <= n
  BY <1>1, <1>3, <1>7
<1> QED BY <1>3, <1>8 DEF hi, lo, a

\* The stock of rank r is in the group that ends at r or after, and no earlier one.
LEMMA LabelIs ==
    ASSUME NEW n \in Nat \ {0}, NEW r \in 1..n, NEW g \in Int
    PROVE  (r * Groups + n - 1) \div n = g <=> CutAt(n, g - 1) < r /\ r <= CutAt(n, g)
<1> DEFINE d == Groups  rd == r * d  top == g * n  low == (g - 1) * n
           hi == CutAt(n, g)  lo == CutAt(n, g - 1)  hid == hi * d  lod == lo * d
<1>1. d \in Nat \ {0} /\ r \in Int /\ rd \in Int /\ top \in Int /\ low \in Int /\ top = low + n
  BY PoolAssumption
<1>2. /\ hi \in Int /\ lo \in Int
      /\ hid <= top /\ top < hid + d /\ lod <= low /\ low < lod + d
  <2>1. hi \in Int /\ hid <= top /\ top < hid + d
    BY <1>1, Quotient DEF CutAt
  <2>2. lo \in Int /\ lod <= low /\ low < lod + d
    BY <1>1, Quotient DEF CutAt
  <2> QED BY <2>1, <2>2
<1>3. (hi + 1) * d = hid + d /\ (lo + 1) * d = lod + d /\ hid \in Int /\ lod \in Int
  BY <1>1, <1>2
<1>4. (rd + n - 1) \div n = g <=> low < rd /\ rd <= top
  <2> DEFINE x == rd + n - 1  q == x \div n  qn == q * n
  <2>1. x \in Int
    BY <1>1
  <2>2. q \in Int /\ qn <= x /\ x < qn + n
    BY <2>1, Quotient
  <2>3. q = g => low < rd /\ rd <= top
    <3>1. q = g => qn = top
      OBVIOUS
    <3>2. qn = top => low < rd /\ rd <= top
      <4> HIDE DEF q, qn, top, low, rd
      <4> QED BY <1>1, <2>2
    <3> QED BY <3>1, <3>2
  <2>4. low < rd /\ rd <= top => q = g
    <3>1. SUFFICES ASSUME low < rd, rd <= top PROVE x \div n = g
      OBVIOUS
    <3>2. top <= x /\ x < top + n
      <4> HIDE DEF top, low, rd
      <4> QED BY <1>1, <3>1
    <3> QED BY <2>1, <3>2, QuotientIs
  <2> QED BY <2>3, <2>4
<1> HIDE DEF d, rd, top, low, hi, lo, hid, lod
<1>5. low < rd <=> lo < r
  <2>1. ASSUME low < rd PROVE lo < r
    <3>1. lod < rd
      BY <1>1, <1>2, <1>3, <2>1
    <3>2. lo * d < r * d
      BY <3>1 DEF lod, rd
    <3> QED BY <1>1, <1>2, <3>2, CancelFactor
  <2>2. ASSUME lo < r PROVE low < rd
    <3>1. lod + d <= rd
      <4>1. r - (lo + 1) \in Nat
        BY <1>1, <1>2, <2>2
      <4>2. (r - (lo + 1)) * d >= 0
        BY <1>1, <4>1
      <4>3. (r - (lo + 1)) * d = r * d - (lo + 1) * d
        BY <1>1, <1>2
      <4>4. rd - (lod + d) >= 0
        BY <1>3, <4>2, <4>3 DEF rd
      <4> QED BY <1>1, <1>3, <4>4
    <3> QED BY <1>1, <1>2, <1>3, <3>1
  <2> QED BY <2>1, <2>2
<1>6. rd <= top <=> r <= hi
  <2>1. ASSUME rd <= top PROVE r <= hi
    <3>1. rd < hid + d
      BY <1>1, <1>2, <1>3, <2>1
    <3>2. r * d < (hi + 1) * d
      BY <1>3, <3>1 DEF rd
    <3>3. r < hi + 1
      BY <1>1, <1>2, <3>2, CancelFactor
    <3> QED BY <1>1, <1>2, <3>3
  <2>2. ASSUME r <= hi PROVE rd <= top
    <3>1. rd <= hid
      <4>1. hi - r \in Nat
        BY <1>1, <1>2, <2>2
      <4>2. (hi - r) * d >= 0
        BY <1>1, <4>1
      <4>3. (hi - r) * d = hi * d - r * d
        BY <1>1, <1>2
      <4>4. hid - rd >= 0
        BY <4>2, <4>3 DEF hid, rd
      <4> QED BY <1>1, <1>3, <4>4
    <3> QED BY <1>1, <1>2, <1>3, <3>1
  <2> QED BY <2>1, <2>2
<1> QED BY <1>4, <1>5, <1>6 DEF rd, d, hi, lo


\* The ranks of the stocks of a day are the numbers up to how many they are, each once.
LEMMA RanksAreNumbers ==
    ASSUME NEW D, IsFiniteSet(D), NEW row \in [D -> Int],
           \A s \in D : Pos(s) \in Int, \A s, u \in D : Pos(s) = Pos(u) => s = u
    PROVE  /\ [s \in D |-> RankIn(row, s)] \in Bijection(D, 1..Cardinality(D))
           /\ \A s, u \in D : row[s] < row[u] => RankIn(row, s) <= RankIn(row, u)
<1> DEFINE Upto(s) == {c \in D : row[c] < row[s] \/ (row[c] = row[s] /\ Pos(c) <= Pos(s))}
           n == Cardinality(D)  rank == [s \in D |-> RankIn(row, s)]
<1>1. \A s \in D : RankIn(row, s) = Cardinality(Upto(s))
  BY DEF RankIn
<1>2. n \in Nat
  BY FS_CardinalityType
<1>3. \A s \in D : /\ Upto(s) \in SUBSET D /\ s \in Upto(s)
                   /\ IsFiniteSet(Upto(s)) /\ Cardinality(Upto(s)) \in 1..n
  <2> TAKE s \in D
  <2>1. Upto(s) \in SUBSET D /\ s \in Upto(s)
    OBVIOUS
  <2> HIDE DEF Upto
  <2>2. IsFiniteSet(Upto(s)) /\ Cardinality(Upto(s)) <= n
    BY <2>1, FS_Subset
  <2>3. Cardinality(Upto(s)) \in Nat /\ Cardinality(Upto(s)) # 0
    BY <2>1, <2>2, FS_CardinalityType, FS_EmptySet
  <2> QED BY <1>2, <2>1, <2>2, <2>3
<1>4. \A s, u \in D : Upto(s) \subseteq Upto(u) \/ (Upto(u) \subseteq Upto(s) /\ row[u] <= row[s])
  <2> TAKE s, u \in D
  <2>1. \A c \in D : row[c] \in Int
    OBVIOUS
  <2>2. CASE row[s] < row[u] \/ (row[s] = row[u] /\ Pos(s) <= Pos(u))
    <3>1. \A c \in Upto(s) : c \in Upto(u)
      BY <2>1, <2>2
    <3> QED BY <3>1
  <2>3. CASE ~(row[s] < row[u] \/ (row[s] = row[u] /\ Pos(s) <= Pos(u)))
    <3>1. \A c \in Upto(u) : c \in Upto(s)
      BY <2>1, <2>3
    <3>2. row[u] <= row[s]
      BY <2>1, <2>3
    <3> QED BY <3>1, <3>2
  <2> QED BY <2>2, <2>3
<1>5. \A s, u \in D : Upto(s) = Upto(u) => s = u
  <2> SUFFICES ASSUME NEW s \in D, NEW u \in D, Upto(s) = Upto(u) PROVE s = u
    OBVIOUS
  <2>1. row[s] \in Int /\ row[u] \in Int /\ Pos(s) \in Int /\ Pos(u) \in Int
    OBVIOUS
  <2>2. s \in Upto(u) /\ u \in Upto(s)
    BY <1>3
  <2>3. /\ row[s] < row[u] \/ (row[s] = row[u] /\ Pos(s) <= Pos(u))
        /\ row[u] < row[s] \/ (row[u] = row[s] /\ Pos(u) <= Pos(s))
    BY <2>2
  <2>4. Pos(s) = Pos(u)
    BY <2>1, <2>3
  <2> QED BY <2>4
<1> HIDE DEF Upto
<1>6. \A s, u \in D : row[s] < row[u] => RankIn(row, s) <= RankIn(row, u)
  <2> SUFFICES ASSUME NEW s \in D, NEW u \in D, row[s] < row[u]
               PROVE  Cardinality(Upto(s)) <= Cardinality(Upto(u))
    BY <1>1
  <2>1. row[s] \in Int /\ row[u] \in Int
    OBVIOUS
  <2>2. Upto(s) \in SUBSET Upto(u)
    BY <1>4, <2>1
  <2> QED BY <1>3, <2>2, FS_Subset
<1>7. \A s, u \in D : RankIn(row, s) = RankIn(row, u) => s = u
  <2> SUFFICES ASSUME NEW s \in D, NEW u \in D, Cardinality(Upto(s)) = Cardinality(Upto(u))
               PROVE  s = u
    BY <1>1
  <2>1. Upto(s) \in SUBSET Upto(u) \/ Upto(u) \in SUBSET Upto(s)
    BY <1>4
  <2>2. Upto(s) = Upto(u)
    BY <1>3, <2>1, FS_Subset
  <2> QED BY <1>5, <2>2
<1>8. rank \in Injection(D, 1..n)
  <2>1. rank \in [D -> 1..n]
    BY <1>1, <1>3
  <2>2. \A s, u \in D : rank[s] = rank[u] => s = u
    BY <1>7
  <2> QED BY <2>1, <2>2 DEF Injection, IsInjective
<1>9. rank \in Surjection(D, 1..n)
  <2>1. IsFiniteSet(1..n) /\ Cardinality(1..n) = n
    <3>1. IsFiniteSet(1..n) /\ Cardinality(1..n) = IF 1 > n THEN 0 ELSE n - 1 + 1
      BY <1>2, FS_Interval
    <3> QED BY <1>2, <3>1
  <2> HIDE DEF rank
  <2> QED BY <1>8, <2>1, FS_Injection
<1> QED BY <1>6, <1>8, <1>9 DEF Bijection

\* The groups of a day.
LEMMA CutEvenly ==
    ASSUME NEW D, IsFiniteSet(D), Groups <= Cardinality(D), NEW row \in [D -> Int],
           \A s \in D : Pos(s) \in Int, \A s, u \in D : Pos(s) = Pos(u) => s = u
    PROVE  LET Of(g) == Cardinality({s \in D : LabelsOf(row)[s] = g})
           IN /\ \A g, h \in 1..Groups : Of(g) > 0 /\ Of(g) <= Of(h) + 1
              /\ \A s, u \in D : row[s] < row[u] => LabelsOf(row)[s] <= LabelsOf(row)[u]
<1> DEFINE n == Cardinality(D)  rank == [s \in D |-> RankIn(row, s)]  a == n \div Groups
           Of(g) == Cardinality({s \in D : LabelsOf(row)[s] = g})
<1>1. n \in Nat \ {0} /\ Groups \in Nat \ {0} /\ Groups <= n
  BY FS_CardinalityType, PoolAssumption
<1>2. /\ rank \in Bijection(D, 1..n)
      /\ \A s, u \in D : row[s] < row[u] => RankIn(row, s) <= RankIn(row, u)
  BY RanksAreNumbers
<1>3. /\ rank \in [D -> 1..n] /\ \A s \in D : rank[s] = RankIn(row, s)
      /\ \A s, u \in D : rank[s] = rank[u] => s = u
      /\ \A r \in 1..n : \E s \in D : rank[s] = r
  BY <1>2 DEF Bijection, Injection, Surjection, IsInjective
<1>4. DOMAIN row = D
  OBVIOUS
<1>5. \A s \in D : LabelsOf(row)[s] = (rank[s] * Groups + n - 1) \div n
  BY <1>3, <1>4 DEF LabelsOf
<1> HIDE DEF n, rank, a
<1>6. \A g \in 1..Groups : Of(g) \in {a, a + 1}
  <2> TAKE g \in 1..Groups
  <2> DEFINE members == {s \in D : LabelsOf(row)[s] = g}  lo == CutAt(n, g - 1)
             hi == CutAt(n, g)  f == [s \in members |-> rank[s]]
  <2>1. lo \in Nat /\ hi \in Int /\ hi <= n /\ hi - lo \in {a, a + 1} /\ a \in Nat \ {0}
    BY <1>1, CutsAreEven DEF a
  <2>2. \A s \in D : s \in members <=> lo < rank[s] /\ rank[s] <= hi
    <3> TAKE s \in D
    <3>1. rank[s] \in 1..n /\ g \in Int
      BY <1>3, <1>1
    <3>2. (rank[s] * Groups + n - 1) \div n = g <=> lo < rank[s] /\ rank[s] <= hi
      BY <1>1, <3>1, LabelIs
    <3> QED BY <1>5, <3>2
  <2> HIDE DEF lo, hi
  <2>3. f \in Bijection(members, (lo + 1)..hi)
    <3>1. f \in [members -> (lo + 1)..hi]
      <4>1. \A s \in members : rank[s] \in (lo + 1)..hi
        <5> TAKE s \in members
        <5>1. s \in D /\ rank[s] \in 1..n
          BY <1>3
        <5> QED BY <1>1, <2>1, <2>2, <5>1
      <4> QED BY <4>1
    <3>2. \A s, u \in members : f[s] = f[u] => s = u
      BY <1>3
    <3>3. \A r \in (lo + 1)..hi : \E s \in members : f[s] = r
      <4> TAKE r \in (lo + 1)..hi
      <4>1. r \in 1..n /\ lo < r /\ r <= hi
        BY <1>1, <2>1
      <4>2. PICK s \in D : rank[s] = r
        BY <1>3, <4>1
      <4>3. s \in members
        BY <2>2, <4>1, <4>2
      <4> QED BY <4>2, <4>3
    <3> HIDE DEF f
    <3> QED BY <3>1, <3>2, <3>3 DEF Bijection, Injection, Surjection, IsInjective
  <2>4. IsFiniteSet(members)
    <3>1. members \in SUBSET D
      OBVIOUS
    <3> QED BY <3>1, FS_Subset
  <2> HIDE DEF members, f
  <2>5. Cardinality((lo + 1)..hi) = Cardinality(members)
    BY <2>3, <2>4, FS_Bijection DEF ExistsBijection
  <2>6. Cardinality((lo + 1)..hi) = hi - lo
    <3>1. lo + 1 \in Int /\ hi \in Int
      BY <2>1
    <3>2. Cardinality((lo + 1)..hi) = IF lo + 1 > hi THEN 0 ELSE hi - (lo + 1) + 1
      BY <3>1, FS_Interval
    <3> QED BY <2>1, <3>2
  <2> QED BY <2>1, <2>5, <2>6 DEF members
<1>7. a \in Nat \ {0}
  <2>1. 1 \in 1..Groups
    BY <1>1
  <2> QED BY <1>1, <2>1, CutsAreEven DEF a
<1>8. ASSUME NEW s \in D, NEW u \in D, row[s] < row[u]
      PROVE  LabelsOf(row)[s] <= LabelsOf(row)[u]
  <2> DEFINE x == rank[s] * Groups + n - 1  y == rank[u] * Groups + n - 1
             p == x \div n  q == y \div n  pn == p * n  qn == q * n
  <2>1. rank[s] \in Int /\ rank[u] \in Int /\ rank[s] <= rank[u]
    BY <1>2, <1>3, <1>8
  <2>2. x \in Int /\ y \in Int /\ x <= y
    <3>1. rank[u] - rank[s] \in Nat
      BY <2>1
    <3>2. (rank[u] - rank[s]) * Groups >= 0
      BY <1>1, <3>1
    <3>3. (rank[u] - rank[s]) * Groups = y - x
      BY <1>1, <2>1
    <3>4. x \in Int /\ y \in Int
      BY <1>1, <2>1
    <3> HIDE DEF x, y
    <3> QED BY <3>2, <3>3, <3>4
  <2>3. p \in Int /\ q \in Int /\ pn <= x /\ y < qn + n
    <3> HIDE DEF x, y
    <3> QED BY <1>1, <2>2, Quotient
  <2>4. pn \in Int /\ qn \in Int /\ (q + 1) * n = qn + n
    <3> HIDE DEF p, q
    <3> QED BY <1>1, <2>3
  <2>5. p * n < (q + 1) * n
    <3>1. pn < qn + n
      <4> HIDE DEF x, y, pn, qn
      <4> QED BY <1>1, <2>2, <2>3, <2>4
    <3> QED BY <2>4, <3>1
  <2>6. p < q + 1
    <3> HIDE DEF p, q
    <3> QED BY <1>1, <2>3, <2>5, CancelFactor
  <2>7. p <= q
    <3> HIDE DEF p, q
    <3> QED BY <2>3, <2>6
  <2> QED BY <1>5, <2>7
<1>9. \A g, h \in 1..Groups : Of(g) > 0 /\ Of(g) <= Of(h) + 1
  <2> HIDE DEF Of
  <2> QED BY <1>6, <1>7
<1> QED BY <1>8, <1>9


(***************************************************************************)
(* The collection of the tables                                            *)
(***************************************************************************)
TasksAre(state) == {s \in Stocks : bpTasks[s] = state}
Asked == {s \in Stocks : bpTasks[s] # "none"}

CollectTypes ==
    /\ bpPhase \in {"idle", "panel", "valuation", "ranking", "done", "failed"}
    /\ bpTasks \in [Stocks -> {"none", "running", "done", "cancelled"}]
    /\ bpReady \in Seq([stock : Stocks, how : {"table", "nothing", "error"}])
    /\ bpColumns \in Seq(Stocks) /\ bpNews \in Seq([fetched : Nat, available : Nat])
    /\ bpFetched \in Nat

\* A task answers once: what has come in is of tasks that are done, one answer each.
OneAnswerEach ==
    /\ \A i \in 1..Len(bpReady) : bpTasks[bpReady[i].stock] = "done"
    /\ \A i \in 1..Len(bpColumns) : bpTasks[bpColumns[i]] = "done"
    /\ \A i, j \in 1..Len(bpReady) : bpReady[i].stock = bpReady[j].stock => i = j
    /\ \A i, j \in 1..Len(bpColumns) : bpColumns[i] = bpColumns[j] => i = j
    /\ \A i \in 1..Len(bpReady), j \in 1..Len(bpColumns) : bpReady[i].stock # bpColumns[j]

AnswersAreCounted ==
    /\ Cardinality(TasksAre("done")) = bpFetched + Len(bpReady)
    /\ Len(bpColumns) <= bpFetched

\* What was told goes up, and the last answer of all is told.
NewsGoUp ==
    /\ \A i \in 1..Len(bpNews) :
         /\ bpNews[i].available <= bpNews[i].fetched /\ bpNews[i].fetched <= bpFetched
         /\ i > 1 => bpNews[i].fetched > bpNews[i - 1].fetched
    /\ bpFetched = Total /\ bpFetched > 0 =>
         Len(bpNews) > 0 /\ bpNews[Len(bpNews)].fetched = Total

PhasesAreLeft ==
    /\ bpPhase \notin {"panel", "valuation"} => TasksAre("running") = {}
    /\ bpPhase = "valuation" => Total > 0
    /\ bpPhase \in {"ranking", "done"} => bpFetched = Total /\ Total > 0

PoolInv == CollectTypes /\ OneAnswerEach /\ AnswersAreCounted /\ NewsGoUp /\ PhasesAreLeft

LEMMA ReadyAreOfStocks ==
    ASSUME CollectTypes, NEW i \in 1..Len(bpReady)
    PROVE  bpReady[i] \in [stock : Stocks, how : {"table", "nothing", "error"}]
BY ElementOfSeq DEF CollectTypes

LEMMA NewsAreNumbers ==
    ASSUME CollectTypes, NEW i \in 1..Len(bpNews)
    PROVE  bpNews[i] \in [fetched : Nat, available : Nat]
BY ElementOfSeq DEF CollectTypes

LEMMA StocksAreCounted == \A S : S \subseteq Stocks => IsFiniteSet(S) /\ Cardinality(S) \in Nat
<1> SUFFICES ASSUME NEW S \in SUBSET Stocks PROVE IsFiniteSet(S) /\ Cardinality(S) \in Nat
  OBVIOUS
<1>1. IsFiniteSet(S)
  BY PoolAssumption, FS_Subset
<1> QED BY <1>1, FS_CardinalityType

LEMMA PoolInitially == PoolInit => PoolInv
<1> SUFFICES ASSUME PoolInit PROVE PoolInv
  OBVIOUS
<1> USE DEF PoolInit
<1>1. TasksAre("done") = {} /\ TasksAre("running") = {} /\ Asked = {}
  BY DEF TasksAre, Asked
<1>2. Cardinality(TasksAre("done")) = 0 /\ Total = 0
  BY <1>1, FS_EmptySet DEF Total, Asked
<1>3. CollectTypes /\ OneAnswerEach /\ NewsGoUp
  BY DEF CollectTypes, OneAnswerEach, NewsGoUp
<1>4. AnswersAreCounted /\ PhasesAreLeft
  BY <1>1, <1>2 DEF AnswersAreCounted, PhasesAreLeft
<1> QED BY <1>3, <1>4 DEF PoolInv

\* A collection that begins.
LEMMA BeginKeeps ==
    ASSUME PoolInv, NEW stocks \in SUBSET Stocks, CollectStocks(stocks),
           bpPhase' \in {"panel", "valuation"}, bpPhase' = "valuation" => stocks # {}
    PROVE  PoolInv'
<1>1. /\ bpTasks' = [s \in Stocks |-> IF s \in stocks THEN "running" ELSE "none"]
      /\ bpReady' = <<>> /\ bpFetched' = 0 /\ bpColumns' = <<>> /\ bpNews' = <<>>
  BY DEF CollectStocks
<1>2. TasksAre("done")' = {} /\ {s \in Stocks : bpTasks'[s] # "none"} = stocks
  BY <1>1 DEF TasksAre
<1>3. Cardinality(TasksAre("done")') = 0 /\ Total' = Cardinality(stocks)
  BY <1>2, FS_EmptySet DEF Total
<1>4. Cardinality(stocks) \in Nat /\ (stocks # {} => Cardinality(stocks) > 0)
  <2>1. IsFiniteSet(stocks) /\ Cardinality(stocks) \in Nat
    BY StocksAreCounted
  <2>2. stocks # {} => Cardinality(stocks) # 0
    BY <2>1, FS_EmptySet
  <2> QED BY <2>1, <2>2
<1>5. CollectTypes' /\ OneAnswerEach'
  BY <1>1 DEF CollectTypes, OneAnswerEach
<1>6. AnswersAreCounted'
  BY <1>1, <1>3 DEF AnswersAreCounted
<1>7. NewsGoUp' /\ PhasesAreLeft'
  BY <1>1, <1>3, <1>4 DEF NewsGoUp, PhasesAreLeft
<1> QED BY <1>5, <1>6, <1>7 DEF PoolInv

LEMMA EndKeeps ==
    ASSUME PoolInv, TaskEnds
    PROVE  PoolInv'
<1>1. PICK t \in Stocks, how \in {"table", "nothing", "error"} :
        /\ bpTasks[t] = "running"
        /\ bpTasks' = [bpTasks EXCEPT ![t] = "done"]
        /\ bpReady' = Append(bpReady, [stock |-> t, how |-> how])
  BY DEF TaskEnds
<1>2. bpPhase \in {"panel", "valuation"} /\ UNCHANGED <<bpPhase, bpFetched, bpColumns, bpNews>>
  BY DEF TaskEnds
<1> DEFINE answer == [stock |-> t, how |-> how]  n == Len(bpReady)
<1>3. answer \in [stock : Stocks, how : {"table", "nothing", "error"}] /\ answer.stock = t
  OBVIOUS
<1> HIDE DEF answer
<1>4. /\ n \in Nat /\ Len(bpReady') = n + 1 /\ bpReady'[n + 1] = answer
      /\ \A i \in 1..n : bpReady'[i] = bpReady[i]
      /\ bpReady' \in Seq([stock : Stocks, how : {"table", "nothing", "error"}])
  BY <1>1, <1>3 DEF PoolInv, CollectTypes, answer
<1>5. /\ bpTasks' \in [Stocks -> {"none", "running", "done", "cancelled"}] /\ bpTasks'[t] = "done"
      /\ \A s \in Stocks : s # t => bpTasks'[s] = bpTasks[s]
      /\ \A s \in Stocks : bpTasks[s] = "done" => s # t /\ bpTasks'[s] = "done"
  BY <1>1 DEF PoolInv, CollectTypes
<1>6. CollectTypes'
  BY <1>2, <1>4, <1>5 DEF PoolInv, CollectTypes
<1>7. OneAnswerEach'
  <2>1. /\ \A i \in 1..n : bpReady[i].stock \in Stocks /\ bpReady[i].stock # t
        /\ \A i \in 1..Len(bpColumns) : bpColumns[i] \in Stocks /\ bpColumns[i] # t
    <3>1. \A i \in 1..n : bpReady[i] \in [stock : Stocks, how : {"table", "nothing", "error"}]
      BY ReadyAreOfStocks DEF PoolInv
    <3>2. \A i \in 1..n : bpReady[i].stock \in Stocks
      BY <3>1
    <3>3. \A i \in 1..Len(bpColumns) : bpColumns[i] \in Stocks
      BY DEF PoolInv, CollectTypes
    <3> QED BY <1>5, <3>2, <3>3 DEF PoolInv, OneAnswerEach
  <2>2. \A i \in 1..(n + 1) : i = n + 1 \/ i \in 1..n
    BY <1>4
  <2>3. /\ bpReady'[n + 1].stock = t
        /\ \A i \in 1..n : bpReady'[i].stock = bpReady[i].stock
    BY <1>3, <1>4
  <2>4. \A i \in 1..(n + 1) : bpTasks'[bpReady'[i].stock] = "done"
    BY <1>5, <2>1, <2>2, <2>3 DEF PoolInv, OneAnswerEach
  <2>5. \A i, j \in 1..(n + 1) : bpReady'[i].stock = bpReady'[j].stock => i = j
    <3>1. \A i, j \in 1..n : bpReady[i].stock = bpReady[j].stock => i = j
      BY DEF PoolInv, OneAnswerEach
    <3> QED BY <2>1, <2>2, <2>3, <3>1
  <2>6. \A i \in 1..(n + 1), j \in 1..Len(bpColumns) : bpReady'[i].stock # bpColumns[j]
    <3>1. \A i \in 1..n, j \in 1..Len(bpColumns) : bpReady[i].stock # bpColumns[j]
      BY DEF PoolInv, OneAnswerEach
    <3> QED BY <2>1, <2>2, <2>3, <3>1
  <2>7. \A i \in 1..Len(bpColumns') : bpTasks'[bpColumns'[i]] = "done"
    BY <1>2, <1>5, <2>1 DEF PoolInv, OneAnswerEach
  <2>8. \A i, j \in 1..Len(bpColumns') : bpColumns'[i] = bpColumns'[j] => i = j
    BY <1>2 DEF PoolInv, OneAnswerEach
  <2> QED BY <1>2, <1>4, <2>4, <2>5, <2>6, <2>7, <2>8 DEF OneAnswerEach
<1>8. Total' = Total
  <2>1. {s \in Stocks : bpTasks'[s] # "none"} = {s \in Stocks : bpTasks[s] # "none"}
    BY <1>1, <1>5
  <2> QED BY <2>1 DEF Total
<1>9. AnswersAreCounted'
  <2>1. TasksAre("done")' = TasksAre("done") \cup {t} /\ t \notin TasksAre("done")
    BY <1>1, <1>5 DEF TasksAre
  <2>2. IsFiniteSet(TasksAre("done")) /\ Cardinality(TasksAre("done")) \in Nat
    <3>1. TasksAre("done") \subseteq Stocks
      BY DEF TasksAre
    <3> QED BY <3>1, StocksAreCounted
  <2>3. Cardinality(TasksAre("done") \cup {t})
          = IF t \in TasksAre("done") THEN Cardinality(TasksAre("done"))
            ELSE Cardinality(TasksAre("done")) + 1
    BY <2>2, FS_AddElement
  <2>4. Cardinality(TasksAre("done")') = Cardinality(TasksAre("done")) + 1
    BY <2>1, <2>3
  <2> QED BY <1>2, <1>4, <2>2, <2>4 DEF PoolInv, CollectTypes, AnswersAreCounted
<1>10. NewsGoUp' /\ PhasesAreLeft'
  BY <1>2, <1>8 DEF PoolInv, NewsGoUp, PhasesAreLeft
<1> QED BY <1>6, <1>7, <1>9, <1>10 DEF PoolInv


LEMMA TakeKeeps ==
    ASSUME PoolInv, TakeUp
    PROVE  PoolInv'
<1> DEFINE answer == Head(bpReady)  n == Len(bpReady)  c == Len(bpColumns)  f == bpFetched + 1
<1>1. /\ bpPhase \in {"panel", "valuation"} /\ UNCHANGED <<bpPhase, bpTasks>>
      /\ bpReady # <<>> /\ bpReady' = Tail(bpReady) /\ bpFetched' = f
      /\ bpColumns' = IF answer.how = "table" THEN Append(bpColumns, answer.stock) ELSE bpColumns
  BY DEF TakeUp
<1>2. bpReady \in Seq([stock : Stocks, how : {"table", "nothing", "error"}])
      /\ bpColumns \in Seq(Stocks) /\ bpNews \in Seq([fetched : Nat, available : Nat])
      /\ bpFetched \in Nat
  BY DEF PoolInv, CollectTypes
<1>3. /\ n \in Nat \ {0} /\ Len(bpReady') = n - 1 /\ answer = bpReady[1]
      /\ answer \in [stock : Stocks, how : {"table", "nothing", "error"}]
      /\ bpReady' \in Seq([stock : Stocks, how : {"table", "nothing", "error"}])
      /\ \A i \in 1..(n - 1) : bpReady'[i] = bpReady[i + 1] /\ i + 1 \in 1..n /\ i + 1 # 1
  <2> DEFINE S == [stock : Stocks, how : {"table", "nothing", "error"}]
  <2>1. bpReady \in Seq(S) /\ bpReady # <<>> /\ bpReady' = Tail(bpReady)
    BY <1>1, <1>2
  <2> HIDE DEF S
  <2>2. /\ n \in Nat \ {0} /\ Len(bpReady') = n - 1 /\ answer = bpReady[1]
        /\ bpReady' \in Seq(S) /\ answer \in S
        /\ \A i \in 1..(n - 1) : bpReady'[i] = bpReady[i + 1]
    BY <2>1, HeadTailProperties, ElementOfSeq
  <2>3. \A i \in 1..(n - 1) : i + 1 \in 1..n /\ i + 1 # 1
    BY <2>2
  <2> QED BY <2>2, <2>3 DEF S
<1>4. answer.stock \in Stocks
  BY <1>3
<1> HIDE DEF answer
<1>5. \/ bpColumns' = bpColumns
      \/ /\ bpColumns' \in Seq(Stocks) /\ Len(bpColumns') = c + 1
         /\ bpColumns'[c + 1] = answer.stock /\ \A i \in 1..c : bpColumns'[i] = bpColumns[i]
  BY <1>1, <1>2, <1>4
<1>6. c \in Nat /\ Len(bpColumns') \in Nat /\ c <= Len(bpColumns') /\ Len(bpColumns') <= c + 1
  BY <1>2, <1>5
<1>7. OneAnswerEach'
  <2> USE DEF PoolInv, OneAnswerEach
  <2>1. /\ \A i \in 1..(n - 1) : bpReady'[i].stock # answer.stock
        /\ \A i \in 1..c : bpColumns[i] # answer.stock
        /\ bpTasks[answer.stock] = "done"
    <3>1. 1 \in 1..n
      BY <1>3
    <3>2. \A i \in 1..(n - 1) : bpReady'[i].stock # answer.stock
      BY <1>3, <3>1
    <3>3. (\A i \in 1..c : bpColumns[i] # answer.stock) /\ bpTasks[answer.stock] = "done"
      BY <1>3, <3>1
    <3> QED BY <3>2, <3>3
  <2>2. /\ \A i \in 1..Len(bpReady') : bpTasks'[bpReady'[i].stock] = "done"
        /\ \A i, j \in 1..Len(bpReady') : bpReady'[i].stock = bpReady'[j].stock => i = j
    <3>1. \A i \in 1..Len(bpReady') : bpTasks'[bpReady'[i].stock] = "done"
      BY <1>1, <1>3
    <3>2. ASSUME NEW i \in 1..(n - 1), NEW j \in 1..(n - 1), bpReady'[i].stock = bpReady'[j].stock
          PROVE  i = j
      <4>1. i + 1 \in 1..n /\ j + 1 \in 1..n /\ bpReady[i + 1].stock = bpReady[j + 1].stock
        BY <1>3, <3>2
      <4>2. \A x, y \in 1..n : bpReady[x].stock = bpReady[y].stock => x = y
        OBVIOUS
      <4> HIDE DEF PoolInv, OneAnswerEach
      <4>3. i + 1 = j + 1
        BY <4>1, <4>2
      <4> QED BY <1>3, <4>3
    <3> QED BY <1>3, <3>1, <3>2
  <2>3. /\ \A i \in 1..Len(bpColumns') : bpTasks'[bpColumns'[i]] = "done"
        /\ \A i, j \in 1..Len(bpColumns') : bpColumns'[i] = bpColumns'[j] => i = j
        /\ \A i \in 1..Len(bpReady'), j \in 1..Len(bpColumns') :
             bpReady'[i].stock # bpColumns'[j]
    <3>1. \A i \in 1..(n - 1), j \in 1..c : bpReady'[i].stock # bpColumns[j]
      BY <1>3
    <3>2. CASE bpColumns' = bpColumns
      BY <1>1, <1>3, <3>1, <3>2
    <3>3. CASE /\ Len(bpColumns') = c + 1
               /\ bpColumns'[c + 1] = answer.stock /\ \A i \in 1..c : bpColumns'[i] = bpColumns[i]
      <4>1. \A i \in 1..(c + 1) : i = c + 1 \/ i \in 1..c
        BY <1>6
      <4>2. \A i \in 1..(c + 1) : bpTasks'[bpColumns'[i]] = "done"
        BY <1>1, <2>1, <3>3, <4>1
      <4>3. \A i, j \in 1..(c + 1) : bpColumns'[i] = bpColumns'[j] => i = j
        <5>1. \A i, j \in 1..c : bpColumns[i] = bpColumns[j] => i = j
          OBVIOUS
        <5> HIDE DEF PoolInv, OneAnswerEach
        <5> QED BY <2>1, <3>3, <4>1, <5>1
      <4>4. \A i \in 1..(n - 1) : \A j \in 1..(c + 1) : bpReady'[i].stock # bpColumns'[j]
        <5> TAKE i \in 1..(n - 1)
        <5> TAKE j \in 1..(c + 1)
        <5>1. CASE j = c + 1
          BY <2>1, <3>3, <5>1
        <5>2. CASE j \in 1..c
          BY <3>1, <3>3, <5>2
        <5> QED BY <4>1, <5>1, <5>2
      <4> QED BY <1>3, <3>3, <4>2, <4>3, <4>4
    <3> QED BY <1>5, <3>2, <3>3
  <2> QED BY <2>2, <2>3
<1>8. AnswersAreCounted'
  <2>1. Cardinality(TasksAre("done")') = Cardinality(TasksAre("done"))
    BY <1>1 DEF TasksAre
  <2> DEFINE k == Cardinality(TasksAre("done"))
  <2>2. k = bpFetched + n /\ c <= bpFetched
    BY DEF PoolInv, AnswersAreCounted
  <2> HIDE DEF k, n, c
  <2>3. k = bpFetched' + Len(bpReady') /\ Len(bpColumns') <= bpFetched'
    <3> DEFINE x == Len(bpColumns')  y == Len(bpReady')  z == bpFetched'
    <3>1. /\ c \in Nat /\ x \in Nat /\ x <= c + 1 /\ n \in Nat \ {0} /\ y = n - 1
          /\ bpFetched \in Nat /\ z = bpFetched + 1
      BY <1>1, <1>2, <1>3, <1>6
    <3> HIDE DEF x, y, z
    <3>2. k = z + y /\ x <= z
      BY <2>2, <3>1
    <3> QED BY <3>2 DEF x, y, z
  <2> QED BY <2>1, <2>3 DEF AnswersAreCounted, k
<1>9. Total' = Total
  BY <1>1 DEF Total
<1>10. bpNews' \in Seq([fetched : Nat, available : Nat]) /\ NewsGoUp'
  <2> DEFINE m == Len(bpNews)  news == [fetched |-> f, available |-> Len(bpColumns')]
  <2>1. /\ news \in [fetched : Nat, available : Nat] /\ news.fetched = f
        /\ news.available <= news.fetched
    BY <1>1, <1>2, <1>6, <1>8 DEF AnswersAreCounted
  <2> HIDE DEF news
  <2>2. \A i \in 1..m : /\ bpNews[i].available <= bpNews[i].fetched /\ bpNews[i].fetched <= bpFetched
                        /\ i > 1 => bpNews[i].fetched > bpNews[i - 1].fetched
    BY DEF PoolInv, NewsGoUp
  <2>3. \A i \in 1..m : bpNews[i].fetched \in Nat
    <3>1. \A i \in 1..m : bpNews[i] \in [fetched : Nat, available : Nat]
      BY NewsAreNumbers DEF PoolInv
    <3> QED BY <3>1
  <2>4. m \in Nat
    BY <1>2
  <2>5. \A i \in 1..m : bpNews[i].fetched < f /\ bpNews[i].fetched <= f
    <3> TAKE i \in 1..m
    <3> DEFINE x == bpNews[i].fetched
    <3>1. x \in Nat /\ x <= bpFetched /\ bpFetched \in Nat
      BY <1>2, <2>2, <2>3
    <3> HIDE DEF x
    <3>2. x < f /\ x <= f
      BY <3>1
    <3> QED BY <3>2 DEF x
  <2>6. CASE bpNews' = Append(bpNews, news)
    <3>1. /\ bpNews' \in Seq([fetched : Nat, available : Nat]) /\ Len(bpNews') = m + 1
          /\ bpNews'[m + 1] = news /\ \A i \in 1..m : bpNews'[i] = bpNews[i]
      BY <1>2, <2>1, <2>6
    <3>2. \A i \in 1..m : bpNews[i].fetched <= f /\ bpNews[i].fetched < f
      BY <2>5
    <3>3. \A i \in 1..(m + 1) :
            /\ bpNews'[i].available <= bpNews'[i].fetched /\ bpNews'[i].fetched <= f
            /\ i > 1 => bpNews'[i].fetched > bpNews'[i - 1].fetched
      <4> TAKE i \in 1..(m + 1)
      <4>1. CASE i = m + 1
        <5>1. bpNews'[i].available <= bpNews'[i].fetched /\ bpNews'[i].fetched <= f
          BY <1>2, <2>1, <3>1, <4>1
        <5>2. i > 1 => i - 1 \in 1..m /\ bpNews'[i - 1] = bpNews[i - 1]
          BY <2>4, <3>1, <4>1
        <5> QED BY <2>1, <3>1, <3>2, <4>1, <5>1, <5>2
      <4>2. CASE i # m + 1
        <5>1. i \in 1..m /\ (i > 1 => i - 1 \in 1..m)
          BY <2>4, <4>2
        <5> QED BY <2>2, <3>1, <3>2, <5>1
      <4> QED BY <4>1, <4>2
    <3>4. bpNews'[Len(bpNews')].fetched = f /\ Len(bpNews') > 0
      BY <2>1, <2>4, <3>1
    <3> QED BY <1>1, <1>9, <3>1, <3>3, <3>4 DEF NewsGoUp
  <2>7. CASE bpNews' = bpNews /\ f # Total'
    <3>1. \A i \in 1..m : bpNews[i].fetched <= f
      BY <2>5
    <3> QED BY <1>1, <1>2, <2>2, <2>7, <3>1 DEF NewsGoUp
  <2>8. \/ bpNews' = Append(bpNews, news)
        \/ bpNews' = bpNews /\ f # Total'
    BY <1>1, <1>9 DEF TakeUp, news
  <2> QED BY <2>6, <2>7, <2>8
<1>11. CollectTypes'
  BY <1>1, <1>2, <1>3, <1>5, <1>10 DEF PoolInv, CollectTypes
<1>12. PhasesAreLeft'
  BY <1>1, <1>9 DEF PoolInv, PhasesAreLeft
<1> QED BY <1>7, <1>8, <1>10, <1>11, <1>12 DEF PoolInv

\* When all answers are in no task runs.
LEMMA AllAreIn ==
    ASSUME PoolInv, bpFetched = Total
    PROVE  TasksAre("running") = {}
<1>1. TasksAre("done") \in SUBSET Asked /\ IsFiniteSet(Asked)
      /\ Cardinality(TasksAre("done")) \in Nat
  <2>1. TasksAre("done") \subseteq Stocks /\ Asked \subseteq Stocks
    BY DEF TasksAre, Asked
  <2>2. TasksAre("done") \subseteq Asked
    BY DEF TasksAre, Asked
  <2> QED BY <2>1, <2>2, StocksAreCounted
<1>2. Cardinality(TasksAre("done")) <= Cardinality(Asked)
      /\ (Cardinality(Asked) = Cardinality(TasksAre("done")) => Asked = TasksAre("done"))
  BY <1>1, FS_Subset
<1>3. Cardinality(Asked) = Total
  BY DEF Asked, Total
<1>4. Len(bpReady) \in Nat /\ Cardinality(TasksAre("done")) = bpFetched + Len(bpReady) /\ bpFetched \in Nat
  BY DEF PoolInv, CollectTypes, AnswersAreCounted
<1>5. Cardinality(Asked) = Cardinality(TasksAre("done"))
  <2> DEFINE x == Cardinality(Asked)  y == Cardinality(TasksAre("done"))  z == Len(bpReady)
  <2>1. y <= x /\ x = bpFetched /\ y = bpFetched + z /\ z \in Nat /\ bpFetched \in Nat
    BY <1>2, <1>3, <1>4
  <2> HIDE DEF x, y, z
  <2>2. x = y
    BY <2>1
  <2> QED BY <2>2 DEF x, y
<1>6. Asked = TasksAre("done")
  BY <1>2, <1>5
<1> QED BY <1>6 DEF Asked, TasksAre

LEMMA FailKeeps ==
    ASSUME PoolInv, PoolFails
    PROVE  PoolInv'
<1>1. /\ bpPhase' = "failed" /\ UNCHANGED <<bpReady, bpFetched, bpColumns, bpNews>>
      /\ bpTasks' = [s \in Stocks |-> IF bpTasks[s] = "running" THEN "cancelled" ELSE bpTasks[s]]
  BY DEF PoolFails, CancelRest
<1>2. /\ bpTasks' \in [Stocks -> {"none", "running", "done", "cancelled"}]
      /\ \A s \in Stocks : /\ bpTasks[s] = "done" <=> bpTasks'[s] = "done"
                           /\ bpTasks[s] # "none" <=> bpTasks'[s] # "none"
                           /\ bpTasks'[s] # "running"
  BY <1>1 DEF PoolInv, CollectTypes
<1>3. /\ TasksAre("done")' = TasksAre("done") /\ TasksAre("running")' = {}
      /\ {s \in Stocks : bpTasks'[s] # "none"} = {s \in Stocks : bpTasks[s] # "none"}
  BY <1>2 DEF TasksAre
<1>4. Total' = Total
  BY <1>3 DEF Total
<1>5. OneAnswerEach'
  <2>1. \A i \in 1..Len(bpReady) : bpReady[i] \in [stock : Stocks, how : {"table", "nothing", "error"}]
    BY ReadyAreOfStocks DEF PoolInv
  <2>2. \A i \in 1..Len(bpReady) : bpReady[i].stock \in Stocks
    BY <2>1
  <2>3. \A i \in 1..Len(bpColumns) : bpColumns[i] \in Stocks
    BY DEF PoolInv, CollectTypes
  <2>4. OneAnswerEach
    BY DEF PoolInv
  <2>5. /\ \A i \in 1..Len(bpReady) : bpTasks'[bpReady[i].stock] = "done"
        /\ \A i \in 1..Len(bpColumns) : bpTasks'[bpColumns[i]] = "done"
    BY <1>2, <2>2, <2>3, <2>4 DEF OneAnswerEach
  <2> QED BY <1>1, <2>4, <2>5 DEF OneAnswerEach
<1>6. CollectTypes' /\ AnswersAreCounted' /\ NewsGoUp' /\ PhasesAreLeft'
  BY <1>1, <1>2, <1>3, <1>4 DEF PoolInv, CollectTypes, AnswersAreCounted, NewsGoUp, PhasesAreLeft
<1> QED BY <1>5, <1>6 DEF PoolInv

LEMMA ProceedKeeps ==
    ASSUME PoolInv, PoolProceeds
    PROVE  PoolInv'
<1>1. bpFetched = Total /\ TasksAre("running") = {} /\ bpFetched \in Nat /\ Groups \in Nat \ {0, 1}
      /\ Len(bpColumns) \in Nat /\ Len(bpColumns) <= bpFetched
  BY AllAreIn, PoolAssumption DEF PoolProceeds, PoolInv, CollectTypes, AnswersAreCounted
<1>2. CASE bpPhase = "panel" /\ Len(bpColumns) >= Groups /\ bpPhase' = "valuation"
           /\ CollectStocks(Range(bpColumns))
  <2>1. Range(bpColumns) \in SUBSET Stocks /\ Range(bpColumns) # {}
    <3>1. bpColumns \in Seq(Stocks) /\ 1 \in 1..Len(bpColumns)
      BY <1>1, <1>2 DEF PoolInv, CollectTypes
    <3>2. \A i \in DOMAIN bpColumns : bpColumns[i] \in Stocks
      BY <3>1
    <3>3. 1 \in DOMAIN bpColumns
      BY <3>1
    <3> QED BY <3>2, <3>3 DEF Range
  <2> QED BY <1>2, <2>1, BeginKeeps
<1>3. CASE /\ bpPhase' \in {"failed", "ranking"}
           /\ bpPhase' = "ranking" => Total > 0
           /\ UNCHANGED <<bpTasks, bpReady, bpFetched, bpColumns, bpNews>>
  <2>1. Total' = Total /\ TasksAre("running")' = {} /\ TasksAre("done")' = TasksAre("done")
    BY <1>1, <1>3 DEF Total, TasksAre
  <2>2. CollectTypes' /\ OneAnswerEach' /\ AnswersAreCounted' /\ NewsGoUp'
    BY <1>3, <2>1 DEF PoolInv, CollectTypes, OneAnswerEach, AnswersAreCounted, NewsGoUp
  <2>3. PhasesAreLeft'
    BY <1>1, <1>3, <2>1 DEF PhasesAreLeft
  <2> QED BY <2>2, <2>3 DEF PoolInv
<1>4. bpPhase = "panel" /\ Len(bpColumns) >= Groups => Total > 0
  BY <1>1
<1>5. bpPhase = "valuation" => Total > 0
  BY DEF PoolInv, PhasesAreLeft
<1> QED BY <1>2, <1>3, <1>4, <1>5 DEF PoolProceeds

LEMMA PoolStep == PoolInv /\ [PoolNext]_poolVars => PoolInv'
<1> SUFFICES ASSUME PoolInv, [PoolNext]_poolVars PROVE PoolInv'
  OBVIOUS
<1>1. CASE PoolStart
  <2>1. PICK stocks \in SUBSET Stocks : bpPhase' = "panel" /\ CollectStocks(stocks)
    BY <1>1 DEF PoolStart
  <2> QED BY <2>1, BeginKeeps
<1>2. CASE RankDay \/ PoolEnds \/ UNCHANGED poolVars
  <2>1. /\ UNCHANGED <<bpTasks, bpReady, bpFetched, bpColumns, bpNews>>
        /\ bpPhase' = bpPhase \/ (bpPhase = "ranking" /\ bpPhase' = "done")
    BY <1>2 DEF RankDay, PoolEnds, poolVars
  <2>2. Total' = Total /\ TasksAre("running")' = TasksAre("running")
        /\ TasksAre("done")' = TasksAre("done")
    BY <2>1 DEF Total, TasksAre
  <2> QED BY <2>1, <2>2 DEF PoolInv, CollectTypes, OneAnswerEach, AnswersAreCounted, NewsGoUp,
                            PhasesAreLeft
<1> QED BY <1>1, <1>2, EndKeeps, TakeKeeps, FailKeeps, ProceedKeeps DEF PoolNext

\* A day that is ranked is cut evenly, whatever the order of the columns.
LEMMA FairKept == PoolInv /\ GroupsAreFair /\ [PoolNext]_poolVars => GroupsAreFair'
<1> SUFFICES ASSUME PoolInv, GroupsAreFair, [PoolNext]_poolVars PROVE GroupsAreFair'
  OBVIOUS
<1>1. CASE UNCHANGED <<bpRow, bpLabels>>
  BY <1>1 DEF GroupsAreFair
<1>2. CASE RankDay
  <2>1. PICK row \in UNION {[known -> Scores] : known \in SUBSET Range(bpColumns)} :
          /\ bpRow' = IF Cardinality(DOMAIN row) < Groups THEN <<>> ELSE row
          /\ bpLabels' = LabelsOf(bpRow')
    BY <1>2 DEF RankDay
  <2> DEFINE known == DOMAIN row
  <2>0. known \in SUBSET Range(bpColumns) /\ row \in [known -> Scores]
    OBVIOUS
  <2>2. CASE Cardinality(known) < Groups
    BY <2>1, <2>2 DEF GroupsAreFair
  <2>3. CASE ~(Cardinality(known) < Groups)
    <3>1. bpRow' = row /\ bpLabels' = LabelsOf(row) /\ row \in [known -> Int]
      BY <2>1, <2>0, <2>3, PoolAssumption
    <3>2. \A s \in known : Pos(s) \in 1..Len(bpColumns) /\ bpColumns[Pos(s)] = s
      <4> TAKE s \in known
      <4>1. DOMAIN bpColumns = 1..Len(bpColumns)
        BY DEF PoolInv, CollectTypes
      <4>2. \E i \in DOMAIN bpColumns : bpColumns[i] = s
        BY <2>0 DEF Range
      <4> QED BY <4>1, <4>2 DEF Pos
    <3>3. (\A s \in known : Pos(s) \in Int) /\ \A s, u \in known : Pos(s) = Pos(u) => s = u
      BY <3>2
    <3>4. IsFiniteSet(known) /\ Groups <= Cardinality(known)
      <4>1. known \subseteq Stocks
        <5>1. \A i \in DOMAIN bpColumns : bpColumns[i] \in Stocks
          BY DEF PoolInv, CollectTypes
        <5> QED BY <2>0, <5>1 DEF Range
      <4> QED BY <2>3, <4>1, StocksAreCounted, PoolAssumption
    <3>5. DOMAIN row = known
      OBVIOUS
    <3>6. LET Of(g) == Cardinality({s \in known : LabelsOf(row)[s] = g})
          IN /\ \A g, h \in 1..Groups : Of(g) > 0 /\ Of(g) <= Of(h) + 1
             /\ \A s, u \in known : row[s] < row[u] => LabelsOf(row)[s] <= LabelsOf(row)[u]
      BY <3>1, <3>3, <3>4, CutEvenly
    <3> QED BY <3>1, <3>5, <3>6 DEF GroupsAreFair
  <2> QED BY <2>2, <2>3
<1>3. RankDay \/ UNCHANGED <<bpRow, bpLabels>>
  BY DEF PoolNext, PoolStart, TaskEnds, TakeUp, PoolFails, PoolProceeds, PoolEnds, poolVars
<1> QED BY <1>1, <1>2, <1>3

\* The days from the next adjustment on are paid to nobody yet.
HoldInv ==
    /\ bpDay \in Nat \ {0} /\ bpPaid \in [1..MaxDays -> Nat]
    /\ \A t \in 1..MaxDays : t >= bpDay => bpPaid[t] = 0
    /\ GroupsAreHeld

LEMMA HeldInitially == PoolInit => HoldInv
BY PoolAssumption DEF PoolInit, HoldInv, GroupsAreHeld

LEMMA HeldKept == HoldInv /\ [PoolNext]_poolVars => HoldInv'
<1> SUFFICES ASSUME HoldInv, [PoolNext]_poolVars PROVE HoldInv'
  OBVIOUS
<1>1. CASE UNCHANGED <<bpDay, bpPaid>>
  BY <1>1 DEF HoldInv, GroupsAreHeld
<1>2. CASE RankDay
  <2>1. /\ bpDay' = bpDay + Rebalance /\ bpDay \in Nat \ {0} /\ Rebalance \in Nat \ {0}
        /\ MaxDays \in Nat /\ (bpRow' # <<>> => bpDay + Rebalance <= MaxDays)
    BY <1>2, PoolAssumption DEF RankDay, HoldInv
  <2>2. CASE bpRow' = <<>>
    <3>1. bpPaid' = bpPaid
      BY <1>2, <2>2 DEF RankDay, HoldInv
    <3> QED BY <2>1, <3>1 DEF HoldInv, GroupsAreHeld
  <2>3. CASE bpRow' # <<>>
    <3> DEFINE window == bpDay..(bpDay + Rebalance - 1)
    <3>1. bpPaid' = [t \in 1..MaxDays |-> IF t \in window THEN bpDay ELSE bpPaid[t]]
      BY <1>2, <2>3 DEF RankDay
    <3>2. bpPaid' \in [1..MaxDays -> Nat]
      BY <2>1, <3>1 DEF HoldInv
    <3>3. \A t \in 1..MaxDays : t >= bpDay' => bpPaid'[t] = 0
      BY <2>1, <3>1 DEF HoldInv
    <3>4. \A t \in 1..MaxDays : bpPaid[t] # 0 => t < bpDay /\ bpPaid[t] < bpDay
      BY <2>1 DEF HoldInv, GroupsAreHeld
    <3>5. ASSUME NEW t \in 1..MaxDays, bpPaid'[t] # 0
          PROVE  /\ bpPaid'[t] <= t /\ bpPaid'[t] + Rebalance <= MaxDays
                 /\ \A u \in 1..MaxDays :
                      bpPaid'[u] = bpPaid'[t] <=> u \in bpPaid'[t]..(bpPaid'[t] + Rebalance - 1)
      <4>1. CASE t \in window
        <5>1. bpPaid'[t] = bpDay /\ bpDay <= t /\ bpDay + Rebalance <= MaxDays
          BY <2>1, <2>3, <3>1, <4>1
        <5>2. \A u \in 1..MaxDays : bpPaid'[u] = bpDay <=> u \in window
          <6> TAKE u \in 1..MaxDays
          <6>1. bpPaid[u] # bpDay
            BY <2>1, <3>4 DEF HoldInv
          <6> QED BY <3>1, <6>1
        <5> QED BY <5>1, <5>2
      <4>2. CASE t \notin window
        <5>1. bpPaid'[t] = bpPaid[t] /\ bpPaid[t] # 0 /\ bpPaid[t] < bpDay
          BY <3>1, <3>4, <3>5, <4>2
        <5>2. bpPaid[t] <= t /\ bpPaid[t] + Rebalance <= MaxDays
          BY <5>1 DEF HoldInv, GroupsAreHeld
        <5>3. \A u \in 1..MaxDays :
                bpPaid[u] = bpPaid[t] <=> u \in bpPaid[t]..(bpPaid[t] + Rebalance - 1)
          BY <5>1 DEF HoldInv, GroupsAreHeld
        <5>4. \A u \in 1..MaxDays : bpPaid'[u] = bpPaid[t] <=> bpPaid[u] = bpPaid[t]
          <6> TAKE u \in 1..MaxDays
          <6>1. CASE u \in window
            <7>1. bpPaid'[u] = bpDay /\ bpPaid[u] = 0
              BY <2>1, <3>1, <6>1 DEF HoldInv
            <7> QED BY <2>1, <5>1, <7>1
          <6> QED BY <3>1, <6>1
        <5> QED BY <5>1, <5>2, <5>3, <5>4
      <4> QED BY <4>1, <4>2
    <3>6. GroupsAreHeld'
      BY <3>5 DEF GroupsAreHeld
    <3> QED BY <2>1, <3>2, <3>3, <3>6 DEF HoldInv
  <2> QED BY <2>2, <2>3
<1>3. RankDay \/ UNCHANGED <<bpDay, bpPaid>>
  BY DEF PoolNext, PoolStart, TaskEnds, TakeUp, PoolFails, PoolProceeds, PoolEnds, poolVars
<1> QED BY <1>1, <1>2, <1>3

\* A pool is cut evenly along the factor, from tables nobody still fetches, and its groups
\* are held from one adjustment to the next (tools/fin/backtest.py), for any numbers of
\* days, stocks and groups; the day they are ranked on counts as one they are held on.
THEOREM PoolIsCutFairly == PoolSpec => [](GroupsAreFair /\ GroupsAreHeld /\ CollectionsEnd)
<1>1. PoolInit => PoolInv /\ GroupsAreFair /\ HoldInv
  BY PoolInitially, HeldInitially DEF PoolInit, GroupsAreFair
<1>3. HoldInv => GroupsAreHeld
  BY DEF HoldInv
<1>2. PoolInv => CollectionsEnd
  <2> SUFFICES ASSUME PoolInv PROVE CollectionsEnd
    OBVIOUS
  <2>1. bpPhase \notin {"panel", "valuation"} => "running" \notin Range(bpTasks)
    BY DEF PoolInv, PhasesAreLeft, CollectTypes, TasksAre, Range
  <2>2. DOMAIN bpNews = 1..Len(bpNews) /\ bpFetched \in Nat
    BY DEF PoolInv, CollectTypes
  <2>3. bpPhase \in {"ranking", "done"} => bpNews # <<>> /\ bpNews[Len(bpNews)].fetched = Total
    BY <2>2 DEF PoolInv, PhasesAreLeft, NewsGoUp
  <2> QED BY <2>1, <2>2, <2>3 DEF PoolInv, NewsGoUp, CollectionsEnd
<1> QED BY <1>1, <1>2, <1>3, PoolStep, FairKept, HeldKept, PTL DEF PoolSpec
===============================================================================
