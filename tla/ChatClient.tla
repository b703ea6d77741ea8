------------------------------ MODULE ChatClient ------------------------------
(***************************************************************************)
(* The web client: the chat panel with the stream it reads                  *)
(* (frontend/src/components/ChatPanel.tsx, api/client.ts), its queue of      *)
(* prompts (lib/interactionQueue.ts) and its timers, and the App around it   *)
(* that selects conversations, keeps their views and loads their history.    *)
(* The server is any stream of frames its protocol allows, which may break   *)
(* off at any point.  Of a turn, what is shown as running is kept; texts,    *)
(* labels and metrics are not.                                              *)
(***************************************************************************)
EXTENDS Naturals, Sequences, SequencesExt

CONSTANTS Dialogs,    \* conversations the server may assign or list
          Asks,       \* ids of prompts
          NoDialog,   \* no conversation selected, nothing restored
          MaxSends    \* bound: turns the user sends and settings they save

VARIABLES
    ccShown,    \* App: conversationId
    ccHistory,  \* App: historyConversationId, with a non-empty history
    ccReads,    \* App: loads under way, live or cancelled
    ccViews,    \* App: the cached views of conversations
    ccDelete,   \* App: a deletion under way, with what was shown at its click
    ccRestart,  \* App: settings saved, a restart to come; what was shown at that click
    ccMisfiled, \* history: conversations a late restart has cached another's panel under
    ccStream,   \* "none", "open", or "aborted" with its finally still to run
    ccContent,  \* conversation the messages of the panel belong to
    ccTrace,    \* status of the newest turn; "none": the panel sent nothing
    ccRunning,  \* steps of that turn shown as running
    ccRestored, \* that turn came from a cached view
    ccPhase,    \* newest public state of the run
    ccSettled, ccStopping, ccGrace, ccDog, ccQueue,  \* the refs of the panel
    ccStopSent, \* a stop request is under way
    ccAsking,   \* prompts delivered on this stream and not resolved
    ccPosted,   \* those of them the user has answered
    ccSends

appVars == <<ccShown, ccHistory, ccReads, ccViews, ccDelete, ccRestart, ccMisfiled>>
turnVars == <<ccContent, ccTrace, ccRunning, ccRestored, ccPhase>>
refVars == <<ccSettled, ccStopping, ccGrace, ccDog, ccQueue, ccStopSent>>
askVars == <<ccAsking, ccPosted>>
panelVars == <<appVars, ccStream, turnVars, refVars, askVars, ccSends>>

Steps == {"analysis", "work", "final"} \cup Asks
Statuses == {"done", "stopped", "error"}
Chosen == Dialogs \cup {NoDialog}

ClientTypeOK ==
    /\ ccShown \in Chosen /\ ccHistory \in Chosen /\ ccContent \in Chosen
    /\ ccReads \subseteq [of : Dialogs, live : BOOLEAN]
    /\ \A d \in DOMAIN ccViews : /\ d \in Dialogs /\ ccViews[d].of \in Chosen
                                 /\ ccViews[d].running \subseteq Steps
    /\ ccDelete \in (Dialogs \X Chosen) \cup {NoDialog}
    /\ ccRestart \in {<<>>} \cup {<<d>> : d \in Chosen} /\ ccMisfiled \subseteq Dialogs
    /\ ccStream \in {"none", "open", "aborted"}
    /\ ccTrace \in {"none", "running"} \cup Statuses /\ ccRunning \subseteq Steps
    /\ ccPhase \in {"none", "running"} \cup Statuses
    /\ ccQueue \in Seq(Asks) /\ IsInjective(ccQueue)
    /\ ccAsking \subseteq Asks /\ ccPosted \subseteq Asks /\ ccSends \in 0..MaxSends

ClientInit ==
    /\ ccShown = NoDialog /\ ccHistory = NoDialog /\ ccReads = {} /\ ccDelete = NoDialog
    /\ ccViews = <<>> /\ ccRestart = <<>> /\ ccMisfiled = {}
    /\ ccStream = "none" /\ ccContent = NoDialog /\ ccTrace = "none" /\ ccRunning = {}
    /\ ccRestored = FALSE /\ ccPhase = "none"
    /\ ccSettled = FALSE /\ ccStopping = FALSE /\ ccGrace = FALSE /\ ccDog = FALSE
    /\ ccQueue = <<>> /\ ccStopSent = FALSE
    /\ ccAsking = {} /\ ccPosted = {} /\ ccSends = 0

-------------------------------------------------------------------------------
(* A turn *)

HasMessages == ccContent # NoDialog \/ ccTrace # "none"

\* sendMessage: a new turn, its stream and the watchdog.  What is sent before the
\* first frame names a new conversation belongs to none yet.
SendMessage ==
    /\ ccStream = "none" /\ ccSends < MaxSends
    /\ ccStream' = "open" /\ ccSends' = ccSends + 1
    /\ ccTrace' = "running" /\ ccRunning' = {"analysis"} /\ ccRestored' = FALSE
    /\ ccPhase' = "none"
    /\ ccSettled' = FALSE /\ ccStopping' = FALSE /\ ccDog' = TRUE
    /\ ccAsking' = {} /\ ccPosted' = {}
    /\ ccContent' = IF HasMessages THEN ccContent ELSE ccShown
    /\ UNCHANGED <<appVars, ccGrace, ccQueue, ccStopSent>>

\* A frame with what it makes of the queue, the steps and the status; the
\* watchdog sleeps while a prompt is open (syncWatchdog).
Frame(queue, running, status) ==
    /\ ccStream = "open"
    /\ ccQueue' = queue /\ ccDog' = (queue = <<>>)
    /\ ccRunning' = running /\ ccTrace' = status
    /\ UNCHANGED <<ccStream, ccRestored, ccStopping, ccGrace, ccStopSent, ccSends>>

Keeps == UNCHANGED <<appVars, ccContent, ccPhase, ccSettled, askVars>>

\* The reads of a selection: the effect of the former one is cancelled.
Selecting(d) ==
    {[r EXCEPT !.live = FALSE] : r \in ccReads}
    \cup {[of |-> x, live |-> TRUE] : x \in {d} \ {NoDialog}}

\* The first frame names the conversation; App adopts a new one.
SessionFrame(d) ==
    /\ d = ccShown \/ (ccShown = NoDialog /\ d \notin DOMAIN ccViews)
    /\ Frame(ccQueue, ccRunning, ccTrace)
    /\ ccContent' = IF ccShown = NoDialog THEN d ELSE ccContent
    /\ ccShown' = d
    /\ ccReads' = IF d = ccShown THEN ccReads ELSE Selecting(d)
    /\ UNCHANGED <<ccHistory, ccViews, ccDelete, ccRestart, ccMisfiled, ccPhase, ccSettled,
                   askVars>>

\* A state of a newer revision; only a final phase shows in the turn.
StateFrame(phase) ==
    /\ ccPhase \in {"none", "running"}
    /\ ccPhase' = phase
    /\ Frame(ccQueue, ccRunning, IF phase = "running" THEN ccTrace ELSE phase)
    /\ UNCHANGED <<appVars, ccContent, ccSettled, askVars>>

\* A routed skill or a tool that starts; the former skill is closed.
WorkStarts == /\ ~ccSettled /\ Keeps
              /\ Frame(ccQueue, (ccRunning \ {"analysis"}) \cup {"work"}, ccTrace)

\* A tool ends, perhaps beside others.
WorkEnds == Keeps /\ \E r \in {ccRunning, ccRunning \ {"work"}} : Frame(ccQueue, r, ccTrace)

\* Progress, compaction, plan and answer: nothing starts or stops running.
NoticeFrame == Keeps /\ Frame(ccQueue, ccRunning, ccTrace)

DeltaFrame == /\ ~ccSettled /\ Keeps
              /\ Frame(ccQueue, (ccRunning \ {"analysis"}) \cup {"final"}, ccTrace)

ResetFrame == Keeps /\ Frame(ccQueue, ccRunning \ {"final"}, ccTrace)

-------------------------------------------------------------------------------
(* Prompts *)

\* A slip: the newest prompt takes the place of the one that is shown.
EnqueueLatest(queue, q) == <<q>>

\* A prompt that is delivered twice is queued once.
Enqueue(queue, q) == IF Contains(queue, q) THEN queue ELSE Append(queue, q)

\* interactive_request; merged requests deliver one id several times.
AskFrame(q) ==
    /\ ~ccSettled
    /\ ccAsking' = ccAsking \cup {q}
    /\ Frame(Enqueue(ccQueue, q), ccRunning \cup {q}, ccTrace)
    /\ UNCHANGED <<appVars, ccContent, ccPhase, ccSettled, ccPosted>>

\* interaction_resolved, by an answer, a refusal or the server's time-out; a prompt is
\* in the queue once at most.
ResolvedFrame(q) ==
    /\ q \in ccAsking
    /\ ccAsking' = ccAsking \ {q} /\ ccPosted' = ccPosted \ {q}
    /\ Frame(RemoveFirst(ccQueue, q), ccRunning \ {q}, ccTrace)
    /\ UNCHANGED <<appVars, ccContent, ccPhase, ccSettled>>

\* handleRespond: the prompt leaves the queue before the answer is posted, and
\* does not come back if the post fails.
HandleRespond ==
    /\ ccQueue # <<>>
    /\ ccQueue' = Tail(ccQueue)
    /\ ccPosted' = ccPosted \cup {Head(ccQueue)}
    /\ ccDog' = (ccStream # "none" /\ ccQueue' = <<>>)
    /\ UNCHANGED <<appVars, ccStream, turnVars, ccSettled, ccStopping, ccGrace, ccStopSent,
                   ccAsking, ccSends>>

-------------------------------------------------------------------------------
(* The end of a turn *)

ErrorFrame ==
    /\ ~ccSettled /\ ccSettled' = TRUE
    /\ Frame(<<>>, {}, "error")
    /\ UNCHANGED <<appVars, ccContent, ccPhase, askVars>>

\* done: the newest public state decides the status, if there is one.
DoneFrame(how) ==
    /\ ccSettled' = TRUE
    /\ Frame(<<>>, {}, IF ccPhase = "none" THEN how ELSE ccPhase)
    /\ UNCHANGED <<appVars, ccContent, ccPhase, askVars>>

\* A slip: the queue is emptied while the stream still counts as active.
FinallyQueueFirst ==
    /\ ccStream \in {"open", "aborted"}
    /\ ccStream' = "none"
    /\ ccGrace' = FALSE
    /\ ccDog' = ~ccSettled
    /\ ccTrace' = IF ccSettled THEN ccTrace ELSE IF ccStopping THEN "stopped" ELSE "error"
    /\ ccRunning' = IF ccSettled THEN ccRunning ELSE {}
    /\ ccQueue' = IF ccSettled THEN ccQueue ELSE <<>>
    /\ UNCHANGED <<appVars, ccContent, ccRestored, ccPhase, ccSettled, ccStopping, ccStopSent,
                   askVars, ccSends>>

\* catch and finally, after the server's end, a break or an abort: the stream is
\* marked as over before the queue is emptied, so the watchdog stays off.
Finally ==
    /\ ccStream \in {"open", "aborted"}
    /\ ccStream' = "none"
    /\ ccGrace' = FALSE /\ ccDog' = FALSE
    /\ ccTrace' = IF ccSettled THEN ccTrace ELSE IF ccStopping THEN "stopped" ELSE "error"
    /\ ccRunning' = IF ccSettled THEN ccRunning ELSE {}
    /\ ccQueue' = IF ccSettled THEN ccQueue ELSE <<>>
    /\ UNCHANGED <<appVars, ccContent, ccRestored, ccPhase, ccSettled, ccStopping, ccStopSent,
                   askVars, ccSends>>

Aborted == IF ccStream = "open" THEN "aborted" ELSE ccStream

\* 90 s without a frame.
WatchdogFires ==
    /\ ccDog /\ ccDog' = FALSE
    /\ ccStream' = Aborted
    /\ UNCHANGED <<appVars, turnVars, ccSettled, ccStopping, ccGrace, ccQueue, ccStopSent,
                   askVars, ccSends>>

\* stop(): the grace period starts before the request.
Stop ==
    /\ ccStream # "none" /\ ~ccStopping
    /\ ccStopping' = TRUE /\ ccGrace' = TRUE /\ ccStopSent' = TRUE
    /\ UNCHANGED <<appVars, ccStream, turnVars, ccSettled, ccDog, ccQueue, askVars, ccSends>>

GraceRunsOut ==
    /\ ccGrace /\ ccGrace' = FALSE
    /\ ccStream' = Aborted
    /\ UNCHANGED <<appVars, turnVars, ccSettled, ccStopping, ccDog, ccQueue, ccStopSent,
                   askVars, ccSends>>

StopTaken ==
    /\ ccStopSent /\ ccStopSent' = FALSE
    /\ UNCHANGED <<appVars, ccStream, turnVars, ccSettled, ccStopping, ccGrace, ccDog, ccQueue,
                   askVars, ccSends>>

\* The request has failed: whatever stream is open by then is cut.
StopRefused ==
    /\ ccStopSent /\ ccStopSent' = FALSE
    /\ ccGrace' = FALSE
    /\ ccStream' = Aborted
    /\ UNCHANGED <<appVars, turnVars, ccSettled, ccStopping, ccDog, ccQueue, askVars, ccSends>>

-------------------------------------------------------------------------------
(* Conversations *)

View == [of |-> ccContent, trace |-> ccTrace, running |-> ccRunning]

\* cacheCurrentView, called by a render that showed d: the panel of now goes under d.
ViewsWith(d) ==
    IF d = NoDialog \/ ~HasMessages THEN ccViews
    ELSE [x \in DOMAIN ccViews \cup {d} |-> IF x = d THEN View ELSE ccViews[x]]

\* A slip: the loaded history is handed to whatever panel is mounted.
RestoredUnchecked(d, history) == history

\* restoredMessages: the loaded history, if it is that of the conversation.
RestoredMessages(d, history) == IF history = d THEN d ELSE NoDialog

\* The panel is mounted anew for d: from the cached view or the loaded history.
\* The former one has asked for a stop and cut its stream; its finally block no
\* longer touches the screen.
Mount(d, views, history) ==
    /\ ccStream' = "none"
    /\ IF d \in DOMAIN views
       THEN /\ ccContent' = views[d].of /\ ccTrace' = views[d].trace
            /\ ccRunning' = views[d].running
       ELSE /\ ccContent' = RestoredMessages(d, history)
            /\ ccTrace' = "none" /\ ccRunning' = {}
    /\ ccRestored' = (d \in DOMAIN views)
    /\ ccPhase' = "none" /\ ccSettled' = FALSE /\ ccStopping' = FALSE
    /\ ccGrace' = FALSE /\ ccDog' = FALSE /\ ccQueue' = <<>> /\ ccStopSent' = FALSE
    /\ ccAsking' = {} /\ ccPosted' = {}
    /\ UNCHANGED ccSends

SelectConversation(d) ==
    /\ d \in Dialogs /\ d # ccShown
    /\ ccViews' = ViewsWith(ccShown)
    /\ ccShown' = d
    /\ ccReads' = Selecting(d)
    /\ Mount(d, ViewsWith(ccShown), ccHistory)
    /\ UNCHANGED <<ccHistory, ccDelete, ccRestart, ccMisfiled>>

StartNewConversation(views) ==
    /\ ccShown' = NoDialog /\ ccHistory' = NoDialog
    /\ ccViews' = views
    /\ ccReads' = Selecting(NoDialog)
    /\ Mount(NoDialog, views, NoDialog)

NewConversation ==
    /\ StartNewConversation(ViewsWith(ccShown))
    /\ UNCHANGED <<ccDelete, ccRestart, ccMisfiled>>

\* Settings are saved with "activate": the handlers of the render of this click go on
\* after the requests, and with them the conversation it showed.
SettingsSaved ==
    /\ ccSends < MaxSends /\ ccSends' = ccSends + 1
    /\ ccRestart = <<>> /\ ccRestart' = <<ccShown>>
    /\ UNCHANGED <<ccShown, ccHistory, ccReads, ccViews, ccDelete, ccMisfiled, ccStream, turnVars,
                   refVars, askVars>>

\* onClose, after refreshConfig: a new conversation, unless no configuration is active.
\* The panel is cached under the conversation of the click, whichever it shows by now.
RestartReturns ==
    /\ ccRestart # <<>> /\ ccRestart' = <<>>
    /\ \/ UNCHANGED <<ccShown, ccHistory, ccReads, ccViews, ccMisfiled, ccStream, turnVars,
                      refVars, askVars, ccSends>>
       \/ /\ StartNewConversation(ViewsWith(ccRestart[1]))
          /\ ccMisfiled' = IF HasMessages /\ ccContent # ccRestart[1]
                           THEN ccMisfiled \cup ({ccRestart[1]} \ {NoDialog}) ELSE ccMisfiled
    /\ UNCHANGED ccDelete

\* The history of the selected conversation arrives (or is empty, or cannot be
\* had); a panel that shows nothing yet takes it.  A cancelled load is dropped.
HistoryArrives(r) ==
    /\ r \in ccReads
    /\ ccReads' = ccReads \ {r}
    /\ \E h \in {r.of, NoDialog} :
         /\ ccHistory' = IF r.live THEN h ELSE ccHistory
         /\ ccContent' = IF ccContent = NoDialog /\ ccTrace = "none"
                         THEN RestoredMessages(ccShown, ccHistory') ELSE ccContent
    /\ UNCHANGED <<ccShown, ccViews, ccDelete, ccRestart, ccMisfiled, ccStream, ccTrace,
                   ccRunning, ccRestored, ccPhase, refVars, askVars, ccSends>>

\* handleDeleteConversation compares, after the request, with the conversation
\* that was shown at the click.
DeleteClicked(d) ==
    /\ ccDelete = NoDialog /\ ccDelete' = <<d, ccShown>>
    /\ UNCHANGED <<ccShown, ccHistory, ccReads, ccViews, ccRestart, ccMisfiled, ccStream,
                   turnVars, refVars, askVars, ccSends>>

DeleteReturns ==
    /\ ccDelete # NoDialog /\ ccDelete' = NoDialog
    /\ LET d == ccDelete[1]
           views == [x \in DOMAIN ccViews \ {d} |-> ccViews[x]]
       IN /\ \/ d = ccDelete[2] /\ StartNewConversation(views)
             \/ /\ d # ccDelete[2] /\ ccViews' = views
                /\ UNCHANGED <<ccShown, ccHistory, ccReads, ccStream, turnVars, refVars,
                               askVars, ccSends>>
          /\ ccMisfiled' = ccMisfiled \ ({d} \ {ccShown})
    /\ UNCHANGED ccRestart

\* The panel, as long as App keeps it mounted: what another panel has left under
\* way works on the refs of that panel.
PanelNext ==
    \/ SendMessage \/ WorkStarts \/ WorkEnds \/ NoticeFrame \/ DeltaFrame \/ ResetFrame
    \/ HandleRespond \/ ErrorFrame \/ Finally \/ WatchdogFires \/ Stop \/ GraceRunsOut
    \/ StopTaken \/ StopRefused
    \/ \E phase \in {"running"} \cup Statuses : StateFrame(phase)
    \/ \E how \in Statuses : DoneFrame(how)
    \/ \E q \in Asks : AskFrame(q) \/ ResolvedFrame(q)

\* App and the panels it mounts, with the turns as far as App sees them.
AppNext ==
    \/ SendMessage \/ DoneFrame("done") \/ Finally \/ NewConversation \/ DeleteReturns
    \/ SettingsSaved \/ RestartReturns
    \/ \E d \in Dialogs : SessionFrame(d) \/ SelectConversation(d) \/ DeleteClicked(d)
    \/ \E r \in ccReads : HistoryArrives(r)

-------------------------------------------------------------------------------
\* A prompt the server waits for stays on the screen until the user answers it,
\* however many arrive at once, and in whatever order they are resolved.
PromptsAreKept ==
    ccStream = "open" /\ ~ccSettled
    => \A q \in ccAsking \ ccPosted : Contains(ccQueue, q)

\* When a stream is over, whatever ended it, no timer that could cut a stream or
\* report a dead one is left, no prompt is open and nothing is shown as running;
\* except in a view that was cached while its stream ran, and for the status of a
\* turn whose last public state was not a final one (lib/agentState.ts:80).
TurnsComeToRest ==
    ccStream = "none" =>
      /\ ~ccDog /\ ~ccGrace /\ ccQueue = <<>>
      /\ ccRestored \/ (ccRunning = {} /\ (ccTrace = "running" => ccPhase = "running"))

\* What the panel shows of its turn is so: the prompts that are open while it runs,
\* and nothing of it once it is over (ChatPanel.tsx:703, :896).
PanelTellsTheTurn == PromptsAreKept /\ TurnsComeToRest

\* The messages of the panel are those of the conversation it is open for, whatever loads,
\* deletions, selections and restarts are under way.  Excepted are conversations under
\* which a restart after a change of settings (App.tsx:455), called by a render in which
\* they were open, has cached the panel of another one, opened in between.
MessagesAreOfTheShown ==
    HasMessages => ccContent = ccShown \/ ccShown \in ccMisfiled
===============================================================================
