------------------------------ MODULE RestartFlow ------------------------------
(* How the page of the web client carries a user over a restart of the remote
   device (src/webclient/src/ui/app.ts): the restart is asked for, the session
   breaks, the page tries again after longer and longer waits until a session
   has lasted a while or two minutes are over.  The user and the device may put
   an end to it at any point, and three timers run meanwhile.

   The session is the one SessionLifecycle promises, as its page sees it.
   Abstracted: the time; a wait ends before the deadline or with it, so all that
   matters of the clock is whether the two minutes are `late`. *)
VARIABLES
    phase, told, \* the session (see SessionLifecycle), as far as the page still has it
    page,     \* RdApp.state: "idle", the phases of a session, "error" or "closed"
    overlay,  \* the overlay: "form" to connect, "busy", or "hidden"
    offered,  \* the overlay's button to cancel the reconnecting is not hidden
    flow,     \* RdApp.restartFlow: there is one
    retry,    \* its timers that are armed: the next attempt's, and the stability check's
    tried,    \* flow.reconnecting
    late,     \* the two minutes of the flow are over
    farewell  \* the user or the device ended it, and the user did not connect since

\* A session the page has no worker for is "idle", whatever it was.
sessionOfPage == <<phase, told>>
restartVars == <<sessionOfPage, page, overlay, offered, retry, flow, tried, late, farewell>>

Life == INSTANCE SessionLifecycle

HasWorker == phase # "idle"
NoSession == phase' = "idle" /\ told' = "idle"
SameSession == UNCHANGED sessionOfPage

\* clearRestartFlow.
ClearFlow ==
    /\ flow' = FALSE /\ retry' = {} /\ tried' = FALSE /\ late' = FALSE
    /\ offered' = FALSE
SameFlow == UNCHANGED <<flow, retry, tried, late, offered>>

\* setState("error") and setState("closed"): the session is torn down.
EndAs(state) ==
    /\ page' = state
    /\ overlay' = "form"
    /\ NoSession

\* startSession: whatever session there was is torn down first.
StartSession ==
    /\ page' = "opening"
    /\ overlay' = "busy"
    /\ phase' = "opening" /\ told' = "opening"
-----------------------------------------------------------------------------
\* Mutant: a break while the new session is being opened is not retried.
ScheduleReconnectOnce ==
    IF "retry" \in retry
    THEN UNCHANGED <<page, overlay>> /\ SameSession /\ SameFlow
    ELSE IF late
    THEN ClearFlow /\ EndAs("error")
    ELSE /\ retry' = IF tried THEN retry \ {"stable"} ELSE (retry \ {"stable"}) \cup {"retry"}
         /\ offered' = TRUE
         /\ NoSession
         /\ page' = "opening"
         /\ overlay' = "busy"
         /\ UNCHANGED <<flow, tried, late>>

\* scheduleRestartReconnect: it waits for the next attempt, unless it is late.
ScheduleReconnect ==
    IF "retry" \in retry
    THEN UNCHANGED <<page, overlay>> /\ SameSession /\ SameFlow
    ELSE IF late
    THEN ClearFlow /\ EndAs("error")
    ELSE /\ retry' = (retry \ {"stable"}) \cup {"retry"}
         /\ offered' = TRUE
         /\ NoSession
         /\ page' = "opening"
         /\ overlay' = "busy"
         /\ UNCHANGED <<flow, tried, late>>

\* onEvent, a state the session goes on to.
SessionGoesOn ==
    /\ HasWorker
    /\ Life!Wait \/ Life!GoLive
    /\ page' = told'
    /\ overlay' = IF told' = "live" THEN "hidden" ELSE "busy"
    /\ IF told' = "live" /\ flow
       THEN retry' = retry \cup {"stable"} /\ offered' = FALSE
       ELSE UNCHANGED <<retry, offered>>
    /\ UNCHANGED <<flow, tried, late, farewell>>

\* onEvent, the end of the session by an error: with a restart under way it is
\* tried again.
SessionBreaks ==
    /\ HasWorker
    /\ IF flow THEN ScheduleReconnect ELSE EndAs("error") /\ SameFlow
    /\ UNCHANGED farewell

\* Mutant: the device's word that the session is over is taken for a break.
SessionClosedRetried ==
    /\ HasWorker
    /\ IF flow THEN ScheduleReconnect ELSE EndAs("closed") /\ SameFlow
    /\ farewell' = TRUE

\* onEvent, the end of the session by the device's close_reason: it is final.
SessionClosed ==
    /\ HasWorker
    /\ IF flow THEN ClearFlow ELSE SameFlow
    /\ EndAs("closed")
    /\ farewell' = TRUE

\* onEvent, loginError: the form again; the state stays what it was.
LoginError ==
    /\ HasWorker /\ phase = "opening"
    /\ ClearFlow
    /\ NoSession
    /\ overlay' = "form"
    /\ UNCHANGED <<page, farewell>>

\* worker.onerror: the flow is not asked.
WorkerError ==
    /\ HasWorker
    /\ EndAs("error")
    /\ SameFlow
    /\ UNCHANGED farewell

\* applyPermission: the device no longer permits a restart.
RestartForbidden ==
    /\ HasWorker /\ flow
    /\ ClearFlow
    /\ IF page = "live" THEN UNCHANGED <<page, overlay>> /\ SameSession ELSE EndAs("error")
    /\ UNCHANGED farewell
-----------------------------------------------------------------------------
(* The user. *)

ConnectClick ==
    /\ overlay = "form"
    /\ HasWorker => page \in {"error", "closed"}
    /\ StartSession
    /\ SameFlow
    /\ farewell' = FALSE

\* beginRemoteRestart; an earlier flow is given up.
BeginRestart ==
    /\ page = "live"
    /\ flow' = TRUE /\ retry' = {} /\ tried' = FALSE /\ late' = FALSE
    /\ offered' = TRUE
    /\ UNCHANGED <<page, overlay, farewell>>
    /\ SameSession

\* The Disconnect button, shown in a live session.
DisconnectClick ==
    /\ page = "live"
    /\ ClearFlow
    /\ EndAs("closed")
    /\ farewell' = TRUE

\* cancelRestartReconnect, by the overlay's button: a live session is kept.
CancelReconnect ==
    /\ overlay # "hidden" /\ offered /\ flow
    /\ ClearFlow
    /\ IF page = "live" THEN UNCHANGED <<page, overlay>> /\ SameSession ELSE EndAs("closed")
    /\ farewell' = (page # "live")
-----------------------------------------------------------------------------
(* The timers. *)

TwoMinutesPass ==
    /\ flow /\ ~late
    /\ late' = TRUE
    /\ UNCHANGED <<sessionOfPage, page, overlay, offered, retry, flow, tried, farewell>>

\* expireRestartFlow, at the deadline.
Expire ==
    /\ flow /\ late
    /\ ClearFlow
    /\ IF ~tried /\ page = "live"
       THEN UNCHANGED <<page, overlay>> /\ SameSession
       ELSE EndAs("error")
    /\ UNCHANGED farewell

\* The timer of the next attempt; when it is late it does what Expire does.
RetryTimer ==
    /\ "retry" \in retry /\ ~late
    /\ retry' = retry \ {"retry"}
    /\ tried' = TRUE
    /\ StartSession
    /\ UNCHANGED <<flow, late, offered, farewell>>

StableTimer ==
    /\ "stable" \in retry
    /\ IF page = "live"
       THEN ClearFlow
       ELSE retry' = retry \ {"stable"} /\ UNCHANGED <<flow, tried, late, offered>>
    /\ UNCHANGED <<sessionOfPage, page, overlay, farewell>>
-----------------------------------------------------------------------------
RestartInit ==
    /\ phase = "idle" /\ told = "idle"
    /\ page = "idle" /\ overlay = "form"
    /\ offered = FALSE /\ retry = {} /\ flow = FALSE /\ tried = FALSE /\ late = FALSE
    /\ farewell = FALSE

RestartNext ==
    \/ SessionGoesOn \/ LoginError \/ WorkerError \/ RestartForbidden
    \/ SessionBreaks \/ SessionClosed
    \/ ConnectClick \/ BeginRestart \/ DisconnectClick \/ CancelReconnect
    \/ TwoMinutesPass \/ Expire \/ RetryTimer \/ StableTimer

RestartSpec == RestartInit /\ [][RestartNext]_restartVars
-----------------------------------------------------------------------------
\* The types of the variables.
RestartTypeOK ==
    /\ phase \in Life!Phases /\ told \in Life!Phases
    /\ page \in Life!Phases \cup {"error", "closed"} /\ overlay \in {"form", "busy", "hidden"}
    /\ offered \in BOOLEAN /\ retry \subseteq {"retry", "stable"}
    /\ flow \in BOOLEAN /\ tried \in BOOLEAN /\ late \in BOOLEAN /\ farewell \in BOOLEAN

\* A page that shows itself busy has a session that will say more, or a timer
\* that will start one: it is never left busy with nothing to come.  And a timer
\* to start one never runs while there is a session.
NeverStranded ==
    /\ overlay = "busy" => HasWorker \/ "retry" \in retry
    /\ "retry" \in retry => ~HasWorker /\ overlay = "busy" /\ flow

\* Once the user left, or the device's user ended the session, no session is
\* begun but by the user: no retry is armed, and none is left of before.
FarewellIsFinal == farewell => ~HasWorker /\ ~flow
=============================================================================
