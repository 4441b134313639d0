------------------------------ MODULE VoiceCall ------------------------------
(* A voice call of the web client, across its four parties: the page
   (src/webclient/src/ui/app.ts with ui/voice-call-attempt.ts), its microphone
   (media/voice-capture.ts), the session in the worker (core/session.ts) and
   the remote device.  Page and worker talk by messages posted in order, worker
   and device by frames in order; a request, its answer and a hang-up can cross
   on the way.

   Abstracted: the timestamp that names a request is its number; the Opus
   encoder, its format and its frames are one "audio" message; a generation or
   epoch counter is kept as what it is read for, whether an awaited answer still
   belongs to the current one. *)
EXTENDS Integers, Sequences, FiniteSets

CONSTANTS MaxCalls,     \* bound: calls the user asks for
          MaxSessions   \* bound: sessions the page opens

ASSUME VoiceAssumption == MaxCalls \in Nat /\ MaxSessions \in Nat

VARIABLES
    callState,    \* the page's voiceCallState
    streaming,    \* the page's session is live
    sessions,     \* sessions opened so far (bounded)
    audioAllowed, \* the device permits audio
    preparing,    \* microphone requests the browser has not answered, each with
                  \* whether it still has the attempt's generation (owned), the
                  \* capture controller's epoch (mine) and the page's sessionEpoch
    stream,       \* the controller holds a microphone stream
    pumping,      \* the controller reads it
    asks,         \* clicks that asked for a call (bounded)
    pending,      \* Session.pendingVoiceCallTimestamp; 0: none
    accepted,     \* Session.voiceCallAccepted
    requests,     \* requests made so far: the clock that stamps them
    toWorker, toPage, toDevice, toSession,
    device        \* the call the device is "in" or was "asked" for, or "idle"

pageVars == <<callState, streaming, sessions, audioAllowed, asks>>
captureVars == <<preparing, stream, pumping>>
callSessionVars == <<pending, accepted, requests>>
voiceVars == <<pageVars, captureVars, callSessionVars, toWorker, toPage, toDevice,
               toSession, device>>

InProtocol == callState \in {"waiting", "connected"}
-----------------------------------------------------------------------------
(* The page and its microphone. *)

\* Mutant: an attempt still waiting for the browser is not invalidated.
StopCaptureOnly ==
    /\ stream' = FALSE
    /\ pumping' = FALSE
    /\ UNCHANGED preparing

\* VoiceCaptureController.stop, with VoiceCallAttemptOwner.invalidate, which the
\* page always calls with it: the tracks stop, and whatever is still awaited
\* belongs to an earlier attempt.
StopCapture ==
    /\ preparing' = {[p EXCEPT !.mine = FALSE, !.owned = FALSE] : p \in preparing}
    /\ stream' = FALSE
    /\ pumping' = FALSE

\* Mutant: the device is told of the end of a connected call only.
EndVoiceCallIfConnected(sendClose) ==
    /\ StopCapture
    /\ callState' = "idle"
    /\ toWorker' = IF sendClose /\ callState = "connected" THEN Append(toWorker, "close") ELSE toWorker

\* RdApp.endVoiceCall; the device is told of the end of a call it knows of.
EndVoiceCall(sendClose) ==
    /\ StopCapture
    /\ callState' = "idle"
    /\ toWorker' = IF sendClose /\ InProtocol THEN Append(toWorker, "close") ELSE toWorker

\* The Voice call button: end the call, or ask the browser for the microphone.
ToggleVoiceCall ==
    /\ streaming /\ callState # "preparing"
    /\ IF InProtocol
       THEN /\ EndVoiceCall(TRUE)
            /\ UNCHANGED asks
       ELSE /\ audioAllowed /\ asks < MaxCalls
            /\ asks' = asks + 1
            /\ callState' = "preparing"
            /\ stream' = FALSE /\ pumping' = FALSE
            /\ preparing' = {[p EXCEPT !.mine = FALSE, !.owned = FALSE] : p \in preparing}
                 \cup {[owned |-> TRUE, mine |-> TRUE, session |-> TRUE]}
            /\ UNCHANGED toWorker
    /\ UNCHANGED <<streaming, sessions, audioAllowed, callSessionVars, toPage,
                   toDevice, toSession, device>>

\* The browser answers a microphone request, with a stream or a refusal:
\* VoiceCaptureController.prepare, then the continuation of toggleVoiceCall.  A
\* stream of an earlier epoch is stopped at once.
Prepared(p, granted) ==
    /\ p \in preparing
    /\ preparing' = preparing \ {p}
    /\ IF ~p.owned \/ ~p.session \/ callState # "preparing"
       THEN /\ stream' = (stream \/ (p.mine /\ granted))
            /\ UNCHANGED <<callState, pumping, toWorker>>
       ELSE IF p.mine /\ granted /\ streaming /\ audioAllowed
       THEN /\ callState' = "waiting"
            /\ stream' = TRUE
            /\ toWorker' = Append(toWorker, "start")
            /\ UNCHANGED pumping
       ELSE /\ callState' = "idle"
            /\ stream' = FALSE /\ pumping' = FALSE
            /\ UNCHANGED toWorker
    /\ UNCHANGED <<streaming, sessions, audioAllowed, asks, callSessionVars, toPage,
                   toDevice, toSession, device>>

\* The microphone fails while it is read.
CaptureFails ==
    /\ pumping
    /\ EndVoiceCall(TRUE)
    /\ UNCHANGED <<streaming, sessions, audioAllowed, asks, callSessionVars, toPage,
                   toDevice, toSession, device>>

\* A frame of the microphone is encoded and handed to the worker (bound: one
\* is on its way at a time).
Speak ==
    /\ pumping
    /\ \A i \in 1 .. Len(toWorker) : toWorker[i] # "audio"
    /\ \A i \in 1 .. Len(toDevice) : toDevice[i].k # "audio"
    /\ toWorker' = Append(toWorker, "audio")
    /\ UNCHANGED <<pageVars, captureVars, callSessionVars, toPage, toDevice, toSession, device>>

\* RdApp.onVoiceCall: what the session said of the call.
OnVoiceCall ==
    /\ streaming /\ toPage # <<>>
    /\ toPage' = Tail(toPage)
    /\ LET news == Head(toPage) IN
       \/ /\ news = "accepted"
          /\ IF stream /\ ~pumping
             THEN /\ callState' = "connected"
                  /\ pumping' = TRUE
                  /\ UNCHANGED <<stream, preparing, toWorker>>
             ELSE EndVoiceCall(TRUE)
          /\ UNCHANGED audioAllowed
       \/ /\ news = "waiting"
          /\ callState' = "waiting"
          /\ UNCHANGED <<captureVars, audioAllowed, toWorker>>
       \/ /\ news \in {"rejected", "closed"}
          /\ StopCapture
          /\ callState' = "idle"
          /\ UNCHANGED <<audioAllowed, toWorker>>
       \/ /\ news \in {"audio on", "audio off"}
          /\ audioAllowed' = (news = "audio on")
          /\ IF news = "audio off" /\ callState # "idle"
             THEN EndVoiceCall(TRUE)
             ELSE UNCHANGED <<callState, captureVars, toWorker>>
    /\ UNCHANGED <<streaming, sessions, asks, callSessionVars, toDevice, toSession, device>>

\* The session ends, by the page's disconnect or by the network: the page's
\* teardown drops the worker, and the worker the sockets.
SessionEnds ==
    /\ streaming
    /\ streaming' = FALSE
    /\ preparing' = {[owned |-> FALSE, mine |-> FALSE, session |-> FALSE] : p \in preparing}
    /\ stream' = FALSE /\ pumping' = FALSE
    /\ callState' = "idle"
    /\ audioAllowed' = TRUE
    /\ pending' = 0 /\ accepted' = FALSE
    /\ toWorker' = <<>> /\ toPage' = <<>> /\ toDevice' = <<>> /\ toSession' = <<>>
    /\ device' = [k |-> "idle", req |-> 0]
    /\ UNCHANGED <<asks, requests, sessions>>

SessionStarts ==
    /\ ~streaming /\ sessions < MaxSessions
    /\ streaming' = TRUE
    /\ sessions' = sessions + 1
    /\ UNCHANGED <<callState, audioAllowed, asks, captureVars,
                   callSessionVars, toWorker, toPage, toDevice, toSession, device>>
-----------------------------------------------------------------------------
(* The session in the worker. *)

\* startVoiceCall, closeVoiceCall and sendVoiceAudioFrame.
WorkerCommand ==
    /\ toWorker # <<>>
    /\ toWorker' = Tail(toWorker)
    /\ LET cmd == Head(toWorker) IN
       \/ /\ cmd = "start"
          /\ IF pending # 0
             THEN UNCHANGED <<pending, accepted, requests, toDevice, toPage>>
             ELSE /\ requests' = requests + 1
                  /\ pending' = requests'
                  /\ toDevice' = Append(toDevice, [k |-> "request", req |-> requests'])
                  /\ toPage' = Append(toPage, "waiting")
                  /\ UNCHANGED accepted
       \/ /\ cmd = "close"
          /\ pending' = 0
          /\ accepted' = FALSE
          /\ toDevice' = Append(toDevice, [k |-> "hangup", req |-> 0])
          /\ toPage' = Append(toPage, "closed")
          /\ UNCHANGED requests
       \/ /\ cmd = "audio"
          /\ toDevice' = IF accepted THEN Append(toDevice, [k |-> "audio", req |-> 0]) ELSE toDevice
          /\ UNCHANGED <<pending, accepted, requests, toPage>>
    /\ UNCHANGED <<pageVars, captureVars, toSession, device>>

\* A voice_call_response consumes the request it may or may not answer; a
\* voice_call_request is acted on only when it hangs up; a permission is passed on.
SessionFrame ==
    /\ toSession # <<>>
    /\ toSession' = Tail(toSession)
    /\ LET f == Head(toSession) IN
       \/ /\ f.k \in {"accept", "reject"}
          /\ pending' = 0
          /\ accepted' = IF pending # 0 /\ pending = f.req THEN f.k = "accept" ELSE accepted
          /\ toPage' = IF pending = 0 THEN toPage
                       ELSE Append(toPage, IF pending # f.req THEN "closed"
                                           ELSE IF f.k = "accept" THEN "accepted" ELSE "rejected")
       \/ /\ f.k = "hangup"
          /\ pending' = 0
          /\ accepted' = FALSE
          /\ toPage' = IF pending # 0 \/ accepted THEN Append(toPage, "closed") ELSE toPage
       \/ /\ f.k \in {"audio on", "audio off"}
          /\ toPage' = Append(toPage, f.k)
          /\ UNCHANGED <<pending, accepted>>
    /\ UNCHANGED <<pageVars, captureVars, requests, toWorker, toDevice, device>>
-----------------------------------------------------------------------------
(* The device, as the session relies on it: its user answers or hangs up. *)

DeviceReceives ==
    /\ toDevice # <<>>
    /\ toDevice' = Tail(toDevice)
    /\ LET f == Head(toDevice) IN
       device' = CASE f.k = "request" -> [k |-> "asked", req |-> f.req]
                   [] f.k = "hangup" -> [k |-> "idle", req |-> 0]
                   [] OTHER -> device
    /\ UNCHANGED <<pageVars, captureVars, callSessionVars, toWorker, toPage, toSession>>

DeviceAnswers(k) ==
    /\ device.k = "asked"
    /\ toSession' = Append(toSession, [k |-> k, req |-> device.req])
    /\ device' = IF k = "accept" THEN [device EXCEPT !.k = "in"] ELSE [k |-> "idle", req |-> 0]
    /\ UNCHANGED <<pageVars, captureVars, callSessionVars, toWorker, toPage, toDevice>>

DeviceHangsUp ==
    /\ device.k = "in"
    /\ toSession' = Append(toSession, [k |-> "hangup", req |-> 0])
    /\ device' = [k |-> "idle", req |-> 0]
    /\ UNCHANGED <<pageVars, captureVars, callSessionVars, toWorker, toPage, toDevice>>

\* At most one change of the permission is under way (bound).
DevicePermitsAudio(k) ==
    /\ streaming
    /\ \A i \in 1 .. Len(toSession) : toSession[i].k \notin {"audio on", "audio off"}
    /\ \A i \in 1 .. Len(toPage) : toPage[i] \notin {"audio on", "audio off"}
    /\ audioAllowed = (k = "audio off")
    /\ toSession' = Append(toSession, [k |-> k, req |-> 0])
    /\ UNCHANGED <<pageVars, captureVars, callSessionVars, toWorker, toPage, toDevice, device>>
-----------------------------------------------------------------------------
VoiceInit ==
    /\ callState = "idle" /\ streaming = TRUE /\ sessions = 0 /\ audioAllowed = TRUE
    /\ asks = 0
    /\ preparing = {} /\ stream = FALSE /\ pumping = FALSE
    /\ pending = 0 /\ accepted = FALSE /\ requests = 0
    /\ toWorker = <<>> /\ toPage = <<>> /\ toDevice = <<>> /\ toSession = <<>>
    /\ device = [k |-> "idle", req |-> 0]

VoiceNext ==
    \/ ToggleVoiceCall \/ CaptureFails \/ Speak \/ OnVoiceCall
    \/ \E p \in preparing, granted \in BOOLEAN : Prepared(p, granted)
    \/ SessionEnds \/ SessionStarts \/ WorkerCommand \/ SessionFrame
    \/ DeviceReceives \/ DeviceHangsUp
    \/ \E k \in {"accept", "reject"} : DeviceAnswers(k)
    \/ \E k \in {"audio on", "audio off"} : DevicePermitsAudio(k)

VoiceSpec == VoiceInit /\ [][VoiceNext]_voiceVars
-----------------------------------------------------------------------------
(* Properties. *)

\* The types of the variables.
VoiceTypeOK ==
    /\ callState \in {"idle", "preparing", "waiting", "connected"}
    /\ streaming \in BOOLEAN /\ audioAllowed \in BOOLEAN
    /\ sessions \in 0 .. MaxSessions /\ asks \in 0 .. MaxCalls
    /\ preparing \subseteq [owned : BOOLEAN, mine : BOOLEAN, session : BOOLEAN]
    /\ stream \in BOOLEAN /\ pumping \in BOOLEAN /\ accepted \in BOOLEAN
    /\ requests \in 0 .. MaxCalls /\ pending \in 0 .. requests
    /\ device \in [k : {"idle", "asked", "in"}, req : 0 .. requests]

\* The microphone is held only for a call the page shows: a page that shows no
\* call, or is only preparing one, neither holds a stream nor reads one.
MicrophoneFollowsCall ==
    /\ stream => callState \in {"waiting", "connected"}
    /\ pumping => stream /\ callState \in {"waiting", "connected"}

\* When no message is on its way between them, page and session agree on the call:
\* answers, hang-ups, refusals and clicks that crossed on the way have not left a call
\* on one side only.  A request can be pending in a session whose call is accepted: the
\* closing of a call before can reach the page after the user has asked again, who then
\* asks once more, and startVoiceCall sends the second of the requests during the call
\* that the first one brought about.  The page shows that as waiting.
PageAndSessionAgree ==
    streaming /\ toWorker = <<>> /\ toPage = <<>> =>
        /\ (callState = "connected") <=> (accepted /\ pending = 0)
        /\ (callState = "waiting") <=> (pending # 0)
=============================================================================
