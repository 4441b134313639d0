----------------------------- MODULE WebSession -----------------------------
(* One connection of the web client: the session worker that owns the two
   WebSockets (src/webclient/src/worker/session.worker.ts, WorkerHost), the
   protocol core it drives (core/session.ts, Session) and the transport
   (transport/ws-stream.ts, WsStream).

   A step is one task of the worker's event loop: a command of the page, a
   socket event, a timer, or the completion of an awaited operation together
   with the microtasks that run on from it.  The login hash is awaited but is
   computed without leaving the task, so answering a `hash` is one step; the
   libraries' start-up, the codec probe and the two socket openings really
   suspend the handler, and anything may happen before it goes on.

   Abstracted: the bytes.  A signed message is "good" (both signatures and the
   identity in it check out) or "bad"; a sealed frame opens or it does not. *)
EXTENDS Integers, Sequences, FiniteSets

CONSTANTS
    Codecs,        \* video codecs the browser may decode
    MaxFrames,     \* bound: messages in flight from the peer, and unacknowledged frames
    MaxChanges     \* bound: changes of what is advertised as decodable

ASSUME WebSessionAssumption == MaxFrames \in Nat /\ MaxChanges \in Nat

VARIABLES
    connect,   \* how far WorkerHost.connect has come
    canvas,    \* a video connection (false: file transfer or terminal)
    tornDown,  \* WorkerHost.tornDown
    timer,     \* the connect watchdog is armed
    pipes,     \* the decoding pipelines: "none", "open", "closed"
    ws1,       \* socket to the id server: "none", "open"
    ws2,       \* socket to the relay: "none", "dialing", "open"
    state,     \* Session.state; "none" before there is a session
    cipher,    \* the stream cipher is installed
    loginSent, \* Session.loginSent
    decoding,  \* Session.decoding
    disabled,  \* codecs the video pipeline gave up on
    asked,     \* the id server owes an answer to the punch-hole request
    trust,     \* the links of the identity chain the environment served as good
    peer,      \* the remote device: "away", "keying", "login", "asking", "in", "gone"
    inbox,     \* frames from the remote device not yet delivered
    outbox,    \* frames to the remote device not yet received
    unacked,   \* frames the remote device sent and saw no acknowledgement for
    peerDec,   \* what the remote device last heard of our decoders
    changes,   \* advertised changes so far (bounded)
    shown      \* the last state the page was told; "none" before any

hostVars == <<connect, canvas, tornDown, timer, pipes, ws1, ws2>>
sessionVars == <<state, cipher, loginSent, decoding, disabled>>
peerVars == <<asked, trust, peer, inbox, outbox, unacked, peerDec, changes>>
webVars == <<hostVars, sessionVars, peerVars, shown>>

Settled == {"needAccept", "streaming", "error", "closed"}
Over == {"error", "closed"}
States == {"connecting", "rendezvous", "relay", "handshake", "login"} \cup Settled

Decoding == [able : SUBSET Codecs, prefer : Codecs \cup {"auto"}]
Probe == [able |-> Codecs, prefer |-> "auto"]
Unheard == [able |-> {}, prefer |-> "auto"]
Count(seq, k) == Cardinality({i \in DOMAIN seq : seq[i].k = k})
-----------------------------------------------------------------------------
(* The worker's own doings. *)

\* WorkerHost.teardown: the pipelines, the sockets, the watchdog.  A second
\* call does nothing; a socket still being opened is not known to it.
Teardown ==
    IF tornDown
    THEN UNCHANGED <<tornDown, timer, pipes, ws1, ws2, inbox>>
    ELSE /\ tornDown' = TRUE
         /\ timer' = FALSE
         /\ pipes' = IF pipes = "open" THEN "closed" ELSE pipes
         /\ ws1' = "none"
         /\ ws2' = IF ws2 = "open" THEN "none" ELSE ws2
         /\ inbox' = <<>>

StaysUp == UNCHANGED <<tornDown, timer, pipes, ws1, ws2>>

\* The worker reports a failure of its own; the session is not told.
PostError ==
    /\ shown' = "error"
    /\ Teardown

\* Session.setState and the `emit` sink: a settled state stops the watchdog.
SetState(s) ==
    /\ state' = s
    /\ shown' = s
    /\ timer' = (timer /\ s \notin Settled)

\* Session.fail and the close_reason message: the session ends and closeAll
\* tears the worker down.
EndSession(s) ==
    /\ state' = s
    /\ shown' = s
    /\ Teardown

\* sealSend/sendRelay: without a cipher or without the socket it is dropped.
Sealed(frame) == IF cipher /\ ws2 = "open" THEN Append(outbox, frame) ELSE outbox

\* connect(), up to its first await.
Connect ==
    /\ connect = "idle"
    /\ connect' = "starting"
    /\ shown' = "connecting"
    /\ UNCHANGED <<canvas, tornDown, timer, pipes, ws1, ws2, sessionVars, peerVars>>

\* deps.ready() has loaded the libraries, or failed.  Only a connection with a
\* canvas probes the decoders.
Ready ==
    /\ connect = "starting"
    /\ \/ /\ connect' = IF canvas THEN "probing" ELSE "dialing"
          /\ StaysUp
          /\ UNCHANGED <<shown, inbox>>
       \/ /\ connect' = "done"
          /\ PostError
    /\ UNCHANGED <<canvas, sessionVars, asked, trust, peer, outbox, unacked, peerDec, changes>>

\* The probe answers: the pipelines are created, torn down meanwhile or not.
ProbeDecoding ==
    /\ connect = "probing"
    /\ connect' = "dialing"
    /\ pipes' = "open"
    /\ UNCHANGED <<canvas, tornDown, timer, ws1, ws2, sessionVars, peerVars, shown>>

\* Mutant: a session is started although the connection was given up.
IdSocketOpenedRegardless ==
    /\ connect = "dialing"
    /\ connect' = "done"
    /\ ws1' = "open"
    /\ state' = "rendezvous" /\ shown' = "rendezvous"
    /\ decoding' = IF canvas THEN Probe ELSE decoding
    /\ asked' = TRUE
    /\ timer' = TRUE
    /\ UNCHANGED <<canvas, tornDown, pipes, ws2, cipher, loginSent, disabled,
                   trust, peer, inbox, outbox, unacked, peerDec, changes>>

\* Mutant: the watchdog is not armed.
IdSocketOpenedUnwatched ==
    /\ connect = "dialing"
    /\ connect' = "done"
    /\ IF tornDown
       THEN UNCHANGED <<ws1, state, decoding, asked, shown>>
       ELSE /\ ws1' = "open"
            /\ state' = "rendezvous" /\ shown' = "rendezvous"
            /\ decoding' = IF canvas THEN Probe ELSE decoding
            /\ asked' = TRUE
    /\ UNCHANGED <<canvas, tornDown, timer, pipes, ws2, cipher, loginSent, disabled,
                   trust, peer, inbox, outbox, unacked, peerDec, changes>>

\* The socket to the id server opened: the session is created, given the probe,
\* attached to the socket and started, and the watchdog is armed.
IdSocketOpened ==
    /\ connect = "dialing"
    /\ connect' = "done"
    /\ IF tornDown
       THEN UNCHANGED <<timer, ws1, state, decoding, asked, shown>>
       ELSE /\ ws1' = "open"
            /\ state' = "rendezvous"
            /\ shown' = "rendezvous"
            /\ decoding' = IF canvas THEN Probe ELSE decoding
            /\ asked' = TRUE
            /\ timer' = TRUE
    /\ UNCHANGED <<canvas, tornDown, pipes, ws2, cipher, loginSent, disabled,
                   trust, peer, inbox, outbox, unacked, peerDec, changes>>

IdSocketFailed ==
    /\ connect = "dialing"
    /\ connect' = "done"
    /\ PostError
    /\ UNCHANGED <<canvas, sessionVars, asked, trust, peer, outbox, unacked, peerDec, changes>>
-----------------------------------------------------------------------------
(* The id server. *)

\* onSignalingBytes, a relay response: without the server's signed key of the
\* peer, or with one that does not verify, the session fails; otherwise the
\* relay is dialled.
RelayResponse(link) ==
    /\ ws1 = "open" /\ asked
    /\ asked' = FALSE
    /\ IF link = "good"
       THEN /\ SetState("relay")
            /\ ws2' = "dialing"
            /\ trust' = trust \cup {"server"}
            /\ UNCHANGED <<tornDown, pipes, ws1, inbox>>
       ELSE EndSession("error") /\ UNCHANGED trust
    /\ UNCHANGED <<connect, canvas, cipher, loginSent, decoding, disabled,
                   peer, outbox, unacked, peerDec, changes>>

\* A punch-hole response is either a failure or news of no use to a client
\* that forces the relay.
PunchHoleResponse(failure) ==
    /\ ws1 = "open" /\ asked
    /\ asked' = FALSE
    /\ IF failure
       THEN EndSession("error")
       ELSE StaysUp /\ UNCHANGED <<state, shown, inbox>>
    /\ UNCHANGED <<connect, canvas, cipher, loginSent, decoding, disabled,
                   trust, peer, outbox, unacked, peerDec, changes>>

\* onIdSocketClosed: fatal only while the relay is not yet handed over.
IdSocketClosed ==
    /\ ws1 = "open"
    /\ IF state \in {"connecting", "rendezvous"}
       THEN PostError
       ELSE /\ ws1' = "none"
            /\ UNCHANGED <<tornDown, timer, pipes, ws2, inbox, shown>>
    /\ UNCHANGED <<connect, canvas, sessionVars, asked, trust, peer, outbox,
                   unacked, peerDec, changes>>
-----------------------------------------------------------------------------
(* The relay socket. *)

\* Mutant: whether the connection was given up meanwhile is not looked at.
RelayOpenedRegardless ==
    /\ ws2 = "dialing"
    /\ ws2' = "open"
    /\ SetState("handshake")
    /\ peer' = "keying"
    /\ UNCHANGED <<connect, canvas, tornDown, pipes, ws1, cipher, loginSent, decoding,
                   disabled, asked, trust, inbox, outbox, unacked, peerDec, changes>>

\* openRelay's continuation: torn down meanwhile, the socket is closed again.
RelayOpened ==
    /\ ws2 = "dialing"
    /\ IF tornDown
       THEN ws2' = "none" /\ UNCHANGED <<state, shown, timer, peer>>
       ELSE /\ ws2' = "open"
            /\ SetState("handshake")
            /\ peer' = "keying"
    /\ UNCHANGED <<connect, canvas, tornDown, pipes, ws1, cipher, loginSent, decoding,
                   disabled, asked, trust, inbox, outbox, unacked, peerDec, changes>>

RelayFailed ==
    /\ ws2 = "dialing"
    /\ shown' = "error"
    /\ tornDown' = TRUE /\ timer' = FALSE /\ ws1' = "none" /\ ws2' = "none" /\ inbox' = <<>>
    /\ pipes' = IF ~tornDown /\ pipes = "open" THEN "closed" ELSE pipes
    /\ UNCHANGED <<connect, canvas, sessionVars, asked, trust, peer, outbox,
                   unacked, peerDec, changes>>

\* onSocketClosed('relay').
RelayClosed ==
    /\ ws2 = "open"
    /\ IF state \in Over THEN UNCHANGED shown ELSE shown' = "error"
    /\ Teardown
    /\ peer' = "gone"
    /\ UNCHANGED <<connect, canvas, sessionVars, asked, trust, outbox, unacked, peerDec, changes>>

\* The connect watchdog.
Watchdog ==
    /\ timer
    /\ PostError
    /\ UNCHANGED <<connect, canvas, sessionVars, asked, trust, peer, outbox,
                   unacked, peerDec, changes>>
-----------------------------------------------------------------------------
(* What a frame of the peer does: onRelayBytes, onFirstRelayFrame, dispatch.
   Each handler is told the frame it consumed. *)

\* Mutant: the identity's signature is not verified.
FirstFrameUnverified(f) ==
    /\ ~cipher
    /\ IF f.k = "signed_id"
       THEN /\ cipher' = TRUE
            /\ outbox' = Append(outbox, [k |-> "public_key"])
            /\ inbox' = Tail(inbox)
            /\ StaysUp
            /\ UNCHANGED <<state, shown>>
       ELSE /\ EndSession("error")
            /\ UNCHANGED <<cipher, outbox>>
    /\ UNCHANGED <<loginSent, decoding, disabled>>

\* The first frame is the peer's identity, signed with the key the server
\* vouched for: the answer is our key, and the cipher is installed.
FirstFrame(f) ==
    /\ ~cipher
    /\ IF f.k = "signed_id" /\ f.link = "good"
       THEN /\ cipher' = TRUE
            /\ outbox' = Append(outbox, [k |-> "public_key"])
            /\ inbox' = Tail(inbox)
            /\ StaysUp
            /\ UNCHANGED <<state, shown>>
       ELSE /\ EndSession("error")
            /\ UNCHANGED <<cipher, outbox>>
    /\ UNCHANGED <<loginSent, decoding, disabled>>

\* The challenge: the login goes out in the same step, with the decoders a
\* video connection offers.
Hash(f) ==
    /\ cipher /\ f.k = "hash"
    /\ SetState("login")
    /\ loginSent' = TRUE
    /\ outbox' = Sealed([k |-> "login", dec |-> decoding])
    /\ inbox' = Tail(inbox)
    /\ UNCHANGED <<tornDown, pipes, ws1, ws2, cipher, decoding, disabled>>

\* Mutant: the page is told the answer itself.
LoginEchoesAnswer(f) ==
    /\ cipher /\ f.k = "login_response"
    /\ SetState(f.answer)
    /\ inbox' = Tail(inbox)
    /\ UNCHANGED <<tornDown, pipes, ws1, ws2, cipher, loginSent, decoding, disabled, outbox>>

\* A login refused is reported, and nothing else: the watchdog keeps running.
LoginResponse(f) ==
    /\ cipher /\ f.k = "login_response"
    /\ CASE f.answer = "wrong" -> UNCHANGED <<state, shown, timer>>
         [] f.answer = "wait" -> SetState("needAccept")
         [] f.answer = "in" -> SetState("streaming")
    /\ inbox' = Tail(inbox)
    /\ UNCHANGED <<tornDown, pipes, ws1, ws2, cipher, loginSent, decoding, disabled, outbox>>

\* Mutant: once a decoder failed, a picture is no longer acknowledged.
VideoFrameIfDrawn(f) ==
    /\ cipher /\ f.k = "video"
    /\ outbox' = IF disabled = {} THEN Sealed([k |-> "ack"]) ELSE outbox
    /\ inbox' = Tail(inbox)
    /\ StaysUp
    /\ UNCHANGED <<sessionVars, shown>>

\* A picture is handed to the pipeline and acknowledged at once, drawn or not.
VideoFrame(f) ==
    /\ cipher /\ f.k = "video"
    /\ outbox' = Sealed([k |-> "ack"])
    /\ inbox' = Tail(inbox)
    /\ StaysUp
    /\ UNCHANGED <<sessionVars, shown>>

\* A frame that does not open, or a reason to close.
LastFrame(f) ==
    /\ cipher /\ f.k \in {"garbled", "close_reason"}
    /\ EndSession(IF f.k = "garbled" THEN "error" ELSE "closed")
    /\ UNCHANGED <<cipher, loginSent, decoding, disabled, outbox>>

RelayFrame ==
    /\ ws2 = "open" /\ inbox # <<>>
    /\ LET f == Head(inbox) IN
       \/ FirstFrame(f)
       \/ Hash(f)
       \/ LoginResponse(f)
       \/ VideoFrame(f)
       \/ LastFrame(f)
    /\ UNCHANGED <<connect, canvas, asked, trust, peer, unacked, peerDec, changes>>
-----------------------------------------------------------------------------
(* Commands of the page. *)

\* `disconnect`: the session, if there is one, says it is closed.
Disconnect ==
    /\ connect # "idle"
    /\ IF state = "none"
       THEN UNCHANGED <<state, shown>>
       ELSE state' = "closed" /\ shown' = IF state = "closed" THEN shown ELSE "closed"
    /\ Teardown
    /\ UNCHANGED <<connect, canvas, cipher, loginSent, decoding, disabled, asked, trust,
                   peer, outbox, unacked, peerDec, changes>>

\* Mutant: a change is advertised only once the session is live.
AdvertiseWhenLive(sd) ==
    /\ changes < MaxChanges
    /\ changes' = changes + 1
    /\ decoding' = sd
    /\ outbox' = IF state = "streaming"
                 THEN Sealed([k |-> "codecs", dec |-> sd]) ELSE outbox
    /\ UNCHANGED <<hostVars, state, cipher, loginSent, asked, trust, peer, inbox,
                   unacked, peerDec, shown>>

\* Session.setSupportedDecoding: before the login the new set rides in it.
Advertise(sd) ==
    /\ changes < MaxChanges
    /\ changes' = changes + 1
    /\ decoding' = sd
    /\ outbox' = IF loginSent THEN Sealed([k |-> "codecs", dec |-> sd]) ELSE outbox
    /\ UNCHANGED <<hostVars, state, cipher, loginSent, asked, trust, peer, inbox,
                   unacked, peerDec, shown>>

\* The user prefers a codec that is still offered.
SetPreferredCodec(c) ==
    /\ state # "none" /\ canvas
    /\ c = "auto" \/ c \in decoding.able
    /\ Advertise([decoding EXCEPT !.prefer = c])
    /\ UNCHANGED disabled

\* The video pipeline gave up on a codec: WorkerHost.readvertise starts from
\* the probe again, so the user's preference is forgotten.
Readvertise(c) ==
    /\ state # "none" /\ pipes = "open"
    /\ c \notin disabled
    /\ disabled' = disabled \cup {c}
    /\ Advertise([Probe EXCEPT !.able = @ \ disabled'])
-----------------------------------------------------------------------------
(* The remote device, as the session relies on it: it proves who it is, sends
   the challenge, answers the login, and then sends pictures, keeping at most
   MaxFrames unacknowledged. *)

PeerSends(f, next) ==
    /\ ws2 = "open"
    /\ Len(inbox) < MaxFrames
    /\ inbox' = Append(inbox, f)
    /\ peer' = next
    /\ UNCHANGED <<hostVars, sessionVars, asked, outbox, peerDec, changes, shown>>

PeerIdentity(link) ==
    /\ peer = "keying"
    /\ PeerSends([k |-> "signed_id", link |-> link], "keyed")
    /\ trust' = IF link = "good" THEN trust \cup {"peer"} ELSE trust
    /\ UNCHANGED unacked

PeerVerdict(answer) ==
    /\ peer \in {"login", "asking"}
    /\ PeerSends([k |-> "login_response", answer |-> answer],
                 CASE answer = "in" -> "in" [] answer = "wait" -> "asking" [] OTHER -> "refused")
    /\ UNCHANGED <<trust, unacked>>

PeerPicture ==
    /\ peer = "in" /\ canvas
    /\ unacked < MaxFrames
    /\ PeerSends([k |-> "video"], "in")
    /\ unacked' = unacked + 1
    /\ UNCHANGED trust

PeerEnds(k) ==
    /\ peer \in {"login", "asking", "refused", "in"}
    /\ PeerSends([k |-> k], "gone")
    /\ UNCHANGED <<trust, unacked>>

\* The remote device takes the next frame of ours; our key makes it send the
\* challenge.
PeerReceives ==
    /\ ws2 = "open" /\ outbox # <<>>
    /\ LET f == Head(outbox) IN
       /\ outbox' = Tail(outbox)
       /\ peerDec' = IF f.k \in {"login", "codecs"} THEN f.dec ELSE peerDec
       /\ unacked' = IF f.k = "ack" THEN unacked - 1 ELSE unacked
       /\ inbox' = IF f.k = "public_key" THEN Append(inbox, [k |-> "hash"]) ELSE inbox
       /\ peer' = IF f.k = "login" THEN "login" ELSE peer
    /\ UNCHANGED <<hostVars, sessionVars, asked, trust, changes, shown>>
-----------------------------------------------------------------------------
WebInit ==
    /\ canvas \in BOOLEAN
    /\ connect = "idle" /\ tornDown = FALSE /\ timer = FALSE
    /\ pipes = "none" /\ ws1 = "none" /\ ws2 = "none"
    /\ state = "none" /\ cipher = FALSE /\ loginSent = FALSE
    /\ decoding = Unheard /\ disabled = {}
    /\ asked = FALSE /\ trust = {} /\ peer = "away"
    /\ inbox = <<>> /\ outbox = <<>> /\ unacked = 0
    /\ peerDec = Unheard /\ changes = 0 /\ shown = "none"

Worker ==
    \/ Connect \/ Ready \/ ProbeDecoding \/ IdSocketOpened \/ IdSocketFailed
    \/ IdSocketClosed \/ RelayOpened \/ RelayFailed \/ RelayClosed
    \/ Watchdog \/ RelayFrame \/ Disconnect
    \/ \E c \in Codecs \cup {"auto"} : SetPreferredCodec(c)
    \/ \E c \in Codecs : Readvertise(c)

Others ==
    \/ \E link \in {"good", "bad"} : RelayResponse(link) \/ PeerIdentity(link)
    \/ \E failure \in BOOLEAN : PunchHoleResponse(failure)
    \/ \E answer \in {"wrong", "wait", "in"} : PeerVerdict(answer)
    \/ PeerPicture \/ PeerReceives
    \/ \E k \in {"garbled", "close_reason"} : PeerEnds(k)

WebNext == Worker \/ Others

\* The libraries load or fail, the probe answers, a socket to the id server
\* opens or fails (the browser gives up in the end), and timers fire.  Nothing
\* is assumed of the id server's answers, of the relay or of the remote device.
WebFairness ==
    /\ WF_webVars(Ready)
    /\ WF_webVars(ProbeDecoding)
    /\ WF_webVars(IdSocketOpened \/ IdSocketFailed)
    /\ WF_webVars(Watchdog)

WebSpec == WebInit /\ [][WebNext]_webVars
FairWebSpec == WebSpec /\ WebFairness
-----------------------------------------------------------------------------
(* The session as its page sees it. *)
Stage(s) ==
    CASE s = "none" -> "idle"
      [] s = "needAccept" -> "waiting"
      [] s = "streaming" -> "live"
      [] s \in Over -> "over"
      [] OTHER -> "opening"

Lifecycle == INSTANCE SessionLifecycle WITH
    phase <- IF tornDown THEN "over" ELSE Stage(shown),
    told <- Stage(shown)
-----------------------------------------------------------------------------
(* Properties. *)

Frames ==
    [k : {"hash", "video", "garbled", "close_reason"}]
    \cup [k : {"signed_id"}, link : {"good", "bad"}]
    \cup [k : {"login_response"}, answer : {"wrong", "wait", "in"}]

\* The types of the variables.
WebTypeOK ==
    /\ connect \in {"idle", "starting", "probing", "dialing", "done"}
    /\ canvas \in BOOLEAN /\ tornDown \in BOOLEAN /\ timer \in BOOLEAN
    /\ pipes \in {"none", "open", "closed"}
    /\ ws1 \in {"none", "open"} /\ ws2 \in {"none", "dialing", "open"}
    /\ state \in States \cup {"none"} /\ shown \in States \cup {"none"}
    /\ cipher \in BOOLEAN /\ loginSent \in BOOLEAN
    /\ decoding \in Decoding /\ disabled \subseteq Codecs
    /\ asked \in BOOLEAN /\ trust \subseteq {"server", "peer"}
    /\ peer \in {"away", "keying", "keyed", "login", "asking", "refused", "in", "gone"}
    /\ inbox \in Seq(Frames)
    /\ unacked \in Int /\ unacked <= MaxFrames
    /\ peerDec \in Decoding /\ changes \in 0 .. MaxChanges

\* A connection that was given up holds nothing of the network any more: no
\* socket, also not one whose opening it was still waiting for, and no watchdog.
NothingLeftOpen ==
    tornDown => ws1 = "none" /\ ws2 # "open" /\ ~timer

\* The login leaves only for a device whose identity the id server's key and
\* then the device's own signature vouched for, and only over the cipher.
LoginIsTrusted ==
    loginSent => cipher /\ trust = {"server", "peer"}

\* What the device last heard of our decoders, or is about to hear, is what the
\* session holds, however the probe, the login, the user's preference and a
\* failing codec follow each other.
DecodersAgree ==
    LET told == {i \in DOMAIN outbox : outbox[i].k \in {"login", "codecs"}} IN
    loginSent /\ canvas /\ ~tornDown =>
        /\ told = {} => decoding = peerDec
        /\ \A i \in told : (\A j \in told : j <= i) => decoding = outbox[i].dec

\* Each picture the device counts as unacknowledged is on its way here, or its
\* acknowledgement is on its way back: the device is never starved of one.
EveryPictureAcknowledged ==
    ~tornDown => unacked = Count(inbox, "video") + Count(outbox, "ack")

\* The page is told the steps of a session in the order SessionLifecycle
\* allows; after the end it hears of nothing but the end.
LifecycleSteps == Lifecycle!Steps

\* Every connection that was begun settles: it goes live, waits for the remote
\* user, or ends, at the latest when the watchdog fires.
Settles == Lifecycle!Settling
=============================================================================
