-------------------------- MODULE WebSessionProofs --------------------------
(***************************************************************************)
(* What holds of a web client session for every set of codecs and every    *)
(* bound: the types, that a connection given up holds nothing open, that   *)
(* no login leaves without the identity chain, that the page is told what  *)
(* SessionLifecycle allows, and that the device hears of the decoders the  *)
(* session holds and gets every picture acknowledged.                      *)
(***************************************************************************)
EXTENDS WebSession, SequenceTheorems, FiniteSetTheorems, FunctionTheorems, TLAPS

OutFrames == [k : {"public_key", "ack"}] \cup [k : {"login", "codecs"}, dec : Decoding]

Types == WebTypeOK /\ outbox \in Seq(OutFrames)

\* The two ends of a session are told by teardown; what precedes the session,
\* and the one request to the id server, come in their order.
Opening ==
    /\ shown \in Over => tornDown
    /\ connect = "idle" =>
          ~tornDown /\ shown = "none" /\ ws1 = "none" /\ ws2 = "none" /\ ~asked /\ ~timer
    /\ connect \in {"starting", "probing", "dialing"} =>
          ws1 = "none" /\ ws2 = "none" /\ ~asked /\ (tornDown \/ shown = "connecting")
    /\ asked => ws2 = "none" /\ (tornDown \/ shown = "rendezvous")
    /\ ws2 = "dialing" => tornDown \/ shown = "relay"

\* How far the link to the remote device has come, one message at a time.
Keyless == /\ ~loginSent /\ outbox = <<>> /\ shown = "handshake"
           /\ \/ peer = "keying" /\ inbox = <<>>
              \/ peer = "keyed" /\ Len(inbox) = 1 /\ Head(inbox).k = "signed_id"

Keyed == /\ ~loginSent /\ peer = "keyed" /\ shown = "handshake"
         /\ \/ outbox = <<[k |-> "public_key"]>> /\ inbox = <<>>
            \/ outbox = <<>> /\ inbox = <<[k |-> "hash"]>>

Says(i, answer) == inbox[i].k = "login_response" /\ inbox[i].answer = answer

LoggedIn ==
    /\ loginSent /\ shown \in {"login", "needAccept", "streaming"}
    /\ \A i \in DOMAIN inbox : inbox[i].k \notin {"hash", "signed_id"}
    /\ \A i \in DOMAIN outbox :
          /\ outbox[i].k # "public_key"
          /\ outbox[i].k = "login" => i = 1 /\ peer = "keyed"
    /\ peer \in {"keyed", "login", "asking", "refused", "in", "gone"}
    /\ shown = "streaming" \/ (\E i \in DOMAIN inbox : Says(i, "in")) => peer \in {"in", "gone"}
    /\ shown = "streaming" => \A i \in DOMAIN inbox : ~Says(i, "wait")
    /\ \A i, j \in DOMAIN inbox : i < j /\ Says(i, "in") => ~Says(j, "wait")

Linked ==
    ws2 = "open" =>
        \/ ~cipher /\ Keyless
        \/ cipher /\ Keyed
        \/ cipher /\ LoggedIn

\* Without a link nothing was ever sealed.
Unlinked ==
    ws2 # "open" /\ ~tornDown => ~cipher /\ ~loginSent /\ inbox = <<>> /\ outbox = <<>>

\* Where the trust comes from.
Chain ==
    /\ ws2 # "none" => "server" \in trust
    /\ \A i \in DOMAIN inbox :
          inbox[i].k = "signed_id" /\ inbox[i].link = "good" => "peer" \in trust
    /\ cipher => trust = {"server", "peer"}
    /\ loginSent => cipher

Order == NothingLeftOpen /\ Opening /\ Linked /\ Unlinked /\ Chain

Inv == Types /\ Order
-----------------------------------------------------------------------------
(* Sequences *)

LEMMA NoLength ==
    ASSUME NEW S, NEW s \in Seq(S), Len(s) = 0
    PROVE  s = <<>>
BY EmptySeq

LEMMA HeadTail ==
    ASSUME NEW S, NEW s \in Seq(S), s # <<>>
    PROVE  /\ Head(s) \in S /\ Tail(s) \in Seq(S)
           /\ 1 \in DOMAIN s /\ Head(s) = s[1]
           /\ Len(s) = 1 => Tail(s) = <<>>
           /\ \A i \in DOMAIN Tail(s) : i \in Nat \ {0} /\ i + 1 \in DOMAIN s /\ Tail(s)[i] = s[i + 1]
<1>1. Len(s) \in Nat \ {0} /\ DOMAIN s = 1 .. Len(s)
  BY EmptySeq, LenProperties
<1>2. /\ Head(s) \in S /\ Tail(s) \in Seq(S) /\ Len(Tail(s)) = Len(s) - 1
      /\ \A i \in 1 .. Len(Tail(s)) : Tail(s)[i] = s[i + 1]
  BY HeadTailProperties
<1>3. DOMAIN Tail(s) = 1 .. Len(Tail(s))
  BY <1>2, LenProperties
<1>4. ASSUME Len(s) = 1 PROVE Tail(s) = <<>>
  <2> DEFINE t == Tail(s)
  <2>1. t \in Seq(S) /\ Len(t) = 0
    BY <1>1, <1>2, <1>4
  <2> HIDE DEF t
  <2>2. t = <<>>
    BY <2>1, NoLength
  <2> QED BY <2>2 DEF t
<1>5. Head(s) = s[1]
  BY <1>1
<1> QED BY <1>1, <1>2, <1>3, <1>4, <1>5

LEMMA Appended ==
    ASSUME NEW S, NEW s \in Seq(S), NEW x \in S
    PROVE  /\ Append(s, x) \in Seq(S)
           /\ DOMAIN s \subseteq DOMAIN Append(s, x)
           /\ \A i \in DOMAIN s : i \in Nat \ {0} /\ i <= Len(s) /\ Append(s, x)[i] = s[i]
           /\ \A i \in DOMAIN Append(s, x) : i \in DOMAIN s \/ (i = Len(s) + 1 /\ Append(s, x)[i] = x)
OBVIOUS
-----------------------------------------------------------------------------
(* Types *)

LEMMA DecodingType == Unheard \in Decoding /\ Probe \in Decoding
BY DEF Unheard, Probe, Decoding

LEMMA SealedType ==
    ASSUME Types, NEW f \in OutFrames
    PROVE  Sealed(f) \in Seq(OutFrames)
BY Appended DEF Types, Sealed

LEMMA TeardownType ==
    ASSUME Types, Teardown
    PROVE  /\ tornDown' \in BOOLEAN /\ timer' \in BOOLEAN
           /\ pipes' \in {"none", "open", "closed"}
           /\ ws1' \in {"none", "open"} /\ ws2' \in {"none", "dialing", "open"}
           /\ inbox' \in Seq(Frames)
<1>1. <<>> \in Seq(Frames)
  BY EmptySeq
<1> QED BY <1>1 DEF Types, WebTypeOK, Teardown

LEMMA SetStateType ==
    ASSUME Types, NEW s \in States, SetState(s)
    PROVE  /\ state' \in States \cup {"none"} /\ shown' \in States \cup {"none"}
           /\ timer' \in BOOLEAN
BY DEF Types, WebTypeOK, SetState

LEMMA InitTypes == WebInit => Types
<1>1. <<>> \in Seq(Frames) /\ <<>> \in Seq(OutFrames)
  BY EmptySeq
<1>2. 0 \in Int /\ 0 <= MaxFrames /\ 0 \in 0 .. MaxChanges
  BY WebSessionAssumption
<1>3. SUFFICES ASSUME WebInit PROVE Types
  OBVIOUS
<1>4. {} \subseteq Codecs /\ {} \subseteq {"server", "peer"}
  OBVIOUS
<1> QED BY <1>1, <1>2, <1>3, <1>4, DecodingType DEF WebInit, Types, WebTypeOK, States, Settled

\* The worker's doings, the id server's and the socket's.
LEMMA WorkerTypes ==
    ASSUME Types,
           \/ Connect \/ Ready \/ ProbeDecoding \/ IdSocketOpened \/ IdSocketFailed
           \/ IdSocketClosed \/ RelayOpened \/ RelayFailed \/ RelayClosed
           \/ Watchdog \/ Disconnect
    PROVE  Types'
<1> USE DEF Types, WebTypeOK, States, Settled, Over
<1>1. CASE Connect
  BY <1>1 DEF Connect, sessionVars, peerVars
<1>2. CASE Ready
  <2>1. CASE PostError
    BY <1>2, <2>1, TeardownType DEF Ready, PostError, sessionVars
  <2>2. CASE StaysUp /\ UNCHANGED <<shown, inbox>>
    BY <1>2, <2>2 DEF Ready, StaysUp, sessionVars
  <2> QED BY <1>2, <2>1, <2>2 DEF Ready
<1>3. CASE ProbeDecoding
  BY <1>3 DEF ProbeDecoding, sessionVars, peerVars
<1>4. CASE IdSocketOpened
  <2>1. CASE tornDown
    BY <1>4, <2>1 DEF IdSocketOpened
  <2>2. CASE ~tornDown
    <3>1. decoding' \in Decoding
      BY <1>4, <2>2, DecodingType DEF IdSocketOpened
    <3> QED BY <1>4, <2>2, <3>1 DEF IdSocketOpened
  <2> QED BY <2>1, <2>2
<1>5. CASE IdSocketFailed
  BY <1>5, TeardownType DEF IdSocketFailed, PostError, sessionVars
<1>6. CASE IdSocketClosed
  <2>1. CASE PostError
    BY <1>6, <2>1, TeardownType DEF IdSocketClosed, PostError, sessionVars
  <2>2. CASE ~PostError
    BY <1>6, <2>2 DEF IdSocketClosed, sessionVars
  <2> QED BY <2>1, <2>2
<1>7. CASE RelayOpened
  <2>1. CASE tornDown
    BY <1>7, <2>1 DEF RelayOpened
  <2>2. CASE ~tornDown
    BY <1>7, <2>2, SetStateType DEF RelayOpened
  <2> QED BY <2>1, <2>2
<1>8. CASE RelayFailed
  <2>1. <<>> \in Seq(Frames)
    BY EmptySeq
  <2>2. pipes' \in {"none", "open", "closed"}
    BY <1>8 DEF RelayFailed
  <2>3. /\ shown' = "error" /\ tornDown' \in BOOLEAN /\ timer' \in BOOLEAN
        /\ ws1' = "none" /\ ws2' = "none" /\ inbox' = <<>>
        /\ UNCHANGED <<connect, canvas, state, cipher, loginSent, decoding, disabled,
                       asked, trust, peer, outbox, unacked, peerDec, changes>>
    BY <1>8 DEF RelayFailed, sessionVars
  <2> QED BY <2>1, <2>2, <2>3
<1>9. CASE RelayClosed
  BY <1>9, TeardownType DEF RelayClosed, sessionVars
<1>10. CASE Watchdog
  BY <1>10, TeardownType DEF Watchdog, PostError, sessionVars
<1>11. CASE Disconnect
  BY <1>11, TeardownType DEF Disconnect
<1> QED
  BY <1>1, <1>2, <1>3, <1>4, <1>5, <1>6, <1>7, <1>8, <1>9, <1>10, <1>11

LEMMA ServerTypes ==
    ASSUME Types,
           \/ \E link \in {"good", "bad"} : RelayResponse(link)
           \/ \E failure \in BOOLEAN : PunchHoleResponse(failure)
    PROVE  Types'
<1> USE DEF Types, WebTypeOK, States, Settled
<1>1. ASSUME NEW link \in {"good", "bad"}, RelayResponse(link) PROVE Types'
  <2>1. CASE link = "good"
    <3>1. /\ SetState("relay") /\ ws2' = "dialing" /\ trust' = trust \cup {"server"}
          /\ asked' \in BOOLEAN /\ UNCHANGED <<tornDown, pipes, ws1, inbox>>
          /\ UNCHANGED <<connect, canvas, cipher, loginSent, decoding, disabled,
                         peer, outbox, unacked, peerDec, changes>>
      BY <1>1, <2>1 DEF RelayResponse
    <3>2. trust' \subseteq {"server", "peer"} /\ ws2' \in {"none", "dialing", "open"}
      BY <3>1
    <3> QED BY <3>1, <3>2, SetStateType
  <2>2. CASE link # "good"
    BY <1>1, <2>2, TeardownType DEF RelayResponse, EndSession
  <2> QED BY <2>1, <2>2
<1>2. ASSUME NEW failure \in BOOLEAN, PunchHoleResponse(failure) PROVE Types'
  <2>1. CASE failure
    BY <1>2, <2>1, TeardownType DEF PunchHoleResponse, EndSession
  <2>2. CASE ~failure
    <3>1. /\ UNCHANGED <<tornDown, timer, pipes, ws1, ws2, state, shown, inbox>>
          /\ asked' \in BOOLEAN
          /\ UNCHANGED <<connect, canvas, cipher, loginSent, decoding, disabled,
                         trust, peer, outbox, unacked, peerDec, changes>>
      BY <1>2, <2>2, Zenon DEF PunchHoleResponse, StaysUp
    <3> QED BY <3>1
  <2> QED BY <2>1, <2>2
<1> QED BY <1>1, <1>2

\* What a frame of the peer does.
LEMMA FrameTypes ==
    ASSUME Types, RelayFrame
    PROVE  Types'
<1> DEFINE f == Head(inbox)
<1>1. inbox \in Seq(Frames) /\ inbox # <<>> /\ outbox \in Seq(OutFrames)
  BY DEF Types, WebTypeOK, RelayFrame
<1>2. f \in Frames /\ Tail(inbox) \in Seq(Frames)
  BY <1>1, HeadTail
<1>3. /\ [k |-> "public_key"] \in OutFrames /\ [k |-> "ack"] \in OutFrames
      /\ [k |-> "login", dec |-> decoding] \in OutFrames
  BY DEF Types, WebTypeOK, OutFrames
<1>4. UNCHANGED <<connect, canvas, asked, trust, peer, unacked, peerDec, changes>>
  BY DEF RelayFrame
<1> HIDE DEF f
<1> USE <1>2, <1>4 DEF Types, WebTypeOK, States, Settled
<1>5. CASE FirstFrame(f)
  <2>1. CASE f.k = "signed_id" /\ f.link = "good"
    <3>1. /\ cipher' = TRUE /\ outbox' = Append(outbox, [k |-> "public_key"])
          /\ inbox' = Tail(inbox)
          /\ UNCHANGED <<tornDown, timer, pipes, ws1, ws2, state, shown>>
          /\ UNCHANGED <<loginSent, decoding, disabled>>
      BY <1>5, <2>1, Zenon DEF FirstFrame, StaysUp
    <3>2. outbox' \in Seq(OutFrames)
      BY <1>1, <1>3, <3>1, Appended
    <3> QED BY <3>1, <3>2
  <2>2. CASE ~(f.k = "signed_id" /\ f.link = "good")
    BY <1>5, <2>2, TeardownType DEF FirstFrame, EndSession
  <2> QED BY <2>1, <2>2
<1>6. CASE Hash(f)
  BY <1>3, <1>6, SealedType, SetStateType DEF Hash, f
<1>7. CASE LoginResponse(f)
  <2>1. CASE UNCHANGED <<state, shown, timer>>
    BY <1>7, <2>1 DEF LoginResponse, f
  <2>2. CASE SetState("needAccept") \/ SetState("streaming")
    BY <1>7, <2>2, SetStateType DEF LoginResponse, f
  <2> QED BY <1>7, <2>1, <2>2 DEF LoginResponse, Frames
<1>8. CASE VideoFrame(f)
  BY <1>3, <1>8, SealedType DEF VideoFrame, StaysUp, sessionVars, f
<1>9. CASE LastFrame(f)
  BY <1>9, TeardownType DEF LastFrame, EndSession
<1> QED BY <1>5, <1>6, <1>7, <1>8, <1>9 DEF RelayFrame, f

\* What the page asks for: the decoders that are advertised.
LEMMA AdvertiseTypes ==
    ASSUME Types, NEW sd \in Decoding, Advertise(sd), disabled' \subseteq Codecs
    PROVE  Types'
<1>1. [k |-> "codecs", dec |-> sd] \in OutFrames
  BY DEF OutFrames
<1>2. outbox' \in Seq(OutFrames)
  BY <1>1, SealedType DEF Advertise, Types
<1>3. changes' \in 0 .. MaxChanges
  BY WebSessionAssumption DEF Advertise, Types, WebTypeOK
<1> QED BY <1>2, <1>3 DEF Advertise, Types, WebTypeOK, hostVars

LEMMA CodecTypes ==
    ASSUME Types,
           \/ \E c \in Codecs \cup {"auto"} : SetPreferredCodec(c)
           \/ \E c \in Codecs : Readvertise(c)
    PROVE  Types'
<1>1. ASSUME NEW c \in Codecs \cup {"auto"}, SetPreferredCodec(c) PROVE Types'
  <2>1. [decoding EXCEPT !.prefer = c] \in Decoding
    BY DEF Types, WebTypeOK, Decoding
  <2>2. disabled' \subseteq Codecs
    BY <1>1 DEF SetPreferredCodec, Types, WebTypeOK
  <2> QED BY <1>1, <2>1, <2>2, AdvertiseTypes DEF SetPreferredCodec
<1>2. ASSUME NEW c \in Codecs, Readvertise(c) PROVE Types'
  <2>1. disabled' \subseteq Codecs
    BY <1>2 DEF Readvertise, Types, WebTypeOK
  <2>2. [Probe EXCEPT !.able = Codecs \ disabled'] \in Decoding
    BY DecodingType DEF Decoding
  <2>3. Advertise([Probe EXCEPT !.able = Codecs \ disabled'])
    BY <1>2 DEF Readvertise, Probe
  <2> QED BY <2>1, <2>2, <2>3, AdvertiseTypes
<1> QED BY <1>1, <1>2

\* What the remote device sends and takes.
LEMMA SendTypes ==
    ASSUME Types, NEW f \in Frames, NEW next, PeerSends(f, next),
           next \in {"away", "keying", "keyed", "login", "asking", "refused", "in", "gone"},
           trust' \subseteq {"server", "peer"}, unacked' \in Int, unacked' <= MaxFrames
    PROVE  Types'
<1>1. inbox' \in Seq(Frames)
  BY Appended DEF PeerSends, Types, WebTypeOK
<1> QED BY <1>1 DEF PeerSends, Types, WebTypeOK, hostVars, sessionVars

LEMMA PeerTypes ==
    ASSUME Types,
           \/ \E link \in {"good", "bad"} : PeerIdentity(link)
           \/ \E answer \in {"wrong", "wait", "in"} : PeerVerdict(answer)
           \/ PeerPicture
           \/ \E k \in {"garbled", "close_reason"} : PeerEnds(k)
    PROVE  Types'
<1>1. unacked \in Int /\ unacked <= MaxFrames /\ trust \subseteq {"server", "peer"}
  BY DEF Types, WebTypeOK
<1>2. ASSUME NEW link \in {"good", "bad"}, PeerIdentity(link) PROVE Types'
  <2>1. [k |-> "signed_id", link |-> link] \in Frames
    BY DEF Frames
  <2>2. trust' \subseteq {"server", "peer"}
    BY <1>1, <1>2 DEF PeerIdentity
  <2> QED BY <1>1, <1>2, <2>1, <2>2, SendTypes DEF PeerIdentity
<1>3. ASSUME NEW answer \in {"wrong", "wait", "in"}, PeerVerdict(answer) PROVE Types'
  <2>1. [k |-> "login_response", answer |-> answer] \in Frames
    BY DEF Frames
  <2> QED BY <1>1, <1>3, <2>1, SendTypes DEF PeerVerdict
<1>4. CASE PeerPicture
  <2>1. [k |-> "video"] \in Frames
    BY DEF Frames
  <2>2. unacked' \in Int /\ unacked' <= MaxFrames
    BY <1>1, <1>4, WebSessionAssumption DEF PeerPicture
  <2> QED BY <1>1, <1>4, <2>1, <2>2, SendTypes DEF PeerPicture
<1>5. ASSUME NEW k \in {"garbled", "close_reason"}, PeerEnds(k) PROVE Types'
  <2>1. [k |-> k] \in Frames
    BY DEF Frames
  <2> QED BY <1>1, <1>5, <2>1, SendTypes DEF PeerEnds
<1> QED BY <1>2, <1>3, <1>4, <1>5

LEMMA ReceiveTypes ==
    ASSUME Types, PeerReceives
    PROVE  Types'
<1> DEFINE f == Head(outbox)
<1>1. f \in OutFrames /\ outbox' \in Seq(OutFrames)
  BY HeadTail DEF PeerReceives, Types
<1>2. peerDec' \in Decoding
  BY <1>1 DEF PeerReceives, Types, WebTypeOK, OutFrames
<1>3. unacked' \in Int /\ unacked' <= MaxFrames
  BY WebSessionAssumption DEF PeerReceives, Types, WebTypeOK
<1>4. [k |-> "hash"] \in Frames
  BY DEF Frames
<1>5. inbox' \in Seq(Frames)
  BY <1>4, Appended DEF PeerReceives, Types, WebTypeOK
<1>6. peer' \in {"away", "keying", "keyed", "login", "asking", "refused", "in", "gone"}
  BY DEF PeerReceives, Types, WebTypeOK
<1> QED BY <1>1, <1>2, <1>3, <1>5, <1>6
    DEF PeerReceives, Types, WebTypeOK, hostVars, sessionVars

LEMMA StepTypes ==
    ASSUME Types, [WebNext]_webVars
    PROVE  Types'
<1>1. CASE UNCHANGED webVars
  BY <1>1 DEF webVars, hostVars, sessionVars, peerVars, Types, WebTypeOK
<1>2. CASE WebNext
  BY <1>2, WorkerTypes, ServerTypes, FrameTypes, CodecTypes, PeerTypes, ReceiveTypes
  DEF WebNext, Worker, Others
<1> QED BY <1>1, <1>2

\* The types of the variables: a session's state, its frames and what it
\* advertises stay what they are declared to be.
THEOREM WebTypeCorrect == WebSpec => []WebTypeOK
<1>1. Types => WebTypeOK
  BY DEF Types
<1> QED BY <1>1, InitTypes, StepTypes, PTL DEF WebSpec
-----------------------------------------------------------------------------
(* The order of a session *)

LEMMA InitOrder == WebInit => Order
BY DEF WebInit, Order, NothingLeftOpen, Opening, Linked, Unlinked, Chain, Over

LEMMA TeardownEnds ==
    ASSUME Types, NothingLeftOpen, Teardown
    PROVE  /\ tornDown' /\ ~timer' /\ ws1' = "none" /\ ws2' # "open"
           /\ ws2' # "none" => ws2' = ws2
           /\ inbox' = <<>> \/ inbox' = inbox
<1>1. CASE tornDown
  BY <1>1 DEF Teardown, NothingLeftOpen
<1>2. CASE ~tornDown
  BY <1>2 DEF Teardown, Types, WebTypeOK
<1> QED BY <1>1, <1>2

\* A step that tears the worker down, whatever it says.
LEMMA EndingOrder ==
    ASSUME Types, Types', Order, Teardown,
           connect # "idle", connect' \in {connect, "done"}, asked' => asked,
           UNCHANGED <<trust, cipher, loginSent>>
    PROVE  Order'
<1>1. /\ tornDown' /\ ~timer' /\ ws1' = "none" /\ ws2' # "open"
      /\ ws2' # "none" => ws2' = ws2
      /\ inbox' = <<>> \/ inbox' = inbox
  BY TeardownEnds DEF Order
<1>2. NothingLeftOpen' /\ Linked' /\ Unlinked'
  BY <1>1 DEF NothingLeftOpen, Linked, Unlinked
<1>3. Opening'
  BY <1>1 DEF Opening, Order, Types, WebTypeOK
<1>4. Chain'
  BY <1>1 DEF Chain, Order
<1> QED BY <1>2, <1>3, <1>4 DEF Order

LEMMA StartOrder ==
    ASSUME Types, Types', Order,
           Connect \/ Ready \/ ProbeDecoding \/ IdSocketOpened \/ IdSocketFailed
    PROVE  Order'
<1>1. CASE Connect
  BY <1>1 DEF Connect, sessionVars, peerVars, Order, NothingLeftOpen, Opening, Linked,
              Keyless, Keyed, LoggedIn, Says, Unlinked, Chain, Over
<1>2. CASE Ready
  <2>1. CASE connect' = "done" /\ PostError
    BY <1>2, <2>1, EndingOrder DEF Ready, PostError, sessionVars
  <2>2. CASE connect' \in {"probing", "dialing"} /\ StaysUp /\ UNCHANGED <<shown, inbox>>
    BY <1>2, <2>2 DEF Ready, StaysUp, sessionVars, Order, NothingLeftOpen, Opening, Linked,
              Keyless, Keyed, LoggedIn, Says, Unlinked, Chain, Over
  <2> QED BY <1>2, <2>1, <2>2 DEF Ready
<1>3. CASE ProbeDecoding
  BY <1>3 DEF ProbeDecoding, sessionVars, peerVars, Order, NothingLeftOpen, Opening, Linked,
              Keyless, Keyed, LoggedIn, Says, Unlinked, Chain, Over
<1>4. CASE IdSocketOpened
  <2>1. CASE tornDown
    BY <1>4, <2>1 DEF IdSocketOpened, Order, NothingLeftOpen, Opening, Linked,
              Keyless, Keyed, LoggedIn, Says, Unlinked, Chain, Over
  <2>2. CASE ~tornDown
    BY <1>4, <2>2 DEF IdSocketOpened, Order, NothingLeftOpen, Opening, Linked,
              Keyless, Keyed, LoggedIn, Says, Unlinked, Chain, Over
  <2> QED BY <2>1, <2>2
<1>5. CASE IdSocketFailed
  BY <1>5, EndingOrder DEF IdSocketFailed, PostError, sessionVars
<1> QED BY <1>1, <1>2, <1>3, <1>4, <1>5

LEMMA SocketOrder ==
    ASSUME Types, Types', Order,
           IdSocketClosed \/ RelayOpened \/ RelayFailed \/ RelayClosed \/ Watchdog \/ Disconnect
    PROVE  Order'
<1>1. CASE IdSocketClosed
  <2>1. connect # "idle"
    BY <1>1 DEF IdSocketClosed, Order, Opening
  <2>2. CASE PostError
    BY <1>1, <2>1, <2>2, EndingOrder DEF IdSocketClosed, PostError, sessionVars
  <2>3. CASE ~PostError
    BY <1>1, <2>3 DEF IdSocketClosed, sessionVars, Order, NothingLeftOpen, Opening, Linked,
              Keyless, Keyed, LoggedIn, Says, Unlinked, Chain, Over
  <2> QED BY <2>2, <2>3
<1>2. CASE RelayOpened
  <2>1. CASE tornDown
    BY <1>2, <2>1 DEF RelayOpened, Order, NothingLeftOpen, Opening, Linked,
              Keyless, Keyed, LoggedIn, Says, Unlinked, Chain, Over
  <2>2. CASE ~tornDown
    BY <1>2, <2>2 DEF RelayOpened, SetState, Order, NothingLeftOpen, Opening, Linked,
              Keyless, Unlinked, Chain, Over
  <2> QED BY <2>1, <2>2
<1>3. CASE RelayFailed
  BY <1>3 DEF RelayFailed, sessionVars, Order, NothingLeftOpen, Opening, Linked,
              Unlinked, Chain, Over
<1>4. CASE RelayClosed
  <2>1. connect # "idle"
    BY <1>4 DEF RelayClosed, Order, Opening
  <2> QED BY <1>4, <2>1, EndingOrder DEF RelayClosed, sessionVars
<1>5. CASE Watchdog
  <2>1. connect # "idle"
    BY <1>5 DEF Watchdog, Order, Opening
  <2> QED BY <1>5, <2>1, EndingOrder DEF Watchdog, PostError, sessionVars
<1>6. CASE Disconnect
  BY <1>6, EndingOrder DEF Disconnect
<1> QED BY <1>1, <1>2, <1>3, <1>4, <1>5, <1>6

LEMMA ServerOrder ==
    ASSUME Types, Types', Order,
           \/ \E link \in {"good", "bad"} : RelayResponse(link)
           \/ \E failure \in BOOLEAN : PunchHoleResponse(failure)
    PROVE  Order'
<1>1. ASSUME NEW link \in {"good", "bad"}, RelayResponse(link) PROVE Order'
  <2>1. connect # "idle"
    BY <1>1 DEF RelayResponse, Order, Opening
  <2>2. CASE link = "good"
    BY <1>1, <2>2 DEF RelayResponse, SetState, Order, NothingLeftOpen, Opening, Linked,
              Unlinked, Chain, Over, Types, WebTypeOK
  <2>3. CASE link # "good"
    BY <1>1, <2>1, <2>3, EndingOrder DEF RelayResponse, EndSession
  <2> QED BY <2>2, <2>3
<1>2. ASSUME NEW failure \in BOOLEAN, PunchHoleResponse(failure) PROVE Order'
  <2>1. connect # "idle"
    BY <1>2 DEF PunchHoleResponse, Order, Opening
  <2>2. CASE failure
    BY <1>2, <2>1, <2>2, EndingOrder DEF PunchHoleResponse, EndSession
  <2>3. CASE ~failure
    BY <1>2, <2>3 DEF PunchHoleResponse, StaysUp, Order, NothingLeftOpen, Opening, Linked,
              Keyless, Keyed, LoggedIn, Says, Unlinked, Chain, Over
  <2> QED BY <2>2, <2>3
<1> QED BY <1>1, <1>2

\* What a frame of the peer does to the order.
LEMMA FrameOrder ==
    ASSUME Types, Types', Order, RelayFrame
    PROVE  Order'
<1> DEFINE f == Head(inbox)
<1>1. /\ inbox \in Seq(Frames) /\ inbox # <<>> /\ outbox \in Seq(OutFrames)
      /\ ws2 = "open" /\ ~tornDown /\ connect # "idle" /\ asked = FALSE
      /\ connect \notin {"starting", "probing", "dialing"}
      /\ UNCHANGED <<connect, canvas, asked, trust, peer>>
  BY DEF Types, WebTypeOK, RelayFrame, Order, NothingLeftOpen, Opening
<1>2. /\ f \in Frames /\ f = inbox[1] /\ 1 \in DOMAIN inbox
      /\ Len(inbox) = 1 => Tail(inbox) = <<>>
      /\ \A i \in DOMAIN Tail(inbox) :
            i \in Nat \ {0} /\ i + 1 \in DOMAIN inbox /\ Tail(inbox)[i] = inbox[i + 1]
  BY <1>1, HeadTail
<1>3. (~cipher /\ Keyless) \/ (cipher /\ Keyed) \/ (cipher /\ LoggedIn)
  BY <1>1 DEF Order, Linked
<1> HIDE DEF f
<1>4. CASE FirstFrame(f)
  <2>1. CASE f.k = "signed_id" /\ f.link = "good"
    <3>1. /\ cipher' = TRUE /\ outbox' = Append(outbox, [k |-> "public_key"])
          /\ inbox' = Tail(inbox)
          /\ UNCHANGED <<tornDown, timer, pipes, ws1, ws2, state, shown>>
          /\ UNCHANGED <<loginSent, decoding, disabled>>
      BY <1>4, <2>1, Zenon DEF FirstFrame, StaysUp
    <3>2. Keyless
      BY <1>3, <1>4 DEF FirstFrame
    <3>3. trust' = {"server", "peer"}
      BY <1>1, <1>2, <2>1 DEF Order, Chain, Types, WebTypeOK
    <3>4. inbox' = <<>> /\ outbox' = <<[k |-> "public_key"]>>
      BY <1>1, <1>2, <3>1, <3>2 DEF Keyless
    <3>5. Keyed'
      BY <1>1, <3>1, <3>2, <3>4, <1>1 DEF Keyed, Keyless
    <3> QED
      BY <1>1, <3>1, <3>3, <3>4, <3>5, <3>2
      DEF Order, NothingLeftOpen, Opening, Linked, Unlinked, Chain, Keyless
  <2>2. CASE ~(f.k = "signed_id" /\ f.link = "good")
    BY <1>1, <1>4, <2>2, EndingOrder DEF FirstFrame, EndSession
  <2> QED BY <2>1, <2>2
<1>5. CASE Hash(f)
  <2>1. Keyed /\ cipher
    BY <1>2, <1>3, <1>5 DEF Hash, LoggedIn
  <2>2. /\ inbox' = <<>> /\ outbox' = <<[k |-> "login", dec |-> decoding]>>
        /\ shown' = "login" /\ loginSent' /\ (timer' => timer)
    <3>1. outbox = <<>> /\ Len(inbox) = 1
      BY <1>1, <2>1 DEF Keyed
    <3>2. inbox' = <<>>
      BY <1>2, <1>5, <3>1 DEF Hash
    <3>3. outbox' = Append(outbox, [k |-> "login", dec |-> decoding])
      BY <1>1, <1>5, <2>1 DEF Hash, Sealed
    <3>4. outbox' = <<[k |-> "login", dec |-> decoding]>>
      BY <3>1, <3>3
    <3> QED BY <1>5, <3>2, <3>4 DEF Hash, SetState
  <2>3. LoggedIn'
    BY <1>1, <2>1, <2>2 DEF LoggedIn, Keyed, Says
  <2> QED
    BY <1>1, <1>5, <2>1, <2>2, <2>3
    DEF Hash, Order, NothingLeftOpen, Opening, Linked, Unlinked, Chain, Over
<1>6. CASE LoginResponse(f)
  <2>1. LoggedIn /\ cipher
    BY <1>1, <1>2, <1>3, <1>6 DEF LoginResponse, Keyed
  <2>2. /\ inbox' = Tail(inbox)
        /\ UNCHANGED <<tornDown, ws1, ws2, cipher, loginSent, outbox>>
        /\ timer' => timer
        /\ \/ f.answer = "wrong" /\ shown' = shown
           \/ f.answer = "wait" /\ shown' = "needAccept"
           \/ f.answer = "in" /\ shown' = "streaming"
    BY <1>2, <1>6 DEF LoginResponse, SetState, Frames
  <2>3. LoggedIn'
    BY <1>1, <1>2, <1>6, <2>1, <2>2 DEF LoggedIn, Says, LoginResponse
  <2> QED
    BY <1>1, <1>2, <2>1, <2>2, <2>3
    DEF Order, NothingLeftOpen, Opening, Linked, Unlinked, Chain, Over
<1>7. CASE VideoFrame(f)
  <2>1. LoggedIn /\ cipher
    BY <1>1, <1>2, <1>3, <1>7 DEF VideoFrame, Keyed
  <2>2. /\ inbox' = Tail(inbox) /\ outbox' = Append(outbox, [k |-> "ack"])
        /\ UNCHANGED <<tornDown, timer, ws1, ws2, cipher, loginSent, shown>>
    BY <1>1, <1>7, <2>1 DEF VideoFrame, StaysUp, sessionVars, Sealed
  <2>3. [k |-> "ack"] \in OutFrames
    BY DEF OutFrames
  <2>4. /\ \A i \in DOMAIN outbox : i \in Nat \ {0} /\ outbox'[i] = outbox[i]
        /\ \A i \in DOMAIN outbox' : i \in DOMAIN outbox \/ outbox'[i] = [k |-> "ack"]
    BY <1>1, <2>2, <2>3, Appended
  <2>5. LoggedIn'
    BY <1>1, <1>2, <2>1, <2>2, <2>4 DEF LoggedIn, Says
  <2> QED
    BY <1>1, <1>2, <2>1, <2>2, <2>5
    DEF Order, NothingLeftOpen, Opening, Linked, Unlinked, Chain, Over
<1>8. CASE LastFrame(f)
  BY <1>1, <1>8, EndingOrder DEF LastFrame, EndSession
<1> QED BY <1>4, <1>5, <1>6, <1>7, <1>8 DEF RelayFrame, f

LEMMA AdvertiseOrder ==
    ASSUME Types, Types', Order, NEW sd \in Decoding, Advertise(sd)
    PROVE  Order'
<1> DEFINE e == [k |-> "codecs", dec |-> sd]
<1>1. e \in OutFrames /\ e.k = "codecs"
  BY DEF OutFrames
<1>2. UNCHANGED <<hostVars, cipher, loginSent, asked, trust, peer, inbox, shown>>
  BY DEF Advertise
<1>3. CASE outbox' = outbox
  BY <1>2, <1>3 DEF hostVars, Order, NothingLeftOpen, Opening, Linked,
              Keyless, Keyed, LoggedIn, Says, Unlinked, Chain, Over
<1>4. CASE loginSent /\ cipher /\ ws2 = "open" /\ outbox' = Append(outbox, e)
  <2> HIDE DEF e
  <2>1. /\ \A i \in DOMAIN outbox : i \in Nat \ {0} /\ outbox'[i] = outbox[i]
        /\ \A i \in DOMAIN outbox' : i \in DOMAIN outbox \/ outbox'[i] = e
    BY <1>1, <1>4, Appended DEF Types
  <2>2. LoggedIn
    BY <1>4 DEF Order, Linked, Keyed
  <2>3. LoggedIn'
    BY <1>1, <1>2, <2>1, <2>2 DEF LoggedIn, Says
  <2> QED
    BY <1>2, <1>4, <2>3
    DEF hostVars, Order, NothingLeftOpen, Opening, Linked, Unlinked, Chain
<1> QED BY <1>3, <1>4 DEF Advertise, Sealed

LEMMA CodecOrder ==
    ASSUME Types, Types', Order,
           \/ \E c \in Codecs \cup {"auto"} : SetPreferredCodec(c)
           \/ \E c \in Codecs : Readvertise(c)
    PROVE  Order'
<1>1. ASSUME NEW c \in Codecs \cup {"auto"}, SetPreferredCodec(c) PROVE Order'
  <2>1. [decoding EXCEPT !.prefer = c] \in Decoding
    BY DEF Types, WebTypeOK, Decoding
  <2> QED BY <1>1, <2>1, AdvertiseOrder DEF SetPreferredCodec
<1>2. ASSUME NEW c \in Codecs, Readvertise(c) PROVE Order'
  <2>1. [Probe EXCEPT !.able = Codecs \ disabled'] \in Decoding
    BY DecodingType DEF Decoding
  <2>2. Advertise([Probe EXCEPT !.able = Codecs \ disabled'])
    BY <1>2 DEF Readvertise, Probe
  <2> QED BY <2>1, <2>2, AdvertiseOrder
<1> QED BY <1>1, <1>2

\* A frame the remote device may send only once the login is out.
LEMMA SendOrder ==
    ASSUME Types, Types', Order, NEW f \in Frames, NEW next \in {"asking", "refused", "in", "gone"},
           PeerSends(f, next), LoggedIn, f.k \notin {"hash", "signed_id"},
           peer \in {"login", "asking", "refused", "in"}, UNCHANGED trust,
           f.k = "login_response" => peer \in {"login", "asking"},
           f.k = "login_response" /\ f.answer = "in" => next = "in",
           peer = "in" => next \in {"in", "gone"}
    PROVE  Order'
<1>1. /\ ws2 = "open" /\ inbox' = Append(inbox, f) /\ peer' = next
      /\ UNCHANGED <<hostVars, sessionVars, asked, outbox, shown>>
  BY DEF PeerSends
<1>2. /\ \A i \in DOMAIN inbox : i \in Nat \ {0} /\ i <= Len(inbox) /\ inbox'[i] = inbox[i]
      /\ \A i \in DOMAIN inbox' : i \in DOMAIN inbox \/ (i = Len(inbox) + 1 /\ inbox'[i] = f)
      /\ Len(inbox) \in Nat
  BY <1>1, Appended, LenProperties DEF Types, WebTypeOK
<1>3. LoggedIn'
  <2>1. /\ loginSent' /\ shown' \in {"login", "needAccept", "streaming"}
        /\ \A i \in DOMAIN inbox' : inbox'[i].k \notin {"hash", "signed_id"}
        /\ \A i \in DOMAIN outbox' :
              /\ outbox'[i].k # "public_key"
              /\ outbox'[i].k = "login" => i = 1 /\ peer' = "keyed"
        /\ peer' \in {"keyed", "login", "asking", "refused", "in", "gone"}
    BY <1>1, <1>2 DEF LoggedIn, sessionVars
  <2>2. shown' = "streaming" \/ (\E i \in DOMAIN inbox' : Says(i, "in")') => peer' \in {"in", "gone"}
    BY <1>1, <1>2 DEF LoggedIn, Says
  <2>3. shown' = "streaming" => \A i \in DOMAIN inbox' : ~Says(i, "wait")'
    BY <1>1, <1>2 DEF LoggedIn, Says
  <2>4. \A i, j \in DOMAIN inbox' : i < j /\ Says(i, "in")' => ~Says(j, "wait")'
    BY <1>1, <1>2 DEF LoggedIn, Says
  <2> QED BY <2>1, <2>2, <2>3, <2>4 DEF LoggedIn, Says
<1>4. cipher
  BY <1>1 DEF Order, Linked, Keyless, LoggedIn
<1> QED
  BY <1>1, <1>2, <1>3, <1>4
  DEF hostVars, sessionVars, Order, NothingLeftOpen, Opening, Linked, Unlinked, Chain

LEMMA PeerOrder ==
    ASSUME Types, Types', Order,
           \/ \E link \in {"good", "bad"} : PeerIdentity(link)
           \/ \E answer \in {"wrong", "wait", "in"} : PeerVerdict(answer)
           \/ PeerPicture
           \/ \E k \in {"garbled", "close_reason"} : PeerEnds(k)
    PROVE  Order'
<1>1. ASSUME NEW link \in {"good", "bad"}, PeerIdentity(link) PROVE Order'
  <2> DEFINE f == [k |-> "signed_id", link |-> link]
  <2>1. /\ ws2 = "open" /\ peer = "keying" /\ inbox' = Append(inbox, f) /\ peer' = "keyed"
        /\ UNCHANGED <<hostVars, sessionVars, asked, outbox, shown>>
    BY <1>1 DEF PeerIdentity, PeerSends
  <2>2. ~cipher /\ Keyless
    BY <2>1 DEF Order, Linked, Keyed, LoggedIn
  <2>3. inbox' = <<f>>
    BY <2>1, <2>2 DEF Keyless
  <2>4. Keyless'
    BY <2>1, <2>2, <2>3 DEF Keyless, sessionVars
  <2>5. trust \subseteq trust' /\ (link = "good" => "peer" \in trust')
    BY <1>1 DEF PeerIdentity
  <2> QED
    BY <2>1, <2>2, <2>3, <2>4, <2>5
    DEF hostVars, sessionVars, Order, NothingLeftOpen, Opening, Linked, Unlinked, Chain, Keyless
<1>2. ASSUME peer \in {"login", "asking", "refused", "in"}, ws2 = "open" PROVE LoggedIn
  BY <1>2 DEF Order, Linked, Keyless, Keyed
<1>3. ASSUME NEW answer \in {"wrong", "wait", "in"}, PeerVerdict(answer) PROVE Order'
  <2>1. [k |-> "login_response", answer |-> answer] \in Frames
    BY DEF Frames
  <2> QED BY <1>2, <1>3, <2>1, SendOrder DEF PeerVerdict, PeerSends
<1>4. CASE PeerPicture
  <2>1. [k |-> "video"] \in Frames
    BY DEF Frames
  <2> QED BY <1>2, <1>4, <2>1, SendOrder DEF PeerPicture, PeerSends
<1>5. ASSUME NEW k \in {"garbled", "close_reason"}, PeerEnds(k) PROVE Order'
  <2>1. [k |-> k] \in Frames
    BY DEF Frames
  <2> QED BY <1>2, <1>5, <2>1, SendOrder DEF PeerEnds, PeerSends
<1> QED BY <1>1, <1>3, <1>4, <1>5

LEMMA ReceiveOrder ==
    ASSUME Types, Types', Order, PeerReceives
    PROVE  Order'
<1> DEFINE f == Head(outbox)
<1>1. /\ ws2 = "open" /\ outbox # <<>> /\ outbox' = Tail(outbox)
      /\ inbox' = IF f.k = "public_key" THEN Append(inbox, [k |-> "hash"]) ELSE inbox
      /\ peer' = IF f.k = "login" THEN "login" ELSE peer
      /\ UNCHANGED <<hostVars, sessionVars, asked, trust, shown>>
  BY DEF PeerReceives
<1>2. /\ f = outbox[1] /\ 1 \in DOMAIN outbox
      /\ Len(outbox) = 1 => Tail(outbox) = <<>>
      /\ \A i \in DOMAIN Tail(outbox) :
            i \in Nat \ {0} /\ i + 1 \in DOMAIN outbox /\ Tail(outbox)[i] = outbox[i + 1]
  BY <1>1, HeadTail DEF Types
<1> HIDE DEF f
<1>3. CASE cipher /\ Keyed
  <2>1. outbox' = <<>> /\ inbox' = <<[k |-> "hash"]>> /\ peer' = peer
    <3>1. outbox = <<[k |-> "public_key"]>> /\ inbox = <<>>
      BY <1>1, <1>3 DEF Keyed
    <3>2. Len(outbox) = 1 /\ f.k = "public_key"
      BY <1>2, <3>1
    <3>3. inbox' = Append(inbox, [k |-> "hash"]) /\ outbox' = <<>> /\ peer' = peer
      BY <1>1, <1>2, <3>2
    <3> QED BY <3>1, <3>3
  <2>2. Keyed'
    BY <1>1, <1>3, <2>1 DEF Keyed, sessionVars
  <2> QED
    BY <1>1, <1>3, <2>1, <2>2
    DEF hostVars, sessionVars, Order, NothingLeftOpen, Opening, Linked, Unlinked, Chain, Keyed
<1>4. CASE cipher /\ LoggedIn
  <2>1. inbox' = inbox /\ (f.k = "login" => peer = "keyed")
    BY <1>1, <1>2, <1>4 DEF LoggedIn
  <2>2. LoggedIn'
    BY <1>1, <1>2, <1>4, <2>1 DEF LoggedIn, Says, sessionVars
  <2> QED
    BY <1>1, <1>4, <2>1, <2>2
    DEF hostVars, sessionVars, Order, NothingLeftOpen, Opening, Linked, Unlinked, Chain
<1>5. ~Keyless
  BY <1>1 DEF Keyless
<1> QED BY <1>1, <1>3, <1>4, <1>5 DEF Order, Linked

LEMMA StepInv ==
    ASSUME Inv, [WebNext]_webVars
    PROVE  Inv'
<1>1. Types'
  BY StepTypes DEF Inv
<1>2. CASE UNCHANGED webVars
  BY <1>1, <1>2 DEF Inv, webVars, hostVars, sessionVars, peerVars, Order, NothingLeftOpen,
                 Opening, Linked, Keyless, Keyed, LoggedIn, Says, Unlinked, Chain, Over
<1>3. CASE WebNext
  BY <1>1, <1>3, StartOrder, SocketOrder, ServerOrder, FrameOrder, CodecOrder, PeerOrder,
     ReceiveOrder
  DEF Inv, WebNext, Worker, Others
<1> QED BY <1>2, <1>3

LEMMA Invariance == WebSpec => []Inv
<1>1. WebInit => Inv
  BY InitTypes, InitOrder DEF Inv
<1> QED BY <1>1, StepInv, PTL DEF WebSpec

\* A connection that was given up holds no socket and no watchdog, whatever it
\* was waiting for when it was given up.
THEOREM NothingIsLeftOpen == WebSpec => []NothingLeftOpen
<1>1. Inv => NothingLeftOpen
  BY DEF Inv, Order
<1> QED BY <1>1, Invariance, PTL

\* A login leaves only over the cipher, after the id server's word for the
\* device and the device's own signature.
THEOREM LoginNeedsTrust == WebSpec => []LoginIsTrusted
<1>1. Inv => LoginIsTrusted
  BY DEF Inv, Order, Chain, LoginIsTrusted
<1> QED BY <1>1, Invariance, PTL
-----------------------------------------------------------------------------
(* The session as its page sees it. *)

Before(stages) == ~tornDown /\ Stage(shown) \in stages
After(stage) == ~tornDown' /\ Stage(shown') = stage

\* What a step of the worker may say to the page.
Saying ==
    \/ tornDown' = tornDown /\ shown' = shown
    \/ tornDown' /\ shown' \in {shown} \cup Over
    \/ Before({"idle"}) /\ After("opening")
    \/ Before({"opening"}) /\ After("opening")
    \/ Before({"opening", "waiting"}) /\ After("waiting")
    \/ Before({"opening", "waiting", "live"}) /\ After("live")

LEMMA SayingRefines ==
    ASSUME Types, Types', Saying
    PROVE  [Lifecycle!Next]_(Lifecycle!lifecycleVars)
<1> USE DEF Lifecycle!Next, Lifecycle!lifecycleVars, Lifecycle!Open, Lifecycle!Wait,
            Lifecycle!GoLive, Lifecycle!End, Lifecycle!Enter
<1>1. CASE tornDown' = tornDown /\ shown' = shown
  BY <1>1
<1>2. CASE tornDown' /\ shown' \in {shown} \cup Over
  BY <1>2 DEF Stage, Over
<1>3. CASE Before({"idle"}) /\ After("opening")
  BY <1>3 DEF Before, After
<1>4. CASE Before({"opening"}) /\ After("opening")
  BY <1>4 DEF Before, After
<1>5. CASE Before({"opening", "waiting"}) /\ After("waiting")
  BY <1>5 DEF Before, After
<1>6. CASE Before({"opening", "waiting", "live"}) /\ After("live")
  BY <1>6 DEF Before, After
<1> QED BY <1>1, <1>2, <1>3, <1>4, <1>5, <1>6 DEF Saying

LEMMA TornDown ==
    ASSUME Inv, Teardown
    PROVE  tornDown'
BY TeardownEnds DEF Inv, Order

LEMMA WorkerSays ==
    ASSUME Inv,
           \/ Connect \/ Ready \/ ProbeDecoding \/ IdSocketOpened \/ IdSocketFailed
           \/ IdSocketClosed \/ RelayOpened \/ RelayFailed \/ RelayClosed
           \/ Watchdog \/ Disconnect
    PROVE  Saying
<1>1. CASE Connect
  <2>1. Before({"idle"}) /\ After("opening")
    BY <1>1 DEF Connect, Inv, Order, Opening, Before, After, Stage, Over
  <2> QED BY <2>1 DEF Saying
<1>2. ASSUME PostError PROVE Saying
  BY <1>2, TornDown DEF PostError, Saying, Over
<1>3. CASE Ready
  BY <1>2, <1>3 DEF Ready, StaysUp, Saying
<1>4. CASE ProbeDecoding
  BY <1>4 DEF ProbeDecoding, Saying
<1>5. CASE IdSocketOpened
  <2>1. CASE tornDown
    BY <1>5, <2>1 DEF IdSocketOpened, Saying
  <2>2. CASE ~tornDown
    <3>1. Before({"opening"}) /\ After("opening")
      BY <1>5, <2>2 DEF IdSocketOpened, Inv, Order, Opening, Before, After, Stage, Over
    <3> QED BY <3>1 DEF Saying
  <2> QED BY <2>1, <2>2
<1>6. CASE IdSocketFailed
  BY <1>2, <1>6 DEF IdSocketFailed
<1>7. CASE IdSocketClosed
  BY <1>2, <1>7 DEF IdSocketClosed, Saying
<1>8. CASE RelayOpened
  <2>1. CASE tornDown
    BY <1>8, <2>1 DEF RelayOpened, Saying
  <2>2. CASE ~tornDown
    <3>1. Before({"opening"}) /\ After("opening")
      BY <1>8, <2>2 DEF RelayOpened, SetState, Inv, Order, Opening, Before, After, Stage, Over
    <3> QED BY <3>1 DEF Saying
  <2> QED BY <2>1, <2>2
<1>9. CASE RelayFailed
  BY <1>9 DEF RelayFailed, Saying, Over
<1>10. CASE RelayClosed
  BY <1>10, TornDown DEF RelayClosed, Saying, Over
<1>11. CASE Watchdog
  BY <1>2, <1>11 DEF Watchdog
<1>12. CASE Disconnect
  BY <1>12, TornDown DEF Disconnect, Saying, Over
<1> QED
  BY <1>1, <1>3, <1>4, <1>5, <1>6, <1>7, <1>8, <1>9, <1>10, <1>11, <1>12

LEMMA ServerSays ==
    ASSUME Inv,
           \/ \E link \in {"good", "bad"} : RelayResponse(link)
           \/ \E failure \in BOOLEAN : PunchHoleResponse(failure)
    PROVE  Saying
<1>1. ASSUME EndSession("error") PROVE Saying
  BY <1>1, TornDown DEF EndSession, Saying, Over
<1>2. ASSUME NEW link \in {"good", "bad"}, RelayResponse(link) PROVE Saying
  <2>1. CASE link = "good"
    <3>1. Before({"opening"}) /\ After("opening")
      BY <1>2, <2>1
      DEF RelayResponse, SetState, Inv, Order, NothingLeftOpen, Opening, Before, After, Stage, Over
    <3> QED BY <3>1 DEF Saying
  <2> QED BY <1>1, <1>2, <2>1 DEF RelayResponse
<1>3. ASSUME NEW failure \in BOOLEAN, PunchHoleResponse(failure) PROVE Saying
  BY <1>1, <1>3 DEF PunchHoleResponse, StaysUp, Saying
<1> QED BY <1>2, <1>3

\* A challenge, an answer to the login or a picture finds the session where it
\* may go on from.
LEMMA FrameSays ==
    ASSUME Inv, RelayFrame
    PROVE  Saying
<1> DEFINE f == Head(inbox)
<1>1. /\ inbox \in Seq(Frames) /\ inbox # <<>> /\ ws2 = "open" /\ ~tornDown
      /\ (~cipher /\ Keyless) \/ (cipher /\ Keyed) \/ (cipher /\ LoggedIn)
  BY DEF Inv, Types, WebTypeOK, RelayFrame, Order, NothingLeftOpen, Linked
<1>2. f \in Frames /\ f = inbox[1] /\ 1 \in DOMAIN inbox
  BY <1>1, HeadTail
<1> HIDE DEF f
<1>3. ASSUME NEW s, EndSession(s), s \in Over PROVE Saying
  BY <1>3, TornDown DEF EndSession, Saying
<1>4. CASE FirstFrame(f)
  <2>1. CASE EndSession("error")
    BY <1>3, <2>1 DEF Over
  <2>2. CASE StaysUp /\ UNCHANGED <<state, shown>>
    BY <2>2 DEF StaysUp, Saying
  <2> QED BY <1>4, <2>1, <2>2 DEF FirstFrame
<1>5. CASE Hash(f)
  <2>1. Keyed
    BY <1>1, <1>2, <1>5 DEF Hash, LoggedIn
  <2>2. Before({"opening"}) /\ After("opening")
    BY <1>1, <1>5, <2>1 DEF Hash, SetState, Keyed, Before, After, Stage, Over
  <2> QED BY <2>2 DEF Saying
<1>6. CASE LoginResponse(f)
  <2>1. LoggedIn
    BY <1>1, <1>2, <1>6 DEF LoginResponse, Keyed
  <2>2. /\ UNCHANGED tornDown
        /\ \/ shown' = shown
           \/ f.answer = "wait" /\ shown' = "needAccept"
           \/ f.answer = "in" /\ shown' = "streaming"
    BY <1>2, <1>6 DEF LoginResponse, SetState, Frames
  <2>3. CASE shown' = shown
    BY <2>2, <2>3 DEF Saying
  <2>4. CASE f.answer = "wait" /\ shown' = "needAccept"
    <3>1. shown \in {"login", "needAccept"}
      BY <1>2, <1>6, <2>1, <2>4 DEF LoggedIn, Says, LoginResponse
    <3>2. Before({"opening", "waiting"}) /\ After("waiting")
      BY <1>1, <2>2, <2>4, <3>1 DEF Before, After, Stage, Over
    <3> QED BY <3>2 DEF Saying
  <2>5. CASE f.answer = "in" /\ shown' = "streaming"
    <3>1. Before({"opening", "waiting", "live"}) /\ After("live")
      BY <1>1, <2>1, <2>2, <2>5 DEF LoggedIn, Before, After, Stage, Over
    <3> QED BY <3>1 DEF Saying
  <2> QED BY <2>2, <2>3, <2>4, <2>5
<1>7. CASE VideoFrame(f)
  BY <1>7 DEF VideoFrame, StaysUp, Saying
<1>8. CASE LastFrame(f)
  BY <1>3, <1>8 DEF LastFrame, Over
<1> QED BY <1>4, <1>5, <1>6, <1>7, <1>8 DEF RelayFrame, f

\* The remote device and a change of the decoders say nothing to the page.
LEMMA OthersSayNothing ==
    ASSUME \/ \E c \in Codecs \cup {"auto"} : SetPreferredCodec(c)
           \/ \E c \in Codecs : Readvertise(c)
           \/ \E link \in {"good", "bad"} : PeerIdentity(link)
           \/ \E answer \in {"wrong", "wait", "in"} : PeerVerdict(answer)
           \/ PeerPicture \/ PeerReceives
           \/ \E k \in {"garbled", "close_reason"} : PeerEnds(k)
    PROVE  Saying
<1>1. UNCHANGED <<tornDown, shown>>
  BY DEF SetPreferredCodec, Readvertise, Advertise, PeerIdentity, PeerVerdict, PeerPicture,
         PeerReceives, PeerEnds, PeerSends, hostVars
<1> QED BY <1>1 DEF Saying

LEMMA StepSays ==
    ASSUME Inv, [WebNext]_webVars
    PROVE  Saying
<1>1. CASE UNCHANGED webVars
  BY <1>1 DEF webVars, hostVars, Saying
<1>2. CASE WebNext
  BY <1>2, WorkerSays, ServerSays, FrameSays, OthersSayNothing DEF WebNext, Worker, Others
<1> QED BY <1>1, <1>2

\* The session implements the lifecycle its page relies on: whatever the
\* sockets, the id server, the relay, the remote device and the user do, the
\* page is told of a session's steps in their order, and of nothing after its end.
THEOREM SessionKeepsLifecycle == WebSpec => LifecycleSteps
<1>1. WebInit => Lifecycle!Init
  BY DEF WebInit, Lifecycle!Init, Stage, Over
<1>2. Inv /\ Inv' /\ [WebNext]_webVars => [Lifecycle!Next]_(Lifecycle!lifecycleVars)
  BY StepSays, SayingRefines DEF Inv
<1> QED BY <1>1, <1>2, Invariance, PTL DEF WebSpec, LifecycleSteps, Lifecycle!Steps
-----------------------------------------------------------------------------
(* Counting the frames of a kind. *)

LEMMA CountType ==
    ASSUME NEW S, NEW s \in Seq(S), NEW k
    PROVE  IsFiniteSet({i \in DOMAIN s : s[i].k = k}) /\ Count(s, k) \in Nat
<1>1. Len(s) \in Nat /\ DOMAIN s = 1 .. Len(s)
  BY LenProperties
<1>2. IsFiniteSet(1 .. Len(s)) /\ {i \in DOMAIN s : s[i].k = k} \subseteq 1 .. Len(s)
  BY <1>1, FS_Interval
<1>3. IsFiniteSet({i \in DOMAIN s : s[i].k = k})
  BY <1>2, FS_Subset
<1> QED BY <1>3, FS_CardinalityType DEF Count

LEMMA CountEmpty ==
    ASSUME NEW k
    PROVE  Count(<<>>, k) = 0
<1>1. {i \in DOMAIN <<>> : <<>>[i].k = k} = {}
  OBVIOUS
<1> QED BY <1>1, FS_EmptySet DEF Count

LEMMA CountAppend ==
    ASSUME NEW S, NEW s \in Seq(S), NEW x \in S, NEW k
    PROVE  Count(Append(s, x), k) = IF x.k = k THEN Count(s, k) + 1 ELSE Count(s, k)
<1> DEFINE t == Append(s, x)
           A == {i \in DOMAIN s : s[i].k = k}
           B == {i \in DOMAIN t : t[i].k = k}
<1>1. /\ Len(s) \in Nat /\ DOMAIN s = 1 .. Len(s)
      /\ DOMAIN t = 1 .. Len(s) + 1
      /\ \A i \in 1 .. Len(s) : t[i] = s[i]
      /\ t[Len(s) + 1] = x
  BY LenProperties, AppendProperties
<1> HIDE DEF t
<1>2. B = IF x.k = k THEN A \cup {Len(s) + 1} ELSE A
  BY <1>1
<1>3. IsFiniteSet(A)
  BY CountType
<1> HIDE DEF A
<1>5. Len(s) + 1 \notin A
  BY <1>1 DEF A
<1>4. Cardinality(A \cup {Len(s) + 1}) = Cardinality(A) + 1
  BY <1>3, <1>5, FS_AddElement
<1> QED BY <1>2, <1>4 DEF Count, t, A

LEMMA CountTail ==
    ASSUME NEW S, NEW s \in Seq(S), s # <<>>, NEW k
    PROVE  Count(s, k) = IF Head(s).k = k THEN Count(Tail(s), k) + 1 ELSE Count(Tail(s), k)
<1> DEFINE t == Tail(s)
           A == {i \in DOMAIN s : s[i].k = k}
           B == {i \in DOMAIN t : t[i].k = k}
           C == A \ {1}
           f == [i \in B |-> i + 1]
<1>1. /\ Len(s) \in Nat \ {0} /\ DOMAIN s = 1 .. Len(s) /\ t \in Seq(S)
      /\ Len(t) = Len(s) - 1 /\ DOMAIN t = 1 .. Len(t)
      /\ \A i \in 1 .. Len(t) : t[i] = s[i + 1]
      /\ Head(s) = s[1]
  BY EmptySeq, LenProperties, HeadTailProperties
<1> HIDE DEF t
<1>2. f \in Bijection(B, C)
  <2>1. \A i \in B : i + 1 \in C
    BY <1>1
  <2>2. \A j \in C : j - 1 \in B /\ f[j - 1] = j
    BY <1>1
  <2>3. \A i, j \in B : f[i] = f[j] => i = j
    BY <1>1
  <2>4. f \in [B -> C]
    BY <2>1
  <2>5. \A j \in C : \E i \in B : f[i] = j
    BY <2>2
  <2> HIDE DEF f, B, C
  <2> QED BY <2>3, <2>4, <2>5, Fun_IsBij
<1>3. IsFiniteSet(B) /\ IsFiniteSet(A) /\ Cardinality(A) \in Nat
  BY <1>1, CountType DEF Count
<1>4. Cardinality(C) = Cardinality(B)
  BY <1>2, <1>3, FS_Bijection DEF ExistsBijection
<1>5. Cardinality(C) = IF 1 \in A THEN Cardinality(A) - 1 ELSE Cardinality(A)
  BY <1>3, FS_RemoveElement
<1>6. 1 \in A <=> Head(s).k = k
  BY <1>1
<1> DEFINE a == Cardinality(A)
           b == Cardinality(B)
<1>7. a = IF Head(s).k = k THEN b + 1 ELSE b
  <2> HIDE DEF A, B, C
  <2> QED BY <1>3, <1>4, <1>5, <1>6
<1>8. a = Count(s, k) /\ b = Count(t, k)
  BY DEF Count
<1> QED BY <1>7, <1>8 DEF t
-----------------------------------------------------------------------------
(* What the device hears of our decoders. *)

Heard(i) == outbox[i].k \in {"login", "codecs"}
Newest(i) == \A j \in DOMAIN outbox : Heard(j) => j <= i

\* DecodersAgree, for any kind of session.
Agreed ==
    loginSent /\ ~tornDown =>
        /\ (\A i \in DOMAIN outbox : ~Heard(i)) => decoding = peerDec
        /\ \A i \in DOMAIN outbox : Heard(i) /\ Newest(i) => decoding = outbox[i].dec

\* A step that leaves the decoders, and what is on its way to the device, alone.
LEMMA AgreedRests ==
    ASSUME Agreed, UNCHANGED <<outbox, decoding, peerDec>>, loginSent' => loginSent,
           tornDown => tornDown'
    PROVE  Agreed'
BY DEF Agreed, Heard, Newest

\* A frame that tells the device nothing of the decoders is sent.
LEMMA AgreedSends ==
    ASSUME Types, Agreed, NEW f \in OutFrames, f.k \notin {"login", "codecs"},
           outbox' = Append(outbox, f), UNCHANGED <<decoding, peerDec, loginSent, tornDown>>
    PROVE  Agreed'
<1>1. /\ DOMAIN outbox \subseteq DOMAIN outbox'
      /\ \A i \in DOMAIN outbox : outbox'[i] = outbox[i]
      /\ \A i \in DOMAIN outbox' : i \in DOMAIN outbox \/ outbox'[i] = f
  BY Appended DEF Types
<1>2. /\ \A i \in DOMAIN outbox : Heard(i)' <=> Heard(i)
      /\ \A i \in DOMAIN outbox' : Heard(i)' => i \in DOMAIN outbox
  BY <1>1 DEF Heard
<1>3. \A i \in DOMAIN outbox : Newest(i)' => Newest(i)
  BY <1>1, <1>2 DEF Newest
<1> QED BY <1>1, <1>2, <1>3 DEF Agreed

\* A login or a change of the decoders is sent: it is the newest word of them.
LEMMA AgreedTells ==
    ASSUME Types, NEW k \in {"login", "codecs"}, NEW sd \in Decoding, decoding' = sd,
           outbox' = Append(outbox, [k |-> k, dec |-> sd])
    PROVE  Agreed'
<1> DEFINE f == [k |-> k, dec |-> sd]
<1>1. f \in OutFrames /\ f.k = k /\ f.dec = sd
  BY DEF OutFrames
<1> HIDE DEF f
<1>2. PICK n \in Nat : n = Len(outbox) + 1
  BY LenProperties DEF Types
<1>3. DOMAIN outbox' = 1 .. n /\ outbox'[n] = f
  BY <1>1, <1>2, LenProperties, AppendProperties DEF Types, f
<1>4. Heard(n)' /\ n \in DOMAIN outbox'
  BY <1>1, <1>2, <1>3, LenProperties DEF Heard, Types
<1>5. \A i \in DOMAIN outbox' : Newest(i)' => i = n
  BY <1>3, <1>4 DEF Newest
<1> QED BY <1>1, <1>3, <1>4, <1>5 DEF Agreed

LEMMA AgreedFrame ==
    ASSUME Inv, Agreed, RelayFrame
    PROVE  Agreed'
<1> DEFINE f == Head(inbox)
<1>1. /\ inbox \in Seq(Frames) /\ inbox # <<>> /\ outbox \in Seq(OutFrames)
      /\ decoding \in Decoding /\ ws2 = "open" /\ ~tornDown /\ peerDec' = peerDec
      /\ cipher \in BOOLEAN /\ (loginSent => cipher)
  BY DEF Inv, Types, WebTypeOK, RelayFrame, Order, NothingLeftOpen, Chain
<1> HIDE DEF f
<1>2. CASE FirstFrame(f)
  BY <1>1, <1>2 DEF FirstFrame, Agreed
<1>3. CASE Hash(f)
  <2>1. outbox' = Append(outbox, [k |-> "login", dec |-> decoding]) /\ decoding' = decoding
    BY <1>1, <1>3 DEF Hash, Sealed
  <2> QED BY <1>1, <2>1, AgreedTells DEF Inv
<1>4. CASE LoginResponse(f)
  BY <1>1, <1>4, AgreedRests DEF LoginResponse
<1>5. CASE VideoFrame(f)
  <2>1. /\ outbox' = Append(outbox, [k |-> "ack"])
        /\ UNCHANGED <<decoding, loginSent, tornDown>>
    BY <1>1, <1>5 DEF VideoFrame, StaysUp, sessionVars, Sealed
  <2>2. [k |-> "ack"] \in OutFrames
    BY DEF OutFrames
  <2> QED BY <1>1, <2>1, <2>2, AgreedSends DEF Inv
<1>6. CASE LastFrame(f)
  <2>1. tornDown'
    BY <1>6, TornDown DEF LastFrame, EndSession
  <2> QED BY <2>1 DEF Agreed
<1> QED BY <1>2, <1>3, <1>4, <1>5, <1>6 DEF RelayFrame, f

LEMMA AgreedAdvertises ==
    ASSUME Inv, NEW sd \in Decoding, Advertise(sd)
    PROVE  Agreed'
<1>1. decoding' = sd /\ UNCHANGED <<loginSent, tornDown>>
  BY DEF Advertise, hostVars
<1>2. CASE loginSent /\ ~tornDown
  <2>1. cipher /\ ws2 = "open"
    BY <1>2 DEF Inv, Order, Chain, Unlinked
  <2>2. outbox' = Append(outbox, [k |-> "codecs", dec |-> sd])
    BY <1>2, <2>1 DEF Advertise, Sealed
  <2> QED BY <1>1, <2>2, AgreedTells DEF Inv
<1>3. CASE ~loginSent \/ tornDown
  BY <1>1, <1>3 DEF Agreed
<1> QED BY <1>2, <1>3

LEMMA AgreedCodec ==
    ASSUME Inv,
           \/ \E c \in Codecs \cup {"auto"} : SetPreferredCodec(c)
           \/ \E c \in Codecs : Readvertise(c)
    PROVE  Agreed'
<1>1. ASSUME NEW c \in Codecs \cup {"auto"}, SetPreferredCodec(c) PROVE Agreed'
  <2>1. [decoding EXCEPT !.prefer = c] \in Decoding
    BY DEF Inv, Types, WebTypeOK, Decoding
  <2> QED BY <1>1, <2>1, AgreedAdvertises DEF SetPreferredCodec
<1>2. ASSUME NEW c \in Codecs, Readvertise(c) PROVE Agreed'
  <2>1. [Probe EXCEPT !.able = Codecs \ disabled'] \in Decoding
    BY DecodingType DEF Decoding
  <2>2. Advertise([Probe EXCEPT !.able = Codecs \ disabled'])
    BY <1>2 DEF Readvertise, Probe
  <2> QED BY <2>1, <2>2, AgreedAdvertises
<1> QED BY <1>1, <1>2

\* What the device takes was the oldest frame on its way to it.
LEMMA AgreedReceives ==
    ASSUME Types, Agreed, PeerReceives
    PROVE  Agreed'
<1> DEFINE f == Head(outbox)
<1>1. /\ outbox # <<>> /\ outbox' = Tail(outbox)
      /\ peerDec' = IF f.k \in {"login", "codecs"} THEN f.dec ELSE peerDec
      /\ UNCHANGED <<decoding, loginSent, tornDown>>
  BY DEF PeerReceives, hostVars, sessionVars
<1>2. /\ Len(outbox) \in Nat \ {0} /\ DOMAIN outbox = 1 .. Len(outbox) /\ f = outbox[1]
      /\ DOMAIN outbox' = 1 .. Len(outbox) - 1
      /\ \A i \in DOMAIN outbox' : outbox'[i] = outbox[i + 1]
  BY <1>1, EmptySeq, LenProperties, HeadTailProperties DEF Types
<1> HIDE DEF f
<1>3. \A i \in DOMAIN outbox' : i + 1 \in DOMAIN outbox /\ (Heard(i)' <=> Heard(i + 1))
  BY <1>2 DEF Heard
<1>4. \A j \in DOMAIN outbox : j = 1 \/ (j - 1 \in DOMAIN outbox' /\ (Heard(j) <=> Heard(j - 1)'))
  BY <1>2 DEF Heard
<1>5. ASSUME loginSent', ~tornDown', \A i \in DOMAIN outbox' : ~Heard(i)'
      PROVE  decoding' = peerDec'
  <2>1. \A j \in DOMAIN outbox : Heard(j) => j = 1
    BY <1>4, <1>5
  <2>2. CASE Heard(1)
    <3>1. Newest(1) /\ 1 \in DOMAIN outbox
      BY <1>2, <2>1 DEF Newest
    <3>2. decoding = outbox[1].dec
      BY <1>1, <1>5, <2>2, <3>1 DEF Agreed
    <3> QED BY <1>1, <1>2, <2>2, <3>2 DEF Heard
  <2>3. CASE ~Heard(1)
    BY <1>1, <1>2, <1>5, <2>1, <2>3 DEF Agreed, Heard
  <2> QED BY <2>2, <2>3
<1>6. ASSUME loginSent', ~tornDown', NEW i \in DOMAIN outbox', Heard(i)', Newest(i)'
      PROVE  decoding' = outbox'[i].dec
  <2>1. Newest(i + 1)
    <3>1. SUFFICES ASSUME NEW j \in DOMAIN outbox, Heard(j) PROVE j <= i + 1
      BY DEF Newest
    <3>2. CASE j = 1
      BY <1>2, <3>2
    <3>3. CASE j # 1
      BY <1>2, <1>4, <1>6, <3>1, <3>3 DEF Newest
    <3> QED BY <3>2, <3>3
  <2> QED BY <1>1, <1>2, <1>3, <1>6, <2>1 DEF Agreed
<1> QED BY <1>5, <1>6 DEF Agreed

LEMMA StepAgreed ==
    ASSUME Inv, Agreed, [WebNext]_webVars
    PROVE  Agreed'
<1>1. ASSUME Teardown PROVE Agreed'
  BY <1>1, TornDown DEF Agreed
<1>2. CASE UNCHANGED webVars
  BY <1>2, AgreedRests DEF webVars, hostVars, sessionVars, peerVars
<1>3. CASE Connect \/ ProbeDecoding
  BY <1>3, AgreedRests DEF Connect, ProbeDecoding, sessionVars, peerVars
<1>4. CASE Ready
  BY <1>1, <1>4, AgreedRests DEF Ready, PostError, StaysUp, sessionVars
<1>5. CASE IdSocketOpened
  BY <1>5 DEF IdSocketOpened, Agreed, Inv, Order, Opening, Unlinked, Heard, Newest
<1>6. CASE IdSocketFailed \/ RelayClosed \/ Watchdog \/ Disconnect
  BY <1>1, <1>6 DEF IdSocketFailed, RelayClosed, Watchdog, Disconnect, PostError
<1>7. CASE IdSocketClosed
  BY <1>1, <1>7, AgreedRests DEF IdSocketClosed, PostError, sessionVars
<1>8. CASE RelayOpened
  BY <1>8, AgreedRests DEF RelayOpened
<1>9. CASE RelayFailed
  BY <1>9 DEF RelayFailed, Agreed
<1>10. ASSUME NEW link \in {"good", "bad"}, RelayResponse(link) PROVE Agreed'
  BY <1>1, <1>10, AgreedRests DEF RelayResponse, EndSession
<1>11. ASSUME NEW failure \in BOOLEAN, PunchHoleResponse(failure) PROVE Agreed'
  BY <1>1, <1>11, AgreedRests DEF PunchHoleResponse, EndSession, StaysUp
<1>12. CASE RelayFrame
  BY <1>12, AgreedFrame
<1>13. CASE \/ \E c \in Codecs \cup {"auto"} : SetPreferredCodec(c)
            \/ \E c \in Codecs : Readvertise(c)
  BY <1>13, AgreedCodec
<1>14. CASE \/ \E link \in {"good", "bad"} : PeerIdentity(link)
            \/ \E answer \in {"wrong", "wait", "in"} : PeerVerdict(answer)
            \/ PeerPicture
            \/ \E k \in {"garbled", "close_reason"} : PeerEnds(k)
  BY <1>14, AgreedRests
  DEF PeerIdentity, PeerVerdict, PeerPicture, PeerEnds, PeerSends, hostVars, sessionVars
<1>15. CASE PeerReceives
  BY <1>15, AgreedReceives DEF Inv
<1> QED
  BY <1>2, <1>3, <1>4, <1>5, <1>6, <1>7, <1>8, <1>9, <1>10, <1>11, <1>12, <1>13, <1>14, <1>15
  DEF WebNext, Worker, Others

\* However the probe, the login, the user's preference and a failing codec follow
\* each other, the device hears of the decoders the session holds
\* (setSupportedDecoding, setPreferredCodec, readvertise and the login request).
THEOREM DecodersAreTold == WebSpec => []DecodersAgree
<1>1. WebInit => Agreed
  BY DEF WebInit, Agreed
<1>2. Agreed => DecodersAgree
  BY DEF Agreed, Heard, Newest, DecodersAgree
<1> QED BY <1>1, <1>2, StepAgreed, Invariance, PTL DEF WebSpec
-----------------------------------------------------------------------------
(* Pictures and their acknowledgements. *)

LEMMA AcknowledgedRests ==
    ASSUME EveryPictureAcknowledged, UNCHANGED <<inbox, outbox, unacked>>, tornDown => tornDown'
    PROVE  EveryPictureAcknowledged'
BY DEF EveryPictureAcknowledged

\* A frame that is no acknowledgement may be sent.
LEMMA NothingCounts ==
    ASSUME Types, NEW f \in OutFrames, f.k # "ack"
    PROVE  outbox' = outbox \/ outbox' = Append(outbox, f) => Count(outbox', "ack") = Count(outbox, "ack")
<1>1. outbox \in Seq(OutFrames)
  BY DEF Types
<1>2. Count(Append(outbox, f), "ack") = Count(outbox, "ack")
  BY <1>1, CountAppend
<1> QED BY <1>2

LEMMA AcknowledgedFrame ==
    ASSUME Inv, EveryPictureAcknowledged, RelayFrame
    PROVE  EveryPictureAcknowledged'
<1> DEFINE f == Head(inbox)
<1>1. /\ inbox \in Seq(Frames) /\ inbox # <<>> /\ outbox \in Seq(OutFrames)
      /\ decoding \in Decoding /\ ws2 = "open" /\ ~tornDown /\ unacked' = unacked
  BY DEF Inv, Types, WebTypeOK, RelayFrame, Order, NothingLeftOpen
<1>2. /\ Count(inbox, "video") = IF f.k = "video" THEN Count(Tail(inbox), "video") + 1
                                 ELSE Count(Tail(inbox), "video")
      /\ Count(Tail(inbox), "video") \in Nat /\ Count(outbox, "ack") \in Nat
  BY <1>1, CountTail, CountType, HeadTailProperties
<1>3. unacked = Count(inbox, "video") + Count(outbox, "ack")
  BY <1>1 DEF EveryPictureAcknowledged
<1>4. /\ [k |-> "public_key"] \in OutFrames /\ [k |-> "ack"] \in OutFrames
      /\ [k |-> "login", dec |-> decoding] \in OutFrames
  BY <1>1 DEF OutFrames
<1> HIDE DEF f
<1>5. ASSUME Teardown PROVE EveryPictureAcknowledged'
  BY <1>5, TornDown DEF EveryPictureAcknowledged
<1>6. CASE FirstFrame(f)
  <2>1. CASE Teardown
    BY <1>5, <2>1
  <2>2. CASE ~Teardown
    <3>1. f.k = "signed_id" /\ inbox' = Tail(inbox) /\ outbox' = Append(outbox, [k |-> "public_key"])
      BY <1>6, <2>2 DEF FirstFrame, EndSession
    <3>2. Count(outbox', "ack") = Count(outbox, "ack")
      BY <1>4, <3>1, NothingCounts DEF Inv
    <3> QED BY <1>1, <1>2, <1>3, <3>1, <3>2 DEF EveryPictureAcknowledged
  <2> QED BY <2>1, <2>2
<1>7. CASE Hash(f)
  <2>1. /\ f.k = "hash" /\ inbox' = Tail(inbox)
        /\ outbox' = outbox \/ outbox' = Append(outbox, [k |-> "login", dec |-> decoding])
    BY <1>7 DEF Hash, Sealed
  <2>2. Count(outbox', "ack") = Count(outbox, "ack")
    BY <1>4, <2>1, NothingCounts DEF Inv
  <2> QED BY <1>1, <1>2, <1>3, <2>1, <2>2 DEF EveryPictureAcknowledged
<1>8. CASE LoginResponse(f)
  BY <1>1, <1>2, <1>3, <1>8 DEF LoginResponse, EveryPictureAcknowledged
<1>9. CASE VideoFrame(f)
  <2>1. /\ f.k = "video" /\ inbox' = Tail(inbox)
        /\ outbox' = Append(outbox, [k |-> "ack"])
    BY <1>1, <1>9 DEF VideoFrame, Sealed
  <2>2. Count(outbox', "ack") = Count(outbox, "ack") + 1
    BY <1>1, <1>4, <2>1, CountAppend
  <2> QED BY <1>1, <1>2, <1>3, <2>1, <2>2 DEF EveryPictureAcknowledged
<1>10. CASE LastFrame(f)
  BY <1>5, <1>10 DEF LastFrame, EndSession
<1> QED BY <1>6, <1>7, <1>8, <1>9, <1>10 DEF RelayFrame, f

LEMMA AcknowledgedAdvertises ==
    ASSUME Types, EveryPictureAcknowledged, NEW sd, Advertise(sd),
           sd \in Decoding
    PROVE  EveryPictureAcknowledged'
<1>1. [k |-> "codecs", dec |-> sd] \in OutFrames
  BY DEF OutFrames
<1>2. /\ UNCHANGED <<inbox, unacked, tornDown>>
      /\ outbox' = outbox \/ outbox' = Append(outbox, [k |-> "codecs", dec |-> sd])
  BY DEF Advertise, Sealed, hostVars
<1>3. Count(outbox', "ack") = Count(outbox, "ack")
  BY <1>1, <1>2, NothingCounts
<1> QED BY <1>2, <1>3 DEF EveryPictureAcknowledged

LEMMA AcknowledgedCodec ==
    ASSUME Inv, EveryPictureAcknowledged,
           \/ \E c \in Codecs \cup {"auto"} : SetPreferredCodec(c)
           \/ \E c \in Codecs : Readvertise(c)
    PROVE  EveryPictureAcknowledged'
<1>1. ASSUME NEW c \in Codecs \cup {"auto"}, SetPreferredCodec(c) PROVE EveryPictureAcknowledged'
  <2>1. [decoding EXCEPT !.prefer = c] \in Decoding
    BY DEF Inv, Types, WebTypeOK, Decoding
  <2> QED BY <1>1, <2>1, AcknowledgedAdvertises DEF SetPreferredCodec, Inv
<1>2. ASSUME NEW c \in Codecs, Readvertise(c) PROVE EveryPictureAcknowledged'
  <2>1. [Probe EXCEPT !.able = Codecs \ disabled'] \in Decoding
    BY DecodingType DEF Decoding
  <2>2. Advertise([Probe EXCEPT !.able = Codecs \ disabled'])
    BY <1>2 DEF Readvertise, Probe
  <2> QED BY <2>1, <2>2, AcknowledgedAdvertises DEF Inv
<1> QED BY <1>1, <1>2

\* What the device sends: a picture is counted when it is sent.
LEMMA AcknowledgedSends ==
    ASSUME Types, EveryPictureAcknowledged, NEW f \in Frames, NEW next, PeerSends(f, next),
           unacked' = IF f.k = "video" THEN unacked + 1 ELSE unacked
    PROVE  EveryPictureAcknowledged'
<1>1. inbox' = Append(inbox, f) /\ UNCHANGED <<outbox, tornDown>>
  BY DEF PeerSends, hostVars
<1>2. Count(inbox', "video") = IF f.k = "video" THEN Count(inbox, "video") + 1
                               ELSE Count(inbox, "video")
  BY <1>1, CountAppend DEF Types, WebTypeOK
<1>3. Count(inbox, "video") \in Nat /\ Count(outbox, "ack") \in Nat
  BY CountType DEF Types, WebTypeOK
<1> QED BY <1>1, <1>2, <1>3 DEF EveryPictureAcknowledged

LEMMA AcknowledgedPeer ==
    ASSUME Types, EveryPictureAcknowledged,
           \/ \E link \in {"good", "bad"} : PeerIdentity(link)
           \/ \E answer \in {"wrong", "wait", "in"} : PeerVerdict(answer)
           \/ PeerPicture
           \/ \E k \in {"garbled", "close_reason"} : PeerEnds(k)
    PROVE  EveryPictureAcknowledged'
<1>1. ASSUME NEW link \in {"good", "bad"}, PeerIdentity(link) PROVE EveryPictureAcknowledged'
  <2>1. [k |-> "signed_id", link |-> link] \in Frames
    BY DEF Frames
  <2> QED BY <1>1, <2>1, AcknowledgedSends DEF PeerIdentity
<1>2. ASSUME NEW answer \in {"wrong", "wait", "in"}, PeerVerdict(answer)
      PROVE  EveryPictureAcknowledged'
  <2>1. [k |-> "login_response", answer |-> answer] \in Frames
    BY DEF Frames
  <2> QED BY <1>2, <2>1, AcknowledgedSends DEF PeerVerdict
<1>3. CASE PeerPicture
  <2>1. [k |-> "video"] \in Frames
    BY DEF Frames
  <2> QED BY <1>3, <2>1, AcknowledgedSends DEF PeerPicture
<1>4. ASSUME NEW k \in {"garbled", "close_reason"}, PeerEnds(k) PROVE EveryPictureAcknowledged'
  <2>1. [k |-> k] \in Frames
    BY DEF Frames
  <2> QED BY <1>4, <2>1, AcknowledgedSends DEF PeerEnds
<1> QED BY <1>1, <1>2, <1>3, <1>4

\* What it takes: an acknowledgement is counted off when it arrives.
LEMMA AcknowledgedReceives ==
    ASSUME Types, EveryPictureAcknowledged, PeerReceives
    PROVE  EveryPictureAcknowledged'
<1> DEFINE f == Head(outbox)
<1>1. /\ outbox \in Seq(OutFrames) /\ outbox # <<>> /\ outbox' = Tail(outbox)
      /\ inbox \in Seq(Frames)
      /\ inbox' = inbox \/ inbox' = Append(inbox, [k |-> "hash"])
      /\ unacked' = IF f.k = "ack" THEN unacked - 1 ELSE unacked
      /\ UNCHANGED tornDown
  BY DEF PeerReceives, hostVars, Types, WebTypeOK
<1>2. Count(outbox, "ack") = IF f.k = "ack" THEN Count(outbox', "ack") + 1
                             ELSE Count(outbox', "ack")
  BY <1>1, CountTail
<1>3. Count(inbox', "video") = Count(inbox, "video")
  <2>1. [k |-> "hash"] \in Frames
    BY DEF Frames
  <2> DEFINE h == [k |-> "hash"]
  <2>2. h.k # "video"
    OBVIOUS
  <2> HIDE DEF h
  <2>3. Count(Append(inbox, h), "video") = Count(inbox, "video")
    BY <1>1, <2>1, <2>2, CountAppend DEF h
  <2> QED BY <1>1, <2>3 DEF h
<1>4. Count(inbox, "video") \in Nat /\ Count(outbox, "ack") \in Nat /\ Count(outbox', "ack") \in Nat
  BY <1>1, CountType, HeadTailProperties
<1> HIDE DEF f
<1>5. SUFFICES ASSUME ~tornDown PROVE unacked' = Count(inbox', "video") + Count(outbox', "ack")
  BY <1>1 DEF EveryPictureAcknowledged
<1>6. unacked = Count(inbox, "video") + Count(outbox, "ack")
  BY <1>5 DEF EveryPictureAcknowledged
<1> DEFINE v == Count(inbox, "video")
           a == Count(outbox, "ack")
           b == Count(outbox', "ack")
<1>7. v \in Nat /\ a \in Nat /\ b \in Nat
  BY <1>4
<1>8. (f.k = "ack" => a = b + 1 /\ unacked' = unacked - 1) /\ (f.k # "ack" => a = b /\ unacked' = unacked)
  BY <1>1, <1>2
<1> HIDE DEF v, a, b
<1>9. unacked = v + a
  BY <1>6 DEF v, a
<1>10. unacked' = v + b
  BY <1>7, <1>8, <1>9
<1> QED BY <1>3, <1>10 DEF v, b

LEMMA StepAcknowledged ==
    ASSUME Inv, EveryPictureAcknowledged, [WebNext]_webVars
    PROVE  EveryPictureAcknowledged'
<1>1. ASSUME Teardown PROVE EveryPictureAcknowledged'
  BY <1>1, TornDown DEF EveryPictureAcknowledged
<1>2. CASE UNCHANGED webVars
  BY <1>2, AcknowledgedRests DEF webVars, hostVars, peerVars
<1>3. CASE Connect \/ ProbeDecoding
  BY <1>3, AcknowledgedRests DEF Connect, ProbeDecoding, peerVars
<1>4. CASE Ready
  BY <1>1, <1>4, AcknowledgedRests DEF Ready, PostError, StaysUp
<1>5. CASE IdSocketOpened
  BY <1>5, AcknowledgedRests DEF IdSocketOpened
<1>6. CASE IdSocketFailed \/ RelayClosed \/ Watchdog \/ Disconnect
  BY <1>1, <1>6 DEF IdSocketFailed, RelayClosed, Watchdog, Disconnect, PostError
<1>7. CASE IdSocketClosed
  BY <1>1, <1>7, AcknowledgedRests DEF IdSocketClosed, PostError
<1>8. CASE RelayOpened
  BY <1>8, AcknowledgedRests DEF RelayOpened
<1>9. CASE RelayFailed
  BY <1>9 DEF RelayFailed, EveryPictureAcknowledged
<1>10. ASSUME NEW link \in {"good", "bad"}, RelayResponse(link) PROVE EveryPictureAcknowledged'
  BY <1>1, <1>10, AcknowledgedRests DEF RelayResponse, EndSession
<1>11. ASSUME NEW failure \in BOOLEAN, PunchHoleResponse(failure) PROVE EveryPictureAcknowledged'
  BY <1>1, <1>11, AcknowledgedRests DEF PunchHoleResponse, EndSession, StaysUp
<1>12. CASE RelayFrame
  BY <1>12, AcknowledgedFrame
<1>13. CASE \/ \E c \in Codecs \cup {"auto"} : SetPreferredCodec(c)
            \/ \E c \in Codecs : Readvertise(c)
  BY <1>13, AcknowledgedCodec
<1>14. CASE \/ \E link \in {"good", "bad"} : PeerIdentity(link)
            \/ \E answer \in {"wrong", "wait", "in"} : PeerVerdict(answer)
            \/ PeerPicture
            \/ \E k \in {"garbled", "close_reason"} : PeerEnds(k)
  BY <1>14, AcknowledgedPeer DEF Inv
<1>15. CASE PeerReceives
  BY <1>15, AcknowledgedReceives DEF Inv
<1> QED
  BY <1>2, <1>3, <1>4, <1>5, <1>6, <1>7, <1>8, <1>9, <1>10, <1>11, <1>12, <1>13, <1>14, <1>15
  DEF WebNext, Worker, Others

\* Every picture the device counts against its limit is on its way, or its
\* acknowledgement is, for any number of pictures, whatever becomes of the decoders
\* (the video_received answer of dispatch).
THEOREM PicturesAreAcknowledged == WebSpec => []EveryPictureAcknowledged
<1>1. WebInit => EveryPictureAcknowledged
  BY CountEmpty DEF WebInit, EveryPictureAcknowledged
<1> QED BY <1>1, StepAcknowledged, Invariance, PTL DEF WebSpec
=============================================================================
