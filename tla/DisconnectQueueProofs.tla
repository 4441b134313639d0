------------------------ MODULE DisconnectQueueProofs ------------------------
(***************************************************************************)
(* What holds of the disconnect queue for every number of heartbeats,      *)
(* requests, connections and client processes, whether or not handlers     *)
(* overlap; and, when they do not overlap, what the queue promises: that a *)
(* rejected device has none, that what is handed over was owed, and that   *)
(* nothing accepted is forgotten.                                          *)
(***************************************************************************)
EXTENDS DisconnectQueue, TLAPS

BeatRow == [phase: {"idle", "sent", "read", "answered"}, awaited: BOOLEAN, epoch: Epochs,
            conns: SUBSET ConnIds, live: SUBSET ConnIds, pend: SUBSET ConnIds,
            answer: SUBSET ConnIds]
AskRow == [op: {"none", "some", "all", "reject", "approve"}, phase: {"view", "write"},
           ids: SUBSET ConnIds, epoch: Epochs, live: SUBSET ConnIds, pend: SUBSET ConnIds]
DeviceRow == [approved: BOOLEAN, live: SUBSET ConnIds, pend: SUBSET ConnIds, of: Epochs]

LEMMA FirstEpoch == 1 \in Epochs
BY BoundsAssumption DEF Epochs

\* A slot that is free or carries an answer is a slot, and an answer is awaited.
LEMMA AnsweredType ==
    ASSUME NEW b \in BeatRow, NEW ids \in SUBSET ConnIds
    PROVE  /\ Answered(b, ids) \in BeatRow
           /\ Answered(b, ids).phase = "answered" => Answered(b, ids).awaited
           /\ Answered(b, ids).pend = {}
           /\ Answered(b, ids).answer \subseteq ids
BY FirstEpoch DEF Answered, NoBeat, BeatRow

LEMMA NoBeatType ==
    /\ NoBeat \in BeatRow
    /\ NoBeat.phase = "idle" /\ NoBeat.pend = {} /\ NoBeat.answer = {}
BY FirstEpoch DEF NoBeat, BeatRow

LEMMA NoAskType == NoAsk \in AskRow /\ NoAsk.pend = {}
BY FirstEpoch DEF NoAsk, AskRow

LEMMA RecordedType ==
    ASSUME NEW r \in DeviceRow, NEW b \in BeatRow
    PROVE  Recorded(r, b) \in DeviceRow /\ Recorded(r, b).pend \subseteq r.pend
BY DEF Recorded, DeviceRow, BeatRow

-----------------------------------------------------------------------------
(* Type correctness *)

LEMMA InitType == Init => TypeOK
BY BoundsAssumption, FirstEpoch, NoBeatType, NoAskType
   DEF Init, TypeOK, ConnIds, BeatRow, AskRow

\* The heartbeats in progress stay well-formed when one of them becomes well-formed.
LEMMA BeatStepType ==
    ASSUME TypeOK, NEW b \in Beats, NEW n \in BeatRow, n.phase = "answered" => n.awaited,
           beat' = [beat EXCEPT ![b] = n]
    PROVE  /\ beat' \in [Beats -> BeatRow]
           /\ \A x \in Beats : beat'[x].phase = "answered" => beat'[x].awaited
BY DEF TypeOK, BeatRow

LEMMA AskStepType ==
    ASSUME TypeOK, NEW a \in Admins, NEW n \in AskRow, ask' = [ask EXCEPT ![a] = n]
    PROVE  ask' \in [Admins -> AskRow]
BY DEF TypeOK, AskRow

LEMMA ClientType ==
    ASSUME TypeOK, Open \/ Close \/ ClientRestart
    PROVE  TypeOK'
<1>1. CASE Open
  <2>1. /\ client.next \in ConnIds /\ client.next + 1 \in 1..(MaxId + 1)
        /\ client.open \cup {client.next} \in SUBSET ConnIds
    BY <1>1, BoundsAssumption DEF Open, TypeOK, ConnIds
  <2>2. client' = [client EXCEPT !.open = client.open \cup {client.next}, !.next = client.next + 1]
    BY <1>1 DEF Open
  <2>3. client' \in [epoch: Epochs, next: 1..(MaxId + 1), open: SUBSET ConnIds]
    BY <2>1, <2>2 DEF TypeOK
  <2>4. QED BY <1>1, <2>3 DEF Open, TypeOK
<1>2. CASE Close
  BY <1>2 DEF Close, TypeOK
<1>3. CASE ClientRestart
  <2>1. client' \in [epoch: Epochs, next: 1..(MaxId + 1), open: SUBSET ConnIds]
    BY <1>3, BoundsAssumption DEF ClientRestart, TypeOK, Epochs
  <2>2. /\ beat' \in [Beats -> BeatRow]
        /\ \A b \in Beats : beat'[b].phase # "answered"
    <3>1. ASSUME NEW b \in Beats
          PROVE  beat'[b] \in BeatRow /\ beat'[b].phase # "answered"
      <4>1. beat[b] \in BeatRow
        BY DEF TypeOK, BeatRow
      <4>2. CASE beat[b].phase = "answered"
        BY <1>3, <4>2, NoBeatType DEF ClientRestart
      <4>3. CASE beat[b].phase # "answered"
        BY <1>3, <4>1, <4>3 DEF ClientRestart, BeatRow
      <4>4. QED BY <4>2, <4>3
    <3>2. beat' = [b \in Beats |-> beat'[b]]
      BY <1>3 DEF ClientRestart
    <3>3. QED BY <3>1, <3>2
  <2>3. QED BY <1>3, <2>1, <2>2 DEF ClientRestart, TypeOK, BeatRow
<1>4. QED BY <1>1, <1>2, <1>3

LEMMA BeatType ==
    ASSUME TypeOK, NEW b \in Beats,
           Send(b) \/ GiveUp(b) \/ Lose(b) \/ Receive(b) \/ BeatRead(b) \/ BeatWrite(b)
    PROVE  TypeOK'
<1>0. beat \in [Beats -> BeatRow] /\ beat[b] \in BeatRow /\ row \in DeviceRow
  BY DEF TypeOK, BeatRow, DeviceRow
<1>1. CASE Send(b)
  <2> DEFINE n == [NoBeat EXCEPT !.phase = "sent", !.awaited = TRUE,
                                 !.epoch = client.epoch, !.conns = client.open]
  <2>1. n \in BeatRow /\ n.phase # "answered"
    BY NoBeatType DEF TypeOK, BeatRow
  <2>2. beat' = [beat EXCEPT ![b] = n]
    BY <1>1 DEF Send
  <2>3. QED BY <1>1, <2>1, <2>2, BeatStepType DEF Send, TypeOK, BeatRow
<1>2. CASE GiveUp(b)
  <2> DEFINE n == IF beat[b].phase = "answered" THEN NoBeat ELSE [beat[b] EXCEPT !.awaited = FALSE]
  <2>1. n \in BeatRow /\ n.phase # "answered"
    BY <1>0, NoBeatType DEF BeatRow
  <2>2. beat' = [beat EXCEPT ![b] = n]
    BY <1>0, <1>2 DEF GiveUp
  <2>3. QED BY <1>2, <2>1, <2>2, BeatStepType DEF GiveUp, TypeOK, BeatRow
<1>3. CASE Lose(b)
  BY <1>3, NoBeatType, BeatStepType DEF Lose, TypeOK, BeatRow
<1>4. CASE Receive(b)
  <2>1. client' \in [epoch: Epochs, next: 1..(MaxId + 1), open: SUBSET ConnIds]
    BY <1>4 DEF Receive, TypeOK
  <2>2. QED BY <1>4, <2>1, NoBeatType, BeatStepType DEF Receive, TypeOK, BeatRow
<1>5. CASE BeatRead(b)
  <2> DEFINE n == IF row.approved
                  THEN [beat[b] EXCEPT !.phase = "read", !.live = row.live, !.pend = row.pend]
                  ELSE Answered(beat[b], {})
  <2>1. n \in BeatRow /\ (n.phase = "answered" => n.awaited)
    <3>1. CASE row.approved
      BY <1>0, <3>1 DEF BeatRow, DeviceRow
    <3>2. CASE ~row.approved
      BY <1>0, <3>2, AnsweredType
    <3>3. QED BY <3>1, <3>2
  <2>2. beat' = [beat EXCEPT ![b] = n]
    BY <1>0, <1>5 DEF BeatRead
  <2>3. QED BY <1>5, <2>1, <2>2, BeatStepType DEF BeatRead, TypeOK, BeatRow
<1>6. CASE BeatWrite(b)
  <2> DEFINE n == Answered(beat[b], HandedOver(beat[b]))
  <2>1. HandedOver(beat[b]) \in SUBSET ConnIds
    BY <1>0 DEF HandedOver, BeatRow
  <2>2. n \in BeatRow /\ (n.phase = "answered" => n.awaited)
    BY <1>0, <2>1, AnsweredType
  <2>3. beat' = [beat EXCEPT ![b] = n]
    BY <1>0, <1>6 DEF BeatWrite
  <2>4. row' \in DeviceRow
    BY <1>0, <1>6, RecordedType DEF BeatWrite
  <2>5. owed' \subseteq owed
    BY <1>6 DEF BeatWrite
  <2>6. QED BY <1>6, <2>2, <2>3, <2>4, <2>5, BeatStepType
            DEF BeatWrite, TypeOK, BeatRow, DeviceRow
<1>7. QED BY <1>1, <1>2, <1>3, <1>4, <1>5, <1>6

LEMMA AskType ==
    ASSUME TypeOK, NEW a \in Admins,
           View(a) \/ AskRead(a) \/ AskWrite(a) \/ RejectWrite(a) \/ ApproveWrite(a)
    PROVE  TypeOK'
<1>0. ask \in [Admins -> AskRow] /\ ask[a] \in AskRow /\ row \in DeviceRow
  BY DEF TypeOK, AskRow, DeviceRow
<1>1. CASE View(a)
  <2>1. PICK n \in AskRow : ask' = [ask EXCEPT ![a] = n]
    <3>1. CASE \E ids \in SUBSET row.live \ {{}} :
                  ask' = [ask EXCEPT ![a] = [NoAsk EXCEPT !.op = "some", !.ids = ids,
                                                          !.epoch = row.of]]
      BY <1>0, <3>1, NoAskType DEF AskRow, DeviceRow
    <3>2. CASE \E op \in {"all"} \cup (IF Rejects THEN {"reject", "approve"} ELSE {}) :
                  ask' = [ask EXCEPT ![a] = [NoAsk EXCEPT !.op = op]]
      BY <3>2, NoAskType DEF AskRow
    <3>3. QED BY <1>1, <3>1, <3>2 DEF View
  <2>2. QED BY <1>1, <2>1, AskStepType DEF View, TypeOK, AskRow
<1>2. CASE AskRead(a)
  <2> DEFINE n == IF Refused(ask[a]) THEN NoAsk
                  ELSE [ask[a] EXCEPT !.phase = "write", !.ids = Chosen(ask[a]),
                          !.live = row.live, !.pend = row.pend,
                          !.epoch = IF ask[a].op = "all" THEN row.of ELSE ask[a].epoch]
  <2>1. Chosen(ask[a]) \in SUBSET ConnIds
    BY <1>0 DEF Chosen, AskRow, DeviceRow
  <2>2. n \in AskRow
    BY <1>0, <2>1, NoAskType DEF AskRow, DeviceRow
  <2>3. ask' = [ask EXCEPT ![a] = n]
    BY <1>0, <1>2 DEF AskRead
  <2>4. QED BY <1>2, <2>2, <2>3, AskStepType DEF AskRead, TypeOK, AskRow
<1>3. CASE AskWrite(a)
  <2>1. row' \in DeviceRow
    BY <1>0, <1>3 DEF AskWrite, ExtendedQueue, AskRow, DeviceRow
  <2>2. {ask[a].epoch} \X ask[a].ids \subseteq Conns
    BY <1>0 DEF Conns, AskRow
  <2>3. asked' \subseteq Conns /\ owed' \subseteq asked'
    BY <1>3, <2>2 DEF AskWrite, TypeOK
  <2>4. QED BY <1>3, <2>1, <2>3, NoAskType, AskStepType DEF AskWrite, TypeOK, AskRow, DeviceRow
<1>4. CASE RejectWrite(a)
  <2>1. row' \in DeviceRow
    BY <1>0, <1>4 DEF RejectWrite, DeviceRow
  <2>2. QED BY <1>4, <2>1, NoAskType, AskStepType DEF RejectWrite, TypeOK, AskRow, DeviceRow
<1>5. CASE ApproveWrite(a)
  <2>1. row' \in DeviceRow
    BY <1>0, <1>5 DEF ApproveWrite, DeviceRow
  <2>2. QED BY <1>5, <2>1, NoAskType, AskStepType DEF ApproveWrite, TypeOK, AskRow, DeviceRow
<1>6. QED BY <1>1, <1>2, <1>3, <1>4, <1>5

LEMMA ServerRestartType ==
    ASSUME TypeOK, ServerRestart
    PROVE  TypeOK'
BY NoBeatType, NoAskType DEF ServerRestart, TypeOK, BeatRow, AskRow

LEMMA StepType == TypeOK /\ [Next]_vars => TypeOK'
<1> SUFFICES ASSUME TypeOK, [Next]_vars PROVE TypeOK'
  OBVIOUS
<1>1. CASE UNCHANGED vars
  BY <1>1 DEF TypeOK, vars
<1>2. CASE Next
  BY <1>2, ClientType, BeatType, AskType, ServerRestartType DEF Next
<1>3. QED BY <1>1, <1>2

\* The client, the row and the requests in progress stay well-formed, and no answer is under
\* way to a client that has given up: DisconnectQueue's TypeOK for every instance.
THEOREM QueueTypeCorrect == Spec => []TypeOK
<1>1. Init => TypeOK
  BY InitType
<1>2. TypeOK /\ [Next]_vars => TypeOK'
  BY StepType
<1>3. QED BY <1>1, <1>2, PTL DEF Spec

-----------------------------------------------------------------------------
(* Nothing is ended that was not asked for *)

\* OnlyAskedIds is not inductive by itself: a request writes back the queue it has read.
AskedInv ==
    /\ TypeOK
    /\ OnlyAskedIds
    /\ \A a \in Admins : ask[a].pend \subseteq AskedIds

\* What was asked stays asked.
LEMMA AskedGrows ==
    ASSUME asked \subseteq asked'
    PROVE  AskedIds \subseteq AskedIds'
BY DEF AskedIds

LEMMA InitAsked == Init => AskedInv
<1> SUFFICES ASSUME Init PROVE AskedInv
  OBVIOUS
<1>1. TypeOK
  BY InitType
<1>2. OnlyAskedIds /\ \A a \in Admins : ask[a].pend \subseteq AskedIds
  BY NoBeatType, NoAskType DEF Init, OnlyAskedIds
<1>3. QED BY <1>1, <1>2 DEF AskedInv

\* A step of a client or of a heartbeat queues nothing.
LEMMA BeatAsked ==
    ASSUME AskedInv, NEW b \in Beats,
           Send(b) \/ GiveUp(b) \/ Lose(b) \/ Receive(b) \/ BeatRead(b) \/ BeatWrite(b)
    PROVE  OnlyAskedIds' /\ UNCHANGED <<asked, ask>>
<1>0. /\ beat \in [Beats -> BeatRow] /\ beat[b] \in BeatRow /\ row \in DeviceRow
      /\ row.pend \subseteq AskedIds /\ row.pend \in SUBSET ConnIds
      /\ beat[b].pend \subseteq AskedIds /\ beat[b].answer \subseteq AskedIds
  BY DEF AskedInv, TypeOK, OnlyAskedIds, BeatRow, DeviceRow
<1>1. UNCHANGED <<asked, ask>>
  BY DEF Send, GiveUp, Lose, Receive, BeatRead, BeatWrite
<1>2. AskedIds' = AskedIds
  BY <1>1 DEF AskedIds
<1>3. row'.pend \subseteq row.pend
  BY <1>0, RecordedType DEF Send, GiveUp, Lose, Receive, BeatRead, BeatWrite
<1>4. \E n \in BeatRow : /\ beat' = [beat EXCEPT ![b] = n]
                         /\ n.pend \subseteq AskedIds /\ n.answer \subseteq AskedIds
  <2>1. CASE Send(b)
    <3> DEFINE n == [NoBeat EXCEPT !.phase = "sent", !.awaited = TRUE,
                                   !.epoch = client.epoch, !.conns = client.open]
    <3>1. n \in BeatRow /\ n.pend = {} /\ n.answer = {}
      BY NoBeatType DEF AskedInv, TypeOK, BeatRow
    <3>2. beat' = [beat EXCEPT ![b] = n]
      BY <2>1 DEF Send
    <3>3. QED BY <3>1, <3>2
  <2>2. CASE GiveUp(b)
    <3> DEFINE n == IF beat[b].phase = "answered" THEN NoBeat
                    ELSE [beat[b] EXCEPT !.awaited = FALSE]
    <3>1. n \in BeatRow /\ n.pend \subseteq AskedIds /\ n.answer \subseteq AskedIds
      BY <1>0, NoBeatType DEF BeatRow
    <3>2. beat' = [beat EXCEPT ![b] = n]
      BY <1>0, <2>2 DEF GiveUp
    <3>3. QED BY <3>1, <3>2
  <2>3. CASE Lose(b)
    BY <2>3, NoBeatType DEF Lose
  <2>4. CASE Receive(b)
    BY <2>4, NoBeatType DEF Receive
  <2>5. CASE BeatRead(b)
    <3> DEFINE n == IF row.approved
                    THEN [beat[b] EXCEPT !.phase = "read", !.live = row.live, !.pend = row.pend]
                    ELSE Answered(beat[b], {})
    <3>1. CASE row.approved
      <4>1. n \in BeatRow /\ n.pend = row.pend /\ n.answer = beat[b].answer
        BY <1>0, <3>1 DEF BeatRow, DeviceRow
      <4>2. beat' = [beat EXCEPT ![b] = n]
        BY <1>0, <2>5 DEF BeatRead
      <4> HIDE DEF n
      <4>3. QED BY <1>0, <4>1, <4>2
    <3>2. CASE ~row.approved
      <4>1. Answered(beat[b], {}) \in BeatRow /\ Answered(beat[b], {}).pend = {}
            /\ Answered(beat[b], {}).answer = {}
        BY <1>0, AnsweredType
      <4>2. beat' = [beat EXCEPT ![b] = Answered(beat[b], {})]
        BY <1>0, <2>5, <3>2 DEF BeatRead
      <4>3. QED BY <4>1, <4>2
    <3>3. QED BY <3>1, <3>2
  <2>6. CASE BeatWrite(b)
    <3>1. HandedOver(beat[b]) \in SUBSET ConnIds /\ HandedOver(beat[b]) \subseteq AskedIds
      BY <1>0 DEF HandedOver, BeatRow
    <3>2. beat' = [beat EXCEPT ![b] = Answered(beat[b], HandedOver(beat[b]))]
      BY <1>0, <2>6 DEF BeatWrite
    <3>3. QED BY <1>0, <3>1, <3>2, AnsweredType
  <2>7. QED BY <2>1, <2>2, <2>3, <2>4, <2>5, <2>6
<1>5. OnlyAskedIds'
  BY <1>0, <1>2, <1>3, <1>4 DEF AskedInv, OnlyAskedIds
<1>6. QED BY <1>1, <1>5

LEMMA AskAsked ==
    ASSUME AskedInv, NEW a \in Admins,
           View(a) \/ AskRead(a) \/ AskWrite(a) \/ RejectWrite(a) \/ ApproveWrite(a)
    PROVE  OnlyAskedIds' /\ (\A x \in Admins : ask[x].pend \subseteq AskedIds)'
<1>0. /\ ask \in [Admins -> AskRow] /\ ask[a] \in AskRow /\ row \in DeviceRow
      /\ ask[a].pend \subseteq AskedIds /\ row.pend \subseteq AskedIds
  BY DEF AskedInv, TypeOK, OnlyAskedIds, AskRow, DeviceRow
<1>1. asked \subseteq asked' /\ UNCHANGED beat
  BY DEF View, AskRead, AskWrite, RejectWrite, ApproveWrite
<1>2. AskedIds \subseteq AskedIds'
  BY <1>1, AskedGrows
<1>3. row'.pend \subseteq AskedIds'
  <2>1. CASE AskWrite(a)
    <3>1. ask[a].ids \subseteq AskedIds'
      <4>1. ASSUME NEW i \in ask[a].ids PROVE i \in AskedIds'
        <5>1. <<ask[a].epoch, i>> \in asked'
          BY <2>1, <4>1 DEF AskWrite
        <5>2. QED BY <5>1 DEF AskedIds
      <4>2. QED BY <4>1
    <3>2. QED BY <1>0, <1>2, <2>1, <3>1 DEF AskWrite, ExtendedQueue, DeviceRow
  <2>2. CASE View(a) \/ AskRead(a) \/ RejectWrite(a) \/ ApproveWrite(a)
    BY <1>0, <1>2, <2>2 DEF View, AskRead, RejectWrite, ApproveWrite, DeviceRow
  <2>3. QED BY <2>1, <2>2
<1>4. \E n : ask' = [ask EXCEPT ![a] = n] /\ n.pend \subseteq AskedIds
  <2>1. CASE View(a)
    <3>1. CASE \E ids \in SUBSET row.live \ {{}} :
                  ask' = [ask EXCEPT ![a] = [NoAsk EXCEPT !.op = "some", !.ids = ids,
                                                          !.epoch = row.of]]
      <4>1. PICK ids : ask' = [ask EXCEPT ![a] = [NoAsk EXCEPT !.op = "some", !.ids = ids,
                                                              !.epoch = row.of]]
        BY <3>1
      <4>2. [NoAsk EXCEPT !.op = "some", !.ids = ids, !.epoch = row.of].pend = {}
        BY DEF NoAsk
      <4>3. QED BY <4>1, <4>2
    <3>2. CASE \E op \in {"all"} \cup (IF Rejects THEN {"reject", "approve"} ELSE {}) :
                  ask' = [ask EXCEPT ![a] = [NoAsk EXCEPT !.op = op]]
      <4>1. PICK op : ask' = [ask EXCEPT ![a] = [NoAsk EXCEPT !.op = op]]
        BY <3>2
      <4>2. [NoAsk EXCEPT !.op = op].pend = {}
        BY DEF NoAsk
      <4>3. QED BY <4>1, <4>2
    <3>3. QED BY <2>1, <3>1, <3>2 DEF View
  <2>2. CASE AskRead(a)
    <3> DEFINE n == IF Refused(ask[a]) THEN NoAsk
                    ELSE [ask[a] EXCEPT !.phase = "write", !.ids = Chosen(ask[a]),
                            !.live = row.live, !.pend = row.pend,
                            !.epoch = IF ask[a].op = "all" THEN row.of ELSE ask[a].epoch]
    <3>1. n.pend \subseteq AskedIds
      BY <1>0, NoAskType DEF AskRow
    <3>2. ask' = [ask EXCEPT ![a] = n]
      BY <1>0, <2>2 DEF AskRead
    <3> HIDE DEF n
    <3>3. QED BY <3>1, <3>2
  <2>3. CASE AskWrite(a) \/ RejectWrite(a) \/ ApproveWrite(a)
    BY <2>3, NoAskType DEF AskWrite, RejectWrite, ApproveWrite
  <2>4. QED BY <2>1, <2>2, <2>3
<1>5. OnlyAskedIds'
  BY <1>1, <1>2, <1>3 DEF AskedInv, OnlyAskedIds
<1>6. (\A x \in Admins : ask[x].pend \subseteq AskedIds)'
  BY <1>0, <1>2, <1>4 DEF AskedInv
<1>7. QED BY <1>5, <1>6

LEMMA StepAsked == AskedInv /\ [Next]_vars => AskedInv'
<1> SUFFICES ASSUME AskedInv, [Next]_vars PROVE AskedInv'
  OBVIOUS
<1>0. TypeOK'
  BY StepType DEF AskedInv
<1>1. CASE UNCHANGED vars
  BY <1>0, <1>1 DEF AskedInv, OnlyAskedIds, AskedIds, vars
<1>2. CASE Open \/ Close
  BY <1>0, <1>2 DEF Open, Close, AskedInv, OnlyAskedIds, AskedIds
<1>3. CASE ClientRestart \/ ServerRestart
  <2>1. /\ \A b \in Beats : /\ beat'[b].pend \subseteq beat[b].pend
                            /\ beat'[b].answer \subseteq beat[b].answer
        /\ \A a \in Admins : ask'[a].pend \subseteq ask[a].pend
        /\ UNCHANGED <<row, asked>>
    BY <1>3, NoBeatType, NoAskType
       DEF ClientRestart, ServerRestart, AskedInv, TypeOK
  <2>2. QED BY <1>0, <2>1 DEF AskedInv, OnlyAskedIds, AskedIds
<1>4. CASE \E b \in Beats : Send(b) \/ GiveUp(b) \/ Lose(b) \/ Receive(b) \/ BeatRead(b)
                            \/ BeatWrite(b)
  <2>1. OnlyAskedIds' /\ UNCHANGED <<asked, ask>>
    BY <1>4, BeatAsked
  <2>2. QED BY <1>0, <2>1 DEF AskedInv, AskedIds
<1>5. CASE \E a \in Admins : View(a) \/ AskRead(a) \/ AskWrite(a) \/ RejectWrite(a)
                             \/ ApproveWrite(a)
  BY <1>0, <1>5, AskAsked DEF AskedInv
<1>6. QED BY <1>1, <1>2, <1>3, <1>4, <1>5 DEF Next

\* No id is queued or sent to the client that was never asked for, although every handler
\* may write back what it has read long before (record_heartbeat, request_disconnect).
THEOREM OnlyAskedIdsEnd == Spec => []OnlyAskedIds
<1>1. Init => AskedInv
  BY InitAsked
<1>2. AskedInv /\ [Next]_vars => AskedInv'
  BY StepAsked
<1>3. AskedInv => OnlyAskedIds
  BY DEF AskedInv
<1>4. QED BY <1>1, <1>2, <1>3, PTL DEF Spec

-----------------------------------------------------------------------------
(* Handlers that do not overlap *)

Reading(b) == beat[b].phase = "read"
Writing(a) == ask[a].phase = "write"

\* One handler at most is between its read and its write, and what it has read is still
\* what the row says; only an approved device has anything to record or to end.
Serial ==
    /\ \A b, c \in Beats : Reading(b) /\ Reading(c) => b = c
    /\ \A a, c \in Admins : Writing(a) /\ Writing(c) => a = c
    /\ \A b \in Beats, a \in Admins : ~(Reading(b) /\ Writing(a))
    /\ \A b \in Beats : Reading(b) => row.approved
    /\ \A a \in Admins : Writing(a) =>
          /\ ask[a].live = row.live /\ ask[a].pend = row.pend
          /\ ask[a].op \in {"some", "all"} => row.approved

SerialInv == TypeOK /\ Serial /\ RejectedIsBare

LEMMA InitSerial == Init => SerialInv
<1> SUFFICES ASSUME Init PROVE SerialInv
  OBVIOUS
<1>1. TypeOK
  BY InitType
<1>2. Serial /\ RejectedIsBare
  BY DEF Init, NoBeat, NoAsk, Serial, Reading, Writing, RejectedIsBare
<1>3. QED BY <1>1, <1>2 DEF SerialInv

\* A step that takes no handler past its read, and does not touch the row.
LEMMA QuietSerial ==
    ASSUME SerialInv, UNCHANGED row,
           \A b \in Beats : Reading(b)' => Reading(b),
           \A a \in Admins : Writing(a)' => Writing(a) /\ ask'[a] = ask[a]
    PROVE  Serial' /\ RejectedIsBare'
BY DEF SerialInv, Serial, Reading, Writing, RejectedIsBare

\* A heartbeat that is read or written, while the others stay as they are.
LEMMA BeatSerial ==
    ASSUME SerialInv, ~Overlap, NEW b \in Beats,
           Send(b) \/ GiveUp(b) \/ Lose(b) \/ Receive(b) \/ BeatRead(b) \/ BeatWrite(b)
    PROVE  Serial' /\ RejectedIsBare'
<1>0. beat \in [Beats -> BeatRow] /\ beat[b] \in BeatRow /\ row \in DeviceRow /\ UNCHANGED ask
  BY DEF SerialInv, TypeOK, BeatRow, DeviceRow, Send, GiveUp, Lose, Receive, BeatRead, BeatWrite
<1>1. \A x \in Beats \ {b} : beat'[x] = beat[x]
  BY <1>0 DEF Send, GiveUp, Lose, Receive, BeatRead, BeatWrite
<1>2. CASE Send(b) \/ GiveUp(b) \/ Lose(b) \/ Receive(b)
  <2>1. UNCHANGED row /\ (beat'[b].phase = "read" => beat[b].phase = "read")
    <3>1. CASE Send(b)
      BY <1>0, <3>1, NoBeatType DEF Send, BeatRow
    <3>2. CASE GiveUp(b)
      BY <1>0, <3>2, NoBeatType DEF GiveUp, BeatRow
    <3>3. CASE Lose(b) \/ Receive(b)
      BY <1>0, <3>3, NoBeatType DEF Lose, Receive
    <3>4. QED BY <1>2, <3>1, <3>2, <3>3
  <2>2. QED BY <1>0, <1>1, <2>1, QuietSerial DEF Reading, Writing
<1>3. CASE BeatRead(b)
  <2>1. /\ \A x \in Beats : ~Reading(x)
        /\ \A a \in Admins : ~Writing(a)
        /\ UNCHANGED row
    BY <1>3 DEF BeatRead, MayRead, Reading, Writing
  <2>2. beat'[b].phase = "read" => row.approved
    BY <1>0, <1>3 DEF BeatRead, Answered, NoBeat
  <2>3. QED BY <1>0, <1>1, <2>1, <2>2 DEF SerialInv, Serial, Reading, Writing, RejectedIsBare
<1>4. CASE BeatWrite(b)
  <2>1. Reading(b) /\ row.approved
    BY <1>4 DEF BeatWrite, Reading, SerialInv, Serial
  <2>2. beat'[b].phase # "read"
    BY <1>0, <1>4 DEF BeatWrite, Answered, NoBeat
  <2>3. row'.approved
    BY <1>0, <1>4, <2>1 DEF BeatWrite, Recorded, DeviceRow
  <2>4. \A x \in Beats : ~Reading(x)'
    BY <1>1, <2>1, <2>2 DEF SerialInv, Serial, Reading
  <2>5. \A a \in Admins : ~Writing(a)'
    BY <1>0, <2>1 DEF SerialInv, Serial, Reading, Writing
  <2>6. QED BY <2>3, <2>4, <2>5 DEF Serial, RejectedIsBare
<1>5. QED BY <1>2, <1>3, <1>4

LEMMA AskSerial ==
    ASSUME SerialInv, ~Overlap, NEW a \in Admins,
           View(a) \/ AskRead(a) \/ AskWrite(a) \/ RejectWrite(a) \/ ApproveWrite(a)
    PROVE  Serial' /\ RejectedIsBare'
<1>0. ask \in [Admins -> AskRow] /\ ask[a] \in AskRow /\ row \in DeviceRow /\ UNCHANGED beat
  BY DEF SerialInv, TypeOK, AskRow, DeviceRow, View, AskRead, AskWrite, RejectWrite, ApproveWrite
<1>1. \A x \in Admins \ {a} : ask'[x] = ask[x]
  BY <1>0 DEF View, AskRead, AskWrite, RejectWrite, ApproveWrite
<1>2. CASE View(a)
  <2>1. UNCHANGED row /\ ask'[a].phase # "write"
    BY <1>0, <1>2 DEF View, NoAsk
  <2>2. QED BY <1>0, <1>1, <2>1, QuietSerial DEF Reading, Writing
<1>3. CASE AskRead(a)
  <2>1. /\ \A b \in Beats : ~Reading(b)
        /\ \A x \in Admins : ~Writing(x)
        /\ UNCHANGED row
    BY <1>3 DEF AskRead, MayRead, Reading, Writing
  <2>2. CASE Refused(ask[a])
    <3>1. ask'[a].phase # "write"
      BY <1>0, <1>3, <2>2 DEF AskRead, NoAsk
    <3>2. QED BY <1>0, <1>1, <2>1, <3>1, QuietSerial DEF Reading, Writing
  <2>3. CASE ~Refused(ask[a])
    <3>1. ask'[a].live = row.live /\ ask'[a].pend = row.pend /\ ask'[a].op = ask[a].op
      BY <1>0, <1>3, <2>3 DEF AskRead, AskRow
    <3>2. ask[a].op \in {"some", "all"} => row.approved
      <4>1. ask[a].op \in {"some", "all"} => row.live # {}
        BY <1>0, <2>3 DEF Refused, Chosen
      <4>2. QED BY <4>1 DEF SerialInv, RejectedIsBare
    <3>3. QED BY <1>0, <1>1, <2>1, <3>1, <3>2
              DEF SerialInv, Serial, Reading, Writing, RejectedIsBare
  <2>4. QED BY <2>2, <2>3
<1>4. CASE AskWrite(a) \/ RejectWrite(a) \/ ApproveWrite(a)
  <2>1. Writing(a) /\ ask'[a] = NoAsk
    BY <1>0, <1>4 DEF AskWrite, RejectWrite, ApproveWrite, Writing
  <2>2. \A x \in Admins : ~Writing(x)'
    BY <1>1, <2>1 DEF SerialInv, Serial, Writing, NoAsk
  <2>3. \A b \in Beats : ~Reading(b)'
    BY <1>0, <2>1 DEF SerialInv, Serial, Reading
  <2>4. RejectedIsBare'
    <3>1. CASE AskWrite(a)
      <4>1. row.approved
        BY <2>1, <3>1 DEF AskWrite, SerialInv, Serial
      <4>2. row'.approved
        BY <1>0, <3>1, <4>1 DEF AskWrite, DeviceRow
      <4>3. QED BY <4>2 DEF RejectedIsBare
    <3>2. CASE RejectWrite(a)
      <4>1. ask[a].live = row.live /\ ask[a].pend = row.pend
        BY <2>1 DEF SerialInv, Serial
      <4>2. row'.live = {} /\ row'.pend = {}
        BY <1>0, <3>2, <4>1 DEF RejectWrite, DeviceRow
      <4>3. QED BY <4>2 DEF RejectedIsBare
    <3>3. CASE ApproveWrite(a)
      BY <1>0, <3>3 DEF ApproveWrite, DeviceRow, RejectedIsBare
    <3>4. QED BY <1>4, <3>1, <3>2, <3>3
  <2>5. QED BY <2>2, <2>3, <2>4 DEF Serial
<1>5. QED BY <1>2, <1>3, <1>4

LEMMA StepSerial ==
    ASSUME ~Overlap, SerialInv, [Next]_vars
    PROVE  SerialInv'
<1>0. TypeOK'
  BY StepType DEF SerialInv
<1>1. CASE UNCHANGED vars
  BY <1>0, <1>1 DEF SerialInv, Serial, Reading, Writing, RejectedIsBare, vars
<1>2. CASE Open \/ Close
  BY <1>0, <1>2, QuietSerial DEF Open, Close, Reading, Writing, SerialInv
<1>3. CASE ClientRestart \/ ServerRestart
  <2>1. /\ \A b \in Beats : beat'[b].phase = "read" => beat[b].phase = "read"
        /\ \A a \in Admins : ask'[a] = ask[a] \/ ask'[a] = NoAsk
        /\ UNCHANGED row
    BY <1>3 DEF ClientRestart, ServerRestart, NoBeat, SerialInv, TypeOK
  <2>2. \A a \in Admins : ask'[a].phase = "write" => ask'[a] = ask[a]
    BY <2>1 DEF NoAsk
  <2>3. QED BY <1>0, <2>1, <2>2, QuietSerial DEF Reading, Writing, SerialInv
<1>4. CASE \E b \in Beats : Send(b) \/ GiveUp(b) \/ Lose(b) \/ Receive(b) \/ BeatRead(b)
                            \/ BeatWrite(b)
  BY <1>0, <1>4, BeatSerial DEF SerialInv
<1>5. CASE \E a \in Admins : View(a) \/ AskRead(a) \/ AskWrite(a) \/ RejectWrite(a)
                             \/ ApproveWrite(a)
  BY <1>0, <1>5, AskSerial DEF SerialInv
<1>6. QED BY <1>1, <1>2, <1>3, <1>4, <1>5 DEF Next

\* While handlers do not overlap, nothing is queued or shown for a rejected device, for any
\* number of heartbeats, administrators, connections and client processes (reject_device
\* clears both columns it has read as set, and record_heartbeat leaves such a row alone).
THEOREM RejectedStaysBare ==
    ASSUME ~Overlap
    PROVE  Spec => []RejectedIsBare
<1>1. Init => SerialInv
  BY InitSerial
<1>2. SerialInv /\ [Next]_vars => SerialInv'
  BY StepSerial
<1>3. SerialInv => RejectedIsBare
  BY DEF SerialInv
<1>4. QED BY <1>1, <1>2, <1>3, PTL DEF Spec

-----------------------------------------------------------------------------
(* One client process: what is asked for is handed over, once *)

\* A heartbeat has read the queue as it is, and what is queued is owed.
Delivery ==
    /\ \A b \in Beats : Reading(b) => beat[b].pend = row.pend
    /\ \A i \in row.pend : <<1, i>> \in owed

LEMMA OneEpoch ==
    ASSUME MaxEpoch = 1
    PROVE  Epochs = {1}
BY DEF Epochs

LEMMA InitDelivery == Init => Delivery
BY DEF Init, NoBeat, Delivery, Reading

\* A step that leaves the row and what is owed alone.
LEMMA QuietDelivery ==
    ASSUME Delivery, UNCHANGED <<row, owed>>,
           \A b \in Beats : Reading(b)' => beat'[b].pend = row.pend
    PROVE  Delivery'
BY DEF Delivery

LEMMA BeatDelivery ==
    ASSUME MaxEpoch = 1, SerialInv, Delivery, NEW b \in Beats,
           Send(b) \/ GiveUp(b) \/ Lose(b) \/ Receive(b) \/ BeatRead(b) \/ BeatWrite(b)
    PROVE  Delivery'
<1>0. beat \in [Beats -> BeatRow] /\ beat[b] \in BeatRow /\ row \in DeviceRow
  BY DEF SerialInv, TypeOK, BeatRow, DeviceRow
<1>1. \A x \in Beats \ {b} : beat'[x] = beat[x]
  BY <1>0 DEF Send, GiveUp, Lose, Receive, BeatRead, BeatWrite
<1>2. CASE ~BeatWrite(b)
  <2>1. UNCHANGED <<row, owed>>
    BY <1>2 DEF Send, GiveUp, Lose, Receive, BeatRead
  <2>2. beat'[b].phase = "read" => beat'[b].pend = row.pend
    <3>1. CASE Send(b)
      BY <1>0, <3>1, NoBeatType DEF Send, BeatRow
    <3>2. CASE GiveUp(b)
      BY <1>0, <3>2, NoBeatType DEF GiveUp, BeatRow, Delivery, Reading
    <3>3. CASE Lose(b) \/ Receive(b)
      BY <1>0, <3>3, NoBeatType DEF Lose, Receive
    <3>4. CASE BeatRead(b)
      BY <1>0, <3>4 DEF BeatRead, Answered, NoBeat, BeatRow
    <3>5. QED BY <1>2, <3>1, <3>2, <3>3, <3>4
  <2>3. \A x \in Beats : Reading(x)' => beat'[x].pend = row.pend
    BY <1>1, <2>2 DEF Delivery, Reading
  <2>4. QED BY <2>1, <2>3, QuietDelivery
<1>3. CASE BeatWrite(b)
  <2>1. Reading(b) /\ beat[b].pend = row.pend
    BY <1>3 DEF BeatWrite, Reading, Delivery
  <2>2. row'.pend = {}
    BY <1>0, <1>3, <2>1 DEF BeatWrite, Recorded, DeviceRow
  <2>3. \A x \in Beats : ~Reading(x)'
    <3>1. beat'[b].phase # "read"
      BY <1>0, <1>3 DEF BeatWrite, Answered, NoBeat
    <3>2. QED BY <1>1, <2>1, <3>1 DEF SerialInv, Serial, Reading
  <2>4. QED BY <2>2, <2>3 DEF Delivery
<1>4. QED BY <1>2, <1>3

LEMMA AskDelivery ==
    ASSUME MaxEpoch = 1, SerialInv, Delivery, NEW a \in Admins,
           View(a) \/ AskRead(a) \/ AskWrite(a) \/ RejectWrite(a) \/ ApproveWrite(a)
    PROVE  Delivery'
<1>0. ask \in [Admins -> AskRow] /\ ask[a] \in AskRow /\ row \in DeviceRow /\ UNCHANGED beat
  BY DEF SerialInv, TypeOK, AskRow, DeviceRow, View, AskRead, AskWrite, RejectWrite, ApproveWrite
<1>1. CASE View(a) \/ AskRead(a)
  BY <1>0, <1>1, QuietDelivery DEF View, AskRead, Delivery, Reading
<1>2. ASSUME AskWrite(a) \/ RejectWrite(a) \/ ApproveWrite(a)
      PROVE  (\A b \in Beats : ~Reading(b)') /\ ask[a].pend = row.pend
  BY <1>0, <1>2 DEF AskWrite, RejectWrite, ApproveWrite, SerialInv, Serial, Reading, Writing
<1>3. CASE AskWrite(a)
  <2>1. row'.pend \subseteq row.pend \cup ask[a].ids
    BY <1>0, <1>2, <1>3 DEF AskWrite, ExtendedQueue, DeviceRow
  <2>2. ask[a].epoch = 1
    BY <1>0, OneEpoch DEF AskRow
  <2>3. \A i \in row.pend \cup ask[a].ids : <<1, i>> \in owed'
    BY <1>3, <2>2 DEF AskWrite, Delivery
  <2>4. QED BY <1>2, <1>3, <2>1, <2>3 DEF Delivery
<1>4. CASE RejectWrite(a)
  <2>1. row'.pend = {}
    BY <1>0, <1>2, <1>4 DEF RejectWrite, DeviceRow
  <2>2. QED BY <1>2, <1>4, <2>1 DEF Delivery
<1>5. CASE ApproveWrite(a)
  <2>1. row'.pend = row.pend /\ UNCHANGED owed
    BY <1>0, <1>5 DEF ApproveWrite, DeviceRow
  <2>2. QED BY <1>2, <1>5, <2>1 DEF Delivery
<1>6. QED BY <1>1, <1>3, <1>4, <1>5

LEMMA StepDelivery ==
    ASSUME MaxEpoch = 1, SerialInv, Delivery, [Next]_vars
    PROVE  Delivery'
<1>1. CASE UNCHANGED vars \/ Open \/ Close
  BY <1>1 DEF Delivery, Reading, Open, Close, vars
<1>2. CASE ClientRestart
  BY <1>2 DEF ClientRestart, SerialInv, TypeOK, Epochs
<1>3. CASE ServerRestart
  <2>1. \A b \in Beats : beat'[b].phase # "read"
    BY <1>3 DEF ServerRestart, NoBeat
  <2>2. QED BY <1>3, <2>1, QuietDelivery DEF ServerRestart, Reading
<1>4. CASE \E b \in Beats : Send(b) \/ GiveUp(b) \/ Lose(b) \/ Receive(b) \/ BeatRead(b)
                            \/ BeatWrite(b)
  BY <1>4, BeatDelivery
<1>5. CASE \E a \in Admins : View(a) \/ AskRead(a) \/ AskWrite(a) \/ RejectWrite(a)
                             \/ ApproveWrite(a)
  BY <1>5, AskDelivery
<1>6. QED BY <1>1, <1>2, <1>3, <1>4, <1>5 DEF Next

LEMMA DeliveryInvariant ==
    ASSUME ~Overlap, MaxEpoch = 1
    PROVE  Spec => [](SerialInv /\ Delivery)
<1>1. Init => SerialInv /\ Delivery
  BY InitSerial, InitDelivery
<1>2. SerialInv /\ Delivery /\ [Next]_vars => (SerialInv /\ Delivery)'
  BY StepSerial, StepDelivery
<1>3. QED BY <1>1, <1>2, PTL DEF Spec

\* While handlers do not overlap and the client runs on, a request is handed over once:
\* record_heartbeat answers with nothing that was not asked for again since.
THEOREM HandedOverIsOwed ==
    ASSUME ~Overlap, MaxEpoch = 1
    PROVE  Spec => HandedOverOnce
<1>1. ASSUME SerialInv, Delivery, [Next]_vars
      PROVE  [\A b \in Beats : beat[b].phase = "read" /\ beat'[b].phase = "answered" =>
                {beat[b].epoch} \X beat'[b].answer \subseteq owed]_vars
  <2> SUFFICES ASSUME Next, NEW b \in Beats, beat[b].phase = "read", beat'[b].phase = "answered"
               PROVE  {beat[b].epoch} \X beat'[b].answer \subseteq owed
    BY <1>1
  <2>0. beat \in [Beats -> BeatRow] /\ beat[b] \in BeatRow
    BY <1>1 DEF SerialInv, TypeOK, BeatRow
  <2>1. BeatWrite(b)
    <3>1. beat' # beat
      OBVIOUS
    <3>2. ~ClientRestart /\ ~ServerRestart
      BY <1>1 DEF ClientRestart, ServerRestart, NoBeat, SerialInv, TypeOK, Epochs
    <3>3. PICK x \in Beats : Send(x) \/ GiveUp(x) \/ Lose(x) \/ Receive(x) \/ BeatRead(x)
                             \/ BeatWrite(x)
      BY <3>1, <3>2 DEF Next, Open, Close, View, AskRead, AskWrite, RejectWrite, ApproveWrite
    <3>4. x = b
      BY <2>0, <3>3 DEF Send, GiveUp, Lose, Receive, BeatRead, BeatWrite
    <3>5. ~Send(b) /\ ~Lose(b) /\ ~Receive(b) /\ ~BeatRead(b)
      BY DEF Send, NoBeat, Lose, Receive, BeatRead
    <3>6. ~GiveUp(b)
      BY <2>0 DEF GiveUp, BeatRow
    <3>7. QED BY <3>3, <3>4, <3>5, <3>6
  <2>2. beat'[b].answer \subseteq HandedOver(beat[b])
    BY <2>0, <2>1 DEF BeatWrite, Answered, NoBeat
  <2>3. HandedOver(beat[b]) \subseteq row.pend
    BY <1>1 DEF HandedOver, Delivery, Reading
  <2>4. beat[b].epoch = 1
    BY <2>0, OneEpoch, <1>1 DEF BeatRow
  <2>5. QED BY <1>1, <2>2, <2>3, <2>4 DEF Delivery
<1>2. SerialInv /\ Delivery /\ [Next]_vars =>
        [\A b \in Beats : beat[b].phase = "read" /\ beat'[b].phase = "answered" =>
           {beat[b].epoch} \X beat'[b].answer \subseteq owed]_vars
  BY <1>1
<1>3. QED BY <1>2, DeliveryInvariant, PTL DEF Spec, HandedOverOnce

-----------------------------------------------------------------------------
(* One heartbeat at a time: nothing is forgotten *)

\* The server has heard of a connection, and may hand it over or has promised to.
Known(i) ==
    \/ i \in row.live \/ i \in row.pend \/ <<1, i>> \in owed
    \/ \E a \in Admins : i \in ask[a].ids

Travels(b) == beat[b].phase \in {"sent", "read"}

\* The heartbeat on its way reports every open connection the server has heard of: those
\* came with earlier ones, and a number does not come back.
Reports ==
    /\ \A i \in ConnIds : i \in client.open \/ Known(i) => i < client.next
    /\ \A b \in Beats : Travels(b) =>
          /\ \A i \in beat[b].conns : i < client.next
          /\ \A i \in client.open : Known(i) => i \in beat[b].conns

\* NotForgotten, with one client process.
Kept == \A i \in client.open : <<1, i>> \in owed => i \in row.pend

KeepInv == SerialInv /\ Delivery /\ Reports /\ Kept

LEMMA InitKeep == Init => Reports /\ Kept
BY DEF Init, NoBeat, NoAsk, Reports, Kept, Known, Travels

\* A step by which the server hears of nothing, and no heartbeat is sent.
LEMMA NothingHeard ==
    ASSUME Reports, UNCHANGED client.next, client'.open \subseteq client.open,
           \A i \in ConnIds : Known(i)' => Known(i),
           client.open \subseteq ConnIds,
           \A b \in Beats : Travels(b)' => Travels(b) /\ beat'[b].conns = beat[b].conns
    PROVE  Reports'
BY DEF Reports

LEMMA ClientKeeps ==
    ASSUME MaxEpoch = 1, KeepInv, Open \/ Close \/ ClientRestart
    PROVE  Reports' /\ Kept'
<1>0. /\ client.open \subseteq ConnIds /\ client.next \in 1 .. (MaxId + 1) /\ client.epoch = 1
      /\ UNCHANGED <<row, owed, ask>>
  BY OneEpoch DEF KeepInv, SerialInv, TypeOK, Open, Close, ClientRestart
<1>1. CASE Open
  <2>1. /\ client'.open = client.open \cup {client.next} /\ client'.next = client.next + 1
        /\ client.next \in ConnIds /\ UNCHANGED beat
    BY <1>1, BoundsAssumption DEF Open, ConnIds, KeepInv, SerialInv, TypeOK
  <2>2. ~Known(client.next)
    BY <2>1, BoundsAssumption DEF KeepInv, Reports, ConnIds
  <2>3. \A i \in ConnIds : Known(i)' <=> Known(i)
    BY <1>0 DEF Known
  <2>4. \A i \in ConnIds : i < client.next => i < client'.next
    BY <1>0, <2>1, BoundsAssumption DEF ConnIds
  <2>5. \A i \in ConnIds : i \in client'.open \/ Known(i)' => i < client'.next
    <3>1. client.next < client'.next
      BY <2>1, BoundsAssumption DEF ConnIds
    <3>2. QED BY <2>1, <2>3, <2>4, <3>1 DEF KeepInv, Reports
  <2>6. \A b \in Beats : beat[b].conns \subseteq ConnIds
    BY DEF KeepInv, SerialInv, TypeOK
  <2>7. ASSUME NEW b \in Beats, Travels(b)'
        PROVE  /\ \A i \in beat'[b].conns : i < client'.next
               /\ \A i \in client'.open : Known(i)' => i \in beat'[b].conns
    <3>1. Travels(b)
      BY <2>1, <2>7 DEF Travels
    <3>2. \A i \in beat[b].conns : i < client.next
      BY <3>1 DEF KeepInv, Reports
    <3>3. \A i \in client.open : Known(i) => i \in beat[b].conns
      BY <3>1 DEF KeepInv, Reports
    <3>4. QED BY <1>0, <2>1, <2>2, <2>3, <2>4, <2>6, <3>2, <3>3
  <2>8. Kept'
    BY <1>0, <2>1, <2>2 DEF KeepInv, Kept, Known
  <2>9. QED BY <2>5, <2>7, <2>8 DEF Reports
<1>2. CASE Close
  <2>1. client'.open \subseteq client.open /\ client'.next = client.next /\ UNCHANGED beat
    BY <1>2 DEF Close, KeepInv, SerialInv, TypeOK
  <2>2. \A i \in ConnIds : Known(i)' <=> Known(i)
    BY <1>0 DEF Known
  <2>3. QED BY <1>0, <2>1, <2>2, NothingHeard DEF KeepInv, Kept, Travels
<1>3. CASE ClientRestart
  BY <1>0, <1>3 DEF ClientRestart
<1>4. QED BY <1>1, <1>2, <1>3

LEMMA BeatKeeps ==
    ASSUME MaxEpoch = 1, \A x, y \in Beats : x = y, KeepInv, NEW b \in Beats,
           Send(b) \/ GiveUp(b) \/ Lose(b) \/ Receive(b) \/ BeatRead(b) \/ BeatWrite(b)
    PROVE  Reports' /\ Kept'
<1>0. /\ beat \in [Beats -> BeatRow] /\ beat[b] \in BeatRow /\ row \in DeviceRow /\ UNCHANGED ask
      /\ client.open \subseteq ConnIds
      /\ client \in [epoch: Epochs, next: 1 .. (MaxId + 1), open: SUBSET ConnIds]
  BY DEF KeepInv, SerialInv, TypeOK, BeatRow, DeviceRow, Send, GiveUp, Lose, Receive, BeatRead,
         BeatWrite
<1>1. CASE Send(b)
  <2>1. UNCHANGED <<client, row, owed, ask>> /\ beat'[b].conns = client.open
    BY <1>0, <1>1, NoBeatType DEF Send, BeatRow
  <2>2. \A i \in ConnIds : Known(i)' <=> Known(i)
    BY <2>1 DEF Known
  <2>3. \A i \in client.open : i < client.next
    BY <1>0 DEF KeepInv, Reports
  <2>4. Reports'
    BY <1>0, <2>1, <2>2, <2>3 DEF KeepInv, Reports
  <2>5. QED BY <2>1, <2>4 DEF KeepInv, Kept
<1>2. CASE GiveUp(b) \/ Lose(b) \/ Receive(b) \/ BeatRead(b)
  <2>1. /\ UNCHANGED <<row, owed>>
        /\ client'.open \subseteq client.open /\ client'.next = client.next
    BY <1>0, <1>2 DEF GiveUp, Lose, Receive, BeatRead
  <2>2. \A i \in ConnIds : Known(i)' <=> Known(i)
    BY <1>0, <2>1 DEF Known
  <2>3. Travels(b)' => Travels(b) /\ beat'[b].conns = beat[b].conns
    <3>1. CASE GiveUp(b)
      BY <1>0, <3>1, NoBeatType DEF GiveUp, BeatRow, Travels
    <3>2. CASE Lose(b) \/ Receive(b)
      BY <1>0, <3>2, NoBeatType DEF Lose, Receive, Travels
    <3>3. CASE BeatRead(b)
      BY <1>0, <3>3 DEF BeatRead, Answered, NoBeat, BeatRow, Travels
    <3>4. QED BY <1>2, <3>1, <3>2, <3>3
  <2>4. \A x \in Beats : Travels(x)' => Travels(x) /\ beat'[x].conns = beat[x].conns
    BY <2>3
  <2>5. Reports'
    BY <1>0, <2>1, <2>2, <2>4, NothingHeard DEF KeepInv
  <2>6. QED BY <2>1, <2>5 DEF KeepInv, Kept
<1>3. CASE BeatWrite(b)
  <2>1. Travels(b) /\ Reading(b) /\ UNCHANGED client /\ beat[b].epoch = 1
    BY <1>0, <1>3, OneEpoch DEF BeatWrite, Travels, Reading, BeatRow
  <2>2. /\ row'.pend = {} /\ row'.live \subseteq row.live \cup beat[b].conns
        /\ beat[b].pend = row.pend
    <3>1. beat[b].pend = row.pend
      BY <2>1 DEF KeepInv, Delivery
    <3>2. QED BY <1>0, <1>3, <3>1 DEF BeatWrite, Recorded, DeviceRow
  <2>3. owed' = owed \ ({1} \X HandedOver(beat[b]))
    BY <1>3, <2>1 DEF BeatWrite
  <2>4. \A x \in Beats : ~Travels(x)'
    BY <1>0, <1>3 DEF BeatWrite, Answered, NoBeat, Travels
  <2>5. Reports'
    <3>1. ASSUME NEW i \in ConnIds, i \in client'.open \/ Known(i)' PROVE i < client'.next
      <4>1. i \in client.open \/ Known(i) \/ i \in beat[b].conns
        BY <1>0, <2>1, <2>2, <2>3, <3>1 DEF Known
      <4>2. QED BY <2>1, <4>1 DEF KeepInv, Reports
    <3>2. QED BY <2>4, <3>1 DEF Reports
  <2>6. Kept'
    <3>1. ASSUME NEW i \in client.open, <<1, i>> \in owed' PROVE FALSE
      <4>1. <<1, i>> \in owed /\ i \notin HandedOver(beat[b])
        BY <2>3, <3>1
      <4>2. i \in row.pend /\ Known(i)
        BY <4>1 DEF KeepInv, Kept, Known
      <4>3. i \in beat[b].conns
        BY <2>1, <4>2 DEF KeepInv, Reports
      <4>4. QED BY <2>2, <4>1, <4>2, <4>3 DEF HandedOver
    <3>2. QED BY <2>1, <3>1 DEF Kept
  <2>7. QED BY <2>5, <2>6
<1>4. QED BY <1>1, <1>2, <1>3

LEMMA AskKeeps ==
    ASSUME MaxEpoch = 1, KeepInv, NEW a \in Admins,
           View(a) \/ AskRead(a) \/ AskWrite(a) \/ RejectWrite(a) \/ ApproveWrite(a)
    PROVE  Reports' /\ Kept'
<1>0. /\ ask \in [Admins -> AskRow] /\ ask[a] \in AskRow /\ row \in DeviceRow
      /\ UNCHANGED <<beat, client>> /\ client.open \subseteq ConnIds
  BY DEF KeepInv, SerialInv, TypeOK, AskRow, DeviceRow, View, AskRead, AskWrite, RejectWrite,
         ApproveWrite
<1>1. \A x \in Admins \ {a} : ask'[x] = ask[x]
  BY <1>0 DEF View, AskRead, AskWrite, RejectWrite, ApproveWrite
<1>2. ASSUME \A i \in ConnIds : Known(i)' => Known(i) PROVE Reports'
  BY <1>0, <1>2, NothingHeard DEF KeepInv, Travels
<1>3. CASE View(a) \/ AskRead(a)
  <2>1. UNCHANGED <<row, owed>>
    BY <1>3 DEF View, AskRead
  <2>2. ask'[a].ids \subseteq row.live \cup ask[a].ids
    <3>1. CASE View(a)
      <4>1. CASE \E ids \in SUBSET row.live \ {{}} :
                    ask' = [ask EXCEPT ![a] = [NoAsk EXCEPT !.op = "some", !.ids = ids,
                                                            !.epoch = row.of]]
        <5>1. PICK ids \in SUBSET row.live \ {{}} :
                    ask' = [ask EXCEPT ![a] = [NoAsk EXCEPT !.op = "some", !.ids = ids,
                                                            !.epoch = row.of]]
          BY <4>1
        <5>2. [NoAsk EXCEPT !.op = "some", !.ids = ids, !.epoch = row.of].ids = ids
          BY DEF NoAsk
        <5>3. QED BY <1>0, <5>1, <5>2
      <4>2. CASE \E op \in {"all"} \cup (IF Rejects THEN {"reject", "approve"} ELSE {}) :
                    ask' = [ask EXCEPT ![a] = [NoAsk EXCEPT !.op = op]]
        <5>1. PICK op \in {"all"} \cup (IF Rejects THEN {"reject", "approve"} ELSE {}) :
                    ask' = [ask EXCEPT ![a] = [NoAsk EXCEPT !.op = op]]
          BY <4>2
        <5>2. [NoAsk EXCEPT !.op = op].ids = {}
          BY DEF NoAsk
        <5>3. QED BY <1>0, <5>1, <5>2
      <4>3. QED BY <3>1, <4>1, <4>2 DEF View
    <3>2. CASE AskRead(a)
      BY <1>0, <3>2 DEF AskRead, Chosen, NoAsk, AskRow
    <3>3. QED BY <1>3, <3>1, <3>2
  <2>3. \A i \in ConnIds : Known(i)' => Known(i)
    BY <1>1, <2>1, <2>2 DEF Known
  <2>4. QED BY <1>0, <1>2, <2>1, <2>3 DEF KeepInv, Kept
<1>4. CASE AskWrite(a) \/ RejectWrite(a) \/ ApproveWrite(a)
  <2>1. ask'[a].ids = {} /\ ask[a].pend = row.pend /\ ask[a].epoch = 1
    BY <1>0, <1>4, OneEpoch
       DEF AskWrite, RejectWrite, ApproveWrite, NoAsk, KeepInv, SerialInv, Serial, Writing, AskRow
  <2>2. CASE AskWrite(a)
    <3>1. /\ row'.pend = row.pend \cup ask[a].ids /\ row'.live = row.live
          /\ owed' = owed \cup ({1} \X ask[a].ids)
      BY <1>0, <2>1, <2>2 DEF AskWrite, ExtendedQueue, DeviceRow
    <3>2. \A i \in ConnIds : Known(i)' => Known(i)
      BY <1>1, <2>1, <3>1 DEF Known
    <3>3. QED BY <1>0, <1>2, <3>1, <3>2 DEF KeepInv, Kept
  <2>3. CASE RejectWrite(a)
    <3>1. row'.pend = {} /\ row'.live \subseteq row.live /\ owed' = {}
      BY <1>0, <2>1, <2>3 DEF RejectWrite, DeviceRow
    <3>2. \A i \in ConnIds : Known(i)' => Known(i)
      BY <1>1, <2>1, <3>1 DEF Known
    <3>3. QED BY <1>2, <3>1, <3>2 DEF Kept
  <2>4. CASE ApproveWrite(a)
    <3>1. row'.pend = row.pend /\ row'.live = row.live /\ UNCHANGED owed
      BY <1>0, <2>4 DEF ApproveWrite, DeviceRow
    <3>2. \A i \in ConnIds : Known(i)' => Known(i)
      BY <1>1, <2>1, <3>1 DEF Known
    <3>3. QED BY <1>0, <1>2, <3>1, <3>2 DEF KeepInv, Kept
  <2>5. QED BY <1>4, <2>2, <2>3, <2>4
<1>5. QED BY <1>3, <1>4

LEMMA ServerRestartKeeps ==
    ASSUME KeepInv, ServerRestart
    PROVE  Reports' /\ Kept'
<1>1. UNCHANGED <<client, row, owed>> /\ client.open \subseteq ConnIds
  BY DEF ServerRestart, KeepInv, SerialInv, TypeOK
<1>2. \A i \in ConnIds : Known(i)' => Known(i)
  BY <1>1 DEF ServerRestart, NoAsk, Known
<1>3. \A b \in Beats : Travels(b)' => Travels(b) /\ beat'[b].conns = beat[b].conns
  BY DEF ServerRestart, NoBeat, Travels
<1>4. QED BY <1>1, <1>2, <1>3, NothingHeard DEF KeepInv, Kept

LEMMA StepKeeps ==
    ASSUME ~Overlap, MaxEpoch = 1, \A b, c \in Beats : b = c, KeepInv, [Next]_vars
    PROVE  KeepInv'
<1>0. SerialInv' /\ Delivery'
  BY StepSerial, StepDelivery DEF KeepInv
<1>1. CASE UNCHANGED vars
  BY <1>0, <1>1 DEF KeepInv, Reports, Kept, Known, Travels, vars
<1>2. CASE Open \/ Close \/ ClientRestart
  BY <1>0, <1>2, ClientKeeps DEF KeepInv
<1>3. CASE ServerRestart
  BY <1>0, <1>3, ServerRestartKeeps DEF KeepInv
<1>4. CASE \E b \in Beats : Send(b) \/ GiveUp(b) \/ Lose(b) \/ Receive(b) \/ BeatRead(b)
                            \/ BeatWrite(b)
  BY <1>0, <1>4, BeatKeeps DEF KeepInv
<1>5. CASE \E a \in Admins : View(a) \/ AskRead(a) \/ AskWrite(a) \/ RejectWrite(a)
                             \/ ApproveWrite(a)
  BY <1>0, <1>5, AskKeeps DEF KeepInv
<1>6. QED BY <1>1, <1>2, <1>3, <1>4, <1>5 DEF Next

\* While handlers do not overlap, one heartbeat is under way at a time and the client runs
\* on, a request stays queued until it is handed over or its connection is gone, for any
\* number of administrators and connections (request_disconnect, record_heartbeat).
THEOREM NothingIsForgotten ==
    ASSUME ~Overlap, MaxEpoch = 1, \A b, c \in Beats : b = c
    PROVE  Spec => []NotForgotten
<1>1. Init => KeepInv
  BY InitSerial, InitDelivery, InitKeep DEF KeepInv
<1>2. KeepInv /\ [Next]_vars => KeepInv'
  BY StepKeeps
<1>3. KeepInv => NotForgotten
  BY OneEpoch DEF KeepInv, Kept, NotForgotten, SerialInv, TypeOK, Conns
<1>4. QED BY <1>1, <1>2, <1>3, PTL DEF Spec

\* As long as the client is not restarted, only connections somebody asked to end are ended,
\* however heartbeats and requests overlap: a number comes to mean another connection by a
\* restart of the client alone (record_heartbeat, request_disconnect).
THEOREM NumbersHoldOneProcess ==
    ASSUME MaxEpoch = 1
    PROVE  Spec => []EndsOnlyAsked
<1>1. TypeOK /\ OnlyAskedIds => EndsOnlyAsked
  <2>1. SUFFICES ASSUME TypeOK, OnlyAskedIds, NEW b \in Beats, NEW i \in beat[b].answer \cap client.open
                 PROVE  <<client.epoch, i>> \in asked
    BY DEF EndsOnlyAsked
  <2>2. i \in AskedIds
    BY <2>1 DEF OnlyAskedIds
  <2>3. PICK c \in asked : c[2] = i
    BY <2>2 DEF AskedIds
  <2>4. c \in Epochs \X ConnIds
    BY <2>1, <2>3 DEF TypeOK, Conns
  <2>5. client.epoch = 1 /\ c[1] = 1
    BY <2>1, <2>4, OneEpoch DEF TypeOK
  <2>6. c = <<client.epoch, i>>
    BY <2>3, <2>4, <2>5
  <2>7. QED BY <2>3, <2>6
<1>2. QED BY <1>1, QueueTypeCorrect, OnlyAskedIdsEnd, PTL
===============================================================================
