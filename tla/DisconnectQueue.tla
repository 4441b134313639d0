--------------------------- MODULE DisconnectQueue ---------------------------
(***************************************************************************)
(* Ending a device's incoming connections from the console.                *)
(*                                                                         *)
(* The client reports its live connections in every heartbeat.  The server *)
(* stores them on the device's row (live_connections); an administrator    *)
(* queues some of them to be ended (pending_disconnect); the answer to a   *)
(* heartbeat hands the queue over and clears it.  Both handlers READ the   *)
(* row without a lock, compute, and WRITE only the columns they changed,   *)
(* so a heartbeat and a request (or two heartbeats, when the client has    *)
(* given up waiting for the first) can overlap.  Requests and answers can  *)
(* be lost.  The client may restart, and then numbers its connections      *)
(* from the beginning again.                                               *)
(***************************************************************************)
EXTENDS Naturals, FiniteSets

CONSTANTS
    Beats,      \* heartbeats that can be in progress at once
    Admins,     \* requests from the console that can be in progress at once
    MaxId,      \* bound: connections opened by one client process
    MaxEpoch,   \* bound: client processes
    Overlap,    \* whether handlers run concurrently or one after the other
    Rejects     \* whether the device is also rejected and approved

ASSUME BoundsAssumption == MaxId \in Nat \ {0} /\ MaxEpoch \in Nat \ {0}
ASSUME SwitchesAssumption == Overlap \in BOOLEAN /\ Rejects \in BOOLEAN

VARIABLES
    client,   \* the client process: its number, the next connection id, what is open
    row,      \* the device's row, and (history) the process that reported row.live
    beat,     \* the heartbeats in progress
    ask,      \* the console requests in progress
    asked,    \* history: the connections accepted requests have named
    owed      \* history: those not handed over since, and not withdrawn by a rejection

vars == <<client, row, beat, ask, asked, owed>>

ConnIds == 1..MaxId
Epochs == 1..MaxEpoch
Conns == Epochs \X ConnIds    \* a connection is a number within one client process

NoBeat == [phase |-> "idle", awaited |-> FALSE, epoch |-> 1, conns |-> {}, live |-> {},
           pend |-> {}, answer |-> {}]
NoAsk == [op |-> "none", phase |-> "view", ids |-> {}, epoch |-> 1, live |-> {}, pend |-> {}]

\* Types of the client, the row and the requests in progress; an answer is under way only to
\* a client that still waits for it.
TypeOK ==
    /\ client \in [epoch: Epochs, next: 1..(MaxId + 1), open: SUBSET ConnIds]
    /\ row \in [approved: BOOLEAN, live: SUBSET ConnIds, pend: SUBSET ConnIds, of: Epochs]
    /\ beat \in [Beats -> [phase: {"idle", "sent", "read", "answered"}, awaited: BOOLEAN,
                           epoch: Epochs, conns: SUBSET ConnIds, live: SUBSET ConnIds,
                           pend: SUBSET ConnIds, answer: SUBSET ConnIds]]
    /\ ask \in [Admins -> [op: {"none", "some", "all", "reject", "approve"},
                           phase: {"view", "write"}, ids: SUBSET ConnIds, epoch: Epochs,
                           live: SUBSET ConnIds, pend: SUBSET ConnIds]]
    /\ asked \subseteq Conns /\ owed \subseteq asked
    /\ \A b \in Beats : beat[b].phase = "answered" => beat[b].awaited

Init ==
    /\ client = [epoch |-> 1, next |-> 1, open |-> {}]
    /\ row = [approved |-> TRUE, live |-> {}, pend |-> {}, of |-> 1]
    /\ beat = [b \in Beats |-> NoBeat]
    /\ ask = [a \in Admins |-> NoAsk]
    /\ asked = {} /\ owed = {}

\* A handler may load the row: always, or only while no other one is between its read
\* and its write.
MayRead ==
    Overlap \/ /\ \A b \in Beats : beat[b].phase # "read"
               /\ \A a \in Admins : ask[a].phase # "write"

-----------------------------------------------------------------------------
(* The client *)

Open ==
    /\ client.next <= MaxId
    /\ client' = [client EXCEPT !.open = @ \cup {client.next}, !.next = @ + 1]
    /\ UNCHANGED <<row, beat, ask, asked, owed>>

Close ==
    /\ \E c \in client.open : client' = [client EXCEPT !.open = @ \ {c}]
    /\ UNCHANGED <<row, beat, ask, asked, owed>>

ClientRestart ==
    /\ client.epoch < MaxEpoch
    /\ client' = [epoch |-> client.epoch + 1, next |-> 1, open |-> {}]
    /\ beat' = [b \in Beats |-> IF beat[b].phase = "answered" THEN NoBeat
                                ELSE [beat[b] EXCEPT !.awaited = FALSE]]
    /\ UNCHANGED <<row, ask, asked, owed>>

\* One loop sends the heartbeats: the next one only when the last was answered or given up.
Send(b) ==
    /\ beat[b] = NoBeat
    /\ \A x \in Beats : ~beat[x].awaited
    /\ beat' = [beat EXCEPT ![b] = [NoBeat EXCEPT !.phase = "sent", !.awaited = TRUE,
                                                  !.epoch = client.epoch, !.conns = client.open]]
    /\ UNCHANGED <<client, row, ask, asked, owed>>

\* No answer in time, or the answer is lost: the request may still reach the server.
GiveUp(b) ==
    /\ beat[b].awaited
    /\ beat' = [beat EXCEPT ![b] = IF @.phase = "answered" THEN NoBeat
                                   ELSE [@ EXCEPT !.awaited = FALSE]]
    /\ UNCHANGED <<client, row, ask, asked, owed>>

\* A request nobody waits for any more is lost on the way.
Lose(b) ==
    /\ beat[b].phase = "sent" /\ ~beat[b].awaited
    /\ beat' = [beat EXCEPT ![b] = NoBeat]
    /\ UNCHANGED <<client, row, ask, asked, owed>>

Receive(b) ==
    /\ beat[b].phase = "answered"
    /\ client' = [client EXCEPT !.open = @ \ beat[b].answer]
    /\ beat' = [beat EXCEPT ![b] = NoBeat]
    /\ UNCHANGED <<row, ask, asked, owed>>

-----------------------------------------------------------------------------
(* POST /api/heartbeat *)

\* Mutant: an answer reaches a client that has given up.
AnsweredAnyway(b, ids) == [NoBeat EXCEPT !.phase = "answered", !.awaited = b.awaited, !.answer = ids]

Answered(b, ids) ==
    IF b.awaited THEN [NoBeat EXCEPT !.phase = "answered", !.awaited = TRUE, !.answer = ids]
    ELSE NoBeat

\* Mutant: the approval is not looked at.
BeatReadUnapproved(b) ==
    /\ beat[b].phase = "sent" /\ MayRead
    /\ beat' = [beat EXCEPT ![b] = [@ EXCEPT !.phase = "read", !.live = row.live, !.pend = row.pend]]
    /\ UNCHANGED <<client, row, ask, asked, owed>>

\* A device that is not approved gets a bare OK.
BeatRead(b) ==
    /\ beat[b].phase = "sent" /\ MayRead
    /\ beat' = [beat EXCEPT ![b] =
          IF row.approved THEN [@ EXCEPT !.phase = "read", !.live = row.live, !.pend = row.pend]
          ELSE Answered(@, {})]
    /\ UNCHANGED <<client, row, ask, asked, owed>>

\* Mutant: what is still live stays queued after it is handed over.
RecordedKeepsLive(r, b) ==
    [r EXCEPT !.live = IF b.conns # b.live THEN b.conns ELSE @,
              !.pend = IF b.pend # {} THEN b.pend \cap b.conns ELSE @,
              !.of   = b.epoch]

\* Mutant: the queue is cleared only when something of it is handed over.
RecordedKeepsGone(r, b) ==
    [r EXCEPT !.live = IF b.conns # b.live THEN b.conns ELSE @,
              !.pend = IF b.pend \cap b.conns # {} THEN {} ELSE @,
              !.of   = b.epoch]

\* Mutant: a heartbeat without connections leaves the last report in place.
RecordedIgnoresNone(r, b) ==
    [r EXCEPT !.live = IF b.conns # {} THEN b.conns ELSE @,
              !.pend = IF b.pend # {} THEN {} ELSE @,
              !.of   = b.epoch]

\* record_heartbeat: the row after it, given what the handler had read; a queue that was
\* empty then is not written.
Recorded(r, b) ==
    [r EXCEPT !.live = IF b.conns # b.live THEN b.conns ELSE @,
              !.pend = IF b.pend # {} THEN {} ELSE @,
              !.of   = b.epoch]

\* Mutant: everything reported is ended.
HandedOverAll(b) == b.conns

\* Only what the client has just reported is handed over.
HandedOver(b) == b.pend \cap b.conns

BeatWrite(b) ==
    /\ beat[b].phase = "read"
    /\ row' = Recorded(row, beat[b])
    /\ owed' = owed \ ({beat[b].epoch} \X HandedOver(beat[b]))
    /\ beat' = [beat EXCEPT ![b] = Answered(@, HandedOver(@))]
    /\ UNCHANGED <<client, ask, asked>>

-----------------------------------------------------------------------------
(* The console *)

\* The device's page shows row.live; the administrator picks some of it, presses "all"
\* (which names nothing), or rejects or approves the device.
View(a) ==
    /\ ask[a] = NoAsk
    /\ \/ \E ids \in SUBSET row.live \ {{}} :
             ask' = [ask EXCEPT ![a] = [NoAsk EXCEPT !.op = "some", !.ids = ids, !.epoch = row.of]]
       \/ \E op \in {"all"} \cup (IF Rejects THEN {"reject", "approve"} ELSE {}) :
             ask' = [ask EXCEPT ![a] = [NoAsk EXCEPT !.op = op]]
    /\ UNCHANGED <<client, row, beat, asked, owed>>

\* request_disconnect refuses an id the device does not report (any more), and "all" is
\* what it reports now; reject and approve refuse a device that is so already.
Chosen(r) ==
    CASE r.op = "some" -> IF r.ids \subseteq row.live THEN r.ids ELSE {}
      [] r.op = "all"  -> row.live
      [] OTHER         -> {}

Refused(r) ==
    \/ r.op \in {"some", "all"} /\ Chosen(r) = {}
    \/ r.op = "reject" /\ ~row.approved
    \/ r.op = "approve" /\ row.approved

AskRead(a) ==
    /\ ask[a].op # "none" /\ ask[a].phase = "view" /\ MayRead
    /\ ask' = [ask EXCEPT ![a] =
          IF Refused(@) THEN NoAsk
          ELSE [@ EXCEPT !.phase = "write", !.ids = Chosen(ask[a]), !.live = row.live,
                         !.pend = row.pend,
                         !.epoch = IF ask[a].op = "all" THEN row.of ELSE ask[a].epoch]]
    /\ UNCHANGED <<client, row, beat, asked, owed>>

\* Mutant: a new request replaces the ones that wait.
ExtendedQueueReplaces(r) == r.ids

\* The queue becomes what it was, plus the request.
ExtendedQueue(r) == r.pend \cup r.ids

\* A queue that comes out as it was read is not written.
AskWrite(a) ==
    /\ ask[a].op \in {"some", "all"} /\ ask[a].phase = "write"
    /\ LET r == ask[a] IN
          /\ row' = [row EXCEPT !.pend = IF ExtendedQueue(r) # r.pend THEN ExtendedQueue(r) ELSE @]
          /\ asked' = asked \cup ({r.epoch} \X r.ids)
          /\ owed' = owed \cup ({r.epoch} \X r.ids)
    /\ ask' = [ask EXCEPT ![a] = NoAsk]
    /\ UNCHANGED <<client, beat>>

\* Rejecting a device clears both columns (those the handler had read as set).
RejectWrite(a) ==
    /\ ask[a].op = "reject" /\ ask[a].phase = "write"
    /\ row' = [row EXCEPT !.approved = FALSE,
                          !.live = IF ask[a].live # {} THEN {} ELSE @,
                          !.pend = IF ask[a].pend # {} THEN {} ELSE @]
    /\ owed' = {}
    /\ ask' = [ask EXCEPT ![a] = NoAsk]
    /\ UNCHANGED <<client, beat, asked>>

ApproveWrite(a) ==
    /\ ask[a].op = "approve" /\ ask[a].phase = "write"
    /\ row' = [row EXCEPT !.approved = TRUE]
    /\ ask' = [ask EXCEPT ![a] = NoAsk]
    /\ UNCHANGED <<client, beat, asked, owed>>

ServerRestart ==
    /\ beat' = [b \in Beats |-> IF beat[b].phase = "read" THEN NoBeat ELSE beat[b]]
    /\ ask' = [a \in Admins |-> NoAsk]
    /\ UNCHANGED <<client, row, asked, owed>>

Next ==
    \/ Open \/ Close \/ ClientRestart \/ ServerRestart
    \/ \E b \in Beats : Send(b) \/ GiveUp(b) \/ Lose(b) \/ Receive(b) \/ BeatRead(b) \/ BeatWrite(b)
    \/ \E a \in Admins : View(a) \/ AskRead(a) \/ AskWrite(a) \/ RejectWrite(a) \/ ApproveWrite(a)

Spec == Init /\ [][Next]_vars

\* The client keeps sending heartbeats (every 3 to 15 seconds) and not all of them are
\* lost; a handler that has started finishes, or dies with the server.
Fairness ==
    /\ WF_vars(\E b \in Beats : Send(b))
    /\ \A b \in Beats : SF_vars(BeatRead(b)) /\ SF_vars(BeatWrite(b))
                        /\ WF_vars(Receive(b) \/ GiveUp(b) \/ Lose(b))

FairSpec == Spec /\ Fairness

-----------------------------------------------------------------------------
(* Properties *)

AskedIds == {c[2] : c \in asked}

\* Whatever the interleaving, losses and restarts, no id is queued or sent to the client
\* that nobody with the right to do so has asked to end: a stale snapshot written back
\* never brings in an id of its own.
OnlyAskedIds ==
    /\ row.pend \subseteq AskedIds
    /\ \A b \in Beats : beat[b].pend \cup beat[b].answer \subseteq AskedIds

\* The connections the client is about to end were asked for: those connections, not
\* others with the same number (docs/rustdesk-compatibility.md: "so a stale id can never
\* end a different connection that reuses it").
EndsOnlyAsked ==
    \A b \in Beats : beat[b].phase = "answered" =>
        {client.epoch} \X (beat[b].answer \cap client.open) \subseteq asked

\* An accepted request stays queued until an answer hands it over, for as long as the
\* connection is open (README: "The request reaches the client with its next heartbeat").
NotForgotten ==
    \A c \in owed : c[1] = client.epoch /\ c[2] \in client.open => c[2] \in row.pend

\* A request is handed over once (record_heartbeat: "Handed over once"): an answer never
\* carries a connection that was not asked for again since it was last handed over.
HandedOverOnce ==
    [][\A b \in Beats : beat[b].phase = "read" /\ beat'[b].phase = "answered" =>
          {beat[b].epoch} \X beat'[b].answer \subseteq owed]_vars

\* Nothing is queued or shown for a rejected device.
RejectedIsBare == ~row.approved => row.live = {} /\ row.pend = {}

\* A queued request does not stay queued: some heartbeat takes it, although heartbeats
\* get lost, handlers overlap and the client and the server restart.
QueueDrains == row.pend # {} /\ row.approved ~> row.pend = {} \/ ~row.approved

\* Once connections stop coming and going, the device's page shows what is open, whatever
\* late heartbeats of earlier moments or processes still arrive.
PageCatchesUp == <>[]row.approved => <>[](row.live = client.open)
=============================================================================
