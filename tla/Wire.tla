-------------------------------- MODULE Wire --------------------------------
(* How the web client writes and reads the messages of its two protocols
   (src/webclient/src/gen).  A message is filled in, written, perhaps by a newer
   peer that knows fields we do not, and read.

   Abstracted: an entry of the wire is a record of its field's number, its
   wire type and what it holds, not bytes; a scalar is 0, its default, 1, any
   other value, or Wide, a bigint that does not fit 64 bits.  Groups, which no
   message has, are left out. *)
EXTENDS Integers, Sequences, SequencesExt, Functions, TLC

CONSTANTS WireNames,   \* the messages to write
          MaxPuts      \* bound: fields filled in

Rendezvous == INSTANCE RendezvousProto
Session == INSTANCE MessageProto

\* The fields of every message of the two protocols.
Tables == Rendezvous!ByName @@ Session!ByName

VARIABLES
    wireName,  \* the message's type
    wireMsg,   \* what its writer filled in
    puts,      \* how many fields (bounded)
    wireStage, \* "filling", "written", "refused" by the writer, or "read"
    wire,      \* the entries on the wire
    wireRead   \* what the reader made of them

wireVars == <<wireName, wireMsg, puts, wireStage, wire, wireRead>>
-----------------------------------------------------------------------------
(* A message nests messages that nest messages, at most five deep: each depth is
   told by the one below how that one does it. *)

\* Below the messages of scalars there are none.
NothingNested(question, type, about) ==
    CASE question \in {"type", "message", "writable"} -> FALSE
      [] question = "samples" -> {}
      [] question \in {"encode", "decode"} -> <<>>

Depth0 == INSTANCE WireLevelProofs WITH Nested <- NothingNested
Depth1 == INSTANCE WireLevelProofs WITH Nested <- Depth0!Says
Depth2 == INSTANCE WireLevelProofs WITH Nested <- Depth1!Says
Depth3 == INSTANCE WireLevelProofs WITH Nested <- Depth2!Says
Depth4 == INSTANCE WireLevelProofs WITH Nested <- Depth3!Says
Codec == INSTANCE WireLevelProofs WITH Nested <- Depth4!Says

ASSUME TablesAreAsRelied == Codec!TablesAreSound
ASSUME NamesAreTypes == \A name \in WireNames : Codec!IsType(name)
ASSUME PutsAreBounded == MaxPuts \in Nat
-----------------------------------------------------------------------------
WireInit ==
    /\ wireName \in WireNames
    /\ wireMsg = Codec!Base(wireName)
    /\ puts = 0 /\ wireStage = "filling" /\ wire = <<>> /\ wireRead = Codec!Undefined

\* The writer fills in one more field.
Put ==
    /\ wireStage = "filling" /\ puts < MaxPuts
    /\ puts' = puts + 1
    /\ \E fd \in Range(Codec!FieldsOf(wireName)) :
          \E v \in Codec!Fillings(fd, MaxPuts - puts - 1) :
             wireMsg' = [wireMsg EXCEPT ![Codec!Slot(fd)] = v]
    /\ UNCHANGED <<wireName, wireStage, wire, wireRead>>

Write ==
    /\ wireStage = "filling"
    /\ IF Codec!Writable(wireName, wireMsg)
       THEN wireStage' = "written" /\ wire' = Codec!Encode(wireName, wireMsg)
       ELSE wireStage' = "refused" /\ UNCHANGED wire
    /\ UNCHANGED <<wireName, wireMsg, puts, wireRead>>

\* A newer peer writes, before or between our fields, one whose number we do not
\* know, or one of ours with a type (four bytes wide) we do not expect there.
WriteNewer(at, n) ==
    /\ wireStage = "filling" /\ puts < MaxPuts
    /\ Codec!Writable(wireName, wireMsg)
    /\ wireStage' = "written"
    /\ LET ours == Codec!Encode(wireName, wireMsg) IN
       /\ at <= Len(ours) + 1
       /\ wire' = InsertAt(ours, at, [n |-> n, w |-> 5, v |-> 1])
    /\ UNCHANGED <<wireName, wireMsg, puts, wireRead>>

Read ==
    /\ wireStage = "written"
    /\ wireStage' = "read"
    /\ wireRead' = Codec!Decode(wireName, wire)
    /\ UNCHANGED <<wireName, wireMsg, puts, wire>>

WireNext ==
    \/ Put
    \/ Write
    \/ \E at \in {1, 2}, n \in {Head(Codec!FieldsOf(wireName) \o <<Codec!One("new", 999, "int32")>>).n, 999} :
         WriteNewer(at, n)
    \/ Read

WireSpec == WireInit /\ [][WireNext]_wireVars
-----------------------------------------------------------------------------
\* The types of the variables.
WireTypeOK ==
    /\ wireName \in WireNames /\ puts \in 0 .. MaxPuts
    /\ wireStage \in {"filling", "written", "refused", "read"}
    /\ Codec!IsMessage(wireName, wireMsg)
    /\ wireStage = "read" => DOMAIN wireRead = Codec!Slots(wireName)

\* What the client reads is what the writer filled in, to the last default and
\* case of a union, although defaults are not written and a newer peer writes
\* more than the client knows; a number that would be truncated is not sent.
ReadsWhatWasWritten == wireStage = "read" => wireRead = wireMsg
=============================================================================
