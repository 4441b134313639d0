---------------------------- MODULE FeaturesProofs ----------------------------
(***************************************************************************)
(* What the web client reads of a message is what was written, for every   *)
(* message of its protocols and any number of fields that are filled in;   *)
(* and the features of its page keep what each of them promises together.  *)
(***************************************************************************)
EXTENDS MCWebFeatures, PageProofs

-----------------------------------------------------------------------------
(* The depths are built on each other. *)

\* They are about the same tables.
LEMMA SoundAtEveryDepth ==
    /\ Depth0!TablesAreSound
    /\ Depth1!TablesAreSound
    /\ Depth2!TablesAreSound
    /\ Depth3!TablesAreSound
    /\ Depth4!TablesAreSound
    /\ Codec!TablesAreSound
<1>1. Depth0!TablesAreSound
  BY TablesAreAsRelied
     DEF Depth0!TablesAreSound, Depth0!FieldsOf, Depth0!Range, Depth0!Scalars, Depth0!Varints, Depth0!BigInts,
         Codec!TablesAreSound, Codec!FieldsOf, Codec!Range, Codec!Scalars, Codec!Varints, Codec!BigInts
<1>2. Depth1!TablesAreSound
  BY TablesAreAsRelied
     DEF Depth1!TablesAreSound, Depth1!FieldsOf, Depth1!Range, Depth1!Scalars, Depth1!Varints, Depth1!BigInts,
         Codec!TablesAreSound, Codec!FieldsOf, Codec!Range, Codec!Scalars, Codec!Varints, Codec!BigInts
<1>3. Depth2!TablesAreSound
  BY TablesAreAsRelied
     DEF Depth2!TablesAreSound, Depth2!FieldsOf, Depth2!Range, Depth2!Scalars, Depth2!Varints, Depth2!BigInts,
         Codec!TablesAreSound, Codec!FieldsOf, Codec!Range, Codec!Scalars, Codec!Varints, Codec!BigInts
<1>4. Depth3!TablesAreSound
  BY TablesAreAsRelied
     DEF Depth3!TablesAreSound, Depth3!FieldsOf, Depth3!Range, Depth3!Scalars, Depth3!Varints, Depth3!BigInts,
         Codec!TablesAreSound, Codec!FieldsOf, Codec!Range, Codec!Scalars, Codec!Varints, Codec!BigInts
<1>5. Depth4!TablesAreSound
  BY TablesAreAsRelied
     DEF Depth4!TablesAreSound, Depth4!FieldsOf, Depth4!Range, Depth4!Scalars, Depth4!Varints, Depth4!BigInts,
         Codec!TablesAreSound, Codec!FieldsOf, Codec!Range, Codec!Scalars, Codec!Varints, Codec!BigInts
<1> QED BY <1>1, <1>2, <1>3, <1>4, <1>5, TablesAreAsRelied

\* What a depth is told of the messages that it nests is what the one below does
\* with them.
LEMMA Depth1Asks ==
    /\ \A type : Depth1!NestedIsType(type) <=> Depth0!IsType(type)
    /\ \A type, msg : Depth1!NestedIsMessage(type, msg) <=> Depth0!IsMessage(type, msg)
    /\ \A type, depth : Depth1!NestedSamples(type, depth) = Depth0!Samples(type, depth)
    /\ \A type, msg : Depth1!NestedWritable(type, msg) <=> Depth0!Writable(type, msg)
    /\ \A type, msg : Depth1!NestedEncode(type, msg) = Depth0!Encode(type, msg)
    /\ \A type, entries : Depth1!NestedDecode(type, entries) = Depth0!Decode(type, entries)
BY DEF Depth1!NestedIsType, Depth1!NestedIsMessage, Depth1!NestedSamples, Depth1!NestedWritable,
       Depth1!NestedEncode, Depth1!NestedDecode, Depth0!Says

LEMMA Depth2Asks ==
    /\ \A type : Depth2!NestedIsType(type) <=> Depth1!IsType(type)
    /\ \A type, msg : Depth2!NestedIsMessage(type, msg) <=> Depth1!IsMessage(type, msg)
    /\ \A type, depth : Depth2!NestedSamples(type, depth) = Depth1!Samples(type, depth)
    /\ \A type, msg : Depth2!NestedWritable(type, msg) <=> Depth1!Writable(type, msg)
    /\ \A type, msg : Depth2!NestedEncode(type, msg) = Depth1!Encode(type, msg)
    /\ \A type, entries : Depth2!NestedDecode(type, entries) = Depth1!Decode(type, entries)
BY DEF Depth2!NestedIsType, Depth2!NestedIsMessage, Depth2!NestedSamples, Depth2!NestedWritable,
       Depth2!NestedEncode, Depth2!NestedDecode, Depth1!Says

LEMMA Depth3Asks ==
    /\ \A type : Depth3!NestedIsType(type) <=> Depth2!IsType(type)
    /\ \A type, msg : Depth3!NestedIsMessage(type, msg) <=> Depth2!IsMessage(type, msg)
    /\ \A type, depth : Depth3!NestedSamples(type, depth) = Depth2!Samples(type, depth)
    /\ \A type, msg : Depth3!NestedWritable(type, msg) <=> Depth2!Writable(type, msg)
    /\ \A type, msg : Depth3!NestedEncode(type, msg) = Depth2!Encode(type, msg)
    /\ \A type, entries : Depth3!NestedDecode(type, entries) = Depth2!Decode(type, entries)
BY DEF Depth3!NestedIsType, Depth3!NestedIsMessage, Depth3!NestedSamples, Depth3!NestedWritable,
       Depth3!NestedEncode, Depth3!NestedDecode, Depth2!Says

LEMMA Depth4Asks ==
    /\ \A type : Depth4!NestedIsType(type) <=> Depth3!IsType(type)
    /\ \A type, msg : Depth4!NestedIsMessage(type, msg) <=> Depth3!IsMessage(type, msg)
    /\ \A type, depth : Depth4!NestedSamples(type, depth) = Depth3!Samples(type, depth)
    /\ \A type, msg : Depth4!NestedWritable(type, msg) <=> Depth3!Writable(type, msg)
    /\ \A type, msg : Depth4!NestedEncode(type, msg) = Depth3!Encode(type, msg)
    /\ \A type, entries : Depth4!NestedDecode(type, entries) = Depth3!Decode(type, entries)
BY DEF Depth4!NestedIsType, Depth4!NestedIsMessage, Depth4!NestedSamples, Depth4!NestedWritable,
       Depth4!NestedEncode, Depth4!NestedDecode, Depth3!Says

LEMMA CodecAsks ==
    /\ \A type : Codec!NestedIsType(type) <=> Depth4!IsType(type)
    /\ \A type, msg : Codec!NestedIsMessage(type, msg) <=> Depth4!IsMessage(type, msg)
    /\ \A type, depth : Codec!NestedSamples(type, depth) = Depth4!Samples(type, depth)
    /\ \A type, msg : Codec!NestedWritable(type, msg) <=> Depth4!Writable(type, msg)
    /\ \A type, msg : Codec!NestedEncode(type, msg) = Depth4!Encode(type, msg)
    /\ \A type, entries : Codec!NestedDecode(type, entries) = Depth4!Decode(type, entries)
BY DEF Codec!NestedIsType, Codec!NestedIsMessage, Codec!NestedSamples, Codec!NestedWritable,
       Codec!NestedEncode, Codec!NestedDecode, Depth4!Says

LEMMA ReadBackAtEveryDepth ==
    /\ Depth0!NestedIsReadBack
    /\ Depth1!NestedIsReadBack
    /\ Depth2!NestedIsReadBack
    /\ Depth3!NestedIsReadBack
    /\ Depth4!NestedIsReadBack
    /\ Codec!NestedIsReadBack
<1>1. Depth0!NestedIsReadBack
  BY DEF Depth0!NestedIsReadBack, Depth0!NestedIsMessage, NothingNested
<1>2. Depth1!NestedIsReadBack
  BY <1>1, SoundAtEveryDepth, Depth0!MessageIsReadBack, Depth1Asks DEF Depth1!NestedIsReadBack
<1>3. Depth2!NestedIsReadBack
  BY <1>2, SoundAtEveryDepth, Depth1!MessageIsReadBack, Depth2Asks DEF Depth2!NestedIsReadBack
<1>4. Depth3!NestedIsReadBack
  BY <1>3, SoundAtEveryDepth, Depth2!MessageIsReadBack, Depth3Asks DEF Depth3!NestedIsReadBack
<1>5. Depth4!NestedIsReadBack
  BY <1>4, SoundAtEveryDepth, Depth3!MessageIsReadBack, Depth4Asks DEF Depth4!NestedIsReadBack
<1>6. Codec!NestedIsReadBack
  BY <1>5, SoundAtEveryDepth, Depth4!MessageIsReadBack, CodecAsks DEF Codec!NestedIsReadBack
<1> QED BY <1>1, <1>2, <1>3, <1>4, <1>5, <1>6

LEMMA FitsAtEveryDepth ==
    /\ Depth0!NestedFits
    /\ Depth1!NestedFits
    /\ Depth2!NestedFits
    /\ Depth3!NestedFits
    /\ Depth4!NestedFits
    /\ Codec!NestedFits
<1>1. Depth0!NestedFits
  BY DEF Depth0!NestedFits, Depth0!NestedIsType, NothingNested
<1>2. Depth1!NestedFits
  <2>1. \A type : Depth1!Base(type) = Depth0!Base(type)
    BY DEF Depth1!Base, Depth1!Slots, Depth1!Slot, Depth1!FieldsOf, Depth1!Range, Depth1!Undefined,
           Depth0!Base, Depth0!Slots, Depth0!Slot, Depth0!FieldsOf, Depth0!Range, Depth0!Undefined
  <2> QED BY <1>1, <2>1, SoundAtEveryDepth, Depth0!SamplesFit, Depth1Asks DEF Depth1!NestedFits
<1>3. Depth2!NestedFits
  <2>1. \A type : Depth2!Base(type) = Depth1!Base(type)
    BY DEF Depth2!Base, Depth2!Slots, Depth2!Slot, Depth2!FieldsOf, Depth2!Range, Depth2!Undefined,
           Depth1!Base, Depth1!Slots, Depth1!Slot, Depth1!FieldsOf, Depth1!Range, Depth1!Undefined
  <2> QED BY <1>2, <2>1, SoundAtEveryDepth, Depth1!SamplesFit, Depth2Asks DEF Depth2!NestedFits
<1>4. Depth3!NestedFits
  <2>1. \A type : Depth3!Base(type) = Depth2!Base(type)
    BY DEF Depth3!Base, Depth3!Slots, Depth3!Slot, Depth3!FieldsOf, Depth3!Range, Depth3!Undefined,
           Depth2!Base, Depth2!Slots, Depth2!Slot, Depth2!FieldsOf, Depth2!Range, Depth2!Undefined
  <2> QED BY <1>3, <2>1, SoundAtEveryDepth, Depth2!SamplesFit, Depth3Asks DEF Depth3!NestedFits
<1>5. Depth4!NestedFits
  <2>1. \A type : Depth4!Base(type) = Depth3!Base(type)
    BY DEF Depth4!Base, Depth4!Slots, Depth4!Slot, Depth4!FieldsOf, Depth4!Range, Depth4!Undefined,
           Depth3!Base, Depth3!Slots, Depth3!Slot, Depth3!FieldsOf, Depth3!Range, Depth3!Undefined
  <2> QED BY <1>4, <2>1, SoundAtEveryDepth, Depth3!SamplesFit, Depth4Asks DEF Depth4!NestedFits
<1>6. Codec!NestedFits
  <2>1. \A type : Codec!Base(type) = Depth4!Base(type)
    BY DEF Codec!Base, Codec!Slots, Codec!Slot, Codec!FieldsOf, Codec!Range, Codec!Undefined,
           Depth4!Base, Depth4!Slots, Depth4!Slot, Depth4!FieldsOf, Depth4!Range, Depth4!Undefined
  <2> QED BY <1>5, <2>1, SoundAtEveryDepth, Depth4!SamplesFit, CodecAsks DEF Codec!NestedFits
<1> QED BY <1>1, <1>2, <1>3, <1>4, <1>5, <1>6

-----------------------------------------------------------------------------
(* What a peer wrote is what the client reads. *)

\* What is on the wire is read as what its writer filled in.
WireHolds ==
    /\ wireStage = "written" => Codec!Decode(wireName, wire) = wireMsg
    /\ ReadsWhatWasWritten

WireInv == WireTypeOK /\ WireHolds

LEMMA WireStarts == WireInit => WireInv
<1> SUFFICES ASSUME WireInit PROVE WireInv
  OBVIOUS
<1>1. Codec!IsType(wireName)
  BY NamesAreTypes DEF WireInit
<1>2. Codec!IsMessage(wireName, Codec!Base(wireName))
  BY <1>1, Codec!SamplesFit, SoundAtEveryDepth, FitsAtEveryDepth
<1> QED BY <1>2, PutsAreBounded DEF WireInit, WireInv, WireTypeOK, WireHolds, ReadsWhatWasWritten

LEMMA PutKeeps == WireInv /\ Put => WireInv'
<1> SUFFICES ASSUME WireInv, Put PROVE WireInv'
  OBVIOUS
<1>1. Codec!IsType(wireName) /\ Codec!IsMessage(wireName, wireMsg)
  BY NamesAreTypes DEF WireInv, WireTypeOK
<1>2. PICK fd \in Range(Codec!FieldsOf(wireName)) :
         \E v \in Codec!Fillings(fd, MaxPuts - puts - 1) :
            wireMsg' = [wireMsg EXCEPT ![Codec!Slot(fd)] = v]
  BY DEF Put
<1>3. fd \in Codec!Range(Codec!FieldsOf(wireName))
  BY <1>2 DEF Range, Codec!Range
<1>4. PICK v \in Codec!Fillings(fd, MaxPuts - puts - 1) :
         wireMsg' = [wireMsg EXCEPT ![Codec!Slot(fd)] = v]
  BY <1>2
<1>5. Codec!IsMessage(wireName, wireMsg')
  BY <1>1, <1>3, <1>4, Codec!PutFits, SoundAtEveryDepth, FitsAtEveryDepth
<1>6. puts' \in 0 .. MaxPuts
  BY PutsAreBounded DEF Put, WireInv, WireTypeOK
<1> QED BY <1>5, <1>6 DEF Put, WireInv, WireTypeOK, WireHolds, ReadsWhatWasWritten

LEMMA WriteKeeps == WireInv /\ Write => WireInv'
<1> SUFFICES ASSUME WireInv, Write PROVE WireInv'
  OBVIOUS
<1>1. Codec!IsMessage(wireName, wireMsg)
  BY DEF WireInv, WireTypeOK
<1>2. Codec!Writable(wireName, wireMsg) =>
         Codec!Decode(wireName, Codec!Encode(wireName, wireMsg)) = wireMsg
  BY <1>1, Codec!MessageIsReadBack, SoundAtEveryDepth, ReadBackAtEveryDepth
<1> QED BY <1>1, <1>2 DEF Write, WireInv, WireTypeOK, WireHolds, ReadsWhatWasWritten

LEMMA WriteNewerKeeps ==
    ASSUME WireInv, NEW index \in {1, 2}, NEW n, WriteNewer(index, n) PROVE WireInv'
<1> DEFINE ours == Codec!Encode(wireName, wireMsg)
           newer == [n |-> n, w |-> 5, v |-> 1]
<1>1. Codec!IsMessage(wireName, wireMsg) /\ Codec!Writable(wireName, wireMsg)
  BY DEF WriteNewer, WireInv, WireTypeOK
<1>2. Len(ours) \in Nat
  BY <1>1, Codec!EncodeIsList, SoundAtEveryDepth
<1>3. index \in 1 .. Len(ours) + 1 /\ newer.w = 5
  BY <1>2 DEF WriteNewer
<1>4. Codec!Decode(wireName, Codec!InsertAt(ours, index, newer)) = wireMsg
  BY <1>1, <1>3, Codec!NewerIsSkipped, SoundAtEveryDepth, ReadBackAtEveryDepth
<1>5. wire' = Codec!InsertAt(ours, index, newer)
  BY DEF WriteNewer, InsertAt, Codec!InsertAt
<1> QED BY <1>1, <1>4, <1>5 DEF WriteNewer, WireInv, WireTypeOK, WireHolds, ReadsWhatWasWritten

LEMMA ReadKeeps == WireInv /\ Read => WireInv'
<1> SUFFICES ASSUME WireInv, Read PROVE WireInv'
  OBVIOUS
<1>1. wireMsg = [s \in Codec!Slots(wireName) |-> wireMsg[s]]
  BY DEF WireInv, WireTypeOK, Codec!IsMessage
<1>2. wireRead' = wireMsg
  BY DEF Read, WireInv, WireHolds
<1>3. DOMAIN wireRead' = Codec!Slots(wireName)
  BY <1>1, <1>2
<1> QED BY <1>2, <1>3 DEF Read, WireInv, WireTypeOK, WireHolds, ReadsWhatWasWritten

LEMMA WireStep == WireInv /\ [WireNext]_wireVars => WireInv'
<1> SUFFICES ASSUME WireInv, [WireNext]_wireVars PROVE WireInv'
  OBVIOUS
<1>1. CASE Put
  BY <1>1, PutKeeps
<1>2. CASE Write
  BY <1>2, WriteKeeps
<1>3. ASSUME NEW index \in {1, 2}, NEW n, WriteNewer(index, n) PROVE WireInv'
  BY <1>3, WriteNewerKeeps
<1>4. CASE Read
  BY <1>4, ReadKeeps
<1>5. CASE UNCHANGED wireVars
  BY <1>5 DEF wireVars, WireInv, WireTypeOK, WireHolds, ReadsWhatWasWritten
<1> QED BY <1>1, <1>2, <1>3, <1>4, <1>5 DEF WireNext

\* What the client reads of any message of the two protocols is what its writer
\* filled in, however many fields that was.
THEOREM WritesAreRead == WireSpec => []ReadsWhatWasWritten
<1>1. WireInv => ReadsWhatWasWritten
  BY DEF WireInv, WireHolds
<1> QED BY <1>1, WireStarts, WireStep, PTL DEF WireSpec

-----------------------------------------------------------------------------
(* The features together. *)

\* What each feature keeps, whichever of them is in use.
FeaturesInv ==
    /\ VoiceInv
    /\ DlInv /\ DlBounds
    /\ UpInv /\ upFiles <= UpMaxFiles
    /\ RestartInv
    /\ SecurityInv
    /\ WireInv

LEMMA FeaturesStart == FeaturesInit => FeaturesInv
<1> SUFFICES ASSUME FeaturesInit PROVE FeaturesInv
  OBVIOUS
<1>1. VoiceInit /\ RestartInit /\ SecurityInit /\ DlInit /\ UpInit /\ WireInit
  BY DEF FeaturesInit
<1>2. upFiles <= UpMaxFiles
  BY <1>1, UploadAssumption DEF UpInit
<1> QED BY <1>1, <1>2, VoiceStarts, DlStart, BoundsStart, UpStart, RestartStarts, SecurityStarts, WireStarts
        DEF FeaturesInv

\* A step is a step of one of them, and the others stand still.
LEMMA OneAtATimeMoves ==
    ASSUME [FeaturesNext]_featureVars
    PROVE  /\ [VoiceNext]_voiceVars /\ [DlNext]_dlVars /\ [UpNext]_upVars
           /\ [RestartNext]_restartVars /\ [SecurityNext]_securityVars /\ [WireNext]_wireVars
BY DEF FeaturesNext, featureVars

LEMMA FeaturesKeep == FeaturesInv /\ [FeaturesNext]_featureVars => FeaturesInv'
<1> SUFFICES ASSUME FeaturesInv, [FeaturesNext]_featureVars PROVE FeaturesInv'
  OBVIOUS
<1>1. /\ [VoiceNext]_voiceVars /\ [DlNext]_dlVars /\ [UpNext]_upVars
      /\ [RestartNext]_restartVars /\ [SecurityNext]_securityVars /\ [WireNext]_wireVars
  BY OneAtATimeMoves
<1>2. VoiceInv'
  BY <1>1, VoiceKeeps DEF FeaturesInv
<1>3. DlInv' /\ DlBounds'
  BY <1>1, DlKeeps, BoundsKeep DEF FeaturesInv
<1>4. UpInv' /\ upFiles' <= UpMaxFiles
  BY <1>1, UpKeeps, UpFilesStay DEF FeaturesInv
<1>5. RestartInv'
  BY <1>1, RestartStep DEF FeaturesInv
<1>6. SecurityInv'
  BY <1>1, SecurityStep DEF FeaturesInv
<1>7. WireInv'
  BY <1>1, WireStep DEF FeaturesInv
<1> QED BY <1>2, <1>3, <1>4, <1>5, <1>6, <1>7 DEF FeaturesInv

LEMMA FeaturesAlways == FeaturesSpec => []FeaturesInv
<1> QED BY FeaturesStart, FeaturesKeep, PTL DEF FeaturesSpec

\* The variables of every feature have their types, whichever is in use: no request for a
\* call without a click that asked for it (RdApp.toggleVoiceCall), and no local file that was
\* given more blocks than the device has of it (FilePanel.onFtBlock), stopped or not.
THEOREM FeaturesAreTyped == FeaturesSpec => []FeaturesTypeOK
<1>1. FeaturesInv => FeaturesTypeOK
  <2> SUFFICES ASSUME FeaturesInv PROVE FeaturesTypeOK
    OBVIOUS
  <2>1. VoiceTypeOK /\ DlTypeOK /\ UpTypeOK
    BY VoiceTyped, DlTyped, UpTyped DEF FeaturesInv
  <2>2. RestartTypeOK /\ SecurityTypeOK /\ WireTypeOK
    BY DEF FeaturesInv, RestartInv, SecurityInv, Types, WireInv
  <2> QED BY <2>1, <2>2 DEF FeaturesTypeOK
<1> QED BY <1>1, FeaturesAlways, PTL

\* The page keeps what each of its features promises, whichever is in use: that of the voice
\* call, of downloads and uploads, of a restart, of the remote security controls and of the
\* messages it reads.
THEOREM FeaturesKeepTheirWord ==
    FeaturesSpec => [](/\ MicrophoneFollowsCall /\ PageAndSessionAgree
                       /\ ReceivedIsWhole /\ SentIsWhole /\ LoopIsAwaited
                       /\ NeverStranded /\ FarewellIsFinal
                       /\ ReleasedOnLeave
                       /\ ReadsWhatWasWritten)
<1>1. FeaturesInv => /\ MicrophoneFollowsCall /\ PageAndSessionAgree
                     /\ ReceivedIsWhole /\ SentIsWhole /\ LoopIsAwaited
                     /\ NeverStranded /\ FarewellIsFinal
                     /\ ReleasedOnLeave
                     /\ ReadsWhatWasWritten
  <2> SUFFICES ASSUME FeaturesInv
               PROVE  /\ MicrophoneFollowsCall /\ PageAndSessionAgree
                      /\ ReceivedIsWhole /\ SentIsWhole /\ LoopIsAwaited
                      /\ NeverStranded /\ FarewellIsFinal
                      /\ ReleasedOnLeave
                      /\ ReadsWhatWasWritten
    OBVIOUS
  <2>1. MicrophoneFollowsCall /\ PageAndSessionAgree
    BY AgreementFollows DEF FeaturesInv, VoiceInv, MicInv
  <2>2. ReceivedIsWhole /\ SentIsWhole /\ LoopIsAwaited
    BY ReceivedFollows, SentFollows, AwaitedFollows DEF FeaturesInv
  <2>3. NeverStranded /\ FarewellIsFinal /\ ReleasedOnLeave /\ ReadsWhatWasWritten
    BY ReleaseFollows DEF FeaturesInv, RestartInv, WireInv, WireHolds
  <2> QED BY <2>1, <2>2, <2>3
<1> QED BY <1>1, FeaturesAlways, PTL

===============================================================================
