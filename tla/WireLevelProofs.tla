--------------------------- MODULE WireLevelProofs ---------------------------
(* What is written is read back: for messages of any depth, given that the ones
   they nest are. *)
EXTENDS WireLevel, SequenceTheorems, WellFoundedInduction, TLAPS

-----------------------------------------------------------------------------
(* Induction over the natural numbers, for a set of them. *)

LEMMA NaturalsAreReached ==
    ASSUME NEW S, 0 \in S, \A n \in Nat : n \in S => n + 1 \in S
    PROVE  Nat \subseteq S
<1> SUFFICES ASSUME Nat \ S # {} PROVE FALSE
  OBVIOUS
<1>1. PICK m \in Nat \ S : \A n \in Nat \ S : ~(<<n, m>> \in OpToRel(<, Nat))
  BY NatLessThanWellFounded, WFMin
<1>2. \A n \in Nat \ S : ~(n < m)
  BY <1>1 DEF OpToRel
<1>3. m - 1 \in Nat /\ m - 1 \in S
  BY <1>2
<1> QED BY <1>3

-----------------------------------------------------------------------------
(* The tables. *)

\* The fields of a message are numbered, and each is told by its number and by
\* its name.
LEMMA FieldsAreDistinct ==
    ASSUME TablesAreSound, NEW type \in DOMAIN Tables
    PROVE  /\ FieldsOf(type) \in Seq(Range(FieldsOf(type)))
           /\ Len(FieldsOf(type)) \in Nat
           /\ DOMAIN FieldsOf(type) = 1 .. Len(FieldsOf(type))
           /\ \A fd, gd \in Range(FieldsOf(type)) :
                 /\ fd.n = gd.n => fd = gd
                 /\ fd.f = gd.f => fd = gd
           /\ \A i, j \in DOMAIN FieldsOf(type) :
                 FieldsOf(type)[i] = FieldsOf(type)[j] => i = j
<1> DEFINE fields == FieldsOf(type)
<1>1. /\ fields \in Seq(Range(fields))
      /\ \A i, j \in DOMAIN fields :
            i # j => fields[i].n # fields[j].n /\ fields[i].f # fields[j].f
  BY DEF TablesAreSound
<1>2. \A fd \in Range(fields) : \E i \in DOMAIN fields : fields[i] = fd
  BY DEF Range
<1> HIDE DEF fields
<1>3. Len(fields) \in Nat /\ DOMAIN fields = 1 .. Len(fields)
  BY <1>1, LenProperties
<1>4. \A fd, gd \in Range(fields) : /\ fd.n = gd.n => fd = gd
                                    /\ fd.f = gd.f => fd = gd
  BY <1>1, <1>2
<1>5. \A i, j \in DOMAIN fields : fields[i] = fields[j] => i = j
  BY <1>1
<1> QED BY <1>1, <1>3, <1>4, <1>5 DEF fields

\* The shape of a field.
LEMMA FieldShape ==
    ASSUME TablesAreSound, NEW type \in DOMAIN Tables, NEW fd \in Range(FieldsOf(type))
    PROVE  /\ fd.as \in {"one", "may", "many", "packed", "case"}
           /\ fd.as \in {"one", "packed"} => fd.k \in Scalars
           /\ fd.k \in Scalars \cup DOMAIN Tables
           /\ fd.f # "union"
           /\ Slot(fd) \in Slots(type)
<1> DEFINE fields == FieldsOf(type)
<1>1. PICK i \in DOMAIN fields : fields[i] = fd
  BY DEF Range
<1>2. /\ fd.as \in {"one", "may", "many", "packed", "case"}
      /\ fd.as \in {"one", "packed"} => fd.k \in Scalars
      /\ fd.k \in Scalars \cup DOMAIN Tables
      /\ fd.f # "union"
  BY <1>1 DEF TablesAreSound
<1>3. Slot(fd) \in Slots(type)
  BY <1>1 DEF Slots
<1> QED BY <1>2, <1>3

\* Two fields that share a slot are cases of the union, or the same.
LEMMA SlotsAreShared ==
    ASSUME TablesAreSound, NEW type \in DOMAIN Tables,
           NEW fd \in Range(FieldsOf(type)), NEW gd \in Range(FieldsOf(type)),
           Slot(fd) = Slot(gd)
    PROVE  fd = gd \/ (fd.as = "case" /\ gd.as = "case")
BY FieldsAreDistinct, FieldShape DEF Slot

\* What an object of defaults holds.
LEMMA BaseHolds ==
    ASSUME TablesAreSound, NEW type \in DOMAIN Tables, NEW fd \in Range(FieldsOf(type))
    PROVE  /\ DOMAIN Base(type) = Slots(type)
           /\ fd.as = "one" => Base(type)[Slot(fd)] = 0
           /\ fd.as # "one" => Base(type)[Slot(fd)] = Undefined
<1>1. Slot(fd) \in Slots(type)
  BY FieldShape
<1>2. CASE fd.as = "one"
  BY <1>1, <1>2 DEF Base, Slot
<1>3. CASE fd.as # "one"
  <2>1. ~\E gd \in Range(FieldsOf(type)) : gd.f = Slot(fd) /\ gd.as = "one"
    BY <1>3, FieldsAreDistinct, FieldShape DEF Slot
  <2> QED BY <1>1, <1>3, <2>1 DEF Base
<1> QED BY <1>2, <1>3 DEF Base

-----------------------------------------------------------------------------
(* The recursive functions of writing and of reading are there. *)

WrittenTo(type, msg, g, n) ==
    g = [i \in 0 .. n |-> IF i = 0 THEN <<>>
                          ELSE g[i - 1] \o EncodeField(FieldsOf(type)[i], msg)]

\* The entries of the first fields of a message.
Written(type, msg) == CHOOSE g : WrittenTo(type, msg, g, Len(FieldsOf(type)))

LEMMA WrittenExists ==
    ASSUME NEW type, NEW msg, NEW n \in Nat
    PROVE  \E g : WrittenTo(type, msg, g, n)
<1> DEFINE S == {k \in Nat : \E g : WrittenTo(type, msg, g, k)}
           Part(i) == EncodeField(FieldsOf(type)[i], msg)
<1>1. 0 \in S
  <2> DEFINE g == [i \in 0 .. 0 |-> <<>>]
  <2>1. g = [i \in 0 .. 0 |-> IF i = 0 THEN <<>> ELSE g[i - 1] \o Part(i)]
    OBVIOUS
  <2>2. WrittenTo(type, msg, g, 0)
    BY <2>1 DEF WrittenTo
  <2> QED BY <2>2
<1>2. ASSUME NEW k \in Nat, k \in S PROVE k + 1 \in S
  <2>1. PICK g : WrittenTo(type, msg, g, k)
    BY <1>2
  <2> DEFINE h == [i \in 0 .. k + 1 |-> IF i = k + 1 THEN g[k] \o Part(i) ELSE g[i]]
             H == [i \in 0 .. k + 1 |-> IF i = 0 THEN <<>> ELSE h[i - 1] \o Part(i)]
  <2>2. ASSUME NEW i \in 0 .. k + 1 PROVE h[i] = H[i]
    <3>1. H[i] = IF i = 0 THEN <<>> ELSE h[i - 1] \o Part(i)
      OBVIOUS
    <3>2. h[i] = IF i = k + 1 THEN g[k] \o Part(i) ELSE g[i]
      OBVIOUS
    <3>3. i # 0 => i - 1 \in 0 .. k /\ h[i - 1] = g[i - 1]
      OBVIOUS
    <3>4. i # k + 1 => g[i] = IF i = 0 THEN <<>> ELSE g[i - 1] \o Part(i)
      BY <2>1 DEF WrittenTo
    <3>5. i = k + 1 => i # 0 /\ i - 1 = k
      OBVIOUS
    <3> HIDE DEF h, H, Part
    <3> QED BY <3>1, <3>2, <3>3, <3>4, <3>5
  <2>3. h = H
    BY <2>2
  <2>4. WrittenTo(type, msg, h, k + 1)
    BY <2>3 DEF WrittenTo
  <2> QED BY <2>4
<1> HIDE DEF S
<1>3. n \in S
  BY <1>1, <1>2, NaturalsAreReached
<1> QED BY <1>3 DEF S

LEMMA WrittenFieldByField ==
    ASSUME NEW type, NEW msg, Len(FieldsOf(type)) \in Nat
    PROVE  /\ Encode(type, msg) = Written(type, msg)[Len(FieldsOf(type))]
           /\ Written(type, msg)[0] = <<>>
           /\ \A i \in 1 .. Len(FieldsOf(type)) :
                 Written(type, msg)[i]
                 = Written(type, msg)[i - 1] \o EncodeField(FieldsOf(type)[i], msg)
<1>1. Encode(type, msg) = Written(type, msg)[Len(FieldsOf(type))]
  BY DEF Encode, Written, WrittenTo
<1>2. WrittenTo(type, msg, Written(type, msg), Len(FieldsOf(type)))
  BY WrittenExists DEF Written
<1>3. ASSUME NEW i \in 0 .. Len(FieldsOf(type))
      PROVE  Written(type, msg)[i] = IF i = 0 THEN <<>>
                 ELSE Written(type, msg)[i - 1] \o EncodeField(FieldsOf(type)[i], msg)
  BY <1>2 DEF WrittenTo
<1>4. 0 \in 0 .. Len(FieldsOf(type)) /\ \A i \in 1 .. Len(FieldsOf(type)) : i \in 0 .. Len(FieldsOf(type)) /\ i # 0
  OBVIOUS
<1>5. Written(type, msg)[0] = <<>>
  BY <1>3, <1>4
<1>6. ASSUME NEW i \in 1 .. Len(FieldsOf(type))
      PROVE  Written(type, msg)[i]
             = Written(type, msg)[i - 1] \o EncodeField(FieldsOf(type)[i], msg)
  BY <1>3, <1>4
<1> QED BY <1>1, <1>5, <1>6

ReadTo(type, entries, g, n) ==
    g = [i \in 0 .. n |-> IF i = 0 THEN Base(type)
                          ELSE DecodeEntry(type, g[i - 1], entries[i])]

\* The object after the first entries.
ReadObject(type, entries) == CHOOSE g : ReadTo(type, entries, g, Len(entries))

LEMMA ReadExists ==
    ASSUME NEW type, NEW entries, NEW n \in Nat
    PROVE  \E g : ReadTo(type, entries, g, n)
<1> DEFINE S == {k \in Nat : \E g : ReadTo(type, entries, g, k)}
<1>1. 0 \in S
  <2> DEFINE g == [i \in 0 .. 0 |-> Base(type)]
  <2>1. g = [i \in 0 .. 0 |-> IF i = 0 THEN Base(type)
                              ELSE DecodeEntry(type, g[i - 1], entries[i])]
    OBVIOUS
  <2>2. ReadTo(type, entries, g, 0)
    BY <2>1 DEF ReadTo
  <2> QED BY <2>2
<1>2. ASSUME NEW k \in Nat, k \in S PROVE k + 1 \in S
  <2>1. PICK g : ReadTo(type, entries, g, k)
    BY <1>2
  <2> DEFINE h == [i \in 0 .. k + 1 |-> IF i = k + 1 THEN DecodeEntry(type, g[k], entries[i])
                                        ELSE g[i]]
             H == [i \in 0 .. k + 1 |-> IF i = 0 THEN Base(type)
                                        ELSE DecodeEntry(type, h[i - 1], entries[i])]
  <2>2. ASSUME NEW i \in 0 .. k + 1 PROVE h[i] = H[i]
    <3>1. CASE i = k + 1
      BY <3>1
    <3>2. CASE i # k + 1
      <4>1. i \in 0 .. k /\ (i # 0 => i - 1 \in 0 .. k /\ i - 1 # k + 1)
        BY <3>2
      <4>2. g[i] = IF i = 0 THEN Base(type) ELSE DecodeEntry(type, g[i - 1], entries[i])
        BY <2>1, <4>1 DEF ReadTo
      <4> QED BY <3>2, <4>1, <4>2
    <3> QED BY <3>1, <3>2
  <2>3. h = H
    BY <2>2
  <2>4. ReadTo(type, entries, h, k + 1)
    BY <2>3 DEF ReadTo
  <2> QED BY <2>4
<1> HIDE DEF S
<1>3. n \in S
  BY <1>1, <1>2, NaturalsAreReached
<1> QED BY <1>3 DEF S

LEMMA ReadEntryByEntry ==
    ASSUME NEW type, NEW entries, Len(entries) \in Nat
    PROVE  /\ Decode(type, entries) = ReadObject(type, entries)[Len(entries)]
           /\ ReadObject(type, entries)[0] = Base(type)
           /\ \A i \in 1 .. Len(entries) :
                 ReadObject(type, entries)[i]
                 = DecodeEntry(type, ReadObject(type, entries)[i - 1], entries[i])
<1>1. Decode(type, entries) = ReadObject(type, entries)[Len(entries)]
  BY DEF Decode, ReadObject, ReadTo
<1>2. ReadTo(type, entries, ReadObject(type, entries), Len(entries))
  BY ReadExists DEF ReadObject
<1>3. ASSUME NEW i \in 0 .. Len(entries)
      PROVE  ReadObject(type, entries)[i] = IF i = 0 THEN Base(type)
                 ELSE DecodeEntry(type, ReadObject(type, entries)[i - 1], entries[i])
  BY <1>2 DEF ReadTo
<1> QED BY <1>1, <1>3

-----------------------------------------------------------------------------
(* What a field adds to the object. *)

\* A message holds something in a field, unless it is another case of the union.
Has(fd, msg) == fd.as # "case" \/ (msg.union # Undefined /\ msg.union[1] = fd.f)

\* The object with the first fields of a message.
Filled(type, msg, n) ==
    [s \in Slots(type) |->
        IF \E i \in 1 .. n : Slot(FieldsOf(type)[i]) = s /\ Has(FieldsOf(type)[i], msg)
        THEN msg[s] ELSE Base(type)[s]]

LEMMA NothingFilled ==
    ASSUME NEW type, NEW msg PROVE Filled(type, msg, 0) = Base(type)
<1>1. Base(type) = [s \in Slots(type) |-> Base(type)[s]]
  BY DEF Base
<1>2. ~\E i \in 1 .. 0 : Slot(FieldsOf(type)[i]) \in Slots(type)
  OBVIOUS
<1> QED BY <1>1, <1>2 DEF Filled

\* Its own slot is what the next field changes, and nothing was there before.
LEMMA NextFilled ==
    ASSUME TablesAreSound, NEW type \in DOMAIN Tables, NEW msg, NEW n \in 1 .. Len(FieldsOf(type))
    PROVE  /\ FieldsOf(type)[n] \in Range(FieldsOf(type))
           /\ DOMAIN Filled(type, msg, n - 1) = Slots(type)
           /\ Has(FieldsOf(type)[n], msg) =>
                 Filled(type, msg, n)
                 = [Filled(type, msg, n - 1) EXCEPT ![Slot(FieldsOf(type)[n])]
                       = msg[Slot(FieldsOf(type)[n])]]
           /\ ~Has(FieldsOf(type)[n], msg) => Filled(type, msg, n) = Filled(type, msg, n - 1)
           /\ FieldsOf(type)[n].as # "case" =>
                 Filled(type, msg, n - 1)[Slot(FieldsOf(type)[n])]
                 = Base(type)[Slot(FieldsOf(type)[n])]
<1> DEFINE fields == FieldsOf(type)
           fd == fields[n]
           At(k, s) == \E i \in 1 .. k : Slot(fields[i]) = s /\ Has(fields[i], msg)
<1>1. /\ Len(fields) \in Nat /\ DOMAIN fields = 1 .. Len(fields)
      /\ \A i, j \in DOMAIN fields : fields[i] = fields[j] => i = j
  BY FieldsAreDistinct
<1>2. \A i \in 1 .. Len(fields) : fields[i] \in Range(fields)
  BY <1>1 DEF Range
<1>3. \A k : Filled(type, msg, k) = [s \in Slots(type) |-> IF At(k, s) THEN msg[s] ELSE Base(type)[s]]
  BY DEF Filled
<1>4. fd \in Range(fields) /\ Slot(fd) \in Slots(type)
  BY <1>2, FieldShape
<1>5. \A s : At(n, s) <=> At(n - 1, s) \/ (Slot(fd) = s /\ Has(fd, msg))
  BY <1>1
<1>6. \A i \in 1 .. n - 1 : i \in 1 .. Len(fields) /\ i # n
  BY <1>1
<1>7. fd.as # "case" => ~At(n - 1, Slot(fd))
  BY <1>1, <1>2, <1>6, SlotsAreShared
<1> HIDE DEF At, fields
<1>8. ASSUME ~Has(fd, msg) PROVE Filled(type, msg, n) = Filled(type, msg, n - 1)
  BY <1>3, <1>5, <1>8
<1>9. ASSUME Has(fd, msg)
      PROVE  Filled(type, msg, n) = [Filled(type, msg, n - 1) EXCEPT ![Slot(fd)] = msg[Slot(fd)]]
  BY <1>3, <1>4, <1>5, <1>9
<1>10. fd.as # "case" => Filled(type, msg, n - 1)[Slot(fd)] = Base(type)[Slot(fd)]
  BY <1>3, <1>4, <1>7
<1>11. DOMAIN Filled(type, msg, n - 1) = Slots(type)
  BY <1>3
<1> QED BY <1>4, <1>8, <1>9, <1>10, <1>11 DEF fields

\* With all its fields the object is the message.
LEMMA AllFilled ==
    ASSUME TablesAreSound, NEW type, NEW msg, IsMessage(type, msg)
    PROVE  Filled(type, msg, Len(FieldsOf(type))) = msg
<1> DEFINE fields == FieldsOf(type)
           At(s) == \E i \in 1 .. Len(fields) : Slot(fields[i]) = s /\ Has(fields[i], msg)
<1>1. type \in DOMAIN Tables /\ msg = [s \in Slots(type) |-> msg[s]]
  BY DEF IsMessage
<1>2. Len(fields) \in Nat /\ DOMAIN fields = 1 .. Len(fields)
  BY <1>1, FieldsAreDistinct
<1>3. ASSUME NEW s \in Slots(type), ~At(s) PROVE Base(type)[s] = msg[s]
  <2>1. PICK i \in DOMAIN fields : Slot(fields[i]) = s
    BY DEF Slots
  <2>2. fields[i] \in Range(fields) /\ i \in 1 .. Len(fields)
    BY <1>2, <2>1 DEF Range
  <2>3. ~Has(fields[i], msg)
    BY <1>3, <2>1, <2>2
  <2>4. fields[i].as = "case" /\ s = "union"
    BY <2>1, <2>3 DEF Has, Slot
  <2>5. Base(type)[s] = Undefined
    BY <1>1, <2>1, <2>2, <2>4, BaseHolds
  <2>6. msg.union = Undefined
    <3>1. SUFFICES ASSUME msg.union # Undefined PROVE FALSE
      OBVIOUS
    <3>2. PICK case \in Range(fields) : case.as = "case" /\ msg.union = <<case.f, msg.union[2]>>
      BY <2>2, <2>4, <3>1 DEF IsMessage
    <3>3. PICK j \in DOMAIN fields : fields[j] = case
      BY DEF Range
    <3>4. Slot(fields[j]) = s /\ Has(fields[j], msg)
      <4>1. msg.union[1] = case.f
        BY <3>2
      <4> QED BY <2>4, <3>1, <3>2, <3>3, <4>1 DEF Slot, Has
    <3> QED BY <1>2, <1>3, <3>3, <3>4
  <2> QED BY <2>4, <2>5, <2>6
<1>4. Filled(type, msg, Len(fields)) = [s \in Slots(type) |-> IF At(s) THEN msg[s] ELSE Base(type)[s]]
  BY DEF Filled
<1> HIDE DEF At, fields
<1>5. \A s \in Slots(type) : (IF At(s) THEN msg[s] ELSE Base(type)[s]) = msg[s]
  BY <1>3
<1>6. Filled(type, msg, Len(fields)) = [s \in Slots(type) |-> msg[s]]
  BY <1>4, <1>5
<1> QED BY <1>1, <1>6 DEF fields

-----------------------------------------------------------------------------
(* What a field is written as, and how its entries are read. *)

\* The entries of a message.
EntriesOf(type, msg) == UNION {Range(EncodeField(fd, msg)) : fd \in Range(FieldsOf(type))}

\* The entries of a field, one for each of its values.
LEMMA FieldIsWritten ==
    ASSUME NEW fd, NEW msg
    PROVE  /\ fd.as = "one" /\ msg[fd.f] = 0 => EncodeField(fd, msg) = <<>>
           /\ fd.as = "one" /\ msg[fd.f] # 0 => EncodeField(fd, msg) = <<Entry(fd, msg[fd.f])>>
           /\ fd.as \in {"may", "many"} =>
                 EncodeField(fd, msg) = [i \in DOMAIN msg[fd.f] |-> Entry(fd, msg[fd.f][i])]
           /\ fd.as = "packed" => EncodeField(fd, msg) = <<[n |-> fd.n, w |-> 2, v |-> msg[fd.f]]>>
           /\ fd.as = "case" /\ Has(fd, msg) => EncodeField(fd, msg) = <<Entry(fd, msg.union[2])>>
           /\ fd.as = "case" /\ ~Has(fd, msg) => EncodeField(fd, msg) = <<>>
<1> DEFINE each(values) == [i \in DOMAIN values |-> Entry(fd, values[i])]
<1>1. fd.as # "packed" => EncodeField(fd, msg) = each(Values(fd, msg))
  BY DEF EncodeField
<1>2. each(<<>>) = <<>>
  OBVIOUS
<1>3. ASSUME NEW v PROVE each(<<v>>) = <<Entry(fd, v)>>
  OBVIOUS
<1> HIDE DEF each
<1>4. CASE fd.as = "one"
  <2>1. Values(fd, msg) = IF msg[fd.f] = 0 THEN <<>> ELSE <<msg[fd.f]>>
    BY <1>4 DEF Values
  <2> QED BY <1>1, <1>2, <1>3, <1>4, <2>1
<1>5. CASE fd.as \in {"may", "many"}
  <2>1. Values(fd, msg) = msg[fd.f]
    BY <1>5 DEF Values
  <2> QED BY <1>1, <1>5, <2>1 DEF each
<1>6. CASE fd.as = "packed"
  BY <1>6 DEF EncodeField
<1>7. CASE fd.as = "case"
  <2>1. Values(fd, msg) = IF Has(fd, msg) THEN <<msg.union[2]>> ELSE <<>>
    BY <1>7 DEF Values, Has
  <2> QED BY <1>1, <1>2, <1>3, <1>7, <2>1
<1> QED BY <1>4, <1>5, <1>6, <1>7

LEMMA FieldIsList ==
    ASSUME TablesAreSound, NEW type, NEW msg, IsMessage(type, msg), NEW fd \in Range(FieldsOf(type))
    PROVE  EncodeField(fd, msg) \in Seq(EntriesOf(type, msg))
<1> DEFINE part == EncodeField(fd, msg)
<1>1. type \in DOMAIN Tables
  BY DEF IsMessage
<1>2. fd.as \in {"one", "may", "many", "packed", "case"}
  BY <1>1, FieldShape
<1>3. part \in Seq(Range(part))
  <2>1. CASE fd.as \in {"may", "many"}
    <3>1. msg[fd.f] \in Seq(Range(msg[fd.f]))
      BY <2>1 DEF IsMessage
    <3>2. PICK n \in Nat : DOMAIN msg[fd.f] = 1 .. n
      BY <3>1, LenProperties
    <3>3. part = [i \in 1 .. n |-> Entry(fd, msg[fd.f][i])]
      BY <2>1, <3>2, FieldIsWritten
    <3>4. part \in [1 .. n -> Range(part)]
      BY <3>3 DEF Range
    <3> QED BY <3>4
  <2>2. ASSUME NEW e PROVE <<e>> \in Seq(Range(<<e>>))
    BY DEF Range
  <2>3. <<>> \in Seq(Range(<<>>))
    OBVIOUS
  <2>4. CASE fd.as = "one"
    BY <2>2, <2>3, <2>4, FieldIsWritten
  <2>5. CASE fd.as = "packed"
    BY <2>2, <2>5 DEF EncodeField
  <2>6. CASE fd.as = "case"
    BY <2>2, <2>3, <2>6, FieldIsWritten
  <2> QED BY <1>2, <2>1, <2>4, <2>5, <2>6
<1>4. Range(part) \subseteq EntriesOf(type, msg)
  BY DEF EntriesOf
<1> QED BY <1>3, <1>4, SeqMonotonic

\* An object once a field has read an entry.
With(fd, obj, e, v) == [obj EXCEPT ![Slot(fd)] = Kept(fd, e, @, v)]

\* An entry is read by the field whose number it has.
LEMMA FieldReadsEntry ==
    ASSUME TablesAreSound, NEW type \in DOMAIN Tables, NEW fd \in Range(FieldsOf(type)),
           NEW e, Answers(fd, e), NEW obj, NEW v,
           v = IF fd.k \in Scalars THEN e.v ELSE NestedDecode(fd.k, e.v)
    PROVE  DecodeEntry(type, obj, e) = With(fd, obj, e, v)
<1>1. \A gd \in Range(FieldsOf(type)) : Answers(gd, e) => gd = fd
  BY FieldsAreDistinct DEF Answers
<1>2. (CHOOSE gd \in Range(FieldsOf(type)) : Answers(gd, e)) = fd
  BY <1>1
<1> QED BY <1>2 DEF DecodeEntry, With, Kept

\* The messages that are nested are read back.
NestedIsReadBack ==
    \A type, msg :
        NestedIsMessage(type, msg) /\ NestedWritable(type, msg) =>
            NestedDecode(type, NestedEncode(type, msg)) = msg

\* An entry holds what was written, and the field answers it.
LEMMA EntryHoldsValue ==
    ASSUME TablesAreSound, NestedIsReadBack,
           NEW type, NEW msg, IsMessage(type, msg), Writable(type, msg),
           NEW fd \in Range(FieldsOf(type)), NEW v \in Held(fd, msg)
    PROVE  /\ Answers(fd, Entry(fd, v))
           /\ v = IF fd.k \in Scalars THEN Entry(fd, v).v ELSE NestedDecode(fd.k, Entry(fd, v).v)
<1>1. Answers(fd, Entry(fd, v))
  BY DEF Answers, Entry
<1>2. IsValue(fd.k, v)
  BY DEF IsMessage
<1>3. IF fd.k \in Scalars THEN v # Wide ELSE NestedWritable(fd.k, v)
  BY DEF Writable
<1>4. CASE fd.k \in Scalars
  <2>1. v = 0 \/ v = 1
    BY <1>2, <1>3, <1>4 DEF IsValue, ScalarsOf, Wide
  <2>2. v % Wide = v
    BY <2>1 DEF Wide
  <2> QED BY <1>1, <1>4, <2>2 DEF Entry
<1>5. CASE fd.k \notin Scalars
  <2>1. NestedDecode(fd.k, NestedEncode(fd.k, v)) = v
    BY <1>2, <1>3, <1>5 DEF IsValue, NestedIsReadBack
  <2> QED BY <1>1, <1>5, <2>1 DEF Entry
<1> QED BY <1>4, <1>5

\* So the value is back in the object, in the way of the field.
LEMMA EntryIsRead ==
    ASSUME TablesAreSound, NestedIsReadBack,
           NEW type, NEW msg, IsMessage(type, msg), Writable(type, msg),
           NEW fd \in Range(FieldsOf(type)), NEW v \in Held(fd, msg), NEW obj
    PROVE  DecodeEntry(type, obj, Entry(fd, v)) = With(fd, obj, Entry(fd, v), v)
<1> DEFINE e == Entry(fd, v)
<1>1. type \in DOMAIN Tables
  BY DEF IsMessage
<1>2. Answers(fd, e) /\ v = IF fd.k \in Scalars THEN e.v ELSE NestedDecode(fd.k, e.v)
  BY EntryHoldsValue
<1> HIDE DEF e
<1>3. DecodeEntry(type, obj, e) = With(fd, obj, e, v)
  BY <1>1, <1>2, FieldReadsEntry
<1> QED BY <1>3 DEF e

-----------------------------------------------------------------------------
(* A field that is written is read: entry by entry, from the object that holds
   the fields before it to the object that holds it too. *)

ReadsPart(type, g, start, part) ==
    \A q \in 1 .. Len(part) : g[start + q] = DecodeEntry(type, g[start + q - 1], part[q])

LEMMA PrefixGrows ==
    ASSUME NEW S, NEW list \in Seq(S), NEW q \in Nat, q + 1 \in 1 .. Len(list)
    PROVE  SubSeq(list, 1, q + 1) = Append(SubSeq(list, 1, q), list[q + 1])
<1>1. Len(list) \in Nat /\ \A i \in 1 .. q + 1 : list[i] \in S
  BY LenProperties, ElementOfSeq
<1>2. /\ SubSeq(list, 1, q) \in Seq(S) /\ Len(SubSeq(list, 1, q)) = q
      /\ \A i \in 1 .. q : SubSeq(list, 1, q)[i] = list[i]
  BY <1>1, SubSeqProperties
<1>3. /\ SubSeq(list, 1, q + 1) \in Seq(S) /\ Len(SubSeq(list, 1, q + 1)) = q + 1
      /\ \A i \in 1 .. q + 1 : SubSeq(list, 1, q + 1)[i] = list[i]
  BY <1>1, SubSeqProperties
<1> DEFINE t == Append(SubSeq(list, 1, q), list[q + 1])
<1>4. t \in Seq(S) /\ Len(t) = q + 1 /\ \A i \in 1 .. q + 1 : t[i] = list[i]
  BY <1>1, <1>2
<1> HIDE DEF t
<1>5. SubSeq(list, 1, q + 1) = t
  BY <1>3, <1>4, SeqEqual
<1> QED BY <1>5 DEF t

\* A list grows by an element with each entry.
LEMMA ListIsRead ==
    ASSUME TablesAreSound, NestedIsReadBack,
           NEW type, NEW msg, IsMessage(type, msg), Writable(type, msg),
           NEW fd \in Range(FieldsOf(type)), fd.as = "many",
           NEW g, NEW start \in Nat,
           g[start] = [s \in Slots(type) |-> g[start][s]], g[start][Slot(fd)] = <<>>,
           ReadsPart(type, g, start, EncodeField(fd, msg))
    PROVE  g[start + Len(EncodeField(fd, msg))] = [g[start] EXCEPT ![Slot(fd)] = msg[fd.f]]
<1> DEFINE list == msg[fd.f]
           part == EncodeField(fd, msg)
           slot == Slot(fd)
           ReadTo1(q) == g[start + q] = [g[start] EXCEPT ![slot] = SubSeq(list, 1, q)]
           S == {q \in Nat : q <= Len(list) => ReadTo1(q)}
<1>1. list \in Seq(Range(list)) /\ Len(list) \in Nat /\ DOMAIN list = 1 .. Len(list)
  <2>1. list \in Seq(Range(list))
    BY DEF IsMessage
  <2> QED BY <2>1, LenProperties
<1>2. part = [i \in 1 .. Len(list) |-> Entry(fd, list[i])] /\ Len(part) = Len(list)
  <2>1. part = [i \in 1 .. Len(list) |-> Entry(fd, list[i])]
    BY <1>1, FieldIsWritten
  <2>2. Len(part) = Len(list)
    BY <1>1, <2>1
  <2> QED BY <2>1, <2>2
<1>3. type \in DOMAIN Tables
  BY DEF IsMessage
<1> HIDE DEF part
<1>4. 0 \in S
  <2>1. SubSeq(list, 1, 0) = <<>>
    BY SubSeqEmpty
  <2>2. g[start] = [g[start] EXCEPT ![slot] = <<>>]
    <3> DEFINE obj == g[start]
    <3>1. obj = [s \in Slots(type) |-> obj[s]] /\ obj[slot] = <<>>
      OBVIOUS
    <3> HIDE DEF obj, slot
    <3>2. obj = [obj EXCEPT ![slot] = <<>>]
      BY <3>1
    <3> QED BY <3>2 DEF obj
  <2>3. start + 0 = start
    OBVIOUS
  <2>4. ReadTo1(0)
    BY <2>1, <2>2, <2>3
  <2> HIDE DEF ReadTo1
  <2> QED BY <2>4
<1>5. ASSUME NEW q \in Nat, q \in S PROVE q + 1 \in S
  <2>1. SUFFICES ASSUME q + 1 <= Len(list) PROVE ReadTo1(q + 1)
    OBVIOUS
  <2>2. ReadTo1(q) /\ q + 1 \in 1 .. Len(list)
    BY <1>1, <1>5, <2>1
  <2>3. g[start + (q + 1)] = DecodeEntry(type, g[start + q], Entry(fd, list[q + 1]))
    <3>1. part[q + 1] = Entry(fd, list[q + 1])
      BY <1>2, <2>2
    <3>2. start + (q + 1) - 1 = start + q
      OBVIOUS
    <3>3. ReadsPart(type, g, start, part)
      BY DEF part
    <3> QED BY <1>2, <2>2, <3>1, <3>2, <3>3 DEF ReadsPart
  <2>4. list[q + 1] \in Held(fd, msg)
    BY <1>1, <2>2 DEF Held, Range
  <2>5. DecodeEntry(type, g[start + q], Entry(fd, list[q + 1]))
        = [g[start + q] EXCEPT ![slot] = Append(@, list[q + 1])]
    <3>1. DecodeEntry(type, g[start + q], Entry(fd, list[q + 1]))
          = With(fd, g[start + q], Entry(fd, list[q + 1]), list[q + 1])
      BY <2>4, EntryIsRead
    <3> QED BY <3>1 DEF With, Kept
  <2>6. SubSeq(list, 1, q + 1) = Append(SubSeq(list, 1, q), list[q + 1])
    BY <1>1, <2>2, PrefixGrows
  <2>7. [g[start + q] EXCEPT ![slot] = Append(@, list[q + 1])]
        = [g[start] EXCEPT ![slot] = Append(SubSeq(list, 1, q), list[q + 1])]
    BY <2>2
  <2> QED BY <2>3, <2>5, <2>6, <2>7
<1> HIDE DEF S, ReadTo1
<1>6. Len(list) \in S
  BY <1>1, <1>4, <1>5, NaturalsAreReached
<1>7. ReadTo1(Len(list))
  BY <1>1, <1>6 DEF S
<1>8. SubSeq(list, 1, Len(list)) = list
  BY <1>1, SubSeqFull
<1> QED
  <2>1. g[start + Len(part)] = [g[start] EXCEPT ![slot] = list]
    BY <1>2, <1>7, <1>8 DEF ReadTo1
  <2> QED BY <2>1 DEF part

\* Whatever a field is, with its entries the object holds it.
LEMMA FieldIsRead ==
    ASSUME TablesAreSound, NestedIsReadBack,
           NEW type, NEW msg, IsMessage(type, msg), Writable(type, msg),
           NEW n \in 1 .. Len(FieldsOf(type)), NEW g, NEW start \in Nat,
           g[start] = Filled(type, msg, n - 1),
           ReadsPart(type, g, start, EncodeField(FieldsOf(type)[n], msg))
    PROVE  g[start + Len(EncodeField(FieldsOf(type)[n], msg))] = Filled(type, msg, n)
<1> DEFINE fd == FieldsOf(type)[n]
           part == EncodeField(fd, msg)
           slot == Slot(fd)
           before == Filled(type, msg, n - 1)
<1>1. type \in DOMAIN Tables
  BY DEF IsMessage
<1>2. /\ fd \in Range(FieldsOf(type)) /\ DOMAIN before = Slots(type)
      /\ Has(fd, msg) => Filled(type, msg, n) = [before EXCEPT ![slot] = msg[slot]]
      /\ ~Has(fd, msg) => Filled(type, msg, n) = before
      /\ fd.as # "case" => before[slot] = Base(type)[slot]
  BY <1>1, NextFilled
<1>3. /\ fd.as \in {"one", "may", "many", "packed", "case"}
      /\ fd.as \in {"one", "packed"} => fd.k \in Scalars
      /\ slot \in Slots(type)
  BY <1>1, <1>2, FieldShape
<1>4. /\ fd.as = "one" => Base(type)[slot] = 0
      /\ fd.as # "one" => Base(type)[slot] = <<>>
  BY <1>1, <1>2, BaseHolds DEF Undefined
<1>5. /\ fd.as # "case" => slot = fd.f /\ Has(fd, msg)
      /\ fd.as = "case" => slot = "union"
  BY DEF Slot, Has
<1> HIDE DEF fd, before, slot
\* Where nothing is written.
<1>6. ASSUME part = <<>> PROVE g[start + Len(part)] = before
  <2>1. Len(part) = 0 /\ start + 0 = start
    BY <1>6
  <2> QED BY <2>1 DEF before
\* Where there is one entry.
<1>7. ASSUME NEW e, part = <<e>> PROVE g[start + Len(part)] = DecodeEntry(type, before, e)
  <2> HIDE DEF part
  <2>1. Len(part) = 1 /\ part[1] = e /\ 1 \in 1 .. Len(part) /\ start + 1 - 1 = start
    BY <1>7
  <2>2. ReadsPart(type, g, start, part)
    BY DEF part, fd
  <2> QED BY <2>1, <2>2 DEF ReadsPart, before
<1>8. CASE fd.as = "one"
  <2>1. CASE msg[fd.f] = 0
    <3>1. part = <<>>
      BY <1>8, <2>1, FieldIsWritten
    <3>2. [before EXCEPT ![slot] = msg[slot]] = before
      <4>1. before = [s \in Slots(type) |-> before[s]]
        BY <1>2 DEF before, Filled
      <4> QED BY <1>2, <1>3, <1>4, <1>5, <1>8, <2>1, <4>1
    <3> QED BY <1>2, <1>5, <1>6, <1>8, <3>1, <3>2 DEF fd
  <2>2. CASE msg[fd.f] # 0
    <3>1. part = <<Entry(fd, msg[fd.f])>>
      BY <1>8, <2>2, FieldIsWritten
    <3>2. msg[fd.f] \in Held(fd, msg)
      BY <1>8 DEF Held
    <3>3. DecodeEntry(type, before, Entry(fd, msg[fd.f])) = [before EXCEPT ![slot] = msg[fd.f]]
      <4>1. DecodeEntry(type, before, Entry(fd, msg[fd.f])) = With(fd, before, Entry(fd, msg[fd.f]), msg[fd.f])
        BY <1>2, <1>8, <3>2, EntryIsRead
      <4> QED BY <1>8, <4>1 DEF With, Kept, slot
    <3> QED BY <1>2, <1>5, <1>7, <1>8, <3>1, <3>3 DEF fd
  <2> QED BY <2>1, <2>2
<1>9. CASE fd.as = "may"
  <2>1. /\ msg[fd.f] \in Seq(Range(msg[fd.f])) /\ Len(msg[fd.f]) <= 1
        /\ part = [i \in DOMAIN msg[fd.f] |-> Entry(fd, msg[fd.f][i])]
    <3>1. msg[fd.f] \in Seq(Range(msg[fd.f])) /\ Len(msg[fd.f]) <= 1
      BY <1>2, <1>9 DEF IsMessage
    <3>2. part = [i \in DOMAIN msg[fd.f] |-> Entry(fd, msg[fd.f][i])]
      BY <1>9, FieldIsWritten
    <3> QED BY <3>1, <3>2
  <2>2. CASE msg[fd.f] = <<>>
    <3>1. part = <<>>
      BY <2>1, <2>2
    <3>2. [before EXCEPT ![slot] = msg[slot]] = before
      <4>1. before = [s \in Slots(type) |-> before[s]]
        BY <1>2 DEF before, Filled
      <4> QED BY <1>2, <1>3, <1>4, <1>5, <1>9, <2>2, <4>1
    <3> QED BY <1>2, <1>5, <1>6, <1>9, <3>1, <3>2 DEF fd
  <2>3. CASE msg[fd.f] # <<>>
    <3>1. Len(msg[fd.f]) = 1
      <4> DEFINE list == msg[fd.f]
      <4>1. list \in Seq(Range(list)) /\ list # <<>> /\ Len(list) <= 1
        BY <2>1, <2>3
      <4> HIDE DEF list
      <4>2. Len(list) \in Nat \ {0}
        BY <4>1, EmptySeq
      <4>3. PICK k \in Nat \ {0} : k = Len(list)
        BY <4>2
      <4>4. Len(list) <= 1
        BY <4>1
      <4>5. k = 1
        BY <4>3, <4>4
      <4> QED BY <4>3, <4>5 DEF list
    <3>2. PICK v : msg[fd.f] = <<v>>
      BY <2>1, <3>1
    <3>3. part = <<Entry(fd, v)>>
      BY <2>1, <3>2
    <3>4. v \in Held(fd, msg)
      BY <1>9, <3>2 DEF Held, Range
    <3>5. DecodeEntry(type, before, Entry(fd, v)) = [before EXCEPT ![slot] = <<v>>]
      <4>1. DecodeEntry(type, before, Entry(fd, v)) = With(fd, before, Entry(fd, v), v)
        BY <1>2, <1>9, <3>4, EntryIsRead
      <4> QED BY <1>9, <4>1 DEF With, Kept, slot
    <3> QED BY <1>2, <1>5, <1>7, <1>9, <3>2, <3>3, <3>5 DEF fd
  <2> QED BY <2>2, <2>3
<1>10. CASE fd.as = "many"
  <2>1. g[start] = [s \in Slots(type) |-> g[start][s]] /\ g[start][slot] = <<>>
    <3>1. before = [s \in Slots(type) |-> before[s]]
      BY DEF before, Filled
    <3> QED BY <1>2, <1>3, <1>4, <1>10, <3>1 DEF before
  <2>2. ReadsPart(type, g, start, part)
    BY DEF fd
  <2>3. g[start + Len(part)] = [g[start] EXCEPT ![slot] = msg[fd.f]]
    <3>1. fd \in Range(FieldsOf(type))
      BY <1>2
    <3>2. g[start] = [s \in Slots(type) |-> g[start][s]] /\ g[start][Slot(fd)] = <<>>
      BY <2>1 DEF slot
    <3> QED BY <1>10, <2>2, <3>1, <3>2, ListIsRead DEF slot
  <2> QED BY <1>2, <1>5, <1>10, <2>3 DEF fd, before
<1>11. CASE fd.as = "packed"
  <2> DEFINE e == [n |-> fd.n, w |-> 2, v |-> msg[fd.f]]
  <2>1. part = <<e>>
    BY <1>11, FieldIsWritten
  <2>2. Answers(fd, e) /\ e.w = 2
    BY <1>11 DEF Answers
  <2>3. DecodeEntry(type, before, e) = [before EXCEPT ![slot] = @ \o msg[fd.f]]
    <3>1. msg[fd.f] = IF fd.k \in Scalars THEN e.v ELSE NestedDecode(fd.k, e.v)
      BY <1>3, <1>11
    <3> HIDE DEF e
    <3>2. DecodeEntry(type, before, e) = With(fd, before, e, msg[fd.f])
      BY <1>1, <1>2, <2>2, <3>1, FieldReadsEntry
    <3> QED BY <1>11, <2>2, <3>2 DEF With, Kept, slot
  <2>4. <<>> \o msg[fd.f] = msg[fd.f]
    <3>1. msg[fd.f] \in Seq(Range(msg[fd.f]))
      BY <1>2, <1>11 DEF IsMessage
    <3> QED BY <3>1, ConcatEmptySeq
  <2>5. [before EXCEPT ![slot] = @ \o msg[fd.f]] = [before EXCEPT ![slot] = msg[fd.f]]
    BY <1>2, <1>3, <1>4, <1>11, <2>4
  <2> HIDE DEF e
  <2> QED BY <1>2, <1>5, <1>7, <1>11, <2>1, <2>3, <2>5 DEF fd
<1>12. CASE fd.as = "case"
  <2>1. CASE ~Has(fd, msg)
    <3>1. part = <<>>
      BY <1>12, <2>1, FieldIsWritten
    <3> QED BY <1>2, <1>6, <2>1, <3>1 DEF fd
  <2>2. CASE Has(fd, msg)
    <3>1. msg.union # Undefined /\ msg.union[1] = fd.f
      BY <1>12, <2>2 DEF Has
    <3>2. part = <<Entry(fd, msg.union[2])>>
      BY <1>12, <2>2, FieldIsWritten
    <3>3. msg.union[2] \in Held(fd, msg)
      BY <1>12, <3>1 DEF Held
    <3>4. DecodeEntry(type, before, Entry(fd, msg.union[2]))
          = [before EXCEPT ![slot] = <<fd.f, msg.union[2]>>]
      <4>1. DecodeEntry(type, before, Entry(fd, msg.union[2])) = With(fd, before, Entry(fd, msg.union[2]), msg.union[2])
        BY <1>2, <1>12, <3>3, EntryIsRead
      <4> QED BY <1>12, <4>1 DEF With, Kept, slot
    <3>5. msg.union = <<fd.f, msg.union[2]>>
      <4>1. PICK case \in Range(FieldsOf(type)) :
               case.as = "case" /\ msg.union = <<case.f, msg.union[2]>>
        BY <1>2, <1>12, <3>1 DEF IsMessage
      <4>2. msg.union[1] = case.f
        BY <4>1
      <4> QED BY <3>1, <4>1, <4>2
    <3> QED BY <1>2, <1>5, <1>7, <1>12, <2>2, <3>2, <3>4, <3>5 DEF fd
  <2> QED BY <2>1, <2>2
<1> QED BY <1>3, <1>8, <1>9, <1>10, <1>11, <1>12 DEF fd

-----------------------------------------------------------------------------
(* A message that is written is read. *)

LEMMA WrittenIsList ==
    ASSUME TablesAreSound, NEW type, NEW msg, IsMessage(type, msg), NEW n \in 0 .. Len(FieldsOf(type))
    PROVE  /\ Written(type, msg)[n] \in Seq(EntriesOf(type, msg))
           /\ Len(Written(type, msg)[n]) \in Nat
<1> DEFINE fields == FieldsOf(type)
           E == EntriesOf(type, msg)
           W(i) == Written(type, msg)[i]
           S == {k \in Nat : k <= Len(fields) => W(k) \in Seq(E)}
<1>1. Len(fields) \in Nat /\ DOMAIN fields = 1 .. Len(fields)
  BY FieldsAreDistinct DEF IsMessage
<1>2. W(0) = <<>> /\ \A i \in 1 .. Len(fields) : W(i) = W(i - 1) \o EncodeField(fields[i], msg)
  BY <1>1, WrittenFieldByField
<1>3. \A i \in 1 .. Len(fields) : EncodeField(fields[i], msg) \in Seq(E)
  <2>1. ASSUME NEW i \in 1 .. Len(fields) PROVE fields[i] \in Range(fields)
    BY <1>1 DEF Range
  <2> QED BY <2>1, FieldIsList
<1> HIDE DEF fields, E, W
<1>4. 0 \in S
  BY <1>2, EmptySeq
<1>5. ASSUME NEW k \in Nat, k \in S PROVE k + 1 \in S
  <2>1. SUFFICES ASSUME k + 1 <= Len(fields) PROVE W(k + 1) \in Seq(E)
    OBVIOUS
  <2>2. k + 1 \in 1 .. Len(fields) /\ W(k) \in Seq(E) /\ (k + 1) - 1 = k
    BY <1>1, <1>5, <2>1
  <2>3. W(k + 1) = W(k) \o EncodeField(fields[k + 1], msg)
    BY <1>2, <2>2
  <2>4. EncodeField(fields[k + 1], msg) \in Seq(E)
    BY <1>3, <2>2
  <2> QED BY <2>2, <2>3, <2>4, ConcatProperties
<1> HIDE DEF S
<1>6. n \in S
  BY <1>4, <1>5, NaturalsAreReached
<1>7. W(n) \in Seq(E)
  BY <1>6 DEF S, fields
<1> QED BY <1>7, LenProperties DEF W, E

Begins(s, t) == Len(s) <= Len(t) /\ \A q \in 1 .. Len(s) : t[q] = s[q]

\* What is written stays in its place.
LEMMA WrittenStays ==
    ASSUME TablesAreSound, NEW type, NEW msg, IsMessage(type, msg),
           NEW i \in 0 .. Len(FieldsOf(type)), NEW n \in 0 .. Len(FieldsOf(type)), i <= n
    PROVE  Begins(Written(type, msg)[i], Written(type, msg)[n])
<1> DEFINE fields == FieldsOf(type)
           E == EntriesOf(type, msg)
           W(j) == Written(type, msg)[j]
           Stays(k) == Begins(W(i), W(i + k))
           S == {k \in Nat : i + k <= Len(fields) => Stays(k)}
<1>1. Len(fields) \in Nat /\ DOMAIN fields = 1 .. Len(fields)
  BY FieldsAreDistinct DEF IsMessage
<1>2. \A j \in 1 .. Len(fields) : W(j) = W(j - 1) \o EncodeField(fields[j], msg)
  BY <1>1, WrittenFieldByField
<1>3. \A j \in 0 .. Len(fields) : W(j) \in Seq(E) /\ Len(W(j)) \in Nat
  BY WrittenIsList
<1>4. \A j \in 1 .. Len(fields) : EncodeField(fields[j], msg) \in Seq(E)
  <2>1. ASSUME NEW j \in 1 .. Len(fields) PROVE fields[j] \in Range(fields)
    BY <1>1 DEF Range
  <2> QED BY <2>1, FieldIsList
<1>5. i \in Nat /\ i \in 0 .. Len(fields)
  BY <1>1
<1> HIDE DEF fields, E, W
<1>6. 0 \in S
  <2>1. i + 0 = i
    BY <1>5
  <2> QED BY <1>3, <1>5, <2>1 DEF Begins
<1>7. ASSUME NEW k \in Nat, k \in S PROVE k + 1 \in S
  <2>1. SUFFICES ASSUME i + (k + 1) <= Len(fields) PROVE Stays(k + 1)
    OBVIOUS
  <2>2. /\ i + (k + 1) \in 1 .. Len(fields) /\ i + k \in 0 .. Len(fields)
        /\ i + (k + 1) - 1 = i + k /\ Stays(k)
    BY <1>1, <1>5, <1>7, <2>1
  <2> DEFINE old == W(i + k)
             new == W(i + (k + 1))
             part == EncodeField(fields[i + (k + 1)], msg)
  <2>3. new = old \o part
    BY <1>2, <2>2
  <2>4. old \in Seq(E) /\ part \in Seq(E) /\ Len(old) \in Nat /\ Len(part) \in Nat
    BY <1>3, <1>4, <2>2, LenProperties
  <2> HIDE DEF old, new, part
  <2>5. /\ Len(new) = Len(old) + Len(part)
        /\ \A q \in 1 .. Len(old) + Len(part) : new[q] = IF q <= Len(old) THEN old[q] ELSE part[q - Len(old)]
    BY <2>3, <2>4, ConcatProperties
  <2>6. Len(W(i)) <= Len(old) /\ \A q \in 1 .. Len(W(i)) : old[q] = W(i)[q]
    BY <2>2 DEF old, Begins
  <2>7. Len(W(i)) \in Nat
    BY <1>3, <1>5
  <2>8. Len(W(i)) <= Len(new)
    BY <2>4, <2>5, <2>6, <2>7
  <2>9. ASSUME NEW q \in 1 .. Len(W(i)) PROVE new[q] = W(i)[q]
    <3>1. q \in 1 .. Len(old) + Len(part) /\ q <= Len(old)
      BY <2>4, <2>6, <2>7
    <3> QED BY <2>5, <2>6, <3>1
  <2> QED BY <2>8, <2>9 DEF new, Begins
<1> HIDE DEF S
<1>8. PICK d \in Nat : i + d = n
  <2>1. n - i \in Nat /\ i + (n - i) = n
    BY <1>1, <1>5
  <2> QED BY <2>1
<1>9. d \in S
  BY <1>6, <1>7, NaturalsAreReached
<1>10. Stays(d)
  BY <1>8, <1>9 DEF S, fields
<1> QED BY <1>8, <1>10 DEF W

\* After the entries of the first fields the object holds them.
LEMMA FieldsAreRead ==
    ASSUME TablesAreSound, NestedIsReadBack,
           NEW type, NEW msg, IsMessage(type, msg), Writable(type, msg),
           NEW n \in 0 .. Len(FieldsOf(type))
    PROVE  ReadObject(type, Encode(type, msg))[Len(Written(type, msg)[n])] = Filled(type, msg, n)
<1> DEFINE fields == FieldsOf(type)
           W(i) == Written(type, msg)[i]
           all == Encode(type, msg)
           g == ReadObject(type, all)
           Part(i) == EncodeField(fields[i], msg)
           E == EntriesOf(type, msg)
           S == {k \in Nat : k <= Len(fields) => g[Len(W(k))] = Filled(type, msg, k)}
<1>1. type \in DOMAIN Tables /\ Len(fields) \in Nat /\ DOMAIN fields = 1 .. Len(fields)
  BY FieldsAreDistinct DEF IsMessage
<1>2. /\ all = W(Len(fields)) /\ W(0) = <<>>
      /\ \A i \in 1 .. Len(fields) : W(i) = W(i - 1) \o Part(i)
  BY <1>1, WrittenFieldByField
<1>3. \A j \in 0 .. Len(fields) : W(j) \in Seq(E) /\ Len(W(j)) \in Nat
  BY WrittenIsList
<1>4. \A j \in 1 .. Len(fields) : Part(j) \in Seq(E)
  <2>1. ASSUME NEW j \in 1 .. Len(fields) PROVE fields[j] \in Range(fields)
    BY <1>1 DEF Range
  <2> QED BY <2>1, FieldIsList
<1>5. Len(all) \in Nat
  BY <1>1, <1>2, <1>3
<1>6. g[0] = Base(type) /\ \A q \in 1 .. Len(all) : g[q] = DecodeEntry(type, g[q - 1], all[q])
  BY <1>5, ReadEntryByEntry
<1>7. \A j \in 0 .. Len(fields) : /\ Len(W(j)) <= Len(all)
                                  /\ \A q \in 1 .. Len(W(j)) : all[q] = W(j)[q]
  <2>1. ASSUME NEW j \in 0 .. Len(fields)
        PROVE  Len(W(j)) <= Len(all) /\ \A q \in 1 .. Len(W(j)) : all[q] = W(j)[q]
    <3>1. Len(fields) \in 0 .. Len(fields) /\ j <= Len(fields)
      BY <1>1
    <3>2. Begins(W(j), W(Len(fields)))
      BY <3>1, WrittenStays
    <3> QED BY <1>2, <3>2 DEF Begins
  <2> QED BY <2>1
<1> HIDE DEF all, g, W, E
<1>8. 0 \in S
  BY <1>2, <1>6, NothingFilled, EmptySeq
<1>9. ASSUME NEW k \in Nat, k \in S PROVE k + 1 \in S
  <2>1. SUFFICES ASSUME k + 1 <= Len(fields) PROVE g[Len(W(k + 1))] = Filled(type, msg, k + 1)
    OBVIOUS
  <2>2. /\ k + 1 \in 1 .. Len(fields) /\ k \in 0 .. Len(fields) /\ k + 1 \in 0 .. Len(fields)
        /\ (k + 1) - 1 = k /\ g[Len(W(k))] = Filled(type, msg, k)
    BY <1>1, <1>9, <2>1
  <2> DEFINE start == Len(W(k))
             part == Part(k + 1)
  <2>3. start \in Nat /\ part \in Seq(E) /\ Len(part) \in Nat
    BY <1>3, <1>4, <2>2, LenProperties
  <2>4. /\ Len(W(k + 1)) = start + Len(part)
        /\ \A q \in 1 .. Len(part) : W(k + 1)[start + q] = part[q]
    <3>1. W(k + 1) = W(k) \o part
      BY <1>2, <2>2
    <3>2. W(k) \in Seq(E)
      BY <1>3, <2>2
    <3> HIDE DEF part
    <3>3. /\ Len(W(k + 1)) = start + Len(part)
          /\ \A q \in 1 .. start + Len(part) : W(k + 1)[q] = IF q <= start THEN W(k)[q] ELSE part[q - start]
      BY <2>3, <3>1, <3>2, ConcatProperties
    <3> HIDE DEF start
    <3>4. ASSUME NEW q \in 1 .. Len(part) PROVE W(k + 1)[start + q] = part[q]
      <4>1. start + q \in 1 .. start + Len(part) /\ ~(start + q <= start) /\ start + q - start = q
        BY <2>3
      <4>2. PICK r \in 1 .. start + Len(part) : r = start + q
        BY <4>1
      <4>3. W(k + 1)[r] = IF r <= start THEN W(k)[r] ELSE part[r - start]
        BY <3>3
      <4> QED BY <2>3, <4>1, <4>2, <4>3
    <3> QED BY <3>3, <3>4
  <2> HIDE DEF start, part
  <2>5. ASSUME NEW q \in 1 .. Len(part)
        PROVE  g[start + q] = DecodeEntry(type, g[start + q - 1], part[q])
    <3>1. start + q \in 1 .. Len(W(k + 1)) /\ Len(W(k + 1)) <= Len(all) /\ Len(W(k + 1)) \in Nat
      BY <1>3, <1>7, <2>2, <2>3, <2>4
    <3>2. start + q \in 1 .. Len(all)
      BY <1>5, <3>1
    <3>3. all[start + q] = part[q]
      BY <1>7, <2>2, <2>4, <3>1
    <3>4. PICK r \in 1 .. Len(all) : r = start + q
      BY <3>2
    <3>5. g[r] = DecodeEntry(type, g[r - 1], all[r])
      BY <1>6
    <3> QED BY <2>3, <3>3, <3>4, <3>5
  <2>6. ReadsPart(type, g, start, part)
    BY <2>5 DEF ReadsPart
  <2>7. g[start] = Filled(type, msg, (k + 1) - 1)
    BY <2>2 DEF start
  <2>8. g[start + Len(part)] = Filled(type, msg, k + 1)
    BY <2>2, <2>3, <2>6, <2>7, FieldIsRead DEF part
  <2> QED BY <2>4, <2>8
<1> HIDE DEF S
<1>10. n \in S
  BY <1>8, <1>9, NaturalsAreReached
<1> QED BY <1>10 DEF S, fields, g, all, W

\* A message that nests messages that are read back is read back.
THEOREM MessageIsReadBack ==
    ASSUME TablesAreSound, NestedIsReadBack
    PROVE  \A type, msg : IsMessage(type, msg) /\ Writable(type, msg) =>
              Decode(type, Encode(type, msg)) = msg
<1>1. SUFFICES ASSUME NEW type, NEW msg, IsMessage(type, msg), Writable(type, msg)
      PROVE  Decode(type, Encode(type, msg)) = msg
  OBVIOUS
<1> DEFINE n == Len(FieldsOf(type))
<1>2. n \in Nat
  BY FieldsAreDistinct DEF IsMessage
<1>3. Encode(type, msg) = Written(type, msg)[n]
  BY <1>2, WrittenFieldByField
<1>4. Len(Encode(type, msg)) \in Nat
  BY <1>2, <1>3, WrittenIsList
<1>5. Decode(type, Encode(type, msg)) = ReadObject(type, Encode(type, msg))[Len(Written(type, msg)[n])]
  BY <1>3, <1>4, ReadEntryByEntry
<1>6. n \in 0 .. Len(FieldsOf(type))
  BY <1>2
<1>7. Decode(type, Encode(type, msg)) = Filled(type, msg, n)
  BY <1>1, <1>5, <1>6, FieldsAreRead
<1> QED BY <1>1, <1>7, AllFilled

-----------------------------------------------------------------------------
(* An entry no field answers changes nothing, wherever it stands. *)

Inserted(s, at, e, t) ==
    /\ Len(t) = Len(s) + 1
    /\ \A i \in 1 .. Len(s) + 1 : t[i] = IF i < at THEN s[i] ELSE IF i = at THEN e ELSE s[i - 1]

LEMMA InsertedEntry ==
    ASSUME NEW E, NEW s \in Seq(E), NEW at \in 1 .. Len(s) + 1, NEW e
    PROVE  Inserted(s, at, e, InsertAt(s, at, e))
<1> DEFINE T == E \cup {e}
           n == Len(s)
           a == SubSeq(s, 1, at - 1)
           b == SubSeq(s, at, n)
           c == a \o <<e>>
<1>1. n \in Nat /\ s \in Seq(T) /\ <<e>> \in Seq(T) /\ \A i \in 1 .. n : s[i] \in T
  <2>1. s \in Seq(T)
    BY SeqMonotonic
  <2> QED BY <2>1, LenProperties, ElementOfSeq
<1>2. at \in Nat /\ at >= 1 /\ at <= n + 1
  BY <1>1
<1> HIDE DEF T, n
<1>3. /\ a \in Seq(T) /\ Len(a) = at - 1
      /\ \A i \in 1 .. at - 1 : a[i] = s[i]
  <2>1. \A i \in 1 .. at - 1 : s[i] \in T
    BY <1>1, <1>2
  <2>2. /\ a \in Seq(T) /\ Len(a) = (IF 1 <= at - 1 THEN at - 1 - 1 + 1 ELSE 0)
        /\ \A i \in 1 .. at - 1 - 1 + 1 : a[i] = s[1 + i - 1]
    BY <1>2, <2>1, SubSeqProperties
  <2> HIDE DEF a
  <2>3. \A i \in 1 .. at - 1 : 1 + i - 1 = i /\ i \in 1 .. at - 1 - 1 + 1
    BY <1>2
  <2> QED BY <1>2, <2>2, <2>3
<1>4. /\ b \in Seq(T) /\ Len(b) = n - at + 1
      /\ \A i \in 1 .. n - at + 1 : b[i] = s[at + i - 1]
  <2>1. \A i \in at .. n : s[i] \in T
    BY <1>1, <1>2
  <2>2. /\ b \in Seq(T) /\ Len(b) = (IF at <= n THEN n - at + 1 ELSE 0)
        /\ \A i \in 1 .. n - at + 1 : b[i] = s[at + i - 1]
    BY <1>1, <1>2, <2>1, SubSeqProperties
  <2> HIDE DEF b
  <2> QED BY <1>1, <1>2, <2>2
<1> HIDE DEF a, b
<1>5. /\ c \in Seq(T) /\ Len(c) = at
      /\ \A i \in 1 .. at : c[i] = IF i < at THEN s[i] ELSE e
  <2>1. Len(<<e>>) = 1 /\ <<e>>[1] = e
    OBVIOUS
  <2>2. /\ c \in Seq(T) /\ Len(c) = (at - 1) + 1
        /\ \A i \in 1 .. (at - 1) + 1 : c[i] = IF i <= at - 1 THEN a[i] ELSE <<e>>[i - (at - 1)]
    BY <1>1, <1>3, <2>1, ConcatProperties
  <2> HIDE DEF c
  <2>3. ASSUME NEW i \in 1 .. at PROVE c[i] = IF i < at THEN s[i] ELSE e
    <3>1. c[i] = IF i <= at - 1 THEN a[i] ELSE <<e>>[i - (at - 1)]
      BY <1>2, <2>2
    <3>2. CASE i < at
      <4>1. i \in 1 .. at - 1 /\ i <= at - 1
        BY <1>2, <3>2
      <4> QED BY <1>3, <3>1, <3>2, <4>1
    <3>3. CASE ~(i < at)
      <4>1. ~(i <= at - 1) /\ i - (at - 1) = 1
        BY <1>2, <3>3
      <4> QED BY <2>1, <3>1, <3>3, <4>1
    <3> QED BY <3>2, <3>3
  <2> QED BY <1>2, <2>2, <2>3
<1> HIDE DEF c
<1> DEFINE t == c \o b
<1>6. /\ Len(t) = n + 1
      /\ \A i \in 1 .. n + 1 : t[i] = IF i <= at THEN c[i] ELSE b[i - at]
  <2>1. /\ Len(t) = at + (n - at + 1)
        /\ \A i \in 1 .. at + (n - at + 1) : t[i] = IF i <= at THEN c[i] ELSE b[i - at]
    <3>1. /\ Len(c \o b) = Len(c) + Len(b)
          /\ \A i \in 1 .. Len(c) + Len(b) : (c \o b)[i] = IF i <= Len(c) THEN c[i] ELSE b[i - Len(c)]
      BY <1>4, <1>5, ConcatProperties
    <3>2. Len(c) = at /\ Len(b) = n - at + 1
      BY <1>4, <1>5
    <3> QED BY <3>1, <3>2
  <2> HIDE DEF t
  <2>2. at + (n - at + 1) = n + 1
    BY <1>1, <1>2
  <2> QED BY <2>1, <2>2
<1>7. InsertAt(s, at, e) = t
  BY DEF InsertAt, a, b, c, n
<1> HIDE DEF t
<1>8. ASSUME NEW i \in 1 .. n + 1
      PROVE  t[i] = IF i < at THEN s[i] ELSE IF i = at THEN e ELSE s[i - 1]
  <2>1. CASE i <= at
    <3>1. i \in 1 .. at
      BY <1>1, <1>2, <2>1
    <3>2. t[i] = IF i < at THEN s[i] ELSE e
      BY <1>5, <1>6, <2>1, <3>1
    <3> QED BY <1>1, <1>2, <2>1, <3>2
  <2>2. CASE ~(i <= at)
    <3>1. i - at \in 1 .. n - at + 1 /\ at + (i - at) - 1 = i - 1
      BY <1>1, <1>2, <2>2
    <3>2. b[i - at] = s[at + (i - at) - 1]
      BY <1>4, <3>1
    <3>3. t[i] = b[i - at]
      BY <1>6, <2>2
    <3> QED BY <1>1, <1>2, <2>2, <3>1, <3>2, <3>3
  <2> QED BY <2>1, <2>2
<1> QED BY <1>6, <1>7, <1>8 DEF Inserted, n

LEMMA UnansweredIsSkipped ==
    ASSUME NEW type, NEW E, NEW s \in Seq(E), NEW at \in 1 .. Len(s) + 1, NEW e,
           \A fd \in Range(FieldsOf(type)) : ~Answers(fd, e)
    PROVE  Decode(type, InsertAt(s, at, e)) = Decode(type, s)
<1> DEFINE n == Len(s)
           t == InsertAt(s, at, e)
           g == ReadObject(type, s)
           h == ReadObject(type, t)
           S == {k \in Nat : k <= n + 1 => h[k] = IF k < at THEN g[k] ELSE g[k - 1]}
<1>1. n \in Nat /\ at \in Nat /\ at >= 1 /\ at <= n + 1
  BY LenProperties
<1>2. Inserted(s, at, e, t)
  BY InsertedEntry
<1> HIDE DEF t
<1>3. Len(t) = n + 1 /\ Len(t) \in Nat
  BY <1>1, <1>2 DEF Inserted
<1>4. /\ Decode(type, s) = g[n] /\ g[0] = Base(type)
      /\ \A i \in 1 .. n : g[i] = DecodeEntry(type, g[i - 1], s[i])
  BY <1>1, ReadEntryByEntry
<1>5. /\ Decode(type, t) = h[n + 1] /\ h[0] = Base(type)
      /\ \A i \in 1 .. n + 1 : h[i] = DecodeEntry(type, h[i - 1], t[i])
  BY <1>3, ReadEntryByEntry
<1>6. \A i \in 1 .. n + 1 : t[i] = IF i < at THEN s[i] ELSE IF i = at THEN e ELSE s[i - 1]
  BY <1>2 DEF Inserted
<1>7. \A obj : DecodeEntry(type, obj, e) = obj
  BY DEF DecodeEntry
<1> HIDE DEF g, h, n
<1>8. 0 \in S
  BY <1>1, <1>4, <1>5
<1>9. ASSUME NEW k \in Nat, k \in S PROVE k + 1 \in S
  <2>1. SUFFICES ASSUME k + 1 <= n + 1
        PROVE  h[k + 1] = IF k + 1 < at THEN g[k + 1] ELSE g[k + 1 - 1]
    OBVIOUS
  <2>2. PICK r \in 1 .. n + 1 : r = k + 1 /\ r - 1 = k
    BY <1>1, <2>1
  <2>3. h[r] = DecodeEntry(type, h[k], t[r])
    BY <1>5, <2>2
  <2>4. h[k] = IF k < at THEN g[k] ELSE g[k - 1]
    BY <1>1, <1>9, <2>1
  <2>5. CASE r < at
    <3>1. k < at /\ r \in 1 .. n
      BY <1>1, <2>2, <2>5
    <3>2. t[r] = s[r]
      BY <1>6, <2>5
    <3>3. g[r] = DecodeEntry(type, g[k], s[r])
      BY <1>4, <2>2, <3>1
    <3>4. h[r] = g[r]
      BY <2>3, <2>4, <3>1, <3>2, <3>3
    <3> QED BY <2>2, <2>5, <3>4
  <2>6. CASE r = at
    <3>1. k < at /\ ~(r < at)
      BY <1>1, <2>2, <2>6
    <3>2. t[r] = e
      BY <1>6, <2>6, <3>1
    <3>3. h[r] = g[k]
      BY <1>7, <2>3, <2>4, <3>1, <3>2
    <3> QED BY <2>2, <3>1, <3>3
  <2>7. CASE r > at
    <3>1. ~(k < at) /\ ~(r < at) /\ r # at /\ k \in 1 .. n
      BY <1>1, <2>2, <2>7
    <3>2. t[r] = s[k]
      BY <1>6, <2>2, <3>1
    <3>3. g[k] = DecodeEntry(type, g[k - 1], s[k])
      BY <1>4, <3>1
    <3>4. h[r] = g[k]
      BY <2>3, <2>4, <3>1, <3>2, <3>3
    <3> QED BY <2>2, <3>1, <3>4
  <2> QED BY <1>1, <2>2, <2>5, <2>6, <2>7
<1> HIDE DEF S
<1>10. n + 1 \in S
  BY <1>1, <1>8, <1>9, NaturalsAreReached
<1>11. h[n + 1] = g[n + 1 - 1] /\ n + 1 - 1 = n
  BY <1>1, <1>10 DEF S
<1> QED BY <1>4, <1>5, <1>11 DEF t

\* What is written is a list.
LEMMA EncodeIsList ==
    ASSUME TablesAreSound
    PROVE  \A type, msg : IsMessage(type, msg) =>
              /\ Encode(type, msg) \in Seq(EntriesOf(type, msg))
              /\ Len(Encode(type, msg)) \in Nat
<1>1. SUFFICES ASSUME NEW type, NEW msg, IsMessage(type, msg)
      PROVE  /\ Encode(type, msg) \in Seq(EntriesOf(type, msg))
             /\ Len(Encode(type, msg)) \in Nat
  OBVIOUS
<1> DEFINE n == Len(FieldsOf(type))
<1>2. n \in 0 .. Len(FieldsOf(type)) /\ n \in Nat
  BY <1>1, FieldsAreDistinct DEF IsMessage
<1>3. Encode(type, msg) = Written(type, msg)[n]
  BY <1>2, WrittenFieldByField
<1> QED BY <1>1, <1>2, <1>3, WrittenIsList

\* So what a newer peer writes besides is skipped: four bytes wide is no kind of
\* field.
THEOREM NewerIsSkipped ==
    ASSUME TablesAreSound, NestedIsReadBack
    PROVE  \A type, msg, at, e :
              /\ IsMessage(type, msg) /\ Writable(type, msg)
              /\ at \in 1 .. Len(Encode(type, msg)) + 1 /\ e.w = 5
              => Decode(type, InsertAt(Encode(type, msg), at, e)) = msg
<1>1. SUFFICES ASSUME NEW type, NEW msg, IsMessage(type, msg), Writable(type, msg),
                      NEW e, e.w = 5, NEW at \in 1 .. Len(Encode(type, msg)) + 1
      PROVE  Decode(type, InsertAt(Encode(type, msg), at, e)) = msg
  OBVIOUS
<1>2. Encode(type, msg) \in Seq(EntriesOf(type, msg))
  BY <1>1, EncodeIsList
<1>3. \A fd \in Range(FieldsOf(type)) : ~Answers(fd, e)
  BY <1>1 DEF Answers, WireType
<1>4. Decode(type, InsertAt(Encode(type, msg), at, e)) = Decode(type, Encode(type, msg))
  BY <1>1, <1>2, <1>3, UnansweredIsSkipped
<1> QED BY <1>1, <1>4, MessageIsReadBack

-----------------------------------------------------------------------------
(* What the writer fills in makes a message. *)

\* What is nested is a message.
NestedFits ==
    \A type : NestedIsType(type) =>
        /\ NestedIsMessage(type, Base(type))
        /\ \A depth : \A msg \in NestedSamples(type, depth) : NestedIsMessage(type, msg)

\* What the object holds in one field.
Fits(type, fd, msg) ==
    /\ \A v \in Held(fd, msg) : IsValue(fd.k, v)
    /\ fd.as \in {"may", "many", "packed"} => msg[fd.f] \in Seq(Range(msg[fd.f]))
    /\ fd.as = "may" => Len(msg[fd.f]) <= 1
    /\ fd.as = "case" /\ msg.union # Undefined =>
          \E case \in Range(FieldsOf(type)) :
              case.as = "case" /\ msg.union = <<case.f, msg.union[2]>>

LEMMA MessageFits ==
    ASSUME NEW type, NEW msg
    PROVE  IsMessage(type, msg) <=>
              /\ type \in DOMAIN Tables
              /\ msg = [s \in Slots(type) |-> msg[s]]
              /\ \A fd \in Range(FieldsOf(type)) : Fits(type, fd, msg)
BY DEF IsMessage, Fits

LEMMA BaseIsMessage ==
    ASSUME TablesAreSound, NEW type, IsType(type) PROVE IsMessage(type, Base(type))
<1> DEFINE base == Base(type)
<1>1. type \in DOMAIN Tables
  BY DEF IsType
<1>2. base = [s \in Slots(type) |-> base[s]]
  BY DEF Base
<1>3. ASSUME NEW fd \in Range(FieldsOf(type)) PROVE Fits(type, fd, base)
  <2>1. /\ fd.as \in {"one", "may", "many", "packed", "case"}
        /\ fd.as = "one" => fd.k \in Scalars
    BY <1>1, FieldShape
  <2>2. /\ fd.as = "one" => base[Slot(fd)] = 0
        /\ fd.as # "one" => base[Slot(fd)] = <<>>
    BY <1>1, BaseHolds DEF Undefined
  <2> HIDE DEF base
  <2>3. CASE fd.as = "one"
    BY <2>1, <2>2, <2>3 DEF Fits, Held, IsValue, ScalarsOf, Slot
  <2>4. CASE fd.as \in {"may", "many", "packed"}
    <3>1. base[fd.f] = <<>>
      BY <2>2, <2>4 DEF Slot
    <3>2. Range(<<>>) = {} /\ <<>> \in Seq(Range(<<>>)) /\ Len(<<>>) = 0
      BY EmptySeq DEF Range
    <3>3. Held(fd, base) = {}
      BY <2>4, <3>1, <3>2 DEF Held
    <3> QED BY <2>4, <3>1, <3>2, <3>3 DEF Fits
  <2>5. CASE fd.as = "case"
    <3>1. base.union = Undefined
      BY <2>2, <2>5 DEF Slot, Undefined
    <3> QED BY <2>5, <3>1 DEF Fits, Held
  <2> QED BY <2>1, <2>3, <2>4, <2>5
<1> QED BY <1>1, <1>2, <1>3, MessageFits

\* A value to fill in is of the field's kind.
LEMMA FillingFits ==
    ASSUME TablesAreSound, NestedFits, NEW type, IsType(type), NEW fd \in Range(FieldsOf(type)),
           NEW depth, NEW v \in Fillings(fd, depth)
    PROVE  /\ fd.as = "one" => IsValue(fd.k, v)
           /\ fd.as = "may" => \E x : v = <<x>> /\ IsValue(fd.k, x)
           /\ fd.as \in {"many", "packed"} =>
                 \E x, y : v = <<x, y>> /\ IsValue(fd.k, x) /\ IsValue(fd.k, y)
           /\ fd.as = "case" => \E x : v = <<fd.f, x>> /\ IsValue(fd.k, x)
<1> DEFINE held == IF fd.k \in Scalars THEN ScalarsOf(fd.k) ELSE NestedSamples(fd.k, depth)
           other == IF fd.k \in Scalars THEN 0 ELSE Base(fd.k)
<1>1. fd.k \in Scalars \/ NestedIsType(fd.k)
  BY DEF IsType
<1>2. \A x \in held : IsValue(fd.k, x)
  BY <1>1 DEF IsValue, NestedFits
<1>3. IsValue(fd.k, other)
  BY <1>1 DEF IsValue, NestedFits, ScalarsOf
<1>4. /\ fd.as = "one" => v \in held
      /\ fd.as = "may" => \E x \in held : v = <<x>>
      /\ fd.as \in {"many", "packed"} => \E x \in held : v = <<x, other>>
      /\ fd.as = "case" => \E x \in held : v = <<fd.f, x>>
  <2>1. PICK x \in held : v = Filling(fd, x)
    BY DEF Fillings
  <2> HIDE DEF held
  <2>2. /\ fd.as = "one" => v = x
        /\ fd.as = "may" => v = <<x>>
        /\ fd.as \in {"many", "packed"} => v = <<x, other>>
        /\ fd.as = "case" => v = <<fd.f, x>>
    BY <2>1 DEF Filling
  <2> QED BY <2>2
<1> HIDE DEF held, other
<1>5. CASE fd.as = "one"
  BY <1>2, <1>4, <1>5
<1>6. CASE fd.as = "may"
  BY <1>2, <1>4, <1>6
<1>7. CASE fd.as \in {"many", "packed"}
  BY <1>2, <1>3, <1>4, <1>7
<1>8. CASE fd.as = "case"
  BY <1>2, <1>4, <1>8
<1> QED BY <1>5, <1>6, <1>7, <1>8

\* Filling in one more field leaves a message.
THEOREM PutFits ==
    ASSUME TablesAreSound, NestedFits
    PROVE  \A type, msg, fd, depth, v :
              /\ IsType(type) /\ IsMessage(type, msg)
              /\ fd \in Range(FieldsOf(type)) /\ v \in Fillings(fd, depth)
              => IsMessage(type, [msg EXCEPT ![Slot(fd)] = v])
<1>1. SUFFICES ASSUME NEW type, IsType(type), NEW msg, IsMessage(type, msg),
                      NEW fd \in Range(FieldsOf(type)), NEW depth, NEW v \in Fillings(fd, depth)
      PROVE  IsMessage(type, [msg EXCEPT ![Slot(fd)] = v])
  OBVIOUS
<1> DEFINE new == [msg EXCEPT ![Slot(fd)] = v]
<1>2. /\ type \in DOMAIN Tables /\ msg = [s \in Slots(type) |-> msg[s]]
      /\ \A gd \in Range(FieldsOf(type)) : Fits(type, gd, msg)
  BY <1>1, MessageFits
<1>3. Slot(fd) \in Slots(type)
  BY <1>2, FieldShape
<1>4. /\ new = [s \in Slots(type) |-> new[s]] /\ new[Slot(fd)] = v
      /\ \A s \in Slots(type) : s # Slot(fd) => new[s] = msg[s]
  <2>1. new = [s \in Slots(type) |-> IF s = Slot(fd) THEN v ELSE msg[s]]
    BY <1>2
  <2> HIDE DEF new
  <2> QED BY <1>3, <2>1
<1> HIDE DEF new
<1>5. ASSUME NEW gd \in Range(FieldsOf(type)) PROVE Fits(type, gd, new)
  <2>1. /\ gd.as \in {"one", "may", "many", "packed", "case"} /\ Slot(gd) \in Slots(type)
        /\ gd.as # "case" => Slot(gd) = gd.f
        /\ gd.as = "case" => Slot(gd) = "union"
    BY <1>2, FieldShape DEF Slot
  <2>2. CASE Slot(gd) # Slot(fd)
    <3>1. new[Slot(gd)] = msg[Slot(gd)]
      BY <1>4, <2>1, <2>2
    <3>2. Fits(type, gd, msg)
      BY <1>2
    <3>3. CASE gd.as = "case"
      <4>1. new.union = msg.union
        BY <2>1, <3>1, <3>3
      <4> QED BY <3>2, <3>3, <4>1 DEF Fits, Held
    <3>4. CASE gd.as # "case"
      <4>1. new[gd.f] = msg[gd.f]
        BY <2>1, <3>1, <3>4
      <4>2. Held(gd, new) = Held(gd, msg)
        BY <3>4, <4>1 DEF Held
      <4> QED BY <3>2, <3>4, <4>1, <4>2 DEF Fits
    <3> QED BY <3>3, <3>4
  <2>3. CASE Slot(gd) = Slot(fd) /\ fd.as # "case"
    <3>1. gd = fd
      BY <1>2, <2>3, SlotsAreShared
    <3>2. new[fd.f] = v
      BY <1>4, <2>3 DEF Slot
    <3>3. CASE fd.as = "one"
      <4>1. IsValue(fd.k, v)
        BY <3>3, <1>1, FillingFits
      <4>2. Held(fd, new) = {v}
        BY <3>2, <3>3 DEF Held
      <4> QED BY <3>1, <3>3, <4>1, <4>2 DEF Fits
    <3>4. CASE fd.as = "may"
      <4>1. PICK x : v = <<x>> /\ IsValue(fd.k, x)
        BY <3>4, <1>1, FillingFits
      <4>2. Range(v) = {x} /\ v \in Seq(Range(v)) /\ Len(v) = 1
        BY <4>1 DEF Range
      <4>3. Held(fd, new) = {x}
        BY <3>2, <3>4, <4>2 DEF Held
      <4> QED BY <3>1, <3>2, <3>4, <4>1, <4>2, <4>3 DEF Fits
    <3>5. CASE fd.as \in {"many", "packed"}
      <4>1. PICK x, y : v = <<x, y>> /\ IsValue(fd.k, x) /\ IsValue(fd.k, y)
        BY <3>5, <1>1, FillingFits
      <4>2. Range(v) = {x, y} /\ v \in Seq(Range(v))
        BY <4>1 DEF Range
      <4>3. Held(fd, new) = {x, y}
        BY <3>2, <3>5, <4>2 DEF Held
      <4> QED BY <3>1, <3>2, <3>5, <4>1, <4>2, <4>3 DEF Fits
    <3> QED BY <2>1, <2>3, <3>1, <3>3, <3>4, <3>5
  <2>4. CASE Slot(gd) = Slot(fd) /\ fd.as = "case"
    <3>1. gd.as = "case"
      BY <1>2, <2>4, SlotsAreShared
    <3>2. PICK x : v = <<fd.f, x>> /\ IsValue(fd.k, x)
      BY <2>4, <1>1, FillingFits
    <3>3. new.union = <<fd.f, x>>
      BY <1>4, <2>4, <3>2 DEF Slot
    <3>4. new.union[1] = fd.f /\ new.union[2] = x /\ new.union = <<fd.f, new.union[2]>>
      BY <3>3
    <3>5. \A y \in Held(gd, new) : y = x /\ gd = fd
      BY <1>2, <3>1, <3>4, FieldsAreDistinct DEF Held
    <3> QED BY <2>4, <3>1, <3>2, <3>4, <3>5 DEF Fits
  <2> QED BY <2>2, <2>3, <2>4
<1>6. IsMessage(type, new)
  BY <1>2, <1>4, <1>5, MessageFits
<1> QED BY <1>6 DEF new

\* So the messages of a depth that are tried are messages.
THEOREM SamplesFit ==
    ASSUME TablesAreSound, NestedFits
    PROVE  \A type : IsType(type) =>
              /\ IsMessage(type, Base(type))
              /\ \A depth : \A msg \in Samples(type, depth) : IsMessage(type, msg)
<1>1. ASSUME NEW type, IsType(type), NEW depth, NEW msg \in Samples(type, depth)
      PROVE  IsMessage(type, msg)
  <2>1. CASE msg = Base(type)
    BY <1>1, <2>1, BaseIsMessage
  <2>2. CASE msg # Base(type)
    <3>1. PICK fd \in Range(FieldsOf(type)) :
             \E v \in Fillings(fd, depth - 1) : msg = [Base(type) EXCEPT ![Slot(fd)] = v]
      BY <2>2 DEF Samples
    <3>2. PICK v \in Fillings(fd, depth - 1) : msg = [Base(type) EXCEPT ![Slot(fd)] = v]
      BY <3>1
    <3>3. IsMessage(type, Base(type))
      BY <1>1, BaseIsMessage
    <3> QED BY <1>1, <3>2, <3>3, PutFits
  <2> QED BY <2>1, <2>2
<1> QED BY <1>1, BaseIsMessage
===============================================================================
