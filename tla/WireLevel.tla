------------------------------ MODULE WireLevel ------------------------------
(* How the messages are written and read that nest others to some depth, given
   how those they nest are.  Every message has an encode, a decode and a create
   of the same shape, which this module states once over the table of fields. *)
EXTENDS WireFields, Sequences, SequencesExt, Functions

CONSTANTS Tables,           \* the fields of each message by its name
          Nested(_, _, _)   \* what the depth below says of the messages nested here

\* What it is asked: whether a type is nested here, what is a message of it and
\* which of them are tried, whether one can be written, and how it is written and
\* read.
NestedIsType(type) == Nested("type", type, "any")
NestedIsMessage(type, msg) == Nested("message", type, msg)
NestedSamples(type, depth) == Nested("samples", type, depth)
NestedWritable(type, msg) == Nested("writable", type, msg)
NestedEncode(type, msg) == Nested("encode", type, msg)
NestedDecode(type, entries) == Nested("decode", type, entries)

Wide == 2
Undefined == <<>>

\* The fields of a message of a type, and the slots of its object: the cases
\* of a union share one.
FieldsOf(type) == Tables[type]

Slot(fd) == IF fd.as = "case" THEN "union" ELSE fd.f
Slots(type) == {Slot(FieldsOf(type)[i]) : i \in DOMAIN FieldsOf(type)}

\* createBase: the defaults.
Base(type) ==
    [s \in Slots(type) |->
        IF \E fd \in Range(FieldsOf(type)) : fd.f = s /\ fd.as = "one" THEN 0 ELSE Undefined]

\* What the generated code relies on: the fields of a message are a list; no
\* two have a number or a name in common, and none is called like the union;
\* what has a default, and what is packed, is a scalar; what is not a scalar is
\* a message.
TablesAreSound ==
    \A type \in DOMAIN Tables :
        LET fields == FieldsOf(type) IN
        /\ fields \in Seq(Range(fields))
        /\ \A i, j \in DOMAIN fields :
              i # j => fields[i].n # fields[j].n /\ fields[i].f # fields[j].f
        /\ \A i \in DOMAIN fields :
              /\ fields[i].as \in {"one", "may", "many", "packed", "case"}
              /\ fields[i].as \in {"one", "packed"} => fields[i].k \in Scalars
              /\ fields[i].k \in Scalars \cup DOMAIN Tables
              /\ fields[i].f # "union"

\* The messages of this depth.
IsType(type) ==
    /\ type \in DOMAIN Tables
    /\ \A fd \in Range(FieldsOf(type)) : fd.k \in Scalars \/ NestedIsType(fd.k)

\* What a message holds in a field.
Held(fd, msg) ==
    CASE fd.as = "one" -> {msg[fd.f]}
      [] fd.as = "case" -> IF msg.union # Undefined /\ msg.union[1] = fd.f
                           THEN {msg.union[2]} ELSE {}
      [] OTHER -> Range(msg[fd.f])

ScalarsOf(kind) == {0, 1} \cup (IF kind \in BigInts THEN {Wide} ELSE {})

IsValue(kind, v) ==
    IF kind \in Scalars THEN v \in ScalarsOf(kind)
    ELSE NestedIsMessage(kind, v)

\* An object of a type: what it holds in a field is of the field's kind.
IsMessage(type, msg) ==
    /\ type \in DOMAIN Tables
    /\ msg = [s \in Slots(type) |-> msg[s]]
    /\ \A fd \in Range(FieldsOf(type)) :
          /\ \A v \in Held(fd, msg) : IsValue(fd.k, v)
          /\ fd.as \in {"may", "many", "packed"} => msg[fd.f] \in Seq(Range(msg[fd.f]))
          /\ fd.as = "may" => Len(msg[fd.f]) <= 1
          /\ fd.as = "case" /\ msg.union # Undefined =>
                \E case \in Range(FieldsOf(type)) :
                    case.as = "case" /\ msg.union = <<case.f, msg.union[2]>>

\* What an object may hold in a field, to a depth: a value in the way of the
\* field, in a list with a default behind it.
Filling(fd, v) ==
    CASE fd.as = "one" -> v
      [] fd.as = "may" -> <<v>>
      [] fd.as \in {"many", "packed"} -> <<v, IF fd.k \in Scalars THEN 0 ELSE Base(fd.k)>>
      [] fd.as = "case" -> <<fd.f, v>>

Fillings(fd, depth) ==
    {Filling(fd, v) : v \in IF fd.k \in Scalars THEN ScalarsOf(fd.k) ELSE NestedSamples(fd.k, depth)}

Samples(type, depth) ==
    {Base(type)} \cup
    IF depth = 0 THEN {}
    ELSE UNION {{[Base(type) EXCEPT ![Slot(fd)] = v] : v \in Fillings(fd, depth - 1)}
                : fd \in Range(FieldsOf(type))}
-----------------------------------------------------------------------------
(* Writing. *)

\* A bigint is refused when it does not fit.
Writable(type, msg) ==
    \A fd \in Range(FieldsOf(type)) : \A v \in Held(fd, msg) :
        IF fd.k \in Scalars THEN v # Wide ELSE NestedWritable(fd.k, v)

Entry(fd, v) ==
    [n |-> fd.n, w |-> WireType(fd.k),
     v |-> IF fd.k \in Scalars THEN v % Wide ELSE NestedEncode(fd.k, v)]

\* Mutant: a case that holds its default is left out like any other scalar.
ValuesNoDefaults(fd, msg) ==
    CASE fd.as = "one" -> IF msg[fd.f] = 0 THEN <<>> ELSE <<msg[fd.f]>>
      [] fd.as = "case" -> IF msg.union # Undefined /\ msg.union[1] = fd.f
                              /\ (fd.k \in Scalars => msg.union[2] # 0)
                           THEN <<msg.union[2]>> ELSE <<>>
      [] OTHER -> msg[fd.f]

\* What is written of a field, element by element: not a plain scalar that has
\* its default, but a case whatever it holds.
Values(fd, msg) ==
    CASE fd.as = "one" -> IF msg[fd.f] = 0 THEN <<>> ELSE <<msg[fd.f]>>
      [] fd.as = "case" -> IF msg.union # Undefined /\ msg.union[1] = fd.f
                           THEN <<msg.union[2]>> ELSE <<>>
      [] OTHER -> msg[fd.f]

\* An entry each; a packed list is one entry, even when it is empty.
EncodeField(fd, msg) ==
    IF fd.as = "packed" THEN <<[n |-> fd.n, w |-> 2, v |-> msg[fd.f]]>>
    ELSE LET values == Values(fd, msg)
         IN [i \in DOMAIN values |-> Entry(fd, values[i])]

\* The fields are written one after the other.
Encode(type, msg) ==
    LET fields == FieldsOf(type)
        written[i \in 0 .. Len(fields)] ==
            IF i = 0 THEN <<>> ELSE written[i - 1] \o EncodeField(fields[i], msg)
    IN written[Len(fields)]
-----------------------------------------------------------------------------
(* Reading. *)

\* A tag is a number and a wire type; a packed list may also come element by
\* element.
Answers(fd, e) ==
    /\ fd.n = e.n
    /\ e.w = WireType(fd.k) \/ (fd.as = "packed" /\ e.w = 2)

\* What a field holds after an entry: a later one replaces an earlier one,
\* whatever case of the union it is, and a list grows.
Kept(fd, e, old, v) ==
    CASE fd.as = "one" -> v
      [] fd.as = "may" -> <<v>>
      [] fd.as = "case" -> <<fd.f, v>>
      [] fd.as = "packed" /\ e.w = 2 -> old \o v
      [] OTHER -> Append(old, v)

\* An entry whose tag is unknown is skipped.
DecodeEntry(type, msg, e) ==
    IF \E fd \in Range(FieldsOf(type)) : Answers(fd, e)
    THEN LET fd == CHOOSE fd \in Range(FieldsOf(type)) : Answers(fd, e)
         IN [msg EXCEPT ![Slot(fd)] =
                Kept(fd, e, @, IF fd.k \in Scalars THEN e.v ELSE NestedDecode(fd.k, e.v))]
    ELSE msg

\* The entries are read one after the other, into an object of defaults.
Decode(type, entries) ==
    LET read[i \in 0 .. Len(entries)] ==
            IF i = 0 THEN Base(type) ELSE DecodeEntry(type, read[i - 1], entries[i])
    IN read[Len(entries)]
-----------------------------------------------------------------------------
\* What this depth answers the one above it.
Says(question, type, about) ==
    CASE question = "type" -> IsType(type)
      [] question = "message" -> IsMessage(type, about)
      [] question = "samples" -> Samples(type, about)
      [] question = "writable" -> Writable(type, about)
      [] question = "encode" -> Encode(type, about)
      [] question = "decode" -> Decode(type, about)
=============================================================================
