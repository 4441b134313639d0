----------------------------- MODULE WireFields -----------------------------
(* The kinds of field a message of the web client's protocols has.  `n` is the
   field's number, `k` what it holds: a scalar, or a message by its name. *)
EXTENDS Integers

\* A scalar that is left out when it has its default.
One(f, n, k) == [f |-> f, n |-> n, k |-> k, as |-> "one"]

\* A field that may be undefined.
May(f, n, k) == [f |-> f, n |-> n, k |-> k, as |-> "may"]

\* A list, one entry per element; and a list of numbers in one entry.
Many(f, n, k) == [f |-> f, n |-> n, k |-> k, as |-> "many"]
Packed(f, n, k) == [f |-> f, n |-> n, k |-> k, as |-> "packed"]

\* One of the cases of the message's union.
Case(f, n, k) == [f |-> f, n |-> n, k |-> k, as |-> "case"]

BigInts == {"int64", "uint64"}
Varints == {"int32", "uint32", "sint32", "bool"} \cup BigInts
Scalars == Varints \cup {"double", "string", "bytes"}

\* How an entry of a kind is written: a varint, eight bytes, or a length and
\* that many bytes.
WireType(k) == IF k \in Varints THEN 0 ELSE IF k = "double" THEN 1 ELSE 2
=============================================================================
