------------------------------ MODULE PageProofs ------------------------------
(***************************************************************************)
(* The features of the web client's page, each by itself.  Whatever the    *)
(* number of files and of their blocks, and whoever stops the transfer     *)
(* when: the loop of an upload never waits for what is not on its way, and *)
(* what the file panel reports as sent or as received is there in full.    *)
(* In a voice call the microphone is open for the call alone, and what the *)
(* page shows of the call is what its session has come to, once their      *)
(* messages have arrived.  A device left behind is released, for any       *)
(* implementations of privacy mode and any number of commands on their     *)
(* way.  Over a restart of the device the page is never left busy with     *)
(* nothing to come, and never begins a session after a farewell.           *)
(***************************************************************************)
EXTENDS VoiceCall, RestartFlow, RemoteSecurity, FileDownload, FileUpload, SequenceTheorems,
        FiniteSetTheorems, FunctionTheorems, NaturalsInduction, WellFoundedInduction, TLAPS

-----------------------------------------------------------------------------
(* Messages in a queue, and how many of them are of a kind. *)

Number(s, K) == Cardinality({i \in DOMAIN s : s[i] \in K})

LEMMA NumberType ==
    ASSUME NEW S, NEW s \in Seq(S), NEW K
    PROVE  IsFiniteSet({i \in DOMAIN s : s[i] \in K}) /\ Number(s, K) \in Nat
<1>1. Len(s) \in Nat /\ DOMAIN s = 1 .. Len(s)
  BY LenProperties
<1>2. IsFiniteSet(1 .. Len(s)) /\ {i \in DOMAIN s : s[i] \in K} \subseteq 1 .. Len(s)
  BY <1>1, FS_Interval
<1>3. IsFiniteSet({i \in DOMAIN s : s[i] \in K})
  BY <1>2, FS_Subset
<1> QED BY <1>3, FS_CardinalityType DEF Number

\* None are of a kind when no message is.
LEMMA NumberZero ==
    ASSUME NEW S, NEW s \in Seq(S), NEW K
    PROVE  Number(s, K) = 0 <=> \A m \in Range(s) : m \notin K
<1> DEFINE A == {i \in DOMAIN s : s[i] \in K}
<1>1. IsFiniteSet(A)
  BY NumberType
<1>2. A = {} <=> \A m \in Range(s) : m \notin K
  BY DEF Range
<1> HIDE DEF A
<1>3. Cardinality(A) = 0 <=> A = {}
  BY <1>1, FS_EmptySet
<1> QED BY <1>2, <1>3 DEF Number, A

LEMMA EmptyQueue == Range(<<>>) = {} /\ \A K : Number(<<>>, K) = 0
<1>1. DOMAIN <<>> = {}
  OBVIOUS
<1>2. Range(<<>>) = {}
  BY <1>1 DEF Range
<1>3. ASSUME NEW K PROVE {i \in DOMAIN <<>> : <<>>[i] \in K} = {}
  BY <1>1
<1> QED BY <1>2, <1>3, FS_EmptySet DEF Number

LEMMA Joined ==
    ASSUME NEW S, NEW s \in Seq(S), NEW t \in Seq(S)
    PROVE  /\ s \o t \in Seq(S)
           /\ Range(s \o t) = Range(s) \cup Range(t)
           /\ \A K : Number(s \o t, K) = Number(s, K) + Number(t, K)
<1> DEFINE u == s \o t
<1>1. /\ u \in Seq(S) /\ Len(s) \in Nat /\ Len(t) \in Nat
      /\ DOMAIN s = 1 .. Len(s) /\ DOMAIN t = 1 .. Len(t) /\ DOMAIN u = 1 .. Len(s) + Len(t)
      /\ \A i \in 1 .. Len(s) : u[i] = s[i]
      /\ \A i \in 1 .. Len(t) : u[i + Len(s)] = t[i]
      /\ \A i \in DOMAIN u : i \in DOMAIN s \/ i - Len(s) \in DOMAIN t
  <2>1. /\ u \in Seq(S) /\ Len(u) = Len(s) + Len(t) /\ Len(s) \in Nat /\ Len(t) \in Nat
        /\ DOMAIN s = 1 .. Len(s) /\ DOMAIN t = 1 .. Len(t)
        /\ \A i \in 1 .. Len(s) + Len(t) : u[i] = IF i <= Len(s) THEN s[i] ELSE t[i - Len(s)]
    BY ConcatProperties, LenProperties
  <2>2. DOMAIN u = 1 .. Len(s) + Len(t)
    BY <2>1, LenProperties
  <2> HIDE DEF u
  <2>3. \A i \in 1 .. Len(s) : u[i] = s[i]
    BY <2>1
  <2>4. ASSUME NEW i \in 1 .. Len(t) PROVE u[i + Len(s)] = t[i]
    <3>1. i + Len(s) \in 1 .. Len(s) + Len(t) /\ ~(i + Len(s) <= Len(s)) /\ (i + Len(s)) - Len(s) = i
      BY <2>1
    <3> QED BY <2>1, <3>1
  <2>5. \A i \in DOMAIN u : i \in DOMAIN s \/ i - Len(s) \in DOMAIN t
    BY <2>1, <2>2
  <2> QED BY <2>1, <2>2, <2>3, <2>4, <2>5
<1> HIDE DEF u
<1>2. Range(u) = Range(s) \cup Range(t)
  <2>1. \A m \in Range(s) : m \in Range(u)
    BY <1>1 DEF Range
  <2>2. \A m \in Range(t) : m \in Range(u)
    <3>1. \A i \in DOMAIN t : i + Len(s) \in DOMAIN u
      BY <1>1
    <3> QED BY <1>1, <3>1 DEF Range
  <2>3. ASSUME NEW i \in DOMAIN u PROVE u[i] \in Range(s) \cup Range(t)
    <3>1. CASE i \in DOMAIN s
      BY <1>1, <3>1 DEF Range
    <3>2. CASE i - Len(s) \in DOMAIN t
      <4>1. u[i] = t[i - Len(s)]
        BY <1>1, <3>2
      <4> QED BY <3>2, <4>1 DEF Range
    <3> QED BY <1>1, <3>1, <3>2
  <2> QED BY <2>1, <2>2, <2>3 DEF Range
<1>3. ASSUME NEW K PROVE Number(u, K) = Number(s, K) + Number(t, K)
  <2> DEFINE A == {i \in DOMAIN s : s[i] \in K}
             B == {i \in DOMAIN t : t[i] \in K}
             C == {i \in DOMAIN u : u[i] \in K}
             D == C \ A
             f == [i \in B |-> i + Len(s)]
  <2>1. IsFiniteSet(A) /\ IsFiniteSet(B) /\ IsFiniteSet(C)
    BY <1>1, NumberType
  <2>2. A \subseteq C /\ A \cap D = {} /\ C = A \cup D
    BY <1>1
  <2>3. f \in Bijection(B, D)
    <3>1. \A i \in B : i + Len(s) \in D
      BY <1>1
    <3>2. \A j \in D : j - Len(s) \in B /\ f[j - Len(s)] = j
      BY <1>1
    <3>3. \A i, j \in B : f[i] = f[j] => i = j
      BY <1>1
    <3>4. f \in [B -> D]
      BY <3>1
    <3>5. \A j \in D : \E i \in B : f[i] = j
      BY <3>2
    <3> HIDE DEF f, B, D
    <3> QED BY <3>3, <3>4, <3>5, Fun_IsBij
  <2>4. IsFiniteSet(D) /\ Cardinality(D) = Cardinality(B)
    BY <2>1, <2>3, FS_Bijection DEF ExistsBijection
  <2>5. Cardinality(C) = Cardinality(A) + Cardinality(D)
    <3> HIDE DEF A, C, D
    <3>1. Cardinality(A \cup D) = Cardinality(A) + Cardinality(D) - Cardinality(A \cap D)
      BY <2>1, <2>4, FS_Union
    <3>2. Cardinality(A \cap D) = 0 /\ Cardinality(A) \in Nat /\ Cardinality(D) \in Nat
      BY <2>1, <2>2, <2>4, FS_EmptySet, FS_CardinalityType
    <3> QED BY <2>2, <3>1, <3>2
  <2> QED BY <2>4, <2>5 DEF Number
<1> QED BY <1>1, <1>2, <1>3 DEF u

LEMMA OneMessage ==
    ASSUME NEW S, NEW x \in S
    PROVE  /\ <<x>> \in Seq(S) /\ Range(<<x>>) = {x}
           /\ \A K : Number(<<x>>, K) = IF x \in K THEN 1 ELSE 0
<1>1. <<x>> \in Seq(S) /\ DOMAIN <<x>> = {1} /\ <<x>>[1] = x
  OBVIOUS
<1>2. Range(<<x>>) = {x}
  BY <1>1 DEF Range
<1>3. ASSUME NEW K PROVE Number(<<x>>, K) = IF x \in K THEN 1 ELSE 0
  <2>1. {i \in DOMAIN <<x>> : <<x>>[i] \in K} = IF x \in K THEN {1} ELSE {}
    BY <1>1
  <2> QED BY <2>1, FS_EmptySet, FS_Singleton DEF Number
<1> QED BY <1>1, <1>2, <1>3

\* A message sent, and the first one taken.
LEMMA Sent ==
    ASSUME NEW S, NEW s \in Seq(S), NEW x \in S
    PROVE  /\ Append(s, x) \in Seq(S)
           /\ Range(Append(s, x)) = Range(s) \cup {x}
           /\ \A K : Number(Append(s, x), K) = Number(s, K) + IF x \in K THEN 1 ELSE 0
<1>1. Append(s, x) = s \o <<x>>
  BY AppendIsConcat
<1>2. /\ <<x>> \in Seq(S) /\ Range(<<x>>) = {x}
      /\ \A K : Number(<<x>>, K) = IF x \in K THEN 1 ELSE 0
  BY OneMessage
<1>0. PICK t \in Seq(S) : t = <<x>>
  BY <1>2
<1>3. /\ s \o t \in Seq(S)
      /\ Range(s \o t) = Range(s) \cup Range(t)
      /\ \A K : Number(s \o t, K) = Number(s, K) + Number(t, K)
  BY Joined
<1> QED BY <1>0, <1>1, <1>2, <1>3

LEMMA Taken ==
    ASSUME NEW S, NEW s \in Seq(S), s # <<>>
    PROVE  /\ Head(s) \in S /\ Tail(s) \in Seq(S)
           /\ Range(s) = {Head(s)} \cup Range(Tail(s))
           /\ \A K : Number(s, K) = Number(Tail(s), K) + IF Head(s) \in K THEN 1 ELSE 0
<1>1. Head(s) \in S /\ Tail(s) \in Seq(S) /\ s = <<Head(s)>> \o Tail(s)
  BY HeadTailProperties
<1>2. <<Head(s)>> \in Seq(S) /\ Range(<<Head(s)>>) = {Head(s)}
      /\ \A K : Number(<<Head(s)>>, K) = IF Head(s) \in K THEN 1 ELSE 0
  BY <1>1, OneMessage
<1> DEFINE h == <<Head(s)>>
           r == Tail(s)
<1>3. h \in Seq(S) /\ r \in Seq(S) /\ s = h \o r
  BY <1>1, <1>2
<1>4. Range(s) = Range(h) \cup Range(r) /\ \A K : Number(s, K) = Number(h, K) + Number(r, K)
  <2> HIDE DEF h, r
  <2>1. /\ Range(h \o r) = Range(h) \cup Range(r)
        /\ \A K : Number(h \o r, K) = Number(h, K) + Number(r, K)
    BY <1>3, Joined
  <2> QED BY <1>3, <2>1
<1>5. \A K : Number(Tail(s), K) \in Nat
  BY <1>1, NumberType
<1>6. \A K : Number(s, K) = Number(Tail(s), K) + IF Head(s) \in K THEN 1 ELSE 0
  BY <1>2, <1>4, <1>5
<1>7. Range(s) = {Head(s)} \cup Range(Tail(s))
  BY <1>2, <1>4
<1> QED BY <1>1, <1>6, <1>7

LEMMA InRange ==
    ASSUME NEW S, NEW s \in Seq(S)
    PROVE  \A m \in Range(s) : m \in S
BY DEF Range
-----------------------------------------------------------------------------
(* An upload. *)

UpKinds == {"digest", "confirm", "block", "eof", "done", "cancel", "error", "overwrite",
            "skip", "sent", "skipped"}
UpMsgs == [k : UpKinds, f : Nat, n : 0 .. UpBlocks]
Of(kinds) == {m \in UpMsgs : m.k \in kinds}
BlocksOf(f) == {m \in UpMsgs : m.k = "block" /\ m.f = f}

UpTypes ==
    /\ upFiles \in Nat \ {0} /\ file \in UpFiles /\ offset \in 0 .. UpBlocks
    /\ at \in {"confirming", "reading", "sending", "pausing", "left"}
    /\ upStatus \in {"running", "done", "error", "cancelled"}
    /\ upPolicy \in {"ask", "overwrite", "skip"} /\ channel \in BOOLEAN
    /\ questions \subseteq UpFiles /\ upSkipped \subseteq UpFiles
    /\ upWorker \in Seq(UpMsgs) /\ upFar \in Seq(UpMsgs) /\ upPage \in Seq(UpMsgs)
    /\ far \in [k : {"taking", "over", "done"}, got : [UpFiles -> Nat]]
    /\ at \in {"reading", "sending"} => offset < UpBlocks
    /\ upStatus = "running" => channel
    /\ ~channel => upWorker = <<>> /\ upFar = <<>> /\ upPage = <<>>

\* What the loop asked of the device, or the device of the user: at most one file is
\* asked about, and it is the one the loop is at.
Tokens == Of({"digest", "confirm"})
Asked == Number(upWorker, Tokens) + Number(upFar, Tokens) + Number(upPage, Tokens)
             + (IF questions = {} THEN 0 ELSE 1)

Asking ==
    /\ Asked <= 1
    /\ Asked # 0 => at \in {"confirming", "left"}
    /\ \A m \in Range(upWorker) \cup Range(upFar) \cup Range(upPage) : m \in Tokens => m.f = file
    /\ questions \subseteq {file}

\* The end of the transfer is marked by a loop that is left, and asks nothing any more.
Marked == \E m \in Range(upWorker) \cup Range(upFar) : m.k = "done"
Marking == Marked \/ far.k = "done" => at = "left" /\ Asked = 0

Awaiting ==
    upStatus = "running" =>
        /\ far.k = "taking" /\ at = "confirming" => Asked = 1
        /\ at = "sending" => Number(upWorker, Of({"block"})) + Number(upPage, Of({"sent"})) # 0
        /\ far.k = "over" => Number(upPage, Of({"error"})) # 0
        /\ \A m \in Range(upWorker) \cup Range(upFar) : m.k \notin {"cancel", "error"}

\* Where the blocks of a file are: those the device has, and those on their way to it.
Given(f) == far.got[f] + Number(upWorker, BlocksOf(f)) + Number(upFar, BlocksOf(f))

Counted ==
    channel /\ far.k = "taking" =>
        /\ \A f \in UpFiles :
              /\ f < file => f \in upSkipped \/ Given(f) = UpBlocks
              /\ f > file => Given(f) = 0
        /\ at \in {"reading", "pausing"} => Given(file) = offset
        /\ at = "sending" => Given(file) = offset + 1
        /\ at = "confirming" =>
              /\ Given(file) = far.got[file]
              /\ \A m \in Range(upPage) : m.k = "confirm" => m.n = far.got[file]
              /\ (\A m \in Range(upPage) : m.k # "confirm") => far.got[file] = 0
        /\ Marked => \A f \in UpFiles : f \in upSkipped \/ Given(f) = UpBlocks

\* No block follows the end of the transfer.
EndIsLast(s) == \A i, j \in DOMAIN s : i < j /\ s[i].k = "done" => s[j].k # "block"
Ending ==
    /\ EndIsLast(upWorker) /\ EndIsLast(upFar)
    /\ (\E m \in Range(upFar) : m.k = "done") => \A m \in Range(upWorker) : m.k # "block"

\* What the device says it has it has.
Whole == far.k = "done" => \A f \in UpFiles : f \in upSkipped \/ far.got[f] = UpBlocks
Echoed ==
    /\ \A m \in Range(upPage) : m.k = "done" => far.k = "done"
    /\ \A m \in Range(upWorker) \cup Range(upFar) : m.k = "skip" => m.f \in upSkipped
    /\ \A m \in Range(upPage) : m.k = "skipped" => UpFiles \subseteq upSkipped
    /\ upStatus = "done" => far.k = "done" \/ UpFiles \subseteq upSkipped

UpInv == UpTypes /\ Asking /\ Marking /\ Awaiting /\ Counted /\ Ending /\ Whole /\ Echoed

LEMMA Kinds ==
    ASSUME NEW m \in UpMsgs, NEW kinds, NEW f
    PROVE  /\ m \in Of(kinds) <=> m.k \in kinds
           /\ m \in Tokens <=> m.k \in {"digest", "confirm"}
           /\ m \in BlocksOf(f) <=> m.k = "block" /\ m.f = f
BY DEF Of, Tokens, BlocksOf

-----------------------------------------------------------------------------
(* What the loop does: a step of the page that posts the messages t. *)

LoopPosts(t) ==
    /\ t \in Seq(UpMsgs)
    /\ upWorker' = IF channel THEN upWorker \o t ELSE upWorker
    /\ \A m \in Range(t) : /\ m.k \notin {"block", "confirm"}
                           /\ m.k = "skip" => m.f \in upSkipped'
                           /\ m.k \in {"cancel", "error"} => upStatus' # "running"
    /\ UNCHANGED <<upFiles, channel, upFar, far>>
    /\ upPage' = upPage \/ (upPage # <<>> /\ upPage' = Tail(upPage))
    /\ upStatus' \in {"running", "done", "error", "cancelled"}
    /\ upPolicy' \in {"ask", "overwrite", "skip"}
    /\ upSkipped \subseteq upSkipped' /\ upSkipped' \subseteq UpFiles
    /\ questions' \subseteq {file}
    /\ upStatus' = "running" =>
          upStatus = "running" /\ Number(upPage', Of({"error"})) = Number(upPage, Of({"error"}))
    /\ upStatus' = "done" => upStatus = "done" \/ far.k = "done" \/ UpFiles \subseteq upSkipped'

\* What is asked still, but for what the step posts.
Remaining == Number(upWorker, Tokens) + Number(upFar, Tokens) + Number(upPage', Tokens)
                 + (IF questions' = {} THEN 0 ELSE 1)

Quiet(t) == \A m \in Range(t) : m.k \notin {"digest", "done"}

\* It stays where it is; it is left; it goes on with the file; with the next; or ends.
Stays(t) ==
    /\ Quiet(t) /\ UNCHANGED loopVars
    /\ Remaining <= Asked
    /\ at = "confirming" =>
          /\ upStatus' = "running" => Remaining = Asked
          /\ \A m \in UpMsgs : m.k = "confirm" => (m \in Range(upPage') <=> m \in Range(upPage))
    /\ at = "sending" /\ upStatus' = "running" =>
          Number(upPage', Of({"sent"})) = Number(upPage, Of({"sent"}))

Leaves(t) ==
    /\ Quiet(t) /\ at' = "left" /\ file' = file /\ offset' \in 0 .. UpBlocks
    /\ Remaining <= Asked

GoesOn(t) ==
    /\ Quiet(t) /\ at' \in {"reading", "pausing"} /\ file' = file /\ Remaining = 0
    /\ offset' \in 0 .. UpBlocks /\ (at' = "reading" => offset' < UpBlocks)
    /\ at # "left" /\ (channel /\ far.k = "taking" => Given(file) = offset')

Done == channel /\ far.k = "taking" => file \in upSkipped' \/ Given(file) = UpBlocks

Announces(t) ==
    /\ channel /\ at # "left" /\ file # upFiles
    /\ at' = "confirming" /\ file' = file + 1 /\ offset' = 0
    /\ Remaining = 0 /\ Number(t, Tokens) = 1 /\ Done
    /\ \A m \in Range(t) : (m.k = "digest" => m.f = file + 1) /\ m.k # "done"

Finishes(t) ==
    /\ at # "left" /\ file = upFiles
    /\ at' = "left" /\ file' = file /\ offset' = 0
    /\ Remaining = 0 /\ Done
    /\ \A m \in Range(t) : m.k # "digest"

LoopStep(t) == Stays(t) \/ Leaves(t) \/ GoesOn(t) \/ Announces(t) \/ Finishes(t)

LEMMA LoopFacts ==
    ASSUME UpInv, NEW t, LoopPosts(t)
    PROVE  /\ upWorker' \in Seq(UpMsgs) /\ upPage' \in Seq(UpMsgs)
           /\ Range(upWorker') \subseteq Range(upWorker) \cup Range(t)
           /\ Range(upPage') \subseteq Range(upPage)
           /\ \A K : Number(upWorker', K) = Number(upWorker, K) + (IF channel THEN Number(t, K) ELSE 0)
           /\ \A K : /\ Number(upWorker, K) \in Nat /\ Number(t, K) \in Nat
                     /\ Number(upFar, K) \in Nat /\ Number(upPage', K) \in Nat
           /\ Number(t, Of({"block"})) = 0
           /\ \A f \in UpFiles : Given(f)' = Given(f) /\ Given(f) \in Nat
           /\ Asked' = Remaining + (IF channel THEN Number(t, Tokens) ELSE 0)
           /\ Asked \in Nat /\ Remaining \in Nat
           /\ Quiet(t) => Number(t, Tokens) = 0
<1>1. /\ upWorker \in Seq(UpMsgs) /\ upFar \in Seq(UpMsgs) /\ upPage \in Seq(UpMsgs) /\ t \in Seq(UpMsgs)
      /\ channel \in BOOLEAN /\ far.got \in [UpFiles -> Nat]
  BY DEF UpInv, UpTypes, LoopPosts
<1>2. /\ upWorker' \in Seq(UpMsgs)
      /\ Range(upWorker') \subseteq Range(upWorker) \cup Range(t)
      /\ \A K : Number(upWorker', K) = Number(upWorker, K) + (IF channel THEN Number(t, K) ELSE 0)
  <2>1. CASE channel
    <3>1. upWorker' = upWorker \o t
      BY <2>1 DEF LoopPosts
    <3> QED BY <1>1, <2>1, <3>1, Joined
  <2>2. CASE ~channel
    <3>1. upWorker' = upWorker
      BY <2>2 DEF LoopPosts
    <3>2. \A K : Number(upWorker, K) \in Nat
      BY <1>1, NumberType
    <3> QED BY <1>1, <2>2, <3>1, <3>2
  <2> QED BY <2>1, <2>2
<1>3. /\ upPage' \in Seq(UpMsgs) /\ Range(upPage') \subseteq Range(upPage)
  <2>1. CASE upPage' = upPage
    BY <1>1, <2>1
  <2>2. CASE upPage # <<>> /\ upPage' = Tail(upPage)
    BY <1>1, <2>2, Taken
  <2> QED BY <2>1, <2>2 DEF LoopPosts
<1>4. \A K : /\ Number(upWorker, K) \in Nat /\ Number(t, K) \in Nat
             /\ Number(upFar, K) \in Nat /\ Number(upPage', K) \in Nat /\ Number(upPage, K) \in Nat
  BY <1>1, <1>3, NumberType
<1>5. \A m \in Range(t) : m \in UpMsgs
  BY <1>1, InRange
<1>6. \A m \in Range(t) : m.k # "block" /\ m.k # "confirm"
  BY DEF LoopPosts
<1>7. Number(t, Of({"block"})) = 0 /\ \A f : Number(t, BlocksOf(f)) = 0
  <2>1. \A m \in Range(t) : m \notin Of({"block"}) /\ \A f : m \notin BlocksOf(f)
    BY <1>5, <1>6, Kinds
  <2> QED BY <1>1, <2>1, NumberZero
<1>8. Quiet(t) => Number(t, Tokens) = 0
  <2>1. Quiet(t) => \A m \in Range(t) : m \notin Tokens
    BY <1>5, <1>6, Kinds DEF Quiet
  <2> QED BY <1>1, <2>1, NumberZero
<1>9. upFar' = upFar /\ far' = far
  BY DEF LoopPosts
<1>10. ASSUME NEW f \in UpFiles PROVE Given(f)' = Given(f) /\ Given(f) \in Nat
  <2>1. Number(upWorker', BlocksOf(f)) = Number(upWorker, BlocksOf(f))
    BY <1>2, <1>4, <1>7
  <2>2. far.got[f] \in Nat
    BY <1>1
  <2> QED BY <1>4, <1>9, <2>1, <2>2 DEF Given
<1>11. /\ Asked' = Remaining + (IF channel THEN Number(t, Tokens) ELSE 0)
       /\ Asked \in Nat /\ Remaining \in Nat
  BY <1>2, <1>4, <1>9, SMTT(20) DEF Asked, Remaining
<1> QED BY <1>2, <1>3, <1>4, <1>7, <1>8, <1>10, <1>11

LEMMA LoopTypes ==
    ASSUME UpInv, NEW t, LoopPosts(t), LoopStep(t)
    PROVE  UpTypes'
<1>1. upWorker' \in Seq(UpMsgs) /\ upPage' \in Seq(UpMsgs)
  BY LoopFacts
<1>2. UpTypes
  BY DEF UpInv
<1>3. /\ file' \in UpFiles' /\ offset' \in 0 .. UpBlocks
      /\ at' \in {"confirming", "reading", "sending", "pausing", "left"}
      /\ at' \in {"reading", "sending"} => offset' < UpBlocks
  <2>1. upFiles' = upFiles /\ UpFiles' = UpFiles
    BY DEF LoopPosts, UpFiles
  <2>2. CASE Stays(t)
    BY <1>2, <2>1, <2>2 DEF Stays, loopVars, UpTypes
  <2>3. CASE Leaves(t) \/ GoesOn(t)
    BY <1>2, <2>1, <2>3 DEF Leaves, GoesOn, UpTypes
  <2>4. CASE Announces(t)
    <3>1. file + 1 \in 1 .. upFiles /\ 0 \in 0 .. UpBlocks
      BY <1>2, <2>4, UploadAssumption DEF Announces, UpTypes, UpFiles
    <3> QED BY <2>1, <2>4, <3>1 DEF Announces, UpFiles
  <2>5. CASE Finishes(t)
    BY <1>2, <2>1, <2>5, UploadAssumption DEF Finishes, UpTypes
  <2> QED BY <2>2, <2>3, <2>4, <2>5 DEF LoopStep
<1>4. /\ upFiles' = upFiles /\ UpFiles' = UpFiles /\ channel' = channel /\ far' = far
      /\ upFar' = upFar
  BY DEF LoopPosts, UpFiles
<1>5. ~channel => upWorker' = <<>> /\ upPage' = <<>>
  BY <1>2 DEF LoopPosts, UpTypes
<1>6. /\ upStatus' \in {"running", "done", "error", "cancelled"}
      /\ upPolicy' \in {"ask", "overwrite", "skip"} /\ upSkipped' \subseteq UpFiles
      /\ questions' \subseteq UpFiles /\ (upStatus' = "running" => channel)
  BY <1>2 DEF LoopPosts, UpTypes
<1>7. /\ upFiles' \in Nat \ {0} /\ channel' \in BOOLEAN /\ upFar' \in Seq(UpMsgs)
      /\ ~channel' => upFar' = <<>>
      /\ far' \in [k : {"taking", "over", "done"}, got : [UpFiles' -> Nat]]
  BY <1>2, <1>4 DEF UpTypes
<1> QED BY <1>1, <1>3, <1>4, <1>5, <1>6, <1>7 DEF UpTypes

LEMMA LoopAsking ==
    ASSUME UpInv, NEW t, LoopPosts(t), LoopStep(t)
    PROVE  Asking'
<1>1. /\ Range(upWorker') \subseteq Range(upWorker) \cup Range(t)
      /\ Range(upPage') \subseteq Range(upPage) /\ upFar' = upFar
      /\ Asked' = Remaining + (IF channel THEN Number(t, Tokens) ELSE 0)
      /\ Asked \in Nat /\ Remaining \in Nat
      /\ Quiet(t) => Number(t, Tokens) = 0
      /\ Number(t, Tokens) \in Nat
      /\ questions' \subseteq {file}
  BY LoopFacts DEF LoopPosts
<1>2. Asking
  BY DEF UpInv
<1>3. /\ t \in Seq(UpMsgs) /\ upWorker \in Seq(UpMsgs) /\ upFar \in Seq(UpMsgs)
      /\ upPage' \in Seq(UpMsgs)
  BY LoopFacts DEF LoopPosts, UpInv, UpTypes
<1>4. \A m \in Range(t) : m \in Tokens => m.k = "digest"
  <2>1. \A m \in Range(t) : m \in UpMsgs /\ m.k # "confirm"
    BY <1>3, InRange DEF LoopPosts
  <2> QED BY <2>1, Kinds
<1>5. CASE Stays(t)
  <2>1. \A m \in Range(t) : m \notin Tokens
    BY <1>4, <1>5 DEF Stays, Quiet
  <2>2. Asked' <= Asked /\ at' = at /\ file' = file
    BY <1>1, <1>5 DEF Stays, loopVars
  <2> QED BY <1>1, <1>2, <2>1, <2>2 DEF Asking
<1>6. CASE Leaves(t)
  <2>1. \A m \in Range(t) : m \notin Tokens
    BY <1>4, <1>6 DEF Leaves, Quiet
  <2>2. Asked' <= Asked /\ at' = "left" /\ file' = file
    BY <1>1, <1>6 DEF Leaves
  <2> QED BY <1>1, <1>2, <2>1, <2>2 DEF Asking
<1>7. CASE GoesOn(t)
  <2>1. \A m \in Range(t) : m \notin Tokens
    BY <1>4, <1>7 DEF GoesOn, Quiet
  <2>2. Asked' = 0 /\ file' = file
    BY <1>1, <1>7 DEF GoesOn
  <2> QED BY <1>1, <1>2, <2>1, <2>2 DEF Asking
<1>8. ASSUME Remaining = 0
      PROVE  /\ questions' = {}
             /\ \A m \in Range(upWorker) \cup Range(upFar) \cup Range(upPage') : m \notin Tokens
  <2>1. /\ Number(upWorker, Tokens) = 0 /\ Number(upFar, Tokens) = 0
        /\ Number(upPage', Tokens) = 0 /\ questions' = {}
    <3>1. \A K : /\ Number(upWorker, K) \in Nat /\ Number(upFar, K) \in Nat /\ Number(upPage', K) \in Nat
      BY LoopFacts
    <3> QED BY <1>8, <3>1 DEF Remaining
  <2> QED BY <1>3, <2>1, NumberZero
<1>9. CASE Announces(t)
  <2>1. Asked' = 1 /\ at' = "confirming" /\ file' = file + 1 /\ questions' = {}
    BY <1>1, <1>8, <1>9 DEF Announces
  <2>2. \A m \in Range(t) : m \in Tokens => m.f = file'
    BY <1>4, <1>9, <2>1 DEF Announces
  <2>3. \A m \in Range(upWorker') \cup Range(upFar') \cup Range(upPage') : m \in Tokens => m.f = file'
    BY <1>1, <1>8, <1>9, <2>2 DEF Announces
  <2> QED BY <2>1, <2>3 DEF Asking
<1>10. CASE Finishes(t)
  <2>1. \A m \in Range(t) : m \notin Tokens
    BY <1>4, <1>10 DEF Finishes
  <2>2. Number(t, Tokens) = 0
    BY <1>3, <2>1, NumberZero
  <2>3. Asked' = 0 /\ at' = "left" /\ questions' = {}
    BY <1>1, <1>8, <1>10, <2>2 DEF Finishes
  <2>4. \A m \in Range(upWorker') \cup Range(upFar') \cup Range(upPage') : m \notin Tokens
    BY <1>1, <1>8, <1>10, <2>1 DEF Finishes
  <2> QED BY <2>3, <2>4 DEF Asking
<1> QED BY <1>5, <1>6, <1>7, <1>9, <1>10 DEF LoopStep

LEMMA LoopMarking ==
    ASSUME UpInv, NEW t, LoopPosts(t), LoopStep(t)
    PROVE  Marking'
<1>1. /\ Range(upWorker') \subseteq Range(upWorker) \cup Range(t) /\ upFar' = upFar /\ far' = far
      /\ Asked' = Remaining + (IF channel THEN Number(t, Tokens) ELSE 0)
      /\ Asked \in Nat /\ Remaining \in Nat /\ Number(t, Tokens) \in Nat
      /\ Quiet(t) => Number(t, Tokens) = 0
  BY LoopFacts DEF LoopPosts
<1>2. CASE Stays(t) \/ Leaves(t)
  <2>1. \A m \in Range(t) : m.k # "done"
    BY <1>2 DEF Stays, Leaves, Quiet
  <2>2. Marked' => Marked
    BY <1>1, <2>1 DEF Marked
  <2>3. at = "left" => at' = "left"
    BY <1>2 DEF Stays, Leaves, loopVars
  <2>4. Asked = 0 => Asked' = 0
    BY <1>1, <1>2 DEF Stays, Leaves
  <2> QED BY <1>1, <2>2, <2>3, <2>4 DEF UpInv, Marking
<1>3. CASE GoesOn(t) \/ Announces(t)
  <2>1. \A m \in Range(t) : m.k # "done"
    BY <1>3 DEF GoesOn, Announces, Quiet
  <2>2. Marked' => Marked
    BY <1>1, <2>1 DEF Marked
  <2>3. at # "left"
    BY <1>3 DEF GoesOn, Announces
  <2> QED BY <1>1, <2>2, <2>3 DEF UpInv, Marking
<1>4. CASE Finishes(t)
  <2>1. \A m \in UpMsgs : m \in Tokens <=> m.k \in {"digest", "confirm"}
    BY Kinds
  <2>2. \A m \in Range(t) : m \notin Tokens
    BY <1>4, <2>1, InRange DEF LoopPosts, Finishes
  <2>3. Number(t, Tokens) = 0
    BY <2>2, NumberZero DEF LoopPosts
  <2> QED BY <1>1, <1>4, <2>3 DEF Marking, Finishes
<1> QED BY <1>2, <1>3, <1>4 DEF LoopStep

LEMMA LoopAwaiting ==
    ASSUME UpInv, NEW t, LoopPosts(t), LoopStep(t)
    PROVE  Awaiting'
<1> SUFFICES ASSUME upStatus' = "running"
             PROVE  /\ far'.k = "taking" /\ at' = "confirming" => Asked' = 1
                    /\ at' = "sending" =>
                         Number(upWorker', Of({"block"})) + Number(upPage', Of({"sent"})) # 0
                    /\ far'.k = "over" => Number(upPage', Of({"error"})) # 0
                    /\ \A m \in Range(upWorker') \cup Range(upFar') : m.k \notin {"cancel", "error"}
  BY DEF Awaiting
<1>1. /\ upStatus = "running" /\ Number(upPage', Of({"error"})) = Number(upPage, Of({"error"}))
      /\ far' = far /\ upFar' = upFar
      /\ \A m \in Range(t) : m.k \notin {"cancel", "error"}
  BY DEF LoopPosts
<1>2. /\ Range(upWorker') \subseteq Range(upWorker) \cup Range(t)
      /\ Asked' = Remaining + (IF channel THEN Number(t, Tokens) ELSE 0)
      /\ Remaining \in Nat /\ Number(t, Tokens) \in Nat
      /\ Quiet(t) => Number(t, Tokens) = 0
      /\ Number(t, Of({"block"})) = 0 /\ Number(upWorker, Of({"block"})) \in Nat
      /\ Number(upWorker', Of({"block"})) = Number(upWorker, Of({"block"}))
                                               + (IF channel THEN Number(t, Of({"block"})) ELSE 0)
  BY LoopFacts
<1>3. /\ far.k = "taking" /\ at = "confirming" => Asked = 1
      /\ at = "sending" => Number(upWorker, Of({"block"})) + Number(upPage, Of({"sent"})) # 0
      /\ far.k = "over" => Number(upPage, Of({"error"})) # 0
      /\ \A m \in Range(upWorker) \cup Range(upFar) : m.k \notin {"cancel", "error"}
  BY <1>1 DEF UpInv, Awaiting
<1>4. CASE Stays(t)
  <2>1. /\ at' = at /\ Number(t, Tokens) = 0 /\ (at = "confirming" => Remaining = Asked)
        /\ at = "sending" => Number(upPage', Of({"sent"})) = Number(upPage, Of({"sent"}))
    BY <1>2, <1>4 DEF Stays, loopVars
  <2> QED BY <1>1, <1>2, <1>3, <2>1
<1>5. CASE Leaves(t) \/ GoesOn(t) \/ Finishes(t)
  <2>1. at' \notin {"confirming", "sending"}
    BY <1>5 DEF Leaves, GoesOn, Finishes
  <2> QED BY <1>1, <1>2, <1>3, <2>1
<1>6. CASE Announces(t)
  <2>1. at' = "confirming" /\ Asked' = 1
    BY <1>2, <1>6 DEF Announces
  <2> QED BY <1>1, <1>2, <1>3, <2>1
<1> QED BY <1>4, <1>5, <1>6 DEF LoopStep

LEMMA LoopCounted ==
    ASSUME UpInv, NEW t, LoopPosts(t), LoopStep(t)
    PROVE  Counted'
<1> SUFFICES ASSUME channel, far.k = "taking"
             PROVE  Counted'
  BY DEF Counted, LoopPosts
<1>1. /\ far' = far /\ upFar' = upFar /\ upFiles' = upFiles /\ UpFiles' = UpFiles
      /\ upSkipped \subseteq upSkipped'
  BY DEF LoopPosts, UpFiles
<1>2. /\ Range(upWorker') \subseteq Range(upWorker) \cup Range(t)
      /\ Range(upPage') \subseteq Range(upPage) /\ upPage' \in Seq(UpMsgs)
      /\ \A f \in UpFiles : Given(f)' = Given(f) /\ Given(f) \in Nat
  BY LoopFacts
<1>3. /\ file \in UpFiles /\ file' \in UpFiles /\ upFiles \in Nat
  <2>1. UpTypes /\ UpTypes'
    BY LoopTypes DEF UpInv
  <2> QED BY <1>1, <2>1 DEF UpTypes
<1>4. /\ \A f \in UpFiles :
              /\ f < file => f \in upSkipped \/ Given(f) = UpBlocks
              /\ f > file => Given(f) = 0
      /\ at \in {"reading", "pausing"} => Given(file) = offset
      /\ at = "sending" => Given(file) = offset + 1
      /\ at = "confirming" =>
              /\ Given(file) = far.got[file]
              /\ \A m \in Range(upPage) : m.k = "confirm" => m.n = far.got[file]
              /\ (\A m \in Range(upPage) : m.k # "confirm") => far.got[file] = 0
      /\ Marked => \A f \in UpFiles : f \in upSkipped \/ Given(f) = UpBlocks
  BY DEF UpInv, Counted
<1>5. Quiet(t) => (Marked' => Marked)
  BY <1>1, <1>2 DEF Quiet, Marked
<1>6. CASE Stays(t)
  <2>1. file' = file /\ at' = at /\ offset' = offset /\ Quiet(t)
    BY <1>6 DEF Stays, loopVars
  <2>2. at = "confirming" => /\ \A m \in Range(upPage') : m.k = "confirm" => m.n = far.got[file]
                             /\ (\A m \in Range(upPage') : m.k # "confirm") => far.got[file] = 0
    <3>1. \A m \in Range(upPage) : m \in UpMsgs
      BY InRange DEF UpInv, UpTypes
    <3> QED BY <1>2, <1>4, <1>6, <3>1 DEF Stays
  <2> QED BY <1>1, <1>2, <1>3, <1>4, <1>5, <2>1, <2>2 DEF Counted
<1>7. CASE Leaves(t)
  <2>1. file' = file /\ at' = "left" /\ Quiet(t)
    BY <1>7 DEF Leaves
  <2> QED BY <1>1, <1>2, <1>3, <1>4, <1>5, <2>1 DEF Counted
<1>8. CASE GoesOn(t)
  <2>1. file' = file /\ at' \in {"reading", "pausing"} /\ Quiet(t) /\ Given(file) = offset'
    BY <1>8 DEF GoesOn
  <2> QED BY <1>1, <1>2, <1>3, <1>4, <1>5, <2>1 DEF Counted
<1>9. CASE Announces(t)
  <2>1. /\ file' = file + 1 /\ at' = "confirming" /\ Remaining = 0
        /\ file \in upSkipped' \/ Given(file) = UpBlocks
    BY <1>9 DEF Announces, Done
  <2>2. ~Marked'
    <3>1. ~Marked
      BY <1>9 DEF Announces, UpInv, Marking
    <3> QED BY <1>1, <1>2, <1>9, <3>1 DEF Announces, Marked
  <2>3. Given(file') = 0
    BY <1>3, <1>4, <2>1 DEF UpFiles
  <2>4. \A m \in Range(upPage') : m.k # "confirm"
    <3>1. Number(upPage', Tokens) = 0
      <4>1. \A K : /\ Number(upWorker, K) \in Nat /\ Number(upFar, K) \in Nat /\ Number(upPage', K) \in Nat
        BY LoopFacts
      <4> QED BY <2>1, <4>1 DEF Remaining
    <3>2. \A m \in Range(upPage') : m \notin Tokens /\ m \in UpMsgs
      BY <1>2, <3>1, NumberZero, InRange
    <3> QED BY <3>2, Kinds
  <2>5. far.got[file'] = 0
    <3>1. /\ Number(upWorker, BlocksOf(file')) \in Nat /\ Number(upFar, BlocksOf(file')) \in Nat
          /\ far.got[file'] \in Nat
      <4>1. \A K : /\ Number(upWorker, K) \in Nat /\ Number(upFar, K) \in Nat
        BY LoopFacts
      <4> QED BY <1>3, <4>1 DEF UpInv, UpTypes
    <3> QED BY <2>3, <3>1 DEF Given
  <2>6. \A f \in UpFiles : /\ f < file' => f \in upSkipped' \/ Given(f) = UpBlocks
                           /\ f > file' => Given(f) = 0
    <3>1. \A f \in UpFiles : f \in Nat
      BY DEF UpFiles
    <3>2. \A f \in UpFiles : (f < file' => f < file \/ f = file) /\ (f > file' => f > file)
      BY <1>3, <2>1, <3>1
    <3> QED BY <1>1, <1>4, <2>1, <3>2
  <2> QED BY <1>1, <1>2, <1>3, <2>1, <2>2, <2>3, <2>4, <2>5, <2>6 DEF Counted
<1>10. CASE Finishes(t)
  <2>1. /\ file' = file /\ at' = "left" /\ file = upFiles
        /\ file \in upSkipped' \/ Given(file) = UpBlocks
    BY <1>10 DEF Finishes, Done
  <2>2. \A f \in UpFiles : f \in upSkipped' \/ Given(f) = UpBlocks
    <3>1. \A f \in UpFiles : f = file \/ f < file
      BY <1>3, <2>1 DEF UpFiles
    <3> QED BY <1>1, <1>4, <2>1, <3>1
  <2> QED BY <1>1, <1>2, <1>3, <1>4, <2>1, <2>2 DEF Counted
<1> QED BY <1>6, <1>7, <1>8, <1>9, <1>10 DEF LoopStep

\* The end of the transfer stays the last message that matters.
LEMMA EndJoined ==
    ASSUME NEW s \in Seq(UpMsgs), NEW t \in Seq(UpMsgs), EndIsLast(s),
           \/ \A m \in Range(t) : m.k # "block"
           \/ (\A m \in Range(s) : m.k # "done") /\ (\A m \in Range(t) : m.k # "done")
    PROVE  EndIsLast(s \o t)
<1> DEFINE u == s \o t
<1>1. /\ Len(s) \in Nat /\ Len(t) \in Nat
      /\ DOMAIN s = 1 .. Len(s) /\ DOMAIN t = 1 .. Len(t) /\ DOMAIN u = 1 .. Len(s) + Len(t)
      /\ \A i \in 1 .. Len(s) + Len(t) : u[i] = IF i <= Len(s) THEN s[i] ELSE t[i - Len(s)]
  BY ConcatProperties, LenProperties
<1> HIDE DEF u
<1>2. \A i \in DOMAIN u : \/ i \in DOMAIN s /\ u[i] = s[i]
                          \/ i > Len(s) /\ u[i] \in Range(t)
  <2>1. ASSUME NEW i \in DOMAIN u, ~(i <= Len(s)) PROVE i > Len(s) /\ u[i] \in Range(t)
    <3>1. i - Len(s) \in DOMAIN t /\ u[i] = t[i - Len(s)]
      BY <1>1, <2>1
    <3> QED BY <1>1, <2>1, <3>1 DEF Range
  <2> QED BY <1>1, <2>1
<1>3. ASSUME NEW i \in DOMAIN u, NEW j \in DOMAIN u, i < j, u[i].k = "done"
      PROVE  u[j].k # "block"
  <2>1. CASE j \in DOMAIN s /\ u[j] = s[j]
    <3>1. i \in DOMAIN s /\ u[i] = s[i]
      BY <1>1, <1>3, <2>1
    <3> QED BY <1>3, <2>1, <3>1 DEF EndIsLast
  <2>2. CASE j > Len(s) /\ u[j] \in Range(t)
    <3>1. i \in DOMAIN s /\ u[i] = s[i] => u[i] \in Range(s)
      BY DEF Range
    <3> QED BY <1>2, <1>3, <2>2, <3>1
  <2> QED BY <1>2, <2>1, <2>2
<1> QED BY <1>3 DEF EndIsLast, u

LEMMA EndSent ==
    ASSUME NEW s \in Seq(UpMsgs), NEW x \in UpMsgs, EndIsLast(s),
           x.k # "block" \/ (\A m \in Range(s) : m.k # "done")
    PROVE  EndIsLast(Append(s, x))
<1>1. PICK t \in Seq(UpMsgs) : t = <<x>> /\ Range(t) = {x}
  BY OneMessage
<1>2. Append(s, x) = s \o t
  BY <1>1, AppendIsConcat
<1>3. CASE x.k # "block"
  BY <1>1, <1>2, <1>3, EndJoined
<1>4. CASE x.k = "block"
  BY <1>1, <1>2, <1>4, EndJoined
<1> QED BY <1>3, <1>4

LEMMA EndTaken ==
    ASSUME NEW s \in Seq(UpMsgs), s # <<>>, EndIsLast(s)
    PROVE  /\ EndIsLast(Tail(s))
           /\ Head(s).k = "done" => \A m \in Range(Tail(s)) : m.k # "block"
<1> DEFINE r == Tail(s)
<1>1. /\ Len(s) \in Nat \ {0} /\ DOMAIN s = 1 .. Len(s) /\ DOMAIN r = 1 .. Len(s) - 1
      /\ Head(s) = s[1]
      /\ \A i \in 1 .. Len(s) - 1 : r[i] = s[i + 1]
  BY EmptySeq, LenProperties, HeadTailProperties
<1> HIDE DEF r
<1>2. \A i \in DOMAIN r : i \in Nat \ {0} /\ i + 1 \in DOMAIN s /\ r[i] = s[i + 1]
  BY <1>1
<1>3. EndIsLast(r)
  BY <1>2 DEF EndIsLast
<1>4. ASSUME Head(s).k = "done", NEW i \in DOMAIN r PROVE r[i].k # "block"
  <2>1. 1 \in DOMAIN s /\ i + 1 \in DOMAIN s /\ 1 < i + 1
    BY <1>1, <1>2
  <2> QED BY <1>1, <1>2, <1>4, <2>1 DEF EndIsLast
<1> QED BY <1>3, <1>4 DEF r, Range

LEMMA LoopKeeps ==
    ASSUME UpInv, NEW t, LoopPosts(t), LoopStep(t)
    PROVE  UpInv'
<1>1. /\ upFar' = upFar /\ far' = far /\ UpFiles' = UpFiles /\ upSkipped \subseteq upSkipped'
      /\ Range(upWorker') \subseteq Range(upWorker) \cup Range(t)
      /\ Range(upPage') \subseteq Range(upPage)
  BY LoopFacts DEF LoopPosts, UpFiles
<1>2. Ending'
  <2>1. EndIsLast(upWorker) /\ EndIsLast(upFar)
    BY DEF UpInv, Ending
  <2>2. \A m \in Range(t) : m.k # "block"
    BY DEF LoopPosts
  <2>3. EndIsLast(upWorker')
    BY <2>1, <2>2, EndJoined DEF LoopPosts, UpInv, UpTypes
  <2> QED BY <1>1, <2>1, <2>2, <2>3 DEF UpInv, Ending
<1>3. Whole'
  BY <1>1 DEF UpInv, Whole
<1>4. Echoed'
  <2>1. \A m \in Range(t) : m.k = "skip" => m.f \in upSkipped'
    BY DEF LoopPosts
  <2>2. upStatus' = "done" => upStatus = "done" \/ far.k = "done" \/ UpFiles \subseteq upSkipped'
    BY DEF LoopPosts
  <2> QED BY <1>1, <2>1, <2>2 DEF UpInv, Echoed
<1> QED BY <1>2, <1>3, <1>4, LoopTypes, LoopAsking, LoopMarking, LoopAwaiting, LoopCounted DEF UpInv

-----------------------------------------------------------------------------
(* What the loop posts, and what that makes of it. *)

LEMMA MType ==
    ASSUME NEW k \in UpKinds, NEW f \in Nat
    PROVE  M(k, f) \in UpMsgs /\ M(k, f).k = k /\ M(k, f).f = f
<1>1. 0 \in 0 .. UpBlocks
  BY UploadAssumption
<1> QED BY <1>1 DEF M, UpMsgs

\* A few messages after others.
LEMMA TwoMore ==
    ASSUME NEW first \in Seq(UpMsgs), NEW x \in UpMsgs, NEW next \in Seq(UpMsgs)
    PROVE  /\ first \o <<x>> \o next \in Seq(UpMsgs)
           /\ Range(first \o <<x>> \o next) = Range(first) \cup {x} \cup Range(next)
           /\ \A K : Number(first \o <<x>> \o next, K) =
                        Number(first, K) + (IF x \in K THEN 1 ELSE 0) + Number(next, K)
<1>1. PICK t \in Seq(UpMsgs) : /\ t = <<x>> /\ Range(t) = {x}
                               /\ \A K : Number(t, K) = IF x \in K THEN 1 ELSE 0
  BY OneMessage
<1>2. /\ first \o t \in Seq(UpMsgs) /\ Range(first \o t) = Range(first) \cup Range(t)
      /\ \A K : Number(first \o t, K) = Number(first, K) + Number(t, K)
  BY Joined
<1>3. PICK u \in Seq(UpMsgs) : u = first \o t
  BY <1>2
<1>4. /\ u \o next \in Seq(UpMsgs) /\ Range(u \o next) = Range(u) \cup Range(next)
      /\ \A K : Number(u \o next, K) = Number(u, K) + Number(next, K)
  BY Joined
<1>5. first \o <<x>> \o next = u \o next
  BY <1>1, <1>3
<1> QED BY <1>1, <1>2, <1>3, <1>4, <1>5

Posting(t, first) ==
    /\ t \in Seq(UpMsgs)
    /\ upWorker' = IF channel THEN upWorker \o t ELSE upWorker
    /\ \A m \in Range(t) : m \in Range(first) \/ m.k \in {"eof", "digest", "done"}
    /\ LoopStep(t)

\* What comes with the step: an answer of the user, a cancel, or nothing.
Before(first) == first \in Seq(UpMsgs) /\ \A m \in Range(first) : m.k \in {"overwrite", "skip", "cancel"}

LEMMA BeforeIsQuiet ==
    ASSUME NEW first, Before(first)
    PROVE  Quiet(first) /\ Number(first, Tokens) = 0
<1>1. \A m \in Range(first) : m \in UpMsgs /\ m.k \notin {"digest", "confirm"}
  BY InRange DEF Before
<1>2. \A m \in Range(first) : m \notin Tokens
  BY <1>1, Kinds
<1> QED BY <1>2, NumberZero DEF Before, Quiet

LEMMA GoOnPosts ==
    ASSUME UpTypes, NEW n \in 0 .. UpBlocks, NEW status, NEW first, Before(first),
           GoOn(n, status, first), at # "left", Remaining <= Asked,
           ~JobStopped(status) =>
               /\ Remaining = 0
               /\ channel /\ far.k = "taking" => Given(file) = n
    PROVE  \E t : Posting(t, first)
<1>1. Quiet(first) /\ Number(first, Tokens) = 0 /\ first \in Seq(UpMsgs)
  BY BeforeIsQuiet DEF Before
<1>2. UpBlocks \in Nat \ {0} /\ n \in Nat /\ n <= UpBlocks /\ 0 \in 0 .. UpBlocks
  BY UploadAssumption
<1>3. CASE n < UpBlocks
  <2>1. /\ at' = (IF JobStopped(status) THEN "left" ELSE "reading")
        /\ offset' = n /\ file' = file
        /\ upWorker' = IF channel THEN upWorker \o first ELSE upWorker
    BY <1>3 DEF GoOn, Post
  <2>2. JobStopped(status) => Leaves(first)
    BY <1>1, <2>1 DEF Leaves
  <2>3. ~JobStopped(status) => GoesOn(first)
    BY <1>1, <1>3, <2>1 DEF GoesOn
  <2>4. Posting(first, first)
    BY <1>1, <2>1, <2>2, <2>3 DEF Posting, LoopStep
  <2> QED BY <2>4
<1>4. CASE ~(n < UpBlocks)
  <2>1. n = UpBlocks
    BY <1>2, <1>4
  <2> DEFINE end == M("eof", file)
             next == IF JobStopped(status) THEN <<>>
                     ELSE IF file = upFiles THEN <<M("done", 0)>> ELSE <<M("digest", file + 1)>>
             t == first \o <<end>> \o next
  <2>2. /\ at' = (IF JobStopped(status) \/ file = upFiles THEN "left" ELSE "confirming")
        /\ file' = (IF at' = "left" THEN file ELSE file + 1)
        /\ offset' = 0
        /\ upWorker' = IF channel THEN upWorker \o t ELSE upWorker
    BY <1>4 DEF GoOn, Post
  <2>3. file \in Nat /\ upFiles \in Nat
    BY DEF UpTypes, UpFiles
  <2>4. end \in UpMsgs /\ end.k = "eof" /\ end \notin Tokens
    <3>1. end \in UpMsgs /\ end.k = "eof"
      BY <2>3, MType DEF UpKinds
    <3> HIDE DEF end
    <3> QED BY <3>1, Kinds
  <2> HIDE DEF end
  <2>5. CASE JobStopped(status)
    <3>1. next \in Seq(UpMsgs) /\ Range(next) = {}
      BY <2>5, EmptyQueue
    <3> HIDE DEF next
    <3>2. t \in Seq(UpMsgs) /\ Range(t) = Range(first) \cup {end}
      BY <1>1, <2>4, <3>1, TwoMore
    <3> HIDE DEF t
    <3>3. Leaves(t)
      BY <1>1, <1>2, <2>2, <2>4, <2>5, <3>2 DEF Leaves, Quiet
    <3> QED BY <2>2, <2>4, <3>2, <3>3 DEF Posting, LoopStep
  <2>6. CASE ~JobStopped(status) /\ file = upFiles
    <3>1. next = <<M("done", 0)>> /\ M("done", 0) \in UpMsgs /\ M("done", 0).k = "done"
      BY <2>6, MType DEF UpKinds
    <3>2. next \in Seq(UpMsgs) /\ Range(next) = {M("done", 0)}
      BY <3>1, OneMessage
    <3> HIDE DEF next
    <3>3. t \in Seq(UpMsgs) /\ Range(t) = Range(first) \cup {end} \cup {M("done", 0)}
      BY <1>1, <2>4, <3>2, TwoMore
    <3> HIDE DEF t
    <3>4. \A m \in Range(t) : m.k # "digest" /\ (m \in Range(first) \/ m.k \in {"eof", "digest", "done"})
      BY <1>1, <2>4, <3>1, <3>3 DEF Quiet
    <3>5. Finishes(t)
      BY <2>1, <2>2, <2>6, <3>4 DEF Finishes, Done
    <3> QED BY <2>2, <3>3, <3>4, <3>5 DEF Posting, LoopStep
  <2>7. CASE ~JobStopped(status) /\ file # upFiles
    <3> DEFINE x == M("digest", file + 1)
    <3>1. next = <<x>> /\ x \in UpMsgs /\ x.k = "digest" /\ x.f = file + 1
      BY <2>3, <2>7, MType DEF UpKinds
    <3> HIDE DEF x, next
    <3>0. x \in Tokens
      BY <3>1, Kinds
    <3>2. next \in Seq(UpMsgs) /\ Range(next) = {x} /\ Number(next, Tokens) = 1
      BY <3>0, <3>1, OneMessage
    <3>3. /\ t \in Seq(UpMsgs) /\ Range(t) = Range(first) \cup {end} \cup {x}
          /\ Number(t, Tokens) = Number(first, Tokens) + (IF end \in Tokens THEN 1 ELSE 0) + Number(next, Tokens)
      BY <1>1, <2>4, <3>2, TwoMore
    <3> HIDE DEF t
    <3>4. \A m \in Range(t) : /\ (m.k = "digest" => m.f = file + 1) /\ m.k # "done"
                              /\ m \in Range(first) \/ m.k \in {"eof", "digest", "done"}
      BY <1>1, <2>4, <3>1, <3>3 DEF Quiet
    <3>5. Number(t, Tokens) = 1
      BY <1>1, <2>4, <3>2, <3>3
    <3>6. channel
      BY <2>7 DEF JobStopped
    <3>7. Announces(t)
      BY <2>1, <2>2, <2>7, <3>4, <3>5, <3>6 DEF Announces, Done
    <3> QED BY <2>2, <3>3, <3>4, <3>7 DEF Posting, LoopStep
  <2> QED BY <2>5, <2>6, <2>7
<1> QED BY <1>3, <1>4

LEMMA PassOverPosts ==
    ASSUME UpTypes, NEW first, Before(first), PassOver(first), channel, at # "left",
           Remaining = 0, file \in upSkipped'
    PROVE  \E t : Posting(t, first)
<1>1. Quiet(first) /\ Number(first, Tokens) = 0 /\ first \in Seq(UpMsgs)
  BY BeforeIsQuiet DEF Before
<1>2. file \in Nat /\ upFiles \in Nat
  BY DEF UpTypes, UpFiles
<1> DEFINE x == IF file = upFiles THEN M("done", 0) ELSE M("digest", file + 1)
           t == first \o <<x>>
<1>3. /\ at' = (IF file = upFiles THEN "left" ELSE "confirming")
      /\ file' = (IF at' = "left" THEN file ELSE file + 1)
      /\ offset' = 0 /\ upWorker' = IF channel THEN upWorker \o t ELSE upWorker
  BY DEF PassOver, Post
<1>4. /\ x \in UpMsgs /\ x.k = (IF file = upFiles THEN "done" ELSE "digest")
      /\ file # upFiles => x.f = file + 1
  BY <1>2, MType DEF UpKinds
<1> HIDE DEF x
<1>5. /\ t \in Seq(UpMsgs) /\ Range(t) = Range(first) \cup {x}
      /\ Number(t, Tokens) = IF x \in Tokens THEN 1 ELSE 0
  <2>1. PICK u \in Seq(UpMsgs) : /\ u = <<x>> /\ Range(u) = {x}
                                 /\ Number(u, Tokens) = IF x \in Tokens THEN 1 ELSE 0
    BY <1>4, OneMessage
  <2>2. /\ first \o u \in Seq(UpMsgs) /\ Range(first \o u) = Range(first) \cup Range(u)
        /\ Number(first \o u, Tokens) = Number(first, Tokens) + Number(u, Tokens)
    BY <1>1, Joined
  <2> QED BY <1>1, <2>1, <2>2
<1>6. x \in Tokens <=> file # upFiles
  BY <1>4, Kinds
<1> HIDE DEF t
<1>7. file = upFiles => Finishes(t)
  BY <1>1, <1>3, <1>4, <1>5 DEF Finishes, Done, Quiet
<1>8. file # upFiles => Announces(t)
  BY <1>1, <1>3, <1>4, <1>5, <1>6 DEF Announces, Done, Quiet
<1> QED BY <1>3, <1>4, <1>5, <1>7, <1>8 DEF Posting, LoopStep

LEMMA ConfirmedPosts ==
    ASSUME UpTypes, NEW skip \in BOOLEAN, NEW n \in 0 .. UpBlocks, NEW first, Before(first),
           Confirmed(skip, n, first), Remaining <= Asked,
           at = "confirming" => Remaining = 0,
           at = "confirming" /\ ~skip /\ channel /\ far.k = "taking" => Given(file) = n,
           at = "confirming" /\ skip => file \in upSkipped',
           at = "sending" /\ upStatus' = "running" =>
               Number(upPage', Of({"sent"})) = Number(upPage, Of({"sent"}))
    PROVE  \E t : Posting(t, first)
<1>1. Quiet(first) /\ Number(first, Tokens) = 0 /\ first \in Seq(UpMsgs) /\ offset \in 0 .. UpBlocks
  BY BeforeIsQuiet DEF Before, UpTypes
<1>2. CASE at # "confirming"
  <2>1. UNCHANGED loopVars /\ upWorker' = IF channel THEN upWorker \o first ELSE upWorker
    BY <1>2 DEF Confirmed, Post
  <2>2. Stays(first)
    BY <1>1, <1>2, <2>1 DEF Stays
  <2> QED BY <1>1, <2>1, <2>2 DEF Posting, LoopStep
<1>3. CASE at = "confirming" /\ JobStopped(upStatus)
  <2>1. /\ at' = "left" /\ file' = file /\ offset' = offset
        /\ upWorker' = IF channel THEN upWorker \o first ELSE upWorker
    BY <1>3 DEF Confirmed, Post
  <2>2. Leaves(first)
    BY <1>1, <2>1 DEF Leaves
  <2> QED BY <1>1, <2>1, <2>2 DEF Posting, LoopStep
<1>4. CASE at = "confirming" /\ ~JobStopped(upStatus) /\ skip
  BY <1>4, PassOverPosts DEF Confirmed, JobStopped
<1>5. CASE at = "confirming" /\ ~JobStopped(upStatus) /\ ~skip
  <2>1. GoOn(n, upStatus, first)
    BY <1>5 DEF Confirmed
  <2> QED BY <1>5, <2>1, GoOnPosts
<1> QED BY <1>2, <1>3, <1>4, <1>5

LEMMA StopPosts ==
    ASSUME UpTypes, NEW status \in {"error", "cancelled"}, NEW first, Before(first),
           StopJob(status, first), Remaining <= Asked
    PROVE  \E t : Posting(t, first)
<1>1. Quiet(first) /\ Number(first, Tokens) = 0 /\ first \in Seq(UpMsgs) /\ offset \in 0 .. UpBlocks
  BY BeforeIsQuiet DEF Before, UpTypes
<1>2. upStatus' # "running"
  BY DEF StopJob
<1>3. CASE at = "confirming"
  <2>1. /\ at' = "left" /\ file' = file /\ offset' = offset
        /\ upWorker' = IF channel THEN upWorker \o first ELSE upWorker
    BY <1>3 DEF StopJob, Post
  <2>2. Leaves(first)
    BY <1>1, <2>1 DEF Leaves
  <2> QED BY <1>1, <2>1, <2>2 DEF Posting, LoopStep
<1>4. CASE at = "sending"
  <2>1. GoOn(offset + 1, status, first) /\ JobStopped(status)
    BY <1>4 DEF StopJob, JobStopped
  <2>2. offset + 1 \in 0 .. UpBlocks
    BY <1>4, UploadAssumption DEF UpTypes
  <2> QED BY <1>4, <2>1, <2>2, GoOnPosts
<1>5. CASE at \notin {"confirming", "sending"}
  <2>1. UNCHANGED loopVars /\ upWorker' = IF channel THEN upWorker \o first ELSE upWorker
    BY <1>5 DEF StopJob, Post
  <2>2. Stays(first)
    BY <1>1, <1>5, <2>1 DEF Stays
  <2> QED BY <1>1, <2>1, <2>2 DEF Posting, LoopStep
<1> QED BY <1>3, <1>4, <1>5

\* What else a step of the page does.
PageStep(first) ==
    /\ \A m \in Range(first) : /\ m.k = "skip" => m.f \in upSkipped'
                               /\ m.k = "cancel" => upStatus' # "running"
    /\ UNCHANGED <<upFiles, channel, upFar, far>>
    /\ upPage' = upPage \/ (upPage # <<>> /\ upPage' = Tail(upPage))
    /\ upStatus' \in {"running", "done", "error", "cancelled"}
    /\ upPolicy' \in {"ask", "overwrite", "skip"}
    /\ upSkipped \subseteq upSkipped' /\ upSkipped' \subseteq UpFiles
    /\ questions' \subseteq {file}
    /\ upStatus' = "running" =>
          upStatus = "running" /\ Number(upPage', Of({"error"})) = Number(upPage, Of({"error"}))
    /\ upStatus' = "done" => upStatus = "done" \/ far.k = "done" \/ UpFiles \subseteq upSkipped'

LEMMA PageKeeps ==
    ASSUME UpInv, NEW first, Before(first), PageStep(first), \E t : Posting(t, first)
    PROVE  UpInv'
<1>1. PICK t : Posting(t, first)
  OBVIOUS
<1>2. \A m \in Range(t) : m \in Range(first) \/ m.k \in {"eof", "digest", "done"}
  BY <1>1 DEF Posting
<1>3. \A m \in Range(t) : /\ m.k \notin {"block", "confirm"}
                          /\ m.k = "skip" => m.f \in upSkipped'
                          /\ m.k \in {"cancel", "error"} => upStatus' # "running"
  BY <1>2 DEF Before, PageStep
<1>4. LoopPosts(t)
  BY <1>1, <1>3 DEF LoopPosts, PageStep, Posting
<1> QED BY <1>1, <1>4, LoopKeeps DEF Posting

LEMMA NothingBefore == Before(<<>>) /\ Range(<<>>) = {}
BY EmptyQueue DEF Before

\* An event taken by the page.
LEMMA Event ==
    ASSUME UpInv, upPage # <<>>, upPage' = Tail(upPage)
    PROVE  /\ Head(upPage) \in UpMsgs /\ upPage' \in Seq(UpMsgs)
           /\ Range(upPage) = {Head(upPage)} \cup Range(upPage')
           /\ \A K : /\ Number(upPage, K) = Number(upPage', K) + IF Head(upPage) \in K THEN 1 ELSE 0
                     /\ Number(upPage', K) \in Nat
           /\ \A K : Number(upWorker, K) \in Nat /\ Number(upFar, K) \in Nat
<1>1. upPage \in Seq(UpMsgs) /\ upWorker \in Seq(UpMsgs) /\ upFar \in Seq(UpMsgs)
  BY DEF UpInv, UpTypes
<1>2. /\ Head(upPage) \in UpMsgs /\ upPage' \in Seq(UpMsgs)
      /\ Range(upPage) = {Head(upPage)} \cup Range(upPage')
      /\ \A K : Number(upPage, K) = Number(upPage', K) + IF Head(upPage) \in K THEN 1 ELSE 0
  BY <1>1, Taken
<1> QED BY <1>1, <1>2, NumberType

\* A file the loop asks about and nobody has confirmed is one the device has nothing of.
LEMMA NothingGiven ==
    ASSUME UpInv, at = "confirming", channel, far.k = "taking",
           \A m \in Range(upPage) : m.k # "confirm"
    PROVE  Given(file) = 0
BY DEF UpInv, Counted

\* The go-ahead of the device.
LEMMA ConfirmHeard ==
    ASSUME UpInv, PageReceives, Head(upPage).k = "confirm"
    PROVE  UpInv'
<1> DEFINE m == Head(upPage)
<1>1. /\ upPage # <<>> /\ upPage' = Tail(upPage) /\ Confirmed(FALSE, m.n, <<>>)
      /\ UNCHANGED <<upStatus, questions, upSkipped, upFiles, upPolicy, channel, upFar, far>>
  BY DEF PageReceives
<1>2. /\ m \in UpMsgs /\ m \in Range(upPage)
      /\ \A K : Number(upPage, K) = Number(upPage', K) + IF m \in K THEN 1 ELSE 0
      /\ \A K : Number(upPage', K) \in Nat /\ Number(upWorker, K) \in Nat /\ Number(upFar, K) \in Nat
  BY <1>1, Event
<1>3. m.n \in 0 .. UpBlocks /\ m \in Tokens /\ m \notin Of({"sent"}) /\ m \notin Of({"error"})
  <2>1. m.n \in 0 .. UpBlocks
    BY <1>2 DEF UpMsgs
  <2> QED BY <1>2, <2>1, Kinds
<1> HIDE DEF m
<1>4. /\ Asked <= 1 /\ Asked = Remaining + 1
      /\ Number(upPage', Of({"sent"})) = Number(upPage, Of({"sent"}))
      /\ Number(upPage', Of({"error"})) = Number(upPage, Of({"error"}))
  <2>1. Asked <= 1
    BY DEF UpInv, Asking
  <2>2. Number(upPage, Tokens) = Number(upPage', Tokens) + 1
    BY <1>2, <1>3
  <2>3. /\ Number(upPage', Of({"sent"})) = Number(upPage, Of({"sent"}))
        /\ Number(upPage', Of({"error"})) = Number(upPage, Of({"error"}))
    BY <1>2, <1>3
  <2>4. /\ Number(upPage', Tokens) \in Nat /\ Number(upWorker, Tokens) \in Nat
        /\ Number(upFar, Tokens) \in Nat
    BY <1>2
  <2>5. Asked = Remaining + 1
    BY <1>1, <2>2, <2>4 DEF Asked, Remaining
  <2> QED BY <2>1, <2>3, <2>5
<1>5. Remaining \in Nat
  BY <1>2 DEF Remaining
<1>6. at = "confirming" /\ channel /\ far.k = "taking" => Given(file) = m.n
  BY <1>2, m.k = "confirm" DEF UpInv, Counted, m
<1>7. \E t : Posting(t, <<>>)
  <2> DEFINE n == m.n
             skip == FALSE
  <2>1. UpTypes /\ n \in 0 .. UpBlocks /\ skip \in BOOLEAN /\ Confirmed(skip, n, <<>>)
    BY <1>1, <1>3 DEF UpInv, m
  <2>2. /\ Remaining <= Asked /\ (at = "confirming" => Remaining = 0)
        /\ at = "confirming" /\ ~skip /\ channel /\ far.k = "taking" => Given(file) = n
        /\ at = "confirming" /\ skip => file \in upSkipped'
    BY <1>4, <1>5, <1>6
  <2> HIDE DEF n, skip
  <2> QED BY <1>4, <2>1, <2>2, NothingBefore, ConfirmedPosts
<1>8. PageStep(<<>>)
  <2>1. UpTypes /\ questions \subseteq {file}
    BY DEF UpInv, Asking
  <2> QED BY <1>1, <1>4, <2>1, NothingBefore DEF PageStep, UpTypes
<1> QED BY <1>7, <1>8, NothingBefore, PageKeeps

\* An answer, for the file the loop asks about.
LEMMA AnswerPosts ==
    ASSUME UpInv, NEW decision \in {"overwrite", "skip"}, Answer(file, decision), Remaining = 0,
           Number(upPage', Of({"sent"})) = Number(upPage, Of({"sent"})),
           \A m \in Range(upPage) : m.k # "confirm"
    PROVE  /\ Before(<<M(decision, file)>>) /\ Range(<<M(decision, file)>>) = {M(decision, file)}
           /\ M(decision, file).k = decision /\ M(decision, file).f = file
           /\ \E t : Posting(t, <<M(decision, file)>>)
           /\ upSkipped \subseteq upSkipped' /\ upSkipped' \subseteq UpFiles
           /\ decision = "skip" => file \in upSkipped'
<1> DEFINE x == M(decision, file)
<1>1. /\ UpTypes /\ file \in Nat /\ file \in UpFiles /\ upSkipped \subseteq UpFiles
  BY DEF UpInv, UpTypes, UpFiles
<1>2. x \in UpMsgs /\ x.k = decision /\ x.f = file
  BY <1>1, MType DEF UpKinds
<1>3. /\ upSkipped' = (IF decision = "skip" THEN upSkipped \cup {file} ELSE upSkipped)
      /\ Confirmed(decision = "skip", 0, <<x>>)
  BY DEF Answer
<1> HIDE DEF x
<1>4. <<x>> \in Seq(UpMsgs) /\ Range(<<x>>) = {x}
  BY <1>2, OneMessage
<1>5. Before(<<x>>)
  BY <1>2, <1>4 DEF Before
<1>6. at = "confirming" /\ channel /\ far.k = "taking" => Given(file) = 0
  BY NothingGiven
<1>7. 0 \in 0 .. UpBlocks /\ Remaining <= Asked
  <2>1. Asked \in Nat
    <3>1. /\ Number(upWorker, Tokens) \in Nat /\ Number(upFar, Tokens) \in Nat
          /\ Number(upPage, Tokens) \in Nat
      BY <1>1, NumberType DEF UpTypes
    <3> QED BY <3>1 DEF Asked
  <2> QED BY <2>1, UploadAssumption
<1>8. \E t : Posting(t, <<x>>)
  <2> DEFINE skip == decision = "skip"
  <2>1. skip \in BOOLEAN /\ Confirmed(skip, 0, <<x>>) /\ (skip => file \in upSkipped')
    BY <1>3
  <2> HIDE DEF skip
  <2> QED BY <1>1, <1>5, <1>6, <1>7, <2>1, ConfirmedPosts
<1> QED BY <1>1, <1>2, <1>3, <1>4, <1>5, <1>8 DEF x

\* The device asks whether to replace a file: the user is asked in turn, or has answered
\* for all.
LEMMA QuestionHeard ==
    ASSUME UpInv, PageReceives, Head(upPage).k = "digest"
    PROVE  UpInv'
<1> DEFINE m == Head(upPage)
<1>1. /\ upPage # <<>> /\ upPage' = Tail(upPage)
      /\ UNCHANGED <<upStatus, upFiles, upPolicy, channel, upFar, far>>
      /\ IF upPolicy = "ask"
         THEN /\ questions' = questions \cup {m.f}
              /\ UNCHANGED <<loopVars, upSkipped, upWorker>>
         ELSE Answer(m.f, upPolicy) /\ UNCHANGED questions
  BY DEF PageReceives
<1>2. /\ m \in UpMsgs /\ m \in Range(upPage) /\ Range(upPage) = {m} \cup Range(upPage')
      /\ upPage' \in Seq(UpMsgs)
      /\ \A K : Number(upPage, K) = Number(upPage', K) + IF m \in K THEN 1 ELSE 0
      /\ \A K : Number(upPage', K) \in Nat /\ Number(upWorker, K) \in Nat /\ Number(upFar, K) \in Nat
  BY <1>1, Event
<1>3. m.k = "digest" /\ m \in Tokens /\ m \notin Of({"sent"}) /\ m \notin Of({"error"})
  BY <1>2, Kinds
<1> HIDE DEF m
<1>4. /\ Asking /\ UpTypes /\ questions \subseteq {file} /\ m.f = file
      /\ Number(upPage', Of({"sent"})) = Number(upPage, Of({"sent"}))
      /\ Number(upPage', Of({"error"})) = Number(upPage, Of({"error"}))
      /\ Number(upPage, Tokens) = Number(upPage', Tokens) + 1
  BY <1>2, <1>3 DEF UpInv, Asking
<1>5. /\ questions = {} /\ Number(upPage', Tokens) = 0 /\ Number(upWorker, Tokens) = 0
      /\ Number(upFar, Tokens) = 0 /\ Asked = 1
  BY <1>2, <1>4, SMTT(20) DEF Asking, Asked
<1>6. \A x \in Range(upPage) : x.k # "confirm"
  <2>1. \A x \in Range(upPage') : x \notin Tokens /\ x \in UpMsgs
    BY <1>2, <1>5, NumberZero, InRange
  <2>2. \A x \in Range(upPage') : x.k # "confirm"
    BY <2>1, Kinds
  <2> QED BY <1>2, <1>3, <2>2
<1>7. CASE upPolicy = "ask"
  <2>0. questions' = {file} /\ UNCHANGED <<loopVars, upSkipped, upWorker>>
    BY <1>1, <1>4, <1>5, <1>7
  <2>1. /\ questions' = {file} /\ UNCHANGED <<loopVars, upSkipped, upWorker>>
        /\ Remaining = 1 /\ Asked = 1
    BY <1>5, <2>0 DEF Remaining
  <2>2. upWorker' = IF channel THEN upWorker \o <<>> ELSE upWorker
    BY <1>4, <2>1, ConcatEmptySeq DEF UpTypes
  <2>3. Stays(<<>>)
    <3>1. \A x \in UpMsgs : x.k = "confirm" => (x \in Range(upPage') <=> x \in Range(upPage))
      BY <1>2, <1>3
    <3>2. Quiet(<<>>)
      BY NothingBefore DEF Quiet
    <3> QED BY <1>4, <2>1, <3>1, <3>2 DEF Stays
  <2>4. Posting(<<>>, <<>>)
    BY <2>2, <2>3, NothingBefore DEF Posting, LoopStep, Before
  <2>5. PageStep(<<>>)
    BY <1>1, <1>4, <2>1, NothingBefore DEF PageStep, UpTypes
  <2> QED BY <2>4, <2>5, NothingBefore, PageKeeps
<1>8. CASE upPolicy # "ask"
  <2>1. Answer(file, upPolicy) /\ upPolicy \in {"overwrite", "skip"} /\ Remaining = 0
        /\ questions' = questions
    BY <1>1, <1>4, <1>5, <1>8 DEF Remaining, UpTypes
  <2> DEFINE y == M(upPolicy, file)
  <2>2. /\ Before(<<y>>) /\ Range(<<y>>) = {y} /\ y.k = upPolicy /\ y.f = file
        /\ \E t : Posting(t, <<y>>)
        /\ upSkipped \subseteq upSkipped' /\ upSkipped' \subseteq UpFiles
        /\ upPolicy = "skip" => file \in upSkipped'
    BY <1>4, <1>6, <2>1, AnswerPosts
  <2> HIDE DEF y
  <2>3. PageStep(<<y>>)
    BY <1>1, <1>4, <2>1, <2>2 DEF PageStep, UpTypes
  <2> QED BY <2>2, <2>3, PageKeeps
<1> QED BY <1>7, <1>8

\* The worker's word that a block, or the end of a file, was sent.
LEMMA SentHeard ==
    ASSUME UpInv, PageReceives, Head(upPage).k = "sent"
    PROVE  UpInv'
<1> DEFINE m == Head(upPage)
<1>1. /\ upPage # <<>> /\ upPage' = Tail(upPage)
      /\ UNCHANGED <<upStatus, questions, upSkipped, upFiles, upPolicy, channel, upFar, far>>
      /\ \/ at = "sending" /\ GoOn(offset + 1, upStatus, <<>>)
         \/ at = "sending" /\ at' = "pausing" /\ offset' = offset + 1 /\ UNCHANGED <<file, upWorker>>
         \/ at # "sending" /\ UNCHANGED <<loopVars, upWorker>>
  BY DEF PageReceives
<1>2. /\ m \in UpMsgs /\ Range(upPage) = {m} \cup Range(upPage')
      /\ \A K : Number(upPage, K) = Number(upPage', K) + IF m \in K THEN 1 ELSE 0
      /\ \A K : Number(upPage', K) \in Nat /\ Number(upWorker, K) \in Nat /\ Number(upFar, K) \in Nat
  BY <1>1, Event
<1>3. m.k = "sent" /\ m \notin Tokens /\ m \notin Of({"error"})
  BY <1>2, Kinds
<1> HIDE DEF m
<1>4. /\ UpTypes /\ Asking /\ questions \subseteq {file} /\ upWorker \in Seq(UpMsgs)
      /\ Number(upPage', Of({"error"})) = Number(upPage, Of({"error"}))
      /\ Number(upPage', Tokens) = Number(upPage, Tokens)
  <2>1. UpTypes /\ Asking /\ questions \subseteq {file} /\ upWorker \in Seq(UpMsgs)
    BY DEF UpInv, Asking, UpTypes
  <2>2. /\ Number(upPage', Of({"error"})) = Number(upPage, Of({"error"}))
        /\ Number(upPage', Tokens) = Number(upPage, Tokens)
    BY <1>2, <1>3
  <2> QED BY <2>1, <2>2
<1>5. Remaining = Asked /\ Asked \in Nat
  BY <1>1, <1>2, <1>4, SMTT(20) DEF Remaining, Asked
<1>6. ASSUME at = "sending"
      PROVE  /\ Remaining = 0 /\ offset + 1 \in 0 .. UpBlocks
             /\ channel /\ far.k = "taking" => Given(file) = offset + 1
  <2>1. Remaining = 0
    BY <1>4, <1>5, <1>6 DEF Asking
  <2>2. offset + 1 \in 0 .. UpBlocks
    BY <1>4, <1>6, UploadAssumption DEF UpTypes
  <2> QED BY <1>6, <2>1, <2>2 DEF UpInv, Counted
<1>7. upWorker \o <<>> = upWorker /\ Before(<<>>) /\ Quiet(<<>>) /\ <<>> \in Seq(UpMsgs)
  BY <1>4, ConcatEmptySeq, NothingBefore DEF Quiet, Before
<1>8. \E t : Posting(t, <<>>)
  <2>1. CASE at = "sending" /\ GoOn(offset + 1, upStatus, <<>>)
    <3> DEFINE n == offset + 1
    <3>1. /\ n \in 0 .. UpBlocks /\ GoOn(n, upStatus, <<>>) /\ at # "left" /\ Remaining <= Asked
          /\ Remaining = 0 /\ (channel /\ far.k = "taking" => Given(file) = n)
      BY <1>5, <1>6, <2>1
    <3> HIDE DEF n
    <3> QED BY <1>4, <1>7, <3>1, GoOnPosts
  <2>2. CASE at = "sending" /\ at' = "pausing" /\ offset' = offset + 1 /\ UNCHANGED <<file, upWorker>>
    <3>1. GoesOn(<<>>)
      BY <1>6, <1>7, <2>2 DEF GoesOn
    <3> QED BY <1>7, <2>2, <3>1 DEF Posting, LoopStep
  <2>3. CASE at # "sending" /\ UNCHANGED <<loopVars, upWorker>>
    <3>1. \A x \in UpMsgs : x.k = "confirm" => (x \in Range(upPage') <=> x \in Range(upPage))
      BY <1>2, <1>3
    <3>2. Stays(<<>>)
      BY <1>5, <1>7, <2>3, <3>1 DEF Stays
    <3> QED BY <1>7, <2>3, <3>2 DEF Posting, LoopStep
  <2> QED BY <1>1, <2>1, <2>2, <2>3
<1>9. PageStep(<<>>)
  BY <1>1, <1>4, NothingBefore DEF PageStep, UpTypes
<1> QED BY <1>7, <1>8, <1>9, PageKeeps

\* The device's word that all is done, or skipped, or that it failed.
LEMMA EndHeard ==
    ASSUME UpInv, PageReceives, Head(upPage).k \in {"done", "skipped", "error"}
    PROVE  UpInv'
<1> DEFINE m == Head(upPage)
<1>1. /\ upPage # <<>> /\ upPage' = Tail(upPage)
      /\ UNCHANGED <<questions, upSkipped, upFiles, upPolicy, channel, upFar, far>>
      /\ \/ /\ m.k = "done" /\ UNCHANGED <<loopVars, upWorker>>
            /\ upStatus' = IF upStatus = "running" THEN "done" ELSE upStatus
         \/ m.k = "skipped" /\ UNCHANGED <<loopVars, upWorker>> /\ upStatus' = "done"
         \/ m.k = "error" /\ StopJob("error", <<>>)
  BY DEF PageReceives
<1>2. /\ m \in UpMsgs /\ Range(upPage) = {m} \cup Range(upPage')
      /\ \A K : Number(upPage, K) = Number(upPage', K) + IF m \in K THEN 1 ELSE 0
      /\ \A K : Number(upPage', K) \in Nat /\ Number(upWorker, K) \in Nat /\ Number(upFar, K) \in Nat
  BY <1>1, Event
<1>3. m.k \in {"done", "skipped", "error"} /\ m \notin Tokens
  BY <1>2, Kinds
<1>4. /\ m.k = "done" => far.k = "done"
      /\ m.k = "skipped" => UpFiles \subseteq upSkipped
  BY <1>2 DEF UpInv, Echoed
<1> HIDE DEF m
<1>5. /\ UpTypes /\ Asking /\ questions \subseteq {file} /\ upWorker \in Seq(UpMsgs)
      /\ Number(upPage', Tokens) = Number(upPage, Tokens)
  BY <1>2, <1>3 DEF UpInv, Asking, UpTypes
<1>6. Remaining = Asked /\ Asked \in Nat
  BY <1>1, <1>2, <1>5 DEF Remaining, Asked
<1>7. upWorker \o <<>> = upWorker /\ Before(<<>>) /\ Quiet(<<>>) /\ <<>> \in Seq(UpMsgs)
  BY <1>5, ConcatEmptySeq, NothingBefore DEF Quiet, Before
<1>8. upStatus' # "running" /\ (upStatus' = "error" \/ m.k \in {"done", "skipped"})
  BY <1>1 DEF StopJob
<1>9. \E t : Posting(t, <<>>)
  <2>1. CASE m.k = "error" /\ StopJob("error", <<>>)
    BY <1>5, <1>6, <1>7, <2>1, StopPosts
  <2>2. CASE UNCHANGED <<loopVars, upWorker>>
    <3>1. \A x \in UpMsgs : x.k = "confirm" => (x \in Range(upPage') <=> x \in Range(upPage))
      BY <1>2, <1>3
    <3>2. Stays(<<>>)
      BY <1>6, <1>7, <1>8, <2>2, <3>1 DEF Stays
    <3> QED BY <1>7, <2>2, <3>2 DEF Posting, LoopStep
  <2> QED BY <1>1, <2>1, <2>2
<1>10. PageStep(<<>>)
  <2>1. /\ upStatus' \in {"running", "done", "error", "cancelled"}
        /\ upStatus' = "done" => upStatus = "done" \/ far.k = "done" \/ UpFiles \subseteq upSkipped'
    BY <1>1, <1>4, <1>5, <1>8 DEF UpTypes
  <2> QED BY <1>1, <1>5, <1>8, <2>1, NothingBefore DEF PageStep, UpTypes
<1> QED BY <1>7, <1>9, <1>10, PageKeeps

\* Where nothing is heard.
LEMMA Unheard ==
    ASSUME UpInv, upPage' = upPage
    PROVE  /\ upPage \in Seq(UpMsgs) /\ upWorker \in Seq(UpMsgs)
           /\ \A K : Number(upPage, K) \in Nat /\ Number(upWorker, K) \in Nat /\ Number(upFar, K) \in Nat
           /\ questions' = questions => Remaining = Asked
           /\ Asked \in Nat /\ Asked <= 1 /\ questions \subseteq {file}
           /\ Before(<<>>) /\ Quiet(<<>>) /\ <<>> \in Seq(UpMsgs) /\ upWorker \o <<>> = upWorker
<1>1. upPage \in Seq(UpMsgs) /\ upWorker \in Seq(UpMsgs) /\ upFar \in Seq(UpMsgs)
      /\ Asking
  BY DEF UpInv, UpTypes
<1>2. \A K : Number(upPage, K) \in Nat /\ Number(upWorker, K) \in Nat /\ Number(upFar, K) \in Nat
  BY <1>1, NumberType
<1>3. Asked \in Nat /\ (questions' = questions => Remaining = Asked)
  BY <1>2 DEF Asked, Remaining
<1> QED BY <1>1, <1>2, <1>3, NothingBefore, ConcatEmptySeq DEF Asking, Quiet, Before

LEMMA UserAnswered ==
    ASSUME UpInv, NEW f \in questions, NEW decision \in {"overwrite", "skip"},
           NEW applyAll \in BOOLEAN, UserAnswers(f, decision, applyAll)
    PROVE  UpInv'
<1>1. /\ questions' = questions \ {f} /\ Answer(f, decision)
      /\ upPolicy' = (IF applyAll THEN decision ELSE upPolicy)
      /\ UNCHANGED <<upFiles, upStatus, channel, upFar, upPage, far>>
  BY DEF UserAnswers
<1>2. /\ \A K : Number(upPage, K) \in Nat /\ Number(upWorker, K) \in Nat /\ Number(upFar, K) \in Nat
      /\ Asked <= 1 /\ questions \subseteq {file} /\ upPage \in Seq(UpMsgs)
  BY <1>1, Unheard
<1>3. f = file /\ questions' = {} /\ questions # {}
  BY <1>1, <1>2
<1>4. /\ Number(upPage, Tokens) \in Nat /\ Number(upWorker, Tokens) \in Nat
      /\ Number(upFar, Tokens) \in Nat
  BY <1>2
<1>5. /\ Number(upPage, Tokens) = 0 /\ Number(upWorker, Tokens) = 0 /\ Number(upFar, Tokens) = 0
  BY <1>2, <1>3, <1>4 DEF Asked
<1>6. Remaining = 0
  BY <1>1, <1>3, <1>5 DEF Remaining
<1>7. \A x \in Range(upPage) : x.k # "confirm"
  <2>1. \A x \in Range(upPage) : x \notin Tokens /\ x \in UpMsgs
    BY <1>2, <1>5, NumberZero, InRange
  <2> QED BY <2>1, Kinds
<1> DEFINE y == M(decision, file)
<1>8. /\ Before(<<y>>) /\ Range(<<y>>) = {y} /\ y.k = decision /\ y.f = file
      /\ \E t : Posting(t, <<y>>)
      /\ upSkipped \subseteq upSkipped' /\ upSkipped' \subseteq UpFiles
      /\ decision = "skip" => file \in upSkipped'
  BY <1>1, <1>3, <1>6, <1>7, AnswerPosts
<1> HIDE DEF y
<1>9. PageStep(<<y>>)
  <2>1. UpTypes
    BY DEF UpInv
  <2> QED BY <1>1, <1>3, <1>8, <2>1 DEF PageStep, UpTypes
<1> QED BY <1>8, <1>9, PageKeeps

LEMMA Cancelled ==
    ASSUME UpInv, NEW answering \in SUBSET questions, UpCancel(answering)
    PROVE  UpInv'
<1> DEFINE x == M("cancel", 0)
<1>1. /\ questions' = questions \ answering /\ StopJob("cancelled", <<x>>)
      /\ upStatus' = "cancelled"
      /\ UNCHANGED <<upFiles, upPolicy, channel, upSkipped, upFar, upPage, far>>
  BY DEF UpCancel, StopJob
<1>2. x \in UpMsgs /\ x.k = "cancel"
  BY MType DEF UpKinds
<1> HIDE DEF x
<1>3. <<x>> \in Seq(UpMsgs) /\ Range(<<x>>) = {x} /\ Before(<<x>>)
  <2>1. <<x>> \in Seq(UpMsgs) /\ Range(<<x>>) = {x}
    BY <1>2, OneMessage
  <2> QED BY <1>2, <2>1 DEF Before
<1>4. /\ \A K : Number(upPage, K) \in Nat /\ Number(upWorker, K) \in Nat /\ Number(upFar, K) \in Nat
      /\ questions \subseteq {file}
  BY <1>1, Unheard
<1>5. Remaining <= Asked
  <2>1. /\ Number(upPage, Tokens) \in Nat /\ Number(upWorker, Tokens) \in Nat
        /\ Number(upFar, Tokens) \in Nat /\ (questions = {} => questions' = {})
    BY <1>1, <1>4
  <2> QED BY <1>1, <2>1 DEF Remaining, Asked
<1>6. UpTypes
  BY DEF UpInv
<1>7. \E t : Posting(t, <<x>>)
  BY <1>1, <1>3, <1>5, <1>6, StopPosts
<1>8. PageStep(<<x>>)
  BY <1>1, <1>2, <1>3, <1>4, <1>6 DEF PageStep, UpTypes
<1> QED BY <1>3, <1>7, <1>8, PageKeeps

LEMMA Resumed ==
    ASSUME UpInv, Resume
    PROVE  UpInv'
<1>1. /\ at = "pausing" /\ GoOn(offset, upStatus, <<>>)
      /\ UNCHANGED <<upFiles, upStatus, upPolicy, channel, questions, upSkipped, upFar, upPage, far>>
  BY DEF Resume
<1>2. Remaining = Asked /\ Asked \in Nat /\ questions \subseteq {file} /\ Before(<<>>)
  BY <1>1, Unheard
<1>3. Asked = 0 /\ UpTypes /\ (channel /\ far.k = "taking" => Given(file) = offset)
  BY <1>1 DEF UpInv, Asking, Counted
<1>4. offset \in 0 .. UpBlocks
  BY <1>3 DEF UpTypes
<1>5. \E t : Posting(t, <<>>)
  BY <1>1, <1>2, <1>3, <1>4, GoOnPosts
<1>6. PageStep(<<>>)
  BY <1>1, <1>2, <1>3, NothingBefore DEF PageStep, UpTypes
<1> QED BY <1>2, <1>5, <1>6, PageKeeps

LEMMA ReadFailed ==
    ASSUME UpInv, ReadFails
    PROVE  UpInv'
<1>1. /\ at = "reading" /\ at' = "left"
      /\ UNCHANGED <<upFiles, upPolicy, channel, file, offset, questions, upSkipped, upFar, upPage, far>>
      /\ \/ UNCHANGED <<upStatus, upWorker>> /\ JobStopped(upStatus)
         \/ upStatus' = "error" /\ Post(<<M("error", 0)>>)
  BY DEF ReadFails
<1>2. /\ Remaining = Asked /\ Asked \in Nat /\ questions \subseteq {file}
      /\ Before(<<>>) /\ Quiet(<<>>) /\ <<>> \in Seq(UpMsgs) /\ upWorker \o <<>> = upWorker
  BY <1>1, Unheard
<1>3. UpTypes
  BY DEF UpInv
<1>4. CASE UNCHANGED <<upStatus, upWorker>>
  <2>1. Leaves(<<>>)
    BY <1>1, <1>2, <1>3 DEF Leaves, UpTypes
  <2>2. Posting(<<>>, <<>>)
    BY <1>2, <1>4, <2>1, NothingBefore DEF Posting, LoopStep
  <2>3. PageStep(<<>>)
    BY <1>1, <1>2, <1>3, <1>4, NothingBefore DEF PageStep, UpTypes
  <2> QED BY <1>2, <2>2, <2>3, PageKeeps
<1>5. CASE upStatus' = "error" /\ Post(<<M("error", 0)>>)
  <2> DEFINE x == M("error", 0)
  <2>1. x \in UpMsgs /\ x.k = "error"
    BY MType DEF UpKinds
  <2>2. upStatus' = "error" /\ upWorker' = IF channel THEN upWorker \o <<x>> ELSE upWorker
    BY <1>5 DEF Post
  <2> HIDE DEF x
  <2>3. PICK t \in Seq(UpMsgs) : t = <<x>> /\ Range(t) = {x}
    BY <2>1, OneMessage
  <2>4. LoopPosts(t)
    BY <1>1, <1>2, <1>3, <2>1, <2>2, <2>3 DEF LoopPosts, UpTypes
  <2>5. Leaves(t)
    BY <1>1, <1>2, <1>3, <2>1, <2>3, SMTT(20) DEF Leaves, Quiet, UpTypes
  <2> QED BY <2>4, <2>5, LoopKeeps DEF LoopStep
<1> QED BY <1>1, <1>4, <1>5

-----------------------------------------------------------------------------
(* The other steps. *)

\* The loop reads a block and hands it over.
LEMMA BlockRead ==
    ASSUME UpInv, ReadBlock
    PROVE  UpInv'
<1> DEFINE x == M("block", file)
<1>1. /\ at = "reading" /\ at' = "sending"
      /\ upWorker' = IF channel THEN upWorker \o <<x>> ELSE upWorker
      /\ UNCHANGED <<upFiles, upStatus, upPolicy, channel, file, offset, questions, upSkipped,
                     upFar, upPage, far>>
  BY DEF ReadBlock, Post
<1>2. UpTypes /\ file \in Nat /\ upWorker \in Seq(UpMsgs) /\ upFar \in Seq(UpMsgs)
  BY DEF UpInv, UpTypes, UpFiles
<1>3. x \in UpMsgs /\ x.k = "block" /\ x.f = file
  BY <1>2, MType DEF UpKinds
<1> HIDE DEF x
<1>4. /\ x \notin Tokens /\ x \in Of({"block"}) /\ \A f : x \in BlocksOf(f) <=> f = file
  BY <1>3, Kinds
<1>5. channel => upWorker' = Append(upWorker, x)
  BY <1>1, <1>2, <1>3, AppendIsConcat
<1>6. \A K : Number(upWorker, K) \in Nat /\ Number(upFar, K) \in Nat /\ Number(upPage, K) \in Nat
  BY <1>1, Unheard
<1>7. /\ upWorker' \in Seq(UpMsgs) /\ Range(upWorker') \subseteq Range(upWorker) \cup {x}
      /\ \A K : Number(upWorker', K) = Number(upWorker, K) + (IF channel /\ x \in K THEN 1 ELSE 0)
  <2>1. CASE channel
    <3>1. /\ Append(upWorker, x) \in Seq(UpMsgs)
          /\ Range(Append(upWorker, x)) = Range(upWorker) \cup {x}
          /\ \A K : Number(Append(upWorker, x), K) = Number(upWorker, K) + IF x \in K THEN 1 ELSE 0
      BY <1>2, <1>3, Sent
    <3>2. upWorker' = Append(upWorker, x)
      BY <1>5, <2>1
    <3>3. \A K : Number(upWorker', K) = Number(upWorker, K) + (IF channel /\ x \in K THEN 1 ELSE 0)
      BY <2>1, <3>1, <3>2
    <3> QED BY <3>1, <3>2, <3>3
  <2>2. CASE ~channel
    <3>1. upWorker' = upWorker
      BY <1>1, <2>2
    <3>2. ASSUME NEW K PROVE Number(upWorker, K) = Number(upWorker, K) + (IF channel /\ x \in K THEN 1 ELSE 0)
      <4>1. Number(upWorker, K) \in Nat
        BY <1>6
      <4> QED BY <2>2, <4>1
    <3> QED BY <1>2, <3>1, <3>2
  <2> QED BY <2>1, <2>2
<1>8. Asked' = Asked
  <2>1. Number(upWorker', Tokens) = Number(upWorker, Tokens)
    <3>1. Number(upWorker, Tokens) \in Nat
      BY <1>6
    <3> QED BY <1>4, <1>7, <3>1
  <2> QED BY <1>1, <2>1 DEF Asked
<1>9. ~Marked /\ ~Marked' /\ Asked = 0
  <2>1. ~Marked /\ Asked = 0
    BY <1>1, Unheard DEF UpInv, Marking, Asking
  <2> QED BY <1>1, <1>3, <1>7, <2>1 DEF Marked
<1>10. UpTypes'
  <2>1. UpFiles' = UpFiles /\ (~channel => upWorker' = <<>>)
    BY <1>1, <1>2 DEF UpFiles, UpTypes
  <2> QED BY <1>1, <1>2, <1>7, <2>1 DEF UpTypes
<1>11. Asking'
  BY <1>1, <1>3, <1>7, <1>8, <1>9, Kinds DEF UpInv, Asking
<1>12. Marking'
  BY <1>1, <1>8, <1>9 DEF UpInv, Marking
<1>13. Awaiting'
  <2> SUFFICES ASSUME upStatus = "running" PROVE Awaiting'
    BY <1>1 DEF Awaiting
  <2>1. channel /\ Number(upWorker', Of({"block"})) = Number(upWorker, Of({"block"})) + 1
    BY <1>2, <1>4, <1>7 DEF UpTypes
  <2>2. /\ far.k = "over" => Number(upPage, Of({"error"})) # 0
        /\ \A m \in Range(upWorker) \cup Range(upFar) : m.k \notin {"cancel", "error"}
    BY DEF UpInv, Awaiting
  <2>3. \A m \in Range(upWorker') \cup Range(upFar') : m.k \notin {"cancel", "error"}
    BY <1>1, <1>3, <1>7, <2>2
  <2>4. Number(upWorker', Of({"block"})) + Number(upPage', Of({"sent"})) # 0
    <3>1. Number(upWorker, Of({"block"})) \in Nat /\ Number(upPage, Of({"sent"})) \in Nat
      BY <1>6
    <3> QED BY <1>1, <2>1, <3>1
  <2> QED BY <1>1, <2>2, <2>3, <2>4 DEF Awaiting
<1>14. Counted'
  <2> SUFFICES ASSUME channel, far.k = "taking" PROVE Counted'
    BY <1>1 DEF Counted
  <2>1. ASSUME NEW f \in UpFiles PROVE Given(f)' = IF f = file THEN Given(f) + 1 ELSE Given(f)
    <3>1. Number(upWorker', BlocksOf(f)) = Number(upWorker, BlocksOf(f)) + (IF f = file THEN 1 ELSE 0)
      BY <1>4, <1>7
    <3>2. /\ far.got[f] \in Nat /\ Number(upWorker, BlocksOf(f)) \in Nat
          /\ Number(upFar, BlocksOf(f)) \in Nat
      BY <1>2, <1>6 DEF UpTypes
    <3> QED BY <1>1, <3>1, <3>2, SMTT(20) DEF Given
  <2>2. file \in UpFiles /\ UpFiles' = UpFiles /\ \A f \in UpFiles : f \in Nat
    BY <1>1, <1>2 DEF UpTypes, UpFiles
  <2>3. Given(file) = offset
    BY <1>1 DEF UpInv, Counted
  <2>4. Given(file)' = offset + 1
    <3>1. PICK g \in UpFiles : g = file
      BY <2>2
    <3>2. Given(g)' = offset + 1
      BY <2>1, <2>3, <3>1
    <3> QED BY <1>1, <3>1, <3>2 DEF Given
  <2>5. \A f \in UpFiles : /\ f < file => f \in upSkipped \/ Given(f)' = UpBlocks
                           /\ f > file => Given(f)' = 0
    BY <1>2, <2>1, <2>2 DEF UpInv, Counted
  <2> QED BY <1>1, <1>9, <2>2, <2>4, <2>5 DEF Counted
<1>15. Ending'
  <2>1. EndIsLast(upWorker') /\ EndIsLast(upFar)
    <3>1. EndIsLast(upWorker) /\ EndIsLast(upFar)
      BY DEF UpInv, Ending
    <3>2. CASE channel
      BY <1>2, <1>3, <1>5, <1>9, <3>1, <3>2, EndSent DEF Marked
    <3>3. CASE ~channel
      BY <1>1, <3>1, <3>3
    <3> QED BY <3>1, <3>2, <3>3
  <2> QED BY <1>1, <1>9, <2>1 DEF Ending, Marked
<1>16. Whole' /\ Echoed'
  <2>1. UpFiles' = UpFiles
    BY <1>1 DEF UpFiles
  <2>2. \A m \in Range(upWorker') : m.k = "skip" => m \in Range(upWorker)
    BY <1>3, <1>7
  <2> QED BY <1>1, <2>1, <2>2 DEF UpInv, Whole, Echoed
<1> QED BY <1>10, <1>11, <1>12, <1>13, <1>14, <1>15, <1>16 DEF UpInv

\* The file connection is lost: nothing is on its way any more, and no job runs.
LEMMA ConnectionLost ==
    ASSUME UpInv, UpChannelLost
    PROVE  UpInv'
<1>1. /\ channel /\ channel' = FALSE
      /\ upStatus' = (IF upStatus = "running" THEN "error" ELSE upStatus)
      /\ at' = (IF upStatus = "running" /\ at \in {"confirming", "sending"} THEN "left" ELSE at)
      /\ upWorker' = <<>> /\ upFar' = <<>> /\ upPage' = <<>>
      /\ UNCHANGED <<upFiles, upPolicy, file, offset, questions, upSkipped, far>>
  BY DEF UpChannelLost
<1>2. /\ upWorker \in Seq(UpMsgs) /\ upFar \in Seq(UpMsgs) /\ upPage \in Seq(UpMsgs) /\ UpTypes
  BY DEF UpInv, UpTypes
<1>3. /\ Number(upWorker, Tokens) \in Nat /\ Number(upFar, Tokens) \in Nat
      /\ Number(upPage, Tokens) \in Nat
  BY <1>2, NumberType
<1>4. Range(<<>>) = {} /\ Number(<<>>, Tokens) = 0 /\ <<>> \in Seq(UpMsgs) /\ DOMAIN <<>> = {}
  BY EmptyQueue
<1>5. Asked' = (IF questions = {} THEN 0 ELSE 1) /\ Asked' <= Asked /\ Asked' <= 1 /\ Asked' >= 0
  BY <1>1, <1>3, <1>4 DEF Asked
<1>6. upStatus' # "running" /\ (at = "left" => at' = "left") /\ at' \in {at, "left"}
  BY <1>1
<1>7. UpTypes'
  <2>1. UpFiles' = UpFiles
    BY <1>1 DEF UpFiles
  <2>2. /\ at' \in {"confirming", "reading", "sending", "pausing", "left"}
        /\ at' \in {"reading", "sending"} => offset < UpBlocks
        /\ upStatus' \in {"running", "done", "error", "cancelled"}
    BY <1>1, <1>2 DEF UpTypes
  <2> QED BY <1>1, <1>2, <1>4, <1>6, <2>1, <2>2 DEF UpTypes
<1>8. Asked # 0 => at \in {"confirming", "left"}
  BY DEF UpInv, Asking
<1>9. Asked \in Nat
  BY <1>3 DEF Asked
<1>10. Asking'
  BY <1>1, <1>4, <1>5, <1>6, <1>8, <1>9 DEF UpInv, Asking
<1>11. Marking'
  <2>1. Marked' => FALSE
    BY <1>1, <1>4 DEF Marked
  <2> QED BY <1>1, <1>5, <1>6, <1>9, <2>1 DEF UpInv, Marking
<1>12. Awaiting' /\ Counted'
  BY <1>1, <1>6 DEF Awaiting, Counted
<1>13. Ending'
  BY <1>1, <1>4 DEF Ending, EndIsLast
<1>14. Whole' /\ Echoed'
  <2>1. UpFiles' = UpFiles
    BY <1>1 DEF UpFiles
  <2> QED BY <1>1, <1>4, <2>1 DEF UpInv, Whole, Echoed
<1> QED BY <1>7, <1>10, <1>11, <1>12, <1>13, <1>14 DEF UpInv

\* The worker passes a message on, and tells the page of a block.
LEMMA WorkerPassed ==
    ASSUME UpInv, WorkerSends
    PROVE  UpInv'
<1> DEFINE m == Head(upWorker)
<1>1. /\ upWorker # <<>> /\ upWorker' = Tail(upWorker) /\ upFar' = Append(upFar, m)
      /\ upPage' = (IF m.k \in {"block", "eof"} THEN Append(upPage, M("sent", m.f)) ELSE upPage)
      /\ UNCHANGED <<upFiles, upStatus, upPolicy, channel, loopVars, questions, upSkipped, far>>
  BY DEF WorkerSends
<1>2. /\ UpTypes /\ upWorker \in Seq(UpMsgs) /\ upFar \in Seq(UpMsgs) /\ upPage \in Seq(UpMsgs)
  BY DEF UpInv, UpTypes
<1>3. /\ m \in UpMsgs /\ upWorker' \in Seq(UpMsgs) /\ Range(upWorker) = {m} \cup Range(upWorker')
      /\ \A K : Number(upWorker, K) = Number(upWorker', K) + IF m \in K THEN 1 ELSE 0
  BY <1>1, <1>2, Taken
<1>4. EndIsLast(upWorker) => /\ EndIsLast(upWorker')
                             /\ m.k = "done" => \A x \in Range(upWorker') : x.k # "block"
  BY <1>1, <1>2, EndTaken
<1> DEFINE s == M("sent", m.f)
<1>5. m.f \in Nat
  BY <1>3 DEF UpMsgs
<1> HIDE DEF m
<1>6. s \in UpMsgs /\ s.k = "sent"
  BY <1>5, MType DEF UpKinds
<1> HIDE DEF s
<1>7. /\ upFar' \in Seq(UpMsgs) /\ Range(upFar') = Range(upFar) \cup {m}
      /\ \A K : Number(upFar', K) = Number(upFar, K) + IF m \in K THEN 1 ELSE 0
  BY <1>1, <1>2, <1>3, Sent
<1>8. \A K : /\ Number(upWorker', K) \in Nat /\ Number(upFar, K) \in Nat /\ Number(upPage, K) \in Nat
  BY <1>2, <1>3, NumberType
<1>9. /\ upPage' \in Seq(UpMsgs) /\ Range(upPage') \subseteq Range(upPage) \cup {s}
      /\ Range(upPage) \subseteq Range(upPage')
      /\ \A K : Number(upPage', K) =
                  Number(upPage, K) + IF m.k \in {"block", "eof"} /\ s \in K THEN 1 ELSE 0
  <2>1. CASE m.k \in {"block", "eof"}
    <3>1. upPage' = Append(upPage, s)
      BY <1>1, <2>1 DEF s
    <3> QED BY <1>2, <1>6, <2>1, <3>1, Sent
  <2>2. CASE m.k \notin {"block", "eof"}
    BY <1>1, <1>2, <1>8, <2>2
  <2> QED BY <2>1, <2>2
<1>10. /\ s \notin Tokens /\ s \in Of({"sent"}) /\ s \notin Of({"error"})
       /\ m \in Of({"block"}) => m.k = "block"
  BY <1>3, <1>6, Kinds
<1>11. Asked' = Asked
  <2>1. /\ Number(upWorker, Tokens) = Number(upWorker', Tokens) + (IF m \in Tokens THEN 1 ELSE 0)
        /\ Number(upFar', Tokens) = Number(upFar, Tokens) + (IF m \in Tokens THEN 1 ELSE 0)
        /\ Number(upPage', Tokens) = Number(upPage, Tokens)
        /\ Number(upWorker', Tokens) \in Nat /\ Number(upFar, Tokens) \in Nat
        /\ Number(upPage, Tokens) \in Nat
    BY <1>3, <1>7, <1>8, <1>9, <1>10, SMTT(20)
  <2> QED BY <1>1, <2>1 DEF Asked
<1>12. Range(upWorker') \cup Range(upFar') = Range(upWorker) \cup Range(upFar)
  BY <1>3, <1>7
<1>13. UpTypes'
  <2>1. UpFiles' = UpFiles /\ channel
    BY <1>1, <1>2 DEF UpFiles, UpTypes
  <2> QED BY <1>1, <1>2, <1>3, <1>7, <1>9, <2>1 DEF UpTypes, loopVars
<1>14. Asking'
  BY <1>1, <1>9, <1>10, <1>11, <1>12 DEF UpInv, Asking, loopVars
<1>15. Marked' = Marked /\ Marking'
  BY <1>1, <1>11, <1>12 DEF UpInv, Marking, Marked, loopVars
<1>16. Awaiting'
  <2> SUFFICES ASSUME upStatus = "running" PROVE Awaiting'
    BY <1>1 DEF Awaiting
  <2>1. /\ far.k = "taking" /\ at = "confirming" => Asked = 1
        /\ at = "sending" => Number(upWorker, Of({"block"})) + Number(upPage, Of({"sent"})) # 0
        /\ far.k = "over" => Number(upPage, Of({"error"})) # 0
        /\ \A x \in Range(upWorker) \cup Range(upFar) : x.k \notin {"cancel", "error"}
    BY DEF UpInv, Awaiting
  <2>2. /\ Number(upPage', Of({"error"})) = Number(upPage, Of({"error"}))
        /\ Number(upWorker, Of({"block"})) = Number(upWorker', Of({"block"})) + (IF m \in Of({"block"}) THEN 1 ELSE 0)
        /\ Number(upPage', Of({"sent"})) = Number(upPage, Of({"sent"})) + (IF m.k \in {"block", "eof"} THEN 1 ELSE 0)
        /\ Number(upWorker', Of({"block"})) \in Nat /\ Number(upPage, Of({"sent"})) \in Nat
        /\ Number(upPage, Of({"error"})) \in Nat
    BY <1>3, <1>8, <1>9, <1>10, SMTT(20)
  <2>3. at = "sending" => Number(upWorker', Of({"block"})) + Number(upPage', Of({"sent"})) # 0
    <3> DEFINE w == Number(upWorker', Of({"block"}))
               p == Number(upPage, Of({"sent"}))
    <3>1. /\ w \in Nat /\ p \in Nat
          /\ m.k = "block" => Number(upPage', Of({"sent"})) = p + 1
          /\ Number(upPage', Of({"sent"})) \in {p, p + 1}
          /\ m.k # "block" => Number(upWorker, Of({"block"})) = w
      BY <1>10, <2>2
    <3>2. at = "sending" => Number(upWorker, Of({"block"})) + p # 0
      BY <2>1
    <3> HIDE DEF w, p
    <3>3. at = "sending" => w + Number(upPage', Of({"sent"})) # 0
      BY <3>1, <3>2
    <3> QED BY <3>3 DEF w
  <2> QED BY <1>1, <1>11, <1>12, <2>1, <2>2, <2>3 DEF Awaiting, loopVars
<1>17. Counted'
  <2> SUFFICES ASSUME channel, far.k = "taking" PROVE Counted'
    BY <1>1 DEF Counted
  <2>1. ASSUME NEW f \in UpFiles PROVE Given(f)' = Given(f)
    <3>1. /\ Number(upWorker, BlocksOf(f)) = Number(upWorker', BlocksOf(f)) + (IF m \in BlocksOf(f) THEN 1 ELSE 0)
          /\ Number(upFar', BlocksOf(f)) = Number(upFar, BlocksOf(f)) + (IF m \in BlocksOf(f) THEN 1 ELSE 0)
          /\ far.got[f] \in Nat /\ Number(upWorker', BlocksOf(f)) \in Nat
          /\ Number(upFar, BlocksOf(f)) \in Nat
      BY <1>2, <1>3, <1>7, <1>8 DEF UpTypes
    <3>2. Number(upWorker', BlocksOf(f)) + Number(upFar', BlocksOf(f))
            = Number(upWorker, BlocksOf(f)) + Number(upFar, BlocksOf(f))
      BY <3>1
    <3>3. /\ Number(upFar', BlocksOf(f)) \in Nat /\ Number(upWorker, BlocksOf(f)) \in Nat
      BY <3>1
    <3>4. far' = far
      BY <1>1
    <3>5. far.got[f] + Number(upWorker', BlocksOf(f)) + Number(upFar', BlocksOf(f))
            = far.got[f] + Number(upWorker, BlocksOf(f)) + Number(upFar, BlocksOf(f))
      BY <3>1, <3>2, <3>3
    <3> QED BY <3>4, <3>5 DEF Given
  <2>2. file \in UpFiles /\ UpFiles' = UpFiles
    BY <1>1, <1>2 DEF UpTypes, UpFiles
  <2>3. \A x : x.k = "confirm" => (x \in Range(upPage') <=> x \in Range(upPage))
    BY <1>6, <1>9
  <2>4. UNCHANGED <<file, at, offset, far, upSkipped, upFiles>>
    BY <1>1 DEF loopVars
  <2>5. Given(file)' = Given(file)
    <3>1. PICK g \in UpFiles : g = file
      BY <2>2
    <3>2. Given(g)' = Given(file)
      BY <2>1, <3>1
    <3> QED BY <2>4, <3>1, <3>2 DEF Given
  <2> QED BY <1>15, <2>1, <2>2, <2>3, <2>4, <2>5 DEF UpInv, Counted
<1>18. Ending'
  <2>1. /\ EndIsLast(upWorker) /\ EndIsLast(upFar)
        /\ (\E x \in Range(upFar) : x.k = "done") => \A x \in Range(upWorker) : x.k # "block"
    BY DEF UpInv, Ending
  <2>2. EndIsLast(upFar')
    BY <1>1, <1>2, <1>3, <2>1, EndSent
  <2> QED BY <1>3, <1>4, <1>7, <2>1, <2>2 DEF Ending
<1>19. Whole' /\ Echoed'
  <2>1. UpFiles' = UpFiles
    BY <1>1 DEF UpFiles
  <2>2. \A x \in Range(upPage') : x.k # "sent" => x \in Range(upPage)
    BY <1>6, <1>9
  <2> QED BY <1>1, <1>12, <2>1, <2>2 DEF UpInv, Whole, Echoed
<1> QED BY <1>13, <1>14, <1>15, <1>16, <1>17, <1>18, <1>19 DEF UpInv

\* What the device takes.
LEMMA FarTakes ==
    ASSUME UpInv, FarReceives, NEW m, m = Head(upFar)
    PROVE  /\ UNCHANGED <<upFiles, upStatus, upPolicy, channel, file, at, offset, questions,
                          upSkipped, upWorker>>
           /\ UpFiles' = UpFiles /\ channel
           /\ m \in UpMsgs /\ upFar' \in Seq(UpMsgs) /\ Range(upFar) = {m} \cup Range(upFar')
           /\ upPage \in Seq(UpMsgs)
           /\ \A K : Number(upFar, K) = Number(upFar', K) + IF m \in K THEN 1 ELSE 0
           /\ \A K : Number(upFar', K) \in Nat /\ Number(upWorker, K) \in Nat /\ Number(upPage, K) \in Nat
           /\ Ending' /\ (Marked' => Marked)
           /\ m.k = "done" => \A x \in Range(upWorker) \cup Range(upFar') : x.k # "block"
<1>1. /\ upFar # <<>> /\ upFar' = Tail(upFar)
      /\ UNCHANGED <<upFiles, upStatus, upPolicy, channel, file, at, offset, questions, upSkipped,
                     upWorker>>
  BY DEF FarReceives, loopVars
<1>2. /\ UpTypes /\ upWorker \in Seq(UpMsgs) /\ upFar \in Seq(UpMsgs) /\ upPage \in Seq(UpMsgs)
  BY DEF UpInv, UpTypes
<1>3. UpFiles' = UpFiles /\ channel
  BY <1>1, <1>2 DEF UpTypes, UpFiles
<1>4. /\ m \in UpMsgs /\ upFar' \in Seq(UpMsgs) /\ Range(upFar) = {m} \cup Range(upFar')
      /\ \A K : Number(upFar, K) = Number(upFar', K) + IF m \in K THEN 1 ELSE 0
  BY <1>1, <1>2, Taken
<1>5. \A K : Number(upFar', K) \in Nat /\ Number(upWorker, K) \in Nat /\ Number(upPage, K) \in Nat
  BY <1>2, <1>4, NumberType
<1>6. /\ EndIsLast(upWorker) /\ EndIsLast(upFar)
      /\ (\E x \in Range(upFar) : x.k = "done") => \A x \in Range(upWorker) : x.k # "block"
  BY DEF UpInv, Ending
<1>7. /\ EndIsLast(upFar')
      /\ m.k = "done" => \A x \in Range(upFar') : x.k # "block"
  BY <1>1, <1>2, <1>6, EndTaken
<1>8. Ending' /\ (Marked' => Marked)
  BY <1>1, <1>4, <1>6, <1>7 DEF Ending, Marked
<1>9. m.k = "done" => \A x \in Range(upWorker) : x.k # "block"
  BY <1>4, <1>6
<1> QED BY <1>1, <1>2, <1>3, <1>4, <1>5, <1>7, <1>8, <1>9

\* A device that is over, or done, listens no more.
LEMMA FarIsDeaf ==
    ASSUME UpInv, FarReceives, far.k # "taking"
    PROVE  UpInv'
<1>1. PICK m : m = Head(upFar)
  OBVIOUS
<1>2. /\ UNCHANGED <<upFiles, upStatus, upPolicy, channel, file, at, offset, questions,
                     upSkipped, upWorker>>
      /\ UpFiles' = UpFiles /\ channel
      /\ m \in UpMsgs /\ upFar' \in Seq(UpMsgs) /\ Range(upFar) = {m} \cup Range(upFar')
      /\ \A K : Number(upFar, K) = Number(upFar', K) + IF m \in K THEN 1 ELSE 0
      /\ \A K : Number(upFar', K) \in Nat /\ Number(upWorker, K) \in Nat /\ Number(upPage, K) \in Nat
      /\ Ending' /\ (Marked' => Marked)
  BY <1>1, FarTakes
<1>3. far' = far /\ upPage' = upPage
  BY DEF FarReceives
<1>4. Asked' <= Asked /\ Asked' \in Nat
  <2>1. /\ Number(upFar', Tokens) \in Nat /\ Number(upWorker, Tokens) \in Nat
        /\ Number(upPage, Tokens) \in Nat /\ Number(upFar', Tokens) <= Number(upFar, Tokens)
        /\ Number(upFar, Tokens) \in Nat
    BY <1>2
  <2> QED BY <1>2, <1>3, <2>1, SMTT(20) DEF Asked
<1>5. UpTypes'
  BY <1>2, <1>3 DEF UpInv, UpTypes
<1>6. Asking' /\ Marking'
  <2>1. Asked \in Nat
    BY <1>3, Unheard
  <2> QED BY <1>2, <1>3, <1>4, <2>1 DEF UpInv, Asking, Marking
<1>7. Awaiting' /\ Counted'
  BY <1>2, <1>3 DEF UpInv, Awaiting, Counted
<1>8. Whole' /\ Echoed'
  BY <1>2, <1>3 DEF UpInv, Whole, Echoed
<1> QED BY <1>2, <1>5, <1>6, <1>7, <1>8 DEF UpInv

\* An announced file is confirmed, or asked about.
LEMMA FarAnswers ==
    ASSUME UpInv, FarReceives, far.k = "taking", Head(upFar).k = "digest"
    PROVE  UpInv'
<1>1. PICK m : m = Head(upFar)
  OBVIOUS
<1>2. /\ UNCHANGED <<upFiles, upStatus, upPolicy, channel, file, at, offset, questions,
                     upSkipped, upWorker>>
      /\ UpFiles' = UpFiles /\ channel
      /\ m \in UpMsgs /\ upFar' \in Seq(UpMsgs) /\ Range(upFar) = {m} \cup Range(upFar')
      /\ upPage \in Seq(UpMsgs)
      /\ \A K : Number(upFar, K) = Number(upFar', K) + IF m \in K THEN 1 ELSE 0
      /\ \A K : Number(upFar', K) \in Nat /\ Number(upWorker, K) \in Nat /\ Number(upPage, K) \in Nat
      /\ Ending' /\ (Marked' => Marked)
  BY <1>1, FarTakes
<1>3. /\ m.k = "digest" /\ m \in Tokens /\ \A f : m \notin BlocksOf(f)
      /\ UpTypes /\ far \in [k : {"taking", "over", "done"}, got : [UpFiles -> Nat]]
  BY <1>1, <1>2, Kinds DEF UpInv, UpTypes
<1>4. m.f = file /\ file \in UpFiles /\ file \in Nat
  BY <1>2, <1>3 DEF UpInv, Asking, UpTypes, UpFiles
<1>5. PICK n \in 0 .. UpBlocks, y \in UpMsgs :
        /\ upPage' = Append(upPage, y) /\ y \in Tokens /\ y.f = file
        /\ \/ y.k = "confirm" /\ y.n = n /\ far' = [far EXCEPT !.got[file] = n]
           \/ y.k = "digest" /\ far' = far
  <2>1. \/ \E n \in 0 .. UpBlocks :
             /\ far' = [far EXCEPT !.got[file] = n]
             /\ upPage' = Append(upPage, [k |-> "confirm", f |-> file, n |-> n])
        \/ far' = far /\ upPage' = Append(upPage, M("digest", file))
    BY <1>1, <1>3, <1>4 DEF FarReceives
  <2>2. CASE \E n \in 0 .. UpBlocks :
             /\ far' = [far EXCEPT !.got[file] = n]
             /\ upPage' = Append(upPage, [k |-> "confirm", f |-> file, n |-> n])
    <3>1. PICK n \in 0 .. UpBlocks :
             /\ far' = [far EXCEPT !.got[file] = n]
             /\ upPage' = Append(upPage, [k |-> "confirm", f |-> file, n |-> n])
      BY <2>2
    <3>2. PICK y : y = [k |-> "confirm", f |-> file, n |-> n]
      OBVIOUS
    <3>3. y \in UpMsgs /\ y.k = "confirm" /\ y.f = file /\ y.n = n
      BY <1>4, <3>2 DEF UpMsgs, UpKinds
    <3> QED BY <3>1, <3>2, <3>3, Kinds
  <2>3. CASE far' = far /\ upPage' = Append(upPage, M("digest", file))
    <3>1. PICK y : y = M("digest", file)
      OBVIOUS
    <3>2. y \in UpMsgs /\ y.k = "digest" /\ y.f = file
      BY <1>4, <3>1, MType DEF UpKinds
    <3>3. 0 \in 0 .. UpBlocks
      BY UploadAssumption
    <3> QED BY <2>3, <3>1, <3>2, <3>3, Kinds
  <2> QED BY <2>1, <2>2, <2>3
<1>6. /\ upPage' \in Seq(UpMsgs) /\ Range(upPage') = Range(upPage) \cup {y}
      /\ \A K : Number(upPage', K) = Number(upPage, K) + IF y \in K THEN 1 ELSE 0
  BY <1>2, <1>5, Sent
<1>7. /\ Asked' = 1 /\ Asked = 1 /\ Number(upPage, Tokens) = 0 /\ questions = {}
  <2>1. /\ Number(upFar', Tokens) \in Nat /\ Number(upWorker, Tokens) \in Nat
        /\ Number(upPage, Tokens) \in Nat /\ Number(upFar, Tokens) = Number(upFar', Tokens) + 1
        /\ Number(upPage', Tokens) = Number(upPage, Tokens) + 1
    BY <1>2, <1>3, <1>5, <1>6
  <2>2. Asked <= 1
    BY DEF UpInv, Asking
  <2> QED BY <1>2, <2>1, <2>2 DEF Asked
<1>8. \A x \in Range(upPage) : x.k # "confirm"
  <2>1. \A x \in Range(upPage) : x \notin Tokens /\ x \in UpMsgs
    BY <1>2, <1>7, NumberZero, InRange
  <2> QED BY <2>1, Kinds
<1>9. /\ at \in {"confirming", "left"} /\ ~Marked /\ ~Marked'
  BY <1>2, <1>7 DEF UpInv, Asking, Marking
<1>10. /\ far' \in [k : {"taking", "over", "done"}, got : [UpFiles -> Nat]] /\ far'.k = "taking"
       /\ \A f \in UpFiles : f # file => far'.got[f] = far.got[f]
       /\ y.k = "confirm" => far'.got[file] = y.n
       /\ y.k = "digest" => far'.got[file] = far.got[file]
  BY <1>3, <1>4, <1>5
<1>11. UpTypes'
  BY <1>2, <1>6, <1>10 DEF UpInv, UpTypes
<1>12. Asking'
  BY <1>2, <1>5, <1>6, <1>7, <1>9 DEF UpInv, Asking
<1>13. Marking'
  BY <1>9, <1>10 DEF Marking
<1>14. Awaiting'
  BY <1>2, <1>7, <1>9, <1>10 DEF UpInv, Awaiting
<1>15. Counted'
  <2>1. \A f \in UpFiles : Number(upFar', BlocksOf(f)) = Number(upFar, BlocksOf(f))
    <3> SUFFICES ASSUME NEW f \in UpFiles
                 PROVE  Number(upFar', BlocksOf(f)) = Number(upFar, BlocksOf(f))
      OBVIOUS
    <3>1. Number(upFar', BlocksOf(f)) \in Nat
      BY <1>2
    <3> QED BY <1>2, <1>3, <3>1
  <2>2. ASSUME NEW f \in UpFiles, f # file PROVE Given(f)' = Given(f)
    BY <1>2, <1>10, <2>1, <2>2 DEF Given
  <2>3. at = "confirming" =>
            /\ Given(file) = far.got[file]
            /\ (\A x \in Range(upPage) : x.k # "confirm") => far.got[file] = 0
    BY <1>2 DEF UpInv, Counted
  <2>4. at = "confirming" => Given(file)' = far'.got[file]
    <3>1. /\ Number(upFar', BlocksOf(file)) \in Nat /\ Number(upWorker, BlocksOf(file)) \in Nat
          /\ far.got[file] \in Nat /\ far'.got[file] \in Nat
      BY <1>2, <1>3, <1>4, <1>10
    <3>2. at = "confirming" =>
             Number(upFar', BlocksOf(file)) = 0 /\ Number(upWorker, BlocksOf(file)) = 0
      BY <1>4, <2>1, <2>3, <3>1 DEF Given
    <3> QED BY <1>2, <3>1, <3>2 DEF Given
  <2>5. at = "confirming" =>
            /\ \A x \in Range(upPage') : x.k = "confirm" => x.n = far'.got[file]
            /\ (\A x \in Range(upPage') : x.k # "confirm") => far'.got[file] = 0
    BY <1>5, <1>6, <1>8, <1>10, <2>3
  <2>6. \A f \in UpFiles : /\ f < file => f \in upSkipped \/ Given(f)' = UpBlocks
                           /\ f > file => Given(f)' = 0
    <3>1. \A f \in UpFiles : f \in Nat
      BY DEF UpFiles
    <3>2. \A f \in UpFiles : f < file \/ f > file => f # file
      BY <1>4, <3>1
    <3>3. \A f \in UpFiles : /\ f < file => f \in upSkipped \/ Given(f) = UpBlocks
                             /\ f > file => Given(f) = 0
      BY <1>2 DEF UpInv, Counted
    <3> QED BY <2>2, <3>2, <3>3
  <2> QED BY <1>2, <1>9, <2>4, <2>5, <2>6 DEF Counted
<1>16. Whole' /\ Echoed'
  BY <1>2, <1>5, <1>6, <1>10 DEF UpInv, Whole, Echoed
<1> QED BY <1>2, <1>11, <1>12, <1>13, <1>14, <1>15, <1>16 DEF UpInv

\* A block is stored.
LEMMA FarStores ==
    ASSUME UpInv, FarReceives, far.k = "taking", Head(upFar).k = "block"
    PROVE  UpInv'
<1>1. PICK m : m = Head(upFar)
  OBVIOUS
<1>2. /\ UNCHANGED <<upFiles, upStatus, upPolicy, channel, file, at, offset, questions,
                     upSkipped, upWorker>>
      /\ UpFiles' = UpFiles /\ channel
      /\ m \in UpMsgs /\ upFar' \in Seq(UpMsgs) /\ Range(upFar) = {m} \cup Range(upFar')
      /\ \A K : Number(upFar, K) = Number(upFar', K) + IF m \in K THEN 1 ELSE 0
      /\ \A K : Number(upFar', K) \in Nat /\ Number(upWorker, K) \in Nat /\ Number(upPage, K) \in Nat
      /\ Ending' /\ (Marked' => Marked)
  BY <1>1, FarTakes
<1>3. /\ m.k = "block" /\ m \notin Tokens /\ \A f : m \in BlocksOf(f) <=> m.f = f
      /\ UpTypes /\ far \in [k : {"taking", "over", "done"}, got : [UpFiles -> Nat]]
  BY <1>1, <1>2, Kinds DEF UpInv, UpTypes
<1>4. upPage' = upPage /\ far' = [far EXCEPT !.got[m.f] = @ + 1]
  BY <1>1, <1>3 DEF FarReceives
<1>5. /\ far' \in [k : {"taking", "over", "done"}, got : [UpFiles -> Nat]] /\ far'.k = "taking"
      /\ \A f \in UpFiles : far'.got[f] = far.got[f] + IF m.f = f THEN 1 ELSE 0
  <2>1. far.got \in [UpFiles -> Nat]
    BY <1>3
  <2>2. PICK g : g = far.got /\ g \in [UpFiles -> Nat]
    BY <2>1
  <2>3. PICK h : h = [g EXCEPT ![m.f] = @ + 1]
    OBVIOUS
  <2>4. h \in [UpFiles -> Nat] /\ \A f \in UpFiles : h[f] = g[f] + IF m.f = f THEN 1 ELSE 0
    <3>1. ASSUME NEW f \in UpFiles
          PROVE  h[f] = (IF m.f = f THEN g[f] + 1 ELSE g[f]) /\ g[f] \in Nat
      BY <2>2, <2>3
    <3>2. DOMAIN h = UpFiles /\ h = [f \in UpFiles |-> h[f]]
      BY <2>2, <2>3
    <3>3. \A f \in UpFiles : h[f] \in Nat /\ h[f] = g[f] + IF m.f = f THEN 1 ELSE 0
      BY <3>1
    <3> QED BY <3>2, <3>3
  <2>5. far' = [far EXCEPT !.got = h]
    BY <1>3, <1>4, <2>2, <2>3
  <2>6. far'.got = h /\ far'.k = far.k /\ far' \in [k : {"taking", "over", "done"}, got : [UpFiles -> Nat]]
    BY <1>3, <2>4, <2>5
  <2> QED BY <2>2, <2>4, <2>6
<1>6. Asked' = Asked
  <2>1. Number(upFar', Tokens) = Number(upFar, Tokens)
    <3>1. Number(upFar', Tokens) \in Nat
      BY <1>2
    <3> QED BY <1>2, <1>3, <3>1
  <2> QED BY <1>2, <1>4, <2>1 DEF Asked
<1>7. UpTypes'
  BY <1>2, <1>4, <1>5 DEF UpInv, UpTypes
<1>8. Asking' /\ Marking'
  BY <1>2, <1>4, <1>5, <1>6 DEF UpInv, Asking, Marking
<1>9. Awaiting'
  BY <1>2, <1>4, <1>5, <1>6 DEF UpInv, Awaiting
<1>10. Counted'
  <2>1. ASSUME NEW f \in UpFiles
        PROVE  /\ Number(upFar, BlocksOf(f)) = Number(upFar', BlocksOf(f)) + IF m.f = f THEN 1 ELSE 0
               /\ Number(upFar', BlocksOf(f)) \in Nat /\ Number(upWorker, BlocksOf(f)) \in Nat
               /\ far.got[f] \in Nat
    BY <1>2, <1>3
  <2>2. ASSUME NEW f \in UpFiles PROVE Given(f)' = Given(f)
    <3>1. far'.got[f] = far.got[f] + IF m.f = f THEN 1 ELSE 0
      BY <1>5
    <3>2. far'.got[f] + Number(upWorker, BlocksOf(f)) + Number(upFar', BlocksOf(f)) = Given(f)
      BY <2>1, <3>1 DEF Given
    <3> QED BY <1>2, <3>2 DEF Given
  <2>3. file \in UpFiles
    BY <1>3 DEF UpTypes
  <2>4. PICK g \in UpFiles : g = file
    BY <2>3
  <2>5. Given(file)' = Given(file)
    <3>1. Given(g)' = Given(g)
      BY <2>2
    <3> QED BY <1>2, <2>4, <3>1 DEF Given
  <2>6. at = "confirming" => far'.got[file] = far.got[file]
    <3>1. at = "confirming" => Given(g) = far.got[g]
      BY <1>2, <1>3, <2>4 DEF UpInv, Counted
    <3>2. at = "confirming" => Number(upFar, BlocksOf(g)) = 0
      BY <2>1, <3>1 DEF Given
    <3>3. at = "confirming" => m.f # g
      BY <2>1, <3>2
    <3>4. far.got[g] \in Nat
      BY <2>1
    <3> QED BY <1>5, <2>4, <3>3, <3>4
  <2>7. far.k = "taking" /\ channel
    BY <1>2
  <2> QED BY <1>2, <1>4, <2>2, <2>3, <2>5, <2>6, <2>7 DEF UpInv, Counted
<1>11. Whole' /\ Echoed'
  BY <1>2, <1>4, <1>5 DEF UpInv, Whole, Echoed
<1> QED BY <1>2, <1>7, <1>8, <1>9, <1>10, <1>11 DEF UpInv

\* The end of a file, and what the user decided of one.
LEMMA FarNotes ==
    ASSUME UpInv, FarReceives, far.k = "taking", Head(upFar).k \in {"eof", "skip", "overwrite"}
    PROVE  UpInv'
<1>1. PICK m : m = Head(upFar)
  OBVIOUS
<1>2. /\ UNCHANGED <<upFiles, upStatus, upPolicy, channel, file, at, offset, questions,
                     upSkipped, upWorker>>
      /\ UpFiles' = UpFiles /\ channel
      /\ m \in UpMsgs /\ upFar' \in Seq(UpMsgs) /\ Range(upFar) = {m} \cup Range(upFar')
      /\ upPage \in Seq(UpMsgs)
      /\ \A K : Number(upFar, K) = Number(upFar', K) + IF m \in K THEN 1 ELSE 0
      /\ \A K : Number(upFar', K) \in Nat /\ Number(upWorker, K) \in Nat /\ Number(upPage, K) \in Nat
      /\ Ending' /\ (Marked' => Marked)
  BY <1>1, FarTakes
<1>3. /\ m.k \in {"eof", "skip", "overwrite"} /\ m \notin Tokens /\ \A f : m \notin BlocksOf(f)
      /\ UpTypes /\ far' = far /\ m.f \in Nat
      /\ \/ upPage' = upPage
         \/ m.k = "skip" /\ upFiles = 1 /\ upPage' = Append(upPage, M("skipped", m.f))
  <2>1. m.k \in {"eof", "skip", "overwrite"} /\ UpTypes
    BY <1>1 DEF UpInv
  <2>2. m \notin Tokens /\ \A f : m \notin BlocksOf(f)
    BY <1>2, <2>1, Kinds
  <2>3. /\ far' = far
        /\ \/ upPage' = upPage
           \/ m.k = "skip" /\ upFiles = 1 /\ upPage' = Append(upPage, M("skipped", m.f))
    BY <1>1, <2>1 DEF FarReceives
  <2>4. m.f \in Nat
    BY <1>2 DEF UpMsgs
  <2> QED BY <2>1, <2>2, <2>3, <2>4
<1>4. PICK y \in UpMsgs : y = M("skipped", m.f) /\ y.k = "skipped"
  BY <1>3, MType DEF UpKinds
<1>5. y \notin Tokens /\ y \notin Of({"sent"}) /\ y \notin Of({"error"})
  BY <1>4, Kinds
<1>6. /\ upPage' \in Seq(UpMsgs) /\ Range(upPage) \subseteq Range(upPage')
      /\ Range(upPage') \subseteq Range(upPage) \cup {y}
      /\ \A K : y \notin K => Number(upPage', K) = Number(upPage, K)
      /\ y \in Range(upPage') => y \in Range(upPage) \/ (m.k = "skip" /\ upFiles = 1)
  <2>1. CASE upPage' = upPage
    BY <1>2, <2>1
  <2>2. CASE m.k = "skip" /\ upFiles = 1 /\ upPage' = Append(upPage, y)
    <3>1. /\ Append(upPage, y) \in Seq(UpMsgs)
          /\ Range(Append(upPage, y)) = Range(upPage) \cup {y}
          /\ \A K : Number(Append(upPage, y), K) = Number(upPage, K) + IF y \in K THEN 1 ELSE 0
      BY <1>2, Sent
    <3>2. ASSUME NEW K, y \notin K PROVE Number(Append(upPage, y), K) = Number(upPage, K)
      <4>1. Number(upPage, K) \in Nat
        BY <1>2
      <4> QED BY <3>1, <3>2, <4>1
    <3> QED BY <2>2, <3>1, <3>2
  <2> QED BY <1>3, <1>4, <2>1, <2>2
<1>7. Asked' = Asked
  <2>1. Number(upFar', Tokens) = Number(upFar, Tokens)
    <3>1. Number(upFar', Tokens) \in Nat
      BY <1>2
    <3> QED BY <1>2, <1>3, <3>1
  <2> QED BY <1>2, <1>5, <1>6, <2>1 DEF Asked
<1>8. UpTypes'
  BY <1>2, <1>3, <1>6 DEF UpTypes
<1>9. Asking' /\ Marking'
  BY <1>2, <1>3, <1>5, <1>6, <1>7 DEF UpInv, Asking, Marking
<1>10. Awaiting'
  BY <1>2, <1>3, <1>5, <1>6, <1>7 DEF UpInv, Awaiting
<1>11. Counted'
  <2>1. ASSUME NEW f \in UpFiles PROVE Given(f)' = Given(f)
    <3>1. Number(upFar', BlocksOf(f)) = Number(upFar, BlocksOf(f))
      <4>1. Number(upFar', BlocksOf(f)) \in Nat
        BY <1>2
      <4> QED BY <1>2, <1>3, <4>1
    <3> QED BY <1>2, <1>3, <3>1 DEF Given
  <2>2. PICK g \in UpFiles : g = file
    BY <1>3 DEF UpTypes
  <2>3. Given(file)' = Given(file)
    <3>1. Given(g)' = Given(g)
      BY <2>1
    <3> QED BY <1>2, <2>2, <3>1 DEF Given
  <2>4. \A x : x.k = "confirm" => (x \in Range(upPage') <=> x \in Range(upPage))
    BY <1>4, <1>6
  <2> QED BY <1>2, <1>3, <2>1, <2>2, <2>3, <2>4 DEF UpInv, Counted
<1>12. Whole' /\ Echoed'
  <2>1. \A x \in Range(upPage') : x.k # "skipped" => x \in Range(upPage)
    BY <1>4, <1>6
  <2>2. m.k = "skip" /\ upFiles = 1 => UpFiles \subseteq upSkipped
    <3>1. m.k = "skip" => m.f \in upSkipped
      BY <1>2 DEF UpInv, Echoed
    <3>2. upFiles = 1 => UpFiles = {1}
      BY DEF UpFiles
    <3> QED BY <1>3, <3>1, <3>2 DEF UpTypes
  <2>3. \A x \in Range(upPage') : x.k = "skipped" => UpFiles \subseteq upSkipped
    BY <1>4, <1>6, <2>2 DEF UpInv, Echoed
  <2> QED BY <1>2, <1>3, <2>1, <2>3 DEF UpInv, Whole, Echoed
<1> QED BY <1>2, <1>8, <1>9, <1>10, <1>11, <1>12 DEF UpInv

\* The page ended the transfer.
LEMMA FarIsStopped ==
    ASSUME UpInv, FarReceives, far.k = "taking", Head(upFar).k \in {"cancel", "error"}
    PROVE  UpInv'
<1>1. PICK m : m = Head(upFar)
  OBVIOUS
<1>2. /\ UNCHANGED <<upFiles, upStatus, upPolicy, channel, file, at, offset, questions,
                     upSkipped, upWorker>>
      /\ UpFiles' = UpFiles /\ channel
      /\ m \in UpMsgs /\ upFar' \in Seq(UpMsgs) /\ Range(upFar) = {m} \cup Range(upFar')
      /\ \A K : Number(upFar, K) = Number(upFar', K) + IF m \in K THEN 1 ELSE 0
      /\ \A K : Number(upFar', K) \in Nat /\ Number(upWorker, K) \in Nat /\ Number(upPage, K) \in Nat
      /\ Ending' /\ (Marked' => Marked)
  BY <1>1, FarTakes
<1>3. /\ m.k \in {"cancel", "error"} /\ m \notin Tokens
      /\ UpTypes /\ far \in [k : {"taking", "over", "done"}, got : [UpFiles -> Nat]]
  BY <1>1, <1>2, Kinds DEF UpInv, UpTypes
<1>4. upPage' = upPage /\ far' = [far EXCEPT !.k = "over"]
  BY <1>1, <1>3 DEF FarReceives
<1>5. /\ far' \in [k : {"taking", "over", "done"}, got : [UpFiles -> Nat]] /\ far'.k = "over"
  BY <1>3, <1>4
<1>6. Asked' = Asked
  <2>1. Number(upFar', Tokens) = Number(upFar, Tokens)
    <3>1. Number(upFar', Tokens) \in Nat
      BY <1>2
    <3> QED BY <1>2, <1>3, <3>1
  <2> QED BY <1>2, <1>4, <2>1 DEF Asked
<1>7. UpTypes'
  BY <1>2, <1>4, <1>5 DEF UpInv, UpTypes
<1>8. Asking' /\ Marking'
  BY <1>2, <1>4, <1>5, <1>6 DEF UpInv, Asking, Marking
<1>9. upStatus # "running"
  BY <1>2, <1>3 DEF UpInv, Awaiting
<1>10. Awaiting' /\ Counted'
  BY <1>2, <1>5, <1>9 DEF Awaiting, Counted
<1>11. Whole' /\ Echoed'
  BY <1>2, <1>4, <1>5 DEF UpInv, Whole, Echoed
<1> QED BY <1>2, <1>7, <1>8, <1>10, <1>11 DEF UpInv

\* The end of the transfer: what was handed over has all arrived.
LEMMA FarIsDone ==
    ASSUME UpInv, FarReceives, far.k = "taking", Head(upFar).k = "done"
    PROVE  UpInv'
<1>1. PICK m : m = Head(upFar)
  OBVIOUS
<1>2. /\ UNCHANGED <<upFiles, upStatus, upPolicy, channel, file, at, offset, questions,
                     upSkipped, upWorker>>
      /\ UpFiles' = UpFiles /\ channel
      /\ m \in UpMsgs /\ upFar' \in Seq(UpMsgs) /\ Range(upFar) = {m} \cup Range(upFar')
      /\ upPage \in Seq(UpMsgs)
      /\ \A K : Number(upFar, K) = Number(upFar', K) + IF m \in K THEN 1 ELSE 0
      /\ \A K : Number(upFar', K) \in Nat /\ Number(upWorker, K) \in Nat /\ Number(upPage, K) \in Nat
      /\ Ending' /\ (Marked' => Marked)
  BY <1>1, FarTakes
<1>3. /\ m.k = "done" /\ m \notin Tokens /\ \A f : m \notin BlocksOf(f)
      /\ UpTypes /\ far \in [k : {"taking", "over", "done"}, got : [UpFiles -> Nat]]
      /\ upWorker \in Seq(UpMsgs)
  BY <1>1, <1>2, Kinds DEF UpInv, UpTypes
<1>4. upPage' = Append(upPage, M("done", 0)) /\ far' = [far EXCEPT !.k = "done"]
  BY <1>1, <1>3 DEF FarReceives
<1>5. /\ far' \in [k : {"taking", "over", "done"}, got : [UpFiles -> Nat]]
      /\ far'.k = "done" /\ far'.got = far.got
  BY <1>3, <1>4
<1>6. PICK y \in UpMsgs : y = M("done", 0) /\ y.k = "done"
  BY MType DEF UpKinds
<1>7. /\ upPage' \in Seq(UpMsgs) /\ Range(upPage') = Range(upPage) \cup {y}
      /\ \A K : Number(upPage', K) = Number(upPage, K) + IF y \in K THEN 1 ELSE 0
  BY <1>2, <1>4, <1>6, Sent
<1>8. y \notin Tokens /\ y \notin Of({"error"}) /\ y \notin Of({"sent"})
  BY <1>6, Kinds
<1>9. Asked' = Asked
  <2>1. Number(upFar', Tokens) = Number(upFar, Tokens) /\ Number(upPage', Tokens) = Number(upPage, Tokens)
    <3>1. Number(upFar', Tokens) \in Nat /\ Number(upPage, Tokens) \in Nat
      BY <1>2
    <3> QED BY <1>2, <1>3, <1>7, <1>8, <3>1
  <2> QED BY <1>2, <2>1 DEF Asked
<1>10. Marked /\ at = "left" /\ Asked = 0
  <2>1. Marked
    BY <1>2, <1>3 DEF Marked
  <2> QED BY <2>1 DEF UpInv, Marking
<1>11. UpTypes'
  BY <1>2, <1>5, <1>7 DEF UpInv, UpTypes
<1>12. Asking'
  <2>1. \A x \in Range(upFar') \cup Range(upPage') : x \in Tokens => x \in Range(upFar) \cup Range(upPage)
    BY <1>2, <1>7, <1>8
  <2> QED BY <1>2, <1>9, <2>1 DEF UpInv, Asking
<1>13. Marking'
  BY <1>2, <1>9, <1>10 DEF Marking
<1>14. Awaiting' /\ Counted'
  BY <1>2, <1>5, <1>10 DEF UpInv, Awaiting, Counted
<1>15. Whole'
  <2>1. \A x \in Range(upWorker) \cup Range(upFar') : x.k # "block"
    BY <1>1, <1>3, FarTakes
  <2>2. ASSUME NEW f \in UpFiles PROVE f \in upSkipped \/ far.got[f] = UpBlocks
    <3>1. \A x \in Range(upWorker) \cup Range(upFar') : x \notin BlocksOf(f)
      BY <2>1 DEF BlocksOf
    <3>2. Number(upWorker, BlocksOf(f)) = 0 /\ Number(upFar', BlocksOf(f)) = 0
      BY <1>2, <1>3, <3>1, NumberZero
    <3>3. Number(upFar, BlocksOf(f)) = 0 /\ far.got[f] \in Nat
      BY <1>2, <1>3, <3>2
    <3>4. Given(f) = far.got[f]
      BY <3>2, <3>3 DEF Given
    <3>5. f \in upSkipped \/ Given(f) = UpBlocks
      BY <1>2, <1>10 DEF UpInv, Counted
    <3> QED BY <3>4, <3>5
  <2> QED BY <1>2, <1>5, <2>2 DEF Whole
<1>16. Echoed'
  BY <1>2, <1>5, <1>6, <1>7 DEF UpInv, Echoed
<1> QED BY <1>2, <1>11, <1>12, <1>13, <1>14, <1>15, <1>16 DEF UpInv

\* The device gives up.
LEMMA FarGaveUp ==
    ASSUME UpInv, FarFails
    PROVE  UpInv'
<1>1. /\ channel /\ far.k = "taking" /\ far' = [far EXCEPT !.k = "over"]
      /\ upPage' = Append(upPage, M("error", 0))
      /\ UNCHANGED <<upFiles, upStatus, upPolicy, channel, file, at, offset, questions, upSkipped,
                     upWorker, upFar>>
  BY DEF FarFails, loopVars
<1>2. /\ UpTypes /\ far \in [k : {"taking", "over", "done"}, got : [UpFiles -> Nat]]
      /\ upWorker \in Seq(UpMsgs) /\ upFar \in Seq(UpMsgs) /\ upPage \in Seq(UpMsgs)
  BY DEF UpInv, UpTypes
<1>3. /\ far' \in [k : {"taking", "over", "done"}, got : [UpFiles -> Nat]]
      /\ far'.k = "over" /\ far'.got = far.got
  BY <1>1, <1>2
<1>4. PICK y \in UpMsgs : y = M("error", 0) /\ y.k = "error"
  BY MType DEF UpKinds
<1>5. /\ upPage' \in Seq(UpMsgs) /\ Range(upPage') = Range(upPage) \cup {y}
      /\ \A K : Number(upPage', K) = Number(upPage, K) + IF y \in K THEN 1 ELSE 0
  BY <1>1, <1>2, <1>4, Sent
<1>6. y \notin Tokens /\ y \in Of({"error"}) /\ y \notin Of({"sent"})
  BY <1>4, Kinds
<1>7. \A K : Number(upPage, K) \in Nat
  BY <1>2, NumberType
<1>8. Asked' = Asked
  <2>1. Number(upPage, Tokens) \in Nat
    BY <1>7
  <2>2. Number(upPage', Tokens) = Number(upPage, Tokens)
    BY <1>5, <1>6, <2>1
  <2> QED BY <1>1, <2>2 DEF Asked
<1>9. UpFiles' = UpFiles
  BY <1>1 DEF UpFiles
<1>10. UpTypes'
  BY <1>1, <1>2, <1>3, <1>5, <1>9 DEF UpTypes
<1>11. Asking'
  BY <1>1, <1>5, <1>6, <1>8 DEF UpInv, Asking
<1>12. Marking'
  BY <1>1, <1>3, <1>8 DEF UpInv, Marking, Marked
<1>13. Awaiting'
  <2>1. Number(upPage', Of({"error"})) # 0 /\ Number(upPage', Of({"sent"})) = Number(upPage, Of({"sent"}))
    <3>1. Number(upPage, Of({"error"})) \in Nat /\ Number(upPage, Of({"sent"})) \in Nat
      BY <1>7
    <3>2. /\ Number(upPage', Of({"error"})) = Number(upPage, Of({"error"})) + 1
          /\ Number(upPage', Of({"sent"})) = Number(upPage, Of({"sent"})) + 0
      BY <1>5, <1>6
    <3> QED BY <3>1, <3>2
  <2> QED BY <1>1, <1>3, <2>1 DEF UpInv, Awaiting
<1>14. Counted' /\ Ending'
  BY <1>1, <1>3 DEF UpInv, Counted, Ending
<1>15. Whole' /\ Echoed'
  BY <1>1, <1>3, <1>4, <1>5, <1>9 DEF UpInv, Whole, Echoed
<1> QED BY <1>10, <1>11, <1>12, <1>13, <1>14, <1>15 DEF UpInv

-----------------------------------------------------------------------------
(* The theorems about an upload. *)

LEMMA UpStart == UpInit => UpInv
<1> SUFFICES ASSUME UpInit PROVE UpInv
  OBVIOUS
<1>1. /\ upFiles \in 1 .. UpMaxFiles
      /\ upStatus = "running" /\ upPolicy = "ask" /\ channel = TRUE
      /\ file = 1 /\ at = "confirming" /\ offset = 0
      /\ questions = {} /\ upSkipped = {}
      /\ upFar = <<>> /\ upPage = <<>>
      /\ far = [k |-> "taking", got |-> [f \in UpFiles |-> 0]]
  BY DEF UpInit
<1>2. PICK m \in UpMsgs : m = M("digest", 1) /\ m.k = "digest" /\ m.f = 1
  BY MType DEF UpKinds
<1>3. PICK s \in Seq(UpMsgs) : /\ s = <<m>> /\ Range(s) = {m}
                               /\ \A K : Number(s, K) = IF m \in K THEN 1 ELSE 0
  BY OneMessage
<1>4. upWorker = s
  BY <1>2, <1>3 DEF UpInit
<1>5. m \in Tokens /\ \A f : m \notin BlocksOf(f)
  BY <1>2, Kinds
<1>6. /\ Range(upFar) = {} /\ Range(upPage) = {} /\ DOMAIN upFar = {}
      /\ \A K : Number(upFar, K) = 0 /\ Number(upPage, K) = 0
  BY <1>1, EmptyQueue
<1>7. Asked = 1
  <2>1. Number(upWorker, Tokens) = 1 /\ Number(upFar, Tokens) = 0 /\ Number(upPage, Tokens) = 0
    BY <1>3, <1>4, <1>5, <1>6
  <2> QED BY <1>1, <2>1 DEF Asked
<1>8. upFiles \in Nat \ {0} /\ 1 \in UpFiles /\ 0 \in 0 .. UpBlocks
      /\ far.got = [f \in UpFiles |-> 0] /\ far.k = "taking"
      /\ \A f \in UpFiles : far.got[f] = 0 /\ f \in Nat /\ ~(f < 1)
  BY <1>1, UploadAssumption DEF UpFiles
<1>9. UpTypes
  <2>1. far \in [k : {"taking", "over", "done"}, got : [UpFiles -> Nat]]
    BY <1>1
  <2>2. upFar \in Seq(UpMsgs) /\ upPage \in Seq(UpMsgs)
    BY <1>1
  <2> QED BY <1>1, <1>4, <1>8, <2>1, <2>2 DEF UpTypes
<1>10. ~Marked
  BY <1>2, <1>3, <1>4, <1>6 DEF Marked
<1>11. Asking
  BY <1>1, <1>2, <1>3, <1>4, <1>6, <1>7 DEF Asking
<1>12. Marking /\ Whole
  BY <1>8, <1>10 DEF Marking, Whole
<1>13. Awaiting
  BY <1>1, <1>2, <1>3, <1>4, <1>6, <1>7, <1>8 DEF Awaiting
<1>14. Counted
  <2>1. \A f \in UpFiles : Given(f) = 0
    <3>1. ASSUME NEW f \in UpFiles PROVE Given(f) = 0
      <4>1. Number(upWorker, BlocksOf(f)) = 0 /\ Number(upFar, BlocksOf(f)) = 0 /\ far.got[f] = 0
        BY <1>3, <1>4, <1>5, <1>6, <1>8
      <4> QED BY <4>1 DEF Given
    <3> QED BY <3>1
  <2> QED BY <1>1, <1>6, <1>8, <1>10, <2>1 DEF Counted
<1>15. Ending
  <2>1. EndIsLast(upWorker)
    BY <1>2, <1>3, <1>4, InRange DEF EndIsLast, Range
  <2> QED BY <1>6, <2>1 DEF Ending, EndIsLast
<1>16. Echoed
  BY <1>1, <1>2, <1>3, <1>4, <1>6 DEF Echoed
<1> QED BY <1>9, <1>11, <1>12, <1>13, <1>14, <1>15, <1>16 DEF UpInv

LEMMA UpStutter ==
    ASSUME UpInv, UNCHANGED upVars
    PROVE  UpInv'
<1>1. /\ UNCHANGED <<upFiles, upStatus, upPolicy, channel, file, at, offset, questions, upSkipped,
                     upWorker, upFar, upPage, far>>
      /\ UpFiles' = UpFiles
  BY DEF upVars, loopVars, UpFiles
<1>2. Asked' = Asked /\ Marked' = Marked /\ Given(file)' = Given(file)
      /\ \A f : Given(f)' = Given(f)
  BY <1>1 DEF Asked, Marked, Given
<1>3. UpTypes'
  BY <1>1 DEF UpInv, UpTypes
<1>4. Asking' /\ Marking' /\ Awaiting'
  BY <1>1, <1>2 DEF UpInv, Asking, Marking, Awaiting
<1>5. Counted' /\ Ending' /\ Whole' /\ Echoed'
  BY <1>1, <1>2 DEF UpInv, Counted, Ending, Whole, Echoed
<1> QED BY <1>3, <1>4, <1>5 DEF UpInv

LEMMA Heard ==
    ASSUME UpInv, PageReceives
    PROVE  UpInv'
<1>1. Head(upPage).k \in {"confirm", "digest", "sent", "done", "skipped", "error"}
  BY DEF PageReceives
<1> QED BY <1>1, ConfirmHeard, QuestionHeard, SentHeard, EndHeard

LEMMA FarHears ==
    ASSUME UpInv, FarReceives
    PROVE  UpInv'
<1>1. far.k # "taking" \/ Head(upFar).k \in {"digest", "block", "eof", "skip", "overwrite",
                                              "cancel", "error", "done"}
  BY DEF FarReceives
<1> QED BY <1>1, FarIsDeaf, FarAnswers, FarStores, FarNotes, FarIsStopped, FarIsDone

LEMMA UpKeeps == UpInv /\ [UpNext]_upVars => UpInv'
<1> SUFFICES ASSUME UpInv, [UpNext]_upVars PROVE UpInv'
  OBVIOUS
<1>1. CASE UNCHANGED upVars
  BY <1>1, UpStutter
<1>2. ASSUME NEW answering \in SUBSET questions, UpCancel(answering) PROVE UpInv'
  BY <1>2, Cancelled
<1>3. ASSUME NEW f \in questions, NEW decision \in {"overwrite", "skip"}, NEW applyAll \in BOOLEAN,
             UserAnswers(f, decision, applyAll)
      PROVE  UpInv'
  BY <1>3, UserAnswered
<1>4. CASE ReadBlock \/ ReadFails \/ Resume
  BY <1>4, BlockRead, ReadFailed, Resumed
<1>5. CASE PageReceives \/ UpChannelLost
  BY <1>5, Heard, ConnectionLost
<1>6. CASE WorkerSends \/ FarReceives \/ FarFails
  BY <1>6, WorkerPassed, FarHears, FarGaveUp
<1> QED BY <1>1, <1>2, <1>3, <1>4, <1>5, <1>6 DEF UpNext

LEMMA UpAlways == UpSpec => []UpInv
BY UpStart, UpKeeps, PTL DEF UpSpec

LEMMA AwaitedFollows == UpInv => LoopIsAwaited
<1> SUFFICES ASSUME UpInv, upStatus = "running",
                    \A m \in Range(upWorker \o upFar \o upPage) : m.k # "error"
             PROVE  /\ at = "confirming" =>
                         \/ file \in questions
                         \/ \E m \in Range(upWorker \o upFar \o upPage) :
                               m.k \in {"digest", "confirm"} /\ m.f = file
                    /\ at = "sending" =>
                         \E m \in Range(upWorker \o upPage) : m.k \in {"block", "sent"}
  BY DEF LoopIsAwaited
<1>1. upWorker \in Seq(UpMsgs) /\ upFar \in Seq(UpMsgs) /\ upPage \in Seq(UpMsgs) /\ UpTypes
  BY DEF UpInv, UpTypes
<1>2. /\ Range(upWorker \o upFar \o upPage) = Range(upWorker) \cup Range(upFar) \cup Range(upPage)
      /\ Range(upWorker \o upPage) = Range(upWorker) \cup Range(upPage)
  <2>1. upWorker \o upFar \in Seq(UpMsgs) /\ Range(upWorker \o upFar) = Range(upWorker) \cup Range(upFar)
    BY <1>1, Joined
  <2>2. PICK u \in Seq(UpMsgs) : u = upWorker \o upFar
    BY <2>1
  <2>3. Range(u \o upPage) = Range(u) \cup Range(upPage)
    BY <1>1, Joined
  <2>4. Range(upWorker \o upPage) = Range(upWorker) \cup Range(upPage)
    BY <1>1, Joined
  <2> QED BY <2>1, <2>2, <2>3, <2>4
<1>3. \A m \in Range(upWorker) \cup Range(upFar) \cup Range(upPage) : m \in UpMsgs
  BY <1>1, InRange
<1>4. far.k # "over"
  <2>1. \A m \in Range(upPage) : m \notin Of({"error"})
    BY <1>2, <1>3, Kinds
  <2>2. Number(upPage, Of({"error"})) = 0
    BY <1>1, <2>1, NumberZero
  <2> QED BY <2>2 DEF UpInv, Awaiting
<1>5. ASSUME at = "confirming"
      PROVE  \/ file \in questions
             \/ \E m \in Range(upWorker \o upFar \o upPage) :
                   m.k \in {"digest", "confirm"} /\ m.f = file
  <2>1. far.k = "taking"
    <3>1. far.k # "done"
      BY <1>5 DEF UpInv, Marking
    <3> QED BY <1>1, <1>4, <3>1 DEF UpTypes
  <2>2. Asked = 1 /\ questions \subseteq {file}
    BY <1>5, <2>1 DEF UpInv, Awaiting, Asking
  <2>3. CASE questions # {}
    BY <2>2, <2>3
  <2>4. CASE \A m \in Range(upWorker) \cup Range(upFar) \cup Range(upPage) : m \notin Tokens
    <3>1. /\ Number(upWorker, Tokens) = 0 /\ Number(upFar, Tokens) = 0
          /\ Number(upPage, Tokens) = 0
      BY <1>1, <2>4, NumberZero
    <3> QED BY <2>2, <2>3, <3>1 DEF Asked
  <2>5. CASE \E m \in Range(upWorker) \cup Range(upFar) \cup Range(upPage) : m \in Tokens
    <3>1. PICK m \in Range(upWorker) \cup Range(upFar) \cup Range(upPage) : m \in Tokens
      BY <2>5
    <3>2. m.k \in {"digest", "confirm"} /\ m.f = file
      BY <1>3, <3>1, Kinds DEF UpInv, Asking
    <3> QED BY <1>2, <3>1, <3>2
  <2> QED BY <2>4, <2>5
<1>6. ASSUME at = "sending"
      PROVE  \E m \in Range(upWorker \o upPage) : m.k \in {"block", "sent"}
  <2> SUFFICES ASSUME \A m \in Range(upWorker) \cup Range(upPage) : m.k \notin {"block", "sent"}
               PROVE  FALSE
    BY <1>2
  <2>1. /\ \A m \in Range(upWorker) : m \notin Of({"block"})
        /\ \A m \in Range(upPage) : m \notin Of({"sent"})
    BY <1>3, Kinds
  <2>2. Number(upWorker, Of({"block"})) = 0 /\ Number(upPage, Of({"sent"})) = 0
    BY <1>1, <2>1, NumberZero
  <2> QED BY <1>6, <2>2 DEF UpInv, Awaiting
<1> QED BY <1>5, <1>6

\* Whatever a message, an answer of the user or a block does to the loop of uploadFiles, the
\* loop of a running job never waits for what cannot come: while it waits for the go-ahead,
\* the announcement, the device's answer or the question to the user is on its way; while it
\* waits for a block to be sent, the block or the worker's word of it is; or the device's
\* error, which wakes it, is about to be heard.
THEOREM LoopStaysAwaited == UpSpec => []LoopIsAwaited
<1> QED BY AwaitedFollows, UpAlways, PTL

LEMMA SentFollows == UpInv => SentIsWhole
BY DEF UpInv, Whole, Echoed, SentIsWhole

\* What the file panel reports as sent the device has in full, every block of it once, but for
\* the files the user left out: in whatever order announcements, answers and blocks arrive,
\* and whatever block the device lets a file go on from.
THEOREM SentFilesAreWhole == UpSpec => []SentIsWhole
<1> QED BY SentFollows, UpAlways, PTL

\* The files of an upload stay those it began with; and all variables of an upload
\* have their types.
LEMMA UpFilesStay == [UpNext]_upVars => upFiles' = upFiles
BY DEF UpNext, upVars, ReadBlock, ReadFails, Resume, PageReceives, UpChannelLost, WorkerSends,
       FarReceives, FarFails, UpCancel, UserAnswers

LEMMA UpTyped == UpInv /\ upFiles <= UpMaxFiles => UpTypeOK
<1> SUFFICES ASSUME UpInv, upFiles <= UpMaxFiles PROVE UpTypeOK
  OBVIOUS
<1>1. upFiles \in 1 .. UpMaxFiles
  BY UploadAssumption DEF UpInv, UpTypes
<1> QED BY <1>1 DEF UpInv, UpTypes, UpTypeOK

-----------------------------------------------------------------------------
(* A download. *)

FromKinds == {"dir", "digest", "block", "eof", "done", "skipped", "error"}
FromMsgs == [k : FromKinds, f : Nat]
ToMsgs == [k : {"cancel", "overwrite", "skip"}, f : Nat]
Data == {"block", "eof"}
Digests == {m \in FromMsgs : m.k = "digest"}
Words == {m \in ToMsgs : m.k # "cancel"}
PiecesOf(f) == {m \in FromMsgs : m.k = "block" /\ m.f = f}

DlTypes ==
    /\ dlFiles \in Nat \ {0} /\ inMemory \in BOOLEAN
    /\ dlStatus \in {"starting", "running", "done", "error", "cancelled"}
    /\ policy \in {"ask", "overwrite", "skip"}
    /\ digests \subseteq [f : DlFiles, at : {"checking", "asking"}]
    /\ chain \in Seq(FromMsgs) /\ fromPeer \in Seq(FromMsgs) /\ toPeer \in Seq(ToMsgs)
    /\ opening \in BOOLEAN /\ writing \in BOOLEAN /\ wasStopped \in BOOLEAN
    /\ cur \in 0 .. dlFiles /\ memBuf \in Nat
    /\ writable \in [f : 0 .. dlFiles, n : Int]
    /\ place \in [DlFiles -> {"old", "part", "whole"}] /\ skipped \subseteq DlFiles
    /\ sender \in [k : {"listing", "announcing", "awaiting", "sent", "over"},
                   f : 0 .. dlFiles + 1, n : Int]
    /\ sender.k \in {"awaiting", "sent"} => sender.f \in DlFiles
    /\ sender.k = "announcing" => sender.f # 0
    /\ sender.k = "sent" => sender.n \in 0 .. Blocks
    /\ (opening \/ writing => chain # <<>>) /\ ~(opening /\ writing)
    /\ \A m \in Range(chain) : m.k \in {"block", "eof", "done"}
    /\ dlStatus \in Ended => wasStopped

\* The file the device waits for a word on: its announcement, the question about it, our word.
Pending == Number(fromPeer, Digests) + Number(toPeer, Words) + (IF digests = {} THEN 0 ELSE 1)

Telling ==
    /\ Pending <= 1 /\ (\A d, e \in digests : d = e)
    /\ Pending # 0 => sender.k \in {"awaiting", "over"}
    /\ sender.k = "awaiting" =>
          /\ \A m \in Range(fromPeer) : m.k = "digest" => m.f = sender.f
          /\ \A d \in digests : d.f = sender.f
          /\ \A m \in Range(toPeer) : m.k # "cancel" => m.f = sender.f
    /\ \A m \in Range(toPeer) : m.k = "skip" => m.f \in skipped
    /\ sender.n < 0 => sender.f # 0 /\ sender.f - 1 \in skipped

\* The directory comes first.
Starting ==
    /\ sender.k = "listing" => sender.f = 0 /\ fromPeer = <<>> /\ chain = <<>>
    /\ \A m \in Range(fromPeer) : m.k = "dir" =>
          /\ digests = {} /\ chain = <<>> /\ sender.f = 1
          /\ sender.k \in {"announcing", "awaiting", "over"}
          /\ \A w \in Range(toPeer) : w.k = "cancel"
          /\ \A x \in Range(fromPeer) : x.k \in {"dir", "digest", "error"}

\* Files come one after the other, each ends with its end, and nothing follows the end of all.
Prec(x, y) ==
    /\ x.k # "done" /\ y.k # "dir"
    /\ x.k \in Data /\ y.k \in Data => x.f < y.f \/ (x.f = y.f /\ x.k = "block")
Ordered(s) == \A i, j \in DOMAIN s : i < j => Prec(s[i], s[j])
Sorting ==
    /\ Ordered(chain) /\ Ordered(fromPeer)
    /\ \A x \in Range(chain), y \in Range(fromPeer) : Prec(x, y)
    /\ \A m \in Range(chain) \cup Range(fromPeer) :
          /\ m.k \in Data \/ m.k = "digest" => m.f \in DlFiles
          /\ m.k = "error" => sender.k = "over"
          /\ m.k \in Data =>
                \/ m.f < sender.f
                \/ m.f = sender.f /\ m.k = "block" /\ sender.k \in {"sent", "over"}
          /\ m.k \in {"done", "skipped"} =>
                sender.k = "over" /\ sender.f = dlFiles + 1 /\ Pending = 0
          /\ m.k = "skipped" => DlFiles \subseteq skipped

\* A transfer that was stopped ends: when an announcement revives its status, the device
\* hears of the cancel before any word on that file.
Stopping ==
    wasStopped =>
        /\ sender.k = "over" \/ \E w \in Range(toPeer) : w.k = "cancel"
        /\ dlStatus \in {"starting", "running"} =>
              /\ \A m \in Range(chain) \cup Range(fromPeer) : m.k \notin {"done", "skipped"}
              /\ \/ sender.k = "over"
                 \/ /\ toPeer # <<>> /\ Head(toPeer).k = "cancel"
                    /\ sender.k = "awaiting" \/ (sender.k = "announcing" /\ sender.f <= dlFiles)

\* What was given of a file to its local stream, or to the memory, and what is under way to it.
Stored(f) == IF f # cur THEN 0 ELSE IF inMemory THEN memBuf ELSE writable.n
Got(f) == Stored(f) + Number(chain, PiecesOf(f)) + Number(fromPeer, PiecesOf(f))
EndComes(f) == \E m \in Range(chain) \cup Range(fromPeer) : m.k = "eof" /\ m.f = f

Handling ==
    /\ cur = 0 => writable = NoStream /\ memBuf = 0
    /\ inMemory => writable = NoStream /\ ~opening /\ ~writing
    /\ ~inMemory => memBuf = 0
    /\ ~inMemory /\ cur # 0 =>
          IF opening THEN writable = NoStream /\ Head(chain).k \in Data /\ Head(chain).f = cur
                     ELSE writable.f = cur /\ writable.n \in Nat
    /\ writing => ~opening /\ cur # 0 /\ Head(chain).k = "block" /\ Head(chain).f = cur
    /\ opening => cur # 0

Storing ==
    /\ sender.k = "sent" => Got(sender.f) = sender.n
    /\ \A f \in DlFiles :
          /\ EndComes(f) => Got(f) = Blocks
          /\ f < sender.f /\ f \notin skipped /\ ~EndComes(f) => place[f] = "whole"
          /\ f < sender.f /\ (\E m \in Range(chain) \cup Range(fromPeer) : m.k = "block" /\ m.f = f)
                => EndComes(f)
          /\ place[f] # "part"
    /\ cur # 0 =>
          /\ \/ cur < sender.f /\ EndComes(cur)
             \/ cur = sender.f /\ sender.k \in {"sent", "over"}
          /\ \A m \in Range(chain) \cup Range(fromPeer) : m.k \in Data => m.f >= cur

Landed ==
    dlStatus = "done" =>
        /\ sender.k = "over"
        /\ \/ DlFiles \subseteq skipped
           \/ /\ chain = <<>> /\ fromPeer = <<>>
              /\ \A f \in DlFiles \ skipped : place[f] = "whole"

DlInv ==
    /\ DlTypes /\ Telling /\ Starting /\ Sorting /\ Stopping /\ Landed
    /\ ~wasStopped => Handling /\ Storing

LEMMA DownKinds ==
    /\ \A m \in FromMsgs : /\ m \in Digests <=> m.k = "digest"
                           /\ \A f : m \in PiecesOf(f) <=> m.k = "block" /\ m.f = f
    /\ \A w \in ToMsgs : w \in Words <=> w.k # "cancel"
BY DEF Digests, PiecesOf, Words

LEMMA OrderSent ==
    ASSUME NEW s \in Seq(FromMsgs), NEW y \in FromMsgs, Ordered(s), \A x \in Range(s) : Prec(x, y)
    PROVE  Ordered(Append(s, y))
<1> DEFINE u == Append(s, y)
<1>1. /\ Len(s) \in Nat /\ DOMAIN s = 1 .. Len(s) /\ DOMAIN u = 1 .. Len(s) + 1
      /\ \A i \in DOMAIN s : u[i] = s[i]
      /\ u[Len(s) + 1] = y
  BY AppendProperties, LenProperties
<1> HIDE DEF u
<1>2. ASSUME NEW i \in DOMAIN u, NEW j \in DOMAIN u, i < j PROVE Prec(u[i], u[j])
  <2>1. i \in DOMAIN s /\ (j \in DOMAIN s \/ j = Len(s) + 1)
    BY <1>1, <1>2
  <2>2. CASE j \in DOMAIN s
    BY <1>1, <1>2, <2>1, <2>2 DEF Ordered
  <2>3. CASE j = Len(s) + 1
    <3>1. s[i] \in Range(s)
      BY <2>1 DEF Range
    <3> QED BY <1>1, <2>1, <2>3, <3>1
  <2> QED BY <2>1, <2>2, <2>3
<1> QED BY <1>2 DEF Ordered, u

LEMMA OrderTaken ==
    ASSUME NEW s \in Seq(FromMsgs), s # <<>>, Ordered(s)
    PROVE  Ordered(Tail(s)) /\ \A y \in Range(Tail(s)) : Prec(Head(s), y)
<1> DEFINE r == Tail(s)
<1>1. /\ Len(s) \in Nat \ {0} /\ DOMAIN s = 1 .. Len(s) /\ DOMAIN r = 1 .. Len(s) - 1
      /\ Head(s) = s[1]
      /\ \A i \in 1 .. Len(s) - 1 : r[i] = s[i + 1]
  BY EmptySeq, LenProperties, HeadTailProperties
<1> HIDE DEF r
<1>2. \A i \in DOMAIN r : i \in Nat \ {0} /\ i + 1 \in DOMAIN s /\ r[i] = s[i + 1]
  BY <1>1
<1>3. Ordered(r)
  BY <1>2 DEF Ordered
<1>4. ASSUME NEW i \in DOMAIN r PROVE Prec(Head(s), r[i])
  <2>1. 1 \in DOMAIN s /\ i + 1 \in DOMAIN s /\ 1 < i + 1
    BY <1>1, <1>2
  <2> QED BY <1>1, <1>2, <2>1 DEF Ordered
<1> QED BY <1>3, <1>4 DEF r, Range

\* The first message stays the first.
LEMMA FirstStays ==
    ASSUME NEW S, NEW s \in Seq(S), NEW x \in S
    PROVE  /\ Append(s, x) # <<>>
           /\ s # <<>> => Head(Append(s, x)) = Head(s)
<1> DEFINE u == Append(s, x)
<1>1. /\ u \in Seq(S) /\ Len(u) = Len(s) + 1 /\ Len(s) \in Nat
      /\ \A i \in 1 .. Len(s) : u[i] = s[i]
  BY AppendProperties, LenProperties
<1>2. s # <<>> => Len(s) # 0 /\ Head(s) = s[1]
  BY EmptySeq, HeadTailProperties
<1>3. Len(u) # 0
  BY <1>1
<1>4. u # <<>> /\ Head(u) = u[1]
  BY <1>1, <1>3, EmptySeq, HeadTailProperties
<1> QED BY <1>1, <1>2, <1>4

\* A step of the page's local side, which may cancel the transfer: what the device and the
\* page tell each other stays as it was.
CancelMsg == [k |-> "cancel", f |-> 0]
LocalStep(cancels) ==
    /\ UNCHANGED <<dlFiles, skipped, fromPeer, sender>>
    /\ digests' \subseteq digests
    /\ chain' = chain \/ (chain # <<>> /\ chain' = Tail(chain))
    /\ toPeer' = IF cancels THEN Append(toPeer, CancelMsg) ELSE toPeer
    /\ wasStopped' => wasStopped \/ cancels
    /\ dlStatus' \in {"starting", "running"} => dlStatus' = dlStatus /\ wasStopped' = wasStopped

LEMMA DlQueues ==
    ASSUME DlInv
    PROVE  /\ DlTypes /\ Telling /\ Starting /\ Sorting /\ Stopping /\ Landed
           /\ chain \in Seq(FromMsgs) /\ fromPeer \in Seq(FromMsgs) /\ toPeer \in Seq(ToMsgs)
           /\ \A K : Number(chain, K) \in Nat /\ Number(fromPeer, K) \in Nat /\ Number(toPeer, K) \in Nat
           /\ \A m \in Range(chain) \cup Range(fromPeer) : m \in FromMsgs
           /\ \A w \in Range(toPeer) : w \in ToMsgs
           /\ Pending \in Nat
<1>1. /\ DlTypes /\ Telling /\ Starting /\ Sorting /\ Stopping /\ Landed
      /\ chain \in Seq(FromMsgs) /\ fromPeer \in Seq(FromMsgs) /\ toPeer \in Seq(ToMsgs)
  BY DEF DlInv, DlTypes
<1>2. \A K : Number(chain, K) \in Nat /\ Number(fromPeer, K) \in Nat /\ Number(toPeer, K) \in Nat
  BY <1>1, NumberType
<1>3. /\ \A m \in Range(chain) \cup Range(fromPeer) : m \in FromMsgs
      /\ \A w \in Range(toPeer) : w \in ToMsgs
  BY <1>1, InRange
<1>4. Pending \in Nat
  <2>1. Number(fromPeer, Digests) \in Nat /\ Number(toPeer, Words) \in Nat
    BY <1>2
  <2> QED BY <2>1 DEF Pending
<1> QED BY <1>1, <1>2, <1>3, <1>4

LEMMA LocalKeeps ==
    ASSUME DlInv, NEW cancels \in BOOLEAN, LocalStep(cancels)
    PROVE  /\ Telling' /\ Starting' /\ Sorting' /\ Stopping'
           /\ chain' \in Seq(FromMsgs) /\ toPeer' \in Seq(ToMsgs)
           /\ Range(chain') \subseteq Range(chain) /\ DlFiles' = DlFiles
<1>1. /\ Telling /\ Starting /\ Sorting /\ Stopping
      /\ chain \in Seq(FromMsgs) /\ fromPeer \in Seq(FromMsgs) /\ toPeer \in Seq(ToMsgs)
      /\ \A K : Number(chain, K) \in Nat /\ Number(fromPeer, K) \in Nat /\ Number(toPeer, K) \in Nat
      /\ Pending \in Nat
  BY DlQueues
<1>2. /\ dlFiles' = dlFiles /\ DlFiles' = DlFiles /\ skipped' = skipped /\ fromPeer' = fromPeer
      /\ sender' = sender /\ digests' \subseteq digests
  BY DEF LocalStep, DlFiles
<1>3. /\ chain' \in Seq(FromMsgs) /\ Range(chain') \subseteq Range(chain)
      /\ Ordered(chain') /\ (chain = <<>> => chain' = <<>>)
  <2>1. Ordered(chain)
    BY <1>1 DEF Sorting
  <2>2. CASE chain' = chain
    BY <1>1, <2>1, <2>2
  <2>3. CASE chain # <<>> /\ chain' = Tail(chain)
    BY <1>1, <2>1, <2>3, Taken, OrderTaken
  <2> QED BY <2>2, <2>3 DEF LocalStep
<1>4. PICK c \in ToMsgs : c = CancelMsg /\ c.k = "cancel"
  <2>1. CancelMsg \in ToMsgs /\ CancelMsg.k = "cancel"
    BY DEF ToMsgs, CancelMsg
  <2> QED BY <2>1
<1>5. c \notin Words
  BY <1>4, DownKinds
<1>6. /\ Append(toPeer, c) \in Seq(ToMsgs) /\ Range(Append(toPeer, c)) = Range(toPeer) \cup {c}
      /\ \A K : Number(Append(toPeer, c), K) = Number(toPeer, K) + IF c \in K THEN 1 ELSE 0
      /\ Append(toPeer, c) # <<>> /\ (toPeer # <<>> => Head(Append(toPeer, c)) = Head(toPeer))
  BY <1>1, Sent, FirstStays
<1>7. /\ toPeer' \in Seq(ToMsgs) /\ Range(toPeer) \subseteq Range(toPeer')
      /\ Range(toPeer') \subseteq Range(toPeer) \cup {c}
      /\ cancels => c \in Range(toPeer')
      /\ Number(toPeer', Words) = Number(toPeer, Words)
      /\ toPeer # <<>> => toPeer' # <<>> /\ Head(toPeer') = Head(toPeer)
  <2>1. Number(toPeer, Words) \in Nat
    BY <1>1
  <2>2. Number(Append(toPeer, c), Words) = Number(toPeer, Words) + 0
    BY <1>5, <1>6
  <2>3. toPeer' = IF cancels THEN Append(toPeer, c) ELSE toPeer
    BY <1>4 DEF LocalStep
  <2> QED BY <1>1, <1>6, <2>1, <2>2, <2>3, SMTT(20)
<1>8. Pending' <= Pending /\ Pending' \in Nat
  <2>1. Number(fromPeer, Digests) \in Nat /\ Number(toPeer, Words) \in Nat
    BY <1>1
  <2> QED BY <1>2, <1>7, <2>1 DEF Pending
<1>9. Telling'
  BY <1>1, <1>2, <1>4, <1>7, <1>8 DEF Telling
<1>10. Starting'
  BY <1>1, <1>2, <1>3, <1>4, <1>7 DEF Starting
<1>11. Sorting'
  BY <1>1, <1>2, <1>3, <1>8 DEF Sorting
<1>12. Stopping'
  <2> SUFFICES ASSUME wasStopped'
               PROVE  /\ sender'.k = "over" \/ \E w \in Range(toPeer') : w.k = "cancel"
                      /\ dlStatus' \in {"starting", "running"} =>
                            /\ \A m \in Range(chain') \cup Range(fromPeer') : m.k \notin {"done", "skipped"}
                            /\ \/ sender'.k = "over"
                               \/ /\ toPeer' # <<>> /\ Head(toPeer').k = "cancel"
                                  /\ \/ sender'.k = "awaiting"
                                     \/ sender'.k = "announcing" /\ sender'.f <= dlFiles'
    BY DEF Stopping
  <2>1. wasStopped \/ cancels
    BY DEF LocalStep
  <2>2. sender.k = "over" \/ \E w \in Range(toPeer') : w.k = "cancel"
    BY <1>1, <1>4, <1>7, <2>1 DEF Stopping
  <2>3. ASSUME dlStatus' \in {"starting", "running"}
        PROVE  /\ \A m \in Range(chain') \cup Range(fromPeer') : m.k \notin {"done", "skipped"}
               /\ \/ sender.k = "over"
                  \/ /\ toPeer' # <<>> /\ Head(toPeer').k = "cancel"
                     /\ sender.k = "awaiting" \/ (sender.k = "announcing" /\ sender.f <= dlFiles)
    <3>1. wasStopped /\ dlStatus \in {"starting", "running"}
      BY <2>3 DEF LocalStep
    <3> QED BY <1>1, <1>2, <1>3, <1>7, <3>1 DEF Stopping
  <2> QED BY <1>2, <2>2, <2>3
<1> QED BY <1>2, <1>3, <1>7, <1>9, <1>10, <1>11, <1>12

LEMMA NoMessages ==
    ASSUME NEW S, NEW s \in Seq(S), Range(s) = {}
    PROVE  s = <<>>
<1>1. Len(s) \in Nat /\ DOMAIN s = 1 .. Len(s)
  BY LenProperties
<1>2. Len(s) = 0
  <2> SUFFICES ASSUME Len(s) # 0 PROVE FALSE
    OBVIOUS
  <2>1. 1 \in DOMAIN s
    BY <1>1
  <2> QED BY <2>1 DEF Range
<1> QED BY <1>2, EmptySeq

\* Closing the local file.
LEMMA Closed ==
    ASSUME DlTypes, NEW commit \in BOOLEAN, CloseJobFile(commit)
    PROVE  /\ writable' = NoStream /\ memBuf' = 0
           /\ NoStream \in [f : 0 .. dlFiles, n : Int] /\ NoStream.f = 0 /\ NoStream.n = 0
           /\ place' \in [DlFiles -> {"old", "part", "whole"}]
           /\ ~commit \/ (cur = 0 /\ writable.f = 0) => place' = place
<1>1. writable' = NoStream /\ memBuf' = 0
  BY DEF CloseJobFile
<1>2. NoStream \in [f : 0 .. dlFiles, n : Int] /\ NoStream.f = 0 /\ NoStream.n = 0
  BY DEF NoStream, DlTypes
<1>3. place' \in [DlFiles -> {"old", "part", "whole"}]
  <2>1. place \in [DlFiles -> {"old", "part", "whole"}]
    BY DEF DlTypes
  <2>2. ASSUME NEW c \in {"part", "whole"}, NEW g
        PROVE  [place EXCEPT ![g] = c] \in [DlFiles -> {"old", "part", "whole"}]
    BY <2>1
  <2>3. \/ place' = place
        \/ \E c \in {"part", "whole"}, g \in 0 .. dlFiles : place' = [place EXCEPT ![g] = c]
    <3>1. writable.f \in 0 .. dlFiles /\ cur \in 0 .. dlFiles
      BY DEF DlTypes
    <3> QED BY <3>1 DEF CloseJobFile
  <2> QED BY <2>1, <2>2, <2>3
<1>4. ~commit \/ (cur = 0 /\ writable.f = 0) => place' = place
  BY DEF CloseJobFile
<1> QED BY <1>1, <1>2, <1>3, <1>4

LEMMA StoringStays ==
    ASSUME DlTypes, Storing, UNCHANGED <<dlFiles, sender, place, cur>>, skipped \subseteq skipped',
           \A f \in DlFiles : Got(f)' = Got(f) /\ EndComes(f)' = EndComes(f),
           \A m \in Range(chain') \cup Range(fromPeer') :
               m.k \in Data => m \in Range(chain) \cup Range(fromPeer)
    PROVE  Storing'
<1>1. DlFiles' = DlFiles
  BY DEF DlFiles
<1>2. sender'.k = "sent" => Got(sender.f)' = sender'.n
  <2> SUFFICES ASSUME sender.k = "sent" PROVE Got(sender.f)' = sender.n
    OBVIOUS
  <2>1. PICK g \in DlFiles : g = sender.f
    BY DEF DlTypes
  <2>2. Got(g)' = sender.n
    BY <2>1 DEF Storing
  <2> QED BY <2>1, <2>2 DEF Got, Stored
<1>3. cur # 0 => \/ cur < sender.f /\ EndComes(cur)'
                 \/ cur = sender.f /\ sender.k \in {"sent", "over"}
  <2> SUFFICES ASSUME cur # 0
               PROVE  \/ cur < sender.f /\ EndComes(cur)'
                      \/ cur = sender.f /\ sender.k \in {"sent", "over"}
    OBVIOUS
  <2>1. PICK g \in DlFiles : g = cur
    BY DEF DlTypes, DlFiles
  <2>2. \/ g < sender.f /\ EndComes(g)'
        \/ g = sender.f /\ sender.k \in {"sent", "over"}
    BY <2>1 DEF Storing
  <2> QED BY <2>1, <2>2 DEF EndComes
<1>4. cur # 0 => \A m \in Range(chain') \cup Range(fromPeer') : m.k \in Data => m.f >= cur
  BY DEF Storing
<1>5. \A f \in DlFiles :
          /\ EndComes(f)' => Got(f)' = Blocks
          /\ f < sender.f /\ f \notin skipped' /\ ~EndComes(f)' => place[f] = "whole"
          /\ f < sender.f /\ (\E m \in Range(chain') \cup Range(fromPeer') : m.k = "block" /\ m.f = f)
                => EndComes(f)'
          /\ place[f] # "part"
  BY DEF Storing, Data
<1> QED BY <1>1, <1>2, <1>3, <1>4, <1>5 DEF Storing

\* What a task on the way says of the transfer.
LEMMA TaskFacts ==
    ASSUME DlInv, chain # <<>>, NEW t, t = Head(chain)
    PROVE  /\ t \in FromMsgs /\ t.k \in {"block", "eof", "done"} /\ Range(chain) = {t} \cup Range(Tail(chain))
           /\ Tail(chain) \in Seq(FromMsgs)
           /\ \A K : Number(chain, K) = Number(Tail(chain), K) + IF t \in K THEN 1 ELSE 0
           /\ \A K : Number(Tail(chain), K) \in Nat
           /\ \A m \in Range(Tail(chain)) \cup Range(fromPeer) : Prec(t, m)
           /\ t.k \in Data => t.f \in DlFiles
           /\ dlStatus = "done" => sender.k = "over" /\ DlFiles \subseteq skipped
<1>1. /\ DlTypes /\ Sorting /\ Landed /\ chain \in Seq(FromMsgs)
  BY DlQueues
<1>2. /\ t \in FromMsgs /\ Range(chain) = {t} \cup Range(Tail(chain))
      /\ Tail(chain) \in Seq(FromMsgs)
      /\ \A K : Number(chain, K) = Number(Tail(chain), K) + IF t \in K THEN 1 ELSE 0
  BY <1>1, Taken
<1>3. \A K : Number(Tail(chain), K) \in Nat
  BY <1>2, NumberType
<1>4. /\ \A m \in Range(Tail(chain)) : Prec(t, m)
      /\ \A m \in Range(fromPeer) : Prec(t, m)
  BY <1>1, <1>2, OrderTaken DEF Sorting
<1>5. t.k \in {"block", "eof", "done"} /\ (t.k \in Data => t.f \in DlFiles)
  BY <1>1, <1>2 DEF Sorting, DlTypes
<1> QED BY <1>1, <1>2, <1>3, <1>4, <1>5 DEF Landed

LEMMA FileOpened ==
    ASSUME DlInv, Opened
    PROVE  DlInv'
<1>1. /\ opening /\ opening' = FALSE /\ writable' = [f |-> cur, n |-> 0]
      /\ UNCHANGED <<dlFiles, dlStatus, inMemory, policy, digests, chain, writing, cur, memBuf,
                     place, skipped, wasStopped, fromPeer, toPeer, sender>>
  BY DEF Opened
<1>2. DlTypes
  BY DEF DlInv
<1>3. LocalStep(FALSE)
  BY <1>1, <1>2 DEF LocalStep, DlTypes
<1>4. Telling' /\ Starting' /\ Sorting' /\ Stopping' /\ DlFiles' = DlFiles
  BY <1>3, LocalKeeps
<1>5. DlTypes'
  <2>1. writable' \in [f : 0 .. dlFiles, n : Int]
    BY <1>1, <1>2 DEF DlTypes
  <2> QED BY <1>1, <1>2, <1>4, <2>1 DEF DlTypes
<1>6. Landed'
  BY <1>1, <1>4 DEF DlInv, Landed
<1>7. ASSUME ~wasStopped PROVE Handling' /\ Storing'
  <2>1. Handling /\ Storing /\ ~inMemory /\ cur # 0 /\ ~writing /\ writable = NoStream
    BY <1>1, <1>7 DEF DlInv, Handling
  <2>2. Handling'
    BY <1>1, <2>1 DEF Handling
  <2>3. \A f \in DlFiles : Got(f)' = Got(f) /\ EndComes(f)' = EndComes(f)
    <3>1. \A f \in DlFiles : Stored(f)' = Stored(f)
      BY <1>1, <2>1 DEF Stored, NoStream
    <3> QED BY <1>1, <3>1 DEF Got, EndComes
  <2> QED BY <1>1, <1>2, <2>1, <2>2, <2>3, StoringStays
<1> QED BY <1>1, <1>4, <1>5, <1>6, <1>7 DEF DlInv

LEMMA BlockWritten ==
    ASSUME DlInv, Written
    PROVE  DlInv'
<1>1. /\ writing /\ writable.f # 0 /\ writable' = [writable EXCEPT !.n = @ + 1]
      /\ chain' = Tail(chain) /\ writing' = FALSE
      /\ UNCHANGED <<dlFiles, dlStatus, inMemory, policy, digests, opening, cur, memBuf, place,
                     skipped, wasStopped, fromPeer, toPeer, sender>>
  BY DEF Written, TaskEnds
<1>2. DlTypes /\ chain # <<>>
  BY <1>1 DEF DlInv, DlTypes
<1>3. LocalStep(FALSE)
  BY <1>1, <1>2 DEF LocalStep
<1>4. /\ Telling' /\ Starting' /\ Sorting' /\ Stopping' /\ DlFiles' = DlFiles
      /\ chain' \in Seq(FromMsgs) /\ Range(chain') \subseteq Range(chain)
  BY <1>3, LocalKeeps
<1>0. PICK t : t = Head(chain)
  OBVIOUS
<1>5. /\ t \in FromMsgs /\ Range(chain) = {t} \cup Range(chain')
      /\ \A K : Number(chain, K) = Number(chain', K) + IF t \in K THEN 1 ELSE 0
      /\ \A K : Number(chain', K) \in Nat
      /\ dlStatus = "done" => sender.k = "over" /\ DlFiles \subseteq skipped
  BY <1>0, <1>1, <1>2, TaskFacts
<1>6. Landed'
  BY <1>1, <1>4, <1>5 DEF Landed
<1>7. writable' \in [f : 0 .. dlFiles, n : Int] /\ writable'.f = writable.f /\ writable'.n = writable.n + 1
  <2>1. writable \in [f : 0 .. dlFiles, n : Int]
    BY <1>2 DEF DlTypes
  <2>2. writable' = [writable EXCEPT !.n = @ + 1]
    BY <1>1
  <2> QED BY <2>1, <2>2
<1>8. ASSUME ~wasStopped
      PROVE  /\ Handling /\ Storing /\ ~opening /\ ~inMemory /\ cur # 0 /\ writable.f = cur
             /\ writable.n \in Nat /\ t.k = "block" /\ t.f = cur
  <2>1. Handling /\ Storing
    BY <1>8 DEF DlInv
  <2> QED BY <1>0, <1>1, <2>1 DEF Handling
<1>9. DlTypes'
  BY <1>1, <1>2, <1>4, <1>5, <1>7 DEF DlTypes
<1>10. ASSUME ~wasStopped PROVE Handling' /\ Storing'
  <2>1. Handling'
    BY <1>1, <1>7, <1>8, <1>10 DEF Handling
  <2>2. ASSUME NEW f \in DlFiles PROVE Got(f)' = Got(f)
    <3>1. Stored(f)' = Stored(f) + IF f = cur THEN 1 ELSE 0
      BY <1>1, <1>7, <1>8, <1>10 DEF Stored
    <3>2. t \in PiecesOf(f) <=> f = cur
      BY <1>5, <1>8, <1>10, DownKinds
    <3>3. /\ Number(chain, PiecesOf(f)) = Number(chain', PiecesOf(f)) + IF f = cur THEN 1 ELSE 0
          /\ Number(chain', PiecesOf(f)) \in Nat
      BY <1>5, <3>2
    <3>4. Stored(f) \in Int /\ Number(fromPeer, PiecesOf(f)) \in Nat
      BY <1>1, <1>2, <1>8, <1>10, DlQueues DEF Stored
    <3>5. Stored(f)' + Number(chain', PiecesOf(f)) = Stored(f) + Number(chain, PiecesOf(f))
      BY <3>1, <3>3, <3>4
    <3> QED BY <1>1, <3>5 DEF Got
  <2>3. \A f \in DlFiles : EndComes(f)' = EndComes(f)
    BY <1>1, <1>5, <1>8, <1>10 DEF EndComes
  <2> QED BY <1>1, <1>2, <1>4, <1>8, <1>10, <2>1, <2>2, <2>3, StoringStays
<1> QED BY <1>1, <1>4, <1>6, <1>9, <1>10 DEF DlInv

LEMMA LocalFailed ==
    ASSUME DlInv, LocalFileFails
    PROVE  DlInv'
<1>1. /\ opening \/ writing
      /\ dlStatus' = "error" /\ wasStopped' = TRUE /\ opening' = FALSE
      /\ writable' = (IF writable.f = 0 THEN writable ELSE [writable EXCEPT !.n = Failed])
      /\ toPeer' = Append(toPeer, CancelMsg)
      /\ chain' = Tail(chain) /\ writing' = FALSE
      /\ UNCHANGED <<dlFiles, inMemory, policy, digests, cur, memBuf, place, skipped, fromPeer, sender>>
  BY DEF LocalFileFails, TaskEnds, CancelMsg
<1>2. DlTypes /\ chain # <<>>
  BY <1>1 DEF DlInv, DlTypes
<1>3. LocalStep(TRUE)
  BY <1>1, <1>2 DEF LocalStep
<1>4. /\ Telling' /\ Starting' /\ Sorting' /\ Stopping' /\ DlFiles' = DlFiles
      /\ chain' \in Seq(FromMsgs) /\ Range(chain') \subseteq Range(chain) /\ toPeer' \in Seq(ToMsgs)
  BY <1>3, LocalKeeps
<1>5. writable' \in [f : 0 .. dlFiles, n : Int]
  <2>1. writable \in [f : 0 .. dlFiles, n : Int] /\ Failed \in Int
    BY <1>2 DEF DlTypes, Failed
  <2>2. [writable EXCEPT !.n = Failed] \in [f : 0 .. dlFiles, n : Int]
    BY <2>1
  <2> QED BY <1>1, <2>1, <2>2
<1>6. DlTypes'
  BY <1>1, <1>2, <1>4, <1>5 DEF DlTypes, Ended
<1> QED BY <1>1, <1>4, <1>6 DEF DlInv, Landed

\* A task begins with another file than the current one: there is none.
LEMMA TaskOpens ==
    ASSUME DlInv, BeginTask, NEW t, t = Head(chain), t.k \in Data, cur # t.f
    PROVE  DlInv'
<1>1. /\ chain # <<>> /\ ~opening /\ ~writing
      /\ CloseJobFile(TRUE) /\ cur' = t.f /\ opening' = ~inMemory
      /\ UNCHANGED <<chain, writing, dlStatus, dlFiles, inMemory, policy, digests, skipped,
                     wasStopped, fromPeer, toPeer, sender>>
  BY DEF BeginTask, Data
<1>2. DlTypes /\ Sorting
  BY DEF DlInv
<1>3. LocalStep(FALSE)
  BY <1>1 DEF LocalStep
<1>4. Telling' /\ Starting' /\ Sorting' /\ Stopping' /\ DlFiles' = DlFiles
  BY <1>3, LocalKeeps
<1>5. /\ t \in FromMsgs /\ Range(chain) = {t} \cup Range(Tail(chain))
      /\ \A m \in Range(Tail(chain)) \cup Range(fromPeer) : Prec(t, m)
      /\ t.f \in DlFiles /\ (dlStatus = "done" => sender.k = "over" /\ DlFiles \subseteq skipped)
  BY <1>1, TaskFacts
<1>6. /\ writable' = NoStream /\ memBuf' = 0
      /\ NoStream \in [f : 0 .. dlFiles, n : Int] /\ NoStream.f = 0 /\ NoStream.n = 0
      /\ place' \in [DlFiles -> {"old", "part", "whole"}]
      /\ cur = 0 /\ writable.f = 0 => place' = place
  BY <1>1, <1>2, Closed
<1>7. t.f \in 0 .. dlFiles /\ t.f # 0 /\ t.f \in Nat /\ cur \in Nat /\ sender.f \in Nat
  BY <1>2, <1>5 DEF DlFiles, DlTypes
<1>8. DlTypes'
  BY <1>1, <1>2, <1>4, <1>6, <1>7 DEF DlTypes
<1>9. Landed'
  BY <1>1, <1>4, <1>5 DEF Landed
<1>10. \A m \in Range(chain) \cup Range(fromPeer) : m.k \in Data => m.f \in DlFiles /\ m.f >= t.f
  <2>1. ASSUME NEW m \in Range(chain) \cup Range(fromPeer), m.k \in Data PROVE m.f \in DlFiles /\ m.f >= t.f
    <3>1. m.f \in DlFiles /\ m.f \in Nat
      BY <1>2, <2>1 DEF Sorting, DlFiles
    <3>2. m = t \/ Prec(t, m)
      BY <1>5
    <3> QED BY <1>7, <2>1, <3>1, <3>2 DEF Prec
  <2> QED BY <2>1
<1>11. t.f < sender.f \/ (t.f = sender.f /\ t.k = "block" /\ sender.k \in {"sent", "over"})
  BY <1>2, <1>5 DEF Sorting
<1>12. ASSUME ~wasStopped PROVE Handling' /\ Storing'
  <2>1. Handling /\ Storing
    BY <1>12 DEF DlInv
  <2>2. cur = 0
    <3> SUFFICES ASSUME cur # 0 PROVE FALSE
      OBVIOUS
    <3>1. t.f >= cur /\ t.f > cur
      BY <1>5, <1>7, <2>1 DEF Storing
    <3>2. cur < sender.f
      BY <1>7, <1>11, <3>1
    <3>3. EndComes(cur)
      BY <1>7, <2>1, <3>2 DEF Storing
    <3>4. PICK m \in Range(chain) \cup Range(fromPeer) : m.k = "eof" /\ m.f = cur
      BY <3>3 DEF EndComes
    <3>5. m.f >= t.f
      BY <1>10, <3>4 DEF Data
    <3> QED BY <1>7, <3>1, <3>4, <3>5
  <2>3. writable = NoStream /\ memBuf = 0 /\ place' = place
    BY <1>6, <2>1, <2>2 DEF Handling
  <2>4. Handling'
    BY <1>1, <1>6, <1>7, <2>1 DEF Handling
  <2>5. \A f \in DlFiles : Got(f)' = Got(f) /\ EndComes(f)' = EndComes(f)
    <3>1. \A f \in DlFiles : f # 0
      BY DEF DlFiles
    <3>2. \A f \in DlFiles : Stored(f)' = 0 /\ Stored(f) = 0
      BY <1>1, <1>6, <2>2, <3>1 DEF Stored
    <3> QED BY <1>1, <3>2 DEF Got, EndComes
  <2>6. sender.k = "sent" => Got(sender.f)' = sender.n
    <3> SUFFICES ASSUME sender.k = "sent" PROVE Got(sender.f)' = sender.n
      OBVIOUS
    <3>1. PICK g \in DlFiles : g = sender.f
      BY <1>2 DEF DlTypes
    <3>2. Got(g)' = sender.n
      BY <2>1, <2>5, <3>1 DEF Storing
    <3> QED BY <1>1, <3>1, <3>2 DEF Got, Stored
  <2>7. PICK g \in DlFiles : g = t.f
    BY <1>5
  <2>8. g < sender.f => EndComes(g)
    <3>1. t.k \in {"block", "eof"}
      BY DEF Data
    <3>2. CASE t.k = "block"
      BY <1>5, <2>1, <2>7, <3>2 DEF Storing
    <3>3. CASE t.k = "eof"
      BY <1>5, <2>7, <3>3 DEF EndComes
    <3> QED BY <3>1, <3>2, <3>3
  <2>9. \/ cur' < sender.f /\ EndComes(cur)'
        \/ cur' = sender.f /\ sender.k \in {"sent", "over"}
    <3>1. EndComes(g)' = EndComes(g)
      BY <2>5
    <3> QED BY <1>1, <1>11, <2>7, <2>8, <3>1 DEF EndComes
  <2>10. \A f \in DlFiles :
          /\ EndComes(f)' => Got(f)' = Blocks
          /\ f < sender.f /\ f \notin skipped /\ ~EndComes(f)' => place[f] = "whole"
          /\ f < sender.f /\ (\E m \in Range(chain) \cup Range(fromPeer) : m.k = "block" /\ m.f = f)
                => EndComes(f)'
          /\ place[f] # "part"
    BY <2>1, <2>5 DEF Storing
  <2>11. Storing'
    BY <1>1, <1>4, <1>10, <2>3, <2>6, <2>9, <2>10 DEF Storing
  <2> QED BY <2>4, <2>11
<1> QED BY <1>1, <1>4, <1>8, <1>9, <1>12 DEF DlInv

\* A block goes to the stream, or to the memory.
LEMMA TaskWrites ==
    ASSUME DlInv, BeginTask, NEW t, t = Head(chain), t.k = "block", cur = t.f
    PROVE  DlInv'
<1>1. /\ chain # <<>> /\ ~opening /\ ~writing
      /\ \/ writable.f # 0 /\ writing' = TRUE /\ UNCHANGED <<chain, memBuf>>
         \/ writable.f = 0 /\ memBuf' = memBuf + 1 /\ chain' = Tail(chain) /\ writing' = FALSE
      /\ UNCHANGED <<cur, opening, writable, place, dlStatus, dlFiles, inMemory, policy, digests,
                     skipped, wasStopped, fromPeer, toPeer, sender>>
  BY DEF BeginTask, TaskEnds
<1>2. DlTypes
  BY DEF DlInv
<1>3. LocalStep(FALSE)
  BY <1>1 DEF LocalStep
<1>4. /\ Telling' /\ Starting' /\ Sorting' /\ Stopping' /\ DlFiles' = DlFiles
      /\ chain' \in Seq(FromMsgs) /\ Range(chain') \subseteq Range(chain)
  BY <1>3, LocalKeeps
<1>5. /\ t \in FromMsgs /\ Range(chain) = {t} \cup Range(Tail(chain))
      /\ \A K : Number(chain, K) = Number(Tail(chain), K) + IF t \in K THEN 1 ELSE 0
      /\ \A K : Number(Tail(chain), K) \in Nat
      /\ t.f \in DlFiles /\ (dlStatus = "done" => sender.k = "over" /\ DlFiles \subseteq skipped)
  BY <1>1, TaskFacts DEF Data
<1>6. Landed'
  BY <1>1, <1>4, <1>5 DEF Landed
<1>7. DlTypes'
  <2>1. /\ chain' \in Seq(FromMsgs) /\ \A m \in Range(chain') : m.k \in {"block", "eof", "done"}
        /\ memBuf' \in Nat /\ writing' \in BOOLEAN
    <3>1. memBuf \in Nat /\ \A m \in Range(chain) : m.k \in {"block", "eof", "done"}
      BY <1>2 DEF DlTypes
    <3>2. memBuf' = memBuf \/ memBuf' = memBuf + 1
      BY <1>1
    <3>3. memBuf' \in Nat
      BY <3>1, <3>2
    <3>4. writing' \in BOOLEAN
      BY <1>1
    <3> QED BY <1>4, <3>1, <3>3, <3>4
  <2>2. (opening' \/ writing' => chain' # <<>>) /\ ~(opening' /\ writing')
    BY <1>1
  <2> QED BY <1>1, <1>2, <1>4, <2>1, <2>2 DEF DlTypes
<1>8. t.f # 0
  BY <1>5 DEF DlFiles
<1>9. ASSUME ~wasStopped PROVE Handling' /\ Storing'
  <2>1. Handling /\ Storing
    BY <1>9 DEF DlInv
  <2>2. CASE writable.f # 0 /\ writing' = TRUE /\ UNCHANGED <<chain, memBuf>>
    <3>1. ~inMemory
      BY <2>1, <2>2 DEF Handling, NoStream
    <3>2. Handling'
      BY <1>1, <1>8, <2>1, <2>2, <3>1 DEF Handling
    <3>3. \A f \in DlFiles : Got(f)' = Got(f) /\ EndComes(f)' = EndComes(f)
      BY <1>1, <2>2 DEF Got, Stored, EndComes
    <3> QED BY <1>1, <1>2, <2>1, <2>2, <3>2, <3>3, StoringStays
  <2>3. CASE writable.f = 0 /\ memBuf' = memBuf + 1 /\ chain' = Tail(chain) /\ writing' = FALSE
    <3>1. inMemory
      BY <1>1, <1>8, <2>1, <2>3 DEF Handling
    <3>2. Handling'
      BY <1>1, <1>8, <2>1, <2>3, <3>1 DEF Handling
    <3>3. ASSUME NEW f \in DlFiles PROVE Got(f)' = Got(f)
      <4>1. Stored(f)' = Stored(f) + IF f = cur THEN 1 ELSE 0
        BY <1>1, <2>3, <3>1 DEF Stored
      <4>2. t \in PiecesOf(f) <=> f = cur
        BY <1>5, DownKinds
      <4>3. /\ Number(chain, PiecesOf(f)) = Number(chain', PiecesOf(f)) + IF f = cur THEN 1 ELSE 0
            /\ Number(chain', PiecesOf(f)) \in Nat
        BY <1>5, <2>3, <4>2
      <4>4. Stored(f) \in Int /\ Number(fromPeer, PiecesOf(f)) \in Nat
        BY <1>2, <3>1, DlQueues DEF Stored, DlTypes
      <4>5. Stored(f)' + Number(chain', PiecesOf(f)) = Stored(f) + Number(chain, PiecesOf(f))
        BY <4>1, <4>3, <4>4
      <4> QED BY <1>1, <4>5 DEF Got
    <3>4. \A f \in DlFiles : EndComes(f)' = EndComes(f)
      BY <1>1, <1>5, <2>3 DEF EndComes
    <3> QED BY <1>1, <1>2, <1>4, <2>1, <3>2, <3>3, <3>4, StoringStays
  <2> QED BY <1>1, <2>2, <2>3
<1> QED BY <1>1, <1>4, <1>6, <1>7, <1>9 DEF DlInv

\* The end of a file: all of its blocks are in it.
LEMMA TaskCloses ==
    ASSUME DlInv, BeginTask, NEW t, t = Head(chain), t.k = "eof", cur = t.f
    PROVE  DlInv'
<1>1. /\ chain # <<>> /\ ~opening /\ ~writing
      /\ CloseJobFile(TRUE) /\ cur' = 0 /\ chain' = Tail(chain) /\ writing' = FALSE
      /\ UNCHANGED <<opening, dlStatus, dlFiles, inMemory, policy, digests, skipped, wasStopped,
                     fromPeer, toPeer, sender>>
  BY DEF BeginTask, TaskEnds
<1>2. DlTypes /\ Sorting
  BY DEF DlInv
<1>3. LocalStep(FALSE)
  BY <1>1 DEF LocalStep
<1>4. /\ Telling' /\ Starting' /\ Sorting' /\ Stopping' /\ DlFiles' = DlFiles
      /\ chain' \in Seq(FromMsgs) /\ Range(chain') \subseteq Range(chain)
  BY <1>3, LocalKeeps
<1>5. /\ t \in FromMsgs /\ Range(chain) = {t} \cup Range(chain')
      /\ \A K : Number(chain, K) = Number(chain', K) + IF t \in K THEN 1 ELSE 0
      /\ \A K : Number(chain', K) \in Nat
      /\ \A m \in Range(chain') \cup Range(fromPeer) : Prec(t, m)
      /\ t.f \in DlFiles /\ (dlStatus = "done" => sender.k = "over" /\ DlFiles \subseteq skipped)
  BY <1>1, TaskFacts DEF Data
<1>6. /\ writable' = NoStream /\ memBuf' = 0
      /\ NoStream \in [f : 0 .. dlFiles, n : Int]
      /\ place' \in [DlFiles -> {"old", "part", "whole"}]
  BY <1>1, <1>2, Closed
<1>7. DlTypes'
  <2>1. /\ chain' \in Seq(FromMsgs) /\ \A m \in Range(chain') : m.k \in {"block", "eof", "done"}
        /\ memBuf' \in Nat /\ cur' \in 0 .. dlFiles
    BY <1>1, <1>2, <1>4, <1>6 DEF DlTypes
  <2>2. ~opening' /\ ~writing' /\ opening' \in BOOLEAN /\ writing' \in BOOLEAN
    BY <1>1, <1>2 DEF DlTypes
  <2> QED BY <1>1, <1>2, <1>4, <1>6, <2>1, <2>2 DEF DlTypes
<1>8. Landed'
  BY <1>1, <1>4, <1>5 DEF Landed
<1>9. PICK g \in DlFiles : g = t.f
  BY <1>5
<1>10. g \in Nat /\ g # 0 /\ cur = g /\ sender.f \in Nat /\ g < sender.f
  <2>1. t.f < sender.f
    BY <1>2, <1>5 DEF Sorting, Data
  <2> QED BY <1>2, <1>9, <2>1 DEF DlFiles, DlTypes
<1>11. \A m \in Range(chain') \cup Range(fromPeer) : m.k \in Data => m.f # g
  <2>1. ASSUME NEW m \in Range(chain') \cup Range(fromPeer), m.k \in Data PROVE m.f # g
    <3>1. t.f < m.f \/ (t.f = m.f /\ t.k = "block")
      BY <1>5, <2>1 DEF Prec, Data
    <3> QED BY <1>9, <1>10, <3>1
  <2> QED BY <2>1
<1>12. ASSUME ~wasStopped PROVE Handling' /\ Storing'
  <2>1. Handling /\ Storing
    BY <1>12 DEF DlInv
  <2>2. Handling'
    BY <1>1, <1>6, <2>1 DEF Handling
  <2>3. Stored(g) = Blocks
    <3>1. EndComes(g)
      BY <1>5, <1>9 DEF EndComes
    <3>2. Got(g) = Blocks
      BY <2>1, <3>1 DEF Storing
    <3>3. \A m \in Range(chain) \cup Range(fromPeer) : m \notin PiecesOf(g)
      BY <1>5, <1>11 DEF PiecesOf, Data
    <3>4. Number(chain, PiecesOf(g)) = 0 /\ Number(fromPeer, PiecesOf(g)) = 0
      BY <1>2, <3>3, NumberZero DEF DlTypes
    <3>5. Stored(g) \in Int
      BY <1>1, <1>2, <1>10, <2>1 DEF Stored, Handling, DlTypes
    <3> QED BY <3>2, <3>4, <3>5 DEF Got
  <2>4. place' = [place EXCEPT ![g] = "whole"]
    <3>1. CASE inMemory
      <4>1. writable.f = 0 /\ memBuf = Blocks
        BY <1>10, <2>1, <2>3, <3>1 DEF Handling, NoStream, Stored
      <4> QED BY <1>1, <1>10, <3>1, <4>1 DEF CloseJobFile
    <3>2. CASE ~inMemory
      <4>1. writable.f = g /\ writable.n = Blocks /\ Blocks # Failed
        BY <1>1, <1>10, <2>1, <2>3, <3>2, DownloadAssumption DEF Handling, Stored, Failed
      <4> QED BY <1>1, <1>10, <4>1 DEF CloseJobFile
    <3> QED BY <3>1, <3>2
  <2>5. \A f \in DlFiles : place'[f] = IF f = g THEN "whole" ELSE place[f]
    BY <1>2, <2>4 DEF DlTypes
  <2>6. ASSUME NEW f \in DlFiles, f # g PROVE Got(f)' = Got(f) /\ EndComes(f)' = EndComes(f)
    <3>1. f # 0
      BY DEF DlFiles
    <3>2. Stored(f)' = 0 /\ Stored(f) = 0
      BY <1>1, <1>10, <2>6, <3>1 DEF Stored
    <3>3. t \notin PiecesOf(f)
      BY <1>5, DownKinds
    <3>4. Number(chain, PiecesOf(f)) = Number(chain', PiecesOf(f))
      <4>1. Number(chain', PiecesOf(f)) \in Nat
        BY <1>5
      <4> QED BY <1>5, <3>3, <4>1
    <3>5. EndComes(f)' = EndComes(f)
      BY <1>1, <1>5, <1>9, <2>6 DEF EndComes
    <3> QED BY <1>1, <3>2, <3>4, <3>5 DEF Got
  <2>7. ~EndComes(g)' /\ ~(\E m \in Range(chain') \cup Range(fromPeer) : m.k = "block" /\ m.f = g)
    BY <1>1, <1>11 DEF EndComes, Data
  <2>8. sender.k = "sent" => Got(sender.f)' = sender.n
    <3> SUFFICES ASSUME sender.k = "sent" PROVE Got(sender.f)' = sender.n
      OBVIOUS
    <3>1. PICK h \in DlFiles : h = sender.f
      BY <1>2 DEF DlTypes
    <3>2. h # g
      BY <1>10, <3>1
    <3>3. Got(h)' = sender.n
      BY <2>1, <2>6, <3>1, <3>2 DEF Storing
    <3> QED BY <1>1, <3>1, <3>3 DEF Got, Stored
  <2>9. ASSUME NEW f \in DlFiles
        PROVE  /\ EndComes(f)' => Got(f)' = Blocks
               /\ f < sender.f /\ f \notin skipped /\ ~EndComes(f)' => place'[f] = "whole"
               /\ f < sender.f /\ (\E m \in Range(chain') \cup Range(fromPeer) : m.k = "block" /\ m.f = f)
                     => EndComes(f)'
               /\ place'[f] # "part"
    <3>1. CASE f = g
      BY <2>5, <2>7, <3>1
    <3>2. CASE f # g
      <4>1. Got(f)' = Got(f) /\ EndComes(f)' = EndComes(f) /\ place'[f] = place[f]
        BY <2>5, <2>6, <3>2
      <4> QED BY <1>4, <2>1, <4>1 DEF Storing
    <3> QED BY <3>1, <3>2
  <2>10. Storing'
    BY <1>1, <1>4, <2>8, <2>9 DEF Storing
  <2> QED BY <2>2, <2>10
<1> QED BY <1>1, <1>4, <1>7, <1>8, <1>12 DEF DlInv

\* The end of the transfer: nothing is left, and every file is closed.
LEMMA TaskFinishes ==
    ASSUME DlInv, BeginTask, NEW t, t = Head(chain), t.k = "done"
    PROVE  DlInv'
<1>1. /\ chain # <<>> /\ ~opening /\ ~writing
      /\ CloseJobFile(TRUE) /\ cur' = 0 /\ chain' = Tail(chain) /\ writing' = FALSE
      /\ dlStatus' = (IF dlStatus \in Ended THEN dlStatus ELSE "done")
      /\ UNCHANGED <<opening, dlFiles, inMemory, policy, digests, skipped, wasStopped,
                     fromPeer, toPeer, sender>>
  BY DEF BeginTask, TaskEnds
<1>2. DlTypes /\ Sorting /\ Stopping
  BY DEF DlInv
<1>3. LocalStep(FALSE)
  BY <1>1, <1>2 DEF LocalStep, DlTypes, Ended
<1>4. /\ Telling' /\ Starting' /\ Sorting' /\ Stopping' /\ DlFiles' = DlFiles
      /\ chain' \in Seq(FromMsgs) /\ Range(chain') \subseteq Range(chain)
  BY <1>3, LocalKeeps
<1>5. /\ t \in FromMsgs /\ Range(chain) = {t} \cup Range(chain')
      /\ \A m \in Range(chain') \cup Range(fromPeer) : Prec(t, m)
      /\ (dlStatus = "done" => sender.k = "over" /\ DlFiles \subseteq skipped)
  BY <1>1, TaskFacts
<1>6. chain' = <<>> /\ fromPeer = <<>>
  <2>1. \A m : ~Prec(t, m)
    BY DEF Prec
  <2>2. Range(chain') = {} /\ Range(fromPeer) = {}
    BY <1>5, <2>1
  <2>3. fromPeer \in Seq(FromMsgs)
    BY <1>2 DEF DlTypes
  <2>4. PICK c \in Seq(FromMsgs) : c = chain'
    BY <1>4
  <2> QED BY <2>2, <2>3, <2>4, NoMessages
<1>7. /\ writable' = NoStream /\ memBuf' = 0
      /\ NoStream \in [f : 0 .. dlFiles, n : Int]
      /\ place' \in [DlFiles -> {"old", "part", "whole"}]
      /\ cur = 0 /\ writable.f = 0 => place' = place
  BY <1>1, <1>2, Closed
<1>8. DlTypes'
  <2>1. /\ chain' \in Seq(FromMsgs) /\ \A m \in Range(chain') : m.k \in {"block", "eof", "done"}
        /\ memBuf' \in Nat /\ cur' \in 0 .. dlFiles
    BY <1>1, <1>2, <1>4, <1>7 DEF DlTypes
  <2>2. ~opening' /\ ~writing' /\ opening' \in BOOLEAN /\ writing' \in BOOLEAN
    BY <1>1, <1>2 DEF DlTypes
  <2>3. /\ dlStatus' \in {"starting", "running", "done", "error", "cancelled"}
        /\ dlStatus' \in Ended => wasStopped'
    BY <1>1, <1>2 DEF DlTypes, Ended
  <2> QED BY <1>1, <1>2, <1>4, <1>7, <2>1, <2>2, <2>3 DEF DlTypes
<1>9. sender.k = "over" /\ sender.f = dlFiles + 1 /\ Range(fromPeer) = {} /\ Range(chain') = {}
  BY <1>2, <1>5, <1>6, EmptyQueue DEF Sorting
<1>10. ASSUME ~wasStopped
       PROVE  Handling' /\ Storing' /\ \A f \in DlFiles \ skipped : place'[f] = "whole"
  <2>1. Handling /\ Storing
    BY <1>10 DEF DlInv
  <2>2. \A f : ~EndComes(f) /\ ~EndComes(f)'
    BY <1>1, <1>5, <1>9 DEF EndComes
  <2>3. cur = 0
    <3>1. cur \in 0 .. dlFiles /\ dlFiles \in Nat
      BY <1>2 DEF DlTypes
    <3> QED BY <1>9, <2>1, <2>2, <3>1 DEF Storing
  <2>4. place' = place
    BY <1>7, <2>1, <2>3 DEF Handling, NoStream
  <2>5. Handling'
    BY <1>1, <1>7, <2>1 DEF Handling
  <2>6. \A f \in DlFiles : f < sender.f
    BY <1>2, <1>9 DEF DlFiles, DlTypes
  <2>7. \A f \in DlFiles : (f \notin skipped => place[f] = "whole") /\ place[f] # "part"
    BY <2>1, <2>2, <2>6 DEF Storing
  <2>8. Storing'
    BY <1>1, <1>4, <1>9, <2>2, <2>4, <2>7 DEF Storing
  <2> QED BY <2>4, <2>5, <2>7, <2>8
<1>11. Landed'
  <2>1. CASE dlStatus \in Ended
    BY <1>1, <2>1 DEF Landed, Ended
  <2>2. CASE dlStatus = "done"
    BY <1>1, <1>4, <1>5, <2>2 DEF Landed
  <2>3. CASE dlStatus \in {"starting", "running"}
    <3>1. ~wasStopped
      BY <1>2, <1>5, <2>3 DEF Stopping
    <3> QED BY <1>1, <1>4, <1>6, <1>9, <1>10, <3>1 DEF Landed
  <2> QED BY <1>2, <2>1, <2>2, <2>3 DEF DlTypes, Ended
<1> QED BY <1>1, <1>4, <1>8, <1>10, <1>11 DEF DlInv

LEMMA TaskBegun ==
    ASSUME DlInv, BeginTask
    PROVE  DlInv'
<1>1. PICK t : t = Head(chain)
  OBVIOUS
<1>2. \/ t.k \in Data /\ cur # t.f
      \/ t.k = "block" /\ cur = t.f
      \/ t.k = "eof" /\ cur = t.f
      \/ t.k = "done"
  BY <1>1 DEF BeginTask, Data
<1> QED BY <1>1, <1>2, TaskOpens, TaskWrites, TaskCloses, TaskFinishes

LEMMA HandlingStays ==
    ASSUME Handling, UNCHANGED <<inMemory, opening, writing, cur, writable, memBuf>>,
           opening \/ writing => Head(chain') = Head(chain)
    PROVE  Handling'
BY DEF Handling

LEMMA Cancels ==
    ASSUME DlInv, NEW answering \in SUBSET digests, Cancel(answering)
    PROVE  DlInv'
<1>1. /\ digests' = digests \ answering
      /\ UNCHANGED <<dlFiles, inMemory, policy, chain, skipped, fromPeer, sender>>
      /\ \/ /\ dlStatus \in {"done", "cancelled"}
            /\ UNCHANGED <<dlStatus, wasStopped, dlLocal, toPeer>>
         \/ StopAs("cancelled") /\ toPeer' = Append(toPeer, CancelMsg)
  BY DEF Cancel, CancelMsg
<1>2. DlTypes /\ digests' \subseteq digests
  BY <1>1 DEF DlInv
<1>3. CASE dlStatus \in {"done", "cancelled"} /\ UNCHANGED <<dlStatus, wasStopped, dlLocal, toPeer>>
  <2>1. UNCHANGED <<dlStatus, wasStopped, toPeer, opening, writing, cur, writable, memBuf, place>>
    BY <1>3 DEF dlLocal
  <2>2. LocalStep(FALSE)
    BY <1>1, <1>2, <2>1 DEF LocalStep
  <2>3. Telling' /\ Starting' /\ Sorting' /\ Stopping' /\ DlFiles' = DlFiles
    BY <2>2, LocalKeeps
  <2>4. DlTypes'
    BY <1>1, <1>2, <2>1, <2>3 DEF DlTypes
  <2>5. Landed'
    BY <1>1, <2>1, <2>3 DEF DlInv, Landed
  <2>6. ASSUME ~wasStopped PROVE Handling' /\ Storing'
    <3>1. Handling /\ Storing
      BY <2>6 DEF DlInv
    <3>2. \A f \in DlFiles : Got(f)' = Got(f) /\ EndComes(f)' = EndComes(f)
      BY <1>1, <2>1 DEF Got, Stored, EndComes
    <3> QED BY <1>1, <1>2, <2>1, <3>1, <3>2, HandlingStays, StoringStays
  <2> QED BY <2>1, <2>3, <2>4, <2>5, <2>6 DEF DlInv
<1>4. CASE StopAs("cancelled") /\ toPeer' = Append(toPeer, CancelMsg)
  <2>1. /\ dlStatus' = "cancelled" /\ wasStopped' = TRUE /\ CloseJobFile(FALSE)
        /\ UNCHANGED <<opening, writing, cur>>
    BY <1>4 DEF StopAs
  <2>2. LocalStep(TRUE)
    BY <1>1, <1>2, <1>4, <2>1 DEF LocalStep
  <2>3. Telling' /\ Starting' /\ Sorting' /\ Stopping' /\ DlFiles' = DlFiles /\ toPeer' \in Seq(ToMsgs)
    BY <2>2, LocalKeeps
  <2>4. /\ writable' = NoStream /\ memBuf' = 0 /\ NoStream \in [f : 0 .. dlFiles, n : Int]
        /\ place' \in [DlFiles -> {"old", "part", "whole"}]
    BY <1>2, <2>1, Closed
  <2>5. DlTypes'
    BY <1>1, <1>2, <2>1, <2>3, <2>4 DEF DlTypes
  <2> QED BY <2>1, <2>3, <2>5 DEF DlInv, Landed
<1> QED BY <1>1, <1>3, <1>4

-----------------------------------------------------------------------------
(* What the device sent is handled. *)

LEMMA Handled ==
    ASSUME DlInv, Received, NEW m, m = Head(fromPeer)
    PROVE  /\ UNCHANGED <<dlFiles, inMemory, policy, skipped, toPeer, sender>> /\ DlFiles' = DlFiles
           /\ fromPeer # <<>> /\ fromPeer' \in Seq(FromMsgs)
           /\ m \in FromMsgs /\ Range(fromPeer) = {m} \cup Range(fromPeer')
           /\ \A K : Number(fromPeer, K) = Number(fromPeer', K) + IF m \in K THEN 1 ELSE 0
           /\ \A K : Number(fromPeer', K) \in Nat
           /\ Ordered(fromPeer')
           /\ \A x \in Range(chain) : Prec(x, m)
           /\ Starting'
<1>1. /\ UNCHANGED <<dlFiles, inMemory, policy, skipped, toPeer, sender>> /\ DlFiles' = DlFiles
      /\ fromPeer # <<>> /\ fromPeer' = Tail(fromPeer)
  BY DEF Received, DlFiles
<1>2. DlTypes /\ Starting /\ Sorting /\ fromPeer \in Seq(FromMsgs)
  BY DEF DlInv, DlTypes
<1>3. /\ fromPeer' \in Seq(FromMsgs) /\ m \in FromMsgs /\ Range(fromPeer) = {m} \cup Range(fromPeer')
      /\ \A K : Number(fromPeer, K) = Number(fromPeer', K) + IF m \in K THEN 1 ELSE 0
  BY <1>1, <1>2, Taken
<1>4. \A K : Number(fromPeer', K) \in Nat
  BY <1>3, NumberType
<1>5. Ordered(fromPeer') /\ \A y \in Range(fromPeer') : Prec(m, y)
  BY <1>1, <1>2, OrderTaken DEF Sorting
<1>6. \A x \in Range(chain) : Prec(x, m)
  BY <1>2, <1>3 DEF Sorting
<1>7. Starting'
  <2>1. \A y \in Range(fromPeer') : y.k # "dir"
    BY <1>5 DEF Prec
  <2>2. sender'.k # "listing"
    BY <1>1, <1>2 DEF Starting
  <2> QED BY <2>1, <2>2 DEF Starting
<1> QED BY <1>1, <1>3, <1>4, <1>5, <1>6, <1>7

\* Nothing is announced, asked or told by it.
LEMMA StillTold ==
    ASSUME DlInv, UNCHANGED <<skipped, toPeer, sender, digests>>,
           Range(fromPeer') \subseteq Range(fromPeer),
           Number(fromPeer', Digests) = Number(fromPeer, Digests)
    PROVE  Telling' /\ Pending' = Pending
<1>1. Telling
  BY DEF DlInv
<1>2. Pending' = Pending
  BY DEF Pending
<1> QED BY <1>1, <1>2 DEF Telling

\* A block, or an end, joins the tasks.
LEMMA TaskQueued ==
    ASSUME DlInv, Received, NEW m, m = Head(fromPeer), m.k \in {"block", "eof", "done"}
    PROVE  DlInv'
<1>1. /\ chain' = chain \/ chain' = Append(chain, m)
      /\ dlStatus \notin Ended => chain' = Append(chain, m)
      /\ UNCHANGED <<dlStatus, digests, wasStopped, opening, writing, cur, writable, memBuf, place>>
  BY DEF Received, dlLocal
<1>2. /\ DlTypes /\ Telling /\ Sorting /\ Stopping /\ Landed /\ chain \in Seq(FromMsgs)
      /\ \A K : Number(chain, K) \in Nat /\ Number(fromPeer, K) \in Nat
  BY DlQueues
<1>3. /\ UNCHANGED <<dlFiles, inMemory, policy, skipped, toPeer, sender>> /\ DlFiles' = DlFiles
      /\ fromPeer # <<>> /\ fromPeer' \in Seq(FromMsgs)
      /\ m \in FromMsgs /\ Range(fromPeer) = {m} \cup Range(fromPeer')
      /\ \A K : Number(fromPeer, K) = Number(fromPeer', K) + IF m \in K THEN 1 ELSE 0
      /\ \A K : Number(fromPeer', K) \in Nat
      /\ Ordered(fromPeer')
      /\ \A x \in Range(chain) : Prec(x, m)
      /\ Starting'
  BY Handled
<1>4. /\ Append(chain, m) \in Seq(FromMsgs) /\ Range(Append(chain, m)) = Range(chain) \cup {m}
      /\ \A K : Number(Append(chain, m), K) = Number(chain, K) + IF m \in K THEN 1 ELSE 0
      /\ Append(chain, m) # <<>>
      /\ chain # <<>> => Head(Append(chain, m)) = Head(chain)
  BY <1>2, <1>3, Sent, FirstStays
<1>5. Ordered(chain) /\ Ordered(Append(chain, m))
  BY <1>2, <1>3, OrderSent DEF Sorting
<1>6. /\ chain' \in Seq(FromMsgs) /\ Ordered(chain')
      /\ Range(chain') \subseteq Range(chain) \cup {m}
      /\ chain # <<>> => chain' # <<>> /\ Head(chain') = Head(chain)
  BY <1>1, <1>2, <1>4, <1>5
<1>7. Telling' /\ Pending' = Pending
  <2>1. m \notin Digests
    BY <1>3, DownKinds
  <2>2. Number(fromPeer', Digests) \in Nat
    BY <1>3
  <2>3. Number(fromPeer', Digests) = Number(fromPeer, Digests)
    BY <1>3, <2>1, <2>2
  <2> QED BY <1>1, <1>3, <2>3, StillTold
<1>8. \A x \in Range(chain') \cup Range(fromPeer') : x \in Range(chain) \cup Range(fromPeer)
  BY <1>3, <1>6
<1>9. Sorting'
  <2>1. Ordered(fromPeer)
    BY <1>2 DEF Sorting
  <2>2. \A x \in Range(chain'), y \in Range(fromPeer') : Prec(x, y)
    <3>1. fromPeer \in Seq(FromMsgs) /\ fromPeer' = Tail(fromPeer)
      BY <1>2 DEF DlTypes, Received
    <3>2. \A y \in Range(fromPeer') : Prec(m, y)
      BY <1>3, <2>1, <3>1, OrderTaken
    <3>3. \A x \in Range(chain), y \in Range(fromPeer') : Prec(x, y)
      BY <1>2, <1>3 DEF Sorting
    <3> QED BY <1>6, <3>2, <3>3
  <2> QED BY <1>2, <1>3, <1>6, <1>7, <1>8, <2>2 DEF Sorting
<1>10. Stopping'
  BY <1>1, <1>2, <1>3, <1>8 DEF Stopping
<1>11. Landed'
  BY <1>1, <1>2, <1>3 DEF Landed
<1>12. DlTypes'
  <2>1. \A x \in Range(chain') : x.k \in {"block", "eof", "done"}
    BY <1>2, <1>6 DEF DlTypes
  <2>2. opening' \/ writing' => chain' # <<>>
    BY <1>1, <1>2, <1>6 DEF DlTypes
  <2> QED BY <1>1, <1>2, <1>3, <1>6, <2>1, <2>2 DEF DlTypes
<1>13. ASSUME ~wasStopped PROVE Handling' /\ Storing'
  <2>1. Handling /\ Storing /\ chain' = Append(chain, m)
    BY <1>1, <1>2, <1>13 DEF DlInv, DlTypes
  <2>2. Handling'
    <3>1. opening \/ writing => Head(chain') = Head(chain)
      BY <1>2, <1>6 DEF DlTypes
    <3> QED BY <1>1, <1>3, <2>1, <3>1, HandlingStays
  <2>3. ASSUME NEW f \in DlFiles PROVE Got(f)' = Got(f)
    <3>1. /\ Number(chain', PiecesOf(f)) = Number(chain, PiecesOf(f)) + IF m \in PiecesOf(f) THEN 1 ELSE 0
          /\ Number(fromPeer, PiecesOf(f)) = Number(fromPeer', PiecesOf(f)) + IF m \in PiecesOf(f) THEN 1 ELSE 0
          /\ Number(chain, PiecesOf(f)) \in Nat /\ Number(fromPeer', PiecesOf(f)) \in Nat
      BY <1>2, <1>3, <1>4, <2>1
    <3>2. Stored(f)' = Stored(f) /\ Stored(f) \in Int
      BY <1>1, <1>2, <1>3 DEF Stored, DlTypes
    <3>3. Stored(f) + Number(chain', PiecesOf(f)) + Number(fromPeer', PiecesOf(f))
            = Stored(f) + Number(chain, PiecesOf(f)) + Number(fromPeer, PiecesOf(f))
      BY <3>1, <3>2
    <3> QED BY <3>2, <3>3 DEF Got
  <2>4. Range(chain') \cup Range(fromPeer') = Range(chain) \cup Range(fromPeer)
    BY <1>3, <1>4, <2>1
  <2>5. \A f \in DlFiles : EndComes(f)' = EndComes(f)
    BY <2>4 DEF EndComes
  <2> QED BY <1>1, <1>2, <1>3, <1>8, <2>1, <2>2, <2>3, <2>5, StoringStays
<1> QED BY <1>1, <1>7, <1>3, <1>9, <1>10, <1>11, <1>12, <1>13 DEF DlInv

\* What is neither block nor end leaves the files as they are.
LEMMA NoBlock ==
    ASSUME DlInv, Received, NEW m, m = Head(fromPeer), m.k \notin {"block", "eof", "done"},
           UNCHANGED <<chain, opening, writing, cur, writable, memBuf, place>>
    PROVE  ~wasStopped => Handling' /\ Storing'
<1>1. /\ UNCHANGED <<dlFiles, inMemory, policy, skipped, toPeer, sender>>
      /\ m \in FromMsgs /\ Range(fromPeer) = {m} \cup Range(fromPeer')
      /\ \A K : Number(fromPeer, K) = Number(fromPeer', K) + IF m \in K THEN 1 ELSE 0
      /\ \A K : Number(fromPeer', K) \in Nat
  BY Handled
<1> SUFFICES ASSUME ~wasStopped PROVE Handling' /\ Storing'
  OBVIOUS
<1>2. Handling /\ Storing /\ DlTypes
  BY DEF DlInv
<1>3. Handling'
  BY <1>1, <1>2, HandlingStays
<1>4. ASSUME NEW f \in DlFiles PROVE Got(f)' = Got(f)
  <2>1. m \notin PiecesOf(f) /\ Number(fromPeer', PiecesOf(f)) \in Nat
    BY <1>1, DownKinds
  <2>2. Number(fromPeer', PiecesOf(f)) = Number(fromPeer, PiecesOf(f))
    BY <1>1, <2>1
  <2> QED BY <1>1, <2>2 DEF Got, Stored
<1>5. \A f \in DlFiles : EndComes(f)' = EndComes(f)
  BY <1>1 DEF EndComes
<1> QED BY <1>1, <1>2, <1>3, <1>4, <1>5, StoringStays

\* A file is announced.
LEMMA Announced ==
    ASSUME DlInv, Received, NEW m, m = Head(fromPeer), m.k = "digest"
    PROVE  DlInv'
<1> DEFINE d == [f |-> m.f, at |-> "checking"]
<1>1. /\ dlStatus' = "running" /\ digests' = digests \cup {d}
      /\ UNCHANGED <<chain, wasStopped, opening, writing, cur, writable, memBuf, place>>
  BY DEF Received, dlLocal
<1>2. /\ DlTypes /\ Telling /\ Sorting /\ Stopping /\ toPeer \in Seq(ToMsgs)
      /\ \A K : Number(toPeer, K) \in Nat
      /\ \A w \in Range(toPeer) : w \in ToMsgs
  BY DlQueues
<1>3. /\ UNCHANGED <<dlFiles, inMemory, policy, skipped, toPeer, sender>> /\ DlFiles' = DlFiles
      /\ fromPeer # <<>> /\ fromPeer' \in Seq(FromMsgs)
      /\ m \in FromMsgs /\ Range(fromPeer) = {m} \cup Range(fromPeer')
      /\ \A K : Number(fromPeer, K) = Number(fromPeer', K) + IF m \in K THEN 1 ELSE 0
      /\ \A K : Number(fromPeer', K) \in Nat
      /\ Ordered(fromPeer') /\ Starting'
  BY Handled
<1>4. m.f \in DlFiles
  BY <1>2, <1>3 DEF Sorting
<1>5. d \in [f : DlFiles, at : {"checking", "asking"}] /\ d.f = m.f
  BY <1>4
<1> HIDE DEF d
<1>6. digests = {} /\ Number(toPeer, Words) = 0 /\ Pending = 1 /\ Pending' = 1
  <2>1. m \in Digests
    BY <1>3, DownKinds
  <2>2. /\ Number(fromPeer', Digests) \in Nat /\ Number(toPeer, Words) \in Nat
        /\ Number(fromPeer, Digests) = Number(fromPeer', Digests) + 1
    BY <1>2, <1>3, <2>1
  <2>3. Pending <= 1
    BY <1>2 DEF Telling
  <2>4. /\ Number(fromPeer', Digests) = 0 /\ Number(fromPeer, Digests) = 1
        /\ digests = {} /\ Number(toPeer, Words) = 0
    BY <2>2, <2>3 DEF Pending
  <2>5. digests' # {}
    BY <1>1
  <2> QED BY <1>3, <2>4, <2>5 DEF Pending
<1>7. sender.k \in {"awaiting", "over"}
  BY <1>2, <1>6 DEF Telling
<1>8. digests' = {d}
  BY <1>1, <1>6
<1>9. Telling'
  <2>1. sender.k = "awaiting" => d.f = sender.f
    BY <1>2, <1>3, <1>5 DEF Telling
  <2> QED BY <1>2, <1>3, <1>6, <1>7, <1>8, <2>1 DEF Telling
<1>10. Sorting'
  BY <1>1, <1>2, <1>3, <1>6 DEF Sorting
<1>11. \A w \in Range(toPeer) : w.k = "cancel"
  BY <1>2, <1>6, NumberZero, DownKinds
<1>12. Stopping'
  <2>1. \A x \in Range(chain) \cup Range(fromPeer) : x.k \notin {"done", "skipped"}
    BY <1>2, <1>6 DEF Sorting
  <2>2. ASSUME wasStopped, sender.k # "over" PROVE toPeer # <<>> /\ Head(toPeer).k = "cancel"
    <3>1. Range(toPeer) # {}
      BY <1>2, <2>2 DEF Stopping
    <3>2. toPeer # <<>>
      BY <3>1, EmptyQueue
    <3>3. Head(toPeer) \in Range(toPeer)
      BY <1>2, <3>2, Taken
    <3> QED BY <1>11, <3>2, <3>3
  <2> QED BY <1>1, <1>2, <1>3, <1>7, <2>1, <2>2 DEF Stopping
<1>13. DlTypes'
  <2>1. digests' \subseteq [f : DlFiles, at : {"checking", "asking"}]
    BY <1>5, <1>8
  <2> QED BY <1>1, <1>2, <1>3, <2>1 DEF DlTypes, Ended
<1>14. Landed'
  BY <1>1 DEF Landed
<1>15. ~wasStopped => Handling' /\ Storing'
  BY <1>1, NoBlock
<1> QED BY <1>1, <1>3, <1>9, <1>10, <1>12, <1>13, <1>14, <1>15 DEF DlInv

\* The directory comes, or the device tells of the only file skipped, or of its failure.
LEMMA OtherHandled ==
    ASSUME DlInv, Received, NEW m, m = Head(fromPeer), m.k \in {"dir", "skipped", "error"}
    PROVE  DlInv'
<1>1. /\ UNCHANGED <<chain, digests>>
      /\ \/ /\ m.k = "dir" /\ dlStatus' = "running"
            /\ UNCHANGED <<wasStopped, opening, writing, cur, writable, memBuf, place>>
         \/ /\ m.k = "skipped" /\ dlStatus' = "done"
            /\ UNCHANGED <<wasStopped, opening, writing, cur, writable, memBuf, place>>
         \/ m.k = "error" /\ StopAs("error")
  BY DEF Received, dlLocal
<1>2. /\ DlTypes /\ Telling /\ Sorting /\ Stopping /\ Starting /\ toPeer \in Seq(ToMsgs)
  BY DlQueues
<1>3. /\ UNCHANGED <<dlFiles, inMemory, policy, skipped, toPeer, sender>> /\ DlFiles' = DlFiles
      /\ fromPeer # <<>> /\ fromPeer' \in Seq(FromMsgs)
      /\ m \in FromMsgs /\ Range(fromPeer) = {m} \cup Range(fromPeer')
      /\ \A K : Number(fromPeer, K) = Number(fromPeer', K) + IF m \in K THEN 1 ELSE 0
      /\ \A K : Number(fromPeer', K) \in Nat
      /\ Ordered(fromPeer') /\ Starting'
  BY Handled
<1>4. Telling' /\ Pending' = Pending
  <2>1. m \notin Digests
    BY <1>3, DownKinds
  <2>2. Number(fromPeer', Digests) \in Nat
    BY <1>3
  <2>3. Number(fromPeer', Digests) = Number(fromPeer, Digests)
    BY <1>3, <2>1, <2>2
  <2> QED BY <1>1, <1>3, <2>3, StillTold
<1>5. Sorting'
  BY <1>1, <1>2, <1>3, <1>4 DEF Sorting
<1>6. CASE /\ m.k = "dir" /\ dlStatus' = "running"
           /\ UNCHANGED <<wasStopped, opening, writing, cur, writable, memBuf, place>>
  <2>1. /\ chain = <<>> /\ sender.f = 1 /\ sender.k \in {"announcing", "awaiting", "over"}
        /\ \A w \in Range(toPeer) : w.k = "cancel"
        /\ \A x \in Range(fromPeer) : x.k \in {"dir", "digest", "error"}
    BY <1>2, <1>3, <1>6 DEF Starting
  <2>2. \A x \in Range(chain) \cup Range(fromPeer) : x.k \notin {"done", "skipped"}
    BY <2>1, EmptyQueue
  <2>3. ASSUME wasStopped, sender.k # "over" PROVE toPeer # <<>> /\ Head(toPeer).k = "cancel"
    <3>1. Range(toPeer) # {}
      BY <1>2, <2>3 DEF Stopping
    <3>2. toPeer # <<>>
      BY <3>1, EmptyQueue
    <3>3. Head(toPeer) \in Range(toPeer)
      BY <1>2, <3>2, Taken
    <3> QED BY <2>1, <3>2, <3>3
  <2>4. Stopping'
    <3>1. sender.f <= dlFiles
      BY <1>2, <2>1 DEF DlTypes
    <3> QED BY <1>1, <1>2, <1>3, <1>6, <2>1, <2>2, <2>3, <3>1 DEF Stopping
  <2>5. DlTypes'
    BY <1>1, <1>2, <1>3, <1>6 DEF DlTypes, Ended
  <2>6. Landed'
    BY <1>6 DEF Landed
  <2>7. ~wasStopped => Handling' /\ Storing'
    BY <1>1, <1>6, NoBlock
  <2> QED BY <1>3, <1>4, <1>5, <1>6, <2>4, <2>5, <2>6, <2>7 DEF DlInv
<1>7. CASE /\ m.k = "skipped" /\ dlStatus' = "done"
           /\ UNCHANGED <<wasStopped, opening, writing, cur, writable, memBuf, place>>
  <2>1. Stopping'
    BY <1>2, <1>3, <1>7 DEF Stopping
  <2>2. DlTypes'
    BY <1>1, <1>2, <1>3, <1>7 DEF DlTypes, Ended
  <2>3. Landed'
    BY <1>2, <1>3, <1>7 DEF Landed, Sorting
  <2>4. ~wasStopped => Handling' /\ Storing'
    BY <1>1, <1>7, NoBlock
  <2> QED BY <1>3, <1>4, <1>5, <1>7, <2>1, <2>2, <2>3, <2>4 DEF DlInv
<1>8. CASE m.k = "error" /\ StopAs("error")
  <2>1. /\ dlStatus' = "error" /\ wasStopped' = TRUE /\ CloseJobFile(FALSE)
        /\ UNCHANGED <<opening, writing, cur>>
    BY <1>8 DEF StopAs
  <2>2. /\ writable' = NoStream /\ memBuf' = 0 /\ NoStream \in [f : 0 .. dlFiles, n : Int]
        /\ place' \in [DlFiles -> {"old", "part", "whole"}]
    BY <1>2, <2>1, Closed
  <2>3. DlTypes'
    BY <1>1, <1>2, <1>3, <2>1, <2>2 DEF DlTypes, Ended
  <2>4. Stopping'
    BY <1>2, <1>3, <1>8, <2>1 DEF Sorting, Stopping
  <2> QED BY <1>3, <1>4, <1>5, <2>1, <2>3, <2>4 DEF DlInv, Landed
<1> QED BY <1>1, <1>6, <1>7, <1>8

LEMMA MessageHandled ==
    ASSUME DlInv, Received
    PROVE  DlInv'
<1>1. PICK m : m = Head(fromPeer)
  OBVIOUS
<1>2. m.k \in {"block", "eof", "done", "digest", "dir", "skipped", "error"}
  BY <1>1 DEF Received
<1> QED BY <1>1, <1>2, TaskQueued, Announced, OtherHandled

-----------------------------------------------------------------------------
(* The fate of an announced file is decided. *)

\* No block comes and none is written.
LEMMA FilesStay ==
    ASSUME DlInv, UNCHANGED <<dlFiles, inMemory, chain, dlLocal, wasStopped, fromPeer, sender>>,
           skipped \subseteq skipped'
    PROVE  ~wasStopped' => Handling' /\ Storing'
<1> SUFFICES ASSUME ~wasStopped PROVE Handling' /\ Storing'
  OBVIOUS
<1>1. Handling /\ Storing /\ DlTypes
  BY DEF DlInv
<1>2. UNCHANGED <<opening, writing, cur, writable, memBuf, place>>
  BY DEF dlLocal
<1>3. \A f \in DlFiles : Got(f)' = Got(f) /\ EndComes(f)' = EndComes(f)
  BY <1>2 DEF Got, Stored, EndComes
<1> QED BY <1>1, <1>2, <1>3, HandlingStays, StoringStays

LEMMA Decided ==
    ASSUME DlInv, NEW d \in digests, NEW action \in {"overwrite", "skip"}, Decide(d, action),
           UNCHANGED <<dlFiles, dlStatus, inMemory, chain, dlLocal, wasStopped, fromPeer, sender>>,
           policy' \in {"ask", "overwrite", "skip"}
    PROVE  DlInv'
<1>1. /\ DlTypes /\ Telling /\ Starting /\ Sorting /\ Stopping /\ Landed
      /\ toPeer \in Seq(ToMsgs)
      /\ \A K : Number(fromPeer, K) \in Nat /\ Number(toPeer, K) \in Nat
      /\ \A w \in Range(toPeer) : w \in ToMsgs
  BY DlQueues
<1>2. d.f \in DlFiles /\ DlFiles' = DlFiles
  BY <1>1 DEF DlTypes, DlFiles
<1>3. PICK w \in ToMsgs : w = [k |-> action, f |-> d.f] /\ w.k = action /\ w.f = d.f
  <2>1. [k |-> action, f |-> d.f] \in ToMsgs
    BY <1>1, <1>2 DEF ToMsgs, DlTypes, DlFiles
  <2> QED BY <2>1
<1>4. /\ toPeer' = Append(toPeer, w) /\ digests' = digests \ {d}
      /\ skipped' = IF action = "skip" THEN skipped \cup {d.f} ELSE skipped
      /\ UNCHANGED <<opening, writing, cur, writable, memBuf, place>>
  BY <1>3 DEF Decide, dlLocal
<1>5. w \in Words
  BY <1>3, DownKinds
<1>6. /\ toPeer' \in Seq(ToMsgs) /\ Range(toPeer') = Range(toPeer) \cup {w}
      /\ \A K : Number(toPeer', K) = Number(toPeer, K) + IF w \in K THEN 1 ELSE 0
      /\ toPeer' # <<>> /\ (toPeer # <<>> => Head(toPeer') = Head(toPeer))
  BY <1>1, <1>4, Sent, FirstStays
<1>7. /\ digests' = {} /\ Pending = 1 /\ Pending' = 1
      /\ Number(fromPeer, Digests) = 0 /\ Number(toPeer, Words) = 0
  <2>1. digests' = {}
    BY <1>1, <1>4 DEF Telling
  <2>2. /\ Number(fromPeer, Digests) \in Nat /\ Number(toPeer, Words) \in Nat
        /\ Number(toPeer', Words) = Number(toPeer, Words) + 1
    BY <1>1, <1>5, <1>6
  <2>3. Pending <= 1 /\ digests # {}
    BY <1>1 DEF Telling
  <2>4. Number(fromPeer, Digests) = 0 /\ Number(toPeer, Words) = 0
    BY <2>2, <2>3 DEF Pending
  <2> QED BY <2>1, <2>2, <2>3, <2>4 DEF Pending
<1>8. Telling'
  <2>1. sender.k \in {"awaiting", "over"} /\ (sender.k = "awaiting" => w.f = sender.f)
    BY <1>1, <1>3, <1>7 DEF Telling
  <2>2. \A x \in Range(toPeer') : x.k = "skip" => x.f \in skipped'
    BY <1>1, <1>3, <1>4, <1>6 DEF Telling
  <2>3. sender.n < 0 => sender.f # 0 /\ sender.f - 1 \in skipped'
    BY <1>1, <1>4 DEF Telling
  <2>4. sender.k = "awaiting" => \A x \in Range(toPeer') : x.k # "cancel" => x.f = sender.f
    BY <1>1, <1>6, <2>1 DEF Telling
  <2>5. sender.k = "awaiting" => \A m \in Range(fromPeer) : m.k = "digest" => m.f = sender.f
    BY <1>1 DEF Telling
  <2> QED BY <1>7, <2>1, <2>2, <2>3, <2>4, <2>5 DEF Telling
<1>9. Starting'
  <2>1. sender.k # "listing" /\ \A m \in Range(fromPeer) : m.k # "dir"
    BY <1>1, <1>7 DEF Starting, Telling
  <2> QED BY <2>1 DEF Starting
<1>10. Sorting'
  BY <1>1, <1>2, <1>4, <1>7 DEF Sorting
<1>11. Stopping'
  BY <1>1, <1>6 DEF Stopping
<1>12. Landed'
  BY <1>1, <1>2, <1>4 DEF Landed
<1>13. DlTypes'
  <2>1. skipped' \subseteq DlFiles
    BY <1>1, <1>2, <1>4 DEF DlTypes
  <2> QED BY <1>1, <1>2, <1>4, <1>6, <1>7, <2>1 DEF DlTypes, Ended
<1>14. ~wasStopped' => Handling' /\ Storing'
  <2>1. skipped \subseteq skipped'
    BY <1>4
  <2> QED BY <2>1, FilesStay
<1> QED BY <1>8, <1>9, <1>10, <1>11, <1>12, <1>13, <1>14 DEF DlInv

LEMMA UserAsked ==
    ASSUME DlInv, NEW d \in digests, digests' = (digests \ {d}) \cup {[d EXCEPT !.at = "asking"]},
           UNCHANGED <<dlFiles, dlStatus, inMemory, policy, chain, dlLocal, skipped, wasStopped,
                       fromPeer, toPeer, sender>>
    PROVE  DlInv'
<1>1. DlTypes /\ Telling /\ Starting /\ Sorting /\ Stopping /\ Landed
  BY DEF DlInv
<1>2. DlFiles' = DlFiles /\ UNCHANGED <<opening, writing, cur, writable, memBuf, place>>
  BY DEF DlFiles, dlLocal
<1>3. PICK e : e = [d EXCEPT !.at = "asking"]
  OBVIOUS
<1>4. e \in [f : DlFiles, at : {"checking", "asking"}] /\ e.f = d.f
  BY <1>1, <1>3 DEF DlTypes
<1>5. digests' = {e} /\ digests # {}
  BY <1>1, <1>3 DEF Telling
<1>6. Pending' = Pending
  BY <1>5 DEF Pending
<1>7. Telling'
  BY <1>1, <1>4, <1>5, <1>6 DEF Telling
<1>8. Starting'
  BY <1>1, <1>5 DEF Starting
<1>9. Sorting'
  BY <1>1, <1>2, <1>6 DEF Sorting
<1>10. Stopping' /\ Landed'
  BY <1>1, <1>2 DEF Stopping, Landed
<1>11. DlTypes'
  BY <1>1, <1>2, <1>4, <1>5 DEF DlTypes, Ended
<1>12. ~wasStopped' => Handling' /\ Storing'
  BY FilesStay
<1> QED BY <1>7, <1>8, <1>9, <1>10, <1>11, <1>12 DEF DlInv

LEMMA LookedUp ==
    ASSUME DlInv, NEW d \in digests, NEW exists \in BOOLEAN, TargetLookedUp(d, exists)
    PROVE  DlInv'
<1>1. UNCHANGED <<dlFiles, dlStatus, inMemory, policy, chain, dlLocal, wasStopped, fromPeer, sender>>
  BY DEF TargetLookedUp
<1>2. policy \in {"ask", "overwrite", "skip"}
  BY DEF DlInv, DlTypes
<1>3. CASE exists /\ policy = "ask"
  BY <1>1, <1>3, UserAsked DEF TargetLookedUp
<1>4. CASE ~(exists /\ policy = "ask")
  <2>1. PICK action \in {"overwrite", "skip"} : action = IF exists THEN policy ELSE "overwrite"
    BY <1>2, <1>4
  <2>2. Decide(d, action)
    BY <1>4, <2>1 DEF TargetLookedUp
  <2> QED BY <1>1, <1>2, <2>2, Decided
<1> QED BY <1>3, <1>4

LEMMA UserDecides ==
    ASSUME DlInv, NEW d \in digests, NEW action \in {"overwrite", "skip"}, NEW applyAll \in BOOLEAN,
           Answered(d, action, applyAll)
    PROVE  DlInv'
<1>1. UNCHANGED <<dlFiles, dlStatus, inMemory, chain, dlLocal, wasStopped, fromPeer, sender>>
  BY DEF Answered
<1>2. Decide(d, action) /\ policy' \in {"ask", "overwrite", "skip"}
  BY DEF Answered, DlInv, DlTypes
<1> QED BY <1>1, <1>2, Decided

-----------------------------------------------------------------------------
(* The device goes on, or the connection is lost. *)

\* While the device has not ended the transfer, nothing says that it has.
LEMMA StillGoing ==
    ASSUME DlInv, sender.k # "over"
    PROVE  /\ dlStatus # "done"
           /\ \A m \in Range(chain) \cup Range(fromPeer) : m.k \notin {"done", "skipped", "error"}
BY DEF DlInv, Landed, Sorting

LEMMA DownloadCut ==
    ASSUME DlInv, ChannelLost
    PROVE  DlInv'
<1>1. /\ sender.k # "over" /\ fromPeer' = <<>> /\ toPeer' = <<>>
      /\ sender' = [sender EXCEPT !.k = "over"]
      /\ UNCHANGED <<dlFiles, inMemory, policy, digests, chain, skipped>>
      /\ \/ StopAs("error")
         \/ /\ dlStatus \notin {"starting", "running"}
            /\ UNCHANGED <<dlStatus, wasStopped, opening, writing, cur, writable, memBuf, place>>
  BY DEF ChannelLost, dlLocal
<1>2. /\ DlTypes /\ Telling /\ Sorting /\ Landed /\ Pending \in Nat
      /\ \A K : Number(fromPeer, K) \in Nat /\ Number(toPeer, K) \in Nat
  BY DlQueues
<1>3. dlStatus # "done" /\ \A m \in Range(chain) : m.k \notin {"done", "skipped", "error"}
  BY <1>1, StillGoing
<1>4. dlStatus' \in Ended /\ wasStopped' = TRUE
  BY <1>1, <1>2, <1>3 DEF StopAs, DlTypes, Ended
<1>5. /\ sender'.k = "over" /\ sender'.f = sender.f /\ sender'.n = sender.n
      /\ sender' \in [k : {"listing", "announcing", "awaiting", "sent", "over"},
                      f : 0 .. dlFiles + 1, n : Int]
  BY <1>1, <1>2 DEF DlTypes
<1>6. Range(fromPeer') = {} /\ Range(toPeer') = {} /\ DlFiles' = DlFiles
  BY <1>1, EmptyQueue DEF DlFiles
<1>7. Pending' <= Pending
  <2>1. /\ Number(fromPeer', Digests) = 0 /\ Number(toPeer', Words) = 0
        /\ Number(fromPeer, Digests) \in Nat /\ Number(toPeer, Words) \in Nat
    BY <1>1, <1>2, EmptyQueue
  <2> QED BY <1>1, <2>1 DEF Pending
<1>8. Telling'
  <2>1. Pending' <= 1
    <3>1. Pending' \in Int
      <4>1. Number(fromPeer', Digests) = 0 /\ Number(toPeer', Words) = 0
        BY <1>1, EmptyQueue
      <4> QED BY <4>1 DEF Pending
    <3> QED BY <1>2, <1>7, <3>1 DEF Telling
  <2> QED BY <1>1, <1>2, <1>5, <1>6, <2>1 DEF Telling
<1>9. Starting'
  BY <1>5, <1>6 DEF Starting
<1>10. Sorting'
  <2>1. Ordered(chain')
    BY <1>1, <1>2 DEF Sorting
  <2>2. Ordered(fromPeer')
    BY <1>1 DEF Ordered
  <2>3. \A m \in Range(chain) : m.k \in Data =>
            \/ m.f < sender.f
            \/ m.f = sender.f /\ m.k = "block" /\ sender.k \in {"sent", "over"}
    BY <1>2 DEF Sorting
  <2>4. \A m \in Range(chain) : m.k \in Data \/ m.k = "digest" => m.f \in DlFiles
    BY <1>2 DEF Sorting
  <2> QED BY <1>1, <1>3, <1>5, <1>6, <2>1, <2>2, <2>3, <2>4 DEF Sorting
<1>11. Stopping' /\ Landed'
  BY <1>4, <1>5 DEF Stopping, Landed, Ended
<1>12. DlTypes'
  <2>1. /\ opening' = opening /\ writing' = writing /\ cur' = cur
        /\ writable' \in [f : 0 .. dlFiles, n : Int] /\ memBuf' \in Nat
        /\ place' \in [DlFiles -> {"old", "part", "whole"}]
    <3>1. CASE StopAs("error")
      <4>1. CloseJobFile(FALSE) /\ UNCHANGED <<opening, writing, cur>>
        BY <3>1 DEF StopAs
      <4>2. /\ writable' = NoStream /\ memBuf' = 0 /\ NoStream \in [f : 0 .. dlFiles, n : Int]
            /\ place' \in [DlFiles -> {"old", "part", "whole"}]
        BY <1>2, <4>1, Closed
      <4> QED BY <4>1, <4>2
    <3>2. CASE UNCHANGED <<dlStatus, wasStopped, opening, writing, cur, writable, memBuf, place>>
      BY <1>2, <3>2 DEF DlTypes
    <3> QED BY <1>1, <3>1, <3>2
  <2>2. fromPeer' \in Seq(FromMsgs) /\ toPeer' \in Seq(ToMsgs)
    BY <1>1
  <2> QED BY <1>1, <1>2, <1>4, <1>5, <1>6, <2>1, <2>2 DEF DlTypes, Ended
<1> QED BY <1>4, <1>8, <1>9, <1>10, <1>11, <1>12 DEF DlInv

\* The device sends m.
Sends(m) ==
    /\ sender.k # "over" /\ fromPeer' = Append(fromPeer, m)
    /\ UNCHANGED <<dlFiles, dlStatus, inMemory, policy, digests, chain, dlLocal, skipped,
                   wasStopped, toPeer>>
    /\ m.k = "dir" => chain = <<>> /\ fromPeer = <<>>
    /\ m.k \in Data => m.f = sender.f

LEMMA Sending ==
    ASSUME DlInv, NEW m \in FromMsgs, Sends(m)
    PROVE  /\ UNCHANGED <<dlFiles, dlStatus, inMemory, policy, digests, chain, opening, writing, cur,
                          writable, memBuf, place, skipped, wasStopped, toPeer>>
           /\ DlFiles' = DlFiles
           /\ fromPeer' \in Seq(FromMsgs) /\ Range(fromPeer') = Range(fromPeer) \cup {m}
           /\ \A K : Number(fromPeer', K) = Number(fromPeer, K) + IF m \in K THEN 1 ELSE 0
           /\ Ordered(chain') /\ Ordered(fromPeer')
           /\ \A x \in Range(chain'), y \in Range(fromPeer') : Prec(x, y)
           /\ Landed'
<1>1. /\ DlTypes /\ Sorting /\ fromPeer \in Seq(FromMsgs)
      /\ \A x \in Range(chain) \cup Range(fromPeer) : x \in FromMsgs
  BY DlQueues
<1>2. /\ UNCHANGED <<dlFiles, dlStatus, inMemory, policy, digests, chain, opening, writing, cur,
                          writable, memBuf, place, skipped, wasStopped, toPeer>>
      /\ DlFiles' = DlFiles /\ fromPeer' = Append(fromPeer, m)
  BY DEF Sends, dlLocal, DlFiles
<1>3. /\ fromPeer' \in Seq(FromMsgs) /\ Range(fromPeer') = Range(fromPeer) \cup {m}
      /\ \A K : Number(fromPeer', K) = Number(fromPeer, K) + IF m \in K THEN 1 ELSE 0
  BY <1>1, <1>2, Sent
<1>4. dlStatus # "done" /\ \A x \in Range(chain) \cup Range(fromPeer) : x.k # "done"
  BY StillGoing DEF Sends
<1>5. ASSUME NEW x \in Range(chain) \cup Range(fromPeer) PROVE Prec(x, m)
  <2>1. m.k # "dir"
    BY <1>5, EmptyQueue DEF Sends
  <2>2. x.k \in Data /\ m.k \in Data => x.f < m.f \/ (x.f = m.f /\ x.k = "block")
    BY <1>1, <1>5 DEF Sorting, Sends
  <2> QED BY <1>4, <1>5, <2>1, <2>2 DEF Prec
<1>6. Ordered(chain') /\ Ordered(fromPeer')
  BY <1>1, <1>2, <1>5, OrderSent DEF Sorting
<1>7. \A x \in Range(chain'), y \in Range(fromPeer') : Prec(x, y)
  BY <1>1, <1>2, <1>3, <1>5 DEF Sorting
<1>8. Landed'
  BY <1>2, <1>4 DEF Landed
<1> QED BY <1>2, <1>3, <1>6, <1>7, <1>8

\* What the device sent is the page's to handle: the rest of the invariant is on the device.
LEMMA SendingTypes ==
    ASSUME DlInv, NEW m \in FromMsgs, Sends(m),
           sender' \in [k : {"listing", "announcing", "awaiting", "sent", "over"},
                        f : 0 .. dlFiles + 1, n : Int],
           sender'.k \in {"awaiting", "sent"} => sender'.f \in DlFiles,
           sender'.k = "announcing" => sender'.f # 0,
           sender'.k = "sent" => sender'.n \in 0 .. Blocks
    PROVE  DlTypes'
<1>1. /\ UNCHANGED <<dlFiles, dlStatus, inMemory, policy, digests, chain, opening, writing, cur,
                     writable, memBuf, place, skipped, wasStopped, toPeer>>
      /\ DlFiles' = DlFiles /\ fromPeer' \in Seq(FromMsgs)
  BY Sending
<1>2. DlTypes
  BY DEF DlInv
<1> QED BY <1>1, <1>2 DEF DlTypes, Ended

\* Nothing is given to a file.
LEMMA GotStays ==
    ASSUME DlInv, NEW m \in FromMsgs, Sends(m), NEW f \in DlFiles, ~(m.k = "block" /\ m.f = f)
    PROVE  Got(f)' = Got(f)
<1>1. /\ UNCHANGED <<inMemory, chain, cur, writable, memBuf>>
      /\ \A K : Number(fromPeer', K) = Number(fromPeer, K) + IF m \in K THEN 1 ELSE 0
  BY Sending
<1>2. \A K : Number(fromPeer, K) \in Nat
  BY DlQueues
<1>3. m \notin PiecesOf(f) /\ Number(fromPeer, PiecesOf(f)) \in Nat
  BY <1>2, DownKinds
<1>4. Number(fromPeer', PiecesOf(f)) = Number(fromPeer, PiecesOf(f))
  BY <1>1, <1>3
<1> QED BY <1>1, <1>4 DEF Got, Stored

\* The device stays at its file, and sends none of it any more.
LEMMA StoringRests ==
    ASSUME DlTypes, Storing, UNCHANGED <<dlFiles, place, cur, skipped>>,
           sender'.f = sender.f, sender'.k # "sent",
           sender.k \in {"sent", "over"} => sender'.k = "over",
           \A f \in DlFiles : Got(f)' = Got(f) /\ EndComes(f)' = EndComes(f),
           \A m \in Range(chain') \cup Range(fromPeer') :
               m.k \in Data => m \in Range(chain) \cup Range(fromPeer)
    PROVE  Storing'
<1>1. DlFiles' = DlFiles
  BY DEF DlFiles
<1>3. cur # 0 => \/ cur < sender.f /\ EndComes(cur)'
                 \/ cur = sender.f /\ sender'.k \in {"sent", "over"}
  <2> SUFFICES ASSUME cur # 0
               PROVE  \/ cur < sender.f /\ EndComes(cur)'
                      \/ cur = sender.f /\ sender'.k \in {"sent", "over"}
    OBVIOUS
  <2>1. PICK g \in DlFiles : g = cur
    BY DEF DlTypes, DlFiles
  <2>2. \/ g < sender.f /\ EndComes(g)'
        \/ g = sender.f /\ sender'.k \in {"sent", "over"}
    BY <2>1 DEF Storing
  <2> QED BY <2>1, <2>2 DEF EndComes
<1>4. cur # 0 => \A m \in Range(chain') \cup Range(fromPeer') : m.k \in Data => m.f >= cur
  BY DEF Storing
<1>5. \A f \in DlFiles :
          /\ EndComes(f)' => Got(f)' = Blocks
          /\ f < sender.f /\ f \notin skipped /\ ~EndComes(f)' => place[f] = "whole"
          /\ f < sender.f /\ (\E m \in Range(chain') \cup Range(fromPeer') : m.k = "block" /\ m.f = f)
                => EndComes(f)'
          /\ place[f] # "part"
  BY DEF Storing, Data
<1> QED BY <1>1, <1>3, <1>4, <1>5 DEF Storing

LEMMA DirectorySent ==
    ASSUME DlInv, NEW m \in FromMsgs, m.k = "dir", sender.k = "listing", Sends(m),
           sender' = NextFile(0)
    PROVE  DlInv'
<1>1. /\ DlTypes /\ Telling /\ Starting /\ Sorting /\ Stopping /\ toPeer \in Seq(ToMsgs)
      /\ \A K : Number(fromPeer, K) \in Nat /\ Number(toPeer, K) \in Nat
      /\ \A w \in Range(toPeer) : w \in ToMsgs
      /\ Pending \in Nat
  BY DlQueues
<1>2. /\ UNCHANGED <<dlFiles, dlStatus, inMemory, policy, digests, chain, opening, writing, cur,
                     writable, memBuf, place, skipped, wasStopped, toPeer>>
      /\ DlFiles' = DlFiles
      /\ fromPeer' \in Seq(FromMsgs) /\ Range(fromPeer') = Range(fromPeer) \cup {m}
      /\ \A K : Number(fromPeer', K) = Number(fromPeer, K) + IF m \in K THEN 1 ELSE 0
      /\ Ordered(chain') /\ Ordered(fromPeer')
      /\ \A x \in Range(chain'), y \in Range(fromPeer') : Prec(x, y)
      /\ Landed'
  BY Sending
<1>3. sender'.k = "announcing" /\ sender'.f = 1 /\ sender'.n = 0
  BY DEF NextFile
<1>4. /\ sender.f = 0 /\ Range(chain) = {} /\ Range(fromPeer) = {} /\ fromPeer = <<>> /\ chain = <<>>
  BY <1>1, EmptyQueue DEF Starting
<1>5. Pending = 0
  BY <1>1 DEF Telling
<1>6. digests = {} /\ Number(toPeer, Words) = 0 /\ Number(fromPeer, Digests) = 0
  <2>1. Number(fromPeer, Digests) \in Nat /\ Number(toPeer, Words) \in Nat
    BY <1>1
  <2> QED BY <1>5, <2>1 DEF Pending
<1>7. \A w \in Range(toPeer) : w.k = "cancel"
  BY <1>1, <1>6, NumberZero, DownKinds
<1>8. Pending' = 0
  <2>1. m \notin Digests
    BY DownKinds
  <2>2. Number(fromPeer', Digests) = 0
    BY <1>2, <1>6, <2>1
  <2> QED BY <1>2, <1>6, <2>2 DEF Pending
<1>9. Telling'
  BY <1>1, <1>2, <1>3, <1>8 DEF Telling
<1>10. Starting'
  BY <1>2, <1>3, <1>4, <1>6, <1>7 DEF Starting
<1>11. Sorting'
  BY <1>2, <1>4, <1>8 DEF Sorting, Data
<1>12. Stopping'
  BY <1>1, <1>2 DEF Stopping
<1>13. DlTypes'
  <2>1. sender' \in [k : {"listing", "announcing", "awaiting", "sent", "over"},
                     f : 0 .. dlFiles + 1, n : Int]
    BY <1>1 DEF NextFile, DlTypes
  <2> QED BY <1>3, <2>1, SendingTypes
<1>14. ASSUME ~wasStopped PROVE Handling' /\ Storing'
  <2>1. Handling /\ Storing
    BY <1>14 DEF DlInv
  <2>2. Handling'
    BY <1>2, <2>1, HandlingStays
  <2>3. cur = 0
    BY <1>1, <1>4, <2>1 DEF Storing, DlTypes
  <2>4. Range(chain') \cup Range(fromPeer') = {m}
    BY <1>2, <1>4
  <2>5. \A f \in DlFiles : ~EndComes(f)'
    BY <2>4 DEF EndComes
  <2>6. \A f \in DlFiles : ~(f < 1)
    BY DEF DlFiles
  <2>7. \A f \in DlFiles : place[f] # "part"
    BY <2>1 DEF Storing
  <2> QED BY <1>2, <1>3, <2>2, <2>3, <2>4, <2>5, <2>6, <2>7 DEF Storing
<1> QED BY <1>2, <1>9, <1>10, <1>11, <1>12, <1>13, <1>14 DEF DlInv

LEMMA FileAnnounced ==
    ASSUME DlInv, NEW m \in FromMsgs, m.k = "digest", m.f = sender.f, Sends(m),
           sender.k = "announcing", sender.f <= dlFiles, sender' = [sender EXCEPT !.k = "awaiting"]
    PROVE  DlInv'
<1>1. /\ DlTypes /\ Telling /\ Starting /\ Sorting /\ Stopping /\ toPeer \in Seq(ToMsgs)
      /\ \A K : Number(fromPeer, K) \in Nat /\ Number(toPeer, K) \in Nat
      /\ \A x \in Range(fromPeer) : x \in FromMsgs
      /\ \A w \in Range(toPeer) : w \in ToMsgs
      /\ Pending \in Nat /\ fromPeer \in Seq(FromMsgs)
  BY DlQueues
<1>2. /\ UNCHANGED <<dlFiles, dlStatus, inMemory, policy, digests, chain, opening, writing, cur,
                     writable, memBuf, place, skipped, wasStopped, toPeer>>
      /\ DlFiles' = DlFiles
      /\ fromPeer' \in Seq(FromMsgs) /\ Range(fromPeer') = Range(fromPeer) \cup {m}
      /\ \A K : Number(fromPeer', K) = Number(fromPeer, K) + IF m \in K THEN 1 ELSE 0
      /\ Ordered(chain') /\ Ordered(fromPeer')
      /\ \A x \in Range(chain'), y \in Range(fromPeer') : Prec(x, y)
      /\ Landed'
  BY Sending
<1>3. /\ sender'.k = "awaiting" /\ sender'.f = sender.f /\ sender'.n = sender.n
      /\ sender' \in [k : {"listing", "announcing", "awaiting", "sent", "over"},
                     f : 0 .. dlFiles + 1, n : Int]
  BY <1>1 DEF DlTypes
<1>4. sender.f \in DlFiles
  BY <1>1 DEF DlTypes, DlFiles
<1>5. Pending = 0
  BY <1>1 DEF Telling
<1>6. digests = {} /\ Number(toPeer, Words) = 0 /\ Number(fromPeer, Digests) = 0
  <2>1. Number(fromPeer, Digests) \in Nat /\ Number(toPeer, Words) \in Nat
    BY <1>1
  <2> QED BY <1>5, <2>1 DEF Pending
<1>7. /\ \A w \in Range(toPeer) : w.k = "cancel"
      /\ \A x \in Range(fromPeer) : x.k # "digest"
  BY <1>1, <1>6, NumberZero, DownKinds
<1>8. Pending' = 1
  <2>1. m \in Digests
    BY DownKinds
  <2>2. Number(fromPeer', Digests) = 1
    BY <1>2, <1>6, <2>1
  <2> QED BY <1>2, <1>6, <2>2 DEF Pending
<1>9. Telling'
  BY <1>1, <1>2, <1>3, <1>6, <1>7, <1>8, SMTT(20) DEF Telling
<1>10. Starting'
  BY <1>1, <1>2, <1>3, <1>7 DEF Starting
<1>11. Sorting'
  <2>1. \A x \in Range(chain) \cup Range(fromPeer) : x.k \notin {"done", "skipped", "error"}
    BY StillGoing
  <2>2. \A x \in Range(chain) \cup Range(fromPeer) :
            /\ x.k \in Data \/ x.k = "digest" => x.f \in DlFiles
            /\ x.k \in Data => x.f < sender.f
    BY <1>1 DEF Sorting
  <2> QED BY <1>2, <1>3, <1>4, <2>1, <2>2 DEF Sorting, Data
<1>12. Stopping'
  BY <1>1, <1>2, <1>3 DEF Stopping
<1>13. DlTypes'
  BY <1>3, <1>4, SendingTypes
<1>14. ASSUME ~wasStopped PROVE Handling' /\ Storing'
  <2>1. Handling /\ Storing
    BY <1>14 DEF DlInv
  <2>2. Handling'
    BY <1>2, <2>1, HandlingStays
  <2>3. \A f \in DlFiles : Got(f)' = Got(f)
    BY GotStays
  <2>4. \A f \in DlFiles : EndComes(f)' = EndComes(f)
    BY <1>2 DEF EndComes
  <2>5. \A x \in Range(chain') \cup Range(fromPeer') :
            x.k \in Data => x \in Range(chain) \cup Range(fromPeer)
    BY <1>2 DEF Data
  <2> QED BY <1>1, <1>2, <1>3, <2>1, <2>2, <2>3, <2>4, <2>5, StoringRests
<1> QED BY <1>2, <1>9, <1>10, <1>11, <1>12, <1>13, <1>14 DEF DlInv

\* The device ends the transfer, its files sent or not.
LEMMA TransferEnds ==
    ASSUME DlInv, NEW m \in FromMsgs, Sends(m), sender' = [sender EXCEPT !.k = "over"],
           \/ m.k = "error"
           \/ /\ sender.k = "announcing" /\ sender.f > dlFiles
              /\ m.k = IF dlFiles = 1 /\ sender.n < 0 THEN "skipped" ELSE "done"
    PROVE  DlInv'
<1>1. /\ DlTypes /\ Telling /\ Starting /\ Sorting /\ Stopping
      /\ \A K : Number(fromPeer, K) \in Nat
  BY DlQueues
<1>2. /\ UNCHANGED <<dlFiles, dlStatus, inMemory, policy, digests, chain, opening, writing, cur,
                     writable, memBuf, place, skipped, wasStopped, toPeer>>
      /\ DlFiles' = DlFiles
      /\ fromPeer' \in Seq(FromMsgs) /\ Range(fromPeer') = Range(fromPeer) \cup {m}
      /\ \A K : Number(fromPeer', K) = Number(fromPeer, K) + IF m \in K THEN 1 ELSE 0
      /\ Ordered(chain') /\ Ordered(fromPeer')
      /\ \A x \in Range(chain'), y \in Range(fromPeer') : Prec(x, y)
      /\ Landed'
  BY Sending
<1>3. /\ sender'.k = "over" /\ sender'.f = sender.f /\ sender'.n = sender.n
      /\ sender' \in [k : {"listing", "announcing", "awaiting", "sent", "over"},
                     f : 0 .. dlFiles + 1, n : Int]
      /\ sender.k # "over"
  BY <1>1 DEF DlTypes, Sends
<1>4. m.k \in {"error", "skipped", "done"}
  OBVIOUS
<1>5. /\ dlStatus # "done"
      /\ \A x \in Range(chain) \cup Range(fromPeer) : x.k \notin {"done", "skipped", "error"}
  BY <1>3, StillGoing
<1>6. Pending' = Pending
  <2>1. m \notin Digests /\ Number(fromPeer, Digests) \in Nat
    BY <1>1, <1>4, DownKinds
  <2>2. Number(fromPeer', Digests) = Number(fromPeer, Digests)
    BY <1>2, <2>1
  <2> QED BY <1>2, <2>2 DEF Pending
<1>7. m.k # "error" =>
        /\ sender.k = "announcing" /\ sender.f = dlFiles + 1 /\ Pending = 0
        /\ m.k = "skipped" => DlFiles \subseteq skipped
  <2> SUFFICES ASSUME m.k # "error"
               PROVE  /\ sender.k = "announcing" /\ sender.f = dlFiles + 1 /\ Pending = 0
                      /\ m.k = "skipped" => DlFiles \subseteq skipped
    OBVIOUS
  <2>1. sender.k = "announcing" /\ sender.f > dlFiles
    OBVIOUS
  <2>2. sender.f = dlFiles + 1
    BY <1>1, <2>1 DEF DlTypes
  <2>3. Pending = 0
    BY <1>1, <2>1 DEF Telling
  <2>4. ASSUME m.k = "skipped" PROVE DlFiles \subseteq skipped
    <3>1. dlFiles = 1 /\ sender.n < 0
      BY <2>4
    <3>2. 1 \in skipped
      BY <1>1, <2>2, <3>1 DEF Telling
    <3>3. DlFiles = {1}
      BY <3>1 DEF DlFiles
    <3> QED BY <3>2, <3>3
  <2> QED BY <2>1, <2>2, <2>3, <2>4
<1>8. Telling'
  BY <1>1, <1>2, <1>3, <1>4, <1>6 DEF Telling
<1>9. Starting'
  <2>1. ASSUME m.k # "error" PROVE \A x \in Range(fromPeer) : x.k # "dir"
    BY <1>1, <1>7, <2>1 DEF Starting, DlTypes
  <2> QED BY <1>1, <1>2, <1>3, <1>4, <2>1 DEF Starting
<1>10. Sorting'
  <2>1. \A x \in Range(chain) \cup Range(fromPeer) :
            /\ x.k \in Data \/ x.k = "digest" => x.f \in DlFiles
            /\ x.k \in Data => \/ x.f < sender.f
                               \/ x.f = sender.f /\ x.k = "block"
    BY <1>1 DEF Sorting
  <2> QED BY <1>2, <1>3, <1>4, <1>5, <1>6, <1>7, <2>1 DEF Sorting, Data
<1>11. Stopping'
  <2>1. ASSUME wasStopped, dlStatus \in {"starting", "running"} PROVE m.k = "error"
    BY <1>1, <1>3, <1>7, <2>1 DEF Stopping, DlTypes
  <2> QED BY <1>2, <1>3, <1>5, <2>1 DEF Stopping
<1>12. DlTypes'
  BY <1>3, SendingTypes
<1>13. ASSUME ~wasStopped PROVE Handling' /\ Storing'
  <2>1. Handling /\ Storing
    BY <1>13 DEF DlInv
  <2>2. Handling'
    BY <1>2, <2>1, HandlingStays
  <2>3. \A f \in DlFiles : Got(f)' = Got(f)
    BY <1>4, GotStays
  <2>4. \A f \in DlFiles : EndComes(f)' = EndComes(f)
    BY <1>2, <1>4 DEF EndComes
  <2>5. \A x \in Range(chain') \cup Range(fromPeer') :
            x.k \in Data => x \in Range(chain) \cup Range(fromPeer)
    BY <1>2, <1>4 DEF Data
  <2> QED BY <1>1, <1>2, <1>3, <2>1, <2>2, <2>3, <2>4, <2>5, StoringRests
<1> QED BY <1>2, <1>8, <1>9, <1>10, <1>11, <1>12, <1>13 DEF DlInv

\* The device sends of its file, a block of it or its end.
LEMMA DataSent ==
    ASSUME DlInv, NEW m \in FromMsgs, m.k \in Data, m.f = sender.f, Sends(m), sender.k = "sent",
           \/ /\ m.k = "block" /\ sender.n < Blocks
              /\ sender' = [sender EXCEPT !.n = @ + 1]
           \/ /\ m.k = "eof" /\ sender.n = Blocks
              /\ sender' = NextFile(sender.f)
    PROVE  DlInv'
<1>1. /\ DlTypes /\ Telling /\ Starting /\ Sorting /\ Stopping
      /\ \A K : Number(fromPeer, K) \in Nat /\ Number(chain, K) \in Nat
  BY DlQueues
<1>2. /\ UNCHANGED <<dlFiles, dlStatus, inMemory, policy, digests, chain, opening, writing, cur,
                     writable, memBuf, place, skipped, wasStopped, toPeer>>
      /\ DlFiles' = DlFiles
      /\ fromPeer' \in Seq(FromMsgs) /\ Range(fromPeer') = Range(fromPeer) \cup {m}
      /\ \A K : Number(fromPeer', K) = Number(fromPeer, K) + IF m \in K THEN 1 ELSE 0
      /\ Ordered(chain') /\ Ordered(fromPeer')
      /\ \A x \in Range(chain'), y \in Range(fromPeer') : Prec(x, y)
      /\ Landed'
  BY Sending
<1>3. PICK g \in DlFiles : g = sender.f
  BY <1>1 DEF DlTypes
<1>4. g \in Nat \ {0} /\ g <= dlFiles /\ Blocks \in Nat \ {0} /\ sender.n \in 0 .. Blocks
  BY <1>1, DownloadAssumption DEF DlFiles, DlTypes
<1>5. /\ \/ m.k = "block" /\ sender'.k = "sent" /\ sender'.f = g /\ sender'.n = sender.n + 1
         \/ m.k = "eof" /\ sender'.k = "announcing" /\ sender'.f = g + 1 /\ sender'.n = 0
      /\ sender' \in [k : {"listing", "announcing", "awaiting", "sent", "over"},
                     f : 0 .. dlFiles + 1, n : Int]
      /\ sender'.k = "sent" => sender'.n \in 0 .. Blocks
  <2>1. CASE m.k = "block"
    BY <1>1, <1>3, <1>4, <2>1 DEF DlTypes
  <2>2. CASE m.k = "eof"
    <3>1. sender' = [k |-> "announcing", f |-> g + 1, n |-> 0]
      BY <1>3, <2>2 DEF NextFile
    <3>2. g + 1 \in 0 .. dlFiles + 1
      BY <1>1, <1>4 DEF DlTypes
    <3> QED BY <2>2, <3>1, <3>2
  <2> QED BY <2>1, <2>2 DEF Data
<1>6. \A x \in Range(chain) \cup Range(fromPeer) : x.k \notin {"done", "skipped", "error"}
  BY StillGoing
<1>7. Pending = 0 /\ Pending' = 0
  <2>1. Pending = 0
    BY <1>1 DEF Telling
  <2>2. m \notin Digests /\ Number(fromPeer, Digests) \in Nat
    BY <1>1, DownKinds DEF Data
  <2>3. Number(fromPeer', Digests) = Number(fromPeer, Digests)
    BY <1>2, <2>2
  <2> QED BY <1>2, <2>1, <2>3 DEF Pending
<1>8. Telling'
  BY <1>1, <1>2, <1>4, <1>5, <1>7 DEF Telling
<1>9. Starting'
  BY <1>1, <1>2, <1>5 DEF Starting, Data
<1>10. Sorting'
  <2>1. \A x \in Range(chain) \cup Range(fromPeer) :
            /\ x.k \in Data \/ x.k = "digest" => x.f \in DlFiles
            /\ x.k \in Data => x.f < g \/ (x.f = g /\ x.k = "block")
    BY <1>1, <1>3 DEF Sorting
  <2>2. \A x \in Range(chain) \cup Range(fromPeer) :
            x.k \in Data => x.f < sender'.f \/ (x.f = sender'.f /\ x.k = "block" /\ sender'.k = "sent")
    BY <1>4, <1>5, <2>1 DEF DlFiles
  <2>3. m.f < sender'.f \/ (m.f = sender'.f /\ m.k = "block" /\ sender'.k = "sent")
    BY <1>3, <1>4, <1>5
  <2> QED BY <1>2, <1>3, <1>6, <2>1, <2>2, <2>3 DEF Sorting, Data
<1>11. Stopping'
  <2>1. wasStopped => /\ \E w \in Range(toPeer) : w.k = "cancel"
                      /\ dlStatus \notin {"starting", "running"}
    BY <1>1 DEF Stopping
  <2> QED BY <1>2, <2>1 DEF Stopping
<1>12. DlTypes'
  BY <1>3, <1>4, <1>5, SendingTypes
<1>13. ASSUME ~wasStopped PROVE Handling' /\ Storing'
  <2>1. Handling /\ Storing
    BY <1>13 DEF DlInv
  <2>2. Handling'
    BY <1>2, <2>1, HandlingStays
  <2>3. \A f \in DlFiles : f # g => Got(f)' = Got(f)
    BY <1>3, GotStays
  <2>4. Got(g) = sender.n
    BY <1>3, <2>1 DEF Storing
  <2>5. Got(g)' = sender.n + IF m.k = "block" THEN 1 ELSE 0
    <3>1. Stored(g)' = Stored(g) /\ Stored(g) \in Int
      BY <1>1, <1>2 DEF Stored, DlTypes
    <3>2. m \in PiecesOf(g) <=> m.k = "block"
      BY <1>3, DownKinds
    <3>3. Number(fromPeer, PiecesOf(g)) \in Nat /\ Number(chain, PiecesOf(g)) \in Nat
      BY <1>1
    <3>4. /\ Number(chain', PiecesOf(g)) = Number(chain, PiecesOf(g))
          /\ Number(fromPeer', PiecesOf(g))
               = Number(fromPeer, PiecesOf(g)) + IF m \in PiecesOf(g) THEN 1 ELSE 0
      BY <1>2
    <3>5. Number(fromPeer', PiecesOf(g))
               = Number(fromPeer, PiecesOf(g)) + IF m.k = "block" THEN 1 ELSE 0
      BY <3>2, <3>4
    <3>6. Stored(g) + Number(chain, PiecesOf(g)) + Number(fromPeer, PiecesOf(g)) = sender.n
      BY <2>4 DEF Got
    <3>7. Got(g)' = Stored(g)' + Number(chain', PiecesOf(g)) + Number(fromPeer', PiecesOf(g))
      BY DEF Got
    <3>8. Number(chain', PiecesOf(g)) = Number(chain, PiecesOf(g))
      BY <3>4
    <3> HIDE DEF Stored, PiecesOf
    <3>9. Got(g)' = Stored(g) + Number(chain, PiecesOf(g)) + Number(fromPeer', PiecesOf(g))
      BY <3>1, <3>7, <3>8
    <3> QED BY <1>4, <3>1, <3>3, <3>5, <3>6, <3>9
  <2>6. \A x \in Range(chain) \cup Range(fromPeer) : x.k = "eof" => x.f < g
    BY <1>1, <1>3 DEF Sorting, Data
  <2>7. ~EndComes(g) /\ (EndComes(g)' <=> m.k = "eof")
    <3>1. ~EndComes(g)
      BY <1>4, <2>6 DEF EndComes
    <3> QED BY <1>2, <1>3, <3>1 DEF EndComes
  <2>8. \A f \in DlFiles : f # g => EndComes(f)' = EndComes(f)
    BY <1>2, <1>3 DEF EndComes
  <2>9. ASSUME NEW f \in DlFiles
        PROVE  /\ EndComes(f)' => Got(f)' = Blocks
               /\ f < sender'.f /\ f \notin skipped /\ ~EndComes(f)' => place[f] = "whole"
               /\ f < sender'.f /\ (\E x \in Range(chain') \cup Range(fromPeer') : x.k = "block" /\ x.f = f)
                     => EndComes(f)'
               /\ place[f] # "part"
    <3>1. CASE f # g
      <4>1. f < sender'.f => f < g
        BY <1>4, <1>5, <3>1 DEF DlFiles
      <4>2. (\E x \in Range(chain') \cup Range(fromPeer') : x.k = "block" /\ x.f = f)
              => \E x \in Range(chain) \cup Range(fromPeer) : x.k = "block" /\ x.f = f
        BY <1>2, <1>3, <3>1
      <4> QED BY <1>3, <2>1, <2>3, <2>8, <3>1, <4>1, <4>2 DEF Storing
    <3>2. CASE f = g
      <4>1. EndComes(g)' => Got(g)' = Blocks
        BY <1>4, <2>5, <2>7
      <4>2. g < sender'.f => EndComes(g)'
        BY <1>4, <1>5, <2>7
      <4>3. place[g] # "part"
        BY <2>1 DEF Storing
      <4> QED BY <3>2, <4>1, <4>2, <4>3
    <3> QED BY <3>1, <3>2
  <2>10. sender'.k = "sent" => Got(g)' = sender'.n /\ sender'.f = g
    BY <1>4, <1>5, <2>5
  <2>11. sender'.k = "sent" => Got(sender.f)' = sender'.n
    BY <1>3, <2>10
  <2>12. ASSUME cur # 0
         PROVE  /\ \/ cur < sender'.f /\ EndComes(cur)'
                   \/ cur = sender'.f /\ sender'.k \in {"sent", "over"}
                /\ \A x \in Range(chain') \cup Range(fromPeer') : x.k \in Data => x.f >= cur
    <3>1. PICK c \in DlFiles : c = cur
      BY <1>1, <2>12 DEF DlTypes, DlFiles
    <3>2. \/ c < g /\ EndComes(c)
          \/ c = g
      BY <1>3, <2>1, <2>12, <3>1 DEF Storing
    <3>3. c <= g
      BY <1>4, <3>1, <3>2 DEF DlFiles
    <3>4. \A x \in Range(chain) \cup Range(fromPeer) : x.k \in Data => x.f >= c
      BY <2>1, <2>12, <3>1 DEF Storing
    <3>5. \A x \in Range(chain') \cup Range(fromPeer') : x.k \in Data => x.f >= c
      BY <1>2, <1>3, <1>4, <3>3, <3>4 DEF DlFiles
    <3>6. \/ c < sender'.f /\ EndComes(c)'
          \/ c = sender'.f /\ sender'.k \in {"sent", "over"}
      <4>1. CASE c < g /\ EndComes(c)
        <5>1. c # g /\ c < sender'.f
          BY <1>4, <1>5, <3>1, <4>1 DEF DlFiles
        <5> QED BY <2>8, <3>1, <4>1, <5>1
      <4>2. CASE c = g /\ m.k = "block"
        BY <1>5, <4>2
      <4>3. CASE c = g /\ m.k = "eof"
        BY <1>4, <1>5, <2>7, <4>3
      <4> QED BY <3>2, <4>1, <4>2, <4>3 DEF Data
    <3>7. EndComes(c)' => EndComes(cur)'
      BY <1>2, <3>1 DEF EndComes
    <3> QED BY <3>1, <3>5, <3>6, <3>7
  <2> QED BY <1>2, <2>2, <2>9, <2>11, <2>12 DEF Storing
<1> QED BY <1>2, <1>8, <1>9, <1>10, <1>11, <1>12, <1>13 DEF DlInv

LEMMA PeerSends ==
    ASSUME DlInv, PeerSendsFile
    PROVE  DlInv'
<1>1. sender.f \in Nat
  BY DEF DlInv, DlTypes
<1>2. PICK m \in FromMsgs :
        \/ m.k = "dir" /\ sender.k = "listing" /\ sender' = NextFile(0) /\ fromPeer' = Append(fromPeer, m)
        \/ /\ m.k = "digest" /\ m.f = sender.f /\ sender.k = "announcing" /\ sender.f <= dlFiles
           /\ sender' = [sender EXCEPT !.k = "awaiting"] /\ fromPeer' = Append(fromPeer, m)
        \/ /\ sender' = [sender EXCEPT !.k = "over"] /\ fromPeer' = Append(fromPeer, m)
           /\ \/ m.k = "error" /\ sender.k # "over"
              \/ /\ sender.k = "announcing" /\ sender.f > dlFiles
                 /\ m.k = IF dlFiles = 1 /\ sender.n < 0 THEN "skipped" ELSE "done"
        \/ /\ m.k \in Data /\ m.f = sender.f /\ sender.k = "sent" /\ fromPeer' = Append(fromPeer, m)
           /\ \/ /\ m.k = "block" /\ sender.n < Blocks
                 /\ sender' = [sender EXCEPT !.n = @ + 1]
              \/ /\ m.k = "eof" /\ sender.n = Blocks
                 /\ sender' = NextFile(sender.f)
  <2>1. \A k \in FromKinds, f \in Nat : [k |-> k, f |-> f] \in FromMsgs
    BY DEF FromMsgs
  <2>2. CASE /\ sender.k = "listing" /\ fromPeer' = Append(fromPeer, [k |-> "dir", f |-> 0])
             /\ sender' = NextFile(0)
    BY <2>1, <2>2 DEF FromKinds
  <2>3. CASE /\ sender.k = "announcing" /\ sender.f <= dlFiles
             /\ fromPeer' = Append(fromPeer, [k |-> "digest", f |-> sender.f])
             /\ sender' = [sender EXCEPT !.k = "awaiting"]
    BY <1>1, <2>1, <2>3 DEF FromKinds
  <2>4. CASE /\ sender.k = "announcing" /\ sender.f > dlFiles
             /\ fromPeer' = Append(fromPeer,
                   [k |-> IF dlFiles = 1 /\ sender.n < 0 THEN "skipped" ELSE "done", f |-> 0])
             /\ sender' = [sender EXCEPT !.k = "over"]
    BY <2>1, <2>4 DEF FromKinds
  <2>5. CASE /\ sender.k = "sent" /\ sender.n < Blocks
             /\ fromPeer' = Append(fromPeer, [k |-> "block", f |-> sender.f])
             /\ sender' = [sender EXCEPT !.n = @ + 1]
    BY <1>1, <2>1, <2>5 DEF FromKinds, Data
  <2>6. CASE /\ sender.k = "sent" /\ sender.n = Blocks
             /\ fromPeer' = Append(fromPeer, [k |-> "eof", f |-> sender.f])
             /\ sender' = NextFile(sender.f)
    BY <1>1, <2>1, <2>6 DEF FromKinds, Data
  <2>7. CASE /\ sender.k # "over"
             /\ fromPeer' = Append(fromPeer, [k |-> "error", f |-> 0])
             /\ sender' = [sender EXCEPT !.k = "over"]
    BY <2>1, <2>7 DEF FromKinds
  <2> QED BY <2>2, <2>3, <2>4, <2>5, <2>6, <2>7 DEF PeerSendsFile
<1>3. UNCHANGED <<dlFiles, dlStatus, inMemory, policy, digests, chain, dlLocal, skipped,
                  wasStopped, toPeer>>
  BY DEF PeerSendsFile
<1>4. Sends(m)
  <2>1. sender.k # "over" /\ fromPeer' = Append(fromPeer, m)
    BY <1>2
  <2>2. m.k = "dir" => chain = <<>> /\ fromPeer = <<>>
    <3>1. m.k = "dir" => sender.k = "listing"
      BY <1>2 DEF Data
    <3> QED BY <3>1 DEF DlInv, Starting
  <2>3. m.k \in Data => m.f = sender.f
    BY <1>2 DEF Data
  <2> QED BY <1>3, <2>1, <2>2, <2>3 DEF Sends
<1> QED BY <1>2, <1>4, DirectorySent, FileAnnounced, TransferEnds, DataSent

\* The device hears our word on its file, or that the transfer is cancelled.
LEMMA WordHeard ==
    ASSUME DlInv, PeerHears, NEW w, w = Head(toPeer)
    PROVE  /\ UNCHANGED <<dlFiles, dlStatus, inMemory, policy, digests, chain, opening, writing, cur,
                          writable, memBuf, place, skipped, wasStopped, fromPeer>>
           /\ DlFiles' = DlFiles
           /\ toPeer' \in Seq(ToMsgs) /\ Range(toPeer) = {w} \cup Range(toPeer') /\ w \in ToMsgs
           /\ toPeer # <<>>
           /\ Pending' = Pending - (IF w.k = "cancel" THEN 0 ELSE 1) /\ Pending \in Nat
           /\ sender.k # "over" => Landed'
<1>1. /\ UNCHANGED <<dlFiles, dlStatus, inMemory, policy, digests, chain, opening, writing, cur,
                          writable, memBuf, place, skipped, wasStopped, fromPeer>>
      /\ DlFiles' = DlFiles /\ toPeer # <<>> /\ toPeer' = Tail(toPeer)
  BY DEF PeerHears, dlLocal, DlFiles
<1>2. /\ toPeer \in Seq(ToMsgs) /\ Pending \in Nat
      /\ \A K : Number(fromPeer, K) \in Nat /\ Number(toPeer, K) \in Nat
  BY DlQueues
<1>3. /\ toPeer' \in Seq(ToMsgs) /\ Range(toPeer) = {w} \cup Range(toPeer') /\ w \in ToMsgs
      /\ \A K : Number(toPeer, K) = Number(toPeer', K) + IF w \in K THEN 1 ELSE 0
  BY <1>1, <1>2, Taken
<1>4. \A K : Number(toPeer', K) \in Nat
  BY <1>3, NumberType
<1>5. Pending' = Pending - (IF w.k = "cancel" THEN 0 ELSE 1)
  <2>1. w \in Words <=> w.k # "cancel"
    BY <1>3, DownKinds
  <2>2. /\ Number(toPeer, Words) = Number(toPeer', Words) + IF w \in Words THEN 1 ELSE 0
        /\ Number(toPeer', Words) \in Nat /\ Number(fromPeer, Digests) \in Nat
    BY <1>2, <1>3, <1>4
  <2> QED BY <1>1, <2>1, <2>2 DEF Pending
<1>6. sender.k # "over" => Landed'
  BY <1>1, StillGoing DEF Landed
<1> QED BY <1>1, <1>2, <1>3, <1>5, <1>6

\* Nobody listens.
LEMMA HeardTooLate ==
    ASSUME DlInv, PeerHears, sender.k = "over"
    PROVE  DlInv'
<1>1. PICK w : w = Head(toPeer)
  OBVIOUS
<1>2. /\ UNCHANGED <<dlFiles, dlStatus, inMemory, policy, digests, chain, opening, writing, cur,
                          writable, memBuf, place, skipped, wasStopped, fromPeer>>
      /\ DlFiles' = DlFiles
      /\ toPeer' \in Seq(ToMsgs) /\ Range(toPeer) = {w} \cup Range(toPeer') /\ w \in ToMsgs
      /\ Pending' = Pending - (IF w.k = "cancel" THEN 0 ELSE 1) /\ Pending \in Nat
  BY <1>1, WordHeard
<1>3. sender' = sender
  BY <1>1 DEF PeerHears
<1>4. DlTypes /\ Telling /\ Starting /\ Sorting /\ Stopping /\ Landed
  BY DEF DlInv
<1>5. Pending' \in Int /\ Pending' <= Pending
  BY <1>2
<1>6. Pending' <= 1 /\ (Pending = 0 => Pending' <= 0)
  BY <1>2, <1>4, <1>5 DEF Telling
<1>7. Pending' \in Nat
  <2>1. Number(toPeer', Words) \in Nat /\ Number(fromPeer', Digests) \in Nat
    BY <1>2, <1>4, NumberType DEF DlTypes
  <2> QED BY <2>1 DEF Pending
<1>8. Telling'
  BY <1>2, <1>3, <1>4, <1>6 DEF Telling
<1>9. Starting'
  BY <1>2, <1>3, <1>4 DEF Starting
<1>10. Sorting'
  <2>1. Pending = 0 => Pending' = 0
    BY <1>6, <1>7
  <2> QED BY <1>2, <1>3, <1>4, <2>1 DEF Sorting
<1>11. Stopping' /\ Landed'
  BY <1>2, <1>3, <1>4 DEF Stopping, Landed
<1>12. DlTypes'
  BY <1>2, <1>3, <1>4 DEF DlTypes, Ended
<1>13. ~wasStopped' => Handling' /\ Storing'
  <2>1. UNCHANGED <<dlFiles, inMemory, chain, dlLocal, wasStopped, fromPeer, sender>>
    BY <1>2, <1>3 DEF dlLocal
  <2> QED BY <1>2, <2>1, FilesStay
<1> QED BY <1>8, <1>9, <1>10, <1>11, <1>12, <1>13 DEF DlInv

LEMMA CancelHeard ==
    ASSUME DlInv, PeerHears, sender.k # "over", Head(toPeer).k = "cancel"
    PROVE  DlInv'
<1>1. PICK w : w = Head(toPeer)
  OBVIOUS
<1>2. /\ UNCHANGED <<dlFiles, dlStatus, inMemory, policy, digests, chain, opening, writing, cur,
                          writable, memBuf, place, skipped, wasStopped, fromPeer>>
      /\ DlFiles' = DlFiles
      /\ toPeer' \in Seq(ToMsgs) /\ Range(toPeer) = {w} \cup Range(toPeer') /\ w \in ToMsgs
      /\ Pending' = Pending - (IF w.k = "cancel" THEN 0 ELSE 1) /\ Pending \in Nat
      /\ Landed'
  BY <1>1, WordHeard
<1>3. DlTypes /\ Telling /\ Starting /\ Sorting /\ Stopping
  BY DEF DlInv
<1>4. /\ sender' = [sender EXCEPT !.k = "over"]
      /\ sender'.k = "over" /\ sender'.f = sender.f /\ sender'.n = sender.n
      /\ sender' \in [k : {"listing", "announcing", "awaiting", "sent", "over"},
                      f : 0 .. dlFiles + 1, n : Int]
  BY <1>1, <1>3 DEF PeerHears, DlTypes
<1>5. Pending' = Pending
  BY <1>1, <1>2
<1>6. \A x \in Range(chain) \cup Range(fromPeer) : x.k \notin {"done", "skipped", "error"}
  BY StillGoing
<1>7. Telling'
  BY <1>2, <1>3, <1>4, <1>5 DEF Telling
<1>8. Starting'
  BY <1>2, <1>3, <1>4 DEF Starting
<1>9. Sorting'
  BY <1>2, <1>3, <1>4, <1>6 DEF Sorting
<1>10. Stopping'
  BY <1>2, <1>4, <1>6 DEF Stopping
<1>11. DlTypes'
  BY <1>2, <1>3, <1>4 DEF DlTypes, Ended
<1>12. ASSUME ~wasStopped PROVE Handling' /\ Storing'
  <2>1. Handling /\ Storing
    BY <1>12 DEF DlInv
  <2>2. Handling'
    BY <1>2, <2>1, HandlingStays
  <2>3. \A f \in DlFiles : Got(f)' = Got(f) /\ EndComes(f)' = EndComes(f)
    BY <1>2 DEF Got, Stored, EndComes
  <2> QED BY <1>2, <1>3, <1>4, <2>1, <2>2, <2>3, StoringRests
<1> QED BY <1>2, <1>7, <1>8, <1>9, <1>10, <1>11, <1>12 DEF DlInv

\* Our word on the file the device waits for: it goes to the next file, or sends this one.
LEMMA AnswerHeard ==
    ASSUME DlInv, PeerHears, sender.k # "over", Head(toPeer).k # "cancel"
    PROVE  DlInv'
<1>1. PICK w : w = Head(toPeer)
  OBVIOUS
<1>2. /\ UNCHANGED <<dlFiles, dlStatus, inMemory, policy, digests, chain, opening, writing, cur,
                          writable, memBuf, place, skipped, wasStopped, fromPeer>>
      /\ DlFiles' = DlFiles
      /\ toPeer' \in Seq(ToMsgs) /\ Range(toPeer) = {w} \cup Range(toPeer') /\ w \in ToMsgs
      /\ toPeer # <<>>
      /\ Pending' = Pending - (IF w.k = "cancel" THEN 0 ELSE 1) /\ Pending \in Nat
      /\ Landed'
  BY <1>1, WordHeard
<1>3. /\ DlTypes /\ Telling /\ Starting /\ Sorting /\ Stopping /\ chain \in Seq(FromMsgs)
      /\ fromPeer \in Seq(FromMsgs)
      /\ \A x \in Range(chain) \cup Range(fromPeer) : x \in FromMsgs
      /\ \A K : Number(fromPeer, K) \in Nat /\ Number(toPeer', K) \in Nat
  <2>1. \A K : Number(toPeer', K) \in Nat
    BY <1>2, NumberType
  <2> QED BY <2>1, DlQueues
<1>4. w.k \in {"skip", "overwrite"}
  BY <1>1, <1>2 DEF ToMsgs
<1>5. Pending' = 0 /\ Pending = 1
  <2>1. Pending' = Pending - 1
    BY <1>1, <1>2
  <2>2. Pending' \in Nat
    BY <1>2, <1>3 DEF Pending
  <2> QED BY <1>2, <1>3, <2>1, <2>2 DEF Telling
<1>6. sender.k = "awaiting" /\ w.f = sender.f
  BY <1>1, <1>2, <1>3, <1>5 DEF Telling
<1>7. PICK g \in DlFiles : g = sender.f
  BY <1>3, <1>6 DEF DlTypes
<1>8. g \in Nat \ {0} /\ g <= dlFiles /\ dlFiles \in Nat /\ Blocks \in Nat \ {0}
  BY <1>3, DownloadAssumption DEF DlFiles, DlTypes
<1>9. /\ \/ /\ w.k = "skip" /\ g \in skipped
            /\ sender' = [k |-> "announcing", f |-> g + 1, n |-> -1]
         \/ w.k = "overwrite" /\ sender' = [k |-> "sent", f |-> g, n |-> 0]
      /\ sender' \in [k : {"listing", "announcing", "awaiting", "sent", "over"},
                      f : 0 .. dlFiles + 1, n : Int]
      /\ sender'.k = "sent" => sender'.n \in 0 .. Blocks
  <2>1. CASE w.k = "skip"
    <3>1. sender' = [NextFile(w.f) EXCEPT !.n = -1]
      BY <1>1, <2>1 DEF PeerHears
    <3>2. NextFile(w.f) = [k |-> "announcing", f |-> g + 1, n |-> 0]
      BY <1>6, <1>7 DEF NextFile
    <3>3. sender' = [k |-> "announcing", f |-> g + 1, n |-> -1]
      BY <3>1, <3>2
    <3>4. g \in skipped
      BY <1>2, <1>3, <1>6, <1>7, <2>1 DEF Telling
    <3>5. g + 1 \in 0 .. dlFiles + 1 /\ -1 \in Int
      BY <1>8
    <3> QED BY <2>1, <3>3, <3>4, <3>5
  <2>2. CASE w.k = "overwrite"
    <3>1. sender' = [k |-> "sent", f |-> w.f, n |-> 0]
      BY <1>1, <2>2 DEF PeerHears
    <3>2. g \in 0 .. dlFiles + 1 /\ 0 \in 0 .. Blocks /\ 0 \in Int
      BY <1>8
    <3> QED BY <1>6, <1>7, <2>2, <3>1, <3>2
  <2> QED BY <1>4, <2>1, <2>2
<1>10. \A x \in Range(chain) \cup Range(fromPeer) :
            /\ x.k \notin {"done", "skipped", "error", "dir"}
            /\ x.k \in Data \/ x.k = "digest" => x.f \in DlFiles
            /\ x.k \in Data => x.f < g
  <2>1. \A x \in Range(chain) \cup Range(fromPeer) : x.k \notin {"done", "skipped", "error"}
    BY StillGoing
  <2>2. \A x \in Range(fromPeer) : x.k # "dir"
    BY <1>2, <1>3, <1>4 DEF Starting
  <2>3. \A x \in Range(chain) : x.k # "dir"
    BY <1>3 DEF DlTypes
  <2> QED BY <1>3, <1>6, <1>7, <2>1, <2>2, <2>3 DEF Sorting
<1>11. Telling'
  <2>1. \A x \in Range(toPeer') : x.k = "skip" => x.f \in skipped'
    BY <1>2, <1>3 DEF Telling
  <2>2. \A d, e \in digests' : d = e
    BY <1>2, <1>3 DEF Telling
  <2>3. sender'.n < 0 => sender'.f # 0 /\ sender'.f - 1 \in skipped'
    BY <1>2, <1>8, <1>9
  <2>4. sender'.k # "awaiting"
    BY <1>9
  <2> QED BY <1>5, <2>1, <2>2, <2>3, <2>4 DEF Telling
<1>12. Starting'
  <2>1. sender'.k # "listing"
    BY <1>9
  <2> QED BY <1>2, <1>10, <2>1 DEF Starting
<1>13. Sorting'
  <2>1. \A x \in Range(chain) \cup Range(fromPeer) : x.k \in Data => x.f < sender'.f
    BY <1>8, <1>9, <1>10 DEF DlFiles
  <2>2. Ordered(chain) /\ Ordered(fromPeer) /\ \A x \in Range(chain), y \in Range(fromPeer) : Prec(x, y)
    BY <1>3 DEF Sorting
  <2> QED BY <1>2, <1>10, <2>1, <2>2 DEF Sorting
<1>14. Stopping'
  <2>1. wasStopped => /\ \E x \in Range(toPeer') : x.k = "cancel"
                      /\ dlStatus \notin {"starting", "running"}
    BY <1>1, <1>2, <1>3, <1>4 DEF Stopping
  <2> QED BY <1>2, <2>1 DEF Stopping
<1>15. DlTypes'
  <2>1. sender'.k \in {"awaiting", "sent"} => sender'.f \in DlFiles
    BY <1>9
  <2>2. sender'.k = "announcing" => sender'.f # 0
    BY <1>8, <1>9
  <2> QED BY <1>2, <1>3, <1>9, <2>1, <2>2 DEF DlTypes, Ended
<1>16. ASSUME ~wasStopped PROVE Handling' /\ Storing'
  <2>1. Handling /\ Storing
    BY <1>16 DEF DlInv
  <2>2. Handling'
    BY <1>2, <2>1, HandlingStays
  <2>3. \A f \in DlFiles : Got(f)' = Got(f) /\ EndComes(f)' = EndComes(f)
    BY <1>2 DEF Got, Stored, EndComes
  <2>4. cur # g
    BY <1>6, <1>7, <1>8, <2>1 DEF Storing
  <2>5. Got(g) = 0
    <3>1. Stored(g) = 0
      BY <2>4 DEF Stored
    <3>2. \A x \in Range(chain) \cup Range(fromPeer) : x \notin PiecesOf(g)
      BY <1>3, <1>8, <1>10, DownKinds DEF Data
    <3>3. Number(chain, PiecesOf(g)) = 0 /\ Number(fromPeer, PiecesOf(g)) = 0
      BY <1>3, <3>2, NumberZero
    <3> QED BY <3>1, <3>3 DEF Got
  <2>6. sender'.k = "sent" => Got(sender.f)' = sender'.n
    <3> SUFFICES ASSUME sender'.k = "sent" PROVE Got(sender.f)' = sender'.n
      OBVIOUS
    <3>1. sender'.f = g /\ sender'.n = 0
      BY <1>9
    <3>2. Got(g)' = 0
      BY <2>3, <2>5
    <3> QED BY <3>1, <3>2 DEF Got, Stored
  <2>7. ~EndComes(g)
    BY <1>8, <1>10 DEF EndComes, Data
  <2>8. ASSUME NEW f \in DlFiles
        PROVE  /\ EndComes(f)' => Got(f)' = Blocks
               /\ f < sender'.f /\ f \notin skipped /\ ~EndComes(f)' => place[f] = "whole"
               /\ f < sender'.f /\ (\E x \in Range(chain') \cup Range(fromPeer') : x.k = "block" /\ x.f = f)
                     => EndComes(f)'
               /\ place[f] # "part"
    <3>1. CASE f # g
      <4>1. f < sender'.f => f < g
        BY <1>8, <1>9, <3>1 DEF DlFiles
      <4> QED BY <1>2, <1>7, <2>1, <2>3, <3>1, <4>1 DEF Storing
    <3>2. CASE f = g
      <4>1. ~EndComes(g)' /\ place[g] # "part"
        BY <2>1, <2>3, <2>7 DEF Storing
      <4>2. g < sender'.f => g \in skipped
        BY <1>8, <1>9
      <4>3. ~ \E x \in Range(chain) \cup Range(fromPeer) : x.k = "block" /\ x.f = g
        BY <1>8, <1>10 DEF Data
      <4> QED BY <1>2, <3>2, <4>1, <4>2, <4>3
    <3> QED BY <3>1, <3>2
  <2>9. ASSUME cur # 0
        PROVE  /\ cur < sender'.f /\ EndComes(cur)'
               /\ \A x \in Range(chain') \cup Range(fromPeer') : x.k \in Data => x.f >= cur
    <3>1. PICK c \in DlFiles : c = cur
      BY <1>3, <2>9 DEF DlTypes, DlFiles
    <3>2. c < g /\ EndComes(c)
      BY <1>6, <1>7, <2>1, <2>9, <3>1 DEF Storing
    <3>3. c < sender'.f
      BY <1>8, <1>9, <3>1, <3>2 DEF DlFiles
    <3>4. EndComes(cur)'
      BY <1>2, <3>1, <3>2 DEF EndComes
    <3> QED BY <1>2, <2>1, <2>9, <3>1, <3>3, <3>4 DEF Storing
  <2> QED BY <1>2, <2>2, <2>6, <2>8, <2>9 DEF Storing
<1> QED BY <1>2, <1>11, <1>12, <1>13, <1>14, <1>15, <1>16 DEF DlInv

LEMMA DlStart == DlInit => DlInv
<1> SUFFICES ASSUME DlInit PROVE DlInv
  OBVIOUS
<1>1. /\ dlFiles \in Nat \ {0} /\ DlFiles = 1 .. dlFiles
      /\ inMemory \in BOOLEAN
      /\ dlStatus = "starting" /\ policy = "ask" /\ digests = {} /\ chain = <<>>
      /\ opening = FALSE /\ writing = FALSE /\ cur = 0 /\ writable = NoStream /\ memBuf = 0
      /\ place = [f \in DlFiles |-> "old"] /\ skipped = {} /\ wasStopped = FALSE
      /\ fromPeer = <<>> /\ toPeer = <<>>
      /\ sender.k = "listing" /\ sender.f = 0 /\ sender.n = 0
      /\ sender = [k |-> "listing", f |-> 0, n |-> 0]
  BY DownloadAssumption DEF DlInit, DlFiles
<1>2. Range(chain) = {} /\ Range(fromPeer) = {} /\ Range(toPeer) = {}
  BY <1>1, EmptyQueue
<1>3. Pending = 0
  <2>1. Number(fromPeer, Digests) = 0 /\ Number(toPeer, Words) = 0
    BY <1>1, EmptyQueue
  <2> QED BY <1>1, <2>1 DEF Pending
<1>4. DlTypes
  <2>1. NoStream \in [f : 0 .. dlFiles, n : Int]
    BY <1>1 DEF NoStream
  <2>2. sender \in [k : {"listing", "announcing", "awaiting", "sent", "over"},
                    f : 0 .. dlFiles + 1, n : Int]
    BY <1>1
  <2>3. place \in [DlFiles -> {"old", "part", "whole"}]
    BY <1>1
  <2>4. chain \in Seq(FromMsgs) /\ fromPeer \in Seq(FromMsgs) /\ toPeer \in Seq(ToMsgs)
    BY <1>1
  <2>5. \A m \in Range(chain) : m.k \in {"block", "eof", "done"}
    BY <1>2
  <2>6. dlStatus \notin Ended /\ cur \in 0 .. dlFiles /\ digests \subseteq [f : DlFiles, at : {"checking", "asking"}]
    BY <1>1 DEF Ended
  <2>7. writable \in [f : 0 .. dlFiles, n : Int] /\ skipped \subseteq DlFiles
    BY <1>1, <2>1
  <2>8. /\ sender.k \in {"awaiting", "sent"} => sender.f \in DlFiles
        /\ sender.k = "announcing" => sender.f # 0
        /\ sender.k = "sent" => sender.n \in 0 .. Blocks
    BY <1>1
  <2>9. memBuf \in Nat /\ opening \in BOOLEAN /\ writing \in BOOLEAN /\ wasStopped \in BOOLEAN
        /\ (opening \/ writing => chain # <<>>) /\ ~(opening /\ writing)
        /\ policy \in {"ask", "overwrite", "skip"}
        /\ dlStatus \in {"starting", "running", "done", "error", "cancelled"}
    BY <1>1
  <2>10. dlFiles \in Nat \ {0} /\ inMemory \in BOOLEAN
    BY <1>1
  <2> QED BY <2>2, <2>3, <2>4, <2>5, <2>6, <2>7, <2>8, <2>9, <2>10 DEF DlTypes
<1>5. Telling /\ Starting
  BY <1>1, <1>2, <1>3 DEF Telling, Starting
<1>6. Sorting
  BY <1>1, <1>2 DEF Sorting, Ordered
<1>7. Stopping /\ Landed
  BY <1>1 DEF Stopping, Landed
<1>8. Handling
  BY <1>1 DEF Handling
<1>9. Storing
  <2>1. \A f \in DlFiles : ~EndComes(f) /\ ~(f < 0) /\ place[f] # "part"
    BY <1>1, <1>2 DEF EndComes
  <2> QED BY <1>1, <2>1 DEF Storing
<1> QED BY <1>4, <1>5, <1>6, <1>7, <1>8, <1>9 DEF DlInv

LEMMA DlStutter ==
    ASSUME DlInv, UNCHANGED dlVars
    PROVE  DlInv'
<1>1. UNCHANGED <<dlFiles, dlStatus, inMemory, policy, digests, chain, opening, writing, cur,
                  writable, memBuf, place, skipped, wasStopped, fromPeer, toPeer, sender>>
  BY DEF dlVars, dlLocal
<1>2. DlTypes' /\ Telling' /\ Starting' /\ Sorting' /\ Stopping' /\ Landed'
  BY <1>1, SMTT(20) DEF DlInv, DlTypes, Telling, Starting, Sorting, Stopping, Landed, Pending, DlFiles
<1>3. ~wasStopped' => Handling' /\ Storing'
  <2>1. UNCHANGED <<dlFiles, inMemory, chain, dlLocal, wasStopped, fromPeer, sender>>
    BY DEF dlVars
  <2> QED BY <1>1, <2>1, FilesStay
<1> QED BY <1>2, <1>3 DEF DlInv

LEMMA DlKeeps == DlInv /\ [DlNext]_dlVars => DlInv'
<1> SUFFICES ASSUME DlInv, [DlNext]_dlVars PROVE DlInv'
  OBVIOUS
<1>1. CASE UNCHANGED dlVars
  BY <1>1, DlStutter
<1>2. CASE BeginTask \/ Opened \/ Written \/ LocalFileFails \/ Received
  BY <1>2, TaskBegun, FileOpened, BlockWritten, LocalFailed, MessageHandled
<1>3. CASE \E answering \in SUBSET digests : Cancel(answering)
  BY <1>3, Cancels
<1>4. CASE ChannelLost \/ PeerSendsFile
  BY <1>4, DownloadCut, PeerSends
<1>5. CASE PeerHears
  BY <1>5, HeardTooLate, CancelHeard, AnswerHeard
<1>6. CASE \E d \in digests, exists \in BOOLEAN : TargetLookedUp(d, exists)
  BY <1>6, LookedUp
<1>7. CASE \E d \in digests, action \in {"overwrite", "skip"}, applyAll \in BOOLEAN :
               Answered(d, action, applyAll)
  BY <1>7, UserDecides
<1> QED BY <1>1, <1>2, <1>3, <1>4, <1>5, <1>6, <1>7 DEF DlNext

LEMMA DlAlways == DlSpec => []DlInv
<1> QED BY DlStart, DlKeeps, PTL DEF DlSpec

LEMMA ReceivedFollows == DlInv => ReceivedIsWhole
<1> SUFFICES ASSUME DlInv PROVE ReceivedIsWhole
  OBVIOUS
<1>1. dlStatus = "done" => \A f \in DlFiles \ skipped : place[f] = "whole"
  BY DEF DlInv, Landed
<1>2. ~wasStopped => \A f \in DlFiles : place[f] # "part"
  BY DEF DlInv, Storing
<1> QED BY <1>1, <1>2 DEF ReceivedIsWhole

\* What the file panel reports as received is there in full, but for the files the user left
\* out; and as long as nobody stopped the transfer, no file was ever put in place short of
\* its end, whatever the browser's answers and the device's blocks waited for.
THEOREM ReceivedFilesAreWhole == DlSpec => []ReceivedIsWhole
<1> QED BY ReceivedFollows, DlAlways, PTL
-----------------------------------------------------------------------------
(* What a download counts up to, stopped or not. *)

\* The blocks of a file the device has sent, those of them under way to the local file,
\* and those it was given since it was opened.
SentOf(f) == IF f < sender.f THEN Blocks ELSE IF f = sender.f /\ sender.n > 0 THEN sender.n ELSE 0
Under(f) == Number(chain, PiecesOf(f)) + Number(fromPeer, PiecesOf(f))
Held(f) == IF f = cur THEN memBuf + (IF writable.n = Failed THEN 0 ELSE writable.n) ELSE 0

\* A stream is of the current file, and so is the block that is being written.
Shapes ==
    /\ writable.n >= Failed
    /\ writable.f # 0 => writable.f = cur
    /\ writable.f = 0 => writable.n = 0
    /\ writing => Head(chain).k = "block" /\ Head(chain).f = cur

\* Of a file that is announced nothing is sent yet.
Unsent == sender.k \in {"announcing", "awaiting"} => sender.n <= 0

DlBounds ==
    /\ dlFiles <= MaxFiles /\ sender.n \in Failed .. Blocks /\ Unsent
    /\ Shapes
    /\ \A f \in Nat : Held(f) + Under(f) <= SentOf(f)

LEMMA PiecesCounted ==
    ASSUME NEW s \in Seq(FromMsgs), NEW f
    PROVE  /\ Number(s, PiecesOf(f)) \in Nat
           /\ s # <<>> =>
                 /\ Number(Tail(s), PiecesOf(f)) \in Nat
                 /\ Head(s).k = "block" /\ Head(s).f = f =>
                       Number(s, PiecesOf(f)) = Number(Tail(s), PiecesOf(f)) + 1
                 /\ ~(Head(s).k = "block" /\ Head(s).f = f) =>
                       Number(s, PiecesOf(f)) = Number(Tail(s), PiecesOf(f))
           /\ \A m \in FromMsgs :
                 /\ m.k = "block" /\ m.f = f =>
                       Number(Append(s, m), PiecesOf(f)) = Number(s, PiecesOf(f)) + 1
                 /\ ~(m.k = "block" /\ m.f = f) =>
                       Number(Append(s, m), PiecesOf(f)) = Number(s, PiecesOf(f))
<1>1. Number(s, PiecesOf(f)) \in Nat
  BY NumberType
<1>2. ASSUME s # <<>>
      PROVE  /\ Number(Tail(s), PiecesOf(f)) \in Nat
             /\ Head(s).k = "block" /\ Head(s).f = f =>
                   Number(s, PiecesOf(f)) = Number(Tail(s), PiecesOf(f)) + 1
             /\ ~(Head(s).k = "block" /\ Head(s).f = f) =>
                   Number(s, PiecesOf(f)) = Number(Tail(s), PiecesOf(f))
  <2>1. /\ Head(s) \in FromMsgs /\ Tail(s) \in Seq(FromMsgs)
        /\ Number(s, PiecesOf(f))
           = Number(Tail(s), PiecesOf(f)) + IF Head(s) \in PiecesOf(f) THEN 1 ELSE 0
    BY <1>2, Taken
  <2>2. Number(Tail(s), PiecesOf(f)) \in Nat
    BY <2>1, NumberType
  <2>3. Head(s) \in PiecesOf(f) <=> Head(s).k = "block" /\ Head(s).f = f
    BY <2>1, DownKinds
  <2> QED BY <2>1, <2>2, <2>3
<1>3. ASSUME NEW m \in FromMsgs
      PROVE  /\ m.k = "block" /\ m.f = f =>
                   Number(Append(s, m), PiecesOf(f)) = Number(s, PiecesOf(f)) + 1
             /\ ~(m.k = "block" /\ m.f = f) =>
                   Number(Append(s, m), PiecesOf(f)) = Number(s, PiecesOf(f))
  <2>1. Number(Append(s, m), PiecesOf(f)) = Number(s, PiecesOf(f)) + IF m \in PiecesOf(f) THEN 1 ELSE 0
    BY Sent
  <2>2. m \in PiecesOf(f) <=> m.k = "block" /\ m.f = f
    BY DownKinds
  <2> QED BY <1>1, <2>1, <2>2
<1> QED BY <1>1, <1>2, <1>3

LEMMA CountTypes ==
    ASSUME DlInv, DlBounds, NEW f \in Nat
    PROVE  /\ Held(f) \in Nat /\ Under(f) \in Nat /\ SentOf(f) \in 0 .. Blocks
           /\ Held(f) + Under(f) <= SentOf(f)
           /\ cur \in Nat /\ memBuf \in Nat /\ writable.n \in Int /\ writable.n >= Failed
           /\ chain \in Seq(FromMsgs) /\ fromPeer \in Seq(FromMsgs)
           /\ sender.f \in Nat /\ sender.n \in Int /\ Blocks \in Nat
<1>1. /\ dlFiles \in Nat /\ cur \in 0 .. dlFiles /\ memBuf \in Nat /\ writable \in [f : 0 .. dlFiles, n : Int]
      /\ sender.f \in 0 .. dlFiles + 1 /\ sender.n \in Int
  BY DlQueues DEF DlTypes
<1>2. /\ writable.n \in Int /\ writable.n >= Failed /\ cur \in Nat /\ sender.f \in Nat
      /\ sender.n <= Blocks /\ Blocks \in Nat
  BY <1>1, DownloadAssumption DEF DlBounds, Shapes, Failed
<1>3. Under(f) \in Nat
  <2>1. Number(chain, PiecesOf(f)) \in Nat /\ Number(fromPeer, PiecesOf(f)) \in Nat
    BY DlQueues
  <2> QED BY <2>1 DEF Under
<1>4. Held(f) \in Nat
  BY <1>1, <1>2 DEF Held, Failed
<1>5. SentOf(f) \in 0 .. Blocks
  BY <1>1, <1>2 DEF SentOf
<1>6. Held(f) + Under(f) <= SentOf(f)
  BY DEF DlBounds
<1> QED BY <1>1, <1>2, <1>3, <1>4, <1>5, <1>6, DlQueues

\* A step of the page: what it holds and what is under way do not grow together.
LEMMA PageBounds ==
    ASSUME DlInv, DlBounds, UNCHANGED <<dlFiles, sender>>, Shapes',
           \A f \in Nat : Held(f)' + Under(f)' <= Held(f) + Under(f),
           \A f \in Nat : Held(f)' + Under(f)' \in Int
    PROVE  DlBounds'
<1>1. ASSUME NEW f \in Nat PROVE Held(f)' + Under(f)' <= SentOf(f)'
  <2>1. SentOf(f)' = SentOf(f)
    BY DEF SentOf
  <2>2. /\ Held(f) + Under(f) \in Int /\ SentOf(f) \in Int
        /\ Held(f) + Under(f) <= SentOf(f)
    BY CountTypes
  <2> DEFINE new == Held(f)' + Under(f)'
             old == Held(f) + Under(f)
  <2>3. new \in Int /\ new <= old
    OBVIOUS
  <2> HIDE DEF new, old
  <2>4. new <= SentOf(f)
    BY <2>2, <2>3 DEF old
  <2> QED BY <2>1, <2>4 DEF new
<1> QED BY <1>1 DEF DlBounds, Unsent

\* Where the page's tasks stand still.
LEMMA QueuesRest ==
    ASSUME UNCHANGED <<chain, fromPeer>> PROVE \A f \in Nat : Under(f)' = Under(f)
BY DEF Under

\* What is held of a file is given up, or stays.
LEMMA HeldLess ==
    ASSUME DlInv, DlBounds, UNCHANGED <<dlFiles, sender>>, Shapes',
           \A f \in Nat : Under(f)' \in Nat /\ Under(f)' <= Under(f),
           \A f \in Nat : Held(f)' = 0 \/ Held(f)' = Held(f)
    PROVE  DlBounds'
<1>1. ASSUME NEW f \in Nat
      PROVE  Held(f)' + Under(f)' \in Int /\ Held(f)' + Under(f)' <= Held(f) + Under(f)
  <2>1. Held(f) \in Nat /\ Under(f) \in Nat
    BY CountTypes
  <2>2. Under(f)' \in Nat /\ Under(f)' <= Under(f) /\ (Held(f)' = 0 \/ Held(f)' = Held(f))
    BY <1>1
  <2> DEFINE h == Held(f)'
             u == Under(f)'
  <2> HIDE DEF h, u
  <2>3. h + u \in Int /\ h + u <= Held(f) + Under(f)
    BY <2>1, <2>2 DEF h, u
  <2> QED BY <2>3 DEF h, u
<1> QED BY <1>1, PageBounds

\* The first task is done with.
LEMMA TaskDone ==
    ASSUME DlInv, DlBounds, chain # <<>>, chain' = Tail(chain), fromPeer' = fromPeer, NEW f \in Nat
    PROVE  /\ Under(f)' \in Nat /\ Under(f)' <= Under(f)
           /\ Head(chain).k = "block" /\ Head(chain).f = f => Under(f) = Under(f)' + 1
<1> DEFINE a == Number(chain, PiecesOf(f))
           b == Number(fromPeer, PiecesOf(f))
           c == Number(Tail(chain), PiecesOf(f))
<1>1. chain \in Seq(FromMsgs) /\ fromPeer \in Seq(FromMsgs)
  BY DlQueues
<1>2. /\ a \in Nat /\ b \in Nat /\ c \in Nat
      /\ Head(chain).k = "block" /\ Head(chain).f = f => a = c + 1
      /\ ~(Head(chain).k = "block" /\ Head(chain).f = f) => a = c
  BY <1>1, PiecesCounted
<1>3. Under(f) = a + b /\ Under(f)' = c + b
  BY DEF Under
<1> HIDE DEF a, b, c
<1> QED BY <1>2, <1>3

\* Closing gives up what is held, and leaves no stream.
LEMMA ClosedHolds ==
    ASSUME NEW commit, CloseJobFile(commit)
    PROVE  /\ \A f \in Nat : Held(f)' = 0
           /\ writable'.n >= Failed /\ writable'.f = 0 /\ writable'.n = 0
BY DEF CloseJobFile, Held, NoStream, Failed

LEMMA BoundsBegun ==
    ASSUME DlInv, DlBounds, BeginTask
    PROVE  DlBounds'
<1>1. /\ UNCHANGED <<dlFiles, sender, fromPeer>> /\ chain # <<>> /\ ~writing
      /\ \A f \in Nat : Under(f) \in Nat
  BY CountTypes DEF BeginTask
<1> DEFINE t == Head(chain)
<1>2. CASE t.k \in {"block", "eof"} /\ cur # t.f
  <2>1. CloseJobFile(TRUE) /\ chain' = chain /\ writing' = writing
    BY <1>2 DEF BeginTask
  <2>2. Shapes' /\ \A f \in Nat : Held(f)' = 0
    BY <1>1, <2>1, ClosedHolds DEF Shapes
  <2>3. \A f \in Nat : Under(f)' = Under(f)
    BY <1>1, <2>1, QueuesRest
  <2> QED BY <1>1, <2>2, <2>3, HeldLess
<1>3. CASE t.k = "block" /\ cur = t.f /\ writable.f # 0
  <2>1. /\ writing' = TRUE /\ UNCHANGED <<chain, memBuf, cur, writable>>
    BY <1>3 DEF BeginTask
  <2>2. Shapes' /\ \A f \in Nat : Held(f)' = Held(f)
    BY <1>3, <2>1 DEF DlBounds, Shapes, Held
  <2>3. \A f \in Nat : Under(f)' = Under(f)
    BY <1>1, <2>1, QueuesRest
  <2> QED BY <1>1, <2>2, <2>3, HeldLess
<1>4. CASE t.k = "block" /\ cur = t.f /\ writable.f = 0
  <2>1. /\ memBuf' = memBuf + 1 /\ chain' = Tail(chain) /\ ~writing'
        /\ UNCHANGED <<cur, writable>>
    BY <1>4 DEF BeginTask, TaskEnds
  <2>2. Shapes'
    BY <2>1 DEF DlBounds, Shapes
  <2>3. ASSUME NEW f \in Nat
        PROVE  Held(f)' + Under(f)' \in Int /\ Held(f)' + Under(f)' <= Held(f) + Under(f)
    <3>1. /\ Held(f) \in Nat /\ memBuf \in Nat /\ writable.n \in Int /\ writable.n >= Failed
          /\ Under(f) \in Nat
      BY CountTypes
    <3>2. /\ Under(f)' \in Nat /\ Under(f)' <= Under(f)
          /\ cur = f => Under(f) = Under(f)' + 1
      BY <1>1, <1>4, <2>1, TaskDone
    <3>3. Held(f)' = IF f = cur THEN Held(f) + 1 ELSE Held(f)
      BY <2>1, <3>1 DEF Held, Failed
    <3> DEFINE h == Held(f)'
               u == Under(f)'
    <3> HIDE DEF h, u
    <3>4. h + u \in Int /\ h + u <= Held(f) + Under(f)
      BY <3>1, <3>2, <3>3 DEF h, u
    <3> QED BY <3>4 DEF h, u
  <2> QED BY <1>1, <2>2, <2>3, PageBounds
<1>5. CASE t.k = "done" \/ (t.k = "eof" /\ cur = t.f)
  <2>1. CloseJobFile(TRUE) /\ chain' = Tail(chain) /\ ~writing'
    BY <1>5 DEF BeginTask, TaskEnds
  <2>2. Shapes' /\ \A f \in Nat : Held(f)' = 0
    BY <2>1, ClosedHolds DEF Shapes
  <2>3. \A f \in Nat : Under(f)' \in Nat /\ Under(f)' <= Under(f)
    BY <1>1, <2>1, TaskDone
  <2> QED BY <1>1, <2>2, <2>3, HeldLess
<1> QED BY <1>2, <1>3, <1>4, <1>5 DEF BeginTask

LEMMA BoundsOpened ==
    ASSUME DlInv, DlBounds, Opened
    PROVE  DlBounds'
<1>1. /\ UNCHANGED <<dlFiles, sender, fromPeer, chain, writing, cur, memBuf>>
      /\ writable' = [f |-> cur, n |-> 0]
  BY DEF Opened
<1>2. Shapes'
  BY <1>1 DEF DlBounds, Shapes, Failed
<1>3. \A f \in Nat : Under(f)' = Under(f)
  BY <1>1, QueuesRest
<1>4. ASSUME NEW f \in Nat
      PROVE  Held(f)' + Under(f)' \in Int /\ Held(f)' + Under(f)' <= Held(f) + Under(f)
  <2>1. /\ Held(f) \in Nat /\ Under(f) \in Nat /\ memBuf \in Nat
        /\ writable.n \in Int /\ writable.n >= Failed
    BY CountTypes
  <2>2. Held(f)' \in Nat /\ Held(f)' <= Held(f)
    BY <1>1, <2>1 DEF Held, Failed
  <2>3. Under(f)' = Under(f)
    BY <1>3
  <2> DEFINE h == Held(f)'
             u == Under(f)'
  <2> HIDE DEF h, u
  <2>4. h + u \in Int /\ h + u <= Held(f) + Under(f)
    BY <2>1, <2>2, <2>3 DEF h, u
  <2> QED BY <2>4 DEF h, u
<1> QED BY <1>1, <1>2, <1>4, PageBounds

LEMMA BoundsWritten ==
    ASSUME DlInv, DlBounds, Written
    PROVE  DlBounds'
<1>1. /\ UNCHANGED <<dlFiles, sender, fromPeer, cur, memBuf>>
      /\ writing /\ writable.f # 0 /\ writable.n # Failed /\ ~writing'
      /\ chain' = Tail(chain) /\ chain # <<>>
      /\ writable' = [writable EXCEPT !.n = @ + 1]
  BY DlQueues DEF Written, TaskEnds, DlTypes
<1>2. /\ writable \in [f : 0 .. dlFiles, n : Int] /\ writable.n >= Failed
      /\ Head(chain).k = "block" /\ Head(chain).f = cur /\ writable.f = cur
  BY <1>1, DlQueues DEF DlTypes, DlBounds, Shapes
<1>3. writable'.f = writable.f /\ writable'.n = writable.n + 1 /\ writable.n \in Nat
  BY <1>1, <1>2 DEF Failed
<1>4. Shapes'
  BY <1>1, <1>2, <1>3 DEF Shapes, Failed
<1>5. ASSUME NEW f \in Nat
      PROVE  Held(f)' + Under(f)' \in Int /\ Held(f)' + Under(f)' <= Held(f) + Under(f)
  <2>1. Held(f) \in Nat /\ Under(f) \in Nat /\ memBuf \in Nat
    BY CountTypes
  <2>2. /\ Under(f)' \in Nat /\ Under(f)' <= Under(f)
        /\ cur = f => Under(f) = Under(f)' + 1
    BY <1>1, <1>2, TaskDone
  <2>3. Held(f)' = IF f = cur THEN Held(f) + 1 ELSE Held(f)
    BY <1>1, <1>3, <2>1 DEF Held, Failed
  <2> DEFINE h == Held(f)'
             u == Under(f)'
  <2> HIDE DEF h, u
  <2>4. h + u \in Int /\ h + u <= Held(f) + Under(f)
    BY <2>1, <2>2, <2>3 DEF h, u
  <2> QED BY <2>4 DEF h, u
<1> QED BY <1>1, <1>4, <1>5, PageBounds

LEMMA BoundsFailed ==
    ASSUME DlInv, DlBounds, LocalFileFails
    PROVE  DlBounds'
<1>1. /\ UNCHANGED <<dlFiles, sender, fromPeer, cur, memBuf>> /\ ~writing'
      /\ chain # <<>> /\ chain' = Tail(chain)
      /\ writable' = IF writable.f = 0 THEN writable ELSE [writable EXCEPT !.n = Failed]
  BY DlQueues DEF LocalFileFails, TaskEnds, DlTypes
<1>2. /\ writable \in [f : 0 .. dlFiles, n : Int] /\ writable.n >= Failed
      /\ writable.f # 0 => writable.f = cur
      /\ writable.f = 0 => writable.n = 0
  BY DlQueues DEF DlTypes, DlBounds, Shapes
<1>3. /\ writable'.f = writable.f
      /\ writable'.n = writable.n \/ (writable.f # 0 /\ writable'.n = Failed)
  BY <1>1, <1>2
<1>4. Shapes'
  BY <1>1, <1>2, <1>3 DEF Shapes, Failed
<1>5. ASSUME NEW f \in Nat
      PROVE  Held(f)' + Under(f)' \in Int /\ Held(f)' + Under(f)' <= Held(f) + Under(f)
  <2>1. Held(f) \in Nat /\ Under(f) \in Nat /\ memBuf \in Nat /\ writable.n \in Int
    BY CountTypes
  <2>2. Under(f)' \in Nat /\ Under(f)' <= Under(f)
    BY <1>1, TaskDone
  <2>3. Held(f)' \in Nat /\ Held(f)' <= Held(f)
    BY <1>1, <1>2, <1>3, <2>1 DEF Held, Failed
  <2> DEFINE h == Held(f)'
             u == Under(f)'
  <2> HIDE DEF h, u
  <2>4. h + u \in Int /\ h + u <= Held(f) + Under(f)
    BY <2>1, <2>2, <2>3 DEF h, u
  <2> QED BY <2>4 DEF h, u
<1> QED BY <1>1, <1>4, <1>5, PageBounds

\* A message is handled: it joins the tasks, or is dropped.
LEMMA PassedOn ==
    ASSUME DlInv, DlBounds, fromPeer # <<>>, fromPeer' = Tail(fromPeer),
           chain' \in {chain, Append(chain, Head(fromPeer))}, NEW f \in Nat
    PROVE  Under(f)' \in Nat /\ Under(f)' <= Under(f)
<1> DEFINE a == Number(chain, PiecesOf(f))
           b == Number(fromPeer, PiecesOf(f))
           c == Number(Tail(fromPeer), PiecesOf(f))
           d == Number(Append(chain, Head(fromPeer)), PiecesOf(f))
<1>1. chain \in Seq(FromMsgs) /\ fromPeer \in Seq(FromMsgs) /\ Head(fromPeer) \in FromMsgs
  BY DlQueues, Taken
<1>2. /\ a \in Nat /\ b \in Nat /\ c \in Nat
      /\ (b = c + 1 /\ d = a + 1) \/ (b = c /\ d = a)
  BY <1>1, PiecesCounted
<1>3. Under(f) = a + b /\ (Under(f)' = a + c \/ Under(f)' = d + c)
  BY DEF Under
<1> HIDE DEF a, b, c, d
<1> QED BY <1>2, <1>3

\* A task that is being done stays the first.
LEMMA FirstTaskStays ==
    ASSUME DlInv, fromPeer # <<>>, chain' \in {chain, Append(chain, Head(fromPeer))}, writing
    PROVE  Head(chain') = Head(chain)
<1>1. /\ chain \in Seq(FromMsgs) /\ fromPeer \in Seq(FromMsgs) /\ Head(fromPeer) \in FromMsgs
      /\ chain # <<>>
  BY DlQueues, Taken DEF DlTypes
<1> QED BY <1>1, FirstStays

LEMMA BoundsReceived ==
    ASSUME DlInv, DlBounds, Received
    PROVE  DlBounds'
<1>1. /\ UNCHANGED <<dlFiles, sender>> /\ fromPeer # <<>> /\ fromPeer' = Tail(fromPeer)
      /\ chain' \in {chain, Append(chain, Head(fromPeer))} /\ writing' = writing /\ cur' = cur
      /\ UNCHANGED <<memBuf, writable>> \/ CloseJobFile(FALSE)
  BY DEF Received, StopAs, dlLocal
<1>2. \A f \in Nat : Under(f)' \in Nat /\ Under(f)' <= Under(f)
  BY <1>1, PassedOn
<1>3. writing => Head(chain') = Head(chain)
  BY <1>1, FirstTaskStays
<1>4. CASE UNCHANGED <<memBuf, writable>>
  <2>1. Shapes' /\ \A f \in Nat : Held(f)' = Held(f)
    BY <1>1, <1>3, <1>4 DEF DlBounds, Shapes, Held
  <2> QED BY <1>1, <1>2, <2>1, HeldLess
<1>5. CASE CloseJobFile(FALSE)
  <2>1. Shapes' /\ \A f \in Nat : Held(f)' = 0
    BY <1>1, <1>3, <1>5, ClosedHolds DEF DlBounds, Shapes
  <2> QED BY <1>1, <1>2, <2>1, HeldLess
<1> QED BY <1>1, <1>4, <1>5

LEMMA BoundsCancelled ==
    ASSUME DlInv, DlBounds, NEW answering, Cancel(answering)
    PROVE  DlBounds'
<1>1. /\ UNCHANGED <<dlFiles, sender, chain, fromPeer, writing, cur>>
      /\ UNCHANGED <<memBuf, writable>> \/ CloseJobFile(FALSE)
  BY DEF Cancel, StopAs, dlLocal
<1>2. \A f \in Nat : Under(f)' \in Nat /\ Under(f)' <= Under(f)
  BY <1>1, QueuesRest, CountTypes
<1>3. CASE UNCHANGED <<memBuf, writable>>
  <2>1. Shapes' /\ \A f \in Nat : Held(f)' = Held(f)
    BY <1>1, <1>3 DEF DlBounds, Shapes, Held
  <2> QED BY <1>1, <1>2, <2>1, HeldLess
<1>4. CASE CloseJobFile(FALSE)
  <2>1. Shapes' /\ \A f \in Nat : Held(f)' = 0
    BY <1>1, <1>4, ClosedHolds DEF DlBounds, Shapes
  <2> QED BY <1>1, <1>2, <2>1, HeldLess
<1> QED BY <1>1, <1>3, <1>4

\* A step of the device: what the page holds stays, and so does what is written.
LEMMA DeviceBounds ==
    ASSUME DlInv, DlBounds, UNCHANGED <<dlFiles, writing, cur, memBuf, writable, chain>>,
           sender'.n \in Failed .. Blocks, Unsent',
           \A f \in Nat : Held(f) + Under(f)' <= SentOf(f)'
    PROVE  DlBounds'
<1>1. Shapes'
  BY DEF DlBounds, Shapes
<1>2. \A f \in Nat : Held(f)' = Held(f)
  BY DEF Held
<1> QED BY <1>1, <1>2 DEF DlBounds

LEMMA BoundsCut ==
    ASSUME DlInv, DlBounds, ChannelLost
    PROVE  DlBounds'
<1>1. /\ dlFiles' = dlFiles /\ fromPeer' = <<>> /\ UNCHANGED <<chain, writing, cur>>
      /\ sender' = [sender EXCEPT !.k = "over"]
      /\ UNCHANGED <<memBuf, writable>> \/ CloseJobFile(FALSE)
  BY DEF ChannelLost, StopAs, dlLocal
<1>2. sender'.f = sender.f /\ sender'.n = sender.n /\ Unsent'
  BY <1>1, DlQueues DEF DlTypes, Unsent
<1>3. ASSUME NEW f \in Nat PROVE Under(f)' \in Nat /\ Under(f)' <= Under(f) /\ SentOf(f)' = SentOf(f)
  <2>1. Number(chain, PiecesOf(f)) \in Nat /\ Number(fromPeer, PiecesOf(f)) \in Nat
    BY DlQueues
  <2>2. Number(fromPeer', PiecesOf(f)) = 0
    BY <1>1, EmptyQueue
  <2>3. Under(f)' = Number(chain, PiecesOf(f)) + 0
    BY <1>1, <2>2 DEF Under
  <2>4. SentOf(f)' = SentOf(f)
    BY <1>2 DEF SentOf
  <2> QED BY <2>1, <2>3, <2>4 DEF Under
<1>4. Shapes' /\ \A f \in Nat : Held(f)' = 0 \/ Held(f)' = Held(f)
  <2>1. CASE UNCHANGED <<memBuf, writable>>
    BY <1>1, <2>1 DEF DlBounds, Shapes, Held
  <2>2. CASE CloseJobFile(FALSE)
    BY <1>1, <2>2, ClosedHolds DEF DlBounds, Shapes
  <2> QED BY <1>1, <2>1, <2>2
<1>5. ASSUME NEW f \in Nat PROVE Held(f)' + Under(f)' <= SentOf(f)'
  <2>1. /\ Held(f) \in Nat /\ Under(f) \in Nat /\ SentOf(f) \in 0 .. Blocks
        /\ Held(f) + Under(f) <= SentOf(f) /\ Blocks \in Nat
    BY CountTypes
  <2>2. /\ Under(f)' \in Nat /\ Under(f)' <= Under(f) /\ SentOf(f)' = SentOf(f)
        /\ Held(f)' = 0 \/ Held(f)' = Held(f)
    BY <1>3, <1>4
  <2> DEFINE h == Held(f)'
             u == Under(f)'
  <2> HIDE DEF h, u
  <2>3. h + u <= SentOf(f)
    BY <2>1, <2>2 DEF h, u
  <2> QED BY <2>2, <2>3 DEF h, u
<1> QED BY <1>1, <1>2, <1>4, <1>5 DEF DlBounds

\* One more message is under way.
LEMMA UnderGrows ==
    ASSUME DlInv, NEW m \in FromMsgs, chain' = chain, fromPeer' = Append(fromPeer, m), NEW f \in Nat
    PROVE  Under(f)' = IF m.k = "block" /\ m.f = f THEN Under(f) + 1 ELSE Under(f)
<1>1. chain \in Seq(FromMsgs) /\ fromPeer \in Seq(FromMsgs)
  BY DlQueues
<1> DEFINE a == Number(chain, PiecesOf(f))
           b == Number(fromPeer, PiecesOf(f))
           c == Number(Append(fromPeer, m), PiecesOf(f))
<1>2. /\ a \in Nat /\ b \in Nat
      /\ c = IF m.k = "block" /\ m.f = f THEN b + 1 ELSE b
  BY <1>1, PiecesCounted
<1>3. Under(f) = a + b /\ Under(f)' = a + c
  BY DEF Under
<1> HIDE DEF a, b, c
<1> QED BY <1>2, <1>3

LEMMA BoundsSent ==
    ASSUME DlInv, DlBounds, PeerSendsFile
    PROVE  DlBounds'
<1>1. UNCHANGED <<dlFiles, writing, cur, memBuf, writable, chain>>
  BY DEF PeerSendsFile, dlLocal
<1>2. /\ sender \in [k : {"listing", "announcing", "awaiting", "sent", "over"},
                     f : 0 .. dlFiles + 1, n : Int]
      /\ dlFiles \in Nat /\ Blocks \in Nat /\ Failed = -1
      /\ sender.n \in Failed .. Blocks /\ Unsent
      /\ sender.k = "sent" => sender.n \in 0 .. Blocks /\ sender.f \in DlFiles
      /\ sender.k = "listing" => sender.f = 0
  BY DlQueues, DownloadAssumption DEF DlTypes, DlBounds, Failed, Starting
<1>3. ASSUME NEW m \in FromMsgs, m.k # "block", fromPeer' = Append(fromPeer, m),
             sender'.n \in Failed .. Blocks, Unsent',
             \A f \in Nat : SentOf(f)' \in Nat /\ SentOf(f) <= SentOf(f)'
      PROVE  DlBounds'
  <2>1. ASSUME NEW f \in Nat PROVE Held(f) + Under(f)' <= SentOf(f)'
    <3>1. /\ Held(f) \in Nat /\ Under(f) \in Nat /\ SentOf(f) \in 0 .. Blocks
          /\ Held(f) + Under(f) <= SentOf(f)
      BY CountTypes
    <3>2. Under(f)' = Under(f)
      BY <1>1, <1>3, UnderGrows
    <3> DEFINE w == SentOf(f)'
    <3>3. w \in Nat /\ SentOf(f) <= w
      BY <1>3
    <3> HIDE DEF w
    <3>4. Held(f) + Under(f) <= w
      BY <1>2, <3>1, <3>3
    <3> QED BY <3>2, <3>4 DEF w
  <2> QED BY <1>1, <1>3, <2>1, DeviceBounds
<1>4. CASE /\ sender.k \in {"listing", "announcing", "awaiting", "sent"}
           /\ \/ sender.k = "announcing" /\ sender' = [sender EXCEPT !.k = "awaiting"]
              \/ sender' = [sender EXCEPT !.k = "over"]
           /\ \E m \in FromMsgs : m.k # "block" /\ fromPeer' = Append(fromPeer, m)
  <2>1. sender'.f = sender.f /\ sender'.n = sender.n /\ Unsent'
    BY <1>2, <1>4 DEF Unsent
  <2>2. ASSUME NEW f \in Nat PROVE SentOf(f)' \in Nat /\ SentOf(f) <= SentOf(f)'
    <3>1. SentOf(f)' = SentOf(f) /\ SentOf(f) \in 0 .. Blocks
      BY <2>1, CountTypes DEF SentOf
    <3> QED BY <1>2, <3>1
  <2> QED BY <1>2, <1>3, <1>4, <2>1, <2>2
<1>5. CASE /\ sender.k = "listing" \/ (sender.k = "sent" /\ sender.n = Blocks)
           /\ sender' = NextFile(sender.f)
           /\ \E m \in FromMsgs : m.k # "block" /\ fromPeer' = Append(fromPeer, m)
  <2>1. /\ sender'.f = sender.f + 1 /\ sender'.n = 0 /\ Unsent'
        /\ sender.f \in Nat /\ 0 \in Failed .. Blocks
    BY <1>2, <1>5 DEF NextFile, Unsent
  <2>2. ASSUME NEW f \in Nat PROVE SentOf(f)' \in Nat /\ SentOf(f) <= SentOf(f)'
    <3>1. SentOf(f)' = IF f < sender.f + 1 THEN Blocks ELSE 0
      BY <2>1 DEF SentOf
    <3>2. SentOf(f) = IF f < sender.f THEN Blocks
                      ELSE IF f = sender.f /\ sender.n > 0 THEN sender.n ELSE 0
      BY DEF SentOf
    <3>3. sender.n \in Int /\ sender.n <= Blocks
      BY <1>2
    <3> DEFINE w == SentOf(f)'
    <3> HIDE DEF w
    <3>4. w \in Nat /\ SentOf(f) <= w
      BY <1>2, <2>1, <3>1, <3>2, <3>3 DEF w
    <3> QED BY <3>4 DEF w
  <2> QED BY <1>3, <1>5, <2>1, <2>2
<1>6. CASE /\ sender.k = "sent" /\ sender.n < Blocks
           /\ fromPeer' = Append(fromPeer, [k |-> "block", f |-> sender.f])
           /\ sender' = [sender EXCEPT !.n = @ + 1]
  <2>1. /\ sender'.f = sender.f /\ sender'.n = sender.n + 1 /\ sender.n \in 0 .. Blocks
        /\ sender'.n \in Failed .. Blocks /\ sender.f \in Nat /\ Unsent'
    BY <1>2, <1>6 DEF Unsent
  <2>2. ASSUME NEW f \in Nat PROVE Held(f) + Under(f)' <= SentOf(f)'
    <3>1. /\ Held(f) \in Nat /\ Under(f) \in Nat /\ SentOf(f) \in 0 .. Blocks
          /\ Held(f) + Under(f) <= SentOf(f)
      BY CountTypes
    <3>2. [k |-> "block", f |-> sender.f] \in FromMsgs
      BY <2>1 DEF FromMsgs, FromKinds
    <3>3. Under(f)' = IF f = sender.f THEN Under(f) + 1 ELSE Under(f)
      BY <1>1, <1>6, <3>2, UnderGrows
    <3>4. SentOf(f)' = IF f = sender.f THEN SentOf(f) + 1 ELSE SentOf(f)
      BY <2>1, <3>1, <1>2 DEF SentOf
    <3> DEFINE w == SentOf(f)'
               u == Under(f)'
    <3> HIDE DEF w, u
    <3>5. Held(f) + u <= w
      BY <1>2, <3>1, <3>3, <3>4 DEF w, u
    <3> QED BY <3>5 DEF w, u
  <2> QED BY <1>1, <2>1, <2>2, DeviceBounds
<1>7. \A k \in FromKinds, f \in Nat : [k |-> k, f |-> f] \in FromMsgs
  BY DEF FromMsgs
<1>8. sender.f \in Nat
  BY <1>2
<1>9. CASE sender.k = "listing" /\ fromPeer' = Append(fromPeer, [k |-> "dir", f |-> 0])
           /\ sender' = NextFile(0)
  BY <1>2, <1>5, <1>7, <1>9 DEF FromKinds
<1>10. CASE sender.k = "announcing" /\ fromPeer' = Append(fromPeer, [k |-> "digest", f |-> sender.f])
            /\ sender' = [sender EXCEPT !.k = "awaiting"]
  BY <1>4, <1>7, <1>8, <1>10 DEF FromKinds
<1>11. CASE /\ sender.k = "announcing"
            /\ fromPeer' = Append(fromPeer,
                  [k |-> IF dlFiles = 1 /\ sender.n < 0 THEN "skipped" ELSE "done", f |-> 0])
            /\ sender' = [sender EXCEPT !.k = "over"]
  BY <1>4, <1>7, <1>11 DEF FromKinds
<1>12. CASE /\ sender.k = "sent" /\ sender.n = Blocks
            /\ fromPeer' = Append(fromPeer, [k |-> "eof", f |-> sender.f])
            /\ sender' = NextFile(sender.f)
  BY <1>5, <1>7, <1>8, <1>12 DEF FromKinds
<1>13. CASE sender.k # "over" /\ fromPeer' = Append(fromPeer, [k |-> "error", f |-> 0])
            /\ sender' = [sender EXCEPT !.k = "over"]
  BY <1>2, <1>4, <1>7, <1>13 DEF FromKinds
<1> QED BY <1>6, <1>9, <1>10, <1>11, <1>12, <1>13 DEF PeerSendsFile

LEMMA BoundsHeard ==
    ASSUME DlInv, DlBounds, PeerHears
    PROVE  DlBounds'
<1> DEFINE m == Head(toPeer)
<1>1. /\ UNCHANGED <<dlFiles, writing, cur, memBuf, writable, chain, fromPeer>>
      /\ toPeer # <<>> /\ toPeer \in Seq(ToMsgs)
  BY DlQueues DEF PeerHears, dlLocal
<1>2. /\ m \in ToMsgs /\ m.k \in {"cancel", "skip", "overwrite"} /\ m.f \in Nat
      /\ m \in Range(toPeer)
      /\ Number(toPeer, Words) = Number(Tail(toPeer), Words) + IF m \in Words THEN 1 ELSE 0
      /\ Number(Tail(toPeer), Words) \in Nat
  <2>1. /\ m \in ToMsgs /\ Tail(toPeer) \in Seq(ToMsgs)
        /\ Range(toPeer) = {m} \cup Range(Tail(toPeer))
        /\ Number(toPeer, Words) = Number(Tail(toPeer), Words) + IF m \in Words THEN 1 ELSE 0
    BY <1>1, Taken
  <2>2. Number(Tail(toPeer), Words) \in Nat
    BY <2>1, NumberType
  <2> QED BY <2>1, <2>2 DEF ToMsgs
<1>3. /\ sender \in [k : {"listing", "announcing", "awaiting", "sent", "over"},
                     f : 0 .. dlFiles + 1, n : Int]
      /\ dlFiles \in Nat /\ Blocks \in Nat /\ Failed = -1
      /\ sender.n \in Failed .. Blocks /\ Unsent
  BY DlQueues, DownloadAssumption DEF DlTypes, DlBounds, Failed
<1>4. \A f \in Nat : Under(f)' = Under(f)
  BY <1>1, QueuesRest
<1>5. ASSUME sender'.n \in Failed .. Blocks, Unsent',
             \A f \in Nat : SentOf(f)' \in Nat /\ SentOf(f) <= SentOf(f)'
      PROVE  DlBounds'
  <2>1. ASSUME NEW f \in Nat PROVE Held(f) + Under(f)' <= SentOf(f)'
    <3>1. /\ Held(f) \in Nat /\ Under(f) \in Nat /\ SentOf(f) \in 0 .. Blocks
          /\ Held(f) + Under(f) <= SentOf(f)
      BY CountTypes
    <3> DEFINE w == SentOf(f)'
    <3>2. w \in Nat /\ SentOf(f) <= w
      BY <1>5
    <3> HIDE DEF w
    <3>3. Held(f) + Under(f) <= w
      BY <1>3, <3>1, <3>2
    <3> QED BY <1>4, <3>3 DEF w
  <2> QED BY <1>1, <1>5, <2>1, DeviceBounds
<1>6. CASE sender.k = "over" \/ m.k = "cancel"
  <2>1. sender'.f = sender.f /\ sender'.n = sender.n /\ (sender'.k = "over")
    BY <1>3, <1>6 DEF PeerHears
  <2>2. ASSUME NEW f \in Nat PROVE SentOf(f)' \in Nat /\ SentOf(f) <= SentOf(f)'
    <3>1. SentOf(f)' = SentOf(f) /\ SentOf(f) \in 0 .. Blocks
      BY <2>1, CountTypes DEF SentOf
    <3> QED BY <1>3, <3>1
  <2> QED BY <1>3, <1>5, <2>1, <2>2 DEF Unsent
<1>7. CASE sender.k # "over" /\ m.k # "cancel"
  <2>1. m \in Words /\ Pending # 0
    <3>1. m \in Words
      BY <1>2, <1>7, DownKinds
    <3>2. Number(fromPeer, Digests) \in Nat /\ Number(toPeer, Words) >= 1 /\ Number(toPeer, Words) \in Nat
      BY <1>2, <3>1, DlQueues
    <3> QED BY <3>1, <3>2 DEF Pending
  <2>2. sender.k = "awaiting" /\ m.f = sender.f
    BY <1>2, <1>7, <2>1, DlQueues DEF Telling
  <2>3. sender.n <= 0 /\ sender.f \in Nat
    BY <1>3, <2>2 DEF Unsent
  <2>4. ASSUME NEW f \in Nat PROVE SentOf(f) = IF f < sender.f THEN Blocks ELSE 0
    BY <1>3, <2>3 DEF SentOf
  <2>5. CASE m.k = "skip"
    <3>1. /\ sender'.k = "announcing" /\ sender'.f = sender.f + 1 /\ sender'.n = -1
      BY <1>7, <2>2, <2>5 DEF PeerHears, NextFile
    <3>2. ASSUME NEW f \in Nat PROVE SentOf(f)' \in Nat /\ SentOf(f) <= SentOf(f)'
      <4>1. SentOf(f)' = IF f < sender.f + 1 THEN Blocks ELSE 0
        BY <3>1, <2>3 DEF SentOf
      <4> DEFINE w == SentOf(f)'
      <4> HIDE DEF w
      <4>2. w \in Nat /\ SentOf(f) <= w
        BY <1>3, <2>3, <2>4, <4>1 DEF w
      <4> QED BY <4>2 DEF w
    <3> QED BY <1>3, <1>5, <3>1, <3>2 DEF Unsent
  <2>6. CASE m.k = "overwrite"
    <3>1. /\ sender'.k = "sent" /\ sender'.f = sender.f /\ sender'.n = 0
      BY <1>7, <2>2, <2>6 DEF PeerHears
    <3>2. ASSUME NEW f \in Nat PROVE SentOf(f)' \in Nat /\ SentOf(f) <= SentOf(f)'
      <4>1. SentOf(f)' = IF f < sender.f THEN Blocks ELSE 0
        BY <3>1, <2>3 DEF SentOf
      <4> QED BY <1>3, <2>4, <4>1
    <3>3. 0 \in Failed .. Blocks
      BY <1>3
    <3> QED BY <1>5, <3>1, <3>2, <3>3 DEF Unsent
  <2> QED BY <1>2, <1>7, <2>5, <2>6
<1> QED BY <1>6, <1>7

LEMMA BoundsDecided ==
    ASSUME DlInv, DlBounds,
           UNCHANGED <<dlFiles, sender, chain, fromPeer, writing, cur, memBuf, writable>>
    PROVE  DlBounds'
<1>1. \A f \in Nat : Under(f)' \in Nat /\ Under(f)' <= Under(f)
  BY QueuesRest, CountTypes
<1>2. Shapes' /\ \A f \in Nat : Held(f)' = Held(f)
  BY DEF DlBounds, Shapes, Held
<1> QED BY <1>1, <1>2, HeldLess

LEMMA BoundsStart == DlInit => DlBounds
<1> SUFFICES ASSUME DlInit PROVE DlBounds
  OBVIOUS
<1>1. /\ dlFiles \in 1 .. MaxFiles /\ chain = <<>> /\ fromPeer = <<>> /\ ~writing
      /\ cur = 0 /\ writable = NoStream /\ memBuf = 0
      /\ sender = [k |-> "listing", f |-> 0, n |-> 0]
  BY DEF DlInit
<1>2. \A f \in Nat : Under(f) = 0
  BY <1>1, EmptyQueue DEF Under
<1>3. ASSUME NEW f \in Nat PROVE Held(f) = 0 /\ SentOf(f) = 0
  BY <1>1 DEF Held, SentOf, NoStream, Failed
<1>4. Shapes /\ Unsent
  BY <1>1 DEF Shapes, Unsent, NoStream, Failed
<1> QED BY <1>1, <1>2, <1>3, <1>4, DownloadAssumption DEF DlBounds, Failed

LEMMA BoundsKeep == DlInv /\ DlBounds /\ [DlNext]_dlVars => DlBounds'
<1> SUFFICES ASSUME DlInv, DlBounds, [DlNext]_dlVars PROVE DlBounds'
  OBVIOUS
<1>1. CASE BeginTask \/ Opened \/ Written \/ LocalFileFails
  BY <1>1, BoundsBegun, BoundsOpened, BoundsWritten, BoundsFailed
<1>2. CASE Received \/ (\E answering \in SUBSET digests : Cancel(answering))
  BY <1>2, BoundsReceived, BoundsCancelled
<1>3. CASE ChannelLost \/ PeerSendsFile \/ PeerHears
  BY <1>3, BoundsCut, BoundsSent, BoundsHeard
<1>4. CASE \/ UNCHANGED dlVars
           \/ \E d \in digests : \/ \E exists \in BOOLEAN : TargetLookedUp(d, exists)
                                 \/ \E action \in {"overwrite", "skip"}, applyAll \in BOOLEAN :
                                       Answered(d, action, applyAll)
  BY <1>4, BoundsDecided DEF dlVars, dlLocal, TargetLookedUp, Answered
<1> QED BY <1>1, <1>2, <1>3, <1>4 DEF DlNext

\* So no file is ever given more than the device has of it, stopped or not; and all
\* variables of a download have their types.
LEMMA DlTyped == DlInv /\ DlBounds => DlTypeOK
<1> SUFFICES ASSUME DlInv, DlBounds PROVE DlTypeOK
  OBVIOUS
<1>1. DlTypes /\ dlFiles \in 1 .. MaxFiles
  BY DlQueues, DownloadAssumption DEF DlTypes, DlBounds
<1>2. /\ Held(cur) \in Nat /\ Under(cur) \in Nat /\ SentOf(cur) \in 0 .. Blocks
      /\ Held(cur) + Under(cur) <= SentOf(cur)
      /\ memBuf \in Nat /\ writable.n \in Int /\ writable.n >= Failed /\ Blocks \in Nat
  <2>1. cur \in Nat
    BY <1>1 DEF DlTypes
  <2> QED BY <2>1, CountTypes
<1>3. Held(cur) <= Blocks
  BY <1>2
<1>4. memBuf <= Blocks /\ writable.n <= Blocks
  <2>1. Held(cur) = memBuf + (IF writable.n = Failed THEN 0 ELSE writable.n)
    BY DEF Held
  <2> QED BY <1>2, <1>3, <2>1 DEF Failed
<1>5. memBuf \in 0 .. Blocks /\ writable.n \in Failed .. Blocks
  BY <1>2, <1>4 DEF Failed
<1>6. writable \in [f : 0 .. dlFiles, n : Failed .. Blocks]
  BY <1>1, <1>5 DEF DlTypes
<1> QED BY <1>1, <1>5, <1>6 DEF DlTypes, DlTypeOK, Ended

-----------------------------------------------------------------------------
(* The voice call. *)

Requests == [owned : BOOLEAN, mine : BOOLEAN, session : BOOLEAN]

PageTypes ==
    /\ callState \in {"idle", "preparing", "waiting", "connected"}
    /\ preparing \subseteq Requests
    /\ stream \in BOOLEAN /\ pumping \in BOOLEAN

\* A microphone request that still belongs to the capture controller's epoch
\* belongs to the attempt and to the session as well, and to a call the page has
\* not given up.
AttemptIsCurrent ==
    \A p \in preparing :
        /\ p.owned = p.mine
        /\ p.mine => p.session /\ callState # "idle"

MicInv == PageTypes /\ AttemptIsCurrent /\ MicrophoneFollowsCall
-----------------------------------------------------------------------------
(* What the page does with its microphone. *)

\* After StopCapture nothing that is awaited is current any more.
LEMMA Stopped ==
    ASSUME MicInv, StopCapture
    PROVE  /\ preparing' \subseteq Requests
           /\ \A p \in preparing' : ~p.owned /\ ~p.mine
           /\ ~stream' /\ ~pumping'
BY Zenon DEF MicInv, PageTypes, StopCapture, Requests

LEMMA StoppedKeeps ==
    ASSUME MicInv, StopCapture, callState' = "idle"
    PROVE  MicInv'
<1>1. /\ preparing' \subseteq Requests
      /\ \A p \in preparing' : ~p.owned /\ ~p.mine
      /\ ~stream' /\ ~pumping'
  BY Stopped
<1>2. stream' \in BOOLEAN /\ pumping' \in BOOLEAN
  BY DEF StopCapture
<1>3. \A p \in preparing' : p.owned = p.mine
  BY <1>1, Zenon DEF Requests
<1> QED BY <1>1, <1>2, <1>3 DEF MicInv, PageTypes, AttemptIsCurrent, MicrophoneFollowsCall

LEMMA EndKeeps ==
    ASSUME MicInv, NEW sendClose \in BOOLEAN, EndVoiceCall(sendClose)
    PROVE  MicInv'
BY StoppedKeeps DEF EndVoiceCall

\* A new attempt is the only current one.
LEMMA ToggleKeeps ==
    ASSUME MicInv, ToggleVoiceCall
    PROVE  MicInv'
<1>1. CASE InProtocol
  BY <1>1, EndKeeps DEF ToggleVoiceCall
<1>2. CASE ~InProtocol
  <2> DEFINE stale == {[p EXCEPT !.mine = FALSE, !.owned = FALSE] : p \in preparing}
             new == [owned |-> TRUE, mine |-> TRUE, session |-> TRUE]
  <2>1. callState' = "preparing" /\ stream' = FALSE /\ pumping' = FALSE
        /\ preparing' = stale \cup {new}
    BY <1>2 DEF ToggleVoiceCall
  <2>2. \A p \in stale : p \in Requests /\ ~p.owned /\ ~p.mine
    BY DEF MicInv, PageTypes, Requests
  <2>3. new \in Requests /\ new.owned /\ new.mine /\ new.session
    BY DEF Requests
  <2>4. \A p \in preparing' : p \in Requests /\ p.owned = p.mine /\ (p.mine => p.session)
    BY <2>1, <2>2, <2>3 DEF Requests
  <2>5. PageTypes'
    BY <2>1, <2>4 DEF PageTypes
  <2> QED BY <2>1, <2>4, <2>5 DEF MicInv, AttemptIsCurrent, MicrophoneFollowsCall
<1> QED BY <1>1, <1>2

\* The answer of the browser: a stream is kept for the current attempt only, and
\* two current attempts would be one.
LEMMA PreparedKeeps ==
    ASSUME MicInv, NEW p \in preparing, NEW granted \in BOOLEAN, Prepared(p, granted)
    PROVE  MicInv'
<1>1. preparing' = preparing \ {p}
  BY DEF Prepared
<1>2. p \in Requests /\ p.owned = p.mine /\ (p.mine => p.session /\ callState # "idle")
  BY DEF MicInv, PageTypes, AttemptIsCurrent
<1>3. CASE ~p.owned \/ ~p.session \/ callState # "preparing"
  <2>1. stream' = (stream \/ (p.mine /\ granted)) /\ callState' = callState /\ pumping' = pumping
    BY <1>3 DEF Prepared
  <2>2. p.mine => callState \in {"waiting", "connected"}
    BY <1>2, <1>3 DEF MicInv, PageTypes
  <2>3. stream' \in BOOLEAN
    BY <2>1
  <2>4. MicrophoneFollowsCall'
    BY <2>1, <2>2 DEF MicInv, MicrophoneFollowsCall
  <2> QED BY <1>1, <2>1, <2>3, <2>4 DEF MicInv, PageTypes, AttemptIsCurrent
<1>4. CASE ~(~p.owned \/ ~p.session \/ callState # "preparing")
  <2>1. \A q \in preparing' : ~q.mine /\ ~q.owned
    <3>1. ASSUME NEW q \in preparing', q.mine
          PROVE  FALSE
      <4>1. q \in Requests /\ q.owned /\ q.session /\ q # p
        BY <1>1, <3>1 DEF MicInv, PageTypes, AttemptIsCurrent
      <4>2. p.owned /\ p.mine /\ p.session
        BY <1>2, <1>4
      <4> QED BY <1>2, <3>1, <4>1, <4>2 DEF Requests
    <3> QED BY <1>1, <3>1 DEF MicInv, AttemptIsCurrent
  <2>2. ~pumping
    BY <1>4 DEF MicInv, MicrophoneFollowsCall
  <2>3. \/ callState' = "waiting" /\ stream' = TRUE /\ pumping' = pumping
        \/ callState' = "idle" /\ stream' = FALSE /\ pumping' = FALSE
    BY <1>4 DEF Prepared
  <2>4. PageTypes'
    BY <1>1, <2>3 DEF MicInv, PageTypes
  <2>5. AttemptIsCurrent'
    BY <1>1, <2>1 DEF MicInv, AttemptIsCurrent
  <2>6. MicrophoneFollowsCall'
    BY <2>2, <2>3 DEF MicrophoneFollowsCall
  <2> QED BY <2>4, <2>5, <2>6 DEF MicInv
<1> QED BY <1>3, <1>4

\* The news of the session.
LEMMA NewsKeeps ==
    ASSUME MicInv, OnVoiceCall
    PROVE  MicInv'
<1> DEFINE news == Head(toPage)
<1>1. CASE news = "accepted" /\ stream /\ ~pumping
  <2>1. callState' = "connected" /\ pumping' = TRUE /\ stream' = stream /\ preparing' = preparing
    BY <1>1 DEF OnVoiceCall
  <2> QED BY <1>1, <2>1 DEF MicInv, PageTypes, AttemptIsCurrent, MicrophoneFollowsCall
<1>2. CASE news = "accepted" /\ ~(stream /\ ~pumping)
  BY <1>2, EndKeeps DEF OnVoiceCall
<1>3. CASE news = "waiting"
  <2>1. callState' = "waiting" /\ pumping' = pumping /\ stream' = stream /\ preparing' = preparing
    BY <1>3 DEF OnVoiceCall, captureVars
  <2> QED BY <2>1 DEF MicInv, PageTypes, AttemptIsCurrent, MicrophoneFollowsCall
<1>4. CASE news \in {"rejected", "closed"}
  BY <1>4, StoppedKeeps DEF OnVoiceCall
<1>5. CASE news = "audio off" /\ callState # "idle"
  BY <1>5, EndKeeps DEF OnVoiceCall
<1>6. CASE news \in {"audio on", "audio off"} /\ ~(news = "audio off" /\ callState # "idle")
  <2>1. callState' = callState /\ pumping' = pumping /\ stream' = stream /\ preparing' = preparing
    BY <1>6 DEF OnVoiceCall, captureVars
  <2> QED BY <2>1 DEF MicInv, PageTypes, AttemptIsCurrent, MicrophoneFollowsCall
<1>7. news \in {"accepted", "waiting", "rejected", "closed", "audio on", "audio off"}
  BY DEF OnVoiceCall
<1> QED BY <1>1, <1>2, <1>3, <1>4, <1>5, <1>6, <1>7

LEMMA EndOfSessionKeeps ==
    ASSUME MicInv, SessionEnds
    PROVE  MicInv'
<1> DEFINE dead == [owned |-> FALSE, mine |-> FALSE, session |-> FALSE]
<1>1. /\ callState' = "idle" /\ stream' = FALSE /\ pumping' = FALSE
      /\ preparing' = {dead : p \in preparing}
  BY DEF SessionEnds
<1>2. dead \in Requests /\ ~dead.owned /\ ~dead.mine
  BY DEF Requests
<1> HIDE DEF dead
<1>3. \A p \in preparing' : p = dead
  BY <1>1
<1>4. \A p \in preparing' : p \in Requests /\ ~p.owned /\ ~p.mine
  BY <1>2, <1>3
<1>5. \A p \in preparing' : p.owned = p.mine
  BY <1>4, Zenon DEF Requests
<1> QED BY <1>1, <1>4, <1>5 DEF MicInv, PageTypes, AttemptIsCurrent, MicrophoneFollowsCall
-----------------------------------------------------------------------------
LEMMA MicInit == VoiceInit => MicInv
BY DEF VoiceInit, MicInv, PageTypes, AttemptIsCurrent, MicrophoneFollowsCall

LEMMA MicNext ==
    ASSUME MicInv, [VoiceNext]_voiceVars
    PROVE  MicInv'
<1> DEFINE Same == UNCHANGED <<callState, preparing, stream, pumping>>
<1>1. ASSUME Same PROVE MicInv'
  BY <1>1 DEF MicInv, PageTypes, AttemptIsCurrent, MicrophoneFollowsCall
<1>2. CASE ToggleVoiceCall
  BY <1>2, ToggleKeeps
<1>3. CASE CaptureFails
  BY <1>3, EndKeeps DEF CaptureFails
<1>4. CASE OnVoiceCall
  BY <1>4, NewsKeeps
<1>5. CASE \E p \in preparing, granted \in BOOLEAN : Prepared(p, granted)
  BY <1>5, PreparedKeeps
<1>6. CASE SessionEnds
  BY <1>6, EndOfSessionKeeps
<1>7. CASE SessionStarts
  BY <1>1, <1>7 DEF SessionStarts, captureVars
<1>8. CASE Speak \/ WorkerCommand \/ SessionFrame
  BY <1>1, <1>8 DEF Speak, WorkerCommand, SessionFrame, pageVars, captureVars
<1>9. CASE DeviceReceives \/ DeviceHangsUp
           \/ (\E k \in {"accept", "reject"} : DeviceAnswers(k))
           \/ (\E k \in {"audio on", "audio off"} : DevicePermitsAudio(k))
  BY <1>1, <1>9 DEF DeviceReceives, DeviceHangsUp, DeviceAnswers, DevicePermitsAudio,
                    pageVars, captureVars
<1>10. CASE UNCHANGED voiceVars
  BY <1>1, <1>10 DEF voiceVars, pageVars, captureVars
<1> QED BY <1>2, <1>3, <1>4, <1>5, <1>6, <1>7, <1>8, <1>9, <1>10 DEF VoiceNext

\* The microphone is held only for a call the page shows, whatever crossed on
\* the way (toggleVoiceCall, onVoiceCall and VoiceCaptureController of the web
\* client).
THEOREM MicrophoneIsFollowed == VoiceSpec => []MicrophoneFollowsCall
<1>1. MicInv => MicrophoneFollowsCall
  BY DEF MicInv
<1> QED BY <1>1, MicInit, MicNext, PTL DEF VoiceSpec

-----------------------------------------------------------------------------
(* Messages in order *)

LEMMA HeadTail ==
    ASSUME NEW S, NEW s \in Seq(S), s # <<>>
    PROVE  /\ Head(s) \in S /\ Tail(s) \in Seq(S)
           /\ 1 \in DOMAIN s /\ Head(s) = s[1]
           /\ \A i \in DOMAIN Tail(s) : i \in Nat \ {0} /\ i + 1 \in DOMAIN s /\ Tail(s)[i] = s[i + 1]
           /\ \A i \in DOMAIN s : i \in Nat \ {0} /\ (i # 1 => i - 1 \in DOMAIN Tail(s)
                                                             /\ Tail(s)[i - 1] = s[i])
<1>1. Len(s) \in Nat \ {0} /\ DOMAIN s = 1 .. Len(s)
  BY EmptySeq, LenProperties
<1>2. /\ Head(s) = s[1] /\ Head(s) \in S /\ Tail(s) \in Seq(S) /\ Len(Tail(s)) = Len(s) - 1
      /\ \A i \in 1 .. Len(Tail(s)) : Tail(s)[i] = s[i + 1]
  BY HeadTailProperties
<1>3. DOMAIN Tail(s) = 1 .. Len(Tail(s))
  BY <1>2, LenProperties
<1>4. ASSUME NEW i \in DOMAIN s, i # 1
      PROVE  i - 1 \in DOMAIN Tail(s) /\ Tail(s)[i - 1] = s[i]
  <2>1. i - 1 \in 1 .. Len(Tail(s)) /\ i = (i - 1) + 1
    BY <1>1, <1>2, <1>4
  <2> QED BY <1>2, <1>3, <2>1
<1> QED BY <1>1, <1>2, <1>3, <1>4

LEMMA Appended ==
    ASSUME NEW S, NEW s \in Seq(S), NEW x \in S
    PROVE  /\ Append(s, x) \in Seq(S)
           /\ DOMAIN Append(s, x) = DOMAIN s \cup {Len(s) + 1}
           /\ Append(s, x)[Len(s) + 1] = x
           /\ \A i \in DOMAIN s : i \in Nat \ {0} /\ i <= Len(s) /\ Append(s, x)[i] = s[i]
           /\ Len(s) \in Nat
OBVIOUS

-----------------------------------------------------------------------------
(* Requests and their answers *)

\* A frame with the answer to a request, or with a request, and its number.
Answers == {"accept", "reject"}
Frames == [k : Answers \cup {"hangup", "audio on", "audio off", "request", "audio"}, req : Nat]

\* The requests not answered yet, and the answers on their way, in the order they were
\* made: whatever names the latest request is the last of them.
AnswerTypes ==
    /\ toDevice \in Seq(Frames) /\ toSession \in Seq(Frames)
    /\ device \in [k : {"idle", "asked", "in"}, req : Nat]
    /\ requests \in Nat /\ pending \in {0, requests} /\ accepted \in BOOLEAN

NoneAsked == \A i \in DOMAIN toDevice : toDevice[i].k # "request"

Numbered ==
    /\ \A i \in DOMAIN toDevice : toDevice[i].k = "request" => toDevice[i].req <= requests
    /\ device.k = "asked" => device.req <= requests
    /\ \A i \in DOMAIN toSession : toSession[i].k \in Answers => toSession[i].req <= requests

LatestIsLast ==
    /\ \A i, j \in DOMAIN toDevice :
          toDevice[i].k = "request" /\ toDevice[i].req = requests /\ i < j =>
              toDevice[j].k # "request"
    /\ device.k = "asked" /\ device.req = requests => NoneAsked
    /\ \A i \in DOMAIN toSession :
          toSession[i].k \in Answers /\ toSession[i].req = requests =>
              /\ \A j \in DOMAIN toSession : i < j => toSession[j].k \notin Answers
              /\ device.k # "asked" /\ NoneAsked

\* While a call is accepted, only the request that is pending can still be answered.
AcceptedIsLatest ==
    accepted =>
        /\ \A i \in DOMAIN toDevice :
              toDevice[i].k = "request" => pending # 0 /\ toDevice[i].req = pending
        /\ device.k = "asked" => pending # 0 /\ device.req = pending
        /\ \A i \in DOMAIN toSession :
              toSession[i].k \in Answers => pending # 0 /\ toSession[i].req = pending

AnswerInv == AnswerTypes /\ Numbered /\ LatestIsLast /\ AcceptedIsLatest

LEMMA FrameFacts ==
    /\ \A k \in Answers \cup {"hangup", "audio on", "audio off", "request", "audio"}, n \in Nat :
          [k |-> k, req |-> n] \in Frames
    /\ \A s \in Seq(Frames) : \A i : i \in DOMAIN s => i \in Nat /\ s[i] \in Frames /\ s[i].req \in Nat
<1>1. ASSUME NEW k \in Answers \cup {"hangup", "audio on", "audio off", "request", "audio"},
             NEW n \in Nat
      PROVE  [k |-> k, req |-> n] \in Frames
  BY <1>1 DEF Frames
<1>2. ASSUME NEW s \in Seq(Frames), NEW i \in DOMAIN s
      PROVE  i \in Nat /\ s[i] \in Frames /\ s[i].req \in Nat
  <2>1. i \in Nat /\ s[i] \in Frames
    BY <1>2
  <2>2. \A f \in Frames : f.req \in Nat
    BY DEF Frames
  <2> QED BY <2>1, <2>2
<1> QED BY <1>1, <1>2

LEMMA AnswerInit == VoiceInit => AnswerInv
<1> SUFFICES ASSUME VoiceInit PROVE AnswerInv
  OBVIOUS
<1>1. /\ toDevice = <<>> /\ toSession = <<>> /\ device = [k |-> "idle", req |-> 0]
      /\ pending = 0 /\ accepted = FALSE /\ requests = 0
  BY DEF VoiceInit
<1>2. AnswerTypes
  <2>1. device \in [k : {"idle", "asked", "in"}, req : Nat]
    BY <1>1
  <2>2. requests \in Nat /\ pending \in {0, requests} /\ accepted \in BOOLEAN
    BY <1>1
  <2>3. toDevice \in Seq(Frames) /\ toSession \in Seq(Frames)
    BY <1>1
  <2> QED BY <2>1, <2>2, <2>3 DEF AnswerTypes
<1>3. DOMAIN toDevice = {} /\ DOMAIN toSession = {} /\ device.k # "asked"
  BY <1>1
<1> QED BY <1>1, <1>2, <1>3 DEF AnswerInv, Numbered, LatestIsLast, AcceptedIsLatest

LEMMA AnswerEnds ==
    ASSUME AnswerInv, SessionEnds
    PROVE  AnswerInv'
<1>1. /\ toDevice' = <<>> /\ toSession' = <<>> /\ device' = [k |-> "idle", req |-> 0]
      /\ pending' = 0 /\ accepted' = FALSE /\ requests' = requests
  BY DEF SessionEnds
<1>2. AnswerTypes'
  <2>1. device' \in [k : {"idle", "asked", "in"}, req : Nat]
    BY <1>1
  <2>2. requests' \in Nat /\ pending' \in {0, requests'} /\ accepted' \in BOOLEAN
    BY <1>1 DEF AnswerInv, AnswerTypes
  <2>3. toDevice' \in Seq(Frames) /\ toSession' \in Seq(Frames)
    BY <1>1
  <2> QED BY <2>1, <2>2, <2>3 DEF AnswerTypes
<1>3. DOMAIN toDevice' = {} /\ DOMAIN toSession' = {} /\ device'.k # "asked"
  BY <1>1
<1> QED BY <1>1, <1>2, <1>3 DEF AnswerInv, Numbered, LatestIsLast, AcceptedIsLatest

LEMMA AnswerRests ==
    ASSUME AnswerInv, UNCHANGED <<toDevice, toSession, device, requests, pending, accepted>>
    PROVE  AnswerInv'
BY DEF AnswerInv, AnswerTypes, Numbered, LatestIsLast, AcceptedIsLatest, NoneAsked

\* The session sends a request: it is the latest, and none had its number.
LEMMA AnswerRequested ==
    ASSUME AnswerInv, pending = 0,
           requests' = requests + 1, pending' = requests', UNCHANGED <<accepted, toSession, device>>,
           toDevice' = Append(toDevice, [k |-> "request", req |-> requests'])
    PROVE  AnswerInv'
<1> DEFINE x == [k |-> "request", req |-> requests + 1]
<1>1. /\ toDevice \in Seq(Frames) /\ x \in Frames /\ requests \in Nat
  <2>1. toDevice \in Seq(Frames) /\ requests \in Nat /\ requests + 1 \in Nat
    BY DEF AnswerInv, AnswerTypes
  <2> QED BY <2>1, FrameFacts
<1>2. toDevice' = Append(toDevice, x)
  OBVIOUS
<1>3. x.k = "request" /\ x.req = requests + 1
  OBVIOUS
<1> HIDE DEF x
<1>4. /\ toDevice' \in Seq(Frames)
      /\ DOMAIN toDevice' = DOMAIN toDevice \cup {Len(toDevice) + 1}
      /\ toDevice'[Len(toDevice) + 1] = x
      /\ \A i \in DOMAIN toDevice : i \in Nat \ {0} /\ i <= Len(toDevice) /\ toDevice'[i] = toDevice[i]
      /\ Len(toDevice) \in Nat
  BY <1>1, <1>2, Appended
<1>5. AnswerTypes'
  BY <1>1, <1>4 DEF AnswerInv, AnswerTypes
<1>6. /\ \A i \in DOMAIN toDevice : toDevice[i].req \in Nat
      /\ \A i \in DOMAIN toSession : toSession[i].req \in Nat
      /\ device.req \in Nat
  BY FrameFacts DEF AnswerInv, AnswerTypes
<1>7. Numbered'
  BY <1>1, <1>3, <1>4, <1>6 DEF AnswerInv, Numbered
<1>9. LatestIsLast'
  BY <1>1, <1>3, <1>4, <1>6 DEF AnswerInv, Numbered, LatestIsLast
<1>8. AcceptedIsLatest'
  BY <1>1, <1>3, <1>4 DEF AnswerInv, AcceptedIsLatest
<1> QED BY <1>5, <1>7, <1>8, <1>9 DEF AnswerInv

\* The session sends something else; a hang-up ends what was accepted.
LEMMA AnswerOthersSent ==
    ASSUME AnswerInv, NEW x \in Frames, x.k # "request", toDevice' = Append(toDevice, x),
           UNCHANGED <<requests, toSession, device>>,
           \/ pending' = 0 /\ accepted' = FALSE
           \/ pending' = pending /\ accepted' = accepted
    PROVE  AnswerInv'
<1>1. toDevice \in Seq(Frames)
  BY DEF AnswerInv, AnswerTypes
<1>2. /\ toDevice' \in Seq(Frames)
      /\ DOMAIN toDevice' = DOMAIN toDevice \cup {Len(toDevice) + 1}
      /\ toDevice'[Len(toDevice) + 1] = x
      /\ \A i \in DOMAIN toDevice : i \in Nat \ {0} /\ i <= Len(toDevice) /\ toDevice'[i] = toDevice[i]
      /\ Len(toDevice) \in Nat
  BY <1>1, Appended
<1>3. NoneAsked => NoneAsked'
  BY <1>2 DEF NoneAsked
<1>4. AnswerTypes' /\ Numbered'
  BY <1>2 DEF AnswerInv, AnswerTypes, Numbered
<1>5. LatestIsLast'
  BY <1>2, <1>3 DEF AnswerInv, LatestIsLast
<1>6. AcceptedIsLatest'
  BY <1>2 DEF AnswerInv, AcceptedIsLatest
<1> QED BY <1>4, <1>5, <1>6 DEF AnswerInv

\* The session takes a frame: an answer settles the request, whatever it answers.
LEMMA AnswerTaken ==
    ASSUME AnswerInv, SessionFrame
    PROVE  AnswerInv'
<1> DEFINE f == Head(toSession)
<1>1. /\ toSession # <<>> /\ toSession' = Tail(toSession)
      /\ UNCHANGED <<requests, toDevice, device>>
      /\ toSession \in Seq(Frames) /\ pending \in {0, requests} /\ requests \in Nat
      /\ accepted \in BOOLEAN
  BY DEF SessionFrame, AnswerInv, AnswerTypes
<1>2. /\ f \in Frames /\ toSession' \in Seq(Frames)
      /\ 1 \in DOMAIN toSession /\ f = toSession[1]
      /\ \A i \in DOMAIN toSession' : /\ i \in Nat \ {0} /\ i + 1 \in DOMAIN toSession
                                      /\ toSession'[i] = toSession[i + 1]
  BY <1>1, HeadTail
<1>3. \/ pending' = 0 /\ accepted' = FALSE
      \/ /\ f.k \in Answers /\ pending' = 0
         /\ accepted' = IF pending # 0 /\ pending = f.req THEN f.k = "accept" ELSE accepted
      \/ f.k \notin Answers /\ pending' = pending /\ accepted' = accepted
  BY DEF SessionFrame, Answers
<1> HIDE DEF f
<1>4. AnswerTypes'
  BY <1>1, <1>2, <1>3 DEF AnswerInv, AnswerTypes
<1>5. Numbered' /\ LatestIsLast'
  BY <1>1, <1>2 DEF AnswerInv, Numbered, LatestIsLast, NoneAsked
<1>6. ASSUME f.k \in Answers, pending' = 0, accepted',
             accepted' = IF pending # 0 /\ pending = f.req THEN f.k = "accept" ELSE accepted
      PROVE  AcceptedIsLatest'
  <2>1. CASE pending # 0 /\ pending = f.req
    <3>1. f.req = requests
      BY <1>1, <2>1
    <3>2. \A j \in DOMAIN toSession : 1 < j => toSession[j].k \notin Answers
      BY <1>2, <1>6, <3>1 DEF AnswerInv, LatestIsLast
    <3>3. device.k # "asked" /\ NoneAsked
      BY <1>2, <1>6, <3>1 DEF AnswerInv, LatestIsLast
    <3>4. \A i \in DOMAIN toSession' : toSession'[i].k \notin Answers
      BY <1>2, <3>2
    <3> QED BY <1>1, <3>3, <3>4 DEF AcceptedIsLatest, NoneAsked
  <2>2. CASE ~(pending # 0 /\ pending = f.req)
    BY <1>2, <1>6, <2>2 DEF AnswerInv, AcceptedIsLatest
  <2> QED BY <2>1, <2>2
<1>7. ASSUME pending' = pending, accepted' = accepted PROVE AcceptedIsLatest'
  BY <1>1, <1>2, <1>7 DEF AnswerInv, AcceptedIsLatest
<1>8. ASSUME accepted' = FALSE PROVE AcceptedIsLatest'
  BY <1>8 DEF AcceptedIsLatest
<1>9. AcceptedIsLatest'
  BY <1>3, <1>6, <1>7, <1>8 DEF AcceptedIsLatest
<1> QED BY <1>4, <1>5, <1>9 DEF AnswerInv

\* The device takes what the session sent: a request is the one it is asked about.
LEMMA CallAnswerHeard ==
    ASSUME AnswerInv, DeviceReceives
    PROVE  AnswerInv'
<1> DEFINE f == Head(toDevice)
<1>0. /\ toDevice \in Seq(Frames) /\ toSession \in Seq(Frames) /\ requests \in Nat
      /\ device \in [k : {"idle", "asked", "in"}, req : Nat]
  BY DEF AnswerInv, AnswerTypes
<1>1. /\ toDevice # <<>> /\ toDevice' = Tail(toDevice)
      /\ UNCHANGED <<requests, pending, accepted, toSession>>
  BY DEF DeviceReceives, callSessionVars
<1>2. /\ f \in Frames /\ toDevice' \in Seq(Frames)
      /\ 1 \in DOMAIN toDevice /\ f = toDevice[1]
      /\ \A i \in DOMAIN toDevice' : /\ i \in Nat \ {0} /\ i + 1 \in DOMAIN toDevice
                                     /\ toDevice'[i] = toDevice[i + 1]
  BY <1>0, <1>1, HeadTail
<1>3. \/ f.k = "request" /\ device' = [k |-> "asked", req |-> f.req]
      \/ f.k # "request" /\ device' = [k |-> "idle", req |-> 0]
      \/ f.k # "request" /\ device' = device
  BY DEF DeviceReceives
<1> HIDE DEF f
<1>4. f.req \in Nat
  BY <1>2 DEF Frames
<1>5. device' \in [k : {"idle", "asked", "in"}, req : Nat]
  BY <1>0, <1>3, <1>4
<1>6. device'.k = "asked" =>
          \/ f.k = "request" /\ device'.req = f.req
          \/ f.k # "request" /\ device' = device
  BY <1>3
<1>7. AnswerTypes'
  BY <1>1, <1>2, <1>5 DEF AnswerInv, AnswerTypes
<1>8. Numbered'
  BY <1>1, <1>2, <1>6 DEF AnswerInv, Numbered
<1>9. NoneAsked => NoneAsked' /\ f.k # "request"
  BY <1>2 DEF NoneAsked
<1>10. f.k = "request" /\ f.req = requests => NoneAsked'
  BY <1>2 DEF NoneAsked, AnswerInv, LatestIsLast
<1>11. LatestIsLast'
  <2>1. \A i, j \in DOMAIN toDevice' :
          toDevice'[i].k = "request" /\ toDevice'[i].req = requests /\ i < j =>
             toDevice'[j].k # "request"
    BY <1>2 DEF AnswerInv, LatestIsLast
  <2>2. device'.k = "asked" /\ device'.req = requests => NoneAsked'
    BY <1>6, <1>9, <1>10 DEF AnswerInv, LatestIsLast
  <2>3. \A i \in DOMAIN toSession :
          toSession[i].k \in Answers /\ toSession[i].req = requests =>
              /\ \A j \in DOMAIN toSession : i < j => toSession[j].k \notin Answers
              /\ device'.k # "asked" /\ NoneAsked'
    BY <1>6, <1>9 DEF AnswerInv, LatestIsLast
  <2> QED BY <1>1, <2>1, <2>2, <2>3 DEF LatestIsLast
<1>12. AcceptedIsLatest'
  BY <1>1, <1>2, <1>6 DEF AnswerInv, AcceptedIsLatest
<1> QED BY <1>7, <1>8, <1>11, <1>12 DEF AnswerInv

\* The device says something: an answer is to the request it was asked about.
LEMMA AnswerSaid ==
    ASSUME AnswerInv, NEW x \in Frames, toSession' = Append(toSession, x),
           UNCHANGED <<requests, pending, accepted, toDevice>>,
           device' \in [k : {"idle", "asked", "in"}, req : Nat],
           device'.k = "asked" => device' = device,
           x.k \in Answers => device.k = "asked" /\ device'.k # "asked" /\ x.req = device.req
    PROVE  AnswerInv'
<1>1. toSession \in Seq(Frames)
  BY DEF AnswerInv, AnswerTypes
<1>2. /\ toSession' \in Seq(Frames)
      /\ DOMAIN toSession' = DOMAIN toSession \cup {Len(toSession) + 1}
      /\ toSession'[Len(toSession) + 1] = x
      /\ \A i \in DOMAIN toSession : /\ i \in Nat \ {0} /\ i <= Len(toSession)
                                     /\ toSession'[i] = toSession[i]
      /\ Len(toSession) \in Nat
  BY <1>1, Appended
<1>3. AnswerTypes'
  BY <1>2 DEF AnswerInv, AnswerTypes
<1>4. Numbered'
  BY <1>2 DEF AnswerInv, Numbered
<1>5. LatestIsLast'
  <2>1. device'.k = "asked" /\ device'.req = requests => NoneAsked
    BY DEF AnswerInv, LatestIsLast
  <2>2. ASSUME NEW i \in DOMAIN toSession', toSession'[i].k \in Answers,
               toSession'[i].req = requests
        PROVE  /\ \A j \in DOMAIN toSession' : i < j => toSession'[j].k \notin Answers
               /\ device'.k # "asked" /\ NoneAsked
    <3>1. CASE i \in DOMAIN toSession
      <4>1. /\ \A j \in DOMAIN toSession : i < j => toSession[j].k \notin Answers
            /\ device.k # "asked" /\ NoneAsked
        BY <1>2, <2>2, <3>1 DEF AnswerInv, LatestIsLast
      <4> QED BY <1>2, <4>1
    <3>2. CASE i = Len(toSession) + 1
      <4>1. device.k = "asked" /\ device.req = requests /\ device'.k # "asked"
        BY <1>2, <2>2, <3>2
      <4>2. NoneAsked
        BY <4>1 DEF AnswerInv, LatestIsLast
      <4> QED BY <1>2, <3>2, <4>1, <4>2
    <3> QED BY <1>2, <2>2, <3>1, <3>2
  <2> QED BY <2>1, <2>2 DEF AnswerInv, LatestIsLast, NoneAsked
<1>6. AcceptedIsLatest'
  BY <1>2 DEF AnswerInv, AcceptedIsLatest
<1> QED BY <1>3, <1>4, <1>5, <1>6 DEF AnswerInv

LEMMA AnswerSpoken ==
    ASSUME AnswerInv,
           \/ DeviceHangsUp
           \/ \E k \in {"accept", "reject"} : DeviceAnswers(k)
           \/ \E k \in {"audio on", "audio off"} : DevicePermitsAudio(k)
    PROVE  AnswerInv'
<1>0. device \in [k : {"idle", "asked", "in"}, req : Nat]
  BY DEF AnswerInv, AnswerTypes
<1>1. CASE DeviceHangsUp
  <2> DEFINE x == [k |-> "hangup", req |-> 0]
  <2>1. x \in Frames /\ x.k \notin Answers
    BY FrameFacts DEF Answers
  <2>2. /\ toSession' = Append(toSession, x) /\ device' = [k |-> "idle", req |-> 0]
        /\ UNCHANGED <<requests, pending, accepted, toDevice>>
    BY <1>1 DEF DeviceHangsUp, callSessionVars
  <2> HIDE DEF x
  <2>3. device' \in [k : {"idle", "asked", "in"}, req : Nat] /\ device'.k # "asked"
    BY <2>2
  <2> QED BY <2>1, <2>2, <2>3, AnswerSaid
<1>2. ASSUME NEW k \in {"accept", "reject"}, DeviceAnswers(k) PROVE AnswerInv'
  <2> DEFINE x == [k |-> k, req |-> device.req]
  <2>1. x \in Frames /\ x.req = device.req
    BY <1>0, FrameFacts DEF Answers
  <2>2. /\ device.k = "asked" /\ toSession' = Append(toSession, x)
        /\ UNCHANGED <<requests, pending, accepted, toDevice>>
    BY <1>2 DEF DeviceAnswers, callSessionVars
  <2>3. device' \in [k : {"idle", "asked", "in"}, req : Nat] /\ device'.k # "asked"
    BY <1>0, <1>2 DEF DeviceAnswers
  <2> HIDE DEF x
  <2> QED BY <2>1, <2>2, <2>3, AnswerSaid
<1>3. ASSUME NEW k \in {"audio on", "audio off"}, DevicePermitsAudio(k) PROVE AnswerInv'
  <2> DEFINE x == [k |-> k, req |-> 0]
  <2>1. x \in Frames /\ x.k \notin Answers
    BY FrameFacts DEF Answers
  <2>2. /\ toSession' = Append(toSession, x) /\ device' = device
        /\ UNCHANGED <<requests, pending, accepted, toDevice>>
    BY <1>3 DEF DevicePermitsAudio, callSessionVars
  <2> HIDE DEF x
  <2> QED BY <1>0, <2>1, <2>2, AnswerSaid
<1> QED BY <1>1, <1>2, <1>3

LEMMA AnswerNext ==
    ASSUME AnswerInv, [VoiceNext]_voiceVars
    PROVE  AnswerInv'
<1>1. CASE ToggleVoiceCall \/ CaptureFails \/ Speak \/ OnVoiceCall \/ SessionStarts
           \/ (\E p \in preparing, granted \in BOOLEAN : Prepared(p, granted))
           \/ UNCHANGED voiceVars
  BY <1>1, AnswerRests DEF ToggleVoiceCall, CaptureFails, Speak, OnVoiceCall, SessionStarts,
     Prepared, voiceVars, callSessionVars
<1>2. CASE SessionEnds
  BY <1>2, AnswerEnds
<1>3. CASE WorkerCommand
  <2>1. CASE Head(toWorker) = "start"
    BY <1>3, <2>1, AnswerRests, AnswerRequested DEF WorkerCommand
  <2>2. CASE Head(toWorker) = "close"
    <3>1. [k |-> "hangup", req |-> 0] \in Frames
      BY DEF Frames
    <3> QED BY <1>3, <2>2, <3>1, AnswerOthersSent DEF WorkerCommand
  <2>3. CASE Head(toWorker) = "audio"
    <3>1. [k |-> "audio", req |-> 0] \in Frames
      BY DEF Frames
    <3> QED BY <1>3, <2>3, <3>1, AnswerRests, AnswerOthersSent DEF WorkerCommand
  <2> QED BY <1>3, <2>1, <2>2, <2>3 DEF WorkerCommand
<1>4. CASE SessionFrame
  BY <1>4, AnswerTaken
<1>5. CASE DeviceReceives \/ DeviceHangsUp
           \/ (\E k \in {"accept", "reject"} : DeviceAnswers(k))
           \/ (\E k \in {"audio on", "audio off"} : DevicePermitsAudio(k))
  BY <1>5, CallAnswerHeard, AnswerSpoken
<1> QED BY <1>1, <1>2, <1>3, <1>4, <1>5 DEF VoiceNext
-----------------------------------------------------------------------------
(* News of the call *)

CallNews == {"waiting", "accepted", "rejected", "closed"}
MessageTypes ==
    /\ toPage \in Seq(CallNews \cup {"audio on", "audio off"})
    /\ toWorker \in Seq({"start", "close", "audio"})

\* The places of the news of a call among messages to the page, and the latest of them.
NewsIn(g) == {i \in DOMAIN g : g[i] \in CallNews}
LatestIn(g, i) == i \in NewsIn(g) /\ \A j \in NewsIn(g) : j <= i

Posted(cmd) == \E i \in DOMAIN toWorker : toWorker[i] = cmd

\* The latest news on its way to the page is true of the session.
TrueOf(news, p, a) ==
    /\ news = "waiting" => p # 0
    /\ news = "accepted" => p = 0 /\ a
    /\ news \in {"rejected", "closed"} => p = 0 /\ ~a

LatestShows ==
    \A i \in DOMAIN toPage : LatestIn(toPage, i) => TrueOf(toPage[i], pending, accepted)

\* When the page hears that its call was accepted it is waiting for that, or has posted
\* the end of the call.
AcceptedIsExpected ==
    \A i \in DOMAIN toPage : LatestIn(toPage, i) /\ toPage[i] = "accepted" =>
        \/ \E j \in NewsIn(toPage) : /\ j < i /\ toPage[j] = "waiting"
                                     /\ \A n \in NewsIn(toPage) : n < i => n <= j
        \/ NewsIn(toPage) = {i} /\ (callState = "waiting" \/ Posted("close"))

\* Without news on its way, page and session agree, but for what the page has posted.
PageKnows ==
    NewsIn(toPage) = {} =>
        /\ pending # 0 => callState = "waiting" \/ Posted("close")
        /\ pending = 0 /\ accepted => callState = "connected" \/ Posted("close")
        /\ pending = 0 /\ ~accepted =>
              /\ callState # "connected"
              /\ callState = "waiting" => Posted("start")

AgreeInv == MessageTypes /\ LatestShows /\ AcceptedIsExpected /\ PageKnows

LEMMA OrderOfNat == \A x \in Nat, y \in Nat : <<x, y>> \in OpToRel(<, Nat) <=> x < y
BY DEF OpToRel

\* Where there is news there is a latest.
LEMMA LatestExists ==
    ASSUME NEW S, NEW g \in Seq(S), NewsIn(g) # {}
    PROVE  \E i \in NewsIn(g) : LatestIn(g, i)
<1> DEFINE Behind == {n \in Nat : \E i \in NewsIn(g) : n = Len(g) - i}
<1>1. Len(g) \in Nat /\ DOMAIN g = 1 .. Len(g)
  BY LenProperties
<1>2. \A i \in NewsIn(g) : i \in Nat /\ Len(g) - i \in Behind
  BY <1>1 DEF NewsIn
<1>3. PICK m \in Behind : \A n \in Behind : ~(<<n, m>> \in OpToRel(<, Nat))
  <2>1. Behind \subseteq Nat /\ Behind # {}
    BY <1>2
  <2> HIDE DEF Behind
  <2> QED BY <2>1, NatLessThanWellFounded, WFMin
<1>4. \A n \in Behind : ~(n < m)
  BY <1>3, OrderOfNat
<1>5. PICK i \in NewsIn(g) : m = Len(g) - i
  OBVIOUS
<1> HIDE DEF Behind
<1>6. \A j \in NewsIn(g) : j <= i
  BY <1>1, <1>2, <1>4, <1>5
<1> QED BY <1>6 DEF LatestIn

Pages == CallNews \cup {"audio on", "audio off"}

\* A message appended is the latest news, or it is none.
LEMMA NewsAppended ==
    ASSUME NEW g \in Seq(Pages), NEW n \in Pages
    PROVE  /\ Append(g, n) \in Seq(Pages)
           /\ n \in CallNews =>
                 /\ NewsIn(Append(g, n)) = NewsIn(g) \cup {Len(g) + 1}
                 /\ \A i \in DOMAIN Append(g, n) : LatestIn(Append(g, n), i) => i = Len(g) + 1
           /\ n \notin CallNews => NewsIn(Append(g, n)) = NewsIn(g)
           /\ Append(g, n)[Len(g) + 1] = n
           /\ Len(g) + 1 \notin NewsIn(g)
           /\ \A i \in NewsIn(g) : i \in Nat /\ i < Len(g) + 1 /\ Append(g, n)[i] = g[i]
<1> DEFINE h == Append(g, n)
<1>1. /\ h \in Seq(Pages) /\ DOMAIN h = DOMAIN g \cup {Len(g) + 1} /\ h[Len(g) + 1] = n
      /\ \A i \in DOMAIN g : i \in Nat \ {0} /\ i <= Len(g) /\ h[i] = g[i]
      /\ Len(g) \in Nat
  BY Appended
<1> HIDE DEF h
<1>2. Len(g) + 1 \notin DOMAIN g
  BY <1>1
<1>3. n \in CallNews => NewsIn(h) = NewsIn(g) \cup {Len(g) + 1}
  BY <1>1, <1>2 DEF NewsIn
<1>4. n \notin CallNews => NewsIn(h) = NewsIn(g)
  BY <1>1, <1>2 DEF NewsIn
<1>5. ASSUME n \in CallNews, NEW i \in DOMAIN h, LatestIn(h, i) PROVE i = Len(g) + 1
  BY <1>1, <1>3, <1>5 DEF LatestIn, NewsIn
<1>6. \A i \in NewsIn(g) : i \in Nat /\ i < Len(g) + 1 /\ h[i] = g[i]
  BY <1>1 DEF NewsIn
<1>7. Len(g) + 1 \notin NewsIn(g)
  BY <1>2 DEF NewsIn
<1> QED BY <1>1, <1>3, <1>4, <1>5, <1>6, <1>7 DEF h

\* When the first message is taken, the others move up.
LEMMA NewsTaken ==
    ASSUME NEW g \in Seq(Pages), g # <<>>
    PROVE  /\ Head(g) = g[1] /\ Head(g) \in Pages /\ Tail(g) \in Seq(Pages)
           /\ Head(g) \in CallNews <=> 1 \in NewsIn(g)
           /\ \A i \in NewsIn(g) : i \in Nat \ {0}
                  /\ (i # 1 => i - 1 \in NewsIn(Tail(g)) /\ Tail(g)[i - 1] = g[i])
           /\ \A i \in NewsIn(Tail(g)) : i \in Nat \ {0} /\ i + 1 \in NewsIn(g)
                                          /\ Tail(g)[i] = g[i + 1]
           /\ \A i \in DOMAIN Tail(g) : LatestIn(Tail(g), i) => i \in Nat \ {0} /\ LatestIn(g, i + 1)
<1> DEFINE h == Tail(g)
<1>1. /\ Head(g) = g[1] /\ Head(g) \in Pages /\ h \in Seq(Pages) /\ 1 \in DOMAIN g
      /\ \A i \in DOMAIN h : i \in Nat \ {0} /\ i + 1 \in DOMAIN g /\ h[i] = g[i + 1]
      /\ \A i \in DOMAIN g : i \in Nat \ {0} /\ (i # 1 => i - 1 \in DOMAIN h /\ h[i - 1] = g[i])
  BY HeadTail
<1> HIDE DEF h
<1>2. Head(g) \in CallNews <=> 1 \in NewsIn(g)
  BY <1>1 DEF NewsIn
<1>3. \A i \in NewsIn(g) : i \in Nat \ {0} /\ (i # 1 => i - 1 \in NewsIn(h) /\ h[i - 1] = g[i])
  BY <1>1 DEF NewsIn
<1>4. \A i \in NewsIn(h) : i \in Nat \ {0} /\ i + 1 \in NewsIn(g) /\ h[i] = g[i + 1]
  BY <1>1 DEF NewsIn
<1>5. ASSUME NEW i \in DOMAIN h, LatestIn(h, i) PROVE i \in Nat \ {0} /\ LatestIn(g, i + 1)
  <2>1. i \in NewsIn(h) /\ \A j \in NewsIn(h) : j <= i
    BY <1>5 DEF LatestIn
  <2>2. ASSUME NEW j \in NewsIn(g) PROVE j <= i + 1
    <3>1. i \in Nat \ {0}
      BY <1>4, <2>1
    <3>2. CASE j = 1
      BY <3>1, <3>2
    <3>3. CASE j # 1
      <4>1. j \in Nat /\ j - 1 \in NewsIn(h)
        BY <1>3, <3>3
      <4>2. j - 1 <= i
        BY <2>1, <4>1
      <4> QED BY <3>1, <4>1, <4>2
    <3> QED BY <3>2, <3>3
  <2> QED BY <1>4, <2>1, <2>2 DEF LatestIn
<1> QED BY <1>1, <1>2, <1>3, <1>4, <1>5 DEF h

\* What the page may do on its own: end the call and have the device told of it, ask for
\* the microphone, and, once it has it, post the start of a call.
PageMoves ==
    /\ toWorker' \in Seq({"start", "close", "audio"})
    /\ Posted("close") => Posted("close")'
    /\ Posted("start") => Posted("start")'
    /\ \/ callState' = callState
       \/ callState' = "idle" /\ (InProtocol => Posted("close")')
       \/ ~InProtocol /\ callState' = "preparing"
       \/ ~InProtocol /\ callState' = "waiting" /\ Posted("start")'

LEMMA PostedAppend ==
    ASSUME MessageTypes, NEW cmd \in {"start", "close", "audio"}, toWorker' = Append(toWorker, cmd)
    PROVE  /\ toWorker' \in Seq({"start", "close", "audio"})
           /\ Posted("close") => Posted("close")'
           /\ Posted("start") => Posted("start")'
           /\ cmd = "close" => Posted("close")'
           /\ cmd = "start" => Posted("start")'
<1>0. toWorker \in Seq({"start", "close", "audio"})
  BY DEF MessageTypes
<1>1. /\ toWorker' \in Seq({"start", "close", "audio"})
      /\ DOMAIN toWorker' = DOMAIN toWorker \cup {Len(toWorker) + 1}
      /\ toWorker'[Len(toWorker) + 1] = cmd
      /\ \A i \in DOMAIN toWorker : toWorker'[i] = toWorker[i]
  BY <1>0, Appended
<1> QED BY <1>1 DEF Posted

\* Its own moves leave what it is to hear, and what is true without news, as they were.
LEMMA AgreeMoves ==
    ASSUME AgreeInv, PageMoves, UNCHANGED <<toPage, pending, accepted>>
    PROVE  AgreeInv'
<1>1. MessageTypes'
  BY DEF AgreeInv, MessageTypes, PageMoves
<1>2. LatestShows'
  BY DEF AgreeInv, LatestShows
<1>3. callState = "waiting" \/ Posted("close") => callState' = "waiting" \/ Posted("close")'
  BY DEF PageMoves, InProtocol
<1>4. AcceptedIsExpected'
  BY <1>3 DEF AgreeInv, AcceptedIsExpected
<1>5. PageKnows'
  BY <1>3 DEF AgreeInv, PageKnows, PageMoves, InProtocol
<1> QED BY <1>1, <1>2, <1>4, <1>5 DEF AgreeInv

\* The page hears something that is no news of the call.
LEMMA AgreeOtherHeard ==
    ASSUME AgreeInv, PageMoves, toPage # <<>>, toPage' = Tail(toPage), Head(toPage) \notin CallNews,
           UNCHANGED <<pending, accepted>>
    PROVE  AgreeInv'
<1> DEFINE g == toPage
           h == toPage'
<1>0. g \in Seq(Pages)
  BY DEF AgreeInv, MessageTypes, Pages
<1>1. /\ h \in Seq(Pages) /\ 1 \notin NewsIn(g)
      /\ \A i \in NewsIn(g) : i \in Nat \ {0} /\ i - 1 \in NewsIn(h) /\ h[i - 1] = g[i]
      /\ \A i \in NewsIn(h) : i \in Nat \ {0} /\ i + 1 \in NewsIn(g) /\ h[i] = g[i + 1]
      /\ \A i \in DOMAIN h : LatestIn(h, i) => i \in NewsIn(h) /\ i \in Nat \ {0} /\ LatestIn(g, i + 1)
  BY <1>0, NewsTaken DEF LatestIn
<1>2. callState = "waiting" \/ Posted("close") => callState' = "waiting" \/ Posted("close")'
  BY DEF PageMoves, InProtocol
<1>3. MessageTypes'
  BY <1>1 DEF MessageTypes, PageMoves, Pages
<1>4. LatestShows'
  <2>1. ASSUME NEW i \in DOMAIN h, LatestIn(h, i) PROVE TrueOf(h[i], pending, accepted)
    <3>1. LatestIn(g, i + 1) /\ i + 1 \in DOMAIN g /\ h[i] = g[i + 1]
      BY <1>1, <2>1 DEF LatestIn, NewsIn
    <3>2. TrueOf(g[i + 1], pending, accepted)
      BY <3>1 DEF AgreeInv, LatestShows
    <3> QED BY <3>1, <3>2
  <2> QED BY <2>1 DEF LatestShows
<1>5. AcceptedIsExpected'
  <2>1. ASSUME NEW i \in DOMAIN h, LatestIn(h, i), h[i] = "accepted"
        PROVE  \/ \E j \in NewsIn(h) : /\ j < i /\ h[j] = "waiting"
                                       /\ \A n \in NewsIn(h) : n < i => n <= j
               \/ NewsIn(h) = {i} /\ (callState' = "waiting" \/ Posted("close")')
    <3>1. i \in Nat /\ LatestIn(g, i + 1) /\ i + 1 \in DOMAIN g /\ g[i + 1] = "accepted"
      BY <1>1, <2>1 DEF LatestIn, NewsIn
    <3>2. \/ \E j \in NewsIn(g) : /\ j < i + 1 /\ g[j] = "waiting"
                                  /\ \A n \in NewsIn(g) : n < i + 1 => n <= j
          \/ NewsIn(g) = {i + 1} /\ (callState = "waiting" \/ Posted("close"))
      BY <3>1 DEF AgreeInv, AcceptedIsExpected
    <3>3. CASE NewsIn(g) = {i + 1} /\ (callState = "waiting" \/ Posted("close"))
      <4>1. \A j \in NewsIn(h) : j = i
        BY <1>1, <3>1, <3>3
      <4>2. NewsIn(h) = {i}
        BY <2>1, <4>1 DEF LatestIn
      <4> QED BY <1>2, <3>3, <4>2
    <3>4. ASSUME NEW j \in NewsIn(g), j < i + 1, g[j] = "waiting",
                 \A n \in NewsIn(g) : n < i + 1 => n <= j
          PROVE  \E k \in NewsIn(h) : /\ k < i /\ h[k] = "waiting"
                                      /\ \A n \in NewsIn(h) : n < i => n <= k
      <4>1. j \in Nat /\ j - 1 \in NewsIn(h) /\ h[j - 1] = "waiting" /\ j - 1 < i
        BY <1>1, <3>1, <3>4
      <4>2. ASSUME NEW n \in NewsIn(h), n < i PROVE n <= j - 1
        <5>1. n \in Nat /\ n + 1 \in NewsIn(g)
          BY <1>1
        <5>2. n + 1 <= j
          BY <3>1, <3>4, <4>2, <5>1
        <5> QED BY <4>1, <5>1, <5>2
      <4> QED BY <4>1, <4>2
    <3> QED BY <3>2, <3>3, <3>4
  <2> QED BY <2>1 DEF AcceptedIsExpected
<1>6. PageKnows'
  <2>1. NewsIn(h) = {} => NewsIn(g) = {}
    BY <1>1
  <2> QED BY <1>2, <2>1 DEF AgreeInv, PageKnows, PageMoves, InProtocol
<1> QED BY <1>3, <1>4, <1>5, <1>6 DEF AgreeInv

\* The page hears news of the call, and does as it is told.
LEMMA AgreeHeard ==
    ASSUME AgreeInv, toPage # <<>>, toPage' = Tail(toPage), Head(toPage) \in CallNews,
           UNCHANGED <<pending, accepted>>,
           toWorker' \in Seq({"start", "close", "audio"}),
           Posted("close") => Posted("close")',
           Head(toPage) = "waiting" => callState' = "waiting",
           Head(toPage) \in {"rejected", "closed"} => callState' = "idle",
           Head(toPage) = "accepted" =>
              \/ callState' = "connected"
              \/ callState' = "idle" /\ (InProtocol => Posted("close")')
    PROVE  AgreeInv'
<1> DEFINE g == toPage
           h == toPage'
<1>0. g \in Seq(Pages)
  BY DEF AgreeInv, MessageTypes, Pages
<1>1. /\ h \in Seq(Pages) /\ 1 \in NewsIn(g) /\ Head(g) = g[1]
      /\ \A i \in NewsIn(g) : i \in Nat \ {0} /\ (i # 1 => i - 1 \in NewsIn(h) /\ h[i - 1] = g[i])
      /\ \A i \in NewsIn(h) : i \in Nat \ {0} /\ i + 1 \in NewsIn(g) /\ h[i] = g[i + 1]
      /\ \A i \in DOMAIN h : LatestIn(h, i) => i \in NewsIn(h) /\ i \in Nat \ {0} /\ LatestIn(g, i + 1)
  BY <1>0, NewsTaken DEF LatestIn
<1>2. MessageTypes'
  BY <1>1 DEF MessageTypes, Pages
<1>3. LatestShows'
  <2>1. ASSUME NEW i \in DOMAIN h, LatestIn(h, i) PROVE TrueOf(h[i], pending, accepted)
    <3>1. LatestIn(g, i + 1) /\ i + 1 \in DOMAIN g /\ h[i] = g[i + 1]
      BY <1>1, <2>1 DEF LatestIn, NewsIn
    <3>2. TrueOf(g[i + 1], pending, accepted)
      BY <3>1 DEF AgreeInv, LatestShows
    <3> QED BY <3>1, <3>2
  <2> QED BY <2>1 DEF LatestShows
<1>4. AcceptedIsExpected'
  <2>1. ASSUME NEW i \in DOMAIN h, LatestIn(h, i), h[i] = "accepted"
        PROVE  \/ \E j \in NewsIn(h) : /\ j < i /\ h[j] = "waiting"
                                       /\ \A n \in NewsIn(h) : n < i => n <= j
               \/ NewsIn(h) = {i} /\ (callState' = "waiting" \/ Posted("close")')
    <3>1. i \in Nat \ {0} /\ LatestIn(g, i + 1) /\ i + 1 \in DOMAIN g /\ g[i + 1] = "accepted"
      BY <1>1, <2>1 DEF LatestIn, NewsIn
    <3>2. PICK j \in NewsIn(g) : /\ j < i + 1 /\ g[j] = "waiting"
                                 /\ \A n \in NewsIn(g) : n < i + 1 => n <= j
      BY <1>1, <3>1 DEF AgreeInv, AcceptedIsExpected
    <3>3. CASE j = 1
      <4>1. \A n \in NewsIn(h) : n = i
        <5>1. ASSUME NEW n \in NewsIn(h) PROVE n = i
          <6>1. n \in Nat \ {0} /\ n + 1 \in NewsIn(g) /\ n <= i
            BY <1>1, <2>1 DEF LatestIn
          <6>2. ~(n + 1 < i + 1)
            BY <3>2, <3>3, <6>1
          <6> QED BY <3>1, <6>1, <6>2
        <5> QED BY <5>1
      <4>2. NewsIn(h) = {i}
        BY <2>1, <4>1 DEF LatestIn
      <4> QED BY <1>1, <3>2, <3>3, <4>2
    <3>4. CASE j # 1
      <4>0. j \in Nat \ {0} /\ j - 1 \in NewsIn(h) /\ h[j - 1] = g[j]
        BY <1>1, <3>4
      <4>1. j \in Nat /\ j - 1 \in NewsIn(h) /\ h[j - 1] = "waiting" /\ j - 1 < i
        <5>1. j \in Nat /\ i \in Nat /\ j < i + 1
          BY <3>1, <3>2, <4>0
        <5>2. j - 1 < i
          BY <5>1
        <5> QED BY <3>2, <4>0, <5>2
      <4>2. ASSUME NEW n \in NewsIn(h), n < i PROVE n <= j - 1
        <5>1. n \in Nat /\ n + 1 \in NewsIn(g)
          BY <1>1
        <5>2. n + 1 <= j
          BY <3>1, <3>2, <4>2, <5>1
        <5> QED BY <4>1, <5>1, <5>2
      <4> QED BY <4>1, <4>2
    <3> QED BY <3>3, <3>4
  <2> QED BY <2>1 DEF AcceptedIsExpected
<1>5. PageKnows'
  <2> SUFFICES ASSUME NewsIn(h) = {}
               PROVE  /\ pending # 0 => callState' = "waiting" \/ Posted("close")'
                      /\ pending = 0 /\ accepted => callState' = "connected" \/ Posted("close")'
                      /\ pending = 0 /\ ~accepted => callState' = "idle"
    BY DEF PageKnows
  <2>1. \A i \in NewsIn(g) : i = 1
    BY <1>1
  <2>2. LatestIn(g, 1) /\ 1 \in DOMAIN g
    BY <1>1, <2>1 DEF LatestIn, NewsIn
  <2>3. TrueOf(g[1], pending, accepted)
    BY <2>2 DEF AgreeInv, LatestShows
  <2>4. g[1] = "accepted" => callState = "waiting" \/ Posted("close")
    <3>1. \A j \in NewsIn(g) : ~(j < 1)
      BY <2>1
    <3> QED BY <2>2, <3>1 DEF AgreeInv, AcceptedIsExpected
  <2> QED BY <1>1, <2>3, <2>4 DEF TrueOf, CallNews, InProtocol
<1> QED BY <1>2, <1>3, <1>4, <1>5 DEF AgreeInv

\* The session tells the page news of the call that is true of it; of an accepted call
\* only while a request is pending.
LEMMA AgreeTold ==
    ASSUME AgreeInv, NEW n \in CallNews, toPage' = Append(toPage, n), callState' = callState,
           toWorker' \in Seq({"start", "close", "audio"}),
           TrueOf(n, pending', accepted'),
           n = "accepted" => pending # 0 /\ (Posted("close") => Posted("close")')
    PROVE  AgreeInv'
<1> DEFINE g == toPage
           h == toPage'
           last == Len(toPage) + 1
<1>1. g \in Seq(Pages) /\ n \in Pages /\ h = Append(g, n)
  BY DEF AgreeInv, MessageTypes, Pages
<1>2. /\ h \in Seq(Pages) /\ NewsIn(h) = NewsIn(g) \cup {last} /\ h[last] = n
      /\ \A i \in DOMAIN h : LatestIn(h, i) => i = last
      /\ \A i \in NewsIn(g) : i \in Nat /\ i < last /\ h[i] = g[i]
  <2>1. /\ Append(g, n) \in Seq(Pages) /\ NewsIn(Append(g, n)) = NewsIn(g) \cup {last}
        /\ Append(g, n)[last] = n
        /\ \A i \in DOMAIN Append(g, n) : LatestIn(Append(g, n), i) => i = last
        /\ \A i \in NewsIn(g) : i \in Nat /\ i < last /\ Append(g, n)[i] = g[i]
    BY <1>1, NewsAppended
  <2> QED BY <1>1, <2>1
<1> HIDE DEF last
<1>3. MessageTypes'
  BY <1>2 DEF MessageTypes, Pages
<1>4. LatestShows'
  BY <1>2 DEF LatestShows
<1>5. ASSUME n = "accepted"
      PROVE  \/ \E j \in NewsIn(h) : /\ j < last /\ h[j] = "waiting"
                                     /\ \A m \in NewsIn(h) : m < last => m <= j
             \/ NewsIn(h) = {last} /\ (callState' = "waiting" \/ Posted("close")')
  <2>1. CASE NewsIn(g) = {}
    BY <1>2, <1>5, <2>1 DEF AgreeInv, PageKnows
  <2>2. CASE NewsIn(g) # {}
    <3>1. PICK j \in NewsIn(g) : LatestIn(g, j)
      BY <1>1, <2>2, LatestExists
    <3>2. j \in DOMAIN g /\ g[j] \in CallNews
      BY <3>1 DEF NewsIn
    <3>3. TrueOf(g[j], pending, accepted)
      BY <3>1, <3>2 DEF AgreeInv, LatestShows
    <3>4. g[j] = "waiting"
      BY <1>5, <3>2, <3>3 DEF TrueOf, CallNews
    <3>5. j \in NewsIn(h) /\ j < last /\ h[j] = "waiting"
      BY <1>2, <3>1, <3>4
    <3>6. ASSUME NEW m \in NewsIn(h), m < last PROVE m <= j
      <4>1. CASE m \in NewsIn(g)
        BY <3>1, <4>1 DEF LatestIn
      <4>2. CASE m = last
        <5>1. last \in Nat
          BY <1>1, LenProperties DEF last
        <5> QED BY <3>6, <4>2, <5>1
      <4> QED BY <1>2, <4>1, <4>2
    <3> QED BY <3>5, <3>6
  <2> QED BY <2>1, <2>2
<1>6. AcceptedIsExpected'
  <2>1. ASSUME NEW i \in DOMAIN h, LatestIn(h, i), h[i] = "accepted"
        PROVE  \/ \E j \in NewsIn(h) : /\ j < i /\ h[j] = "waiting"
                                       /\ \A m \in NewsIn(h) : m < i => m <= j
               \/ NewsIn(h) = {i} /\ (callState' = "waiting" \/ Posted("close")')
    <3>1. i = last /\ n = "accepted"
      BY <1>2, <2>1
    <3> QED BY <1>5, <3>1
  <2> QED BY <2>1 DEF AcceptedIsExpected
<1>7. PageKnows'
  BY <1>2 DEF PageKnows
<1> QED BY <1>3, <1>4, <1>6, <1>7 DEF AgreeInv

\* The session tells the page of a permission.
LEMMA AgreeOtherTold ==
    ASSUME AgreeInv, NEW n \in {"audio on", "audio off"}, toPage' = Append(toPage, n),
           UNCHANGED <<callState, toWorker, pending, accepted>>
    PROVE  AgreeInv'
<1> DEFINE g == toPage
           h == toPage'
<1>1. g \in Seq(Pages) /\ n \in Pages /\ n \notin CallNews /\ h = Append(g, n)
  BY DEF AgreeInv, MessageTypes, Pages, CallNews
<1>2. h \in Seq(Pages) /\ NewsIn(h) = NewsIn(g) /\ \A i \in NewsIn(g) : h[i] = g[i]
  <2>1. /\ Append(g, n) \in Seq(Pages) /\ NewsIn(Append(g, n)) = NewsIn(g)
        /\ \A i \in NewsIn(g) : Append(g, n)[i] = g[i]
    BY <1>1, NewsAppended
  <2> QED BY <1>1, <2>1
<1>3. \A i : LatestIn(h, i) => LatestIn(g, i) /\ i \in DOMAIN g /\ h[i] = g[i]
  BY <1>2 DEF LatestIn, NewsIn
<1>4. MessageTypes'
  BY <1>2 DEF AgreeInv, MessageTypes, Pages
<1>5. LatestShows'
  BY <1>3 DEF AgreeInv, LatestShows
<1>6. AcceptedIsExpected'
  <2>1. Posted("close")' = Posted("close")
    BY DEF Posted
  <2>2. ASSUME NEW i \in DOMAIN h, LatestIn(h, i), h[i] = "accepted"
        PROVE  \/ \E j \in NewsIn(h) : /\ j < i /\ h[j] = "waiting"
                                       /\ \A m \in NewsIn(h) : m < i => m <= j
               \/ NewsIn(h) = {i} /\ (callState = "waiting" \/ Posted("close"))
    <3>1. LatestIn(g, i) /\ i \in DOMAIN g /\ g[i] = "accepted"
      BY <1>3, <2>2
    <3>2. \/ \E j \in NewsIn(g) : /\ j < i /\ g[j] = "waiting"
                                  /\ \A m \in NewsIn(g) : m < i => m <= j
          \/ NewsIn(g) = {i} /\ (callState = "waiting" \/ Posted("close"))
      BY <3>1 DEF AgreeInv, AcceptedIsExpected
    <3> QED BY <1>2, <3>2
  <2> QED BY <2>1, <2>2 DEF AcceptedIsExpected
<1>7. PageKnows'
  BY <1>2 DEF AgreeInv, PageKnows, Posted
<1> QED BY <1>4, <1>5, <1>6, <1>7 DEF AgreeInv

\* A command the worker takes is the only one no longer posted.
LEMMA PostedTail ==
    ASSUME MessageTypes, toWorker # <<>>, toWorker' = Tail(toWorker)
    PROVE  /\ toWorker' \in Seq({"start", "close", "audio"})
           /\ Head(toWorker) # "close" /\ Posted("close") => Posted("close")'
           /\ Head(toWorker) # "start" /\ Posted("start") => Posted("start")'
<1>1. toWorker \in Seq({"start", "close", "audio"})
  BY DEF MessageTypes
<1>2. /\ toWorker' \in Seq({"start", "close", "audio"}) /\ Head(toWorker) = toWorker[1]
      /\ \A i \in DOMAIN toWorker : i # 1 => i - 1 \in DOMAIN toWorker' /\ toWorker'[i - 1] = toWorker[i]
  BY <1>1, HeadTail
<1>3. ASSUME NEW cmd, Head(toWorker) # cmd, NEW i \in DOMAIN toWorker, toWorker[i] = cmd
      PROVE  \E j \in DOMAIN toWorker' : toWorker'[j] = cmd
  <2>1. i - 1 \in DOMAIN toWorker' /\ toWorker'[i - 1] = cmd
    BY <1>2, <1>3
  <2> QED BY <2>1
<1> QED BY <1>2, <1>3 DEF Posted

\* The worker does what the page posted.
LEMMA AgreeCommanded ==
    ASSUME AgreeInv, AnswerInv, WorkerCommand
    PROVE  AgreeInv'
<1>1. /\ toWorker' \in Seq({"start", "close", "audio"}) /\ callState' = callState
      /\ Head(toWorker) # "close" /\ Posted("close") => Posted("close")'
      /\ Head(toWorker) # "start" /\ Posted("start") => Posted("start")'
  BY PostedTail DEF AgreeInv, WorkerCommand, pageVars
<1>2. CASE Head(toWorker) = "start" /\ pending # 0
  <2>1. UNCHANGED <<toPage, pending, accepted>>
    BY <1>2 DEF WorkerCommand
  <2>2. MessageTypes' /\ LatestShows'
    BY <1>1, <2>1 DEF AgreeInv, MessageTypes, LatestShows
  <2>3. AcceptedIsExpected' /\ PageKnows'
    BY <1>1, <1>2, <2>1 DEF AgreeInv, AcceptedIsExpected, PageKnows
  <2> QED BY <2>2, <2>3 DEF AgreeInv
<1>3. CASE Head(toWorker) = "start" /\ pending = 0
  <2>1. toPage' = Append(toPage, "waiting") /\ pending' = requests + 1
    BY <1>3 DEF WorkerCommand
  <2>2. pending' # 0
    BY <2>1 DEF AnswerInv, AnswerTypes
  <2>3. TrueOf("waiting", pending', accepted') /\ "waiting" \in CallNews
    BY <2>2 DEF TrueOf, CallNews
  <2> QED BY <1>1, <2>1, <2>3, AgreeTold
<1>4. CASE Head(toWorker) = "close"
  <2>1. toPage' = Append(toPage, "closed") /\ pending' = 0 /\ accepted' = FALSE
    BY <1>4 DEF WorkerCommand
  <2>2. TrueOf("closed", pending', accepted') /\ "closed" \in CallNews
    BY <2>1 DEF TrueOf, CallNews
  <2> QED BY <1>1, <2>1, <2>2, AgreeTold
<1>5. CASE Head(toWorker) = "audio"
  <2>1. UNCHANGED <<toPage, pending, accepted>>
    BY <1>5 DEF WorkerCommand
  <2>2. PageMoves
    BY <1>1, <1>5 DEF PageMoves
  <2> QED BY <2>1, <2>2, AgreeMoves
<1> QED BY <1>2, <1>3, <1>4, <1>5 DEF WorkerCommand

\* Where nothing is told and nothing is posted.
LEMMA AgreeRests ==
    ASSUME AgreeInv, UNCHANGED <<toPage, toWorker, callState, pending, accepted>>
    PROVE  AgreeInv'
<1>1. PageMoves
  BY DEF AgreeInv, MessageTypes, PageMoves, Posted
<1> QED BY <1>1, AgreeMoves

\* A frame of the device: an answer that does not match ends the request, and by then no
\* call was accepted.
LEMMA AgreeFramed ==
    ASSUME AgreeInv, AnswerInv, SessionFrame
    PROVE  AgreeInv'
<1> DEFINE f == Head(toSession)
<1>1. /\ toSession # <<>> /\ callState' = callState /\ toWorker' = toWorker
      /\ toSession \in Seq(Frames) /\ accepted \in BOOLEAN
  BY DEF SessionFrame, AnswerInv, AnswerTypes, pageVars
<1>2. 1 \in DOMAIN toSession /\ f = toSession[1]
  BY <1>1, HeadTail
<1>3. /\ toWorker' \in Seq({"start", "close", "audio"})
      /\ Posted("close") => Posted("close")'
  BY <1>1 DEF AgreeInv, MessageTypes, Posted
<1>4. CASE f.k \in Answers /\ pending # 0 /\ pending # f.req
  <2>1. toPage' = Append(toPage, "closed") /\ pending' = 0 /\ accepted' = accepted
    BY <1>4 DEF SessionFrame, Answers
  <2>2. ~accepted
    BY <1>2, <1>4 DEF AnswerInv, AcceptedIsLatest
  <2>3. TrueOf("closed", pending', accepted') /\ "closed" \in CallNews
    BY <2>1, <2>2 DEF TrueOf, CallNews
  <2> QED BY <1>1, <1>3, <2>1, <2>3, AgreeTold
<1>5. CASE f.k = "accept" /\ pending # 0 /\ pending = f.req
  <2>1. toPage' = Append(toPage, "accepted") /\ pending' = 0 /\ accepted'
    BY <1>5 DEF SessionFrame
  <2>2. TrueOf("accepted", pending', accepted') /\ "accepted" \in CallNews
    BY <2>1 DEF TrueOf, CallNews
  <2> QED BY <1>1, <1>3, <1>5, <2>1, <2>2, AgreeTold
<1>6. CASE f.k = "reject" /\ pending # 0 /\ pending = f.req
  <2>1. toPage' = Append(toPage, "rejected") /\ pending' = 0 /\ ~accepted'
    BY <1>6 DEF SessionFrame
  <2>2. TrueOf("rejected", pending', accepted') /\ "rejected" \in CallNews
    BY <2>1 DEF TrueOf, CallNews
  <2> QED BY <1>1, <1>3, <2>1, <2>2, AgreeTold
<1>7. CASE f.k \in Answers /\ pending = 0
  <2>1. UNCHANGED <<toPage, pending, accepted>>
    BY <1>7 DEF SessionFrame, Answers
  <2> QED BY <1>1, <2>1, AgreeRests
<1>8. CASE f.k = "hangup" /\ (pending # 0 \/ accepted)
  <2>1. toPage' = Append(toPage, "closed") /\ pending' = 0 /\ accepted' = FALSE
    BY <1>8 DEF SessionFrame
  <2>2. TrueOf("closed", pending', accepted') /\ "closed" \in CallNews
    BY <2>1 DEF TrueOf, CallNews
  <2> QED BY <1>1, <1>3, <2>1, <2>2, AgreeTold
<1>9. CASE f.k = "hangup" /\ ~(pending # 0 \/ accepted)
  <2>1. UNCHANGED <<toPage, pending, accepted>>
    BY <1>1, <1>9 DEF SessionFrame
  <2> QED BY <1>1, <2>1, AgreeRests
<1>10. CASE f.k \in {"audio on", "audio off"}
  <2>1. toPage' = Append(toPage, f.k) /\ UNCHANGED <<pending, accepted>>
    BY <1>10 DEF SessionFrame
  <2> HIDE DEF f
  <2> QED BY <1>1, <1>10, <2>1, AgreeOtherTold
<1>11. f.k \in Answers \cup {"hangup", "audio on", "audio off"}
  BY DEF SessionFrame, Answers
<1> QED BY <1>4, <1>5, <1>6, <1>7, <1>8, <1>9, <1>10, <1>11 DEF Answers

\* What the page and its user do.
LEMMA EndMoves ==
    ASSUME AgreeInv, EndVoiceCall(TRUE)
    PROVE  PageMoves /\ callState' = "idle" /\ (InProtocol => Posted("close")')
<1>1. CASE InProtocol
  <2>1. toWorker' = Append(toWorker, "close") /\ callState' = "idle"
    BY <1>1 DEF EndVoiceCall
  <2> QED BY <2>1, PostedAppend DEF AgreeInv, PageMoves
<1>2. CASE ~InProtocol
  <2>1. toWorker' = toWorker /\ callState' = "idle"
    BY <1>2 DEF EndVoiceCall
  <2> QED BY <1>2, <2>1 DEF AgreeInv, MessageTypes, PageMoves, Posted
<1> QED BY <1>1, <1>2

LEMMA AgreeClicked ==
    ASSUME AgreeInv, ToggleVoiceCall \/ CaptureFails \/ Speak
    PROVE  AgreeInv'
<1>1. UNCHANGED <<toPage, pending, accepted>>
  BY DEF ToggleVoiceCall, CaptureFails, Speak, callSessionVars
<1>2. CASE CaptureFails \/ (ToggleVoiceCall /\ InProtocol)
  <2>1. EndVoiceCall(TRUE)
    BY <1>2 DEF CaptureFails, ToggleVoiceCall
  <2> QED BY <1>1, <2>1, EndMoves, AgreeMoves
<1>3. CASE ToggleVoiceCall /\ ~InProtocol
  <2>1. toWorker' = toWorker /\ callState' = "preparing"
    BY <1>3 DEF ToggleVoiceCall
  <2>2. PageMoves
    BY <1>3, <2>1 DEF AgreeInv, MessageTypes, PageMoves, Posted
  <2> QED BY <1>1, <2>2, AgreeMoves
<1>4. CASE Speak
  <2>1. toWorker' = Append(toWorker, "audio") /\ callState' = callState
    BY <1>4 DEF Speak, pageVars
  <2>2. PageMoves
    BY <2>1, PostedAppend DEF AgreeInv, PageMoves
  <2> QED BY <1>1, <2>2, AgreeMoves
<1> QED BY <1>2, <1>3, <1>4

LEMMA AgreePrepared ==
    ASSUME AgreeInv, NEW p \in preparing, NEW granted \in BOOLEAN, Prepared(p, granted)
    PROVE  AgreeInv'
<1>1. UNCHANGED <<toPage, pending, accepted>>
  BY DEF Prepared, callSessionVars
<1>2. \/ toWorker' = toWorker /\ callState' = callState
      \/ callState = "preparing" /\ callState' = "idle" /\ toWorker' = toWorker
      \/ callState = "preparing" /\ callState' = "waiting" /\ toWorker' = Append(toWorker, "start")
  BY DEF Prepared
<1>3. CASE callState = "preparing" /\ callState' = "waiting" /\ toWorker' = Append(toWorker, "start")
  <2>1. PageMoves
    BY <1>3, PostedAppend DEF AgreeInv, PageMoves, InProtocol
  <2> QED BY <1>1, <2>1, AgreeMoves
<1>4. CASE toWorker' = toWorker
  <2>1. /\ toWorker' \in Seq({"start", "close", "audio"})
        /\ Posted("close") => Posted("close")'
        /\ Posted("start") => Posted("start")'
    BY <1>4 DEF AgreeInv, MessageTypes, Posted
  <2>2. \/ callState' = callState \/ (~InProtocol /\ callState' = "idle")
        \/ callState = "preparing" /\ callState' = "waiting" /\ toWorker' = Append(toWorker, "start")
    BY <1>2 DEF InProtocol
  <2>3. CASE callState' = callState \/ (~InProtocol /\ callState' = "idle")
    <3>1. PageMoves
      BY <2>1, <2>3 DEF PageMoves
    <3> QED BY <1>1, <3>1, AgreeMoves
  <2> QED BY <1>2, <2>2, <2>3, <1>3
<1> QED BY <1>2, <1>3, <1>4

LEMMA AgreeNews ==
    ASSUME AgreeInv, OnVoiceCall
    PROVE  AgreeInv'
<1> DEFINE news == Head(toPage)
<1>1. toPage # <<>> /\ toPage' = Tail(toPage) /\ UNCHANGED <<pending, accepted>>
  BY DEF OnVoiceCall, callSessionVars
<1>2. UNCHANGED toWorker => /\ toWorker' \in Seq({"start", "close", "audio"})
                            /\ Posted("close") => Posted("close")'
                            /\ Posted("start") => Posted("start")'
  BY DEF AgreeInv, MessageTypes, Posted
<1>3. CASE news = "accepted"
  <2>1. CASE stream /\ ~pumping
    BY <1>1, <1>2, <1>3, <2>1, AgreeHeard DEF OnVoiceCall, CallNews
  <2>2. CASE ~(stream /\ ~pumping)
    <3>1. EndVoiceCall(TRUE)
      BY <1>3, <2>2 DEF OnVoiceCall
    <3> QED BY <1>1, <1>3, <3>1, EndMoves, AgreeHeard DEF CallNews, PageMoves
  <2> QED BY <2>1, <2>2
<1>4. CASE news \in {"waiting", "rejected", "closed"}
  BY <1>1, <1>2, <1>4, AgreeHeard DEF OnVoiceCall, CallNews
<1>5. CASE news \in {"audio on", "audio off"}
  <2>1. PageMoves
    <3>1. CASE news = "audio off" /\ callState # "idle"
      <4>1. EndVoiceCall(TRUE)
        BY <3>1 DEF OnVoiceCall
      <4> QED BY <4>1, EndMoves
    <3>2. CASE ~(news = "audio off" /\ callState # "idle")
      BY <1>2, <1>5, <3>2 DEF OnVoiceCall, PageMoves
    <3> QED BY <3>1, <3>2
  <2> QED BY <1>1, <1>5, <2>1, AgreeOtherHeard DEF CallNews
<1> QED BY <1>3, <1>4, <1>5 DEF OnVoiceCall

\* Without messages, a session that knows of no call and a page that shows none.
LEMMA NoPageMessages ==
    ASSUME NEW S
    PROVE  <<>> \in Seq(S) /\ NewsIn(<<>>) = {} /\ DOMAIN <<>> = {}
BY DEF NewsIn

LEMMA AgreeInit == VoiceInit => AgreeInv
<1> SUFFICES ASSUME VoiceInit PROVE AgreeInv
  OBVIOUS
<1>1. /\ toPage = <<>> /\ toWorker = <<>> /\ callState = "idle"
      /\ pending = 0 /\ accepted = FALSE
  BY DEF VoiceInit
<1> QED BY <1>1, NoPageMessages DEF AgreeInv, MessageTypes, LatestShows, AcceptedIsExpected, PageKnows

LEMMA AgreeEnds ==
    ASSUME SessionEnds
    PROVE  AgreeInv'
<1>1. /\ toPage' = <<>> /\ toWorker' = <<>> /\ callState' = "idle"
      /\ pending' = 0 /\ accepted' = FALSE
  BY DEF SessionEnds
<1> QED BY <1>1, NoPageMessages DEF AgreeInv, MessageTypes, LatestShows, AcceptedIsExpected, PageKnows

LEMMA AgreeNext ==
    ASSUME AgreeInv, AnswerInv, [VoiceNext]_voiceVars
    PROVE  AgreeInv'
<1>1. CASE ToggleVoiceCall \/ CaptureFails \/ Speak
  BY <1>1, AgreeClicked
<1>2. CASE \E p \in preparing, granted \in BOOLEAN : Prepared(p, granted)
  BY <1>2, AgreePrepared
<1>3. CASE OnVoiceCall
  BY <1>3, AgreeNews
<1>4. CASE SessionEnds
  BY <1>4, AgreeEnds
<1>5. CASE WorkerCommand
  BY <1>5, AgreeCommanded
<1>6. CASE SessionFrame
  BY <1>6, AgreeFramed
<1>7. CASE SessionStarts \/ DeviceReceives \/ DeviceHangsUp
           \/ (\E k \in {"accept", "reject"} : DeviceAnswers(k))
           \/ (\E k \in {"audio on", "audio off"} : DevicePermitsAudio(k))
           \/ UNCHANGED voiceVars
  BY <1>7, AgreeRests DEF SessionStarts, DeviceReceives, DeviceHangsUp, DeviceAnswers,
     DevicePermitsAudio, voiceVars, pageVars, callSessionVars
<1> QED BY <1>1, <1>2, <1>3, <1>4, <1>5, <1>6, <1>7 DEF VoiceNext

LEMMA AgreementFollows == MicInv /\ AnswerInv /\ AgreeInv => PageAndSessionAgree
<1> SUFFICES ASSUME MicInv, AnswerInv, AgreeInv, toWorker = <<>>, toPage = <<>>
             PROVE  /\ (callState = "connected") <=> (accepted /\ pending = 0)
                    /\ (callState = "waiting") <=> (pending # 0)
  BY DEF PageAndSessionAgree
<1>1. NewsIn(toPage) = {} /\ ~Posted("close") /\ ~Posted("start")
  BY NoPageMessages DEF Posted
<1>2. accepted \in BOOLEAN
  BY DEF AnswerInv, AnswerTypes
<1> QED BY <1>1, <1>2 DEF AgreeInv, PageKnows

\* With nothing on its way between them, page and session agree on the call, whatever
\* answers, hang-ups, refusals and clicks crossed before (Session.startVoiceCall,
\* closeVoiceCall and the voice call cases of its message loop; RdApp.onVoiceCall).
THEOREM PageAndSessionEndUpAgreeing == VoiceSpec => []PageAndSessionAgree
<1>1. VoiceInit => MicInv /\ AnswerInv /\ AgreeInv
  BY MicInit, AnswerInit, AgreeInit
<1>2. MicInv /\ AnswerInv /\ AgreeInv /\ [VoiceNext]_voiceVars => (MicInv /\ AnswerInv /\ AgreeInv)'
  BY MicNext, AnswerNext, AgreeNext
<1> QED BY AgreementFollows, <1>1, <1>2, PTL DEF VoiceSpec
-----------------------------------------------------------------------------
(* What a call counts up to. *)

CallMessages == {"start", "close", "audio"}
StartsIn(q) == Number(q, {"start"})

LEMMA StartsCounted ==
    ASSUME NEW q \in Seq(CallMessages)
    PROVE  /\ StartsIn(q) \in Nat
           /\ StartsIn(Append(q, "start")) = StartsIn(q) + 1
           /\ StartsIn(Append(q, "close")) = StartsIn(q)
           /\ StartsIn(Append(q, "audio")) = StartsIn(q)
           /\ q # <<>> => /\ StartsIn(Tail(q)) \in Nat
                          /\ Head(q) = "start" => StartsIn(q) = StartsIn(Tail(q)) + 1
                          /\ Head(q) # "start" => StartsIn(q) = StartsIn(Tail(q))
<1>1. StartsIn(q) \in Nat
  BY NumberType DEF StartsIn
<1>2. ASSUME NEW x \in CallMessages
      PROVE  StartsIn(Append(q, x)) = StartsIn(q) + IF x = "start" THEN 1 ELSE 0
  BY Sent DEF StartsIn
<1>3. "start" \in CallMessages /\ "close" \in CallMessages /\ "audio" \in CallMessages
  BY DEF CallMessages
<1>4. ASSUME q # <<>>
      PROVE  /\ StartsIn(Tail(q)) \in Nat
             /\ Head(q) = "start" => StartsIn(q) = StartsIn(Tail(q)) + 1
             /\ Head(q) # "start" => StartsIn(q) = StartsIn(Tail(q))
  <2>1. /\ Tail(q) \in Seq(CallMessages)
        /\ StartsIn(q) = StartsIn(Tail(q)) + IF Head(q) \in {"start"} THEN 1 ELSE 0
    BY <1>4, Taken DEF StartsIn
  <2>2. StartsIn(Tail(q)) \in Nat
    BY <2>1, NumberType DEF StartsIn
  <2> QED BY <2>1, <2>2
<1>5. /\ StartsIn(Append(q, "start")) = StartsIn(q) + 1
      /\ StartsIn(Append(q, "close")) = StartsIn(q) + 0
      /\ StartsIn(Append(q, "audio")) = StartsIn(q) + 0
  BY <1>2, <1>3
<1> QED BY <1>1, <1>4, <1>5

\* Every request began as a click: what became of it, or is still on its way, is
\* counted; and what the device was asked is one of them.
CallBounds ==
    /\ streaming \in BOOLEAN /\ audioAllowed \in BOOLEAN
    /\ sessions \in 0 .. MaxSessions /\ asks \in 0 .. MaxCalls
    /\ requests + StartsIn(toWorker) + (IF callState = "preparing" THEN 1 ELSE 0) <= asks
    /\ device.req <= requests

VoiceInv == MicInv /\ AnswerInv /\ AgreeInv /\ CallBounds

\* Where a step sends no request and prepares none, nothing more is counted.
LEMMA CallRests ==
    ASSUME CallBounds, requests \in Nat, toWorker \in Seq(CallMessages),
           UNCHANGED <<requests, device, asks>>, streaming' \in BOOLEAN, audioAllowed' \in BOOLEAN,
           sessions' \in 0 .. MaxSessions,
           toWorker' \in {toWorker, Append(toWorker, "close"), Append(toWorker, "audio")},
           callState' = "preparing" => callState = "preparing"
    PROVE  CallBounds'
<1>1. StartsIn(toWorker') = StartsIn(toWorker) /\ StartsIn(toWorker) \in Nat
  BY StartsCounted
<1>2. asks \in Nat
  BY DEF CallBounds
<1>3. requests' + StartsIn(toWorker') + (IF callState' = "preparing" THEN 1 ELSE 0) <= asks'
  BY <1>1, <1>2 DEF CallBounds
<1> QED BY <1>3 DEF CallBounds

LEMMA CallClicked ==
    ASSUME CallBounds, requests \in Nat, toWorker \in Seq(CallMessages), ToggleVoiceCall
    PROVE  CallBounds'
<1>1. CASE InProtocol
  BY <1>1, CallRests DEF ToggleVoiceCall, EndVoiceCall, callSessionVars, CallBounds
<1>2. CASE ~InProtocol
  <2>1. /\ UNCHANGED <<streaming, sessions, audioAllowed, requests, toWorker, device>>
        /\ callState # "preparing" /\ callState' = "preparing"
        /\ asks < MaxCalls /\ asks' = asks + 1
    BY <1>2 DEF ToggleVoiceCall, callSessionVars
  <2>2. StartsIn(toWorker) \in Nat /\ asks \in Nat /\ asks' \in 0 .. MaxCalls
    BY <2>1, StartsCounted, VoiceAssumption DEF CallBounds
  <2>3. requests + StartsIn(toWorker) + 0 <= asks
    BY <2>1 DEF CallBounds
  <2>4. requests' + StartsIn(toWorker') + 1 <= asks'
    BY <2>1, <2>2, <2>3
  <2> QED BY <2>1, <2>2, <2>4 DEF CallBounds
<1> QED BY <1>1, <1>2

LEMMA CallPrepared ==
    ASSUME CallBounds, requests \in Nat, toWorker \in Seq(CallMessages),
           NEW p, NEW granted, Prepared(p, granted)
    PROVE  CallBounds'
<1>1. /\ UNCHANGED <<requests, device, asks, streaming, audioAllowed, sessions>>
      /\ streaming \in BOOLEAN /\ audioAllowed \in BOOLEAN /\ sessions \in 0 .. MaxSessions
  BY DEF Prepared, callSessionVars, CallBounds
<1>2. CASE toWorker' = toWorker /\ (callState' = "preparing" => callState = "preparing")
  BY <1>1, <1>2, CallRests
<1>3. CASE callState = "preparing" /\ callState' = "waiting" /\ toWorker' = Append(toWorker, "start")
  <2>1. StartsIn(toWorker') = StartsIn(toWorker) + 1 /\ StartsIn(toWorker) \in Nat /\ asks \in Nat
    BY <1>3, StartsCounted DEF CallBounds
  <2>2. requests + StartsIn(toWorker) + 1 <= asks
    BY <1>3 DEF CallBounds
  <2>3. requests' + StartsIn(toWorker') + 0 <= asks'
    BY <1>1, <2>1, <2>2
  <2> QED BY <1>1, <1>3, <2>3 DEF CallBounds
<1> QED BY <1>2, <1>3 DEF Prepared

LEMMA CallNewsKeeps ==
    ASSUME CallBounds, requests \in Nat, toWorker \in Seq(CallMessages), OnVoiceCall
    PROVE  CallBounds'
<1>1. /\ UNCHANGED <<requests, device, asks, streaming, sessions>>
      /\ streaming \in BOOLEAN /\ sessions \in 0 .. MaxSessions
  BY DEF OnVoiceCall, callSessionVars, CallBounds
<1>2. audioAllowed' \in BOOLEAN
  BY DEF OnVoiceCall, CallBounds
<1>3. /\ toWorker' \in {toWorker, Append(toWorker, "close")}
      /\ callState' = "preparing" => callState = "preparing"
  BY DEF OnVoiceCall, EndVoiceCall, captureVars
<1> QED BY <1>1, <1>2, <1>3, CallRests

LEMMA CallEnds ==
    ASSUME CallBounds, requests \in Nat, toWorker \in Seq(CallMessages), SessionEnds
    PROVE  CallBounds'
<1>1. /\ UNCHANGED <<requests, asks, sessions>> /\ device'.req = 0
      /\ toWorker' = <<>> /\ callState' = "idle" /\ streaming' = FALSE /\ audioAllowed' = TRUE
  BY DEF SessionEnds
<1>2. StartsIn(toWorker') = 0 /\ StartsIn(toWorker) \in Nat /\ asks \in Nat
  BY <1>1, EmptyQueue, StartsCounted DEF StartsIn, CallBounds
<1>3. requests' + StartsIn(toWorker') + 0 <= asks'
  BY <1>1, <1>2 DEF CallBounds
<1>4. device'.req <= requests'
  BY <1>1
<1>5. /\ streaming' \in BOOLEAN /\ audioAllowed' \in BOOLEAN
      /\ sessions' \in 0 .. MaxSessions /\ asks' \in 0 .. MaxCalls
  BY <1>1 DEF CallBounds
<1>6. (IF callState' = "preparing" THEN 1 ELSE 0) = 0
  BY <1>1
<1> QED BY <1>3, <1>4, <1>5, <1>6 DEF CallBounds

LEMMA CallCommanded ==
    ASSUME CallBounds, requests \in Nat, device.req \in Nat, toWorker \in Seq(CallMessages),
           WorkerCommand
    PROVE  CallBounds'
<1>1. /\ UNCHANGED <<callState, streaming, sessions, audioAllowed, asks, device>>
      /\ toWorker # <<>> /\ toWorker' = Tail(toWorker)
      /\ requests' = requests \/ (Head(toWorker) = "start" /\ requests' = requests + 1)
  BY DEF WorkerCommand, pageVars
<1> DEFINE part == IF callState = "preparing" THEN 1 ELSE 0
<1>2. /\ StartsIn(toWorker') \in Nat /\ asks \in Nat /\ part \in Nat /\ part' = part
      /\ Head(toWorker) = "start" => StartsIn(toWorker) = StartsIn(toWorker') + 1
      /\ Head(toWorker) # "start" => StartsIn(toWorker) = StartsIn(toWorker')
  BY <1>1, StartsCounted DEF CallBounds
<1>3. requests + StartsIn(toWorker) + part <= asks
  BY DEF CallBounds
<1> HIDE DEF part
<1>4. requests' + StartsIn(toWorker') + part' <= asks'
  BY <1>1, <1>2, <1>3
<1> USE DEF part
<1>5. device.req <= requests /\ device'.req = device.req
  BY <1>1 DEF CallBounds
<1>6. device'.req <= requests'
  BY <1>1, <1>5
<1>7. streaming' \in BOOLEAN /\ audioAllowed' \in BOOLEAN /\ sessions' \in 0 .. MaxSessions /\ asks' \in 0 .. MaxCalls
  BY <1>1 DEF CallBounds
<1> QED BY <1>4, <1>6, <1>7 DEF CallBounds

LEMMA CallOfDevice ==
    ASSUME CallBounds, AnswerInv, DeviceReceives \/ DeviceHangsUp
                                  \/ (\E k \in {"accept", "reject"} : DeviceAnswers(k))
    PROVE  CallBounds'
<1>1. UNCHANGED <<callState, streaming, sessions, audioAllowed, asks, requests, toWorker>>
  BY DEF DeviceReceives, DeviceHangsUp, DeviceAnswers, pageVars, callSessionVars
<1>2. requests \in Nat /\ device \in [k : {"idle", "asked", "in"}, req : Nat]
  BY DEF AnswerInv, AnswerTypes
<1>3. CASE DeviceReceives
  <2>1. toDevice # <<>> /\ toDevice \in Seq(Frames)
    BY <1>3 DEF DeviceReceives, AnswerInv, AnswerTypes
  <2>2. 1 \in DOMAIN toDevice /\ Head(toDevice) = toDevice[1]
    BY <2>1
  <2>3. Head(toDevice).k = "request" => Head(toDevice).req <= requests
    BY <2>2 DEF AnswerInv, Numbered
  <2>4. device'.req <= requests
    BY <1>2, <1>3, <2>3 DEF DeviceReceives, CallBounds
  <2> QED BY <1>1, <2>4 DEF CallBounds
<1>4. CASE DeviceHangsUp \/ (\E k \in {"accept", "reject"} : DeviceAnswers(k))
  <2>1. device'.req <= requests
    BY <1>2, <1>4 DEF DeviceHangsUp, DeviceAnswers, CallBounds
  <2> QED BY <1>1, <2>1 DEF CallBounds
<1> QED BY <1>3, <1>4

LEMMA VoiceStarts == VoiceInit => VoiceInv
<1> SUFFICES ASSUME VoiceInit PROVE VoiceInv
  OBVIOUS
<1>1. MicInv /\ AnswerInv /\ AgreeInv
  BY MicInit, AnswerInit, AgreeInit
<1>2. StartsIn(toWorker) = 0
  BY EmptyQueue DEF VoiceInit, StartsIn
<1>3. CallBounds
  BY <1>2, VoiceAssumption DEF VoiceInit, CallBounds
<1> QED BY <1>1, <1>3 DEF VoiceInv

LEMMA CallCounts ==
    ASSUME VoiceInv, [VoiceNext]_voiceVars PROVE CallBounds'
<1>1. /\ CallBounds /\ AnswerInv /\ requests \in Nat /\ device.req \in Nat
      /\ toWorker \in Seq(CallMessages)
  BY DEF VoiceInv, AnswerInv, AnswerTypes, AgreeInv, MessageTypes, CallMessages
<1>2. CASE ToggleVoiceCall
  BY <1>1, <1>2, CallClicked
<1>3. CASE CaptureFails \/ Speak
  BY <1>1, <1>3, CallRests DEF CaptureFails, Speak, EndVoiceCall, callSessionVars, pageVars, CallBounds
<1>4. CASE \E p \in preparing, granted \in BOOLEAN : Prepared(p, granted)
  BY <1>1, <1>4, CallPrepared
<1>5. CASE OnVoiceCall
  BY <1>1, <1>5, CallNewsKeeps
<1>6. CASE SessionEnds
  BY <1>1, <1>6, CallEnds
<1>7. CASE SessionStarts
  <2>1. sessions' \in 0 .. MaxSessions
    BY <1>7, <1>1, VoiceAssumption DEF SessionStarts, CallBounds
  <2> QED BY <1>1, <1>7, <2>1, CallRests DEF SessionStarts, callSessionVars, CallBounds
<1>8. CASE WorkerCommand
  BY <1>1, <1>8, CallCommanded
<1>9. CASE DeviceReceives \/ DeviceHangsUp \/ (\E k \in {"accept", "reject"} : DeviceAnswers(k))
  BY <1>1, <1>9, CallOfDevice
<1>10. CASE SessionFrame \/ (\E k \in {"audio on", "audio off"} : DevicePermitsAudio(k))
            \/ UNCHANGED voiceVars
  BY <1>1, <1>10, CallRests
     DEF SessionFrame, DevicePermitsAudio, voiceVars, callSessionVars, pageVars, CallBounds
<1> QED
  BY <1>2, <1>3, <1>4, <1>5, <1>6, <1>7, <1>8, <1>9, <1>10 DEF VoiceNext

LEMMA VoiceKeeps == VoiceInv /\ [VoiceNext]_voiceVars => VoiceInv'
BY MicNext, AnswerNext, AgreeNext, CallCounts DEF VoiceInv

\* No request is ever made, and no call answered, that no click asked for; and all
\* variables of a call have their types.
LEMMA VoiceTyped == VoiceInv => VoiceTypeOK
<1> SUFFICES ASSUME VoiceInv PROVE VoiceTypeOK
  OBVIOUS
<1>1. requests \in Nat /\ StartsIn(toWorker) \in Nat /\ asks \in 0 .. MaxCalls
  BY StartsCounted DEF VoiceInv, AnswerInv, AnswerTypes, AgreeInv, MessageTypes, CallMessages, CallBounds
<1>2. requests <= asks
  <2>1. requests + StartsIn(toWorker) + (IF callState = "preparing" THEN 1 ELSE 0) <= asks
    BY DEF VoiceInv, CallBounds
  <2> QED BY <1>1, <2>1
<1>3. requests \in 0 .. MaxCalls /\ pending \in 0 .. requests
  BY <1>1, <1>2, VoiceAssumption DEF VoiceInv, AnswerInv, AnswerTypes
<1>4. device \in [k : {"idle", "asked", "in"}, req : 0 .. requests]
  BY <1>1 DEF VoiceInv, AnswerInv, AnswerTypes, CallBounds
<1> QED BY <1>1, <1>3, <1>4
        DEF VoiceInv, VoiceTypeOK, MicInv, PageTypes, Requests, AnswerInv, AnswerTypes, CallBounds

-----------------------------------------------------------------------------
(* The remote security controls. *)

Commands == [k : {"block"}, on : BOOLEAN] \cup [k : {"privacy"}, impl : Impls, on : BOOLEAN]
Notices == [k : {"block"}, on : BOOLEAN]
           \cup [k : {"privacy"}, on : BOOLEAN, impl : Impls, fails : BOOLEAN]

Types == SecurityTypeOK /\ commands \in Seq(Commands) /\ notices \in Seq(Notices)

\* Where a message of a kind is in a channel.
At(s, k) == {i \in DOMAIN s : s[i].k = k}

\* Of a mode that was asked for there is one command, or one notice of it, on
\* its way, and otherwise none.
OneAtATime(cs, ns, k, isPending) ==
    /\ \A i, j \in At(cs, k) : i = j
    /\ \A i, j \in At(ns, k) : i = j
    /\ At(cs, k) = {} \/ At(ns, k) = {}
    /\ ~isPending => At(cs, k) = {} /\ At(ns, k) = {}

AllOn(ns, k) == \A i \in At(ns, k) : ns[i].on

\* A command turns off what is on, and one behind each command to turn it on.
Undone(cs, k, isOn) ==
    /\ isOn => \E j \in At(cs, k) : ~cs[j].on
    /\ \A i \in At(cs, k) : cs[i].on => \E j \in At(cs, k) : i < j /\ ~cs[j].on

\* While the user is there, the page knows of what is on, or waits for word of
\* it, and the word will be that it is on.
BlockKnown ==
    /\ OneAtATime(commands, notices, "block", blockPending)
    /\ inputOf = "blocked" => blockPending \/ blockInput = "on"
    /\ inputOf = "blocked" => AllOn(notices, "block")

PrivacyKnown ==
    /\ OneAtATime(commands, notices, "privacy", privacyPending)
    /\ screenOf \in Impls => privacyPending \/ privacyMode = "on"
    /\ screenOf \in Impls => AllOn(notices, "privacy")
    /\ privacyPending \/ privacyMode = "on" => activeImpl \in Impls

SecurityInv ==
    /\ Types
    /\ ~left => BlockKnown
    /\ ~left /\ ~overruled => PrivacyKnown
    /\ left => Undone(commands, "block", inputOf = "blocked")
    /\ left /\ ~overruled => Undone(commands, "privacy", screenOf \in Impls)
-----------------------------------------------------------------------------
(* Channels. *)

LEMMA CommandAppended ==
    ASSUME NEW S, NEW s \in Seq(S), NEW e \in S, NEW k
    PROVE  /\ Append(s, e) \in Seq(S)
           /\ Append(s, e)[Len(s) + 1] = e
           /\ \A i \in At(s, k) : i \in 1 .. Len(s) /\ Append(s, e)[i] = s[i]
           /\ e.k = k => At(Append(s, e), k) = At(s, k) \cup {Len(s) + 1}
           /\ e.k # k => At(Append(s, e), k) = At(s, k)
BY DEF At

LEMMA TailOf ==
    ASSUME NEW S, NEW s \in Seq(S), s # <<>>, NEW k
    PROVE  /\ Tail(s) \in Seq(S) /\ Head(s) \in S /\ Head(s) = s[1] /\ 1 \in DOMAIN s
           /\ \A i \in At(Tail(s), k) :
                 i \in Nat /\ i >= 1 /\ i + 1 \in At(s, k) /\ Tail(s)[i] = s[i + 1]
           /\ \A i \in At(s, k) :
                 i \in Nat /\ i >= 1
                 /\ (i # 1 => i - 1 \in At(Tail(s), k) /\ Tail(s)[i - 1] = s[i])
<1>1. Len(s) \in Nat /\ Len(s) >= 1 /\ DOMAIN s = 1 .. Len(s)
  BY EmptySeq
<1>2. Len(Tail(s)) = Len(s) - 1 /\ DOMAIN Tail(s) = 1 .. Len(s) - 1 /\ Tail(s) \in Seq(S)
  BY <1>1, HeadTailProperties
<1>3. \A i \in 1 .. Len(s) - 1 : Tail(s)[i] = s[i + 1]
  BY <1>1, HeadTailProperties
<1>4. Head(s) \in S /\ Head(s) = s[1] /\ 1 \in DOMAIN s
  BY <1>1, HeadTailProperties
<1>5. ASSUME NEW i \in At(Tail(s), k)
      PROVE  i \in Nat /\ i >= 1 /\ i + 1 \in At(s, k) /\ Tail(s)[i] = s[i + 1]
  BY <1>1, <1>2, <1>3, <1>5 DEF At
<1>6. ASSUME NEW i \in At(s, k)
      PROVE  i \in Nat /\ i >= 1
             /\ (i # 1 => i - 1 \in At(Tail(s), k) /\ Tail(s)[i - 1] = s[i])
  <2>1. i \in 1 .. Len(s) /\ s[i].k = k
    BY <1>1, <1>6 DEF At
  <2>2. ASSUME i # 1 PROVE i - 1 \in 1 .. Len(s) - 1 /\ Tail(s)[i - 1] = s[i]
    <3>1. i - 1 \in 1 .. Len(s) - 1 /\ (i - 1) + 1 = i
      BY <1>1, <2>1, <2>2
    <3> QED BY <1>3, <3>1
  <2> QED BY <1>2, <2>1, <2>2 DEF At
<1> QED BY <1>2, <1>4, <1>5, <1>6

LEMMA TailAt ==
    ASSUME NEW S, NEW s \in Seq(S), s # <<>>, NEW k, NEW i \in At(Tail(s), k)
    PROVE  i \in Nat /\ i >= 1 /\ i + 1 \in At(s, k)
BY TailOf

LEMMA TailValue ==
    ASSUME NEW S, NEW s \in Seq(S), s # <<>>, NEW k, NEW i \in At(Tail(s), k)
    PROVE  Tail(s)[i] = s[i + 1]
<1>1. /\ Len(Tail(s)) = Len(s) - 1 /\ Tail(s) \in Seq(S)
      /\ \A j \in 1 .. Len(Tail(s)) : Tail(s)[j] = s[j + 1]
  BY HeadTailProperties, EmptySeq
<1>2. i \in 1 .. Len(Tail(s))
  BY <1>1 DEF At
<1> QED BY <1>1, <1>2

\* How the one message of a kind goes its way.
LEMMA OneAsked ==
    ASSUME NEW cs \in Seq(Commands), NEW ns, NEW c \in Commands, NEW k,
           c.k = k, OneAtATime(cs, ns, k, FALSE)
    PROVE  OneAtATime(Append(cs, c), ns, k, TRUE)
<1>1. At(cs, k) = {} /\ At(ns, k) = {}
  BY DEF OneAtATime
<1>2. At(Append(cs, c), k) = At(cs, k) \cup {Len(cs) + 1}
  BY CommandAppended
<1> QED BY <1>1, <1>2 DEF OneAtATime

LEMMA OneAskedOther ==
    ASSUME NEW cs \in Seq(Commands), NEW ns, NEW c \in Commands, NEW k, NEW p \in BOOLEAN,
           c.k # k, OneAtATime(cs, ns, k, p)
    PROVE  OneAtATime(Append(cs, c), ns, k, p)
BY CommandAppended DEF OneAtATime

LEMMA OneHandled ==
    ASSUME NEW cs \in Seq(Commands), cs # <<>>, NEW ns \in Seq(Notices), NEW n \in Notices,
           NEW k, Head(cs).k = k, n.k = k, OneAtATime(cs, ns, k, TRUE)
    PROVE  /\ OneAtATime(Tail(cs), Append(ns, n), k, TRUE)
           /\ At(Append(ns, n), k) = {Len(ns) + 1} /\ Append(ns, n)[Len(ns) + 1] = n
<1>1. 1 \in At(cs, k)
  BY TailOf DEF At
<1>2. At(Tail(cs), k) = {}
  <2>1. ASSUME NEW i \in At(Tail(cs), k) PROVE FALSE
    <3>1. i \in Nat /\ i >= 1 /\ i + 1 \in At(cs, k)
      BY <2>1, TailOf
    <3>2. i + 1 = 1
      BY <1>1, <3>1 DEF OneAtATime
    <3> QED BY <3>1, <3>2
  <2> QED BY <2>1
<1>3. At(ns, k) = {}
  BY <1>1 DEF OneAtATime
<1>4. At(Append(ns, n), k) = {Len(ns) + 1} /\ Append(ns, n)[Len(ns) + 1] = n
  BY <1>3, CommandAppended
<1> QED BY <1>2, <1>3, <1>4 DEF OneAtATime

LEMMA OneHandledOther ==
    ASSUME NEW cs \in Seq(Commands), cs # <<>>, NEW ns \in Seq(Notices), NEW n \in Notices,
           NEW k, NEW p \in BOOLEAN, Head(cs).k # k, n.k # k, OneAtATime(cs, ns, k, p)
    PROVE  /\ OneAtATime(Tail(cs), Append(ns, n), k, p)
           /\ AllOn(ns, k) => AllOn(Append(ns, n), k)
<1>1. At(Append(ns, n), k) = At(ns, k) /\ \A i \in At(ns, k) : Append(ns, n)[i] = ns[i]
  BY CommandAppended
<1>2. \A i \in At(Tail(cs), k) : i \in Nat /\ i + 1 \in At(cs, k)
  BY TailOf
<1>3. \A i, j \in At(Tail(cs), k) : i = j
  <2>1. ASSUME NEW i \in At(Tail(cs), k), NEW j \in At(Tail(cs), k) PROVE i = j
    <3>1. i + 1 = j + 1
      BY <1>2 DEF OneAtATime
    <3> QED BY <1>2, <3>1
  <2> QED BY <2>1
<1>4. At(cs, k) = {} => At(Tail(cs), k) = {}
  BY <1>2
<1> QED BY <1>1, <1>3, <1>4 DEF OneAtATime, AllOn

\* A notice of a mode comes only while the page waits for it.
LEMMA NoneToTell ==
    ASSUME NEW cs, NEW ns \in Seq(Notices), ns # <<>>, NEW k, Head(ns).k = k
    PROVE  ~OneAtATime(cs, ns, k, FALSE)
<1>1. 1 \in At(ns, k)
  BY TailOf DEF At
<1> QED BY <1>1 DEF OneAtATime

LEMMA OneTold ==
    ASSUME NEW cs, NEW ns \in Seq(Notices), ns # <<>>, NEW k, Head(ns).k = k,
           OneAtATime(cs, ns, k, TRUE)
    PROVE  OneAtATime(cs, Tail(ns), k, FALSE) /\ At(Tail(ns), k) = {}
<1>1. 1 \in At(ns, k)
  BY TailOf DEF At
<1>2. At(Tail(ns), k) = {}
  <2>1. ASSUME NEW i \in At(Tail(ns), k) PROVE FALSE
    <3>1. i \in Nat /\ i >= 1 /\ i + 1 \in At(ns, k)
      BY <2>1, TailOf
    <3>2. i + 1 = 1
      BY <1>1, <3>1 DEF OneAtATime
    <3> QED BY <3>1, <3>2
  <2> QED BY <2>1
<1>3. At(cs, k) = {}
  BY <1>1 DEF OneAtATime
<1> QED BY <1>2, <1>3 DEF OneAtATime

LEMMA FirstIsOn ==
    ASSUME NEW ns \in Seq(Notices), ns # <<>>, NEW k, Head(ns).k = k, AllOn(ns, k)
    PROVE  Head(ns).on
<1>1. 1 \in At(ns, k) /\ Head(ns) = ns[1]
  BY TailOf DEF At
<1> QED BY <1>1 DEF AllOn

LEMMA OneToldOther ==
    ASSUME NEW cs, NEW ns \in Seq(Notices), ns # <<>>,
           NEW k, NEW p \in BOOLEAN, Head(ns).k # k, OneAtATime(cs, ns, k, p)
    PROVE  /\ OneAtATime(cs, Tail(ns), k, p)
           /\ AllOn(ns, k) => AllOn(Tail(ns), k)
<1>1. ASSUME NEW i \in At(Tail(ns), k) PROVE i \in Nat /\ i + 1 \in At(ns, k)
  BY TailAt
<1>4. ASSUME AllOn(ns, k), NEW i \in At(Tail(ns), k) PROVE Tail(ns)[i].on
  <2>1. Tail(ns)[i] = ns[i + 1]
    BY TailValue
  <2> QED BY <1>1, <1>4, <2>1 DEF AllOn
<1>2. \A i, j \in At(Tail(ns), k) : i = j
  <2>1. ASSUME NEW i \in At(Tail(ns), k), NEW j \in At(Tail(ns), k) PROVE i = j
    <3>1. i + 1 = j + 1
      BY <1>1 DEF OneAtATime
    <3> QED BY <1>1, <3>1
  <2> QED BY <2>1
<1>3. At(ns, k) = {} => At(Tail(ns), k) = {}
  BY <1>1
<1>5. OneAtATime(cs, Tail(ns), k, p)
  BY <1>2, <1>3 DEF OneAtATime
<1> QED BY <1>4, <1>5 DEF AllOn
-----------------------------------------------------------------------------
(* Commands that undo. *)

LEMMA UndoneByLast ==
    ASSUME NEW cs \in Seq(Commands), NEW c \in Commands, NEW k, NEW b \in BOOLEAN,
           c.k = k, ~c.on
    PROVE  Undone(Append(cs, c), k, b)
<1> DEFINE last == Len(cs) + 1
<1>1. Append(cs, c)[last] = c
  BY CommandAppended
<1>2. At(Append(cs, c), k) = At(cs, k) \cup {last}
  BY CommandAppended
<1>3. ASSUME NEW i \in At(cs, k) PROVE i < last
  BY CommandAppended
<1> HIDE DEF last
<1> QED BY <1>1, <1>2, <1>3 DEF Undone

LEMMA UndoneBefore ==
    ASSUME NEW cs \in Seq(Commands), NEW c \in Commands, NEW k, NEW b \in BOOLEAN,
           c.k # k, Undone(cs, k, b)
    PROVE  Undone(Append(cs, c), k, b)
<1>1. At(Append(cs, c), k) = At(cs, k) /\ \A i \in At(cs, k) : Append(cs, c)[i] = cs[i]
  BY CommandAppended
<1> QED BY <1>1 DEF Undone

LEMMA UndoneBehind ==
    ASSUME NEW cs \in Seq(Commands), cs # <<>>, NEW k, NEW b \in BOOLEAN, NEW after \in BOOLEAN,
           Undone(cs, k, b),
           after => b \/ (Head(cs).k = k /\ Head(cs).on),
           Head(cs).k = k /\ after => Head(cs).on
    PROVE  Undone(Tail(cs), k, after)
<1>1. Head(cs) = cs[1] /\ 1 \in DOMAIN cs
  BY TailOf
<1>2. ASSUME NEW i \in At(Tail(cs), k)
      PROVE  i \in Nat /\ i >= 1 /\ i + 1 \in At(cs, k) /\ Tail(cs)[i] = cs[i + 1]
  BY TailAt, TailValue
<1>3. ASSUME NEW i \in At(cs, k)
      PROVE  i \in Nat /\ i >= 1
             /\ (i # 1 => i - 1 \in At(Tail(cs), k) /\ Tail(cs)[i - 1] = cs[i])
  BY TailOf
<1>4. ASSUME after PROVE \E j \in At(Tail(cs), k) : ~Tail(cs)[j].on
  <2>1. PICK j \in At(cs, k) : ~cs[j].on /\ j # 1
    <3>1. CASE Head(cs).k = k
      <4>1. 1 \in At(cs, k) /\ cs[1].on
        BY <1>1, <1>4, <3>1 DEF At
      <4>2. PICK j \in At(cs, k) : 1 < j /\ ~cs[j].on
        BY <4>1 DEF Undone
      <4> QED BY <4>2
    <3>2. CASE Head(cs).k # k
      <4>1. 1 \notin At(cs, k)
        BY <1>1, <3>2 DEF At
      <4> QED BY <1>4, <3>2, <4>1 DEF Undone
    <3> QED BY <3>1, <3>2
  <2> QED BY <1>3, <2>1
<1>5. ASSUME NEW i \in At(Tail(cs), k), Tail(cs)[i].on
      PROVE  \E j \in At(Tail(cs), k) : i < j /\ ~Tail(cs)[j].on
  <2>1. i \in Nat /\ i >= 1 /\ i + 1 \in At(cs, k) /\ cs[i + 1].on
    BY <1>5, <1>2
  <2>2. PICK j \in At(cs, k) : i + 1 < j /\ ~cs[j].on
    BY <2>1 DEF Undone
  <2>3. j \in Nat /\ j # 1 /\ i < j - 1
    BY <1>3, <2>1, <2>2
  <2> QED BY <1>3, <2>2, <2>3
<1> QED BY <1>4, <1>5 DEF Undone
-----------------------------------------------------------------------------
(* Each step keeps the invariant. *)

\* A notice of one mode says nothing of the other.
LEMMA OneNotedOther ==
    ASSUME NEW cs, NEW ns \in Seq(Notices), NEW n \in Notices, NEW k, NEW p \in BOOLEAN,
           n.k # k, OneAtATime(cs, ns, k, p)
    PROVE  /\ OneAtATime(cs, Append(ns, n), k, p)
           /\ AllOn(ns, k) => AllOn(Append(ns, n), k)
<1>1. At(Append(ns, n), k) = At(ns, k) /\ \A i \in At(ns, k) : Append(ns, n)[i] = ns[i]
  BY CommandAppended
<1> QED BY <1>1 DEF OneAtATime, AllOn

LEMMA MessagesTyped ==
    /\ \A on \in BOOLEAN : Block(on) \in Commands /\ Block(on).k = "block" /\ Block(on).on = on
    /\ \A impl \in Impls, on \in BOOLEAN :
          Privacy(impl, on) \in Commands /\ Privacy(impl, on).k = "privacy"
          /\ Privacy(impl, on).on = on
BY DEF Block, Privacy, Commands

LEMMA ToggleBlockKeeps ==
    ASSUME SecurityInv, ToggleBlockInput
    PROVE  SecurityInv'
<1> DEFINE c == Block(blockInput = "off")
<1> USE DEF ToggleBlockInput, deviceSecurity
<1>1. c \in Commands /\ c.k = "block"
  BY MessagesTyped
<1>2. Types'
  <2>1. Append(commands, c) \in Seq(Commands)
    BY <1>1, AppendProperties DEF SecurityInv, Types
  <2> QED BY <2>1 DEF SecurityInv, Types, SecurityTypeOK
<1>3. BlockKnown'
  <2>0. OneAtATime(commands, notices, "block", FALSE)
    BY DEF SecurityInv, BlockKnown, OneAtATime
  <2>1. OneAtATime(Append(commands, c), notices, "block", TRUE)
    BY <1>1, <2>0, OneAsked DEF SecurityInv, Types
  <2> QED BY <2>1 DEF SecurityInv, BlockKnown
<1>4. ASSUME ~overruled PROVE PrivacyKnown'
  <2>1. OneAtATime(Append(commands, c), notices, "privacy", privacyPending)
    BY <1>1, <1>4, OneAskedOther
       DEF SecurityInv, Types, SecurityTypeOK, PrivacyKnown
  <2> QED BY <1>4, <2>1 DEF SecurityInv, PrivacyKnown
<1> QED BY <1>2, <1>3, <1>4 DEF SecurityInv

LEMMA TogglePrivacyKeeps ==
    ASSUME SecurityInv, NEW impl \in Impls, TogglePrivacy(impl)
    PROVE  SecurityInv'
<1> DEFINE on == ~(privacyMode = "on" /\ activeImpl = impl)
           c == Privacy(impl, on)
<1> USE DEF TogglePrivacy, deviceSecurity
<1>1. c \in Commands /\ c.k = "privacy"
  BY MessagesTyped
<1>2. commands' = Append(commands, c)
  OBVIOUS
<1> HIDE DEF c
<1>3. Types'
  <2>1. Append(commands, c) \in Seq(Commands)
    BY <1>1, AppendProperties DEF SecurityInv, Types
  <2> QED BY <1>2, <2>1 DEF SecurityInv, Types, SecurityTypeOK
<1>4. BlockKnown'
  <2>1. OneAtATime(Append(commands, c), notices, "block", blockPending)
    BY <1>1, OneAskedOther DEF SecurityInv, Types, SecurityTypeOK, BlockKnown
  <2> QED BY <1>2, <2>1 DEF SecurityInv, BlockKnown
<1>5. ASSUME ~overruled PROVE PrivacyKnown'
  <2>1. OneAtATime(Append(commands, c), notices, "privacy", TRUE)
    BY <1>1, <1>5, OneAsked, ZenonT(40) DEF SecurityInv, Types, PrivacyKnown, OneAtATime
  <2> QED BY <1>2, <1>5, <2>1 DEF SecurityInv, PrivacyKnown
<1> QED BY <1>3, <1>4, <1>5 DEF SecurityInv

LEMMA NoticeKeeps ==
    ASSUME SecurityInv, SecurityNotice
    PROVE  SecurityInv'
<1> DEFINE n == Head(notices)
<1>1. notices # <<>> /\ notices \in Seq(Notices) /\ ~left
  BY DEF SecurityNotice, SecurityInv, Types
<1>2. Tail(notices) \in Seq(Notices) /\ n \in Notices
  BY <1>1, HeadTailProperties
<1>3. Types'
  <2>1. n.k = "privacy" => n.impl \in Impls
    BY <1>2 DEF Notices
  <2> QED BY <1>2, <2>1
          DEF SecurityInv, Types, SecurityTypeOK, SecurityNotice, deviceSecurity
<1>4. CASE n.k = "block"
  <2>1. /\ blockPending' = FALSE /\ blockInput' = IF n.on THEN "on" ELSE "off"
        /\ notices' = Tail(notices)
        /\ UNCHANGED <<left, commands, privacyMode, privacyPending, activeImpl, deviceSecurity>>
    BY <1>4 DEF SecurityNotice
  <2>2. BlockKnown
    BY <1>1 DEF SecurityInv
  <2>3. BlockKnown'
    <3>1. OneAtATime(commands, notices, "block", blockPending) /\ blockPending \in BOOLEAN
      BY <2>2 DEF BlockKnown, SecurityInv, Types, SecurityTypeOK
    <3>2. /\ OneAtATime(commands, Tail(notices), "block", FALSE)
          /\ At(Tail(notices), "block") = {}
      <4>1. OneAtATime(commands, notices, "block", TRUE)
        BY <3>1 DEF OneAtATime
      <4> QED BY <1>1, <1>4, <4>1, OneTold
    <3>3. ASSUME inputOf = "blocked" PROVE n.on
      BY <1>1, <1>4, <2>2, <3>3, FirstIsOn DEF BlockKnown
    <3> HIDE DEF n
    <3> QED BY <2>1, <2>2, <3>2, <3>3 DEF BlockKnown, AllOn, deviceSecurity
  <2>4. ASSUME ~overruled PROVE PrivacyKnown'
    <3>1. PrivacyKnown /\ privacyPending \in BOOLEAN
      BY <1>1, <2>4 DEF SecurityInv, Types, SecurityTypeOK
    <3>2. /\ OneAtATime(commands, Tail(notices), "privacy", privacyPending)
          /\ AllOn(notices, "privacy") => AllOn(Tail(notices), "privacy")
      BY <1>1, <1>4, <3>1, OneToldOther DEF PrivacyKnown
    <3> QED BY <2>1, <3>1, <3>2 DEF PrivacyKnown, deviceSecurity
  <2> QED BY <1>1, <1>3, <2>1, <2>3, <2>4 DEF SecurityInv, deviceSecurity
<1>5. CASE n.k = "privacy"
  <2>1. /\ privacyPending' = FALSE /\ privacyMode' = IF n.on THEN "on" ELSE "off"
        /\ activeImpl' = IF n.fails THEN activeImpl ELSE IF n.on THEN n.impl ELSE ""
        /\ notices' = Tail(notices)
        /\ UNCHANGED <<left, commands, blockInput, blockPending, deviceSecurity>>
    BY <1>5 DEF SecurityNotice
  <2>2. BlockKnown /\ blockPending \in BOOLEAN
    BY <1>1 DEF SecurityInv, Types, SecurityTypeOK
  <2>3. BlockKnown'
    <3>1. /\ OneAtATime(commands, Tail(notices), "block", blockPending)
          /\ AllOn(notices, "block") => AllOn(Tail(notices), "block")
      BY <1>1, <1>5, <2>2, OneToldOther DEF BlockKnown
    <3> QED BY <2>1, <2>2, <3>1 DEF BlockKnown, deviceSecurity
  <2>4. ASSUME ~overruled PROVE PrivacyKnown'
    <3>1. PrivacyKnown /\ privacyPending \in BOOLEAN
      BY <1>1, <2>4 DEF SecurityInv, Types, SecurityTypeOK
    <3>2. /\ OneAtATime(commands, Tail(notices), "privacy", FALSE) /\ privacyPending = TRUE
          /\ At(Tail(notices), "privacy") = {}
      <4>1. OneAtATime(commands, notices, "privacy", privacyPending)
        BY <3>1 DEF PrivacyKnown
      <4>2. ~OneAtATime(commands, notices, "privacy", FALSE)
        BY <1>1, <1>5, NoneToTell
      <4>3. privacyPending = TRUE /\ OneAtATime(commands, notices, "privacy", TRUE)
        BY <3>1, <4>1, <4>2 DEF OneAtATime
      <4> QED BY <1>1, <1>5, <4>3, OneTold
    <3>3. n.impl \in Impls
      BY <1>2, <1>5 DEF Notices
    <3>4. activeImpl \in Impls
      BY <3>1, <3>2 DEF PrivacyKnown
    <3>5. ASSUME screenOf \in Impls PROVE n.on
      BY <1>1, <1>5, <3>1, <3>5, FirstIsOn DEF PrivacyKnown
    <3> HIDE DEF n
    <3> QED BY <2>1, <3>1, <3>2, <3>3, <3>4, <3>5 DEF PrivacyKnown, AllOn, deviceSecurity
  <2> QED BY <1>1, <1>3, <2>1, <2>3, <2>4 DEF SecurityInv, deviceSecurity
<1> QED BY <1>4, <1>5 DEF SecurityNotice

LEMMA LeaveKeeps ==
    ASSUME SecurityInv, LeaveSession
    PROVE  SecurityInv'
<1> DEFINE unblock == blockInput = "on" \/ blockPending
           unhide == (privacyMode = "on" \/ privacyPending) /\ activeImpl # ""
           cs1 == commands \o (IF unblock THEN <<Block(FALSE)>> ELSE <<>>)
           cs2 == cs1 \o (IF unhide THEN <<Privacy(activeImpl, FALSE)>> ELSE <<>>)
<1>1. commands' = cs2 /\ left' /\ ~left /\ UNCHANGED deviceSecurity
  BY DEF LeaveSession
<1>2. commands \in Seq(Commands)
  BY DEF SecurityInv, Types
<1>3. Block(FALSE) \in Commands /\ Block(FALSE).k = "block" /\ ~Block(FALSE).on
  BY MessagesTyped
<1>4. cs1 = IF unblock THEN Append(commands, Block(FALSE)) ELSE commands
  BY <1>2, <1>3, AppendIsConcat, ConcatEmptySeq
<1>5. cs1 \in Seq(Commands)
  <2>1. Append(commands, Block(FALSE)) \in Seq(Commands)
    BY <1>2, <1>3, AppendProperties
  <2> QED BY <1>2, <1>4, <2>1
<1> DEFINE c == Privacy(activeImpl, FALSE)
<1>6. unhide => c \in Commands /\ c.k = "privacy" /\ ~c.on
  <2>1. unhide => activeImpl \in Impls
    BY DEF SecurityInv, Types, SecurityTypeOK
  <2> QED BY <2>1, MessagesTyped
<1> HIDE DEF c, cs1
<1>7. cs2 = IF unhide THEN Append(cs1, c) ELSE cs1
  <2>1. cs2 = IF unhide THEN cs1 \o <<c>> ELSE cs1 \o <<>>
    BY DEF c
  <2>2. cs1 \o <<>> = cs1
    BY <1>5, ConcatEmptySeq
  <2>3. unhide => Append(cs1, c) = cs1 \o <<c>>
    BY <1>5, <1>6, AppendIsConcat
  <2> QED BY <2>1, <2>2, <2>3
<1>8. cs2 \in Seq(Commands)
  <2>1. CASE unhide
    <3>1. Append(cs1, c) \in Seq(Commands)
      BY <1>5, <1>6, <2>1, AppendProperties
    <3> QED BY <1>7, <2>1, <3>1
  <2>2. CASE ~unhide
    BY <1>5, <1>7, <2>2
  <2> QED BY <2>1, <2>2
<1> HIDE DEF cs2
<1>9. Types'
  <2>1. notices' \in Seq(Notices)
    BY EmptySeq DEF LeaveSession
  <2> QED BY <1>1, <1>8, <2>1
          DEF LeaveSession, SecurityInv, Types, SecurityTypeOK, deviceSecurity
<1>10. Undone(cs2, "block", inputOf = "blocked")
  <2> DEFINE blocked == inputOf = "blocked"
  <2>0. blocked \in BOOLEAN
    OBVIOUS
  <2>1. Undone(cs1, "block", blocked)
    <3>1. CASE unblock
      BY <1>2, <1>3, <1>4, <2>0, <3>1, UndoneByLast
    <3>2. CASE ~unblock
      <4>1. BlockKnown
        BY <1>1 DEF SecurityInv
      <4>2. At(commands, "block") = {} /\ inputOf # "blocked"
        BY <3>2, <4>1 DEF BlockKnown, OneAtATime
      <4> QED BY <1>4, <3>2, <4>2 DEF Undone
    <3> QED BY <3>1, <3>2
  <2> HIDE DEF blocked
  <2>2. CASE unhide
    <3>1. cs2 = Append(cs1, c) /\ c \in Commands /\ c.k # "block"
      BY <1>6, <1>7, <2>2
    <3>2. Undone(Append(cs1, c), "block", blocked)
      BY <1>5, <2>0, <2>1, <3>1, UndoneBefore
    <3> QED BY <3>1, <3>2 DEF blocked
  <2>3. CASE ~unhide
    BY <1>7, <2>1, <2>3 DEF blocked
  <2> QED BY <2>2, <2>3
<1>11. ASSUME ~overruled PROVE Undone(cs2, "privacy", screenOf \in Impls)
  <2> DEFINE hidden == screenOf \in Impls
  <2>0. hidden \in BOOLEAN
    OBVIOUS
  <2> HIDE DEF hidden
  <2>1. CASE unhide
    <3>1. cs2 = Append(cs1, c) /\ c \in Commands /\ c.k = "privacy" /\ ~c.on
      BY <1>6, <1>7, <2>1
    <3>2. Undone(Append(cs1, c), "privacy", hidden)
      BY <1>5, <2>0, <3>1, UndoneByLast
    <3> QED BY <3>1, <3>2 DEF hidden
  <2>2. CASE ~unhide
    <3>1. PrivacyKnown
      BY <1>1, <1>11 DEF SecurityInv
    <3>2. privacyMode # "on" /\ ~privacyPending
      BY <2>2, <3>1, SecurityAssumption DEF PrivacyKnown
    <3>3. At(commands, "privacy") = {} /\ screenOf \notin Impls
      BY <3>1, <3>2 DEF PrivacyKnown, OneAtATime
    <3>4. At(cs1, "privacy") = {}
      <4> DEFINE b == Block(FALSE)
      <4>1. b \in Commands /\ b.k # "privacy" /\ (cs1 = IF unblock THEN Append(commands, b) ELSE commands)
        BY <1>3, <1>4
      <4> HIDE DEF b
      <4>2. At(Append(commands, b), "privacy") = At(commands, "privacy")
        BY <1>2, <4>1, CommandAppended
      <4> QED BY <3>3, <4>1, <4>2
    <3> QED BY <1>7, <2>2, <3>3, <3>4 DEF Undone
  <2> QED BY <2>1, <2>2
<1> QED BY <1>1, <1>9, <1>10, <1>11 DEF SecurityInv, deviceSecurity

LEMMA DeviceBlocksKeeps ==
    ASSUME SecurityInv, NEW fails \in BOOLEAN, DeviceBlocks(fails)
    PROVE  SecurityInv'
<1> DEFINE c == Head(commands)
           n == [k |-> "block", on |-> c.on # fails]
<1>1. /\ commands # <<>> /\ c.k = "block" /\ commands' = Tail(commands)
      /\ UNCHANGED <<pageSecurity, screenOf, overruled>>
      /\ inputOf' = IF c.on THEN IF fails THEN "free" ELSE "blocked"
                    ELSE IF fails THEN "stuck" ELSE "free"
      /\ notices' = IF left THEN notices ELSE Append(notices, n)
  BY DEF DeviceBlocks, Tell
<1>2. commands \in Seq(Commands) /\ notices \in Seq(Notices)
  BY DEF SecurityInv, Types
<1>3. Tail(commands) \in Seq(Commands) /\ c \in Commands /\ c.on \in BOOLEAN
  BY <1>1, <1>2, HeadTailProperties DEF Commands
<1>4. n \in Notices /\ n.k = "block" /\ n.on = (c.on # fails)
  BY <1>3 DEF Notices
<1> HIDE DEF c, n
<1>5. Types'
  <2>1. notices' \in Seq(Notices)
    BY <1>1, <1>2, <1>4, AppendProperties
  <2> QED BY <1>1, <1>3, <2>1 DEF SecurityInv, Types, SecurityTypeOK, pageSecurity
<1>6. CASE ~left
  <2>1. BlockKnown /\ blockPending \in BOOLEAN /\ privacyPending \in BOOLEAN
    BY <1>6 DEF SecurityInv, Types, SecurityTypeOK
  <2>2. BlockKnown'
    <3>1. OneAtATime(commands, notices, "block", blockPending)
      BY <2>1 DEF BlockKnown
    <3>2. 1 \in At(commands, "block")
      BY <1>1, <1>2, TailOf DEF At, c
    <3>3. blockPending
      BY <3>1, <3>2 DEF OneAtATime
    <3>4. /\ OneAtATime(Tail(commands), Append(notices, n), "block", TRUE)
          /\ At(Append(notices, n), "block") = {Len(notices) + 1}
          /\ Append(notices, n)[Len(notices) + 1] = n
      <4>1. OneAtATime(commands, notices, "block", TRUE)
        BY <3>1 DEF OneAtATime
      <4> QED BY <1>1, <1>2, <1>4, <4>1, OneHandled DEF c
    <3>5. inputOf' = "blocked" => AllOn(Append(notices, n), "block")
      BY <1>1, <1>3, <1>4, <3>4 DEF AllOn
    <3>6. OneAtATime(Tail(commands), Append(notices, n), "block", blockPending)
      BY <3>3, <3>4 DEF OneAtATime
    <3> QED BY <1>1, <1>6, <3>3, <3>5, <3>6 DEF BlockKnown, pageSecurity
  <2>3. ASSUME ~overruled PROVE PrivacyKnown'
    <3>1. PrivacyKnown
      BY <1>6, <2>3 DEF SecurityInv
    <3>2. /\ OneAtATime(Tail(commands), Append(notices, n), "privacy", privacyPending)
          /\ AllOn(notices, "privacy") => AllOn(Append(notices, n), "privacy")
      <4>1. OneAtATime(commands, notices, "privacy", privacyPending)
        BY <3>1 DEF PrivacyKnown
      <4>2. c.k # "privacy" /\ n.k # "privacy"
        BY <1>1, <1>4
      <4> QED BY <1>1, <1>2, <1>4, <2>1, <4>1, <4>2, OneHandledOther DEF c
    <3> QED BY <1>1, <1>6, <3>1, <3>2 DEF PrivacyKnown, pageSecurity
  <2> QED BY <1>1, <1>5, <1>6, <2>2, <2>3 DEF SecurityInv, pageSecurity
<1>7. CASE left
  <2> DEFINE after == inputOf' = "blocked"
             hidden == screenOf \in Impls
             blocked == inputOf = "blocked"
  <2>1. Undone(Tail(commands), "block", after)
    <3>1. Undone(commands, "block", blocked)
      BY <1>7 DEF SecurityInv
    <3>2. (after => c.on) /\ after \in BOOLEAN /\ blocked \in BOOLEAN
      BY <1>1
    <3> HIDE DEF after, blocked
    <3> QED BY <1>1, <1>2, <3>1, <3>2, UndoneBehind DEF c
  <2>2. ASSUME ~overruled PROVE Undone(Tail(commands), "privacy", hidden)
    <3>1. Undone(commands, "privacy", hidden) /\ hidden \in BOOLEAN
      BY <1>7, <2>2 DEF SecurityInv
    <3>2. Head(commands).k # "privacy"
      BY <1>1 DEF c
    <3> HIDE DEF hidden
    <3> QED BY <1>1, <1>2, <3>1, <3>2, UndoneBehind
  <2> QED BY <1>1, <1>5, <1>7, <2>1, <2>2 DEF SecurityInv, pageSecurity
<1> QED BY <1>6, <1>7

LEMMA DeviceHidesKeeps ==
    ASSUME SecurityInv, NEW fails \in BOOLEAN, DeviceHides(fails)
    PROVE  SecurityInv'
<1> DEFINE c == Head(commands)
           n == [k |-> "privacy", on |-> c.on # fails, impl |-> c.impl, fails |-> fails]
<1>1. /\ commands # <<>> /\ c.k = "privacy" /\ commands' = Tail(commands)
      /\ UNCHANGED <<pageSecurity, inputOf, overruled>>
      /\ screenOf' = IF c.on THEN IF fails THEN "shown" ELSE c.impl
                     ELSE IF fails THEN "stuck" ELSE "shown"
      /\ notices' = IF left THEN notices ELSE Append(notices, n)
  BY DEF DeviceHides, Tell
<1>2. commands \in Seq(Commands) /\ notices \in Seq(Notices)
  BY DEF SecurityInv, Types
<1>3. Tail(commands) \in Seq(Commands) /\ c.on \in BOOLEAN /\ c.impl \in Impls
  BY <1>1, <1>2, HeadTailProperties DEF Commands
<1>4. n \in Notices /\ n.k = "privacy" /\ n.on = (c.on # fails)
  BY <1>3 DEF Notices
<1> HIDE DEF c, n
<1>5. Types'
  <2>1. notices' \in Seq(Notices)
    BY <1>1, <1>2, <1>4, AppendProperties
  <2> QED BY <1>1, <1>3, <2>1 DEF SecurityInv, Types, SecurityTypeOK, pageSecurity
<1>6. screenOf' \in Impls => c.on /\ ~fails
  BY <1>1, <1>3, SecurityAssumption
<1>7. CASE ~left
  <2>1. BlockKnown /\ blockPending \in BOOLEAN
    BY <1>7 DEF SecurityInv, Types, SecurityTypeOK
  <2>2. BlockKnown'
    <3>1. OneAtATime(commands, notices, "block", blockPending)
      BY <2>1 DEF BlockKnown
    <3>2. c.k # "block" /\ n.k # "block"
      BY <1>1, <1>4
    <3>3. /\ OneAtATime(Tail(commands), Append(notices, n), "block", blockPending)
          /\ AllOn(notices, "block") => AllOn(Append(notices, n), "block")
      BY <1>1, <1>2, <1>4, <2>1, <3>1, <3>2, OneHandledOther DEF c
    <3> QED BY <1>1, <1>7, <2>1, <3>3 DEF BlockKnown, pageSecurity
  <2>3. ASSUME ~overruled PROVE PrivacyKnown'
    <3>1. PrivacyKnown
      BY <1>7, <2>3 DEF SecurityInv
    <3>2. OneAtATime(commands, notices, "privacy", privacyPending)
      BY <3>1 DEF PrivacyKnown
    <3>3. 1 \in At(commands, "privacy")
      BY <1>1, <1>2, TailOf DEF At, c
    <3>4. privacyPending /\ OneAtATime(commands, notices, "privacy", TRUE)
      BY <3>2, <3>3 DEF OneAtATime
    <3>5. /\ OneAtATime(Tail(commands), Append(notices, n), "privacy", TRUE)
          /\ At(Append(notices, n), "privacy") = {Len(notices) + 1}
          /\ Append(notices, n)[Len(notices) + 1] = n
      BY <1>1, <1>2, <1>4, <3>4, OneHandled DEF c
    <3>6. screenOf' \in Impls => AllOn(Append(notices, n), "privacy")
      BY <1>3, <1>4, <1>6, <3>5 DEF AllOn
    <3>7. OneAtATime(Tail(commands), Append(notices, n), "privacy", privacyPending)
      BY <3>4, <3>5 DEF OneAtATime
    <3> QED BY <1>1, <1>7, <3>1, <3>4, <3>6, <3>7 DEF PrivacyKnown, pageSecurity
  <2> QED BY <1>1, <1>5, <1>7, <2>2, <2>3 DEF SecurityInv, pageSecurity
<1>8. CASE left
  <2> DEFINE after == screenOf' \in Impls
             hidden == screenOf \in Impls
             blocked == inputOf = "blocked"
  <2>1. ASSUME ~overruled PROVE Undone(Tail(commands), "privacy", after)
    <3>1. Undone(commands, "privacy", hidden)
      BY <1>8, <2>1 DEF SecurityInv
    <3>2. (after => c.on) /\ after \in BOOLEAN /\ hidden \in BOOLEAN
      BY <1>6
    <3> HIDE DEF after, hidden
    <3> QED BY <1>1, <1>2, <3>1, <3>2, UndoneBehind DEF c
  <2>2. Undone(Tail(commands), "block", blocked)
    <3>1. Undone(commands, "block", blocked) /\ blocked \in BOOLEAN
      BY <1>8 DEF SecurityInv
    <3>2. Head(commands).k # "block"
      BY <1>1 DEF c
    <3> HIDE DEF blocked
    <3> QED BY <1>1, <1>2, <3>1, <3>2, UndoneBehind
  <2> QED BY <1>1, <1>5, <1>8, <2>1, <2>2 DEF SecurityInv, pageSecurity
<1> QED BY <1>7, <1>8

LEMMA OverruledKeeps ==
    ASSUME SecurityInv, DeviceUserUnhides
    PROVE  SecurityInv'
<1> DEFINE n == [k |-> "privacy", on |-> FALSE, impl |-> screenOf, fails |-> FALSE]
<1>1. /\ screenOf' = "shown" /\ overruled' = TRUE /\ screenOf \in Impls
      /\ notices' = IF left THEN notices ELSE Append(notices, n)
      /\ UNCHANGED <<pageSecurity, commands, inputOf>>
  BY DEF DeviceUserUnhides, Tell
<1>2. n \in Notices /\ n.k # "block" /\ notices \in Seq(Notices)
  BY <1>1 DEF SecurityInv, Types, Notices
<1> HIDE DEF n
<1>3. Types'
  <2>1. notices' \in Seq(Notices)
    BY <1>1, <1>2, AppendProperties
  <2> QED BY <1>1, <2>1 DEF SecurityInv, Types, SecurityTypeOK, pageSecurity
<1>4. ASSUME ~left PROVE BlockKnown'
  <2>1. BlockKnown /\ blockPending \in BOOLEAN
    BY <1>4 DEF SecurityInv, Types, SecurityTypeOK
  <2>2. OneAtATime(commands, notices, "block", blockPending)
    BY <2>1 DEF BlockKnown
  <2>3. /\ OneAtATime(commands, Append(notices, n), "block", blockPending)
        /\ AllOn(notices, "block") => AllOn(Append(notices, n), "block")
    BY <1>2, <2>1, <2>2, OneNotedOther
  <2> QED BY <1>1, <1>4, <2>1, <2>3 DEF BlockKnown, pageSecurity
<1> QED BY <1>1, <1>3, <1>4 DEF SecurityInv, pageSecurity

LEMMA SecurityStarts == SecurityInit => SecurityInv
<1> SUFFICES ASSUME SecurityInit PROVE SecurityInv
  OBVIOUS
<1>1. At(<<>>, "block") = {} /\ At(<<>>, "privacy") = {}
  BY DEF At
<1>2. Types
  BY EmptySeq DEF SecurityInit, Types, SecurityTypeOK
<1>3. BlockKnown
  BY <1>1 DEF SecurityInit, BlockKnown, OneAtATime, AllOn
<1>4. PrivacyKnown
  BY <1>1, SecurityAssumption DEF SecurityInit, PrivacyKnown, OneAtATime, AllOn
<1> QED BY <1>2, <1>3, <1>4 DEF SecurityInit, SecurityInv

LEMMA SecurityStep ==
    ASSUME SecurityInv, [SecurityNext]_securityVars
    PROVE  SecurityInv'
<1>1. CASE ToggleBlockInput
  BY <1>1, ToggleBlockKeeps
<1>2. CASE SecurityNotice
  BY <1>2, NoticeKeeps
<1>3. CASE LeaveSession
  BY <1>3, LeaveKeeps
<1>4. CASE DeviceUserUnhides
  BY <1>4, OverruledKeeps
<1>5. CASE \E impl \in Impls : TogglePrivacy(impl)
  BY <1>5, TogglePrivacyKeeps
<1>6. CASE \E fails \in BOOLEAN : DeviceBlocks(fails)
  BY <1>6, DeviceBlocksKeeps
<1>7. CASE \E fails \in BOOLEAN : DeviceHides(fails)
  BY <1>7, DeviceHidesKeeps
<1>8. CASE UNCHANGED securityVars
  BY <1>8 DEF securityVars, pageSecurity, deviceSecurity, SecurityInv, Types, SecurityTypeOK,
              BlockKnown, PrivacyKnown
<1> QED BY <1>1, <1>2, <1>3, <1>4, <1>5, <1>6, <1>7, <1>8 DEF SecurityNext

LEMMA ReleaseFollows == SecurityInv => ReleasedOnLeave
<1> SUFFICES ASSUME SecurityInv, left, commands = <<>>
             PROVE  inputOf # "blocked" /\ (screenOf \in Impls => overruled)
  BY DEF ReleasedOnLeave
<1>1. At(commands, "block") = {} /\ At(commands, "privacy") = {}
  BY DEF At
<1> QED BY <1>1 DEF SecurityInv, Undone

\* A device the user left is released: its input free and its screen shown,
\* unless it failed to do so or its own user overruled privacy mode
\* (releaseRemoteSecurityState of the web client).
THEOREM LeftIsReleased == SecuritySpec => []ReleasedOnLeave
<1> QED BY ReleaseFollows, SecurityStarts, SecurityStep, PTL DEF SecuritySpec

-----------------------------------------------------------------------------
(* A restart of the device. *)

\* What the page shows of the session is what the session is, as long as there
\* is one; without one it shows none that is live.
ShowsSession ==
    /\ phase \in {"idle", "opening", "waiting", "live"}
    /\ HasWorker => page = phase /\ told = phase
    /\ HasWorker => overlay = (IF phase = "live" THEN "hidden" ELSE "busy")
    /\ ~HasWorker => page # "live" /\ overlay # "hidden"

RestartInv == RestartTypeOK /\ ShowsSession /\ NeverStranded /\ FarewellIsFinal

USE DEF HasWorker, NoSession, SameSession, ClearFlow, SameFlow, EndAs, StartSession, sessionOfPage
-----------------------------------------------------------------------------
LEMMA RestartStarts == RestartInit => RestartInv
BY DEF RestartInit, RestartInv, RestartTypeOK, ShowsSession, NeverStranded, FarewellIsFinal,
       Life!Phases

\* The session goes on, breaks, or is ended by either side.
LEMMA SessionKeeps ==
    ASSUME RestartInv,
           SessionGoesOn \/ SessionBreaks \/ SessionClosed \/ LoginError \/ WorkerError
              \/ RestartForbidden
    PROVE  RestartInv'
<1> USE DEF RestartInv, RestartTypeOK, ShowsSession, NeverStranded, FarewellIsFinal, Life!Phases
<1>1. CASE SessionGoesOn
  <2>1. phase' \in {"waiting", "live"} /\ told' = phase'
    BY <1>1 DEF SessionGoesOn, Life!Wait, Life!GoLive, Life!Enter
  <2>2. /\ HasWorker /\ page' = told'
        /\ overlay' = IF told' = "live" THEN "hidden" ELSE "busy"
        /\ retry' \in {retry, retry \cup {"stable"}} /\ offered' \in {offered, FALSE}
        /\ UNCHANGED <<flow, tried, late, farewell>>
    BY <1>1 DEF SessionGoesOn
  <2>3. RestartTypeOK' /\ FarewellIsFinal'
    BY <2>1, <2>2
  <2>4. ShowsSession'
    BY <2>1, <2>2
  <2>5. NeverStranded'
    BY <2>1, <2>2
  <2> QED BY <2>3, <2>4, <2>5
<1>2. CASE SessionBreaks
  BY <1>2 DEF SessionBreaks, ScheduleReconnect
<1>3. CASE SessionClosed
  BY <1>3 DEF SessionClosed
<1>4. CASE LoginError
  BY <1>4 DEF LoginError
<1>5. CASE WorkerError
  BY <1>5 DEF WorkerError
<1>6. CASE RestartForbidden
  BY <1>6 DEF RestartForbidden
<1> QED BY <1>1, <1>2, <1>3, <1>4, <1>5, <1>6

LEMMA UserKeeps ==
    ASSUME RestartInv, ConnectClick \/ BeginRestart \/ DisconnectClick \/ CancelReconnect
    PROVE  RestartInv'
<1> USE DEF RestartInv, RestartTypeOK, ShowsSession, NeverStranded, FarewellIsFinal, Life!Phases
<1>1. CASE ConnectClick
  BY <1>1 DEF ConnectClick
<1>2. CASE BeginRestart
  BY <1>2 DEF BeginRestart
<1>3. CASE DisconnectClick
  BY <1>3 DEF DisconnectClick
<1>4. CASE CancelReconnect
  BY <1>4 DEF CancelReconnect
<1> QED BY <1>1, <1>2, <1>3, <1>4

LEMMA TimersKeep ==
    ASSUME RestartInv, TwoMinutesPass \/ Expire \/ RetryTimer \/ StableTimer
    PROVE  RestartInv'
<1> USE DEF RestartInv, RestartTypeOK, ShowsSession, NeverStranded, FarewellIsFinal, Life!Phases
<1>1. CASE TwoMinutesPass
  BY <1>1 DEF TwoMinutesPass
<1>2. CASE Expire
  BY <1>2 DEF Expire
<1>3. CASE RetryTimer
  BY <1>3 DEF RetryTimer
<1>4. CASE StableTimer
  BY <1>4, ZenonT(40) DEF StableTimer
<1> QED BY <1>1, <1>2, <1>3, <1>4

LEMMA RestartStep ==
    ASSUME RestartInv, [RestartNext]_restartVars
    PROVE  RestartInv'
<1>1. CASE UNCHANGED restartVars
  BY <1>1 DEF restartVars, RestartInv, RestartTypeOK, ShowsSession, NeverStranded,
              FarewellIsFinal, Life!Phases
<1> QED BY <1>1, SessionKeeps, UserKeeps, TimersKeep DEF RestartNext

LEMMA RestartInvariant == RestartSpec => []RestartInv
BY RestartStarts, RestartStep, PTL DEF RestartSpec

\* The page that shows itself busy has a session or an armed timer, and no timer
\* to begin a session is armed beside one (restartFlow of the web client's page).
THEOREM BusyPageGoesOn == RestartSpec => []NeverStranded
<1>1. RestartInv => NeverStranded
  BY DEF RestartInv
<1> QED BY <1>1, RestartInvariant, PTL

\* After a farewell of the user or the device no session is begun but by the
\* user (clearRestartFlow, wherever a session ends for good).
THEOREM NoSessionAfterFarewell == RestartSpec => []FarewellIsFinal
<1>1. RestartInv => FarewellIsFinal
  BY DEF RestartInv
<1> QED BY <1>1, RestartInvariant, PTL

HIDE DEF HasWorker, NoSession, SameSession, ClearFlow, SameFlow, EndAs, StartSession, sessionOfPage
=============================================================================
