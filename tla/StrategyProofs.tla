----------------------------- MODULE StrategyProofs -----------------------------
(***************************************************************************)
(* What holds of the strategies for every number of console requests,      *)
(* strategies and versions: the types, and that a version names one set of *)
(* options wherever it is held; and, for one request at a time, that there *)
(* is at most one default.                                                 *)
(***************************************************************************)
EXTENDS StrategySync, FiniteSetTheorems, WellFoundedInduction, TLAPS

EditRow == [op: {"edit"}, pk: Pks, content: Contents, version: Versions]
DefaultRow == [op: {"default"}, pk: Pks \cup {None}, on: SUBSET Pks]
AskRow == {NoAsk} \cup EditRow \cup DefaultRow

\* Somewhere version v stands for options with, or without, the ordinary option: in a row,
\* in an edit on its way to one, in an answer on its way to the client, or at the client.
InRow(v, o) == \E p \in DOMAIN strategies : strategies[p].version = v /\ strategies[p].content.opt = o
InEdit(v, o) == \E a \in Admins : ask[a].op = "edit" /\ ask[a].version = v /\ ask[a].content.opt = o
InAnswer(v, o) == beat.phase = "answered" /\ beat.carries /\ beat.version = v /\ beat.options.opt = o
AtClient(v, o) == client.have = v /\ client.opt = o
Means(v, o) == InRow(v, o) \/ InEdit(v, o) \/ InAnswer(v, o) \/ AtClient(v, o) \/ (v = 0 /\ ~o)

\* The strengthening: no version stands for two things, and none was not taken yet.
OneMeaning ==
    /\ \A v \in Versions, o \in BOOLEAN, q \in BOOLEAN : Means(v, o) /\ Means(v, q) => o = q
    /\ \A v \in Versions, o \in BOOLEAN : Means(v, o) => v <= clock

IInv == TypeOK /\ OneMeaning

-----------------------------------------------------------------------------
(* Lemmas *)

LEMMA RowsType ==
    ASSUME TypeOK
    PROVE  DOMAIN strategies \subseteq Pks /\ strategies \in [DOMAIN strategies -> Rows]
BY DEF TypeOK

LEMMA AskType ==
    ASSUME TypeOK, NEW a \in Admins
    PROVE  /\ ask[a].op = "edit" => ask[a] \in EditRow
           /\ ask[a].op = "default" => ask[a] \in DefaultRow
BY DEF TypeOK, AskRow, EditRow, DefaultRow, NoAsk

\* The order of the numbers, as the library's theorem on minima needs it.
LEMMA OrderOfNat == \A x \in Nat, y \in Nat : <<x, y>> \in OpToRel(<, Nat) <=> x < y
BY DEF OpToRel

\* The default strategy in force is a row of the table.
LEMMA GetDefaultType ==
    ASSUME TypeOK
    PROVE  GetDefault \in {None} \cup DOMAIN strategies
<1>1. CASE Defaults = {}
  BY <1>1 DEF GetDefault
<1>2. CASE Defaults # {}
  <2>1. Defaults \subseteq Nat
    BY RowsType, BoundsAssumption DEF Defaults, Pks
  <2>2. PICK m \in Defaults : \A q \in Defaults : ~(<<q, m>> \in OpToRel(<, Nat))
    BY <1>2, <2>1, NatLessThanWellFounded, WFMin
  <2>3. \A q \in Defaults : ~(q < m)
    BY <2>1, <2>2, OrderOfNat
  <2>4. \A q \in Defaults : m <= q
    BY <2>1, <2>3
  <2>5. GetDefault \in Defaults
    BY <1>2, <2>4 DEF GetDefault
  <2>6. QED BY <2>5 DEF Defaults
<1>3. QED BY <1>1, <1>2

\* What a heartbeat is answered from, if anything, is a row of the table.
LEMMA EffectiveType ==
    ASSUME TypeOK, NEW own \in Pks \cup {None}, NEW member \in BOOLEAN
    PROVE  Effective(own, member) \in {None} \cup DOMAIN strategies
BY GetDefaultType, RowsType DEF Effective, Exists, TypeOK

\* The slots of the console requests stay well-formed when one of them becomes so.
LEMMA AskStepType ==
    ASSUME TypeOK, NEW a \in Admins, NEW r \in AskRow, ask' = [ask EXCEPT ![a] = r]
    PROVE  ask' \in [Admins -> AskRow]
BY DEF TypeOK, AskRow, EditRow, DefaultRow

\* A step that brings no meaning about leaves every version with the one it had.
LEMMA NoNewMeaning ==
    ASSUME OneMeaning, clock' = clock,
           \A v \in Versions, o \in BOOLEAN : Means(v, o)' => Means(v, o)
    PROVE  OneMeaning'
BY DEF OneMeaning

\* A step that brings one about, for the version it takes from the clock, does so too.
LEMMA OneNewMeaning ==
    ASSUME OneMeaning, clock \in Versions, clock' = clock + 1, NEW n \in BOOLEAN,
           \A v \in Versions, o \in BOOLEAN : Means(v, o)' => Means(v, o) \/ (v = clock' /\ o = n)
    PROVE  OneMeaning'
<1>1. \A v \in Versions, o \in BOOLEAN : Means(v, o) => v # clock'
  BY BoundsAssumption DEF OneMeaning, Versions
<1>2. \A v \in Versions, o \in BOOLEAN : Means(v, o)' => v <= clock'
  BY BoundsAssumption DEF OneMeaning, Versions
<1>3. QED BY <1>1, <1>2 DEF OneMeaning

-----------------------------------------------------------------------------
(* Init *)

LEMMA InitHolds == Init => IInv
<1>. SUFFICES ASSUME Init PROVE IInv
  OBVIOUS
<1>1. strategies \in [{} -> Rows] /\ DOMAIN strategies = {}
  BY DEF Init
<1>2. TypeOK
  <2>1. \E S \in SUBSET Pks : strategies \in [S -> Rows]
    BY <1>1
  <2>2. device \in [own: {None} \cup DOMAIN strategies, member: BOOLEAN,
                    group: {None} \cup DOMAIN strategies]
    <3>1. device = [own |-> None, member |-> FALSE, group |-> None]
      BY DEF Init
    <3>2. QED BY <3>1
  <2>3. clock \in Versions /\ client \in [have: 0..clock, opt: BOOLEAN, api: BOOLEAN]
    <3>1. clock = 0 /\ clock \in Versions
      BY BoundsAssumption DEF Init, Versions
    <3>2. client \in [have: {0}, opt: {FALSE}, api: BOOLEAN]
      BY DEF Init
    <3>3. PICK x \in BOOLEAN : client = [have |-> 0, opt |-> FALSE, api |-> x]
      BY <3>2
    <3>4. 0 \in 0..clock /\ FALSE \in BOOLEAN
      BY <3>1
    <3>5. client \in [have: 0..clock, opt: BOOLEAN, api: BOOLEAN]
      BY Zenon, <3>3, <3>4
    <3>6. QED BY <3>1, <3>5
  <2>4. ask \in [Admins -> AskRow]
    BY DEF Init, AskRow
  <2>5. QED BY <1>1, <2>1, <2>2, <2>3, <2>4 DEF Init, TypeOK, AskRow, EditRow, DefaultRow
<1>3. OneMeaning
  <2>1. ASSUME NEW v \in Versions, NEW o \in BOOLEAN, Means(v, o)
        PROVE  v = 0 /\ ~o
    <3>1. ~InRow(v, o)
      BY <1>1 DEF InRow
    <3>2. ~InEdit(v, o)
      BY DEF Init, InEdit, NoAsk
    <3>3. ~InAnswer(v, o)
      BY DEF Init, InAnswer, NoBeat
    <3>4. QED BY <2>1, <3>1, <3>2, <3>3 DEF Init, Means, AtClient
  <2>2. QED BY <2>1 DEF Init, OneMeaning
<1>4. QED BY <1>2, <1>3 DEF IInv

-----------------------------------------------------------------------------
(* The console *)

\* What a request writes to the table concerns neither the client nor its heartbeat.
Aside == recent' = recent /\ beat' = beat /\ client' = client

\* A table with rows, the clock of which may have moved on, leaves the rest well-formed.
LEMMA TableType ==
    ASSUME TypeOK, Aside, clock' \in Versions, clock <= clock',
           DOMAIN strategies' \subseteq Pks, strategies' \in [DOMAIN strategies' -> Rows],
           \A p \in DOMAIN strategies' : strategies'[p].version <= clock',
           device' \in [own: {None} \cup DOMAIN strategies', member: BOOLEAN,
                        group: {None} \cup DOMAIN strategies'],
           ask' \in [Admins -> AskRow]
    PROVE  TypeOK'
<1>1. client' \in [have: 0..clock', opt: BOOLEAN, api: BOOLEAN]
  BY BoundsAssumption DEF TypeOK, Aside, Versions
<1>2. \E S \in SUBSET Pks : strategies' \in [S -> Rows]
  OBVIOUS
<1>3. \/ beat' = NoBeat
      \/ beat' \in [phase: {"sent"}, awaited: BOOLEAN, have: Versions, http: BOOLEAN]
      \/ beat' \in [phase: {"read"}, awaited: BOOLEAN, have: Versions, http: BOOLEAN,
                    own: Pks \cup {None}, member: BOOLEAN, recent: BOOLEAN]
      \/ beat' \in [phase: {"answered"}, carries: BOOLEAN, version: Versions,
                    options: [opt: BOOLEAN, api: {"set", "reset", "absent"}]]
  BY DEF TypeOK, Aside
<1>4. recent' \in BOOLEAN
  BY DEF TypeOK, Aside
<1>5. QED BY <1>1, <1>2, <1>3, <1>4 DEF TypeOK, AskRow, EditRow, DefaultRow

\* The version that is taken is the new instant: no version is ahead of the clock.
LEMMA VersionTaken ==
    ASSUME TypeOK, Tick, NEW previous \in Nat, previous <= clock
    PROVE  /\ clock' = clock + 1 /\ clock' \in Versions
           /\ NextVersion(previous) = clock'
BY BoundsAssumption DEF TypeOK, Tick, NextVersion, Versions

LEMMA CreateHolds ==
    ASSUME IInv, Create
    PROVE  IInv'
<1>1. /\ clock \in Versions /\ clock' = clock + 1 /\ clock' \in Versions
      /\ NextVersion(0) = clock' /\ clock <= clock'
  BY VersionTaken, BoundsAssumption DEF IInv, TypeOK, Create, Versions
<1>2. PICK c \in Contents :
        strategies' = [p \in DOMAIN strategies \cup {NextPk} |->
            IF p = NextPk THEN [content |-> c, version |-> clock', default |-> FALSE]
            ELSE strategies[p]]
  BY <1>1 DEF Create
<1>3. /\ DOMAIN strategies' = DOMAIN strategies \cup {NextPk}
      /\ \A p \in DOMAIN strategies' :
            strategies'[p] = IF p = NextPk
                             THEN [content |-> c, version |-> clock', default |-> FALSE]
                             ELSE strategies[p]
  BY <1>2
<1>4. Aside /\ device' = device /\ ask' = ask
  BY DEF Create, Aside
<1>5. TypeOK'
  <2>1. [content |-> c, version |-> clock', default |-> FALSE] \in Rows
    BY <1>1 DEF Rows
  <2>2. strategies' \in [DOMAIN strategies' -> Rows]
    BY <1>2, <1>3, <2>1, RowsType DEF IInv
  <2>3. DOMAIN strategies' \subseteq Pks
    BY <1>3, RowsType DEF IInv, Create
  <2>4. \A p \in DOMAIN strategies' : strategies'[p].version <= clock'
    BY <1>1, <1>3, RowsType, BoundsAssumption DEF IInv, TypeOK, Rows, Versions
  <2>5. ask' \in [Admins -> AskRow]
    BY <1>4 DEF IInv, TypeOK, AskRow, EditRow, DefaultRow
  <2>6. QED BY <1>1, <1>3, <1>4, <2>2, <2>3, <2>4, <2>5, TableType DEF IInv, TypeOK
<1>6. c.opt \in BOOLEAN
  BY ContentsAssumption
<1>7. \A v \in Versions, o \in BOOLEAN : Means(v, o)' => Means(v, o) \/ (v = clock' /\ o = c.opt)
  BY <1>3, <1>4 DEF Means, InRow, InEdit, InAnswer, AtClient, Aside
<1>8. QED BY <1>1, <1>5, <1>6, <1>7, OneNewMeaning DEF IInv

LEMMA DeleteHolds ==
    ASSUME IInv, NEW p \in Pks, Delete(p)
    PROVE  IInv'
<1>1. /\ DOMAIN strategies' = DOMAIN strategies \ {p}
      /\ \A q \in DOMAIN strategies' : strategies'[q] = strategies[q]
      /\ strategies' \in [DOMAIN strategies' -> Rows]
  BY RowsType DEF IInv, Delete
<1>2. device' \in [own: {None} \cup DOMAIN strategies', member: BOOLEAN,
                   group: {None} \cup DOMAIN strategies']
  BY <1>1 DEF IInv, TypeOK, Delete, Unset
<1>3. Aside /\ clock' = clock /\ ask' = ask
  BY DEF Delete, Aside
<1>4. /\ ask' \in [Admins -> AskRow] /\ clock' \in Versions /\ clock <= clock'
      /\ DOMAIN strategies' \subseteq Pks
      /\ \A q \in DOMAIN strategies' : strategies'[q].version <= clock'
  BY <1>1, <1>3, RowsType, BoundsAssumption
     DEF IInv, TypeOK, AskRow, EditRow, DefaultRow, Versions
<1>5. TypeOK'
  BY <1>1, <1>2, <1>3, <1>4, TableType DEF IInv
<1>6. \A v \in Versions, o \in BOOLEAN : Means(v, o)' => Means(v, o)
  BY <1>1, <1>3 DEF Means, InRow, InEdit, InAnswer, AtClient, Aside
<1>7. QED BY <1>3, <1>5, <1>6, NoNewMeaning DEF IInv

LEMMA AssignHolds ==
    ASSUME IInv, Assign
    PROVE  IInv'
<1>1. device' \in [own: {None} \cup DOMAIN strategies, member: BOOLEAN,
                   group: {None} \cup DOMAIN strategies]
  BY DEF IInv, TypeOK, Assign
<1>2. UNCHANGED <<strategies, recent, clock, ask, beat, client>>
  BY DEF Assign
<1>3. TypeOK'
  BY <1>1, <1>2 DEF IInv, TypeOK
<1>4. \A v \in Versions, o \in BOOLEAN : Means(v, o)' => Means(v, o)
  BY <1>2 DEF Means, InRow, InEdit, InAnswer, AtClient
<1>5. QED BY <1>2, <1>3, <1>4, NoNewMeaning DEF IInv

LEMMA EditReadHolds ==
    ASSUME IInv, NEW a \in Admins, NEW p \in Pks, EditRead(a, p)
    PROVE  IInv'
<1>1. strategies[p] \in Rows /\ strategies[p].version \in Nat /\ strategies[p].version <= clock
  BY RowsType, BoundsAssumption DEF IInv, TypeOK, EditRead, Exists, Rows, Versions
<1>2. /\ clock \in Versions /\ clock' = clock + 1 /\ clock' \in Versions
      /\ NextVersion(strategies[p].version) = clock' /\ clock <= clock'
  BY <1>1, VersionTaken, BoundsAssumption DEF IInv, TypeOK, EditRead, Versions
<1>3. PICK c \in Contents :
        ask' = [ask EXCEPT ![a] = [op |-> "edit", pk |-> p, content |-> c, version |-> clock']]
  BY <1>2 DEF EditRead
<1>4. Aside /\ device' = device /\ strategies' = strategies
  BY DEF EditRead, Aside
<1>5. TypeOK'
  <2>1. [op |-> "edit", pk |-> p, content |-> c, version |-> clock'] \in AskRow
    BY <1>2 DEF AskRow, EditRow
  <2>2. ask' \in [Admins -> AskRow]
    BY <1>3, <2>1, AskStepType DEF IInv
  <2>3. \A q \in DOMAIN strategies' : strategies'[q].version <= clock'
    BY <1>2, <1>4, RowsType, BoundsAssumption DEF IInv, TypeOK, Rows, Versions
  <2>4. QED BY <1>2, <1>4, <2>2, <2>3, RowsType, TableType DEF IInv, TypeOK
<1>6. c.opt \in BOOLEAN
  BY ContentsAssumption
<1>7. \A v \in Versions, o \in BOOLEAN : Means(v, o)' => Means(v, o) \/ (v = clock' /\ o = c.opt)
  <2>1. \A x \in Admins \ {a} : ask'[x] = ask[x]
    BY <1>3 DEF IInv, TypeOK
  <2>2. ask'[a] = [op |-> "edit", pk |-> p, content |-> c, version |-> clock']
    BY <1>3 DEF IInv, TypeOK
  <2>3. \A v \in Versions, o \in BOOLEAN : InEdit(v, o)' => InEdit(v, o) \/ (v = clock' /\ o = c.opt)
    BY <2>1, <2>2 DEF InEdit
  <2>4. QED BY <1>4, <2>3 DEF Means, InRow, InAnswer, AtClient, Aside
<1>8. QED BY <1>2, <1>5, <1>6, <1>7, OneNewMeaning DEF IInv

\* A request that is answered frees its slot.
LEMMA AskFreed ==
    ASSUME TypeOK, NEW a \in Admins, ask' = [ask EXCEPT ![a] = NoAsk]
    PROVE  /\ ask' \in [Admins -> AskRow]
           /\ \A v \in Versions, o \in BOOLEAN : InEdit(v, o)' => InEdit(v, o)
<1>1. ask' \in [Admins -> AskRow]
  BY AskStepType DEF AskRow
<1>2. \A x \in Admins : ask'[x] = NoAsk \/ ask'[x] = ask[x]
  BY DEF TypeOK
<1>3. \A v \in Versions, o \in BOOLEAN : InEdit(v, o)' => InEdit(v, o)
  BY <1>2 DEF InEdit, NoAsk
<1>4. QED BY <1>1, <1>3

LEMMA EditWriteHolds ==
    ASSUME IInv, NEW a \in Admins, EditWrite(a)
    PROVE  IInv'
<1>1. /\ ask[a].content \in Contents /\ ask[a].version \in Versions
      /\ ask[a].content.opt \in BOOLEAN
  BY AskType, ContentsAssumption DEF IInv, EditWrite, EditRow
<1>2. InEdit(ask[a].version, ask[a].content.opt)
  BY DEF EditWrite, InEdit
<1>3. ask[a].version <= clock
  BY <1>1, <1>2 DEF IInv, OneMeaning, Means
<1>4. DOMAIN strategies' = DOMAIN strategies
  BY DEF EditWrite
<1>5. /\ strategies' \in [DOMAIN strategies -> Rows]
      /\ \A p \in DOMAIN strategies :
            \/ strategies'[p] = strategies[p]
            \/ strategies'[p].version = ask[a].version /\ strategies'[p].content = ask[a].content
  <2>1. \A p \in DOMAIN strategies : strategies[p] \in Rows
    BY RowsType DEF IInv
  <2>2. QED BY <1>1, <2>1 DEF EditWrite, Rows
<1>6. Aside /\ device' = device /\ clock' = clock
  BY DEF EditWrite, Aside
<1>7. ask' = [ask EXCEPT ![a] = NoAsk]
  BY DEF EditWrite
<1>8. TypeOK'
  <2>1. strategies' \in [DOMAIN strategies' -> Rows]
    BY <1>4, <1>5
  <2>2. \A p \in DOMAIN strategies' : strategies'[p].version <= clock'
    BY <1>3, <1>4, <1>5, <1>6 DEF IInv, TypeOK
  <2>3. clock' \in Versions /\ clock <= clock' /\ DOMAIN strategies' \subseteq Pks
    BY <1>4, <1>6, RowsType, BoundsAssumption DEF IInv, TypeOK, Versions
  <2>4. QED BY <1>4, <1>6, <1>7, <2>1, <2>2, <2>3, AskFreed, TableType DEF IInv, TypeOK
<1>9. \A v \in Versions, o \in BOOLEAN : Means(v, o)' => Means(v, o)
  <2>1. \A v \in Versions, o \in BOOLEAN : InRow(v, o)' => InRow(v, o) \/ InEdit(v, o)
    BY <1>2, <1>4, <1>5 DEF InRow
  <2>2. \A v \in Versions, o \in BOOLEAN : InEdit(v, o)' => InEdit(v, o)
    BY <1>7, AskFreed DEF IInv
  <2>3. QED BY <1>6, <2>1, <2>2 DEF Means, InAnswer, AtClient, Aside
<1>10. QED BY <1>6, <1>8, <1>9, NoNewMeaning DEF IInv

LEMMA DefaultReadHolds ==
    ASSUME IInv, NEW a \in Admins, NEW p \in Pks, DefaultRead(a, p)
    PROVE  IInv'
<1>1. PICK q \in Pks \cup {None} :
        ask' = [ask EXCEPT ![a] = [op |-> "default", pk |-> q, on |-> Defaults]]
  BY DEF DefaultRead
<1>2. [op |-> "default", pk |-> q, on |-> Defaults] \in AskRow
  BY RowsType DEF IInv, AskRow, DefaultRow, Defaults
<1>3. Aside /\ device' = device /\ strategies' = strategies /\ clock' = clock
  BY DEF DefaultRead, Aside
<1>4. TypeOK'
  <2>1. ask' \in [Admins -> AskRow]
    BY <1>1, <1>2, AskStepType DEF IInv
  <2>2. clock' \in Versions /\ clock <= clock'
    BY <1>3, BoundsAssumption DEF IInv, TypeOK, Versions
  <2>3. QED BY <1>3, <2>1, <2>2, RowsType, TableType DEF IInv, TypeOK
<1>5. \A v \in Versions, o \in BOOLEAN : Means(v, o)' => Means(v, o)
  <2>1. \A x \in Admins : ask'[x] = ask[x] \/ ask'[x].op = "default"
    BY <1>1 DEF IInv, TypeOK
  <2>2. \A v \in Versions, o \in BOOLEAN : InEdit(v, o)' => InEdit(v, o)
    BY <2>1 DEF InEdit
  <2>3. QED BY <1>3, <2>2 DEF Means, InRow, InAnswer, AtClient, Aside
<1>6. QED BY <1>3, <1>4, <1>5, NoNewMeaning DEF IInv

LEMMA DefaultWriteHolds ==
    ASSUME IInv, NEW a \in Admins, DefaultWrite(a)
    PROVE  IInv'
<1>1. /\ DOMAIN strategies' = DOMAIN strategies
      /\ strategies' \in [DOMAIN strategies -> Rows]
      /\ \A p \in DOMAIN strategies : /\ strategies'[p].version = strategies[p].version
                                      /\ strategies'[p].content = strategies[p].content
  <2>1. CASE strategies' = strategies
    BY <2>1, RowsType DEF IInv
  <2>2. CASE strategies' = Defaulted(ask[a])
    <3>1. \A p \in DOMAIN strategies :
            strategies[p] \in Rows /\ strategies[p].default \in BOOLEAN
      BY RowsType DEF IInv, Rows
    <3>2. \A p \in DOMAIN strategies : \E d \in BOOLEAN :
            strategies'[p] = [strategies[p] EXCEPT !.default = d]
      BY <2>2, <3>1 DEF Defaulted
    <3>3. strategies' = [p \in DOMAIN strategies |-> strategies'[p]]
      BY <2>2 DEF Defaulted
    <3>4. QED BY <3>1, <3>2, <3>3 DEF Rows
  <2>3. QED BY <2>1, <2>2 DEF DefaultWrite
<1>2. Aside /\ device' = device /\ clock' = clock
  BY DEF DefaultWrite, Aside
<1>3. ask' = [ask EXCEPT ![a] = NoAsk]
  BY DEF DefaultWrite
<1>4. TypeOK'
  <2>1. /\ clock' \in Versions /\ clock <= clock' /\ DOMAIN strategies' \subseteq Pks
        /\ \A p \in DOMAIN strategies' : strategies'[p].version <= clock'
    BY <1>1, <1>2, RowsType, BoundsAssumption DEF IInv, TypeOK, Versions
  <2>2. QED BY <1>1, <1>2, <1>3, <2>1, AskFreed, TableType DEF IInv, TypeOK
<1>5. \A v \in Versions, o \in BOOLEAN : Means(v, o)' => Means(v, o)
  <2>1. \A v \in Versions, o \in BOOLEAN : InEdit(v, o)' => InEdit(v, o)
    BY <1>3, AskFreed DEF IInv
  <2>2. \A v \in Versions, o \in BOOLEAN : InRow(v, o)' => InRow(v, o)
    BY <1>1 DEF InRow
  <2>3. QED BY <1>2, <2>1, <2>2 DEF Means, InAnswer, AtClient, Aside
<1>6. QED BY <1>2, <1>4, <1>5, NoNewMeaning DEF IInv

-----------------------------------------------------------------------------
(* The client and its heartbeat *)

BeatRow == [phase: {"sent"}, awaited: BOOLEAN, have: Versions, http: BOOLEAN]
ReadRow == [phase: {"read"}, awaited: BOOLEAN, have: Versions, http: BOOLEAN,
            own: Pks \cup {None}, member: BOOLEAN, recent: BOOLEAN]
AnswerRow == [phase: {"answered"}, carries: BOOLEAN, version: Versions,
              options: [opt: BOOLEAN, api: {"set", "reset", "absent"}]]
BeatType == beat = NoBeat \/ beat \in BeatRow \/ beat \in ReadRow \/ beat \in AnswerRow

\* What happens between the client and the server leaves the configuration alone.
LEMMA WireType ==
    ASSUME TypeOK, UNCHANGED config, recent' \in BOOLEAN, BeatType',
           client' \in [have: 0..clock, opt: BOOLEAN, api: BOOLEAN]
    PROVE  TypeOK'
BY DEF TypeOK, config, BeatType, BeatRow, ReadRow, AnswerRow

\* The meanings are those of before when the answer and the client bring no others.
LEMMA WireMeaning ==
    ASSUME OneMeaning, UNCHANGED config,
           \A v \in Versions, o \in BOOLEAN : InAnswer(v, o)' \/ AtClient(v, o)' => Means(v, o)
    PROVE  OneMeaning'
<1>1. \A v \in Versions, o \in BOOLEAN : Means(v, o)' => Means(v, o)
  BY DEF config, Means, InRow, InEdit
<1>2. QED BY <1>1, NoNewMeaning DEF config

\* The steps of the client that bring no options to it.
LEMMA ClientHolds ==
    ASSUME IInv, Send \/ DropApi \/ GiveUp \/ LoseAnswer \/ Elapse \/ BeatRead
    PROVE  IInv'
<1>1. UNCHANGED config /\ recent' \in BOOLEAN
  BY DEF IInv, TypeOK, Send, DropApi, GiveUp, LoseAnswer, Elapse, BeatRead
<1>2. /\ client' \in [have: 0..clock, opt: BOOLEAN, api: BOOLEAN]
      /\ client'.have = client.have /\ client'.opt = client.opt
  BY DEF IInv, TypeOK, Send, DropApi, GiveUp, LoseAnswer, Elapse, BeatRead
<1>3. BeatType' /\ (beat' = beat \/ beat'.phase # "answered")
  <2>1. CASE Send
    <3>1. client.have \in Versions /\ client.api \in BOOLEAN
      BY BoundsAssumption DEF IInv, TypeOK, Versions
    <3>2. beat' \in BeatRow
      BY <2>1, <3>1 DEF Send, BeatRow
    <3>3. QED BY <3>2 DEF BeatType, BeatRow
  <2>2. CASE DropApi \/ Elapse
    BY <2>2 DEF IInv, TypeOK, DropApi, Elapse, BeatType, BeatRow, ReadRow, AnswerRow
  <2>3. CASE GiveUp
    <3>1. beat \in BeatRow \/ beat \in ReadRow
      BY <2>3 DEF IInv, TypeOK, GiveUp, BeatRow, ReadRow, NoBeat
    <3>2. beat' \in BeatRow \/ beat' \in ReadRow \/ beat' = NoBeat
      BY <2>3, <3>1 DEF GiveUp, BeatRow, ReadRow
    <3>3. QED BY <3>2 DEF BeatType, BeatRow, ReadRow, NoBeat
  <2>4. CASE LoseAnswer
    BY <2>4 DEF LoseAnswer, BeatType, NoBeat
  <2>5. CASE BeatRead
    <3>1. beat \in BeatRow
      BY <2>5 DEF IInv, TypeOK, BeatRead, BeatRow, NoBeat
    <3>2. device.own \in Pks \cup {None} /\ device.member \in BOOLEAN /\ recent \in BOOLEAN
      BY RowsType DEF IInv, TypeOK
    <3>3. beat' \in ReadRow
      BY <2>5, <3>1, <3>2 DEF BeatRead, BeatRow, ReadRow
    <3>4. QED BY <3>3 DEF BeatType, ReadRow
  <2>6. QED BY <2>1, <2>2, <2>3, <2>4, <2>5
<1>4. \A v \in Versions, o \in BOOLEAN : InAnswer(v, o)' \/ AtClient(v, o)' => Means(v, o)
  BY <1>2, <1>3 DEF Means, InAnswer, AtClient
<1>5. QED BY <1>1, <1>2, <1>3, <1>4, WireType, WireMeaning DEF IInv

LEMMA ReceiveHolds ==
    ASSUME IInv, Receive
    PROVE  IInv'
<1>1. beat \in AnswerRow
  BY DEF IInv, TypeOK, Receive, AnswerRow, NoBeat
<1>2. UNCHANGED config /\ recent' \in BOOLEAN /\ beat' = NoBeat
  BY DEF IInv, TypeOK, Receive
<1>3. beat.carries => InAnswer(beat.version, beat.options.opt)
  BY DEF Receive, InAnswer
<1>4. \/ client' = client
      \/ beat.carries /\ client' = Applied(client, beat)
  BY DEF Receive
<1>5. beat.carries => beat.version \in 0..clock
  BY <1>1, <1>3, BoundsAssumption DEF IInv, TypeOK, OneMeaning, Means, AnswerRow, Versions
<1>6. client' \in [have: 0..clock, opt: BOOLEAN, api: BOOLEAN]
  <2>1. CASE client' = client
    BY <2>1 DEF IInv, TypeOK
  <2>2. CASE beat.carries /\ client' = Applied(client, beat)
    <3>1. (beat.options.api = "set" \/ (client.api /\ beat.options.api = "absent")) \in BOOLEAN
      OBVIOUS
    <3>2. beat.options.opt \in BOOLEAN
      BY <1>1 DEF AnswerRow
    <3>3. QED BY <1>5, <2>2, <3>1, <3>2 DEF Applied
  <2>3. QED BY <1>4, <2>1, <2>2
<1>7. \A v \in Versions, o \in BOOLEAN : InAnswer(v, o)' \/ AtClient(v, o)' => Means(v, o)
  <2>1. ASSUME NEW v \in Versions, NEW o \in BOOLEAN PROVE ~InAnswer(v, o)'
    BY <1>2 DEF InAnswer, NoBeat
  <2>2. ASSUME NEW v \in Versions, NEW o \in BOOLEAN PROVE AtClient(v, o)' => Means(v, o)
    BY <1>3, <1>4 DEF Means, AtClient, Applied
  <2>3. QED BY <2>1, <2>2
<1>8. QED BY <1>2, <1>6, <1>7, WireType, WireMeaning DEF IInv, BeatType

\* An answer carries the options of a row with their version, or the reset, or nothing.
LEMMA FragmentMeans ==
    ASSUME IInv, NEW b \in ReadRow, NEW p \in {None} \cup DOMAIN strategies
    PROVE  /\ Fragment(b, p) \in AnswerRow
           /\ Fragment(b, p).carries =>
                Means(Fragment(b, p).version, Fragment(b, p).options.opt)
<1>1. Answer(TRUE, 0, Nothing) \in AnswerRow /\ Answer(FALSE, 0, Nothing) \in AnswerRow
  BY BoundsAssumption DEF Answer, Nothing, ConfigOptions, AnswerRow, Versions
<1>2. ASSUME p # None
      PROVE  /\ Answer(TRUE, strategies[p].version, strategies[p].content) \in AnswerRow
             /\ InRow(strategies[p].version, strategies[p].content.opt)
  <2>1. strategies[p].version \in Versions /\ strategies[p].content \in [opt: BOOLEAN, api: BOOLEAN]
    BY <1>2, RowsType, ContentsAssumption DEF IInv, Rows
  <2>2. QED BY <1>2, <2>1 DEF Answer, ConfigOptions, AnswerRow, InRow
<1>3. CASE Fragment(b, p) = Answer(TRUE, 0, Nothing)
  BY <1>1, <1>3 DEF Answer, ConfigOptions, Nothing, Means
<1>4. CASE /\ p # None
           /\ Fragment(b, p) = Answer(TRUE, strategies[p].version, strategies[p].content)
  BY <1>2, <1>4 DEF Answer, ConfigOptions, Means
<1>5. CASE Fragment(b, p) = Answer(FALSE, 0, Nothing)
  BY <1>1, <1>5 DEF Answer
<1>6. QED BY <1>3, <1>4, <1>5 DEF Fragment

LEMMA BeatAnswerHolds ==
    ASSUME IInv, BeatAnswer
    PROVE  IInv'
<1>. DEFINE f == Fragment(beat, Effective(beat.own, beat.member))
<1>1. beat \in ReadRow
  BY DEF IInv, TypeOK, BeatAnswer, ReadRow, NoBeat
<1>2. Effective(beat.own, beat.member) \in {None} \cup DOMAIN strategies
  BY <1>1, EffectiveType DEF IInv, ReadRow
<1>3. f \in AnswerRow /\ (f.carries => Means(f.version, f.options.opt))
  BY <1>1, <1>2, FragmentMeans
<1>4. /\ UNCHANGED config /\ client' = client
      /\ recent' = (recent \/ (f.carries /\ f.version # 0))
      /\ beat' = f \/ beat' = NoBeat
  BY DEF BeatAnswer
<1>. HIDE DEF f
<1>5. recent' \in BOOLEAN /\ client' \in [have: 0..clock, opt: BOOLEAN, api: BOOLEAN]
  BY <1>3, <1>4 DEF IInv, TypeOK, AnswerRow
<1>6. BeatType'
  BY <1>3, <1>4 DEF BeatType, AnswerRow, NoBeat
<1>7. \A v \in Versions, o \in BOOLEAN : InAnswer(v, o)' \/ AtClient(v, o)' => Means(v, o)
  <2>1. ASSUME NEW v \in Versions, NEW o \in BOOLEAN, InAnswer(v, o)' PROVE Means(v, o)
    <3>1. beat' = f
      BY <1>4, <2>1 DEF InAnswer, NoBeat
    <3>2. f.carries /\ f.version = v /\ f.options.opt = o
      BY <2>1, <3>1 DEF InAnswer
    <3>3. QED BY <1>3, <3>2
  <2>2. ASSUME NEW v \in Versions, NEW o \in BOOLEAN PROVE AtClient(v, o)' => Means(v, o)
    BY <1>4 DEF Means, AtClient
  <2>3. QED BY <2>1, <2>2
<1>8. QED BY <1>4, <1>5, <1>6, <1>7, WireType, WireMeaning DEF IInv

LEMMA ServerRestartHolds ==
    ASSUME IInv, ServerRestart
    PROVE  IInv'
<1>1. UNCHANGED <<strategies, device, recent, clock, client>>
  BY DEF ServerRestart
<1>2. beat' = NoBeat \/ beat' = beat
  BY DEF ServerRestart
<1>3. /\ ask' \in [Admins -> AskRow]
      /\ \A a \in Admins : ask'[a] = NoAsk
  BY DEF ServerRestart, AskRow
<1>4. TypeOK'
  BY <1>1, <1>2, <1>3 DEF IInv, TypeOK, AskRow, EditRow, DefaultRow
<1>5. \A v \in Versions, o \in BOOLEAN : Means(v, o)' => Means(v, o)
  <2>1. ASSUME NEW v \in Versions, NEW o \in BOOLEAN PROVE ~InEdit(v, o)'
    BY <1>3 DEF InEdit, NoAsk
  <2>2. ASSUME NEW v \in Versions, NEW o \in BOOLEAN PROVE InAnswer(v, o)' => InAnswer(v, o)
    BY <1>2 DEF InAnswer, NoBeat
  <2>3. QED BY <1>1, <2>1, <2>2 DEF Means, InRow, AtClient
<1>6. QED BY <1>1, <1>4, <1>5, NoNewMeaning DEF IInv

-----------------------------------------------------------------------------
(* Theorems *)

LEMMA NextHolds ==
    ASSUME IInv, [Next]_vars
    PROVE  IInv'
<1>1. CASE Create \/ Assign
  BY <1>1, CreateHolds, AssignHolds
<1>2. ASSUME NEW p \in Pks, Delete(p) PROVE IInv'
  BY <1>2, DeleteHolds
<1>3. ASSUME NEW a \in Admins, NEW p \in Pks, EditRead(a, p) \/ DefaultRead(a, p) PROVE IInv'
  BY <1>3, EditReadHolds, DefaultReadHolds
<1>4. ASSUME NEW a \in Admins, EditWrite(a) \/ DefaultWrite(a) PROVE IInv'
  BY <1>4, EditWriteHolds, DefaultWriteHolds
<1>5. CASE Send \/ DropApi \/ GiveUp \/ LoseAnswer \/ Elapse \/ BeatRead
  BY <1>5, ClientHolds
<1>6. CASE Receive \/ BeatAnswer \/ ServerRestart
  BY <1>6, ReceiveHolds, BeatAnswerHolds, ServerRestartHolds
<1>7. CASE UNCHANGED vars
  <2>1. TypeOK'
    BY <1>7 DEF IInv, TypeOK, vars
  <2>2. \A v \in Versions, o \in BOOLEAN : Means(v, o)' => Means(v, o)
    BY <1>7 DEF vars, Means, InRow, InEdit, InAnswer, AtClient
  <2>3. QED BY <1>7, <2>1, <2>2, NoNewMeaning DEF IInv, vars
<1>8. QED BY <1>1, <1>2, <1>3, <1>4, <1>5, <1>6, <1>7 DEF Next

LEMMA IInvHolds == Spec => []IInv
<1>1. Init => IInv
  BY InitHolds
<1>2. IInv /\ [Next]_vars => IInv'
  BY NextHolds
<1>3. QED BY <1>1, <1>2, PTL DEF Spec

\* Whatever is created, edited, deleted and assigned meanwhile, no foreign key dangles and
\* the client holds no version that was not taken yet.
THEOREM StrategyTypeCorrect == Spec => []TypeOK
<1>1. IInv => TypeOK
  BY DEF IInv
<1>2. QED BY <1>1, IInvHolds, PTL

\* However many console requests overlap, a client that holds the version of a strategy
\* holds its options: the server may go on sending nothing.
THEOREM VersionsIdentifyOptions == Spec => []VersionIdentifies
<1>1. ASSUME IInv PROVE VersionIdentifies
  <2>1. SUFFICES ASSUME NEW p \in DOMAIN strategies, strategies[p].version = client.have
                 PROVE  client.opt = strategies[p].content.opt
    BY DEF VersionIdentifies
  <2>2. /\ strategies[p].version \in Versions
        /\ strategies[p].content.opt \in BOOLEAN /\ client.opt \in BOOLEAN
    BY <1>1, RowsType, ContentsAssumption DEF IInv, TypeOK, Rows
  <2>3. /\ Means(strategies[p].version, strategies[p].content.opt)
        /\ Means(strategies[p].version, client.opt)
    BY <2>1 DEF Means, InRow, AtClient
  <2>4. QED BY <1>1, <2>2, <2>3 DEF IInv, OneMeaning
<1>2. IInv => VersionIdentifies
  BY <1>1
<1>3. QED BY <1>2, IInvHolds, PTL

\* No answer resets the API server: it is sent, or left out.
NoReset == beat.phase = "answered" => beat.options.api # "reset"

LEMMA FragmentResetsNot ==
    ASSUME NEW b, NEW p
    PROVE  Fragment(b, p).options.api # "reset"
<1>1. ASSUME NEW carries, NEW version, NEW c PROVE Answer(carries, version, c).options.api # "reset"
  BY DEF Answer, ConfigOptions
<1>2. \/ Fragment(b, p) = Answer(TRUE, 0, Nothing)
      \/ Fragment(b, p) = Answer(TRUE, strategies[p].version, strategies[p].content)
      \/ Fragment(b, p) = Answer(FALSE, 0, Nothing)
  BY DEF Fragment
<1>3. QED BY <1>1, <1>2

LEMMA NoResetHolds ==
    ASSUME IInv, NoReset, [Next]_vars
    PROVE  NoReset'
<1>1. CASE beat' = beat \/ beat' = NoBeat
  BY <1>1 DEF NoReset, NoBeat
<1>2. CASE Send \/ BeatRead
  BY <1>2 DEF Send, BeatRead, NoReset
<1>3. CASE GiveUp
  <2>1. beat \in BeatRow \/ beat \in ReadRow
    BY <1>3 DEF IInv, TypeOK, GiveUp, BeatRow, ReadRow, NoBeat
  <2>2. beat' = NoBeat \/ beat'.phase # "answered"
    BY <1>3, <2>1 DEF GiveUp, BeatRow, ReadRow
  <2>3. QED BY <2>2 DEF NoReset, NoBeat
<1>4. CASE BeatAnswer
  BY <1>1, <1>4, FragmentResetsNot DEF BeatAnswer, NoReset
<1>5. QED
  BY <1>1, <1>2, <1>3, <1>4
     DEF Next, vars, Create, Assign, Delete, EditRead, DefaultRead, EditWrite, DefaultWrite,
         DropApi, LoseAnswer, Receive, Elapse, ServerRestart

LEMMA NoResetAlways == Spec => [](IInv /\ NoReset)
<1>1. Init => NoReset
  BY DEF Init, NoReset, NoBeat
<1>2. IInv /\ NoReset /\ [Next]_vars => NoReset'
  BY NoResetHolds
<1>3. QED BY <1>1, <1>2, IInvHolds, PTL DEF Spec

\* No strategy, edit, deletion or reset, in whatever order it reaches the client, takes the
\* client's API server away: only its user does.
THEOREM ApiServerIsKept == Spec => ApiServerKept
<1>1. ASSUME IInv, NoReset, [Next]_vars
      PROVE  [client.api /\ ~client'.api => DropApi]_vars
  <2>1. SUFFICES ASSUME client.api, ~client'.api, Next PROVE DropApi
    BY <1>1
  <2>2. ASSUME Receive PROVE FALSE
    <3>1. beat \in AnswerRow /\ beat.options.api \in {"set", "absent"}
      BY <1>1, <2>2 DEF IInv, TypeOK, Receive, AnswerRow, NoBeat, NoReset
    <3>2. CASE client' = client
      BY <2>1, <3>2
    <3>3. CASE client' = Applied(client, beat)
      BY <2>1, <3>1, <3>3 DEF Applied
    <3>4. QED BY <2>2, <3>2, <3>3 DEF Receive
  <2>3. client' # client
    BY <2>1
  <2>4. DropApi \/ Receive
    BY <2>1, <2>3
       DEF Next, config, Create, Assign, Delete, EditRead, DefaultRead, EditWrite, DefaultWrite,
           Send, GiveUp, LoseAnswer, Elapse, BeatRead, BeatAnswer, ServerRestart
  <2>5. QED BY <2>2, <2>4
<1>2. IInv /\ NoReset /\ [Next]_vars => [client.api /\ ~client'.api => DropApi]_vars
  BY <1>1
<1>3. QED BY <1>2, NoResetAlways, PTL DEF Spec, ApiServerKept

-----------------------------------------------------------------------------
(* One default, when console requests come one at a time *)

\* What a request to change the default has read still names every default there is:
\* others create and delete strategies meanwhile, and a new one is never the default, be it
\* under the key of a deleted one.
ReadsDefaults ==
    /\ \A p, q \in Defaults : p = q
    /\ \A a \in Admins : ask[a].op = "default" => Defaults \subseteq ask[a].on

\* A step that makes nothing the default, and lets no request read.
LEMMA NoNewDefault ==
    ASSUME ReadsDefaults, Defaults' \subseteq Defaults,
           \A a \in Admins : ask'[a] = ask[a] \/ ask'[a].op # "default"
    PROVE  ReadsDefaults'
BY DEF ReadsDefaults

LEMMA DefaultWriteLeavesOne ==
    ASSUME TypeOK, ReadsDefaults, NEW a \in Admins, \A b \in Admins : b = a, DefaultWrite(a)
    PROVE  ReadsDefaults'
<1>1. \A b \in Admins : ask'[b].op # "default"
  BY DEF DefaultWrite, TypeOK, NoAsk
<1>2. CASE strategies' = strategies
  <2>1. Defaults' = Defaults
    BY <1>2 DEF Defaults
  <2>2. QED BY <1>1, <2>1 DEF ReadsDefaults
<1>3. CASE strategies' = Defaulted(ask[a])
  <2> DEFINE r == ask[a]
  <2>1. Defaults \subseteq r.on
    BY DEF DefaultWrite, ReadsDefaults
  <2>2. ASSUME NEW p \in Defaults' PROVE p = r.pk
    <3>1. p \in DOMAIN strategies /\ strategies'[p].default
      BY <1>3, <2>2 DEF Defaults, Defaulted
    <3>2. strategies[p] \in Rows
      BY <3>1, RowsType
    <3>3. strategies'[p].default = CASE p \in r.on \ {r.pk} -> FALSE
                                     [] p = r.pk /\ p \notin r.on -> TRUE
                                     [] OTHER -> strategies[p].default
      BY <1>3, <3>1, <3>2 DEF Defaulted, Rows
    <3>4. p \in Defaults => p \in r.on
      BY <2>1
    <3>5. SUFFICES ASSUME p # r.pk PROVE FALSE
      OBVIOUS
    <3>6. p \notin r.on /\ strategies[p].default
      BY <3>1, <3>3, <3>5
    <3>7. QED BY <3>1, <3>4, <3>6 DEF Defaults
  <2>3. QED BY <1>1, <2>2 DEF ReadsDefaults
<1>4. QED BY <1>2, <1>3 DEF DefaultWrite

LEMMA DefaultsStep ==
    ASSUME \A a, b \in Admins : a = b, IInv, ReadsDefaults, [Next]_vars
    PROVE  ReadsDefaults'
<1>0. TypeOK /\ strategies \in [DOMAIN strategies -> Rows]
  BY RowsType DEF IInv
<1>1. CASE Create
  <2>1. UNCHANGED ask
    BY <1>1 DEF Create
  <2>2. ASSUME NEW p \in Defaults' PROVE p \in Defaults
    <3>1. PICK c \in Contents :
            strategies' = [q \in DOMAIN strategies \cup {NextPk} |->
              IF q = NextPk THEN [content |-> c, version |-> NextVersion(0), default |-> FALSE]
              ELSE strategies[q]]
      BY <1>1 DEF Create
    <3>2. p \in DOMAIN strategies \cup {NextPk} /\ strategies'[p].default
      BY <2>2, <3>1 DEF Defaults
    <3>3. p # NextPk
      BY <3>1, <3>2
    <3>4. QED BY <3>1, <3>2, <3>3 DEF Defaults
  <2>3. QED BY <2>1, <2>2, NoNewDefault
<1>2. ASSUME NEW p \in Pks, Delete(p) PROVE ReadsDefaults'
  <2>1. Defaults' \subseteq Defaults /\ UNCHANGED ask
    BY <1>2 DEF Delete, Defaults
  <2>2. QED BY <2>1, NoNewDefault
<1>3. ASSUME NEW a \in Admins, NEW p \in Pks, EditRead(a, p) PROVE ReadsDefaults'
  <2>1. Defaults' = Defaults /\ \A b \in Admins : ask'[b] = ask[b] \/ ask'[b].op = "edit"
    BY <1>0, <1>3 DEF EditRead, Defaults, TypeOK
  <2>2. QED BY <2>1, NoNewDefault
<1>4. ASSUME NEW a \in Admins, NEW p \in Pks, DefaultRead(a, p) PROVE ReadsDefaults'
  <2>1. Defaults' = Defaults
    BY <1>4 DEF DefaultRead, Defaults
  <2>2. \A b \in Admins : ask'[b] = ask[b] \/ ask'[b].on = Defaults
    BY <1>0, <1>4 DEF DefaultRead, TypeOK
  <2>3. QED BY <2>1, <2>2 DEF ReadsDefaults
<1>5. ASSUME NEW a \in Admins, EditWrite(a) PROVE ReadsDefaults'
  <2>1. Defaults' = Defaults
    <3>1. DOMAIN strategies' = DOMAIN strategies
      BY <1>5 DEF EditWrite
    <3>2. ASSUME NEW p \in DOMAIN strategies
          PROVE  strategies'[p].default = strategies[p].default
      <4>1. strategies[p] \in Rows
        BY <1>0
      <4>2. QED BY <1>5, <4>1 DEF EditWrite, Rows
    <3>3. QED BY <3>1, <3>2 DEF Defaults
  <2>2. \A b \in Admins : ask'[b] = ask[b] \/ ask'[b].op = "none"
    BY <1>0, <1>5 DEF EditWrite, TypeOK, NoAsk
  <2>3. QED BY <2>1, <2>2, NoNewDefault
<1>6. ASSUME NEW a \in Admins, DefaultWrite(a) PROVE ReadsDefaults'
  BY <1>0, <1>6, DefaultWriteLeavesOne
<1>7. CASE Assign \/ Send \/ DropApi \/ GiveUp \/ LoseAnswer \/ Receive \/ Elapse \/ BeatRead
           \/ BeatAnswer \/ UNCHANGED vars
  <2>1. UNCHANGED <<strategies, ask>>
    BY <1>7 DEF Assign, Send, DropApi, GiveUp, LoseAnswer, Receive, Elapse, BeatRead, BeatAnswer,
                config, vars
  <2>2. QED BY <2>1 DEF ReadsDefaults, Defaults
<1>8. CASE ServerRestart
  <2>1. Defaults' = Defaults /\ \A b \in Admins : ask'[b].op = "none"
    BY <1>8 DEF ServerRestart, Defaults, NoAsk
  <2>2. QED BY <2>1, NoNewDefault
<1>9. QED BY <1>1, <1>2, <1>3, <1>4, <1>5, <1>6, <1>7, <1>8 DEF Next

\* With one console request at a time no two strategies are the default, however many
\* strategies are created, edited and deleted between a request's read and its write
\* (set_default).
THEOREM OneDefault ==
    ASSUME \A a, b \in Admins : a = b
    PROVE  Spec => []AtMostOneDefault
<1>1. Init => ReadsDefaults
  BY DEF Init, ReadsDefaults, Defaults, NoAsk
<1>2. IInv /\ ReadsDefaults /\ [Next]_vars => ReadsDefaults'
  BY DefaultsStep
<1>3. ReadsDefaults => AtMostOneDefault
  <2> SUFFICES ASSUME ReadsDefaults PROVE Cardinality(Defaults) <= 1
    BY DEF AtMostOneDefault
  <2>1. CASE Defaults = {}
    BY <2>1, FS_EmptySet
  <2>2. CASE Defaults # {}
    <3>1. PICK p : Defaults = {p}
      BY <2>2 DEF ReadsDefaults
    <3>2. QED BY <3>1, FS_Singleton
  <2>3. QED BY <2>1, <2>2
<1>4. QED BY <1>1, <1>2, <1>3, IInvHolds, PTL DEF Spec
=============================================================================
