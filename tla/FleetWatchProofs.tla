--------------------------- MODULE FleetWatchProofs ---------------------------
(***************************************************************************)
(* What the loops announce of a watched device, whatever rounds of two     *)
(* server processes, heartbeats and switches overlap, and however many of  *)
(* them fail: what is on record as announced was announced last, and a     *)
(* silence is announced once by each process, but for failures and         *)
(* switches.                                                               *)
(***************************************************************************)
EXTENDS FleetWatch, FiniteSetTheorems, TLAPS

-----------------------------------------------------------------------------
(* Minutes. *)

LEMMA MinuteOf ==
    ASSUME NEW a \in Nat
    PROVE  /\ a \div PerMinute \in Nat
           /\ PerMinute * (a \div PerMinute) <= a
           /\ a < PerMinute * (a \div PerMinute) + PerMinute
<1>1. PerMinute \in Nat \ {0}
  BY BoundsAssumption
<1>2. /\ a \div PerMinute \in Int
      /\ a = PerMinute * (a \div PerMinute) + (a % PerMinute)
      /\ a % PerMinute \in 0 .. PerMinute - 1
  BY <1>1, SMT
<1>3. a \div PerMinute >= 0
  BY <1>1, SMT
<1>4. PerMinute * (a \div PerMinute) \in Int
  BY <1>1, <1>2
<1> QED BY <1>1, <1>2, <1>3, <1>4

LEMMA MinutesGrow ==
    ASSUME NEW a \in Nat, NEW b \in Nat, a <= b
    PROVE  a \div PerMinute <= b \div PerMinute
<1>1. PerMinute \in Nat \ {0}
  BY BoundsAssumption
<1> DEFINE d == a \div PerMinute
           e == b \div PerMinute
<1>2. /\ d \in Nat /\ e \in Nat /\ PerMinute * d <= a /\ b < PerMinute * e + PerMinute
  BY MinuteOf
<1> HIDE DEF d, e
<1>3. ASSUME d > e PROVE FALSE
  <2>1. PICK k \in Nat : d = e + 1 + k
    <3>1. d - e - 1 \in Nat /\ d = e + 1 + (d - e - 1)
      BY <1>2, <1>3
    <3> QED BY <3>1
  <2>2. PerMinute * d = PerMinute * e + PerMinute + PerMinute * k
    BY <1>1, <1>2, <2>1
  <2>3. PerMinute * k \in Nat /\ PerMinute * e \in Nat
    BY <1>1, <1>2, <2>1
  <2> QED BY <1>1, <1>2, <2>2, <2>3
<1> QED BY <1>2, <1>3 DEF d, e

-----------------------------------------------------------------------------
(* The invariant. *)

\* A round of the loop as it is kept: asleep or archiving, or with what it read and decided.
Rounds(p) ==
    [phase : {"asleep", "awake", "archiving"}, rest : SUBSET (Procs \ {p})]
        \cup [phase : {"checked"}, rest : SUBSET (Procs \ {p}), read : Column, new : Column]

WatchTypes ==
    /\ clock \in Times /\ row \in Row /\ row.seen <= clock /\ row.notified <= clock
    /\ DOMAIN loop = Procs /\ loop = [p \in Procs |-> loop[p]]
    /\ \A p \in Procs : loop[p] \in Rounds(p)
    /\ \A p \in Procs : loop[p].phase = "checked" => loop[p].read <= clock /\ loop[p].new <= clock
    /\ beat = NoBeat \/ beat \in [phase : {"read"}, now : Times, archived : BOOLEAN]
    /\ beat # NoBeat => beat.now <= clock
    /\ ask = NoAsk \/ ask \in [phase : {"read"}, old : Row, new : Row]
    /\ word \in {"nothing", "offline", "online"} /\ said \in Nat /\ excuses \in 0 .. MaxExcuses

Checked(p) == loop[p].phase = "checked"

\* The rounds that have announced a silence, and those that have announced a return.
Announced == {p \in Procs : Checked(p) /\ loop[p].read = None /\ loop[p].new # None}
Clearing == {p \in Procs : Checked(p) /\ loop[p].read # None /\ loop[p].new = None}

\* What is on its way to the row.
UnderWay ==
    /\ \A p \in Procs : Checked(p) => \/ p \in Announced \/ p \in Clearing
                                      \/ loop[p].new = loop[p].read
    /\ beat # NoBeat => row.seen <= beat.now
    /\ ask # NoAsk => ask.new.seen = ask.old.seen /\ ask.new.notified \in {None, ask.old.notified}

\* Before the first announcement nothing is on record as announced.
NothingYet ==
    word = "nothing" => /\ said = 0 /\ row.notified = None
                        /\ \A p \in Procs : Checked(p) => loop[p].read = None /\ loop[p].new = None

\* Process q does not begin a round before that of p has ended.
Waits(q, p) == loop[q].phase # "asleep" \/ p \in loop[q].rest

\* What one process has announced, no other takes for a return before it is on record.
Telling ==
    /\ \A p \in Announced : row.notified # None => \A q \in Procs \ {p} : Waits(q, p)
    /\ row.notified # None /\ row.seen <= row.notified => word = "offline"
    /\ \A p \in Announced : row.seen <= loop[p].new => word = "offline"

\* Rounds and heartbeats are short.
InTime ==
    /\ \A p \in Announced : Minutes(loop[p].new, clock) = 0
    /\ beat # NoBeat => Minutes(beat.now, clock) <= 1

\* A return on record, or to be recorded, is of a silence that has ended.
Returned ==
    /\ row.notified # None /\ row.seen > row.notified => said = 0
    /\ \A p \in Announced : row.seen > loop[p].new => said = 0

\* While a return is to be recorded, a new silence is announced only if the record was cleared
\* by the administrator, and by one process.
Clears ==
    \A q \in Clearing :
        /\ said = 0 \/ (said = 1 /\ excuses # 0 /\ \A p \in Procs \ {q} : Waits(p, q))
        /\ row.notified = None => \/ excuses # 0 \/ ~Silent(clock)
                                  \/ \A p \in Procs \ {q} : Waits(p, q)

\* With no announcement on record, each process has an announcement left, but for those that
\* have made theirs.
Budget ==
    /\ row.notified = None => said <= Cardinality(Procs) * excuses + Cardinality(Announced)
    /\ OncePerOutage

WatchInv == WatchTypes /\ UnderWay /\ NothingYet
TellInv == WatchInv /\ Telling
OnceInv == WatchInv /\ InTime /\ Returned /\ Clears /\ Budget

LEMMA Numbers == Times \subseteq Nat \ {0} /\ Column \subseteq Nat /\ None \notin Times /\ Created \in Times
BY BoundsAssumption DEF Times, Column, None, Created

LEMMA RoundType ==
    ASSUME WatchTypes, NEW p \in Procs
    PROVE  /\ loop[p].phase \in {"asleep", "awake", "archiving", "checked"}
           /\ loop[p].rest \in SUBSET (Procs \ {p})
           /\ Checked(p) => /\ loop[p].read \in Column /\ loop[p].new \in Column
                            /\ loop[p].read <= clock /\ loop[p].new <= clock
                            /\ loop[p].read \in Nat /\ loop[p].new \in Nat
<1>1. loop[p] \in Rounds(p)
  BY DEF WatchTypes
<1> QED BY <1>1, Numbers DEF WatchTypes, Checked, Rounds

\* Process p leaves its round, or goes on to its next stage.
Goes(p) ==
    /\ DOMAIN loop' = Procs /\ loop' = [q \in Procs |-> loop'[q]]
    /\ \A q \in Procs : loop'[q] \in Rounds(q)
    /\ ~Checked(p)'
    /\ \A q \in Procs \ {p} : /\ loop'[q].phase = loop[q].phase
                              /\ Checked(q) => loop'[q].read = loop[q].read /\ loop'[q].new = loop[q].new
    /\ \A r \in Procs \ {p} : loop[r].phase # "asleep" =>
          \A q \in Procs \ {r} : Waits(q, r) \/ q = p => Waits(q, r)'

LEMMA Slept ==
    ASSUME WatchTypes, NEW p \in Procs, Sleep(p)
    PROVE  Goes(p)
<1>1. loop' = [q \in Procs |->
        IF q = p THEN [phase |-> "asleep", rest |-> {x \in Procs \ {p} : loop[x].phase # "asleep"}]
        ELSE [loop[q] EXCEPT !.rest = @ \ {p}]]
  BY DEF Sleep
<1>2. /\ DOMAIN loop' = Procs /\ loop' = [q \in Procs |-> loop'[q]]
      /\ loop'[p] = [phase |-> "asleep", rest |-> {x \in Procs \ {p} : loop[x].phase # "asleep"}]
      /\ \A q \in Procs \ {p} : loop'[q] = [loop[q] EXCEPT !.rest = @ \ {p}]
  BY <1>1
<1>3. loop'[p] \in Rounds(p) /\ ~Checked(p)'
  BY <1>2 DEF Rounds, Checked
<1>4. ASSUME NEW q \in Procs \ {p}
      PROVE  /\ loop'[q] \in Rounds(q) /\ loop'[q].phase = loop[q].phase
             /\ loop'[q].rest = loop[q].rest \ {p}
             /\ Checked(q) => loop'[q].read = loop[q].read /\ loop'[q].new = loop[q].new
  <2>1. loop[q] \in Rounds(q) /\ loop'[q] = [loop[q] EXCEPT !.rest = loop[q].rest \ {p}]
    BY <1>2 DEF WatchTypes
  <2>2. CASE loop[q] \in [phase : {"asleep", "awake", "archiving"}, rest : SUBSET (Procs \ {q})]
    BY <2>1, <2>2 DEF Rounds, Checked
  <2>3. CASE loop[q] \in [phase : {"checked"}, rest : SUBSET (Procs \ {q}), read : Column, new : Column]
    BY <2>1, <2>3 DEF Rounds, Checked
  <2> QED BY <2>1, <2>2, <2>3 DEF Rounds
<1>5. ASSUME NEW r \in Procs \ {p}, loop[r].phase # "asleep", NEW q \in Procs \ {r}, Waits(q, r) \/ q = p
      PROVE  Waits(q, r)'
  <2>1. CASE q = p
    <3>1. r \in loop'[p].rest
      BY <1>2, <1>5
    <3> QED BY <2>1, <3>1 DEF Waits
  <2>2. CASE q # p
    BY <1>4, <1>5, <2>2 DEF Waits
  <2> QED BY <2>1, <2>2
<1> QED BY <1>2, <1>3, <1>4, <1>5 DEF Goes

LEMMA WentOn ==
    ASSUME WatchTypes, NEW p \in Procs, NEW phase \in {"awake", "archiving"}, GoOn(p, phase)
    PROVE  Goes(p)
<1>1. loop' = [loop EXCEPT ![p] = [phase |-> phase, rest |-> {}]] /\ DOMAIN loop = Procs
  BY DEF GoOn, WatchTypes
<1>2. /\ DOMAIN loop' = Procs /\ loop' = [q \in Procs |-> loop'[q]]
      /\ loop'[p] = [phase |-> phase, rest |-> {}]
      /\ \A q \in Procs \ {p} : loop'[q] = loop[q]
  BY <1>1
<1>3. loop'[p] \in Rounds(p) /\ ~Checked(p)'
  BY <1>2 DEF Rounds, Checked
<1>4. \A q \in Procs \ {p} : loop'[q] \in Rounds(q)
  BY <1>2 DEF WatchTypes
<1>5. ASSUME NEW r \in Procs \ {p}, NEW q \in Procs \ {r}, Waits(q, r) \/ q = p
      PROVE  Waits(q, r)'
  BY <1>2, <1>5 DEF Waits
<1> QED BY <1>2, <1>3, <1>4, <1>5 DEF Goes

LEMMA Gone ==
    ASSUME WatchTypes, NEW p \in Procs, Goes(p)
    PROVE  /\ Announced' = Announced \ {p} /\ Clearing' = Clearing \ {p}
           /\ \A q \in Procs : Checked(q)' => q # p /\ Checked(q)
           /\ \A q \in Announced' \cup Clearing' : loop[q].phase # "asleep" /\ q \in Procs \ {p}
           /\ \A q \in Procs \ {p} : Checked(q) => loop'[q].read = loop[q].read /\ loop'[q].new = loop[q].new
<1>1. \A q \in Procs \ {p} : Checked(q)' <=> Checked(q)
  BY DEF Goes, Checked
<1>2. \A q \in Procs : q \in Announced' <=> q \in Announced \ {p}
  BY <1>1 DEF Goes, Announced
<1>3. \A q \in Procs : q \in Clearing' <=> q \in Clearing \ {p}
  BY <1>1 DEF Goes, Clearing
<1>4. Announced \subseteq Procs /\ Clearing \subseteq Procs /\ Announced' \subseteq Procs /\ Clearing' \subseteq Procs
  BY DEF Announced, Clearing
<1>5. Announced' = Announced \ {p} /\ Clearing' = Clearing \ {p}
  BY <1>2, <1>3, <1>4
<1>6. \A q \in Announced \cup Clearing : loop[q].phase # "asleep" /\ q \in Procs
  BY DEF Announced, Clearing, Checked
<1> QED BY <1>1, <1>5, <1>6 DEF Goes

-----------------------------------------------------------------------------
(* Types, and what is under way, step by step. *)

LEMMA SameLoop ==
    ASSUME UNCHANGED loop
    PROVE  /\ Announced' = Announced /\ Clearing' = Clearing
           /\ \A p \in Procs : Checked(p)' <=> Checked(p)
           /\ \A p \in Procs : \A q \in Procs : Waits(q, p)' <=> Waits(q, p)
BY DEF Announced, Clearing, Checked, Waits

LEMMA LoopTyped ==
    ASSUME WatchTypes, UNCHANGED loop, clock' \in Times, clock <= clock'
    PROVE  /\ DOMAIN loop' = Procs /\ loop' = [p \in Procs |-> loop'[p]]
           /\ \A p \in Procs : loop'[p] \in Rounds(p)
           /\ \A p \in Procs : loop'[p].phase = "checked" => loop'[p].read <= clock' /\ loop'[p].new <= clock'
<1>1. clock \in Nat /\ clock' \in Nat
  BY Numbers DEF WatchTypes
<1>2. ASSUME NEW p \in Procs, loop[p].phase = "checked"
      PROVE  loop[p].read <= clock' /\ loop[p].new <= clock'
  BY <1>1, <1>2, RoundType DEF Checked
<1> QED BY <1>2 DEF WatchTypes

\* What goes on in a round does not disturb what is under way elsewhere.
LEMMA RoundsGoOn ==
    ASSUME WatchTypes, UnderWay, NEW p \in Procs, Goes(p), UNCHANGED clock
    PROVE  /\ DOMAIN loop' = Procs /\ loop' = [q \in Procs |-> loop'[q]]
           /\ \A q \in Procs : loop'[q] \in Rounds(q)
           /\ \A q \in Procs : loop'[q].phase = "checked" => loop'[q].read <= clock' /\ loop'[q].new <= clock'
           /\ \A q \in Procs : Checked(q)' => \/ q \in Announced' \/ q \in Clearing'
                                              \/ loop'[q].new = loop'[q].read
<1>1. \A q \in Procs : loop'[q].phase = "checked" => loop'[q].read <= clock' /\ loop'[q].new <= clock'
  <2>1. SUFFICES ASSUME NEW q \in Procs, loop'[q].phase = "checked"
                 PROVE  loop'[q].read <= clock /\ loop'[q].new <= clock
    OBVIOUS
  <2>2. q # p /\ Checked(q) /\ loop'[q].read = loop[q].read /\ loop'[q].new = loop[q].new
    BY <2>1, Gone DEF Checked
  <2> QED BY <2>2 DEF WatchTypes, Checked
<1>2. ASSUME NEW q \in Procs, Checked(q)'
      PROVE  q \in Announced' \/ q \in Clearing' \/ loop'[q].new = loop'[q].read
  <2>1. q # p /\ Checked(q) /\ loop'[q].read = loop[q].read /\ loop'[q].new = loop[q].new
    BY <1>2, Gone
  <2> QED BY <2>1, Gone DEF UnderWay
<1> QED BY <1>1, <1>2 DEF Goes

LEMMA ReadDecides ==
    ASSUME WatchTypes, NEW p \in Procs, CheckRead(p)
    PROVE  /\ loop[p].phase = "asleep" /\ loop[p].rest = {}
           /\ loop'[p] = [phase |-> "checked", rest |-> {}, read |-> row.notified, new |-> NotifiedAfter]
           /\ Checked(p)' /\ ~Checked(p)
           /\ \A q \in Procs \ {p} : loop'[q] = loop[q]
           /\ DOMAIN loop' = Procs /\ loop' = [q \in Procs |-> loop'[q]]
           /\ NotifiedAfter \in Column /\ NotifiedAfter <= clock
           /\ WentOffline => NotifiedAfter = clock
           /\ CameBack => NotifiedAfter = None
           /\ ~WentOffline /\ ~CameBack => NotifiedAfter = row.notified
           /\ WentOffline <=> row.notified = None /\ NotifiedAfter # None
           /\ CameBack <=> row.notified # None /\ NotifiedAfter = None
           /\ ~(WentOffline /\ CameBack)
<1>1. /\ clock \in Times /\ clock \in Column /\ clock # None /\ clock \in Nat
      /\ row.notified \in Column /\ row.notified \in Nat /\ row.notified <= clock /\ None \in Column
  BY Numbers DEF WatchTypes, Row, Column
<1>2. ~(WentOffline /\ CameBack)
  BY DEF WentOffline, CameBack
<1>3. /\ WentOffline => NotifiedAfter = clock
      /\ CameBack => NotifiedAfter = None
      /\ ~WentOffline /\ ~CameBack => NotifiedAfter = row.notified
  BY <1>2 DEF NotifiedAfter
<1>4. NotifiedAfter \in Column /\ NotifiedAfter <= clock
  <2>1. NotifiedAfter \in {clock, None, row.notified}
    BY <1>3
  <2> QED BY <2>1, <1>1 DEF None
<1>5. /\ WentOffline <=> row.notified = None /\ NotifiedAfter # None
      /\ CameBack <=> row.notified # None /\ NotifiedAfter = None
  BY <1>1, <1>3 DEF WentOffline, CameBack
<1>6. DOMAIN loop = Procs /\ loop = [q \in Procs |-> loop[q]]
  BY DEF WatchTypes
<1>7. /\ loop[p] = [phase |-> "asleep", rest |-> {}]
      /\ loop' = [loop EXCEPT ![p] = [phase |-> "checked", rest |-> {},
                                    read |-> row.notified, new |-> NotifiedAfter]]
  BY DEF CheckRead
<1>8. /\ loop[p].phase = "asleep" /\ loop[p].rest = {} /\ ~Checked(p)
      /\ loop'[p] = [phase |-> "checked", rest |-> {}, read |-> row.notified, new |-> NotifiedAfter]
      /\ \A q \in Procs \ {p} : loop'[q] = loop[q]
      /\ DOMAIN loop' = Procs /\ loop' = [q \in Procs |-> loop'[q]]
  BY <1>6, <1>7 DEF Checked
<1>9. Checked(p)'
  BY <1>8 DEF Checked
<1> QED BY <1>2, <1>3, <1>4, <1>5, <1>8, <1>9

\* Whom a round's reading joins.
LEMMA ReadJoins ==
    ASSUME WatchTypes, NEW p \in Procs, CheckRead(p)
    PROVE  /\ p \notin Announced /\ p \notin Clearing
           /\ WentOffline => Announced' = Announced \cup {p}
           /\ ~WentOffline => Announced' = Announced
           /\ CameBack => Clearing' = Clearing \cup {p}
           /\ ~CameBack => Clearing' = Clearing
<1>1. /\ ~Checked(p) /\ Checked(p)' /\ loop'[p].read = row.notified /\ loop'[p].new = NotifiedAfter
      /\ \A q \in Procs \ {p} : loop'[q] = loop[q]
      /\ WentOffline <=> row.notified = None /\ NotifiedAfter # None
      /\ CameBack <=> row.notified # None /\ NotifiedAfter = None
  BY ReadDecides
<1>2. \A q \in Procs \ {p} : (q \in Announced' <=> q \in Announced) /\ (q \in Clearing' <=> q \in Clearing)
  BY <1>1 DEF Announced, Clearing, Checked
<1>3. p \notin Announced /\ p \notin Clearing
  BY <1>1 DEF Announced, Clearing
<1>4. (p \in Announced' <=> WentOffline) /\ (p \in Clearing' <=> CameBack)
  BY <1>1 DEF Announced, Clearing
<1>5. Announced \subseteq Procs /\ Clearing \subseteq Procs /\ Announced' \subseteq Procs /\ Clearing' \subseteq Procs
  BY DEF Announced, Clearing
<1> QED BY <1>2, <1>3, <1>4, <1>5

LEMMA WatchCheckRead ==
    ASSUME WatchInv, NEW p \in Procs, CheckRead(p)
    PROVE  WatchInv'
<1>1. WatchTypes /\ UnderWay /\ NothingYet
  BY DEF WatchInv
<1>2. /\ UNCHANGED <<clock, row, beat, ask, excuses>>
      /\ word' = CASE WentOffline -> "offline" [] CameBack -> "online" [] OTHER -> word
      /\ said' = IF WentOffline THEN said + 1 ELSE said
  BY DEF CheckRead
<1>3. /\ DOMAIN loop' = Procs /\ loop' = [q \in Procs |-> loop'[q]]
      /\ loop'[p] = [phase |-> "checked", rest |-> {}, read |-> row.notified, new |-> NotifiedAfter]
      /\ \A q \in Procs \ {p} : loop'[q] = loop[q]
      /\ NotifiedAfter \in Column /\ NotifiedAfter <= clock
      /\ ~WentOffline /\ ~CameBack => NotifiedAfter = row.notified
      /\ row.notified \in Column /\ row.notified <= clock
  BY <1>1, ReadDecides DEF WatchTypes, Row
<1>4. loop'[p] \in Rounds(p)
  BY <1>3 DEF Rounds
<1>5. \A q \in Procs : loop'[q] \in Rounds(q)
  BY <1>1, <1>3, <1>4 DEF WatchTypes
<1>6. \A q \in Procs : loop'[q].phase = "checked" => loop'[q].read <= clock' /\ loop'[q].new <= clock'
  BY <1>1, <1>2, <1>3 DEF WatchTypes
<1>7. word' \in {"nothing", "offline", "online"} /\ said' \in Nat
  BY <1>1, <1>2 DEF WatchTypes
<1>8. WatchTypes'
  BY <1>1, <1>2, <1>3, <1>5, <1>6, <1>7 DEF WatchTypes
<1>9. UnderWay'
  <2>1. ASSUME NEW q \in Procs, Checked(q)'
        PROVE  q \in Announced' \/ q \in Clearing' \/ loop'[q].new = loop'[q].read
    <3>1. CASE q = p
      BY <1>1, <1>3, <3>1, ReadJoins
    <3>2. CASE q # p
      <4>1. Checked(q) /\ loop'[q] = loop[q]
        BY <1>3, <2>1, <3>2 DEF Checked
      <4>2. q \in Announced \/ q \in Clearing \/ loop[q].new = loop[q].read
        BY <1>1, <4>1 DEF UnderWay
      <4> QED BY <1>1, <4>1, <4>2, ReadJoins
    <3> QED BY <3>1, <3>2
  <2> QED BY <1>1, <1>2, <2>1 DEF UnderWay
<1>10. NothingYet'
  <2>1. SUFFICES ASSUME word' = "nothing"
                 PROVE  /\ said' = 0 /\ row.notified = None
                        /\ \A q \in Procs : Checked(q)' => loop'[q].read = None /\ loop'[q].new = None
    BY <1>2 DEF NothingYet
  <2>2. ~WentOffline /\ ~CameBack /\ word = "nothing" /\ said' = said
    BY <1>2, <2>1
  <2>3. said = 0 /\ row.notified = None
        /\ \A q \in Procs : Checked(q) => loop[q].read = None /\ loop[q].new = None
    BY <1>1, <2>2 DEF NothingYet
  <2>4. loop'[p].read = None /\ loop'[p].new = None
    BY <1>3, <2>2, <2>3
  <2>5. \A q \in Procs \ {p} : Checked(q)' => loop'[q].read = None /\ loop'[q].new = None
    BY <1>3, <2>3 DEF Checked
  <2> QED BY <2>2, <2>3, <2>4, <2>5
<1> QED BY <1>8, <1>9, <1>10 DEF WatchInv

\* A step of a round after its reading.
LEMMA WatchGoes ==
    ASSUME WatchInv, NEW p \in Procs, Goes(p), UNCHANGED <<clock, beat, ask, word, said>>,
           row' \in Row, row'.seen = row.seen, row'.notified <= clock,
           word = "nothing" => row'.notified = None,
           excuses' \in 0 .. MaxExcuses
    PROVE  WatchInv'
<1>1. WatchTypes /\ UnderWay /\ NothingYet
  BY DEF WatchInv
<1>2. /\ DOMAIN loop' = Procs /\ loop' = [q \in Procs |-> loop'[q]]
      /\ \A q \in Procs : loop'[q] \in Rounds(q)
      /\ \A q \in Procs : loop'[q].phase = "checked" => loop'[q].read <= clock' /\ loop'[q].new <= clock'
      /\ \A q \in Procs : Checked(q)' => \/ q \in Announced' \/ q \in Clearing'
                                         \/ loop'[q].new = loop'[q].read
  BY <1>1, RoundsGoOn
<1>3. WatchTypes'
  BY <1>1, <1>2 DEF WatchTypes
<1>4. UnderWay'
  BY <1>1, <1>2 DEF UnderWay
<1>5. NothingYet'
  <2>1. SUFFICES ASSUME word = "nothing", NEW q \in Procs, Checked(q)'
                 PROVE  loop'[q].read = None /\ loop'[q].new = None
    BY <1>1 DEF NothingYet
  <2>2. Checked(q) /\ loop'[q].read = loop[q].read /\ loop'[q].new = loop[q].new
    BY <1>1, <2>1, Gone
  <2> QED BY <1>1, <2>1, <2>2 DEF NothingYet
<1> QED BY <1>3, <1>4, <1>5 DEF WatchInv

LEMMA WatchCheckCommit ==
    ASSUME WatchInv, NEW p \in Procs, CheckCommit(p)
    PROVE  Goes(p) /\ WatchInv'
<1>1. WatchTypes /\ NothingYet /\ row \in Row /\ row.notified <= clock /\ Checked(p) /\ GoOn(p, "awake")
  BY DEF WatchInv, WatchTypes, CheckCommit, Checked
<1>2. Goes(p)
  BY <1>1, WentOn
<1>3. loop[p].new \in Column /\ loop[p].new <= clock /\ row.notified \in Column
  BY <1>1, RoundType DEF Row
<1>4. Remembered(loop[p]) \in Column /\ Remembered(loop[p]) <= clock
  BY <1>1, <1>3 DEF Remembered
<1>5. row' = [row EXCEPT !.notified = Remembered(loop[p])]
  BY DEF CheckCommit
<1>6. row' \in Row /\ row'.seen = row.seen /\ row'.notified = Remembered(loop[p])
  BY <1>1, <1>4, <1>5 DEF Row
<1>7. word = "nothing" => row'.notified = None
  BY <1>1, <1>6 DEF NothingYet, Remembered
<1>8. UNCHANGED <<clock, beat, ask, word, said>> /\ excuses' \in 0 .. MaxExcuses
  BY DEF CheckCommit, history, WatchInv, WatchTypes
<1> QED BY <1>2, <1>4, <1>6, <1>7, <1>8, WatchGoes

LEMMA WatchArchive ==
    ASSUME WatchInv, NEW p \in Procs, ArchiveRead(p) \/ ArchiveCommit(p) \/ Abort(p)
    PROVE  Goes(p) /\ WatchInv' /\ row'.seen = row.seen /\ row'.notified = row.notified
           /\ UNCHANGED <<clock, beat, ask, word, said>>
<1>1. WatchTypes /\ NothingYet /\ row \in Row /\ row.notified <= clock
  BY DEF WatchInv, WatchTypes
<1>2. GoOn(p, "archiving") \/ Sleep(p)
  BY DEF ArchiveRead, ArchiveCommit, Abort
<1>3. Goes(p)
  BY <1>1, <1>2, WentOn, Slept
<1>4. UNCHANGED <<clock, beat, ask, word, said>>
  BY DEF ArchiveRead, ArchiveCommit, Abort, history
<1>5. row' = row \/ row' = [row EXCEPT !.archived = TRUE]
  BY DEF ArchiveRead, ArchiveCommit, Abort
<1>6. row' \in Row /\ row'.seen = row.seen /\ row'.notified = row.notified
  BY <1>1, <1>5 DEF Row
<1>7. excuses' = excuses \/ (excuses < MaxExcuses /\ excuses' = excuses + 1)
  BY DEF ArchiveRead, ArchiveCommit, Abort, history
<1>8. excuses' \in 0 .. MaxExcuses
  BY <1>1, <1>7, BoundsAssumption DEF WatchTypes
<1>9. word = "nothing" => row'.notified = None
  BY <1>1, <1>6 DEF NothingYet
<1> QED BY <1>1, <1>3, <1>4, <1>6, <1>8, <1>9, WatchGoes

\* A step in which the loops stand still.
LEMMA WatchStill ==
    ASSUME WatchInv, UNCHANGED <<loop, word>>, clock' \in Times, clock <= clock',
           row' \in Row, row'.seen <= clock', row'.notified \in {None, row.notified},
           beat' = NoBeat \/ beat' \in [phase : {"read"}, now : Times, archived : BOOLEAN],
           beat' # NoBeat => beat'.now <= clock' /\ row'.seen <= beat'.now,
           ask' = NoAsk \/ ask' \in [phase : {"read"}, old : Row, new : Row],
           ask' # NoAsk => ask'.new.seen = ask'.old.seen /\ ask'.new.notified \in {None, ask'.old.notified},
           said' \in {said, 0}, excuses' \in 0 .. MaxExcuses
    PROVE  WatchInv'
<1>1. WatchTypes /\ UnderWay /\ NothingYet /\ UNCHANGED loop
  BY DEF WatchInv
<1>2. /\ DOMAIN loop' = Procs /\ loop' = [p \in Procs |-> loop'[p]]
      /\ \A p \in Procs : loop'[p] \in Rounds(p)
      /\ \A p \in Procs : loop'[p].phase = "checked" => loop'[p].read <= clock' /\ loop'[p].new <= clock'
  BY <1>1, LoopTyped
<1>3. row'.notified <= clock'
  <2>1. clock \in Nat /\ clock' \in Nat /\ row.notified \in Nat /\ row.notified <= clock
    BY <1>1, Numbers DEF WatchTypes, Row
  <2> QED BY <2>1 DEF None
<1>4. said' \in Nat /\ word' \in {"nothing", "offline", "online"}
  BY <1>1 DEF WatchTypes
<1>5. beat' # NoBeat => beat'.now <= clock'
  OBVIOUS
<1>6. WatchTypes'
  BY <1>2, <1>3, <1>4, <1>5 DEF WatchTypes, NoBeat, NoAsk
<1>7. UnderWay'
  BY <1>1, SameLoop DEF UnderWay, NoBeat, NoAsk
<1>8. NothingYet'
  BY <1>1, SameLoop DEF NothingYet
<1> QED BY <1>6, <1>7, <1>8 DEF WatchInv

LEMMA PassMoves ==
    ASSUME WatchTypes, Pass
    PROVE  clock' \in Times /\ clock < clock'
<1>1. clock \in Nat /\ PerMinute \in Nat \ {0}
  BY Numbers, BoundsAssumption DEF WatchTypes
<1>2. PICK d \in Nat : d = clock \div PerMinute /\ clock < PerMinute * d + PerMinute
  BY <1>1, MinuteOf
<1>3. clock' = (d + 1) * PerMinute /\ clock' \in Times
  BY <1>2 DEF Pass
<1>4. (d + 1) * PerMinute = PerMinute * d + PerMinute
  BY <1>1, <1>2
<1> QED BY <1>1, <1>2, <1>3, <1>4

LEMMA WatchPass ==
    ASSUME WatchInv, Pass
    PROVE  WatchInv'
<1>1. /\ UNCHANGED <<row, loop, beat, ask, word, said, excuses>>
      /\ clock' \in Times /\ clock < clock'
  BY PassMoves DEF Pass, history, WatchInv
<1>2. clock \in Nat /\ clock' \in Nat /\ row.seen \in Nat /\ row.seen <= clock /\ row \in Row /\ row.notified \in Nat
  BY <1>1, Numbers DEF WatchInv, WatchTypes, Row
<1>3. /\ beat = NoBeat \/ beat \in [phase : {"read"}, now : Times, archived : BOOLEAN]
      /\ ask = NoAsk \/ ask \in [phase : {"read"}, old : Row, new : Row]
      /\ beat # NoBeat => beat.now <= clock /\ row.seen <= beat.now
      /\ ask # NoAsk => ask.new.seen = ask.old.seen /\ ask.new.notified \in {None, ask.old.notified}
      /\ excuses \in 0 .. MaxExcuses
  BY DEF WatchInv, WatchTypes, UnderWay
<1>4. beat # NoBeat => beat.now \in Nat
  BY <1>3, Numbers
<1>5. beat # NoBeat => beat.now <= clock'
  BY <1>1, <1>2, <1>3, <1>4
<1> QED BY <1>1, <1>2, <1>3, <1>5, WatchStill

LEMMA WatchBeatRead ==
    ASSUME WatchInv, BeatRead
    PROVE  WatchInv'
<1>1. /\ UNCHANGED <<row, loop, ask, word, said, excuses>>
      /\ clock' = clock + 1 /\ clock' \in Times
      /\ beat' = [phase |-> "read", now |-> clock', archived |-> row.archived]
  BY DEF BeatRead, history
<1>2. clock \in Nat /\ clock' \in Nat /\ row.seen \in Nat /\ row.seen <= clock /\ row \in Row
  BY <1>1, Numbers DEF WatchInv, WatchTypes, Row
<1>3. /\ ask = NoAsk \/ ask \in [phase : {"read"}, old : Row, new : Row]
      /\ ask # NoAsk => ask.new.seen = ask.old.seen /\ ask.new.notified \in {None, ask.old.notified}
      /\ excuses \in 0 .. MaxExcuses
  BY DEF WatchInv, WatchTypes, UnderWay
<1>4. beat' \in [phase : {"read"}, now : Times, archived : BOOLEAN] /\ beat'.now = clock'
  BY <1>1, <1>2 DEF Row
<1> QED BY <1>1, <1>2, <1>3, <1>4, WatchStill

LEMMA WatchBeatCommit ==
    ASSUME WatchInv, BeatCommit
    PROVE  /\ WatchInv'
           /\ row'.seen = beat.now /\ row.seen <= beat.now /\ beat # NoBeat /\ row'.notified = row.notified
           /\ said' = 0 /\ excuses' = 0 /\ UNCHANGED <<clock, loop, ask, word>> /\ beat' = NoBeat
<1>1. /\ UNCHANGED <<clock, loop, ask, word>> /\ beat' = NoBeat /\ said' = 0 /\ excuses' = 0
      /\ row' = [row EXCEPT !.seen = beat.now, !.archived = IF beat.archived THEN FALSE ELSE @]
      /\ beat.phase = "read"
  BY DEF BeatCommit
<1>2. beat # NoBeat /\ beat \in [phase : {"read"}, now : Times, archived : BOOLEAN]
  BY <1>1 DEF NoBeat, WatchInv, WatchTypes
<1>3. row \in Row /\ beat.now \in Column /\ clock \in Times /\ clock \in Nat /\ beat.now <= clock /\ row.seen <= beat.now
  BY <1>2, Numbers DEF WatchInv, WatchTypes, UnderWay, Column
<1>4. row' \in Row /\ row'.seen = beat.now /\ row'.notified = row.notified
  BY <1>1, <1>3 DEF Row
<1>5. /\ ask = NoAsk \/ ask \in [phase : {"read"}, old : Row, new : Row]
      /\ ask # NoAsk => ask.new.seen = ask.old.seen /\ ask.new.notified \in {None, ask.old.notified}
      /\ 0 \in 0 .. MaxExcuses
  BY BoundsAssumption DEF WatchInv, WatchTypes, UnderWay
<1>6. WatchInv'
  BY <1>1, <1>3, <1>4, <1>5, WatchStill
<1> QED BY <1>1, <1>2, <1>3, <1>4, <1>6

LEMMA WatchBeatLost ==
    ASSUME WatchInv, BeatLost
    PROVE  WatchInv'
<1>1. UNCHANGED <<clock, row, loop, ask, word, said, excuses>> /\ beat' = NoBeat
  BY DEF BeatLost, history
<1>2. clock \in Times /\ clock \in Nat /\ row \in Row /\ row.seen <= clock
  BY Numbers DEF WatchInv, WatchTypes
<1>3. /\ ask = NoAsk \/ ask \in [phase : {"read"}, old : Row, new : Row]
      /\ ask # NoAsk => ask.new.seen = ask.old.seen /\ ask.new.notified \in {None, ask.old.notified}
      /\ excuses \in 0 .. MaxExcuses
  BY DEF WatchInv, WatchTypes, UnderWay
<1> QED BY <1>1, <1>2, <1>3, WatchStill

\* What a request of the console may change.
LEMMA Asked ==
    ASSUME NEW r \in Row, NEW on \in BOOLEAN, NEW s \in {Watched(r, on), Archived(r, on)}
    PROVE  s \in Row /\ s.seen = r.seen /\ s.notified \in {None, r.notified}
<1>1. None \in Column
  BY DEF Column
<1>2. CASE s = Watched(r, on)
  BY <1>1, <1>2 DEF Watched, Row
<1>3. CASE s = Archived(r, on)
  BY <1>1, <1>3 DEF Archived, Row
<1> QED BY <1>2, <1>3

LEMMA Merging ==
    ASSUME row \in Row, NEW old \in Row, NEW new \in Row,
           new.seen = old.seen, new.notified \in {None, old.notified}
    PROVE  /\ Merged(old, new) \in Row /\ Merged(old, new).seen = row.seen
           /\ Merged(old, new).notified \in {None, row.notified}
<1> DEFINE m == Merged(old, new)
<1>1. DOMAIN row = {"seen", "watch", "notified", "archived"}
  BY DEF Row
<1>2. m = [c \in {"seen", "watch", "notified", "archived"} |-> IF new[c] # old[c] THEN new[c] ELSE row[c]]
  BY <1>1 DEF Merged
<1>3. /\ m.seen = (IF new.seen # old.seen THEN new.seen ELSE row.seen)
      /\ m.watch = (IF new.watch # old.watch THEN new.watch ELSE row.watch)
      /\ m.notified = (IF new.notified # old.notified THEN new.notified ELSE row.notified)
      /\ m.archived = (IF new.archived # old.archived THEN new.archived ELSE row.archived)
  BY <1>2
<1>4. m = [seen |-> m.seen, watch |-> m.watch, notified |-> m.notified, archived |-> m.archived]
  BY <1>2
<1>5. m.seen \in Column /\ m.watch \in BOOLEAN /\ m.notified \in Column /\ m.archived \in BOOLEAN
  BY <1>3 DEF Row
<1> HIDE DEF m
<1>6. m \in Row
  BY <1>4, <1>5 DEF Row
<1> QED BY <1>3, <1>6 DEF m

LEMMA WatchAskRead ==
    ASSUME WatchInv, AskRead
    PROVE  WatchInv'
<1>1. UNCHANGED <<clock, row, loop, beat, word, said, excuses>>
  BY DEF AskRead, history
<1>2. clock \in Times /\ clock \in Nat /\ row \in Row /\ row.seen <= clock
  BY Numbers DEF WatchInv, WatchTypes
<1>3. PICK on \in BOOLEAN : \E r \in {Watched(row, on), Archived(row, on)} \ {row} :
          ask' = [phase |-> "read", old |-> row, new |-> r]
  BY DEF AskRead
<1>4. PICK r \in {Watched(row, on), Archived(row, on)} : ask' = [phase |-> "read", old |-> row, new |-> r]
  BY <1>3
<1>5. r \in Row /\ r.seen = row.seen /\ r.notified \in {None, row.notified}
  BY <1>2, Asked
<1>6. /\ ask' \in [phase : {"read"}, old : Row, new : Row]
      /\ ask'.new.seen = ask'.old.seen /\ ask'.new.notified \in {None, ask'.old.notified}
  BY <1>2, <1>4, <1>5
<1>7. /\ beat = NoBeat \/ beat \in [phase : {"read"}, now : Times, archived : BOOLEAN]
      /\ beat # NoBeat => beat.now <= clock /\ row.seen <= beat.now
      /\ excuses \in 0 .. MaxExcuses
  BY DEF WatchInv, WatchTypes, UnderWay
<1> QED BY <1>1, <1>2, <1>6, <1>7, WatchStill

LEMMA WatchAskCommit ==
    ASSUME WatchInv, AskCommit
    PROVE  /\ WatchInv'
           /\ row'.seen = row.seen /\ row'.notified \in {None, row.notified}
           /\ excuses' = IF row.notified # None /\ row'.notified = None THEN excuses + 1 ELSE excuses
           /\ UNCHANGED <<clock, loop, beat, word, said>>
<1>1. /\ UNCHANGED <<clock, loop, beat, word, said>> /\ ask' = NoAsk /\ ask.phase = "read"
      /\ row' = Merged(ask.old, ask.new)
      /\ row.notified # None /\ row'.notified = None => excuses < MaxExcuses
      /\ excuses' = IF row.notified # None /\ row'.notified = None THEN excuses + 1 ELSE excuses
  BY DEF AskCommit
<1>2. /\ ask # NoAsk /\ ask \in [phase : {"read"}, old : Row, new : Row]
      /\ ask.new.seen = ask.old.seen /\ ask.new.notified \in {None, ask.old.notified}
  BY <1>1 DEF NoAsk, WatchInv, WatchTypes, UnderWay
<1>3. clock \in Times /\ clock \in Nat /\ row \in Row /\ row.seen <= clock /\ excuses \in 0 .. MaxExcuses
  BY Numbers DEF WatchInv, WatchTypes
<1>4. row' \in Row /\ row'.seen = row.seen /\ row'.notified \in {None, row.notified}
  BY <1>1, <1>2, <1>3, Merging
<1>5. excuses' \in 0 .. MaxExcuses
  BY <1>1, <1>3, BoundsAssumption
<1>6. /\ beat = NoBeat \/ beat \in [phase : {"read"}, now : Times, archived : BOOLEAN]
      /\ beat # NoBeat => beat.now <= clock /\ row.seen <= beat.now
  BY DEF WatchInv, WatchTypes, UnderWay
<1>7. WatchInv'
  BY <1>1, <1>3, <1>4, <1>5, <1>6, WatchStill
<1> QED BY <1>1, <1>4, <1>7

LEMMA WatchAskLost ==
    ASSUME WatchInv, AskLost
    PROVE  WatchInv'
<1>1. UNCHANGED <<clock, row, loop, beat, word, said, excuses>> /\ ask' = NoAsk
  BY DEF AskLost, history
<1>2. clock \in Times /\ clock \in Nat /\ row \in Row /\ row.seen <= clock
  BY Numbers DEF WatchInv, WatchTypes
<1>3. /\ beat = NoBeat \/ beat \in [phase : {"read"}, now : Times, archived : BOOLEAN]
      /\ beat # NoBeat => beat.now <= clock /\ row.seen <= beat.now
      /\ excuses \in 0 .. MaxExcuses
  BY DEF WatchInv, WatchTypes, UnderWay
<1> QED BY <1>1, <1>2, <1>3, WatchStill

LEMMA WatchInit ==
    ASSUME Init
    PROVE  WatchInv /\ Announced = {} /\ Clearing = {}
<1>1. /\ clock = Created /\ row \in Row /\ row.seen \in {None, Created} /\ row.notified = None
      /\ loop = [p \in Procs |-> [phase |-> "asleep", rest |-> {}]]
      /\ beat = NoBeat /\ ask = NoAsk /\ word = "nothing" /\ said = 0 /\ excuses = 0
  BY DEF Init
<1>2. clock \in Times /\ row.seen <= clock /\ row.notified <= clock
  BY <1>1, Numbers DEF Created, None
<1>3. \A p \in Procs : loop[p] \in Rounds(p) /\ ~Checked(p)
  BY <1>1 DEF Rounds, Checked
<1>4. 0 \in 0 .. MaxExcuses
  BY BoundsAssumption
<1>5. DOMAIN loop = Procs /\ loop = [p \in Procs |-> loop[p]]
  BY <1>1
<1>6. WatchTypes
  BY <1>1, <1>2, <1>3, <1>4, <1>5 DEF WatchTypes, Checked
<1>7. Announced = {} /\ Clearing = {}
  BY <1>3 DEF Announced, Clearing
<1>8. UnderWay /\ NothingYet
  BY <1>1, <1>3 DEF UnderWay, NothingYet
<1> QED BY <1>6, <1>7, <1>8 DEF WatchInv

LEMMA WatchStutter ==
    ASSUME WatchInv, UNCHANGED vars
    PROVE  WatchInv'
BY SameLoop DEF WatchInv, WatchTypes, UnderWay, NothingYet, vars

LEMMA WatchStep ==
    ASSUME WatchInv, [Next]_vars
    PROVE  WatchInv'
<1>1. CASE UNCHANGED vars
  BY <1>1, WatchStutter
<1>2. ASSUME NEW p \in Procs,
             CheckRead(p) \/ CheckCommit(p) \/ ArchiveRead(p) \/ ArchiveCommit(p) \/ Abort(p)
      PROVE  WatchInv'
  BY <1>2, WatchCheckRead, WatchCheckCommit, WatchArchive
<1>3. CASE Pass \/ BeatRead \/ BeatCommit \/ BeatLost
  BY <1>3, WatchPass, WatchBeatRead, WatchBeatCommit, WatchBeatLost
<1>4. CASE AskRead \/ AskCommit \/ AskLost
  BY <1>4, WatchAskRead, WatchAskCommit, WatchAskLost
<1> QED BY <1>1, <1>2, <1>3, <1>4 DEF Next

LEMMA WatchIsTyped ==
    ASSUME WatchInv
    PROVE  TypeOK
<1>1. WatchTypes /\ NothingYet
  BY DEF WatchInv
<1>2. \A p \in Procs :
          /\ loop[p].rest \subseteq Procs \ {p}
          /\ loop[p].phase \in {"asleep", "checked", "awake", "archiving"}
          /\ loop[p].phase = "checked" => {loop[p].read, loop[p].new} \subseteq None..clock
  <2>1. SUFFICES ASSUME NEW p \in Procs, Checked(p)
                 PROVE  loop[p].read \in None..clock /\ loop[p].new \in None..clock
    BY <1>1, RoundType DEF Checked
  <2>2. clock \in Nat
    BY <1>1, Numbers DEF WatchTypes
  <2> QED BY <1>1, <2>1, <2>2, RoundType DEF None
<1>3. beat = NoBeat \/ beat \in [phase : {"read"}, now : Created..clock, archived : BOOLEAN]
  <2>1. SUFFICES ASSUME beat # NoBeat
                 PROVE  beat \in [phase : {"read"}, now : Created..clock, archived : BOOLEAN]
    OBVIOUS
  <2>2. beat \in [phase : {"read"}, now : Times, archived : BOOLEAN] /\ beat.now <= clock /\ clock \in Nat
    BY <1>1, <2>1, Numbers DEF WatchTypes
  <2>3. beat.now \in Created..clock
    BY <2>2, BoundsAssumption DEF Times, Created
  <2> QED BY <2>2, <2>3
<1> QED BY <1>1, <1>2, <1>3 DEF TypeOK, WatchTypes, NothingYet

\* Nothing is dated in the future or recorded before it was announced, and every round, heartbeat
\* and request is in one of its stages.
THEOREM WatchTypeCorrect == Spec => []TypeOK
<1>1. Init => WatchInv
  BY WatchInit
<1>2. WatchInv /\ [Next]_vars => WatchInv'
  BY WatchStep
<1>3. WatchInv => TypeOK
  BY WatchIsTyped
<1> QED BY <1>1, <1>2, <1>3, PTL DEF Spec

-----------------------------------------------------------------------------
(* What is on record was told, with one or two processes. *)

LEMMA Two ==
    ASSUME Cardinality(Procs) <= 2, NEW p \in Procs, NEW q \in Procs, p # q
    PROVE  Procs = {p, q} /\ Cardinality(Procs) = 2
<1>1. IsFiniteSet({p, q}) /\ Cardinality({p, q}) = 2 /\ {p, q} \subseteq Procs
  <2>1. IsFiniteSet({p}) /\ Cardinality({p}) = 1
    BY FS_Singleton
  <2>2. IsFiniteSet({p} \cup {q}) /\ Cardinality({p} \cup {q}) = 2
    BY <2>1, FS_AddElement
  <2> QED BY <2>2
<1>2. IsFiniteSet(Procs) /\ Cardinality(Procs) \in Nat
  BY ProcsAssumption, FS_CardinalityType
<1>3. Cardinality({p, q}) <= Cardinality(Procs)
       /\ (Cardinality({p, q}) = Cardinality(Procs) => {p, q} = Procs)
  BY <1>1, <1>2, FS_Subset
<1> QED BY <1>1, <1>2, <1>3

LEMMA Naturals ==
    ASSUME WatchTypes
    PROVE  /\ clock \in Nat /\ row \in Row /\ row.seen \in Nat /\ row.notified \in Nat
           /\ row.seen <= clock /\ row.notified <= clock /\ said \in Nat /\ excuses \in Nat
           /\ \A p \in Announced \cup Clearing : /\ p \in Procs /\ Checked(p)
                                                /\ loop[p].read \in Nat /\ loop[p].new \in Nat
                                                /\ loop[p].read <= clock /\ loop[p].new <= clock
<1>1. \A p \in Announced \cup Clearing : p \in Procs /\ Checked(p)
  BY DEF Announced, Clearing
<1> QED BY <1>1, RoundType, Numbers, BoundsAssumption DEF WatchTypes, Row

LEMMA WaitingRead ==
    ASSUME WatchTypes, NEW p \in Procs, CheckRead(p), NEW r \in Procs, NEW q \in Procs, Waits(q, r)
    PROVE  Waits(q, r)' /\ q # p
<1>1. loop[p].phase = "asleep" /\ loop[p].rest = {} /\ \A x \in Procs \ {p} : loop'[x] = loop[x]
  BY ReadDecides
<1>2. q # p
  BY <1>1 DEF Waits
<1> QED BY <1>1, <1>2 DEF Waits

LEMMA TellCheckRead ==
    ASSUME TellInv, NEW p \in Procs, CheckRead(p)
    PROVE  Telling'
<1>1. WatchTypes /\ Telling /\ UNCHANGED row
  BY DEF TellInv, WatchInv, CheckRead
<1>2. word' = CASE WentOffline -> "offline" [] CameBack -> "online" [] OTHER -> word
  BY DEF CheckRead
<1>3. WentOffline => row.notified = None
  BY DEF WentOffline
<1>4. CameBack => row.notified # None /\ row.seen > row.notified
  BY DEF CameBack
<1>5. /\ Announced' \subseteq Announced \cup {p} /\ (p \in Announced' => WentOffline)
      /\ \A r \in Announced : r # p /\ r \in Procs /\ loop'[r] = loop[r]
  BY <1>1, ReadJoins, ReadDecides, Naturals
<1>6. ASSUME NEW r \in Announced', row.notified # None, NEW q \in Procs \ {r}
      PROVE  Waits(q, r)'
  <2>1. r \in Announced /\ r \in Procs
    BY <1>3, <1>5, <1>6
  <2>2. Waits(q, r)
    BY <1>1, <1>6, <2>1 DEF Telling
  <2> QED BY <1>1, <2>1, <2>2, WaitingRead
<1>7. ASSUME CameBack
      PROVE  Announced' = {}
  <2>1. ASSUME NEW r \in Announced PROVE FALSE
    <3>1. Waits(p, r)
      BY <1>1, <1>4, <1>5, <1>7, <2>1 DEF Telling
    <3> QED BY <1>1, <1>5, <2>1, <3>1, WaitingRead
  <2> QED BY <1>1, <1>7, <2>1, ReadJoins, ReadDecides
<1>8. row.notified # None /\ row.seen <= row.notified => word' = "offline"
  <2>1. row.notified \in Nat /\ row.seen \in Nat
    BY <1>1, Naturals
  <2> QED BY <1>1, <1>2, <1>4, <2>1 DEF Telling
<1>9. ASSUME NEW r \in Announced', row.seen <= loop'[r].new
      PROVE  word' = "offline"
  <2>1. CASE WentOffline
    BY <1>1, <1>2, <2>1, ReadDecides
  <2>2. CASE ~WentOffline
    <3>1. r \in Announced /\ loop'[r] = loop[r] /\ ~CameBack
      BY <1>5, <1>7, <1>9, <2>2
    <3>2. word = "offline"
      BY <1>1, <1>9, <3>1 DEF Telling
    <3> QED BY <1>2, <2>2, <3>1, <3>2
  <2> QED BY <2>1, <2>2
<1> QED BY <1>1, <1>6, <1>8, <1>9 DEF Telling

\* The rounds that wait for another still do after a step of theirs.
LEMMA WaitingGoes ==
    ASSUME WatchTypes, NEW p \in Procs, Goes(p), NEW r \in Announced' \cup Clearing',
           NEW q \in Procs \ {r}, Waits(q, r) \/ q = p
    PROVE  Waits(q, r)'
BY Gone DEF Goes

LEMMA TellCheckCommit ==
    ASSUME Cardinality(Procs) <= 2, TellInv, NEW p \in Procs, CheckCommit(p)
    PROVE  Telling'
<1>1. WatchTypes /\ UnderWay /\ Telling /\ WatchInv /\ Goes(p) /\ Checked(p)
  BY WatchCheckCommit DEF TellInv, WatchInv, CheckCommit, Checked
<1>2. /\ UNCHANGED <<clock, word>> /\ row' = [row EXCEPT !.notified = Remembered(loop[p])] /\ row \in Row
  BY <1>1 DEF CheckCommit, history, WatchTypes
<1>3. row'.seen = row.seen /\ row'.notified = Remembered(loop[p])
  BY <1>2 DEF Row
<1>4. /\ Announced' = Announced \ {p} /\ Announced \subseteq Procs
      /\ \A r \in Announced' : r \in Procs \ {p} /\ loop'[r].new = loop[r].new
  BY <1>1, Gone DEF Announced
<1>5. ASSUME NEW r \in Announced', row'.notified # None, NEW q \in Procs \ {r}
      PROVE  Waits(q, r)'
  <2>1. r \in Procs \ {p}
    BY <1>4
  <2>2. q = p
    <3>1. Procs = {p, r}
      BY <2>1, Two
    <3> QED BY <3>1
  <2> QED BY <1>1, <2>2, WaitingGoes
<1>6. row'.notified # None /\ row'.seen <= row'.notified => word' = "offline"
  <2>1. CASE p \in Announced
    <3>1. Remembered(loop[p]) = loop[p].new
      BY <2>1 DEF Announced, Remembered
    <3> QED BY <1>1, <1>2, <1>3, <2>1, <3>1 DEF Telling
  <2>2. CASE p \in Clearing
    BY <1>3, <2>2 DEF Clearing, Remembered
  <2>3. CASE loop[p].new = loop[p].read
    BY <1>1, <1>2, <1>3, <2>3 DEF Telling, Remembered
  <2> QED BY <1>1, <2>1, <2>2, <2>3 DEF UnderWay
<1>7. \A r \in Announced' : row'.seen <= loop'[r].new => word' = "offline"
  BY <1>1, <1>2, <1>3, <1>4 DEF Telling
<1> QED BY <1>5, <1>6, <1>7 DEF Telling

LEMMA TellGoes ==
    ASSUME TellInv, NEW p \in Procs, Goes(p), UNCHANGED word,
           row'.seen = row.seen, row'.notified = row.notified
    PROVE  Telling'
<1>1. WatchTypes /\ Telling
  BY DEF TellInv, WatchInv
<1>2. \A r \in Announced' : r \in Announced /\ r \in Procs \ {p} /\ loop'[r].new = loop[r].new
  BY <1>1, Gone DEF Announced
<1>3. \A r \in Announced' : row'.notified # None => \A q \in Procs \ {r} : Waits(q, r)'
  BY <1>1, <1>2, WaitingGoes DEF Telling
<1> QED BY <1>1, <1>2, <1>3 DEF Telling

LEMMA TellStill ==
    ASSUME TellInv, UNCHANGED <<loop, word>>, row'.seen \in Nat, row.seen <= row'.seen,
           row'.notified \in {None, row.notified}
    PROVE  Telling'
<1>1. WatchTypes /\ Telling /\ row.seen \in Nat /\ row.notified \in Nat /\ UNCHANGED loop
  BY Naturals DEF TellInv, WatchInv
<1>2. \A r \in Announced' : r \in Announced /\ r \in Procs /\ loop'[r].new = loop[r].new /\ loop[r].new \in Nat
  BY <1>1, SameLoop, Naturals
<1>3. \A r \in Announced' : row'.notified # None => \A q \in Procs \ {r} : Waits(q, r)'
  BY <1>1, <1>2, SameLoop DEF Telling
<1>4. row'.notified # None /\ row'.seen <= row'.notified => word' = "offline"
  BY <1>1 DEF Telling
<1>5. \A r \in Announced' : row'.seen <= loop'[r].new => word' = "offline"
  BY <1>1, <1>2 DEF Telling
<1> QED BY <1>3, <1>4, <1>5 DEF Telling

LEMMA TellStep ==
    ASSUME Cardinality(Procs) <= 2, TellInv, [Next]_vars
    PROVE  TellInv'
<1>1. WatchInv /\ WatchInv' /\ row.seen \in Nat
  BY WatchStep, Naturals DEF TellInv, WatchInv
<1>2. CASE UNCHANGED vars
  BY <1>1, <1>2, TellStill DEF TellInv, vars
<1>3. ASSUME NEW p \in Procs,
             CheckRead(p) \/ CheckCommit(p) \/ ArchiveRead(p) \/ ArchiveCommit(p) \/ Abort(p)
      PROVE  TellInv'
  BY <1>1, <1>3, TellCheckRead, TellCheckCommit, WatchArchive, TellGoes DEF TellInv
<1>4. CASE Pass \/ BeatRead \/ BeatLost \/ AskRead \/ AskLost
  <2>1. UNCHANGED <<row, loop, word>>
    BY <1>4 DEF Pass, BeatRead, BeatLost, AskRead, AskLost, history
  <2> QED BY <1>1, <2>1, TellStill DEF TellInv
<1>5. CASE BeatCommit
  <2>1. row'.seen \in Nat
    BY <1>1, Naturals, Numbers DEF WatchInv, WatchTypes, Row
  <2> QED BY <1>1, <1>5, <2>1, WatchBeatCommit, TellStill DEF TellInv
<1>6. CASE AskCommit
  BY <1>1, <1>6, WatchAskCommit, TellStill DEF TellInv
<1> QED BY <1>2, <1>3, <1>4, <1>5, <1>6 DEF Next

\* With one or two server processes: while the record of an announcement is newer than the
\* device's last sign of life, the last thing the administrator was told is that it is offline,
\* whichever rounds, heartbeats and requests of the console overlapped or failed.
THEOREM RecordsAreTold ==
    ASSUME Cardinality(Procs) <= 2
    PROVE  Spec => []RecordIsTold
<1>1. Init => TellInv
  BY WatchInit DEF TellInv, Telling, Init
<1>2. TellInv /\ [Next]_vars => TellInv'
  BY TellStep
<1>3. TellInv => RecordIsTold
  BY DEF TellInv, Telling, RecordIsTold
<1> QED BY <1>1, <1>2, <1>3, PTL DEF Spec

-----------------------------------------------------------------------------
(* How often a silence is announced, with one or two processes. *)

LEMMA MinutesAre ==
    ASSUME NEW a \in Nat, NEW b \in Nat, NEW c \in Nat
    PROVE  /\ Minutes(a, b) \in Int /\ Minutes(a, a) = 0
           /\ Minutes(b, c) = 0 => Minutes(a, c) = Minutes(a, b)
           /\ a <= b => Minutes(b, c) <= Minutes(a, c)
<1>1. a \div PerMinute \in Nat /\ b \div PerMinute \in Nat /\ c \div PerMinute \in Nat
  BY MinuteOf
<1>2. a <= b => a \div PerMinute <= b \div PerMinute
  BY MinutesGrow
<1> QED BY <1>1, <1>2 DEF Minutes

\* A device that has reported since this minute's announcement is not silent.
LEMMA NotSilent ==
    ASSUME WatchTypes, InTime, NEW r \in Announced, row.seen > loop[r].new
    PROVE  ~Silent(clock)
<1>1. clock \in Nat /\ row.seen \in Nat /\ loop[r].new \in Nat /\ SilentFor \in Nat /\ loop[r].new <= row.seen
  BY Naturals, BoundsAssumption
<1>2. Minutes(loop[r].new, clock) = 0
  BY DEF InTime
<1>3. Minutes(row.seen, clock) <= 0 /\ Minutes(row.seen, clock) \in Int
  BY <1>1, <1>2, MinutesAre
<1> QED BY <1>1, <1>3 DEF Silent

LEMMA TimeGoes ==
    ASSUME OnceInv, NEW p \in Procs, Goes(p), UNCHANGED <<clock, beat>>
    PROVE  InTime'
<1>1. WatchTypes /\ InTime
  BY DEF OnceInv, WatchInv
<1>2. \A r \in Announced' : r \in Announced /\ loop'[r].new = loop[r].new
  BY <1>1, Gone DEF Announced
<1> QED BY <1>1, <1>2 DEF InTime, Minutes

LEMMA TimeCheckRead ==
    ASSUME OnceInv, NEW p \in Procs, CheckRead(p)
    PROVE  InTime'
<1>1. WatchTypes /\ InTime /\ UNCHANGED <<clock, beat>>
  BY DEF OnceInv, WatchInv, CheckRead
<1>2. ASSUME NEW r \in Announced'
      PROVE  Minutes(loop'[r].new, clock) = 0
  <2>1. CASE r = p
    <3>1. loop'[r].new = clock
      BY <1>1, <1>2, <2>1, ReadJoins, ReadDecides
    <3> QED BY <1>1, <3>1, Naturals, MinutesAre
  <2>2. CASE r # p
    <3>1. r \in Announced /\ r \in Procs
      BY <1>1, <1>2, <2>2, ReadJoins DEF Announced
    <3>2. loop'[r] = loop[r]
      BY <1>1, <2>2, <3>1, ReadDecides
    <3> QED BY <1>1, <3>1, <3>2 DEF InTime
  <2> QED BY <2>1, <2>2
<1> QED BY <1>1, <1>2 DEF InTime, Minutes

LEMMA ReturnedCheckRead ==
    ASSUME OnceInv, NEW p \in Procs, CheckRead(p)
    PROVE  Returned'
<1>1. WatchTypes /\ InTime /\ Returned /\ UNCHANGED row
  BY DEF OnceInv, WatchInv, CheckRead
<1>2. said' = IF WentOffline THEN said + 1 ELSE said
  BY DEF CheckRead
<1>3. WentOffline => row.notified = None /\ Silent(clock)
  BY DEF WentOffline
<1>4. row.notified # None /\ row.seen > row.notified => said' = 0
  BY <1>1, <1>2, <1>3 DEF Returned
<1>5. ASSUME NEW r \in Announced', row.seen > loop'[r].new
      PROVE  said' = 0
  <2>1. CASE r = p
    <3>1. loop'[r].new = clock
      BY <1>1, <1>5, <2>1, ReadJoins, ReadDecides
    <3> QED BY <1>1, <1>5, <3>1, Naturals
  <2>2. CASE r # p
    <3>1. r \in Announced /\ r \in Procs
      BY <1>1, <1>5, <2>2, ReadJoins DEF Announced
    <3>2. loop'[r] = loop[r]
      BY <1>1, <2>2, <3>1, ReadDecides
    <3>3. ~WentOffline
      BY <1>1, <1>3, <1>5, <3>1, <3>2, NotSilent
    <3> QED BY <1>1, <1>2, <1>5, <3>1, <3>2, <3>3 DEF Returned
  <2> QED BY <2>1, <2>2
<1> QED BY <1>1, <1>4, <1>5 DEF Returned

LEMMA ReturnedCheckCommit ==
    ASSUME OnceInv, NEW p \in Procs, CheckCommit(p)
    PROVE  Returned'
<1>1. WatchTypes /\ UnderWay /\ Returned /\ Goes(p) /\ Checked(p)
  BY WatchCheckCommit DEF OnceInv, WatchInv, CheckCommit, Checked
<1>2. /\ UNCHANGED said /\ row' = [row EXCEPT !.notified = Remembered(loop[p])] /\ row \in Row
  BY <1>1 DEF CheckCommit, history, WatchTypes
<1>3. row'.seen = row.seen /\ row'.notified = Remembered(loop[p])
  BY <1>2 DEF Row
<1>4. \A r \in Announced' : r \in Announced /\ loop'[r].new = loop[r].new
  BY <1>1, Gone DEF Announced
<1>5. row'.notified # None /\ row'.seen > row'.notified => said' = 0
  <2>1. CASE p \in Announced
    <3>1. Remembered(loop[p]) = loop[p].new
      BY <2>1 DEF Announced, Remembered
    <3> QED BY <1>1, <1>2, <1>3, <2>1, <3>1 DEF Returned
  <2>2. CASE p \in Clearing
    BY <1>3, <2>2 DEF Clearing, Remembered
  <2>3. CASE loop[p].new = loop[p].read
    BY <1>1, <1>2, <1>3, <2>3 DEF Returned, Remembered
  <2> QED BY <1>1, <2>1, <2>2, <2>3 DEF UnderWay
<1> QED BY <1>1, <1>2, <1>3, <1>4, <1>5 DEF Returned

LEMMA ReturnedGoes ==
    ASSUME OnceInv, NEW p \in Procs, Goes(p), UNCHANGED said,
           row'.seen = row.seen, row'.notified = row.notified
    PROVE  Returned'
<1>1. WatchTypes /\ Returned
  BY DEF OnceInv, WatchInv
<1>2. \A r \in Announced' : r \in Announced /\ loop'[r].new = loop[r].new
  BY <1>1, Gone DEF Announced
<1> QED BY <1>1, <1>2 DEF Returned

LEMMA ClearsCheckRead ==
    ASSUME Cardinality(Procs) <= 2, OnceInv, NEW p \in Procs, CheckRead(p)
    PROVE  Clears'
<1>1. WatchTypes /\ Returned /\ Clears /\ UNCHANGED <<row, clock, excuses>>
  BY DEF OnceInv, WatchInv, CheckRead
<1>2. said' = IF WentOffline THEN said + 1 ELSE said
  BY DEF CheckRead
<1>3. WentOffline => row.notified = None /\ Silent(clock)
  BY DEF WentOffline
<1>4. Silent(clock)' <=> Silent(clock)
  BY <1>1 DEF Silent
<1>5. SUFFICES ASSUME NEW q \in Clearing'
      PROVE  /\ said' = 0 \/ (said' = 1 /\ excuses # 0 /\ \A x \in Procs \ {q} : Waits(x, q)')
             /\ row.notified = None => \/ excuses # 0 \/ ~Silent(clock)
                                       \/ \A x \in Procs \ {q} : Waits(x, q)'
  BY <1>1, <1>4 DEF Clears
<1>6. CASE q = p
  <2>1. CameBack /\ ~WentOffline
    BY <1>1, <1>6, ReadJoins, ReadDecides
  <2>2. row.notified # None /\ row.seen > row.notified
    BY <2>1 DEF CameBack
  <2> QED BY <1>1, <1>2, <2>1, <2>2 DEF Returned
<1>7. CASE q # p
  <2>1. q \in Clearing /\ q \in Procs
    BY <1>1, <1>7, ReadJoins DEF Clearing
  <2>2. /\ said = 0 \/ (said = 1 /\ excuses # 0 /\ \A x \in Procs \ {q} : Waits(x, q))
        /\ row.notified = None => \/ excuses # 0 \/ ~Silent(clock)
                                  \/ \A x \in Procs \ {q} : Waits(x, q)
    BY <1>1, <2>1 DEF Clears
  <2>3. \A x \in Procs : Waits(x, q) => Waits(x, q)'
    BY <1>1, <2>1, WaitingRead
  <2>4. CASE ~WentOffline
    BY <1>2, <2>2, <2>3, <2>4
  <2>5. CASE WentOffline
    <3>1. ~Waits(p, q)
      BY <1>1, <2>1, WaitingRead
    <3>2. said = 0 /\ excuses # 0
      BY <1>3, <1>7, <2>2, <2>5, <3>1
    <3>3. Waits(p, q)'
      BY <1>1, ReadDecides DEF Waits
    <3>4. Procs = {p, q}
      BY <1>7, <2>1, Two
    <3> QED BY <1>2, <2>5, <3>2, <3>3, <3>4
  <2> QED BY <2>4, <2>5
<1> QED BY <1>6, <1>7

LEMMA ClearsGoes ==
    ASSUME Cardinality(Procs) <= 2, OnceInv, NEW p \in Procs, Goes(p), UNCHANGED said,
           excuses' \in {excuses, excuses + 1}
    PROVE  Clears'
<1>1. WatchTypes /\ Clears /\ excuses \in Nat
  BY Naturals DEF OnceInv, WatchInv
<1>2. SUFFICES ASSUME NEW q \in Clearing'
      PROVE  (said = 0 \/ (said = 1 /\ excuses' # 0)) /\ \A x \in Procs \ {q} : Waits(x, q)'
  BY DEF Clears
<1>3. q \in Clearing /\ q \in Procs \ {p}
  BY <1>1, Gone DEF Clearing
<1>4. Procs = {p, q}
  BY <1>3, Two
<1>5. Waits(p, q)'
  BY <1>1, <1>3, WaitingGoes
<1>6. said = 0 \/ (said = 1 /\ excuses # 0)
  BY <1>1, <1>3 DEF Clears
<1> QED BY <1>1, <1>4, <1>5, <1>6

LEMMA Few ==
    ASSUME Cardinality(Procs) <= 2
    PROVE  /\ Cardinality(Procs) \in {0, 1, 2} /\ IsFiniteSet(Procs)
           /\ \A p \in Procs : Cardinality(Procs) \in {1, 2}
           /\ Announced \subseteq Procs /\ IsFiniteSet(Announced)
           /\ Cardinality(Announced) \in Nat /\ Cardinality(Announced) <= Cardinality(Procs)
<1>1. IsFiniteSet(Procs) /\ Cardinality(Procs) \in Nat /\ (Cardinality(Procs) = 0 <=> Procs = {})
  BY ProcsAssumption, FS_CardinalityType, FS_EmptySet
<1>2. Announced \subseteq Procs
  BY DEF Announced
<1>3. IsFiniteSet(Announced) /\ Cardinality(Announced) <= Cardinality(Procs)
  BY <1>1, <1>2, FS_Subset
<1>4. Cardinality(Announced) \in Nat
  BY <1>3, FS_CardinalityType
<1> QED BY <1>1, <1>2, <1>3, <1>4

LEMMA Shares ==
    ASSUME NEW n \in {0, 1, 2}, NEW e \in Nat
    PROVE  /\ n * e \in Nat /\ n * (e + 1) = n * e + n /\ n * (1 + e) = n * e + n
           /\ e # 0 => n <= n * e
<1>1. CASE n = 0
  BY <1>1
<1>2. CASE n = 1
  BY <1>2
<1>3. CASE n = 2
  BY <1>3
<1> QED BY <1>1, <1>2, <1>3

LEMMA BudgetCheckRead ==
    ASSUME Cardinality(Procs) <= 2, OnceInv, NEW p \in Procs, CheckRead(p)
    PROVE  Budget'
<1>1. WatchTypes /\ Budget /\ UNCHANGED <<row, excuses>>
  BY DEF OnceInv, WatchInv, CheckRead
<1>2. said' = IF WentOffline THEN said + 1 ELSE said
  BY DEF CheckRead
<1>3. /\ p \notin Announced /\ (WentOffline => Announced' = Announced \cup {p})
      /\ ~WentOffline => Announced' = Announced
  BY <1>1, ReadJoins
<1> DEFINE N == Cardinality(Procs)
           a == Cardinality(Announced)
<1>4. N \in {0, 1, 2} /\ a \in Nat /\ a <= N /\ IsFiniteSet(Announced) /\ Announced \subseteq Procs /\ IsFiniteSet(Procs)
  BY Few
<1>5. said \in Nat /\ excuses \in Nat
  BY <1>1, Naturals
<1>6. /\ row.notified = None => said <= N * excuses + a
      /\ said <= N * (1 + excuses)
  BY <1>1 DEF Budget, OncePerOutage
<1>7. CASE WentOffline
  <2>1. PICK b \in Nat : b = Cardinality(Announced') /\ b = a + 1 /\ b <= N
    <3>1. IsFiniteSet(Announced \cup {p}) /\ Cardinality(Announced \cup {p}) = a + 1
      BY <1>3, <1>4, FS_AddElement
    <3>2. Announced \cup {p} \subseteq Procs
      BY <1>4
    <3>3. Cardinality(Announced \cup {p}) <= N
      BY <1>4, <3>2, FS_Subset
    <3>4. Announced' = Announced \cup {p}
      BY <1>3, <1>7
    <3>5. Cardinality(Announced') = Cardinality(Announced \cup {p})
      BY <3>4, Zenon
    <3>6. a + 1 \in Nat
      BY <1>4
    <3> QED BY <3>1, <3>3, <3>5, <3>6
  <2>2. row.notified = None /\ said' = said + 1
    BY <1>2, <1>7 DEF WentOffline
  <2>3. Budget' <=> /\ said + 1 <= N * excuses + b
                    /\ said + 1 <= N * (1 + excuses)
    BY <1>1, <2>1, <2>2 DEF Budget, OncePerOutage
  <2> HIDE DEF N, a
  <2>4. N * excuses \in Nat /\ N * (1 + excuses) = N * excuses + N
    BY <1>4, <1>5, Shares
  <2> QED BY <1>4, <1>5, <1>6, <2>1, <2>2, <2>3, <2>4
<1>8. CASE ~WentOffline
  BY <1>1, <1>2, <1>3, <1>8 DEF Budget, OncePerOutage
<1> QED BY <1>7, <1>8

LEMMA BudgetCheckCommit ==
    ASSUME Cardinality(Procs) <= 2, OnceInv, NEW p \in Procs, CheckCommit(p)
    PROVE  Budget'
<1>1. WatchTypes /\ UnderWay /\ Clears /\ Budget /\ Goes(p) /\ Checked(p)
  BY WatchCheckCommit DEF OnceInv, WatchInv, CheckCommit, Checked
<1>2. /\ UNCHANGED <<said, excuses>> /\ row' = [row EXCEPT !.notified = Remembered(loop[p])] /\ row \in Row
  BY <1>1 DEF CheckCommit, history, WatchTypes
<1>3. row'.notified = Remembered(loop[p]) /\ Announced' = Announced \ {p}
  BY <1>1, <1>2, Gone DEF Row
<1>4. said <= Cardinality(Procs) * (1 + excuses)
  BY <1>1 DEF Budget, OncePerOutage
<1>5. ASSUME row'.notified = None
      PROVE  said <= Cardinality(Procs) * excuses + Cardinality(Announced \ {p})
  <2>1. CASE p \in Announced
    BY <1>3, <1>5, <2>1 DEF Announced, Remembered
  <2>2. CASE p \in Clearing
    <3>1. p \notin Announced
      BY <2>2 DEF Announced, Clearing
    <3>2. said = 0 \/ (said = 1 /\ excuses # 0)
      BY <1>1, <2>2 DEF Clears
    <3>3. Announced \ {p} = Announced
      BY <3>1
    <3> DEFINE N == Cardinality(Procs)
               a == Cardinality(Announced)
    <3>4. N \in {0, 1, 2} /\ N \in {1, 2} /\ a \in Nat /\ excuses \in Nat
      BY <1>1, Few, Naturals
    <3> HIDE DEF N, a
    <3>5. N * excuses \in Nat /\ (excuses # 0 => N <= N * excuses)
      BY <3>4, Shares
    <3>6. said <= N * excuses + a
      BY <3>2, <3>4, <3>5
    <3> QED BY <3>3, <3>6 DEF N, a
  <2>3. CASE p \notin Announced /\ loop[p].new = loop[p].read
    <3>1. Announced \ {p} = Announced /\ row.notified = None
      BY <1>3, <1>5, <2>3 DEF Remembered
    <3> QED BY <1>1, <3>1 DEF Budget
  <2> QED BY <1>1, <2>1, <2>2, <2>3 DEF UnderWay
<1> QED BY <1>2, <1>3, <1>4, <1>5 DEF Budget, OncePerOutage

LEMMA BudgetArchive ==
    ASSUME Cardinality(Procs) <= 2, OnceInv, NEW p \in Procs, ArchiveRead(p) \/ ArchiveCommit(p)
    PROVE  Budget' /\ excuses' = excuses
<1>1. WatchTypes /\ Budget /\ Goes(p) /\ row'.notified = row.notified /\ UNCHANGED <<said, excuses>>
  BY WatchArchive DEF OnceInv, WatchInv, ArchiveRead, ArchiveCommit, history
<1>2. p \notin Announced
  BY DEF ArchiveRead, ArchiveCommit, Announced, Checked
<1>3. Announced' = Announced
  BY <1>1, <1>2, Gone
<1> QED BY <1>1, <1>3 DEF Budget, OncePerOutage

LEMMA BudgetAbort ==
    ASSUME Cardinality(Procs) <= 2, OnceInv, NEW p \in Procs, Abort(p)
    PROVE  Budget' /\ excuses' \in {excuses, excuses + 1}
<1>1. WatchTypes /\ Budget /\ Goes(p) /\ UNCHANGED <<said, row>>
  BY WatchArchive DEF OnceInv, WatchInv, Abort
<1>2. Announced' = Announced \ {p}
  BY <1>1, Gone
<1>3. IF loop[p].phase = "checked" /\ loop[p].new \notin {None, loop[p].read}
      THEN excuses < MaxExcuses /\ excuses' = excuses + 1
      ELSE UNCHANGED excuses
  BY DEF Abort
<1>4. p \in Announced => loop[p].phase = "checked" /\ loop[p].new \notin {None, loop[p].read}
  BY DEF Announced, Checked
<1> DEFINE N == Cardinality(Procs)
           a == Cardinality(Announced)
<1>5. N \in {0, 1, 2} /\ N \in {1, 2} /\ a \in Nat /\ a <= N /\ IsFiniteSet(Announced)
      /\ excuses \in Nat /\ said \in Nat
  BY <1>1, Few, Naturals
<1>6. excuses' \in {excuses, excuses + 1} /\ (p \in Announced => excuses' = excuses + 1)
  BY <1>3, <1>4
<1>7. PICK b \in Nat : b = Cardinality(Announced') /\ b = IF p \in Announced THEN a - 1 ELSE a
  <2>1. IsFiniteSet(Announced \ {p}) /\ Cardinality(Announced \ {p}) = IF p \in Announced THEN a - 1 ELSE a
    BY <1>5, FS_RemoveElement
  <2>2. Cardinality(Announced \ {p}) \in Nat
    BY <2>1, FS_CardinalityType
  <2> QED BY <1>2, <2>1, <2>2
<1>8. PICK e \in Nat : e = excuses'
  BY <1>5, <1>6
<1>9. /\ row.notified = None => said <= N * excuses + a
      /\ said <= N * (1 + excuses)
  BY <1>1 DEF Budget, OncePerOutage
<1>10. Budget' <=> /\ row.notified = None => said <= N * e + b
                   /\ said <= N * (1 + e)
  BY <1>1, <1>7, <1>8 DEF Budget, OncePerOutage
<1> HIDE DEF N, a
<1>11. /\ N * excuses \in Nat /\ N * (excuses + 1) = N * excuses + N
       /\ N * (1 + excuses) = N * excuses + N
  BY <1>5, Shares
<1>12. N * (1 + (excuses + 1)) = N * (excuses + 1) + N
  BY <1>5, Shares
<1>13. CASE excuses' = excuses
  <2>1. e = excuses /\ b = a
    BY <1>5, <1>6, <1>7, <1>8, <1>13
  <2> QED BY <1>9, <1>10, <1>6, <2>1
<1>14. CASE excuses' = excuses + 1
  <2>1. e = excuses + 1 /\ a <= b + 1
    BY <1>5, <1>7, <1>8, <1>14
  <2>2. N * e = N * excuses + N /\ N * (1 + e) = N * excuses + N + N
    BY <1>5, <1>11, <1>12, <2>1
  <2>3. Budget'
    BY <1>5, <1>7, <1>9, <1>10, <1>11, <2>1, <2>2
  <2> QED BY <1>6, <2>3
<1> QED BY <1>6, <1>13, <1>14

\* A step in which the loops stand still, and the time and the announcements too.
LEMMA OnceStill ==
    ASSUME OnceInv, WatchInv', UNCHANGED <<clock, loop, said>>, row'.seen = row.seen,
           row'.notified \in {None, row.notified},
           excuses' = IF row.notified # None /\ row'.notified = None THEN excuses + 1 ELSE excuses,
           beat' # NoBeat => Minutes(beat'.now, clock) <= 1
    PROVE  Cardinality(Procs) <= 2 => OnceInv'
<1>1. WatchTypes /\ InTime /\ Returned /\ Clears /\ Budget /\ UNCHANGED loop
  BY DEF OnceInv, WatchInv
<1>2. /\ Announced' = Announced /\ Clearing' = Clearing /\ Clearing \subseteq Procs
      /\ \A p \in Procs : \A q \in Procs : Waits(q, p)' <=> Waits(q, p)
  BY SameLoop DEF Clearing
<1>3. said \in Nat /\ excuses \in Nat
  BY <1>1, Naturals
<1>4. InTime'
  BY <1>1, <1>2 DEF InTime, Minutes, NoBeat
<1>5. Returned'
  BY <1>1, <1>2 DEF Returned
<1>6. Clears'
  <2>1. Silent(clock)' <=> Silent(clock)
    BY <1>1 DEF Silent
  <2>2. SUFFICES ASSUME NEW q \in Clearing
                 PROVE  /\ said = 0 \/ (said = 1 /\ excuses' # 0 /\ \A p \in Procs \ {q} : Waits(p, q))
                        /\ row'.notified = None => \/ excuses' # 0 \/ ~Silent(clock)
                                                   \/ \A p \in Procs \ {q} : Waits(p, q)
    BY <1>2, <2>1 DEF Clears
  <2>3. /\ said = 0 \/ (said = 1 /\ excuses # 0 /\ \A p \in Procs \ {q} : Waits(p, q))
        /\ row.notified = None => \/ excuses # 0 \/ ~Silent(clock)
                                  \/ \A p \in Procs \ {q} : Waits(p, q)
    BY <1>1 DEF Clears
  <2> QED BY <1>3, <2>3
<1>7. ASSUME Cardinality(Procs) <= 2
      PROVE  Budget'
  <2> DEFINE N == Cardinality(Procs)
             a == Cardinality(Announced)
  <2>1. N \in {0, 1, 2} /\ a \in Nat
    BY <1>7, Few
  <2>2. /\ row.notified = None => said <= N * excuses + a
        /\ said <= N * (1 + excuses)
    BY <1>1 DEF Budget, OncePerOutage
  <2>3. PICK e \in Nat : e = excuses'
    BY <1>3
  <2>4. Cardinality(Announced') = a
    BY <1>2, Zenon
  <2>5. Budget' <=> /\ row'.notified = None => said <= N * e + a
                    /\ said <= N * (1 + e)
    BY <2>3, <2>4 DEF Budget, OncePerOutage
  <2> HIDE DEF N, a
  <2>6. /\ N * excuses \in Nat /\ N * (excuses + 1) = N * excuses + N
        /\ N * (1 + excuses) = N * excuses + N
    BY <1>3, <2>1, Shares
  <2>7. N * (1 + (excuses + 1)) = N * (excuses + 1) + N
    BY <1>3, <2>1, Shares
  <2>8. CASE row.notified # None /\ row'.notified = None
    <3>1. e = excuses + 1
      BY <2>3, <2>8
    <3>2. N * e = N * excuses + N /\ N * (1 + e) = N * excuses + N + N
      BY <2>1, <2>6, <2>7, <3>1
    <3> QED BY <1>3, <2>1, <2>2, <2>5, <2>6, <3>2
  <2>9. CASE ~(row.notified # None /\ row'.notified = None)
    <3>1. e = excuses /\ row'.notified = row.notified
      BY <2>3, <2>9
    <3> QED BY <2>2, <2>5, <3>1
  <2> QED BY <2>8, <2>9
<1> QED BY <1>4, <1>5, <1>6, <1>7 DEF OnceInv

\* The time goes on: with a new minute no round is under way, and a heartbeat that arrives is of
\* the same minute.
LEMMA OnceTime ==
    ASSUME Cardinality(Procs) <= 2, OnceInv, Pass \/ BeatRead
    PROVE  OnceInv'
<1>1. /\ WatchInv /\ WatchTypes /\ InTime /\ Returned /\ Clears /\ Budget
      /\ UNCHANGED <<loop, row, said, excuses>> /\ WatchInv'
  BY WatchPass, WatchBeatRead DEF OnceInv, WatchInv, Pass, BeatRead, history
<1>2. clock \in Nat /\ clock' \in Nat /\ row.seen \in Nat
  BY <1>1, Naturals, Numbers DEF WatchInv, WatchTypes
<1>3. /\ Announced' = Announced /\ Clearing' = Clearing /\ Clearing \subseteq Procs
      /\ \A p \in Procs : \A q \in Procs : Waits(q, p)' <=> Waits(q, p)
  BY <1>1, SameLoop DEF Clearing
<1>4. Returned'
  BY <1>1, <1>3 DEF Returned
<1>5. Budget'
  <2>1. Cardinality(Announced') = Cardinality(Announced)
    BY <1>3, Zenon
  <2> QED BY <1>1, <2>1 DEF Budget, OncePerOutage
<1>6. CASE Pass
  <2>1. Announced = {} /\ Clearing = {}
    BY <1>6 DEF Pass, Announced, Clearing, Checked
  <2>2. beat' # NoBeat => Minutes(beat'.now, clock') <= 1
    BY <1>6 DEF Pass
  <2>3. InTime'
    BY <1>3, <2>1, <2>2 DEF InTime, Minutes, NoBeat
  <2>4. Clears'
    BY <1>3, <2>1 DEF Clears
  <2> QED BY <1>1, <1>4, <1>5, <2>3, <2>4 DEF OnceInv
<1>7. CASE BeatRead
  <2>1. Minutes(clock, clock') = 0 /\ beat'.now = clock'
    BY <1>7 DEF BeatRead
  <2>2. \A x \in Nat : Minutes(x, clock') = Minutes(x, clock)
    BY <1>2, <2>1, MinutesAre
  <2>3. InTime'
    <3>1. \A r \in Announced : Minutes(loop[r].new, clock') = 0
      BY <1>1, <2>2, Naturals DEF InTime
    <3>2. Minutes(clock', clock') = 0
      BY <1>2, MinutesAre
    <3>3. \A r \in Announced' : Minutes(loop'[r].new, clock') = 0
      BY <1>1, <1>3, <3>1
    <3>4. Minutes(beat'.now, clock') <= 1
      BY <2>1, <3>2
    <3> QED BY <3>3, <3>4 DEF InTime, Minutes
  <2>4. Silent(clock)' <=> Silent(clock)
    <3>1. Minutes(row.seen, clock') = Minutes(row.seen, clock)
      BY <1>2, <2>2
    <3> QED BY <1>1, <3>1 DEF Silent, Minutes
  <2>5. Clears'
    BY <1>1, <1>3, <2>4 DEF Clears
  <2> QED BY <1>1, <1>4, <1>5, <2>3, <2>5 DEF OnceInv
<1> QED BY <1>6, <1>7

\* A heartbeat ends the silence.
LEMMA OnceBeat ==
    ASSUME Cardinality(Procs) <= 2, OnceInv, BeatCommit
    PROVE  OnceInv'
<1>1. /\ WatchInv /\ WatchTypes /\ InTime /\ WatchInv' /\ UNCHANGED <<clock, loop>>
      /\ row'.seen = beat.now /\ beat # NoBeat /\ beat' = NoBeat /\ said' = 0 /\ excuses' = 0
  BY WatchBeatCommit DEF OnceInv, WatchInv
<1>2. clock \in Nat /\ beat.now \in Nat /\ SilentFor \in Nat \ {0}
  BY <1>1, Naturals, Numbers, BoundsAssumption DEF WatchTypes
<1>3. Announced' = Announced /\ Clearing' = Clearing
  BY <1>1, SameLoop
<1>4. InTime'
  BY <1>1, <1>3 DEF InTime, Minutes
<1>5. Returned'
  BY <1>1 DEF Returned
<1>6. ~Silent(clock)'
  <2>1. Minutes(beat.now, clock) <= 1 /\ Minutes(beat.now, clock) \in Int
    BY <1>1, <1>2, MinutesAre DEF InTime
  <2>2. ~(Minutes(beat.now, clock) > SilentFor)
    BY <1>2, <2>1
  <2>3. ~(Minutes(row'.seen, clock') > SilentFor)
    BY <1>1, <2>2
  <2> QED BY <2>3 DEF Silent, Minutes
<1>7. Clears'
  BY <1>1, <1>6 DEF Clears
<1>8. Budget'
  <2>1. PICK b \in Nat : b = Cardinality(Announced')
    <3>1. Cardinality(Announced') = Cardinality(Announced)
      BY <1>3, Zenon
    <3> QED BY <3>1, Few
  <2>2. Cardinality(Procs) * 0 = 0 /\ Cardinality(Procs) * (1 + 0) = Cardinality(Procs) /\ Cardinality(Procs) \in Nat
    <3>1. Cardinality(Procs) \in {0, 1, 2}
      BY Few
    <3> QED BY <3>1
  <2> QED BY <1>1, <2>1, <2>2 DEF Budget, OncePerOutage
<1> QED BY <1>1, <1>4, <1>5, <1>7, <1>8 DEF OnceInv

LEMMA OnceRound ==
    ASSUME Cardinality(Procs) <= 2, OnceInv, NEW p \in Procs,
           CheckRead(p) \/ CheckCommit(p) \/ ArchiveRead(p) \/ ArchiveCommit(p) \/ Abort(p)
    PROVE  OnceInv'
<1>1. WatchInv
  BY DEF OnceInv
<1>2. CASE CheckRead(p)
  BY <1>1, <1>2, WatchCheckRead, TimeCheckRead, ReturnedCheckRead, ClearsCheckRead, BudgetCheckRead DEF OnceInv
<1>3. CASE CheckCommit(p)
  <2>1. Goes(p) /\ WatchInv' /\ UNCHANGED <<clock, beat, said, excuses>>
    BY <1>1, <1>3, WatchCheckCommit DEF CheckCommit, history
  <2> QED BY <1>3, <2>1, TimeGoes, ReturnedCheckCommit, ClearsGoes, BudgetCheckCommit DEF OnceInv
<1>4. CASE ArchiveRead(p) \/ ArchiveCommit(p) \/ Abort(p)
  <2>1. Goes(p) /\ WatchInv' /\ row'.seen = row.seen /\ row'.notified = row.notified
        /\ UNCHANGED <<clock, beat, said>>
    BY <1>1, <1>4, WatchArchive
  <2>2. Budget' /\ excuses' \in {excuses, excuses + 1}
    BY <1>4, BudgetArchive, BudgetAbort
  <2> QED BY <2>1, <2>2, TimeGoes, ReturnedGoes, ClearsGoes DEF OnceInv
<1> QED BY <1>2, <1>3, <1>4

LEMMA OnceStep ==
    ASSUME Cardinality(Procs) <= 2, OnceInv, [Next]_vars
    PROVE  OnceInv'
<1>1. WatchInv /\ WatchInv' /\ InTime
  BY WatchStep DEF OnceInv
<1>2. CASE UNCHANGED vars \/ BeatLost \/ AskRead \/ AskLost
  <2>1. /\ UNCHANGED <<clock, row, loop, said, excuses>>
        /\ beat' \in {beat, NoBeat}
    BY <1>2 DEF vars, BeatLost, AskRead, AskLost, history
  <2>2. beat' # NoBeat => Minutes(beat'.now, clock) <= 1
    BY <1>1, <2>1 DEF InTime
  <2> QED BY <1>1, <2>1, <2>2, OnceStill
<1>3. CASE AskCommit
  <2>1. beat' # NoBeat => Minutes(beat'.now, clock) <= 1
    BY <1>1, <1>3 DEF InTime, AskCommit
  <2> QED BY <1>1, <1>3, <2>1, WatchAskCommit, OnceStill
<1> QED BY <1>2, <1>3, OnceTime, OnceBeat, OnceRound DEF Next

\* With one or two server processes: each announces a silence at most once, and once more for
\* every round that failed after its announcement and every time the administrator switched
\* watching off while it was on record.
THEOREM AnnouncedOncePerOutage ==
    ASSUME Cardinality(Procs) <= 2
    PROVE  Spec => []OncePerOutage
<1>1. Init => OnceInv
  <2>1. SUFFICES ASSUME Init PROVE OnceInv
    OBVIOUS
  <2>2. /\ WatchInv /\ Announced = {} /\ Clearing = {}
        /\ beat = NoBeat /\ said = 0 /\ excuses = 0 /\ row.notified = None
    BY <2>1, WatchInit DEF Init
  <2>3. Budget
    <3>1. Cardinality(Announced) = 0
      BY <2>2, FS_EmptySet
    <3>2. Cardinality(Procs) \in {0, 1, 2}
      BY Few
    <3> QED BY <2>2, <3>1, <3>2 DEF Budget, OncePerOutage
  <2> QED BY <2>2, <2>3 DEF OnceInv, InTime, Returned, Clears
<1>2. OnceInv /\ [Next]_vars => OnceInv'
  BY OnceStep
<1>3. OnceInv => OncePerOutage
  BY DEF OnceInv, Budget
<1> QED BY <1>1, <1>2, <1>3, PTL DEF Spec
===============================================================================
