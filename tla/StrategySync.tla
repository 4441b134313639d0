----------------------------- MODULE StrategySync -----------------------------
(***************************************************************************)
(* Strategies: named sets of client options, and how a device gets them.   *)
(*                                                                         *)
(* A device follows its own strategy, else its group's, else the default   *)
(* one.  Its client reports in every heartbeat the version of the options  *)
(* it holds; the answer carries the options of the strategy in force when  *)
(* the two differ, or once more, from time to time, when the heartbeat's   *)
(* scheme shows that the client has dropped the https API server which the *)
(* strategy sets.  Meanwhile administrators create, edit, assign and       *)
(* delete strategies; a request reads its rows without a lock and writes   *)
(* them at its end.  One device, one group, one heartbeat at a time.       *)
(***************************************************************************)
EXTENDS Naturals, FiniteSets, Sequences

CONSTANTS
    Admins,     \* console requests in progress at once
    MaxPk,      \* bound: strategies that exist at once
    MaxVersion, \* bound: versions taken from the clock
    Contents    \* what a strategy may contain, among [opt: BOOLEAN, api: BOOLEAN]

ASSUME BoundsAssumption == MaxPk \in Nat \ {0} /\ MaxVersion \in Nat \ {0}
ASSUME ContentsAssumption == Contents # {} /\ Contents \subseteq [opt: BOOLEAN, api: BOOLEAN]

VARIABLES
    strategies, \* the table: primary key -> content, version, default or not
    device,     \* the device: its own strategy, whether it is in the group, the group's strategy
    recent,     \* whether a strategy was sent to the device in the last five minutes
    clock,      \* the last instant a version was taken at
    ask,        \* the console requests between their reads and their writes
    beat,       \* the heartbeat in progress
    client      \* the client: the version it holds, an ordinary option, an https API server

vars == <<strategies, device, recent, clock, ask, beat, client>>
config == <<strategies, device, clock, ask>>

None == 0
Pks == 1..MaxPk
Versions == 0..MaxVersion
Rows == [content: Contents, version: Versions, default: BOOLEAN]
Exists(p) == p \in DOMAIN strategies
NoAsk == [op |-> "none"]
NoBeat == [phase |-> "idle"]

\* Types; the client holds no version that was not taken yet, and no foreign key dangles.
TypeOK ==
    /\ \E S \in SUBSET Pks : strategies \in [S -> Rows]
    /\ device \in [own: {None} \cup DOMAIN strategies, member: BOOLEAN,
                   group: {None} \cup DOMAIN strategies]
    /\ recent \in BOOLEAN
    /\ clock \in Versions
    /\ \A p \in DOMAIN strategies : strategies[p].version <= clock
    /\ ask \in [Admins -> {NoAsk}
          \cup [op: {"edit"}, pk: Pks, content: Contents, version: Versions]
          \cup [op: {"default"}, pk: Pks \cup {None}, on: SUBSET Pks]]
    /\ \/ beat = NoBeat
       \/ beat \in [phase: {"sent"}, awaited: BOOLEAN, have: Versions, http: BOOLEAN]
       \/ beat \in [phase: {"read"}, awaited: BOOLEAN, have: Versions, http: BOOLEAN,
                    own: Pks \cup {None}, member: BOOLEAN, recent: BOOLEAN]
       \/ beat \in [phase: {"answered"}, carries: BOOLEAN, version: Versions,
                    options: [opt: BOOLEAN, api: {"set", "reset", "absent"}]]
    /\ client \in [have: 0..clock, opt: BOOLEAN, api: BOOLEAN]

\* An installation without strategies; the device's API server may be an https one already.
Init ==
    /\ strategies = [p \in {} |-> None]
    /\ device = [own |-> None, member |-> FALSE, group |-> None]
    /\ recent = FALSE
    /\ clock = 0
    /\ ask = [a \in Admins |-> NoAsk]
    /\ beat = NoBeat
    /\ client \in [have: {0}, opt: {FALSE}, api: BOOLEAN]

-----------------------------------------------------------------------------
(* The console *)

\* Microseconds: no two versions are taken at the same instant.
Tick == clock < MaxVersion /\ clock' = clock + 1

\* _next_version: the time, forced above the previous version.
NextVersion(previous) == IF clock' > previous THEN clock' ELSE previous + 1

\* SQLite gives a new row the number after the highest.
NextPk == 1 + Cardinality({p \in Pks : \E q \in DOMAIN strategies : q >= p})

Create ==
    /\ NextPk \in Pks /\ Tick
    /\ \E c \in Contents :
          strategies' = [p \in DOMAIN strategies \cup {NextPk} |->
              IF p = NextPk THEN [content |-> c, version |-> NextVersion(0), default |-> FALSE]
              ELSE strategies[p]]
    /\ UNCHANGED <<device, recent, ask, beat, client>>

\* Mutant: nothing happens to the rows that refer to a deleted one.
UnsetIgnored(ref, p) == ref

\* ON DELETE SET NULL.
Unset(ref, p) == IF ref = p THEN None ELSE ref

Delete(p) ==
    /\ Exists(p)
    /\ strategies' = [q \in DOMAIN strategies \ {p} |-> strategies[q]]
    /\ device' = [device EXCEPT !.own = Unset(@, p), !.group = Unset(@, p)]
    /\ UNCHANGED <<recent, clock, ask, beat, client>>

\* A strategy that is unchanged by the edit gets no new version (and nothing to write).
EditRead(a, p) ==
    /\ ask[a] = NoAsk /\ Exists(p) /\ Tick
    /\ \E c \in Contents \ {strategies[p].content} :
          ask' = [ask EXCEPT ![a] = [op |-> "edit", pk |-> p, content |-> c,
                                     version |-> NextVersion(strategies[p].version)]]
    /\ UNCHANGED <<strategies, device, recent, beat, client>>

\* Mutant: the options are written without their version.
EditWriteKeepsVersion(a) ==
    /\ ask[a].op = "edit"
    /\ strategies' = [p \in DOMAIN strategies |->
          IF p = ask[a].pk THEN [strategies[p] EXCEPT !.content = ask[a].content] ELSE strategies[p]]
    /\ ask' = [ask EXCEPT ![a] = NoAsk]
    /\ UNCHANGED <<device, recent, clock, beat, client>>

\* The row may be gone by now: the request fails and nothing of it stays.
EditWrite(a) ==
    /\ ask[a].op = "edit"
    /\ strategies' = [p \in DOMAIN strategies |->
          IF p = ask[a].pk
          THEN [strategies[p] EXCEPT !.content = ask[a].content, !.version = ask[a].version]
          ELSE strategies[p]]
    /\ ask' = [ask EXCEPT ![a] = NoAsk]
    /\ UNCHANGED <<device, recent, clock, beat, client>>

Defaults == {p \in DOMAIN strategies : strategies[p].default}

\* Make p the default, or, when it is, leave no default.
DefaultRead(a, p) ==
    /\ ask[a] = NoAsk /\ Exists(p)
    /\ \E q \in {p} \cup (IF p \in Defaults THEN {None} ELSE {}) :
          ask' = [ask EXCEPT ![a] = [op |-> "default", pk |-> q, on |-> Defaults]]
    /\ UNCHANGED <<strategies, device, recent, clock, beat, client>>

\* Mutant: the strategies that were the default stay so.
DefaultedKeepsOthers(r) ==
    [p \in DOMAIN strategies |-> [strategies[p] EXCEPT !.default = @ \/ p = r.pk]]

\* set_default: those that were read as the default, and only they, are cleared; the chosen
\* one is not written when it was read as the default.
Defaulted(r) ==
    [p \in DOMAIN strategies |->
        [strategies[p] EXCEPT !.default = CASE p \in r.on \ {r.pk} -> FALSE
                                            [] p = r.pk /\ p \notin r.on -> TRUE
                                            [] OTHER -> @]]

\* When one of the rows to write is gone, the request fails as a whole.
Written(r) == (r.on \ {r.pk}) \cup ({r.pk} \ (r.on \cup {None}))

DefaultWrite(a) ==
    /\ ask[a].op = "default"
    /\ strategies' = IF Written(ask[a]) \subseteq DOMAIN strategies THEN Defaulted(ask[a])
                     ELSE strategies
    /\ ask' = [ask EXCEPT ![a] = NoAsk]
    /\ UNCHANGED <<device, recent, clock, beat, client>>

Assign ==
    /\ \/ \E p \in {None} \cup DOMAIN strategies :
             device' \in {[device EXCEPT !.own = p], [device EXCEPT !.group = p]}
       \/ device' = [device EXCEPT !.member = ~@]
    /\ UNCHANGED <<strategies, recent, clock, ask, beat, client>>

-----------------------------------------------------------------------------
(* The client *)

\* The client falls back to http when it holds no https API server.
Send ==
    /\ beat = NoBeat
    /\ beat' = [phase |-> "sent", awaited |-> TRUE, have |-> client.have, http |-> ~client.api]
    /\ UNCHANGED <<config, recent, client>>

\* The user removes the API server.
DropApi ==
    /\ client.api
    /\ client' = [client EXCEPT !.api = FALSE]
    /\ UNCHANGED <<config, recent, beat>>

\* The client waits no longer; a request that nobody waits for may be lost on its way.
GiveUp ==
    /\ beat.phase \in {"sent", "read"}
    /\ \/ beat.awaited /\ beat' = [beat EXCEPT !.awaited = FALSE]
       \/ beat.phase = "sent" /\ ~beat.awaited /\ beat' = NoBeat
    /\ UNCHANGED <<config, recent, client>>

LoseAnswer == beat.phase = "answered" /\ beat' = NoBeat /\ UNCHANGED <<config, recent, client>>

\* An option that is sent empty is reset; one that is not sent stays.
Applied(c, b) ==
    [have |-> b.version,
     opt  |-> b.options.opt,
     api  |-> b.options.api = "set" \/ (c.api /\ b.options.api = "absent")]

Receive ==
    /\ beat.phase = "answered"
    /\ client' = IF beat.carries THEN Applied(client, beat) ELSE client
    /\ beat' = NoBeat
    /\ UNCHANGED <<config, recent>>

-----------------------------------------------------------------------------
(* POST /api/heartbeat *)

\* Five minutes since the strategy was last sent.
Elapse == recent /\ recent' = FALSE /\ UNCHANGED <<config, beat, client>>

\* The device's row is read first.
BeatRead ==
    /\ beat.phase = "sent"
    /\ beat' = [phase |-> "read", awaited |-> beat.awaited, have |-> beat.have, http |-> beat.http,
                own |-> device.own, member |-> device.member, recent |-> recent]
    /\ UNCHANGED <<config, recent, client>>

\* The default one; of two, the one the table scan meets first.
GetDefault == IF Defaults = {} THEN None ELSE CHOOSE p \in Defaults : \A q \in Defaults : p <= q

\* The strategy in force: of what the row said, a strategy that is gone counts as none.
Effective(own, member) ==
    CASE own # None                                    -> IF Exists(own) THEN own ELSE None
      [] own = None /\ member /\ device.group # None -> device.group
      [] OTHER                                         -> GetDefault

ApiServerLost(s, http, wasRecent) == s.content.api /\ http /\ ~wasRecent

\* Mutant: only a newer version is sent.
UpToDateIfNewer(s, b) == s.version <= b.have /\ ~ApiServerLost(s, b.http, b.recent)

UpToDate(s, b) == s.version = b.have /\ ~ApiServerLost(s, b.http, b.recent)

\* Mutant: every option of the catalog is sent, the API server too.
ConfigOptionsAll(c) == [opt |-> c.opt, api |-> IF c.api THEN "set" ELSE "reset"]

\* Every option is sent, the unset ones empty, but the API server (a sticky one) only
\* while it has a value.
ConfigOptions(c) == [opt |-> c.opt, api |-> IF c.api THEN "set" ELSE "absent"]

Answer(carries, version, c) ==
    [phase |-> "answered", carries |-> carries, version |-> version, options |-> ConfigOptions(c)]

Nothing == [opt |-> FALSE, api |-> FALSE]

\* heartbeat_fragment: a reset, the options in force, or nothing.
Fragment(b, p) ==
    CASE p = None /\ b.have # 0 -> Answer(TRUE, 0, Nothing)
      [] p # None /\ ~UpToDate(strategies[p], b) ->
             Answer(TRUE, strategies[p].version, strategies[p].content)
      [] OTHER -> Answer(FALSE, 0, Nothing)

\* From here on the handler holds the write lock, to its commit.
BeatAnswer ==
    /\ beat.phase = "read"
    /\ LET f == Fragment(beat, Effective(beat.own, beat.member)) IN
          /\ recent' = (recent \/ (f.carries /\ f.version # 0))
          /\ beat' = IF beat.awaited THEN f ELSE NoBeat
    /\ UNCHANGED <<config, client>>

\* The server restarts: whatever was between its reads and its writes is gone.
ServerRestart ==
    /\ ask' = [a \in Admins |-> NoAsk]
    /\ beat' = IF beat.phase = "read" THEN NoBeat ELSE beat
    /\ UNCHANGED <<strategies, device, recent, clock, client>>

Next ==
    \/ Create \/ Assign \/ \E p \in Pks : Delete(p)
    \/ \E a \in Admins : \/ \E p \in Pks : EditRead(a, p) \/ DefaultRead(a, p)
                         \/ EditWrite(a) \/ DefaultWrite(a)
    \/ Send \/ DropApi \/ GiveUp \/ LoseAnswer \/ Receive
    \/ Elapse \/ BeatRead \/ BeatAnswer \/ ServerRestart

Spec == Init /\ [][Next]_vars

\* The client keeps sending heartbeats, and five minutes pass; not all handlers die with
\* the server, and not all answers that carry options are lost.
Fairness ==
    /\ WF_vars(Send) /\ WF_vars(Elapse) /\ WF_vars(BeatRead) /\ SF_vars(BeatAnswer)
    /\ WF_vars(Receive \/ LoseAnswer) /\ SF_vars(Receive /\ beat.carries)

FairSpec == Spec /\ Fairness

-----------------------------------------------------------------------------
(* Properties *)

\* "The strategy is re-sent only when [the version] differs": so a client that holds the
\* version of a strategy holds its options too, whatever edits overlap, and it keeps the
\* version only as long as that is true.
VersionIdentifies ==
    \A p \in DOMAIN strategies :
        strategies[p].version = client.have => client.opt = strategies[p].content.opt

\* No strategy, edit or reset ever takes a client's API server away (that would take the
\* device off this server): only its user does.
ApiServerKept == [][client.api /\ ~client'.api => DropApi]_vars

\* models/strategy.py: "At most one strategy is the default (services.strategies.set_default
\* keeps it so)".
AtMostOneDefault == Cardinality(Defaults) <= 1

\* The first there is of the device's own strategy, its group's and the default one.
Precedence ==
    SelectSeq(<<device.own, IF device.member THEN device.group ELSE None, GetDefault>>,
              LAMBDA p : p # None)

\* The client holds what is in force for the device, the API server included; when nothing
\* is, nothing of what it was sent before is left.
InForce ==
    IF Precedence = <<>> THEN client.have = 0 /\ ~client.opt
    ELSE LET s == strategies[Head(Precedence)] IN
             client.have = s.version /\ client.opt = s.content.opt /\ (s.content.api => client.api)

\* Once the configuration stays as it is, the user leaves the API server alone and the
\* client waits for its answers, it ends up with the strategy in force and stays with it,
\* although answers still get lost and the server restarts, and although it may have
\* dropped the API server before.
Converges ==
    <>[][UNCHANGED <<strategies, device>> /\ (client.api => client'.api) /\ ~GiveUp]_vars
        => <>[]InForce
=============================================================================
