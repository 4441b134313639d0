----------------------------- MODULE FleetWatch -----------------------------
(***************************************************************************)
(* Telling the administrator that a watched device has gone quiet, and     *)
(* archiving devices that have been gone for good.                         *)
(*                                                                         *)
(* Every server process runs a housekeeping loop: each minute it reads the *)
(* watched devices, announces what it finds, and only then commits what it *)
(* has announced (offline_notified_at); from time to time it also archives *)
(* the devices that were silent for days.  Meanwhile the device's          *)
(* heartbeats arrive, and the administrator switches watching on and off,  *)
(* or archives the device by hand.  All of them read the row first and     *)
(* write the columns they changed at their end, and any of them may fail.  *)
(* One device, approved, as seen from when it was registered.              *)
(***************************************************************************)
EXTENDS Integers, FiniteSets

CONSTANTS
    Procs,      \* server processes, each with its housekeeping loop
    SilentFor,  \* minutes: NOTIFY_OFFLINE_AFTER_MINUTES (or the online timeout, when that is longer)
    StaleFor,   \* minutes: DEVICE_STALE_DAYS
    PerMinute,  \* bound: instants told apart within a minute
    MaxClock,   \* bound: instants
    MaxExcuses  \* bound: failures and switches within one outage

ASSUME BoundsAssumption ==
    /\ SilentFor \in Nat \ {0} /\ StaleFor \in Nat /\ MaxExcuses \in Nat
    /\ PerMinute \in Nat \ {0} /\ MaxClock \in Nat \ {0}
ASSUME ProcsAssumption == IsFiniteSet(Procs)

VARIABLES
    clock,    \* the time; it moves minute by minute, and by an instant with every heartbeat
    row,      \* the device: last_seen, watch_offline, offline_notified_at, archived or not
    loop,     \* the housekeeping loop of each process
    beat,     \* the heartbeat in progress
    ask,      \* the console request in progress
    word,     \* history: the last thing announced
    said,     \* history: how often the current silence was announced
    excuses   \* history: what may have it announced again

vars == <<clock, row, loop, beat, ask, word, said, excuses>>
history == <<word, said, excuses>>

None == 0       \* NULL in a column of times
Created == 1    \* created_at, the first instant
Minutes(from, to) == to \div PerMinute - from \div PerMinute
Times == Created..MaxClock
Column == Times \cup {None}
Row == [seen: Column, watch: BOOLEAN, notified: Column, archived: BOOLEAN]
Asleep == [phase |-> "asleep"]
NoBeat == [phase |-> "none"]
NoAsk == [phase |-> "none"]

\* Types; nothing is dated in the future, or on record as announced before anything was.
TypeOK ==
    /\ clock \in Times
    /\ row \in Row /\ row.seen <= clock /\ row.notified <= clock
    /\ \A p \in Procs :
          /\ loop[p].rest \subseteq Procs \ {p}
          /\ loop[p].phase \in {"asleep", "checked", "awake", "archiving"}
          /\ loop[p].phase = "checked" => {loop[p].read, loop[p].new} \subseteq None..clock
    /\ beat = NoBeat \/ beat \in [phase: {"read"}, now: Created..clock, archived: BOOLEAN]
    /\ ask = NoAsk \/ ask \in [phase: {"read"}, old: Row, new: Row]
    /\ word \in {"nothing", "offline", "online"}
    /\ word = "nothing" => said = 0 /\ row.notified = None
    /\ said \in Nat /\ excuses \in 0..MaxExcuses

Init ==
    /\ clock = Created
    /\ row \in {r \in Row : r.seen \in {None, Created} /\ r.notified = None /\ ~r.archived}
    /\ loop = [p \in Procs |-> [phase |-> "asleep", rest |-> {}]]
    /\ beat = NoBeat
    /\ ask = NoAsk
    /\ word = "nothing" /\ said = 0 /\ excuses = 0

-----------------------------------------------------------------------------
(* The loop *)

\* A process sleeps for a minute between two rounds: longer than any round of another
\* process that was under way when it fell asleep (the wait for the write lock is limited
\* to five seconds).
Sleep(p) ==
    loop' = [q \in Procs |->
        IF q = p THEN [phase |-> "asleep", rest |-> {x \in Procs \ {p} : loop[x].phase # "asleep"}]
        ELSE [loop[q] EXCEPT !.rest = @ \ {p}]]

GoOn(p, phase) == loop' = [loop EXCEPT ![p] = [phase |-> phase, rest |-> {}]]

Silent(now) == row.seen # None /\ Minutes(row.seen, now) > SilentFor

WentOffline == row.watch /\ row.notified = None /\ Silent(clock)

\* Mutant: a report of the very instant of the announcement counts as a return.
CameBackSameInstant ==
    row.watch /\ row.seen # None /\ row.notified # None /\ row.seen >= row.notified

CameBack == row.watch /\ row.seen # None /\ row.notified # None /\ row.seen > row.notified

\* Mutant: the return is announced, and the announcement of the silence stays on record.
NotifiedAfterNoReset == IF WentOffline THEN clock ELSE row.notified

\* Mutant: a device that nobody watches is marked too.
NotifiedAfterUnwatched ==
    CASE row.notified = None /\ Silent(clock) -> clock
      [] CameBack -> None
      [] OTHER    -> row.notified

\* What offline_notified_at becomes.
NotifiedAfter ==
    CASE WentOffline -> clock
      [] CameBack    -> None
      [] OTHER       -> row.notified

\* The announcements go out now, before anything is written.
CheckRead(p) ==
    /\ loop[p] = [phase |-> "asleep", rest |-> {}]
    /\ loop' = [loop EXCEPT ![p] = [phase |-> "checked", rest |-> {},
                                    read |-> row.notified, new |-> NotifiedAfter]]
    /\ word' = CASE WentOffline -> "offline" [] CameBack -> "online" [] OTHER -> word
    /\ said' = IF WentOffline THEN said + 1 ELSE said
    /\ UNCHANGED <<clock, row, beat, ask, excuses>>

\* Mutant: a device found silent is announced, and that is not written down.
RememberedOnlyReturns(l) == IF l.new = None /\ l.read # None THEN None ELSE row.notified

Remembered(l) == IF l.new # l.read THEN l.new ELSE row.notified

CheckCommit(p) ==
    /\ loop[p].phase = "checked"
    /\ row' = [row EXCEPT !.notified = Remembered(loop[p])]
    /\ GoOn(p, "awake")
    /\ UNCHANGED <<clock, beat, ask, history>>

Stale == ~row.archived /\ ~row.watch
         /\ Minutes(IF row.seen = None THEN Created ELSE row.seen, clock) > StaleFor

\* Once an hour; nothing to do when the device is not stale.
ArchiveRead(p) ==
    /\ loop[p].phase = "awake"
    /\ \/ Stale /\ GoOn(p, "archiving")
       \/ Sleep(p)
    /\ UNCHANGED <<clock, row, beat, ask, history>>

ArchiveCommit(p) ==
    /\ loop[p].phase = "archiving"
    /\ row' = [row EXCEPT !.archived = TRUE]
    /\ Sleep(p)
    /\ UNCHANGED <<clock, beat, ask, history>>

\* The commit fails, or the process stops: what was read is forgotten, what was announced
\* is not taken back.
Abort(p) ==
    /\ loop[p].phase \in {"checked", "archiving"}
    /\ IF loop[p].phase = "checked" /\ loop[p].new \notin {None, loop[p].read}
       THEN excuses < MaxExcuses /\ excuses' = excuses + 1
       ELSE UNCHANGED excuses
    /\ Sleep(p)
    /\ UNCHANGED <<clock, row, beat, ask, word, said>>

-----------------------------------------------------------------------------
(* Heartbeats *)

\* The next minute begins.  No round of the loop lasts into it, and no heartbeat into the
\* one after it.
Pass ==
    /\ \A p \in Procs : loop[p].phase = "asleep"
    /\ clock' = (clock \div PerMinute + 1) * PerMinute /\ clock' \in Times
    /\ beat # NoBeat => Minutes(beat.now, clock') <= 1
    /\ UNCHANGED <<row, loop, beat, ask, history>>

BeatRead ==
    /\ beat = NoBeat
    /\ clock' = clock + 1 /\ Minutes(clock, clock') = 0 /\ clock' \in Times
    /\ beat' = [phase |-> "read", now |-> clock', archived |-> row.archived]
    /\ UNCHANGED <<row, loop, ask, history>>

\* An archived device that reports is back in the list.
BeatCommit ==
    /\ beat.phase = "read"
    /\ row' = [row EXCEPT !.seen = beat.now, !.archived = IF beat.archived THEN FALSE ELSE @]
    /\ beat' = NoBeat
    /\ said' = 0 /\ excuses' = 0
    /\ UNCHANGED <<clock, loop, ask, word>>

BeatLost == beat.phase = "read" /\ beat' = NoBeat /\ UNCHANGED <<clock, row, loop, ask, history>>

-----------------------------------------------------------------------------
(* The console *)

Watched(r, watch) ==
    [r EXCEPT !.watch = watch, !.notified = IF watch THEN @ ELSE None]

Archived(r, archive) ==
    IF archive /\ ~r.archived
    THEN [r EXCEPT !.archived = TRUE, !.watch = FALSE, !.notified = None]
    ELSE [r EXCEPT !.archived = archive]

AskRead ==
    /\ ask = NoAsk
    /\ \E on \in BOOLEAN : \E r \in {Watched(row, on), Archived(row, on)} \ {row} :
          ask' = [phase |-> "read", old |-> row, new |-> r]
    /\ UNCHANGED <<clock, row, loop, beat, history>>

\* Only the columns that the request changed are written.
Merged(old, new) ==
    [c \in DOMAIN row |-> IF new[c] # old[c] THEN new[c] ELSE row[c]]

AskCommit ==
    /\ ask.phase = "read"
    /\ row' = Merged(ask.old, ask.new)
    /\ row.notified # None /\ row'.notified = None => excuses < MaxExcuses
    /\ excuses' = IF row.notified # None /\ row'.notified = None THEN excuses + 1 ELSE excuses
    /\ ask' = NoAsk
    /\ UNCHANGED <<clock, loop, beat, word, said>>

AskLost == ask.phase = "read" /\ ask' = NoAsk /\ UNCHANGED <<clock, row, loop, beat, history>>

Next ==
    \/ \E p \in Procs : CheckRead(p) \/ CheckCommit(p) \/ ArchiveRead(p) \/ ArchiveCommit(p) \/ Abort(p)
    \/ Pass \/ BeatRead \/ BeatCommit \/ BeatLost
    \/ AskRead \/ AskCommit \/ AskLost

Spec == Init /\ [][Next]_vars

\* The loops keep running, and not every commit fails; requests end, one way or another.
Fairness ==
    /\ \A p \in Procs : /\ WF_vars(CheckRead(p)) /\ SF_vars(CheckCommit(p))
                        /\ WF_vars(ArchiveRead(p)) /\ WF_vars(ArchiveCommit(p) \/ Abort(p))
    /\ WF_vars(BeatCommit \/ BeatLost) /\ WF_vars(AskCommit \/ AskLost)

FairSpec == Spec /\ Fairness

-----------------------------------------------------------------------------
(* Properties *)

\* "Once per outage": each of two processes announces a silence at most once, unless a round
\* failed after its announcement or the administrator has switched watching off (fleet.py:
\* "worst case, one outage is announced twice").  Three processes may do worse: see README.
OncePerOutage == said <= Cardinality(Procs) * (1 + excuses)

\* What is on record as announced was the last thing announced: while the record is newer
\* than the device's last sign of life, whatever overlaps, the administrator was told that
\* it is offline, and not meanwhile that it is back (with one or two processes).
RecordIsTold ==
    row.notified # None /\ row.seen <= row.notified => word = "offline"

\* A watched device that stays silent does not leave the administrator believing that it is
\* there: the last announcement ends up being that it is offline, whichever of the loops,
\* heartbeats and switches overlapped or failed before.
WordIsTrue == <>[](row.watch /\ Silent(clock)) => <>[](word = "offline")
=============================================================================
