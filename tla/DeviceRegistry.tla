--------------------------- MODULE DeviceRegistry ---------------------------
(***************************************************************************)
(* The table of devices and every request that creates, changes or removes *)
(* a row of it: a client's system-info upload or sign-in, `--assign`, the  *)
(* administrator's import, the decisions taken from the console (approve,  *)
(* reject, delete, accept or reject a parked uuid, change the owner) and   *)
(* the housekeeping sweep of silent waiting devices.                       *)
(*                                                                         *)
(* A request handler is a plain function running in one thread of a pool   *)
(* with a database session of its own.  It READS rows without holding any  *)
(* lock, decides, and WRITES in one transaction that takes SQLite's write  *)
(* lock at its first flush.  Other requests may commit between the read    *)
(* and the write, so a request is two or three steps here, and carries the *)
(* row it has read.  The ORM writes only the columns the handler changed   *)
(* (Merge), addresses the row by primary key, and never refreshes a row it *)
(* has already loaded.                                                     *)
(***************************************************************************)
EXTENDS Naturals, FiniteSets

CONSTANTS
    Ids,           \* RustDesk ids
    Uuids,         \* install identities
    Users,         \* ordinary accounts
    Workers,       \* requests that can be in progress at once
    Admin,         \* an administrator's account
    Anonymous,     \* a caller without a login token
    NoRow, NoUuid, NoUser, NoId,
    MaxPk,         \* bound: primary keys 1..MaxPk
    Ops,           \* bound: the kinds of request made
    PendingLimit,  \* NEW_DEVICE_PENDING_LIMIT
    NewDevicePolicy,  \* NEW_DEVICE_POLICY
    UuidRebind     \* DEVICE_UUID_REBIND

ASSUME LimitAssumption == PendingLimit \in Nat \ {0}
ASSUME MaxPkAssumption == MaxPk \in Nat \ {0}
ASSUME WorkersAssumption == IsFiniteSet(Workers) /\ Workers # {}
ASSUME IdsAssumption == IsFiniteSet(Ids) /\ NoId \notin Ids
ASSUME PolicyAssumption ==
    /\ NewDevicePolicy \in {"allow", "approve"}
    /\ UuidRebind \in {"allow", "approve", "deny"}
ASSUME ActorsAssumption ==
    /\ Admin \notin Users /\ Anonymous \notin Users /\ NoUser \notin Users
    /\ Admin # Anonymous /\ Admin # NoUser
    /\ NoUuid \notin Uuids

VARIABLES
    table,   \* the committed rows of `devices`, by RustDesk id
    req      \* the request each worker is serving

vars == <<table, req>>

Accounts == Users \cup {Admin}
Owners == Accounts \cup {NoUser}
Callers == Accounts \cup {Anonymous}
Pks == 1..MaxPk

Row == [pk: Pks,
        approval: {"approved", "pending", "rejected"},
        uuid: Uuids \cup {NoUuid},
        parked: Uuids \cup {NoUuid},
        owner: Owners]

ASSUME NoRowAssumption == NoRow \notin Row

Decisions == {"approve", "reject", "delete", "accept", "refuse", "setowner"}
AllOps == {"upload", "assign", "import", "sweep"} \cup Decisions

ASSUME OpsAssumption == Ops \subseteq AllOps

Request == [op: AllOps \cup {"none"},
            phase: {"view", "recheck", "write"},
            id: Ids \cup {NoId},
            pk: Pks,
            uuid: Uuids \cup {NoUuid},
            who: Callers,
            owner: Owners,
            known: BOOLEAN,           \* the handler's first lookup found the id
            snap: Row \cup {NoRow},   \* the row it has loaded, what it writes is computed from it
            pks: SUBSET Pks]

Asks(op, d, u, who, o) ==
    [op |-> op, phase |-> "view", id |-> d, pk |-> 1, uuid |-> u, who |-> who, owner |-> o,
     known |-> FALSE, snap |-> NoRow, pks |-> {}]

NoReq == Asks("none", NoId, NoUuid, Anonymous, NoUser)

\* Every request but the sweep names a device; a decision about to be written has loaded one.
WellFormed(r) ==
    /\ r.op \notin {"none", "sweep"} => r.id \in Ids
    /\ r.op \in Decisions /\ r.phase = "write" => r.snap # NoRow

\* Types of the table and of the requests in progress.
TypeOK ==
    /\ table \in [Ids -> Row \cup {NoRow}]
    /\ req \in [Workers -> {r \in Request : WellFormed(r)}]

Init ==
    /\ table = [d \in Ids |-> NoRow]
    /\ req = [w \in Workers |-> NoReq]

-----------------------------------------------------------------------------
(* The table as a request sees it, and how a transaction changes it. *)

Exists(d) == table[d] # NoRow

Pending == {d \in Ids : Exists(d) /\ table[d].approval = "pending"}

UsedPks == {table[d].pk : d \in {x \in Ids : Exists(x)}}

\* Mutant: the next key is the number of rows plus one.
IsNextPkByCount(p) == p = Cardinality(UsedPks) + 1

\* SQLite gives a new row the largest key in use plus one (no AUTOINCREMENT), so
\* the key of a deleted row comes back when that row was the last one.
IsNextPk(p) == /\ \A q \in UsedPks : q < p
               /\ p = 1 \/ p - 1 \in UsedPks

\* Mutant: every column is written back as it was read.
MergeAllColumns(cur, old, new) == [new EXCEPT !.pk = cur.pk]

\* UPDATE sets the columns whose value the handler changed from what it had read.
Merge(cur, old, new) ==
    [cur EXCEPT !.approval = IF new.approval # old.approval THEN new.approval ELSE @,
                !.uuid     = IF new.uuid # old.uuid THEN new.uuid ELSE @,
                !.parked   = IF new.parked # old.parked THEN new.parked ELSE @,
                !.owner    = IF new.owner # old.owner THEN new.owner ELSE @]

\* A row that is gone is not updated (the transaction fails and rolls back).
Update(old, new) ==
    table' = [d \in Ids |-> IF Exists(d) /\ table[d].pk = old.pk
                            THEN Merge(table[d], old, new) ELSE table[d]]

Delete(pks) ==
    table' = [d \in Ids |-> IF Exists(d) /\ table[d].pk \in pks THEN NoRow ELSE table[d]]

\* rustdesk_id is unique: inserting an id that has arrived meanwhile fails.
Insert(d, approval, uuid, owner) ==
    IF Exists(d) THEN UNCHANGED table
    ELSE \E p \in Pks :
           /\ IsNextPk(p)
           /\ table' = [table EXCEPT ![d] = [pk |-> p, approval |-> approval, uuid |-> uuid,
                                             parked |-> NoUuid, owner |-> owner]]

\* The handler has looked its device up, and goes on to `absent` when there is none.
LookedUp(r, absent) ==
    [r EXCEPT !.phase = IF Exists(r.id) THEN "write" ELSE absent,
              !.known = Exists(r.id), !.snap = table[r.id]]

Begin(w, r) == req[w] = NoReq /\ r.op \in Ops /\ req' = [req EXCEPT ![w] = r]
Finish(w) == req' = [req EXCEPT ![w] = NoReq]
AtPhase(w, ops, phase) == req[w].op \in ops /\ req[w].phase = phase

-----------------------------------------------------------------------------
(* register_or_update *)

Vouches(who) == who = Admin

RequireApproval(who) == NewDevicePolicy = "approve" /\ ~Vouches(who)

\* Mutant: whoever is signed in may.
TrustedWhenSignedIn(who, known, row) == who # Anonymous

\* Who may re-bind a device: anyone signed in for an id not on record, its owner,
\* an administrator.
Trusted(who, known, row) ==
    /\ who # Anonymous
    /\ ~known \/ who = Admin \/ row.owner = who

Mismatch(row, uuid) == uuid # NoUuid /\ row.uuid # NoUuid /\ row.uuid # uuid

\* Mutant: a device that adopts the parked uuid keeps it parked.
AdoptKeepsParked(row, uuid, owner, vouched) ==
    [row EXCEPT !.uuid     = IF uuid # NoUuid THEN uuid ELSE @,
                !.owner    = IF @ = NoUser THEN owner ELSE @,
                !.approval = IF vouched /\ @ = "pending" THEN "approved" ELSE @]

Adopt(row, uuid, owner, vouched) ==
    [row EXCEPT !.uuid     = IF uuid # NoUuid THEN uuid ELSE @,
                !.parked   = IF uuid = @ THEN NoUuid ELSE @,
                !.owner    = IF @ = NoUser THEN owner ELSE @,
                !.approval = IF vouched /\ @ = "pending" THEN "approved" ELSE @]

Park(row, uuid, policy) == IF policy = "approve" THEN [row EXCEPT !.parked = uuid] ELSE row

\* Mutant: rejected devices are registered like any other.
RegisteredRejected(row, uuid, owner, trusted, policy, vouched) ==
    IF Mismatch(row, uuid) /\ ~trusted /\ policy # "allow"
    THEN Park(row, uuid, policy)
    ELSE Adopt(row, uuid, owner, vouched)

Registered(row, uuid, owner, trusted, policy, vouched) ==
    IF row.approval = "rejected" THEN row
    ELSE IF Mismatch(row, uuid) /\ ~trusted /\ policy # "allow"
         THEN Park(row, uuid, policy)
         ELSE Adopt(row, uuid, owner, vouched)

\* Mutant: an upload without a token owns the device too.
CallerAlwaysOwner(who) == who

CallerAsOwner(who) == IF who = Anonymous THEN NoUser ELSE who

\* POST /api/sysinfo, or the device part of a client sign-in: the first lookup
\* decides whether the caller is trusted.
UploadStart(w) ==
    \E d \in Ids, u \in Uuids \cup {NoUuid}, who \in Callers :
       /\ Begin(w, LookedUp(Asks("upload", d, u, who, NoUser), "recheck"))
       /\ UNCHANGED table

\* Mutant: one device too many is let in.
RecheckOffByOne(w) ==
    /\ AtPhase(w, {"upload", "assign"}, "recheck")
    /\ LET r == req[w] IN
       IF ~Exists(r.id) /\ RequireApproval(r.who) /\ Cardinality(Pending) > PendingLimit
       THEN Finish(w)
       ELSE req' = [req EXCEPT ![w].phase = "write", ![w].snap = table[r.id]]
    /\ UNCHANGED table

\* An id that was unknown is looked up again; if it still is, the places in the
\* approval queue are counted.
Recheck(w) ==
    /\ AtPhase(w, {"upload", "assign"}, "recheck")
    /\ LET r == req[w] IN
       IF /\ ~Exists(r.id)
          /\ RequireApproval(r.who)
          /\ Cardinality(Pending) >= PendingLimit
       THEN Finish(w)
       ELSE req' = [req EXCEPT ![w].phase = "write", ![w].snap = table[r.id]]
    /\ UNCHANGED table

NewApproval(who) == IF RequireApproval(who) THEN "pending" ELSE "approved"

UploadWrite(w) ==
    /\ AtPhase(w, {"upload"}, "write")
    /\ LET r == req[w] IN
       IF r.snap = NoRow
       THEN Insert(r.id, NewApproval(r.who), r.uuid, CallerAsOwner(r.who))
       ELSE Update(r.snap, Registered(r.snap, r.uuid, CallerAsOwner(r.who),
                                      Trusted(r.who, r.known, r.snap), UuidRebind, Vouches(r.who)))
    /\ Finish(w)

-----------------------------------------------------------------------------
(* rustdesk --assign (POST /api/devices/cli) and the administrator's import *)

\* Answered 409 at once: the id belongs to another machine, or was rejected.
AssignRefused(row, uuid) ==
    row # NoRow /\ (Mismatch(row, uuid) \/ row.approval = "rejected")

\* `owner` is the account the command names, NoUser when it names none.
AssignStart(w) ==
    \E d \in Ids, u \in Uuids \cup {NoUuid}, who \in Accounts, o \in Owners :
       /\ ~AssignRefused(table[d], u)
       /\ Begin(w, LookedUp(Asks("assign", d, u, who, o), "recheck"))
       /\ UNCHANGED table

\* The row the handler has before it applies the assignment: a device it knew only
\* lacks a uuid or an approval; one it did not know went through register_or_update
\* with that function's own defaults (no owner, not trusted, rebinding allowed).
AssignBase(r) ==
    IF r.known
    THEN [r.snap EXCEPT !.uuid     = IF @ = NoUuid THEN r.uuid ELSE @,
                        !.approval = IF Vouches(r.who) /\ @ = "pending" THEN "approved" ELSE @]
    ELSE Registered(r.snap, r.uuid, NoUser, FALSE, "allow", Vouches(r.who))

\* enrollment.apply: an ordinary account assigns only to itself, and only a device
\* that is nobody else's; otherwise everything is rolled back.
MayAssign(who, row_owner, target) ==
    \/ who = Admin
    \/ row_owner \in {NoUser, who} /\ target \in {NoUser, who}

AssignWrite(w) ==
    /\ AtPhase(w, {"assign"}, "write")
    /\ LET r == req[w]
           base_owner == IF r.snap = NoRow THEN NoUser ELSE AssignBase(r).owner
           owner == IF r.owner # NoUser THEN r.owner ELSE base_owner
       IN IF ~MayAssign(r.who, base_owner, r.owner) THEN UNCHANGED table
          ELSE IF r.snap = NoRow THEN Insert(r.id, NewApproval(r.who), r.uuid, owner)
          ELSE Update(r.snap, [AssignBase(r) EXCEPT !.owner = owner])
    /\ Finish(w)

\* A row of an imported file: a new device is approved and has no identity yet.
ImportStart(w) ==
    \E d \in Ids, o \in Owners :
       /\ Begin(w, LookedUp(Asks("import", d, NoUuid, Admin, o), "write"))
       /\ UNCHANGED table

ImportWrite(w) ==
    /\ AtPhase(w, {"import"}, "write")
    /\ LET r == req[w] IN
       IF r.snap = NoRow THEN Insert(r.id, "approved", NoUuid, r.owner)
       ELSE Update(r.snap, [r.snap EXCEPT !.owner = IF r.owner # NoUser THEN r.owner ELSE @])
    /\ Finish(w)

-----------------------------------------------------------------------------
(* Decisions from the console: they name the device by its primary key.    *)

\* can_delete_device: the owner of an approved device, or an administrator.
MayDecide(who, row) == who = Admin \/ (row.approval = "approved" /\ row.owner = who)

AdminOnly == {"approve", "reject"}

\* Someone has the device on screen and presses a button; only an administrator's bulk
\* change can leave a device without an owner.
View(w) ==
    \E d \in Ids, op \in Decisions \cap Ops, who \in Accounts, o \in Owners :
       /\ Exists(d) /\ MayDecide(who, table[d])
       /\ op \in AdminOnly => who = Admin
       /\ IF op = "setowner" THEN who = Admin \/ o # NoUser ELSE o = NoUser
       /\ Begin(w, [Asks(op, d, NoUuid, who, o) EXCEPT !.pk = table[d].pk])
       /\ UNCHANGED table

\* 409: the device is already in that state, or nothing is parked.
NothingToDecide(op, row) ==
    \/ op = "approve" /\ row.approval = "approved"
    \/ op = "reject" /\ row.approval = "rejected"
    \/ op \in {"accept", "refuse"} /\ row.parked = NoUuid

\* The request arrives: whatever row has that key now is loaded and checked.
DecideRead(w) ==
    /\ AtPhase(w, Decisions, "view")
    /\ LET r == req[w]
           found == {d \in Ids : Exists(d) /\ table[d].pk = r.pk}
       IN \/ /\ found = {}
             /\ Finish(w)
          \/ \E d \in found :
               IF ~MayDecide(r.who, table[d]) \/ NothingToDecide(r.op, table[d])
               THEN Finish(w)
               ELSE req' = [req EXCEPT ![w].phase = "write", ![w].known = TRUE,
                                       ![w].snap = table[d]]
    /\ UNCHANGED table

Decided(op, row, owner) ==
    [row EXCEPT !.approval = CASE op = "approve" -> "approved"
                               [] op = "reject"  -> "rejected"
                               [] OTHER          -> @,
                !.uuid     = IF op = "accept" THEN row.parked ELSE @,
                !.parked   = IF op \in {"accept", "refuse"} THEN NoUuid ELSE @,
                !.owner    = IF op = "setowner" THEN owner ELSE @]

DecideWrite(w) ==
    /\ AtPhase(w, Decisions, "write")
    /\ LET r == req[w] IN
       IF r.op = "delete" THEN Delete({r.pk})
       ELSE Update(r.snap, Decided(r.op, r.snap, r.owner))
    /\ Finish(w)

-----------------------------------------------------------------------------
(* Housekeeping: waiting devices silent for DEVICE_STALE_DAYS are forgotten. *)
(* Which of them have been silent that long is left open.                    *)

SweepRead(w) ==
    \E S \in SUBSET Pending :
       /\ S # {}
       /\ Begin(w, [NoReq EXCEPT !.op = "sweep", !.phase = "write",
                                 !.pks = {table[d].pk : d \in S}])
       /\ UNCHANGED table

SweepWrite(w) ==
    /\ AtPhase(w, {"sweep"}, "write")
    /\ Delete(req[w].pks)
    /\ Finish(w)

\* The server stops: nothing a request had not committed survives.
Restart ==
    /\ \E w \in Workers : req[w] # NoReq
    /\ req' = [w \in Workers |-> NoReq]
    /\ UNCHANGED table

Next ==
    \/ \E w \in Workers :
          \/ UploadStart(w) \/ Recheck(w) \/ UploadWrite(w)
          \/ AssignStart(w) \/ AssignWrite(w)
          \/ ImportStart(w) \/ ImportWrite(w)
          \/ View(w) \/ DecideRead(w) \/ DecideWrite(w)
          \/ SweepRead(w) \/ SweepWrite(w)
    \/ Restart

Spec == Init /\ [][Next]_vars

-----------------------------------------------------------------------------
(* Properties *)

\* The request w commits its transaction in this step.
Commits(w) == req[w].phase = "write" /\ req'[w] = NoReq

\* Nothing has changed the row since w loaded it, and w knew of it from its first lookup.
Fresh(w) == req[w].known /\ req[w].snap = table[req[w].id]

\* Nothing a request does can push the approval queue further past its limit than the
\* requests that were counting at the same time: the count in register_or_update is
\* read before the insert, so the limit is exact only for one request at a time.
PendingBounded == Cardinality(Pending) <= PendingLimit + Cardinality(Workers) - 1

\* README, "Approving new devices": at most NEW_DEVICE_PENDING_LIMIT devices wait at once.
PendingAtMostLimit == Cardinality(Pending) <= PendingLimit

\* Two devices never share a primary key, although keys of deleted devices come back:
\* every console request names its device by that key.
KeysDistinct == \A d, e \in Ids :
    Exists(d) /\ Exists(e) /\ table[d].pk = table[e].pk => d = e

BecomesApproved(d) ==
    /\ table'[d] # NoRow /\ table'[d].approval = "approved"
    /\ ~(Exists(d) /\ table[d].approval = "approved")

\* While new devices need approval, a device becomes approved only when a request of an
\* administrator commits, however it interleaves with uploads that had read the row
\* while it was in another state.
ApprovalIsVouched ==
    [][NewDevicePolicy = "approve" =>
          \A d \in Ids : BecomesApproved(d) =>
             \E w \in Workers : Commits(w) /\ req[w].who = Admin]_vars

UuidReplaced(d) ==
    /\ Exists(d) /\ table[d].uuid # NoUuid
    /\ table'[d] # NoRow /\ table'[d].uuid # table[d].uuid

\* With approve or deny, a request that worked on the current row replaces a known uuid
\* only for an administrator or for the device's owner (register_or_update, --assign and
\* the decision on a parked uuid taken together).
RebindNeedsTrust ==
    [][UuidRebind # "allow" =>
          \A w \in Workers : LET r == req[w] IN
             Commits(w) /\ Fresh(w) /\ UuidReplaced(r.id) =>
                r.who = Admin \/ r.who = table[r.id].owner]_vars

\* A rejected device is left as it is by everything a client sends: a request that
\* worked on the current row changes it only when it is a decision or an import.
RejectedUntouched ==
    [][\A w \in Workers : LET r == req[w] IN
          /\ Commits(w) /\ Fresh(w)
          /\ table[r.id].approval = "rejected" /\ table'[r.id] # table[r.id]
          => r.op \in Decisions \cup {"import"}]_vars

\* A parked uuid is a question about a device with another uuid.
Coherent(row) == row # NoRow /\ row.parked # NoUuid => row.uuid \notin {NoUuid, row.parked}

\* A device never comes to wait for a decision on the uuid it already has, or on its
\* first one: uploads, assignments, imports and decisions that worked on the current row
\* keep it coherent.
ParkedIsOther ==
    [][\A w \in Workers : LET r == req[w] IN
          Commits(w) /\ Fresh(w) /\ Coherent(table[r.id]) => Coherent(table'[r.id])]_vars
=============================================================================
