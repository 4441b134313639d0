------------------------ MODULE DeviceRegistryProofs ------------------------
(***************************************************************************)
(* What holds of the device table for every set of ids, accounts and       *)
(* workers, every queue limit and every policy: its types and keys, the    *)
(* bound on waiting devices, who may approve and re-bind a device, and     *)
(* what a request may change of a rejected or a parked one.                *)
(***************************************************************************)
EXTENDS DeviceRegistry, FiniteSetTheorems, TLAPS

\* A merged row is a row: UPDATE takes every column from one of two rows.
LEMMA MergeType ==
    ASSUME NEW cur \in Row, NEW old \in Row, NEW new \in Row
    PROVE  Merge(cur, old, new) \in Row
BY DEF Merge, Row

LEMMA RegisteredType ==
    ASSUME NEW row \in Row, NEW u \in Uuids \cup {NoUuid}, NEW o \in Owners,
           NEW t, NEW policy, NEW v
    PROVE  Registered(row, u, o, t, policy, v) \in Row
BY DEF Registered, Park, Adopt, Row

LEMMA AssignBaseType ==
    ASSUME NEW r \in Request, r.snap \in Row
    PROVE  AssignBase(r) \in Row
<1>1. r.uuid \in Uuids \cup {NoUuid} /\ NoUser \in Owners
  BY DEF Request, Owners
<1>2. CASE r.known
  BY <1>1, <1>2 DEF AssignBase, Row
<1>3. CASE ~r.known
  BY <1>1, <1>3, RegisteredType DEF AssignBase
<1>4. QED BY <1>2, <1>3

LEMMA DecidedType ==
    ASSUME NEW row \in Row, NEW op, NEW o \in Owners
    PROVE  Decided(op, row, o) \in Row
BY DEF Decided, Row

\* Each of the three ways a transaction changes the table yields a table.
LEMMA UpdateType ==
    ASSUME table \in [Ids -> Row \cup {NoRow}], NEW old \in Row, NEW new \in Row,
           Update(old, new)
    PROVE  table' \in [Ids -> Row \cup {NoRow}]
BY MergeType, NoRowAssumption DEF Update, Exists

LEMMA DeleteType ==
    ASSUME table \in [Ids -> Row \cup {NoRow}], NEW pks, Delete(pks)
    PROVE  table' \in [Ids -> Row \cup {NoRow}]
BY DEF Delete

LEMMA InsertType ==
    ASSUME table \in [Ids -> Row \cup {NoRow}], NEW d \in Ids,
           NEW a \in {"approved", "pending", "rejected"},
           NEW u \in Uuids \cup {NoUuid}, NEW o \in Owners,
           Insert(d, a, u, o)
    PROVE  table' \in [Ids -> Row \cup {NoRow}]
BY DEF Insert, Row

Requests == {r \in Request : WellFormed(r)}

\* What a handler starts with, and what it has after its first lookup, are requests.
LEMMA AsksType ==
    ASSUME NEW op \in AllOps, NEW d \in Ids, NEW u \in Uuids \cup {NoUuid},
           NEW who \in Callers, NEW o \in Owners
    PROVE  /\ Asks(op, d, u, who, o) \in Requests
           /\ Asks(op, d, u, who, o).id = d
           /\ Asks(op, d, u, who, o).op = op
           /\ Asks(op, d, u, who, o).phase = "view"
<1>1. 1 \in Pks
  BY MaxPkAssumption DEF Pks
<1>2. Asks(op, d, u, who, o) \in Request
  BY <1>1 DEF Asks, Request
<1>3. QED BY <1>2 DEF Asks, Requests, WellFormed

LEMMA NoReqType == NoReq \in Requests
<1>1. 1 \in Pks
  BY MaxPkAssumption DEF Pks
<1>2. NoReq \in Request
  BY <1>1 DEF NoReq, Asks, Request, Callers, Owners
<1>3. QED BY <1>2 DEF NoReq, Asks, Requests, WellFormed, Decisions

LEMMA LookedUpType ==
    ASSUME TypeOK, NEW r \in Requests, r.id \in Ids, r.op \notin Decisions,
           NEW absent \in {"recheck", "write"}
    PROVE  LookedUp(r, absent) \in Requests
<1> DEFINE ph == IF Exists(r.id) THEN "write" ELSE absent
           k == Exists(r.id)
           n == [r EXCEPT !.phase = ph, !.known = k, !.snap = table[r.id]]
<1>1. ph \in {"recheck", "write"} /\ k \in BOOLEAN /\ table[r.id] \in Row \cup {NoRow}
  BY DEF Exists, TypeOK
<1> HIDE DEF ph, k
<1>2. n \in Requests
  BY <1>1 DEF Requests, Request, WellFormed
<1>3. QED BY <1>2 DEF LookedUp, ph, k

LEMMA FinishType ==
    ASSUME TypeOK, NEW w \in Workers, Finish(w)
    PROVE  req' \in [Workers -> Requests]
BY NoReqType DEF Finish, TypeOK, Requests

LEMMA BeginType ==
    ASSUME TypeOK, NEW w \in Workers, NEW r \in Requests, Begin(w, r)
    PROVE  req' \in [Workers -> Requests]
BY DEF Begin, TypeOK, Requests

-----------------------------------------------------------------------------
(* Type correctness *)

\* A request that starts leaves the table alone.
LEMMA StartsType ==
    ASSUME TypeOK, NEW w \in Workers,
           UploadStart(w) \/ AssignStart(w) \/ ImportStart(w) \/ View(w) \/ SweepRead(w)
    PROVE  TypeOK'
<1>0. /\ \A d \in Ids : table[d] \in Row \cup {NoRow}
      /\ \A d \in Ids : Exists(d) => table[d].pk \in Pks
  BY DEF TypeOK, Exists, Row
<1>1. SUFFICES UNCHANGED table /\ \E r \in Requests : Begin(w, r)
  BY BeginType DEF TypeOK, Requests
<1>2. CASE UploadStart(w)
  <2>1. PICK d \in Ids, u \in Uuids \cup {NoUuid}, who \in Callers :
          /\ Begin(w, LookedUp(Asks("upload", d, u, who, NoUser), "recheck"))
          /\ UNCHANGED table
    BY <1>2 DEF UploadStart
  <2>2. "upload" \in AllOps /\ "upload" \notin Decisions /\ NoUser \in Owners
    BY DEF AllOps, Decisions, Owners
  <2>3. LookedUp(Asks("upload", d, u, who, NoUser), "recheck") \in Requests
    BY <2>2, AsksType, LookedUpType
  <2>4. QED BY <2>1, <2>3
<1>3. CASE AssignStart(w)
  <2>1. PICK d \in Ids, u \in Uuids \cup {NoUuid}, who \in Accounts, o \in Owners :
          /\ Begin(w, LookedUp(Asks("assign", d, u, who, o), "recheck"))
          /\ UNCHANGED table
    BY <1>3 DEF AssignStart
  <2>2. "assign" \in AllOps /\ "assign" \notin Decisions /\ who \in Callers
    BY DEF AllOps, Decisions, Callers
  <2>3. LookedUp(Asks("assign", d, u, who, o), "recheck") \in Requests
    BY <2>2, AsksType, LookedUpType
  <2>4. QED BY <2>1, <2>3
<1>4. CASE ImportStart(w)
  <2>1. PICK d \in Ids, o \in Owners :
          /\ Begin(w, LookedUp(Asks("import", d, NoUuid, Admin, o), "write"))
          /\ UNCHANGED table
    BY <1>4 DEF ImportStart
  <2>2. "import" \in AllOps /\ "import" \notin Decisions /\ Admin \in Callers
    BY DEF AllOps, Decisions, Callers, Accounts
  <2>3. LookedUp(Asks("import", d, NoUuid, Admin, o), "write") \in Requests
    BY <2>2, AsksType, LookedUpType
  <2>4. QED BY <2>1, <2>3
<1>5. CASE View(w)
  <2>1. PICK d \in Ids, op \in Decisions \cap Ops, who \in Accounts, o \in Owners :
          /\ Exists(d)
          /\ Begin(w, [Asks(op, d, NoUuid, who, o) EXCEPT !.pk = table[d].pk])
          /\ UNCHANGED table
    BY <1>5 DEF View
  <2> DEFINE a == Asks(op, d, NoUuid, who, o)
  <2>2. op \in AllOps /\ who \in Callers /\ table[d].pk \in Pks
    BY <1>0, <2>1 DEF AllOps, Callers
  <2>3. a \in Requests
    BY <2>2, AsksType
  <2> HIDE DEF a
  <2>4. [a EXCEPT !.pk = table[d].pk] \in Requests
    BY <2>2, <2>3 DEF Requests, Request, WellFormed
  <2>5. QED BY <2>1, <2>4 DEF a
<1>6. CASE SweepRead(w)
  <2>1. PICK S \in SUBSET Pending :
          /\ Begin(w, [NoReq EXCEPT !.op = "sweep", !.phase = "write",
                                    !.pks = {table[d].pk : d \in S}])
          /\ UNCHANGED table
    BY <1>6 DEF SweepRead
  <2> DEFINE P == {table[d].pk : d \in S}
  <2>2. P \in SUBSET Pks
    BY <1>0 DEF Pending
  <2>3. Begin(w, [NoReq EXCEPT !.op = "sweep", !.phase = "write", !.pks = P])
    BY <2>1
  <2> HIDE DEF P
  <2>4. [NoReq EXCEPT !.op = "sweep", !.phase = "write", !.pks = P] \in Requests
    BY <2>2, NoReqType DEF Requests, Request, WellFormed, AllOps, Decisions
  <2>5. QED BY <2>1, <2>3, <2>4
<1>7. QED BY <1>2, <1>3, <1>4, <1>5, <1>6

\* A request that moves on leaves the table alone.
LEMMA MovesType ==
    ASSUME TypeOK, NEW w \in Workers, Recheck(w) \/ DecideRead(w)
    PROVE  TypeOK'
<1>0. /\ \A d \in Ids : table[d] \in Row \cup {NoRow}
      /\ req[w] \in Requests /\ req \in [Workers -> Requests]
      /\ table \in [Ids -> Row \cup {NoRow}]
  BY DEF TypeOK, Requests
<1>1. SUFFICES UNCHANGED table /\ req' \in [Workers -> Requests]
  BY <1>0 DEF TypeOK, Requests
<1>2. CASE Recheck(w)
  <2>1. /\ UNCHANGED table
        /\ req[w].op \in {"upload", "assign"}
        /\ \/ Finish(w)
           \/ req' = [req EXCEPT ![w].phase = "write", ![w].snap = table[req[w].id]]
    BY <1>2 DEF Recheck, AtPhase
  <2>2. table[req[w].id] \in Row \cup {NoRow}
    BY <1>0, <2>1 DEF Requests, WellFormed
  <2>3. [req[w] EXCEPT !.phase = "write", !.snap = table[req[w].id]] \in Requests
    BY <1>0, <2>1, <2>2 DEF Requests, Request, WellFormed, Decisions
  <2>4. QED BY <1>0, <2>1, <2>3, FinishType
<1>3. CASE DecideRead(w)
  <2>1. /\ UNCHANGED table
        /\ req[w].op \in Decisions
        /\ \/ Finish(w)
           \/ \E d \in Ids : /\ Exists(d)
                             /\ req' = [req EXCEPT ![w].phase = "write", ![w].known = TRUE,
                                                   ![w].snap = table[d]]
    BY <1>3 DEF DecideRead, AtPhase
  <2>2. CASE Finish(w)
    BY <2>1, <2>2, FinishType
  <2>3. ASSUME NEW d \in Ids, Exists(d),
               req' = [req EXCEPT ![w].phase = "write", ![w].known = TRUE, ![w].snap = table[d]]
        PROVE  req' \in [Workers -> Requests]
    <3>1. [req[w] EXCEPT !.phase = "write", !.known = TRUE, !.snap = table[d]] \in Requests
      BY <1>0, <2>3 DEF Requests, Request, WellFormed, Exists
    <3>2. QED BY <1>0, <2>3, <3>1
  <2>4. QED BY <2>1, <2>2, <2>3
<1>4. QED BY <1>2, <1>3

\* A request that commits updates a row it has loaded, deletes rows, inserts one, or
\* leaves the table as it is.
LEMMA CommitsTable ==
    ASSUME TypeOK, NEW w \in Workers,
           \/ UploadWrite(w) \/ AssignWrite(w) \/ ImportWrite(w)
           \/ DecideWrite(w) \/ SweepWrite(w)
    PROVE  \/ UNCHANGED table
           \/ \E old, new \in Row : Update(old, new)
           \/ \E pks : Delete(pks)
           \/ \E d \in Ids, a \in {"approved", "pending", "rejected"},
                 u \in Uuids \cup {NoUuid}, o \in Owners : Insert(d, a, u, o)
<1> DEFINE r == req[w]
<1>0. /\ r \in Request /\ r.snap \in Row \cup {NoRow}
      /\ r.uuid \in Uuids \cup {NoUuid} /\ r.owner \in Owners
      /\ NoUser \in Owners /\ CallerAsOwner(r.who) \in Owners
      /\ NewApproval(r.who) \in {"approved", "pending", "rejected"}
      /\ NoUuid \in Uuids \cup {NoUuid}
  BY DEF TypeOK, Request, Owners, CallerAsOwner, Callers, NewApproval
<1>1. CASE UploadWrite(w)
  <2>1. r.id \in Ids
    BY <1>1 DEF UploadWrite, AtPhase, TypeOK, WellFormed
  <2>2. CASE r.snap = NoRow
    <3>1. Insert(r.id, NewApproval(r.who), r.uuid, CallerAsOwner(r.who))
      BY <1>1, <2>2 DEF UploadWrite
    <3>2. QED BY <1>0, <2>1, <3>1
  <2>3. CASE r.snap # NoRow
    <3> DEFINE new == Registered(r.snap, r.uuid, CallerAsOwner(r.who),
                                 Trusted(r.who, r.known, r.snap), UuidRebind, Vouches(r.who))
    <3>1. Update(r.snap, new)
      BY <1>1, <2>3 DEF UploadWrite
    <3>2. new \in Row
      BY <1>0, <2>3, RegisteredType
    <3> HIDE DEF new
    <3>3. QED BY <1>0, <2>3, <3>1, <3>2
  <2>4. QED BY <2>2, <2>3
<1>2. CASE AssignWrite(w)
  <2>1. r.id \in Ids
    BY <1>2 DEF AssignWrite, AtPhase, TypeOK, WellFormed
  <2>2. CASE r.snap = NoRow
    <3>1. UNCHANGED table \/ \E o \in {r.owner, NoUser} : Insert(r.id, NewApproval(r.who), r.uuid, o)
      BY <1>2, <2>2 DEF AssignWrite
    <3>2. QED BY <1>0, <2>1, <3>1
  <2>3. CASE r.snap # NoRow
    <3>1. AssignBase(r) \in Row
      BY <1>0, <2>3, AssignBaseType
    <3>2. PICK o \in Owners :
            UNCHANGED table \/ Update(r.snap, [AssignBase(r) EXCEPT !.owner = o])
      <4>1. AssignBase(r).owner \in Owners
        BY <3>1 DEF Row
      <4>2. QED BY <1>0, <1>2, <2>3, <4>1 DEF AssignWrite
    <3> DEFINE new == [AssignBase(r) EXCEPT !.owner = o]
    <3>3. new \in Row
      BY <3>1 DEF Row
    <3>4. UNCHANGED table \/ Update(r.snap, new)
      BY <3>2
    <3> HIDE DEF new
    <3>5. QED BY <1>0, <2>3, <3>3, <3>4
  <2>4. QED BY <2>2, <2>3
<1>3. CASE ImportWrite(w)
  <2>1. r.id \in Ids
    BY <1>3 DEF ImportWrite, AtPhase, TypeOK, WellFormed
  <2>2. CASE r.snap = NoRow
    <3>1. Insert(r.id, "approved", NoUuid, r.owner)
      BY <1>3, <2>2 DEF ImportWrite
    <3>2. QED BY <1>0, <2>1, <3>1
  <2>3. CASE r.snap # NoRow
    <3> DEFINE new == [r.snap EXCEPT !.owner = IF r.owner # NoUser THEN r.owner ELSE @]
    <3>1. Update(r.snap, new)
      BY <1>3, <2>3 DEF ImportWrite
    <3>2. new \in Row
      BY <1>0, <2>3 DEF Row
    <3> HIDE DEF new
    <3>3. QED BY <1>0, <2>3, <3>1, <3>2
  <2>4. QED BY <2>2, <2>3
<1>4. CASE DecideWrite(w)
  <2>1. r.snap # NoRow
    BY <1>4 DEF DecideWrite, AtPhase, TypeOK, WellFormed
  <2>2. Delete({r.pk}) \/ Update(r.snap, Decided(r.op, r.snap, r.owner))
    BY <1>4 DEF DecideWrite
  <2>3. Decided(r.op, r.snap, r.owner) \in Row
    BY <1>0, <2>1, DecidedType
  <2>4. QED BY <1>0, <2>1, <2>2, <2>3
<1>5. CASE SweepWrite(w)
  BY <1>5 DEF SweepWrite
<1>6. QED BY <1>1, <1>2, <1>3, <1>4, <1>5

LEMMA CommitsType ==
    ASSUME TypeOK, NEW w \in Workers,
           \/ UploadWrite(w) \/ AssignWrite(w) \/ ImportWrite(w)
           \/ DecideWrite(w) \/ SweepWrite(w)
    PROVE  TypeOK'
<1>1. table \in [Ids -> Row \cup {NoRow}]
  BY DEF TypeOK
<1>2. table' \in [Ids -> Row \cup {NoRow}]
  BY <1>1, CommitsTable, UpdateType, DeleteType, InsertType
<1>3. Finish(w)
  BY DEF UploadWrite, AssignWrite, ImportWrite, DecideWrite, SweepWrite
<1>4. QED BY <1>2, <1>3, FinishType DEF TypeOK, Requests

\* In every reachable state the table holds rows and the workers hold requests: no
\* interleaving of handlers makes one of them write a row from a device it never loaded.
THEOREM TypeCorrect == Spec => []TypeOK
<1>1. Init => TypeOK
  <2>1. Init => req \in [Workers -> Requests]
    BY NoReqType DEF Init
  <2>2. QED BY <2>1 DEF Init, TypeOK, Requests
<1>2. TypeOK /\ [Next]_vars => TypeOK'
  <2> SUFFICES ASSUME TypeOK, [Next]_vars PROVE TypeOK'
    OBVIOUS
  <2>1. CASE UNCHANGED vars
    BY <2>1 DEF vars, TypeOK
  <2>2. CASE Restart
    BY <2>2, NoReqType DEF Restart, TypeOK, Requests
  <2>3. ASSUME NEW w \in Workers,
               \/ UploadStart(w) \/ Recheck(w) \/ UploadWrite(w)
               \/ AssignStart(w) \/ AssignWrite(w)
               \/ ImportStart(w) \/ ImportWrite(w)
               \/ View(w) \/ DecideRead(w) \/ DecideWrite(w)
               \/ SweepRead(w) \/ SweepWrite(w)
        PROVE  TypeOK'
    BY <2>3, StartsType, MovesType, CommitsType
  <2>4. QED BY <2>1, <2>2, <2>3 DEF Next
<1>3. QED BY <1>1, <1>2, PTL DEF Spec

-----------------------------------------------------------------------------
(* The approval queue is bounded *)

\* The requests that have counted the queue, found room, and not inserted yet.
Admitted == {w \in Workers : /\ req[w].op \in {"upload", "assign"}
                             /\ req[w].phase = "write" /\ req[w].snap = NoRow
                             /\ RequireApproval(req[w].who)}

\* PendingBounded is not inductive: a request that has counted still inserts.  Whoever
\* counted last found at most PendingLimit - 1 devices waiting, and no more than all
\* workers are admitted at once.
QueueInv == Cardinality(Pending) + Cardinality(Admitted) <= PendingLimit + Cardinality(Workers) - 1

LEMMA Finite ==
    /\ IsFiniteSet(Pending) /\ Cardinality(Pending) \in Nat
    /\ IsFiniteSet(Admitted) /\ Cardinality(Admitted) \in Nat
    /\ Cardinality(Admitted) <= Cardinality(Workers) /\ Cardinality(Workers) \in Nat
<1>1. Pending \subseteq Ids /\ Admitted \subseteq Workers
  BY DEF Pending, Admitted
<1>2. QED BY <1>1, IdsAssumption, WorkersAssumption, FS_Subset, FS_CardinalityType

\* The three ways a step can move the sum.
LEMMA Shrinks ==
    ASSUME QueueInv, Pending' \subseteq Pending, Admitted' \subseteq Admitted
    PROVE  QueueInv'
<1>1. Cardinality(Pending') <= Cardinality(Pending) /\ Cardinality(Pending') \in Nat
  BY Finite, FS_Subset, FS_CardinalityType
<1>2. Cardinality(Admitted') <= Cardinality(Admitted) /\ Cardinality(Admitted') \in Nat
  BY Finite, FS_Subset, FS_CardinalityType
<1>3. QED BY <1>1, <1>2, Finite, LimitAssumption DEF QueueInv

LEMMA Counts ==
    ASSUME UNCHANGED table, Cardinality(Pending) < PendingLimit, Admitted' \subseteq Workers
    PROVE  QueueInv'
<1>1. Pending' = Pending
  BY DEF Pending, Exists
<1>2. Cardinality(Admitted') <= Cardinality(Workers) /\ Cardinality(Admitted') \in Nat
  BY WorkersAssumption, FS_Subset, FS_CardinalityType
<1>3. QED BY <1>1, <1>2, Finite, LimitAssumption DEF QueueInv

LEMMA Inserts ==
    ASSUME QueueInv, NEW w \in Admitted, NEW d,
           Pending' \subseteq Pending \cup {d}, Admitted' \subseteq Admitted \ {w}
    PROVE  QueueInv'
<1>1. /\ Cardinality(Pending') <= Cardinality(Pending) + 1
      /\ Cardinality(Pending') \in Nat
  <2>0. /\ IsFiniteSet(Pending \cup {d})
        /\ Cardinality(Pending \cup {d})
              = IF d \in Pending THEN Cardinality(Pending) ELSE Cardinality(Pending) + 1
    BY Finite, FS_AddElement
  <2>1. /\ IsFiniteSet(Pending \cup {d})
        /\ Cardinality(Pending \cup {d}) <= Cardinality(Pending) + 1
        /\ Cardinality(Pending \cup {d}) \in Nat
    BY <2>0, Finite
  <2>2. /\ Cardinality(Pending') <= Cardinality(Pending \cup {d})
        /\ Cardinality(Pending') \in Nat
    BY <2>1, FS_Subset, FS_CardinalityType
  <2>3. QED BY <2>1, <2>2, Finite
<1>2. /\ Cardinality(Admitted') <= Cardinality(Admitted) - 1
      /\ Cardinality(Admitted') \in Nat
  <2>1. /\ IsFiniteSet(Admitted \ {w})
        /\ Cardinality(Admitted \ {w}) = Cardinality(Admitted) - 1
    BY Finite, FS_RemoveElement
  <2>2. /\ Cardinality(Admitted') <= Cardinality(Admitted \ {w})
        /\ Cardinality(Admitted') \in Nat
    BY <2>1, FS_Subset, FS_CardinalityType
  <2>3. QED BY <2>1, <2>2
<1>3. QED BY <1>1, <1>2, Finite, LimitAssumption DEF QueueInv

\* A request that finishes, or starts again, is no longer admitted.
LEMMA Leaves ==
    ASSUME TypeOK, NEW w \in Workers, NEW r, req' = [req EXCEPT ![w] = r],
           r.op \in {"upload", "assign"} /\ r.phase = "write" => r.snap # NoRow
    PROVE  Admitted' \subseteq Admitted \ {w}
<1>1. \A v \in Workers : v # w => req'[v] = req[v]
  BY DEF TypeOK
<1>2. req'[w] = r
  BY DEF TypeOK
<1>3. QED BY <1>1, <1>2 DEF Admitted, RequireApproval, Vouches

\* What is written over a loaded row never makes a device wait that did not wait.
LEMMA Settles ==
    ASSUME TypeOK, NEW old \in Row, NEW new \in Row, Update(old, new),
           new.approval = old.approval \/ new.approval # "pending"
    PROVE  Pending' \subseteq Pending
<1>1. SUFFICES ASSUME NEW d \in Ids, table'[d] # NoRow, table'[d].approval = "pending"
               PROVE  table[d] # NoRow /\ table[d].approval = "pending"
  BY DEF Pending, Exists
<1>2. CASE Exists(d) /\ table[d].pk = old.pk
  <2>1. table'[d] = Merge(table[d], old, new) /\ table[d] \in Row
    BY <1>2 DEF Update, Exists, TypeOK
  <2>2. table'[d].approval = IF new.approval # old.approval THEN new.approval
                                                           ELSE table[d].approval
    BY <2>1 DEF Merge, Row
  <2>3. QED BY <1>1, <1>2, <2>2 DEF Exists
<1>3. CASE ~(Exists(d) /\ table[d].pk = old.pk)
  BY <1>1, <1>3 DEF Update
<1>4. QED BY <1>2, <1>3

LEMMA Forgets ==
    ASSUME TypeOK, NEW pks, Delete(pks)
    PROVE  Pending' \subseteq Pending
BY DEF Delete, Pending, Exists, TypeOK

LEMMA Joins ==
    ASSUME TypeOK, NEW d \in Ids, NEW a, NEW u, NEW o, Insert(d, a, u, o)
    PROVE  /\ Pending' \subseteq Pending \cup {d}
           /\ a # "pending" => Pending' \subseteq Pending
BY DEF Insert, Pending, Exists, TypeOK

\* Registering, assigning and deciding leave a device's approval as it is or settle it.
LEMMA RegisteredSettles ==
    ASSUME NEW row \in Row, NEW u \in Uuids \cup {NoUuid}, NEW o \in Owners,
           NEW t, NEW policy, NEW v
    PROVE  LET new == Registered(row, u, o, t, policy, v)
           IN  new \in Row /\ (new.approval = row.approval \/ new.approval # "pending")
<1>1. Park(row, u, policy).approval = row.approval
  BY DEF Park, Row
<1>2. Adopt(row, u, o, v).approval \in {row.approval, "approved"}
  BY DEF Adopt, Row
<1>3. Registered(row, u, o, t, policy, v).approval \in {row.approval, "approved"}
  BY <1>1, <1>2 DEF Registered
<1>4. QED BY <1>3, RegisteredType

LEMMA AssignSettles ==
    ASSUME NEW r \in Request, r.snap \in Row
    PROVE  LET new == AssignBase(r)
           IN  new \in Row /\ (new.approval = r.snap.approval \/ new.approval # "pending")
<1>1. r.uuid \in Uuids \cup {NoUuid} /\ NoUser \in Owners
  BY DEF Request, Owners
<1>2. CASE r.known
  BY <1>2, AssignBaseType DEF AssignBase, Row
<1>3. CASE ~r.known
  BY <1>1, <1>3, AssignBaseType, RegisteredSettles DEF AssignBase
<1>4. QED BY <1>2, <1>3

LEMMA DecidedSettles ==
    ASSUME NEW row \in Row, NEW op, NEW o \in Owners
    PROVE  LET new == Decided(op, row, o)
           IN  new \in Row /\ (new.approval = row.approval \/ new.approval # "pending")
BY DecidedType DEF Decided, Row

\* A handler starts by looking up, and is admitted only once it has counted.
LEMMA StartsQueue ==
    ASSUME TypeOK, QueueInv, NEW w \in Workers,
           UploadStart(w) \/ AssignStart(w) \/ ImportStart(w) \/ View(w) \/ SweepRead(w)
    PROVE  QueueInv'
<1> DEFINE Starts(r) == /\ req' = [req EXCEPT ![w] = r]
                        /\ r.op \in {"upload", "assign"} /\ r.phase = "write" => r.snap # NoRow
<1>1. UNCHANGED table /\ \E r : Starts(r)
  <2>1. \A d \in Ids : table[d] \in Row \cup {NoRow} /\ (Exists(d) <=> table[d] # NoRow)
    BY DEF TypeOK, Exists
  <2>2. CASE UploadStart(w)
    <3>1. PICK d \in Ids, u \in Uuids \cup {NoUuid}, who \in Callers :
            /\ req' = [req EXCEPT ![w] = LookedUp(Asks("upload", d, u, who, NoUser), "recheck")]
            /\ UNCHANGED table
      BY <2>2 DEF UploadStart, Begin
    <3> DEFINE r == LookedUp(Asks("upload", d, u, who, NoUser), "recheck")
    <3>2. r.phase = "write" => r.snap # NoRow
      BY <2>1 DEF LookedUp, Asks
    <3> HIDE DEF r
    <3>3. QED BY <3>1, <3>2 DEF r
  <2>3. CASE AssignStart(w)
    <3>1. PICK d \in Ids, u \in Uuids \cup {NoUuid}, who \in Accounts, o \in Owners :
            /\ req' = [req EXCEPT ![w] = LookedUp(Asks("assign", d, u, who, o), "recheck")]
            /\ UNCHANGED table
      BY <2>3 DEF AssignStart, Begin
    <3> DEFINE r == LookedUp(Asks("assign", d, u, who, o), "recheck")
    <3>2. r.phase = "write" => r.snap # NoRow
      BY <2>1 DEF LookedUp, Asks
    <3> HIDE DEF r
    <3>3. QED BY <3>1, <3>2 DEF r
  <2>4. CASE ImportStart(w)
    <3>1. PICK d \in Ids, o \in Owners :
            /\ req' = [req EXCEPT ![w] = LookedUp(Asks("import", d, NoUuid, Admin, o), "write")]
            /\ UNCHANGED table
      BY <2>4 DEF ImportStart, Begin
    <3> DEFINE r == LookedUp(Asks("import", d, NoUuid, Admin, o), "write")
    <3>2. r.op = "import"
      BY DEF LookedUp, Asks
    <3> HIDE DEF r
    <3>3. QED BY <3>1, <3>2 DEF r
  <2>5. CASE View(w)
    <3>1. PICK d \in Ids, op \in Decisions \cap Ops, who \in Accounts, o \in Owners :
            /\ Begin(w, [Asks(op, d, NoUuid, who, o) EXCEPT !.pk = table[d].pk])
            /\ UNCHANGED table
      BY <2>5 DEF View
    <3> DEFINE r == [Asks(op, d, NoUuid, who, o) EXCEPT !.pk = table[d].pk]
    <3>2. r.phase = "view"
      BY DEF Asks
    <3>3. Begin(w, r)
      BY <3>1
    <3> HIDE DEF r
    <3>4. QED BY <3>1, <3>2, <3>3 DEF Begin
  <2>6. CASE SweepRead(w)
    <3>1. PICK S \in SUBSET Pending :
            /\ req' = [req EXCEPT ![w] = [NoReq EXCEPT !.op = "sweep", !.phase = "write",
                                                    !.pks = {table[d].pk : d \in S}]]
            /\ UNCHANGED table
      BY <2>6 DEF SweepRead, Begin
    <3> DEFINE r == [NoReq EXCEPT !.op = "sweep", !.phase = "write", !.pks = {table[d].pk : d \in S}]
    <3>2. r.op = "sweep"
      BY DEF NoReq, Asks
    <3> HIDE DEF r
    <3>3. QED BY <3>1, <3>2 DEF r
  <2>7. QED BY <2>2, <2>3, <2>4, <2>5, <2>6
<1>2. Admitted' \subseteq Admitted
  <2> HIDE DEF Starts
  <2>1. PICK r : Starts(r)
    BY <1>1
  <2>2. Admitted' \subseteq Admitted \ {w}
    BY <2>1, Leaves DEF Starts
  <2>3. QED BY <2>2
<1>3. Pending' \subseteq Pending
  BY <1>1 DEF Pending, Exists
<1>4. QED BY <1>2, <1>3, Shrinks

LEMMA MovesQueue ==
    ASSUME TypeOK, QueueInv, NEW w \in Workers, Recheck(w) \/ DecideRead(w)
    PROVE  QueueInv'
<1>0. UNCHANGED table /\ Pending' \subseteq Pending
  BY DEF Recheck, DecideRead, Pending, Exists
<1>1. CASE Finish(w)
  <2>1. Admitted' \subseteq Admitted
    BY <1>1, Leaves DEF Finish, NoReq, Asks
  <2>2. QED BY <1>0, <2>1, Shrinks
<1>2. CASE Recheck(w) /\ ~Finish(w)
  <2> DEFINE n == [req[w] EXCEPT !.phase = "write", !.snap = table[req[w].id]]
  <2>1. /\ req' = [req EXCEPT ![w] = n]
        /\ \/ Exists(req[w].id)
           \/ ~RequireApproval(req[w].who)
           \/ ~(Cardinality(Pending) >= PendingLimit)
    <3>1. req' = [req EXCEPT ![w].phase = "write", ![w].snap = table[req[w].id]]
      BY <1>2 DEF Recheck
    <3>2. QED BY <1>2, <3>1 DEF Recheck, TypeOK
  <2>2. CASE Exists(req[w].id)
    <3>0. req[w] \in Request
      BY DEF TypeOK
    <3>1. n.snap # NoRow
      BY <2>2, <3>0 DEF Exists, Request
    <3>2. Admitted' \subseteq Admitted
      BY <2>1, <3>1, Leaves
    <3>3. QED BY <1>0, <3>2, Shrinks
  <2>3. CASE ~RequireApproval(req[w].who)
    <3>1. n.who = req[w].who /\ req'[w] = n
      BY <2>1 DEF TypeOK, Request
    <3>2. \A v \in Workers : v # w => req'[v] = req[v]
      BY <2>1 DEF TypeOK
    <3>3. Admitted' \subseteq Admitted
      BY <2>3, <3>1, <3>2 DEF Admitted, RequireApproval, Vouches
    <3>4. QED BY <1>0, <3>3, Shrinks
  <2>4. CASE ~(Cardinality(Pending) >= PendingLimit)
    <3>1. Cardinality(Pending) < PendingLimit
      BY <2>4, Finite, LimitAssumption
    <3>2. Admitted' \subseteq Workers
      BY DEF Admitted
    <3>3. QED BY <1>0, <3>1, <3>2, Counts
  <2>5. QED BY <2>1, <2>2, <2>3, <2>4
<1>3. CASE DecideRead(w) /\ ~Finish(w)
  <2>1. PICK d \in Ids : /\ Exists(d)
                         /\ req' = [req EXCEPT ![w].phase = "write", ![w].known = TRUE,
                                               ![w].snap = table[d]]
    <3> DEFINE next(d) == req' = [req EXCEPT ![w].phase = "write", ![w].known = TRUE,
                                            ![w].snap = table[d]]
    <3>1. \E d \in {x \in Ids : Exists(x) /\ table[x].pk = req[w].pk} : Finish(w) \/ next(d)
      BY <1>3 DEF DecideRead
    <3> HIDE DEF next
    <3>2. \E d \in Ids : Exists(d) /\ next(d)
      BY <1>3, <3>1
    <3>3. QED BY <3>2 DEF next
  <2>2. \A v \in Workers : v # w => req'[v] = req[v]
    BY <2>1 DEF TypeOK
  <2>3. req'[w].snap # NoRow
    BY <2>1 DEF Exists, TypeOK, Request
  <2>4. Admitted' \subseteq Admitted
    BY <2>2, <2>3 DEF Admitted, RequireApproval, Vouches
  <2>5. QED BY <1>0, <2>4, Shrinks
<1>4. QED BY <1>1, <1>2, <1>3

\* Only an admitted request adds to the queue, and it is admitted no more.
LEMMA CommitsQueue ==
    ASSUME TypeOK, QueueInv, NEW w \in Workers,
           \/ UploadWrite(w) \/ AssignWrite(w) \/ ImportWrite(w)
           \/ DecideWrite(w) \/ SweepWrite(w)
    PROVE  QueueInv'
<1> DEFINE r == req[w]
<1>0. /\ r \in Request /\ r.snap \in Row \cup {NoRow}
      /\ r.uuid \in Uuids \cup {NoUuid} /\ r.owner \in Owners
      /\ NoUser \in Owners /\ CallerAsOwner(r.who) \in Owners
  BY DEF TypeOK, Request, Owners, CallerAsOwner, Callers
<1>1. Admitted' \subseteq Admitted \ {w}
  <2>1. Finish(w)
    BY DEF UploadWrite, AssignWrite, ImportWrite, DecideWrite, SweepWrite
  <2>2. QED BY <2>1, Leaves DEF Finish, NoReq, Asks
<1>2. SUFFICES \/ Pending' \subseteq Pending
               \/ w \in Admitted /\ \E d : Pending' \subseteq Pending \cup {d}
  BY <1>1, Shrinks, Inserts
<1>3. ASSUME NEW o, Insert(r.id, NewApproval(r.who), r.uuid, o), r.id \in Ids,
             r.op \in {"upload", "assign"}, r.phase = "write", r.snap = NoRow
      PROVE  \/ Pending' \subseteq Pending
             \/ w \in Admitted /\ \E d : Pending' \subseteq Pending \cup {d}
  BY <1>3, Joins DEF Admitted, NewApproval
<1>4. CASE UploadWrite(w)
  <2>1. r.id \in Ids /\ r.op = "upload" /\ r.phase = "write"
    BY <1>4 DEF UploadWrite, AtPhase, TypeOK, WellFormed
  <2>2. CASE r.snap = NoRow
    BY <1>3, <1>4, <2>1, <2>2 DEF UploadWrite
  <2>3. CASE r.snap # NoRow
    <3> DEFINE t == Trusted(r.who, r.known, r.snap)
               new == Registered(r.snap, r.uuid, CallerAsOwner(r.who), t, UuidRebind, Vouches(r.who))
    <3>1. Update(r.snap, new)
      BY <1>4, <2>3 DEF UploadWrite
    <3> HIDE DEF t
    <3>2. new \in Row /\ (new.approval = r.snap.approval \/ new.approval # "pending")
      BY <1>0, <2>3, RegisteredSettles
    <3>3. QED BY <1>0, <2>3, <3>1, <3>2, Settles
  <2>4. QED BY <2>2, <2>3
<1>5. CASE AssignWrite(w)
  <2>1. r.id \in Ids /\ r.op = "assign" /\ r.phase = "write"
    BY <1>5 DEF AssignWrite, AtPhase, TypeOK, WellFormed
  <2>2. CASE r.snap = NoRow
    <3>1. UNCHANGED table \/ \E o : Insert(r.id, NewApproval(r.who), r.uuid, o)
      BY <1>5, <2>2 DEF AssignWrite
    <3>2. UNCHANGED table => Pending' \subseteq Pending
      BY DEF Pending, Exists
    <3>3. QED BY <1>3, <2>1, <2>2, <3>1, <3>2
  <2>3. CASE r.snap # NoRow
    <3>1. /\ AssignBase(r) \in Row
          /\ AssignBase(r).approval = r.snap.approval \/ AssignBase(r).approval # "pending"
      BY <1>0, <2>3, AssignSettles
    <3>2. PICK o \in Owners :
            UNCHANGED table \/ Update(r.snap, [AssignBase(r) EXCEPT !.owner = o])
      <4>1. AssignBase(r).owner \in Owners
        BY <3>1 DEF Row
      <4>2. QED BY <1>0, <1>5, <2>3, <4>1 DEF AssignWrite
    <3> DEFINE new == [AssignBase(r) EXCEPT !.owner = o]
    <3>3. new \in Row /\ new.approval = AssignBase(r).approval
      BY <3>1 DEF Row
    <3>4. UNCHANGED table => Pending' \subseteq Pending
      BY DEF Pending, Exists
    <3> HIDE DEF new
    <3>5. Update(r.snap, new) => Pending' \subseteq Pending
      BY <1>0, <2>3, <3>1, <3>3, Settles
    <3>6. QED BY <3>2, <3>4, <3>5 DEF new
  <2>4. QED BY <2>2, <2>3
<1>6. CASE ImportWrite(w)
  <2>1. r.id \in Ids
    BY <1>6 DEF ImportWrite, AtPhase, TypeOK, WellFormed
  <2>2. CASE r.snap = NoRow
    BY <1>6, <2>1, <2>2, Joins DEF ImportWrite
  <2>3. CASE r.snap # NoRow
    <3> DEFINE new == [r.snap EXCEPT !.owner = IF r.owner # NoUser THEN r.owner ELSE @]
    <3>1. Update(r.snap, new)
      BY <1>6, <2>3 DEF ImportWrite
    <3>2. new \in Row /\ new.approval = r.snap.approval
      BY <1>0, <2>3 DEF Row
    <3>3. QED BY <1>0, <2>3, <3>1, <3>2, Settles
  <2>4. QED BY <2>2, <2>3
<1>7. CASE DecideWrite(w)
  <2>1. r.snap \in Row
    BY <1>0, <1>7 DEF DecideWrite, AtPhase, TypeOK, WellFormed
  <2>2. Delete({r.pk}) \/ Update(r.snap, Decided(r.op, r.snap, r.owner))
    BY <1>7 DEF DecideWrite
  <2>3. /\ Decided(r.op, r.snap, r.owner) \in Row
        /\ \/ Decided(r.op, r.snap, r.owner).approval = r.snap.approval
           \/ Decided(r.op, r.snap, r.owner).approval # "pending"
    BY <1>0, <2>1, DecidedSettles
  <2>4. QED BY <2>1, <2>2, <2>3, Settles, Forgets
<1>8. CASE SweepWrite(w)
  BY <1>8, Forgets DEF SweepWrite
<1>9. QED BY <1>4, <1>5, <1>6, <1>7, <1>8

\* However many uploads, sign-ins, assignments, imports, decisions and sweeps run at
\* once, the devices waiting for approval exceed the limit by less than the number of
\* requests the server handles at a time.
THEOREM QueueBounded == Spec => []PendingBounded
<1>1. Init => QueueInv
  <2>1. ASSUME Init PROVE Pending = {} /\ Admitted = {}
    BY <2>1 DEF Init, Pending, Exists, Admitted, NoReq, Asks
  <2>2. Cardinality({}) = 0 /\ Cardinality(Workers) >= 1
    <3>1. Cardinality(Workers) # 0
      BY WorkersAssumption, FS_EmptySet
    <3>2. QED BY <3>1, Finite, FS_EmptySet
  <2>3. ASSUME Init PROVE Cardinality(Pending) = 0 /\ Cardinality(Admitted) = 0
    BY <2>1, <2>2, <2>3
  <2>4. QED BY <2>2, <2>3, Finite, LimitAssumption DEF QueueInv
<1>2. TypeOK /\ QueueInv /\ [Next]_vars => QueueInv'
  <2> SUFFICES ASSUME TypeOK, QueueInv, [Next]_vars PROVE QueueInv'
    OBVIOUS
  <2>1. CASE UNCHANGED vars
    BY <2>1, Shrinks DEF vars, Pending, Exists, Admitted
  <2>2. CASE Restart
    <3>1. Pending' \subseteq Pending /\ Admitted' \subseteq Admitted
      BY <2>2 DEF Restart, Pending, Exists, Admitted, NoReq, Asks
    <3>2. QED BY <3>1, Shrinks
  <2>3. ASSUME NEW w \in Workers,
               \/ UploadStart(w) \/ Recheck(w) \/ UploadWrite(w)
               \/ AssignStart(w) \/ AssignWrite(w)
               \/ ImportStart(w) \/ ImportWrite(w)
               \/ View(w) \/ DecideRead(w) \/ DecideWrite(w)
               \/ SweepRead(w) \/ SweepWrite(w)
        PROVE  QueueInv'
    BY <2>3, StartsQueue, MovesQueue, CommitsQueue
  <2>4. QED BY <2>1, <2>2, <2>3 DEF Next
<1>3. QueueInv => PendingBounded
  BY Finite, LimitAssumption DEF QueueInv, PendingBounded
<1>4. QED BY <1>1, <1>2, <1>3, TypeCorrect, PTL DEF Spec

\* The limit that the README gives as a maximum holds for a server that handles one request
\* at a time: the excess is due to overlapping requests alone (register_or_update counts the
\* waiting devices, then inserts).
THEOREM LimitHoldsOneAtATime ==
    ASSUME Cardinality(Workers) = 1
    PROVE  Spec => []PendingAtMostLimit
<1>1. PendingBounded => PendingAtMostLimit
  BY LimitAssumption DEF PendingBounded, PendingAtMostLimit
<1>2. QED BY <1>1, QueueBounded, PTL

-----------------------------------------------------------------------------
(* Approval takes an administrator *)

\* Imports and the decisions reserved to administrators are theirs.
AdminInv == \A w \in Workers : req[w].op \in AdminOnly \cup {"import"} => req[w].who = Admin

\* What a transaction writes approves a device only when the row was approved before,
\* or the writer had set out to approve it.
LEMMA UpdateApproves ==
    ASSUME TypeOK, NEW old \in Row, NEW new \in Row, Update(old, new),
           new.approval = "approved" => old.approval = "approved",
           NEW d \in Ids
    PROVE  ~BecomesApproved(d)
<1>1. CASE Exists(d) /\ table[d].pk = old.pk
  <2>1. table'[d] = Merge(table[d], old, new) /\ table[d] \in Row
    BY <1>1 DEF Update, Exists, TypeOK
  <2>2. table'[d].approval = IF new.approval # old.approval THEN new.approval
                                                           ELSE table[d].approval
    BY <2>1 DEF Merge, Row
  <2>3. QED BY <1>1, <2>2 DEF BecomesApproved
<1>2. CASE ~(Exists(d) /\ table[d].pk = old.pk)
  BY <1>2 DEF Update, BecomesApproved, Exists
<1>3. QED BY <1>1, <1>2

LEMMA RegisteredApproves ==
    ASSUME NEW row \in Row, NEW u \in Uuids \cup {NoUuid}, NEW o \in Owners, NEW t, NEW policy
    PROVE  LET new == Registered(row, u, o, t, policy, FALSE)
           IN  new.approval = "approved" => row.approval = "approved"
<1>1. Park(row, u, policy).approval = row.approval
  BY DEF Park, Row
<1>2. Adopt(row, u, o, FALSE).approval = row.approval
  BY DEF Adopt, Row
<1>3. QED BY <1>1, <1>2 DEF Registered

LEMMA AssignApproves ==
    ASSUME NEW r \in Request, r.snap \in Row, ~Vouches(r.who)
    PROVE  AssignBase(r).approval = "approved" => r.snap.approval = "approved"
<1>1. r.uuid \in Uuids \cup {NoUuid} /\ NoUser \in Owners /\ Vouches(r.who) = FALSE
  BY DEF Request, Owners, Vouches
<1>2. CASE r.known
  BY <1>2 DEF AssignBase, Row
<1>3. CASE ~r.known
  BY <1>1, <1>3, RegisteredApproves DEF AssignBase
<1>4. QED BY <1>2, <1>3

LEMMA DecidedApproves ==
    ASSUME NEW row \in Row, NEW op, NEW o \in Owners, op # "approve"
    PROVE  Decided(op, row, o).approval = "approved" => row.approval = "approved"
BY DEF Decided, Row

\* While new devices need approval, only an administrator's commit approves one.
LEMMA CommitApproves ==
    ASSUME TypeOK, AdminInv, NewDevicePolicy = "approve", NEW w \in Workers, NEW d \in Ids,
           BecomesApproved(d),
           \/ UploadWrite(w) \/ AssignWrite(w) \/ ImportWrite(w)
           \/ DecideWrite(w) \/ SweepWrite(w)
    PROVE  req[w].who = Admin
<1> DEFINE r == req[w]
<1> SUFFICES ASSUME r.who # Admin PROVE FALSE
  OBVIOUS
<1>0. /\ r \in Request /\ r.snap \in Row \cup {NoRow}
      /\ r.uuid \in Uuids \cup {NoUuid} /\ r.owner \in Owners
      /\ NoUser \in Owners /\ CallerAsOwner(r.who) \in Owners
      /\ NewApproval(r.who) = "pending"
      /\ ~Vouches(r.who) /\ Vouches(r.who) = FALSE
      /\ r.op \notin AdminOnly \cup {"import"}
  <2>1. r \in Request
    BY DEF TypeOK
  <2>2. NoUser \in Owners /\ CallerAsOwner(r.who) \in Owners
    BY <2>1 DEF Request, Owners, CallerAsOwner, Callers
  <2>3. NewApproval(r.who) = "pending" /\ ~Vouches(r.who) /\ Vouches(r.who) = FALSE
    BY DEF NewApproval, RequireApproval, Vouches
  <2>4. r.op \notin AdminOnly \cup {"import"}
    BY DEF AdminInv
  <2>5. QED BY <2>1, <2>2, <2>3, <2>4 DEF Request
<1>1. UNCHANGED table => FALSE
  BY DEF BecomesApproved, Exists
<1>2. ASSUME NEW o, Insert(r.id, "pending", r.uuid, o) PROVE FALSE
  <2>1. PICK p \in Pks : table' = [table EXCEPT ![r.id] = [pk |-> p, approval |-> "pending",
                             uuid |-> r.uuid, parked |-> NoUuid, owner |-> o]]
    BY <1>1, <1>2 DEF Insert
  <2>2. table'[d] = table[d] \/ table'[d].approval = "pending"
    BY <2>1 DEF TypeOK
  <2>3. QED BY <2>2 DEF BecomesApproved, Exists
<1>3. \A pks : ~Delete(pks)
  BY DEF Delete, BecomesApproved, Exists, TypeOK
<1>4. CASE UploadWrite(w)
  <2>1. CASE r.snap = NoRow
    BY <1>0, <1>2, <1>4, <2>1 DEF UploadWrite
  <2>2. CASE r.snap # NoRow
    <3> DEFINE t == Trusted(r.who, r.known, r.snap)
               new == Registered(r.snap, r.uuid, CallerAsOwner(r.who), t, UuidRebind, FALSE)
    <3>1. Update(r.snap, new)
      BY <1>0, <1>4, <2>2 DEF UploadWrite
    <3> HIDE DEF t
    <3>2. new \in Row /\ (new.approval = "approved" => r.snap.approval = "approved")
      BY <1>0, <2>2, RegisteredType, RegisteredApproves
    <3>3. QED BY <1>0, <2>2, <3>1, <3>2, UpdateApproves
  <2>3. QED BY <2>1, <2>2
<1>5. CASE AssignWrite(w)
  <2>1. CASE r.snap = NoRow
    BY <1>0, <1>1, <1>2, <1>5, <2>1 DEF AssignWrite
  <2>2. CASE r.snap # NoRow
    <3>1. /\ AssignBase(r) \in Row
          /\ AssignBase(r).approval = "approved" => r.snap.approval = "approved"
      BY <1>0, <2>2, AssignBaseType, AssignApproves
    <3>2. PICK o \in Owners : Update(r.snap, [AssignBase(r) EXCEPT !.owner = o])
      <4>1. AssignBase(r).owner \in Owners
        BY <3>1 DEF Row
      <4>2. QED BY <1>0, <1>1, <1>5, <2>2, <4>1 DEF AssignWrite
    <3> DEFINE new == [AssignBase(r) EXCEPT !.owner = o]
    <3>3. new \in Row /\ new.approval = AssignBase(r).approval
      BY <3>1 DEF Row
    <3>4. Update(r.snap, new)
      BY <3>2
    <3> HIDE DEF new
    <3>5. QED BY <1>0, <2>2, <3>1, <3>3, <3>4, UpdateApproves
  <2>3. QED BY <2>1, <2>2
<1>6. CASE ImportWrite(w)
  BY <1>0, <1>6 DEF ImportWrite, AtPhase
<1>7. CASE DecideWrite(w)
  <2>1. r.snap \in Row /\ r.op # "approve"
    BY <1>0, <1>7 DEF DecideWrite, AtPhase, TypeOK, WellFormed, AdminOnly
  <2>2. Update(r.snap, Decided(r.op, r.snap, r.owner))
    BY <1>3, <1>7 DEF DecideWrite
  <2>3. /\ Decided(r.op, r.snap, r.owner) \in Row
        /\ Decided(r.op, r.snap, r.owner).approval = "approved" => r.snap.approval = "approved"
    BY <1>0, <2>1, DecidedType, DecidedApproves
  <2>4. QED BY <2>1, <2>2, <2>3, UpdateApproves
<1>8. CASE SweepWrite(w)
  BY <1>3, <1>8 DEF SweepWrite
<1>9. QED BY <1>4, <1>5, <1>6, <1>7, <1>8

\* A device becomes approved under NEW_DEVICE_POLICY=approve only when a request of an
\* administrator commits, for every set of devices, accounts and concurrent requests.
THEOREM ApprovalVouched == Spec => ApprovalIsVouched
<1> DEFINE Step == NewDevicePolicy = "approve" =>
             \A d \in Ids : BecomesApproved(d) =>
                \E w \in Workers : Commits(w) /\ req[w].who = Admin
<1>1. Init => AdminInv
  BY DEF Init, AdminInv, NoReq, Asks, AdminOnly
<1>2. TypeOK /\ AdminInv /\ [Next]_vars => AdminInv'
  <2> SUFFICES ASSUME TypeOK, AdminInv, [Next]_vars PROVE AdminInv'
    OBVIOUS
  <2>0. "none" \notin AdminOnly \cup {"import"}
    BY DEF AdminOnly
  <2>1. CASE UNCHANGED vars
    BY <2>1 DEF vars, AdminInv
  <2>2. CASE Restart
    BY <2>0, <2>2 DEF Restart, AdminInv, NoReq, Asks
  <2>3. ASSUME NEW w \in Workers, NEW r, req' = [req EXCEPT ![w] = r],
               r.op \in AdminOnly \cup {"import"} => r.who = Admin
        PROVE  AdminInv'
    BY <2>3 DEF AdminInv, TypeOK
  <2>4. ASSUME NEW w \in Workers, Finish(w) PROVE AdminInv'
    BY <2>0, <2>3, <2>4 DEF Finish, NoReq, Asks
  <2>5. ASSUME NEW w \in Workers, UploadStart(w) PROVE AdminInv'
    <3>1. PICK d \in Ids, u \in Uuids \cup {NoUuid}, who \in Callers :
            Begin(w, LookedUp(Asks("upload", d, u, who, NoUser), "recheck"))
      BY <2>5 DEF UploadStart
    <3> DEFINE r == LookedUp(Asks("upload", d, u, who, NoUser), "recheck")
    <3>2. r.op = "upload"
      BY DEF LookedUp, Asks
    <3> HIDE DEF r
    <3>3. QED BY <2>3, <3>1, <3>2 DEF r, Begin, AdminOnly
  <2>6. ASSUME NEW w \in Workers, AssignStart(w) PROVE AdminInv'
    <3>1. PICK d \in Ids, u \in Uuids \cup {NoUuid}, who \in Accounts, o \in Owners :
            Begin(w, LookedUp(Asks("assign", d, u, who, o), "recheck"))
      BY <2>6 DEF AssignStart
    <3> DEFINE r == LookedUp(Asks("assign", d, u, who, o), "recheck")
    <3>2. r.op = "assign"
      BY DEF LookedUp, Asks
    <3> HIDE DEF r
    <3>3. QED BY <2>3, <3>1, <3>2 DEF r, Begin, AdminOnly
  <2>7. ASSUME NEW w \in Workers, ImportStart(w) PROVE AdminInv'
    <3>1. PICK d \in Ids, o \in Owners :
            Begin(w, LookedUp(Asks("import", d, NoUuid, Admin, o), "write"))
      BY <2>7 DEF ImportStart
    <3> DEFINE r == LookedUp(Asks("import", d, NoUuid, Admin, o), "write")
    <3>2. r.who = Admin
      BY DEF LookedUp, Asks
    <3> HIDE DEF r
    <3>3. QED BY <2>3, <3>1, <3>2 DEF r, Begin
  <2>8. ASSUME NEW w \in Workers, View(w) PROVE AdminInv'
    <3>1. PICK d \in Ids, op \in Decisions \cap Ops, who \in Accounts, o \in Owners :
            /\ op \in AdminOnly => who = Admin
            /\ Begin(w, [Asks(op, d, NoUuid, who, o) EXCEPT !.pk = table[d].pk])
      BY <2>8 DEF View
    <3> DEFINE r == [Asks(op, d, NoUuid, who, o) EXCEPT !.pk = table[d].pk]
    <3>2. r.op = op /\ r.who = who
      BY DEF Asks
    <3>3. Begin(w, r)
      BY <3>1
    <3> HIDE DEF r
    <3>4. op # "import"
      BY DEF Decisions
    <3>5. QED BY <2>3, <3>1, <3>2, <3>3, <3>4 DEF Begin
  <2>9. ASSUME NEW w \in Workers, SweepRead(w) PROVE AdminInv'
    <3>1. PICK S \in SUBSET Pending :
            Begin(w, [NoReq EXCEPT !.op = "sweep", !.phase = "write",
                                   !.pks = {table[d].pk : d \in S}])
      BY <2>9 DEF SweepRead
    <3> DEFINE r == [NoReq EXCEPT !.op = "sweep", !.phase = "write", !.pks = {table[d].pk : d \in S}]
    <3>2. r.op = "sweep"
      BY DEF NoReq, Asks
    <3>3. Begin(w, r)
      BY <3>1
    <3> HIDE DEF r
    <3>4. QED BY <2>3, <3>2, <3>3 DEF Begin, AdminOnly
  <2>10. ASSUME NEW w \in Workers, Recheck(w) \/ DecideRead(w) PROVE AdminInv'
    <3>1. CASE Finish(w)
      BY <2>4, <3>1
    <3>2. CASE ~Finish(w)
      <4>1. /\ \A v \in Workers : v # w => req'[v] = req[v]
            /\ req'[w].op = req[w].op /\ req'[w].who = req[w].who
        <5>1. CASE Recheck(w)
          BY <3>2, <5>1 DEF Recheck, TypeOK, Request
        <5>2. CASE DecideRead(w)
          <6>1. \E d \in Ids : req' = [req EXCEPT ![w].phase = "write", ![w].known = TRUE,
                                                  ![w].snap = table[d]]
            BY <3>2, <5>2 DEF DecideRead
          <6>2. QED BY <6>1 DEF TypeOK, Request
        <5>3. QED BY <2>10, <5>1, <5>2
      <4>2. QED BY <4>1 DEF AdminInv
    <3>3. QED BY <3>1, <3>2
  <2>11. ASSUME NEW w \in Workers,
                \/ UploadWrite(w) \/ AssignWrite(w) \/ ImportWrite(w)
                \/ DecideWrite(w) \/ SweepWrite(w)
         PROVE  AdminInv'
    BY <2>4, <2>11 DEF UploadWrite, AssignWrite, ImportWrite, DecideWrite, SweepWrite
  <2>12. QED BY <2>1, <2>2, <2>5, <2>6, <2>7, <2>8, <2>9, <2>10, <2>11 DEF Next
<1>3. TypeOK /\ AdminInv /\ [Next]_vars => [Step]_vars
  <2> SUFFICES ASSUME TypeOK, AdminInv, [Next]_vars,
                      NewDevicePolicy = "approve", NEW d \in Ids, BecomesApproved(d)
               PROVE  \E w \in Workers : Commits(w) /\ req[w].who = Admin
    OBVIOUS
  <2>1. ~UNCHANGED table
    BY DEF BecomesApproved, Exists
  <2>2. PICK w \in Workers : \/ UploadWrite(w) \/ AssignWrite(w) \/ ImportWrite(w)
                             \/ DecideWrite(w) \/ SweepWrite(w)
    BY <2>1 DEF Next, vars, UploadStart, Recheck, AssignStart, ImportStart, View, DecideRead,
                SweepRead, Restart
  <2>3. Commits(w)
    BY <2>2 DEF Commits, Finish, TypeOK, AtPhase, UploadWrite, AssignWrite, ImportWrite,
                DecideWrite, SweepWrite
  <2>4. QED BY <2>2, <2>3, CommitApproves
<1>4. QED BY <1>1, <1>2, <1>3, TypeCorrect, PTL DEF Spec, ApprovalIsVouched

-----------------------------------------------------------------------------
(* A primary key names one device *)

LEMMA UpdateKeys ==
    ASSUME TypeOK, KeysDistinct, NEW old \in Row, NEW new \in Row, Update(old, new)
    PROVE  KeysDistinct'
<1>1. ASSUME NEW d \in Ids, Exists(d), table[d].pk = old.pk
      PROVE  table'[d].pk = table[d].pk
  <2>1. table'[d] = Merge(table[d], old, new) /\ table[d] \in Row
    BY <1>1 DEF Update, Exists, TypeOK
  <2>2. QED BY <2>1 DEF Merge, Row
<1>2. \A d \in Ids : table'[d] # NoRow => table[d] # NoRow /\ table'[d].pk = table[d].pk
  BY <1>1 DEF Update, Exists
<1>3. QED BY <1>2 DEF KeysDistinct, Exists

LEMMA DeleteKeys ==
    ASSUME TypeOK, KeysDistinct, NEW pks, Delete(pks)
    PROVE  KeysDistinct'
BY DEF Delete, KeysDistinct, Exists, TypeOK

LEMMA InsertKeys ==
    ASSUME TypeOK, KeysDistinct, NEW d \in Ids, NEW a, NEW u, NEW o, Insert(d, a, u, o)
    PROVE  KeysDistinct'
<1>1. CASE UNCHANGED table
  BY <1>1 DEF KeysDistinct, Exists
<1>2. CASE ~UNCHANGED table
  <2>1. PICK p \in Pks :
          /\ IsNextPk(p)
          /\ table' = [table EXCEPT ![d] = [pk |-> p, approval |-> a, uuid |-> u,
                                           parked |-> NoUuid, owner |-> o]]
    BY <1>2 DEF Insert
  <2>2. \A e \in Ids : Exists(e) => table[e].pk \in Pks /\ table[e].pk < p
    BY <2>1 DEF IsNextPk, UsedPks, Exists, TypeOK, Row
  <2>3. \A e \in Ids : Exists(e) => table[e].pk # p
    BY <2>2 DEF Pks
  <2>4. table'[d].pk = p /\ \A e \in Ids : e # d => table'[e] = table[e]
    BY <2>1 DEF TypeOK
  <2>5. QED BY <2>3, <2>4 DEF KeysDistinct, Exists
<1>3. QED BY <1>1, <1>2

\* A console request names its device by primary key, and keys of deleted devices come
\* back: still no two devices ever share one.
THEOREM KeysAreDistinct == Spec => []KeysDistinct
<1>1. Init => KeysDistinct
  BY DEF Init, KeysDistinct, Exists
<1>2. TypeOK /\ KeysDistinct /\ [Next]_vars => KeysDistinct'
  <2> SUFFICES ASSUME TypeOK, KeysDistinct, [Next]_vars PROVE KeysDistinct'
    OBVIOUS
  <2>1. CASE UNCHANGED table
    BY <2>1 DEF KeysDistinct, Exists
  <2>2. ASSUME NEW w \in Workers,
               \/ UploadWrite(w) \/ AssignWrite(w) \/ ImportWrite(w)
               \/ DecideWrite(w) \/ SweepWrite(w)
        PROVE  KeysDistinct'
    BY <2>1, <2>2, CommitsTable, UpdateKeys, DeleteKeys, InsertKeys
  <2>3. QED BY <2>1, <2>2 DEF Next, vars, UploadStart, Recheck, AssignStart, ImportStart,
                              View, DecideRead, SweepRead, Restart
<1>3. QED BY <1>1, <1>2, TypeCorrect, PTL DEF Spec

-----------------------------------------------------------------------------
(* What a request that worked on the current row makes of it *)

\* What a handler relies on about the row it has loaded: it loaded one when it knew of
\* the device, an assignment was not refused on it, and a decision was its caller's to make.
Loaded(r) ==
    /\ r.known => /\ r.phase = "write" /\ r.snap # NoRow
                  /\ r.op \in {"upload", "assign", "import"} \cup Decisions
    /\ r.known /\ r.op = "assign" => ~AssignRefused(r.snap, r.uuid)
    /\ r.op \in Decisions /\ r.phase = "write" => MayDecide(r.who, r.snap)

LoadedInv == \A w \in Workers : Loaded(req[w])

LEMMA NoReqLoaded == Loaded(NoReq)
BY DEF Loaded, NoReq, Asks, Decisions

LEMMA StepLoaded ==
    ASSUME TypeOK, LoadedInv, NEW w \in Workers, NEW r, Loaded(r), req' = [req EXCEPT ![w] = r]
    PROVE  LoadedInv'
<1>1. \A v \in Workers : req'[v] = req[v] \/ req'[v] = r
  BY DEF TypeOK
<1>2. QED BY <1>1 DEF LoadedInv, Loaded

LEMMA FinishLoaded ==
    ASSUME TypeOK, LoadedInv, NEW w \in Workers, Finish(w)
    PROVE  LoadedInv'
BY NoReqLoaded, StepLoaded DEF Finish

\* A request that starts has its device looked up, or has only looked at the screen.
LEMMA StartsLoaded ==
    ASSUME TypeOK, LoadedInv, NEW w \in Workers,
           UploadStart(w) \/ AssignStart(w) \/ ImportStart(w) \/ View(w) \/ SweepRead(w)
    PROVE  LoadedInv'
<1>1. SUFFICES \E r : Loaded(r) /\ Begin(w, r)
  BY StepLoaded DEF Begin
<1>2. CASE UploadStart(w)
  <2>1. PICK d \in Ids, u \in Uuids \cup {NoUuid}, who \in Callers :
          Begin(w, LookedUp(Asks("upload", d, u, who, NoUser), "recheck"))
    BY <1>2 DEF UploadStart
  <2>2. Loaded(LookedUp(Asks("upload", d, u, who, NoUser), "recheck"))
    BY DEF Loaded, LookedUp, Asks, Exists, Decisions
  <2>3. QED BY <2>1, <2>2
<1>3. CASE AssignStart(w)
  <2>1. PICK d \in Ids, u \in Uuids \cup {NoUuid}, who \in Accounts, o \in Owners :
          /\ ~AssignRefused(table[d], u)
          /\ Begin(w, LookedUp(Asks("assign", d, u, who, o), "recheck"))
    BY <1>3 DEF AssignStart
  <2> DEFINE r == LookedUp(Asks("assign", d, u, who, o), "recheck")
  <2>2. /\ r.known = Exists(d) /\ r.snap = table[d] /\ r.uuid = u /\ r.op = "assign"
        /\ r.known => r.phase = "write"
    BY DEF LookedUp, Asks
  <2>3. Begin(w, r)
    BY <2>1
  <2> HIDE DEF r
  <2>4. Loaded(r)
    BY <2>1, <2>2 DEF Loaded, Exists, Decisions
  <2>5. QED BY <2>3, <2>4
<1>4. CASE ImportStart(w)
  <2>1. PICK d \in Ids, o \in Owners :
          Begin(w, LookedUp(Asks("import", d, NoUuid, Admin, o), "write"))
    BY <1>4 DEF ImportStart
  <2>2. Loaded(LookedUp(Asks("import", d, NoUuid, Admin, o), "write"))
    BY DEF Loaded, LookedUp, Asks, Exists, Decisions
  <2>3. QED BY <2>1, <2>2
<1>5. CASE View(w)
  <2>1. PICK d \in Ids, op \in Decisions \cap Ops, who \in Accounts, o \in Owners :
          Begin(w, [Asks(op, d, NoUuid, who, o) EXCEPT !.pk = table[d].pk])
    BY <1>5 DEF View
  <2>2. Loaded([Asks(op, d, NoUuid, who, o) EXCEPT !.pk = table[d].pk])
    BY DEF Loaded, Asks
  <2>3. QED BY <2>1, <2>2
<1>6. CASE SweepRead(w)
  <2>1. PICK S \in SUBSET Pending :
          /\ Begin(w, [NoReq EXCEPT !.op = "sweep", !.phase = "write",
                                    !.pks = {table[d].pk : d \in S}])
          /\ UNCHANGED table
    BY <1>6 DEF SweepRead
  <2>2. Loaded([NoReq EXCEPT !.op = "sweep", !.phase = "write", !.pks = {table[d].pk : d \in S}])
    BY DEF Loaded, NoReq, Asks, Decisions
  <2>3. QED BY <2>1, <2>2
<1>7. QED BY <1>2, <1>3, <1>4, <1>5, <1>6

\* The second lookup is only for devices the handler did not know; a decision is checked
\* on the row it loads.
LEMMA MovesLoaded ==
    ASSUME TypeOK, LoadedInv, NEW w \in Workers, Recheck(w) \/ DecideRead(w)
    PROVE  LoadedInv'
<1>0. req[w] \in Request /\ Loaded(req[w])
  BY DEF TypeOK, LoadedInv
<1>1. CASE Finish(w)
  BY <1>1, FinishLoaded
<1>2. CASE Recheck(w) /\ ~Finish(w)
  <2> DEFINE r == [req[w] EXCEPT !.phase = "write", !.snap = table[req[w].id]]
  <2>1. /\ req' = [req EXCEPT ![w] = r]
        /\ req[w].op \in {"upload", "assign"} /\ req[w].phase = "recheck"
    BY <1>2 DEF Recheck, AtPhase
  <2>2. Loaded(r)
    BY <1>0, <2>1 DEF Loaded, Request, Decisions
  <2> HIDE DEF r
  <2>3. QED BY <2>1, <2>2, StepLoaded
<1>3. CASE DecideRead(w) /\ ~Finish(w)
  <2>1. PICK d \in Ids :
          /\ req[w].op \in Decisions /\ Exists(d) /\ MayDecide(req[w].who, table[d])
          /\ req' = [req EXCEPT ![w].phase = "write", ![w].known = TRUE, ![w].snap = table[d]]
    BY <1>3 DEF DecideRead, AtPhase
  <2> DEFINE r == [req[w] EXCEPT !.phase = "write", !.known = TRUE, !.snap = table[d]]
  <2>2. req' = [req EXCEPT ![w] = r]
    BY <2>1
  <2>3. Loaded(r)
    BY <1>0, <2>1 DEF Loaded, Request, Decisions, Exists
  <2> HIDE DEF r
  <2>4. QED BY <2>2, <2>3, StepLoaded
<1>4. QED BY <1>1, <1>2, <1>3

\* Whatever interleaves with a handler, it relies on what it has checked of the row it
\* loaded.
THEOREM RowsAreLoaded == Spec => []LoadedInv
<1>1. Init => LoadedInv
  BY NoReqLoaded DEF Init, LoadedInv
<1>2. TypeOK /\ LoadedInv /\ [Next]_vars => LoadedInv'
  <2> SUFFICES ASSUME TypeOK, LoadedInv, [Next]_vars PROVE LoadedInv'
    OBVIOUS
  <2>1. CASE UNCHANGED vars
    BY <2>1 DEF vars, LoadedInv, Loaded
  <2>2. CASE Restart
    BY <2>2, NoReqLoaded DEF Restart, LoadedInv
  <2>3. ASSUME NEW w \in Workers,
               \/ UploadStart(w) \/ Recheck(w) \/ UploadWrite(w)
               \/ AssignStart(w) \/ AssignWrite(w)
               \/ ImportStart(w) \/ ImportWrite(w)
               \/ View(w) \/ DecideRead(w) \/ DecideWrite(w)
               \/ SweepRead(w) \/ SweepWrite(w)
        PROVE  LoadedInv'
    BY <2>3, StartsLoaded, MovesLoaded, FinishLoaded
       DEF UploadWrite, AssignWrite, ImportWrite, DecideWrite, SweepWrite
  <2>4. QED BY <2>1, <2>2, <2>3 DEF Next
<1>3. QED BY <1>1, <1>2, TypeCorrect, PTL DEF Spec

LEMMA SameRow ==
    ASSUME NEW a \in Row, NEW b \in Row, a.pk = b.pk, a.approval = b.approval,
           a.uuid = b.uuid, a.parked = b.parked, a.owner = b.owner
    PROVE  a = b
BY DEF Row

\* A handler that worked on the row as it still is writes what it has computed.
LEMMA FreshUpdate ==
    ASSUME TypeOK, NEW d \in Ids, Exists(d), NEW new \in Row, new.pk = table[d].pk,
           Update(table[d], new)
    PROVE  table'[d] = new
<1>1. table'[d] = Merge(table[d], table[d], new) /\ table[d] \in Row
  BY DEF Update, Exists, TypeOK
<1>2. Merge(table[d], table[d], new) \in Row
  BY <1>1, MergeType
<1>3. /\ Merge(table[d], table[d], new).pk = new.pk
      /\ Merge(table[d], table[d], new).approval = new.approval
      /\ Merge(table[d], table[d], new).uuid = new.uuid
      /\ Merge(table[d], table[d], new).parked = new.parked
      /\ Merge(table[d], table[d], new).owner = new.owner
  BY <1>1 DEF Merge, Row
<1>4. QED BY <1>1, <1>2, <1>3, SameRow

\* register_or_update keeps the key; so do the row an assignment starts from and a decision.
LEMMA KeysKept ==
    ASSUME NEW r \in Request, r.snap \in Row, NEW o \in Owners, NEW t, NEW policy, NEW v, NEW op
    PROVE  /\ Registered(r.snap, r.uuid, o, t, policy, v).pk = r.snap.pk
           /\ AssignBase(r).pk = r.snap.pk
           /\ Decided(op, r.snap, o).pk = r.snap.pk
<1>1. ASSUME NEW p \in Owners, NEW trusted, NEW pol, NEW vouched
      PROVE  Registered(r.snap, r.uuid, p, trusted, pol, vouched).pk = r.snap.pk
  BY DEF Registered, Park, Adopt, Row
<1>2. AssignBase(r).pk = r.snap.pk
  <2>1. NoUser \in Owners
    BY DEF Owners
  <2>2. CASE r.known
    BY <2>2 DEF AssignBase, Row
  <2>3. CASE ~r.known
    BY <1>1, <2>1, <2>3 DEF AssignBase
  <2>4. QED BY <2>2, <2>3
<1>3. Decided(op, r.snap, o).pk = r.snap.pk
  BY DEF Decided, Row
<1>4. QED BY <1>1, <1>2, <1>3

\* The row a request r makes of `row`, by what it was asked for.
Uploaded(r, row) == Registered(row, r.uuid, CallerAsOwner(r.who), Trusted(r.who, TRUE, row),
                               UuidRebind, Vouches(r.who))

Written(r, row, new) ==
    \/ new = row
    \/ r.op = "upload" /\ new = Uploaded(r, row)
    \/ /\ r.op = "assign" /\ ~AssignRefused(row, r.uuid)
       /\ \E o \in Owners : new = [AssignBase(r) EXCEPT !.owner = o]
    \/ r.op = "import" /\ \E o \in Owners : new = [row EXCEPT !.owner = o]
    \/ /\ r.op \in Decisions /\ MayDecide(r.who, row)
       /\ new \in {NoRow, Decided(r.op, row, r.owner)}

\* Only a commit changes the table.
LEMMA TableSteps ==
    ASSUME [Next]_vars, ~UNCHANGED table
    PROVE  \E v \in Workers : \/ UploadWrite(v) \/ AssignWrite(v) \/ ImportWrite(v)
                              \/ DecideWrite(v) \/ SweepWrite(v)
<1>1. ASSUME NEW v \in Workers,
             \/ UploadStart(v) \/ Recheck(v) \/ AssignStart(v) \/ ImportStart(v)
             \/ View(v) \/ DecideRead(v) \/ SweepRead(v)
      PROVE  FALSE
  BY <1>1 DEF UploadStart, Recheck, AssignStart, ImportStart, View, DecideRead, SweepRead
<1>2. ~Restart /\ ~UNCHANGED vars
  BY DEF Restart, vars
<1>3. QED BY <1>1, <1>2 DEF Next

\* A request that knew of its device and commits on the row it loaded.
LEMMA FreshCommit ==
    ASSUME TypeOK, LoadedInv, [Next]_vars, NEW w \in Workers, Commits(w), Fresh(w)
    PROVE  LET r == req[w] IN
           /\ r \in Request /\ r.id \in Ids /\ Exists(r.id) /\ table[r.id] \in Row
           /\ r.known /\ r.snap = table[r.id]
           /\ Written(r, table[r.id], table'[r.id])
<1> DEFINE r == req[w]
<1>1. /\ r \in Request /\ WellFormed(r) /\ Loaded(r)
      /\ r.known /\ r.snap = table[r.id] /\ r.phase = "write"
  BY DEF TypeOK, LoadedInv, Fresh, Commits
<1>2. /\ r.op \in {"upload", "assign", "import"} \cup Decisions
      /\ r.snap # NoRow /\ r.snap \in Row
  BY <1>1 DEF Loaded, Request
<1>3. r.id \in Ids /\ Exists(r.id) /\ table[r.id] \in Row
  BY <1>1, <1>2 DEF WellFormed, Decisions, Exists
<1>4. /\ r.uuid \in Uuids \cup {NoUuid} /\ r.owner \in Owners
      /\ NoUser \in Owners /\ CallerAsOwner(r.who) \in Owners
  BY <1>1 DEF Request, Owners, CallerAsOwner, Callers
<1>5. SUFFICES Written(r, table[r.id], table'[r.id])
  BY <1>1, <1>3
<1>6. CASE UNCHANGED table
  BY <1>6 DEF Written
<1>7. ASSUME NEW new \in Row, new.pk = r.snap.pk, Update(r.snap, new)
      PROVE  table'[r.id] = new
  BY <1>1, <1>3, <1>7, FreshUpdate
<1>8. CASE UploadWrite(w)
  <2>1. r.op = "upload" /\ Update(r.snap, Uploaded(r, r.snap))
    BY <1>1, <1>2, <1>8 DEF UploadWrite, AtPhase, Uploaded
  <2>2. Uploaded(r, r.snap) \in Row /\ Uploaded(r, r.snap).pk = r.snap.pk
    <3> DEFINE t == Trusted(r.who, TRUE, r.snap)
               v == Vouches(r.who)
               new == Registered(r.snap, r.uuid, CallerAsOwner(r.who), t, UuidRebind, v)
    <3>1. new = Uploaded(r, r.snap)
      BY DEF Uploaded
    <3> HIDE DEF t, v
    <3>2. new \in Row
      BY <1>2, <1>4, RegisteredType
    <3>3. new.pk = r.snap.pk
      BY <1>1, <1>2, <1>4, KeysKept
    <3> HIDE DEF new
    <3>4. QED BY <3>1, <3>2, <3>3
  <2>3. QED BY <1>1, <1>7, <2>1, <2>2 DEF Written
<1>9. CASE AssignWrite(w) /\ ~UNCHANGED table
  <2>1. AssignBase(r) \in Row /\ AssignBase(r).pk = r.snap.pk
    BY <1>1, <1>2, <1>4, AssignBaseType, KeysKept
  <2>2. PICK o \in Owners : Update(r.snap, [AssignBase(r) EXCEPT !.owner = o])
    <3>1. AssignBase(r).owner \in Owners
      BY <2>1 DEF Row
    <3>2. QED BY <1>2, <1>4, <1>9, <3>1 DEF AssignWrite
  <2> DEFINE new == [AssignBase(r) EXCEPT !.owner = o]
  <2>3. new \in Row /\ new.pk = r.snap.pk
    BY <2>1 DEF Row
  <2>4. Update(r.snap, new)
    BY <2>2
  <2>5. r.op = "assign" /\ ~AssignRefused(r.snap, r.uuid)
    BY <1>1, <1>9 DEF AssignWrite, AtPhase, Loaded
  <2> HIDE DEF new
  <2>6. table'[r.id] = new
    BY <1>7, <2>3, <2>4
  <2>7. QED BY <1>1, <2>5, <2>6 DEF Written, new
<1>10. CASE ImportWrite(w)
  <2> DEFINE o == IF r.owner # NoUser THEN r.owner ELSE r.snap.owner
             new == [r.snap EXCEPT !.owner = o]
  <2>1. r.op = "import" /\ Update(r.snap, new)
    BY <1>2, <1>10 DEF ImportWrite, AtPhase
  <2>2. o \in Owners /\ new \in Row /\ new.pk = r.snap.pk
    BY <1>2, <1>4 DEF Row
  <2> HIDE DEF o
  <2>3. QED BY <1>1, <1>7, <2>1, <2>2 DEF Written
<1>11. CASE DecideWrite(w)
  <2>1. r.op \in Decisions /\ MayDecide(r.who, r.snap)
    BY <1>1, <1>11 DEF DecideWrite, AtPhase, Loaded
  <2>2. Delete({r.pk}) \/ Update(r.snap, Decided(r.op, r.snap, r.owner))
    BY <1>11 DEF DecideWrite
  <2>3. Decided(r.op, r.snap, r.owner) \in Row /\ Decided(r.op, r.snap, r.owner).pk = r.snap.pk
    BY <1>1, <1>2, <1>4, DecidedType, KeysKept
  <2>4. Delete({r.pk}) => table'[r.id] \in {NoRow, table[r.id]}
    BY <1>3 DEF Delete
  <2>5. QED BY <1>1, <1>7, <2>1, <2>2, <2>3, <2>4 DEF Written
<1>12. \/ UNCHANGED table
       \/ \E v \in Workers : \/ UploadWrite(v) \/ AssignWrite(v) \/ ImportWrite(v)
                             \/ DecideWrite(v) \/ SweepWrite(v)
  BY TableSteps
<1>13. ASSUME NEW v \in Workers, v # w,
              \/ UploadWrite(v) \/ AssignWrite(v) \/ ImportWrite(v)
              \/ DecideWrite(v) \/ SweepWrite(v)
       PROVE  FALSE
  <2>1. req'[w] = r
    BY <1>13 DEF UploadWrite, AssignWrite, ImportWrite, DecideWrite, SweepWrite, Finish, TypeOK
  <2>2. QED BY <1>1, <2>1 DEF Commits, NoReq, Asks
<1>14. ~SweepWrite(w)
  BY <1>2 DEF SweepWrite, AtPhase, Decisions
<1>15. QED BY <1>6, <1>8, <1>9, <1>10, <1>11, <1>12, <1>13, <1>14

LEMMA FreshInvariant == Spec => [](TypeOK /\ LoadedInv)
BY TypeCorrect, RowsAreLoaded, PTL

\* A request that worked on the current row replaces a known uuid only for an
\* administrator or for the device's owner, whichever of the ways to re-bind a device it
\* took: register_or_update, `--assign` or the decision on a parked uuid.
THEOREM RebindingNeedsTrust == Spec => RebindNeedsTrust
<1> DEFINE Step == UuidRebind # "allow" =>
          \A w \in Workers : LET r == req[w] IN
             Commits(w) /\ Fresh(w) /\ UuidReplaced(r.id) =>
                r.who = Admin \/ r.who = table[r.id].owner
<1>1. TypeOK /\ LoadedInv /\ [Next]_vars => [Step]_vars
  <2> SUFFICES ASSUME TypeOK, LoadedInv, [Next]_vars, UuidRebind # "allow",
                      NEW w \in Workers, Commits(w), Fresh(w), UuidReplaced(req[w].id)
               PROVE  req[w].who = Admin \/ req[w].who = table[req[w].id].owner
    OBVIOUS
  <2> DEFINE r == req[w]
             row == table[r.id]
  <2>1. /\ r \in Request /\ row \in Row /\ r.known /\ r.snap = row
        /\ Written(r, row, table'[r.id])
    BY FreshCommit
  <2>2. /\ row.uuid # NoUuid /\ table'[r.id] # NoRow /\ table'[r.id].uuid # row.uuid
    BY DEF UuidReplaced
  <2> HIDE DEF r, row
  <2>3. CASE table'[r.id] = Uploaded(r, row)
    <3>1. r.uuid # NoUuid /\ r.uuid # row.uuid /\ Trusted(r.who, TRUE, row)
      BY <2>1, <2>2, <2>3 DEF Uploaded, Registered, Park, Adopt, Mismatch, Row
    <3>2. QED BY <3>1 DEF Trusted, r, row
  <2>4. ASSUME NEW o \in Owners, table'[r.id] = [AssignBase(r) EXCEPT !.owner = o] PROVE FALSE
    BY <2>1, <2>2, <2>4 DEF AssignBase, Row
  <2>5. ASSUME NEW o \in Owners, table'[r.id] = [row EXCEPT !.owner = o] PROVE FALSE
    BY <2>1, <2>2, <2>5 DEF Row
  <2>6. CASE MayDecide(r.who, row)
    BY <2>6 DEF MayDecide, r, row
  <2>7. QED BY <2>1, <2>2, <2>3, <2>4, <2>5, <2>6 DEF Written
<1>2. QED BY <1>1, FreshInvariant, PTL DEF Spec, RebindNeedsTrust

\* A rejected device is left as it is by uploads and assignments that worked on the
\* current row: only a decision or the administrator's import changes it.
THEOREM RejectedStaysRejected == Spec => RejectedUntouched
<1> DEFINE Step == \A w \in Workers : LET r == req[w] IN
          /\ Commits(w) /\ Fresh(w)
          /\ table[r.id].approval = "rejected" /\ table'[r.id] # table[r.id]
          => r.op \in Decisions \cup {"import"}
<1>1. TypeOK /\ LoadedInv /\ [Next]_vars => [Step]_vars
  <2> SUFFICES ASSUME TypeOK, LoadedInv, [Next]_vars, NEW w \in Workers, Commits(w), Fresh(w),
                      table[req[w].id].approval = "rejected",
                      table'[req[w].id] # table[req[w].id]
               PROVE  req[w].op \in Decisions \cup {"import"}
    OBVIOUS
  <2> DEFINE r == req[w]
             row == table[r.id]
  <2>1. row \in Row /\ Written(r, row, table'[r.id])
    BY FreshCommit
  <2>2. Uploaded(r, row) = row
    BY DEF Uploaded, Registered
  <2>3. AssignRefused(row, r.uuid)
    BY <2>1, NoRowAssumption DEF AssignRefused
  <2>4. QED BY <2>1, <2>2, <2>3 DEF Written
<1>2. QED BY <1>1, FreshInvariant, PTL DEF Spec, RejectedUntouched

LEMMA RegisteredCoherent ==
    ASSUME NEW row \in Row, NEW u \in Uuids \cup {NoUuid}, NEW o \in Owners,
           NEW t, NEW policy, NEW v, Coherent(row)
    PROVE  Coherent(Registered(row, u, o, t, policy, v))
<1>1. row.parked # NoUuid => row.uuid \notin {NoUuid, row.parked}
  BY NoRowAssumption DEF Coherent
<1>2. Mismatch(row, u) => Coherent(Park(row, u, policy))
  BY <1>1 DEF Coherent, Mismatch, Park, Row
<1>3. Coherent(Adopt(row, u, o, v))
  BY <1>1 DEF Coherent, Adopt, Row
<1>4. QED BY <1>2, <1>3 DEF Registered

LEMMA AssignedCoherent ==
    ASSUME NEW r \in Request, r.known, r.snap \in Row, Coherent(r.snap), NEW o \in Owners
    PROVE  Coherent([AssignBase(r) EXCEPT !.owner = o])
<1>1. r.snap.parked # NoUuid => r.snap.uuid \notin {NoUuid, r.snap.parked}
  BY NoRowAssumption DEF Coherent
<1>2. AssignBase(r) \in Row
  BY AssignBaseType
<1>3. AssignBase(r).parked = r.snap.parked
  BY DEF AssignBase, Row
<1>4. r.snap.uuid # NoUuid => AssignBase(r).uuid = r.snap.uuid
  BY DEF AssignBase, Row
<1>5. QED BY <1>1, <1>2, <1>3, <1>4 DEF Coherent, Row

LEMMA DecidedCoherent ==
    ASSUME NEW row \in Row, NEW op, NEW o \in Owners, Coherent(row)
    PROVE  Coherent(Decided(op, row, o))
<1>1. row.parked # NoUuid => row.uuid \notin {NoUuid, row.parked}
  BY NoRowAssumption DEF Coherent
<1>2. CASE op \in {"accept", "refuse"}
  BY <1>2 DEF Coherent, Decided, Row
<1>3. CASE op \notin {"accept", "refuse"}
  <2>1. Decided(op, row, o).parked = row.parked /\ Decided(op, row, o).uuid = row.uuid
    BY <1>3 DEF Decided, Row
  <2>2. QED BY <1>1, <2>1 DEF Coherent
<1>4. QED BY <1>2, <1>3

\* Nothing a request that worked on the current row does leaves the device waiting for a
\* decision on the uuid it already has, or on its first one.
THEOREM ParkedUuidIsOther == Spec => ParkedIsOther
<1> DEFINE Step == \A w \in Workers : LET r == req[w] IN
          Commits(w) /\ Fresh(w) /\ Coherent(table[r.id]) => Coherent(table'[r.id])
<1>1. TypeOK /\ LoadedInv /\ [Next]_vars => [Step]_vars
  <2> SUFFICES ASSUME TypeOK, LoadedInv, [Next]_vars, NEW w \in Workers, Commits(w), Fresh(w),
                      Coherent(table[req[w].id])
               PROVE  Coherent(table'[req[w].id])
    OBVIOUS
  <2> DEFINE r == req[w]
             row == table[r.id]
             new == table'[r.id]
  <2>1. /\ r \in Request /\ row \in Row /\ r.known /\ r.snap = row
        /\ Written(r, row, new)
    BY FreshCommit
  <2>2. /\ r.uuid \in Uuids \cup {NoUuid} /\ r.owner \in Owners
        /\ CallerAsOwner(r.who) \in Owners
    BY <2>1 DEF Request, Owners, CallerAsOwner, Callers
  <2>3. Coherent(row)
    OBVIOUS
  <2> HIDE DEF r, row
  <2>4. Coherent(Uploaded(r, row))
    <3> DEFINE t == Trusted(r.who, TRUE, row)
               v == Vouches(r.who)
    <3> HIDE DEF t, v
    <3>1. Coherent(Registered(row, r.uuid, CallerAsOwner(r.who), t, UuidRebind, v))
      BY <2>1, <2>2, <2>3, RegisteredCoherent
    <3>2. QED BY <3>1 DEF Uploaded, t, v
  <2>5. \A o \in Owners : Coherent([AssignBase(r) EXCEPT !.owner = o])
    BY <2>1, <2>3, AssignedCoherent
  <2>6. \A o \in Owners : Coherent([row EXCEPT !.owner = o])
    BY <2>1, <2>3, NoRowAssumption DEF Coherent, Row
  <2>7. Coherent(NoRow) /\ Coherent(Decided(r.op, row, r.owner))
    BY <2>1, <2>2, <2>3, DecidedCoherent DEF Coherent
  <2>8. Coherent(new)
    BY <2>1, <2>3, <2>4, <2>5, <2>6, <2>7 DEF Written
  <2>9. QED BY <2>8 DEF r
<1>2. QED BY <1>1, FreshInvariant, PTL DEF Spec, ParkedIsOther

=============================================================================
