----------------------------- MODULE SendTables -----------------------------
(***************************************************************************)
(* What the steps of the send path do to the tables and the tasks, for any *)
(* number of messages, frames, queue entries and pending ACKs: they keep   *)
(* their types, and however the tasks interleave, a parked row leaves by   *)
(* its three doors only.                                                   *)
(***************************************************************************)
EXTENDS SendPath, TLAPS

LOCAL INSTANCE WellFoundedInduction

Status == {"NONE", "SENT", "FAILED", "QUEUED", "DELIVERED"}
Row == [uid : 0 .. MaxUid, pkt : 0 .. MaxPkt, status : Status]
QEntry == [used : BOOLEAN, data : 0 .. MaxUid, uid : 0 .. MaxUid, reason : {"route", "session"}]

(* A task's record, whatever its list of parked messages is.               *)
TaskShape(x) ==
    /\ x = [pc |-> x.pc, uid |-> x.uid, fresh |-> x.fresh, pkt |-> x.pkt, slot |-> x.slot, todo |-> x.todo]
    /\ x.uid \in 0 .. MaxUid /\ x.pkt \in 0 .. MaxPkt /\ x.slot \in Nat /\ x.fresh \in BOOLEAN
    /\ x.pc = "idle" => x = Idle

(* Once the worker has sent an entry it remembers which.                   *)
TasksOK ==
    /\ DOMAIN task = Tasks /\ task = [t \in Tasks |-> task[t]]
    /\ \A t \in Tasks : TaskShape(task[t])
    /\ task["worker"].pc \in {"track", "stamp", "free"} => task["worker"].slot \in QSlot

SendTypeOK ==
    /\ rows \in Seq(Row)
    /\ queue \in [QSlot -> QEntry]
    /\ pending \in [Pkt -> 0 .. Inactive]
    /\ frame \in [Pkt -> 0 .. MaxUid]
    /\ air \subseteq Pkt /\ acks \subseteq Pkt /\ accepted \subseteq Pkt
    /\ TasksOK
    /\ sess \in {"none", "handshaking", "active"} /\ route \in BOOLEAN
    /\ written \in 0 .. MaxUid

-----------------------------------------------------------------------------
(* A set of natural numbers that is not empty has a least element.         *)
LEMMA LeastOf ==
    ASSUME NEW S, S \subseteq Nat, S # {}
    PROVE  Min(S) \in S /\ \A y \in S : Min(S) <= y
<1>1. PICK x \in S : \A y \in S : ~(<<y, x>> \in OpToRel(<, Nat))
  BY NatLessThanWellFounded, WFMin, Zenon
<1>2. ASSUME NEW y \in S PROVE x <= y
  <2>1. ~(y < x)
    BY <1>1, Zenon DEF OpToRel
  <2> QED
    BY <2>1
<1> QED
  BY <1>1, <1>2, Zenon DEF Min

(* And a greatest one, if it has a bound.                                  *)
LEMMA GreatestOf ==
    ASSUME NEW n \in Nat, NEW S, S \subseteq 1 .. n, S # {}
    PROVE  Max(S) \in S
<1>1. PICK T : T = {n - x : x \in S}
  BY Zenon
<1>2. T \subseteq Nat /\ T # {}
  <2>1. ASSUME NEW y \in T PROVE y \in Nat
    <3>1. PICK x \in S : y = n - x
      BY <1>1, <2>1, Zenon
    <3>2. x \in 1 .. n
      BY Zenon
    <3> QED
      BY <3>1, <3>2
  <2>2. PICK x : x \in S
    BY Zenon
  <2>3. n - x \in T
    BY <1>1, <2>2, Zenon
  <2> QED
    BY <2>1, <2>3, Zenon
<1>3. Min(T) \in T /\ \A y \in T : Min(T) <= y
  BY <1>2, LeastOf, Zenon
<1>4. PICK x \in S : Min(T) = n - x
  BY <1>1, <1>3, Zenon
<1>5. ASSUME NEW y \in S PROVE x >= y
  <2>1. n - x <= n - y
    BY <1>1, <1>3, <1>4, Zenon
  <2> QED
    BY <2>1
<1> QED
  BY <1>5, Zenon DEF Max

(* The numbers the tables and the tasks start from.                        *)
LEMMA Constants ==
    /\ 0 \in Nat /\ 1 \in Nat /\ 1 # 0 /\ 0 <= 0
    /\ 0 \in 0 .. MaxUid /\ 0 \in 0 .. MaxPkt /\ TRUE \in BOOLEAN /\ FALSE \in BOOLEAN
BY SendAssumption

(* No entry of the queue is entry 0.                                       *)
LEMMA Slots == \A x \in QSlot : x \in Nat /\ x # 0 /\ 1 <= x
BY SendAssumption DEF QSlot

(* The entries from one on, and those behind it.                           *)
LEMMA Behind ==
    ASSUME NEW n \in Nat
    PROVE  /\ n + 1 \in Nat /\ n + 1 # 0
           /\ \A x \in QSlot : (n <= x <=> x >= n) /\ (n <= x /\ x # n => n + 1 <= x)
BY SendAssumption DEF QSlot

(* No packet has id 0, which stands for none.                              *)
LEMMA Packets ==
    /\ \A k \in Pkt : k # 0 /\ k \in 0 .. MaxPkt
    /\ \A k \in 0 .. MaxPkt : k # 0 => k \in Pkt
BY SendAssumption DEF Pkt

(* The messages written so far are 1 to written.                           *)
LEMMA Messages ==
    ASSUME NEW n \in 0 .. MaxUid
    PROVE  /\ n \in Nat /\ n <= n /\ 0 <= n
           /\ \A u \in 1 .. n : u \in 0 .. MaxUid /\ u \in Nat /\ u # 0 /\ u <= n
           /\ \A u \in 0 .. MaxUid : u # 0 /\ u <= n => u \in 1 .. n
BY SendAssumption

(* The next one is none of them.                                           *)
LEMMA NextMessage ==
    ASSUME NEW n \in 0 .. MaxUid, n < MaxUid
    PROVE  /\ n + 1 \in 0 .. MaxUid /\ n + 1 \in 1 .. n + 1 /\ n <= n + 1
           /\ \A m \in Nat : m <= n => m # n + 1
BY SendAssumption

(* A message that was written has been written later too.                  *)
LEMMA Later ==
    ASSUME NEW n \in 0 .. MaxUid, NEW m \in 0 .. MaxUid, n <= m
    PROVE  (\A u \in 0 .. MaxUid : u <= n => u <= m) /\ \A u \in 1 .. n : u \in 1 .. m
BY SendAssumption

(* What the fields of a row hold.                                          *)
LEMMA RowFields ==
    ASSUME rows \in Seq(Row), NEW i \in DOMAIN rows
    PROVE  rows[i].uid \in 0 .. MaxUid /\ rows[i].pkt \in 0 .. MaxPkt
<1>1. rows[i] \in Row
  OBVIOUS
<1> QED
  BY <1>1 DEF Row

(* The same of an entry.                                                   *)
LEMMA EntryFields == \A e \in QEntry : e.uid \in 0 .. MaxUid /\ e.data \in 0 .. MaxUid
BY DEF QEntry

(* The uids of messages are among them.                                    *)
LEMMA UidRange == Uid \subseteq 0 .. MaxUid
BY SendAssumption DEF Uid

(* A freed entry is not in use.                                            *)
LEMMA EntryEmpty == ~Empty.used
BY DEF Empty

(* A step that writes no message.                                          *)
LEMMA WrittenSame ==
    ASSUME SendTypeOK, written' = written
    PROVE  written <= written'
<1>1. written \in 0 .. MaxUid
  BY Zenon DEF SendTypeOK
<1> QED
  BY <1>1, Messages, Zenon

(* The drain takes the uid out of the entry it sends.                      *)
LEMMA EntryTaken ==
    ASSUME queue \in [QSlot -> QEntry], NEW s \in QSlot, queue' = [queue EXCEPT ![s].uid = 0]
    PROVE  /\ queue' \in [QSlot -> QEntry]
           /\ \A x \in QSlot \ {s} : queue'[x] = queue[x]
           /\ queue'[s].used = queue[s].used /\ queue'[s].uid = 0 /\ queue'[s].reason = queue[s].reason
<1>1. PICK e : e = [queue[s] EXCEPT !.uid = 0]
  BY Zenon
<1>2. queue[s] \in QEntry /\ queue' = [queue EXCEPT ![s] = e]
  BY <1>1, Zenon
<1>3. e \in QEntry /\ e.used = queue[s].used /\ e.uid = 0 /\ e.reason = queue[s].reason
  BY <1>1, <1>2, SendAssumption DEF QEntry
<1> QED
  BY <1>2, <1>3, Zenon

(* A task that moves on to another entry.                                 *)
LEMMA SlotMoved ==
    ASSUME TasksOK, NEW t \in Tasks, NEW s, task' = [task EXCEPT ![t].slot = s]
    PROVE  /\ \A q \in Tasks \ {t} : task'[q] = task[q]
           /\ task'[t].pc = task[t].pc /\ task'[t].slot = s /\ task'[t].fresh = task[t].fresh
<1>1. TaskShape(task[t]) /\ DOMAIN task = Tasks
  BY Zenon DEF TasksOK
<1>2. PICK x : x = [task[t] EXCEPT !.slot = s]
  BY Zenon
<1>3. task' = [task EXCEPT ![t] = [task[t] EXCEPT !.slot = s]]
  OBVIOUS
<1>4. x.pc = task[t].pc /\ x.slot = s /\ x.fresh = task[t].fresh
  BY <1>1, <1>2 DEF TaskShape
<1> QED
  BY <1>1, <1>2, <1>3, <1>4, Zenon

(* A parked message that is not sent again leaves the others of the list.  *)
LEMMA ParkedRest ==
    ASSUME TasksOK, NextParkedRow, ~Resends(Head(task["mesh"].todo)), Tail(task["mesh"].todo) # <<>>
    PROVE  /\ \A q \in Tasks \ {"mesh"} : task'[q] = task[q]
           /\ task'["mesh"].pc = task["mesh"].pc /\ task'["mesh"].slot = task["mesh"].slot
           /\ task'["mesh"].fresh = task["mesh"].fresh
<1>1. TaskShape(task["mesh"]) /\ DOMAIN task = Tasks /\ "mesh" \in Tasks
  BY Zenon DEF TasksOK, Tasks
<1>2. PICK x : x = [task["mesh"] EXCEPT !.todo = Tail(task["mesh"].todo)]
  BY Zenon
<1>3. task' = [task EXCEPT !["mesh"] = [task["mesh"] EXCEPT !.todo = Tail(task["mesh"].todo)]]
  BY Zenon DEF NextParkedRow
<1>4. x.pc = task["mesh"].pc /\ x.slot = task["mesh"].slot /\ x.fresh = task["mesh"].fresh
  BY <1>1, <1>2 DEF TaskShape
<1> QED
  BY <1>1, <1>2, <1>3, <1>4, Zenon

(* The record of a worker that has sent an entry.                          *)
LEMMA Tracking ==
    ASSUME NEW k, NEW s, NEW x,
           x = [pc |-> "track", uid |-> 0, fresh |-> FALSE, pkt |-> k, slot |-> s, todo |-> <<>>]
    PROVE  x.pc = "track" /\ x.slot = s /\ ~x.fresh /\ x.pkt = k
OBVIOUS

(* A row is where it is looked for, and is found if it is there.           *)
LEMMA RowFound ==
    ASSUME rows \in Seq(Row), NEW u
    PROVE  \/ RowOf(u) = 0 /\ \A i \in DOMAIN rows : rows[i].uid = u => u = 0
           \/ RowOf(u) \in DOMAIN rows /\ rows[RowOf(u)].uid = u /\ RowOf(u) # 0 /\ u # 0
<1>1. PICK I : I = {i \in DOMAIN rows : rows[i].uid = u}
  BY Zenon
<1>2. I \subseteq 1 .. Len(rows) /\ Len(rows) \in Nat
  BY <1>1
<1>3. CASE u = 0 \/ I = {}
  BY <1>1, <1>3, Zenon DEF RowOf, Newest
<1>4. CASE u # 0 /\ I # {}
  <2>1. RowOf(u) = Max(I)
    BY <1>1, <1>4, Zenon DEF RowOf, Newest
  <2>2. RowOf(u) \in I
    BY <1>2, <1>4, <2>1, GreatestOf, Zenon
  <2>3. RowOf(u) # 0
    BY <1>2, <2>2
  <2> QED
    BY <1>1, <1>4, <2>2, <2>3, Zenon
<1> QED
  BY <1>3, <1>4, Zenon

(* The same for the row of a frame.                                        *)
LEMMA PktFound ==
    ASSUME rows \in Seq(Row), NEW k
    PROVE  RowOfPkt(k) = 0 \/ (RowOfPkt(k) \in DOMAIN rows /\ rows[RowOfPkt(k)].pkt = k /\ k # 0)
<1>1. PICK I : I = {i \in DOMAIN rows : rows[i].pkt = k}
  BY Zenon
<1>2. I \subseteq 1 .. Len(rows) /\ Len(rows) \in Nat
  BY <1>1
<1>3. CASE k = 0 \/ I = {}
  BY <1>1, <1>3, Zenon DEF RowOfPkt, Newest
<1>4. CASE k # 0 /\ I # {}
  <2>1. RowOfPkt(k) = Max(I)
    BY <1>1, <1>4, Zenon DEF RowOfPkt, Newest
  <2>2. RowOfPkt(k) \in I
    BY <1>2, <1>4, <2>1, GreatestOf, Zenon
  <2> QED
    BY <1>1, <1>4, <2>2, Zenon
<1> QED
  BY <1>3, <1>4, Zenon

(* What Settle can make of a status.                                       *)
LEMMA Settled ==
    ASSUME NEW old \in Status, NEW st \in Status
    PROVE  /\ Settle(old, st) \in Status
           /\ old = "QUEUED" /\ st # "DELIVERED" => Settle(old, st) = "QUEUED"
           /\ Settle(old, st) = "DELIVERED" => old = "DELIVERED" \/ st = "DELIVERED"
BY Zenon DEF Settle

(* The rows are the same but for row i's frame and status.                 *)
OneRowSet(new, i, k, st) ==
    /\ new \in Seq(Row)
    /\ DOMAIN new = DOMAIN rows
    /\ \A j \in DOMAIN rows : j # i => new[j] = rows[j]
    /\ i \in DOMAIN rows => new[i].uid = rows[i].uid /\ new[i].pkt = k /\ new[i].status = st

(* One row's frame and status change and no other row does.                *)
LEMMA RowSet ==
    ASSUME rows \in Seq(Row), NEW i \in DOMAIN rows, NEW k \in 0 .. MaxPkt, NEW st \in Status
    PROVE  OneRowSet([rows EXCEPT ![i] = Restamp(@, k, st)], i,
                     IF k # 0 THEN k ELSE rows[i].pkt, Settle(rows[i].status, st))
<1>1. rows[i] \in Row
  OBVIOUS
<1>2. PICK p, q, r : p = (IF k # 0 THEN k ELSE rows[i].pkt) /\ q = Settle(rows[i].status, st) /\ r = Restamp(rows[i], k, st)
  BY Zenon
<1>3. p \in 0 .. MaxPkt /\ q \in Status
  BY <1>1, <1>2, Settled DEF Row
<1>4. r = [uid |-> rows[i].uid, pkt |-> p, status |-> q]
  BY <1>2, Zenon DEF Restamp
<1>5. r \in Row
  BY <1>1, <1>3, <1>4 DEF Row
<1>6. r.uid = rows[i].uid /\ r.pkt = p /\ r.status = q
  BY <1>4
<1>7. PICK new : new = [rows EXCEPT ![i] = r]
  BY Zenon
<1>8. new \in Seq(Row) /\ DOMAIN new = DOMAIN rows /\ new[i] = r
  BY <1>5, <1>7
<1>9. \A j \in DOMAIN rows : j # i => new[j] = rows[j]
  BY <1>7, Zenon
<1>10. OneRowSet(new, i, p, q)
  BY <1>6, <1>8, <1>9, Zenon DEF OneRowSet
<1> QED
  BY <1>2, <1>7, <1>10, Zenon

(* msg_store_update_by_uid: the message's row, if there is one.            *)
LEMMA UidUpdated ==
    ASSUME rows \in Seq(Row), NEW u, NEW k \in 0 .. MaxPkt, NEW st \in Status
    PROVE  \/ RowOf(u) = 0 /\ UpdateByUid(rows, u, k, st) = rows
           \/ /\ RowOf(u) # 0
              /\ OneRowSet(UpdateByUid(rows, u, k, st), RowOf(u),
                           IF k # 0 THEN k ELSE rows[RowOf(u)].pkt, Settle(rows[RowOf(u)].status, st))
<1>1. CASE RowOf(u) = 0
  BY <1>1, Zenon DEF UpdateByUid
<1>2. CASE RowOf(u) # 0
  <2>1. RowOf(u) \in DOMAIN rows
    BY <1>2, RowFound, Zenon
  <2> QED
    BY <1>2, <2>1, RowSet, Zenon DEF UpdateByUid
<1> QED
  BY <1>1, <1>2, Zenon

(* msg_store_update_status: the frame's row, if there is one.              *)
LEMMA PktUpdated ==
    ASSUME rows \in Seq(Row), NEW k, NEW st \in Status
    PROVE  \/ RowOfPkt(k) = 0 /\ UpdateByPkt(rows, k, st) = rows
           \/ /\ RowOfPkt(k) # 0
              /\ OneRowSet(UpdateByPkt(rows, k, st), RowOfPkt(k), k, Settle(rows[RowOfPkt(k)].status, st))
<1>1. CASE RowOfPkt(k) = 0
  BY <1>1, Zenon DEF UpdateByPkt
<1>2. CASE RowOfPkt(k) # 0
  <2>1. RowOfPkt(k) \in DOMAIN rows /\ rows[RowOfPkt(k)].pkt = k
    BY <1>2, PktFound, Zenon
  <2>2. 0 \in 0 .. MaxPkt
    BY SendAssumption
  <2> QED
    BY <1>2, <2>1, <2>2, RowSet, Zenon DEF UpdateByPkt
<1> QED
  BY <1>1, <1>2, Zenon

-----------------------------------------------------------------------------
(* Where a task is does not depend on where the others are.                *)
LEMMA TaskSet ==
    ASSUME TasksOK, NEW t \in Tasks, NEW x, TaskShape(x), task' = [task EXCEPT ![t] = x],
           t = "worker" /\ x.pc \in {"track", "stamp", "free"} => x.slot \in QSlot
    PROVE  TasksOK' /\ task'[t] = x /\ \A q \in Tasks \ {t} : task'[q] = task[q]
<1>1. DOMAIN task = Tasks
  BY Zenon DEF TasksOK
<1>2. task'[t] = x /\ \A q \in Tasks \ {t} : task'[q] = task[q]
  BY <1>1, Zenon
<1>3. DOMAIN task' = Tasks /\ task' = [q \in Tasks |-> task'[q]]
  BY <1>1, Zenon
<1>4. \A q \in Tasks : TaskShape(task'[q])
  BY <1>2, Zenon DEF TasksOK
<1>5. task'["worker"].pc \in {"track", "stamp", "free"} => task'["worker"].slot \in QSlot
  <2>1. CASE t = "worker"
    BY <1>2, <2>1, Zenon
  <2>2. CASE t # "worker"
    <3>1. task'["worker"] = task["worker"]
      BY <1>2, <2>2, Zenon DEF Tasks
    <3> QED
      BY <3>1, Zenon DEF TasksOK
  <2> QED
    BY <2>1, <2>2, Zenon
<1>6. TasksOK'
  BY <1>3, <1>4, <1>5, Zenon DEF TasksOK, TaskShape, Idle, Begin, QSlot
<1> QED
  BY <1>2, <1>6, Zenon

(* A task that goes on takes its record along.                             *)
LEMMA TaskGoes ==
    ASSUME TasksOK, NEW t \in Tasks, NEW pc, pc # "idle", Goto(t, pc),
           t = "worker" /\ pc \in {"track", "stamp", "free"} => task[t].slot \in QSlot
    PROVE  /\ TasksOK'
           /\ \A q \in Tasks \ {t} : task'[q] = task[q]
           /\ task'[t].pc = pc /\ task'[t].uid = task[t].uid /\ task'[t].fresh = task[t].fresh
           /\ task'[t].pkt = task[t].pkt /\ task'[t].slot = task[t].slot /\ task'[t].todo = task[t].todo
<1>1. TaskShape(task[t])
  BY Zenon DEF TasksOK
<1>2. PICK x : x = [task[t] EXCEPT !.pc = pc]
  BY Zenon
<1>3. x = [pc |-> pc, uid |-> task[t].uid, fresh |-> task[t].fresh, pkt |-> task[t].pkt,
           slot |-> task[t].slot, todo |-> task[t].todo]
  BY <1>1, <1>2 DEF TaskShape
<1>4. /\ x.pc = pc /\ x.uid = task[t].uid /\ x.fresh = task[t].fresh
      /\ x.pkt = task[t].pkt /\ x.slot = task[t].slot /\ x.todo = task[t].todo
  BY <1>3
<1>5. TaskShape(x)
  BY <1>1, <1>3, <1>4, Zenon DEF TaskShape
<1>6. task' = [task EXCEPT ![t] = x]
  BY <1>2 DEF Goto
<1>7. TasksOK' /\ task'[t] = x /\ \A q \in Tasks \ {t} : task'[q] = task[q]
  BY <1>4, <1>5, <1>6, TaskSet, Zenon
<1> QED
  BY <1>4, <1>7, Zenon

(* A task that is done with a message is idle or goes on to the next.      *)
LEMMA TaskReturns ==
    ASSUME TasksOK, NEW t \in Tasks \ {"worker"}, Return(t)
    PROVE  /\ TasksOK'
           /\ \A q \in Tasks \ {t} : task'[q] = task[q]
           /\ \/ task'[t] = Idle /\ task[t].slot = 0 /\ task[t].todo = <<>>
              \/ /\ task[t].slot # 0 \/ task[t].todo # <<>>
                 /\ task'[t].pc = (IF task[t].slot # 0 THEN "free" ELSE "parked")
                 /\ task'[t].uid = task[t].uid /\ task'[t].fresh = task[t].fresh
                 /\ task'[t].pkt = task[t].pkt /\ task'[t].slot = task[t].slot /\ task'[t].todo = task[t].todo
<1>1. CASE Caller(t) = "idle"
  <2>1. task' = [task EXCEPT ![t] = Idle]
    BY <1>1, Zenon DEF Return
  <2>2. TaskShape(Idle)
    BY SendAssumption DEF TaskShape, Idle, Begin
  <2>3. task[t].slot = 0 /\ task[t].todo = <<>>
    BY <1>1 DEF Caller
  <2>4. t \in Tasks /\ t # "worker"
    BY Zenon
  <2> QED
    BY <2>1, <2>2, <2>3, <2>4, TaskSet, Zenon
<1>2. CASE Caller(t) # "idle"
  <2>1. Goto(t, Caller(t))
    BY <1>2 DEF Return, Goto
  <2>2. /\ Caller(t) = (IF task[t].slot # 0 THEN "free" ELSE "parked")
        /\ task[t].slot # 0 \/ task[t].todo # <<>>
    BY <1>2, Zenon DEF Caller
  <2>3. t \in Tasks /\ t # "worker"
    BY Zenon
  <2> QED
    BY <1>2, <2>1, <2>2, <2>3, TaskGoes, Zenon
<1> QED
  BY <1>1, <1>2, Zenon

-----------------------------------------------------------------------------
(* Filling an entry leaves the others alone.                               *)
LEMMA Filled ==
    ASSUME queue \in [QSlot -> QEntry], NEW s, NEW u \in 0 .. MaxUid, NEW r \in {"route", "session"}, Fill(s, u, r)
    PROVE  /\ queue' \in [QSlot -> QEntry]
           /\ \A x \in QSlot \ {s} : queue'[x] = queue[x]
           /\ s \in QSlot => queue'[s].used /\ queue'[s].data = u /\ queue'[s].uid = u /\ queue'[s].reason = r
<1>1. PICK e : e = [used |-> TRUE, data |-> u, uid |-> u, reason |-> r]
  BY Zenon
<1>2. e \in QEntry /\ e.used /\ e.data = u /\ e.uid = u /\ e.reason = r
  BY <1>1 DEF QEntry
<1>3. queue' = [queue EXCEPT ![s] = e]
  BY <1>1, Zenon DEF Fill
<1> QED
  BY <1>2, <1>3, Zenon

(* Releasing one too; the worker can still read the uid of the entry it    *)
(* has just sent.                                                          *)
LEMMA Released ==
    ASSUME queue \in [QSlot -> QEntry], NEW s, Release(s)
    PROVE  /\ queue' \in [QSlot -> QEntry]
           /\ \A x \in QSlot \ {s} : queue'[x] = queue[x]
           /\ s \in QSlot => ~queue'[s].used
<1>1. PICK e : e = IF task["worker"].slot = s /\ task["worker"].pc \in {"track", "stamp"}
                   THEN [queue[s] EXCEPT !.used = FALSE] ELSE Empty
  BY Zenon
<1>2. queue' = [queue EXCEPT ![s] = e]
  BY <1>1, Zenon DEF Release
<1>3. s \in QSlot => e \in QEntry /\ ~e.used
  <2>1. ASSUME s \in QSlot PROVE [queue[s] EXCEPT !.used = FALSE] \in QEntry /\ ~[queue[s] EXCEPT !.used = FALSE].used
    <3>1. queue[s] \in QEntry
      BY <2>1, Zenon
    <3> QED
      BY <3>1, Zenon DEF QEntry
  <2>2. Empty \in QEntry /\ ~Empty.used
    BY SendAssumption DEF QEntry, Empty
  <2> QED
    BY <1>1, <2>1, <2>2, Zenon
<1> QED
  BY <1>2, <1>3, Zenon

(* The next entry to drain or flush, if there is one.                      *)
LEMMA NextFound ==
    ASSUME NEW n, NEW r
    PROVE  \/ NextSlot(n, r) = 0 /\ \A x \in QSlot : queue[x].used /\ x >= n => queue[x].reason # r
           \/ /\ NextSlot(n, r) # 0 /\ NextSlot(n, r) \in QSlot /\ NextSlot(n, r) >= n
              /\ queue[NextSlot(n, r)].used /\ queue[NextSlot(n, r)].reason = r
              /\ \A x \in QSlot : queue[x].used /\ queue[x].reason = r /\ x >= n => x >= NextSlot(n, r)
<1>1. PICK S : S = {t \in InUse : t >= n /\ queue[t].reason = r}
  BY Zenon
<1>2. NextSlot(n, r) = IF S = {} THEN 0 ELSE Min(S)
  BY <1>1, Zenon DEF NextSlot, First
<1>3. CASE S = {}
  BY <1>1, <1>2, <1>3, Zenon DEF InUse
<1>4. CASE S # {}
  <2>1. S \subseteq QSlot
    BY <1>1, Zenon DEF InUse
  <2>2. S \subseteq Nat
    BY <2>1, SendAssumption DEF QSlot
  <2>3. NextSlot(n, r) \in S /\ \A x \in S : NextSlot(n, r) <= x
    BY <1>2, <1>4, <2>2, LeastOf, Zenon
  <2>4. NextSlot(n, r) # 0
    BY <2>1, <2>3, SendAssumption DEF QSlot
  <2>5. PICK m : m = NextSlot(n, r)
    BY Zenon
  <2>6. m \in QSlot /\ queue[m].used /\ m >= n /\ queue[m].reason = r
    BY <1>1, <2>3, <2>5, Zenon DEF InUse
  <2>7. ASSUME NEW x \in QSlot, queue[x].used /\ queue[x].reason = r /\ x >= n PROVE x >= m
    <3>1. m <= x
      BY <1>1, <2>3, <2>5, <2>7, Zenon DEF InUse
    <3> QED
      BY <3>1
  <2> QED
    BY <2>4, <2>5, <2>6, <2>7, Zenon
<1> QED
  BY <1>3, <1>4, Zenon

(* The packet id of a new frame has carried nothing.                       *)
LEMMA NextFresh ==
    ASSUME FreshPkts # {}
    PROVE  NextPkt \in Pkt /\ frame[NextPkt] = 0
<1>1. FreshPkts \subseteq Nat
  BY SendAssumption DEF FreshPkts, Pkt
<1>2. NextPkt \in FreshPkts
  BY <1>1, LeastOf, Zenon DEF NextPkt
<1> QED
  BY <1>2, Zenon DEF FreshPkts

(* A step that changes no row but in its status, and delivers none.        *)
RowsKept ==
    /\ rows' \in Seq(Row)
    /\ DOMAIN rows' = DOMAIN rows
    /\ \A i \in DOMAIN rows :
          /\ rows'[i].uid = rows[i].uid /\ rows'[i].pkt = rows[i].pkt
          /\ rows'[i].status = "DELIVERED" => rows[i].status = "DELIVERED"

(* A step that leaves every parked row parked.                             *)
StayParked == \A i \in DOMAIN rows : rows[i].status = "QUEUED" => rows'[i].status = "QUEUED"

(* A row's status after a step that set one row.                           *)
LEMMA SetKept ==
    ASSUME rows \in Seq(Row), NEW i \in DOMAIN rows, NEW st \in Status, st # "DELIVERED",
           OneRowSet(rows', i, rows[i].pkt, Settle(rows[i].status, st))
    PROVE  RowsKept /\ StayParked
<1>1. rows[i].status \in Status
  <2>1. rows[i] \in Row
    OBVIOUS
  <2> QED
    BY <2>1 DEF Row
<1> QED
  BY <1>1, Settled, Zenon DEF OneRowSet, RowsKept, StayParked

(* Failing or parking a message.                                           *)
LEMMA UidKept ==
    ASSUME rows \in Seq(Row), NEW u, NEW st \in Status, st # "DELIVERED", rows' = UpdateByUid(rows, u, 0, st)
    PROVE  RowsKept /\ StayParked
<1>1. 0 \in 0 .. MaxPkt
  BY SendAssumption
<1>2. CASE RowOf(u) = 0
  BY <1>1, <1>2, UidUpdated, Zenon DEF RowsKept, StayParked
<1>3. CASE RowOf(u) # 0
  <2>1. RowOf(u) \in DOMAIN rows
    BY <1>3, RowFound, Zenon
  <2>2. OneRowSet(rows', RowOf(u), rows[RowOf(u)].pkt, Settle(rows[RowOf(u)].status, st))
    BY <1>1, <1>3, UidUpdated, Zenon
  <2> QED
    BY <2>1, <2>2, SetKept, Zenon
<1> QED
  BY <1>2, <1>3, Zenon

(* A failed send.                                                          *)
LEMMA FailedKept ==
    ASSUME rows \in Seq(Row), NEW u, Failed(u)
    PROVE  RowsKept /\ StayParked
BY UidKept, Zenon DEF Failed, Status

(* A frame that is given up.                                               *)
LEMMA PktKept ==
    ASSUME rows \in Seq(Row), NEW k, rows' = UpdateByPkt(rows, k, "FAILED")
    PROVE  RowsKept /\ StayParked
<1>1. "FAILED" \in Status /\ "FAILED" # "DELIVERED"
  BY Zenon DEF Status
<1>2. CASE RowOfPkt(k) = 0
  BY <1>1, <1>2, PktUpdated, Zenon DEF RowsKept, StayParked
<1>3. CASE RowOfPkt(k) # 0
  <2>1. RowOfPkt(k) \in DOMAIN rows /\ rows[RowOfPkt(k)].pkt = k
    BY <1>3, PktFound, Zenon
  <2>2. OneRowSet(rows', RowOfPkt(k), rows[RowOfPkt(k)].pkt, Settle(rows[RowOfPkt(k)].status, "FAILED"))
    BY <1>1, <1>3, <2>1, PktUpdated, Zenon
  <2> QED
    BY <1>1, <2>1, <2>2, SetKept, Zenon
<1> QED
  BY <1>2, <1>3, Zenon

(* A new row goes to the end.                                              *)
LEMMA RowAdded ==
    ASSUME rows \in Seq(Row), NEW u \in 0 .. MaxUid, NEW k \in 0 .. MaxPkt, NEW st \in Status,
           rows' = Added(rows, u, k, st)
    PROVE  /\ rows' \in Seq(Row)
           /\ DOMAIN rows' = DOMAIN rows \cup {Len(rows) + 1} /\ Len(rows) + 1 \notin DOMAIN rows
           /\ \A i \in DOMAIN rows : rows'[i] = rows[i]
           /\ rows'[Len(rows) + 1].uid = u /\ rows'[Len(rows) + 1].pkt = k /\ rows'[Len(rows) + 1].status = st
           /\ StayParked
<1>1. PICK r : r = [uid |-> u, pkt |-> k, status |-> st]
  BY Zenon
<1>2. r \in Row /\ r.uid = u /\ r.pkt = k /\ r.status = st
  BY <1>1 DEF Row
<1>3. rows' = Append(rows, r)
  BY <1>1, Zenon DEF Added
<1>4. /\ rows' \in Seq(Row)
      /\ DOMAIN rows' = DOMAIN rows \cup {Len(rows) + 1} /\ Len(rows) + 1 \notin DOMAIN rows
      /\ \A i \in DOMAIN rows : rows'[i] = rows[i]
      /\ rows'[Len(rows) + 1] = r
  BY <1>2, <1>3
<1> QED
  BY <1>2, <1>4, Zenon DEF StayParked

(* The row of a message just sent, which may be new.                       *)
LEMMA RowReconciled ==
    ASSUME rows \in Seq(Row), NEW u \in 0 .. MaxUid, NEW k \in 0 .. MaxPkt, rows' = Reconciled(rows, u, k)
    PROVE  /\ rows' \in Seq(Row)
           /\ StayParked
           /\ \/ /\ RowOf(u) # 0
                 /\ OneRowSet(rows', RowOf(u), IF k # 0 THEN k ELSE rows[RowOf(u)].pkt,
                              Settle(rows[RowOf(u)].status, "SENT"))
              \/ RowOf(u) = 0 /\ rows' = Added(rows, u, k, "SENT")
<1>1. "SENT" \in Status /\ "SENT" # "DELIVERED"
  BY Zenon DEF Status
<1>2. CASE RowOf(u) = 0
  <2>1. rows' = Added(rows, u, k, "SENT")
    BY <1>2, Zenon DEF Reconciled
  <2> QED
    BY <1>1, <1>2, <2>1, RowAdded, Zenon
<1>3. CASE RowOf(u) # 0
  <2>1. rows' = UpdateByUid(rows, u, k, "SENT")
    BY <1>3, Zenon DEF Reconciled
  <2>2. OneRowSet(rows', RowOf(u), IF k # 0 THEN k ELSE rows[RowOf(u)].pkt, Settle(rows[RowOf(u)].status, "SENT"))
    BY <1>1, <1>3, <2>1, UidUpdated, Zenon
  <2>3. RowOf(u) \in DOMAIN rows
    BY <1>3, RowFound, Zenon
  <2>4. rows[RowOf(u)].status \in Status
    <3>1. rows[RowOf(u)] \in Row
      BY <2>3
    <3> QED
      BY <3>1 DEF Row
  <2>5. StayParked
    BY <1>1, <2>2, <2>3, <2>4, Settled, Zenon DEF OneRowSet, StayParked
  <2>6. rows' \in Seq(Row)
    BY <2>2, Zenon DEF OneRowSet
  <2> QED
    BY <1>3, <2>2, <2>5, <2>6, Zenon
<1> QED
  BY <1>2, <1>3, Zenon

(* Cancel and the park window.                                             *)
LEMMA Unparked ==
    ASSUME rows \in Seq(Row), NEW i \in DOMAIN rows, rows' = [rows EXCEPT ![i].status = "FAILED"]
    PROVE  RowsKept /\ \A j \in DOMAIN rows \ {i} : rows'[j] = rows[j]
<1>1. rows[i] \in Row
  OBVIOUS
<1>2. PICK r : r = [rows[i] EXCEPT !.status = "FAILED"]
  BY Zenon
<1>3. r \in Row /\ r.uid = rows[i].uid /\ r.pkt = rows[i].pkt /\ r.status = "FAILED"
  BY <1>1, <1>2, Zenon DEF Row, Status
<1>4. rows' = [rows EXCEPT ![i] = r]
  BY <1>2
<1>5. rows' \in Seq(Row) /\ DOMAIN rows' = DOMAIN rows /\ rows'[i] = r
  BY <1>3, <1>4
<1>6. \A j \in DOMAIN rows \ {i} : rows'[j] = rows[j]
  BY <1>4, Zenon
<1> QED
  BY <1>3, <1>5, <1>6, Zenon DEF RowsKept

(* A broken route fails the rows of its frames.                            *)
LEMMA RouteFails ==
    ASSUME rows \in Seq(Row), NEW rerr \in BOOLEAN, RouteLost(rerr)
    PROVE  RowsKept /\ StayParked
<1>1. CASE rows' = rows
  BY <1>1, Zenon DEF RowsKept, StayParked
<1>2. CASE rows' # rows
  <2>1. DOMAIN rows' = DOMAIN rows
    BY <1>2, Zenon DEF RouteLost
  <2>2. ASSUME NEW i \in DOMAIN rows
        PROVE  /\ rows'[i] \in Row /\ rows'[i].uid = rows[i].uid /\ rows'[i].pkt = rows[i].pkt
               /\ rows'[i].status = "DELIVERED" => rows[i].status = "DELIVERED"
               /\ rows[i].status = "QUEUED" => rows'[i].status = "QUEUED"
    <3>1. rows[i] \in Row
      OBVIOUS
    <3>2. PICK st : st = Settle(rows[i].status, "FAILED")
      BY Zenon
    <3>3. rows[i].status \in Status
      BY <3>1 DEF Row
    <3>4. "FAILED" \in Status /\ "FAILED" # "DELIVERED"
      BY Zenon DEF Status
    <3>5. /\ st \in Status
          /\ st = "DELIVERED" => rows[i].status = "DELIVERED"
          /\ rows[i].status = "QUEUED" => st = "QUEUED"
      BY <3>2, <3>3, <3>4, Settled, Zenon
    <3>6. rows'[i] = rows[i] \/ rows'[i] = [rows[i] EXCEPT !.status = st]
      BY <1>2, <3>2, Zenon DEF RouteLost
    <3>7. PICK r : r = [rows[i] EXCEPT !.status = st]
      BY Zenon
    <3>8. r \in Row /\ r.uid = rows[i].uid /\ r.pkt = rows[i].pkt /\ r.status = st
      BY <3>1, <3>5, <3>7, Zenon DEF Row
    <3> QED
      BY <3>1, <3>5, <3>6, <3>7, <3>8, Zenon
  <2>3. rows' \in Seq(Row)
    <3>1. Len(rows) \in Nat /\ DOMAIN rows = 1 .. Len(rows)
      OBVIOUS
    <3>2. rows' = [i \in DOMAIN rows |-> rows'[i]]
      BY <1>2, Zenon DEF RouteLost
    <3>3. rows' \in [1 .. Len(rows) -> Row]
      BY <2>2, <3>1, <3>2, Zenon
    <3> QED
      BY <3>1, <3>3, SMT
  <2> QED
    BY <2>1, <2>2, <2>3, Zenon DEF RowsKept, StayParked
<1> QED
  BY <1>1, <1>2, Zenon

(* A task that has sent a frame remembers which.                           *)
LEMMA TaskSends ==
    ASSUME TasksOK, NEW t \in Tasks \ {"worker"}, SendUnderSession(t)
    PROVE  /\ TasksOK'
           /\ \A q \in Tasks \ {t} : task'[q] = task[q]
           /\ task'[t].pc = "track" /\ task'[t].uid = task[t].uid /\ task'[t].fresh = task[t].fresh
           /\ task'[t].pkt = NextPkt /\ task'[t].slot = task[t].slot /\ task'[t].todo = task[t].todo
<1>1. t \in Tasks /\ t # "worker"
  BY Zenon
<1>2. TaskShape(task[t])
  BY <1>1, Zenon DEF TasksOK
<1>3. NextPkt \in 0 .. MaxPkt
  <2>1. NextPkt \in Pkt
    BY NextFresh, Zenon DEF SendUnderSession, Transmit
  <2> QED
    BY <2>1, SendAssumption DEF Pkt
<1>4. PICK x : x = [task[t] EXCEPT !.pc = "track", !.pkt = NextPkt]
  BY Zenon
<1>5. task' = [task EXCEPT ![t] = x]
  BY <1>4, Zenon DEF SendUnderSession
<1>6. x = [pc |-> "track", uid |-> task[t].uid, fresh |-> task[t].fresh, pkt |-> NextPkt,
           slot |-> task[t].slot, todo |-> task[t].todo]
  BY <1>2, <1>4, Zenon DEF TaskShape
<1>7. /\ x.pc = "track" /\ x.uid = task[t].uid /\ x.fresh = task[t].fresh
      /\ x.pkt = NextPkt /\ x.slot = task[t].slot /\ x.todo = task[t].todo
  BY <1>6
<1>8. TaskShape(x)
  BY <1>2, <1>3, <1>6, <1>7, Zenon DEF TaskShape
<1>9. TasksOK' /\ task'[t] = x /\ \A q \in Tasks \ {t} : task'[q] = task[q]
  BY <1>1, <1>5, <1>8, TaskSet, Zenon
<1> QED
  BY <1>7, <1>9, Zenon

-----------------------------------------------------------------------------
(* Every step keeps the types, and one that is not a door of ParkedIsSticky *)
(* keeps the parked rows parked.                                           *)
LEMMA PipelineTyped ==
    ASSUME SendTypeOK, NEW t \in Tasks \ {"worker"}, Pipeline(t)
    PROVE  SendTypeOK' /\ StayParked
<1>1. t \in Tasks /\ t # "worker" /\ TasksOK /\ rows \in Seq(Row) /\ queue \in [QSlot -> QEntry]
  BY Zenon DEF SendTypeOK
<1>2. TaskShape(task[t])
  BY <1>1, Zenon DEF TasksOK
<1>3. task[t].uid \in 0 .. MaxUid /\ task[t].pkt \in 0 .. MaxPkt
  BY <1>2, Zenon DEF TaskShape
<1>4. rows' = rows => StayParked
  BY Zenon DEF StayParked
<1>5. CASE RouteLookup(t)
  <2>1. Goto(t, IF route THEN "session" ELSE "queueRoute")
    BY <1>5, Zenon DEF RouteLookup
  <2>2. TasksOK'
    BY <1>1, <2>1, TaskGoes, Zenon
  <2> QED
    BY <1>4, <1>5, <2>2, Zenon DEF SendTypeOK, RouteLookup, link
<1>6. CASE QueueMessage(t)
  <2>1. CASE rows' = rows /\ queue' = queue /\ Return(t)
    BY <1>1, <1>4, <1>6, <2>1, TaskReturns, Zenon DEF SendTypeOK, QueueMessage, link
  <2>2. CASE /\ Fill(FirstFree, task[t].uid, "route") /\ rows' = rows
             /\ IF task[t].fresh THEN Goto(t, "addRow") ELSE Return(t)
    <3>1. queue' \in [QSlot -> QEntry]
      BY <1>1, <1>3, <2>2, Filled, Zenon
    <3>2. TasksOK'
      BY <1>1, <2>2, TaskGoes, TaskReturns, Zenon
    <3> QED
      BY <1>4, <1>6, <2>2, <3>1, <3>2, Zenon DEF SendTypeOK, QueueMessage, link
  <2>3. CASE Failed(task[t].uid) /\ Return(t) /\ queue' = queue
    <3>1. RowsKept /\ StayParked
      BY <1>1, <2>3, FailedKept, Zenon
    <3> QED
      BY <1>1, <1>6, <2>3, <3>1, TaskReturns, Zenon DEF SendTypeOK, QueueMessage, link, RowsKept
  <2> QED
    BY <1>6, <2>1, <2>2, <2>3, Zenon DEF QueueMessage
<1>7. CASE AddRow(t)
  <2>1. rows' \in Seq(Row) /\ StayParked
    <3>1. "NONE" \in Status /\ 0 \in 0 .. MaxPkt
      BY SendAssumption DEF Status
    <3> QED
      BY <1>1, <1>3, <1>7, <3>1, RowAdded, Zenon DEF AddRow
  <2> QED
    BY <1>1, <1>7, <2>1, TaskReturns, Zenon DEF SendTypeOK, AddRow, link
<1>8. CASE SendUnderSession(t)
  <2>1. NextPkt \in Pkt
    BY <1>8, NextFresh, Zenon DEF SendUnderSession, Transmit
  <2>2. frame' \in [Pkt -> 0 .. MaxUid] /\ air' \subseteq Pkt
    BY <1>3, <1>8, <2>1, Zenon DEF SendUnderSession, Transmit, SendTypeOK
  <2>3. TasksOK'
    BY <1>1, <1>8, TaskSends, Zenon
  <2> QED
    BY <1>4, <1>8, <2>2, <2>3, Zenon DEF SendTypeOK, SendUnderSession, Transmit
<1>9. CASE SendRefused(t)
  <2>1. RowsKept /\ StayParked
    BY <1>1, <1>9, FailedKept, Zenon DEF SendRefused
  <2> QED
    BY <1>1, <1>9, <2>1, TaskReturns, Zenon DEF SendTypeOK, SendRefused, link, RowsKept
<1>10. CASE SessionLookup(t)
  <2>1. TasksOK'
    BY <1>1, <1>10, TaskGoes, Zenon DEF SessionLookup
  <2> QED
    BY <1>4, <1>10, <2>1, Zenon DEF SendTypeOK, SessionLookup, link
<1>11. CASE QueueSessionMessage(t)
  <2>1. TasksOK'
    BY <1>1, <1>11, TaskGoes, TaskReturns, Zenon DEF QueueSessionMessage
  <2>2. queue' \in [QSlot -> QEntry]
    BY <1>1, <1>3, <1>11, Filled, Zenon DEF QueueSessionMessage
  <2>3. rows' \in Seq(Row) /\ StayParked
    <3>1. rows' = rows \/ \E u : Failed(u)
      BY <1>11, Zenon DEF QueueSessionMessage
    <3> QED
      BY <1>1, <1>4, <3>1, FailedKept, Zenon DEF RowsKept
  <2> QED
    BY <1>11, <2>1, <2>2, <2>3, Zenon DEF SendTypeOK, QueueSessionMessage, link
<1>12. CASE Track(t)
  <2>1. TasksOK'
    BY <1>1, <1>12, TaskGoes, Zenon DEF Track
  <2>2. 0 \in 0 .. Inactive
    BY SendAssumption DEF Inactive
  <2>3. pending' \in [Pkt -> 0 .. Inactive]
    BY <1>12, <2>2, Zenon DEF SendTypeOK, Track
  <2> QED
    BY <1>4, <1>12, <2>1, <2>3, Zenon DEF SendTypeOK, Track, link
<1>13. CASE Stamp(t)
  <2>1. rows' \in Seq(Row) /\ StayParked
    BY <1>1, <1>3, <1>13, RowReconciled, Zenon DEF Stamp
  <2> QED
    BY <1>1, <1>13, <2>1, TaskReturns, Zenon DEF SendTypeOK, Stamp, link
<1> QED
  BY <1>5, <1>6, <1>7, <1>8, <1>9, <1>10, <1>11, <1>12, <1>13, Zenon DEF Pipeline

(* A task that starts, and nothing else of the tasks changes.              *)
Began(t, pc, u, f, s, d) ==
    /\ \A q \in Tasks \ {t} : task'[q] = task[q]
    /\ task'[t].pc = pc /\ task'[t].uid = u /\ task'[t].fresh = f
    /\ task'[t].pkt = 0 /\ task'[t].slot = s /\ task'[t].todo = d

(* Its record is the idle one but for a few fields.                        *)
LEMMA TaskStarts ==
    ASSUME TasksOK, NEW t \in Tasks, NEW pc, pc \notin {"idle", "track", "stamp", "free"}, NEW u \in 0 .. MaxUid,
           NEW f \in BOOLEAN, NEW s \in Nat, NEW d,
           task' = [task EXCEPT ![t] = Begin(pc, u, f, s, d)]
    PROVE  TasksOK' /\ Began(t, pc, u, f, s, d)
<1>1. PICK x : x = Begin(pc, u, f, s, d)
  BY Zenon
<1>2. x.pc = pc /\ x.uid = u /\ x.fresh = f /\ x.pkt = 0 /\ x.slot = s /\ x.todo = d
  BY <1>1 DEF Begin
<1>3. 0 \in 0 .. MaxPkt
  BY SendAssumption
<1>4. TaskShape(x)
  BY <1>1, <1>2, <1>3, Zenon DEF TaskShape, Begin
<1>5. TasksOK' /\ task'[t] = x /\ \A q \in Tasks \ {t} : task'[q] = task[q]
  BY <1>1, <1>2, <1>4, TaskSet, Zenon
<1> QED
  BY <1>2, <1>5, Zenon DEF Began

(* And one that stops.                                                     *)
LEMMA TaskStops ==
    ASSUME TasksOK, NEW t \in Tasks, task' = [task EXCEPT ![t] = Idle]
    PROVE  TasksOK' /\ task'[t] = Idle /\ \A q \in Tasks \ {t} : task'[q] = task[q]
<1>1. TaskShape(Idle) /\ Idle.pc = "idle"
  BY SendAssumption DEF TaskShape, Idle, Begin
<1> QED
  BY <1>1, TaskSet, Zenon

(* The user's steps.                                                       *)
LEMMA UserTyped ==
    ASSUME SendTypeOK, Write \/ ParkRow \/ \E u \in Uid : ParkCheck(u) \/ Retry(u)
    PROVE  SendTypeOK' /\ StayParked
<1>1. TasksOK /\ rows \in Seq(Row) /\ "user" \in Tasks
  BY Zenon DEF SendTypeOK, Tasks
<1>2. rows' = rows => StayParked
  BY Zenon DEF StayParked
<1>3. 0 \in Nat /\ Uid \subseteq 0 .. MaxUid
  BY SendAssumption DEF Uid
<1>4. CASE Write
  <2>1. written + 1 \in 0 .. MaxUid
    BY <1>4, SendAssumption DEF Write, SendTypeOK
  <2>2. task' = [task EXCEPT !["user"] = Begin("send", written + 1, TRUE, 0, <<>>)]
    BY <1>4, Zenon DEF Write
  <2>3. TasksOK'
    BY <1>1, <1>3, <2>1, <2>2, TaskStarts, Zenon
  <2> QED
    BY <1>2, <1>4, <2>1, <2>3, Zenon DEF SendTypeOK, Write, link
<1>5. CASE ParkRow
  <2>1. RowsKept /\ StayParked
    <3>1. "QUEUED" \in Status /\ "QUEUED" # "DELIVERED"
      BY Zenon DEF Status
    <3> QED
      BY <1>1, <1>5, <3>1, UidKept, Zenon DEF ParkRow
  <2>2. TasksOK'
    BY <1>1, <1>5, TaskStops, Zenon DEF ParkRow
  <2> QED
    BY <1>5, <2>1, <2>2, Zenon DEF SendTypeOK, ParkRow, link, RowsKept
<1>6. ASSUME NEW u \in Uid, ParkCheck(u) \/ Retry(u) PROVE SendTypeOK' /\ StayParked
  <2>1. PICK pc \in {"park", "send"} :
           task' = [task EXCEPT !["user"] = Begin(pc, u, FALSE, 0, <<>>)]
    BY <1>6, Zenon DEF ParkCheck, Retry
  <2>2. TasksOK'
    BY <1>1, <1>3, <2>1, TaskStarts, Zenon
  <2> QED
    BY <1>2, <1>6, <2>2, Zenon DEF SendTypeOK, ParkCheck, Retry, link
<1> QED
  BY <1>4, <1>5, <1>6, Zenon

(* The mesh task's drain of the route queue and its flush of parked rows.  *)
LEMMA MeshTyped ==
    ASSUME SendTypeOK, Drain \/ Drained("mesh") \/ NextParkedRow \/ HandleRrep \/ FlushParked
    PROVE  SendTypeOK' /\ StayParked
<1>1. TasksOK /\ rows \in Seq(Row) /\ queue \in [QSlot -> QEntry] /\ "mesh" \in Tasks
  BY Zenon DEF SendTypeOK, Tasks
<1>2. StayParked
  BY Zenon DEF StayParked, Drain, Drained, NextParkedRow, HandleRrep, FlushParked
<1>3. 0 \in Nat /\ 1 \in Nat /\ 0 \in 0 .. MaxUid
  BY SendAssumption
<1>4. TaskShape(task["mesh"])
  BY <1>1, Zenon DEF TasksOK
<1>5. CASE Drain
  <2>1. PICK s : s = NextSlot(task["mesh"].slot, "route")
    BY Zenon
  <2>2. CASE s = 0
    BY <1>1, <1>2, <1>5, <2>1, <2>2, TaskStops, Zenon DEF SendTypeOK, Drain, link
  <2>3. CASE s # 0
    <3>1. s \in QSlot
      BY <2>1, <2>3, NextFound, Zenon
    <3>2. s \in Nat /\ queue[s].uid \in 0 .. MaxUid
      BY <1>1, <3>1, SendAssumption DEF QSlot, QEntry
    <3>3. task' = [task EXCEPT !["mesh"] = Begin("send", queue[s].uid, FALSE, s, <<>>)]
      BY <1>5, <2>1, <2>3, Zenon DEF Drain
    <3>4. TasksOK'
      BY <1>1, <3>2, <3>3, TaskStarts, Zenon
    <3>5. queue' \in [QSlot -> QEntry]
      <4>1. [queue[s] EXCEPT !.uid = 0] \in QEntry
        BY <1>1, <1>3, <3>1, Zenon DEF QEntry
      <4>2. queue' = [queue EXCEPT ![s] = [queue[s] EXCEPT !.uid = 0]]
        BY <1>5, <2>1, <2>3 DEF Drain
      <4> QED
        BY <1>1, <4>1, <4>2, Zenon
    <3> QED
      BY <1>2, <1>5, <3>4, <3>5, Zenon DEF SendTypeOK, Drain, link
  <2> QED
    BY <2>2, <2>3, Zenon
<1>6. CASE Drained("mesh")
  <2>1. queue' \in [QSlot -> QEntry]
    BY <1>1, <1>6, Released, Zenon DEF Drained
  <2>2. PICK s : s = task["mesh"].slot + 1
    BY Zenon
  <2>3. s \in Nat
    BY <1>4, <2>2 DEF TaskShape
  <2>4. task' = [task EXCEPT !["mesh"] = Begin("drain", 0, FALSE, s, <<>>)]
    BY <1>6, <2>2, Zenon DEF Drained
  <2>5. TasksOK'
    BY <1>1, <1>3, <2>3, <2>4, TaskStarts, Zenon
  <2> QED
    BY <1>2, <1>6, <2>1, <2>5, Zenon DEF SendTypeOK, Drained, link
<1>7. CASE NextParkedRow
  <2>1. PICK u, d : u = Head(task["mesh"].todo) /\ d = Tail(task["mesh"].todo)
    BY Zenon
  <2>2. CASE Resends(u)
    <3>1. RowOf(u) \in DOMAIN rows /\ rows[RowOf(u)].uid = u
      BY <1>1, <2>2, RowFound, Zenon DEF Resends
    <3>2. u \in 0 .. MaxUid
      <4>1. PICK i \in DOMAIN rows : rows[i].uid = u
        BY <3>1, Zenon
      <4>2. rows[i] \in Row
        BY <1>1
      <4> QED
        BY <4>1, <4>2 DEF Row
    <3>3. task' = [task EXCEPT !["mesh"] = Begin("send", u, FALSE, 0, d)]
      BY <1>7, <2>1, <2>2, Zenon DEF NextParkedRow
    <3>4. TasksOK'
      BY <1>1, <1>3, <3>2, <3>3, TaskStarts, Zenon
    <3> QED
      BY <1>2, <1>7, <3>4, Zenon DEF SendTypeOK, NextParkedRow, link
  <2>3. CASE ~Resends(u) /\ d = <<>>
    <3>1. task' = [task EXCEPT !["mesh"] = Idle]
      BY <1>7, <2>1, <2>3, Zenon DEF NextParkedRow
    <3>2. TasksOK'
      BY <1>1, <3>1, TaskStops, Zenon
    <3> QED
      BY <1>2, <1>7, <3>2, Zenon DEF SendTypeOK, NextParkedRow, link
  <2>4. CASE ~Resends(u) /\ d # <<>>
    <3>1. PICK x : x = [task["mesh"] EXCEPT !.todo = d]
      BY Zenon
    <3>2. x = [pc |-> task["mesh"].pc, uid |-> task["mesh"].uid, fresh |-> task["mesh"].fresh,
               pkt |-> task["mesh"].pkt, slot |-> task["mesh"].slot, todo |-> d]
      BY <1>4, <3>1 DEF TaskShape
    <3>3. x.pc = "parked"
      BY <1>7, <3>2 DEF NextParkedRow, At
    <3>4. TaskShape(x)
      BY <1>4, <3>2, <3>3 DEF TaskShape
    <3>5. task' = [task EXCEPT !["mesh"] = x]
      BY <1>7, <2>1, <2>4, <3>1 DEF NextParkedRow
    <3>6. TasksOK'
      BY <1>1, <3>3, <3>4, <3>5, TaskSet, Zenon
    <3> QED
      BY <1>2, <1>7, <3>6, Zenon DEF SendTypeOK, NextParkedRow, link
  <2> QED
    BY <2>2, <2>3, <2>4, Zenon
<1>8. CASE HandleRrep
  <2>1. task' = [task EXCEPT !["mesh"] = Begin("drain", 0, FALSE, 1, <<>>)]
    BY <1>8, Zenon DEF HandleRrep
  <2>2. TasksOK'
    BY <1>1, <1>3, <2>1, TaskStarts, Zenon
  <2> QED
    BY <1>2, <1>8, <2>2, Zenon DEF SendTypeOK, HandleRrep, link
<1>9. CASE FlushParked
  <2>1. PICK d : task' = [task EXCEPT !["mesh"] = Begin("parked", 0, FALSE, 0, d)]
    BY <1>9, Zenon DEF FlushParked
  <2>2. TasksOK'
    BY <1>1, <1>3, <2>1, TaskStarts, Zenon
  <2> QED
    BY <1>2, <1>9, <2>2, Zenon DEF SendTypeOK, FlushParked, link
<1> QED
  BY <1>5, <1>6, <1>7, <1>8, <1>9, Zenon

(* Timers and answers.                                                     *)
LEMMA TimerTyped ==
    ASSUME SendTypeOK, \/ \E k \in Pkt : RetryTick(k)
                       \/ \E rerr \in BOOLEAN : RouteLost(rerr)
                       \/ \E s \in QSlot : ExpireQueued(s)
    PROVE  SendTypeOK' /\ StayParked
<1>1. rows \in Seq(Row) /\ queue \in [QSlot -> QEntry] /\ pending \in [Pkt -> 0 .. Inactive]
  BY Zenon DEF SendTypeOK
<1>2. Inactive \in 0 .. Inactive /\ \A n \in 0 .. Inactive : n < MaxAttempts => n + 1 \in 0 .. Inactive
  BY SendAssumption DEF Inactive
<1>3. ASSUME TasksOK, task' = task PROVE TasksOK'
  BY <1>3, Zenon DEF TasksOK, TaskShape, QSlot, Idle, Begin
<1>4. ASSUME NEW k \in Pkt, RetryTick(k) PROVE SendTypeOK' /\ StayParked
  <2>1. rows' \in Seq(Row) /\ StayParked
    <3>1. CASE rows' = rows
      BY <1>1, <3>1, Zenon DEF StayParked
    <3>2. CASE rows' = UpdateByPkt(rows, k, "FAILED")
      BY <1>1, <3>2, PktKept, Zenon DEF RowsKept
    <3> QED
      BY <1>4, <3>1, <3>2, Zenon DEF RetryTick
  <2>2. pending' \in [Pkt -> 0 .. Inactive]
    <3>1. PICK n \in 0 .. Inactive : pending' = [pending EXCEPT ![k] = n]
      BY <1>1, <1>2, <1>4, Zenon DEF RetryTick
    <3> QED
      BY <1>1, <3>1, Zenon
  <2>3. air' \subseteq Pkt
    BY <1>4, Zenon DEF RetryTick, SendTypeOK
  <2> QED
    BY <1>3, <1>4, <2>1, <2>2, <2>3, Zenon DEF SendTypeOK, RetryTick
<1>5. ASSUME NEW rerr \in BOOLEAN, RouteLost(rerr) PROVE SendTypeOK' /\ StayParked
  <2>1. rows' \in Seq(Row) /\ StayParked
    BY <1>1, <1>5, RouteFails, Zenon DEF RowsKept
  <2>2. pending' \in [Pkt -> 0 .. Inactive]
    BY <1>1, <1>2, <1>5, Zenon DEF RouteLost
  <2> QED
    BY <1>3, <1>5, <2>1, <2>2, Zenon DEF SendTypeOK, RouteLost, link
<1>6. ASSUME NEW s \in QSlot, ExpireQueued(s) PROVE SendTypeOK' /\ StayParked
  <2>1. rows' \in Seq(Row) /\ StayParked
    BY <1>1, <1>6, FailedKept, Zenon DEF ExpireQueued, RowsKept
  <2>2. queue' \in [QSlot -> QEntry]
    BY <1>1, <1>6, Released, Zenon DEF ExpireQueued
  <2> QED
    BY <1>3, <1>6, <2>1, <2>2, Zenon DEF SendTypeOK, ExpireQueued, link
<1> QED
  BY <1>4, <1>5, <1>6, Zenon

(* The three doors out of QUEUED.                                          *)
LEMMA DoorTyped ==
    ASSUME SendTypeOK, \/ \E k \in Pkt : HandleAck(k)
                       \/ \E u \in Uid : Cancel(u)
                       \/ \E i \in DOMAIN rows : ExpireParked(i)
    PROVE  /\ SendTypeOK'
           /\ \A i \in DOMAIN rows : rows[i].status = "QUEUED" /\ rows'[i].status # "QUEUED" =>
                \/ rows'[i].status = "DELIVERED" /\ \E k \in Pkt : HandleAck(k)
                \/ \E u \in Uid : Cancel(u)
                \/ ExpireParked(i)
<1>1. rows \in Seq(Row)
  BY Zenon DEF SendTypeOK
<1>2. ASSUME TasksOK, task' = task PROVE TasksOK'
  BY <1>2, Zenon DEF TasksOK, TaskShape, QSlot, Idle, Begin
<1>3. ASSUME NEW k \in Pkt, HandleAck(k)
      PROVE  SendTypeOK' /\ \A i \in DOMAIN rows : rows[i].status = "QUEUED" => rows'[i].status \in {"QUEUED", "DELIVERED"}
  <2>1. "DELIVERED" \in Status
    BY Zenon DEF Status
  <2>2. rows' \in Seq(Row) /\ \A i \in DOMAIN rows : rows[i].status = "QUEUED" => rows'[i].status \in {"QUEUED", "DELIVERED"}
    <3>1. rows' = UpdateByPkt(rows, k, "DELIVERED")
      BY <1>3, Zenon DEF HandleAck
    <3>2. CASE RowOfPkt(k) = 0
      BY <1>1, <2>1, <3>1, <3>2, PktUpdated, Zenon
    <3>3. CASE RowOfPkt(k) # 0
      <4>1. RowOfPkt(k) \in DOMAIN rows
        BY <1>1, <3>3, PktFound, Zenon
      <4>2. OneRowSet(rows', RowOfPkt(k), k, Settle(rows[RowOfPkt(k)].status, "DELIVERED"))
        BY <1>1, <2>1, <3>1, <3>3, PktUpdated, Zenon
      <4> QED
        BY <4>1, <4>2, Zenon DEF OneRowSet, Settle
    <3> QED
      BY <3>2, <3>3, Zenon
  <2>3. Inactive \in 0 .. Inactive
    BY SendAssumption DEF Inactive
  <2>4. pending' \in [Pkt -> 0 .. Inactive] /\ acks' \subseteq Pkt
    BY <1>3, <2>3, Zenon DEF SendTypeOK, HandleAck
  <2> QED
    BY <1>2, <1>3, <2>2, <2>4, Zenon DEF SendTypeOK, HandleAck
<1>4. ASSUME NEW u \in Uid, Cancel(u) PROVE SendTypeOK'
  <2>1. RowOf(u) \in DOMAIN rows
    BY <1>1, <1>4, RowFound, Zenon DEF Cancel, Has
  <2>2. rows' \in Seq(Row)
    BY <1>1, <1>4, <2>1, Unparked, Zenon DEF Cancel, RowsKept
  <2> QED
    BY <1>2, <1>4, <2>2, Zenon DEF SendTypeOK, Cancel, link
<1>5. ASSUME NEW i \in DOMAIN rows, ExpireParked(i)
      PROVE  SendTypeOK' /\ \A j \in DOMAIN rows \ {i} : rows'[j] = rows[j]
  <2>1. rows' \in Seq(Row) /\ \A j \in DOMAIN rows \ {i} : rows'[j] = rows[j]
    BY <1>1, <1>5, Unparked, Zenon DEF ExpireParked, RowsKept
  <2> QED
    BY <1>2, <1>5, <2>1, Zenon DEF SendTypeOK, ExpireParked, link
<1> QED
  BY <1>3, <1>4, <1>5, Zenon

(* The worker's steps, and those of the link and the session table.        *)
LEMMA WorkerTyped ==
    ASSUME SendTypeOK, WorkerStep \/ Establish \/ SessionLost \/ \E k \in Pkt : Receive(k)
    PROVE  SendTypeOK' /\ StayParked
<1>1. TasksOK /\ rows \in Seq(Row) /\ queue \in [QSlot -> QEntry] /\ "worker" \in Tasks
  BY Zenon DEF SendTypeOK, Tasks
<1>2. rows' = rows => StayParked
  BY Zenon DEF StayParked
<1>3. 0 \in Nat /\ 1 \in Nat /\ 0 \in 0 .. MaxUid /\ FALSE \in BOOLEAN
  BY SendAssumption
<1>4. TaskShape(task["worker"])
  BY <1>1, Zenon DEF TasksOK
<1>5. task["worker"].slot \in Nat /\ task["worker"].pkt \in 0 .. MaxPkt
  BY <1>4, Zenon DEF TaskShape
<1>6. CASE FlushSession
  <2>1. PICK s : s = NextSlot(task["worker"].slot, "session")
    BY Zenon
  <2>2. CASE s = 0
    <3>1. task' = [task EXCEPT !["worker"] = Idle] /\ UNCHANGED <<rows, queue, order, frame, link>>
      BY <1>6, <2>1, <2>2, Zenon DEF FlushSession
    <3>2. TasksOK'
      BY <1>1, <3>1, TaskStops, Zenon
    <3> QED
      BY <1>2, <1>6, <3>1, <3>2, Zenon DEF SendTypeOK, FlushSession, link
  <2>3. CASE s # 0 /\ FlushSend(s)
    <3>1. s \in QSlot
      BY <2>1, <2>3, NextFound, Zenon
    <3>2. queue[s].data \in 0 .. MaxUid
      BY <1>1, <3>1 DEF QEntry
    <3>3. NextPkt \in Pkt
      BY <2>3, NextFresh, Zenon DEF FlushSend, Transmit
    <3>4. frame' \in [Pkt -> 0 .. MaxUid] /\ air' \subseteq Pkt
      BY <2>3, <3>2, <3>3, Zenon DEF FlushSend, Transmit, SendTypeOK
    <3>5. PICK x : x = [pc |-> "track", uid |-> 0, fresh |-> FALSE, pkt |-> NextPkt, slot |-> s, todo |-> <<>>]
      BY Zenon
    <3>6. task' = [task EXCEPT !["worker"] = x]
      BY <2>3, <3>5, Zenon DEF FlushSend
    <3>7. NextPkt \in 0 .. MaxPkt /\ s \in Nat
      BY <3>1, <3>3, SendAssumption DEF Pkt, QSlot
    <3>8. TaskShape(x) /\ x.pc = "track" /\ x.slot = s
      BY <1>3, <3>5, <3>7 DEF TaskShape
    <3>9. TasksOK'
      BY <1>1, <3>1, <3>6, <3>8, TaskSet, Zenon
    <3> QED
      BY <1>2, <1>6, <2>3, <3>4, <3>9, Zenon DEF SendTypeOK, FlushSession, FlushSend, Transmit, link
  <2>4. CASE s # 0 /\ FlushFails(s)
    <3>1. s \in QSlot
      BY <2>1, <2>4, NextFound, Zenon
    <3>2. PICK x : x = [pc |-> task["worker"].pc, uid |-> task["worker"].uid, fresh |-> task["worker"].fresh,
                        pkt |-> task["worker"].pkt, slot |-> s + 1, todo |-> task["worker"].todo]
      BY Zenon
    <3>3. [task["worker"] EXCEPT !.slot = s + 1] = x
      BY <1>4, <3>2 DEF TaskShape
    <3>4. task' = [task EXCEPT !["worker"] = x]
      BY <2>4, <3>3, Zenon DEF FlushFails
    <3>5. x.pc = "flush" /\ s + 1 \in Nat
      BY <1>6, <3>1, <3>2, SendAssumption, SMTT(30) DEF FlushSession, At, QSlot
    <3>6. TaskShape(x)
      BY <1>4, <3>2, <3>5 DEF TaskShape
    <3>7. TasksOK'
      BY <1>1, <3>4, <3>5, <3>6, TaskSet, Zenon
    <3>8. rows' \in Seq(Row) /\ StayParked
      BY <1>1, <2>4, FailedKept, Zenon DEF FlushFails, RowsKept
    <3>9. queue' \in [QSlot -> QEntry]
      BY <1>1, <2>4, Released, Zenon DEF FlushFails
    <3> QED
      BY <1>6, <2>4, <3>7, <3>8, <3>9, Zenon DEF SendTypeOK, FlushSession, FlushFails, link
  <2> QED
    BY <1>6, <2>1, <2>2, <2>3, <2>4, Zenon DEF FlushSession
<1>7. CASE Track("worker")
  <2>1. task["worker"].slot \in QSlot
    BY <1>1, <1>7, Zenon DEF TasksOK, Track, At
  <2>2. TasksOK'
    BY <1>1, <1>7, <2>1, TaskGoes, Zenon DEF Track
  <2>3. 0 \in 0 .. Inactive
    BY SendAssumption DEF Inactive
  <2>4. pending' \in [Pkt -> 0 .. Inactive]
    BY <1>7, <2>3, Zenon DEF SendTypeOK, Track
  <2> QED
    BY <1>2, <1>7, <2>2, <2>4, Zenon DEF SendTypeOK, Track, link
<1>8. CASE StampFlushed
  <2>1. task["worker"].slot \in QSlot
    BY <1>1, <1>8, Zenon DEF TasksOK, StampFlushed, At
  <2>2. TasksOK'
    BY <1>1, <1>8, <2>1, TaskGoes, Zenon DEF StampFlushed
  <2>3. queue[task["worker"].slot].uid \in 0 .. MaxUid
    BY <1>1, <2>1 DEF QEntry
  <2>4. rows' \in Seq(Row) /\ StayParked
    BY <1>1, <1>5, <1>8, <2>3, RowReconciled, Zenon DEF StampFlushed
  <2> QED
    BY <1>8, <2>2, <2>4, Zenon DEF SendTypeOK, StampFlushed, link
<1>9. CASE Drained("worker")
  <2>1. queue' \in [QSlot -> QEntry]
    BY <1>1, <1>9, Released, Zenon DEF Drained
  <2>2. PICK s : s = task["worker"].slot + 1
    BY Zenon
  <2>3. s \in Nat
    BY <1>5, <2>2
  <2>4. task' = [task EXCEPT !["worker"] = Begin("flush", 0, FALSE, s, <<>>)]
    BY <1>9, <2>2, Zenon DEF Drained
  <2>5. TasksOK'
    BY <1>1, <1>3, <2>3, <2>4, TaskStarts, Zenon
  <2> QED
    BY <1>2, <1>9, <2>1, <2>5, Zenon DEF SendTypeOK, Drained, link
<1>10. CASE Establish
  <2>1. TasksOK'
    BY <1>1, <1>3, <1>10, TaskStarts, Zenon DEF Establish
  <2> QED
    BY <1>2, <1>10, <2>1, Zenon DEF SendTypeOK, Establish, link
<1>11. ASSUME task' = task PROVE TasksOK'
  BY <1>1, <1>11, Zenon DEF TasksOK, TaskShape, QSlot, Idle, Begin
<1>12. CASE SessionLost
  BY <1>2, <1>11, <1>12, Zenon DEF SendTypeOK, SessionLost, link
<1>13. ASSUME NEW k \in Pkt, Receive(k) PROVE SendTypeOK' /\ StayParked
  BY <1>2, <1>11, <1>13, Zenon DEF SendTypeOK, Receive
<1> QED
  BY <1>6, <1>7, <1>8, <1>9, <1>10, <1>12, <1>13, Zenon DEF WorkerStep

(* What a step may do to a parked row.                                     *)
ParkedLeaves ==
    \A i \in DOMAIN rows :
        rows[i].status = "QUEUED" /\ rows'[i].status # "QUEUED" =>
            \/ rows'[i].status = "DELIVERED" /\ \E k \in Pkt : HandleAck(k)
            \/ \E u \in Uid : Cancel(u)
            \/ ExpireParked(i)

(* Every step keeps the types and the parked rows, for any interleaving.   *)
LEMMA StepTyped ==
    ASSUME SendTypeOK, [SendNextWithRetry]_sendVars
    PROVE  SendTypeOK' /\ ParkedLeaves
<1>1. CASE UNCHANGED sendVars
  <2>1. TasksOK => TasksOK'
    BY <1>1, Zenon DEF TasksOK, TaskShape, QSlot, Idle, Begin, sendVars
  <2> QED
    BY <1>1, <2>1, Zenon DEF SendTypeOK, ParkedLeaves, sendVars, link
<1>2. CASE Pipeline("user") \/ Pipeline("mesh")
  BY <1>2, PipelineTyped, Zenon DEF Tasks, StayParked, ParkedLeaves
<1>3. CASE Write \/ ParkRow \/ \E u \in Uid : ParkCheck(u) \/ Retry(u)
  BY <1>3, UserTyped, Zenon DEF StayParked, ParkedLeaves
<1>4. CASE Drain \/ Drained("mesh") \/ NextParkedRow \/ HandleRrep \/ FlushParked
  BY <1>4, MeshTyped, Zenon DEF StayParked, ParkedLeaves
<1>5. CASE \/ \E k \in Pkt : RetryTick(k)
           \/ \E rerr \in BOOLEAN : RouteLost(rerr)
           \/ \E s \in QSlot : ExpireQueued(s)
  BY <1>5, TimerTyped, Zenon DEF StayParked, ParkedLeaves
<1>6. CASE \/ \E k \in Pkt : HandleAck(k)
           \/ \E u \in Uid : Cancel(u)
           \/ \E i \in DOMAIN rows : ExpireParked(i)
  BY <1>6, DoorTyped, Zenon DEF ParkedLeaves
<1>7. CASE WorkerStep \/ Establish \/ SessionLost \/ \E k \in Pkt : Receive(k)
  BY <1>7, WorkerTyped, Zenon DEF StayParked, ParkedLeaves
<1> QED
  BY <1>1, <1>2, <1>3, <1>4, <1>5, <1>6, <1>7, Zenon DEF SendNextWithRetry, SendNext, UserStep, MeshStep, MeshEvent

(* The types hold at the start.                                            *)
LEMMA InitTyped == SendInit => SendTypeOK
<1> SUFFICES ASSUME SendInit PROVE SendTypeOK
  BY Zenon
<1>1. Empty \in QEntry
  BY SendAssumption DEF Empty, QEntry
<1>2. Inactive \in 0 .. Inactive /\ 0 \in 0 .. MaxUid
  BY SendAssumption DEF Inactive
<1>3. rows \in Seq(Row)
  BY DEF SendInit
<1>4. \A t \in Tasks : task[t] = Idle
  BY Zenon DEF SendInit
<1>5. TasksOK
  <2>1. TaskShape(Idle) /\ Idle.pc = "idle"
    BY SendAssumption DEF TaskShape, Idle, Begin
  <2>2. task["worker"] = Idle
    BY <1>4, Zenon DEF Tasks
  <2>3. DOMAIN task = Tasks /\ task = [t \in Tasks |-> task[t]]
    BY Zenon DEF SendInit
  <2> QED
    BY <1>4, <2>1, <2>2, <2>3, Zenon DEF TasksOK
<1> QED
  BY <1>1, <1>2, <1>3, <1>5, Zenon DEF SendInit, SendTypeOK

(* However the tasks interleave and whatever the user taps, a parked row   *)
(* leaves QUEUED by delivery, by Cancel or by the park window.             *)
THEOREM ParkedRowsStay == SendInit /\ [][SendNextWithRetry]_sendVars => ParkedIsSticky
<1>1. SendInit => SendTypeOK
  BY InitTyped
<1>2. SendTypeOK /\ [SendNextWithRetry]_sendVars => SendTypeOK'
  BY StepTyped, Zenon
<1>3. SendTypeOK /\ [SendNextWithRetry]_sendVars =>
        [\A i \in DOMAIN rows :
          rows[i].status = "QUEUED" /\ rows'[i].status # "QUEUED" =>
              \/ rows'[i].status = "DELIVERED" /\ \E k \in Pkt : HandleAck(k)
              \/ \E u \in Uid : Cancel(u)
              \/ ExpireParked(i)]_sendVars
  BY StepTyped, Zenon DEF ParkedLeaves
<1> QED
  BY <1>1, <1>2, <1>3, PTL DEF ParkedIsSticky
=============================================================================
