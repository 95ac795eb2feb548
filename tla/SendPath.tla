------------------------------ MODULE SendPath ------------------------------
(***************************************************************************)
(* The life of direct messages to one peer: the message store's rows, the  *)
(* queue of messages awaiting a route or a session, the pending-ACK table  *)
(* and its retries, parked messages, and a lossy link to the peer.         *)
(*                                                                         *)
(* Three tasks run the same send pipeline and share these tables without a *)
(* lock of their own: the user task (UI or RPC), the mesh task, and the    *)
(* handshake worker.  Each step between two points where another task may  *)
(* see the tables is an action.                                            *)
(***************************************************************************)
EXTENDS Naturals, Sequences, FiniteSetsExt

CONSTANTS
    MaxUid,       \* messages the user writes
    MaxPkt,       \* frames sent; beyond it every transmission is denied
    QueueSize,    \* MAX_QUEUED_MSGS
    PendingSize,  \* MAX_PENDING_ACKS
    MaxAttempts,  \* tier_max_retries of the NORMAL tier
    MaxFlaps,     \* changes of the route and losses of the session
    Preempt       \* may a task run while another is inside the pipeline?

ASSUME SendAssumption ==
    /\ {MaxUid, MaxPkt, QueueSize, PendingSize} \subseteq Nat \ {0}
    /\ {MaxAttempts, MaxFlaps} \subseteq Nat
    /\ Preempt \in BOOLEAN

VARIABLES
    rows,     \* s_msgs, oldest first: uid, packet_id, status
    queue,    \* s_queued_msgs
    order,    \* the used slots of queue by their timestamp
    pending,  \* s_pending_acks: attempts made for a packet id, or Inactive
    frame,    \* the message each transmitted packet id carries, 0 if unused
    air,      \* DATA frames in flight
    acks,     \* ACKs in flight
    accepted, \* packet ids the peer has accepted
    sess,     \* s_dm_table's entry for the peer
    route,    \* is the peer a neighbour or is there a usable route to it?
    task,     \* where each task is in the pipeline
    written,  \* messages written so far; the uids in use are 1..written
    flaps

link == <<air, acks, accepted>>
sendVars == <<rows, queue, order, pending, frame, link, sess, route, task, written, flaps>>

Uid == 1..MaxUid
Pkt == 1..MaxPkt
QSlot == 1..QueueSize
Tasks == {"user", "mesh", "worker"}
Inactive == MaxAttempts + 1

-----------------------------------------------------------------------------
(* The message store. *)

Newest(I) == IF I = {} THEN 0 ELSE Max(I)

RowOf(u) == IF u = 0 THEN 0 ELSE Newest({i \in DOMAIN rows : rows[i].uid = u})

\* Mutant of RowOfPkt: the newest row, whatever its packet id.
RowOfPktNewest(k) == Len(rows)

RowOfPkt(k) == IF k = 0 THEN 0 ELSE Newest({i \in DOMAIN rows : rows[i].pkt = k})

\* Mutant of Settle: a parked row takes any status.
SettleLoose(old, st) == st

\* Parked is sticky: DELIVERED is the only status a QUEUED row accepts.
Settle(old, st) == IF old = "QUEUED" /\ st # "DELIVERED" THEN old ELSE st

\* A new packet id, if there is one, and what the status becomes.
Restamp(r, k, st) ==
    [uid |-> r.uid, pkt |-> IF k # 0 THEN k ELSE r.pkt, status |-> Settle(r.status, st)]

UpdateByUid(rs, u, k, st) ==
    IF RowOf(u) = 0 THEN rs ELSE [rs EXCEPT ![RowOf(u)] = Restamp(@, k, st)]

UpdateByPkt(rs, k, st) ==
    IF RowOfPkt(k) = 0 THEN rs ELSE [rs EXCEPT ![RowOfPkt(k)] = Restamp(@, 0, st)]

Added(rs, u, k, st) == Append(rs, [uid |-> u, pkt |-> k, status |-> st])

\* Mutant of Reconciled: every transmission adds a row.
ReconciledAdds(rs, u, k) == Added(rs, u, k, "SENT")

\* Update the row if there is one, else add it.
Reconciled(rs, u, k) ==
    IF RowOf(u) # 0 THEN UpdateByUid(rs, u, k, "SENT") ELSE Added(rs, u, k, "SENT")

Failed(u) == rows' = UpdateByUid(rows, u, 0, "FAILED")

-----------------------------------------------------------------------------
(* The queue, the pending-ACK table and the radio. *)

InUse == {s \in QSlot : queue[s].used}
QueuedFor(u) == {s \in InUse : queue[s].uid = u}
FirstFree == Min(QSlot \ InUse)

\* The first of a set of slots or places, or 0.
First(S) == IF S = {} THEN 0 ELSE Min(S)

OldestSession == First({i \in DOMAIN order : queue[order[i]].reason = "session"})

\* The first used slot at or after s that waits for r, or 0.
NextSlot(s, r) == First({t \in InUse : t >= s /\ queue[t].reason = r})

Empty == [used |-> FALSE, data |-> 0, uid |-> 0, reason |-> "route"]

Fill(s, u, r) ==
    /\ queue' = [queue EXCEPT ![s] = [used |-> TRUE, data |-> u, uid |-> u, reason |-> r]]
    /\ order' = Append(SelectSeq(order, LAMBDA t : t # s), s)

\* The firmware leaves a freed slot's contents in place; they matter only to a
\* worker that has yet to read them.
Release(s) ==
    /\ queue' = [queue EXCEPT ![s] =
                   IF task["worker"].slot = s /\ task["worker"].pc \in {"track", "stamp"}
                   THEN [@ EXCEPT !.used = FALSE] ELSE Empty]
    /\ order' = SelectSeq(order, LAMBDA t : t # s)

Active(k) == k # 0 /\ pending[k] # Inactive
ActiveCount == Cardinality({k \in Pkt : Active(k)})

FreshPkts == {k \in Pkt : frame[k] = 0}
NextPkt == Min(FreshPkts)

-----------------------------------------------------------------------------
(* Tasks. *)

\* A task about to go through pc with message u, entry s and the list todo.
Begin(pc, u, new, s, todo) == [pc |-> pc, uid |-> u, fresh |-> new, pkt |-> 0, slot |-> s, todo |-> todo]
Idle == Begin("idle", 0, FALSE, 0, <<>>)

Runs(t) == Preempt \/ \A q \in Tasks \ {t} : task[q].pc = "idle"
At(t, pc) == Runs(t) /\ task[t].pc = pc
Goto(t, pc) == task' = [task EXCEPT ![t].pc = pc]

\* Back to whoever called the pipeline: the user, the drain of the route
\* queue (which then frees its slot), the flush of parked messages.
Caller(t) == IF task[t].slot # 0 THEN "free" ELSE IF task[t].todo # <<>> THEN "parked" ELSE "idle"
Return(t) == task' = [task EXCEPT ![t] = IF Caller(t) = "idle" THEN Idle ELSE [@ EXCEPT !.pc = Caller(t)]]

SendInit ==
    /\ rows = <<>>
    /\ queue = [s \in QSlot |-> Empty]
    /\ order = <<>>
    /\ pending = [k \in Pkt |-> Inactive]
    /\ frame = [k \in Pkt |-> 0]
    /\ air = {} /\ acks = {} /\ accepted = {}
    /\ sess = "none" /\ route = FALSE
    /\ task = [t \in Tasks |-> Idle]
    /\ written = 0 /\ flaps = 0

-----------------------------------------------------------------------------
(* mesh_send_message_uid and mesh_send_dm, by any task t. *)

RouteLookup(t) ==
    /\ At(t, "send")
    /\ Goto(t, IF route THEN "session" ELSE "queueRoute")
    /\ UNCHANGED <<rows, queue, order, pending, frame, link, sess, route, written, flaps>>

\* At most one entry per uid; a full queue fails the message.
QueueMessage(t) ==
    /\ At(t, "queueRoute")
    /\ CASE QueuedFor(task[t].uid) # {} ->
              Return(t) /\ UNCHANGED <<rows, queue, order>>
         [] QueuedFor(task[t].uid) = {} /\ InUse # QSlot ->
              /\ Fill(FirstFree, task[t].uid, "route")
              /\ IF task[t].fresh THEN Goto(t, "addRow") ELSE Return(t)
              /\ UNCHANGED rows
         [] OTHER ->
              Failed(task[t].uid) /\ Return(t) /\ UNCHANGED <<queue, order>>
    /\ UNCHANGED <<pending, frame, link, sess, route, written, flaps>>

AddRow(t) ==
    /\ At(t, "addRow")
    /\ rows' = Added(rows, task[t].uid, 0, "NONE")
    /\ Return(t)
    /\ UNCHANGED <<queue, order, pending, frame, link, sess, route, written, flaps>>

\* s_dm_mutex is held from the look-up to the end of the transmission.
MutexFree(t) == \A q \in Tasks \ {t} : task[q].pc # "track"

Transmit(t, data) ==
    /\ FreshPkts # {}
    /\ frame' = [frame EXCEPT ![NextPkt] = data]
    /\ air' = air \cup {NextPkt}
    /\ UNCHANGED <<acks, accepted>>

\* An ACTIVE session: the frame goes out under it.
SendUnderSession(t) ==
    /\ At(t, "session") /\ MutexFree(t) /\ sess = "active"
    /\ Transmit(t, task[t].uid)
    /\ task' = [task EXCEPT ![t].pc = "track", ![t].pkt = NextPkt]
    /\ UNCHANGED <<rows, queue, order, pending, sess, route, written, flaps>>

\* The gate, the nonce counter or the cipher refuses, or the session table
\* has no room for another handshake.
SendRefused(t) ==
    /\ At(t, "session") /\ MutexFree(t)
    /\ sess \in {"active", "none"}
    /\ Failed(task[t].uid) /\ Return(t)
    /\ UNCHANGED <<queue, order, pending, frame, link, sess, route, written, flaps>>

\* No session: it is handshaking from here on.
SessionLookup(t) ==
    /\ At(t, "session") /\ MutexFree(t) /\ sess # "active"
    /\ sess' = "handshaking"
    /\ Goto(t, "queueSession")
    /\ UNCHANGED <<rows, queue, order, pending, frame, link, route, written, flaps>>

\* One entry per uid, whatever it waits for; a full queue gives up its oldest
\* entry that awaits a session.
QueueSessionMessage(t) ==
    LET u == task[t].uid
        after == IF task[t].fresh THEN Goto(t, "addRow") ELSE Return(t)
    IN
    /\ At(t, "queueSession")
    /\ CASE QueuedFor(u) # {} ->
              /\ IF \E s \in QueuedFor(u) : queue[s].reason = "route" THEN Failed(u) ELSE UNCHANGED rows
              /\ Return(t) /\ UNCHANGED <<queue, order>>
         [] QueuedFor(u) = {} /\ InUse # QSlot ->
              Fill(FirstFree, u, "session") /\ after /\ UNCHANGED rows
         [] QueuedFor(u) = {} /\ InUse = QSlot /\ OldestSession # 0 ->
              /\ Failed(queue[order[OldestSession]].uid)
              /\ Fill(order[OldestSession], u, "session") /\ after
         [] OTHER ->
              Failed(u) /\ Return(t) /\ UNCHANGED <<queue, order>>
    /\ UNCHANGED <<pending, frame, link, sess, route, written, flaps>>

\* pending_ack_add: with no free entry the frame goes untracked.
Track(t) ==
    /\ At(t, "track")
    /\ pending' = IF ActiveCount < PendingSize THEN [pending EXCEPT ![task[t].pkt] = 0] ELSE pending
    /\ Goto(t, "stamp")
    /\ UNCHANGED <<rows, queue, order, frame, link, sess, route, written, flaps>>

Stamp(t) ==
    /\ At(t, "stamp") /\ t # "worker"
    /\ rows' = Reconciled(rows, task[t].uid, task[t].pkt)
    /\ Return(t)
    /\ UNCHANGED <<queue, order, pending, frame, link, sess, route, written, flaps>>

Pipeline(t) ==
    \/ RouteLookup(t) \/ QueueMessage(t) \/ AddRow(t)
    \/ SendUnderSession(t) \/ SendRefused(t) \/ SessionLookup(t)
    \/ QueueSessionMessage(t) \/ Track(t) \/ Stamp(t)

-----------------------------------------------------------------------------
(* The user: writes a message, taps Retry, Queue or Cancel. *)

Has(u, st) == RowOf(u) # 0 /\ rows[RowOf(u)].status = st

Write ==
    /\ At("user", "idle") /\ written < MaxUid
    /\ written' = written + 1
    /\ task' = [task EXCEPT !["user"] = Begin("send", written + 1, TRUE, 0, <<>>)]
    /\ UNCHANGED <<rows, queue, order, pending, frame, link, sess, route, flaps>>

Retry(u) ==
    /\ At("user", "idle") /\ Has(u, "FAILED")
    /\ task' = [task EXCEPT !["user"] = Begin("send", u, FALSE, 0, <<>>)]
    /\ UNCHANGED <<rows, queue, order, pending, frame, link, sess, route, written, flaps>>

\* The button handler re-reads the row, then parks it.
ParkCheck(u) ==
    /\ At("user", "idle") /\ Has(u, "FAILED")
    /\ task' = [task EXCEPT !["user"] = Begin("park", u, FALSE, 0, <<>>)]
    /\ UNCHANGED <<rows, queue, order, pending, frame, link, sess, route, written, flaps>>

ParkRow ==
    /\ At("user", "park")
    /\ rows' = UpdateByUid(rows, task["user"].uid, 0, "QUEUED")
    /\ task' = [task EXCEPT !["user"] = Idle]
    /\ UNCHANGED <<queue, order, pending, frame, link, sess, route, written, flaps>>

\* msg_store_unpark
Cancel(u) ==
    /\ At("user", "idle") /\ Has(u, "QUEUED")
    /\ rows' = [rows EXCEPT ![RowOf(u)].status = "FAILED"]
    /\ UNCHANGED <<queue, order, pending, frame, link, sess, route, task, written, flaps>>

-----------------------------------------------------------------------------
(* The mesh task. *)

\* An RREP answers a discovery of ours: the route is there and the messages
\* that wait for it are drained, slot by slot.
HandleRrep ==
    /\ At("mesh", "idle")
    /\ route' = TRUE
    /\ flaps < MaxFlaps /\ flaps' = flaps + 1
    /\ task' = [task EXCEPT !["mesh"] = Begin("drain", 0, FALSE, 1, <<>>)]
    /\ UNCHANGED <<rows, queue, order, pending, frame, link, sess, written>>

\* The entry gives its uid away before the message re-enters the pipeline.
Drain ==
    LET s == NextSlot(task["mesh"].slot, "route") IN
    /\ At("mesh", "drain")
    /\ IF s = 0
       THEN task' = [task EXCEPT !["mesh"] = Idle] /\ UNCHANGED queue
       ELSE /\ task' = [task EXCEPT !["mesh"] = Begin("send", queue[s].uid, FALSE, s, <<>>)]
            /\ queue' = [queue EXCEPT ![s].uid = 0]
    /\ UNCHANGED <<rows, order, pending, frame, link, sess, route, written, flaps>>

Drained(t) ==
    /\ At(t, "free")
    /\ Release(task[t].slot)
    /\ task' = [task EXCEPT ![t] = Begin(IF t = "mesh" THEN "drain" ELSE "flush",
                                         0, FALSE, task[t].slot + 1, <<>>)]
    /\ UNCHANGED <<rows, pending, frame, link, sess, route, written, flaps>>

\* mesh_flush_parked_for: a beacon or the sweep gives the peer its turn.
FlushParked ==
    LET parked == SelectSeq(rows, LAMBDA r : r.status = "QUEUED" /\ r.uid # 0) IN
    /\ At("mesh", "idle") /\ parked # <<>>
    /\ task' = [task EXCEPT !["mesh"] =
         Begin("parked", 0, FALSE, 0, [i \in DOMAIN parked |-> parked[i].uid])]
    /\ UNCHANGED <<rows, queue, order, pending, frame, link, sess, route, written, flaps>>

\* Mutant of Resends: the pending-ACK table is not asked.
ResendsAlways(u) == RowOf(u) # 0

Resends(u) == RowOf(u) # 0 /\ ~Active(rows[RowOf(u)].pkt)

NextParkedRow ==
    LET u == Head(task["mesh"].todo)
        rest == Tail(task["mesh"].todo)
    IN
    /\ At("mesh", "parked")
    /\ task' = [task EXCEPT !["mesh"] =
         IF Resends(u) THEN Begin("send", u, FALSE, 0, rest)
         ELSE IF rest = <<>> THEN Idle ELSE [@ EXCEPT !.todo = rest]]
    /\ UNCHANGED <<rows, queue, order, pending, frame, link, sess, route, written, flaps>>

\* Mutant of RetryTick: an exhausted frame is dropped without failing its row.
RetryTickForgets(k) ==
    /\ At("mesh", "idle") /\ Active(k)
    /\ \/ /\ pending[k] >= MaxAttempts
          /\ pending' = [pending EXCEPT ![k] = Inactive]
          /\ UNCHANGED air
       \/ /\ pending[k] < MaxAttempts
          /\ pending' = [pending EXCEPT ![k] = @ + 1]
          /\ air' \in {air, air \cup {k}}
    /\ UNCHANGED <<rows, queue, order, frame, acks, accepted, sess, route, task, written, flaps>>

\* Retransmit, or give up after the last attempt; a denied retry burns one.
RetryTick(k) ==
    /\ At("mesh", "idle") /\ Active(k)
    /\ \/ /\ pending[k] >= MaxAttempts
          /\ pending' = [pending EXCEPT ![k] = Inactive]
          /\ rows' = UpdateByPkt(rows, k, "FAILED")
          /\ UNCHANGED air
       \/ /\ pending[k] < MaxAttempts
          /\ pending' = [pending EXCEPT ![k] = @ + 1]
          /\ air' \in {air, air \cup {k}}
          /\ UNCHANGED rows
    /\ UNCHANGED <<queue, order, frame, acks, accepted, sess, route, task, written, flaps>>

HandleAck(k) ==
    /\ At("mesh", "idle") /\ k \in acks
    /\ acks' = acks \ {k}
    /\ pending' = [pending EXCEPT ![k] = Inactive]
    /\ rows' = UpdateByPkt(rows, k, "DELIVERED")
    /\ UNCHANGED <<queue, order, frame, air, accepted, sess, route, task, written, flaps>>

\* The route is lost: to a RERR, which fails every frame pending for the
\* destination, or because its entry aged out.
FailFast(k) == RowOfPkt(k) # 0 /\ Active(k)
RouteLost(rerr) ==
    /\ At("mesh", "idle") /\ route
    /\ flaps < MaxFlaps /\ flaps' = flaps + 1
    /\ route' = FALSE
    /\ pending' = IF rerr THEN [k \in Pkt |-> Inactive] ELSE pending
    /\ rows' = IF rerr
               THEN [i \in DOMAIN rows |->
                       IF \E k \in Pkt : FailFast(k) /\ RowOfPkt(k) = i
                       THEN [rows[i] EXCEPT !.status = Settle(@, "FAILED")] ELSE rows[i]]
               ELSE rows
    /\ UNCHANGED <<queue, order, frame, link, sess, task, written>>

ExpireQueued(s) ==
    /\ At("mesh", "idle") /\ s \in InUse
    /\ Failed(queue[s].uid)
    /\ Release(s)
    /\ UNCHANGED <<pending, frame, link, sess, route, task, written, flaps>>

\* msg_store_expire_parked, one row per lock cycle
ExpireParked(i) ==
    /\ At("mesh", "idle")
    /\ rows[i].status = "QUEUED"
    /\ rows' = [rows EXCEPT ![i].status = "FAILED"]
    /\ UNCHANGED <<queue, order, pending, frame, link, sess, route, task, written, flaps>>

-----------------------------------------------------------------------------
(* The handshake worker: process_ke_init or process_ke_resp installs the   *)
(* session and flush_session_queue sends what waited for it.               *)

Establish ==
    /\ At("worker", "idle") /\ MutexFree("worker")
    /\ sess # "active"
    /\ sess' = "active"
    /\ task' = [task EXCEPT !["worker"] = Begin("flush", 0, FALSE, 1, <<>>)]
    /\ UNCHANGED <<rows, queue, order, pending, frame, link, route, written, flaps>>

FlushSend(s) ==
    /\ sess = "active"
    /\ Transmit("worker", queue[s].data)
    /\ task' = [task EXCEPT !["worker"] =
         [pc |-> "track", uid |-> 0, fresh |-> FALSE, pkt |-> NextPkt, slot |-> s, todo |-> <<>>]]
    /\ UNCHANGED <<rows, queue, order>>

FlushFails(s) ==
    /\ Failed(queue[s].uid)
    /\ Release(s)
    /\ task' = [task EXCEPT !["worker"].slot = s + 1]
    /\ UNCHANGED <<frame, link>>

FlushSession ==
    LET s == NextSlot(task["worker"].slot, "session") IN
    /\ At("worker", "flush") /\ MutexFree("worker")
    /\ IF s = 0
       THEN /\ task' = [task EXCEPT !["worker"] = Idle]
            /\ UNCHANGED <<rows, queue, order, frame, link>>
       ELSE FlushSend(s) \/ FlushFails(s)
    /\ UNCHANGED <<pending, sess, route, written, flaps>>

\* The slot is read again, after the transmission, for the row's uid.
StampFlushed ==
    LET u == queue[task["worker"].slot].uid IN
    /\ At("worker", "stamp")
    /\ rows' = Reconciled(rows, u, task["worker"].pkt)
    /\ Goto("worker", "free")
    /\ UNCHANGED <<queue, order, pending, frame, link, sess, route, written, flaps>>

\* dm_alloc gives the peer's entry to another peer.
SessionLost ==
    /\ \A t \in Tasks : task[t].pc # "track"
    /\ sess = "active" /\ sess' = "none"
    /\ flaps < MaxFlaps /\ flaps' = flaps + 1
    /\ UNCHANGED <<rows, queue, order, pending, frame, link, route, task, written>>

-----------------------------------------------------------------------------
(* The peer.  A frame or an ACK that is never taken off the link is lost;  *)
(* one taken late was delayed.                                             *)

Receive(k) ==
    /\ k \in air
    /\ air' = air \ {k} /\ accepted' = accepted \cup {k} /\ acks' = acks \cup {k}
    /\ UNCHANGED <<rows, queue, order, pending, frame, sess, route, task, written, flaps>>

UserStep ==
    \/ Write \/ ParkRow \/ Pipeline("user")
    \/ \E u \in Uid : ParkCheck(u) \/ Cancel(u)

MeshStep ==
    \/ Drain \/ Drained("mesh") \/ NextParkedRow \/ Pipeline("mesh")
    \/ \E k \in Pkt : RetryTick(k) \/ HandleAck(k)
    \/ \E s \in QSlot : ExpireQueued(s)

MeshEvent ==
    \/ HandleRrep \/ FlushParked
    \/ \E rerr \in BOOLEAN : RouteLost(rerr)
    \/ \E i \in DOMAIN rows : ExpireParked(i)

WorkerStep == FlushSession \/ Track("worker") \/ StampFlushed \/ Drained("worker")

SendNext ==
    \/ UserStep \/ MeshStep \/ MeshEvent \/ WorkerStep
    \/ Establish \/ SessionLost
    \/ \E k \in Pkt : Receive(k)

SendSpec == SendInit /\ [][SendNext]_sendVars

\* The user also taps Retry, which sends a failed message anew while a frame
\* of an earlier attempt may still be under way.
SendNextWithRetry == SendNext \/ \E u \in Uid : Retry(u)

\* The tasks keep running, and every timer of the mesh task's loop comes round
\* however busy the loop is.  Nothing is assumed of the link, the route, the
\* handshake or the user.
FairSpec ==
    /\ SendSpec
    /\ WF_sendVars(Pipeline("user") \/ ParkRow)
    /\ WF_sendVars(Drain \/ Drained("mesh") \/ NextParkedRow \/ Pipeline("mesh"))
    /\ WF_sendVars(WorkerStep)
    /\ \A k \in Pkt : SF_sendVars(RetryTick(k))
    /\ \A s \in QSlot : SF_sendVars(ExpireQueued(s))

-----------------------------------------------------------------------------

\* One row per user message: no two rows of the store carry the same uid.
OneRowPerMessage ==
    \A i, j \in DOMAIN rows : rows[i].uid = rows[j].uid /\ rows[i].uid # 0 => i = j

Outstanding(u) == {k \in Pkt : Active(k) /\ frame[k] = u}

\* One message, one frame in the air: at no time do two frames that carry the
\* same message await their ACK.
OneFrameInTheAir == \A u \in Uid : \A j, k \in Outstanding(u) : j = k

\* A row shown as delivered is one whose text the peer has.
DeliveredIsReceived ==
    \A i \in DOMAIN rows :
        rows[i].status = "DELIVERED" => \E k \in accepted : frame[k] = rows[i].uid

\* A parked row leaves QUEUED by delivery, by Cancel or by the park window,
\* never because an attempt to send it failed or was made.
ParkedIsSticky ==
    [][\A i \in DOMAIN rows :
          rows[i].status = "QUEUED" /\ rows'[i].status # "QUEUED" =>
              \/ rows'[i].status = "DELIVERED" /\ \E k \in Pkt : HandleAck(k)
              \/ \E u \in Uid : Cancel(u)
              \/ ExpireParked(i)]_sendVars

Pending(i) == i \in DOMAIN rows /\ rows[i].status \in {"NONE", "SENT"}

\* Every message shown as pending comes to an end the user can see.
PendingEnds == \A i \in 1..(MaxUid + MaxPkt) : Pending(i) ~> ~Pending(i)
=============================================================================
