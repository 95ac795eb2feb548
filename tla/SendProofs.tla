----------------------------- MODULE SendProofs -----------------------------
(***************************************************************************)
(* The send path, for any number of messages, frames, queue entries and    *)
(* pending ACKs, any number of retries and any changes of route and        *)
(* session: with each send run to its end a message keeps one row and one  *)
(* frame in the air, and DELIVERED is the truth.  The steps of the drain,  *)
(* of the flush and of the parked messages keep the invariant too.         *)
(***************************************************************************)
EXTENDS SendPipeline

(* mesh_flush_parked_for takes the list of the parked messages.            *)
LEMMA FlushParkedKeeps ==
    ASSUME SendIInv, RunsToEnd, FlushParked, SendTypeOK'
    PROVE  SendIInv'
<1>1. "mesh" \in Tasks \ {"worker"} /\ "mesh" \in Tasks /\ SendTypeOK /\ TasksOK
  BY Zenon DEF Tasks, SendIInv, SendTypeOK
<1>2. At("mesh", "idle") /\ UNCHANGED <<rows, queue, pending, frame, link, sess, route, written>>
  BY Zenon DEF FlushParked
<1>3. \A q \in Tasks : task[q] = Idle
  BY <1>1, <1>2, AllIdle, Zenon
<1>4. PICK d : task' = [task EXCEPT !["mesh"] = Begin("parked", 0, FALSE, 0, d)]
  BY Zenon DEF FlushParked
<1>5. 0 \in Nat /\ FALSE \in BOOLEAN /\ 0 \in 0 .. MaxUid
  BY Constants, Zenon
<1>6. Began("mesh", "parked", 0, FALSE, 0, d)
  BY <1>1, <1>4, <1>5, TaskStarts, Zenon
<1>7. SenderSound(task["mesh"])'
  BY <1>6, Zenon DEF Began, SenderSound, Sending, FreshHasNoRow, JustSent
<1>8. Solo("mesh") /\ task["mesh"].pc # "stamp"
  BY <1>1, <1>3, <1>6, <1>7, IdleHolds, Zenon DEF Solo, Began
<1>9. TablesSame /\ NoneQueued
  BY <1>1, <1>2, NothingSent, NoRowChanged, Zenon DEF NoneQueued
<1> QED
  BY <1>1, <1>2, <1>8, <1>9, SenderStep, Zenon

(* The next of them is sent, unless a frame of it awaits its ACK.          *)
LEMMA NextParkedKeeps ==
    ASSUME SendIInv, RunsToEnd, NextParkedRow, SendTypeOK'
    PROVE  SendIInv'
<1>1. "mesh" \in Tasks \ {"worker"} /\ "mesh" \in Tasks /\ SendTypeOK /\ TasksOK /\ rows \in Seq(Row)
  BY Zenon DEF Tasks, SendIInv, SendTypeOK
<1>2. /\ Runs("mesh") /\ task["mesh"].pc = "parked"
      /\ UNCHANGED <<rows, queue, pending, frame, link, sess, route, written>>
  BY Zenon DEF NextParkedRow, At
<1>3. (\A q \in Tasks \ {"mesh"} : task[q] = Idle) /\ task["mesh"].slot = 0 /\ ~task["mesh"].fresh
  BY <1>1, <1>2, SenderStarts, Zenon
<1>4. PICK u, d : u = Head(task["mesh"].todo) /\ d = Tail(task["mesh"].todo)
  BY Zenon
<1>5. TablesSame /\ NoneQueued
  BY <1>1, <1>2, NothingSent, NoRowChanged, Zenon DEF NoneQueued
<1>6. Solo("mesh")
  <2>1. CASE Resends(u)
    <3>1. PICK i \in DOMAIN rows : i = RowOf(u) /\ rows[i].uid = u /\ u # 0
      BY <1>1, <2>1, RowFound, Zenon DEF Resends
    <3>2. u \in 1 .. written
      BY <3>1, Zenon DEF SendIInv, RowSound
    <3>3. Quiet(u)
      <4>1. ASSUME NEW k \in Pkt, frame[k] = u, pending[k] # Inactive PROVE FALSE
        <5>1. PICK j \in DOMAIN rows : rows[j].uid = u /\ rows[j].pkt = k
          BY <1>2, <1>3, <4>1, IdleHolds, Zenon DEF SendIInv, RowTracks
        <5>2. j = i
          BY <3>1, <5>1, Zenon DEF SendIInv, RowSound, OneRowPerMessage
        <5>3. k # 0
          BY Packets, Zenon
        <5> QED
          BY <2>1, <3>1, <4>1, <5>1, <5>2, <5>3, Zenon DEF Resends, Active
      <4> QED
        BY <4>1, Zenon DEF Quiet
    <3>4. route => \A s \in QSlot : queue[s].used => queue[s].reason # "route"
      BY <1>3, Zenon DEF SendIInv, DrainSound
    <3>5. task' = [task EXCEPT !["mesh"] = Begin("send", u, FALSE, 0, d)]
      BY <1>4, <2>1, Zenon DEF NextParkedRow
    <3>6. 0 \in Nat /\ FALSE \in BOOLEAN /\ u \in 0 .. MaxUid
      BY <1>1, <3>2, Constants, Messages, Zenon DEF SendTypeOK
    <3>7. Began("mesh", "send", u, FALSE, 0, d)
      BY <1>1, <3>5, <3>6, TaskStarts, Zenon
    <3>8. Sending(task["mesh"])'
      BY <1>2, <3>2, <3>3, <3>4, <3>7, Zenon DEF Sending, Quiet, Began
    <3>9. SenderSound(task["mesh"])'
      BY <3>7, <3>8, Zenon DEF Began, SenderSound, FreshHasNoRow, JustSent
    <3> QED
      BY <1>3, <3>7, <3>9, Zenon DEF Solo, Began
  <2>2. CASE ~Resends(u) /\ d = <<>>
    <3>1. task' = [task EXCEPT !["mesh"] = Idle]
      BY <1>4, <2>2, Zenon DEF NextParkedRow
    <3>2. task'["mesh"] = Idle /\ \A q \in Tasks \ {"mesh"} : task'[q] = task[q]
      BY <1>1, <3>1, TaskStops, Zenon
    <3>3. SenderSound(task["mesh"])'
      BY <1>1, <3>2, IdleSound, Zenon
    <3> QED
      BY <1>3, <3>2, <3>3, IdleHolds, Zenon DEF Solo
  <2>3. CASE ~Resends(u) /\ d # <<>>
    <3>1. /\ \A q \in Tasks \ {"mesh"} : task'[q] = task[q]
          /\ task'["mesh"].pc = "parked" /\ task'["mesh"].slot = 0 /\ ~task'["mesh"].fresh
      BY <1>1, <1>2, <1>3, <1>4, <2>3, ParkedRest, Zenon
    <3>2. SenderSound(task["mesh"])'
      BY <3>1, Zenon DEF SenderSound, Sending, FreshHasNoRow, JustSent
    <3> QED
      BY <1>3, <3>1, <3>2, Zenon DEF Solo
  <2> QED
    BY <2>1, <2>2, <2>3, Zenon
<1>7. task["mesh"].pc # "stamp"
  BY <1>2, Zenon
<1> QED
  BY <1>1, <1>2, <1>5, <1>6, <1>7, SenderStep, Zenon

(* The mesh task moves on its own and sends nothing.                       *)
LEMMA MeshMoves ==
    ASSUME SendIInv, \A q \in Tasks \ {"mesh"} : task[q] = Idle /\ task'[q] = Idle, SenderSound(task["mesh"])',
           task["mesh"].pc # "stamp", TablesSame, QueueOnce', QueueZero', QueueQuiet', DrainSound'
    PROVE  SendIInv'
<1>1. "mesh" \in Tasks /\ "mesh" # "worker" /\ "mesh" # "user"
  BY Zenon DEF Tasks
<1>2. Alone' /\ TaskSound'
  BY <1>1, SoloSound, Zenon
<1>3. FrameSound' /\ RowSound' /\ RowTracks'
  <2>1. \A q \in Tasks : task[q].pc # "stamp"
    BY IdleHolds, Zenon
  <2> QED
    BY <2>1, TablesKeep, Zenon
<1> QED
  BY <1>2, <1>3, Zenon DEF SendIInv, TablesSame

(* handle_rrep: the drain starts at the first entry.                       *)
LEMMA RrepKeeps ==
    ASSUME SendIInv, RunsToEnd, HandleRrep, SendTypeOK'
    PROVE  SendIInv'
<1>1. "mesh" \in Tasks /\ "worker" \in Tasks /\ "mesh" # "worker" /\ SendTypeOK /\ TasksOK
  BY Zenon DEF Tasks, SendIInv, SendTypeOK
<1>2. At("mesh", "idle") /\ UNCHANGED <<rows, queue, pending, frame, link, sess, written>>
  BY Zenon DEF HandleRrep
<1>3. \A q \in Tasks : task[q] = Idle
  BY <1>1, <1>2, AllIdle, Zenon
<1>4. Began("mesh", "drain", 0, FALSE, 1, <<>>)
  <2>1. 1 \in Nat /\ FALSE \in BOOLEAN /\ 0 \in 0 .. MaxUid
    BY Constants, Zenon
  <2>2. task' = [task EXCEPT !["mesh"] = Begin("drain", 0, FALSE, 1, <<>>)]
    BY Zenon DEF HandleRrep
  <2> QED
    BY <1>1, <2>1, <2>2, TaskStarts, Zenon
<1>5. \A q \in Tasks \ {"mesh"} : task[q] = Idle /\ task'[q] = Idle
  BY <1>3, <1>4, Zenon DEF Began
<1>6. SenderSound(task["mesh"])'
  BY <1>4, Zenon DEF Began, SenderSound, Sending, FreshHasNoRow, JustSent
<1>7. TablesSame /\ NoneQueued
  BY <1>1, <1>2, NothingSent, NoRowChanged, Zenon DEF NoneQueued
<1>8. \A s \in QSlot : s # 0 /\ 1 <= s
  BY Slots, Zenon
<1>9. task["mesh"].slot = 0 /\ task["mesh"].pc # "stamp" /\ task["worker"].pc \notin {"stamp", "free"}
  BY <1>1, <1>3, IdleHolds, Zenon
<1>10. QueueOnce'
  BY <1>1, <1>7, QueueShrinks, Zenon DEF TablesSame, SendIInv
<1>11. QueueZero'
  BY <1>2, <1>8, <1>9, Zenon DEF SendIInv, QueueZero, QSlot
<1>12. QueueQuiet'
  BY <1>7, <1>9, QueueCalm, Zenon DEF SendIInv, TablesSame
<1>13. DrainSound'
  <2>1. task'["worker"] = task["worker"]
    BY <1>1, <1>3, <1>5, Zenon
  <2>2. 1 # 0
    OBVIOUS
  <2> QED
    BY <1>2, <1>4, <1>8, <2>1, <2>2, Zenon DEF SendIInv, DrainSound, QSlot, Began
<1> QED
  BY <1>5, <1>6, <1>7, <1>9, <1>10, <1>11, <1>12, <1>13, MeshMoves, Zenon

(* The drain's next entry, or its end.                                     *)
LEMMA DrainKeeps ==
    ASSUME SendIInv, RunsToEnd, Drain, SendTypeOK'
    PROVE  SendIInv'
<1>1. "mesh" \in Tasks /\ "worker" \in Tasks /\ "mesh" \in Tasks \ {"worker"} /\ SendTypeOK /\ TasksOK
  BY Zenon DEF Tasks, SendIInv, SendTypeOK
<1>2. /\ Runs("mesh") /\ task["mesh"].pc = "drain"
      /\ UNCHANGED <<rows, pending, frame, link, sess, route, written>>
  BY Zenon DEF Drain, At
<1>3. \A q \in Tasks \ {"mesh"} : task[q] = Idle
  BY <1>1, <1>2, SenderStarts, Zenon
<1>4. TablesSame
  BY <1>1, <1>2, NothingSent, NoRowChanged, Zenon
<1>5. \A x \in QSlot : queue[x].used => queue[x].uid # 0
  BY <1>2, Zenon DEF SendIInv, QueueZero
<1>6. task["worker"] = Idle /\ task["worker"].pc \notin {"stamp", "free"} /\ task["mesh"].pc # "stamp"
  BY <1>1, <1>2, <1>3, IdleHolds, Zenon
<1>7. PICK n, s : n = task["mesh"].slot /\ s = NextSlot(n, "route")
  BY Zenon
<1>8. CASE s = 0
  <2>1. task' = [task EXCEPT !["mesh"] = Idle] /\ queue' = queue
    BY <1>7, <1>8, Zenon DEF Drain
  <2>2. task'["mesh"] = Idle /\ \A q \in Tasks \ {"mesh"} : task'[q] = task[q]
    BY <1>1, <2>1, TaskStops, Zenon
  <2>3. SenderSound(task["mesh"])'
    BY <1>1, <2>2, IdleSound, Zenon
  <2>4. NoneQueued
    BY <2>1, Zenon DEF NoneQueued
  <2>5. QueueOnce'
    BY <1>1, <1>4, <2>4, QueueShrinks, Zenon DEF TablesSame, SendIInv
  <2>6. QueueZero'
    BY <1>5, <2>1, Zenon DEF QueueZero, QSlot
  <2>7. QueueQuiet'
    BY <1>4, <1>6, <2>4, QueueCalm, Zenon DEF SendIInv, TablesSame
  <2>8. DrainSound'
    <3>1. \A x \in QSlot : queue[x].used /\ x >= n => queue[x].reason # "route"
      <4>1. \/ NextSlot(n, "route") = 0 /\ \A x \in QSlot : queue[x].used /\ x >= n => queue[x].reason # "route"
            \/ NextSlot(n, "route") \in QSlot
        BY NextFound, Zenon
      <4>2. NextSlot(n, "route") = 0
        BY <1>7, <1>8, Zenon
      <4>3. NextSlot(n, "route") \notin QSlot
        BY <4>2, Slots, Zenon
      <4> QED
        BY <4>1, <4>3, Zenon
    <3>2. n \in Nat
      BY <1>1, <1>7, Zenon DEF TasksOK, TaskShape
    <3>3. \A x \in QSlot : n <= x => x >= n
      BY <3>2, Behind, Zenon
    <3>4. task'["worker"] = task["worker"]
      BY <1>1, <2>2, Zenon
    <3> QED
      BY <1>2, <1>7, <2>1, <3>1, <3>3, <3>4, Zenon DEF SendIInv, DrainSound, QSlot
  <2> QED
    BY <1>3, <1>4, <1>6, <2>2, <2>3, <2>5, <2>6, <2>7, <2>8, MeshMoves, Zenon
<1>9. CASE s # 0
  <2>1. /\ s \in QSlot /\ s >= n /\ queue[s].used /\ queue[s].reason = "route"
        /\ \A x \in QSlot : queue[x].used /\ queue[x].reason = "route" /\ x >= n => x >= s
    BY <1>7, <1>9, NextFound, Zenon
  <2>2. PICK u : u = queue[s].uid
    BY Zenon
  <2>3. u \in 1 .. written /\ u \in 0 .. MaxUid /\ s \in Nat /\ n \in Nat /\ FALSE \in BOOLEAN
    <3>1. queue[s] \in QEntry /\ TaskShape(task["mesh"])
      BY <1>1, <2>1, Zenon DEF SendTypeOK, TasksOK
    <3>2. u # 0 /\ u <= written
      BY <1>5, <2>1, <2>2, Zenon DEF SendIInv, QueueOnce
    <3>3. n \in Nat
      BY <1>7, <3>1, Zenon DEF TaskShape
    <3> QED
      BY <1>1, <2>1, <2>2, <3>1, <3>2, <3>3, EntryFields, Slots, Messages, Constants, Zenon DEF SendTypeOK
  <2>4. task' = [task EXCEPT !["mesh"] = Begin("send", u, FALSE, s, <<>>)]
    BY <1>7, <1>9, <2>2, Zenon DEF Drain
  <2>5. Began("mesh", "send", u, FALSE, s, <<>>)
    BY <1>1, <2>3, <2>4, TaskStarts, Zenon
  <2>6. /\ \A x \in QSlot \ {s} : queue'[x] = queue[x]
        /\ queue'[s].used /\ queue'[s].uid = 0 /\ queue'[s].reason = "route"
    <3>1. queue' = [queue EXCEPT ![s].uid = 0]
      BY <1>7, <1>9, Zenon DEF Drain
    <3>2. queue \in [QSlot -> QEntry]
      BY <1>1, Zenon DEF SendTypeOK
    <3> QED
      BY <2>1, <3>1, <3>2, EntryTaken, Zenon
  <2>7. QueueOnce'
    <3>1. 0 <= written
      BY <1>1, Messages, Zenon DEF SendTypeOK
    <3>2. QueueOnce
      BY Zenon DEF SendIInv
    <3>3. \A x \in QSlot : queue'[x].used => queue'[x].uid <= written'
      BY <1>2, <2>6, <3>1, <3>2, Zenon DEF QueueOnce
    <3>4. \A x \in QSlot : queue'[x].used /\ queue'[x].uid # 0 => x # s /\ queue'[x] = queue[x]
      BY <2>6, Zenon
    <3> QED
      BY <3>2, <3>3, <3>4, Zenon DEF QueueOnce, QSlot
  <2>8. QueueZero'
    <3>1. ASSUME NEW x \in QSlot, queue'[x].used, queue'[x].uid = 0 PROVE x = s
      BY <1>5, <2>6, <3>1, Zenon
    <3>2. task'["mesh"].slot = s /\ task'["mesh"].pc # "drain"
      BY <2>5, Zenon DEF Began
    <3> QED
      BY <2>6, <3>1, <3>2, Zenon DEF QueueZero, QSlot
  <2>9. QueueQuiet'
    <3>1. ASSUME NEW x \in QSlot, queue'[x].used, queue'[x].uid # 0 PROVE Quiet(queue[x].uid)'
      <4>1. queue'[x] = queue[x]
        BY <2>6, <3>1, Zenon
      <4>2. Quiet(queue[x].uid)
        BY <1>6, <3>1, <4>1, Zenon DEF SendIInv, QueueQuiet
      <4> QED
        BY <1>2, <4>1, <4>2, Zenon DEF Quiet
    <3> QED
      BY <3>1, Zenon DEF QueueQuiet, QSlot
  <2>10. DrainSound'
    <3>1. \A x \in QSlot : n <= x => x >= n
      BY <2>3, Behind, Zenon
    <3>2. \A x \in QSlot : x >= s => s <= x
      BY <2>3, Behind, Zenon
    <3>3. \A x \in QSlot : queue'[x].used => queue[x].used /\ queue'[x].reason = queue[x].reason
      BY <2>1, <2>6, Zenon
    <3>4. task'["worker"] = task["worker"] /\ task'["mesh"].slot = s
      BY <1>1, <2>5, Zenon DEF Began
    <3>5. ASSUME NEW x \in QSlot, queue'[x].used, queue'[x].reason = "route", route' PROVE s <= x
      <4>1. queue[x].used /\ queue[x].reason = "route" /\ route
        BY <1>2, <3>3, <3>5, Zenon
      <4>2. n <= x
        BY <1>7, <3>5, <4>1, Zenon DEF SendIInv, DrainSound
      <4> QED
        BY <2>1, <3>1, <3>2, <3>5, <4>1, <4>2, Zenon
    <3>6. ASSUME NEW x \in QSlot, queue'[x].used, queue'[x].reason = "session", sess' = "active"
          PROVE  task'["worker"].slot # 0 /\ task'["worker"].slot <= x
      BY <1>2, <3>3, <3>4, <3>6, Zenon DEF SendIInv, DrainSound
    <3> QED
      BY <1>9, <3>4, <3>5, <3>6, Zenon DEF DrainSound, QSlot
  <2>11. SenderSound(task["mesh"])'
    <3>1. Quiet(u)
      BY <1>5, <1>6, <2>1, <2>2, Zenon DEF SendIInv, QueueQuiet
    <3>2. ASSUME NEW x \in QSlot, queue'[x].used PROVE queue'[x].uid # u
      <4>1. CASE x = s
        BY <1>5, <2>1, <2>2, <2>6, <4>1, Zenon
      <4>2. CASE x # s
        BY <1>5, <2>1, <2>2, <2>6, <3>2, <4>2, Zenon DEF SendIInv, QueueOnce
      <4> QED
        BY <4>1, <4>2, Zenon
    <3>3. Quiet(u)'
      BY <1>2, <3>1, Zenon DEF Quiet
    <3>4. Sending(task["mesh"])'
      BY <1>2, <2>3, <2>5, <3>2, <3>3, Zenon DEF Sending, Quiet, Began, QSlot
    <3> QED
      BY <2>5, <3>4, Zenon DEF Began, SenderSound, FreshHasNoRow, JustSent
  <2>12. \A q \in Tasks \ {"mesh"} : task[q] = Idle /\ task'[q] = Idle
    BY <1>3, <2>5, Zenon DEF Began
  <2> QED
    BY <1>4, <1>6, <2>7, <2>8, <2>9, <2>10, <2>11, <2>12, MeshMoves, Zenon
<1> QED
  BY <1>8, <1>9, Zenon

(* What an entry's release leaves: the entries of other slots.             *)
LEMMA OneReleased ==
    ASSUME SendTypeOK, NEW s, Release(s)
    PROVE  /\ NoneQueued
           /\ \A x \in QSlot : queue'[x].used => x # s /\ queue[x].used /\ queue'[x] = queue[x]
<1>1. queue \in [QSlot -> QEntry]
  BY Zenon DEF SendTypeOK
<1>2. (\A x \in QSlot \ {s} : queue'[x] = queue[x]) /\ (s \in QSlot => ~queue'[s].used)
  BY <1>1, Released, Zenon
<1> QED
  BY <1>2, Zenon DEF NoneQueued

(* The entry is freed and the drain goes on behind it.                     *)
LEMMA DrainedKeeps ==
    ASSUME SendIInv, RunsToEnd, Drained("mesh"), SendTypeOK'
    PROVE  SendIInv'
<1>1. "mesh" \in Tasks /\ "worker" \in Tasks /\ "mesh" \in Tasks \ {"worker"} /\ SendTypeOK /\ TasksOK
  BY Zenon DEF Tasks, SendIInv, SendTypeOK
<1>2. /\ Runs("mesh") /\ task["mesh"].pc = "free"
      /\ UNCHANGED <<rows, pending, frame, link, sess, route, written>>
  BY Zenon DEF Drained, At
<1>3. \A q \in Tasks \ {"mesh"} : task[q] = Idle
  BY <1>1, <1>2, SenderStarts, Zenon
<1>4. TablesSame
  BY <1>1, <1>2, NothingSent, NoRowChanged, Zenon
<1>5. task["worker"] = Idle /\ task["worker"].pc \notin {"stamp", "free"} /\ task["mesh"].pc # "stamp"
  BY <1>1, <1>2, <1>3, IdleHolds, Zenon
<1>6. PICK n, m : n = task["mesh"].slot /\ m = n + 1
  BY Zenon
<1>7. n \in Nat /\ m \in Nat /\ m # 0 /\ \A x \in QSlot : n <= x /\ x # n => m <= x
  <2>1. n \in Nat
    BY <1>1, <1>6, Zenon DEF TasksOK, TaskShape
  <2> QED
    BY <1>6, <2>1, Behind, Zenon
<1>8. /\ NoneQueued
      /\ \A x \in QSlot : queue'[x].used => x # n /\ queue[x].used /\ queue'[x] = queue[x]
  BY <1>1, <1>6, OneReleased, ZenonT(30) DEF Drained
<1>9. Began("mesh", "drain", 0, FALSE, m, <<>>)
  <2>1. task' = [task EXCEPT !["mesh"] = Begin("drain", 0, FALSE, m, <<>>)]
    BY <1>6, Zenon DEF Drained
  <2>2. FALSE \in BOOLEAN /\ 0 \in 0 .. MaxUid
    BY Constants, Zenon
  <2> QED
    BY <1>1, <1>7, <2>1, <2>2, TaskStarts, Zenon
<1>10. SenderSound(task["mesh"])'
  BY <1>9, Zenon DEF Began, SenderSound, Sending, FreshHasNoRow, JustSent
<1>11. QueueOnce'
  BY <1>1, <1>4, <1>8, QueueShrinks, Zenon DEF TablesSame, SendIInv
<1>12. QueueZero'
  BY <1>6, <1>8, Zenon DEF SendIInv, QueueZero, QSlot
<1>13. QueueQuiet'
  BY <1>4, <1>5, <1>8, QueueCalm, Zenon DEF SendIInv, TablesSame
<1>14. DrainSound'
  <2>1. task'["worker"] = task["worker"] /\ task'["mesh"].slot = m
    BY <1>1, <1>9, Zenon DEF Began
  <2>2. ASSUME NEW x \in QSlot, queue'[x].used, queue'[x].reason = "route", route' PROVE m <= x
    BY <1>2, <1>6, <1>7, <1>8, <2>2, Zenon DEF SendIInv, DrainSound
  <2>3. ASSUME NEW x \in QSlot, queue'[x].used, queue'[x].reason = "session", sess' = "active"
        PROVE  task'["worker"].slot # 0 /\ task'["worker"].slot <= x
    BY <1>2, <1>8, <2>1, <2>3, Zenon DEF SendIInv, DrainSound
  <2> QED
    BY <1>7, <2>1, <2>2, <2>3, Zenon DEF DrainSound, QSlot
<1>15. \A q \in Tasks \ {"mesh"} : task[q] = Idle /\ task'[q] = Idle
  BY <1>3, <1>9, Zenon DEF Began
<1> QED
  BY <1>4, <1>5, <1>10, <1>11, <1>12, <1>13, <1>14, <1>15, MeshMoves, Zenon

-----------------------------------------------------------------------------
(* What a step of the worker starts from.                                  *)
LEMMA WorkerStarts ==
    ASSUME SendIInv, RunsToEnd, Runs("worker")
    PROVE  /\ SendTypeOK /\ TasksOK /\ "worker" \in Tasks /\ \A q \in Tasks \ {"worker"} : task[q] = Idle
           /\ task["worker"].slot \in Nat /\ WorkerSound(task["worker"])
           /\ \A x \in QSlot : queue[x].used => queue[x].uid # 0
<1>1. SendTypeOK /\ TasksOK /\ "worker" \in Tasks /\ "mesh" \in Tasks \ {"worker"} /\ WorkerSound(task["worker"])
  BY Zenon DEF SendIInv, SendTypeOK, TaskSound, Tasks
<1>2. \A q \in Tasks \ {"worker"} : task[q] = Idle
  BY <1>1, OthersIdle, Zenon
<1>3. \A x \in QSlot : x # 0
  BY Slots, Zenon
<1>4. task["mesh"].slot = 0
  BY <1>1, <1>2, IdleHolds, Zenon
<1> QED
  BY <1>1, <1>2, <1>3, <1>4, Zenon DEF SendIInv, QueueZero, TasksOK, TaskShape

(* The worker moves on its own and queues nothing.                         *)
LEMMA WorkerMoves ==
    ASSUME SendIInv, RunsToEnd, Runs("worker"), \A q \in Tasks \ {"worker"} : task'[q] = task[q],
           WorkerSound(task["worker"])', SendTypeOK', written' = written, NoneQueued,
           FrameSound', RowSound', RowTracks', QueueQuiet', DrainSound'
    PROVE  SendIInv'
<1>1. /\ SendTypeOK /\ "worker" \in Tasks /\ \A q \in Tasks \ {"worker"} : task[q] = Idle
      /\ \A x \in QSlot : queue[x].used => queue[x].uid # 0
  BY WorkerStarts, Zenon
<1>2. Alone' /\ TaskSound'
  <2>1. "worker" # "mesh" /\ "worker" # "user" /\ \A q \in Tasks \ {"worker"} : task'[q] = Idle
    BY <1>1, Zenon
  <2> QED
    BY <1>1, <2>1, SoloSound, Zenon
<1>3. QueueZero'
  BY <1>1, Zenon DEF QueueZero, NoneQueued, QSlot
<1>4. QueueOnce'
  <2>1. written <= written'
    BY <1>1, WrittenSame, Zenon
  <2> QED
    BY <1>1, <2>1, QueueShrinks, Zenon DEF SendIInv
<1> QED
  BY <1>2, <1>3, <1>4, Zenon DEF SendIInv

(* The flush goes on from slot m: what waits for a session is behind it.   *)
LEMMA FlushGoesOn ==
    ASSUME SendIInv, RunsToEnd, Runs("worker"), \A q \in Tasks \ {"worker"} : task'[q] = task[q],
           route' = route, NoneQueued, NEW m, m # 0, task'["worker"].slot = m,
           sess' = "active" => \A x \in QSlot : queue'[x].used /\ queue'[x].reason = "session" => m <= x
    PROVE  DrainSound'
<1>1. "mesh" \in Tasks \ {"worker"} /\ task'["mesh"] = task["mesh"]
  BY Zenon DEF Tasks
<1>2. \A x \in QSlot : queue'[x].used => queue'[x] = queue[x] /\ queue[x].used
  BY Zenon DEF NoneQueued
<1> QED
  BY <1>1, <1>2, Zenon DEF SendIInv, DrainSound, QSlot

(* process_ke_init, process_ke_resp: the session is there.                 *)
LEMMA EstablishKeeps ==
    ASSUME SendIInv, RunsToEnd, Establish, SendTypeOK'
    PROVE  SendIInv'
<1>1. Runs("worker") /\ task["worker"].pc = "idle" /\ UNCHANGED <<rows, queue, pending, frame, link, route, written>>
  BY Zenon DEF Establish, At
<1>2. SendTypeOK /\ TasksOK /\ "worker" \in Tasks /\ \A q \in Tasks \ {"worker"} : task[q] = Idle
  BY <1>1, WorkerStarts, Zenon
<1>3. Began("worker", "flush", 0, FALSE, 1, <<>>)
  <2>1. 1 \in Nat /\ FALSE \in BOOLEAN /\ 0 \in 0 .. MaxUid
    BY Constants, Zenon
  <2>2. task' = [task EXCEPT !["worker"] = Begin("flush", 0, FALSE, 1, <<>>)]
    BY Zenon DEF Establish
  <2> QED
    BY <1>2, <2>1, <2>2, TaskStarts, Zenon
<1>4. WorkerSound(task["worker"])'
  BY <1>3, Zenon DEF Began, WorkerSound, JustSent
<1>5. TablesSame /\ NoneQueued
  BY <1>1, <1>2, NothingSent, NoRowChanged, Zenon DEF NoneQueued
<1>6. FrameSound' /\ RowSound' /\ RowTracks'
  <2>1. \A q \in Tasks : task[q].pc # "stamp"
    BY <1>1, <1>2, IdleHolds, Zenon
  <2> QED
    BY <1>5, <2>1, TablesKeep, Zenon
<1>7. QueueQuiet'
  BY <1>1, <1>5, QueueCalm, Zenon DEF SendIInv, TablesSame
<1>8. DrainSound'
  <2>1. 1 # 0 /\ \A x \in QSlot : 1 <= x
    BY Constants, Slots, Zenon
  <2>2. task'["worker"].slot = 1 /\ \A q \in Tasks \ {"worker"} : task'[q] = task[q]
    BY <1>3, Zenon DEF Began
  <2> QED
    BY <1>1, <1>5, <2>1, <2>2, FlushGoesOn, Zenon
<1> QED
  BY <1>1, <1>3, <1>4, <1>5, <1>6, <1>7, <1>8, WorkerMoves, Zenon DEF Began

(* The entry is freed and the flush goes on behind it.                     *)
LEMMA FlushedKeeps ==
    ASSUME SendIInv, RunsToEnd, Drained("worker"), SendTypeOK'
    PROVE  SendIInv'
<1>1. Runs("worker") /\ task["worker"].pc = "free" /\ UNCHANGED <<rows, pending, frame, link, sess, route, written>>
  BY Zenon DEF Drained, At
<1>2. /\ SendTypeOK /\ TasksOK /\ "worker" \in Tasks /\ task["worker"].slot \in Nat
      /\ \A q \in Tasks \ {"worker"} : task[q] = Idle
  BY <1>1, WorkerStarts, Zenon
<1>3. PICK n, m : n = task["worker"].slot /\ m = n + 1
  BY Zenon
<1>4. m \in Nat /\ m # 0 /\ \A x \in QSlot : n <= x /\ x # n => m <= x
  <2>1. n \in Nat
    BY <1>2, <1>3, Zenon
  <2> QED
    BY <1>3, <2>1, Behind, Zenon
<1>5. Began("worker", "flush", 0, FALSE, m, <<>>)
  <2>1. FALSE \in BOOLEAN /\ 0 \in 0 .. MaxUid
    BY Constants, Zenon
  <2>2. task' = [task EXCEPT !["worker"] = Begin("flush", 0, FALSE, m, <<>>)]
    BY <1>3, Zenon DEF Drained
  <2> QED
    BY <1>2, <1>4, <2>1, <2>2, TaskStarts, Zenon
<1>6. WorkerSound(task["worker"])'
  BY <1>5, Zenon DEF Began, WorkerSound, JustSent
<1>7. NoneQueued /\ \A x \in QSlot : queue'[x].used => x # n /\ queue[x].used /\ queue'[x] = queue[x]
  BY <1>2, <1>3, OneReleased, ZenonT(30) DEF Drained
<1>8. TablesSame
  BY <1>1, <1>2, NothingSent, NoRowChanged, Zenon
<1>9. FrameSound' /\ RowSound' /\ RowTracks'
  <2>1. \A q \in Tasks : task[q].pc # "stamp"
    BY <1>1, <1>2, IdleHolds, Zenon
  <2> QED
    BY <1>8, <2>1, TablesKeep, Zenon
<1>10. QueueQuiet'
  BY <1>3, <1>7, <1>8, QueueCalm, Zenon DEF SendIInv, TablesSame
<1>11. DrainSound'
  <2>1. task'["worker"].slot = m /\ \A q \in Tasks \ {"worker"} : task'[q] = task[q]
    BY <1>5, Zenon DEF Began
  <2>2. sess' = "active" => \A x \in QSlot : queue'[x].used /\ queue'[x].reason = "session" => m <= x
    BY <1>1, <1>3, <1>4, <1>7, Zenon DEF SendIInv, DrainSound
  <2> QED
    BY <1>1, <1>4, <1>7, <2>1, <2>2, FlushGoesOn, Zenon
<1> QED
  BY <1>1, <1>5, <1>6, <1>7, <1>8, <1>9, <1>10, <1>11, WorkerMoves, Zenon DEF Began

(* Nothing is left to flush.                                               *)
LEMMA FlushEnds ==
    ASSUME SendIInv, RunsToEnd, FlushSession, NextSlot(task["worker"].slot, "session") = 0, SendTypeOK'
    PROVE  SendIInv'
<1>1. /\ Runs("worker") /\ task["worker"].pc = "flush" /\ task' = [task EXCEPT !["worker"] = Idle]
      /\ UNCHANGED <<rows, queue, pending, frame, link, sess, route, written>>
  BY Zenon DEF FlushSession, At
<1>2. /\ SendTypeOK /\ TasksOK /\ "worker" \in Tasks /\ task["worker"].slot \in Nat
      /\ \A q \in Tasks \ {"worker"} : task[q] = Idle
  BY <1>1, WorkerStarts, Zenon
<1>3. task'["worker"] = Idle /\ \A q \in Tasks \ {"worker"} : task'[q] = task[q]
  BY <1>1, <1>2, TaskStops, Zenon
<1>4. WorkerSound(task["worker"])'
  BY <1>2, <1>3, IdleSound, Zenon
<1>5. TablesSame /\ NoneQueued
  BY <1>1, <1>2, NothingSent, NoRowChanged, Zenon DEF NoneQueued
<1>6. FrameSound' /\ RowSound' /\ RowTracks'
  <2>1. \A q \in Tasks : task[q].pc # "stamp"
    BY <1>1, <1>2, IdleHolds, Zenon
  <2> QED
    BY <1>5, <2>1, TablesKeep, Zenon
<1>7. QueueQuiet'
  BY <1>1, <1>5, QueueCalm, Zenon DEF SendIInv, TablesSame
<1>8. DrainSound'
  <2>1. PICK n : n = task["worker"].slot
    BY Zenon
  <2>2. \A x \in QSlot : queue[x].used /\ x >= n => queue[x].reason # "session"
    BY <2>1, NextFound, Zenon
  <2>3. \A x \in QSlot : n <= x => x >= n
    BY <1>2, <2>1, Behind, Zenon
  <2>4. "mesh" \in Tasks \ {"worker"} /\ task'["mesh"] = task["mesh"]
    BY <1>3, Zenon DEF Tasks
  <2> QED
    BY <1>1, <2>1, <2>2, <2>3, <2>4, Zenon DEF SendIInv, DrainSound, QSlot
<1> QED
  BY <1>1, <1>3, <1>4, <1>5, <1>6, <1>7, <1>8, WorkerMoves, Zenon

(* The entry cannot be sent: its message fails and it is freed.            *)
LEMMA FlushFailsKeeps ==
    ASSUME SendIInv, RunsToEnd, FlushSession, NEW s, s = NextSlot(task["worker"].slot, "session"), s # 0,
           FlushFails(s), SendTypeOK'
    PROVE  SendIInv'
<1>1. /\ Runs("worker") /\ task["worker"].pc = "flush"
      /\ UNCHANGED <<pending, frame, link, sess, route, written>>
  BY Zenon DEF FlushSession, FlushFails, At
<1>2. /\ SendTypeOK /\ TasksOK /\ "worker" \in Tasks /\ task["worker"].slot \in Nat
      /\ (\A q \in Tasks \ {"worker"} : task[q] = Idle) /\ ~task["worker"].fresh
  BY <1>1, WorkerStarts, Zenon DEF WorkerSound
<1>3. PICK n, m : n = task["worker"].slot /\ m = s + 1
  BY Zenon
<1>4. s \in QSlot /\ \A x \in QSlot : queue[x].used /\ queue[x].reason = "session" /\ x >= n => x >= s
  BY <1>3, NextFound, Zenon
<1>5. m # 0 /\ (\A x \in QSlot : n <= x => x >= n) /\ \A x \in QSlot : x >= s /\ x # s => m <= x
  <2>1. n \in Nat /\ s \in Nat
    BY <1>2, <1>3, <1>4, Slots, Zenon
  <2> QED
    BY <1>3, <2>1, Behind, Zenon
<1>6. /\ \A q \in Tasks \ {"worker"} : task'[q] = task[q]
      /\ task'["worker"].pc = "flush" /\ task'["worker"].slot = m /\ ~task'["worker"].fresh
  <2>1. task' = [task EXCEPT !["worker"].slot = m]
    BY <1>3, Zenon DEF FlushFails
  <2> QED
    BY <1>1, <1>2, <2>1, SlotMoved, Zenon
<1>7. WorkerSound(task["worker"])'
  BY <1>6, Zenon DEF WorkerSound, JustSent
<1>8. NoneQueued /\ \A x \in QSlot : queue'[x].used => x # s /\ queue[x].used /\ queue'[x] = queue[x]
  BY <1>2, OneReleased, Zenon DEF FlushFails
<1>9. TablesSame
  <2>1. RowsKept
    BY <1>2, FailedKept, Zenon DEF FlushFails, SendTypeOK
  <2> QED
    BY <1>1, <2>1, NothingSent, Zenon
<1>10. FrameSound' /\ RowSound' /\ RowTracks'
  <2>1. \A q \in Tasks : task[q].pc # "stamp"
    BY <1>1, <1>2, IdleHolds, Zenon
  <2> QED
    BY <1>9, <2>1, TablesKeep, Zenon
<1>11. QueueQuiet'
  BY <1>1, <1>8, <1>9, QueueCalm, Zenon DEF SendIInv, TablesSame
<1>12. DrainSound'
  <2>1. sess' = "active" => \A x \in QSlot : queue'[x].used /\ queue'[x].reason = "session" => m <= x
    BY <1>1, <1>3, <1>4, <1>5, <1>8, Zenon DEF SendIInv, DrainSound
  <2> QED
    BY <1>1, <1>5, <1>6, <1>8, <2>1, FlushGoesOn, Zenon
<1> QED
  BY <1>1, <1>6, <1>7, <1>8, <1>9, <1>10, <1>11, <1>12, WorkerMoves, Zenon

(* The entry is sent under the session.                                    *)
LEMMA FlushSendKeeps ==
    ASSUME SendIInv, RunsToEnd, FlushSession, NEW s, s = NextSlot(task["worker"].slot, "session"), s # 0,
           FlushSend(s), SendTypeOK'
    PROVE  SendIInv'
<1>1. /\ Runs("worker") /\ task["worker"].pc = "flush"
      /\ UNCHANGED <<rows, queue, pending, sess, route, written>> /\ NoneQueued
  BY Zenon DEF FlushSession, FlushSend, At, NoneQueued
<1>2. /\ SendTypeOK /\ TasksOK /\ "worker" \in Tasks /\ task["worker"].slot \in Nat
      /\ \A q \in Tasks \ {"worker"} : task[q] = Idle
      /\ \A x \in QSlot : queue[x].used => queue[x].uid # 0
  BY <1>1, WorkerStarts, Zenon
<1>3. PICK n, u : n = task["worker"].slot /\ u = queue[s].uid
  BY Zenon
<1>4. s \in QSlot /\ queue[s].used /\ \A x \in QSlot : queue[x].used /\ queue[x].reason = "session" /\ x >= n => x >= s
  BY <1>3, NextFound, Zenon
<1>5. (\A x \in QSlot : n <= x => x >= n) /\ \A x \in QSlot : x >= s => s <= x
  <2>1. n \in Nat /\ s \in Nat
    BY <1>2, <1>3, <1>4, Slots, Zenon
  <2> QED
    BY <2>1, Behind, Zenon
<1>6. u \in 1 .. written /\ queue[s].data = u
  <2>1. queue[s] \in QEntry
    BY <1>2, <1>4, Zenon DEF SendTypeOK
  <2>2. u # 0 /\ u <= written /\ queue[s].data = u
    BY <1>2, <1>3, <1>4, Zenon DEF SendIInv, QueueOnce
  <2> QED
    BY <1>2, <1>3, <2>1, <2>2, EntryFields, Messages, Zenon DEF SendTypeOK
<1>7. Quiet(u)
  BY <1>1, <1>2, <1>3, <1>4, Zenon DEF SendIInv, QueueQuiet
<1>8. \A q \in Tasks : task[q].pc # "stamp"
  BY <1>1, <1>2, IdleHolds, Zenon
<1>9. Transmit("worker", u)
  BY <1>6, Zenon DEF FlushSend
<1>10. Calms /\ FrameSound' /\ RowSound' /\ RowTracks' /\ NextPkt \in Pkt /\ frame'[NextPkt] = u
  BY <1>1, <1>6, <1>8, <1>9, NewFrame, Zenon
<1>11. /\ \A q \in Tasks \ {"worker"} : task'[q] = task[q]
       /\ task'["worker"].pc = "track" /\ task'["worker"].slot = s /\ ~task'["worker"].fresh
       /\ task'["worker"].pkt = NextPkt
  <2>1. PICK x : x = [pc |-> "track", uid |-> 0, fresh |-> FALSE, pkt |-> NextPkt, slot |-> s, todo |-> <<>>]
    BY Zenon
  <2>2. task' = [task EXCEPT !["worker"] = x]
    BY <2>1, Zenon DEF FlushSend
  <2>3. task'["worker"] = x /\ \A q \in Tasks \ {"worker"} : task'[q] = task[q]
    BY <1>2, <2>2, Zenon DEF TasksOK
  <2>4. x.pc = "track" /\ x.slot = s /\ ~x.fresh /\ x.pkt = NextPkt
    BY <2>1, Tracking, Zenon
  <2> QED
    BY <2>3, <2>4, Zenon
<1>12. WorkerSound(task["worker"])'
  <2>1. Quiet(u)'
    BY <1>7, <1>10, CalmQuiet, Zenon
  <2>2. NotQueued(u, s)'
    BY <1>1, <1>2, <1>3, <1>4, Zenon DEF NotQueued, SendIInv, QueueOnce, QSlot
  <2>3. queue'[s].uid = u /\ written' = written
    BY <1>1, <1>3, Zenon
  <2>4. \A k \in Pkt : frame'[k] = u /\ pending'[k] # Inactive => k = NextPkt
    BY <2>1, Zenon DEF Quiet, Pkt, Inactive
  <2>5. JustSent(task["worker"], queue[task["worker"].slot].uid, task["worker"].slot)'
    BY <1>6, <1>10, <1>11, <2>1, <2>2, <2>3, <2>4, Zenon DEF JustSent, Quiet, NotQueued, Pkt, Inactive, QSlot
  <2> QED
    BY <1>11, <2>5, Zenon DEF WorkerSound
<1>13. QueueQuiet'
  BY <1>1, <1>10, QueueCalm, Zenon DEF SendIInv
<1>14. DrainSound'
  <2>1. sess' = "active" => \A x \in QSlot : queue'[x].used /\ queue'[x].reason = "session" => s <= x
    BY <1>1, <1>3, <1>4, <1>5, Zenon DEF SendIInv, DrainSound
  <2> QED
    BY <1>1, <1>11, <2>1, FlushGoesOn, Zenon
<1> QED
  BY <1>1, <1>10, <1>11, <1>12, <1>13, <1>14, WorkerMoves, Zenon

(* flush_session_queue, one entry.                                         *)
LEMMA FlushKeeps ==
    ASSUME SendIInv, RunsToEnd, FlushSession, SendTypeOK'
    PROVE  SendIInv'
<1>1. PICK s : s = NextSlot(task["worker"].slot, "session")
  BY Zenon
<1>2. CASE s = 0
  BY <1>1, <1>2, FlushEnds, Zenon
<1>3. CASE s # 0
  <2>1. FlushSend(s) \/ FlushFails(s)
    BY <1>1, <1>3, Zenon DEF FlushSession
  <2> QED
    BY <1>1, <1>3, <2>1, FlushSendKeeps, FlushFailsKeeps, Zenon
<1> QED
  BY <1>2, <1>3, Zenon

(* The flushed frame awaits its ACK, if there is room.                     *)
LEMMA FlushTrackKeeps ==
    ASSUME SendIInv, RunsToEnd, Track("worker"), SendTypeOK'
    PROVE  SendIInv'
<1>1. /\ Runs("worker") /\ task["worker"].pc = "track" /\ Goto("worker", "stamp")
      /\ UNCHANGED <<rows, queue, frame, link, written>> /\ sess' = sess /\ route' = route /\ NoneQueued
  BY Zenon DEF Track, At, NoneQueued
<1>2. /\ SendTypeOK /\ TasksOK /\ "worker" \in Tasks /\ WorkerSound(task["worker"])
      /\ \A q \in Tasks \ {"worker"} : task[q] = Idle
  BY <1>1, WorkerStarts, Zenon
<1>3. PICK u, k, s : s = task["worker"].slot /\ u = queue[s].uid /\ k = task["worker"].pkt
  BY Zenon
<1>4. s \in QSlot /\ u \in 1 .. written /\ k \in Pkt /\ frame[k] = u /\ Quiet(u) /\ NotQueued(u, s)
  BY <1>1, <1>2, <1>3, Zenon DEF WorkerSound, JustSent, TasksOK
<1>5. /\ \A q \in Tasks \ {"worker"} : task'[q] = task[q]
      /\ task'["worker"].pc = "stamp" /\ task'["worker"].fresh = task["worker"].fresh
      /\ task'["worker"].pkt = k /\ task'["worker"].slot = s
  <2>1. task["worker"].slot \in QSlot
    BY <1>3, <1>4, Zenon
  <2> QED
    BY <1>1, <1>2, <1>3, <2>1, TaskGoes, Zenon
<1>6. \A q \in Tasks : task[q].pc # "stamp"
  BY <1>1, <1>2, IdleHolds, Zenon
<1>7. pending' = pending \/ pending' = [pending EXCEPT ![k] = 0]
  BY <1>3, Zenon DEF Track
<1>8. /\ FrameSound' /\ RowSound' /\ RowTracks'
      /\ \A v : v # u /\ Quiet(v) => Quiet(v)'
      /\ \A j \in Pkt : frame'[j] = u /\ pending'[j] # Inactive => j = k
  <2>1. PICK t \in Tasks : task'[t].pc = "stamp" /\ task'[t].pkt = k
    BY <1>2, <1>5, Zenon
  <2>2. UNCHANGED <<rows, frame, link, written>> /\ u \in 1 .. written /\ k \in Pkt /\ frame[k] = u /\ Quiet(u)
    BY <1>1, <1>4, Zenon
  <2> QED
    <3>1. FrameSound' /\ RowSound' /\ RowTracks'
      BY <1>6, <1>7, <2>1, <2>2, NewAck, Zenon
    <3>2. \A v : v # u /\ Quiet(v) => Quiet(v)'
      BY <1>6, <1>7, <2>1, <2>2, NewAck, Zenon
    <3>3. \A j \in Pkt : frame'[j] = u /\ pending'[j] # Inactive => j = k
      <4>1. DOMAIN pending = Pkt
        BY <1>2, Zenon DEF SendTypeOK
      <4>2. \A j \in Pkt \ {k} : pending'[j] = pending[j]
        BY <1>7, <4>1, Zenon
      <4> QED
        BY <2>2, <4>2, Zenon DEF Quiet
    <3> QED
      BY <3>1, <3>2, <3>3, Zenon
<1>9. WorkerSound(task["worker"])'
  <2>1. queue'[s].uid = u /\ written' = written /\ frame'[k] = u
    BY <1>1, <1>3, <1>4, Zenon
  <2>2. NotQueued(u, s)'
    BY <1>1, <1>4, Zenon DEF NotQueued
  <2>3. JustSent(task["worker"], queue[task["worker"].slot].uid, task["worker"].slot)'
    BY <1>4, <1>5, <1>8, <2>1, <2>2, Zenon DEF JustSent, Quiet, NotQueued, Pkt, Inactive, QSlot
  <2> QED
    BY <1>2, <1>5, <2>3, Zenon DEF WorkerSound
<1>10. QueueQuiet'
  <2>1. ASSUME NEW x \in QSlot, queue'[x].used, queue'[x].uid # 0, x # s PROVE Quiet(queue[x].uid)'
    <3>1. queue'[x] = queue[x] /\ queue[x].uid # u
      BY <1>1, <1>4, <2>1, Zenon DEF NotQueued
    <3>2. Quiet(queue[x].uid)
      BY <1>1, <2>1, <3>1, Zenon DEF SendIInv, QueueQuiet
    <3>3. PICK v : v = queue[x].uid
      BY Zenon
    <3>4. Quiet(v)'
      BY <1>8, <3>1, <3>2, <3>3, Zenon
    <3> QED
      BY <3>1, <3>3, <3>4, Zenon DEF Quiet
  <2> QED
    BY <1>5, <2>1, Zenon DEF QueueQuiet, QSlot
<1>11. DrainSound'
  <2>1. SlotsSame
    <3>1. "mesh" \in Tasks \ {"worker"}
      BY Zenon DEF Tasks
    <3> QED
      BY <1>3, <1>5, <3>1, Zenon DEF SlotsSame
  <2>2. written <= written'
    BY <1>1, <1>2, WrittenSame, Zenon
  <2> QED
    BY <1>1, <1>2, <2>1, <2>2, QueueShrinks, Zenon DEF SendIInv
<1> QED
  BY <1>1, <1>5, <1>8, <1>9, <1>10, <1>11, WorkerMoves, Zenon

(* The flushed message's row takes the frame's packet id.                  *)
LEMMA FlushStampKeeps ==
    ASSUME SendIInv, RunsToEnd, StampFlushed, SendTypeOK'
    PROVE  SendIInv'
<1>1. /\ Runs("worker") /\ task["worker"].pc = "stamp" /\ Goto("worker", "free")
      /\ UNCHANGED <<queue, pending, frame, link, written>> /\ sess' = sess /\ route' = route /\ NoneQueued /\ Calms
  BY Zenon DEF StampFlushed, At, NoneQueued, Calms
<1>2. /\ SendTypeOK /\ TasksOK /\ "worker" \in Tasks /\ WorkerSound(task["worker"])
      /\ \A q \in Tasks \ {"worker"} : task[q] = Idle
  BY <1>1, WorkerStarts, Zenon
<1>3. PICK u, k, s : s = task["worker"].slot /\ u = queue[s].uid /\ k = task["worker"].pkt
  BY Zenon
<1>4. /\ s \in QSlot /\ u \in 1 .. written /\ k \in Pkt /\ frame[k] = u
      /\ \A j \in Pkt : frame[j] = u /\ pending[j] # Inactive => j = k
  BY <1>1, <1>2, <1>3, Zenon DEF WorkerSound, JustSent, TasksOK
<1>5. /\ \A q \in Tasks \ {"worker"} : task'[q] = task[q]
      /\ task'["worker"].pc = "free" /\ task'["worker"].fresh = task["worker"].fresh
      /\ task'["worker"].slot = s
  <2>1. task["worker"].slot \in QSlot
    BY <1>3, <1>4, Zenon
  <2> QED
    BY <1>1, <1>2, <1>3, <2>1, TaskGoes, Zenon
<1>6. RowSound' /\ RowTracks'
  <2>1. rows' = Reconciled(rows, u, k)
    BY <1>3, Zenon DEF StampFlushed
  <2>2. \A q \in Tasks : task[q].pc = "stamp" => task[q].pkt = k
    BY <1>2, <1>3, IdleHolds, Zenon
  <2> QED
    BY <1>1, <1>4, <2>1, <2>2, StampedRow, Zenon
<1>7. written <= written'
  BY <1>1, <1>2, WrittenSame, Zenon
<1>8. FrameSound'
  <2>1. (\A j \in air' \cup accepted' : frame[j] # 0) /\ acks' \subseteq accepted'
    BY <1>1, Zenon DEF SendIInv, FrameSound, link
  <2> QED
    BY <1>1, <1>2, <1>7, <2>1, FramesSame, Zenon DEF SendIInv
<1>9. WorkerSound(task["worker"])'
  BY <1>2, <1>5, Zenon DEF WorkerSound, JustSent
<1>10. QueueQuiet'
  BY <1>1, <1>3, <1>5, QueueCalm, Zenon DEF SendIInv
<1>11. DrainSound'
  <2>1. SlotsSame
    <3>1. "mesh" \in Tasks \ {"worker"}
      BY Zenon DEF Tasks
    <3> QED
      BY <1>3, <1>5, <3>1, Zenon DEF SlotsSame
  <2> QED
    BY <1>1, <1>2, <1>7, <2>1, QueueShrinks, Zenon DEF SendIInv
<1> QED
  BY <1>1, <1>5, <1>6, <1>8, <1>9, <1>10, <1>11, WorkerMoves, Zenon

-----------------------------------------------------------------------------
(* The tasks stand still: the link and the session table move.             *)
LEMMA NobodyMoves ==
    ASSUME SendIInv, TablesSame, UNCHANGED <<queue, task, route, pending, frame, rows, written>>,
           sess' = sess \/ sess' # "active"
    PROVE  SendIInv'
<1>1. SendTypeOK /\ Alone /\ TaskSound /\ QueueOnce /\ QueueZero /\ QueueQuiet /\ DrainSound
  BY Zenon DEF SendIInv
<1>2. FrameSound' /\ RowSound' /\ RowTracks'
  BY TablesKeep, Zenon
<1>3. Alone' /\ QueueOnce' /\ QueueZero'
  BY <1>1, Zenon DEF Alone, QueueOnce, QueueZero, QSlot, Tasks
<1>4. QueueQuiet' /\ DrainSound'
  BY <1>1, Zenon DEF QueueQuiet, Quiet, DrainSound, QSlot, Pkt, Inactive
<1>5. ASSUME NEW q, q = "user" \/ q = "mesh", SenderSound(task[q]) PROVE SenderSound(task[q])'
  <2>1. Sending(task[q])'
    BY <1>5, Zenon DEF SenderSound, Sending, Quiet, QSlot, Pkt, Inactive
  <2>2. FreshHasNoRow(task[q])'
    BY <1>5, Zenon DEF SenderSound, FreshHasNoRow
  <2>3. JustSent(task[q], task[q].uid, 0)'
    BY <1>5, Zenon DEF SenderSound, JustSent, Quiet, NotQueued, QSlot, Pkt, Inactive
  <2> QED
    BY <1>5, <2>1, <2>2, <2>3, Zenon DEF SenderSound
<1>6. WorkerSound(task["worker"])'
  BY <1>1, Zenon DEF TaskSound, WorkerSound, JustSent, Quiet, NotQueued, QSlot, Pkt, Inactive
<1>7. TaskSound'
  BY <1>1, <1>5, <1>6, Zenon DEF TaskSound
<1> QED
  BY <1>2, <1>3, <1>4, <1>7, Zenon DEF SendIInv, TablesSame

(* The session is lost, or the peer takes a frame and answers.             *)
LEMMA LinkKeeps ==
    ASSUME SendIInv, SendTypeOK', SessionLost \/ (\E k \in Pkt : Receive(k)) \/ UNCHANGED sendVars
    PROVE  SendIInv'
<1>1. SendTypeOK /\ (\A j \in air \cup accepted : frame[j] # 0) /\ acks \subseteq accepted
  BY Zenon DEF SendIInv, FrameSound
<1>2. rows' = rows => RowsKept
  BY <1>1, NoRowChanged, Zenon
<1>3. CASE SessionLost
  <2>1. UNCHANGED <<rows, queue, pending, frame, link, route, task, written>> /\ sess' # "active"
    BY <1>3, Zenon DEF SessionLost
  <2>2. TablesSame
    BY <1>2, <2>1, NothingSent, Zenon
  <2> QED
    BY <2>1, <2>2, NobodyMoves, Zenon
<1>4. ASSUME NEW k \in Pkt, Receive(k) PROVE SendIInv'
  <2>1. /\ UNCHANGED <<rows, queue, pending, frame, sess, route, task, written>>
        /\ k \in air /\ air' = air \ {k} /\ accepted' = accepted \cup {k} /\ acks' = acks \cup {k}
    BY <1>4, Zenon DEF Receive
  <2>2. written <= written'
    BY <1>1, <2>1, WrittenSame, Zenon
  <2>3. TablesSame
    BY <1>1, <1>2, <2>1, <2>2, Zenon DEF TablesSame, Calms
  <2> QED
    BY <2>1, <2>3, NobodyMoves, Zenon
<1>5. CASE UNCHANGED sendVars
  <2>1. UNCHANGED <<rows, queue, pending, frame, link, sess, route, task, written>>
    BY <1>5, Zenon DEF sendVars
  <2>2. TablesSame
    BY <1>2, <2>1, NothingSent, Zenon
  <2> QED
    BY <2>1, <2>2, NobodyMoves, Zenon
<1> QED
  BY <1>3, <1>4, <1>5, Zenon

(* Every step keeps the inductive invariant, when a send runs to its end.  *)
LEMMA StepKeeps ==
    ASSUME SendIInv, RunsToEnd, [SendNext]_sendVars
    PROVE  SendIInv'
<1>1. SendTypeOK'
  BY StepTyped, Zenon DEF SendIInv, SendNextWithRetry
<1>2. "user" \in Tasks \ {"worker"} /\ "mesh" \in Tasks \ {"worker"}
  BY Zenon DEF Tasks
<1>3. CASE UserStep
  BY <1>1, <1>2, <1>3, WriteKeeps, ParkKeeps, PipelineKeeps, Zenon DEF UserStep
<1>4. CASE MeshStep
  <2>1. (\E s \in QSlot : ExpireQueued(s)) => SendIInv'
    BY <1>1, ExpireKeeps, Zenon
  <2> QED
    BY <1>1, <1>2, <1>4, <2>1, DrainKeeps, DrainedKeeps, NextParkedKeeps, PipelineKeeps, RetryKeeps, AckKeeps, Zenon
       DEF MeshStep
<1>5. CASE MeshEvent
  <2>1. (\E i \in DOMAIN rows : ExpireParked(i)) => SendIInv'
    BY <1>1, ExpireKeeps, Zenon
  <2> QED
    BY <1>1, <1>5, <2>1, RrepKeeps, FlushParkedKeeps, RouteLostKeeps, Zenon DEF MeshEvent
<1>6. CASE WorkerStep
  BY <1>1, <1>6, FlushKeeps, FlushTrackKeeps, FlushStampKeeps, FlushedKeeps, Zenon DEF WorkerStep
<1>7. CASE Establish
  BY <1>1, <1>7, EstablishKeeps, Zenon
<1>8. CASE SessionLost \/ (\E k \in Pkt : Receive(k)) \/ UNCHANGED sendVars
  BY <1>1, <1>8, LinkKeeps, Zenon
<1> QED
  BY <1>3, <1>4, <1>5, <1>6, <1>7, <1>8, Zenon DEF SendNext

(* It holds of an idle node with an empty store.                           *)
LEMMA InitHolds == SendInit => SendIInv
<1> SUFFICES ASSUME SendInit PROVE SendIInv
  OBVIOUS
<1>1. SendTypeOK
  BY InitTyped, Zenon
<1>2. \A t \in Tasks : task[t] = Idle
  BY Zenon DEF SendInit
<1>3. \A k \in Pkt : pending[k] = Inactive /\ frame[k] = 0
  BY Zenon DEF SendInit
<1>4. \A s \in QSlot : ~queue[s].used
  <2>1. ~Empty.used
    BY EntryEmpty, Zenon
  <2> QED
    BY <2>1, Zenon DEF SendInit
<1>5. DOMAIN rows = {}
  BY DEF SendInit
<1>6. "user" \in Tasks /\ "mesh" \in Tasks /\ "worker" \in Tasks
  BY Zenon DEF Tasks
<1>7. Alone /\ TaskSound
  <2>1. Alone
    BY <1>2, IdleHolds, Zenon DEF Alone
  <2>2. ASSUME NEW t \in Tasks PROVE SenderSound(task[t]) /\ WorkerSound(task[t])
    BY <1>2, <2>2, IdleHolds, Zenon DEF SenderSound, WorkerSound, Sending, FreshHasNoRow, JustSent
  <2> QED
    BY <1>6, <2>1, <2>2, Zenon DEF TaskSound
<1>8. QueueOnce /\ QueueZero /\ QueueQuiet /\ DrainSound
  BY <1>4, Zenon DEF QueueOnce, QueueZero, QueueQuiet, DrainSound
<1>9. RowTracks /\ RowSound
  BY <1>3, <1>5, Zenon DEF RowTracks, RowSound, OneRowPerMessage, DeliveredIsReceived
<1>10. FrameSound
  <2>1. \A k \in Pkt : frame[k] <= written
    <3>1. written = 0 /\ 0 <= 0
      BY Constants, Zenon DEF SendInit
    <3> QED
      BY <1>3, <3>1, Zenon
  <2> QED
    BY <1>3, <2>1, Zenon DEF FrameSound, SendInit
<1> QED
  BY <1>1, <1>7, <1>8, <1>9, <1>10, Zenon DEF SendIInv

(* Sends that run to their end keep the inductive invariant throughout.    *)
LEMMA SendIInvHolds ==
    ASSUME RunsToEnd
    PROVE  SendSpec => []SendIInv
<1>1. SendIInv /\ [SendNext]_sendVars => SendIInv'
  BY StepKeeps, Zenon
<1> QED
  BY <1>1, InitHolds, PTL DEF SendSpec

(* One row per user message: whatever is queued, drained, flushed, parked, *)
(* retransmitted or lost, the store never holds two rows of one message.   *)
THEOREM MessagesHaveOneRow ==
    ASSUME RunsToEnd
    PROVE  SendSpec => []OneRowPerMessage
<1>1. SendIInv => OneRowPerMessage
  BY Zenon DEF SendIInv, RowSound
<1> QED
  BY <1>1, SendIInvHolds, PTL

(* One message, one frame in the air: no two frames of a message await     *)
(* their ACK at a time.                                                    *)
THEOREM MessagesHaveOneFrame ==
    ASSUME RunsToEnd
    PROVE  SendSpec => []OneFrameInTheAir
<1>1. SendIInv => OneFrameInTheAir
  BY Zenon DEF SendIInv, FrameSound, OneFrameInTheAir, Outstanding, Active
<1> QED
  BY <1>1, SendIInvHolds, PTL

(* A row shown as delivered is one whose text the peer has.                *)
THEOREM DeliveredWasReceived ==
    ASSUME RunsToEnd
    PROVE  SendSpec => []DeliveredIsReceived
<1>1. SendIInv => DeliveredIsReceived
  BY Zenon DEF SendIInv, RowSound
<1> QED
  BY <1>1, SendIInvHolds, PTL
=============================================================================
