---------------------------- MODULE SendPipeline ----------------------------
(***************************************************************************)
(* The inductive invariant of the send path, and the steps that keep it:   *)
(* those of a task through the pipeline (looking up route and session,     *)
(* queueing, sending, tracking the ACK and stamping the row), the user's,  *)
(* and those of the timers and of an ACK.                                  *)
(***************************************************************************)
EXTENDS SendTables

(* The three tasks share the tables under no lock of their own; the        *)
(* invariants are about a node on which a send is not preempted.           *)
RunsToEnd == ~Preempt

(* One task at a time is inside the pipeline.                              *)
Alone == \A t, q \in Tasks : t # q /\ task[t].pc # "idle" => task[q].pc = "idle"

(* Nothing of message u awaits an ACK.                                     *)
Quiet(u) == \A k \in Pkt : frame[k] = u => pending[k] = Inactive

(* No entry of the queue, or none but s, is message u's.                   *)
NotQueued(u, s) == \A r \in QSlot : queue[r].used /\ queue[r].uid = u => r = s

(* A task with a message to send: nothing of it is under way.  Past the    *)
(* look-up of the route its entry, if any, waits for a session, and when   *)
(* it is to wait for one there is none.                                    *)
Sending(x) ==
    x.pc \in {"send", "queueRoute", "session", "queueSession", "addRow"} =>
        /\ x.uid \in 1 .. written
        /\ Quiet(x.uid)
        /\ x.pc = "addRow" => x.fresh
        /\ x.pc = "queueRoute" => ~route
        /\ x.pc = "queueSession" => sess # "active"
        /\ x.pc \in {"session", "queueSession"} \/ (x.pc = "send" /\ route) =>
              \A s \in QSlot : queue[s].used /\ queue[s].reason = "route" => queue[s].uid # x.uid

(* A new message has no row before it is queued or sent; it is the user's, *)
(* not one of the queue or of the parked messages.                         *)
FreshHasNoRow(x) ==
    x.fresh => x.slot = 0 /\ x.todo = <<>> /\ \A i \in DOMAIN rows : rows[i].uid # x.uid

(* A frame of message u was handed to the radio and its row not yet        *)
(* stamped; s is the entry it came from.                                   *)
JustSent(x, u, s) ==
    x.pc \in {"track", "stamp"} =>
        /\ u \in 1 .. written
        /\ x.pkt \in Pkt /\ frame[x.pkt] = u
        /\ x.pc = "track" => Quiet(u)
        /\ \A k \in Pkt : frame[k] = u /\ pending[k] # Inactive => k = x.pkt
        /\ NotQueued(u, s)

SenderSound(x) ==
    /\ Sending(x)
    /\ FreshHasNoRow(x)
    /\ JustSent(x, x.uid, 0)
    /\ x.pc \in {"park", "parked"} => x.slot = 0 /\ ~x.fresh

WorkerSound(x) ==
    /\ x.pc \in {"idle", "flush", "track", "stamp", "free"} /\ ~x.fresh
    /\ JustSent(x, queue[x.slot].uid, x.slot)

TaskSound == SenderSound(task["user"]) /\ SenderSound(task["mesh"]) /\ WorkerSound(task["worker"])

(* A message has one entry, which holds its text.                          *)
QueueOnce ==
    /\ \A s \in QSlot : queue[s].used => queue[s].uid <= written
    /\ \A s \in QSlot : queue[s].used /\ queue[s].uid # 0 => queue[s].data = queue[s].uid
    /\ \A r, s \in QSlot : queue[r].used /\ queue[s].used /\ queue[r].uid = queue[s].uid /\ queue[r].uid # 0 => r = s

(* An entry without its uid is the one being drained.                      *)
QueueZero ==
    \A s \in QSlot : queue[s].used /\ queue[s].uid = 0 =>
        queue[s].reason = "route" /\ task["mesh"].slot = s /\ task["mesh"].pc # "drain"

(* What waits in the queue is not under way, but for the entry that the    *)
(* worker has just sent.                                                   *)
QueueQuiet ==
    \A s \in QSlot :
        queue[s].used /\ queue[s].uid # 0 /\ ~(task["worker"].slot = s /\ task["worker"].pc \in {"stamp", "free"})
            => Quiet(queue[s].uid)

(* What waits for a route or a session that is there is about to be sent.  *)
DrainSound ==
    \A s \in QSlot : queue[s].used =>
        /\ queue[s].reason = "route" /\ route => task["mesh"].slot # 0 /\ task["mesh"].slot <= s
        /\ queue[s].reason = "session" /\ sess = "active" => task["worker"].slot # 0 /\ task["worker"].slot <= s

(* A frame that awaits its ACK is the one its row names, once stamped.     *)
RowTracks ==
    \A k \in Pkt : pending[k] # Inactive =>
        \/ \E i \in DOMAIN rows : rows[i].uid = frame[k] /\ rows[i].pkt = k
        \/ \E t \in Tasks : task[t].pc = "stamp" /\ task[t].pkt = k

FrameSound ==
    /\ \A k \in Pkt : frame[k] <= written
    /\ \A k \in Pkt : frame[k] = 0 => pending[k] = Inactive
    /\ \A k \in air \cup accepted : frame[k] # 0
    /\ acks \subseteq accepted
    /\ \A j, k \in Pkt : pending[j] # Inactive /\ pending[k] # Inactive /\ frame[j] = frame[k] => j = k

RowSound ==
    /\ \A i \in DOMAIN rows : rows[i].uid \in 1 .. written
    /\ \A i \in DOMAIN rows : rows[i].pkt # 0 => frame[rows[i].pkt] = rows[i].uid
    /\ OneRowPerMessage
    /\ DeliveredIsReceived

SendIInv ==
    /\ SendTypeOK
    /\ Alone
    /\ TaskSound
    /\ QueueOnce
    /\ QueueZero
    /\ QueueQuiet
    /\ DrainSound
    /\ RowTracks
    /\ FrameSound
    /\ RowSound

-----------------------------------------------------------------------------
(* From here on each send runs to its end: while a task takes a step of    *)
(* the pipeline the others are idle.                                       *)
LEMMA OthersIdle ==
    ASSUME SendTypeOK, RunsToEnd, NEW t \in Tasks, Runs(t)
    PROVE  \A q \in Tasks \ {t} : task[q] = Idle
<1>1. ASSUME NEW q \in Tasks \ {t} PROVE task[q] = Idle
  <2>1. task[q].pc = "idle"
    BY <1>1, Zenon DEF RunsToEnd, Runs
  <2>2. TaskShape(task[q])
    BY <1>1, Zenon DEF SendTypeOK, TasksOK
  <2> QED
    BY <2>1, <2>2, Zenon DEF TaskShape
<1> QED
  BY <1>1, Zenon

(* What an idle task holds.                                                *)
LEMMA IdleHolds ==
    /\ Idle.pc = "idle" /\ Idle.uid = 0 /\ ~Idle.fresh
    /\ Idle.pkt = 0 /\ Idle.slot = 0 /\ Idle.todo = <<>>
BY DEF Idle, Begin

(* Nothing is asked of an idle task.                                       *)
LEMMA IdleSound ==
    ASSUME NEW t \in Tasks, task'[t] = Idle
    PROVE  SenderSound(task[t])' /\ WorkerSound(task[t])'
<1>1. task'[t].pc = "idle" /\ ~task'[t].fresh
  BY IdleHolds, Zenon
<1> QED
  BY <1>1, Zenon DEF SenderSound, WorkerSound, Sending, FreshHasNoRow, JustSent

(* So only the task that moved is in question.                             *)
LEMMA SoloSound ==
    ASSUME NEW t \in Tasks, \A q \in Tasks \ {t} : task'[q] = Idle,
           t = "user" => SenderSound(task["user"])', t = "mesh" => SenderSound(task["mesh"])',
           t = "worker" => WorkerSound(task["worker"])'
    PROVE  Alone' /\ TaskSound'
<1>1. "user" \in Tasks /\ "mesh" \in Tasks /\ "worker" \in Tasks /\ "user" # "mesh" /\ "user" # "worker" /\ "mesh" # "worker"
  BY Zenon DEF Tasks
<1>2. Alone'
  <2>1. ASSUME NEW p \in Tasks, NEW q \in Tasks, p # q, task'[p].pc # "idle" PROVE task'[q].pc = "idle"
    BY <2>1, IdleHolds, Zenon
  <2> QED
    BY <2>1, Zenon DEF Alone, Tasks
<1>3. SenderSound(task["user"])'
  BY <1>1, IdleSound, Zenon
<1>4. SenderSound(task["mesh"])'
  BY <1>1, IdleSound, Zenon
<1>5. WorkerSound(task["worker"])'
  BY <1>1, IdleSound, Zenon
<1> QED
  BY <1>2, <1>3, <1>4, <1>5, Zenon DEF TaskSound

(* A step after which no frame awaits an ACK that did not before.          *)
Calms == \A k \in Pkt : pending'[k] # Inactive => pending[k] # Inactive /\ frame'[k] = frame[k]

(* Then what was quiet still is.                                           *)
LEMMA CalmQuiet ==
    ASSUME Calms, NEW u, Quiet(u)
    PROVE  Quiet(u)'
BY Zenon DEF Calms, Quiet, Pkt, Inactive

(* A step that sends no new frame.                                         *)
LEMMA FramesSame ==
    ASSUME SendTypeOK, SendTypeOK', FrameSound, Calms, frame' = frame, written <= written',
           \A k \in air' \cup accepted' : frame[k] # 0, acks' \subseteq accepted'
    PROVE  FrameSound'
<1>1. ASSUME NEW k \in Pkt PROVE frame'[k] <= written'
  <2>1. frame[k] \in 0 .. MaxUid /\ written \in 0 .. MaxUid /\ written' \in 0 .. MaxUid /\ frame[k] <= written
    BY Zenon DEF SendTypeOK, FrameSound
  <2> QED
    BY <2>1, Later, Zenon
<1>2. \A k \in Pkt : frame'[k] = 0 => pending'[k] = Inactive
  BY Zenon DEF FrameSound, Calms
<1>3. \A j, k \in Pkt : pending'[j] # Inactive /\ pending'[k] # Inactive /\ frame'[j] = frame'[k] => j = k
  BY Zenon DEF FrameSound, Calms
<1> QED
  BY <1>1, <1>2, <1>3, Zenon DEF FrameSound, Pkt, Inactive

(* A step that neither adds, restamps nor delivers a row.                  *)
LEMMA RowsSame ==
    ASSUME SendTypeOK, SendTypeOK', RowSound, RowsKept, frame' = frame, written <= written', accepted \subseteq accepted'
    PROVE  RowSound'
<1>1. ASSUME NEW i \in DOMAIN rows' PROVE rows'[i].uid \in 1 .. written'
  <2>1. rows'[i].uid \in 1 .. written
    BY <1>1, Zenon DEF RowsKept, RowSound
  <2>2. written \in 0 .. MaxUid /\ written' \in 0 .. MaxUid
    BY Zenon DEF SendTypeOK
  <2> QED
    BY <2>1, <2>2, Later, Zenon
<1>2. \A i \in DOMAIN rows' : rows'[i].pkt # 0 => frame'[rows'[i].pkt] = rows'[i].uid
  BY Zenon DEF RowsKept, RowSound
<1>3. OneRowPerMessage'
  BY Zenon DEF RowsKept, RowSound, OneRowPerMessage
<1>4. DeliveredIsReceived'
  BY Zenon DEF RowsKept, RowSound, DeliveredIsReceived
<1> QED
  BY <1>1, <1>2, <1>3, <1>4, Zenon DEF RowSound

(* And leaves the tasks that are about to stamp one where they are.        *)
LEMMA TracksSame ==
    ASSUME RowTracks, RowsKept, Calms,
           \A q \in Tasks : task[q].pc = "stamp" => task'[q].pc = "stamp" /\ task'[q].pkt = task[q].pkt
    PROVE  RowTracks'
<1>1. ASSUME NEW k \in Pkt, pending'[k] # Inactive
      PROVE  \/ \E i \in DOMAIN rows' : rows'[i].uid = frame'[k] /\ rows'[i].pkt = k
             \/ \E t \in Tasks : task'[t].pc = "stamp" /\ task'[t].pkt = k
  <2>1. pending[k] # Inactive /\ frame'[k] = frame[k]
    BY <1>1, Zenon DEF Calms
  <2>2. CASE \E i \in DOMAIN rows : rows[i].uid = frame[k] /\ rows[i].pkt = k
    BY <2>1, <2>2, Zenon DEF RowsKept
  <2>3. CASE \E t \in Tasks : task[t].pc = "stamp" /\ task[t].pkt = k
    BY <2>3, Zenon
  <2> QED
    BY <2>1, <2>2, <2>3, Zenon DEF RowTracks
<1> QED
  BY <1>1, Zenon DEF RowTracks, Pkt, Tasks, Inactive

(* A step that puts nothing into the queue.                                *)
NoneQueued == \A x \in QSlot : queue'[x].used => queue'[x] = queue[x]

(* Where the drain and the flush stand is the same after the step.         *)
SlotsSame == task'["mesh"].slot = task["mesh"].slot /\ task'["worker"].slot = task["worker"].slot

(* A queue that only shrinks.                                              *)
LEMMA QueueShrinks ==
    ASSUME SendTypeOK, SendTypeOK', QueueOnce, DrainSound, NoneQueued, written <= written'
    PROVE  /\ QueueOnce'
           /\ SlotsSame /\ (route' => route) /\ (sess' = "active" => sess = "active") => DrainSound'
<1>1. ASSUME NEW s \in QSlot, queue'[s].used PROVE queue'[s] = queue[s] /\ queue[s].used
  BY <1>1, Zenon DEF NoneQueued
<1>2. ASSUME NEW s \in QSlot, queue'[s].used PROVE queue'[s].uid <= written'
  <2>1. queue[s].uid <= written /\ queue'[s].uid = queue[s].uid
    BY <1>1, <1>2, Zenon DEF QueueOnce
  <2>2. queue[s].uid \in 0 .. MaxUid /\ written \in 0 .. MaxUid /\ written' \in 0 .. MaxUid
    BY <1>2, EntryFields, Zenon DEF SendTypeOK
  <2> QED
    BY <2>1, <2>2, Later, Zenon
<1>3. \A s \in QSlot : queue'[s].used /\ queue'[s].uid # 0 => queue'[s].data = queue'[s].uid
  BY <1>1, Zenon DEF QueueOnce
<1>4. \A r, s \in QSlot : queue'[r].used /\ queue'[s].used /\ queue'[r].uid = queue'[s].uid /\ queue'[r].uid # 0 => r = s
  BY <1>1, Zenon DEF QueueOnce
<1>5. QueueOnce'
  BY <1>2, <1>3, <1>4, Zenon DEF QueueOnce, QSlot
<1>6. ASSUME SlotsSame, route' => route, sess' = "active" => sess = "active" PROVE DrainSound'
  BY <1>1, <1>6, Zenon DEF DrainSound, SlotsSame, QSlot
<1> QED
  BY <1>5, <1>6, Zenon

(* And in which what waits is still quiet.                                 *)
LEMMA QueueCalm ==
    ASSUME QueueQuiet, NoneQueued, Calms,
           \A x \in QSlot : queue'[x].used /\ task["worker"].slot = x /\ task["worker"].pc \in {"stamp", "free"} =>
               task'["worker"].slot = x /\ task'["worker"].pc \in {"stamp", "free"}
    PROVE  QueueQuiet'
<1>1. ASSUME NEW s \in QSlot, queue'[s].used, queue'[s].uid # 0,
             ~(task'["worker"].slot = s /\ task'["worker"].pc \in {"stamp", "free"})
      PROVE  Quiet(queue[s].uid)'
  <2>1. PICK u : u = queue[s].uid
    BY Zenon
  <2>2. queue'[s] = queue[s]
    BY <1>1, Zenon DEF NoneQueued
  <2>3. queue[s].used /\ queue[s].uid # 0 /\ ~(task["worker"].slot = s /\ task["worker"].pc \in {"stamp", "free"})
    BY <1>1, <2>2, Zenon
  <2>4. Quiet(u)
    BY <2>1, <2>3, Zenon DEF QueueQuiet
  <2>5. Quiet(u)'
    BY <2>4, CalmQuiet, Zenon
  <2>6. queue'[s].uid = u
    BY <2>1, <2>2, Zenon
  <2> QED
    BY <2>5, <2>6, Zenon DEF Quiet
<1> QED
  BY <1>1, Zenon DEF QueueQuiet, QSlot

(* An entry filled by a sender, while the worker is idle.                  *)
LEMMA QueueGrows ==
    ASSUME SendTypeOK, QueueOnce, QueueQuiet, DrainSound, NEW s, NEW u \in 1 .. written, NEW r \in {"route", "session"},
           Fill(s, u, r), QueuedFor(u) = {}, Quiet(u), Calms, written' = written,
           task["worker"] = Idle, task'["worker"] = Idle
    PROVE  /\ QueueOnce'
           /\ QueueQuiet'
           /\ (r = "route" => ~route) /\ (r = "session" => sess # "active") /\ SlotsSame
                /\ route' = route /\ sess' = sess => DrainSound'
           /\ \A x \in QSlot : queue'[x].used /\ queue'[x].uid = 0 => queue'[x] = queue[x]
<1>1. u \in 0 .. MaxUid /\ u <= written /\ u # 0
  BY Messages, Zenon DEF SendTypeOK
<1>2. /\ \A x \in QSlot \ {s} : queue'[x] = queue[x]
      /\ s \in QSlot => queue'[s].used /\ queue'[s].data = u /\ queue'[s].uid = u /\ queue'[s].reason = r
  <2>1. queue \in [QSlot -> QEntry]
    BY Zenon DEF SendTypeOK
  <2> QED
    BY <1>1, <2>1, Filled, ZenonT(30)
<1>3. \A x \in QSlot : queue[x].used => queue[x].uid # u
  BY Zenon DEF QueuedFor, InUse
<1>4. QueueOnce'
  <2>1. \A x \in QSlot : queue'[x].used => queue'[x].uid <= written
    BY <1>1, <1>2, Zenon DEF QueueOnce
  <2>2. \A x \in QSlot : queue'[x].used /\ queue'[x].uid # 0 => queue'[x].data = queue'[x].uid
    BY <1>2, Zenon DEF QueueOnce
  <2>3. ASSUME NEW x \in QSlot, NEW y \in QSlot, queue'[x].used, queue'[y].used, queue'[x].uid = queue'[y].uid, queue'[x].uid # 0
        PROVE  x = y
    <3>1. CASE x = s \/ y = s
      BY <1>2, <1>3, <2>3, <3>1, Zenon
    <3>2. CASE x # s /\ y # s
      BY <1>2, <2>3, <3>2, Zenon DEF QueueOnce
    <3> QED
      BY <3>1, <3>2, Zenon
  <2> QED
    BY <2>1, <2>2, <2>3, Zenon DEF QueueOnce, QSlot
<1>5. QueueQuiet'
  <2>1. ASSUME NEW x \in QSlot, queue'[x].used, queue'[x].uid # 0 PROVE Quiet(queue[x].uid)'
    <3>1. PICK v : v = queue'[x].uid
      BY Zenon
    <3>2. Quiet(v)
      <4>1. CASE x = s
        BY <1>2, <3>1, <4>1, Zenon
      <4>2. CASE x # s
        <5>1. queue[x].used /\ queue[x].uid = v /\ v # 0
          BY <1>2, <2>1, <3>1, <4>2, Zenon
        <5>2. task["worker"].pc \notin {"stamp", "free"}
          BY IdleHolds, Zenon
        <5> QED
          BY <5>1, <5>2, Zenon DEF QueueQuiet
      <4> QED
        BY <4>1, <4>2, Zenon
    <3>3. Quiet(v)'
      BY <3>2, CalmQuiet, Zenon
    <3> QED
      BY <3>1, <3>3, Zenon DEF Quiet
  <2> QED
    BY <2>1, Zenon DEF QueueQuiet, QSlot
<1>6. ASSUME r = "route" => ~route, r = "session" => sess # "active", SlotsSame, route' = route, sess' = sess PROVE DrainSound'
  <2>1. ASSUME NEW x \in QSlot, queue'[x].used
        PROVE  /\ queue'[x].reason = "route" /\ route => task["mesh"].slot # 0 /\ task["mesh"].slot <= x
               /\ queue'[x].reason = "session" /\ sess = "active" => task["worker"].slot # 0 /\ task["worker"].slot <= x
    <3>1. CASE x = s
      BY <1>2, <1>6, <3>1, Zenon
    <3>2. CASE x # s
      BY <1>2, <2>1, <3>2, Zenon DEF DrainSound
    <3> QED
      BY <3>1, <3>2, Zenon
  <2> QED
    BY <1>6, <2>1, Zenon DEF DrainSound, SlotsSame, QSlot
<1>7. \A x \in QSlot : queue'[x].used /\ queue'[x].uid = 0 => queue'[x] = queue[x]
  BY <1>1, <1>2, Zenon
<1> QED
  BY <1>4, <1>5, <1>6, <1>7, Zenon

(* Nothing is asked of a task that is done with its message either.        *)
LEMMA ReturnSound ==
    ASSUME SendTypeOK, NEW t \in Tasks \ {"worker"}, Return(t), FreshHasNoRow(task[t])
    PROVE  /\ \A q \in Tasks \ {t} : task'[q] = task[q]
           /\ task'[t].slot = task[t].slot /\ task'[t].pc \in {"idle", "free", "parked"}
           /\ SenderSound(task[t])'
<1>1. /\ \A q \in Tasks \ {t} : task'[q] = task[q]
      /\ \/ task'[t] = Idle /\ task[t].slot = 0
         \/ /\ task[t].slot # 0 \/ task[t].todo # <<>>
            /\ task'[t].pc = (IF task[t].slot # 0 THEN "free" ELSE "parked")
            /\ task'[t].fresh = task[t].fresh /\ task'[t].slot = task[t].slot
  BY TaskReturns, Zenon DEF SendTypeOK
<1>2. CASE task'[t] = Idle /\ task[t].slot = 0
  BY <1>1, <1>2, IdleHolds, IdleSound, Zenon
<1>3. CASE task'[t] # Idle \/ task[t].slot # 0
  <2>1. /\ task[t].slot # 0 \/ task[t].todo # <<>>
        /\ task'[t].pc = (IF task[t].slot # 0 THEN "free" ELSE "parked")
        /\ task'[t].fresh = task[t].fresh /\ task'[t].slot = task[t].slot
    BY <1>1, <1>3, Zenon
  <2>2. ~task'[t].fresh
    BY <2>1, Zenon DEF FreshHasNoRow
  <2>3. task'[t].pc \in {"free", "parked"} /\ (task'[t].pc = "parked" => task'[t].slot = 0)
    BY <2>1, Zenon
  <2>4. SenderSound(task[t])'
    BY <2>2, <2>3, Zenon DEF SenderSound, Sending, FreshHasNoRow, JustSent
  <2> QED
    BY <1>1, <2>1, <2>3, <2>4, Zenon
<1> QED
  BY <1>2, <1>3, Zenon

(* The user or the mesh task moves from Begin to end of a step on its own. *)
Solo(t) ==
    /\ \A q \in Tasks \ {t} : task[q] = Idle
    /\ \A q \in Tasks \ {t} : task'[q] = Idle
    /\ task'[t].slot = task[t].slot
    /\ task'[t].pc # "drain"
    /\ SenderSound(task[t])'

(* What that leaves in place.                                              *)
LEMMA SoloKeeps ==
    ASSUME NEW t \in Tasks \ {"worker"}, Solo(t)
    PROVE  /\ Alone' /\ TaskSound' /\ SlotsSame
           /\ task["worker"] = Idle /\ task'["worker"] = Idle
           /\ QueueZero /\ (\A x \in QSlot : queue'[x].used /\ queue'[x].uid = 0 => queue'[x] = queue[x]) => QueueZero'
<1>1. "user" \in Tasks /\ "mesh" \in Tasks /\ "worker" \in Tasks /\ "mesh" # "worker"
  BY Zenon DEF Tasks
<1>2. t \in Tasks /\ (\A q \in Tasks \ {t} : task'[q] = Idle)
  BY Zenon DEF Solo
<1>3. /\ t = "user" => SenderSound(task["user"])'
      /\ t = "mesh" => SenderSound(task["mesh"])'
      /\ t = "worker" => WorkerSound(task["worker"])'
  BY Zenon DEF Solo
<1>4. Alone' /\ TaskSound'
  BY <1>2, <1>3, SoloSound, Zenon
<1>5. task["worker"] = Idle /\ task'["worker"] = Idle
  BY <1>1, Zenon DEF Solo
<1>6. task'["mesh"].slot = task["mesh"].slot /\ task'["mesh"].pc # "drain"
  BY <1>1, IdleHolds, Zenon DEF Solo
<1>7. SlotsSame
  BY <1>5, <1>6, Zenon DEF SlotsSame
<1>8. ASSUME QueueZero, \A x \in QSlot : queue'[x].used /\ queue'[x].uid = 0 => queue'[x] = queue[x]
      PROVE  QueueZero'
  BY <1>6, <1>8, Zenon DEF QueueZero, QSlot
<1> QED
  BY <1>4, <1>5, <1>7, <1>8, Zenon

(* The tables after a step that sends no frame.                            *)
TablesSame ==
    /\ SendTypeOK' /\ Calms /\ RowsKept
    /\ frame' = frame /\ written <= written' /\ accepted \subseteq accepted' /\ acks' \subseteq accepted'
    /\ \A k \in air' \cup accepted' : frame[k] # 0

(* Such a step keeps what is said of frames and rows.                      *)
LEMMA TablesKeep ==
    ASSUME SendIInv, TablesSame,
           \A q \in Tasks : task[q].pc = "stamp" => task'[q].pc = "stamp" /\ task'[q].pkt = task[q].pkt
    PROVE  FrameSound' /\ RowSound' /\ RowTracks'
<1>1. SendTypeOK /\ FrameSound /\ RowSound /\ RowTracks
  BY Zenon DEF SendIInv
<1> QED
  BY <1>1, FramesSame, RowsSame, TracksSame, Zenon DEF TablesSame

(* A step of one sender that queues nothing and sends nothing.             *)
LEMMA SenderStep ==
    ASSUME SendIInv, NEW t \in Tasks \ {"worker"}, Solo(t), task[t].pc # "stamp", TablesSame, NoneQueued,
           route' => route, sess' = sess \/ sess' # "active"
    PROVE  SendIInv'
<1>1. FrameSound' /\ RowSound' /\ RowTracks'
  <2>1. \A q \in Tasks : task[q].pc # "stamp"
    BY IdleHolds, Zenon DEF Solo
  <2> QED
    BY <2>1, TablesKeep, Zenon
<1>2. Alone' /\ TaskSound' /\ SlotsSame /\ task["worker"] = Idle /\ task'["worker"] = Idle /\ QueueZero'
  BY SoloKeeps, Zenon DEF NoneQueued, SendIInv
<1>3. QueueOnce' /\ DrainSound'
  BY <1>2, QueueShrinks, Zenon DEF SendIInv, TablesSame
<1>4. QueueQuiet'
  <2>1. task["worker"].pc \notin {"stamp", "free"}
    BY <1>2, IdleHolds, Zenon
  <2> QED
    BY <2>1, QueueCalm, Zenon DEF SendIInv, TablesSame
<1> QED
  BY <1>1, <1>2, <1>3, <1>4, Zenon DEF SendIInv, TablesSame

(* A step of one sender that queues a message.                             *)
LEMMA SenderQueues ==
    ASSUME SendIInv, NEW t \in Tasks \ {"worker"}, Solo(t), task[t].pc # "stamp", TablesSame,
           NEW s, NEW u \in 1 .. written, NEW r \in {"route", "session"}, Fill(s, u, r), QueuedFor(u) = {}, Quiet(u),
           r = "route" => ~route, r = "session" => sess # "active", route' = route, sess' = sess,
           written' = written
    PROVE  SendIInv'
<1>1. FrameSound' /\ RowSound' /\ RowTracks'
  <2>1. \A q \in Tasks : task[q].pc # "stamp"
    BY IdleHolds, Zenon DEF Solo
  <2> QED
    BY <2>1, TablesKeep, Zenon
<1>2. Alone' /\ TaskSound' /\ SlotsSame /\ task["worker"] = Idle /\ task'["worker"] = Idle
  BY SoloKeeps, Zenon
<1>3. SendTypeOK /\ QueueOnce /\ QueueQuiet /\ DrainSound /\ QueueZero /\ Calms /\ written' = written
  BY Zenon DEF SendIInv, TablesSame
<1>4. QueueOnce' /\ QueueQuiet' /\ DrainSound' /\ \A x \in QSlot : queue'[x].used /\ queue'[x].uid = 0 => queue'[x] = queue[x]
  BY <1>2, <1>3, QueueGrows, Zenon
<1>5. QueueZero'
  BY <1>3, <1>4, SoloKeeps, Zenon
<1> QED
  BY <1>1, <1>2, <1>4, <1>5, Zenon DEF SendIInv, TablesSame

-----------------------------------------------------------------------------
(* What a step of the pipeline by the user or the mesh task starts from.   *)
LEMMA SenderStarts ==
    ASSUME SendIInv, RunsToEnd, NEW t \in Tasks \ {"worker"}, Runs(t)
    PROVE  /\ SendTypeOK /\ \A q \in Tasks \ {t} : task[q] = Idle
           /\ Sending(task[t]) /\ FreshHasNoRow(task[t]) /\ JustSent(task[t], task[t].uid, 0)
           /\ task[t].pc \in {"park", "parked"} => task[t].slot = 0 /\ ~task[t].fresh
<1>1. SendTypeOK /\ TaskSound /\ t \in Tasks
  BY Zenon DEF SendIInv
<1>2. \A q \in Tasks \ {t} : task[q] = Idle
  BY <1>1, OthersIdle, Zenon
<1>3. t = "user" \/ t = "mesh"
  BY Zenon DEF Tasks
<1>4. SenderSound(task[t])
  BY <1>1, <1>3, Zenon DEF TaskSound
<1> QED
  BY <1>1, <1>2, <1>4, Zenon DEF SenderSound

(* A row or a task that changes; no frame, no entry, no ACK.               *)
LEMMA NothingSent ==
    ASSUME SendIInv, SendTypeOK', RowsKept, UNCHANGED <<pending, frame, link, written>>
    PROVE  TablesSame
<1>1. written <= written'
  BY WrittenSame, Zenon DEF SendIInv
<1>2. (\A k \in air \cup accepted : frame[k] # 0) /\ acks \subseteq accepted
  BY Zenon DEF SendIInv, FrameSound
<1> QED
  BY <1>1, <1>2, Zenon DEF TablesSame, Calms, link

(* The rows of an idle step.                                               *)
LEMMA NoRowChanged ==
    ASSUME SendTypeOK, rows' = rows
    PROVE  RowsKept
BY Zenon DEF RowsKept, SendTypeOK

(* Looking up the route.                                                   *)
LEMMA RouteLookupKeeps ==
    ASSUME SendIInv, RunsToEnd, NEW t \in Tasks \ {"worker"}, RouteLookup(t), SendTypeOK'
    PROVE  SendIInv'
<1>1. /\ Runs(t) /\ task[t].pc = "send" /\ Goto(t, IF route THEN "session" ELSE "queueRoute")
      /\ UNCHANGED <<rows, queue, pending, frame, link, written>> /\ route' = route /\ sess' = sess
  BY Zenon DEF RouteLookup, At
<1>2. SendTypeOK /\ (\A q \in Tasks \ {t} : task[q] = Idle) /\ Sending(task[t]) /\ FreshHasNoRow(task[t])
  BY <1>1, SenderStarts, Zenon
<1>3. PICK pc \in {"session", "queueRoute"} : Goto(t, pc) /\ (pc = "session" <=> route)
  BY <1>1, Zenon
<1>4. t \in Tasks /\ t # "worker" /\ TasksOK /\ pc # "idle"
  BY <1>2, <1>3, Zenon DEF SendTypeOK
<1>5. /\ \A q \in Tasks \ {t} : task'[q] = task[q]
      /\ task'[t].pc = pc /\ task'[t].uid = task[t].uid /\ task'[t].fresh = task[t].fresh
      /\ task'[t].slot = task[t].slot /\ task'[t].todo = task[t].todo
  BY <1>3, <1>4, TaskGoes, Zenon
<1>6. SenderSound(task[t])'
  <2>1. Sending(task[t])'
    BY <1>1, <1>2, <1>3, <1>5, Zenon DEF Sending, Quiet
  <2>2. FreshHasNoRow(task[t])'
    BY <1>1, <1>2, <1>5, Zenon DEF FreshHasNoRow
  <2> QED
    BY <1>3, <1>5, <2>1, <2>2, Zenon DEF SenderSound, JustSent
<1>7. Solo(t)
  BY <1>2, <1>3, <1>5, <1>6, Zenon DEF Solo
<1>8. TablesSame /\ NoneQueued
  BY <1>1, <1>2, NothingSent, NoRowChanged, Zenon DEF NoneQueued
<1> QED
  BY <1>1, <1>7, <1>8, SenderStep, Zenon

(* A sender that gives up or finds its message queued already.             *)
LEMMA ReturnKeeps ==
    ASSUME SendIInv, RunsToEnd, NEW t \in Tasks \ {"worker"}, Runs(t), task[t].pc # "stamp", Return(t), SendTypeOK',
           RowsKept, UNCHANGED <<queue, pending, frame, link, sess, route, written>>
    PROVE  SendIInv'
<1>1. SendTypeOK /\ (\A q \in Tasks \ {t} : task[q] = Idle) /\ FreshHasNoRow(task[t])
  BY SenderStarts, Zenon
<1>2. /\ \A q \in Tasks \ {t} : task'[q] = task[q]
      /\ task'[t].slot = task[t].slot /\ task'[t].pc \in {"idle", "free", "parked"}
      /\ SenderSound(task[t])'
  BY <1>1, ReturnSound, Zenon
<1>3. Solo(t)
  BY <1>1, <1>2, Zenon DEF Solo
<1>4. TablesSame /\ NoneQueued
  BY NothingSent, Zenon DEF NoneQueued
<1> QED
  BY <1>3, <1>4, SenderStep, Zenon

(* A sender that puts its message in the queue.                            *)
LEMMA FillKeeps ==
    ASSUME SendIInv, RunsToEnd, NEW t \in Tasks \ {"worker"}, Runs(t), SendTypeOK', RowsKept,
           NEW s, NEW r \in {"route", "session"}, Fill(s, task[t].uid, r), QueuedFor(task[t].uid) = {},
           task[t].pc = (IF r = "route" THEN "queueRoute" ELSE "queueSession"),
           IF task[t].fresh THEN Goto(t, "addRow") ELSE Return(t),
           UNCHANGED <<pending, frame, link, sess, route, written>>
    PROVE  SendIInv'
<1>1. SendTypeOK /\ (\A q \in Tasks \ {t} : task[q] = Idle) /\ Sending(task[t]) /\ FreshHasNoRow(task[t])
  BY SenderStarts, Zenon
<1>2. PICK u : u = task[t].uid
  BY Zenon
<1>3. u \in 1 .. written /\ Quiet(u) /\ (r = "route" => ~route) /\ (r = "session" => sess # "active")
  BY <1>1, <1>2, Zenon DEF Sending
<1>4. TablesSame /\ route' = route /\ sess' = sess /\ Calms /\ written' = written
  BY NothingSent, Zenon DEF TablesSame
<1>5. Solo(t)
  <2>1. CASE task[t].fresh
    <3>1. t \in Tasks /\ t # "worker" /\ TasksOK /\ Goto(t, "addRow")
      BY <1>1, <2>1, Zenon DEF SendTypeOK
    <3>2. /\ \A q \in Tasks \ {t} : task'[q] = task[q]
          /\ task'[t].pc = "addRow" /\ task'[t].uid = task[t].uid /\ task'[t].fresh = task[t].fresh
          /\ task'[t].slot = task[t].slot /\ task'[t].todo = task[t].todo
      BY <3>1, TaskGoes, Zenon
    <3>3. Quiet(u)'
      BY <1>3, <1>4, CalmQuiet, Zenon
    <3>4. Sending(task[t])'
      BY <1>2, <1>3, <2>1, <3>2, <3>3, Zenon DEF Sending, Quiet
    <3>5. FreshHasNoRow(task[t])'
      BY <1>1, <3>2, Zenon DEF FreshHasNoRow, RowsKept
    <3>6. SenderSound(task[t])'
      BY <3>2, <3>4, <3>5, Zenon DEF SenderSound, JustSent
    <3> QED
      BY <1>1, <3>2, <3>6, Zenon DEF Solo
  <2>2. CASE ~task[t].fresh
    <3>1. /\ \A q \in Tasks \ {t} : task'[q] = task[q]
          /\ task'[t].slot = task[t].slot /\ task'[t].pc \in {"idle", "free", "parked"}
          /\ SenderSound(task[t])'
      BY <1>1, <2>2, ReturnSound, Zenon
    <3> QED
      BY <1>1, <3>1, Zenon DEF Solo
  <2> QED
    BY <2>1, <2>2, Zenon
<1>6. task[t].pc # "stamp"
  BY Zenon
<1> QED
  BY <1>2, <1>3, <1>4, <1>5, <1>6, SenderQueues, Zenon

(* A step of one sender that leaves the queue alone.                       *)
LEMMA SenderTables ==
    ASSUME SendIInv, NEW t \in Tasks \ {"worker"}, Solo(t), UNCHANGED <<queue, sess, route, written>>,
           SendTypeOK', FrameSound', RowSound', RowTracks', QueueQuiet'
    PROVE  SendIInv'
<1>1. SendTypeOK /\ QueueOnce /\ DrainSound /\ QueueZero /\ NoneQueued
  BY Zenon DEF SendIInv, NoneQueued
<1>2. written <= written'
  BY <1>1, WrittenSame, Zenon
<1>3. Alone' /\ TaskSound' /\ SlotsSame /\ QueueZero'
  BY <1>1, SoloKeeps, Zenon DEF NoneQueued
<1>4. QueueOnce' /\ DrainSound'
  BY <1>1, <1>2, <1>3, QueueShrinks, Zenon
<1> QED
  BY <1>3, <1>4, Zenon DEF SendIInv

(* What waits stays quiet while a sender's step awaits no new ACK.         *)
LEMMA SenderCalm ==
    ASSUME SendIInv, NEW t \in Tasks \ {"worker"}, Solo(t), Calms, queue' = queue
    PROVE  QueueQuiet'
<1>1. task["worker"].pc \notin {"stamp", "free"}
  BY SoloKeeps, IdleHolds, Zenon
<1> QED
  BY <1>1, QueueCalm, Zenon DEF SendIInv, NoneQueued

(* A step that changes the rows only.                                      *)
LEMMA SenderRows ==
    ASSUME SendIInv, NEW t \in Tasks \ {"worker"}, Solo(t), SendTypeOK', RowSound', RowTracks',
           UNCHANGED <<queue, pending, frame, link, sess, route, written>>
    PROVE  SendIInv'
<1>1. SendTypeOK /\ FrameSound /\ Calms
  BY Zenon DEF SendIInv, Calms
<1>2. written <= written'
  BY <1>1, WrittenSame, Zenon
<1>3. FrameSound'
  <2>1. (\A k \in air' \cup accepted' : frame[k] # 0) /\ acks' \subseteq accepted'
    BY <1>1, Zenon DEF FrameSound, link
  <2> QED
    BY <1>1, <1>2, <2>1, FramesSame, Zenon
<1>4. QueueQuiet'
  BY <1>1, SenderCalm, Zenon
<1> QED
  BY <1>3, <1>4, SenderTables, Zenon

(* mesh_queue_message                                                      *)
LEMMA QueueMessageKeeps ==
    ASSUME SendIInv, RunsToEnd, NEW t \in Tasks \ {"worker"}, QueueMessage(t), SendTypeOK'
    PROVE  SendIInv'
<1>1. Runs(t) /\ task[t].pc = "queueRoute" /\ SendTypeOK /\ rows \in Seq(Row) /\ UNCHANGED <<pending, frame, link, sess, route, written>>
  BY Zenon DEF QueueMessage, At, SendIInv, SendTypeOK
<1>2. CASE rows' = rows /\ queue' = queue /\ Return(t)
  BY <1>1, <1>2, NoRowChanged, ReturnKeeps, Zenon
<1>3. CASE /\ QueuedFor(task[t].uid) = {} /\ Fill(FirstFree, task[t].uid, "route") /\ rows' = rows
           /\ IF task[t].fresh THEN Goto(t, "addRow") ELSE Return(t)
  <2>1. RowsKept /\ "route" \in {"route", "session"}
    BY <1>1, <1>3, NoRowChanged, Zenon
  <2>2. PICK s : s = FirstFree
    BY Zenon
  <2> QED
    BY <1>1, <1>3, <2>1, <2>2, FillKeeps, Zenon
<1>4. CASE Failed(task[t].uid) /\ Return(t) /\ queue' = queue
  <2>1. RowsKept
    BY <1>1, <1>4, FailedKept, Zenon
  <2> QED
    BY <1>1, <1>4, <2>1, ReturnKeeps, Zenon
<1> QED
  BY <1>2, <1>3, <1>4, Zenon DEF QueueMessage

(* The row of a message that was queued.                                   *)
LEMMA AddRowKeeps ==
    ASSUME SendIInv, RunsToEnd, NEW t \in Tasks \ {"worker"}, AddRow(t), SendTypeOK'
    PROVE  SendIInv'
<1>1. /\ Runs(t) /\ task[t].pc = "addRow" /\ rows' = Added(rows, task[t].uid, 0, "NONE") /\ Return(t)
      /\ UNCHANGED <<queue, pending, frame, link, sess, route, written>>
  BY Zenon DEF AddRow, At
<1>2. SendTypeOK /\ (\A q \in Tasks \ {t} : task[q] = Idle) /\ Sending(task[t]) /\ FreshHasNoRow(task[t])
  BY <1>1, SenderStarts, Zenon
<1>3. Solo(t)
  BY <1>1, <1>2, ReturnSound, Zenon DEF Solo
<1>4. PICK u : u = task[t].uid
  BY Zenon
<1>5. u \in 1 .. written /\ \A i \in DOMAIN rows : rows[i].uid # u
  BY <1>1, <1>2, <1>4, Zenon DEF Sending, FreshHasNoRow
<1>6. PICK n : n = Len(rows) + 1
  BY Zenon
<1>7. /\ DOMAIN rows' = DOMAIN rows \cup {n} /\ \A i \in DOMAIN rows : rows'[i] = rows[i]
      /\ rows'[n].uid = u /\ rows'[n].pkt = 0 /\ rows'[n].status = "NONE"
  <2>1. u \in 0 .. MaxUid /\ 0 \in 0 .. MaxPkt /\ "NONE" \in Status /\ rows \in Seq(Row)
    BY <1>2, <1>5, Constants, Messages, Zenon DEF SendTypeOK, Status
  <2> QED
    BY <1>1, <1>4, <1>6, <2>1, RowAdded, Zenon
<1>8. RowSound /\ RowTracks
  BY Zenon DEF SendIInv
<1>9. RowSound'
  <2>1. \A i \in DOMAIN rows' : rows'[i].uid \in 1 .. written
    BY <1>5, <1>7, <1>8, Zenon DEF RowSound
  <2>2. \A i \in DOMAIN rows' : rows'[i].pkt # 0 => frame[rows'[i].pkt] = rows'[i].uid
    BY <1>7, <1>8, Zenon DEF RowSound
  <2>3. OneRowPerMessage'
    <3>1. ASSUME NEW i \in DOMAIN rows', NEW j \in DOMAIN rows', rows'[i].uid = rows'[j].uid, rows'[i].uid # 0 PROVE i = j
      <4>1. CASE i = n \/ j = n
        BY <1>5, <1>7, <3>1, <4>1, Zenon
      <4>2. CASE i # n /\ j # n
        <5>1. i \in DOMAIN rows /\ j \in DOMAIN rows
          BY <1>7, <3>1, <4>2, Zenon
        <5> QED
          BY <1>7, <1>8, <3>1, <5>1, Zenon DEF RowSound, OneRowPerMessage
      <4> QED
        BY <4>1, <4>2, Zenon
    <3> QED
      BY <3>1, Zenon DEF OneRowPerMessage
  <2>4. \A i \in DOMAIN rows' : rows'[i].status = "DELIVERED" => \E k \in accepted : frame[k] = rows'[i].uid
    BY <1>7, <1>8, Zenon DEF RowSound, DeliveredIsReceived
  <2> QED
    BY <1>1, <2>1, <2>2, <2>3, <2>4, Zenon DEF RowSound, DeliveredIsReceived, link
<1>10. RowTracks'
  <2>1. ASSUME NEW k \in Pkt, pending[k] # Inactive PROVE \E i \in DOMAIN rows' : rows'[i].uid = frame[k] /\ rows'[i].pkt = k
    <3>1. \A q \in Tasks : task[q].pc # "stamp"
      BY <1>1, <1>2, IdleHolds, Zenon
    <3>2. PICK i \in DOMAIN rows : rows[i].uid = frame[k] /\ rows[i].pkt = k
      BY <1>8, <2>1, <3>1, Zenon DEF RowTracks
    <3> QED
      BY <1>7, <3>2, Zenon
  <2> QED
    BY <1>1, <2>1, Zenon DEF RowTracks, Pkt, Inactive
<1> QED
  BY <1>1, <1>3, <1>9, <1>10, SenderRows, Zenon

(* A refusal by the gate, the counter, the cipher or the session table.    *)
LEMMA RefusedKeeps ==
    ASSUME SendIInv, RunsToEnd, NEW t \in Tasks \ {"worker"}, SendRefused(t), SendTypeOK'
    PROVE  SendIInv'
<1>1. rows \in Seq(Row)
  BY Zenon DEF SendIInv, SendTypeOK
<1>2. RowsKept
  BY <1>1, FailedKept, Zenon DEF SendRefused
<1>3. task[t].pc # "stamp" /\ Runs(t) /\ Return(t) /\ UNCHANGED <<queue, pending, frame, link, sess, route, written>>
  BY Zenon DEF SendRefused, At
<1> QED
  BY <1>2, <1>3, ReturnKeeps, Zenon

(* No session: a handshake begins.                                         *)
LEMMA SessionLookupKeeps ==
    ASSUME SendIInv, RunsToEnd, NEW t \in Tasks \ {"worker"}, SessionLookup(t), SendTypeOK'
    PROVE  SendIInv'
<1>1. /\ Runs(t) /\ task[t].pc = "session" /\ Goto(t, "queueSession") /\ sess' = "handshaking"
      /\ UNCHANGED <<rows, queue, pending, frame, link, written>> /\ route' = route
  BY Zenon DEF SessionLookup, At
<1>2. SendTypeOK /\ (\A q \in Tasks \ {t} : task[q] = Idle) /\ Sending(task[t]) /\ FreshHasNoRow(task[t])
  BY <1>1, SenderStarts, Zenon
<1>3. t \in Tasks /\ t # "worker" /\ TasksOK
  BY <1>2, Zenon DEF SendTypeOK
<1>4. /\ \A q \in Tasks \ {t} : task'[q] = task[q]
      /\ task'[t].pc = "queueSession" /\ task'[t].uid = task[t].uid /\ task'[t].fresh = task[t].fresh
      /\ task'[t].slot = task[t].slot /\ task'[t].todo = task[t].todo
  BY <1>1, <1>3, TaskGoes, Zenon
<1>5. SenderSound(task[t])'
  <2>1. Sending(task[t])'
    BY <1>1, <1>2, <1>4, Zenon DEF Sending, Quiet
  <2>2. FreshHasNoRow(task[t])'
    BY <1>1, <1>2, <1>4, Zenon DEF FreshHasNoRow
  <2> QED
    BY <1>4, <2>1, <2>2, Zenon DEF SenderSound, JustSent
<1>6. Solo(t)
  BY <1>2, <1>4, <1>5, Zenon DEF Solo
<1>7. TablesSame /\ NoneQueued
  BY <1>1, <1>2, NothingSent, NoRowChanged, Zenon DEF NoneQueued
<1> QED
  BY <1>1, <1>6, <1>7, SenderStep, Zenon

(* queue_message_for_session                                               *)
LEMMA QueueSessionKeeps ==
    ASSUME SendIInv, RunsToEnd, NEW t \in Tasks \ {"worker"}, QueueSessionMessage(t), SendTypeOK'
    PROVE  SendIInv'
<1>1. /\ Runs(t) /\ task[t].pc = "queueSession" /\ SendTypeOK /\ rows \in Seq(Row)
      /\ UNCHANGED <<pending, frame, link, sess, route, written>>
  BY Zenon DEF QueueSessionMessage, At, SendIInv, SendTypeOK
<1>2. RowsKept
  <2>1. rows' = rows \/ \E u : Failed(u)
    BY Zenon DEF QueueSessionMessage
  <2> QED
    BY <1>1, <2>1, NoRowChanged, FailedKept, Zenon
<1>3. CASE queue' = queue /\ Return(t)
  BY <1>1, <1>2, <1>3, ReturnKeeps, Zenon
<1>4. ASSUME NEW s, QueuedFor(task[t].uid) = {}, Fill(s, task[t].uid, "session"),
             IF task[t].fresh THEN Goto(t, "addRow") ELSE Return(t)
      PROVE  SendIInv'
  <2>1. "session" \in {"route", "session"} /\ task[t].pc = (IF "session" = "route" THEN "queueRoute" ELSE "queueSession")
    BY <1>1, Zenon
  <2> QED
    BY <1>1, <1>2, <1>4, <2>1, FillKeeps, Zenon
<1> QED
  BY <1>3, <1>4, Zenon DEF QueueSessionMessage

-----------------------------------------------------------------------------
(* A frame handed to the radio under a packet id of its own.               *)
LEMMA NewFrame ==
    ASSUME SendIInv, SendTypeOK', NEW u \in 1 .. written, NEW t, Transmit(t, u), UNCHANGED <<rows, pending, written>>,
           \A q \in Tasks : task[q].pc # "stamp"
    PROVE  /\ Calms /\ FrameSound' /\ RowSound' /\ RowTracks'
           /\ NextPkt \in Pkt /\ frame'[NextPkt] = u
<1>1. SendTypeOK /\ FrameSound /\ RowSound /\ RowTracks
  BY Zenon DEF SendIInv
<1>2. PICK n : n = NextPkt
  BY Zenon
<1>3. n \in Pkt /\ frame[n] = 0
  BY <1>2, NextFresh, Zenon DEF Transmit
<1>4. frame'[n] = u /\ \A k \in Pkt \ {n} : frame'[k] = frame[k]
  BY <1>1, <1>2, <1>3, Zenon DEF Transmit, SendTypeOK
<1>5. u # 0 /\ u <= written
  BY <1>1, Messages, Zenon DEF SendTypeOK
<1>6. pending[n] = Inactive
  BY <1>1, <1>3, Zenon DEF FrameSound
<1>7. Calms
  BY <1>4, <1>6, Zenon DEF Calms
<1>8. FrameSound'
  <2>1. \A k \in Pkt : frame'[k] <= written
    BY <1>1, <1>4, <1>5, Zenon DEF FrameSound
  <2>2. \A k \in Pkt : frame'[k] = 0 => pending[k] = Inactive
    BY <1>1, <1>4, <1>5, Zenon DEF FrameSound
  <2>3. \A k \in air' \cup accepted' : frame'[k] # 0
    <3>1. air' = air \cup {n} /\ accepted' = accepted /\ air \subseteq Pkt /\ accepted \subseteq Pkt
      BY <1>1, <1>2, Zenon DEF Transmit, SendTypeOK
    <3> QED
      BY <1>1, <1>4, <1>5, <3>1, Zenon DEF FrameSound
  <2>4. acks' \subseteq accepted'
    BY <1>1, Zenon DEF FrameSound, Transmit
  <2>5. \A j, k \in Pkt : pending[j] # Inactive /\ pending[k] # Inactive /\ frame'[j] = frame'[k] => j = k
    BY <1>1, <1>4, <1>6, Zenon DEF FrameSound
  <2> QED
    BY <2>1, <2>2, <2>3, <2>4, <2>5, Zenon DEF FrameSound, Pkt, Inactive
<1>9. RowSound'
  <2>1. ASSUME NEW i \in DOMAIN rows, rows[i].pkt # 0 PROVE frame'[rows[i].pkt] = rows[i].uid
    <3>1. frame[rows[i].pkt] = rows[i].uid /\ rows[i].uid # 0
      <4>1. rows[i].uid \in 1 .. written
        BY <1>1, <2>1, Zenon DEF RowSound
      <4>2. rows[i].uid # 0
        BY <1>1, <4>1, Messages, Zenon DEF SendTypeOK
      <4> QED
        BY <1>1, <2>1, <4>2, Zenon DEF RowSound
    <3>2. rows[i].pkt \in Pkt
      BY <1>1, <2>1, RowFields, Packets, Zenon DEF SendTypeOK
    <3> QED
      BY <1>3, <1>4, <3>1, <3>2, Zenon
  <2>2. ASSUME NEW i \in DOMAIN rows, rows[i].status = "DELIVERED" PROVE \E k \in accepted : frame'[k] = rows[i].uid
    <3>1. PICK k \in accepted : frame[k] = rows[i].uid
      BY <1>1, <2>2, Zenon DEF RowSound, DeliveredIsReceived
    <3>2. frame[k] # 0 /\ k \in Pkt
      BY <1>1, <3>1, Zenon DEF FrameSound, SendTypeOK
    <3> QED
      BY <1>3, <1>4, <3>1, <3>2, Zenon
  <2>3. accepted' = accepted
    BY Zenon DEF Transmit
  <2> QED
    BY <1>1, <2>1, <2>2, <2>3, Zenon DEF RowSound, OneRowPerMessage, DeliveredIsReceived
<1>10. RowTracks'
  <2>1. ASSUME NEW k \in Pkt, pending[k] # Inactive PROVE \E i \in DOMAIN rows : rows[i].uid = frame'[k] /\ rows[i].pkt = k
    BY <1>1, <1>4, <1>6, <2>1, Zenon DEF RowTracks
  <2> QED
    BY <2>1, Zenon DEF RowTracks, Pkt, Inactive
<1> QED
  BY <1>2, <1>3, <1>4, <1>7, <1>8, <1>9, <1>10, Zenon

(* A frame just sent whose ACK is awaited.                                 *)
LEMMA NewAck ==
    ASSUME SendIInv, SendTypeOK', NEW t \in Tasks, NEW u \in 1 .. written, NEW k \in Pkt, frame[k] = u, Quiet(u),
           pending' = pending \/ pending' = [pending EXCEPT ![k] = 0],
           UNCHANGED <<rows, frame, link, written>>, task'[t].pc = "stamp", task'[t].pkt = k,
           \A q \in Tasks : task[q].pc # "stamp"
    PROVE  /\ FrameSound' /\ RowSound' /\ RowTracks'
           /\ \A v : v # u /\ Quiet(v) => Quiet(v)'
           /\ \A j \in Pkt : frame'[j] = u /\ pending'[j] # Inactive => j = k
<1>1. SendTypeOK /\ FrameSound /\ RowSound /\ RowTracks
  BY Zenon DEF SendIInv
<1>2. \A j \in Pkt \ {k} : pending'[j] = pending[j]
  BY <1>1, Zenon DEF SendTypeOK
<1>3. \A j \in Pkt : frame[j] = u => pending[j] = Inactive
  BY Zenon DEF Quiet
<1>4. u # 0
  BY <1>1, Messages, Zenon DEF SendTypeOK
<1>5. ASSUME NEW v, v # u, Quiet(v) PROVE Quiet(v)'
  <2>1. ASSUME NEW j \in Pkt, frame[j] = v PROVE pending'[j] = Inactive
    BY <1>2, <1>5, <2>1, Zenon DEF Quiet
  <2> QED
    BY <2>1, Zenon DEF Quiet, Pkt, Inactive
<1>6. \A j \in Pkt : frame[j] = u /\ pending'[j] # Inactive => j = k
  BY <1>2, <1>3, Zenon
<1>7. FrameSound'
  <2>1. \A j \in Pkt : frame[j] = 0 => pending'[j] = Inactive
    BY <1>1, <1>2, <1>4, Zenon DEF FrameSound
  <2>2. ASSUME NEW i \in Pkt, NEW j \in Pkt, pending'[i] # Inactive, pending'[j] # Inactive, frame[i] = frame[j] PROVE i = j
    <3>1. CASE frame[i] = u
      BY <1>6, <2>2, <3>1, Zenon
    <3>2. CASE frame[i] # u
      BY <1>1, <1>2, <2>2, <3>2, Zenon DEF FrameSound
    <3> QED
      BY <3>1, <3>2, Zenon
  <2> QED
    BY <1>1, <2>1, <2>2, Zenon DEF FrameSound, link, Pkt, Inactive
<1>8. RowSound'
  BY <1>1, Zenon DEF RowSound, OneRowPerMessage, DeliveredIsReceived, link
<1>9. RowTracks'
  <2>1. ASSUME NEW j \in Pkt, pending'[j] # Inactive
        PROVE  \/ \E i \in DOMAIN rows : rows[i].uid = frame[j] /\ rows[i].pkt = j
               \/ task'[t].pc = "stamp" /\ task'[t].pkt = j
    BY <1>1, <1>2, <2>1, Zenon DEF RowTracks
  <2> QED
    BY <2>1, Zenon DEF RowTracks, Pkt, Inactive
<1> QED
  BY <1>5, <1>6, <1>7, <1>8, <1>9, Zenon

(* The row of a message just sent names its frame.                         *)
LEMMA StampedRow ==
    ASSUME SendIInv, SendTypeOK', NEW u \in 1 .. written, NEW k \in Pkt, frame[k] = u, rows' = Reconciled(rows, u, k),
           UNCHANGED <<pending, frame, link, written>>,
           \A j \in Pkt : frame[j] = u /\ pending[j] # Inactive => j = k,
           \A q \in Tasks : task[q].pc = "stamp" => task[q].pkt = k
    PROVE  RowSound' /\ RowTracks'
<1>1. SendTypeOK /\ RowSound /\ RowTracks /\ rows \in Seq(Row)
  BY Zenon DEF SendIInv, SendTypeOK
<1>2. u \in 0 .. MaxUid /\ k \in 0 .. MaxPkt /\ k # 0 /\ u # 0
  BY <1>1, Messages, Packets, Zenon DEF SendTypeOK
<1>3. PICK m \in DOMAIN rows' :
        /\ rows'[m].uid = u /\ rows'[m].pkt = k
        /\ rows'[m].status = "DELIVERED" => rows[m].status = "DELIVERED" /\ m \in DOMAIN rows
        /\ \A i \in DOMAIN rows' : i # m => i \in DOMAIN rows /\ rows'[i] = rows[i]
        /\ \A i \in DOMAIN rows : i \in DOMAIN rows'
        /\ m \in DOMAIN rows => rows[m].uid = u
        /\ m \notin DOMAIN rows => \A i \in DOMAIN rows : rows[i].uid # u
  <2>1. CASE RowOf(u) # 0
    <3>1. PICK m : m = RowOf(u)
      BY Zenon
    <3>2. m \in DOMAIN rows /\ rows[m].uid = u
      BY <1>1, <2>1, <3>1, RowFound, Zenon
    <3>3. OneRowSet(rows', m, k, Settle(rows[m].status, "SENT"))
      BY <1>1, <1>2, <2>1, <3>1, RowReconciled, Zenon
    <3>4. rows'[m].status = "DELIVERED" => rows[m].status = "DELIVERED"
      BY <3>2, <3>3, Zenon DEF OneRowSet, Settle
    <3> QED
      BY <3>2, <3>3, <3>4, Zenon DEF OneRowSet
  <2>2. CASE RowOf(u) = 0
    <3>1. PICK m : m = Len(rows) + 1
      BY Zenon
    <3>2. rows' = Added(rows, u, k, "SENT") /\ "SENT" \in Status
      BY <1>1, <1>2, <2>2, RowReconciled, Zenon DEF Status
    <3>3. /\ DOMAIN rows' = DOMAIN rows \cup {m} /\ m \notin DOMAIN rows
          /\ \A i \in DOMAIN rows : rows'[i] = rows[i]
          /\ rows'[m].uid = u /\ rows'[m].pkt = k /\ rows'[m].status = "SENT"
      BY <1>1, <1>2, <3>1, <3>2, RowAdded, ZenonT(30)
    <3>4. \A i \in DOMAIN rows : rows[i].uid # u
      BY <1>1, <1>2, <2>2, RowFound, Zenon
    <3> QED
      BY <3>3, <3>4, Zenon
  <2> QED
    BY <2>1, <2>2, Zenon
<1>4. RowSound'
  <2>1. ASSUME NEW i \in DOMAIN rows'
        PROVE  rows'[i].uid \in 1 .. written /\ (rows'[i].pkt # 0 => frame[rows'[i].pkt] = rows'[i].uid)
    <3>1. CASE i = m
      <4>1. rows'[i].uid = u /\ rows'[i].pkt = k
        BY <1>3, <3>1, Zenon
      <4> QED
        BY <4>1, Zenon
    <3>2. CASE i # m
      <4>1. i \in DOMAIN rows /\ rows'[i] = rows[i]
        BY <1>3, <3>2, Zenon
      <4> QED
        BY <1>1, <4>1, Zenon DEF RowSound
    <3> QED
      BY <3>1, <3>2, Zenon
  <2>2. ASSUME NEW i \in DOMAIN rows', NEW j \in DOMAIN rows', rows'[i].uid = rows'[j].uid, rows'[i].uid # 0 PROVE i = j
    <3>1. \A r \in DOMAIN rows : rows[r].uid = u => r = m
      BY <1>1, <1>2, <1>3, Zenon DEF RowSound, OneRowPerMessage
    <3>2. CASE i = m \/ j = m
      BY <1>3, <2>2, <3>1, <3>2, ZenonT(30)
    <3>3. CASE i # m /\ j # m
      <4>1. i \in DOMAIN rows /\ j \in DOMAIN rows /\ rows'[i] = rows[i] /\ rows'[j] = rows[j]
        BY <1>3, <3>3, Zenon
      <4> QED
        BY <1>1, <2>2, <4>1, Zenon DEF RowSound, OneRowPerMessage
    <3> QED
      BY <3>2, <3>3, Zenon
  <2>3. ASSUME NEW i \in DOMAIN rows', rows'[i].status = "DELIVERED" PROVE \E j \in accepted : frame[j] = rows'[i].uid
    <3>1. i \in DOMAIN rows /\ rows[i].status = "DELIVERED" /\ rows'[i].uid = rows[i].uid
      BY <1>3, <2>3, Zenon
    <3> QED
      BY <1>1, <3>1, Zenon DEF RowSound, DeliveredIsReceived
  <2> QED
    BY <2>1, <2>2, <2>3, ZenonT(30) DEF RowSound, OneRowPerMessage, DeliveredIsReceived, link
<1>5. RowTracks'
  <2>1. ASSUME NEW j \in Pkt, pending[j] # Inactive PROVE \E i \in DOMAIN rows' : rows'[i].uid = frame[j] /\ rows'[i].pkt = j
    <3>1. CASE j = k
      BY <1>3, <3>1, Zenon
    <3>2. CASE j # k
      <4>1. frame[j] # u
        BY <2>1, <3>2, Zenon
      <4>2. PICK i \in DOMAIN rows : rows[i].uid = frame[j] /\ rows[i].pkt = j
        BY <1>1, <2>1, <3>2, Zenon DEF RowTracks
      <4>3. i # m
        BY <1>3, <4>1, <4>2, Zenon
      <4> QED
        BY <1>3, <4>2, <4>3, Zenon
    <3> QED
      BY <3>1, <3>2, Zenon
  <2> QED
    BY <2>1, Zenon DEF RowTracks, Pkt, Inactive
<1> QED
  BY <1>4, <1>5, Zenon

(* Sending under the session: every entry for the peer that waits for it   *)
(* has been flushed, so the message is in no queue.                        *)
LEMMA SendUnderKeeps ==
    ASSUME SendIInv, RunsToEnd, NEW t \in Tasks \ {"worker"}, SendUnderSession(t), SendTypeOK'
    PROVE  SendIInv'
<1>1. /\ Runs(t) /\ task[t].pc = "session" /\ sess = "active" /\ Transmit(t, task[t].uid)
      /\ UNCHANGED <<rows, queue, pending, sess, route, written>>
  BY Zenon DEF SendUnderSession, At
<1>2. SendTypeOK /\ (\A q \in Tasks \ {t} : task[q] = Idle) /\ Sending(task[t]) /\ FreshHasNoRow(task[t])
  BY <1>1, SenderStarts, Zenon
<1>3. /\ \A q \in Tasks \ {t} : task'[q] = task[q]
      /\ task'[t].pc = "track" /\ task'[t].uid = task[t].uid /\ task'[t].fresh = task[t].fresh
      /\ task'[t].pkt = NextPkt /\ task'[t].slot = task[t].slot /\ task'[t].todo = task[t].todo
  BY <1>2, TaskSends, Zenon DEF SendTypeOK
<1>4. PICK u : u = task[t].uid
  BY Zenon
<1>5. u \in 1 .. written /\ Quiet(u)
  BY <1>1, <1>2, <1>4, Zenon DEF Sending
<1>6. /\ Calms /\ FrameSound' /\ RowSound' /\ RowTracks'
      /\ NextPkt \in Pkt /\ frame'[NextPkt] = u
  <2>1. \A q \in Tasks : task[q].pc # "stamp"
    BY <1>1, <1>2, IdleHolds, Zenon
  <2> QED
    BY <1>1, <1>4, <1>5, <2>1, NewFrame, Zenon
<1>7. NotQueued(u, 0)
  <2>1. ASSUME NEW s \in QSlot, queue[s].used PROVE queue[s].uid # u
    <3>1. queue[s].reason = "route" \/ queue[s].reason = "session"
      <4>1. queue[s] \in QEntry
        BY <1>2, <2>1, Zenon DEF SendTypeOK
      <4> QED
        BY <4>1, Zenon DEF QEntry
    <3>2. queue[s].reason # "session"
      <4>1. task["worker"].slot = 0
        BY <1>2, IdleHolds, Zenon DEF Tasks
      <4> QED
        BY <1>1, <2>1, <4>1, Zenon DEF SendIInv, DrainSound
    <3> QED
      BY <1>1, <1>2, <1>4, <2>1, <3>1, <3>2, Zenon DEF Sending
  <2> QED
    BY <2>1, Zenon DEF NotQueued
<1>8. Quiet(u)'
  BY <1>5, <1>6, CalmQuiet, Zenon
<1>9. SenderSound(task[t])'
  <2>1. FreshHasNoRow(task[t])'
    BY <1>1, <1>2, <1>3, Zenon DEF FreshHasNoRow
  <2>2. JustSent(task[t], task[t].uid, 0)'
    BY <1>1, <1>3, <1>4, <1>5, <1>6, <1>7, <1>8, Zenon DEF JustSent, Quiet, NotQueued, Pkt, QSlot, Inactive
  <2> QED
    BY <1>3, <2>1, <2>2, Zenon DEF SenderSound, Sending
<1>10. Solo(t)
  BY <1>2, <1>3, <1>9, Zenon DEF Solo
<1>11. QueueQuiet'
  BY <1>1, <1>6, <1>10, SenderCalm, Zenon
<1> QED
  BY <1>1, <1>6, <1>10, <1>11, SenderTables, Zenon

(* pending_ack_add by the user or the mesh task.                           *)
LEMMA TrackKeeps ==
    ASSUME SendIInv, RunsToEnd, NEW t \in Tasks \ {"worker"}, Track(t), SendTypeOK'
    PROVE  SendIInv'
<1>1. /\ Runs(t) /\ task[t].pc = "track" /\ Goto(t, "stamp")
      /\ UNCHANGED <<rows, queue, frame, link, sess, route, written>>
  BY Zenon DEF Track, At
<1>2. SendTypeOK /\ (\A q \in Tasks \ {t} : task[q] = Idle) /\ FreshHasNoRow(task[t]) /\ JustSent(task[t], task[t].uid, 0)
  BY <1>1, SenderStarts, Zenon
<1>3. t \in Tasks /\ t # "worker" /\ TasksOK
  BY <1>2, Zenon DEF SendTypeOK
<1>4. /\ \A q \in Tasks \ {t} : task'[q] = task[q]
      /\ task'[t].pc = "stamp" /\ task'[t].uid = task[t].uid /\ task'[t].fresh = task[t].fresh
      /\ task'[t].pkt = task[t].pkt /\ task'[t].slot = task[t].slot /\ task'[t].todo = task[t].todo
  BY <1>1, <1>3, TaskGoes, Zenon
<1>5. PICK u, k : u = task[t].uid /\ k = task[t].pkt
  BY Zenon
<1>6. u \in 1 .. written /\ k \in Pkt /\ frame[k] = u /\ Quiet(u) /\ NotQueued(u, 0)
  BY <1>1, <1>2, <1>5, Zenon DEF JustSent
<1>7. pending' = pending \/ pending' = [pending EXCEPT ![k] = 0]
  BY <1>5, Zenon DEF Track
<1>8. /\ FrameSound' /\ RowSound' /\ RowTracks'
      /\ \A v : v # u /\ Quiet(v) => Quiet(v)'
      /\ \A j \in Pkt : frame'[j] = u /\ pending'[j] # Inactive => j = k
  <2>1. (\A q \in Tasks : task[q].pc # "stamp") /\ task'[t].pkt = k
    BY <1>1, <1>2, <1>4, <1>5, IdleHolds, Zenon
  <2> QED
    BY <1>1, <1>3, <1>4, <1>6, <1>7, <2>1, NewAck, ZenonT(30)
<1>9. SenderSound(task[t])'
  <2>1. FreshHasNoRow(task[t])'
    BY <1>1, <1>2, <1>4, Zenon DEF FreshHasNoRow
  <2>2. JustSent(task[t], task[t].uid, 0)'
    BY <1>1, <1>4, <1>5, <1>6, <1>8, Zenon DEF JustSent, NotQueued, Pkt, QSlot, Inactive
  <2> QED
    BY <1>4, <2>1, <2>2, Zenon DEF SenderSound, Sending
<1>10. Solo(t)
  BY <1>2, <1>4, <1>9, Zenon DEF Solo
<1>11. QueueQuiet'
  <2>1. ASSUME NEW s \in QSlot, queue[s].used, queue[s].uid # 0 PROVE Quiet(queue[s].uid)'
    <3>1. PICK v : v = queue[s].uid
      BY Zenon
    <3>2. v # u
      <4>1. s # 0
        BY <2>1, Slots, Zenon
      <4> QED
        BY <1>6, <2>1, <3>1, <4>1, Zenon DEF NotQueued
    <3>3. task["worker"].pc \notin {"stamp", "free"}
      BY <1>10, SoloKeeps, IdleHolds, Zenon
    <3>4. Quiet(v)
      BY <2>1, <3>1, <3>3, Zenon DEF SendIInv, QueueQuiet
    <3>5. Quiet(v)'
      BY <1>8, <3>2, <3>4, Zenon
    <3> QED
      BY <1>1, <3>1, <3>5, Zenon DEF Quiet
  <2> QED
    BY <1>1, <2>1, Zenon DEF QueueQuiet, QSlot
<1> QED
  BY <1>1, <1>8, <1>10, <1>11, SenderTables, Zenon

(* The row of the message sent.                                            *)
LEMMA StampKeeps ==
    ASSUME SendIInv, RunsToEnd, NEW t \in Tasks \ {"worker"}, Stamp(t), SendTypeOK'
    PROVE  SendIInv'
<1>1. /\ Runs(t) /\ task[t].pc = "stamp" /\ Return(t) /\ rows' = Reconciled(rows, task[t].uid, task[t].pkt)
      /\ UNCHANGED <<queue, pending, frame, link, sess, route, written>>
  BY Zenon DEF Stamp, At
<1>2. SendTypeOK /\ (\A q \in Tasks \ {t} : task[q] = Idle) /\ FreshHasNoRow(task[t]) /\ JustSent(task[t], task[t].uid, 0)
  BY <1>1, SenderStarts, Zenon
<1>3. Solo(t)
  BY <1>1, <1>2, ReturnSound, Zenon DEF Solo
<1>4. PICK u, k : u = task[t].uid /\ k = task[t].pkt
  BY Zenon
<1>5. u \in 1 .. written /\ k \in Pkt /\ frame[k] = u /\ \A j \in Pkt : frame[j] = u /\ pending[j] # Inactive => j = k
  BY <1>1, <1>2, <1>4, Zenon DEF JustSent
<1>6. RowSound' /\ RowTracks'
  <2>1. \A q \in Tasks : task[q].pc = "stamp" => task[q].pkt = k
    BY <1>2, <1>4, IdleHolds, Zenon
  <2> QED
    BY <1>1, <1>4, <1>5, <2>1, StampedRow, Zenon
<1> QED
  BY <1>1, <1>3, <1>6, SenderRows, Zenon

(* Every step of the pipeline by the user or the mesh task.                *)
LEMMA PipelineKeeps ==
    ASSUME SendIInv, RunsToEnd, NEW t \in Tasks \ {"worker"}, Pipeline(t)
    PROVE  SendIInv'
<1>1. SendTypeOK'
  BY PipelineTyped, Zenon DEF SendIInv
<1> QED
  BY <1>1, RouteLookupKeeps, QueueMessageKeeps, AddRowKeeps, SendUnderKeeps, RefusedKeeps, SessionLookupKeeps,
     QueueSessionKeeps, TrackKeeps, StampKeeps, Zenon DEF Pipeline

-----------------------------------------------------------------------------
(* When an idle task may take a step, all of them are idle.                *)
LEMMA AllIdle ==
    ASSUME SendIInv, RunsToEnd, NEW t \in Tasks, At(t, "idle")
    PROVE  \A q \in Tasks : task[q] = Idle
<1>1. SendTypeOK /\ Runs(t) /\ task[t].pc = "idle"
  BY Zenon DEF SendIInv, At
<1>2. TaskShape(task[t])
  BY <1>1, Zenon DEF SendTypeOK, TasksOK
<1> QED
  BY <1>1, <1>2, OthersIdle, Zenon DEF TaskShape

(* A timer or an answer, with every task idle before and after.            *)
LEMMA IdleSolo ==
    ASSUME \A q \in Tasks : task[q] = Idle, task' = task
    PROVE  "mesh" \in Tasks \ {"worker"} /\ Solo("mesh") /\ task["mesh"].pc # "stamp"
<1>1. "mesh" \in Tasks \ {"worker"}
  BY Zenon DEF Tasks
<1>2. SenderSound(task["mesh"])'
  BY <1>1, IdleSound, Zenon
<1> QED
  BY <1>1, <1>2, IdleHolds, Zenon DEF Solo

(* The user writes a message.                                              *)
LEMMA WriteKeeps ==
    ASSUME SendIInv, RunsToEnd, Write, SendTypeOK'
    PROVE  SendIInv'
<1>1. "user" \in Tasks /\ "user" # "worker" /\ SendTypeOK /\ TasksOK
  BY Zenon DEF Tasks, SendIInv, SendTypeOK
<1>2. \A q \in Tasks : task[q] = Idle
  BY <1>1, AllIdle, Zenon DEF Write
<1>3. PICK n : n = written + 1
  BY Zenon
<1>4. n \in 0 .. MaxUid /\ n \in 1 .. written' /\ written <= written' /\ \A m \in Nat : m <= written => m # n
  <2>1. written \in 0 .. MaxUid /\ written < MaxUid /\ written' = written + 1
    BY <1>1, Zenon DEF Write, SendTypeOK
  <2> QED
    BY <1>3, <2>1, NextMessage, Zenon
<1>5. /\ \A q \in Tasks \ {"user"} : task'[q] = task[q]
      /\ task'["user"].pc = "send" /\ task'["user"].uid = n /\ task'["user"].fresh = TRUE
      /\ task'["user"].slot = 0 /\ task'["user"].todo = <<>>
  <2>1. task' = [task EXCEPT !["user"] = Begin("send", n, TRUE, 0, <<>>)]
    BY <1>3, Zenon DEF Write
  <2>2. 0 \in Nat /\ TRUE \in BOOLEAN
    BY Constants, Zenon
  <2>3. Began("user", "send", n, TRUE, 0, <<>>)
    BY <1>1, <1>4, <2>1, <2>2, TaskStarts, Zenon
  <2> QED
    BY <2>3, Zenon DEF Began
<1>6. UNCHANGED <<rows, queue, pending, frame, link>> /\ route' = route /\ sess' = sess
  BY Zenon DEF Write
<1>7. \A k \in Pkt : frame[k] # n
  <2>1. ASSUME NEW k \in Pkt PROVE frame[k] # n
    <3>1. frame[k] \in 0 .. MaxUid /\ frame[k] <= written
      BY <1>1, <2>1, Zenon DEF SendTypeOK, SendIInv, FrameSound
    <3>2. frame[k] \in Nat
      BY <3>1, Messages, Zenon
    <3> QED
      BY <1>4, <3>1, <3>2, Zenon
  <2> QED
    BY <2>1, Zenon
<1>8. \A s \in QSlot : queue[s].used => queue[s].uid # n
  <2>1. ASSUME NEW s \in QSlot, queue[s].used PROVE queue[s].uid # n
    <3>1. queue[s] \in QEntry
      BY <1>1, <2>1, Zenon DEF SendTypeOK
    <3>2. queue[s].uid \in Nat
      BY <3>1, EntryFields, Messages, Zenon
    <3>3. queue[s].uid <= written
      BY <2>1, Zenon DEF SendIInv, QueueOnce
    <3> QED
      BY <1>4, <3>2, <3>3, Zenon
  <2> QED
    BY <2>1, Zenon
<1>9. \A i \in DOMAIN rows : rows[i].uid # n
  <2>1. ASSUME NEW i \in DOMAIN rows PROVE rows[i].uid # n
    <3>1. rows[i].uid \in 1 .. written
      BY <2>1, Zenon DEF SendIInv, RowSound
    <3>2. rows[i].uid \in Nat /\ rows[i].uid <= written
      BY <1>1, <3>1, Messages, Zenon DEF SendTypeOK
    <3> QED
      BY <1>4, <3>2, Zenon
  <2> QED
    BY <2>1, Zenon
<1>10. SenderSound(task["user"])'
  <2>1. Sending(task["user"])'
    BY <1>4, <1>5, <1>6, <1>7, <1>8, Zenon DEF Sending, Quiet, Pkt, QSlot
  <2>2. FreshHasNoRow(task["user"])'
    BY <1>5, <1>6, <1>9, Zenon DEF FreshHasNoRow
  <2> QED
    BY <1>5, <2>1, <2>2, Zenon DEF SenderSound, JustSent
<1>11. Solo("user") /\ task["user"].pc # "stamp"
  BY <1>1, <1>2, <1>5, <1>10, IdleHolds, Zenon DEF Solo
<1>12. TablesSame /\ NoneQueued
  <2>1. RowsKept
    BY <1>1, <1>6, NoRowChanged, Zenon
  <2>2. (\A k \in air \cup accepted : frame[k] # 0) /\ acks \subseteq accepted
    BY Zenon DEF SendIInv, FrameSound
  <2> QED
    BY <1>4, <1>6, <2>1, <2>2, Zenon DEF TablesSame, NoneQueued, Calms, link
<1> QED
  BY <1>1, <1>6, <1>11, <1>12, SenderStep, Zenon

(* The user parks a row or takes it out again.                             *)
LEMMA ParkKeeps ==
    ASSUME SendIInv, RunsToEnd, ParkRow \/ \E u \in Uid : ParkCheck(u) \/ Cancel(u), SendTypeOK'
    PROVE  SendIInv'
<1>1. "user" \in Tasks \ {"worker"} /\ "user" \in Tasks /\ SendTypeOK /\ TasksOK /\ rows \in Seq(Row)
  BY Zenon DEF Tasks, SendIInv, SendTypeOK
<1>2. CASE ParkRow
  <2>1. RowsKept
    <3>1. "QUEUED" \in Status /\ "QUEUED" # "DELIVERED"
      BY Zenon DEF Status
    <3> QED
      BY <1>1, <1>2, <3>1, UidKept, Zenon DEF ParkRow
  <2>2. Runs("user") /\ task["user"].pc = "park" /\ UNCHANGED <<queue, pending, frame, link, sess, route, written>>
    BY <1>2, Zenon DEF ParkRow, At
  <2>3. (\A q \in Tasks \ {"user"} : task[q] = Idle) /\ task["user"].slot = 0
    BY <1>1, <2>2, SenderStarts, Zenon
  <2>4. task'["user"] = Idle /\ \A q \in Tasks \ {"user"} : task'[q] = task[q]
    BY <1>1, <1>2, TaskStops, Zenon DEF ParkRow
  <2>5. SenderSound(task["user"])'
    BY <1>1, <2>4, IdleSound, Zenon
  <2>6. Solo("user") /\ task["user"].pc # "stamp"
    BY <2>2, <2>3, <2>4, <2>5, IdleHolds, Zenon DEF Solo
  <2>7. TablesSame /\ NoneQueued
    BY <2>1, <2>2, NothingSent, Zenon DEF NoneQueued
  <2> QED
    BY <1>1, <2>2, <2>6, <2>7, SenderStep, Zenon
<1>3. ASSUME NEW u \in Uid, ParkCheck(u) PROVE SendIInv'
  <2>1. At("user", "idle") /\ UNCHANGED <<rows, queue, pending, frame, link, sess, route, written>>
    BY <1>3, Zenon DEF ParkCheck
  <2>2. \A q \in Tasks : task[q] = Idle
    BY <1>1, <2>1, AllIdle, Zenon
  <2>3. /\ \A q \in Tasks \ {"user"} : task'[q] = task[q]
        /\ task'["user"].pc = "park" /\ task'["user"].fresh = FALSE /\ task'["user"].slot = 0
    <3>1. task' = [task EXCEPT !["user"] = Begin("park", u, FALSE, 0, <<>>)]
      BY <1>3, Zenon DEF ParkCheck
    <3>2. 0 \in Nat /\ FALSE \in BOOLEAN /\ u \in 0 .. MaxUid
      BY <1>3, Constants, UidRange, Zenon
    <3>3. Began("user", "park", u, FALSE, 0, <<>>)
      BY <1>1, <3>1, <3>2, TaskStarts, Zenon
    <3> QED
      BY <3>3, Zenon DEF Began
  <2>4. SenderSound(task["user"])'
    BY <2>3, Zenon DEF SenderSound, Sending, FreshHasNoRow, JustSent
  <2>5. Solo("user") /\ task["user"].pc # "stamp"
    BY <1>1, <2>2, <2>3, <2>4, IdleHolds, Zenon DEF Solo
  <2>6. TablesSame /\ NoneQueued
    BY <1>1, <2>1, NothingSent, NoRowChanged, Zenon DEF NoneQueued
  <2> QED
    BY <1>1, <2>1, <2>5, <2>6, SenderStep, Zenon
<1>4. ASSUME NEW u \in Uid, Cancel(u) PROVE SendIInv'
  <2>1. At("user", "idle") /\ UNCHANGED <<queue, pending, frame, link, sess, route, task, written>>
    BY <1>4, Zenon DEF Cancel
  <2>2. Solo("mesh") /\ task["mesh"].pc # "stamp" /\ "mesh" \in Tasks \ {"worker"}
    BY <1>1, <2>1, AllIdle, IdleSolo, Zenon
  <2>3. RowsKept
    <3>1. RowOf(u) \in DOMAIN rows
      BY <1>1, <1>4, RowFound, Zenon DEF Cancel, Has
    <3> QED
      BY <1>1, <1>4, <3>1, Unparked, Zenon DEF Cancel
  <2>4. TablesSame /\ NoneQueued
    BY <2>1, <2>3, NothingSent, Zenon DEF NoneQueued
  <2> QED
    BY <2>1, <2>2, <2>4, SenderStep, Zenon
<1> QED
  BY <1>2, <1>3, <1>4, Zenon

(* A timer or an answer, taken with every task idle.                       *)
LEMMA IdleStep ==
    ASSUME SendIInv, RunsToEnd, At("mesh", "idle"), task' = task, TablesSame, NoneQueued,
           route' => route, sess' = sess
    PROVE  SendIInv'
<1>1. \A q \in Tasks : task[q] = Idle
  BY AllIdle, Zenon DEF Tasks
<1>2. "mesh" \in Tasks \ {"worker"} /\ Solo("mesh") /\ task["mesh"].pc # "stamp"
  BY <1>1, IdleSolo, Zenon
<1> QED
  BY <1>2, SenderStep, Zenon

(* Frames are given up or sent again.                                      *)
LEMMA TablesTimed ==
    ASSUME SendIInv, SendTypeOK', RowsKept, Calms, UNCHANGED <<frame, acks, accepted, written>>,
           \A k \in air' \ air : frame[k] # 0
    PROVE  TablesSame
<1>1. written <= written'
  BY WrittenSame, Zenon DEF SendIInv
<1>2. (\A k \in air \cup accepted : frame[k] # 0) /\ acks \subseteq accepted
  BY Zenon DEF SendIInv, FrameSound
<1> QED
  BY <1>1, <1>2, Zenon DEF TablesSame

(* pending_ack_tick                                                        *)
LEMMA RetryKeeps ==
    ASSUME SendIInv, RunsToEnd, NEW k \in Pkt, RetryTick(k), SendTypeOK'
    PROVE  SendIInv'
<1>1. At("mesh", "idle") /\ UNCHANGED <<queue, frame, acks, accepted, sess, route, task, written>> /\ NoneQueued
  BY Zenon DEF RetryTick, NoneQueued
<1>2. SendTypeOK /\ rows \in Seq(Row) /\ DOMAIN pending = Pkt /\ pending[k] # Inactive
  BY Zenon DEF SendIInv, SendTypeOK, RetryTick, Active
<1>3. frame[k] # 0
  BY <1>2, Zenon DEF SendIInv, FrameSound
<1>4. RowsKept
  <2>1. CASE rows' = rows
    BY <1>2, <2>1, NoRowChanged, Zenon
  <2>2. CASE rows' = UpdateByPkt(rows, k, "FAILED")
    BY <1>2, <2>2, PktKept, Zenon
  <2> QED
    BY <2>1, <2>2, Zenon DEF RetryTick
<1>5. Calms
  <2>1. \A j \in Pkt \ {k} : pending'[j] = pending[j]
    BY <1>2, Zenon DEF RetryTick
  <2> QED
    BY <1>1, <1>2, <2>1, Zenon DEF Calms
<1>6. \A j \in air' \ air : frame[j] # 0
  BY <1>3, Zenon DEF RetryTick
<1>7. TablesSame
  BY <1>1, <1>4, <1>5, <1>6, TablesTimed, Zenon
<1> QED
  BY <1>1, <1>7, IdleStep, Zenon

(* handle_rerr, or the route's entry ages out.                             *)
LEMMA RouteLostKeeps ==
    ASSUME SendIInv, RunsToEnd, NEW rerr \in BOOLEAN, RouteLost(rerr), SendTypeOK'
    PROVE  SendIInv'
<1>1. At("mesh", "idle") /\ UNCHANGED <<queue, frame, air, acks, accepted, sess, task, written>> /\ NoneQueued /\ ~route'
  BY Zenon DEF RouteLost, NoneQueued, link
<1>2. rows \in Seq(Row)
  BY Zenon DEF SendIInv, SendTypeOK
<1>3. RowsKept
  BY <1>2, RouteFails, Zenon
<1>4. Calms
  <2>1. CASE rerr
    <3>1. pending' = [j \in Pkt |-> Inactive]
      BY <2>1, Zenon DEF RouteLost
    <3> QED
      BY <3>1, Zenon DEF Calms
  <2>2. CASE ~rerr
    <3>1. pending' = pending
      BY <2>2, Zenon DEF RouteLost
    <3> QED
      BY <1>1, <3>1, Zenon DEF Calms
  <2> QED
    BY <2>1, <2>2, Zenon
<1>5. TablesSame
  BY <1>1, <1>3, <1>4, TablesTimed, Zenon
<1> QED
  BY <1>1, <1>5, IdleStep, Zenon

(* An entry's wait, or a parked row's window, is over.                     *)
LEMMA ExpireKeeps ==
    ASSUME SendIInv, RunsToEnd, (\E s \in QSlot : ExpireQueued(s)) \/ \E i \in DOMAIN rows : ExpireParked(i), SendTypeOK'
    PROVE  SendIInv'
<1>1. rows \in Seq(Row) /\ queue \in [QSlot -> QEntry]
  BY Zenon DEF SendIInv, SendTypeOK
<1>2. ASSUME NEW s \in QSlot, ExpireQueued(s) PROVE SendIInv'
  <2>1. At("mesh", "idle") /\ UNCHANGED <<pending, frame, link, sess, route, task, written>>
    BY <1>2, Zenon DEF ExpireQueued
  <2>2. RowsKept
    BY <1>1, <1>2, FailedKept, Zenon DEF ExpireQueued
  <2>3. Release(s)
    BY <1>2, Zenon DEF ExpireQueued
  <2>4. NoneQueued
    BY <1>1, <1>2, <2>3, Released, Zenon DEF NoneQueued
  <2>5. TablesSame
    BY <2>1, <2>2, NothingSent, Zenon
  <2> QED
    BY <2>1, <2>4, <2>5, IdleStep, Zenon
<1>3. ASSUME NEW i \in DOMAIN rows, ExpireParked(i) PROVE SendIInv'
  <2>1. At("mesh", "idle") /\ UNCHANGED <<queue, pending, frame, link, sess, route, task, written>>
    BY <1>3, Zenon DEF ExpireParked
  <2>2. RowsKept
    BY <1>1, <1>3, Unparked, Zenon DEF ExpireParked
  <2>3. TablesSame /\ NoneQueued
    BY <2>1, <2>2, NothingSent, Zenon DEF NoneQueued
  <2> QED
    BY <2>1, <2>3, IdleStep, Zenon
<1> QED
  BY <1>2, <1>3, Zenon

(* handle_ack: the peer has what the row says.                             *)
LEMMA AckKeeps ==
    ASSUME SendIInv, RunsToEnd, NEW k \in Pkt, HandleAck(k), SendTypeOK'
    PROVE  SendIInv'
<1>1. At("mesh", "idle") /\ UNCHANGED <<queue, frame, air, accepted, sess, route, task, written>>
  BY Zenon DEF HandleAck
<1>2. /\ SendTypeOK /\ rows \in Seq(Row) /\ DOMAIN pending = Pkt /\ k \in accepted /\ frame[k] # 0
      /\ acks' \subseteq accepted' /\ \A j \in air' \cup accepted' : frame[j] # 0
  BY <1>1, Zenon DEF SendIInv, SendTypeOK, FrameSound, HandleAck
<1>3. \A q \in Tasks : task[q] = Idle
  BY <1>1, AllIdle, Zenon DEF Tasks
<1>4. "mesh" \in Tasks \ {"worker"} /\ Solo("mesh")
  BY <1>1, <1>3, IdleSolo, Zenon
<1>5. Calms
  <2>1. pending' = [pending EXCEPT ![k] = Inactive]
    BY Zenon DEF HandleAck
  <2> QED
    BY <1>1, <1>2, <2>1, Zenon DEF Calms
<1>6. FrameSound'
  <2>1. written <= written'
    BY <1>1, <1>2, WrittenSame, Zenon
  <2> QED
    BY <1>1, <1>2, <1>5, <2>1, FramesSame, Zenon DEF SendIInv
<1>7. /\ DOMAIN rows' = DOMAIN rows
      /\ \A i \in DOMAIN rows : rows'[i].uid = rows[i].uid /\ rows'[i].pkt = rows[i].pkt
      /\ \A i \in DOMAIN rows : rows'[i] = rows[i] \/ rows[i].pkt = k
  <2>1. "DELIVERED" \in Status /\ rows' = UpdateByPkt(rows, k, "DELIVERED")
    BY Zenon DEF Status, HandleAck
  <2>2. CASE RowOfPkt(k) = 0 /\ UpdateByPkt(rows, k, "DELIVERED") = rows
    BY <2>1, <2>2, Zenon
  <2>3. CASE RowOfPkt(k) # 0 /\ OneRowSet(UpdateByPkt(rows, k, "DELIVERED"), RowOfPkt(k), k, Settle(rows[RowOfPkt(k)].status, "DELIVERED"))
    <3>1. RowOfPkt(k) \in DOMAIN rows /\ rows[RowOfPkt(k)].pkt = k
      BY <1>2, <2>3, PktFound, Zenon
    <3>2. OneRowSet(rows', RowOfPkt(k), k, Settle(rows[RowOfPkt(k)].status, "DELIVERED"))
      BY <2>1, <2>3, Zenon
    <3> QED
      BY <3>1, <3>2, Zenon DEF OneRowSet
  <2> QED
    BY <1>2, <2>1, <2>2, <2>3, PktUpdated, Zenon
<1>8. RowSound'
  <2>1. ASSUME NEW i \in DOMAIN rows' PROVE i \in DOMAIN rows /\ rows'[i].uid \in 1 .. written' /\ (rows'[i].pkt # 0 => frame'[rows'[i].pkt] = rows'[i].uid)
    BY <1>1, <1>7, <2>1, Zenon DEF SendIInv, RowSound
  <2>2. OneRowPerMessage'
    BY <1>7, Zenon DEF SendIInv, RowSound, OneRowPerMessage
  <2>3. ASSUME NEW i \in DOMAIN rows', rows'[i].status = "DELIVERED" PROVE \E j \in accepted' : frame'[j] = rows'[i].uid
    <3>1. i \in DOMAIN rows /\ rows'[i].uid = rows[i].uid
      BY <1>7, <2>3, Zenon
    <3>2. CASE rows'[i] = rows[i]
      BY <1>1, <2>3, <3>1, <3>2, Zenon DEF SendIInv, RowSound, DeliveredIsReceived
    <3>3. CASE rows[i].pkt = k
      <4>1. k # 0
        BY Packets, Zenon
      <4>2. frame[k] = rows[i].uid
        BY <3>1, <3>3, <4>1, Zenon DEF SendIInv, RowSound
      <4> QED
        BY <1>1, <1>2, <3>1, <4>2, Zenon
    <3> QED
      BY <1>7, <3>1, <3>2, <3>3, Zenon
  <2> QED
    BY <2>1, <2>2, <2>3, Zenon DEF RowSound, DeliveredIsReceived
<1>9. RowTracks'
  <2>1. ASSUME NEW j \in Pkt, pending'[j] # Inactive PROVE \E i \in DOMAIN rows' : rows'[i].uid = frame'[j] /\ rows'[i].pkt = j
    <3>1. pending[j] # Inactive
      BY <1>5, <2>1, Zenon DEF Calms
    <3>2. PICK i \in DOMAIN rows : rows[i].uid = frame[j] /\ rows[i].pkt = j
      BY <1>3, <3>1, IdleHolds, Zenon DEF SendIInv, RowTracks
    <3> QED
      BY <1>1, <1>7, <3>2, Zenon
  <2> QED
    BY <2>1, Zenon DEF RowTracks, Pkt, Inactive
<1>10. QueueQuiet'
  BY <1>1, <1>4, <1>5, SenderCalm, Zenon
<1> QED
  BY <1>1, <1>4, <1>6, <1>8, <1>9, <1>10, SenderTables, Zenon
=============================================================================
