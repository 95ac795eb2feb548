---------------------------- MODULE TimedReplies ----------------------------
(***************************************************************************)
(* The delivery-receipt queue (main/mesh_reliability.c) and the            *)
(* probe-reply queue (main/mesh_probe.c, main/probe_reply.c): two tables   *)
(* of pending frames, a one-shot timer for each, and one event queue into  *)
(* the mesh task shared by both timers.                                    *)
(*                                                                         *)
(* Time is in ticks; the millisecond clock wraps at W.  left is the true   *)
(* time until a frame is due, which the code does not have: it compares    *)
(* wrapped clock values.                                                   *)
(***************************************************************************)
EXTENDS Clock, Sequences, FiniteSets, FiniteSetsExt

CONSTANTS
    RECEIPT_QUEUE_CAPACITY, PROBE_REPLY_QUEUE_CAPACITY, MESH_EVENT_QUEUE_DEPTH,
    RETRY_COUNT, RECEIPT_MAX_DEFERS, PROBE_REPLY_ATTEMPTS,
    ReplyUptime,    \* ticks pass only up to here
    MaxLag,     \* ticks the mesh task may take to come to an event
    Delay,      \* delays drawn for slots, backoff and jitter
    Off         \* a stopped timer

ASSUME ReplyAssumption ==
    /\ RECEIPT_QUEUE_CAPACITY \in Nat \ {0} /\ PROBE_REPLY_QUEUE_CAPACITY \in Nat \ {0}
    /\ MESH_EVENT_QUEUE_DEPTH \in Nat \ {0}
    /\ Delay \subseteq 1..(W - 1)

VARIABLES
    receipts,   \* s_receipt_queue
    probes,     \* s_probe_reply_queue
    rtimer,     \* ticks until s_receipt_timer fires
    ptimer,     \* ticks until s_probe_reply_timer fires
    events,     \* s_mesh_event_queue
    pc,         \* what the mesh loop drains: packets or events
    lag         \* ticks since events wait and none was handled

replyState == <<receipts, probes, rtimer, ptimer, events, pc, lag>>
replyVars == <<replyState, now>>

RSlot == 1..RECEIPT_QUEUE_CAPACITY
PSlot == 1..PROBE_REPLY_QUEUE_CAPACITY

Free == [used |-> FALSE, due |-> 0, left |-> 0, sent |-> 0, defers |-> 0]

Used(q) == {i \in DOMAIN q : q[i].used}

(* A frame due d ticks from now.                                           *)
DueIn(item, d) == [item EXCEPT !.due = (now + d) % W, !.left = d]

Queued(d) == DueIn([Free EXCEPT !.used = TRUE], d)

(* Slots whose due time the clock has reached; the comparison is of        *)
(* wrapped values.                                                         *)
DueSlots(q) == {i \in Used(q) : q[i].due <= now}

(* Mutant of Schedule: the timer is armed for the latest frame.            *)
ScheduleLatest(q) ==
    IF Used(q) = {} THEN Off
    ELSE LET last == Max({q[i].due : i \in Used(q)})
         IN  IF last <= now THEN 1 ELSE last - now

(* mesh_schedule_next_receipt_timer, mesh_schedule_next_probe_reply_timer. *)
Schedule(q) ==
    IF Used(q) = {} THEN Off
    ELSE LET earliest == Min({q[i].due : i \in Used(q)})
         IN  IF earliest <= now THEN 1 ELSE earliest - now

ReplyInit ==
    /\ receipts = [i \in RSlot |-> Free]
    /\ probes = [i \in PSlot |-> Free]
    /\ rtimer = Off
    /\ ptimer = Off
    /\ events = <<>>
    /\ pc = "rx"
    /\ now = Start
    /\ lag = 0

-----------------------------------------------------------------------------
(* queue_broadcast_delivery_receipt; a full queue drops the receipt.       *)
QueueReceipt(d) ==
    /\ pc = "rx"
    /\ RSlot \ Used(receipts) # {}
    /\ receipts' = [receipts EXCEPT ![Min(RSlot \ Used(receipts))] = Queued(d)]
    /\ rtimer' = Schedule(receipts')
    /\ UNCHANGED <<probes, ptimer, events, pc, now, lag>>

(* queue_probe_reply, probe_reply_queue_insert.                            *)
QueueProbeReply(d) ==
    /\ pc = "rx"
    /\ PSlot \ Used(probes) # {}
    /\ probes' = [probes EXCEPT ![Min(PSlot \ Used(probes))] = Queued(d)]
    /\ ptimer' = Schedule(probes')
    /\ UNCHANGED <<receipts, rtimer, events, pc, now, lag>>

(* The attempt is spent: the frame is dropped after the last one, else     *)
(* tried again d ticks from now.                                           *)
Spent(item, total, d) ==
    IF item.sent + 1 >= total THEN Free
    ELSE DueIn([item EXCEPT !.sent = @ + 1, !.defers = 0], d)

(* Mutant of AfterTx: a busy channel defers the attempt without a bound.   *)
AfterTxPatient(item, rc, d) ==
    IF rc = "busy" THEN DueIn(item, d) ELSE Spent(item, RETRY_COUNT, d)

(* What becomes of a receipt after mesh_tx returned rc: "sent" stands for  *)
(* every other result, "denied" for a refusal by the airtime budget.       *)
AfterTx(item, rc, d) ==
    IF rc = "busy" /\ item.defers + 1 < RECEIPT_MAX_DEFERS
    THEN DueIn([item EXCEPT !.defers = @ + 1], d)
    ELSE Spent(item, RETRY_COUNT, d)

(* mesh_process_receipt_tx_event: one due receipt is tried, and the timer  *)
(* armed again.                                                            *)
ProcessReceipt ==
    /\ pc = "evt"
    /\ events # <<>> /\ Head(events) = "receipt"
    /\ events' = Tail(events)
    /\ lag' = 0
    /\ IF DueSlots(receipts) = {}
       THEN UNCHANGED receipts
       ELSE LET i == Min(DueSlots(receipts)) IN
            \E rc \in {"sent", "denied", "busy"}, d \in Delay :
                receipts' = [receipts EXCEPT ![i] = AfterTx(@, rc, d)]
    /\ rtimer' = Schedule(receipts')
    /\ UNCHANGED <<probes, ptimer, pc, now>>

(* mesh_process_probe_reply_tx_event, probe_reply_queue_apply_result.      *)
ProcessProbeReply ==
    /\ pc = "evt"
    /\ events # <<>> /\ Head(events) = "probe"
    /\ events' = Tail(events)
    /\ lag' = 0
    /\ IF DueSlots(probes) = {}
       THEN UNCHANGED probes
       ELSE LET i == Min(DueSlots(probes)) IN
            \/ probes' = [probes EXCEPT ![i] = Free]
            \/ \E d \in Delay : probes' = [probes EXCEPT ![i] = Spent(@, PROBE_REPLY_ATTEMPTS, d)]
    /\ ptimer' = Schedule(probes')
    /\ UNCHANGED <<receipts, rtimer, pc, now>>

(* The mesh loop goes from packets to events, and back once none is left.  *)
NextDrain ==
    \/ /\ pc = "rx"
       /\ pc' = "evt"
       /\ UNCHANGED <<receipts, probes, rtimer, ptimer, events, now, lag>>
    \/ /\ pc = "evt"
       /\ events = <<>>
       /\ pc' = "rx"
       /\ UNCHANGED <<receipts, probes, rtimer, ptimer, events, now, lag>>

(* xQueueSend without waiting: an event that finds the queue full is lost. *)
Post(e) ==
    events' = IF Len(events) < MESH_EVENT_QUEUE_DEPTH THEN Append(events, e) ELSE events

(* mesh_receipt_timer_cb.                                                  *)
ReceiptTimer ==
    /\ rtimer = 0
    /\ rtimer' = Off
    /\ Post("receipt")
    /\ UNCHANGED <<receipts, probes, ptimer, pc, now, lag>>

(* mesh_probe_reply_timer_cb.                                              *)
ProbeReplyTimer ==
    /\ ptimer = 0
    /\ ptimer' = Off
    /\ Post("probe")
    /\ UNCHANGED <<receipts, probes, rtimer, pc, now, lag>>

Less(n) == IF n = 0 THEN 0 ELSE n - 1

(* A tick passes.  The timer task outranks the mesh task: a timer that is  *)
(* due fires first.  The mesh task comes to a waiting event within MaxLag. *)
ReplyTick ==
    /\ now < ReplyUptime
    /\ rtimer # 0 /\ ptimer # 0
    /\ events # <<>> => lag < MaxLag
    /\ lag' = IF events = <<>> THEN 0 ELSE lag + 1
    /\ now' = (now + 1) % W
    /\ rtimer' = IF rtimer = Off THEN Off ELSE rtimer - 1
    /\ ptimer' = IF ptimer = Off THEN Off ELSE ptimer - 1
    /\ receipts' = [i \in RSlot |-> [receipts[i] EXCEPT !.left = Less(@)]]
    /\ probes' = [i \in PSlot |-> [probes[i] EXCEPT !.left = Less(@)]]
    /\ UNCHANGED <<events, pc>>

ReplyNext ==
    \/ \E d \in Delay : QueueReceipt(d) \/ QueueProbeReply(d)
    \/ ProcessReceipt
    \/ ProcessProbeReply
    \/ NextDrain
    \/ ReceiptTimer
    \/ ProbeReplyTimer
    \/ ReplyTick

ReplySpec == ReplyInit /\ [][ReplyNext]_replyVars

-----------------------------------------------------------------------------
(* Something will come for the frame of slot i in time: an event is on its *)
(* way, or the timer fires no later than the frame is due.                 *)
Covered(q, i, timer, e) ==
    \/ \E k \in DOMAIN events : events[k] = e
    \/ timer # Off /\ timer <= Max({q[i].left, 1})

(* A pending receipt is never forgotten, although timer events are lost    *)
(* when the shared queue is full: probe replies alone cannot fill it, so a *)
(* receipt event that is lost leaves another one behind                    *)
(* (mesh_receipt_timer_cb).                                                *)
ReceiptNotStranded == \A i \in Used(receipts) : Covered(receipts, i, rtimer, "receipt")

(* What is left to do for a receipt.                                       *)
Remaining(item) == (RETRY_COUNT - item.sent) * RECEIPT_MAX_DEFERS - item.defers

(* Every round a receipt goes through brings its end closer, also when the *)
(* channel stays busy or the budget stays empty: "a receipt still          *)
(* terminates" (RECEIPT_MAX_DEFERS).                                       *)
ReceiptProgresses ==
    [][\A i \in Used(receipts) :
          receipts'[i].used /\ receipts'[i] # [receipts[i] EXCEPT !.left = receipts'[i].left]
              => Remaining(receipts'[i]) < Remaining(receipts[i])]_receipts
=============================================================================
