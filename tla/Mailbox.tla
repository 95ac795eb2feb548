------------------------------- MODULE Mailbox -------------------------------
(***************************************************************************)
(* Store-and-forward of one node: components/mailbox/mailbox.c and         *)
(* main/mesh_mailbox.c, with the no-route branch of forward_data_packet    *)
(* that stores and the beacon handler that flushes.                        *)
(***************************************************************************)
EXTENDS Clock, FiniteSets, FiniteSetsExt, SequencesExt

CONSTANTS
    Source, Dest,           \* addresses of senders and of recipients
    PerFlow,                \* packets between each pair
    MAILBOX_MAX_ENTRIES, MAILBOX_MAX_PER_DEST, MAILBOX_MAX_PER_SOURCE,
    MAILBOX_TTL,
    MailUptime,             \* ticks pass up to here
    Empty                   \* a slot that is not active

ASSUME MailboxAssumption ==
    /\ MAILBOX_MAX_PER_DEST \in Nat \ {0}
    /\ MAILBOX_MAX_PER_SOURCE \in Nat \ {0}
    /\ MAILBOX_MAX_ENTRIES \in Nat \ {0}

VARIABLES
    box,        \* s_mailbox.entries: the packet, the time it was stored and, for the
                \* properties, the ticks that have really passed since
    enabled,    \* s_mailbox_enabled
    onAir       \* packets the last flush put on the air

mailState == <<box, enabled, onAir>>
mailVars == <<mailState, now>>

Slot == 1..MAILBOX_MAX_ENTRIES
Packet == [src : Source, dest : Dest, n : 1..PerFlow]

Active(b) == {i \in Slot : b[i] # Empty}
ForDest(b, d) == {i \in Active(b) : b[i].pkt.dest = d}
FromSource(b, s) == {i \in Active(b) : b[i].pkt.src = s}
Stored(b) == {b[i].pkt : i \in Active(b)}

(* find_oldest, find_oldest_global: the first slot of S with the smallest  *)
(* time stamp, as a set that is empty where there is none. A stamp equal   *)
(* to UINT32_MAX (W - 1) is never found.                                   *)
Oldest(b, S) ==
    LET cand == {i \in S : b[i].at < W - 1}
        first == {i \in cand : \A j \in cand : b[i].at <= b[j].at}
    IN  {i \in first : \A j \in first : i <= j}

Without(b, S) == [i \in Slot |-> IF i \in S THEN Empty ELSE b[i]]

(* Room below the cap of a class of entries: its oldest makes way.         *)
EvictOver(b, S, cap) == IF Cardinality(S) >= cap THEN Without(b, Oldest(b, S)) ELSE b

(* Mutant of MakeRoom: the oldest of all goes first, even with slots free. *)
MakeRoomGlobal(b, p) ==
    LET b1 == EvictOver(b, Active(b), MAILBOX_MAX_PER_DEST)
        b2 == EvictOver(b1, ForDest(b1, p.dest), MAILBOX_MAX_PER_DEST)
    IN  EvictOver(b2, FromSource(b2, p.src), MAILBOX_MAX_PER_SOURCE)

(* The evictions of mailbox_store, in their order.                         *)
MakeRoom(b, p) ==
    LET b1 == EvictOver(b, ForDest(b, p.dest), MAILBOX_MAX_PER_DEST)
        b2 == EvictOver(b1, FromSource(b1, p.src), MAILBOX_MAX_PER_SOURCE)
    IN  EvictOver(b2, Active(b2), MAILBOX_MAX_ENTRIES)

(* mailbox_store of an entry whose packet is not in the box yet.           *)
Put(b, e) ==
    LET room == MakeRoom(b, e.pkt)
        free == Slot \ Active(room)
    IN  IF free = {} THEN room ELSE [room EXCEPT ![Min(free)] = e]

MailInit ==
    /\ box = [i \in Slot |-> Empty]
    /\ enabled = TRUE
    /\ now = Start
    /\ onAir = {}

-----------------------------------------------------------------------------
(* forward_data_packet found no route: the packet is stored, or an RERR is *)
(* sent where it is not: mailbox off, packet stored before. (A packet too   *)
(* large for a slot is refused like one that finds the mailbox off.)       *)
Store(p) ==
    /\ \/ /\ enabled /\ p \notin Stored(box)
          /\ box' = Put(box, [pkt |-> p, at |-> now, age |-> 0])
       \/ /\ ~enabled \/ p \in Stored(box)
          /\ UNCHANGED box
    /\ onAir' = {}
    /\ UNCHANGED <<enabled, now>>

(* Mutant of Flushed: entries that were refused are not put back.          *)
FlushedAll(d, failed) == Without(box, ForDest(box, d))

(* mailbox_flush_for: the entries for d are taken out, transmitted, and    *)
(* those that failed stored again one after the other.                     *)
Flushed(d, failed) ==
    FoldLeft(LAMBDA b, i : Put(b, box[i]),
             Without(box, ForDest(box, d)),
             SetToSortSeq(failed, <))

(* A beacon of d arrives (handle_beacon).                                  *)
Flush(d) ==
    /\ enabled
    /\ ForDest(box, d) # {}
    /\ \E failed \in SUBSET ForDest(box, d) :
          /\ box' = Flushed(d, failed)
          /\ onAir' = {box[i].pkt : i \in ForDest(box, d) \ failed}
    /\ UNCHANGED <<enabled, now>>

(* mailbox_purge_expired, run by mesh_periodic_maintenance.                *)
Expire ==
    /\ enabled
    /\ box' = Without(box, {i \in Active(box) : (now - box[i].at) % W >= MAILBOX_TTL})
    /\ onAir' = {}
    /\ UNCHANGED <<enabled, now>>

(* mesh_set_mailbox.                                                       *)
SetEnabled ==
    /\ enabled' = ~enabled
    /\ onAir' = {}
    /\ UNCHANGED <<box, now>>

MailTick ==
    /\ now < MailUptime
    /\ now' = (now + 1) % W
    /\ box' = [i \in Slot |-> IF box[i] = Empty \/ box[i].age = MAILBOX_TTL + W THEN box[i]
                              ELSE [box[i] EXCEPT !.age = @ + 1]]
    /\ onAir' = {}
    /\ UNCHANGED enabled

MailNext ==
    \/ \E p \in Packet : Store(p)
    \/ \E d \in Dest : Flush(d)
    \/ Expire
    \/ SetEnabled
    \/ MailTick

MailSpec == MailInit /\ [][MailNext]_mailVars

-----------------------------------------------------------------------------
(* The packet a step has added to the box.                                 *)
Arrived == Stored(box') \ Stored(box)

Gone == {i \in Active(box) : box[i].pkt \notin Stored(box')}

(* A sender displaces only its own mail or mail for the same recipient,    *)
(* unless the box is full (the order of evictions in mailbox_store).       *)
DisplacesOwnShare ==
    [][\A p \in Arrived, i \in Gone :
          box[i].pkt.src = p.src \/ box[i].pkt.dest = p.dest \/ Active(box) = Slot]_box

(* "stored mail is never silently lost" (mailbox_flush_for): mail leaves   *)
(* the box on the air, to make room for other mail, or when it is too old. *)
NeverSilentlyLost ==
    [][\A i \in Gone : \/ box[i].pkt \in onAir'
                       \/ Arrived # {}
                       \/ box[i].age >= MAILBOX_TTL]_box
=============================================================================
