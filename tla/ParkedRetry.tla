----------------------------- MODULE ParkedRetry -----------------------------
(***************************************************************************)
(* When the messages a user parked for a peer are tried again:             *)
(* main/parked_retry.c with its callers, the beacon handler and the sweep  *)
(* of the mesh task, and mesh_park_message on the task of the user         *)
(* interface. "parked" says for which peers rows are parked; one attempt   *)
(* covers all rows of a peer.                                              *)
(***************************************************************************)
EXTENDS Clock, FiniteSets, FiniteSetsExt

CONSTANTS
    N,                          \* peers 1..N, in the order of their addresses
    PARKED_RETRY_COOLDOWN, PARKED_RETRY_SWEEP,
    ParkUptime                  \* the clock runs while below this

ASSUME ParkedAssumption ==
    /\ N \in Nat \ {0}
    /\ PARKED_RETRY_COOLDOWN \in Nat \ {0}
    /\ PARKED_RETRY_SWEEP \in Nat \ {0}
    /\ PARKED_RETRY_COOLDOWN + PARKED_RETRY_SWEEP < W \div 2

(* parked_retry.h sets the two equal.  A sweep that moves on gives up the  *)
(* hold on the peer it tried last.                                         *)
ASSUME SweepAssumption == PARKED_RETRY_COOLDOWN <= PARKED_RETRY_SWEEP

Peer == 1..N
Time == 0..(W - 1)

VARIABLES
    parked,         \* peers with rows in MSG_STATUS_QUEUED
    parking,        \* peers whose park has set the row and not yet armed
    near,           \* the neighbor table
    arm,            \* parked_retry_after_ms of the neighbor entries
    sweep,          \* s_parked_sweep
    flush,          \* the beacon flush in progress: [peer, found, t] or NoFlush
    since,          \* ticks since the last attempt for a peer, up to the cooldown
    swept,          \* ticks since the sweep's last attempt for a peer, likewise
    promised,       \* neighbors armed by a park, outside of a flush for them,
                    \* and not attempted since
    early,          \* peers attempted again within the cooldown for no reason
    turns,          \* sweeps that passed over a peer only the sweep can try
    missed          \* peers whose beacon did not flush what a park had promised

parkState ==
    <<parked, parking, near, arm, sweep, flush, since, swept, promised, early, turns, missed>>
parkVars == <<parkState, now>>

NoFlush == [peer |-> 0, found |-> FALSE, t |-> 0]

(* deadline_at: 0 means disarmed.                                          *)
DeadlineAt(t) == IF t % W # 0 THEN t % W ELSE 1

(* elapsed: the difference as a signed number is not negative.             *)
Elapsed(t, deadline) == (t - deadline) % W < W \div 2

ParkInit ==
    /\ parked = {} /\ parking = {} /\ near = {}
    /\ arm = [p \in Peer |-> 0]
    /\ sweep = [next |-> 0, last |-> 0, hold |-> 0]
    /\ flush = NoFlush
    /\ now = Start
    /\ since = [p \in Peer |-> PARKED_RETRY_COOLDOWN]
    /\ swept = [p \in Peer |-> PARKED_RETRY_COOLDOWN]
    /\ promised = {} /\ early = {} /\ missed = {}
    /\ turns = [p \in Peer |-> 0]

(* The rows of p are sent: mesh_flush_parked_for found some.               *)
Attempt(p) ==
    /\ since' = [since EXCEPT ![p] = 0]
    /\ promised' = promised \ {p}
    /\ early' = IF since[p] < PARKED_RETRY_COOLDOWN THEN early \union {p} ELSE early

NoAttempt == UNCHANGED <<since, promised, early>>

-----------------------------------------------------------------------------
(* mesh_park_message, first part: the row becomes QUEUED.                  *)
Park(p) ==
    /\ p \notin parking
    /\ parked' = parked \union {p}
    /\ parking' = parking \union {p}
    /\ UNCHANGED <<near, arm, sweep, flush, now, swept, turns, missed>>
    /\ NoAttempt

(* Mutant of ArmAt: one cooldown out.                                      *)
ArmAtLater(t) == DeadlineAt(t + PARKED_RETRY_COOLDOWN)

ArmAt(t) == DeadlineAt(t)

(* Its second part, parked_retry_arm: due now.                             *)
Arm(p) ==
    /\ p \in parking
    /\ parking' = parking \ {p}
    /\ arm' = IF p \in near THEN [arm EXCEPT ![p] = ArmAt(now)] ELSE arm
    /\ promised' = IF p \in near \intersect parked /\ flush.peer # p THEN promised \union {p} ELSE promised
    /\ since' = [since EXCEPT ![p] = PARKED_RETRY_COOLDOWN]
    /\ UNCHANGED <<parked, near, sweep, flush, now, swept, early, turns, missed>>

(* The rows of p are acknowledged or cancelled.                            *)
Unpark(p) ==
    /\ p \in parked
    /\ parked' = parked \ {p}
    /\ promised' = promised \ {p}
    /\ UNCHANGED <<parking, near, arm, sweep, flush, now, since, swept, early, turns, missed>>

(* The deadline of an entry that is freed: it comes back zeroed.           *)
Forgotten(p) == 0

(* p leaves the neighbor table: purged, or evicted to make room.           *)
Evict(p) ==
    /\ flush = NoFlush
    /\ p \in near
    /\ near' = near \ {p}
    /\ arm' = [arm EXCEPT ![p] = Forgotten(p)]
    /\ promised' = promised \ {p}
    /\ since' = [since EXCEPT ![p] = PARKED_RETRY_COOLDOWN]
    /\ UNCHANGED <<parked, parking, sweep, flush, now, swept, early, turns, missed>>

Held(p) == sweep.last = p /\ ~Elapsed(now, sweep.hold)

(* Mutant of Due: the rejoin edge is looked at before the hold.            *)
DueRejoin(p) == p \notin near \/ (~Held(p) /\ arm[p] # 0 /\ Elapsed(now, arm[p]))

(* parked_retry_beacon_decide_flush: a beacon that admits p to the table,  *)
(* or finds it armed and due, flushes, unless the sweep holds p.           *)
Due(p) == ~Held(p) /\ (p \notin near \/ (arm[p] # 0 /\ Elapsed(now, arm[p])))

(* The deadline of a held peer moves to the end of the hold, never back.   *)
Deferred(p) == IF arm[p] = 0 \/ Elapsed(sweep.hold, arm[p]) THEN sweep.hold ELSE arm[p]

(* handle_beacon up to the selection of rows by mesh_flush_parked_for.     *)
Beacon(p) ==
    /\ flush = NoFlush
    /\ near' = near \union {p}
    /\ IF Due(p)
       THEN /\ flush' = [peer |-> p, found |-> p \in parked, t |-> now]
            /\ IF p \in parked THEN Attempt(p) ELSE NoAttempt
            /\ UNCHANGED <<arm, missed>>
       ELSE /\ arm' = IF Held(p) THEN [arm EXCEPT ![p] = Deferred(p)] ELSE arm
            /\ missed' = IF p \in promised /\ swept[p] >= PARKED_RETRY_COOLDOWN
                         THEN missed \union {p} ELSE missed
            /\ UNCHANGED flush
            /\ NoAttempt
    /\ UNCHANGED <<parked, parking, sweep, now, swept, turns>>

(* parked_retry_flushed: nothing found disarms.                            *)
Rearmed(f) == IF f.found THEN DeadlineAt(f.t + PARKED_RETRY_COOLDOWN) ELSE 0

BeaconFlushed ==
    /\ flush # NoFlush
    /\ arm' = [arm EXCEPT ![flush.peer] = Rearmed(flush)]
    /\ flush' = NoFlush
    /\ UNCHANGED <<parked, parking, near, sweep, now, swept, turns, missed>>
    /\ NoAttempt

SweepDue == Elapsed(now, sweep.next)

(* msg_store_next_parked_peer: the next address above, or the lowest.      *)
NextParked(after, S) ==
    LET above == {p \in S : p > after} IN Min(IF above # {} THEN above ELSE S)

(* Mutant of DefersToBeacon: every neighbor is left to its beacons.        *)
DefersToBeaconAlways(p) == p \in near

(* parked_retry_sweep_defers_to_beacon.                                    *)
DefersToBeacon(p) == p \in near /\ arm[p] # 0

(* sweep_parked_messages: rows past their window are given up, one peer    *)
(* has its turn.                                                           *)
Sweep ==
    /\ flush = NoFlush
    /\ SweepDue
    /\ LET due == DeadlineAt(now + PARKED_RETRY_SWEEP)
       IN  \E expired \in SUBSET parked :
             /\ parked' = parked \ expired
             /\ IF parked' = {}
                THEN /\ sweep' = [sweep EXCEPT !.next = due]
                     /\ promised' = promised \ expired
                     /\ UNCHANGED <<since, swept, early>>
                ELSE LET p == NextParked(sweep.last, parked')
                     IN  IF DefersToBeacon(p)
                         THEN /\ sweep' = [next |-> due, last |-> p, hold |-> 0]
                              /\ promised' = promised \ expired
                              /\ UNCHANGED <<since, swept, early>>
                         ELSE /\ sweep' = [next |-> due, last |-> p,
                                           hold |-> DeadlineAt(now + PARKED_RETRY_COOLDOWN)]
                              /\ swept' = [swept EXCEPT ![p] = 0]
                              /\ since' = [since EXCEPT ![p] = 0]
                              /\ promised' = promised \ (expired \union {p})
                              /\ early' = IF since[p] < PARKED_RETRY_COOLDOWN
                                          THEN early \union {p} ELSE early
    /\ turns' = [q \in Peer |-> IF q \in parked' /\ since'[q] # 0 /\ ~(q \in near /\ arm[q] # 0)
                              THEN Min({turns[q] + 1, N}) ELSE 0]
    /\ UNCHANGED <<parking, near, arm, flush, now, missed>>

(* Time passes; the maintenance of the mesh task runs at every tick, and a *)
(* flush takes at most one.                                                *)
ParkTick ==
    /\ now < ParkUptime
    /\ IF flush = NoFlush THEN ~SweepDue ELSE now = flush.t
    /\ now' = (now + 1) % W
    /\ since' = [p \in Peer |-> Min({since[p] + 1, PARKED_RETRY_COOLDOWN})]
    /\ swept' = [p \in Peer |-> Min({swept[p] + 1, PARKED_RETRY_COOLDOWN})]
    /\ UNCHANGED <<parked, parking, near, arm, sweep, flush, promised, early, turns, missed>>

ParkNext ==
    \/ \E p \in Peer : Park(p) \/ Arm(p) \/ Unpark(p) \/ Evict(p) \/ Beacon(p)
    \/ BeaconFlushed
    \/ Sweep
    \/ ParkTick

ParkSpec == ParkInit /\ [][ParkNext]_parkVars

-----------------------------------------------------------------------------
(* "rate limited to one attempt per PARKED_RETRY_COOLDOWN_MS": beacons and *)
(* the sweep together do not try a peer twice within the cooldown, unless  *)
(* it left the table or a user parked again (handle_beacon).               *)
AttemptsApart == early = {}

(* "the first attempt rides the peer's next beacon" (parked_retry_arm): a  *)
(* beacon of a neighbor armed by a park flushes, unless the sweep tried    *)
(* that neighbor within the cooldown, or the park itself armed it during   *)
(* a flush for it, whose end overwrites the deadline.                      *)
RidesNextBeacon == missed = {}

(* "each waits its turn": rows for a peer that no beacon will flush, a     *)
(* stranger or an unarmed neighbor, are tried before the sweep has passed  *)
(* over all other peers (sweep_parked_messages).                           *)
WaitsItsTurn == \A p \in Peer : turns[p] < N
=============================================================================
