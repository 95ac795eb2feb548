---------------------------- MODULE CounterProofs ----------------------------
(***************************************************************************)
(* What a node counts: the nonces it issues, and the ticks of a clock that *)
(* wraps, with which the retries of parked messages, the reassembly of     *)
(* long messages and network time reckon.  The block of nonces, the        *)
(* clock's range, the intervals and the numbers of peers, tasks, slots and *)
(* sources are arbitrary; the intervals are ordered as the firmware's are. *)
(***************************************************************************)
EXTENDS ParkedRetry, NonceCounter, Fragment, Timesync, TLAPS

LOCAL INSTANCE WellFoundedInduction

(* A set of natural numbers that is not empty has a least element.         *)
LEMMA LeastOf ==
    ASSUME NEW S, S \subseteq Nat, S # {}
    PROVE  Min(S) \in S /\ \A y \in S : Min(S) <= y
<1>1. PICK x \in S : \A y \in S : ~(<<y, x>> \in OpToRel(<, Nat))
  BY NatLessThanWellFounded, WFMin, Zenon
<1>2. ASSUME NEW y \in S PROVE x <= y
  <2>1. ~(y < x)
    BY <1>1, Zenon DEF OpToRel
  <2> QED
    BY <2>1
<1> QED
  BY <1>1, <1>2, Zenon DEF Min

(* The smaller of two numbers.                                             *)
LEMMA MinTwo ==
    ASSUME NEW a \in Int, NEW b \in Int
    PROVE  Min({a, b}) = IF a <= b THEN a ELSE b
<1>1. \E x \in {a, b} : \A y \in {a, b} : x <= y
  BY DEF Min
<1>2. Min({a, b}) \in {a, b} /\ \A y \in {a, b} : Min({a, b}) <= y
  BY <1>1, Zenon DEF Min
<1> QED
  BY <1>2

(* Division with remainder.                                                *)
LEMMA Division ==
    ASSUME NEW a \in Int, NEW b \in Nat \ {0}
    PROVE  a \div b \in Int /\ a % b \in 0 .. b - 1 /\ a = b * (a \div b) + (a % b)
  BY SMTT(30)

(* A quotient times the modulus is no nearer to zero than the modulus.     *)
LEMMA Multiple ==
    ASSUME NEW b \in Nat \ {0}, NEW q \in Int, -b < b * q, b * q < b
    PROVE  b * q = 0
<1>1. CASE q >= 1
  <2>1. b * (q - 1) >= 0
    BY <1>1
  <2>2. b * (q - 1) = b * q - b
    OBVIOUS
  <2> QED
    BY <2>1, <2>2
<1>2. CASE q <= -1
  <2>1. b * (-1 - q) >= 0
    BY <1>2
  <2>2. b * (-1 - q) = -b - b * q
    OBVIOUS
  <2> QED
    BY <2>1, <2>2
<1> QED
  BY <1>1, <1>2

(* The remainder is the only number in range that differs by a multiple.   *)
LEMMA RemainderIs ==
    ASSUME NEW b \in Nat \ {0}, NEW a \in Int, NEW k \in Int, NEW r \in 0 .. b - 1, a = r + b * k
    PROVE  a % b = r
<1>1. a \div b \in Int /\ a % b \in 0 .. b - 1 /\ a = b * (a \div b) + (a % b)
  BY Division, Zenon
<1>2. PICK q \in Int, s \in 0 .. b - 1 : a = b * q + s /\ s = a % b
  BY <1>1, Zenon
<1>3. PICK u \in Int, v \in Int : u = b * q /\ v = b * k
  OBVIOUS
<1>4. a = u + s /\ a = r + v
  BY <1>2, <1>3, Zenon
<1>5. b * (q - k) = u - v
  <2>1. b * (q - k) = b * q - b * k
    OBVIOUS
  <2> QED
    BY <1>3, <2>1, Zenon
<1>6. u - v = r - s /\ -b < r - s /\ r - s < b
  <2> HIDE <1>2, <1>3
  <2> QED
    BY <1>4
<1>7. b * (q - k) = 0
  BY <1>5, <1>6, Multiple
<1>8. r = s
  <2> HIDE <1>2, <1>3
  <2> QED
    BY <1>5, <1>6, <1>7
<1> QED
  BY <1>2, <1>8, Zenon

(* The difference of two clock values, and the value n ticks ahead, on a   *)
(* clock that wraps at b.                                                  *)
LEMMA WrappedDifference ==
    ASSUME NEW b \in Nat \ {0}, NEW x \in 0 .. b - 1, NEW y \in 0 .. b - 1
    PROVE  (x - y) % b = IF x >= y THEN x - y ELSE x - y + b
<1>1. CASE x >= y
  <2>1. x - y \in 0 .. b - 1 /\ x - y \in Int /\ x - y = (x - y) + b * 0
    BY <1>1
  <2> QED
    BY <1>1, <2>1, RemainderIs
<1>2. CASE x < y
  <2>1. x - y + b \in 0 .. b - 1 /\ x - y \in Int /\ x - y = (x - y + b) + b * (-1)
    BY <1>2
  <2>2. (x - y) % b = x - y + b
    BY <2>1, RemainderIs
  <2> QED
    BY <1>2, <2>2
<1> QED
  BY <1>1, <1>2

(* A sum that wraps at most once.                                          *)
LEMMA WrappedSum ==
    ASSUME NEW b \in Nat \ {0}, NEW x \in 0 .. b - 1, NEW n \in 0 .. b
    PROVE  (x + n) % b = IF x + n < b THEN x + n ELSE x + n - b
<1>1. CASE x + n < b
  <2>1. x + n \in 0 .. b - 1 /\ x + n \in Int /\ x + n = (x + n) + b * 0
    BY <1>1
  <2>2. (x + n) % b = x + n
    BY <2>1, RemainderIs
  <2> QED
    BY <1>1, <2>2, Zenon
<1>2. CASE x + n >= b
  <2>1. x + n - b \in 0 .. b - 1 /\ x + n \in Int /\ x + n = (x + n - b) + b * 1
    BY <1>2
  <2>2. (x + n) % b = x + n - b
    BY <2>1, RemainderIs
  <2> QED
    BY <1>2, <2>2
<1> QED
  BY <1>1, <1>2

-----------------------------------------------------------------------------
(* Parked messages.  First the sweep's rotation: how many places it is    *)
(* from peer l to peer q.                                                  *)
Dist(l, q) == IF q > l THEN q - l ELSE q - l + N

(* The sweeps that passed over a peer, and those it can still wait for,    *)
(* are no more than the peers.                                             *)
TurnIInv ==
    /\ parked \subseteq Peer
    /\ since = [q \in Peer |-> since[q]]
    /\ \E a, h : \E l \in 0 .. N : sweep = [next |-> a, last |-> l, hold |-> h]
    /\ turns \in [Peer -> 0 .. N]
    /\ \A q \in Peer : turns[q] + Dist(sweep.last, q) <= N

(* msg_store_next_parked_peer takes a parked peer, and no other is nearer  *)
(* in the rotation.                                                        *)
LEMMA NextParkedIsNext ==
    ASSUME NEW S \in SUBSET Peer, S # {}, NEW l \in 0 .. N, NEW p, p = NextParked(l, S)
    PROVE  p \in S /\ \A q \in S : q # p => Dist(p, q) < Dist(l, q)
<1> DEFINE above == {q \in S : q > l}
<1>1. S \subseteq Nat /\ above \subseteq Nat
  <2>1. \A q \in Peer : q \in Nat
    BY DEF Peer
  <2> QED
    BY <2>1, Zenon
<1>2. p = Min(IF above # {} THEN above ELSE S)
  BY Zenon DEF NextParked
<1>3. CASE above # {}
  <2>1. p \in above /\ \A q \in above : p <= q
    BY <1>1, <1>2, <1>3, LeastOf, Zenon
  <2> QED
    BY <2>1, ParkedAssumption DEF Dist, Peer
<1>4. CASE above = {}
  <2>0. p = Min(S)
    BY <1>2, <1>4, Zenon
  <2>1. p \in S /\ \A q \in S : p <= q
    <3> HIDE DEF above
    <3>1. Min(S) \in S /\ \A q \in S : Min(S) <= q
      BY <1>1, LeastOf, Zenon
    <3> QED
      BY <2>0, <3>1, Zenon
  <2>2. \A q \in S : ~(q > l)
    BY <1>4, Zenon
  <2> QED
    BY <2>1, <2>2, ParkedAssumption DEF Dist, Peer
<1> QED
  BY <1>3, <1>4, Zenon

(* The sweep keeps the count of turns.                                     *)
LEMMA TurnSweep ==
    ASSUME TurnIInv, Sweep
    PROVE  TurnIInv'
<1>0. PICK a, h : \E l \in 0 .. N : sweep = [next |-> a, last |-> l, hold |-> h]
  BY Zenon DEF TurnIInv
<1>1. PICK l \in 0 .. N : sweep = [next |-> a, last |-> l, hold |-> h]
  BY <1>0, Zenon
<1>2. PICK due : due = DeadlineAt(now + PARKED_RETRY_SWEEP)
  BY Zenon
<1>3. parked' \subseteq Peer
  BY Zenon DEF Sweep, TurnIInv
<1>4. turns' = [q \in Peer |-> IF q \in parked' /\ since'[q] # 0 /\ ~(q \in near /\ arm[q] # 0)
                              THEN Min({turns[q] + 1, N}) ELSE 0]
  BY Zenon DEF Sweep
<1>5. since' = [q \in Peer |-> since'[q]]
  BY Zenon DEF Sweep, TurnIInv
<1>6. CASE parked' = {}
  <2>1. sweep' = [sweep EXCEPT !.next = due]
    BY <1>2, <1>6, Zenon DEF Sweep
  <2>2. sweep' = [next |-> due, last |-> l, hold |-> h]
    BY <1>1, <2>1, Zenon
  <2>3. turns' = [q \in Peer |-> 0]
    BY <1>4, <1>6, Zenon
  <2>4. \A q \in Peer : Dist(l, q) <= N
    BY ParkedAssumption DEF Dist, Peer
  <2>5. sweep'.last = l
    BY <2>2, Zenon
  <2>6. \E b, g : \E k \in 0 .. N : sweep' = [next |-> b, last |-> k, hold |-> g]
    BY <2>2, Zenon
  <2>7. turns' \in [Peer -> 0 .. N] /\ \A q \in Peer : turns'[q] + Dist(sweep'.last, q) <= N
    BY <2>3, <2>4, <2>5, ParkedAssumption DEF Dist, Peer
  <2> QED
    BY <1>3, <1>5, <2>6, <2>7, Zenon DEF TurnIInv
<1>7. CASE parked' # {}
  <2>1. PICK p : p = NextParked(l, parked')
    BY Zenon
  <2>2. sweep.last = l
    BY <1>1, Zenon
  <2>3. p \in parked' /\ \A q \in parked' : q # p => Dist(p, q) < Dist(l, q)
    BY <1>3, <1>7, <2>1, NextParkedIsNext, Zenon
  <2>4. PICK g : sweep' = [next |-> due, last |-> p, hold |-> g]
    BY <1>2, <1>7, <2>1, <2>2, Zenon DEF Sweep
  <2>5. ~DefersToBeacon(p) => since' = [since EXCEPT ![p] = 0]
    BY <1>7, <2>1, <2>2, Zenon DEF Sweep
  <2>6. p \in Peer /\ p \in 0 .. N
    BY <1>3, <2>3, ParkedAssumption DEF Peer
  <2>7. ~DefersToBeacon(p) => since'[p] = 0
    BY <2>5, <2>6, Zenon DEF TurnIInv
  <2>8. sweep'.last = p
    BY <2>4, Zenon
  <2>9. ASSUME NEW q \in Peer
        PROVE  turns'[q] \in 0 .. N /\ turns'[q] + Dist(p, q) <= N
    <3>1. Dist(p, q) \in 1 .. N /\ Dist(l, q) \in 1 .. N
      BY <2>6, ParkedAssumption DEF Dist, Peer
    <3>2. CASE turns'[q] = 0
      BY <3>1, <3>2, ParkedAssumption
    <3>3. CASE turns'[q] # 0
      <4>1. /\ q \in parked' /\ since'[q] # 0 /\ ~(q \in near /\ arm[q] # 0)
            /\ turns'[q] = Min({turns[q] + 1, N})
        BY <1>4, <3>3, Zenon
      <4>2. q # p
        BY <2>7, <4>1, Zenon DEF DefersToBeacon
      <4>3. Dist(p, q) < Dist(l, q)
        BY <2>3, <4>1, <4>2, Zenon
      <4>4. turns[q] \in 0 .. N /\ turns[q] + Dist(l, q) <= N
        BY <2>2, Zenon DEF TurnIInv
      <4>5. turns'[q] = turns[q] + 1
        BY <3>1, <4>1, <4>4, MinTwo, ParkedAssumption
      <4> QED
        BY <3>1, <4>3, <4>4, <4>5, ParkedAssumption
    <3> QED
      BY <3>2, <3>3, Zenon
  <2>10. turns' \in [Peer -> 0 .. N]
    BY <1>4, <2>9, Zenon
  <2>11. \E b, f : \E k \in 0 .. N : sweep' = [next |-> b, last |-> k, hold |-> f]
    BY <2>4, <2>6, Zenon
  <2> QED
    BY <1>3, <1>5, <2>8, <2>9, <2>10, <2>11, Zenon DEF TurnIInv
<1> QED
  BY <1>6, <1>7, Zenon

(* So does every other step.                                               *)
LEMMA TurnNext == TurnIInv /\ [ParkNext]_parkVars => TurnIInv'
<1> SUFFICES ASSUME TurnIInv, [ParkNext]_parkVars PROVE TurnIInv'
  BY Zenon
<1>1. ASSUME UNCHANGED <<sweep, turns>>, parked' \subseteq Peer, since' = [q \in Peer |-> since'[q]]
      PROVE  TurnIInv'
  BY <1>1, Zenon DEF TurnIInv
<1>2. CASE UNCHANGED parkVars
  BY <1>1, <1>2, Zenon DEF parkVars, parkState, TurnIInv
<1>3. ASSUME NEW p \in Peer, Park(p) PROVE TurnIInv'
  BY <1>1, <1>3, Zenon DEF Park, NoAttempt, TurnIInv
<1>4. ASSUME NEW p \in Peer, Arm(p) PROVE TurnIInv'
  BY <1>1, <1>4, Zenon DEF Arm, TurnIInv
<1>5. ASSUME NEW p \in Peer, Unpark(p) PROVE TurnIInv'
  BY <1>1, <1>5, Zenon DEF Unpark, TurnIInv
<1>6. ASSUME NEW p \in Peer, Evict(p) PROVE TurnIInv'
  BY <1>1, <1>6, Zenon DEF Evict, TurnIInv
<1>7. ASSUME NEW p \in Peer, Beacon(p) PROVE TurnIInv'
  BY <1>1, <1>7, Zenon DEF Beacon, Attempt, NoAttempt, TurnIInv
<1>8. CASE BeaconFlushed
  BY <1>1, <1>8, Zenon DEF BeaconFlushed, NoAttempt, TurnIInv
<1>9. CASE ParkTick
  BY <1>1, <1>9, Zenon DEF ParkTick, TurnIInv
<1> QED
  BY <1>2, <1>3, <1>4, <1>5, <1>6, <1>7, <1>8, <1>9, TurnSweep, Zenon DEF ParkNext

(* sweep_parked_messages: with any number of peers, and whatever beacons,  *)
(* parks and evictions come between the sweeps, rows for a peer that no    *)
(* beacon will flush are tried before all other peers had a turn.          *)
THEOREM WaitsItsTurnTheorem == ParkSpec => []WaitsItsTurn
<1>1. ParkInit => TurnIInv
  <2> SUFFICES ASSUME ParkInit PROVE TurnIInv
    BY Zenon
  <2>1. sweep = [next |-> 0, last |-> 0, hold |-> 0] /\ turns = [p \in Peer |-> 0] /\ sweep.last = 0
    BY Zenon DEF ParkInit
  <2>2. 0 \in 0 .. N
    BY ParkedAssumption
  <2>3. \A q \in Peer : turns[q] + Dist(sweep.last, q) <= N
    BY <2>1, ParkedAssumption DEF Dist, Peer
  <2> QED
    BY <2>1, <2>2, <2>3, Zenon DEF ParkInit, TurnIInv
<1>2. TurnIInv => WaitsItsTurn
  <2> SUFFICES ASSUME TurnIInv, NEW p \in Peer PROVE turns[p] < N
    BY Zenon DEF WaitsItsTurn
  <2>1. sweep.last \in 0 .. N
    BY DEF TurnIInv
  <2>2. Dist(sweep.last, p) \in 1 .. N
    BY <2>1, ParkedAssumption DEF Dist, Peer
  <2> QED
    BY <2>2, ParkedAssumption DEF TurnIInv
<1> QED
  BY <1>1, <1>2, TurnNext, PTL DEF ParkSpec

-----------------------------------------------------------------------------
(* Then the rate of the attempts, in the first half of a turn of the       *)
(* clock: beyond it a hold that the sweep has cleared counts as one in     *)
(* force, and the beacon it defers disarms its peer for the next sweep.    *)
FirstHalf == ParkUptime \in 0 .. ((W \div 2) - 1) /\ Start \in 0 .. ParkUptime

ParkTypes ==
    /\ near \subseteq Peer /\ parked \subseteq Peer
    /\ now \in 0 .. ParkUptime
    /\ since \in [Peer -> 0 .. PARKED_RETRY_COOLDOWN]
    /\ arm \in [Peer -> Nat] /\ \A p \in Peer : arm[p] <= now + PARKED_RETRY_COOLDOWN
    /\ \E l : \E a \in 0 .. now + PARKED_RETRY_SWEEP, h \in 0 .. now + PARKED_RETRY_COOLDOWN :
          sweep = [next |-> a, last |-> l, hold |-> h]
    /\ flush # NoFlush => flush.peer \in Peer /\ flush.t \in Nat /\ now \in {flush.t, flush.t + 1}

(* What keeps a peer that was tried from being tried again: the hold of    *)
(* the sweep, the deadline of its entry, or the flush that will set one.   *)
BySweep(p) ==
    /\ sweep.last = p
    /\ sweep.hold >= now + PARKED_RETRY_COOLDOWN - since[p]
    /\ sweep.next >= now + PARKED_RETRY_COOLDOWN - since[p]

ByBeacon(p) == p \in near /\ arm[p] >= now + PARKED_RETRY_COOLDOWN - since[p]

InFlush(p) ==
    flush.peer = p /\ flush.found /\ p \in near /\ (now = flush.t \/ since[p] >= 1)

Covered(p) == since[p] < PARKED_RETRY_COOLDOWN => BySweep(p) \/ ByBeacon(p) \/ InFlush(p)

ParkIInv ==
    /\ ParkTypes
    /\ \A p \in Peer : Covered(p)
    /\ flush # NoFlush /\ since[flush.peer] < PARKED_RETRY_COOLDOWN => InFlush(flush.peer)
    /\ early = {}

(* In the first half of a turn deadlines compare as plain numbers.         *)
LEMMA PlainTime ==
    ASSUME FirstHalf, NEW n \in 0 .. ParkUptime
    PROVE  /\ \A d \in 0 .. n + PARKED_RETRY_COOLDOWN + PARKED_RETRY_SWEEP : Elapsed(n, d) <=> d <= n
           /\ \A k \in 1 .. PARKED_RETRY_COOLDOWN + PARKED_RETRY_SWEEP : DeadlineAt(n + k) = n + k
           /\ DeadlineAt(n) \in 0 .. n + 1
           /\ n < ParkUptime => (n + 1) % W = n + 1
           /\ \A h \in 0 .. n + PARKED_RETRY_COOLDOWN, d \in n + 1 .. n + PARKED_RETRY_COOLDOWN :
                 h > n /\ Elapsed(h, d) => h >= d
<1>1. PICK H \in Nat : H = W \div 2 /\ 2 * H <= W /\ W \in Nat \ {0}
  <2>1. W \in Int /\ W \in Nat \ {0} /\ 2 \in Nat \ {0}
    BY ClockAssumption
  <2>2. W \div 2 \in Int /\ W % 2 \in 0 .. 2 - 1 /\ W = 2 * (W \div 2) + (W % 2)
    BY <2>1, Division, Zenon
  <2>3. PICK h \in Int, r \in 0 .. 1 : h = W \div 2 /\ W = 2 * h + r
    BY <2>2
  <2>4. h \in Nat /\ 2 * h <= W
    BY <2>1, <2>3
  <2> QED
    BY <2>1, <2>3, <2>4, Zenon
<1>2. /\ n < H /\ PARKED_RETRY_COOLDOWN + PARKED_RETRY_SWEEP < H
      /\ PARKED_RETRY_COOLDOWN \in Nat \ {0} /\ PARKED_RETRY_SWEEP \in Nat \ {0}
      /\ ParkUptime < H /\ ParkUptime \in Nat
  BY <1>1, ParkedAssumption DEF FirstHalf
<1>3. \A x, y \in 0 .. W - 1 : Elapsed(x, y) <=> (IF x >= y THEN x - y ELSE x - y + W) < H
  <2> SUFFICES ASSUME NEW x \in 0 .. W - 1, NEW y \in 0 .. W - 1
               PROVE  Elapsed(x, y) <=> (IF x >= y THEN x - y ELSE x - y + W) < H
    BY Zenon
  <2>1. (x - y) % W = IF x >= y THEN x - y ELSE x - y + W
    BY <1>1, WrappedDifference, Zenon
  <2>2. Elapsed(x, y) <=> (x - y) % W < H
    BY <1>1, Zenon DEF Elapsed
  <2> QED
    BY <2>1, <2>2, Zenon
<1>4. \A x \in 0 .. W - 1 : x % W = x
  <2> SUFFICES ASSUME NEW x \in 0 .. W - 1 PROVE x % W = x
    BY Zenon
  <2>1. x \in Int /\ x = x + W * 0
    BY <1>1
  <2> QED
    BY <1>1, <2>1, RemainderIs
<1>5. \A d \in 0 .. n + PARKED_RETRY_COOLDOWN + PARKED_RETRY_SWEEP : Elapsed(n, d) <=> d <= n
  BY <1>1, <1>2, <1>3
<1>6. \A k \in 1 .. PARKED_RETRY_COOLDOWN + PARKED_RETRY_SWEEP : DeadlineAt(n + k) = n + k
  BY <1>1, <1>2, <1>4 DEF DeadlineAt
<1>7. DeadlineAt(n) \in 0 .. n + 1
  BY <1>1, <1>2, <1>4 DEF DeadlineAt
<1>8. n < ParkUptime => (n + 1) % W = n + 1
  BY <1>1, <1>2, <1>4
<1>9. \A h \in 0 .. n + PARKED_RETRY_COOLDOWN, d \in n + 1 .. n + PARKED_RETRY_COOLDOWN :
         h > n /\ Elapsed(h, d) => h >= d
  BY <1>1, <1>2, <1>3
<1> QED
  BY <1>5, <1>6, <1>7, <1>8, <1>9, Zenon

(* Parked and unparked rows change nothing that the invariant is about.    *)
LEMMA ParkSame ==
    ASSUME ParkIInv, parked' \subseteq Peer,
           UNCHANGED <<near, arm, sweep, flush, now, since, early>>
    PROVE  ParkIInv'
<1>1. ParkTypes'
  BY Zenon DEF ParkIInv, ParkTypes
<1>2. \A p \in Peer : Covered(p)'
  BY Zenon DEF ParkIInv, Covered, BySweep, ByBeacon, InFlush
<1> QED
  BY <1>1, <1>2, Zenon DEF ParkIInv, InFlush

(* A peer whose deadline a user has moved, or that left the table, counts  *)
(* as not tried.                                                           *)
LEMMA ParkReset ==
    ASSUME FirstHalf, ParkIInv, NEW p \in Peer, NEW d \in 0 .. now + 1,
           arm' = arm \/ arm' = [arm EXCEPT ![p] = d],
           since' = [since EXCEPT ![p] = PARKED_RETRY_COOLDOWN],
           near' = near \/ (near' = near \ {p} /\ flush = NoFlush),
           UNCHANGED <<parked, sweep, flush, now, early>>
    PROVE  ParkIInv'
<1>1. ParkTypes
  BY Zenon DEF ParkIInv
<1>2. now \in 0 .. ParkUptime /\ ParkUptime \in Nat /\ PARKED_RETRY_COOLDOWN \in Nat \ {0}
  BY <1>1, ParkedAssumption DEF ParkTypes, FirstHalf
<1>3. arm' \in [Peer -> Nat] /\ \A q \in Peer : arm'[q] <= now' + PARKED_RETRY_COOLDOWN
  BY <1>1, <1>2 DEF ParkTypes
<1>4. since' \in [Peer -> 0 .. PARKED_RETRY_COOLDOWN] /\ since'[p] = PARKED_RETRY_COOLDOWN
  BY <1>1, <1>2 DEF ParkTypes
<1>5. ParkTypes'
  BY <1>1, <1>3, <1>4, Zenon DEF ParkTypes
<1>6. ASSUME NEW q \in Peer, q # p
      PROVE  arm'[q] = arm[q] /\ since'[q] = since[q] /\ (q \in near' <=> q \in near)
  BY <1>1, <1>6, Zenon DEF ParkTypes
<1>7. ASSUME NEW q \in Peer
      PROVE  Covered(q)'
  <2>1. CASE q = p
    BY <1>2, <1>4, <2>1 DEF Covered
  <2>2. CASE q # p
    <3>1. Covered(q)
      BY Zenon DEF ParkIInv
    <3> QED
      BY <1>6, <2>2, <3>1, Zenon DEF Covered, BySweep, ByBeacon, InFlush
  <2> QED
    BY <2>1, <2>2, Zenon
<1>8. ASSUME flush # NoFlush, since'[flush.peer] < PARKED_RETRY_COOLDOWN
      PROVE  InFlush(flush.peer)'
  <2>1. flush.peer \in Peer /\ flush.peer # p
    BY <1>1, <1>2, <1>4, <1>8 DEF ParkTypes
  <2>2. InFlush(flush.peer)
    BY <1>6, <1>8, <2>1, Zenon DEF ParkIInv
  <2> QED
    BY <1>6, <2>1, <2>2, Zenon DEF InFlush
<1> QED
  BY <1>5, <1>7, <1>8, Zenon DEF ParkIInv

(* Nothing tries a peer that was tried within the cooldown: no beacon of   *)
(* it is due, and no sweep is, or the sweep leaves it to its beacons.      *)
LEMMA NotDue ==
    ASSUME FirstHalf, ParkIInv, flush = NoFlush, NEW p \in Peer, since[p] < PARKED_RETRY_COOLDOWN
    PROVE  /\ ~Due(p)
           /\ SweepDue => ByBeacon(p)
           /\ ByBeacon(p) => DefersToBeacon(p) /\ arm[p] > now
           /\ BySweep(p) \/ ByBeacon(p)
<1>1. ParkTypes
  BY Zenon DEF ParkIInv
<1>2. /\ now \in 0 .. ParkUptime /\ ParkUptime \in Nat
      /\ PARKED_RETRY_COOLDOWN \in Nat \ {0} /\ PARKED_RETRY_SWEEP \in Nat \ {0}
      /\ since[p] \in 0 .. PARKED_RETRY_COOLDOWN
      /\ arm[p] \in Nat /\ arm[p] <= now + PARKED_RETRY_COOLDOWN
  BY <1>1, ParkedAssumption DEF ParkTypes, FirstHalf
<1>3. sweep.next \in 0 .. now + PARKED_RETRY_SWEEP /\ sweep.hold \in 0 .. now + PARKED_RETRY_COOLDOWN
  BY <1>1 DEF ParkTypes
<1>4. \A d \in 0 .. now + PARKED_RETRY_COOLDOWN + PARKED_RETRY_SWEEP : Elapsed(now, d) <=> d <= now
  BY <1>2, PlainTime, Zenon
<1>5. /\ Elapsed(now, sweep.next) <=> sweep.next <= now
      /\ Elapsed(now, sweep.hold) <=> sweep.hold <= now
      /\ Elapsed(now, arm[p]) <=> arm[p] <= now
  BY <1>2, <1>3, <1>4
<1>6. BySweep(p) \/ ByBeacon(p)
  <2>1. flush.peer = 0 /\ p # 0
    BY DEF NoFlush, Peer
  <2> QED
    BY <2>1, Zenon DEF ParkIInv, Covered, InFlush
<1>7. ASSUME BySweep(p) PROVE Held(p) /\ ~SweepDue
  BY <1>2, <1>3, <1>5, <1>7 DEF BySweep, Held, SweepDue
<1>8. ASSUME ByBeacon(p) PROVE p \in near /\ arm[p] > now /\ arm[p] # 0 /\ ~Elapsed(now, arm[p])
  BY <1>2, <1>5, <1>8 DEF ByBeacon
<1> QED
  BY <1>6, <1>7, <1>8, Zenon DEF Due, DefersToBeacon

(* handle_beacon, up to the rows it selects.                               *)
LEMMA ParkBeacon ==
    ASSUME FirstHalf, ParkIInv, NEW p \in Peer, Beacon(p)
    PROVE  ParkIInv'
<1>1. ParkTypes
  BY Zenon DEF ParkIInv
<1>2. /\ now \in 0 .. ParkUptime /\ ParkUptime \in Nat /\ PARKED_RETRY_COOLDOWN \in Nat \ {0}
      /\ PARKED_RETRY_SWEEP \in Nat \ {0} /\ since[p] \in 0 .. PARKED_RETRY_COOLDOWN
  BY <1>1, ParkedAssumption DEF ParkTypes, FirstHalf
<1>3. flush = NoFlush /\ near' = near \union {p} /\ UNCHANGED <<parked, sweep, now>>
  BY Zenon DEF Beacon
<1>4. \A q \in Peer : since[q] < PARKED_RETRY_COOLDOWN => BySweep(q) \/ ByBeacon(q)
  BY <1>3, NotDue, Zenon
<1>5. CASE Due(p)
  <2>1. since[p] = PARKED_RETRY_COOLDOWN
    BY <1>2, <1>3, <1>5, NotDue
  <2>2. flush' = [peer |-> p, found |-> p \in parked, t |-> now] /\ arm' = arm
    BY <1>5, Zenon DEF Beacon
  <2>3. flush'.peer = p /\ flush'.t = now /\ flush'.found = (p \in parked)
    BY <2>2, Zenon
  <2>4. /\ since' = since \/ (p \in parked /\ since' = [since EXCEPT ![p] = 0])
        /\ early' = early
    BY <1>2, <1>5, <2>1 DEF Beacon, Attempt, NoAttempt
  <2>5. since' \in [Peer -> 0 .. PARKED_RETRY_COOLDOWN] /\ \A q \in Peer \ {p} : since'[q] = since[q]
    BY <1>1, <1>2, <2>4 DEF ParkTypes
  <2>6. ParkTypes'
    <3>1. flush'.peer \in Peer /\ flush'.t \in Nat /\ now' \in {flush'.t, flush'.t + 1}
      BY <1>2, <1>3, <2>3
    <3>2. near' \subseteq Peer
      BY <1>1, <1>3, Zenon DEF ParkTypes
    <3> QED
      BY <1>1, <1>3, <2>2, <2>5, <3>1, <3>2, Zenon DEF ParkTypes
  <2>7. since'[p] < PARKED_RETRY_COOLDOWN => InFlush(p)'
    <3> SUFFICES ASSUME since'[p] < PARKED_RETRY_COOLDOWN PROVE InFlush(p)'
      BY Zenon
    <3>1. since' # since
      BY <1>2, <2>1
    <3>2. flush'.found
      BY <2>3, <2>4, <3>1, Zenon
    <3> QED
      BY <1>3, <2>3, <3>2, Zenon DEF InFlush
  <2>8. ASSUME NEW q \in Peer, q # p PROVE Covered(q)'
    BY <1>3, <1>4, <2>2, <2>5, <2>8, Zenon DEF Covered, BySweep, ByBeacon
  <2>9. \A q \in Peer : Covered(q)'
    BY <2>7, <2>8, Zenon DEF Covered
  <2> QED
    BY <2>3, <2>4, <2>6, <2>7, <2>9, Zenon DEF ParkIInv
<1>6. CASE ~Due(p)
  <2>1. flush' = flush /\ since' = since /\ early' = early
    BY <1>6, Zenon DEF Beacon, NoAttempt
  <2>2. /\ arm' = arm \/ (Held(p) /\ arm' = [arm EXCEPT ![p] = sweep.hold])
        /\ arm' = arm \/ arm[p] = 0 \/ Elapsed(sweep.hold, arm[p])
    <3>1. arm' = IF Held(p) THEN [arm EXCEPT ![p] = Deferred(p)] ELSE arm
      BY <1>6, Zenon DEF Beacon
    <3>2. [arm EXCEPT ![p] = arm[p]] = arm
      BY <1>1, Zenon DEF ParkTypes
    <3> QED
      BY <3>1, <3>2, Zenon DEF Deferred
  <2>3. PICK h : h = sweep.hold /\ h \in 0 .. now + PARKED_RETRY_COOLDOWN
    BY <1>1 DEF ParkTypes
  <2>4. arm' \in [Peer -> Nat] /\ \A q \in Peer : arm'[q] <= now + PARKED_RETRY_COOLDOWN
    BY <1>1, <1>2, <2>2, <2>3 DEF ParkTypes
  <2>5. ParkTypes'
    BY <1>1, <1>3, <2>1, <2>4, Zenon DEF ParkTypes
  <2>6. ASSUME NEW q \in Peer, q # p PROVE arm'[q] = arm[q]
    BY <1>1, <2>2, <2>6, Zenon DEF ParkTypes
  <2>7. ASSUME ByBeacon(p), since[p] < PARKED_RETRY_COOLDOWN, arm' # arm
        PROVE  arm'[p] = h /\ h >= arm[p]
    <3>1. arm[p] > now /\ arm[p] \in Nat /\ arm[p] <= now + PARKED_RETRY_COOLDOWN
      BY <1>1, <1>3, <2>7, NotDue, Zenon DEF ParkTypes
    <3>2. Held(p) /\ arm'[p] = h /\ Elapsed(h, arm[p])
      BY <1>1, <1>2, <2>2, <2>3, <2>7, <3>1 DEF ParkTypes
    <3>3. ~Elapsed(now, h)
      BY <2>3, <3>2, Zenon DEF Held
    <3>4. h > now
      <4>1. \A d \in 0 .. now + PARKED_RETRY_COOLDOWN + PARKED_RETRY_SWEEP : Elapsed(now, d) <=> d <= now
        BY <1>2, PlainTime, Zenon
      <4>2. h \in 0 .. now + PARKED_RETRY_COOLDOWN + PARKED_RETRY_SWEEP
        BY <1>2, <2>3
      <4>3. ~(h <= now)
        BY <3>3, <4>1, <4>2, Zenon
      <4> QED
        BY <1>2, <4>2, <4>3
    <3>5. arm[p] \in now + 1 .. now + PARKED_RETRY_COOLDOWN
      BY <1>2, <3>1
    <3> QED
      BY <1>2, <2>3, <3>2, <3>4, <3>5, PlainTime, Zenon
  <2>8. ASSUME NEW q \in Peer, since[q] < PARKED_RETRY_COOLDOWN, ByBeacon(q)
        PROVE  arm'[q] >= now + PARKED_RETRY_COOLDOWN - since[q]
    <3>1. arm[q] \in Nat /\ since[q] \in 0 .. PARKED_RETRY_COOLDOWN
      BY <1>1, Zenon DEF ParkTypes
    <3>2. arm[q] >= now + PARKED_RETRY_COOLDOWN - since[q]
      BY <2>8, Zenon DEF ByBeacon
    <3>3. arm'[q] = arm[q] \/ (arm'[q] = h /\ h >= arm[q])
      BY <2>6, <2>7, <2>8, Zenon
    <3> QED
      BY <1>2, <2>3, <3>1, <3>2, <3>3
  <2>9. ASSUME NEW q \in Peer PROVE Covered(q)'
    BY <1>3, <1>4, <2>1, <2>8, Zenon DEF Covered, BySweep, ByBeacon
  <2> QED
    BY <1>3, <2>1, <2>5, <2>9, Zenon DEF ParkIInv
<1> QED
  BY <1>5, <1>6, Zenon

(* parked_retry_flushed.                                                   *)
LEMMA ParkFlushed ==
    ASSUME FirstHalf, ParkIInv, BeaconFlushed
    PROVE  ParkIInv'
<1>1. ParkTypes
  BY Zenon DEF ParkIInv
<1>2. PICK p \in Peer, t \in Nat : p = flush.peer /\ t = flush.t /\ now \in {t, t + 1}
  BY <1>1, Zenon DEF BeaconFlushed, ParkTypes
<1>3. /\ flush # NoFlush /\ flush' = NoFlush
      /\ UNCHANGED <<parked, near, sweep, now, since, early>>
  BY Zenon DEF BeaconFlushed, NoAttempt
<1>4. /\ now \in 0 .. ParkUptime /\ ParkUptime \in Nat /\ PARKED_RETRY_COOLDOWN \in Nat \ {0}
      /\ PARKED_RETRY_SWEEP \in Nat \ {0} /\ since[p] \in 0 .. PARKED_RETRY_COOLDOWN
  BY <1>1, ParkedAssumption DEF ParkTypes, FirstHalf
<1>5. DeadlineAt(t + PARKED_RETRY_COOLDOWN) = t + PARKED_RETRY_COOLDOWN
  <2>1. t \in 0 .. ParkUptime
    BY <1>2, <1>4
  <2>2. PARKED_RETRY_COOLDOWN \in 1 .. PARKED_RETRY_COOLDOWN + PARKED_RETRY_SWEEP
    BY <1>4
  <2> QED
    BY <2>1, <2>2, PlainTime, Zenon
<1>6. PICK d \in Nat : /\ arm' = [arm EXCEPT ![p] = d] /\ d <= now + PARKED_RETRY_COOLDOWN
                       /\ flush.found => d = t + PARKED_RETRY_COOLDOWN
  <2>1. Rearmed(flush) = IF flush.found THEN t + PARKED_RETRY_COOLDOWN ELSE 0
    BY <1>2, <1>5, Zenon DEF Rearmed
  <2>2. arm' = [arm EXCEPT ![p] = Rearmed(flush)]
    BY <1>2, Zenon DEF BeaconFlushed
  <2>3. PICK d : d = Rearmed(flush)
    BY Zenon
  <2>4. d \in Nat /\ d <= now + PARKED_RETRY_COOLDOWN
    BY <1>2, <1>4, <2>1, <2>3
  <2>5. flush.found => d = t + PARKED_RETRY_COOLDOWN
    BY <2>1, <2>3, Zenon
  <2> QED
    BY <2>2, <2>3, <2>4, <2>5, Zenon
<1>7. /\ arm' \in [Peer -> Nat] /\ \A q \in Peer : arm'[q] <= now + PARKED_RETRY_COOLDOWN
      /\ arm'[p] = d /\ \A q \in Peer \ {p} : arm'[q] = arm[q]
  BY <1>1, <1>4, <1>6, Zenon DEF ParkTypes
<1>8. ParkTypes'
  BY <1>1, <1>3, <1>7, Zenon DEF ParkTypes
<1>9. since[p] < PARKED_RETRY_COOLDOWN => ByBeacon(p)'
  <2> SUFFICES ASSUME since[p] < PARKED_RETRY_COOLDOWN PROVE ByBeacon(p)'
    BY Zenon
  <2>1. flush.found /\ p \in near /\ (now = t \/ since[p] >= 1)
    BY <1>2, <1>3, Zenon DEF ParkIInv, InFlush
  <2>2. d >= now + PARKED_RETRY_COOLDOWN - since[p]
    BY <1>2, <1>4, <1>6, <2>1
  <2> QED
    BY <1>3, <1>7, <2>1, <2>2, Zenon DEF ByBeacon
<1>10. ASSUME NEW q \in Peer, q # p PROVE Covered(q)'
  <2>1. Covered(q) /\ ~InFlush(q)
    BY <1>2, <1>10, Zenon DEF ParkIInv, InFlush
  <2> QED
    BY <1>3, <1>7, <1>10, <2>1, Zenon DEF Covered, BySweep, ByBeacon
<1>11. \A q \in Peer : Covered(q)'
  BY <1>3, <1>9, <1>10, Zenon DEF Covered
<1> QED
  BY <1>3, <1>8, <1>11, Zenon DEF ParkIInv

(* sweep_parked_messages.                                                  *)
LEMMA ParkSweep ==
    ASSUME FirstHalf, ParkIInv, Sweep
    PROVE  ParkIInv'
<1>1. ParkTypes
  BY Zenon DEF ParkIInv
<1>2. /\ now \in 0 .. ParkUptime /\ ParkUptime \in Nat /\ PARKED_RETRY_COOLDOWN \in Nat \ {0}
      /\ PARKED_RETRY_SWEEP \in Nat \ {0} /\ PARKED_RETRY_COOLDOWN <= PARKED_RETRY_SWEEP
  BY <1>1, ParkedAssumption, SweepAssumption DEF ParkTypes, FirstHalf
<1>3. flush = NoFlush /\ SweepDue /\ UNCHANGED <<near, arm, flush, now>> /\ parked' \subseteq Peer
  BY <1>1, Zenon DEF Sweep, ParkTypes
<1>4. \A q \in Peer : since[q] < PARKED_RETRY_COOLDOWN => ByBeacon(q) /\ DefersToBeacon(q)
  BY <1>3, NotDue, Zenon
<1>5. PICK due : due = DeadlineAt(now + PARKED_RETRY_SWEEP) /\ due = now + PARKED_RETRY_SWEEP
  <2>1. PARKED_RETRY_SWEEP \in 1 .. PARKED_RETRY_COOLDOWN + PARKED_RETRY_SWEEP
    BY <1>2
  <2> QED
    BY <1>2, <2>1, PlainTime, Zenon
<1>6. PICK end : end = DeadlineAt(now + PARKED_RETRY_COOLDOWN) /\ end = now + PARKED_RETRY_COOLDOWN
  <2>1. PARKED_RETRY_COOLDOWN \in 1 .. PARKED_RETRY_COOLDOWN + PARKED_RETRY_SWEEP
    BY <1>2
  <2> QED
    BY <1>2, <2>1, PlainTime, Zenon
<1>7. /\ due \in 0 .. now + PARKED_RETRY_SWEEP /\ end \in 0 .. now + PARKED_RETRY_COOLDOWN
      /\ 0 \in 0 .. now + PARKED_RETRY_COOLDOWN
  BY <1>2, <1>5, <1>6
<1>8. ASSUME since' = since, early' = early,
             \E l : \E h \in 0 .. now + PARKED_RETRY_COOLDOWN : sweep' = [next |-> due, last |-> l, hold |-> h]
      PROVE  ParkIInv'
  <2>1. ParkTypes'
    <3>1. \E l : \E a \in 0 .. now' + PARKED_RETRY_SWEEP, h \in 0 .. now' + PARKED_RETRY_COOLDOWN :
             sweep' = [next |-> a, last |-> l, hold |-> h]
      BY <1>3, <1>7, <1>8, Zenon
    <3> QED
      BY <1>1, <1>3, <1>8, <3>1, Zenon DEF ParkTypes
  <2>2. \A q \in Peer : Covered(q)'
    BY <1>3, <1>4, <1>8, Zenon DEF Covered, ByBeacon
  <2> QED
    BY <1>3, <1>8, <2>1, <2>2, Zenon DEF ParkIInv
<1>9. CASE parked' = {}
  <2>1. sweep' = [sweep EXCEPT !.next = due] /\ since' = since /\ early' = early
    BY <1>5, <1>9, Zenon DEF Sweep
  <2>2. PICK l, a, h : sweep = [next |-> a, last |-> l, hold |-> h] /\ h \in 0 .. now + PARKED_RETRY_COOLDOWN
    BY <1>1, Zenon DEF ParkTypes
  <2>3. sweep' = [next |-> due, last |-> l, hold |-> h]
    BY <2>1, <2>2, Zenon
  <2> QED
    BY <1>8, <2>1, <2>2, <2>3, Zenon
<1>10. CASE parked' # {}
  <2>1. PICK p : p = NextParked(sweep.last, parked')
    BY Zenon
  <2>2. CASE DefersToBeacon(p)
    <3>1. sweep' = [next |-> due, last |-> p, hold |-> 0] /\ since' = since /\ early' = early
      BY <1>5, <1>10, <2>1, <2>2, Zenon DEF Sweep
    <3> QED
      BY <1>7, <1>8, <3>1, Zenon
  <2>3. CASE ~DefersToBeacon(p)
    <3>1. /\ sweep' = [next |-> due, last |-> p, hold |-> end]
          /\ since' = [since EXCEPT ![p] = 0]
          /\ early' = IF since[p] < PARKED_RETRY_COOLDOWN THEN early \union {p} ELSE early
      BY <1>5, <1>6, <1>10, <2>1, <2>3, Zenon DEF Sweep
    <3>2. sweep'.next = due /\ sweep'.last = p /\ sweep'.hold = end
      BY <3>1, Zenon
    <3>3. /\ since' \in [Peer -> 0 .. PARKED_RETRY_COOLDOWN]
          /\ \A q \in Peer : since'[q] = IF q = p THEN 0 ELSE since[q]
      <4>1. since \in [Peer -> 0 .. PARKED_RETRY_COOLDOWN] /\ 0 \in 0 .. PARKED_RETRY_COOLDOWN
        BY <1>1, <1>2 DEF ParkTypes
      <4>2. since' = [since EXCEPT ![p] = 0]
        BY <3>1, Zenon
      <4> HIDE <1>1, <1>2, <3>1
      <4> QED
        BY <4>1, <4>2, Zenon
    <3>4. ParkTypes'
      <4>1. \E l : \E a \in 0 .. now' + PARKED_RETRY_SWEEP, h \in 0 .. now' + PARKED_RETRY_COOLDOWN :
               sweep' = [next |-> a, last |-> l, hold |-> h]
        BY <1>3, <1>7, <3>1, Zenon
      <4> QED
        BY <1>1, <1>3, <3>3, <4>1, Zenon DEF ParkTypes
    <3>5. p \in Peer => BySweep(p)'
      BY <1>2, <1>3, <1>5, <1>6, <3>2, <3>3 DEF BySweep
    <3>6. ASSUME NEW q \in Peer, q # p PROVE Covered(q)'
      BY <1>3, <1>4, <3>3, <3>6, Zenon DEF Covered, ByBeacon
    <3>7. \A q \in Peer : Covered(q)'
      BY <3>5, <3>6, Zenon DEF Covered
    <3>8. p \in Peer
      <4>1. p \in parked'
        <5>1. parked' \subseteq Nat
          <6>1. \A q \in Peer : q \in Nat
            BY DEF Peer
          <6> QED
            BY <1>3, <6>1, Zenon
        <5>2. PICK A : /\ A = IF {q \in parked' : q > sweep.last} # {}
                             THEN {q \in parked' : q > sweep.last} ELSE parked'
                       /\ p = Min(A)
          BY <2>1, Zenon DEF NextParked
        <5>3. A # {} /\ A \subseteq parked' /\ A \subseteq Nat
          BY <1>10, <5>1, <5>2, Zenon
        <5> QED
          BY <5>2, <5>3, LeastOf, Zenon
      <4> QED
        BY <1>3, <4>1, Zenon
    <3>9. early' = early
      BY <1>4, <2>3, <3>1, <3>8, Zenon
    <3> QED
      BY <1>3, <3>4, <3>7, <3>9, Zenon DEF ParkIInv
  <2> QED
    BY <2>2, <2>3, Zenon
<1> QED
  BY <1>9, <1>10, Zenon

(* A tick brings every deadline one nearer, and ages every attempt by one. *)
LEMMA ParkTickIInv ==
    ASSUME FirstHalf, ParkIInv, ParkTick
    PROVE  ParkIInv'
<1>1. ParkTypes
  BY Zenon DEF ParkIInv
<1>2. /\ now \in 0 .. ParkUptime /\ now < ParkUptime /\ ParkUptime \in Nat
      /\ PARKED_RETRY_COOLDOWN \in Nat \ {0} /\ PARKED_RETRY_SWEEP \in Nat \ {0}
  <2>1. now \in 0 .. ParkUptime /\ now < ParkUptime
    BY <1>1, Zenon DEF ParkTypes, ParkTick
  <2>2. PARKED_RETRY_COOLDOWN \in Nat \ {0} /\ PARKED_RETRY_SWEEP \in Nat \ {0}
    BY ParkedAssumption, Zenon
  <2>3. ParkUptime \in Nat
    BY DEF FirstHalf
  <2> QED
    BY <2>1, <2>2, <2>3, Zenon
<1>3. now' = now + 1
  BY <1>2, PlainTime, Zenon DEF ParkTick
<1>4. UNCHANGED <<near, parked, arm, sweep, flush, early>> /\ (flush # NoFlush => now = flush.t)
  BY Zenon DEF ParkTick
<1>5. since' = [p \in Peer |-> Min({since[p] + 1, PARKED_RETRY_COOLDOWN})]
  BY Zenon DEF ParkTick
<1>6. ASSUME NEW p \in Peer
      PROVE  /\ since'[p] \in 0 .. PARKED_RETRY_COOLDOWN
             /\ since'[p] < PARKED_RETRY_COOLDOWN =>
                   since'[p] = since[p] + 1 /\ since[p] < PARKED_RETRY_COOLDOWN
             /\ since[p] \in 0 .. PARKED_RETRY_COOLDOWN /\ arm[p] \in Nat
  <2>1. since[p] \in 0 .. PARKED_RETRY_COOLDOWN /\ arm[p] \in Nat
    BY <1>1, Zenon DEF ParkTypes
  <2>2. since'[p] = IF since[p] + 1 <= PARKED_RETRY_COOLDOWN THEN since[p] + 1 ELSE PARKED_RETRY_COOLDOWN
    BY <1>2, <1>5, <2>1, MinTwo
  <2> QED
    BY <1>2, <2>1, <2>2
<1>7. ParkTypes'
  <2>1. since' \in [Peer -> 0 .. PARKED_RETRY_COOLDOWN]
    BY <1>5, <1>6, Zenon
  <2>2. now' \in 0 .. ParkUptime
    BY <1>2, <1>3
  <2>3. \A p \in Peer : arm'[p] <= now' + PARKED_RETRY_COOLDOWN
    BY <1>1, <1>2, <1>3, <1>4 DEF ParkTypes
  <2>4. \E l : \E a \in 0 .. now' + PARKED_RETRY_SWEEP, h \in 0 .. now' + PARKED_RETRY_COOLDOWN :
           sweep' = [next |-> a, last |-> l, hold |-> h]
    <3>1. PICK l, a, h : /\ sweep = [next |-> a, last |-> l, hold |-> h]
                         /\ a \in 0 .. now + PARKED_RETRY_SWEEP /\ h \in 0 .. now + PARKED_RETRY_COOLDOWN
      BY <1>1, Zenon DEF ParkTypes
    <3>2. a \in 0 .. now' + PARKED_RETRY_SWEEP /\ h \in 0 .. now' + PARKED_RETRY_COOLDOWN
      BY <1>2, <1>3, <3>1
    <3> QED
      BY <1>4, <3>1, <3>2, Zenon
  <2> QED
    BY <1>1, <1>3, <1>4, <2>1, <2>2, <2>3, <2>4, Zenon DEF ParkTypes
<1>8. ASSUME NEW p \in Peer, since'[p] < PARKED_RETRY_COOLDOWN, InFlush(p)
      PROVE  InFlush(p)'
  BY <1>4, <1>6, <1>8 DEF InFlush
<1>9. ASSUME NEW p \in Peer PROVE Covered(p)'
  <2> SUFFICES ASSUME since'[p] < PARKED_RETRY_COOLDOWN
               PROVE  BySweep(p)' \/ ByBeacon(p)' \/ InFlush(p)'
    BY Zenon DEF Covered
  <2>1. BySweep(p) \/ ByBeacon(p) \/ InFlush(p)
    BY <1>6, Zenon DEF ParkIInv, Covered
  <2>2. now' + PARKED_RETRY_COOLDOWN - since'[p] = now + PARKED_RETRY_COOLDOWN - since[p]
    BY <1>2, <1>3, <1>6
  <2> QED
    BY <1>4, <1>8, <2>1, <2>2, Zenon DEF BySweep, ByBeacon
<1>10. ASSUME flush # NoFlush, since'[flush.peer] < PARKED_RETRY_COOLDOWN
       PROVE  InFlush(flush.peer)'
  <2>1. flush.peer \in Peer
    BY <1>1, <1>10, Zenon DEF ParkTypes
  <2>2. InFlush(flush.peer)
    BY <1>6, <1>10, <2>1, Zenon DEF ParkIInv
  <2>3. flush'.peer = flush.peer /\ flush'.found /\ flush.peer \in near' /\ since'[flush.peer] >= 1
    BY <1>4, <1>6, <1>10, <2>1, <2>2 DEF InFlush
  <2> QED
    BY <2>3, Zenon DEF InFlush
<1>11. flush' # NoFlush /\ since'[flush'.peer] < PARKED_RETRY_COOLDOWN => InFlush(flush.peer)'
  BY <1>4, <1>10, Zenon
<1> QED
  BY <1>4, <1>7, <1>9, <1>11, Zenon DEF ParkIInv

(* parked_retry.c: in the first half of a turn of the clock, with any      *)
(* number of peers, beacons and the sweep never try one twice within the   *)
(* cooldown unless it left the table or a user parked again.               *)
THEOREM AttemptsApartTheorem == FirstHalf => (ParkSpec => []AttemptsApart)
<1> SUFFICES ASSUME FirstHalf PROVE ParkSpec => []AttemptsApart
  BY Zenon
<1>1. ParkInit => ParkIInv
  <2> SUFFICES ASSUME ParkInit PROVE ParkIInv
    BY Zenon
  <2>1. /\ now \in 0 .. ParkUptime /\ ParkUptime \in Nat /\ PARKED_RETRY_COOLDOWN \in Nat \ {0}
        /\ PARKED_RETRY_SWEEP \in Nat \ {0}
    BY ParkedAssumption DEF ParkInit, FirstHalf
  <2>2. since \in [Peer -> 0 .. PARKED_RETRY_COOLDOWN] /\ \A p \in Peer : Covered(p)
    BY <2>1 DEF ParkInit, Covered
  <2>3. arm \in [Peer -> Nat] /\ \A p \in Peer : arm[p] <= now + PARKED_RETRY_COOLDOWN
    BY <2>1 DEF ParkInit
  <2>4. \E l : \E a \in 0 .. now + PARKED_RETRY_SWEEP, h \in 0 .. now + PARKED_RETRY_COOLDOWN :
           sweep = [next |-> a, last |-> l, hold |-> h]
    <3>1. 0 \in 0 .. now + PARKED_RETRY_SWEEP /\ 0 \in 0 .. now + PARKED_RETRY_COOLDOWN
      BY <2>1
    <3> QED
      BY <3>1, Zenon DEF ParkInit
  <2> QED
    BY <2>1, <2>2, <2>3, <2>4, Zenon DEF ParkInit, ParkIInv, ParkTypes
<1>2. ParkIInv /\ [ParkNext]_parkVars => ParkIInv'
  <2> SUFFICES ASSUME ParkIInv, [ParkNext]_parkVars PROVE ParkIInv'
    BY Zenon
  <2>0. parked \subseteq Peer /\ now \in Nat
    BY DEF ParkIInv, ParkTypes, FirstHalf
  <2>1. CASE UNCHANGED parkVars
    BY <2>0, <2>1, ParkSame, Zenon DEF parkVars, parkState
  <2>2. ASSUME NEW p \in Peer, Park(p) PROVE ParkIInv'
    BY <2>0, <2>2, ParkSame, Zenon DEF Park, NoAttempt
  <2>3. ASSUME NEW p \in Peer, Arm(p) PROVE ParkIInv'
    <3>1. DeadlineAt(now) \in 0 .. now + 1
      BY PlainTime, Zenon DEF ParkIInv, ParkTypes
    <3> QED
      BY <2>3, <3>1, ParkReset, Zenon DEF Arm, ArmAt
  <2>4. ASSUME NEW p \in Peer, Unpark(p) PROVE ParkIInv'
    BY <2>0, <2>4, ParkSame, Zenon DEF Unpark
  <2>5. ASSUME NEW p \in Peer, Evict(p) PROVE ParkIInv'
    <3>1. 0 \in 0 .. now + 1
      BY <2>0
    <3> QED
      BY <2>5, <3>1, ParkReset, Zenon DEF Evict, Forgotten
  <2> QED
    BY <2>1, <2>2, <2>3, <2>4, <2>5, ParkBeacon, ParkFlushed, ParkSweep, ParkTickIInv, Zenon DEF ParkNext
<1>3. ParkIInv => AttemptsApart
  BY Zenon DEF ParkIInv, AttemptsApart
<1> QED
  BY <1>1, <1>2, <1>3, PTL DEF ParkSpec

-----------------------------------------------------------------------------
(* The nonce counter.  CeilingExceedsIssued alone is not inductive: what a *)
(* boundary write may store depends on how the RAM copies relate to NVS,   *)
(* and that relation has a different form in every phase of a boot and of  *)
(* a flush.  IInv says what it is in each phase.  All of it rests on reads *)
(* of the ceiling that do not fail: a failed read restarts the count at 0. *)
NoReadErrors == ReadErrors = {}

(* While issuing, the RAM counter is above everything issued and within    *)
(* the block that NVS covers.                                              *)
ReadyInv ==
    s_ready =>
        /\ boot = "up"
        /\ s_counter <= s_ceiling_durable
        /\ s_ceiling_durable <= nvs
        /\ \A c \in Counter : times[c] > 0 => c < s_counter

(* Between the read of the ceiling and the end of nonce_counter_init.      *)
BootInv ==
    /\ boot = "read" => rd_ceiling = nvs
    /\ boot = "written" =>
           /\ nvs = rd_ceiling + NONCE_RESERVE
           /\ \A c \in Counter : times[c] > 0 => c < rd_ceiling

(* Only the holder of s_nonce_mutex is inside nonce_counter_next.          *)
MutexInv ==
    \A t \in Task :
        /\ pc[t] # "idle" => boot = "up"
        /\ pc[t] \in {"locked", "flushed"} => mutex = t
        /\ pc[t] = "flushed" =>
               /\ s_ready
               /\ s_counter >= s_ceiling_durable
               /\ nvs = s_ceiling_durable + NONCE_RESERVE

IInv ==
    /\ TypeOK
    /\ CeilingExceedsIssued
    /\ IssuedOnce
    /\ ReadyInv
    /\ BootInv
    /\ MutexInv

-----------------------------------------------------------------------------
(* The first power-on satisfies the inductive invariant.                   *)
LEMMA InitIInv == Init => IInv
<1> SUFFICES ASSUME Init PROVE IInv
    BY Zenon
<1> USE MaxCeilingAssumption DEF Init, Counter
<1>0. pc \in [Task -> {"idle", "wait", "locked", "flushed"}] /\ s_ready \in BOOLEAN
    BY Zenon
<1>1. TypeOK
    BY <1>0 DEF TypeOK
<1>2. CeilingExceedsIssued /\ IssuedOnce
    BY DEF CeilingExceedsIssued, IssuedOnce, Issued
<1>3. ReadyInv /\ BootInv
    BY Zenon DEF ReadyInv, BootInv
<1>4. MutexInv
    BY Zenon DEF MutexInv
<1> QED
    BY <1>1, <1>2, <1>3, <1>4, Zenon DEF IInv

(* Every step of the boot, of nonce_counter_next and every crash keeps the *)
(* inductive invariant.                                                    *)
LEMMA NextIInv == NoReadErrors /\ IInv /\ [Next]_vars => IInv'
<1> SUFFICES ASSUME NoReadErrors, IInv, [Next]_vars PROVE IInv'
    BY Zenon
<1> USE MaxCeilingAssumption, ReserveAssumption, TaskAssumption
<1> USE DEF IInv, TypeOK, CeilingExceedsIssued, IssuedOnce, ReadyInv, BootInv, MutexInv,
            Issued, Counter
<1>1. CASE InitRead
    BY <1>1, Zenon DEF InitRead, NoReadErrors
<1>2. CASE InitWrite
    BY <1>2 DEF InitWrite
<1>3. CASE InitWriteFail
    BY <1>3 DEF InitWriteFail
<1>4. CASE InitReady
    BY <1>4 DEF InitReady
<1>5. CASE Crash
    <2> USE <1>5 DEF Crash
    <2>0. pc' \in [Task -> {"idle", "wait", "locked", "flushed"}] /\ s_ready' \in BOOLEAN
        BY Zenon
    <2>1. TypeOK'
        BY <2>0
    <2>2. (CeilingExceedsIssued /\ IssuedOnce /\ ReadyInv /\ BootInv)'
        BY Zenon
    <2>3. MutexInv'
        BY Zenon
    <2> QED
        BY <2>1, <2>2, <2>3, Zenon
<1>6. ASSUME NEW t \in Task, Request(t) PROVE IInv'
    BY <1>6, Zenon DEF Request
<1>7. ASSUME NEW t \in Task, Acquire(t) PROVE IInv'
    BY <1>7, Zenon DEF Acquire
<1>8. ASSUME NEW t \in Task, NextRefuse(t) PROVE IInv'
    BY <1>8, Zenon DEF NextRefuse, Release
<1>9. ASSUME NEW t \in Task, NextFlush(t) PROVE IInv'
    BY <1>9, SMTT(30) DEF NextFlush
<1>10. ASSUME NEW t \in Task, NextFlushFail(t) PROVE IInv'
    <2> USE <1>10 DEF NextFlushFail, Release
    <2>1. nvs' \in Counter /\ s_ceiling_durable <= nvs'
        BY SMTT(30)
    <2>2. TypeOK'
        BY <2>1, Zenon
    <2>3. (CeilingExceedsIssued /\ IssuedOnce /\ ReadyInv /\ BootInv)'
        BY <2>1
    <2>4. MutexInv'
        BY Zenon
    <2> QED
        BY <2>2, <2>3, <2>4, Zenon
<1>11. ASSUME NEW t \in Task, NextIssue(t) PROVE IInv'
    BY <1>11, SMTT(30) DEF NextIssue, Issue, Release
<1>12. ASSUME NEW t \in Task, NextIssueFlushed(t) PROVE IInv'
    BY <1>12, SMTT(30) DEF NextIssueFlushed, Issue, Release
<1>13. CASE UNCHANGED vars
    BY <1>13, Zenon DEF vars
<1> QED
    BY <1>1, <1>2, <1>3, <1>4, <1>5, <1>6, <1>7, <1>8, <1>9, <1>10, <1>11, <1>12, <1>13, Zenon DEF Next, InitStep, NextStep

(* The inductive invariant holds throughout every behaviour.               *)
THEOREM AlwaysIInv ==
    ASSUME NoReadErrors
    PROVE  Spec => []IInv
<1>1. Init => IInv
    BY InitIInv, Zenon
<1>2. IInv /\ [Next]_vars => IInv'
    BY NextIInv, Zenon
<1> QED
    BY <1>1, <1>2, PTL DEF Spec

(* NVS always holds a ceiling above every counter ever issued: the         *)
(* contract of nonce_counter.h, for any block size and number of tasks.    *)
THEOREM CeilingExceedsIssuedTheorem ==
    ASSUME NoReadErrors
    PROVE  Spec => []CeilingExceedsIssued
<1>1. IInv => CeilingExceedsIssued
    BY Zenon DEF IInv
<1> QED
    BY <1>1, AlwaysIInv, PTL

(* nonce_counter_next never hands out a value twice, across reboots,       *)
(* failed writes and concurrent senders.                                   *)
THEOREM IssuedOnceTheorem ==
    ASSUME NoReadErrors
    PROVE  Spec => []IssuedOnce
<1>1. IInv => IssuedOnce
    BY Zenon DEF IInv
<1> QED
    BY <1>1, AlwaysIInv, PTL

(* One step: a step of the node is a step of NonceIssuer or leaves what    *)
(* was handed out alone.                                                   *)
LEMMA StepRefines == IInv /\ [Next]_vars => [Issuer!Next]_times
<1> SUFFICES ASSUME IInv, Next, times' # times PROVE Issuer!Next
    BY Zenon DEF vars
<1>1. PICK t \in Task : NextIssue(t) \/ NextIssueFlushed(t)
    BY Zenon DEF Next, InitStep, NextStep, InitRead, InitWrite, InitReady, InitWriteFail, Crash,
           Request, Acquire, NextRefuse, NextFlush, NextFlushFail
<1>2. s_ready /\ s_counter \in Counter /\ times' = [times EXCEPT ![s_counter] = @ + 1]
    BY <1>1, Zenon DEF NextIssue, NextIssueFlushed, Issue, IInv, MutexInv, TypeOK
<1>3. \A d \in Counter : times[d] > 0 => d < s_counter
    BY <1>2, Zenon DEF IInv, ReadyInv
<1>4. times[s_counter] = 0
    BY <1>2, <1>3, MaxCeilingAssumption DEF IInv, TypeOK, Counter
<1>5. times' = [times EXCEPT ![s_counter] = 1]
    BY <1>2, <1>4
<1>6. Issuer!HandOut(s_counter)
    BY <1>3, <1>5, Zenon DEF Issuer!HandOut, Counter
<1> QED
    BY <1>2, <1>6, Zenon DEF Issuer!Next, Counter

(* The nonce counter implements NonceIssuer: every number it hands out, in *)
(* this boot or a later one, is above all numbers it handed out before.    *)
(* Receivers' high-water marks (replay_window.c) depend on it.             *)
THEOREM KeepsPromiseTheorem ==
    ASSUME NoReadErrors
    PROVE  Spec => KeepsPromise
<1>1. Init => Issuer!Init
    BY Zenon DEF Init, Issuer!Init, Counter
<1>2. IInv /\ [Next]_vars => [Issuer!Next]_times
    BY StepRefines, Zenon
<1> QED
    BY <1>1, <1>2, AlwaysIInv, PTL DEF Spec, KeepsPromise, Issuer!Spec

-----------------------------------------------------------------------------
(* Network time.                                                           *)
SyncIInv ==
    /\ stratum \in Nat
    /\ \A p \in pending : p.stratum \in Nat

(* The best stratum of a pool is no worse than that of an entry of it.     *)
LEMMA BestIsBest ==
    ASSUME NEW pool, \A p \in pool : p.stratum \in Nat
    PROVE  /\ BestStratum(pool) \in Nat
           /\ \A p \in pool : BestStratum(pool) <= p.stratum
<1> DEFINE S == {p.stratum : p \in pool} \cup {MAX_STRATUM}
<1>1. S \subseteq Nat /\ S # {} /\ \A p \in pool : p.stratum \in S
  BY SyncAssumption, Zenon
<1>2. Min(S) \in S /\ \A y \in S : Min(S) <= y
  <2> HIDE DEF S
  <2> QED
    BY <1>1, LeastOf, Zenon
<1>3. BestStratum(pool) = Min(S)
  BY Zenon DEF BestStratum
<1> HIDE DEF S
<1> QED
  BY <1>1, <1>2, <1>3, Zenon

(* The pool after a beacon: what was in it, and the new proposal.          *)
LEMMA PoolAfter ==
    ASSUME SyncIInv, NEW s \in Source, NEW e \in Skew, NEW k \in Strata,
           NEW established \in BOOLEAN, HandleSync(s, e, k, established)
    PROVE  /\ \A p \in pending' : p.stratum \in Nat
           /\ \E p \in pending' : p.stratum = k
<1>0. Proposal(s, e, k, established).stratum = k
  BY Zenon DEF Proposal
<1>1. PICK new : new = Proposal(s, e, k, established) /\ new.stratum = k
  BY <1>0, Zenon
<1>2. Admit(new)
  BY <1>1, Zenon DEF HandleSync
<1>3. PICK out : pending' = {p \in Live(pending) \ out : p.source # new.source} \cup {new}
  BY <1>2, Zenon DEF Admit
<1>4. k \in Nat
  BY SyncAssumption, Zenon
<1> QED
  BY <1>1, <1>3, <1>4, Zenon DEF SyncIInv, Live

(* A step keeps the strata natural numbers, and lowers that of a           *)
(* synchronized node.                                                      *)
LEMMA SyncStep == SyncIInv /\ [SyncNext]_syncVars => SyncIInv' /\ (StratumStep \/ UNCHANGED syncVars)
<1> SUFFICES ASSUME SyncIInv, [SyncNext]_syncVars
             PROVE  SyncIInv' /\ (StratumStep \/ UNCHANGED syncVars)
  BY Zenon
<1>1. CASE UNCHANGED syncVars
  BY <1>1, Zenon DEF SyncIInv, syncVars
<1>2. CASE SyncTick
  BY <1>2 DEF SyncTick, SyncIInv, StratumStep
<1>3. ASSUME NEW s \in Source, NEW e \in Skew, NEW k \in Strata, NEW established \in BOOLEAN,
             HandleSync(s, e, k, established)
      PROVE  SyncIInv' /\ StratumStep
  <2>1. /\ \A p \in pending' : p.stratum \in Nat
        /\ \E p \in pending' : p.stratum = k
    BY <1>3, PoolAfter, Zenon
  <2>2. BestStratum(pending') \in Nat /\ BestStratum(pending') <= k
    BY <2>1, BestIsBest, Zenon
  <2>3. k \in Nat /\ stratum \in Nat
    BY SyncAssumption, Zenon DEF SyncIInv
  <2>4. synchronized => k < stratum
    BY <1>3, <2>3 DEF HandleSync, Refuses
  <2>5. stratum' = stratum \/ stratum' = BestStratum(pending') + 1
    BY <1>3, Zenon DEF HandleSync, Commit
  <2> QED
    BY <2>1, <2>2, <2>3, <2>4, <2>5 DEF SyncIInv, StratumStep
<1> QED
  BY <1>1, <1>2, <1>3, Zenon DEF SyncNext

(* timesync_handle_sync: with any sources, errors, pool size and expiry, a *)
(* synchronized node's stratum never rises.                                *)
THEOREM StratumNeverRisesTheorem == SyncSpec => StratumNeverRises
<1>1. SyncInit => SyncIInv
  BY SyncAssumption, Zenon DEF SyncInit, SyncIInv
<1>2. SyncIInv /\ [SyncNext]_syncVars => SyncIInv' /\ [StratumStep]_syncVars
  BY SyncStep, Zenon
<1> QED
  BY <1>1, <1>2, PTL DEF SyncSpec, StratumNeverRises

-----------------------------------------------------------------------------
(* Reassembly.  A slot, whatever it holds.                                 *)
IsSlot(s) ==
    \E i, n, g : \E t \in 0 .. W - 1, a \in Nat :
        s = [id |-> i, total |-> n, got |-> g, start |-> t, age |-> a]

(* The wrapped clock shows the true age of a message, which the purge      *)
(* bounds: a slot older than the timeout has not seen one yet.             *)
TrueAge(s, t, sp) ==
    /\ (t - s.start) % W = s.age
    /\ s.age <= FRAG_REASSEMBLY_TIMEOUT + sp

FragIInv ==
    /\ now \in 0 .. W - 1
    /\ sincePurge \in 0 .. PURGE_INTERVAL
    /\ slot = [k \in Slots |-> slot[k]]
    /\ \A k \in Busy : IsSlot(slot[k]) /\ TrueAge(slot[k], now, sincePurge)
    /\ WithinWindow

(* A fragment changes neither the start of a slot nor its age.             *)
LEMMA AddedKeepsAge ==
    ASSUME NEW s, IsSlot(s), NEW f
    PROVE  IsSlot(Added(s, f)) /\ Added(s, f).start = s.start /\ Added(s, f).age = s.age
<1>0. PICK i, n, g : \E t \in 0 .. W - 1, a \in Nat :
          s = [id |-> i, total |-> n, got |-> g, start |-> t, age |-> a]
  BY Zenon DEF IsSlot
<1>1. PICK t \in 0 .. W - 1, a \in Nat :
          s = [id |-> i, total |-> n, got |-> g, start |-> t, age |-> a]
  BY <1>0, Zenon
<1>2. CASE Added(s, f) = s
  BY <1>2, Zenon
<1>3. CASE Added(s, f) # s
  <2>1. Added(s, f) = [s EXCEPT !.got = f[2] :> f @@ @]
    BY <1>3, Zenon DEF Added
  <2>2. PICK h : Added(s, f) = [s EXCEPT !.got = h]
    BY <2>1, Zenon
  <2>3. Added(s, f) = [id |-> i, total |-> n, got |-> h, start |-> t, age |-> a]
    BY <1>1, <2>2, Zenon
  <2>4. IsSlot(Added(s, f))
    BY <2>3, Zenon DEF IsSlot
  <2>5. Added(s, f).start = t /\ Added(s, f).age = a
    BY <2>3
  <2>6. s.start = t /\ s.age = a
    BY <1>1
  <2> QED
    BY <2>4, <2>5, <2>6, Zenon
<1> QED
  BY <1>2, <1>3, Zenon

(* reassembly_add on a slot within its window.                             *)
LEMMA AddToIInv ==
    ASSUME FragIInv, NEW k \in Slots, NEW s, IsSlot(s), TrueAge(s, now, sincePurge),
           s.age <= FRAG_REASSEMBLY_TIMEOUT, NEW f, AddTo(k, s, f), UNCHANGED <<now, sincePurge>>
    PROVE  FragIInv'
<1>1. PICK s2 : s2 = Added(s, f) /\ IsSlot(s2) /\ s2.start = s.start /\ s2.age = s.age
  BY AddedKeepsAge, Zenon
<1>2. TrueAge(s2, now, sincePurge)
  BY <1>1, Zenon DEF TrueAge
<1>3. slot' = [slot EXCEPT ![k] = s2] \/ slot' = [slot EXCEPT ![k] = Unused]
  BY <1>1, Zenon DEF AddTo
<1>4. delivered' = delivered \/ delivered' = delivered \union {[got |-> s2.got, age |-> s2.age]}
  BY <1>1, Zenon DEF AddTo
<1>5. WithinWindow'
  BY <1>1, <1>4 DEF FragIInv, WithinWindow
<1>6. slot' = [j \in Slots |-> slot'[j]]
  BY <1>3, Zenon DEF FragIInv
<1>7. ASSUME NEW j \in Busy'
      PROVE  IsSlot(slot'[j]) /\ TrueAge(slot'[j], now, sincePurge)
  <2>1. j \in Slots /\ slot'[j] # Unused
    BY Zenon DEF Busy
  <2>2. CASE j = k
    BY <1>1, <1>2, <1>3, <2>1, <2>2, Zenon DEF FragIInv
  <2>3. CASE j # k
    <3>1. slot'[j] = slot[j] /\ j \in Busy
      BY <1>3, <2>1, <2>3, Zenon DEF FragIInv, Busy
    <3> QED
      BY <3>1, Zenon DEF FragIInv
  <2> QED
    BY <2>2, <2>3, Zenon
<1>8. \A j \in Busy' : IsSlot(slot'[j]) /\ TrueAge(slot'[j], now', sincePurge')
  BY <1>7, Zenon DEF IsSlot, TrueAge
<1> QED
  BY <1>5, <1>6, <1>8, Zenon DEF FragIInv

(* A slot the clock calls stale is past the timeout, and the others are    *)
(* not.                                                                    *)
LEMMA StaleIsOld ==
    ASSUME FragIInv, NEW k \in Busy
    PROVE  /\ slot[k].age \in Nat /\ slot[k].start \in 0 .. W - 1
           /\ Stale(k) <=> slot[k].age > FRAG_REASSEMBLY_TIMEOUT
<1>1. IsSlot(slot[k]) /\ TrueAge(slot[k], now, sincePurge)
  BY Zenon DEF FragIInv
<1>2. PICK i, n, g : \E t \in 0 .. W - 1, a \in Nat :
          slot[k] = [id |-> i, total |-> n, got |-> g, start |-> t, age |-> a]
  BY <1>1, Zenon DEF IsSlot
<1>3. PICK t \in 0 .. W - 1, a \in Nat :
          slot[k] = [id |-> i, total |-> n, got |-> g, start |-> t, age |-> a]
  BY <1>2, Zenon
<1>4. slot[k].start = t /\ slot[k].age = a
  BY <1>3
<1> QED
  BY <1>1, <1>4, Zenon DEF TrueAge, Stale

(* handle_data on a fragment.                                              *)
LEMMA ReceiveIInv ==
    ASSUME FragIInv, NEW f \in Frag, Receive(f)
    PROVE  FragIInv'
<1>0. UNCHANGED <<now, sincePurge>>
  BY Zenon DEF Receive, Takes
<1>1. ASSUME NEW k \in Mine(f[1]), Stale(k), slot' = [slot EXCEPT ![k] = Unused], UNCHANGED delivered
      PROVE  FragIInv'
  <2>1. Busy' \subseteq Busy /\ \A j \in Busy' : slot'[j] = slot[j]
    BY <1>1, Zenon DEF FragIInv, Busy
  <2>2. slot' = [j \in Slots |-> slot'[j]]
    BY <1>1, Zenon DEF FragIInv
  <2>3. \A j \in Busy' : IsSlot(slot'[j]) /\ TrueAge(slot'[j], now', sincePurge')
    BY <1>0, <2>1, Zenon DEF FragIInv
  <2> QED
    BY <1>0, <1>1, <2>2, <2>3, Zenon DEF FragIInv, WithinWindow
<1>2. ASSUME NEW k \in Mine(f[1]), ~Stale(k), AddTo(k, slot[k], f)
      PROVE  FragIInv'
  <2>1. k \in Busy /\ k \in Slots
    BY <1>2, Zenon DEF Mine, Busy
  <2>2. slot[k].age <= FRAG_REASSEMBLY_TIMEOUT
    <3>1. slot[k].age \in Nat /\ ~(slot[k].age > FRAG_REASSEMBLY_TIMEOUT)
      BY <1>2, <2>1, StaleIsOld, Zenon
    <3> QED
      BY <3>1, FragmentAssumption
  <2>3. IsSlot(slot[k]) /\ TrueAge(slot[k], now, sincePurge)
    BY <2>1, Zenon DEF FragIInv
  <2> QED
    BY <1>0, <1>2, <2>1, <2>2, <2>3, AddToIInv, Zenon
<1>3. ASSUME Busy # Slots, AddTo(Min(Slots \ Busy), Opened(f[1]), f)
      PROVE  FragIInv'
  <2>1. Min(Slots \ Busy) \in Slots
    <3>1. Slots \ Busy \subseteq Nat /\ Slots \ Busy # {}
      BY <1>3 DEF Slots, Busy
    <3> QED
      BY <3>1, LeastOf, Zenon
  <2>2. PICK s : /\ s = Opened(f[1])
                 /\ s = [id |-> f[1].id, total |-> NumFrags(f[1].len), got |-> <<>>,
                         start |-> now, age |-> 0]
    BY Zenon DEF Opened
  <2>3. s.age = 0 /\ s.start = now /\ now \in 0 .. W - 1 /\ 0 \in Nat
    BY <2>2 DEF FragIInv
  <2>4. IsSlot(s)
    BY <2>2, <2>3, Zenon DEF IsSlot
  <2>5. (now - now) % W = 0
    <3>1. (now - now) % W = IF now >= now THEN now - now ELSE now - now + W
      BY <2>3, ClockAssumption, WrappedDifference, Zenon
    <3> QED
      BY <2>3, <3>1
  <2>6. TrueAge(s, now, sincePurge)
    BY <2>3, <2>5, FragmentAssumption DEF TrueAge, FragIInv
  <2>7. s.age <= FRAG_REASSEMBLY_TIMEOUT
    BY <2>3, FragmentAssumption
  <2> QED
    BY <1>0, <1>3, <2>1, <2>2, <2>4, <2>6, <2>7, AddToIInv, Zenon
<1>4. CASE UNCHANGED <<slot, delivered>>
  BY <1>0, <1>4, Zenon DEF FragIInv, Busy, WithinWindow
<1> QED
  BY <1>1, <1>2, <1>3, <1>4, Zenon DEF Receive

(* reassembly_purge leaves no slot older than the timeout.                 *)
LEMMA PurgeIInv ==
    ASSUME FragIInv, Purge
    PROVE  FragIInv'
<1>1. ASSUME NEW j \in Busy'
      PROVE  j \in Busy /\ slot'[j] = slot[j] /\ ~Stale(j)
  BY Zenon DEF Busy, Purge
<1>2. ASSUME NEW j \in Busy'
      PROVE  IsSlot(slot'[j]) /\ TrueAge(slot'[j], now', sincePurge')
  <2>1. j \in Busy /\ slot'[j] = slot[j] /\ ~Stale(j)
    BY <1>1, Zenon
  <2>2. slot[j].age \in Nat /\ slot[j].age <= FRAG_REASSEMBLY_TIMEOUT
    <3>1. slot[j].age \in Nat /\ ~(slot[j].age > FRAG_REASSEMBLY_TIMEOUT)
      BY <2>1, StaleIsOld, Zenon
    <3> QED
      BY <3>1, FragmentAssumption
  <2>3. IsSlot(slot[j]) /\ TrueAge(slot[j], now, sincePurge)
    BY <2>1, Zenon DEF FragIInv
  <2>4. now' = now /\ sincePurge' = 0
    BY Zenon DEF Purge
  <2>5. slot[j].age <= FRAG_REASSEMBLY_TIMEOUT + 0
    BY <2>2, FragmentAssumption
  <2>6. (now - slot[j].start) % W = slot[j].age
    BY <2>3, Zenon DEF TrueAge
  <2> QED
    BY <2>1, <2>3, <2>4, <2>5, <2>6, Zenon DEF TrueAge
<1>3. slot' = [j \in Slots |-> slot'[j]]
  BY Zenon DEF Purge
<1>4. now' = now /\ sincePurge' = 0 /\ delivered' = delivered
  BY Zenon DEF Purge
<1> QED
  BY <1>2, <1>3, <1>4, FragmentAssumption DEF FragIInv, WithinWindow

(* A tick takes clock and ages one further; the purge comes before an age  *)
(* could reach the range of the clock.                                     *)
LEMMA AgeFollowsClock ==
    ASSUME NEW t \in 0 .. W - 1, NEW n \in 0 .. W - 1, NEW a \in Nat, (n - t) % W = a, a + 1 < W
    PROVE  (((n + 1) % W) - t) % W = a + 1
<1>1. PICK m \in 0 .. W - 1 : m = (n + 1) % W /\ (m = IF n + 1 < W THEN n + 1 ELSE n + 1 - W)
  <2>1. 1 \in 0 .. W
    BY ClockAssumption
  <2>2. (n + 1) % W = IF n + 1 < W THEN n + 1 ELSE n + 1 - W
    BY <2>1, ClockAssumption, WrappedSum, Zenon
  <2> QED
    BY <2>2, ClockAssumption
<1>2. a = IF n >= t THEN n - t ELSE n - t + W
  BY ClockAssumption, WrappedDifference, Zenon
<1>3. (m - t) % W = IF m >= t THEN m - t ELSE m - t + W
  BY ClockAssumption, WrappedDifference, Zenon
<1>4. (m - t) % W = a + 1
  BY <1>1, <1>2, <1>3, ClockAssumption
<1> QED
  BY <1>1, <1>4, Zenon

(* So a tick keeps the ages of the slots true.                             *)
LEMMA FragTickIInv ==
    ASSUME FragIInv, FragTick
    PROVE  FragIInv'
<1>1. /\ now \in 0 .. W - 1 /\ now' = (now + 1) % W /\ delivered' = delivered
      /\ sincePurge \in 0 .. PURGE_INTERVAL /\ sincePurge < PURGE_INTERVAL
      /\ sincePurge' = sincePurge + 1
  BY Zenon DEF FragIInv, FragTick
<1>2. now' \in 0 .. W - 1
  <2>1. now + 1 \in Int
    BY <1>1
  <2> QED
    BY <1>1, <2>1, ClockAssumption, Division, Zenon
<1>3. sincePurge' \in 0 .. PURGE_INTERVAL
  BY <1>1, FragmentAssumption
<1>4. slot' = [k \in Slots |-> slot'[k]]
  BY Zenon DEF FragTick
<1>5. ASSUME NEW k \in Busy'
      PROVE  IsSlot(slot'[k]) /\ TrueAge(slot'[k], now', sincePurge')
  <2>1. k \in Busy /\ slot'[k] = [slot[k] EXCEPT !.age = Min({slot[k].age + 1, W})]
    BY Zenon DEF Busy, FragTick
  <2>2. IsSlot(slot[k]) /\ TrueAge(slot[k], now, sincePurge)
    BY <2>1, Zenon DEF FragIInv
  <2>3. PICK i, n, g : \E t \in 0 .. W - 1, a \in Nat :
            slot[k] = [id |-> i, total |-> n, got |-> g, start |-> t, age |-> a]
    BY <2>2, Zenon DEF IsSlot
  <2>4. PICK t \in 0 .. W - 1, a \in Nat :
            slot[k] = [id |-> i, total |-> n, got |-> g, start |-> t, age |-> a]
    BY <2>3, Zenon
  <2>5. slot[k].age = a /\ slot[k].start = t
    BY <2>4
  <2>6. (now - t) % W = a /\ a <= FRAG_REASSEMBLY_TIMEOUT + sincePurge
    BY <2>2, <2>5, Zenon DEF TrueAge
  <2>7. a + 1 < W /\ a + 1 <= FRAG_REASSEMBLY_TIMEOUT + sincePurge' /\ a + 1 \in Nat
    BY <1>1, <2>6, FragmentAssumption, ClockAssumption
  <2>8. Min({a + 1, W}) = a + 1
    BY <2>7, MinTwo, ClockAssumption
  <2>9. slot'[k] = [id |-> i, total |-> n, got |-> g, start |-> t, age |-> a + 1]
    BY <2>1, <2>4, <2>5, <2>8
  <2>10. (now' - t) % W = a + 1
    BY <1>1, <2>6, <2>7, AgeFollowsClock, Zenon
  <2>11. IsSlot(slot'[k])
    BY <2>7, <2>9, Zenon DEF IsSlot
  <2>12. slot'[k].age = a + 1 /\ slot'[k].start = t
    BY <2>9
  <2> QED
    BY <2>7, <2>10, <2>11, <2>12, Zenon DEF TrueAge
<1> QED
  BY <1>1, <1>2, <1>3, <1>4, <1>5, Zenon DEF FragIInv, WithinWindow

(* The invariant of reassembly.                                            *)
THEOREM FragAlwaysIInv == FragSpec => []FragIInv
<1>1. FragInit => FragIInv
  BY ClockAssumption, FragmentAssumption DEF FragInit, FragIInv, Busy, WithinWindow
<1>2. FragIInv /\ [FragNext]_fragVars => FragIInv'
  <2> SUFFICES ASSUME FragIInv, [FragNext]_fragVars PROVE FragIInv'
    BY Zenon
  <2>1. ASSUME UNCHANGED <<slot, delivered, now, sincePurge>> PROVE FragIInv'
    BY <2>1, Zenon DEF FragIInv, Busy, WithinWindow
  <2>2. CASE UNCHANGED fragVars
    BY <2>1, <2>2, Zenon DEF fragVars, fragState
  <2>3. ASSUME NEW m \in Message, SendMessage(m) PROVE FragIInv'
    BY <2>1, <2>3, Zenon DEF SendMessage
  <2>4. ASSUME NEW f \in Frag, Lose(f) PROVE FragIInv'
    BY <2>1, <2>4, Zenon DEF Lose, Takes
  <2> QED
    BY <2>2, <2>3, <2>4, ReceiveIInv, PurgeIInv, FragTickIInv, Zenon DEF FragNext
<1> QED
  BY <1>1, <1>2, PTL DEF FragSpec

(* fragment.c: whatever the loss, the order and the repetition of the      *)
(* fragments, and at any point of the clock, a message is put together     *)
(* from fragments that came within the timeout.                            *)
THEOREM WithinWindowTheorem == FragSpec => []WithinWindow
<1>1. FragIInv => WithinWindow
  BY Zenon DEF FragIInv
<1> QED
  BY <1>1, FragAlwaysIInv, PTL

(* reassembly_purge: a slot is never held for longer than the timeout and  *)
(* one purge interval.                                                     *)
THEOREM SlotsComeBackTheorem == FragSpec => []SlotsComeBack
<1>1. FragIInv => SlotsComeBack
  <2> SUFFICES ASSUME FragIInv, NEW k \in Busy
               PROVE  slot[k].age <= FRAG_REASSEMBLY_TIMEOUT + PURGE_INTERVAL
    BY Zenon DEF SlotsComeBack
  <2>1. TrueAge(slot[k], now, sincePurge) /\ sincePurge \in 0 .. PURGE_INTERVAL
    BY Zenon DEF FragIInv
  <2>2. slot[k].age \in Nat
    BY StaleIsOld, Zenon
  <2> QED
    BY <2>1, <2>2, FragmentAssumption DEF TrueAge
<1> QED
  BY <1>1, FragAlwaysIInv, PTL
=============================================================================
