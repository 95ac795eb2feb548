------------------------------- MODULE TxGate -------------------------------
(***************************************************************************)
(* The gate every transmission passes and its airtime budget:              *)
(* components/radio/tx_gate.c and components/airtime/airtime_budget.c,     *)
(* with the beacon schedule of mesh_periodic_maintenance. The gate's mutex *)
(* makes each operation atomic; a frame is its kind and its time on air.   *)
(***************************************************************************)
EXTENDS Integers, Sequences, SequencesExt, FiniteSetsExt

CONSTANTS
    BaseMax,            \* budget of each tier per hour at 100 %
    HOUR,               \* AIRTIME_REFILL_INTERVAL_MS in ticks
    DUTY_CAP,           \* airtime an hour may have, where the region has a limit
    BEACON_LANE_PCT, BEACON_LIVENESS_CEILING, BEACON_JITTER,
    PolicyInterval,     \* what compute_adaptive_beacon_interval asks for
    BeaconCost, Cost,   \* airtime of a beacon, airtimes of other frames
    Kind,               \* kinds of other frames sent
    PeerCounts,         \* numbers of neighbors the node may have
    Watched             \* ticks of airtime remembered: HOUR + 1 are a window

Tier == {"normal", "critical", "broadcast", "receipt"}

ASSUME GateAssumption ==
    /\ HOUR \in Nat \ {0}
    /\ DUTY_CAP \in Nat
    /\ BaseMax \in [Tier -> Nat]
    /\ BeaconCost \in Nat \ {0}
    /\ PeerCounts \subseteq Nat

VARIABLES
    max, tokens, rem,       \* max_ms, tokens_ms, refill_remainder of each tier
    borrow,                 \* the borrow bucket: [max, tokens, rem]
    peers,                  \* profile_peer_count
    idle,                   \* ticks since last_refill_ms
    reserve,                \* a beacon's airtime once its size is registered
    sinceBeacon, interval,  \* the beacon timer
    aired, lent,            \* airtime of each of the last Watched ticks, and the
                            \* part of it that CRITICAL borrowed from NORMAL
    denied                  \* a beacon was refused for lack of budget

budget == <<max, tokens, rem, borrow, peers, idle, reserve>>
gateVars == <<budget, sinceBeacon, interval, aired, lent, denied>>

(* tx_gate_kind_tier                                                       *)
KindTier(kind) ==
    CASE kind \in {"routing", "ack"} -> "critical"
      [] kind \in {"beacon", "data_broadcast", "probe"} -> "broadcast"
      [] kind \in {"receipt", "receipt_forward"} -> "receipt"
      [] OTHER -> "normal"

(* profile_scale_pct                                                       *)
ScalePct(n, tier) ==
    CASE tier = "critical" -> 100
      [] n <= 8 -> [broadcast |-> 400, receipt |-> 500, normal |-> 300][tier]
      [] n \in 9..15 -> [broadcast |-> 250, receipt |-> 250, normal |-> 150][tier]
      [] n > 40 -> [broadcast |-> 60, receipt |-> 50, normal |-> 75][tier]
      [] OTHER -> 100

AtLeastOne(n) == IF n = 0 THEN 1 ELSE n
Total(f) == MapThenSumSet(LAMBDA t : f[t], Tier)

(* Mutant of WindowTarget: the cap on the hourly refill alone.             *)
WindowTargetFull == DUTY_CAP

WindowTarget == DUTY_CAP \div 2

(* The maxima apply_profile derives for n neighbors.                       *)
ProfileMax(n) ==
    LET scaled == [t \in Tier |-> AtLeastOne((BaseMax[t] * ScalePct(n, t)) \div 100)]
        total == Total(scaled)
    IN  IF WindowTarget > 0 /\ total > WindowTarget
        THEN [t \in Tier |-> AtLeastOne((scaled[t] * WindowTarget) \div total)]
        ELSE scaled

BorrowMax(m) == (m["normal"] * 25) \div 100

GateInit ==
    /\ peers = 0
    /\ max = ProfileMax(0)
    /\ tokens = max
    /\ rem = [t \in Tier |-> 0]
    /\ borrow = [max |-> BorrowMax(max), tokens |-> BorrowMax(max), rem |-> 0]
    /\ idle = 0
    /\ reserve = 0
    /\ sinceBeacon = 0 /\ interval = 0         \* the boot beacon is due
    /\ aired = [i \in 1..Watched |-> 0] /\ lent = aired
    /\ denied = FALSE

-----------------------------------------------------------------------------
(* apply_profile: the buckets are full afterwards, and the windows of the  *)
(* properties start anew.                                                  *)
SetMeshSize(n) ==
    /\ n # peers
    /\ peers' = n
    /\ max' = ProfileMax(n)
    /\ tokens' = max'
    /\ rem' = [t \in Tier |-> 0]
    /\ borrow' = [max |-> BorrowMax(max'), tokens |-> BorrowMax(max'), rem |-> 0]
    /\ aired' = [i \in 1..Watched |-> 0] /\ lent' = aired'
    /\ UNCHANGED <<idle, reserve, sinceBeacon, interval, denied>>

(* One bucket after airtime_budget_refill.                                 *)
Filled(have, limit, carry) == Min({limit, have + (carry + limit * idle) \div HOUR})

Refilled == [t \in Tier |-> Filled(tokens[t], max[t], rem[t])]
BorrowRefilled == Filled(borrow.tokens, borrow.max, borrow.rem)

(* Mutant of CanTransmit: the borrow allowance is not asked.               *)
CanTransmitBorrow(tier, airtime) ==
    \/ Refilled[tier] >= airtime
    \/ tier = "critical" /\ Refilled["normal"] >= airtime - Refilled[tier]

(* airtime_budget_can_transmit after a refill.                             *)
CanTransmit(tier, airtime) ==
    \/ Refilled[tier] >= airtime
    \/ LET deficit == airtime - Refilled[tier]
       IN  tier = "critical" /\ Refilled["normal"] >= deficit /\ BorrowRefilled >= deficit

FloorSub(a, b) == IF a >= b THEN a - b ELSE 0

(* The budget after a refill and, where airtime was used, its debit.       *)
Refill(tier, airtime) ==
    LET short == FloorSub(airtime, Refilled[tier])
    IN  /\ tokens' = [t \in Tier |->
              IF t = tier THEN FloorSub(Refilled[t], airtime)
              ELSE IF t = "normal" /\ tier = "critical" THEN FloorSub(Refilled[t], short)
              ELSE Refilled[t]]
        /\ borrow' = [borrow EXCEPT
              !.tokens = IF tier = "critical" THEN FloorSub(BorrowRefilled, short)
                         ELSE BorrowRefilled,
              !.rem = (@ + borrow.max * idle) % HOUR]
        /\ rem' = [t \in Tier |-> (rem[t] + max[t] * idle) % HOUR]
        /\ idle' = 0

(* Mutant of BeaconReserve: nothing is held back.                          *)
BeaconReserveNone(kind) == 0

BeaconReserve(kind) ==
    IF KindTier(kind) = "broadcast" /\ kind # "beacon" THEN reserve ELSE 0

Noted(log, cost) == [i \in DOMAIN log |-> IF i = Watched THEN log[i] + cost ELSE log[i]]
Shifted(log) == [i \in DOMAIN log |-> IF i = Watched THEN 0 ELSE log[i + 1]]

(* tx_gate_transmit: refused for lack of budget, put off on a busy channel *)
(* (receipts only), failed in the radio, or sent and debited. The first    *)
(* three leave the refill.                                                 *)
Transmit(kind, cost) ==
    LET allowed == CanTransmit(KindTier(kind), cost + BeaconReserve(kind))
    IN
    \/ /\ ~allowed
       /\ Refill(KindTier(kind), 0)
       /\ UNCHANGED <<aired, lent>>
    \/ /\ allowed
       /\ Refill(KindTier(kind), 0)
       /\ UNCHANGED <<aired, lent>>
    \/ /\ allowed
       /\ Refill(KindTier(kind), cost)
       /\ aired' = Noted(aired, cost)
       /\ lent' = Noted(lent, IF KindTier(kind) = "critical"
                              THEN FloorSub(cost, Refilled["critical"]) ELSE 0)

(* The main loop, and the traffic, start after the boot beacon.            *)
Send(kind, cost) ==
    /\ reserve > 0
    /\ Transmit(kind, cost)
    /\ UNCHANGED <<max, peers, reserve, sinceBeacon, interval, denied>>

(* tx_gate_min_beacon_interval_ms; r is the reserve.                       *)
MinBeaconInterval(r) ==
    LET lane == max["broadcast"]
        share == (lane * BEACON_LANE_PCT) \div 100
        Ceil(b) == (r * HOUR + b - 1) \div b
        wanted == IF Ceil(share) > BEACON_LIVENESS_CEILING
                  THEN Max({Ceil(lane), BEACON_LIVENESS_CEILING}) ELSE Ceil(share)
    IN  IF r = 0 THEN 0 ELSE IF share = 0 THEN HOUR ELSE Min({wanted, HOUR})

(* beacon_next_interval_ms: the jitter around the base interval.           *)
NextIntervals(base) ==
    LET span == Min({BEACON_JITTER, base \div 2})
    IN  IF span = 0 THEN {base} ELSE (base - span)..(base + span - 1)

(* The beacon at boot and of mesh_periodic_maintenance: the floor is asked for before  *)
(* send_beacon registers the size and transmits, the timer is set whether  *)
(* or not the gate lets the beacon pass.                                   *)
Beacon ==
    /\ sinceBeacon >= interval
    /\ sinceBeacon' = 0
    /\ interval' \in NextIntervals(Max({PolicyInterval, MinBeaconInterval(reserve)}))
    /\ reserve' = BeaconCost
    /\ denied' = ~CanTransmit("broadcast", BeaconCost)
    /\ Transmit("beacon", BeaconCost)
    /\ UNCHANGED <<max, peers>>

(* The maintenance runs at every tick.                                     *)
Tick ==
    /\ sinceBeacon < interval
    /\ idle < HOUR
    /\ idle' = idle + 1
    /\ sinceBeacon' = sinceBeacon + 1
    /\ aired' = Shifted(aired) /\ lent' = Shifted(lent)
    /\ UNCHANGED <<max, tokens, rem, borrow, peers, reserve, interval, denied>>

GateNext ==
    \/ \E n \in PeerCounts : SetMeshSize(n)
    \/ \E kind \in Kind, cost \in Cost : Send(kind, cost)
    \/ Beacon
    \/ Tick

GateSpec == GateInit /\ [][GateNext]_gateVars

-----------------------------------------------------------------------------
(* "ANY 1-hour window stays within the cap, not just the steady state"     *)
(* (apply_profile): a full bucket spent at once and an hour of refill, by  *)
(* whatever kinds of frames and with whatever borrowing. Windows that span *)
(* a change of the profile, which fills the buckets, are not counted.      *)
WindowWithinCap == FoldSeq(+, 0, aired) <= DUTY_CAP

(* "relayed control floods cannot exhaust the local data lane": in any     *)
(* hour control traffic takes from NORMAL at most a full allowance and an  *)
(* hour of its refill (airtime_budget_can_transmit).                       *)
BorrowBounded == FoldSeq(+, 0, lent) <= 2 * borrow.max

(* "Beacons fit the budget by design": a beacon that is due finds its      *)
(* airtime in the lane, whatever broadcast data was sent before            *)
(* (send_beacon).                                                          *)
BeaconFunded == ~denied
=============================================================================
