------------------------------ MODULE Timesync ------------------------------
(***************************************************************************)
(* Network time from beacons: components/timesync/timesync.c, called from  *)
(* handle_beacon (main/mesh_beacon.c) for a beacon that carries a time.    *)
(*                                                                         *)
(* `pending` is the pool of proposals, one per source (a repeat rewrites   *)
(* the entry in place).  The array order shows only in which of several    *)
(* equally old entries a full pool gives up; here any of them may go.      *)
(* The network's time is uptime + Lead; a source is off by an element of   *)
(* Skew, and sends its time cut to the width of the clock.  How long a     *)
(* sync keeps its confidence (last_sync_ms) is LoseSync of ReplayGate.     *)
(***************************************************************************)
EXTENDS Integers, FiniteSetsExt

CONSTANTS
    Source,                     \* nodes whose beacons carry a time
    Skew,                       \* errors of their clocks
    Strata,                     \* strata they report
    Lead,                       \* network time at the start
    MAX_TIME_SHIFT,
    MAX_STRATUM,
    CORROBORATION_REQUIRED,
    PENDING_POOL_SIZE,
    PENDING_MAX_AGE,
    TIME_MOD                    \* where the millisecond clock wraps

ASSUME SyncAssumption == Strata \subseteq Nat /\ MAX_STRATUM \in Nat

VARIABLES
    uptime,         \* now_ms
    synchronized,
    stratum,
    net_offset,     \* offset_ms
    pending

syncVars == <<uptime, synchronized, stratum, net_offset, pending>>

SyncInit ==
    /\ uptime = 0
    /\ synchronized = FALSE
    /\ stratum = MAX_STRATUM
    /\ net_offset = 0
    /\ pending = {}

-----------------------------------------------------------------------------
Abs(x) == IF x < 0 THEN -x ELSE x

(* Division of C: towards zero.                                            *)
Quotient(a, b) == IF a < 0 THEN -((-a) \div b) ELSE a \div b

Weight(p) == Max({MAX_STRATUM - p.stratum, 1})

(* compute_weighted_offset and the best stratum it finds.                  *)
WeightedOffset(pool) ==
    Quotient(MapThenSumSet(LAMBDA p : p.offset * Weight(p), pool),
             MapThenSumSet(Weight, pool))

BestStratum(pool) == Min({p.stratum : p \in pool} \cup {MAX_STRATUM})

(* purge_stale                                                             *)
Live(pool) == {p \in pool : (uptime - p.at) % TIME_MOD <= PENDING_MAX_AGE}

(* A proposal is measured against the committed offset or, before there is *)
(* one, against the pool as it is, expired entries included.               *)
TooFar(offset) ==
    IF synchronized THEN Abs(offset - net_offset) > MAX_TIME_SHIFT
    ELSE pending # {} /\ Abs(offset - WeightedOffset(pending)) > MAX_TIME_SHIFT

(* Mutant of Refuses: a source at the node's own stratum will do.          *)
RefusesWorse(k, offset) == (synchronized /\ k > stratum) \/ TooFar(offset)

Refuses(k, offset) == (synchronized /\ k >= stratum) \/ TooFar(offset)

(* What makes room for an entry of s: nothing, or in a full pool the entry *)
(* with the smallest time stamp.                                           *)
Displaced(s, pool) ==
    IF Cardinality(pool) < PENDING_POOL_SIZE \/ \E p \in pool : p.source = s THEN {{}}
    ELSE {{p} : p \in {q \in pool : \A r \in pool : q.at <= r.at}}

Admit(new) ==
    LET pool == Live(pending)
    IN  \E out \in Displaced(new.source, pool) :
            pending' = {p \in pool \ out : p.source # new.source} \cup {new}

Corroborated(pool) ==
    Cardinality({p \in pool : p.established}) >= CORROBORATION_REQUIRED

(* check_commit *)
Commit ==
    IF synchronized \/ Corroborated(pending')
    THEN /\ net_offset' = WeightedOffset(pending')
         /\ stratum' = BestStratum(pending') + 1
         /\ synchronized' = TRUE
    ELSE UNCHANGED <<net_offset, stratum, synchronized>>

-----------------------------------------------------------------------------
NetworkTime(e) == (uptime + Lead + e) % TIME_MOD

Proposal(s, e, k, established) ==
    [source |-> s, offset |-> NetworkTime(e) - uptime, stratum |-> k,
     at |-> uptime, established |-> established]

(* timesync_handle_sync for a beacon of s; a time of 0 is no time.         *)
HandleSync(s, e, k, established) ==
    LET new == Proposal(s, e, k, established)
    IN  /\ NetworkTime(e) # 0
        /\ ~Refuses(k, new.offset)
        /\ Admit(new)
        /\ Commit
        /\ UNCHANGED uptime

SyncTick ==
    /\ uptime' = (uptime + 1) % TIME_MOD
    /\ UNCHANGED <<synchronized, stratum, net_offset, pending>>

SyncNext ==
    \/ \E s \in Source, e \in Skew, k \in Strata, established \in BOOLEAN :
           HandleSync(s, e, k, established)
    \/ SyncTick

SyncSpec == SyncInit /\ [][SyncNext]_syncVars

-----------------------------------------------------------------------------
(* A synchronized node never falls back on sources farther from the root: *)
(* its stratum stays or falls at every sync, also when the entry that set  *)
(* it has expired and the average rests on others (timesync_handle_sync).  *)
StratumStep == synchronized => stratum' <= stratum

StratumNeverRises == [][StratumStep]_syncVars

(* "Pending entries expire after 180s": before the first sync a pool of    *)
(* expired entries refuses nobody.                                         *)
PoolExpires ==
    ~synchronized /\ Live(pending) = {} =>
        \A e \in Skew, k \in Strata : ~Refuses(k, NetworkTime(e) - uptime)
=============================================================================
