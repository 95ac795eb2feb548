---------------------------- MODULE ReplayWindow ----------------------------
(***************************************************************************)
(* The per-sender sliding replay window (components/replay_window) and its *)
(* NVS copy (mesh_replay_store_save / _load in main/mesh_persist.c).  The  *)
(* firmware keeps two such tables, s_replay for DATA and LOCATION and      *)
(* s_control_replay for authenticated control frames; this is one of them. *)
(*                                                                         *)
(* The table is the set `tracked` of senders that own a slot, and a slot   *)
(* per tracked sender.  The array index of a slot shows only in which of   *)
(* several equally idle slots is recycled; here any of them may be.  The   *)
(* 64-bit bitmap is the set of the distances below high_water already      *)
(* seen.  A slot is never observed with seen = 0: slot_for is followed at  *)
(* once by the first packet.                                               *)
(***************************************************************************)
EXTENDS Integers, FiniteSets

CONSTANTS
    Sender,        \* source addresses
    MAX_SENDERS,   \* slots of the table (64)
    WINDOW,        \* bits of the bitmap (64)
    EVICT_IDLE,    \* REPLAY_EVICT_MIN_IDLE_MS
    CLOCK_MOD,     \* where the millisecond clock wraps (2^32)
    MaxCounter,    \* bound of the model: counters are 0 .. MaxCounter
    MaxUptime      \* bound of the model: a boot lasts at most this long

ASSUME WindowAssumption == WINDOW \in Nat
ASSUME CounterAssumption == MaxCounter \in Nat
ASSUME ClockAssumption ==
    /\ MAX_SENDERS \in Nat \ {0}
    /\ EVICT_IDLE \in Nat
    /\ CLOCK_MOD \in Nat \ {0}
    /\ MaxUptime \in Nat

VARIABLES
    tracked,      \* the senders that own a slot
    slot,         \* sender -> its slot, meaningful while tracked
    dirty,        \* the table changed since NVS was last brought up to date
    nvs_tracked,  \* the senders in the NVS blob
    nvs_high,     \* their persisted high-water marks
    now,          \* uptime
    known,        \* history: the counters accepted for a sender since it got its
                  \* slot, or persisted for it by the boot that restored it
    flushed       \* history: known as of the write NVS holds

nvsVars == <<nvs_tracked, nvs_high>>
windowVars == <<tracked, slot, dirty, nvs_tracked, nvs_high, now, known, flushed>>

Counter == 0 .. MaxCounter
Slot == [high_water : Counter, window : SUBSET (1 .. WINDOW), last_seen : 0 .. CLOCK_MOD - 1]
Clear == [high_water |-> 0, window |-> {}, last_seen |-> 0]

WindowInit ==
    /\ tracked = {}
    /\ slot = [s \in Sender |-> Clear]
    /\ dirty = FALSE
    /\ nvs_tracked = {}
    /\ nvs_high = [s \in Sender |-> 0]
    /\ now = 0
    /\ known = [s \in Sender |-> {}]
    /\ flushed = [s \in Sender |-> {}]

-----------------------------------------------------------------------------
(* slot_for: find the sender's slot, else a free one, else the slot idle   *)
(* the longest, and that one only when it has been idle for EVICT_IDLE.    *)

Stamp == now % CLOCK_MOD
Idle(s) == (now - slot[s].last_seen) % CLOCK_MOD
Lru == {v \in tracked : \A r \in tracked : Idle(r) <= Idle(v)}

Full == Cardinality(tracked) >= MAX_SENDERS

Evictable(s) == {v \in Lru : s \notin tracked /\ Full /\ Idle(v) >= EVICT_IDLE}

Recycled(s) == IF Evictable(s) = {} THEN {{}} ELSE {{v} : v \in Evictable(s)}

NoSlot(s) == s \notin tracked /\ Full /\ Evictable(s) = {}

(* replay_check_and_add on the sender's slot: the verdict and the slot it  *)
(* leaves behind.                                                          *)
Accepts(s, c) ==
    \/ s \notin tracked
    \/ c > slot[s].high_water
    \/ /\ c < slot[s].high_water
       /\ slot[s].high_water - c <= WINDOW
       /\ slot[s].high_water - c \notin slot[s].window

BelowWindow(s, c) == s \in tracked /\ slot[s].high_water - c > WINDOW

Verdict(s, c) ==
    IF NoSlot(s) THEN "NO_SLOT"
    ELSE IF Accepts(s, c) THEN "ACCEPT"
    ELSE IF BelowWindow(s, c) THEN "BELOW_WINDOW" ELSE "REJECT_DUP"

(* Mutant of Shifted: a jump by the full width drops the previous          *)
(* high-water mark from the bitmap.                                        *)
ShiftedWiped(w, shift) ==
    IF shift >= WINDOW THEN {} ELSE ({d + shift : d \in w} \cup {shift}) \cap (1 .. WINDOW)

Shifted(w, shift) == ({d + shift : d \in w} \cup {shift}) \cap (1 .. WINDOW)

NewMark(s, c) == IF s \notin tracked \/ c > slot[s].high_water THEN c ELSE slot[s].high_water

NewWindow(s, c) ==
    IF s \notin tracked THEN {}
    ELSE IF c > slot[s].high_water
         THEN Shifted(slot[s].window, c - slot[s].high_water)
         ELSE slot[s].window \cup (IF Accepts(s, c) THEN {slot[s].high_water - c} ELSE {})

Updated(s, c) ==
    [high_water |-> NewMark(s, c), window |-> NewWindow(s, c), last_seen |-> Stamp]

(* The bitmap alone does not make the table dirty: it is not persisted.    *)
Dirties(s, c) == s \notin tracked \/ c > slot[s].high_water

(* The whole of replay_check_and_add.                                      *)
CheckAndAdd(s, c) ==
    IF NoSlot(s)
    THEN UNCHANGED windowVars
    ELSE \E out \in Recycled(s) :
            /\ tracked' = (tracked \ out) \cup {s}
            /\ slot' = [slot EXCEPT ![s] = Updated(s, c)]
            /\ dirty' = (dirty \/ Dirties(s, c))
            /\ known' = [r \in Sender |->
                            IF r = s THEN (IF s \in tracked THEN known[s] ELSE {})
                                          \cup (IF Accepts(s, c) THEN {c} ELSE {})
                            ELSE IF r \in out THEN {} ELSE known[r]]
            /\ UNCHANGED <<nvsVars, now, flushed>>

-----------------------------------------------------------------------------
(* mesh_replay_store_save: the mesh task writes the high-water marks at    *)
(* most once per interval, and at once before a deliberate reboot.  A      *)
(* write that reports an error leaves the table dirty, landed or not.      *)

SerializeTo(done) ==
    /\ dirty
    /\ nvs_tracked' = tracked
    /\ nvs_high' = [s \in Sender |-> slot[s].high_water]
    /\ flushed' = known
    /\ dirty' = ~done
    /\ UNCHANGED <<tracked, slot, now, known>>

Save == SerializeTo(TRUE)
SaveUncertain == SerializeTo(FALSE)

(* replay_table_deserialize: the bitmap is not persisted, so all of the    *)
(* band below the mark counts as seen.                                     *)
Restored(s) == [high_water |-> nvs_high[s], window |-> 1 .. WINDOW, last_seen |-> 0]

(* A crash or restart, then replay_table_init and mesh_replay_store_load.  *)
WindowReboot ==
    /\ tracked' = nvs_tracked
    /\ slot' = [s \in Sender |-> IF s \in nvs_tracked THEN Restored(s) ELSE Clear]
    /\ dirty' = FALSE
    /\ now' = 0
    /\ known' = [s \in Sender |-> IF s \in nvs_tracked THEN flushed[s] ELSE {}]
    /\ UNCHANGED <<nvsVars, flushed>>

Tick ==
    /\ now < MaxUptime
    /\ now' = now + 1
    /\ UNCHANGED <<tracked, slot, dirty, nvsVars, known, flushed>>

WindowNext ==
    \/ \E s \in Sender, c \in Counter : CheckAndAdd(s, c)
    \/ Save
    \/ SaveUncertain
    \/ WindowReboot
    \/ Tick

WindowSpec == WindowInit /\ [][WindowNext]_windowVars

-----------------------------------------------------------------------------
WindowTypeOK ==
    /\ tracked \in SUBSET Sender
    /\ slot \in [Sender -> Slot]
    /\ dirty \in BOOLEAN
    /\ nvs_tracked \in SUBSET Sender
    /\ nvs_high \in [Sender -> Counter]
    /\ now \in 0 .. MaxUptime
    /\ known \in [Sender -> SUBSET Counter]
    /\ flushed \in [Sender -> SUBSET Counter]

(* replay_check_and_add never answers REPLAY_ACCEPT for a counter the      *)
(* table already answered for: whatever the order, the jumps and the       *)
(* repetitions of the packets, and over a reboot for every counter the     *)
(* persisted blob accounts for.                                            *)
KnownRefused ==
    \A s \in tracked : \A c \in known[s] : ~Accepts(s, c)

(* The blob alone refuses everything accepted before it was written: no    *)
(* persisted mark lies below a counter accepted before the flush.          *)
BlobCoversFlushed ==
    \A s \in nvs_tracked : \A c \in flushed[s] : c <= nvs_high[s]
=============================================================================
