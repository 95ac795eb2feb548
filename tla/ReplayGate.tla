----------------------------- MODULE ReplayGate -----------------------------
(***************************************************************************)
(* The replay gate of handle_data (main/mesh_task.c) for chat frames: the  *)
(* tier-1 window of ReplayWindow, the sent_at freshness bound and the      *)
(* tier-2 deferred cache (components/replay_window/replay_deferred.c).     *)
(*                                                                         *)
(* A frame is a sender and its nonce counter.  Once sent, copies of it     *)
(* reach the node any number of times, at any time and in any order:       *)
(* relays, retransmissions and mailbox custodians all repeat frames.       *)
(* True time is boot_at + now.  The node's network time is now + offset;   *)
(* before the first sync of a boot the offset is 0.  One unit of time      *)
(* stands for both the millisecond and the second clocks of the code.      *)
(***************************************************************************)
EXTENDS ReplayWindow

CONSTANTS
    DEFERRED_MAX,   \* records of the deferred cache (128)
    TTL,            \* DEFERRED_TTL_S
    SKEW,           \* DEFERRED_SKEW_S
    NET_MOD,        \* where the 32-bit second clock wraps
    Chatter,        \* the senders of chats; the others only share their location
    Ahead,          \* how far a sender's clock may be ahead of true time
    MaxReboots      \* bound of the model

ASSUME GateAssumption ==
    /\ Chatter \subseteq Sender
    /\ TTL \in Nat /\ SKEW \in Nat
    /\ NET_MOD \in Nat \ {0}
    /\ Ahead \subseteq Int
    /\ MaxReboots \in Nat

VARIABLES
    boot_at,    \* true time at which this boot began
    offset,     \* s_timesync's offset
    confident,  \* timesync_is_confident
    next,       \* sender -> its next counter
    sent_at,    \* sender -> counter -> the sent_at inside the ciphertext
    deferred,   \* the used slots of s_deferred
    delivered,  \* history: frame -> times delivered in this boot (at most 2 counted)
    touched,    \* history: the frames handle_data has looked at in this boot
    solid,      \* history: the frames first delivered in this boot on a confident clock,
                \* sent_at not in the future, and recorded in the deferred cache, whose
                \* sender has kept its slot
    restored,   \* history: the senders whose slot this boot restored from NVS
    reboots     \* history: number of reboots

gateVars == <<boot_at, offset, confident, next, sent_at, deferred, delivered,
              touched, solid, restored, reboots>>
vars == <<windowVars, gateVars>>

Frame == Chatter \X Counter
Sent == {f \in Frame : f[2] < next[f[1]]}

GateInit ==
    /\ WindowInit
    /\ boot_at = 0
    /\ offset = 0
    /\ confident = FALSE
    /\ next = [s \in Chatter |-> 0]
    /\ sent_at = [s \in Chatter |-> [c \in Counter |-> 0]]
    /\ deferred = {}
    /\ delivered = [f \in Frame |-> 0]
    /\ touched = {}
    /\ solid = {}
    /\ restored = {}
    /\ reboots = 0

-----------------------------------------------------------------------------
NetNow == now + offset
SentAt(f) == sent_at[f[1]][f[2]]

(* The freshness bound, the same on both tiers.                            *)
Fresh(f) == SentAt(f) <= NetNow + SKEW /\ NetNow - SentAt(f) <= TTL

(* dslot_alloc: a free slot, else the oldest if it is past the TTL.  The   *)
(* value is the set of choices of what is dropped to make room; it is      *)
(* empty when the cache is saturated.                                      *)
Age(r) == (NetNow - r.seen_s) % NET_MOD
Oldest == {r \in deferred : \A q \in deferred : Age(q) <= Age(r)}

(* Mutant of Room: the oldest record is recycled whatever its age.         *)
RoomAnyAge ==
    IF Cardinality(deferred) < DEFERRED_MAX THEN {{}} ELSE {{r} : r \in Oldest}

Room ==
    IF Cardinality(deferred) < DEFERRED_MAX THEN {{}}
    ELSE {{r} : r \in {q \in Oldest : Age(q) > TTL}}

RecordOf(f) == {r \in deferred : r.frame = f}
NewRecord(f) == [frame |-> f, seen_s |-> NetNow % NET_MOD]

(* replay_deferred_mark_seen: refreshes or records; saturated, it does     *)
(* nothing and handle_data delivers all the same.                          *)
MarkSeen(f) ==
    IF RecordOf(f) # {} THEN deferred' = (deferred \ RecordOf(f)) \cup {NewRecord(f)}
    ELSE IF Room = {} THEN UNCHANGED deferred
    ELSE \E out \in Room : deferred' = (deferred \ out) \cup {NewRecord(f)}

DeferredAccepts(f) == confident /\ Fresh(f) /\ RecordOf(f) = {} /\ Room # {}

(* A sender that loses its slot takes what the window knew of it along.    *)
Kept == {f \in solid : f[1] \in tracked'}

Deliver(f) ==
    /\ delivered' = [delivered EXCEPT ![f] = IF @ < 2 THEN @ + 1 ELSE 2]
    /\ solid' = IF delivered[f] = 0 /\ confident /\ SentAt(f) <= NetNow /\ \E r \in deferred' : r.frame = f
                THEN Kept \cup {f} ELSE Kept

Drop == solid' = Kept /\ UNCHANGED <<deferred, delivered>>

(* Mutant of Passes: a chat below the window is dropped like other frames. *)
PassesTierOneOnly(f) == Verdict(f[1], f[2]) = "ACCEPT" /\ (confident => Fresh(f))

(* The gate lets a frame through to delivery.                              *)
Passes(f) ==
    LET v == Verdict(f[1], f[2])
    IN  \/ v = "ACCEPT" /\ (confident => Fresh(f))
        \/ v = "BELOW_WINDOW" /\ DeferredAccepts(f)

(* The replay gate of handle_data: the window advances whatever the gate   *)
(* decides afterwards.                                                     *)
HandleData(f) ==
    /\ f \in Sent
    /\ CheckAndAdd(f[1], f[2])
    /\ IF Passes(f) THEN MarkSeen(f) /\ Deliver(f) ELSE Drop
    /\ touched' = touched \cup {f}
    /\ UNCHANGED <<boot_at, offset, confident, next, sent_at, restored, reboots>>

(* handle_location on (a copy of) a sender's only location share: the same *)
(* window, never the deferred cache.                                       *)
HandleLocation(s) ==
    /\ CheckAndAdd(s, 0)
    /\ solid' = Kept
    /\ UNCHANGED <<boot_at, offset, confident, next, sent_at, deferred, delivered,
                   touched, restored, reboots>>

(* A neighbour sends its next chat, stamped by its own network clock.      *)
Send(s) ==
    /\ next[s] <= MaxCounter
    /\ \E e \in Ahead : sent_at' = [sent_at EXCEPT ![s][next[s]] = boot_at + now + e]
    /\ next' = [next EXCEPT ![s] = @ + 1]
    /\ UNCHANGED <<windowVars, boot_at, offset, confident, deferred, delivered,
                   touched, solid, restored, reboots>>

(* timesync_handle_sync commits the network's offset; timesync_is_confident *)
(* lapses when no sync arrives for a while.                                 *)
Sync ==
    /\ offset' = boot_at
    /\ confident' = TRUE
    /\ UNCHANGED <<windowVars, boot_at, next, sent_at, deferred, delivered,
                   touched, solid, restored, reboots>>

LoseSync ==
    /\ confident
    /\ confident' = FALSE
    /\ UNCHANGED <<windowVars, boot_at, offset, next, sent_at, deferred, delivered,
                   touched, solid, restored, reboots>>

(* A reboot: mesh_task_start restores the window, starts an empty deferred *)
(* cache and an unsynced clock.                                            *)
Reboot ==
    /\ reboots < MaxReboots
    /\ WindowReboot
    /\ boot_at' = boot_at + now
    /\ offset' = 0
    /\ confident' = FALSE
    /\ deferred' = {}
    /\ delivered' = [f \in Frame |-> 0]
    /\ touched' = {}
    /\ solid' = {}
    /\ restored' = nvs_tracked
    /\ reboots' = reboots + 1
    /\ UNCHANGED <<next, sent_at>>

GateNext ==
    \/ \E f \in Frame : HandleData(f)
    \/ \E s \in Chatter : Send(s)
    \/ \E s \in Sender \ Chatter : HandleLocation(s)
    \/ Sync
    \/ LoseSync
    \/ Reboot
    \/ (Save \/ SaveUncertain) /\ UNCHANGED gateVars
    \/ Tick /\ UNCHANGED gateVars

GateSpec == GateInit /\ [][GateNext]_vars

-----------------------------------------------------------------------------
(* A chat recorded on a confident clock is delivered once in a boot while  *)
(* its sender keeps its slot, however often and late its copies come:      *)
(* while the window knows it the window refuses it, below the window its   *)
(* record does, and the record is given up only when the freshness bound   *)
(* refuses it (handle_data).                                               *)
SolidDeliveredOnce == \A f \in solid : delivered[f] = 1

(* A fresh chat the node has not seen in this boot gets through in         *)
(* whatever order it arrives, unless the cache or the table is full or its *)
(* sender's window came back from NVS (handle_data).                       *)
UnseenGetsThrough ==
    \A f \in Sent \ touched :
        confident /\ Fresh(f) /\ f[1] \notin restored /\ ~NoSlot(f[1]) /\ Room # {} => Passes(f)
=============================================================================
