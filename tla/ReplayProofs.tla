---------------------------- MODULE ReplayProofs ----------------------------
(***************************************************************************)
(* A frame is taken at most once.  For every number of senders, slots,     *)
(* counters and deferred records, and every width of the window and of the *)
(* clocks: replay_check_and_add accepts no counter twice, across reboots   *)
(* for what the flushed blob accounts for; handle_data delivers a recorded *)
(* chat once in a boot, and lets every unseen fresh chat through.  For     *)
(* every cache size, grace and length of an epoch: a frame of a session    *)
(* opens at most once, and every frame in the window opens.                *)
(***************************************************************************)
EXTENDS ReplayGate, DmRatchet, TLAPS

(* The window of one table.                                                *)

(* KnownRefused needs BlobCoversFlushed for the reboot that restores the   *)
(* blob, and BlobCoversFlushed needs KnownRefused for the flush.           *)
WindowIInv == WindowTypeOK /\ KnownRefused /\ BlobCoversFlushed

(* A clock reading taken modulo the wrap is a valid stamp.                 *)
LEMMA StampType == ASSUME now \in Nat PROVE Stamp \in 0 .. CLOCK_MOD - 1
  BY ClockAssumption DEF Stamp

(* Moving the bitmap along with the mark keeps every distance it held that *)
(* still fits, and adds the distance of the previous mark.                 *)
LEMMA ShiftKeeps ==
    ASSUME NEW w \in SUBSET (1 .. WINDOW), NEW shift \in Nat \ {0}
    PROVE  /\ Shifted(w, shift) \in SUBSET (1 .. WINDOW)
           /\ \A d \in w : d + shift <= WINDOW => d + shift \in Shifted(w, shift)
           /\ shift <= WINDOW => shift \in Shifted(w, shift)
  BY WindowAssumption DEF Shifted

(* The slot replay_check_and_add leaves behind is well formed.             *)
LEMMA UpdatedType ==
    ASSUME WindowTypeOK, NEW s \in Sender, NEW c \in Counter
    PROVE  Updated(s, c) \in Slot
<1>1. Stamp \in 0 .. CLOCK_MOD - 1
  BY StampType, ClockAssumption DEF WindowTypeOK
<1>2. slot[s] \in Slot
  BY Zenon DEF WindowTypeOK
<1>3. NewMark(s, c) \in Counter
  BY <1>2, Zenon DEF NewMark, Slot
<1>4. NewWindow(s, c) \in SUBSET (1 .. WINDOW)
  <2>1. ASSUME c > slot[s].high_water
        PROVE  Shifted(slot[s].window, c - slot[s].high_water) \in SUBSET (1 .. WINDOW)
    <3>1. c - slot[s].high_water \in Nat \ {0}
      BY <1>2, <2>1, CounterAssumption DEF Slot, Counter
    <3> QED
      BY <1>2, <3>1, ShiftKeeps, Zenon DEF Slot
  <2>2. ASSUME s \in tracked, ~(c > slot[s].high_water), Accepts(s, c)
        PROVE  slot[s].high_water - c \in 1 .. WINDOW
    BY <1>2, <2>2, CounterAssumption, WindowAssumption DEF Accepts, Slot, Counter
  <2>3. slot[s].window \in SUBSET (1 .. WINDOW)
    BY <1>2, Zenon DEF Slot
  <2> QED
    BY <2>1, <2>2, <2>3, Zenon DEF NewWindow
<1> QED
  BY <1>1, <1>3, <1>4, Zenon DEF Updated, Slot

(* The core of the argument: after the packet the slot refuses every       *)
(* counter it refused before, and the packet's own if it was accepted.     *)
LEMMA UpdatedRefuses ==
    ASSUME WindowTypeOK, NEW s \in tracked, NEW c \in Counter, NEW k \in Counter,
           k = c \/ ~Accepts(s, k)
    PROVE  LET u == Updated(s, c)
           IN  /\ k <= u.high_water
               /\ k = u.high_water \/ u.high_water - k > WINDOW \/ u.high_water - k \in u.window
<1> DEFINE h == slot[s].high_water
           w == slot[s].window
<1>1. h \in Nat /\ w \in SUBSET (1 .. WINDOW) /\ c \in Nat /\ k \in Nat /\ WINDOW \in Nat
  BY CounterAssumption, WindowAssumption DEF WindowTypeOK, Slot, Counter
<1>2. Updated(s, c).high_water = (IF c > h THEN c ELSE h)
  BY Zenon DEF Updated, NewMark
<1>3. CASE c > h
  <2>1. Updated(s, c).window = Shifted(w, c - h)
    BY <1>3, Zenon DEF Updated, NewWindow
  <2>2. c - h \in Nat \ {0}
    BY <1>1, <1>3
  <2>3. /\ \A d \in w : d + (c - h) <= WINDOW => d + (c - h) \in Shifted(w, c - h)
        /\ c - h <= WINDOW => c - h \in Shifted(w, c - h)
    BY <1>1, <2>2, ShiftKeeps, Zenon
  <2>4. k = c \/ k = h \/ (k < h /\ (h - k > WINDOW \/ h - k \in w))
    BY <1>1 DEF Accepts
  <2>5. CASE k < h /\ h - k \in w
    <3>1. h - k + (c - h) = c - k
      BY <1>1
    <3> QED
      BY <1>1, <1>2, <1>3, <2>1, <2>3, <2>5, <3>1
  <2> QED
    BY <1>1, <1>2, <1>3, <2>1, <2>3, <2>4, <2>5
<1>4. CASE ~(c > h)
  <2>1. Updated(s, c).window = w \cup (IF Accepts(s, c) THEN {h - c} ELSE {})
    BY <1>4, Zenon DEF Updated, NewWindow
  <2>2. Accepts(s, c) \/ c = h \/ h - c > WINDOW \/ h - c \in w
    BY <1>1, <1>4 DEF Accepts
  <2>3. k = c \/ k = h \/ (k < h /\ (h - k > WINDOW \/ h - k \in w))
    BY <1>1 DEF Accepts
  <2>4. h - c \in Updated(s, c).window \/ c = h \/ h - c > WINDOW
    BY <2>1, <2>2, Zenon
  <2> QED
    BY <1>1, <1>2, <1>4, <2>1, <2>3, <2>4
<1> QED
  BY <1>3, <1>4, Zenon

(* A slot that refuses: the definition of Accepts, negated.                *)
LEMMA RefusesMeaning ==
    ASSUME WindowTypeOK, NEW s \in tracked, NEW k \in Counter
    PROVE  ~Accepts(s, k) <=>
             /\ k <= slot[s].high_water
             /\ \/ k = slot[s].high_water
                \/ slot[s].high_water - k > WINDOW
                \/ slot[s].high_water - k \in slot[s].window
<1>1. slot[s].high_water \in Nat /\ k \in Nat /\ WINDOW \in Nat
  BY CounterAssumption, WindowAssumption DEF WindowTypeOK, Slot, Counter
<1> QED
  BY <1>1 DEF Accepts

(* The empty table of replay_init satisfies the inductive invariant.       *)
LEMMA WindowInitIInv == WindowInit => WindowIInv
<1> SUFFICES ASSUME WindowInit PROVE WindowIInv
  BY Zenon
<1>1. Clear \in Slot
  BY CounterAssumption, ClockAssumption DEF Clear, Slot, Counter
<1>2. dirty \in BOOLEAN
  BY Zenon DEF WindowInit
<1>3. WindowTypeOK
  BY <1>1, <1>2, CounterAssumption, ClockAssumption DEF WindowInit, WindowTypeOK, Counter
<1>4. KnownRefused /\ BlobCoversFlushed
  BY Zenon DEF WindowInit, KnownRefused, BlobCoversFlushed
<1> QED
  BY <1>3, <1>4, Zenon DEF WindowIInv

(* replay_check_and_add keeps the invariant: the slot it updates, recycles *)
(* or takes refuses what it refused before and what it now accepts.        *)
LEMMA CheckAndAddIInv ==
    ASSUME WindowIInv, NEW s \in Sender, NEW c \in Counter, CheckAndAdd(s, c)
    PROVE  WindowIInv'
<1> USE DEF WindowIInv
<1>1. CASE NoSlot(s)
  <2>1. UNCHANGED windowVars
    BY <1>1, Zenon DEF CheckAndAdd
  <2> QED
    BY <2>1, Zenon DEF windowVars, WindowTypeOK, KnownRefused, BlobCoversFlushed, Accepts
<1>2. CASE ~NoSlot(s)
  <2>1. PICK out \in Recycled(s) :
            /\ tracked' = (tracked \ out) \cup {s}
            /\ slot' = [slot EXCEPT ![s] = Updated(s, c)]
            /\ dirty' = (dirty \/ Dirties(s, c))
            /\ known' = [r \in Sender |->
                            IF r = s THEN (IF s \in tracked THEN known[s] ELSE {})
                                          \cup (IF Accepts(s, c) THEN {c} ELSE {})
                            ELSE IF r \in out THEN {} ELSE known[r]]
            /\ UNCHANGED <<nvsVars, now, flushed>>
    BY <1>2, Zenon DEF CheckAndAdd
  <2>2. dirty' \in BOOLEAN
    BY <2>1, Zenon
  <2>3. WindowTypeOK'
    <3>1. Updated(s, c) \in Slot
      BY UpdatedType, Zenon
    <3>2. tracked' \in SUBSET Sender
      BY <2>1, Zenon DEF WindowTypeOK
    <3>3. slot' \in [Sender -> Slot]
      BY <2>1, <3>1, Zenon DEF WindowTypeOK
    <3>4. known' \in [Sender -> SUBSET Counter]
      BY <2>1, Zenon DEF WindowTypeOK
    <3> QED
      BY <2>1, <2>2, <3>2, <3>3, <3>4, Zenon DEF WindowTypeOK, nvsVars
  <2>4. BlobCoversFlushed'
    BY <2>1, Zenon DEF BlobCoversFlushed, nvsVars
  <2>5. ASSUME NEW r \in tracked', NEW k \in known'[r]
        PROVE  ~Accepts(r, k)'
    <3>1. r \in Sender /\ k \in Counter /\ slot \in [Sender -> Slot]
      BY <2>1, <2>3, Zenon DEF WindowTypeOK
    <3>2. CASE r # s
      <4>1. r \in tracked /\ k \in known[r] /\ slot'[r] = slot[r]
        BY <2>1, <3>1, <3>2, Zenon
      <4>2. ~Accepts(r, k)
        BY <4>1, Zenon DEF KnownRefused
      <4> QED
        BY <4>1, <4>2, Zenon DEF Accepts
    <3>3. CASE r = s /\ s \in tracked
      <4>1. slot'[s] = Updated(s, c)
        BY <2>1, <3>1, Zenon
      <4>2. k = c \/ k \in known[s]
        BY <2>1, <3>1, <3>3, Zenon
      <4>3. k = c \/ ~Accepts(s, k)
        BY <3>3, <4>2, Zenon DEF KnownRefused
      <4>4. /\ k <= slot'[s].high_water
            /\ \/ k = slot'[s].high_water
               \/ slot'[s].high_water - k > WINDOW
               \/ slot'[s].high_water - k \in slot'[s].window
        BY <3>1, <3>3, <4>1, <4>3, UpdatedRefuses, Zenon
      <4>5. slot'[s].high_water \in Nat /\ k \in Nat /\ WINDOW \in Nat /\ s \in tracked'
        BY <2>1, <2>3, <3>1, CounterAssumption, WindowAssumption DEF WindowTypeOK, Slot, Counter
      <4> QED
        BY <3>3, <4>4, <4>5 DEF Accepts
    <3>4. CASE r = s /\ s \notin tracked
      <4>1. k = c
        BY <2>1, <3>1, <3>4, Zenon
      <4>2. slot'[s].high_water = c
        BY <2>1, <3>1, <3>4, Zenon DEF Updated, NewMark
      <4>3. c \in Nat /\ s \in tracked'
        BY <2>1, CounterAssumption DEF Counter
      <4> QED
        BY <3>4, <4>1, <4>2, <4>3 DEF Accepts
    <3> QED
      BY <3>2, <3>3, <3>4, Zenon
  <2> QED
    BY <2>3, <2>4, <2>5, Zenon DEF KnownRefused
<1> QED
  BY <1>1, <1>2, Zenon

(* replay_serialize and the flush of the blob, done or failed, keep the    *)
(* invariant: the blob's marks lie above all that the table has accepted.  *)
LEMMA SerializeIInv ==
    ASSUME WindowIInv, NEW done \in BOOLEAN, SerializeTo(done)
    PROVE  WindowIInv'
<1> USE DEF WindowIInv
<1>1. dirty' \in BOOLEAN
  BY Zenon DEF SerializeTo
<1>2. nvs_high' \in [Sender -> Counter]
  BY Zenon DEF SerializeTo, WindowTypeOK, Slot
<1>3. WindowTypeOK'
  BY <1>1, <1>2, Zenon DEF SerializeTo, WindowTypeOK
<1>4. KnownRefused'
  BY Zenon DEF SerializeTo, KnownRefused, Accepts
<1>5. ASSUME NEW s \in nvs_tracked', NEW k \in flushed'[s]
      PROVE  k <= nvs_high'[s]
  <2>1. s \in tracked /\ s \in Sender /\ k \in known[s] /\ k \in Counter
    BY Zenon DEF SerializeTo, WindowTypeOK
  <2>2. k <= slot[s].high_water
    BY <2>1, RefusesMeaning, Zenon DEF KnownRefused
  <2> QED
    BY <2>1, <2>2, Zenon DEF SerializeTo
<1> QED
  BY <1>3, <1>4, <1>5, Zenon DEF BlobCoversFlushed

(* A restart keeps it: the slots restored from the blob refuse all below   *)
(* their marks.                                                            *)
LEMMA RebootIInv ==
    ASSUME WindowIInv, WindowReboot
    PROVE  WindowIInv'
<1> USE DEF WindowIInv
<1>1. dirty' \in BOOLEAN
  BY Zenon DEF WindowReboot
<1>2. \A s \in Sender : Restored(s) \in Slot
  BY ClockAssumption DEF WindowTypeOK, Restored, Slot
<1>3. Clear \in Slot
  BY CounterAssumption, ClockAssumption DEF Clear, Slot, Counter
<1>4. slot' \in [Sender -> Slot]
  BY <1>2, <1>3, Zenon DEF WindowReboot
<1>5. known' \in [Sender -> SUBSET Counter]
  BY Zenon DEF WindowReboot, WindowTypeOK
<1>6. WindowTypeOK'
  BY <1>1, <1>4, <1>5, ClockAssumption DEF WindowReboot, WindowTypeOK, nvsVars
<1>7. BlobCoversFlushed'
  BY Zenon DEF WindowReboot, BlobCoversFlushed, nvsVars
<1>8. ASSUME NEW s \in tracked', NEW k \in known'[s]
      PROVE  ~Accepts(s, k)'
  <2>1. s \in nvs_tracked /\ s \in Sender /\ k \in flushed[s] /\ k \in Counter
    BY Zenon DEF WindowReboot, WindowTypeOK
  <2>2. k <= nvs_high[s]
    BY <2>1, Zenon DEF BlobCoversFlushed
  <2>3. slot'[s].high_water = nvs_high[s] /\ slot'[s].window = 1 .. WINDOW
    BY <2>1, Zenon DEF WindowReboot, Restored
  <2>4. nvs_high[s] \in Nat /\ k \in Nat /\ WINDOW \in Nat
    BY <2>1, CounterAssumption, WindowAssumption DEF WindowTypeOK, Counter
  <2> QED
    BY <2>2, <2>3, <2>4 DEF Accepts
<1> QED
  BY <1>6, <1>7, <1>8, Zenon DEF KnownRefused

(* Every step keeps the inductive invariant.                               *)
LEMMA WindowNextIInv == WindowIInv /\ [WindowNext]_windowVars => WindowIInv'
<1> SUFFICES ASSUME WindowIInv, [WindowNext]_windowVars PROVE WindowIInv'
  BY Zenon
<1>1. CASE \E s \in Sender, c \in Counter : CheckAndAdd(s, c)
  BY <1>1, CheckAndAddIInv, Zenon
<1>2. CASE Save
  BY <1>2, SerializeIInv, Zenon DEF Save
<1>3. CASE SaveUncertain
  BY <1>3, SerializeIInv, Zenon DEF SaveUncertain
<1>4. CASE WindowReboot
  BY <1>4, RebootIInv, Zenon
<1>5. CASE Tick
  <2>1. dirty' \in BOOLEAN
    BY <1>5, Zenon DEF Tick, WindowIInv, WindowTypeOK
  <2> QED
    BY <1>5, <2>1, ClockAssumption
    DEF Tick, WindowIInv, WindowTypeOK, KnownRefused, BlobCoversFlushed, Accepts, nvsVars
<1>6. CASE UNCHANGED windowVars
  BY <1>6, Zenon DEF windowVars, WindowIInv, WindowTypeOK, KnownRefused, BlobCoversFlushed, Accepts
<1> QED
  BY <1>1, <1>2, <1>3, <1>4, <1>5, <1>6, Zenon DEF WindowNext

(* The inductive invariant holds throughout every behaviour of the table.  *)
THEOREM WindowAlwaysIInv == WindowSpec => []WindowIInv
  BY WindowInitIInv, WindowNextIInv, PTL DEF WindowSpec

(* No counter is accepted twice: in every reachable state each counter the *)
(* table has already answered ACCEPT for would be refused.                 *)
THEOREM KnownRefusedTheorem == WindowSpec => []KnownRefused
<1>1. WindowIInv => KnownRefused
  BY Zenon DEF WindowIInv
<1> QED
  BY <1>1, WindowAlwaysIInv, PTL

(* The blob in NVS alone covers every counter accepted before the flush    *)
(* that wrote it.                                                          *)
THEOREM BlobCoversFlushedTheorem == WindowSpec => []BlobCoversFlushed
<1>1. WindowIInv => BlobCoversFlushed
  BY Zenon DEF WindowIInv
<1> QED
  BY <1>1, WindowAlwaysIInv, PTL

-----------------------------------------------------------------------------
(* The gate of handle_data.                                                *)

GateTypeOK ==
    /\ boot_at \in Nat
    /\ offset \in Nat
    /\ confident \in BOOLEAN
    /\ next \in [Chatter -> Nat]
    /\ sent_at \in [Chatter -> [Counter -> Int]]
    /\ delivered \in [Frame -> Nat]
    /\ solid \subseteq Sent
    /\ touched \subseteq Frame

(* A clock that was ever confident in this boot shows true time, and goes  *)
(* on showing it after the confidence has lapsed.                          *)
TrueTime == (confident \/ solid # {}) => offset = boot_at

(* The record r was made when the node's clock showed a time from the      *)
(* sending of f up to now.                                                 *)
MadeAfterSending(r, f) ==
    \E t \in Nat : SentAt(f) <= t /\ t <= NetNow /\ r.seen_s = t % NET_MOD

(* Why a solid chat is not delivered again: the window refuses it while    *)
(* its sender keeps its slot, and either its record is there, no older     *)
(* than the chat, or the chat is past the freshness bound.                 *)
Guarded(f) ==
    /\ f[1] \in tracked
    /\ ~Accepts(f[1], f[2])
    /\ delivered[f] = 1
    /\ \A r \in RecordOf(f) : MadeAfterSending(r, f)
    /\ RecordOf(f) = {} => NetNow - SentAt(f) > TTL

(* The slot of s has counter c as its mark or in its bitmap.               *)
Marked(s, c) == c = slot[s].high_water \/ slot[s].high_water - c \in slot[s].window

(* What a slot of this boot or the deferred cache has of a chat, it has    *)
(* from handle_data.                                                       *)
MarksAreTouched ==
    /\ \A r \in deferred : r.frame \in touched
    /\ \A s \in (Chatter \cap tracked) \ restored : \A c \in Counter :
          Marked(s, c) => <<s, c>> \in touched

GateIInv ==
    /\ WindowIInv
    /\ GateTypeOK
    /\ TrueTime
    /\ \A f \in solid : Guarded(f)
    /\ MarksAreTouched

-----------------------------------------------------------------------------
(* Division with remainder, which the wrapped clock rests on.              *)
LEMMA Remainder ==
    ASSUME NEW a \in Int, NEW b \in Nat \ {0}
    PROVE  /\ a \div b \in Int
           /\ a % b \in 0 .. b - 1
           /\ a = b * (a \div b) + (a % b)
  BY SMTT(30)

(* The remainder is the least of the numbers a multiple of the modulus     *)
(* below.                                                                  *)
LEMMA LeastRemainder ==
    ASSUME NEW M \in Nat \ {0}, NEW p \in Int, NEW q \in Int, NEW r \in 0 .. M - 1,
           M * p + r >= M * q
    PROVE  r <= M * p + r - M * q
<1>1. CASE p >= q
  <2>1. p - q \in Nat
    BY <1>1
  <2>2. M * (p - q) >= 0
    BY <2>1
  <2>3. M * (p - q) = M * p - M * q
    OBVIOUS
  <2> QED
    BY <2>2, <2>3
<1>2. CASE p < q
  <2>1. q - p - 1 \in Nat
    BY <1>2
  <2>2. M * (q - p - 1) >= 0
    BY <2>1
  <2>3. M * (q - p - 1) = M * q - M * p - M
    OBVIOUS
  <2> QED
    BY <2>2, <2>3
<1> QED
  BY <1>1, <1>2

(* The age of a record computed on the wrapped clock is never more than    *)
(* the time that has really passed.                                        *)
LEMMA WrappedAge ==
    ASSUME NEW n \in Nat, NEW t \in Nat, t <= n
    PROVE  (n - (t % NET_MOD)) % NET_MOD <= n - t
<1>1. NET_MOD \in Nat \ {0}
  BY GateAssumption, Zenon
<1>2. PICK q \in Int, a \in 0 .. NET_MOD - 1 : t = NET_MOD * q + a /\ a = t % NET_MOD
  <2>1. t \in Int
    OBVIOUS
  <2>2. t \div NET_MOD \in Int /\ t % NET_MOD \in 0 .. NET_MOD - 1
    BY <1>1, <2>1, Remainder, Zenon
  <2>3. t = NET_MOD * (t \div NET_MOD) + (t % NET_MOD)
    BY <1>1, <2>1, Remainder, Zenon
  <2> QED
    BY <2>2, <2>3, Zenon
<1>3. PICK p \in Int, r \in 0 .. NET_MOD - 1 : n - a = NET_MOD * p + r /\ r = (n - a) % NET_MOD
  <2>1. n - a \in Int
    BY <1>1
  <2>2. (n - a) \div NET_MOD \in Int /\ (n - a) % NET_MOD \in 0 .. NET_MOD - 1
    BY <1>1, <2>1, Remainder, Zenon
  <2>3. n - a = NET_MOD * ((n - a) \div NET_MOD) + ((n - a) % NET_MOD)
    BY <1>1, <2>1, Remainder, Zenon
  <2> QED
    BY <2>2, <2>3, Zenon
<1>4. NET_MOD * p + r >= NET_MOD * q
  <2>1. NET_MOD * p \in Int /\ NET_MOD * q \in Int
    BY <1>1
  <2>2. t = NET_MOD * q + a /\ n - a = NET_MOD * p + r
    BY <1>2, <1>3, Zenon
  <2> HIDE <1>2, <1>3
  <2> QED
    BY <1>1, <2>1, <2>2
<1>5. r <= NET_MOD * p + r - NET_MOD * q
  BY <1>1, <1>4, LeastRemainder, Zenon
<1> QED
  BY <1>1, <1>2, <1>3, <1>5

-----------------------------------------------------------------------------
(* replay_check_and_add leaves the slots of the other senders alone.       *)
LEMMA OtherSlots ==
    ASSUME WindowIInv, NEW s \in Sender, NEW c \in Counter, CheckAndAdd(s, c)
    PROVE  /\ now' = now
           /\ \A r \in tracked' : r # s => r \in tracked /\ slot'[r] = slot[r]
<1>1. CASE NoSlot(s)
  BY <1>1, Zenon DEF CheckAndAdd, windowVars
<1>2. CASE ~NoSlot(s)
  BY <1>2, Zenon DEF CheckAndAdd, WindowIInv, WindowTypeOK
<1> QED
  BY <1>1, <1>2, Zenon

(* What a slot refuses it goes on refusing while its sender keeps it.      *)
LEMMA StillRefused ==
    ASSUME WindowIInv, NEW s \in Sender, NEW c \in Counter, CheckAndAdd(s, c),
           NEW r \in tracked \cap tracked', NEW k \in Counter, ~Accepts(r, k)
    PROVE  ~Accepts(r, k)'
<1>1. CASE NoSlot(s)
  BY <1>1, Zenon DEF CheckAndAdd, windowVars, Accepts
<1>2. CASE ~NoSlot(s) /\ r # s
  <2>1. slot'[r] = slot[r]
    BY <1>2, OtherSlots, Zenon
  <2> QED
    BY <2>1, Zenon DEF Accepts
<1>3. CASE ~NoSlot(s) /\ r = s
  <2>1. slot' = [slot EXCEPT ![s] = Updated(s, c)]
    BY <1>3, Zenon DEF CheckAndAdd
  <2>2. slot'[s] = Updated(s, c) /\ Updated(s, c) \in Slot
    BY <2>1, UpdatedType, Zenon DEF WindowIInv, WindowTypeOK
  <2>3. /\ k <= slot'[s].high_water
        /\ \/ k = slot'[s].high_water
           \/ slot'[s].high_water - k > WINDOW
           \/ slot'[s].high_water - k \in slot'[s].window
    BY <1>3, <2>2, UpdatedRefuses, Zenon DEF WindowIInv
  <2>4. slot'[s].high_water \in Nat /\ k \in Nat /\ WINDOW \in Nat
    BY <2>2, CounterAssumption, WindowAssumption DEF Slot, Counter
  <2> QED
    BY <1>3, <2>3, <2>4 DEF Accepts
<1> QED
  BY <1>1, <1>2, <1>3, Zenon

(* The packet's own counter is refused from now on.                        *)
LEMMA NowRefused ==
    ASSUME WindowIInv, NEW s \in Sender, NEW c \in Counter, CheckAndAdd(s, c), ~NoSlot(s)
    PROVE  s \in tracked' /\ ~Accepts(s, c)'
<1>1. s \in tracked' /\ slot' = [slot EXCEPT ![s] = Updated(s, c)]
  BY Zenon DEF CheckAndAdd
<1>2. slot'[s] = Updated(s, c) /\ Updated(s, c) \in Slot
  BY <1>1, UpdatedType, Zenon DEF WindowIInv, WindowTypeOK
<1>3. slot'[s].high_water \in Nat /\ c \in Nat /\ WINDOW \in Nat
  BY <1>2, CounterAssumption, WindowAssumption DEF Slot, Counter
<1>4. CASE s \in tracked
  <2>1. /\ c <= slot'[s].high_water
        /\ \/ c = slot'[s].high_water
           \/ slot'[s].high_water - c > WINDOW
           \/ slot'[s].high_water - c \in slot'[s].window
    BY <1>2, <1>4, UpdatedRefuses, Zenon DEF WindowIInv
  <2> QED
    BY <1>1, <1>3, <2>1 DEF Accepts
<1>5. CASE s \notin tracked
  <2>1. slot'[s].high_water = c
    BY <1>2, <1>5 DEF Updated, NewMark
  <2> QED
    BY <1>1, <1>3, <2>1 DEF Accepts
<1> QED
  BY <1>4, <1>5, Zenon

(* A slot comes to hold a counter only by a packet with it.                *)
LEMMA MarksComeFromPackets ==
    ASSUME WindowIInv, NEW s \in Sender, NEW c \in Counter, CheckAndAdd(s, c),
           NEW k \in Counter, s \in tracked', Marked(s, k)'
    PROVE  k = c \/ (s \in tracked /\ Marked(s, k))
<1>1. CASE NoSlot(s)
  BY <1>1, Zenon DEF CheckAndAdd, windowVars, Marked
<1>2. CASE ~NoSlot(s)
  <2>1. slot'[s] = Updated(s, c) /\ slot[s] \in Slot
    BY <1>2, Zenon DEF CheckAndAdd, WindowIInv, WindowTypeOK
  <2>2. slot[s].high_water \in Nat /\ slot[s].window \subseteq Int /\ c \in Nat /\ k \in Nat
    BY <2>1, WindowAssumption, CounterAssumption, SMTT(30) DEF Slot, Counter
  <2>3. CASE s \notin tracked
    BY <2>1, <2>2, <2>3 DEF Updated, NewMark, NewWindow, Marked
  <2>4. CASE s \in tracked /\ c > slot[s].high_water
    <3>1. slot'[s].high_water = c
      <4>1. NewMark(s, c) = c
        BY <2>4, Zenon DEF NewMark
      <4> QED
        BY <2>1, <4>1 DEF Updated
    <3>2. slot'[s].window \subseteq {d + (c - slot[s].high_water) : d \in slot[s].window}
                                   \cup {c - slot[s].high_water}
      BY <2>1, <2>4 DEF Updated, NewWindow, Shifted
    <3> QED
      BY <2>2, <2>4, <3>1, <3>2 DEF Marked
  <2>5. CASE s \in tracked /\ ~(c > slot[s].high_water)
    <3>1. slot'[s].high_water = slot[s].high_water
      <4>1. NewMark(s, c) = slot[s].high_water
        BY <2>5, Zenon DEF NewMark
      <4> QED
        BY <2>1, <4>1 DEF Updated
    <3>2. slot'[s].window \subseteq slot[s].window \cup {slot[s].high_water - c}
      BY <2>1, <2>5 DEF Updated, NewWindow
    <3> QED
      BY <2>2, <2>5, <3>1, <3>2 DEF Marked
  <2> QED
    BY <2>3, <2>4, <2>5, Zenon
<1> QED
  BY <1>1, <1>2, Zenon

(* replay_deferred_mark_seen records the chat, and gives up the record of  *)
(* another only when that is past the TTL.                                 *)
LEMMA MarkSeenEffect ==
    ASSUME NEW f, MarkSeen(f)
    PROVE  /\ \A r \in deferred' : r \in deferred \/ r = NewRecord(f)
           /\ \A r \in deferred' : r.frame = f => r = NewRecord(f)
           /\ \A r \in deferred \ deferred' : r.frame = f \/ Age(r) > TTL
<1>1. CASE RecordOf(f) # {}
  BY <1>1, Zenon DEF MarkSeen, RecordOf
<1>2. CASE RecordOf(f) = {} /\ Room = {}
  BY <1>2, Zenon DEF MarkSeen, RecordOf
<1>3. CASE RecordOf(f) = {} /\ Room # {}
  <2>1. PICK out \in Room : deferred' = (deferred \ out) \cup {NewRecord(f)}
    BY <1>3, Zenon DEF MarkSeen
  <2>2. \A r \in out : Age(r) > TTL
    BY <2>1, Zenon DEF Room
  <2> QED
    BY <1>3, <2>1, <2>2, Zenon DEF RecordOf
<1> QED
  BY <1>1, <1>2, <1>3, Zenon

-----------------------------------------------------------------------------
(* The parts of a chat that was sent.                                      *)
LEMMA FrameParts ==
    ASSUME GateTypeOK, NEW f \in Frame
    PROVE  /\ f[1] \in Chatter /\ f[1] \in Sender /\ f[2] \in Counter
           /\ f = <<f[1], f[2]>>
           /\ SentAt(f) \in Int
  BY GateAssumption DEF Frame, GateTypeOK, SentAt

(* The clocks of the node show whole, non-negative times.                  *)
LEMMA NetNowType == ASSUME GateIInv PROVE NetNow \in Nat /\ TTL \in Nat /\ now \in Nat
  BY GateAssumption, ClockAssumption DEF GateIInv, GateTypeOK, WindowIInv, WindowTypeOK, NetNow

(* The gate does not let a solid chat through.                             *)
LEMMA SolidBlocked ==
    ASSUME GateIInv, NEW f \in solid
    PROVE  ~Passes(f)
<1>1. Guarded(f) /\ f \in Frame
  BY Zenon DEF GateIInv, GateTypeOK, Sent
<1>2. Verdict(f[1], f[2]) # "ACCEPT"
  BY <1>1, Zenon DEF Guarded, Verdict
<1>3. ~DeferredAccepts(f)
  <2>1. NetNow \in Int /\ TTL \in Int /\ SentAt(f) \in Int
    BY <1>1, NetNowType, FrameParts DEF GateIInv
  <2> QED
    BY <1>1, <2>1 DEF Guarded, DeferredAccepts, Fresh
<1> QED
  BY <1>2, <1>3, Zenon DEF Passes

(* A record given up by replay_deferred_mark_seen belongs to a chat past   *)
(* the freshness bound.                                                    *)
LEMMA OldRecordOldChat ==
    ASSUME GateIInv, NEW f \in solid, NEW r \in RecordOf(f), Age(r) > TTL
    PROVE  NetNow - SentAt(f) > TTL
<1>1. PICK t \in Nat : SentAt(f) <= t /\ t <= NetNow /\ r.seen_s = t % NET_MOD
  BY Zenon DEF GateIInv, Guarded, MadeAfterSending
<1>2. NetNow \in Nat /\ TTL \in Nat /\ SentAt(f) \in Int
  BY NetNowType, FrameParts, Zenon DEF GateIInv, GateTypeOK, Sent
<1>3. (NetNow - (t % NET_MOD)) % NET_MOD <= NetNow - t
  BY <1>1, <1>2, WrappedAge, Zenon
<1>4. Age(r) = (NetNow - (t % NET_MOD)) % NET_MOD
  BY <1>1, Zenon DEF Age
<1>5. Age(r) \in Int
  <2>1. NetNow - (t % NET_MOD) \in Int
    BY <1>2, GateAssumption
  <2> QED
    BY <1>4, <2>1, GateAssumption
<1>6. Age(r) <= NetNow - t
  BY <1>3, <1>4, Zenon
<1> QED
  BY <1>1, <1>2, <1>5, <1>6

(* A solid chat that the gate handles again, or that waits while another   *)
(* is handled, stays guarded.                                              *)
LEMMA HandleKeepsGuard ==
    ASSUME GateIInv, NEW f \in Frame, HandleData(f),
           NEW g \in solid, g[1] \in tracked', g # f \/ ~Passes(f)
    PROVE  Guarded(g)'
<1>1. g \in Frame /\ Guarded(g)
  BY Zenon DEF GateIInv, GateTypeOK, Sent
<1>2. f[1] \in Sender /\ f[2] \in Counter /\ g[2] \in Counter
  BY <1>1, FrameParts, Zenon DEF GateIInv
<1>3. CheckAndAdd(f[1], f[2])
  BY Zenon DEF HandleData
<1>4. now' = now /\ NetNow' = NetNow /\ SentAt(g)' = SentAt(g)
  BY <1>2, <1>3, OtherSlots, Zenon DEF HandleData, NetNow, SentAt, GateIInv
<1>5. ~Accepts(g[1], g[2])'
  BY <1>1, <1>2, <1>3, StillRefused, Zenon DEF Guarded, GateIInv
<1>6. delivered'[g] = 1
  BY <1>1, Zenon DEF HandleData, Deliver, Drop, Guarded, GateIInv, GateTypeOK
<1>7. \A r \in RecordOf(g)' : r \in RecordOf(g)
  <2>1. CASE Passes(f)
    BY <2>1, MarkSeenEffect DEF HandleData, RecordOf, NewRecord
  <2>2. CASE ~Passes(f)
    BY <2>2, Zenon DEF HandleData, Drop, RecordOf
  <2> QED
    BY <2>1, <2>2, Zenon
<1>8. \A r \in RecordOf(g)' : MadeAfterSending(r, g)'
  BY <1>1, <1>4, <1>7, Zenon DEF Guarded, MadeAfterSending
<1>9. ASSUME RecordOf(g)' = {} PROVE NetNow - SentAt(g) > TTL
  <2>1. CASE RecordOf(g) = {}
    BY <1>1, <2>1, Zenon DEF Guarded
  <2>2. CASE RecordOf(g) # {}
    <3>1. PICK r \in RecordOf(g) : TRUE
      BY <2>2, Zenon
    <3>2. r \in deferred \ deferred' /\ r.frame = g
      BY <1>9, <3>1, Zenon DEF RecordOf
    <3>3. Passes(f)
      BY <3>2, Zenon DEF HandleData, Drop
    <3>4. Age(r) > TTL
      BY <3>2, <3>3, MarkSeenEffect, Zenon DEF HandleData
    <3> QED
      BY <3>1, <3>4, OldRecordOldChat, Zenon
  <2> QED
    BY <2>1, <2>2, Zenon
<1> QED
  BY <1>4, <1>5, <1>6, <1>8, <1>9, Zenon DEF Guarded

(* A chat that becomes solid is guarded: the window has taken its counter, *)
(* and its record is of this moment.                                       *)
LEMMA DeliveryGuards ==
    ASSUME GateIInv, NEW f \in Frame, HandleData(f), Passes(f),
           delivered[f] = 0, SentAt(f) <= NetNow, \E r \in deferred' : r.frame = f
    PROVE  Guarded(f)'
<1>1. f[1] \in Sender /\ f[2] \in Counter
  BY FrameParts, Zenon DEF GateIInv
<1>2. CheckAndAdd(f[1], f[2]) /\ MarkSeen(f) /\ Deliver(f)
  BY Zenon DEF HandleData
<1>3. now' = now /\ NetNow' = NetNow /\ SentAt(f)' = SentAt(f)
  BY <1>1, <1>2, OtherSlots, Zenon DEF HandleData, NetNow, SentAt, GateIInv
<1>4. f[1] \in tracked' /\ ~Accepts(f[1], f[2])'
  <2>1. ~NoSlot(f[1])
    BY Zenon DEF Passes, Verdict
  <2> QED
    BY <1>1, <1>2, <2>1, NowRefused, Zenon DEF GateIInv
<1>5. delivered'[f] = 1
  BY <1>2, SMTT(30) DEF Deliver, GateIInv, GateTypeOK
<1>6. \A r \in RecordOf(f)' : r.seen_s = NetNow % NET_MOD
  BY <1>2, MarkSeenEffect DEF RecordOf, NewRecord
<1>7. \A r \in RecordOf(f)' : MadeAfterSending(r, f)'
  <2>1. NetNow \in Nat /\ SentAt(f) <= NetNow /\ NetNow <= NetNow
    BY NetNowType
  <2> QED
    BY <1>3, <1>6, <2>1, Zenon DEF MadeAfterSending
<1>8. RecordOf(f)' # {}
  BY Zenon DEF RecordOf
<1> QED
  BY <1>4, <1>5, <1>7, <1>8, Zenon DEF Guarded

(* handle_data keeps the invariant.                                        *)
LEMMA HandleDataIInv ==
    ASSUME GateIInv, NEW f \in Frame, HandleData(f)
    PROVE  GateIInv'
<1>1. f[1] \in Chatter /\ f[1] \in Sender /\ f[2] \in Counter /\ f = <<f[1], f[2]>> /\ f \in Sent
  BY FrameParts, Zenon DEF GateIInv, HandleData
<1>2. CheckAndAdd(f[1], f[2])
  BY Zenon DEF HandleData
<1>3. WindowIInv'
  BY <1>1, <1>2, CheckAndAddIInv, Zenon DEF GateIInv
<1>4. solid' \subseteq solid \cup {f}
  BY Zenon DEF HandleData, Deliver, Drop, Kept
<1>5. GateTypeOK'
  <2>1. delivered' \in [Frame -> Nat]
    BY DEF HandleData, Deliver, Drop, GateIInv, GateTypeOK
  <2>2. Sent' = Sent
    BY Zenon DEF HandleData, Sent
  <2> QED
    BY <1>1, <1>4, <2>1, <2>2, Zenon DEF HandleData, GateIInv, GateTypeOK
<1>6. TrueTime'
  BY Zenon DEF HandleData, Deliver, Drop, Kept, TrueTime, GateIInv
<1>7. ASSUME NEW g \in solid' PROVE Guarded(g)'
  <2>1. CASE g \in solid /\ (g # f \/ ~Passes(f))
    <3>1. g[1] \in tracked'
      BY <1>7, <2>1, Zenon DEF HandleData, Deliver, Drop, Kept
    <3> QED
      BY <2>1, <3>1, HandleKeepsGuard, Zenon
  <2>2. CASE g \in solid /\ g = f /\ Passes(f)
    BY <2>2, SolidBlocked, Zenon
  <2>3. CASE g \notin solid
    <3>1. /\ g = f /\ Passes(f) /\ delivered[f] = 0
          /\ SentAt(f) <= NetNow /\ \E r \in deferred' : r.frame = f
      BY <1>7, <2>3, Zenon DEF HandleData, Deliver, Drop, Kept
    <3> QED
      BY <3>1, DeliveryGuards, Zenon
  <2> QED
    BY <2>1, <2>2, <2>3, Zenon
<1>8. MarksAreTouched'
  <2>1. \A r \in deferred' : r.frame \in touched'
    <3>1. CASE Passes(f)
      BY <3>1, MarkSeenEffect, SMTT(30) DEF HandleData, NewRecord, MarksAreTouched, GateIInv
    <3>2. CASE ~Passes(f)
      BY <3>2, Zenon DEF HandleData, Drop, MarksAreTouched, GateIInv
    <3> QED
      BY <3>1, <3>2, Zenon
  <2>2. ASSUME NEW s \in (Chatter \cap tracked') \ restored', NEW c \in Counter, Marked(s, c)'
        PROVE  <<s, c>> \in touched'
    <3>1. s \in Sender /\ restored' = restored /\ touched' = touched \cup {f}
      BY GateAssumption, Zenon DEF HandleData
    <3>2. CASE s = f[1]
      <4>1. c = f[2] \/ (s \in tracked /\ Marked(s, c))
        BY <1>1, <1>2, <2>2, <3>2, MarksComeFromPackets, Zenon DEF GateIInv
      <4> QED
        BY <1>1, <2>2, <3>1, <3>2, <4>1, Zenon DEF GateIInv, MarksAreTouched
    <3>3. CASE s # f[1]
      <4>1. s \in tracked /\ slot'[s] = slot[s]
        BY <1>1, <1>2, <3>3, OtherSlots, Zenon DEF GateIInv
      <4>2. Marked(s, c)
        BY <2>2, <4>1, Zenon DEF Marked
      <4> QED
        BY <3>1, <4>1, <4>2, Zenon DEF GateIInv, MarksAreTouched
    <3> QED
      BY <3>2, <3>3, Zenon
  <2> QED
    BY <2>1, <2>2, Zenon DEF MarksAreTouched
<1> QED
  BY <1>3, <1>5, <1>6, <1>7, <1>8, Zenon DEF GateIInv

(* handle_location keeps it: the slot of a sender without chats advances,  *)
(* and may take the slot of a sender with some.                            *)
LEMMA HandleLocationIInv ==
    ASSUME GateIInv, NEW s \in Sender \ Chatter, HandleLocation(s)
    PROVE  GateIInv'
<1>1. CheckAndAdd(s, 0) /\ 0 \in Counter
  BY CounterAssumption DEF HandleLocation, Counter
<1>2. WindowIInv'
  BY <1>1, CheckAndAddIInv, Zenon DEF GateIInv
<1>3. GateTypeOK' /\ TrueTime'
  BY Zenon DEF HandleLocation, Kept, GateIInv, GateTypeOK, TrueTime, Sent
<1>4. now' = now /\ \A r \in tracked' : r # s => r \in tracked /\ slot'[r] = slot[r]
  BY <1>1, OtherSlots, Zenon DEF GateIInv
<1>5. ASSUME NEW g \in solid' PROVE Guarded(g)'
  <2>1. g \in solid /\ g[1] \in tracked' /\ g \in Frame /\ Guarded(g)
    BY Zenon DEF HandleLocation, Kept, GateIInv, GateTypeOK, Sent
  <2>2. g[2] \in Counter
    BY <2>1, FrameParts, Zenon DEF GateIInv
  <2>3. ~Accepts(g[1], g[2])'
    BY <1>1, <2>1, <2>2, StillRefused, Zenon DEF Guarded, GateIInv
  <2>4. NetNow' = NetNow /\ SentAt(g)' = SentAt(g) /\ RecordOf(g)' = RecordOf(g)
    BY <1>4, Zenon DEF HandleLocation, NetNow, SentAt, RecordOf
  <2> QED
    BY <2>1, <2>3, <2>4, Zenon DEF HandleLocation, Guarded, MadeAfterSending
<1>6. MarksAreTouched'
  BY <1>4, Zenon DEF HandleLocation, MarksAreTouched, Marked, GateIInv
<1> QED
  BY <1>2, <1>3, <1>5, <1>6, Zenon DEF GateIInv

(* Time that passes leaves a solid chat guarded.                           *)
LEMMA GuardStays ==
    ASSUME GateIInv, NEW g \in solid, UNCHANGED <<tracked, slot, deferred, delivered>>,
           SentAt(g)' = SentAt(g), NetNow' \in Nat, NetNow <= NetNow'
    PROVE  Guarded(g)'
<1>1. Guarded(g) /\ g \in Frame
  BY Zenon DEF GateIInv, GateTypeOK, Sent
<1>2. NetNow \in Nat /\ TTL \in Nat /\ SentAt(g) \in Int
  BY <1>1, NetNowType, FrameParts, Zenon DEF GateIInv
<1>3. RecordOf(g)' = RecordOf(g) /\ (Accepts(g[1], g[2])' <=> Accepts(g[1], g[2]))
  BY Zenon DEF RecordOf, Accepts
<1>4. ASSUME NEW r \in RecordOf(g) PROVE MadeAfterSending(r, g)'
  <2>1. PICK t \in Nat : SentAt(g) <= t /\ t <= NetNow /\ r.seen_s = t % NET_MOD
    BY <1>1, Zenon DEF Guarded, MadeAfterSending
  <2>2. SentAt(g)' <= t /\ t <= NetNow'
    BY <1>2, <2>1
  <2> QED
    BY <2>1, <2>2, Zenon DEF MadeAfterSending
<1>5. NetNow - SentAt(g) > TTL => NetNow' - SentAt(g) > TTL
  BY <1>2
<1> QED
  BY <1>1, <1>3, <1>4, <1>5, Zenon DEF Guarded

(* A new chat of a neighbour keeps it: the time inside a sent chat stays.  *)
LEMMA SendIInv ==
    ASSUME GateIInv, NEW s \in Chatter, Send(s)
    PROVE  GateIInv'
<1>1. WindowIInv'
  BY Zenon DEF Send, windowVars, GateIInv, WindowIInv, WindowTypeOK, KnownRefused, BlobCoversFlushed, Accepts
<1>2. PICK e \in Ahead : sent_at' = [sent_at EXCEPT ![s][next[s]] = boot_at + now + e]
  BY Zenon DEF Send
<1>3. next[s] \in Counter /\ boot_at + now + e \in Int
  <2>1. next[s] <= MaxCounter /\ next[s] \in Nat /\ boot_at \in Nat /\ now \in Nat
    <3>1. next \in [Chatter -> Nat] /\ boot_at \in Nat
      BY Zenon DEF GateIInv, GateTypeOK
    <3>2. now \in Nat
      BY NetNowType, Zenon
    <3> QED
      BY <3>1, <3>2, Zenon DEF Send
  <2>2. e \in Int
    BY GateAssumption, Zenon
  <2> QED
    BY <2>1, <2>2, CounterAssumption DEF Counter
<1>4. sent_at' \in [Chatter -> [Counter -> Int]] /\ next' \in [Chatter -> Nat]
  BY <1>2, <1>3 DEF Send, GateIInv, GateTypeOK
<1>5. \A f \in Frame : f[2] < next[f[1]] => f[2] < next'[f[1]]
  BY CounterAssumption DEF Send, GateIInv, GateTypeOK, Frame, Counter
<1>6. GateTypeOK'
  BY <1>4, <1>5, Zenon DEF Send, GateIInv, GateTypeOK, Sent
<1>7. ASSUME NEW g \in solid' PROVE Guarded(g)'
  <2>1. g \in solid /\ g \in Frame /\ g[2] < next[g[1]]
    BY Zenon DEF Send, GateIInv, GateTypeOK, Sent
  <2>2. g[1] \in Chatter /\ g[2] \in Counter /\ next[g[1]] \in Nat
    BY <2>1, FrameParts, Zenon DEF GateIInv, GateTypeOK
  <2>3. g[1] # s \/ g[2] # next[s]
    BY <2>1, <2>2, CounterAssumption DEF Counter
  <2>4. SentAt(g)' = SentAt(g)
    BY <1>2, <1>3, <2>2, <2>3, Zenon DEF SentAt, GateIInv, GateTypeOK
  <2>5. NetNow' = NetNow /\ NetNow \in Nat
    BY NetNowType, Zenon DEF Send, windowVars, NetNow
  <2> QED
    BY <2>1, <2>4, <2>5, GuardStays DEF Send, windowVars
<1>8. TrueTime' /\ MarksAreTouched'
  BY Zenon DEF Send, windowVars, GateIInv, TrueTime, MarksAreTouched, Marked
<1> QED
  BY <1>1, <1>6, <1>7, <1>8, Zenon DEF GateIInv

(* A commit or a lapse of the network time keeps it: a clock that has been *)
(* confident is not moved.                                                 *)
LEMMA SyncIInv ==
    ASSUME GateIInv, Sync \/ LoseSync
    PROVE  GateIInv'
<1>1. WindowIInv'
  BY Zenon DEF Sync, LoseSync, windowVars, GateIInv, WindowIInv, WindowTypeOK, KnownRefused,
         BlobCoversFlushed, Accepts
<1>2. confident' \in BOOLEAN
  BY Zenon DEF Sync, LoseSync
<1>3. GateTypeOK'
  BY <1>2, Zenon DEF Sync, LoseSync, GateIInv, GateTypeOK, Sent
<1>4. TrueTime' /\ MarksAreTouched'
  BY Zenon DEF Sync, LoseSync, windowVars, GateIInv, TrueTime, MarksAreTouched, Marked
<1>5. ASSUME NEW g \in solid' PROVE Guarded(g)'
  <2>1. g \in solid /\ SentAt(g)' = SentAt(g)
    BY Zenon DEF Sync, LoseSync, SentAt
  <2>2. NetNow' = NetNow /\ NetNow \in Nat
    BY <2>1, NetNowType, Zenon DEF Sync, LoseSync, windowVars, NetNow, GateIInv, TrueTime
  <2> QED
    BY <2>1, <2>2, GuardStays DEF Sync, LoseSync, windowVars
<1> QED
  BY <1>1, <1>3, <1>4, <1>5, Zenon DEF GateIInv

(* A restart keeps it, as it forgets the chats of this boot.               *)
LEMMA GateRebootIInv ==
    ASSUME GateIInv, Reboot
    PROVE  GateIInv'
<1>1. WindowIInv' /\ tracked' = nvs_tracked
  BY RebootIInv, Zenon DEF Reboot, GateIInv, WindowReboot
<1>2. boot_at' \in Nat /\ delivered' \in [Frame -> Nat]
  BY NetNowType DEF Reboot, GateIInv, GateTypeOK
<1>3. ~confident' /\ confident' \in BOOLEAN
  BY Zenon DEF Reboot
<1>4. GateTypeOK' /\ TrueTime'
  BY <1>2, <1>3, Zenon DEF Reboot, GateIInv, GateTypeOK, TrueTime
<1>5. (\A g \in solid' : Guarded(g)') /\ MarksAreTouched'
  BY <1>1, Zenon DEF Reboot, MarksAreTouched
<1> QED
  BY <1>1, <1>4, <1>5, Zenon DEF GateIInv

(* Writing the blob keeps it.                                              *)
LEMMA SaveGateIInv ==
    ASSUME GateIInv, Save \/ SaveUncertain, UNCHANGED gateVars
    PROVE  GateIInv'
<1>1. WindowIInv'
  <2>1. SerializeTo(TRUE) \/ SerializeTo(FALSE)
    BY Zenon DEF Save, SaveUncertain
  <2> QED
    BY <2>1, SerializeIInv, Zenon DEF GateIInv
<1>2. UNCHANGED <<tracked, slot, now>>
  BY Zenon DEF Save, SaveUncertain, SerializeTo
<1>3. GateTypeOK' /\ TrueTime' /\ MarksAreTouched'
  BY <1>2, Zenon DEF gateVars, GateIInv, GateTypeOK, TrueTime, MarksAreTouched, Marked, Sent
<1>4. ASSUME NEW g \in solid' PROVE Guarded(g)'
  <2>1. g \in solid /\ SentAt(g)' = SentAt(g) /\ NetNow' = NetNow /\ NetNow \in Nat
    BY <1>2, NetNowType, Zenon DEF gateVars, SentAt, NetNow
  <2> QED
    BY <1>2, <2>1, GuardStays DEF gateVars
<1> QED
  BY <1>1, <1>3, <1>4, Zenon DEF GateIInv

(* The clock keeps it.                                                     *)
LEMMA TickGateIInv ==
    ASSUME GateIInv, Tick, UNCHANGED gateVars
    PROVE  GateIInv'
<1>1. WindowIInv'
  BY WindowNextIInv, Zenon DEF GateIInv, WindowNext
<1>2. GateTypeOK' /\ TrueTime' /\ MarksAreTouched'
  BY Zenon DEF Tick, gateVars, GateIInv, GateTypeOK, TrueTime, MarksAreTouched, Marked, Sent
<1>3. ASSUME NEW g \in solid' PROVE Guarded(g)'
  <2>1. g \in solid /\ SentAt(g)' = SentAt(g)
    BY Zenon DEF gateVars, SentAt
  <2>2. NetNow' \in Nat /\ NetNow <= NetNow'
    BY NetNowType DEF Tick, gateVars, NetNow, GateIInv, GateTypeOK
  <2> QED
    BY <2>1, <2>2, GuardStays, Zenon DEF Tick, gateVars
<1> QED
  BY <1>1, <1>2, <1>3, Zenon DEF GateIInv

(* The invariant holds at the start.                                       *)
LEMMA GateInitIInv == GateInit => GateIInv
<1> SUFFICES ASSUME GateInit PROVE GateIInv
  BY Zenon
<1>1. WindowIInv
  BY WindowInitIInv, Zenon DEF GateInit
<1>2. ~confident /\ confident \in BOOLEAN
  BY Zenon DEF GateInit
<1>3. sent_at \in [Chatter -> [Counter -> Int]]
  BY DEF GateInit
<1>4. GateTypeOK /\ TrueTime
  BY <1>2, <1>3, Zenon DEF GateInit, GateTypeOK, TrueTime
<1>5. (\A f \in solid : Guarded(f)) /\ MarksAreTouched
  BY Zenon DEF GateInit, WindowInit, MarksAreTouched
<1> QED
  BY <1>1, <1>4, <1>5, Zenon DEF GateIInv

(* Every step keeps it.                                                    *)
LEMMA GateNextIInv == GateIInv /\ [GateNext]_vars => GateIInv'
<1> SUFFICES ASSUME GateIInv, [GateNext]_vars PROVE GateIInv'
  BY Zenon
<1>1. CASE \E f \in Frame : HandleData(f)
  BY <1>1, HandleDataIInv, Zenon
<1>2. CASE \E s \in Chatter : Send(s)
  BY <1>2, SendIInv, Zenon
<1>3. CASE \E s \in Sender \ Chatter : HandleLocation(s)
  BY <1>3, HandleLocationIInv, Zenon
<1>4. CASE Sync \/ LoseSync
  BY <1>4, SyncIInv, Zenon
<1>5. CASE Reboot
  BY <1>5, GateRebootIInv, Zenon
<1>6. CASE (Save \/ SaveUncertain) /\ UNCHANGED gateVars
  BY <1>6, SaveGateIInv, Zenon
<1>7. CASE Tick /\ UNCHANGED gateVars
  BY <1>7, TickGateIInv, Zenon
<1>8. CASE UNCHANGED vars
  <2>1. WindowIInv'
    BY <1>8, WindowNextIInv, Zenon DEF vars, GateIInv
  <2>2. UNCHANGED <<tracked, slot, now>> /\ UNCHANGED gateVars
    BY <1>8, Zenon DEF vars, windowVars
  <2>3. GateTypeOK' /\ TrueTime' /\ MarksAreTouched'
    BY <2>2, Zenon DEF gateVars, GateIInv, GateTypeOK, TrueTime, MarksAreTouched, Marked, Sent
  <2>4. \A g \in solid' : Guarded(g)'
    BY <2>2, Zenon DEF gateVars, GateIInv, Guarded, MadeAfterSending, RecordOf, Accepts, NetNow, SentAt
  <2> QED
    BY <2>1, <2>3, <2>4, Zenon DEF GateIInv
<1> QED
  BY <1>1, <1>2, <1>3, <1>4, <1>5, <1>6, <1>7, <1>8, Zenon DEF GateNext

(* The invariant holds throughout every behaviour of the gate.             *)
THEOREM GateAlwaysIInv == GateSpec => []GateIInv
  BY GateInitIInv, GateNextIInv, PTL DEF GateSpec

(* handle_data delivers a chat recorded on a confident clock once in a     *)
(* boot while its sender keeps its slot, however its copies arrive.        *)
THEOREM SolidDeliveredOnceTheorem == GateSpec => []SolidDeliveredOnce
<1>1. GateIInv => SolidDeliveredOnce
  BY Zenon DEF GateIInv, Guarded, SolidDeliveredOnce
<1> QED
  BY <1>1, GateAlwaysIInv, PTL

(* A fresh chat that handle_data has not seen in this boot gets through,   *)
(* unless the table or the cache is full or the sender's slot was          *)
(* restored.                                                               *)
THEOREM UnseenGetsThroughTheorem == GateSpec => []UnseenGetsThrough
<1>1. ASSUME GateIInv, NEW f \in Sent \ touched,
             confident, Fresh(f), f[1] \notin restored, ~NoSlot(f[1]), Room # {}
      PROVE  Passes(f)
  <2>1. f \in Frame /\ f[1] \in Chatter /\ f[1] \in Sender /\ f[2] \in Counter /\ f = <<f[1], f[2]>>
    BY <1>1, FrameParts, Zenon DEF Sent, GateIInv
  <2>2. RecordOf(f) = {}
    BY <1>1, Zenon DEF RecordOf, GateIInv, MarksAreTouched
  <2>3. CASE Accepts(f[1], f[2])
    BY <1>1, <2>3, Zenon DEF Passes, Verdict
  <2>4. CASE ~Accepts(f[1], f[2])
    <3>1. f[1] \in tracked
      BY <2>4, Zenon DEF Accepts
    <3>2. ~Marked(f[1], f[2])
      BY <1>1, <2>1, <3>1, Zenon DEF GateIInv, MarksAreTouched
    <3>3. BelowWindow(f[1], f[2])
      <4>1. WindowTypeOK
        BY <1>1, Zenon DEF GateIInv, WindowIInv
      <4> QED
        BY <2>1, <2>4, <3>1, <3>2, <4>1, RefusesMeaning, Zenon DEF Marked, BelowWindow
    <3> QED
      BY <1>1, <2>2, <2>4, <3>3, Zenon DEF Passes, Verdict, DeferredAccepts
  <2> QED
    BY <2>3, <2>4, Zenon
<1>2. GateIInv => UnseenGetsThrough
  BY <1>1, Zenon DEF UnseenGetsThrough
<1> QED
  BY <1>2, GateAlwaysIInv, PTL

(* Composed with the rest of handle_data and the clocks, the window still  *)
(* accepts no counter twice.                                               *)
THEOREM GateKnownRefusedTheorem == GateSpec => []KnownRefused
<1>1. GateIInv => KnownRefused
  BY Zenon DEF GateIInv, WindowIInv
<1> QED
  BY <1>1, GateAlwaysIInv, PTL

-----------------------------------------------------------------------------
(* The ratchet of one session.  The argument is about one chain at a time  *)
(* (ChainInv): each index behind the cursor and less than a cache length   *)
(* away from it is either used or in its slot, and a slot never holds a    *)
(* used index.  Two indices that share a slot are a cache length apart, so *)
(* caching the skipped keys only overwrites what has left the window.      *)

(* Division with remainder, which index % DM_MAX_SKIP rests on.            *)
LEMMA DivMod ==
    \A a \in Int, b \in Nat \ {0} : a \div b \in Int /\ a = b * (a \div b) + (a % b)
    BY SMTT(30)

(* Two indices with the same slot (index % DM_MAX_SKIP in dm_recv_walk)    *)
(* are at least a cache length apart.                                      *)
LEMMA SlotsApart ==
    ASSUME NEW j \in Nat, NEW k \in Nat, j < k, j % DM_MAX_SKIP = k % DM_MAX_SKIP
    PROVE  j + DM_MAX_SKIP <= k
<1> DEFINE N == DM_MAX_SKIP
           q == (k \div N) - (j \div N)
<1>0. N \in Nat /\ N > 0 /\ j \div N \in Int /\ k \div N \in Int
    BY RatchetAssumption
<1>1. j = N * (j \div N) + (j % N) /\ k = N * (k \div N) + (k % N)
    BY <1>0, DivMod
<1>3. k - j = N * q
    BY <1>0, <1>1
<1>4. q >= 1
    BY <1>0, <1>3
<1>5. N * (q - 1) >= 0
    BY <1>0, <1>4
<1> QED
    BY <1>0, <1>3, <1>5

(* Every index has a slot.                                                 *)
LEMMA SlotOf == \A j \in Nat : j % DM_MAX_SKIP \in SkipSlot
    BY RatchetAssumption DEF SkipSlot

(* Far from the end of the indices the cut to 16 bits does nothing.        *)
LEMMA NoWrap == \A n \in 0 .. MaxIndex : (n + DM_MAX_SKIP) % INDEX_MOD = n + DM_MAX_SKIP
    BY RatchetAssumption

-----------------------------------------------------------------------------
Chain == [epoch : Nat, next : 0 .. MaxIndex, skip : [SkipSlot -> Int]]
SentFrame == [epoch : Nat, index : 0 .. MaxIndex - 1]

(* The frame a cached index of chain ch belongs to.                        *)
FrameAt(ch, j) == [epoch |-> ch.epoch, index |-> j]

(* Chain ch against the set O of opened frames: nothing opened lies at or  *)
(* past the cursor; what is cached is behind the cursor, in its own slot   *)
(* and unopened; and what is less than a cache length behind is opened or  *)
(* cached.                                                                 *)
ChainInv(ch, O) ==
    /\ \A f \in O : f.epoch = ch.epoch => f.index < ch.next
    /\ \A s \in SkipSlot : ch.skip[s] # None =>
          /\ ch.skip[s] \in 0 .. ch.next - 1
          /\ ch.skip[s] % DM_MAX_SKIP = s
          /\ FrameAt(ch, ch.skip[s]) \notin O
    /\ \A j \in 0 .. ch.next - 1 : j >= ch.next - DM_MAX_SKIP =>
          FrameAt(ch, j) \in O \/ ch.skip[j % DM_MAX_SKIP] = j

RatchetType ==
    /\ send \in [epoch : Nat, index : 0 .. MaxIndex]
    /\ recv \in Chain /\ prev \in Chain
    /\ prevValid \in BOOLEAN /\ fresh \in Nat
    /\ sent \subseteq SentFrame /\ opened \subseteq sent

RatchetIInv ==
    /\ RatchetType
    /\ \A f \in opened : f.epoch <= recv.epoch
    /\ ChainInv(recv, opened)
    /\ prevValid => prev.epoch < recv.epoch /\ ChainInv(prev, opened)

(* Index and epoch of the frame at j.                                      *)
LEMMA FrameIndex == \A ch, j : FrameAt(ch, j).index = j /\ FrameAt(ch, j).epoch = ch.epoch
    BY Zenon DEF FrameAt

(* Opening a frame of another epoch does not disturb a chain.              *)
LEMMA OtherEpoch ==
    ASSUME NEW ch \in Chain, NEW O \in SUBSET SentFrame, NEW f \in SentFrame,
           ChainInv(ch, O), f.epoch # ch.epoch
    PROVE  ChainInv(ch, O \cup {f})
    BY DEF ChainInv, FrameAt, Chain, SentFrame

(* dm_recv_walk keeps a chain in order when the frame's key was cached.    *)
LEMMA WalkBehind ==
    ASSUME NEW ch \in Chain, NEW O \in SUBSET SentFrame, NEW f \in SentFrame,
           ChainInv(ch, O), Opens(ch, f), f.index < ch.next
    PROVE  Walk(ch, f) \in Chain /\ ChainInv(Walk(ch, f), O \cup {f})
<1> DEFINE w == Walk(ch, f)
           t == f.index % DM_MAX_SKIP
           P == O \cup {f}
<1>1. t \in SkipSlot /\ f.index \in Nat /\ ch.epoch = f.epoch /\ ch.skip[t] = f.index
    BY SlotOf DEF Opens, SentFrame
<1>2. /\ w.epoch = ch.epoch /\ w.next = ch.next
      /\ w.skip \in [SkipSlot -> Int]
      /\ w.skip[t] = None
      /\ \A s \in SkipSlot \ {t} : w.skip[s] = ch.skip[s]
      /\ w \in Chain
    BY <1>1 DEF Walk, Chain, None
<1>3. f = FrameAt(ch, f.index)
    BY <1>1, Zenon DEF FrameAt, SentFrame
<1> HIDE DEF w
<1>4. \A g \in P : g.epoch = w.epoch => g.index < w.next
    BY <1>2, Zenon DEF ChainInv
<1>5. ASSUME NEW s \in SkipSlot, w.skip[s] # None
      PROVE  /\ w.skip[s] \in 0 .. w.next - 1
             /\ w.skip[s] % DM_MAX_SKIP = s
             /\ FrameAt(w, w.skip[s]) \notin P
    <2>1. s # t /\ w.skip[s] = ch.skip[s]
        BY <1>2, <1>5, Zenon
    <2>2. /\ ch.skip[s] \in 0 .. ch.next - 1
          /\ ch.skip[s] % DM_MAX_SKIP = s
          /\ FrameAt(ch, ch.skip[s]) \notin O
        BY <2>1, <1>5, Zenon DEF ChainInv
    <2>3. ch.skip[s] # f.index
        BY <2>1, <2>2, Zenon
    <2>4. FrameAt(ch, ch.skip[s]) # f
        BY <2>3, FrameIndex, Zenon
    <2> QED
        BY <1>2, <2>1, <2>2, <2>4, Zenon DEF FrameAt
<1>6. ASSUME NEW j \in 0 .. w.next - 1, j >= w.next - DM_MAX_SKIP
      PROVE  FrameAt(w, j) \in P \/ w.skip[j % DM_MAX_SKIP] = j
    <2>1. j \in 0 .. ch.next - 1 /\ j >= ch.next - DM_MAX_SKIP /\ j \in Nat
        BY <1>2, <1>6 DEF Chain
    <2>2. FrameAt(ch, j) \in O \/ ch.skip[j % DM_MAX_SKIP] = j
        BY <2>1, Zenon DEF ChainInv
    <2>3. CASE j % DM_MAX_SKIP = t
        BY <2>2, <2>3, <1>1, <1>2, <1>3, Zenon DEF FrameAt
    <2>4. CASE j % DM_MAX_SKIP # t
        BY <2>1, <2>2, <2>4, <1>2, SlotOf, Zenon DEF FrameAt
    <2> QED
        BY <2>3, <2>4, Zenon
<1> QED
    BY <1>2, <1>4, <1>5, <1>6, Zenon DEF ChainInv, w

(* dm_recv_walk keeps a chain in order when it moves the cursor: the keys  *)
(* it caches take the slots of indices that have left the window.          *)
LEMMA WalkAhead ==
    ASSUME NEW ch \in Chain, NEW O \in SUBSET SentFrame, NEW f \in SentFrame,
           ChainInv(ch, O), Opens(ch, f), ~(f.index < ch.next)
    PROVE  Walk(ch, f) \in Chain /\ ChainInv(Walk(ch, f), O \cup {f})
<1> DEFINE w == Walk(ch, f)
           P == O \cup {f}
           Gap == ch.next .. f.index - 1
<1>1. /\ f.index \in Nat /\ ch.next \in Nat /\ ch.epoch = f.epoch /\ DM_MAX_SKIP \in Nat
      /\ ch.next <= f.index /\ f.index <= ch.next + DM_MAX_SKIP /\ f.index + 1 \in 0 .. MaxIndex
    BY NoWrap, RatchetAssumption DEF Opens, SentFrame, Chain
<1>2. /\ w.epoch = ch.epoch /\ w.next = f.index + 1
      /\ w.skip = [s \in SkipSlot |-> IF \E j \in Gap : j % DM_MAX_SKIP = s
                                  THEN CHOOSE j \in Gap : j % DM_MAX_SKIP = s
                                  ELSE ch.skip[s]]
    BY Zenon DEF Walk
<1>11. w.epoch = ch.epoch /\ w.next = f.index + 1
    BY <1>2, Zenon
<1>3. ASSUME NEW s \in SkipSlot, \E j \in Gap : j % DM_MAX_SKIP = s
      PROVE  w.skip[s] \in Gap /\ w.skip[s] % DM_MAX_SKIP = s
    BY <1>2, <1>3, Zenon
<1>4. ASSUME NEW s \in SkipSlot, ~\E j \in Gap : j % DM_MAX_SKIP = s
      PROVE  w.skip[s] = ch.skip[s]
    BY <1>2, <1>4, Zenon
<1>5. ASSUME NEW j \in Gap PROVE w.skip[j % DM_MAX_SKIP] = j
    <2> DEFINE k == w.skip[j % DM_MAX_SKIP]
    <2>1. j \in Nat /\ j % DM_MAX_SKIP \in SkipSlot
        BY <1>1, SlotOf
    <2>2. k \in Gap /\ k % DM_MAX_SKIP = j % DM_MAX_SKIP
        BY <2>1, <1>3, Zenon
    <2> HIDE DEF k
    <2>3. k \in Nat
        BY <2>2, <1>1
    <2>4. ~(j < k)
        <3>1. ASSUME j < k PROVE j + DM_MAX_SKIP <= k
            BY <3>1, <2>1, <2>2, <2>3, SlotsApart, Zenon
        <3> QED
            BY <3>1, <2>2, <1>1
    <2>5. ~(k < j)
        <3>1. ASSUME k < j PROVE k + DM_MAX_SKIP <= j
            BY <3>1, <2>1, <2>2, <2>3, SlotsApart, Zenon
        <3> QED
            BY <3>1, <2>2, <1>1
    <2> QED
        BY <2>1, <2>3, <2>4, <2>5 DEF k
<1>6. w \in Chain
    <2>1. \A s \in SkipSlot : w.skip[s] \in Int
        BY <1>1, <1>3, <1>4 DEF Chain
    <2>2. w.skip \in [SkipSlot -> Int]
        BY <2>1, <1>2, Zenon
    <2> QED
        BY <2>2, <1>1, <1>2, Zenon DEF Walk, Chain
<1>7. f = FrameAt(ch, f.index)
    BY <1>1, Zenon DEF FrameAt, SentFrame
<1> HIDE DEF w
<1>8. \A g \in P : g.epoch = w.epoch => g.index < w.next
    BY <1>1, <1>11 DEF ChainInv, SentFrame
<1>9. ASSUME NEW s \in SkipSlot, w.skip[s] # None
      PROVE  /\ w.skip[s] \in 0 .. w.next - 1
             /\ w.skip[s] % DM_MAX_SKIP = s
             /\ FrameAt(w, w.skip[s]) \notin P
    <2>1. CASE \E j \in Gap : j % DM_MAX_SKIP = s
        <3>1. w.skip[s] \in Gap /\ w.skip[s] % DM_MAX_SKIP = s
            BY <2>1, <1>3, Zenon
        <3>0. ~(w.skip[s] < ch.next) /\ w.skip[s] # f.index
            BY <3>1, <1>1
        <3>2. FrameAt(ch, w.skip[s]) \notin O
            BY <3>0, Zenon DEF ChainInv, FrameAt
        <3>3. FrameAt(ch, w.skip[s]) # f
            BY <3>0, FrameIndex, Zenon
        <3>4. w.skip[s] \in 0 .. w.next - 1
            BY <3>1, <1>1, <1>11
        <3>5. FrameAt(w, w.skip[s]) \notin P
            BY <3>2, <3>3, <1>11, Zenon DEF FrameAt
        <3> QED
            BY <3>1, <3>4, <3>5, Zenon
    <2>2. CASE ~\E j \in Gap : j % DM_MAX_SKIP = s
        <3>1. w.skip[s] = ch.skip[s]
            BY <2>2, <1>4, Zenon
        <3>2. /\ ch.skip[s] \in 0 .. ch.next - 1
              /\ ch.skip[s] % DM_MAX_SKIP = s
              /\ FrameAt(ch, ch.skip[s]) \notin O
            BY <3>1, <1>9, Zenon DEF ChainInv
        <3>0. ch.skip[s] # f.index
            BY <3>2, <1>1
        <3>3. FrameAt(ch, ch.skip[s]) # f
            BY <3>0, FrameIndex, Zenon
        <3>4. w.skip[s] \in 0 .. w.next - 1
            BY <3>1, <3>2, <1>1, <1>11
        <3>5. FrameAt(w, w.skip[s]) \notin P
            BY <3>1, <3>2, <3>3, <1>11, Zenon DEF FrameAt
        <3> QED
            BY <3>1, <3>2, <3>4, <3>5, Zenon
    <2> QED
        BY <2>1, <2>2, Zenon
<1>10. ASSUME NEW j \in 0 .. w.next - 1, j >= w.next - DM_MAX_SKIP
       PROVE  FrameAt(w, j) \in P \/ w.skip[j % DM_MAX_SKIP] = j
    <2>1. j \in Nat /\ j <= f.index /\ j >= f.index + 1 - DM_MAX_SKIP /\ j % DM_MAX_SKIP \in SkipSlot
        BY <1>1, <1>11, <1>10, SlotOf
    <2>2. CASE j = f.index
        BY <2>2, <1>11, <1>7, Zenon DEF FrameAt
    <2>3. CASE j \in Gap
        BY <2>3, <1>5, Zenon
    <2>4. CASE j < ch.next
        <3>1. FrameAt(ch, j) \in O \/ ch.skip[j % DM_MAX_SKIP] = j
            <4>1. j \in 0 .. ch.next - 1 /\ j >= ch.next - DM_MAX_SKIP
                BY <2>1, <2>4, <1>1
            <4> QED
                BY <4>1, Zenon DEF ChainInv
        <3>2. ASSUME NEW k \in Gap, k % DM_MAX_SKIP = j % DM_MAX_SKIP PROVE FALSE
            <4>1. k \in Nat /\ j < k
                BY <2>1, <2>4, <1>1
            <4>2. j + DM_MAX_SKIP <= k
                BY <4>1, <3>2, <2>1, SlotsApart, Zenon
            <4> QED
                BY <4>1, <4>2, <2>1, <1>1
        <3>3. w.skip[j % DM_MAX_SKIP] = ch.skip[j % DM_MAX_SKIP]
            BY <3>2, <2>1, <1>4, Zenon
        <3> QED
            BY <3>1, <3>3, <1>11, Zenon DEF FrameAt
    <2> QED
        BY <2>1, <2>2, <2>3, <2>4, <1>1, SMTT(30)
<1> QED
    BY <1>6, <1>8, <1>9, <1>10, Zenon DEF ChainInv, w

(* dm_recv_walk keeps a chain in order.                                    *)
LEMMA WalkKeeps ==
    ASSUME NEW ch \in Chain, NEW O \in SUBSET SentFrame, NEW f \in SentFrame,
           ChainInv(ch, O), Opens(ch, f)
    PROVE  Walk(ch, f) \in Chain /\ ChainInv(Walk(ch, f), O \cup {f}) /\ Walk(ch, f).epoch = ch.epoch
<1>1. Walk(ch, f) \in Chain /\ ChainInv(Walk(ch, f), O \cup {f})
    BY WalkBehind, WalkAhead, Zenon
<1>2. Walk(ch, f).epoch = ch.epoch
    BY Zenon DEF Walk, Chain
<1> QED
    BY <1>1, <1>2, Zenon

(* A new chain is in order as long as nothing of its epoch was opened.     *)
LEMMA NewChainInv ==
    ASSUME NEW e \in Nat, NEW O \in SUBSET SentFrame, \A f \in O : f.epoch # e
    PROVE  NewChain(e) \in Chain /\ ChainInv(NewChain(e), O)
<1>1. NewChain(e) \in Chain
    BY RatchetAssumption DEF NewChain, Chain, None
<1>2. ChainInv(NewChain(e), O)
    BY RatchetAssumption DEF NewChain, ChainInv, None
<1> QED
    BY <1>1, <1>2, Zenon

(* The ratchet starts in order.                                            *)
LEMMA RatchetInitIInv == RatchetInit => RatchetIInv
<1> SUFFICES ASSUME RatchetInit PROVE RatchetIInv
    BY Zenon
<1>1. NewChain(0) \in Chain /\ ChainInv(NewChain(0), opened)
    BY NewChainInv DEF RatchetInit
<1>2. send \in [epoch : Nat, index : 0 .. MaxIndex]
    <2>1. 0 \in 0 .. MaxIndex
        BY RatchetAssumption
    <2> QED
        BY <2>1, Zenon DEF RatchetInit
<1>3. RatchetType
    BY <1>1, <1>2, Zenon DEF RatchetInit, RatchetType
<1> QED
    BY <1>1, <1>3, Zenon DEF RatchetInit, RatchetIInv

(* Every step of the sender, of a rekey and of the receiver keeps it so.   *)
LEMMA RatchetStepIInv == RatchetIInv /\ [RatchetNext]_ratchetVars => RatchetIInv'
<1> SUFFICES ASSUME RatchetIInv, [RatchetNext]_ratchetVars PROVE RatchetIInv'
    BY Zenon
<1>0. opened \in SUBSET SentFrame /\ recv \in Chain /\ prev \in Chain /\ prevValid \in BOOLEAN
    BY Zenon DEF RatchetIInv, RatchetType
<1>1. CASE Encrypt
    <2>1. [epoch |-> send.epoch, index |-> send.index] \in SentFrame
        BY <1>1, RatchetAssumption DEF RatchetIInv, RatchetType, Encrypt, SentFrame
    <2>2. send' \in [epoch : Nat, index : 0 .. MaxIndex]
        <3>1. send.epoch \in Nat /\ send.index \in 0 .. MaxIndex /\ send.index < MaxIndex
            BY <1>1, Zenon DEF RatchetIInv, RatchetType, Encrypt
        <3>2. send.index + 1 \in 0 .. MaxIndex
            BY <3>1, RatchetAssumption
        <3>3. send' = [send EXCEPT !.index = @ + 1] /\ send \in [epoch : Nat, index : 0 .. MaxIndex]
            BY <1>1, Zenon DEF RatchetIInv, RatchetType, Encrypt
        <3> QED
            BY <3>1, <3>2, <3>3, Zenon
    <2> QED
        BY <2>1, <2>2, <1>1, Zenon DEF RatchetIInv, RatchetType, Encrypt, ChainInv
<1>2. CASE BumpSend
    <2>1. send.epoch \in Nat
        BY Zenon DEF RatchetIInv, RatchetType
    <2>2. send.epoch + 1 \in Nat /\ 0 \in 0 .. MaxIndex
        BY <2>1, RatchetAssumption
    <2> QED
        BY <1>2, <2>2, Zenon DEF RatchetIInv, RatchetType, BumpSend, ChainInv
<1>3. CASE BumpRecv
    <2>1. recv.epoch \in Nat /\ \A f \in opened : f.epoch \in Nat /\ f.epoch <= recv.epoch
        BY <1>0, Zenon DEF RatchetIInv, Chain, SentFrame
    <2>2. NewChain(recv.epoch + 1) \in Chain /\ ChainInv(NewChain(recv.epoch + 1), opened)
        BY <2>1, <1>0, NewChainInv
    <2>3. NewChain(recv.epoch + 1).epoch = recv.epoch + 1
        BY Zenon DEF NewChain
    <2> QED
        BY <2>1, <2>2, <2>3, <1>3 DEF RatchetIInv, RatchetType, BumpRecv
<1>4. ASSUME NEW f \in sent, Decrypt(f) PROVE RatchetIInv'
    <2>0. f \in SentFrame /\ NewChain(0) \in Chain
        <3>1. f \in SentFrame
            BY Zenon DEF RatchetIInv, RatchetType
        <3>2. NewChain(0) \in Chain
            BY NewChainInv, {} \in SUBSET SentFrame, Zenon
        <3> QED
            BY <3>1, <3>2, Zenon
    <2>1. CASE Opens(recv, f)
        <3>1. /\ recv' = Walk(recv, f) /\ opened' = opened \cup {f}
              /\ fresh' \in Nat /\ prevValid' \in BOOLEAN
              /\ prevValid' => prevValid /\ prev' = prev
              /\ prev' \in Chain /\ send' = send /\ sent' = sent
            BY <2>0, <2>1, <1>4, <1>0 DEF Decrypt, RatchetIInv, RatchetType
        <3>2. recv' \in Chain /\ ChainInv(recv', opened') /\ recv'.epoch = recv.epoch
            BY <3>1, <2>0, <2>1, <1>0, WalkKeeps, Zenon DEF RatchetIInv
        <3>3. f.epoch = recv.epoch
            BY <2>1, Zenon DEF Opens
        <3>4. prevValid' => prev'.epoch < recv'.epoch /\ ChainInv(prev', opened')
            <4>1. SUFFICES ASSUME prevValid' PROVE prev.epoch < recv.epoch /\ ChainInv(prev, opened \cup {f})
                BY <3>1, <3>2, Zenon
            <4>2. prev.epoch < recv.epoch /\ ChainInv(prev, opened)
                BY <4>1, <3>1, Zenon DEF RatchetIInv
            <4>3. f.epoch # prev.epoch
                BY <4>2, <3>3, <1>0 DEF Chain
            <4> QED
                BY <4>2, <4>3, <2>0, <1>0, OtherEpoch, Zenon
        <3>5. \A g \in opened' : g.epoch <= recv'.epoch
            BY <3>1, <3>2, <3>3, <1>0 DEF RatchetIInv, Chain
        <3>6. RatchetType'
            BY <3>1, <3>2, <1>4, Zenon DEF RatchetIInv, RatchetType
        <3> QED
            BY <3>2, <3>4, <3>5, <3>6, Zenon DEF RatchetIInv
    <2>2. CASE ~Opens(recv, f)
        <3>1. /\ prevValid /\ Opens(prev, f) /\ prev' = Walk(prev, f) /\ opened' = opened \cup {f}
              /\ send' = send /\ recv' = recv /\ prevValid' = prevValid /\ fresh' = fresh /\ sent' = sent
            BY <2>2, <1>4, Zenon DEF Decrypt
        <3>2. prev.epoch < recv.epoch /\ ChainInv(prev, opened) /\ f.epoch = prev.epoch
            BY <3>1, Zenon DEF RatchetIInv, Opens
        <3>3. prev' \in Chain /\ ChainInv(prev', opened') /\ prev'.epoch = prev.epoch
            BY <3>1, <3>2, <2>0, <1>0, WalkKeeps, Zenon
        <3>4. ChainInv(recv', opened')
            <4>1. f.epoch # recv.epoch
                BY <3>2, <1>0 DEF Chain
            <4>2. ChainInv(recv, opened \cup {f})
                BY <4>1, <2>0, <1>0, OtherEpoch, Zenon DEF RatchetIInv
            <4> QED
                BY <4>2, <3>1, Zenon
        <3>5. \A g \in opened' : g.epoch <= recv'.epoch
            BY <3>1, <3>2, <1>0 DEF RatchetIInv, Chain
        <3>6. RatchetType'
            BY <3>1, <3>3, <1>4, Zenon DEF RatchetIInv, RatchetType
        <3> QED
            BY <3>1, <3>2, <3>3, <3>4, <3>5, <3>6, Zenon DEF RatchetIInv
    <2> QED
        BY <2>1, <2>2, Zenon
<1>5. CASE UNCHANGED ratchetVars
    BY <1>5, Zenon DEF RatchetIInv, RatchetType, ChainInv, ratchetVars
<1> QED
    BY <1>1, <1>2, <1>3, <1>4, <1>5, Zenon DEF RatchetNext

(* The inductive invariant holds in every reachable state.                 *)
THEOREM RatchetAlwaysIInv == RatchetSpec => []RatchetIInv
    BY RatchetInitIInv, RatchetStepIInv, PTL DEF RatchetSpec

(* No frame ever opens a second time, for every cache size, grace and      *)
(* length of an epoch, however the medium repeats and reorders frames and  *)
(* wherever a rekey falls.                                                 *)
THEOREM OpensOnceTheorem == RatchetSpec => []OpensOnce
<1>1. RatchetIInv => OpensOnce
    <2> SUFFICES ASSUME RatchetIInv, NEW f \in opened PROVE ~CanOpen(f)
        BY Zenon DEF OpensOnce
    <2>1. f \in SentFrame /\ f = [epoch |-> f.epoch, index |-> f.index] /\ f.index \in Nat
        BY DEF RatchetIInv, RatchetType, SentFrame
    <2>2. ASSUME NEW ch \in Chain, ChainInv(ch, opened) PROVE ~Opens(ch, f)
        BY <2>1, <2>2, SlotOf DEF ChainInv, Opens, FrameAt, Chain, None
    <2> QED
        BY <2>2, Zenon DEF CanOpen, RatchetIInv, RatchetType
<1> QED
    BY <1>1, RatchetAlwaysIInv, PTL

(* Every frame within DM_MAX_SKIP of the cursor opens when it arrives, for *)
(* every cache size, grace and length of an epoch.                         *)
THEOREM WindowOpensTheorem == RatchetSpec => []WindowOpens
<1>1. RatchetIInv => WindowOpens
    <2> SUFFICES ASSUME RatchetIInv, NEW f \in sent \ opened,
                        InWindow(recv, f) \/ (prevValid /\ InWindow(prev, f))
                 PROVE  CanOpen(f)
        BY Zenon DEF WindowOpens
    <2>1. f \in SentFrame /\ f = [epoch |-> f.epoch, index |-> f.index] /\ f.index \in Nat
        BY DEF RatchetIInv, RatchetType, SentFrame
    <2>2. ASSUME NEW ch \in Chain, ChainInv(ch, opened), InWindow(ch, f) PROVE Opens(ch, f)
        <3>1. CASE f.index < ch.next
            <4>1. f.index \in 0 .. ch.next - 1 /\ f.index >= ch.next - DM_MAX_SKIP /\ f.epoch = ch.epoch
                BY <3>1, <2>1, <2>2 DEF InWindow, Chain
            <4>2. FrameAt(ch, f.index) \notin opened
                BY <4>1, <2>1, Zenon DEF FrameAt
            <4> QED
                BY <4>1, <4>2, <3>1, <2>2, Zenon DEF ChainInv, Opens
        <3>2. CASE ~(f.index < ch.next)
            BY <3>2, <2>2, NoWrap, Zenon DEF InWindow, Opens, Chain
        <3> QED
            BY <3>1, <3>2, Zenon
    <2> QED
        BY <2>2, Zenon DEF CanOpen, RatchetIInv, RatchetType
<1> QED
    BY <1>1, RatchetAlwaysIInv, PTL
=============================================================================
