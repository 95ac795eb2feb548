---------------------------- MODULE StoreProofs ----------------------------
(***************************************************************************)
(* For every size of ring and file, every share kept by a rollover and any *)
(* number of tasks that change a status: while one task at a time stores   *)
(* messages, rows stay messages of their own, records stay in order, saved *)
(* messages survive, and ring and file agree.                              *)
(***************************************************************************)
EXTENDS MessageStore, TLAPS

(* Messages are stored by one task.  mesh_task.c and the RPC handlers both *)
(* store, under no common lock, so the theorems are about a node on which  *)
(* their calls do not overlap.                                             *)
OneAdder == \A t \in Adders, u \in Adders : t = u

Slots == 0 .. MSG_STORE_MAX - 1
(* The slot of the row i places before the newest, with the head at h.     *)
Place(h, i) == (h - 1 - i) % MSG_STORE_MAX

Row == [uid : Nat, msg : Nat, status : {"none", "sent", "queued", "delivered", "failed"}]

TaskState ==
    {Idle} \cup [at : {"write"}, slot : Slots, uid : Nat, msg : Nat]
           \cup [at : {"save"}, slot : Slots]
           \cup [at : {"header"}, msg : Nat]
           \cup [at : {"roll"}]
           \cup [at : {"swap"}, copy : Seq(Row)]
           \cup [at : {"update"}, slot : Slots, fromEnd : Nat, made : Nat, raced : BOOLEAN]

Storing(t) == task[t].at \notin {"idle", "update"}

StoreTypeOK ==
    /\ ring \in [Slots -> Row]
    /\ head \in Slots
    /\ count \in 0 .. MSG_STORE_MAX
    /\ nextUid \in Nat \ {0}
    /\ records \in Seq(Row)
    /\ counted \in Nat
    /\ ready \in BOOLEAN /\ failed \in BOOLEAN
    /\ made \in Nat
    /\ task \in [StoreTask -> TaskState]
    /\ \A t \in StoreTask : Storing(t) => t \in Adders

(* The ring fills from its first slot on, so that the slots in use are the *)
(* first ones, and their uids tell them apart.                             *)
RingSound ==
    /\ count < MSG_STORE_MAX => head = count
    /\ \A s \in Slots : IF s < count THEN ring[s].uid \in 1 .. nextUid - 1 /\ ring[s].msg <= made
                                     ELSE ring[s] = Blank
    /\ \A s \in Slots, r \in Slots : s < count /\ r < count /\ s # r => ring[s].uid # ring[r].uid

(* A file in order, whose uids name the same messages as those of the      *)
(* rows; next is the uid and last the message that bound both.             *)
FileSound(file, rows, next, last) ==
    /\ \A i \in DOMAIN file : file[i].uid \in 1 .. next - 1 /\ file[i].msg <= last
    /\ \A i \in DOMAIN file, j \in DOMAIN file :
          i < j => file[i].uid < file[j].uid /\ file[i].msg < file[j].msg
    /\ \A i \in DOMAIN file, s \in Slots : file[i].uid = rows[s].uid => file[i].msg = rows[s].msg

(* The uid u and the message m are newer than all that is stored.          *)
NewerThanFile(u, m) == \A i \in DOMAIN records : records[i].uid < u /\ records[i].msg < m

(* What the task that stores a message relies on at each of its steps.     *)
StepSound(t) ==
    /\ task[t].at = "write" =>
          /\ task[t].slot = head
          /\ task[t].uid \in 1 .. nextUid - 1 /\ task[t].msg <= made
          /\ \A s \in Slots : ring[s].uid < task[t].uid
          /\ NewerThanFile(task[t].uid, task[t].msg)
    /\ task[t].at = "save" =>
          /\ count > 0 /\ task[t].slot = RowIndex(0)
          /\ NewerThanFile(ring[task[t].slot].uid, ring[task[t].slot].msg)
    /\ task[t].at \in {"header", "roll", "swap"} => ready
    /\ task[t].at = "header" => task[t].msg \in Messages(records)
    /\ task[t].at = "swap" =>
          records = <<>> /\ Len(task[t].copy) = KeepCount /\ FileSound(task[t].copy, ring, nextUid, made)

Swapping == \E t \in StoreTask : task[t].at = "swap"
Saving == \E t \in StoreTask : task[t].at = "save"

CountSound ==
    /\ ready \/ failed
    /\ ready /\ ~Swapping => counted <= Len(records)
    /\ ~failed /\ ~Swapping => counted = Len(records)

(* Saved messages are in the file, or in the copy about to replace it.     *)
SavedSound ==
    ~failed => /\ ~Swapping => kept \subseteq Messages(records)
               /\ \A t \in StoreTask : task[t].at = "swap" => kept \subseteq Messages(task[t].copy)

OrderIInv ==
    /\ StoreTypeOK
    /\ RingSound
    /\ FileSound(records, ring, nextUid, made)
    /\ \A t \in StoreTask : StepSound(t)
    /\ CountSound
    /\ SavedSound

-----------------------------------------------------------------------------
(* Division with remainder by the length of the ring.                      *)
LEMMA RingDivision ==
    ASSUME NEW a \in Int, NEW b \in Nat \ {0}
    PROVE  a \div b \in Int /\ a % b \in 0 .. b - 1 /\ a = b * (a \div b) + (a % b)
  BY SMTT(30)

(* The remainder of a number at most one length beside the ring's slots.   *)
LEMMA RingRemainder ==
    ASSUME NEW b \in Nat \ {0}, NEW a \in -b .. b + b - 1
    PROVE  a % b = IF a < 0 THEN a + b ELSE IF a < b THEN a ELSE a - b
<1>1. a \div b \in Int /\ a % b \in 0 .. b - 1 /\ a = b * (a \div b) + (a % b)
  BY RingDivision
<1>2. PICK q \in Int, r \in 0 .. b - 1 : a = b * q + r /\ r = a % b
  BY <1>1, Zenon
<1>3. CASE q >= 2
  <2>1. b * (q - 2) >= 0 /\ b * (q - 2) = b * q - (b + b)
    BY <1>3
  <2> QED
    BY <1>2, <2>1
<1>4. CASE q <= -2
  <2>1. b * (-2 - q) >= 0 /\ b * (-2 - q) = -(b + b) - b * q
    BY <1>4
  <2> QED
    BY <1>2, <2>1
<1>5. CASE q = 0
  BY <1>2, <1>5
<1>6. CASE q = -1
  BY <1>2, <1>6
<1>7. CASE q = 1
  BY <1>2, <1>7
<1> QED
  BY <1>3, <1>4, <1>5, <1>6, <1>7

(* A rollover keeps no more than the limit of the file.                    *)
LEMMA KeepCountRange == KeepCount \in Nat /\ KeepCount <= PERSIST_MAX
<1>1. PERSIST_MAX \in Nat /\ KEEP_PCT \in Nat /\ KEEP_PCT <= 90
  BY StoreAssumption
<1>2. PICK p \in Nat : p = PERSIST_MAX * KEEP_PCT
  BY <1>1
<1>3. p <= PERSIST_MAX * 100
  <2>1. PERSIST_MAX * (100 - KEEP_PCT) >= 0
    BY <1>1
  <2>2. PERSIST_MAX * (100 - KEEP_PCT) = PERSIST_MAX * 100 - PERSIST_MAX * KEEP_PCT
    BY <1>1
  <2> QED
    BY <1>1, <1>2, <2>1, <2>2
<1>4. p \div 100 \in Nat /\ p \div 100 <= PERSIST_MAX
  BY <1>1, <1>3
<1> QED
  BY <1>2, <1>4, Zenon DEF KeepCount

(* The smaller of two numbers.                                             *)
LEMMA SmallerOfTwo ==
    ASSUME NEW a \in Int, NEW b \in Int
    PROVE  Min({a, b}) = IF a <= b THEN a ELSE b
  BY DEF Min

(* Where that slot is.                                                     *)
LEMMA PlaceIs ==
    ASSUME NEW h \in Slots, NEW i \in Slots
    PROVE  /\ Place(h, i) = IF i < h THEN h - 1 - i ELSE h - 1 - i + MSG_STORE_MAX
           /\ Place(h, i) \in Slots
<1>1. MSG_STORE_MAX \in Nat \ {0}
  BY StoreAssumption, Zenon
<1>2. h - 1 - i \in -MSG_STORE_MAX .. MSG_STORE_MAX + MSG_STORE_MAX - 1
  BY <1>1 DEF Slots
<1>3. Place(h, i) = IF h - 1 - i < 0 THEN h - 1 - i + MSG_STORE_MAX
                    ELSE IF h - 1 - i < MSG_STORE_MAX THEN h - 1 - i ELSE h - 1 - i - MSG_STORE_MAX
  BY <1>1, <1>2, RingRemainder, Zenon DEF Place
<1> QED
  BY <1>1, <1>3 DEF Slots

(* The rows in use lie in the first slots, each in one of its own.         *)
LEMMA PlacesInUse ==
    ASSUME NEW h \in Slots, NEW c \in 0 .. MSG_STORE_MAX, c < MSG_STORE_MAX => h = c
    PROVE  /\ \A i \in 0 .. c - 1 : Place(h, i) \in Slots /\ Place(h, i) < c
           /\ \A i, j \in 0 .. c - 1 : i # j => Place(h, i) # Place(h, j)
<1>1. MSG_STORE_MAX \in Nat \ {0}
  BY StoreAssumption, Zenon
<1>2. \A i \in 0 .. c - 1 :
          i \in Slots /\ Place(h, i) = IF i < h THEN h - 1 - i ELSE h - 1 - i + MSG_STORE_MAX
  BY <1>1, PlaceIs DEF Slots
<1> QED
  BY <1>1, <1>2 DEF Slots

(* The head moves on by one slot: the new row is the newest, and the       *)
(* others are one place farther from it.                                   *)
LEMMA NextHead ==
    ASSUME NEW h \in Slots
    PROVE  /\ (h + 1) % MSG_STORE_MAX = IF h + 1 = MSG_STORE_MAX THEN 0 ELSE h + 1
           /\ (h + 1) % MSG_STORE_MAX \in Slots
           /\ Place((h + 1) % MSG_STORE_MAX, 0) = h
           /\ \A i \in Nat : i + 1 < MSG_STORE_MAX => Place((h + 1) % MSG_STORE_MAX, i + 1) = Place(h, i)
<1>1. MSG_STORE_MAX \in Nat \ {0}
  BY StoreAssumption, Zenon
<1>2. h + 1 \in -MSG_STORE_MAX .. MSG_STORE_MAX + MSG_STORE_MAX - 1
  BY <1>1 DEF Slots
<1>3. PICK k : k = (h + 1) % MSG_STORE_MAX
  BY Zenon
<1>4. k = (IF h + 1 = MSG_STORE_MAX THEN 0 ELSE h + 1) /\ k \in Slots
  <2>1. PICK a : a = h + 1
    BY Zenon
  <2>2. k = IF a < 0 THEN a + MSG_STORE_MAX ELSE IF a < MSG_STORE_MAX THEN a ELSE a - MSG_STORE_MAX
    BY <1>1, <1>2, <1>3, <2>1, RingRemainder, Zenon
  <2> QED
    BY <1>1, <2>1, <2>2 DEF Slots
<1>5. Place(k, 0) = h
  <2>1. 0 \in Slots
    BY <1>1 DEF Slots
  <2>2. Place(k, 0) = IF 0 < k THEN k - 1 - 0 ELSE k - 1 - 0 + MSG_STORE_MAX
    BY <1>4, <2>1, PlaceIs, Zenon
  <2> QED
    BY <1>1, <1>4, <2>2 DEF Slots
<1>6. ASSUME NEW i \in Nat, i + 1 < MSG_STORE_MAX
      PROVE  Place(k, i + 1) = Place(h, i)
  <2>1. i \in Slots /\ i + 1 \in Slots
    BY <1>1, <1>6 DEF Slots
  <2>2. Place(h, i) = IF i < h THEN h - 1 - i ELSE h - 1 - i + MSG_STORE_MAX
    BY <2>1, PlaceIs, Zenon
  <2>3. Place(k, i + 1) = IF i + 1 < k THEN k - 1 - (i + 1) ELSE k - 1 - (i + 1) + MSG_STORE_MAX
    BY <1>4, <2>1, PlaceIs, Zenon
  <2> QED
    BY <1>1, <1>4, <2>1, <2>2, <2>3 DEF Slots
<1> QED
  BY <1>3, <1>4, <1>5, <1>6, Zenon

-----------------------------------------------------------------------------
(* The fields of a record.                                                 *)
LEMMA RecordType ==
    ASSUME NEW f \in Seq(Row)
    PROVE  \A i \in DOMAIN f : f[i].uid \in Nat /\ f[i].msg \in Nat
<1>1. \A i \in DOMAIN f : f[i] \in Row
  OBVIOUS
<1> QED
  BY <1>1, Zenon DEF Row

(* Rows that change no uid the file knows leave it sound.                  *)
LEMMA FileStays ==
    ASSUME NEW f \in Seq(Row), NEW rows \in [Slots -> Row], NEW rows2 \in [Slots -> Row],
           NEW n \in Nat, NEW n2 \in Nat, NEW m \in Nat, NEW m2 \in Nat,
           FileSound(f, rows, n, m), n <= n2, m <= m2,
           \A s \in Slots : \/ rows2[s].uid = rows[s].uid /\ rows2[s].msg = rows[s].msg
                           \/ \A i \in DOMAIN f : f[i].uid # rows2[s].uid
    PROVE  FileSound(f, rows2, n2, m2)
<1>1. \A i \in DOMAIN f : f[i].uid \in Nat /\ f[i].msg \in Nat
  BY RecordType, Zenon
<1>2. \A i \in DOMAIN f : f[i].uid \in 1 .. n2 - 1 /\ f[i].msg <= m2
  BY <1>1 DEF FileSound
<1> QED
  BY <1>2 DEF FileSound

(* A row in use that is newer than the file is appended to it.             *)
LEMMA FileAppends ==
    ASSUME NEW f \in Seq(Row), NEW rows \in [Slots -> Row], NEW n \in Nat, NEW m \in Nat,
           FileSound(f, rows, n, m), NEW row \in Row,
           row.uid \in 1 .. n - 1, row.msg <= m,
           \A i \in DOMAIN f : f[i].uid < row.uid /\ f[i].msg < row.msg,
           \A s \in Slots : row.uid = rows[s].uid => row.msg = rows[s].msg
    PROVE  FileSound(Append(f, row), rows, n, m) /\ Append(f, row) \in Seq(Row)
<1>1. PICK g : g = Append(f, row)
  BY Zenon
<1>2. g \in Seq(Row) /\ \A i \in DOMAIN g : (i \in DOMAIN f /\ g[i] = f[i]) \/ (i = Len(f) + 1 /\ g[i] = row)
  BY <1>1
<1>3. \A i \in DOMAIN f : i \in 1 .. Len(f)
  OBVIOUS
<1> QED
  BY <1>1, <1>2, <1>3, SMTT(30) DEF FileSound

(* A record overwritten by its own row.                                    *)
LEMMA FileUpdates ==
    ASSUME NEW f \in Seq(Row), NEW rows \in [Slots -> Row], NEW n \in Nat, NEW m \in Nat,
           FileSound(f, rows, n, m), NEW s \in Slots, NEW k \in DOMAIN f, f[k].uid = rows[s].uid,
           NEW g, DOMAIN g = DOMAIN f, \A i \in DOMAIN f : g[i] = IF i = k THEN rows[s] ELSE f[i]
    PROVE  /\ FileSound(g, rows, n, m)
           /\ Messages(g) = Messages(f)
           /\ f[k].msg = rows[s].msg
<1>1. f[k].msg = rows[s].msg
  BY Zenon DEF FileSound
<1>2. \A i \in DOMAIN f : g[i].uid = f[i].uid /\ g[i].msg = f[i].msg
  BY <1>1, Zenon
<1>3. FileSound(g, rows, n, m)
  BY <1>2, SMTT(30) DEF FileSound
<1>4. Messages(g) = Messages(f)
  BY <1>2, Zenon DEF Messages
<1> QED
  BY <1>1, <1>3, <1>4, Zenon

(* A part of a sound file.                                                 *)
LEMMA FilePart ==
    ASSUME NEW f \in Seq(Row), NEW rows \in [Slots -> Row], NEW n \in Nat, NEW m \in Nat,
           FileSound(f, rows, n, m), NEW a \in Nat \ {0}, NEW b \in Nat, a <= b + 1, b <= Len(f)
    PROVE  /\ SubSeq(f, a, b) \in Seq(Row)
           /\ Len(SubSeq(f, a, b)) = b - a + 1
           /\ \A i \in DOMAIN SubSeq(f, a, b) : i + a - 1 \in DOMAIN f /\ SubSeq(f, a, b)[i] = f[i + a - 1]
           /\ FileSound(SubSeq(f, a, b), rows, n, m)
<1>1. PICK g : g = SubSeq(f, a, b)
  BY Zenon
<1>2. /\ g \in Seq(Row) /\ Len(g) = b - a + 1
      /\ \A i \in DOMAIN g : i + a - 1 \in DOMAIN f /\ g[i] = f[i + a - 1]
      /\ DOMAIN g \subseteq Nat
  BY <1>1
<1>3. ASSUME NEW i \in DOMAIN g, NEW j \in DOMAIN g, i < j
      PROVE  g[i].uid < g[j].uid /\ g[i].msg < g[j].msg
  <2>1. PICK k \in DOMAIN f : k = i + a - 1 /\ g[i] = f[k]
    BY <1>2, Zenon
  <2>2. PICK l \in DOMAIN f : l = j + a - 1 /\ g[j] = f[l]
    BY <1>2, Zenon
  <2>3. k < l
    BY <1>2, <1>3, <2>1, <2>2, SMTT(30)
  <2> QED
    BY <2>1, <2>2, <2>3, Zenon DEF FileSound
<1>4. ASSUME NEW i \in DOMAIN g
      PROVE  /\ g[i].uid \in 1 .. n - 1 /\ g[i].msg <= m
             /\ \A s \in Slots : g[i].uid = rows[s].uid => g[i].msg = rows[s].msg
  <2>1. PICK k \in DOMAIN f : g[i] = f[k]
    BY <1>2, Zenon
  <2> QED
    BY <2>1 DEF FileSound
<1>5. FileSound(g, rows, n, m)
  BY <1>3, <1>4, Zenon DEF FileSound
<1> QED
  BY <1>1, <1>2, <1>5, Zenon

-----------------------------------------------------------------------------
(* A step of the task that stores: the others are at rest.                 *)
LEMMA AdderStep ==
    ASSUME OneAdder, StoreTypeOK, NEW t \in Adders, NEW x \in TaskState,
           task' = [task EXCEPT ![t] = x]
    PROVE  /\ t \in StoreTask
           /\ task' \in [StoreTask -> TaskState] /\ task'[t] = x
           /\ \A u \in StoreTask : Storing(u)' => u \in Adders
           /\ \A u \in StoreTask \ {t} : task'[u] = task[u] /\ ~Storing(u) /\ ~Storing(u)' /\ StepSound(u)'
           /\ Swapping <=> task[t].at = "swap"
           /\ Swapping' <=> x.at = "swap"
<1>1. t \in StoreTask
  BY Zenon DEF StoreTask
<1>2. task' \in [StoreTask -> TaskState] /\ task'[t] = x /\ \A u \in StoreTask \ {t} : task'[u] = task[u]
  BY <1>1, Zenon DEF StoreTypeOK
<1>3. \A u \in StoreTask \ {t} : ~Storing(u)
  BY Zenon DEF OneAdder, StoreTypeOK
<1>4. \A u \in StoreTask \ {t} : task[u].at \in {"idle", "update"} /\ task'[u].at \in {"idle", "update"}
  BY <1>2, <1>3, Zenon DEF Storing
<1>5. \A u \in StoreTask \ {t} : ~Storing(u)'
  BY <1>4, Zenon DEF Storing
<1>6. \A u \in StoreTask \ {t} : StepSound(u)'
  BY <1>4, Zenon DEF StepSound
<1>7. Swapping <=> task[t].at = "swap"
  BY <1>1, <1>4, Zenon DEF Swapping
<1>8. Swapping' <=> x.at = "swap"
  BY <1>1, <1>2, <1>4, Zenon DEF Swapping
<1> QED
  BY <1>1, <1>2, <1>3, <1>5, <1>6, <1>7, <1>8, Zenon

(* Nobody but the task that stores is in one of its steps.                 *)
LEMMA StoringIsAdder ==
    ASSUME StoreTypeOK, NEW t \in StoreTask, task[t].at \in {"write", "save", "header", "roll", "swap"}
    PROVE  t \in Adders
<1>1. Storing(t)
  BY Zenon DEF Storing
<1> QED
  BY <1>1, Zenon DEF StoreTypeOK

(* The uid and the message picked are newer than all that is stored.       *)
LEMMA PickSlotOrder ==
    ASSUME OneAdder, OrderIInv, NEW t \in StoreTask, PickSlot(t)
    PROVE  OrderIInv'
<1>1. StoreTypeOK /\ RingSound /\ FileSound(records, ring, nextUid, made) /\ CountSound /\ SavedSound
  BY Zenon DEF OrderIInv
<1>2. PICK x : x = [at |-> "write", slot |-> head, uid |-> nextUid, msg |-> made + 1]
  BY Zenon
<1>3. /\ t \in Adders /\ task[t] = Idle /\ task' = [task EXCEPT ![t] = x]
      /\ nextUid' = nextUid + 1 /\ made' = made + 1
      /\ UNCHANGED <<ring, head, count, records, counted, ready, kept, failed>>
  BY <1>2, Zenon DEF PickSlot, ringVars, flash
<1>4. nextUid \in Nat \ {0} /\ made \in Nat /\ head \in Slots /\ ring \in [Slots -> Row] /\ records \in Seq(Row)
  BY <1>1, Zenon DEF StoreTypeOK
<1>5. x \in TaskState /\ x.at = "write" /\ x.slot = head /\ x.uid = nextUid /\ x.msg = made + 1
  BY <1>2, <1>4 DEF TaskState
<1>6. /\ task' \in [StoreTask -> TaskState] /\ task'[t] = x
      /\ \A u \in StoreTask : Storing(u)' => u \in Adders
      /\ \A u \in StoreTask \ {t} : StepSound(u)'
      /\ ~Swapping /\ ~Swapping'
      /\ \A u \in StoreTask : task'[u].at # "swap"
  <2>1. task[t].at = "idle"
    BY <1>3 DEF Idle
  <2>2. task' \in [StoreTask -> TaskState] /\ task'[t] = x /\ \A u \in StoreTask : Storing(u)' => u \in Adders
    BY <1>1, <1>3, <1>5, AdderStep, Zenon
  <2>3. (Swapping <=> task[t].at = "swap") /\ (Swapping' <=> x.at = "swap")
    BY <1>1, <1>3, <1>5, AdderStep, Zenon
  <2>4. \A u \in StoreTask \ {t} : StepSound(u)'
    BY <1>1, <1>3, <1>5, AdderStep, Zenon
  <2>5. ~Swapping'
    BY <1>5, <2>3, Zenon
  <2> QED
    BY <2>1, <2>2, <2>3, <2>4, <2>5, Zenon DEF Swapping
<1>7. StoreTypeOK'
  BY <1>1, <1>3, <1>4, <1>6 DEF StoreTypeOK
<1>8. RingSound'
  BY <1>1, <1>3, <1>4 DEF RingSound, Row
<1>9. FileSound(records, ring, nextUid, made)'
  <2>1. FileSound(records, ring, nextUid + 1, made + 1)
    BY <1>1, <1>4, FileStays, SMTT(30)
  <2> QED
    BY <1>3, <2>1, Zenon
<1>10. StepSound(t)'
  <2>1. \A s \in Slots : ring[s].uid < nextUid
    BY <1>1, <1>4 DEF RingSound, Blank
  <2>2. NewerThanFile(nextUid, made + 1)
    BY <1>1, <1>4, RecordType DEF FileSound, NewerThanFile
  <2>3. NewerThanFile(x.uid, x.msg)'
    BY <1>3, <1>5, <2>2, Zenon DEF NewerThanFile
  <2> QED
    BY <1>3, <1>4, <1>5, <1>6, <2>1, <2>3 DEF StepSound
<1>11. CountSound'
  BY <1>1, <1>3, <1>6, Zenon DEF CountSound
<1>12. SavedSound'
  BY <1>1, <1>3, <1>6, Zenon DEF SavedSound
<1> QED
  BY <1>6, <1>7, <1>8, <1>9, <1>10, <1>11, <1>12, Zenon DEF OrderIInv

(* The fields of a task's state.                                           *)
LEMMA TaskFields ==
    ASSUME NEW x \in TaskState
    PROVE  /\ x.at = "write" => x.slot \in Slots /\ x.uid \in Nat /\ x.msg \in Nat
           /\ x.at = "save" => x.slot \in Slots
           /\ x.at = "header" => x.msg \in Nat
           /\ x.at = "swap" => x.copy \in Seq(Row)
           /\ x.at = "update" => /\ x.slot \in Slots /\ x.fromEnd \in Nat
                                 /\ x.made \in Nat /\ x.raced \in BOOLEAN
  BY DEF TaskState, Idle

(* The row goes to the slot at the head, which nobody has moved since.     *)
LEMMA WriteRowOrder ==
    ASSUME OneAdder, OrderIInv, NEW t \in StoreTask, WriteRow(t)
    PROVE  OrderIInv'
<1>1. StoreTypeOK /\ RingSound /\ FileSound(records, ring, nextUid, made) /\ CountSound /\ SavedSound
  BY Zenon DEF OrderIInv
<1>2. PICK x, row : x = [at |-> "save", slot |-> head] /\ row = [uid |-> task[t].uid, msg |-> task[t].msg, status |-> "sent"]
  BY Zenon
<1>3. /\ task[t].at = "write" /\ task[t] \in TaskState /\ StepSound(t)
      /\ nextUid \in Nat \ {0} /\ made \in Nat /\ head \in Slots /\ count \in 0 .. MSG_STORE_MAX
      /\ ring \in [Slots -> Row] /\ records \in Seq(Row) /\ MSG_STORE_MAX \in Nat \ {0}
  BY <1>1, StoreAssumption, Zenon DEF OrderIInv, StoreTypeOK, WriteRow
<1>4. /\ task[t].slot = head /\ row.uid \in 1 .. nextUid - 1 /\ row.msg <= made
      /\ \A s \in Slots : ring[s].uid < row.uid
      /\ NewerThanFile(row.uid, row.msg)
  BY <1>2, <1>3, Zenon DEF StepSound
<1>5. row \in Row
  BY <1>2, <1>3, TaskFields, Zenon DEF Row
<1>6. /\ task' = [task EXCEPT ![t] = x] /\ ring' = [ring EXCEPT ![head] = row]
      /\ head' = (head + 1) % MSG_STORE_MAX /\ count' = Min({count + 1, MSG_STORE_MAX})
      /\ UNCHANGED <<nextUid, made, records, counted, ready, kept, failed>>
  BY <1>2, <1>4, Zenon DEF WriteRow, flash
<1>7. count' = IF count < MSG_STORE_MAX THEN count + 1 ELSE MSG_STORE_MAX
  BY <1>3, <1>6, SmallerOfTwo
<1>8. /\ head' = (IF head + 1 = MSG_STORE_MAX THEN 0 ELSE head + 1) /\ head' \in Slots
      /\ Place(head', 0) = head
  BY <1>3, <1>6, NextHead, Zenon
<1>9. x \in TaskState /\ x.at = "save" /\ x.slot = head
  BY <1>2, <1>3, Zenon DEF TaskState
<1>10. t \in Adders
  BY <1>1, <1>3, StoringIsAdder, Zenon
<1>11. /\ task' \in [StoreTask -> TaskState] /\ task'[t] = x
       /\ \A u \in StoreTask : Storing(u)' => u \in Adders
  BY <1>1, <1>6, <1>9, <1>10, AdderStep, Zenon
<1>12. ~Swapping /\ ~Swapping'
  BY <1>1, <1>3, <1>6, <1>9, <1>10, AdderStep, Zenon
<1>13. \A u \in StoreTask \ {t} : StepSound(u)'
  BY <1>1, <1>6, <1>9, <1>10, AdderStep, Zenon
<1>14. ring' \in [Slots -> Row] /\ \A s \in Slots : ring'[s] = IF s = head THEN row ELSE ring[s]
  BY <1>3, <1>5, <1>6, Zenon
<1>15. StoreTypeOK'
  BY <1>1, <1>3, <1>6, <1>7, <1>8, <1>11, <1>14, SMTT(30) DEF StoreTypeOK
<1>16. RingSound'
  <2>1. count' < MSG_STORE_MAX => head' = count'
    BY <1>1, <1>3, <1>7, <1>8 DEF RingSound
  <2>2. \A s \in Slots : s # head => (s < count' <=> s < count)
    BY <1>1, <1>3, <1>7 DEF RingSound, Slots
  <2>3. head < count'
    BY <1>1, <1>3, <1>7 DEF RingSound, Slots
  <2>4. ASSUME NEW s \in Slots
        PROVE  IF s < count' THEN ring'[s].uid \in 1 .. nextUid - 1 /\ ring'[s].msg <= made ELSE ring'[s] = Blank
    BY <1>1, <1>4, <1>14, <2>2, <2>3, Zenon DEF RingSound
  <2>5. ASSUME NEW s \in Slots, NEW r \in Slots, s < count', r < count', s # r
        PROVE  ring'[s].uid # ring'[r].uid
    <3>1. ring[s].uid \in Nat /\ ring[r].uid \in Nat /\ row.uid \in Nat
      BY <1>3, <1>5, Zenon DEF Row
    <3>2. s # head /\ r # head => ring[s].uid # ring[r].uid
      BY <1>1, <2>2, <2>5, Zenon DEF RingSound
    <3>3. ring[s].uid < row.uid /\ ring[r].uid < row.uid
      BY <1>4, Zenon
    <3> QED
      BY <1>14, <2>5, <3>1, <3>2, <3>3
  <2> QED
    BY <1>6, <2>1, <2>4, <2>5, Zenon DEF RingSound
<1>17. FileSound(records, ring, nextUid, made)'
  <2>1. \A i \in DOMAIN records : records[i].uid # row.uid
    BY <1>3, <1>4, RecordType DEF NewerThanFile
  <2>2. \A s \in Slots : \/ ring'[s].uid = ring[s].uid /\ ring'[s].msg = ring[s].msg
                         \/ \A i \in DOMAIN records : records[i].uid # ring'[s].uid
    BY <1>14, <2>1, Zenon
  <2>3. nextUid <= nextUid /\ made <= made /\ nextUid \in Nat
    BY <1>3
  <2>4. FileSound(records, ring', nextUid, made)
    BY <1>1, <1>3, <1>14, <2>2, <2>3, FileStays, Zenon
  <2> QED
    BY <1>6, <2>4, Zenon
<1>18. StepSound(t)'
  <2>1. count' > 0
    BY <1>3, <1>7
  <2>2. RowIndex(0)' = head
    BY <1>8, Zenon DEF RowIndex, Place
  <2>3. ring'[head] = row
    BY <1>3, <1>14, Zenon
  <2>4. NewerThanFile(ring[task[t].slot].uid, ring[task[t].slot].msg)'
    BY <1>4, <1>6, <1>9, <1>11, <2>3, Zenon DEF NewerThanFile
  <2> QED
    BY <1>9, <1>11, <2>1, <2>2, <2>4, Zenon DEF StepSound
<1>19. CountSound'
  BY <1>1, <1>6, <1>12, Zenon DEF CountSound
<1>20. SavedSound'
  BY <1>1, <1>6, <1>12, Zenon DEF SavedSound, Swapping
<1> QED
  BY <1>13, <1>15, <1>16, <1>17, <1>18, <1>19, <1>20, Zenon DEF OrderIInv

(* The messages of a file with one more record.                            *)
LEMMA MessagesAppend ==
    ASSUME NEW f \in Seq(Row), NEW row \in Row
    PROVE  Messages(Append(f, row)) = Messages(f) \cup {row.msg} /\ Len(Append(f, row)) = Len(f) + 1
<1>1. PICK g : g = Append(f, row)
  BY Zenon
<1>2. Len(g) = Len(f) + 1 /\ DOMAIN g = DOMAIN f \cup {Len(f) + 1}
  BY <1>1
<1>3. (\A i \in DOMAIN f : g[i] = f[i]) /\ g[Len(f) + 1] = row
  BY <1>1
<1>4. Messages(g) = Messages(f) \cup {row.msg}
  <2>1. ASSUME NEW m \in Messages(g) PROVE m \in Messages(f) \cup {row.msg}
    <3>1. PICK i \in DOMAIN g : m = g[i].msg
      BY Zenon DEF Messages
    <3> QED
      BY <1>2, <1>3, <3>1, Zenon DEF Messages
  <2>2. ASSUME NEW m \in Messages(f) PROVE m \in Messages(g)
    BY <1>2, <1>3, Zenon DEF Messages
  <2>3. row.msg \in Messages(g)
    BY <1>2, <1>3, Zenon DEF Messages
  <2> QED
    BY <2>1, <2>2, <2>3, Zenon
<1> QED
  BY <1>1, <1>2, <1>4, Zenon

(* What the row about to be saved has in common with the file.             *)
LEMMA SavedRow ==
    ASSUME OrderIInv, NEW t \in StoreTask, task[t].at = "save"
    PROVE  /\ task[t].slot \in Slots /\ ring[task[t].slot] \in Row
           /\ FileSound(Append(records, ring[task[t].slot]), ring, nextUid, made)
           /\ Append(records, ring[task[t].slot]) \in Seq(Row)
<1>1. /\ RingSound /\ FileSound(records, ring, nextUid, made) /\ StepSound(t) /\ task[t] \in TaskState
      /\ nextUid \in Nat /\ made \in Nat /\ head \in Slots /\ count \in 0 .. MSG_STORE_MAX
      /\ ring \in [Slots -> Row] /\ records \in Seq(Row) /\ MSG_STORE_MAX \in Nat \ {0}
  BY StoreAssumption, Zenon DEF OrderIInv, StoreTypeOK
<1>2. PICK k, row : k = task[t].slot /\ row = ring[k]
  BY Zenon
<1>3. count > 0 /\ k = Place(head, 0) /\ NewerThanFile(row.uid, row.msg)
  BY <1>1, <1>2, Zenon DEF StepSound, RowIndex, Place
<1>4. k \in Slots /\ k < count
  <2>1. 0 \in 0 .. count - 1 /\ (count < MSG_STORE_MAX => head = count)
    BY <1>1, <1>3 DEF RingSound
  <2> QED
    BY <1>1, <1>3, <2>1, PlacesInUse, Zenon
<1>5. row \in Row
  BY <1>1, <1>2, <1>4, Zenon
<1>6. row.uid \in 1 .. nextUid - 1 /\ row.msg <= made
  BY <1>1, <1>2, <1>4, Zenon DEF RingSound
<1>7. \A s \in Slots : row.uid = ring[s].uid => row.msg = ring[s].msg
  <2>1. \A s \in Slots : s < count /\ s # k => ring[s].uid # row.uid
    BY <1>1, <1>2, <1>4, Zenon DEF RingSound
  <2>2. \A s \in Slots : ~(s < count) => ring[s].uid = 0
    BY <1>1 DEF RingSound, Blank
  <2> QED
    BY <1>2, <1>6, <2>1, <2>2
<1>8. \A i \in DOMAIN records : records[i].uid < row.uid /\ records[i].msg < row.msg
  BY <1>3, Zenon DEF NewerThanFile
<1>9. FileSound(Append(records, row), ring, nextUid, made) /\ Append(records, row) \in Seq(Row)
  BY <1>1, <1>5, <1>6, <1>7, <1>8, FileAppends, Zenon
<1> QED
  BY <1>2, <1>4, <1>5, <1>9, Zenon

(* The record of the newest row is newer than those of the file.           *)
LEMMA AppendRecordOrder ==
    ASSUME OneAdder, OrderIInv, NEW t \in StoreTask, AppendRecord(t)
    PROVE  OrderIInv'
<1>1. StoreTypeOK /\ RingSound /\ CountSound /\ SavedSound
  BY Zenon DEF OrderIInv
<1>2. PICK row, x : row = ring[task[t].slot] /\ x = [at |-> "header", msg |-> row.msg]
  BY Zenon
<1>3. /\ task[t].at = "save" /\ ready
      /\ records' = Append(records, row) /\ counted' = counted + 1 /\ task' = [task EXCEPT ![t] = x]
      /\ UNCHANGED <<ring, head, count, nextUid, made, ready, kept, failed>>
  BY <1>2, Zenon DEF AppendRecord, ringVars
<1>4. row \in Row /\ FileSound(records', ring, nextUid, made) /\ records' \in Seq(Row)
  BY <1>2, <1>3, SavedRow, Zenon
<1>5. Messages(records') = Messages(records) \cup {row.msg} /\ Len(records') = Len(records) + 1
  BY <1>1, <1>3, <1>4, MessagesAppend, Zenon DEF StoreTypeOK
<1>6. x \in TaskState /\ x.at = "header" /\ x.msg = row.msg
  BY <1>2, <1>4, Zenon DEF TaskState, Row
<1>7. t \in Adders
  BY <1>1, <1>3, StoringIsAdder, Zenon
<1>8. /\ task' \in [StoreTask -> TaskState] /\ task'[t] = x
      /\ \A u \in StoreTask : Storing(u)' => u \in Adders
  BY <1>1, <1>3, <1>6, <1>7, AdderStep, Zenon
<1>9. ~Swapping /\ ~Swapping'
  BY <1>1, <1>3, <1>6, <1>7, AdderStep, Zenon
<1>10. \A u \in StoreTask \ {t} : StepSound(u)'
  BY <1>1, <1>3, <1>6, <1>7, AdderStep, Zenon
<1>11. StoreTypeOK'
  BY <1>1, <1>3, <1>4, <1>8 DEF StoreTypeOK
<1>12. RingSound'
  BY <1>1, <1>3, Zenon DEF RingSound
<1>13. FileSound(records, ring, nextUid, made)'
  BY <1>3, <1>4, Zenon
<1>14. StepSound(t)'
  <2>1. row.msg \in Messages(records')
    BY <1>5, Zenon
  <2>2. task'[t].msg \in Messages(records')
    BY <1>6, <1>8, <2>1, Zenon
  <2> QED
    BY <1>3, <1>6, <1>8, <2>2, Zenon DEF StepSound, Messages
<1>15. CountSound'
  BY <1>1, <1>3, <1>5, <1>9 DEF CountSound, StoreTypeOK
<1>16. SavedSound'
  <2>1. ~failed' => kept' \subseteq Messages(records')
    BY <1>1, <1>3, <1>5, <1>9, Zenon DEF SavedSound
  <2>2. \A u \in StoreTask : task'[u].at # "swap"
    BY <1>9, Zenon DEF Swapping
  <2> QED
    BY <2>1, <2>2, Zenon DEF SavedSound, Messages
<1> QED
  BY <1>10, <1>11, <1>12, <1>13, <1>14, <1>15, <1>16, Zenon DEF OrderIInv

(* A failed save leaves the file, or an uncounted record in it.            *)
LEMMA AppendFailsOrder ==
    ASSUME OneAdder, OrderIInv, NEW t \in StoreTask, AppendFails(t)
    PROVE  OrderIInv'
<1>1. StoreTypeOK /\ RingSound /\ FileSound(records, ring, nextUid, made) /\ CountSound /\ SavedSound
  BY Zenon DEF OrderIInv
<1>2. PICK row, x : row = ring[task[t].slot] /\ x = Idle
  BY Zenon
<1>3. /\ task[t].at = "save"
      /\ records' = records \/ records' = Append(records, row)
      /\ task' = [task EXCEPT ![t] = x] /\ failed' = TRUE
      /\ UNCHANGED <<ring, head, count, nextUid, made, counted, ready, kept>>
  BY <1>2, Zenon DEF AppendFails, ringVars
<1>4. FileSound(records', ring, nextUid, made) /\ records' \in Seq(Row) /\ Len(records') >= Len(records)
  <2>1. row \in Row /\ FileSound(Append(records, row), ring, nextUid, made) /\ Append(records, row) \in Seq(Row)
    BY <1>2, <1>3, SavedRow, Zenon
  <2>2. records \in Seq(Row)
    BY <1>1, Zenon DEF StoreTypeOK
  <2>3. Len(Append(records, row)) = Len(records) + 1 /\ Len(records) \in Nat
    BY <2>1, <2>2
  <2>4. CASE records' = records
    BY <1>1, <2>2, <2>3, <2>4
  <2>5. CASE records' = Append(records, row)
    BY <2>1, <2>3, <2>5
  <2> QED
    BY <1>3, <2>4, <2>5, Zenon
<1>5. x \in TaskState /\ x.at = "idle"
  BY <1>2, Zenon DEF TaskState, Idle
<1>6. t \in Adders
  BY <1>1, <1>3, StoringIsAdder, Zenon
<1>7. /\ task' \in [StoreTask -> TaskState] /\ task'[t] = x
      /\ \A u \in StoreTask : Storing(u)' => u \in Adders
  BY <1>1, <1>3, <1>5, <1>6, AdderStep, Zenon
<1>8. ~Swapping /\ ~Swapping'
  BY <1>1, <1>3, <1>5, <1>6, AdderStep, Zenon
<1>9. \A u \in StoreTask \ {t} : StepSound(u)'
  BY <1>1, <1>3, <1>5, <1>6, AdderStep, Zenon
<1>10. StoreTypeOK'
  BY <1>1, <1>3, <1>4, <1>7, Zenon DEF StoreTypeOK
<1>11. RingSound'
  BY <1>1, <1>3, Zenon DEF RingSound
<1>12. FileSound(records, ring, nextUid, made)'
  BY <1>3, <1>4, Zenon
<1>13. StepSound(t)'
  BY <1>5, <1>7, Zenon DEF StepSound
<1>14. CountSound'
  BY <1>1, <1>3, <1>4, <1>8 DEF CountSound, StoreTypeOK
<1>15. SavedSound'
  BY <1>3, Zenon DEF SavedSound
<1> QED
  BY <1>9, <1>10, <1>11, <1>12, <1>13, <1>14, <1>15, Zenon DEF OrderIInv

(* The message saved is that of a record of the file.                      *)
LEMMA WriteHeaderOrder ==
    ASSUME OneAdder, OrderIInv, NEW t \in StoreTask, WriteHeader(t)
    PROVE  OrderIInv'
<1>1. StoreTypeOK /\ RingSound /\ FileSound(records, ring, nextUid, made) /\ CountSound /\ SavedSound
  BY Zenon DEF OrderIInv
<1>2. /\ task[t].at = "header" /\ ready /\ task[t].msg \in Messages(records)
      /\ UNCHANGED <<ring, head, count, nextUid, made, records, counted, ready, failed>>
  BY Zenon DEF WriteHeader, ringVars, OrderIInv, StepSound
<1>3. PICK x \in {Idle, [at |-> "roll"]} : task' = [task EXCEPT ![t] = x]
  BY Zenon DEF WriteHeader
<1>4. kept' \subseteq kept \cup {task[t].msg}
  BY Zenon DEF WriteHeader
<1>5. x \in TaskState /\ x.at \in {"idle", "roll"}
  BY <1>3 DEF TaskState, Idle
<1>6. t \in Adders
  BY <1>1, <1>2, StoringIsAdder, Zenon
<1>7. /\ task' \in [StoreTask -> TaskState] /\ task'[t] = x
      /\ \A u \in StoreTask : Storing(u)' => u \in Adders
  BY <1>1, <1>3, <1>5, <1>6, AdderStep, Zenon
<1>8. ~Swapping /\ ~Swapping'
  <2>1. (Swapping <=> task[t].at = "swap") /\ (Swapping' <=> x.at = "swap")
    BY <1>1, <1>3, <1>5, <1>6, AdderStep, Zenon
  <2> QED
    BY <1>2, <1>5, <2>1, Zenon
<1>9. \A u \in StoreTask \ {t} : StepSound(u)'
  BY <1>1, <1>3, <1>5, <1>6, AdderStep, Zenon
<1>10. StoreTypeOK'
  BY <1>1, <1>2, <1>7, Zenon DEF StoreTypeOK
<1>11. RingSound'
  BY <1>1, <1>2, Zenon DEF RingSound
<1>12. FileSound(records, ring, nextUid, made)'
  BY <1>1, <1>2, Zenon
<1>13. StepSound(t)'
  BY <1>2, <1>5, <1>7, Zenon DEF StepSound
<1>14. CountSound'
  BY <1>1, <1>2, <1>8, Zenon DEF CountSound
<1>15. SavedSound'
  <2>1. ~failed => kept' \subseteq Messages(records)
    BY <1>1, <1>2, <1>4, <1>8, Zenon DEF SavedSound
  <2>2. Messages(records)' = Messages(records)
    BY <1>2, Zenon DEF Messages
  <2>3. \A u \in StoreTask : task'[u].at # "swap"
    BY <1>8, Zenon DEF Swapping
  <2> QED
    BY <1>2, <2>1, <2>2, <2>3, Zenon DEF SavedSound
<1> QED
  BY <1>9, <1>10, <1>11, <1>12, <1>13, <1>14, <1>15, Zenon DEF OrderIInv

(* The copy a rollover makes of the file.                                  *)
LEMMA CopySound ==
    ASSUME OrderIInv, ready, ~Swapping, counted > PERSIST_MAX
    PROVE  /\ Copied \in Seq(Row) /\ Len(Copied) = KeepCount
           /\ FileSound(Copied, ring, nextUid, made)
           /\ counted = Len(records) => Copied = Newest(records)
           /\ \A i \in DOMAIN Copied : i + counted - KeepCount \in DOMAIN records
                                       /\ Copied[i] = records[i + counted - KeepCount]
<1>1. /\ FileSound(records, ring, nextUid, made) /\ records \in Seq(Row) /\ ring \in [Slots -> Row]
      /\ nextUid \in Nat /\ made \in Nat /\ counted \in Nat /\ counted <= Len(records)
  BY Zenon DEF OrderIInv, StoreTypeOK, CountSound
<1>2. KeepCount \in Nat /\ KeepCount <= PERSIST_MAX /\ PERSIST_MAX \in Nat
  BY KeepCountRange, StoreAssumption, Zenon
<1>3. PICK a \in Nat \ {0} : a = counted - KeepCount + 1
  BY <1>1, <1>2
<1>4. a <= counted + 1 /\ counted - a + 1 = KeepCount
  BY <1>1, <1>2, <1>3
<1>5. Copied = SubSeq(records, a, counted)
  BY <1>3, Zenon DEF Copied
<1>6. /\ Copied \in Seq(Row) /\ Len(Copied) = counted - a + 1
      /\ FileSound(Copied, ring, nextUid, made)
      /\ \A i \in DOMAIN Copied : i + a - 1 \in DOMAIN records /\ Copied[i] = records[i + a - 1]
  BY <1>1, <1>4, <1>5, FilePart
<1>7. DOMAIN Copied \subseteq Nat
  BY <1>6
<1>8. \A i \in DOMAIN Copied : i + a - 1 = i + counted - KeepCount
  BY <1>1, <1>2, <1>3, <1>7
<1>9. counted = Len(records) => Copied = Newest(records)
  BY Zenon DEF Copied, Newest
<1> QED
  BY <1>4, <1>6, <1>8, <1>9, Zenon

(* The copy is a part of the file, in its order.                           *)
LEMMA RolloverOrder ==
    ASSUME OneAdder, OrderIInv, NEW t \in StoreTask, Rollover(t)
    PROVE  OrderIInv'
<1>1. StoreTypeOK /\ RingSound /\ FileSound(records, ring, nextUid, made) /\ CountSound /\ SavedSound
  BY Zenon DEF OrderIInv
<1>2. /\ task[t].at = "roll" /\ ready
      /\ UNCHANGED <<ring, head, count, nextUid, made, counted, ready, failed>>
  BY SMTT(30) DEF Rollover, ringVars, OrderIInv, StepSound
<1>3. t \in Adders
  BY <1>1, <1>2, StoringIsAdder, Zenon
<1>4. RingSound'
  BY <1>1, <1>2, Zenon DEF RingSound
<1>5. CASE records' = records /\ kept' = kept /\ task' = [task EXCEPT ![t] = Idle]
  <2>0. Idle \in TaskState /\ Idle.at = "idle"
    BY Zenon DEF TaskState, Idle
  <2>1. PICK x \in TaskState : x = Idle /\ x.at = "idle"
    BY <2>0, Zenon
  <2>2. /\ task' \in [StoreTask -> TaskState] /\ task'[t] = x
        /\ \A u \in StoreTask : Storing(u)' => u \in Adders
    BY <1>1, <1>3, <1>5, <2>1, AdderStep, Zenon
  <2>3. ~Swapping /\ ~Swapping'
    BY <1>1, <1>2, <1>3, <1>5, <2>1, AdderStep, Zenon
  <2>4. \A u \in StoreTask \ {t} : StepSound(u)'
    BY <1>1, <1>3, <1>5, <2>1, AdderStep, Zenon
  <2>5. StoreTypeOK'
    BY <1>1, <1>2, <1>5, <2>2, Zenon DEF StoreTypeOK
  <2>6. FileSound(records, ring, nextUid, made)'
    BY <1>1, <1>2, <1>5, Zenon
  <2>7. StepSound(t)'
    BY <2>1, <2>2, Zenon DEF StepSound
  <2>8. CountSound'
    BY <1>1, <1>2, <1>5, <2>3, Zenon DEF CountSound
  <2>9. SavedSound'
    BY <1>1, <1>2, <1>5, <2>3, Zenon DEF SavedSound, Swapping, Messages
  <2> QED
    BY <1>4, <2>4, <2>5, <2>6, <2>7, <2>8, <2>9, Zenon DEF OrderIInv
<1>6. CASE /\ counted > PERSIST_MAX
           /\ task' = [task EXCEPT ![t] = [at |-> "swap", copy |-> Copied]]
           /\ records' = <<>> /\ kept' = kept \cap Messages(Newest(records))
  <2>1. PICK x : x = [at |-> "swap", copy |-> Copied]
    BY Zenon
  <2>2. ~Swapping
    <3>1. task[t].at # "swap"
      BY <1>2, Zenon
    <3>2. \A u \in StoreTask : task[u].at = "swap" => u \in Adders
      BY <1>1, StoringIsAdder, Zenon
    <3>3. \A u \in StoreTask : task[u].at = "swap" => u = t
      BY <1>3, <3>2, Zenon DEF OneAdder
    <3> QED
      BY <3>1, <3>3, Zenon DEF Swapping
  <2>3. /\ Copied \in Seq(Row) /\ Len(Copied) = KeepCount
        /\ FileSound(Copied, ring, nextUid, made)
        /\ counted = Len(records) => Copied = Newest(records)
    BY <1>2, <1>6, <2>2, CopySound, Zenon
  <2>4. x \in TaskState /\ x.at = "swap" /\ x.copy = Copied
    BY <2>1, <2>3, Zenon DEF TaskState
  <2>5. task' = [task EXCEPT ![t] = x]
    BY <1>6, <2>1, Zenon
  <2>6. /\ task' \in [StoreTask -> TaskState] /\ task'[t] = x
        /\ \A u \in StoreTask : Storing(u)' => u \in Adders
    BY <1>1, <1>3, <2>4, <2>5, AdderStep, Zenon
  <2>7. Swapping'
    BY <1>1, <1>3, <2>4, <2>5, AdderStep, Zenon
  <2>8. \A u \in StoreTask \ {t} : StepSound(u)' /\ ~Storing(u)'
    BY <1>1, <1>3, <2>4, <2>5, AdderStep, Zenon
  <2>9. StoreTypeOK'
    <3>1. <<>> \in Seq(Row)
      OBVIOUS
    <3> QED
      BY <1>1, <1>2, <1>6, <2>6, <3>1, Zenon DEF StoreTypeOK
  <2>10. FileSound(records, ring, nextUid, made)'
    <3>1. FileSound(<<>>, ring, nextUid, made)
      BY SMTT(30) DEF FileSound
    <3> QED
      BY <1>2, <1>6, <3>1, Zenon
  <2>11. StepSound(t)'
    <3>1. FileSound(x.copy, ring', nextUid', made')
      BY <1>2, <2>3, <2>4, Zenon
    <3> QED
      BY <1>2, <1>6, <2>3, <2>4, <2>6, <3>1, Zenon DEF StepSound, KeepCount
  <2>12. CountSound'
    BY <1>1, <1>2, <2>7, Zenon DEF CountSound
  <2>13. SavedSound'
    <3>1. ~failed => kept' \subseteq Messages(x.copy)
      BY <1>1, <1>6, <2>2, <2>3, <2>4, Zenon DEF CountSound
    <3>2. \A u \in StoreTask : task'[u].at = "swap" => task'[u] = x
      BY <2>6, <2>8, Zenon DEF Storing
    <3> QED
      BY <1>2, <2>7, <3>1, <3>2, Zenon DEF SavedSound, Messages
  <2> QED
    BY <1>4, <2>8, <2>9, <2>10, <2>11, <2>12, <2>13, Zenon DEF OrderIInv
<1> QED
  BY <1>5, <1>6, Zenon DEF Rollover, flash

(* The copy becomes the file, or is lost and the store unusable.           *)
LEMMA RenameOrder ==
    ASSUME OneAdder, OrderIInv, NEW t \in StoreTask, Rename(t)
    PROVE  OrderIInv'
<1>1. StoreTypeOK /\ RingSound /\ FileSound(records, ring, nextUid, made) /\ CountSound /\ SavedSound
  BY Zenon DEF OrderIInv
<1>2. /\ task[t].at = "swap" /\ task[t] \in TaskState /\ StepSound(t)
      /\ UNCHANGED <<ring, head, count, nextUid, made>>
  BY Zenon DEF Rename, ringVars, OrderIInv, StoreTypeOK
<1>3. PICK copy, x : copy = task[t].copy /\ x = Idle
  BY Zenon
<1>4. /\ ready /\ records = <<>> /\ Len(copy) = KeepCount /\ FileSound(copy, ring, nextUid, made)
      /\ copy \in Seq(Row)
  BY <1>2, <1>3, TaskFields, Zenon DEF StepSound
<1>5. t \in Adders
  BY <1>1, <1>2, StoringIsAdder, Zenon
<1>6. x \in TaskState /\ x.at = "idle" /\ task' = [task EXCEPT ![t] = x]
  BY <1>3, Zenon DEF TaskState, Idle, Rename
<1>7. /\ task' \in [StoreTask -> TaskState] /\ task'[t] = x
      /\ \A u \in StoreTask : Storing(u)' => u \in Adders
  BY <1>1, <1>5, <1>6, AdderStep, Zenon
<1>8. Swapping /\ ~Swapping'
  <2>1. (Swapping <=> task[t].at = "swap") /\ (Swapping' <=> x.at = "swap")
    BY <1>1, <1>5, <1>6, AdderStep, Zenon
  <2> QED
    BY <1>2, <1>6, <2>1, Zenon
<1>9. \A u \in StoreTask : StepSound(u)'
  <2>1. \A u \in StoreTask \ {t} : StepSound(u)'
    BY <1>1, <1>5, <1>6, AdderStep, Zenon
  <2>2. StepSound(t)'
    BY <1>6, <1>7, Zenon DEF StepSound
  <2> QED
    BY <2>1, <2>2, Zenon
<1>10. RingSound'
  BY <1>1, <1>2, Zenon DEF RingSound
<1>11. KeepCount \in Nat
  BY KeepCountRange, Zenon
<1>12. \A u \in StoreTask : task'[u].at # "swap"
  BY <1>8, Zenon DEF Swapping
<1>13. CASE records' = copy /\ counted' = KeepCount /\ UNCHANGED <<ready, kept, failed>>
  <2>1. StoreTypeOK'
    BY <1>1, <1>2, <1>4, <1>7, <1>11, <1>13, Zenon DEF StoreTypeOK
  <2>2. FileSound(records, ring, nextUid, made)'
    BY <1>2, <1>4, <1>13, Zenon
  <2>3. CountSound'
    BY <1>1, <1>4, <1>11, <1>13 DEF CountSound
  <2>4. SavedSound'
    <3>1. ~failed => kept \subseteq Messages(copy)
      BY <1>1, <1>2, <1>3, Zenon DEF SavedSound
    <3>2. Messages(records)' = Messages(copy)
      BY <1>13, Zenon DEF Messages
    <3> QED
      BY <1>12, <1>13, <3>1, <3>2, Zenon DEF SavedSound
  <2> QED
    BY <1>9, <1>10, <2>1, <2>2, <2>3, <2>4, Zenon DEF OrderIInv
<1>14. CASE ready' = FALSE /\ failed' = TRUE /\ kept' = {} /\ UNCHANGED <<records, counted>>
  <2>1. StoreTypeOK'
    BY <1>1, <1>2, <1>7, <1>14, Zenon DEF StoreTypeOK
  <2>2. FileSound(records, ring, nextUid, made)'
    BY <1>1, <1>2, <1>14, Zenon
  <2>3. CountSound'
    BY <1>14, Zenon DEF CountSound
  <2>4. SavedSound'
    BY <1>14, Zenon DEF SavedSound
  <2> QED
    BY <1>9, <1>10, <2>1, <2>2, <2>3, <2>4, Zenon DEF OrderIInv
<1> QED
  BY <1>3, <1>13, <1>14, Zenon DEF Rename

(* A step of a task that changes a status: nobody starts or stops storing. *)
LEMMA UpdaterStep ==
    ASSUME StoreTypeOK, NEW t \in StoreTask, NEW x \in TaskState, task' = [task EXCEPT ![t] = x],
           task[t].at \in {"idle", "update"}, x.at \in {"idle", "update"}
    PROVE  /\ task' \in [StoreTask -> TaskState] /\ task'[t] = x
           /\ \A u \in StoreTask \ {t} : task'[u] = task[u]
           /\ \A u \in StoreTask : Storing(u)' <=> Storing(u)
           /\ \A u \in StoreTask : Storing(u)' => u \in Adders /\ task'[u] = task[u]
           /\ Swapping' <=> Swapping
           /\ Saving' <=> Saving
<1>1. task' \in [StoreTask -> TaskState] /\ task'[t] = x /\ \A u \in StoreTask \ {t} : task'[u] = task[u]
  BY Zenon DEF StoreTypeOK
<1>2. ~Storing(t) /\ ~Storing(t)'
  BY <1>1, Zenon DEF Storing
<1>3. \A u \in StoreTask : (Storing(u)' <=> Storing(u)) /\ (Storing(u)' => task'[u] = task[u])
  <2>1. \A u \in StoreTask \ {t} : Storing(u)' <=> Storing(u)
    BY <1>1, Zenon DEF Storing
  <2> QED
    BY <1>1, <1>2, <2>1, Zenon
<1>4. \A u \in StoreTask : Storing(u)' => u \in Adders
  BY <1>3, Zenon DEF StoreTypeOK
<1>5. \A u \in StoreTask : (task'[u].at = "swap" <=> task[u].at = "swap") /\ (task'[u].at = "save" <=> task[u].at = "save")
  BY <1>1, Zenon
<1>6. Swapping' <=> Swapping
  BY <1>5, Zenon DEF Swapping
<1>7. Saving' <=> Saving
  BY <1>5, Zenon DEF Saving
<1> QED
  BY <1>1, <1>3, <1>4, <1>6, <1>7, Zenon

(* An update changes no uid and no message.                                *)
LEMMA UpdateRowOrder ==
    ASSUME OrderIInv, NEW t \in StoreTask, UpdateRow(t)
    PROVE  OrderIInv'
<1>1. StoreTypeOK /\ RingSound /\ FileSound(records, ring, nextUid, made) /\ CountSound /\ SavedSound
  BY Zenon DEF OrderIInv
<1>2. /\ nextUid \in Nat \ {0} /\ made \in Nat /\ head \in Slots /\ count \in 0 .. MSG_STORE_MAX
      /\ ring \in [Slots -> Row] /\ records \in Seq(Row) /\ MSG_STORE_MAX \in Nat \ {0}
  BY <1>1, StoreAssumption, Zenon DEF StoreTypeOK
<1>3. PICK i \in 0 .. count - 1, new \in {"queued", "delivered", "failed"} :
          /\ ring' = [ring EXCEPT ![RowIndex(i)].status = new]
          /\ task' = [task EXCEPT ![t] = [at |-> "update", slot |-> RowIndex(i), fromEnd |-> i,
                                          made |-> made, raced |-> Busy(t)]]
  BY Zenon DEF UpdateRow
<1>4. /\ task[t].at = "idle"
      /\ UNCHANGED <<head, count, nextUid, made, records, counted, ready, kept, failed>>
  BY DEF UpdateRow, flash, Idle
<1>5. PICK k, x : k = RowIndex(i) /\ x = [at |-> "update", slot |-> RowIndex(i), fromEnd |-> i,
                                         made |-> made, raced |-> Busy(t)]
  BY Zenon
<1>6. k \in Slots /\ k < count
  <2>1. k = Place(head, i) /\ (count < MSG_STORE_MAX => head = count)
    BY <1>1, <1>5, Zenon DEF RowIndex, Place, RingSound
  <2> QED
    BY <1>2, <2>1, PlacesInUse, Zenon
<1>7. Busy(t) \in BOOLEAN
  BY Zenon DEF Busy
<1>8. x \in TaskState /\ x.at = "update"
  <2>1. x \in [at : {"update"}, slot : Slots, fromEnd : Nat, made : Nat, raced : BOOLEAN]
    BY <1>2, <1>5, <1>6, <1>7
  <2> QED
    BY <1>5, <2>1, Zenon DEF TaskState
<1>9. task' = [task EXCEPT ![t] = x]
  BY <1>3, <1>5, Zenon
<1>10. /\ task' \in [StoreTask -> TaskState] /\ task'[t] = x
       /\ \A u \in StoreTask : Storing(u)' => u \in Adders /\ task'[u] = task[u]
       /\ Swapping' <=> Swapping
  BY <1>1, <1>4, <1>8, <1>9, UpdaterStep, Zenon
<1>11. /\ ring' \in [Slots -> Row]
       /\ \A s \in Slots : ring'[s].uid = ring[s].uid /\ ring'[s].msg = ring[s].msg
       /\ \A s \in Slots : s # k => ring'[s] = ring[s]
  <2>1. ring' = [ring EXCEPT ![k] = [ring[k] EXCEPT !.status = new]]
    BY <1>3, <1>5, Zenon
  <2>2. [ring[k] EXCEPT !.status = new] \in Row
    BY <1>2, <1>6, Zenon DEF Row
  <2>3. [ring[k] EXCEPT !.status = new].uid = ring[k].uid /\ [ring[k] EXCEPT !.status = new].msg = ring[k].msg
    BY <1>2, <1>6, Zenon DEF Row
  <2> QED
    BY <1>2, <2>1, <2>2, <2>3, Zenon
<1>12. StoreTypeOK'
  BY <1>1, <1>4, <1>10, <1>11, Zenon DEF StoreTypeOK
<1>13. RingSound'
  <2>1. \A s \in Slots : ~(s < count) => ring'[s] = Blank
    BY <1>1, <1>6, <1>11, Zenon DEF RingSound
  <2> QED
    BY <1>1, <1>4, <1>11, <2>1 DEF RingSound
<1>14. ASSUME NEW f \in Seq(Row), FileSound(f, ring, nextUid, made)
       PROVE  FileSound(f, ring', nextUid', made')
  <2>1. FileSound(f, ring', nextUid, made)
    BY <1>2, <1>11, <1>14, SMTT(30) DEF FileSound
  <2> QED
    BY <1>4, <2>1, Zenon
<1>15. FileSound(records, ring, nextUid, made)'
  BY <1>1, <1>2, <1>4, <1>14, Zenon
<1>16. ASSUME NEW u \in StoreTask PROVE StepSound(u)'
  <2>1. CASE ~Storing(u)'
    BY <2>1, Zenon DEF Storing, StepSound
  <2>2. CASE Storing(u)'
    <3>1. task'[u] = task[u] /\ StepSound(u) /\ task[u] \in TaskState
      BY <1>1, <1>10, <2>2, Zenon DEF OrderIInv, StoreTypeOK
    <3>2. task[u].at = "write" => StepSound(u)'
      BY <1>4, <1>11, <3>1, Zenon DEF StepSound, NewerThanFile
    <3>3. task[u].at = "save" => StepSound(u)'
      <4>1. task[u].at = "save" => task[u].slot \in Slots
        BY <3>1, TaskFields, Zenon
      <4>2. RowIndex(0)' = RowIndex(0)
        BY <1>4, Zenon DEF RowIndex
      <4> QED
        BY <1>4, <1>11, <3>1, <4>1, <4>2, Zenon DEF StepSound, NewerThanFile
    <3>4. task[u].at = "header" => StepSound(u)'
      <4>1. Messages(records)' = Messages(records)
        BY <1>4, Zenon DEF Messages
      <4> QED
        BY <1>4, <3>1, <4>1, Zenon DEF StepSound
    <3>5. task[u].at = "roll" => StepSound(u)'
      BY <1>4, <3>1, Zenon DEF StepSound
    <3>6. task[u].at = "swap" => StepSound(u)'
      <4>1. task[u].at = "swap" => task[u].copy \in Seq(Row) /\ FileSound(task[u].copy, ring, nextUid, made)
        BY <3>1, TaskFields, Zenon DEF StepSound
      <4>2. task[u].at = "swap" => FileSound(task[u].copy, ring', nextUid', made')
        BY <1>14, <4>1, Zenon
      <4> QED
        BY <1>4, <3>1, <4>2, Zenon DEF StepSound, KeepCount
    <3>7. task[u].at \in {"write", "save", "header", "roll", "swap"}
      BY <2>2, <3>1 DEF Storing, TaskState, Idle
    <3> QED
      BY <3>2, <3>3, <3>4, <3>5, <3>6, <3>7, Zenon
  <2> QED
    BY <2>1, <2>2, Zenon
<1>17. CountSound'
  BY <1>1, <1>4, <1>10, Zenon DEF CountSound
<1>18. SavedSound'
  <2>1. \A u \in StoreTask : task'[u].at = "swap" => task'[u] = task[u]
    BY <1>10, Zenon DEF Storing
  <2>2. Messages(records)' = Messages(records)
    BY <1>4, Zenon DEF Messages
  <2>3. \A u \in StoreTask : task'[u].at = "swap" => Messages(task[u].copy)' = Messages(task[u].copy)
    BY <2>1, Zenon DEF Messages
  <2> QED
    BY <1>1, <1>4, <1>10, <2>1, <2>2, <2>3, Zenon DEF SavedSound
<1> QED
  BY <1>12, <1>13, <1>15, <1>16, <1>17, <1>18, Zenon DEF OrderIInv

(* What a write-through leaves as it was: it changes at most the status of *)
(* the record of its own row.                                              *)
LEMMA UpdatedFile ==
    ASSUME OrderIInv, NEW t \in StoreTask, UpdateRecord(t)
    PROVE  /\ task[t].at = "update" /\ task[t].slot \in Slots /\ ~Swapping
           /\ \A u \in StoreTask : task[u].at # "header"
           /\ task' = [task EXCEPT ![t] = Idle]
           /\ UNCHANGED <<ring, head, count, nextUid, made, counted, ready, kept, failed>>
           /\ records' \in Seq(Row) /\ FileSound(records', ring, nextUid, made)
           /\ DOMAIN records' = DOMAIN records /\ Len(records') = Len(records)
           /\ \A i \in DOMAIN records : records'[i].uid = records[i].uid /\ records'[i].msg = records[i].msg
           /\ Messages(records') = Messages(records)
<1>1. /\ task[t].at = "update" /\ FileFree(t) /\ task' = [task EXCEPT ![t] = Idle]
      /\ UNCHANGED <<ring, head, count, nextUid, made, counted, ready, kept, failed>>
  BY Zenon DEF UpdateRecord, ringVars
<1>2. \A u \in StoreTask : task[u].at \notin {"header", "swap"}
  BY <1>1, Zenon DEF FileFree
<1>3. ~Swapping /\ \A u \in StoreTask : task[u].at # "header"
  BY <1>2, Zenon DEF Swapping
<1>4. /\ task[t] \in TaskState /\ records \in Seq(Row) /\ ring \in [Slots -> Row] /\ nextUid \in Nat /\ made \in Nat
      /\ FileSound(records, ring, nextUid, made)
  BY Zenon DEF OrderIInv, StoreTypeOK
<1>5. task[t].slot \in Slots
  BY <1>1, <1>4, TaskFields, Zenon
<1>6. PICK s, at : s = task[t].slot /\ at = RecordIndex(task[t].fromEnd)
  BY Zenon
<1>7. \/ records' = records
      \/ at \in 1 .. Len(records) /\ records[at].uid = ring[s].uid /\ records' = [records EXCEPT ![at] = ring[s]]
  BY <1>6, Zenon DEF UpdateRecord, RecordMatches
<1>8. CASE records' = records
  BY <1>1, <1>3, <1>4, <1>5, <1>8, Zenon
<1>9. CASE at \in 1 .. Len(records) /\ records[at].uid = ring[s].uid /\ records' = [records EXCEPT ![at] = ring[s]]
  <2>1. at \in DOMAIN records /\ s \in Slots
    BY <1>4, <1>5, <1>6, <1>9
  <2>2. records' \in Seq(Row) /\ DOMAIN records' = DOMAIN records
        /\ \A i \in DOMAIN records : records'[i] = IF i = at THEN ring[s] ELSE records[i]
    BY <1>4, <1>9, <2>1
  <2>3. /\ FileSound(records', ring, nextUid, made)
        /\ Messages(records') = Messages(records) /\ records[at].msg = ring[s].msg
    <3>1. records[at].uid = ring[s].uid
      BY <1>9, Zenon
    <3> QED
      BY <1>4, <2>1, <2>2, <3>1, FileUpdates, SMTT(30)
  <2>4. Len(records') = Len(records)
    BY <1>4, <2>2, <2>3
  <2> QED
    BY <1>1, <1>3, <1>5, <1>9, <2>2, <2>3, <2>4, Zenon
<1> QED
  BY <1>7, <1>8, <1>9, Zenon

(* A write-through changes no uid and no message.                          *)
LEMMA UpdateRecordOrder ==
    ASSUME OrderIInv, NEW t \in StoreTask, UpdateRecord(t)
    PROVE  OrderIInv'
<1>1. StoreTypeOK /\ RingSound /\ CountSound /\ SavedSound
  BY Zenon DEF OrderIInv
<1>2. /\ task[t].at = "update" /\ ~Swapping /\ \A u \in StoreTask : task[u].at # "header"
      /\ UNCHANGED <<ring, head, count, nextUid, made, counted, ready, kept, failed>>
      /\ records' \in Seq(Row) /\ FileSound(records', ring, nextUid, made)
      /\ DOMAIN records' = DOMAIN records /\ Len(records') = Len(records)
      /\ \A i \in DOMAIN records : records'[i].uid = records[i].uid /\ records'[i].msg = records[i].msg
      /\ Messages(records') = Messages(records)
  BY UpdatedFile, Zenon
<1>3. PICK x : x = Idle /\ task' = [task EXCEPT ![t] = x]
  BY UpdatedFile, Zenon
<1>4. x \in TaskState /\ x.at = "idle"
  BY <1>3, Zenon DEF TaskState, Idle
<1>5. /\ task' \in [StoreTask -> TaskState] /\ task'[t] = x
      /\ \A u \in StoreTask : Storing(u)' => u \in Adders /\ task'[u] = task[u]
      /\ Swapping' <=> Swapping
  BY <1>1, <1>2, <1>3, <1>4, UpdaterStep, Zenon
<1>6. StoreTypeOK'
  BY <1>1, <1>2, <1>5, Zenon DEF StoreTypeOK
<1>7. RingSound'
  BY <1>1, <1>2, Zenon DEF RingSound
<1>8. FileSound(records, ring, nextUid, made)'
  BY <1>2, Zenon
<1>9. ASSUME NEW u \in StoreTask PROVE StepSound(u)'
  <2>1. CASE ~Storing(u)'
    BY <2>1, Zenon DEF Storing, StepSound
  <2>2. CASE Storing(u)'
    <3>1. task'[u] = task[u] /\ StepSound(u) /\ task[u] \in TaskState
      BY <1>1, <1>5, <2>2, Zenon DEF OrderIInv, StoreTypeOK
    <3>2. task[u].at = "write" => StepSound(u)'
      BY <1>2, <3>1, Zenon DEF StepSound, NewerThanFile
    <3>3. task[u].at = "save" => StepSound(u)'
      <4>1. RowIndex(0)' = RowIndex(0)
        BY <1>2, Zenon DEF RowIndex
      <4> QED
        BY <1>2, <3>1, <4>1, Zenon DEF StepSound, NewerThanFile
    <3>4. task[u].at = "roll" => StepSound(u)'
      BY <1>2, <3>1, Zenon DEF StepSound
    <3>5. task[u].at # "header" /\ task[u].at # "swap"
      BY <1>2, Zenon DEF Swapping
    <3>6. task[u].at \in {"write", "save", "roll"}
      BY <2>2, <3>1, <3>5, SMTT(30) DEF Storing, TaskState, Idle
    <3> QED
      BY <3>2, <3>3, <3>4, <3>6, Zenon
  <2> QED
    BY <2>1, <2>2, Zenon
<1>10. CountSound'
  BY <1>1, <1>2, <1>5, Zenon DEF CountSound
<1>11. SavedSound'
  <2>1. Messages(records)' = Messages(records')
    BY Zenon DEF Messages
  <2>2. \A u \in StoreTask : task'[u].at # "swap"
    BY <1>2, <1>5, Zenon DEF Swapping
  <2>3. ~failed => kept \subseteq Messages(records)
    BY <1>1, <1>2, Zenon DEF SavedSound
  <2> QED
    BY <1>2, <2>1, <2>2, <2>3, Zenon DEF SavedSound
<1> QED
  BY <1>6, <1>7, <1>8, <1>9, <1>10, <1>11, Zenon DEF OrderIInv

-----------------------------------------------------------------------------
(* The largest of a set that has one.                                      *)
LEMMA LargestOf ==
    ASSUME NEW S \in SUBSET Int, NEW x \in S, \A y \in S : y <= x
    PROVE  Max(S) = x
<1>1. \A z \in S : (\A y \in S : z >= y) => z = x
  OBVIOUS
<1>2. \A y \in S : x >= y
  BY Zenon
<1> QED
  BY <1>1, <1>2, Zenon DEF Max

(* The ring a boot fills with the newest records.                          *)
LEMMA BootedRing ==
    ASSUME OrderIInv, Boot
    PROVE  \E load \in 0 .. MSG_STORE_MAX :
              /\ load <= Len(records) /\ (load < MSG_STORE_MAX => load = Len(records))
              /\ count' = load /\ head' = load % MSG_STORE_MAX
              /\ counted' = Len(records)
              /\ ring' = [s \in Slots |-> IF s < load THEN records[Len(records) - load + s + 1] ELSE Blank]
              /\ nextUid' \in Nat \ {0}
              /\ \A i \in DOMAIN records : records[i].uid < nextUid'
<1>1. records \in Seq(Row) /\ FileSound(records, ring, nextUid, made) /\ MSG_STORE_MAX \in Nat \ {0} /\ nextUid \in Nat
  BY StoreAssumption, Zenon DEF OrderIInv, StoreTypeOK
<1>2. PICK n \in Nat, load \in Nat : n = Len(records) /\ load = Min({n, MSG_STORE_MAX})
                                  /\ load = IF n <= MSG_STORE_MAX THEN n ELSE MSG_STORE_MAX
  <2>1. Len(records) \in Nat
    BY <1>1
  <2>2. Min({Len(records), MSG_STORE_MAX}) = IF Len(records) <= MSG_STORE_MAX THEN Len(records) ELSE MSG_STORE_MAX
    BY <1>1, <2>1, SmallerOfTwo
  <2> QED
    BY <1>1, <2>1, <2>2, Zenon
<1>3. /\ count' = load /\ head' = load % MSG_STORE_MAX /\ counted' = n
      /\ ring' = [s \in Slots |-> IF s < load THEN records[n - load + s + 1] ELSE Blank]
      /\ nextUid' = ResumeUid({records[n - load + s + 1] : s \in 0 .. load - 1})
  BY <1>2, Zenon DEF Boot, RecordsFound, Slots
<1>4. PICK U : U = {row.uid : row \in {records[n - load + s + 1] : s \in 0 .. load - 1}} \cup {0}
  BY Zenon
<1>5. nextUid' = Max(U) + 1
  BY <1>3, <1>4, Zenon DEF ResumeUid
<1>6. \A s \in 0 .. load - 1 : n - load + s + 1 \in DOMAIN records
  BY <1>1, <1>2, SMTT(30)
<1>7. \A i \in DOMAIN records : records[i].uid \in Nat
  BY <1>1, RecordType, Zenon
<1>8. U \subseteq Nat
  BY <1>4, <1>6, <1>7
<1>9. nextUid' \in Nat \ {0} /\ \A i \in DOMAIN records : records[i].uid < nextUid'
  <2>1. CASE n = 0
    <3>1. load = 0
      BY <1>2, <2>1
    <3>2. U = {0}
      BY <1>4, <3>1
    <3>3. Max(U) = 0
      BY <3>2, LargestOf
    <3>4. \A i \in DOMAIN records : i \in 1 .. n
      BY <1>1, <1>2
    <3>5. \A i \in 1 .. n : FALSE
      BY <2>1
    <3>6. nextUid' = 1
      BY <1>5, <3>3
    <3> QED
      BY <3>4, <3>5, <3>6
  <2>2. CASE n > 0
    <3>1. load > 0 /\ load - 1 \in 0 .. load - 1 /\ n - load + (load - 1) + 1 = n /\ n \in DOMAIN records
      BY <1>1, <1>2, <2>2
    <3>2. PICK x : x = records[n].uid
      BY Zenon
    <3>3. x \in U /\ x \in Nat
      BY <1>4, <1>7, <3>1, <3>2, Zenon
    <3>4. \A i \in DOMAIN records : records[i].uid <= x
      <4>1. \A i \in DOMAIN records : i < n \/ i = n
        BY <1>1, <1>2
      <4>2. \A i \in DOMAIN records : i < n => records[i].uid < x
        BY <1>1, <3>1, <3>2, Zenon DEF FileSound
      <4> QED
        BY <1>7, <3>1, <3>2, <4>1, <4>2
    <3>5. \A y \in U : y <= x
      BY <1>4, <1>6, <1>7, <3>3, <3>4
    <3>6. U \in SUBSET Int
      BY <1>8
    <3>7. Max(U) = x
      BY <3>3, <3>5, <3>6, LargestOf, Zenon
    <3> QED
      BY <1>5, <1>7, <3>3, <3>4, <3>7
  <2> QED
    BY <1>2, <2>1, <2>2
<1>10. load \in 0 .. MSG_STORE_MAX /\ load <= n /\ (load < MSG_STORE_MAX => load = n)
  BY <1>1, <1>2
<1> QED
  BY <1>2, <1>3, <1>9, <1>10, Zenon

(* The ring is loaded in the order of the file, uids resume above it.      *)
LEMMA BootOrder ==
    ASSUME OrderIInv, Boot
    PROVE  OrderIInv'
<1>1. /\ records \in Seq(Row) /\ FileSound(records, ring, nextUid, made) /\ MSG_STORE_MAX \in Nat \ {0}
      /\ nextUid \in Nat /\ made \in Nat /\ SavedSound
  BY StoreAssumption, Zenon DEF OrderIInv, StoreTypeOK
<1>2. PICK n \in Nat : n = Len(records)
  BY <1>1
<1>3. PICK load \in 0 .. MSG_STORE_MAX :
          /\ load <= n /\ (load < MSG_STORE_MAX => load = n)
          /\ count' = load /\ head' = load % MSG_STORE_MAX
          /\ counted' = n
          /\ ring' = [s \in Slots |-> IF s < load THEN records[n - load + s + 1] ELSE Blank]
          /\ nextUid' \in Nat \ {0}
          /\ \A i \in DOMAIN records : records[i].uid < nextUid'
  BY <1>2, BootedRing, Zenon
<1>4. /\ ready' = TRUE /\ failed' = FALSE /\ records' = records /\ made' = made
      /\ task' = [t \in StoreTask |-> Idle]
      /\ kept' = IF Swapping THEN {} ELSE IF failed THEN kept \cap Messages(records) ELSE kept
  BY Zenon DEF Boot, flash, Swapping
<1>5. head' = (IF load < MSG_STORE_MAX THEN load ELSE 0) /\ head' \in Slots
  <2>1. load \in -MSG_STORE_MAX .. MSG_STORE_MAX + MSG_STORE_MAX - 1
    BY <1>1
  <2>2. load % MSG_STORE_MAX = IF load < 0 THEN load + MSG_STORE_MAX
                               ELSE IF load < MSG_STORE_MAX THEN load ELSE load - MSG_STORE_MAX
    BY <1>1, <2>1, RingRemainder, Zenon
  <2> QED
    BY <1>1, <1>3, <2>2 DEF Slots
<1>6. \A s \in Slots : s < load => /\ n - load + s + 1 \in DOMAIN records
                                 /\ ring'[s] = records[n - load + s + 1]
  <2>1. \A s \in Slots : s < load => n - load + s + 1 \in DOMAIN records
    BY <1>1, <1>2, <1>3, SMTT(30) DEF Slots
  <2> QED
    BY <1>3, <2>1, Zenon
<1>7. \A s \in Slots : ~(s < load) => ring'[s] = Blank
  BY <1>3, Zenon
<1>8. ring' \in [Slots -> Row]
  <2>1. Blank \in Row
    BY Zenon DEF Blank, Row
  <2>2. \A i \in DOMAIN records : records[i] \in Row
    BY <1>1
  <2>3. \A s \in Slots : ring'[s] \in Row
    BY <1>6, <1>7, <2>1, <2>2, Zenon
  <2> QED
    BY <1>3, <2>3, Zenon
<1>9. Idle \in TaskState /\ Idle.at = "idle"
  BY Zenon DEF TaskState, Idle
<1>10. \A t \in StoreTask : task'[t] = Idle
  BY <1>4, Zenon
<1>11. \A t \in StoreTask : ~Storing(t)' /\ StepSound(t)' /\ task'[t].at # "swap"
  BY <1>9, <1>10, Zenon DEF Storing, StepSound
<1>12. StoreTypeOK'
  <2>1. task' \in [StoreTask -> TaskState]
    BY <1>4, <1>9, Zenon
  <2> QED
    BY <1>1, <1>2, <1>3, <1>4, <1>5, <1>8, <1>11, <2>1, Zenon DEF StoreTypeOK
<1>13. \A i \in DOMAIN records : records[i].uid \in 1 .. nextUid' - 1 /\ records[i].msg <= made
  <2>1. \A i \in DOMAIN records : records[i].uid \in Nat /\ records[i].uid >= 1 /\ records[i].msg <= made
    BY <1>1, RecordType DEF FileSound
  <2> QED
    BY <1>3, <2>1
<1>14. \A i \in DOMAIN records, j \in DOMAIN records : i # j => records[i].uid # records[j].uid
  <2>1. \A i \in DOMAIN records, j \in DOMAIN records : i < j => records[i].uid # records[j].uid
    BY <1>1, RecordType DEF FileSound
  <2>2. \A i \in DOMAIN records, j \in DOMAIN records : i < j \/ j < i \/ i = j
    BY <1>1, SMTT(30)
  <2> QED
    BY <2>1, <2>2, Zenon
<1>15. RingSound'
  <2>1. \A s \in Slots : IF s < load THEN ring'[s].uid \in 1 .. nextUid' - 1 /\ ring'[s].msg <= made
                         ELSE ring'[s] = Blank
    BY <1>6, <1>7, <1>13, Zenon
  <2>2. ASSUME NEW s \in Slots, NEW r \in Slots, s < load, r < load, s # r
        PROVE  ring'[s].uid # ring'[r].uid
    <3>1. PICK i \in DOMAIN records : i = n - load + s + 1 /\ ring'[s] = records[i]
      BY <1>6, <2>2, Zenon
    <3>2. PICK j \in DOMAIN records : j = n - load + r + 1 /\ ring'[r] = records[j]
      BY <1>6, <2>2, Zenon
    <3>3. i # j
      BY <1>3, <2>2, <3>1, <3>2 DEF Slots
    <3> QED
      BY <1>14, <3>1, <3>2, <3>3, Zenon
  <2>3. count' < MSG_STORE_MAX => head' = count'
    BY <1>3, <1>5, Zenon
  <2> QED
    BY <1>3, <1>4, <2>1, <2>2, <2>3, Zenon DEF RingSound
<1>16. FileSound(records, ring, nextUid, made)'
  <2>1. ASSUME NEW i \in DOMAIN records, NEW s \in Slots, records[i].uid = ring'[s].uid
        PROVE  records[i].msg = ring'[s].msg
    <3>1. CASE s < load
      BY <1>6, <1>14, <2>1, <3>1
    <3>2. CASE ~(s < load)
      <4>1. ring'[s].uid = 0
        BY <1>7, <3>2, SMTT(30) DEF Blank
      <4> QED
        BY <1>13, <2>1, <4>1, SMTT(30)
    <3> QED
      BY <3>1, <3>2, Zenon
  <2>2. FileSound(records, ring', nextUid', made)
    BY <1>1, <1>13, <2>1, Zenon DEF FileSound
  <2> QED
    BY <1>4, <2>2, Zenon
<1>17. CountSound'
  BY <1>2, <1>3, <1>4, SMTT(30) DEF CountSound
<1>18. SavedSound'
  <2>1. kept' \subseteq Messages(records)
    BY <1>1, <1>4, Zenon DEF SavedSound
  <2>2. Messages(records)' = Messages(records)
    BY <1>4, Zenon DEF Messages
  <2> QED
    BY <1>11, <2>1, <2>2, Zenon DEF SavedSound
<1> QED
  BY <1>11, <1>12, <1>15, <1>16, <1>17, <1>18, Zenon DEF OrderIInv

(* The invariant holds at first.                                           *)
LEMMA InitOrder == StoreInit => OrderIInv
<1> SUFFICES ASSUME StoreInit PROVE OrderIInv
  BY SMTT(30)
<1>1. Idle \in TaskState /\ Idle.at = "idle" /\ Blank \in Row /\ Blank.uid = 0 /\ MSG_STORE_MAX \in Nat \ {0}
  BY StoreAssumption, Zenon DEF TaskState, Idle, Blank, Row
<1>2. \A t \in StoreTask : task[t] = Idle /\ ~Storing(t) /\ StepSound(t)
  BY <1>1, Zenon DEF StoreInit, Storing, StepSound
<1>3. StoreTypeOK
  <2>1. ring \in [Slots -> Row] /\ head \in Slots /\ count \in 0 .. MSG_STORE_MAX
    BY <1>1 DEF StoreInit, Slots
  <2>2. task \in [StoreTask -> TaskState]
    BY <1>1, Zenon DEF StoreInit
  <2>3. nextUid \in Nat \ {0} /\ counted \in Nat /\ made \in Nat
    BY DEF StoreInit
  <2>4. records \in Seq(Row)
    BY DEF StoreInit
  <2>5. ready \in BOOLEAN /\ failed \in BOOLEAN
    BY Zenon DEF StoreInit
  <2> QED
    BY <1>2, <2>1, <2>2, <2>3, <2>4, <2>5, Zenon DEF StoreTypeOK
<1>4. RingSound
  BY <1>1, SMTT(30) DEF StoreInit, RingSound, Slots
<1>5. FileSound(records, ring, nextUid, made)
  BY DEF StoreInit, FileSound
<1>6. CountSound
  BY SMTT(30) DEF StoreInit, CountSound
<1>7. SavedSound
  BY <1>1, <1>2, Zenon DEF StoreInit, SavedSound
<1> QED
  BY <1>2, <1>3, <1>4, <1>5, <1>6, <1>7, Zenon DEF OrderIInv

(* A step that changes nothing keeps the invariant.                        *)
LEMMA SameOrder == OrderIInv /\ UNCHANGED storeVars => OrderIInv'
<1> SUFFICES ASSUME OrderIInv, UNCHANGED storeVars PROVE OrderIInv'
  BY Zenon
<1>1. UNCHANGED <<ring, head, count, nextUid, records, counted, ready, task, made, kept, failed>>
  BY Zenon DEF storeVars
<1>2. StoreTypeOK'
  BY <1>1, Zenon DEF OrderIInv, StoreTypeOK, Storing
<1>3. RingSound' /\ CountSound' /\ SavedSound'
  <2>1. RingSound'
    BY <1>1 DEF OrderIInv, RingSound
  <2>2. Swapping' <=> Swapping
    BY <1>1, Zenon DEF Swapping
  <2>3. CountSound'
    BY <1>1, <2>2, Zenon DEF OrderIInv, CountSound
  <2>4. SavedSound'
    <3>1. Messages(records') = Messages(records) /\ kept' = kept /\ (failed' <=> failed) /\ task' = task
      BY <1>1, Zenon
    <3>2. \A t \in StoreTask : Messages(task'[t].copy) = Messages(task[t].copy)
      BY <1>1, Zenon
    <3> QED
      BY <2>2, <3>1, <3>2, Zenon DEF OrderIInv, SavedSound
  <2> QED
    BY <2>1, <2>3, <2>4
<1>4. FileSound(records, ring, nextUid, made)'
  BY <1>1, Zenon DEF OrderIInv, FileSound
<1>5. \A t \in StoreTask : StepSound(t)'
  <2>1. \A u, m : NewerThanFile(u, m)' <=> NewerThanFile(u, m)
    BY <1>1, Zenon DEF NewerThanFile
  <2>2. RowIndex(0)' = RowIndex(0)
    BY <1>1, Zenon DEF RowIndex
  <2>3. \A t \in StoreTask : StepSound(t)
    BY Zenon DEF OrderIInv
  <2> QED
    BY <1>1, <2>1, <2>2, <2>3, Zenon DEF StepSound
<1> QED
  BY <1>2, <1>3, <1>4, <1>5, Zenon DEF OrderIInv

(* Every step keeps the invariant.                                         *)
LEMMA NextOrder == ASSUME OneAdder PROVE OrderIInv /\ [StoreNext]_storeVars => OrderIInv'
<1>1. OrderIInv /\ StoreNext => OrderIInv'
  BY PickSlotOrder, WriteRowOrder, AppendRecordOrder, AppendFailsOrder, WriteHeaderOrder, RolloverOrder,
     RenameOrder, UpdateRowOrder, UpdateRecordOrder, BootOrder, Zenon DEF StoreNext
<1> QED
  BY <1>1, SameOrder, Zenon

(* With any sizes and any number of updating tasks, and through power      *)
(* failures, failed writes and rollovers: no two rows of the ring share a  *)
(* message, and no counted row is blank (msg_store_add_full).              *)
THEOREM RowOfItsOwnTheorem == ASSUME OneAdder PROVE StoreSpec => []RowOfItsOwn
<1>1. ASSUME OrderIInv PROVE RowOfItsOwn
  <2>1. /\ RingSound /\ head \in Slots /\ count \in 0 .. MSG_STORE_MAX
        /\ (count < MSG_STORE_MAX => head = count)
    BY <1>1, Zenon DEF OrderIInv, StoreTypeOK, RingSound
  <2>2. /\ \A i \in 0 .. count - 1 : Place(head, i) \in Slots /\ Place(head, i) < count
        /\ \A i, j \in 0 .. count - 1 : i # j => Place(head, i) # Place(head, j)
    BY <2>1, PlacesInUse, Zenon
  <2>3. \A i : RowIndex(i) = Place(head, i)
    BY SMTT(30) DEF RowIndex, Place
  <2>4. \A s \in Slots : s < count => ring[s] # Blank
    BY <2>1 DEF RingSound, Blank
  <2>5. \A i \in 0 .. count - 1 : ring[RowIndex(i)] # Blank
    BY <2>2, <2>3, <2>4, Zenon
  <2>6. \A i, j \in 0 .. count - 1 : i # j => ring[RowIndex(i)].uid # ring[RowIndex(j)].uid
    BY <2>1, <2>2, <2>3, Zenon DEF RingSound
  <2> QED
    BY <2>5, <2>6, Zenon DEF RowOfItsOwn
<1> QED
  BY <1>1, InitOrder, NextOrder, PTL DEF StoreSpec

(* update_unlocked: no update lands on the record of another message, so   *)
(* the records stay those of the messages stored, in order.                *)
THEOREM NeighbourSafeTheorem == ASSUME OneAdder PROVE StoreSpec => []NeighbourSafe
<1>1. ASSUME OrderIInv PROVE NeighbourSafe
  <2>1. records \in Seq(Row) /\ FileSound(records, ring, nextUid, made)
    BY <1>1, Zenon DEF OrderIInv, StoreTypeOK
  <2>2. \A i \in 1 .. Len(records) - 1 : i \in DOMAIN records /\ i + 1 \in DOMAIN records /\ i < i + 1
    BY <2>1
  <2> QED
    BY <2>1, <2>2, Zenon DEF NeighbourSafe, FileSound
<1> QED
  BY <1>1, InitOrder, NextOrder, PTL DEF StoreSpec

(* A message whose save succeeded stays in the file until a rollover drops *)
(* it, through every loss of power but one inside the rollover.            *)
THEOREM SavedSurvivesTheorem == ASSUME OneAdder PROVE StoreSpec => []SavedSurvives
<1>1. OrderIInv => SavedSurvives
  BY Zenon DEF OrderIInv, SavedSound, SavedSurvives, Swapping
<1> QED
  BY <1>1, InitOrder, NextOrder, PTL DEF StoreSpec

-----------------------------------------------------------------------------
(* Ring and file agree.                                                    *)

(* An update that met no storing task still knows the place of its row.    *)
UpdateSound ==
    \A t \in StoreTask : task[t].at = "update" =>
        /\ task[t].made <= made
        /\ ~task[t].raced /\ task[t].made = made =>
              /\ \A u \in StoreTask : ~Storing(u)
              /\ task[t].fromEnd < count /\ task[t].slot = Place(head, task[t].fromEnd)

(* The slots whose status may be ahead of the file: an update of theirs is *)
(* under way, or was lost to a task that stored or to a failed write.      *)
Loose ==
    {s \in Slots : \/ ring[s].msg \in behind
                   \/ \E t \in StoreTask : task[t].at = "update" /\ task[t].slot = s}

(* The rows from the one skip places before the newest on are the records  *)
(* from the last one on, with the same status outside the slots loose.     *)
Mirrors(file, skip, rows, h, c, loose) ==
    \A i \in Nat : i + skip < c /\ i < Len(file) =>
        /\ rows[Place(h, i + skip)].uid = file[Len(file) - i].uid
        /\ rows[Place(h, i + skip)].msg = file[Len(file) - i].msg
        /\ Place(h, i + skip) \in loose \/ rows[Place(h, i + skip)].status = file[Len(file) - i].status

(* Ring and file agree: but for the row about to be saved, or, while the   *)
(* file is replaced, ring and copy.                                        *)
MirrorSound ==
    ~failed =>
        /\ ~Swapping => Mirrors(records, IF Saving THEN 1 ELSE 0, ring, head, count, Loose)
        /\ \A t \in StoreTask : task[t].at = "swap" => Mirrors(task[t].copy, 0, ring, head, count, Loose)

MirrorIInv == OrderIInv /\ UpdateSound /\ MirrorSound

-----------------------------------------------------------------------------
(* More slots that may be ahead.                                           *)
LEMMA MirrorsLoosely ==
    ASSUME NEW f, NEW k, NEW rows, NEW h, NEW c, NEW L, NEW M,
           Mirrors(f, k, rows, h, c, L), L \subseteq M
    PROVE  Mirrors(f, k, rows, h, c, M)
  BY Zenon DEF Mirrors

(* A slot may still be ahead after a step that finishes no update.         *)
LEMMA LooseStays ==
    ASSUME ring' = ring, behind' = behind, \A u \in StoreTask : task[u].at = "update" => task'[u] = task[u]
    PROVE  Loose \subseteq Loose'
  BY Zenon DEF Loose

(* What a step of the task that stores leaves of the updates.              *)
LEMMA StoringStep ==
    ASSUME OneAdder, StoreTypeOK, UpdateSound, NEW t \in StoreTask, NEW x \in TaskState,
           task' = [task EXCEPT ![t] = x], task[t].at \notin {"idle", "update"}, x.at # "update", made' = made
    PROVE  /\ t \in Adders /\ task'[t] = x
           /\ UpdateSound'
           /\ \A u \in StoreTask : task[u].at = "update" => task'[u] = task[u]
           /\ Saving <=> task[t].at = "save"
           /\ Saving' <=> x.at = "save"
           /\ Swapping <=> task[t].at = "swap"
           /\ Swapping' <=> x.at = "swap"
           /\ \A u \in StoreTask : task'[u].at = "swap" => u = t
<1>1. Storing(t) /\ t \in Adders
  BY Zenon DEF Storing, StoreTypeOK
<1>2. /\ task'[t] = x
      /\ \A u \in StoreTask \ {t} : task'[u] = task[u] /\ ~Storing(u) /\ ~Storing(u)'
      /\ Swapping <=> task[t].at = "swap"
      /\ Swapping' <=> x.at = "swap"
  BY <1>1, AdderStep, Zenon
<1>3. \A u \in StoreTask \ {t} : task[u].at \in {"idle", "update"} /\ task'[u].at \in {"idle", "update"}
  BY <1>2, Zenon DEF Storing
<1>4. \A u \in StoreTask : task[u].at = "update" => task'[u] = task[u]
  BY <1>2, Zenon
<1>5. (Saving <=> task[t].at = "save") /\ (Saving' <=> x.at = "save")
  BY <1>2, <1>3, Zenon DEF Saving
<1>6. UpdateSound'
  <2>1. \A u \in StoreTask : task'[u].at = "update" => task'[u] = task[u]
    BY <1>2, Zenon
  <2>2. \A u \in StoreTask : task[u].at = "update" =>
            task[u].made <= made /\ ~(~task[u].raced /\ task[u].made = made)
    BY <1>1, Zenon DEF UpdateSound
  <2> QED
    BY <2>1, <2>2, Zenon DEF UpdateSound
<1>7. \A u \in StoreTask : task'[u].at = "swap" => u = t
  BY <1>3, Zenon
<1> QED
  BY <1>1, <1>2, <1>4, <1>5, <1>6, <1>7, Zenon

(* Picking a slot makes every update under way late.                       *)
LEMMA PickSlotMirror ==
    ASSUME OneAdder, MirrorIInv, NEW t \in StoreTask, PickSlot(t)
    PROVE  UpdateSound' /\ MirrorSound'
<1>1. StoreTypeOK /\ UpdateSound /\ MirrorSound /\ made \in Nat
  BY Zenon DEF MirrorIInv, OrderIInv, StoreTypeOK
<1>2. PICK x : x = [at |-> "write", slot |-> head, uid |-> nextUid, msg |-> made + 1]
  BY Zenon
<1>3. /\ t \in Adders /\ task[t].at = "idle" /\ task' = [task EXCEPT ![t] = x] /\ made' = made + 1
      /\ UNCHANGED <<ring, head, count, records, failed, behind>>
  BY <1>2 DEF PickSlot, ringVars, flash, Idle
<1>4. x \in TaskState /\ x.at = "write"
  BY <1>1, <1>2 DEF TaskState, StoreTypeOK
<1>5. task'[t] = x /\ \A u \in StoreTask \ {t} : task'[u] = task[u]
  BY <1>1, <1>3, <1>4, AdderStep, Zenon
<1>6. \A u \in StoreTask : task[u].at = "update" => task'[u] = task[u]
  BY <1>3, <1>5, Zenon
<1>7. UpdateSound'
  <2>1. \A u \in StoreTask : task'[u].at = "update" => task'[u] = task[u]
    BY <1>4, <1>5, Zenon
  <2>2. \A u \in StoreTask : task[u].at = "update" => task[u].made <= made /\ task[u].made \in Nat
    BY <1>1, TaskFields, Zenon DEF UpdateSound, StoreTypeOK
  <2>3. \A u \in StoreTask : task'[u].at = "update" => task'[u].made <= made' /\ task'[u].made # made'
    BY <1>1, <1>3, <2>1, <2>2
  <2> QED
    BY <2>3, Zenon DEF UpdateSound
<1>8. \A u \in StoreTask : \/ task'[u] = task[u]
                          \/ /\ task[u].at # "swap" /\ task[u].at # "save"
                             /\ task'[u].at # "swap" /\ task'[u].at # "save"
  <2>1. task[t].at # "swap" /\ task[t].at # "save" /\ task'[t].at # "swap" /\ task'[t].at # "save"
    BY <1>3, <1>4, <1>5, Zenon
  <2> QED
    BY <1>5, <2>1, Zenon
<1>9. (Saving' <=> Saving) /\ (Swapping' <=> Swapping)
  <2>1. Saving' <=> Saving
    BY <1>8, Zenon DEF Saving
  <2>2. Swapping' <=> Swapping
    BY <1>8, Zenon DEF Swapping
  <2> QED
    BY <2>1, <2>2, Zenon
<1>10. Loose \subseteq Loose'
  BY <1>3, <1>6, LooseStays, Zenon
<1>11. ASSUME ~failed', ~Swapping'
       PROVE  Mirrors(records', IF Saving' THEN 1 ELSE 0, ring', head', count', Loose')
  <2>1. Mirrors(records, IF Saving THEN 1 ELSE 0, ring, head, count, Loose)
    BY <1>1, <1>3, <1>9, <1>11, Zenon DEF MirrorSound
  <2> QED
    BY <1>3, <1>9, <1>10, <2>1, MirrorsLoosely, Zenon
<1>12. ASSUME ~failed', NEW u \in StoreTask, task'[u].at = "swap"
       PROVE  Mirrors(task'[u].copy, 0, ring', head', count', Loose')
  <2>1. Mirrors(task[u].copy, 0, ring, head, count, Loose)
    BY <1>1, <1>3, <1>8, <1>12, Zenon DEF MirrorSound
  <2> QED
    BY <1>3, <1>8, <1>10, <1>12, <2>1, MirrorsLoosely, Zenon
<1> QED
  BY <1>7, <1>11, <1>12, Zenon DEF MirrorSound

(* The head moves on: the rows are one place farther from the newest.      *)
LEMMA MirrorsPush ==
    ASSUME NEW f, NEW rows \in [Slots -> Row], NEW h \in Slots, NEW c \in 0 .. MSG_STORE_MAX, NEW d \in 0 .. MSG_STORE_MAX,
           NEW row, NEW L, NEW M, d <= c + 1, L \subseteq M \cup {h},
           Mirrors(f, 0, rows, h, c, L)
    PROVE  Mirrors(f, 1, [rows EXCEPT ![h] = row], (h + 1) % MSG_STORE_MAX, d, M)
<1>1. MSG_STORE_MAX \in Nat \ {0}
  BY StoreAssumption, Zenon
<1>2. PICK g : g = (h + 1) % MSG_STORE_MAX
  BY Zenon
<1>3. g \in Slots /\ Place(g, 0) = h /\ \A i \in Nat : i + 1 < MSG_STORE_MAX => Place(g, i + 1) = Place(h, i)
  BY <1>2, NextHead, Zenon
<1>4. ASSUME NEW i \in Nat, i + 1 < d
      PROVE  i < c /\ Place(g, i + 1) = Place(h, i) /\ Place(h, i) \in Slots /\ Place(h, i) # h
  <2>1. i + 1 < MSG_STORE_MAX /\ i < c /\ 0 \in 0 .. MSG_STORE_MAX - 1 /\ i + 1 \in 0 .. MSG_STORE_MAX - 1 /\ i + 1 # 0
    BY <1>1, <1>4
  <2>2. /\ \A a \in 0 .. MSG_STORE_MAX - 1 : Place(g, a) \in Slots
        /\ \A a, b \in 0 .. MSG_STORE_MAX - 1 : a # b => Place(g, a) # Place(g, b)
    <3>1. MSG_STORE_MAX \in 0 .. MSG_STORE_MAX /\ ~(MSG_STORE_MAX < MSG_STORE_MAX)
      BY <1>1
    <3> QED
      BY <1>3, <3>1, PlacesInUse, Zenon
  <2>3. Place(g, i + 1) # Place(g, 0) /\ Place(g, i + 1) \in Slots
    BY <2>1, <2>2, Zenon
  <2> QED
    BY <1>3, <2>1, <2>3, Zenon
<1>5. ASSUME NEW i \in Nat, i + 1 < d, i < Len(f)
      PROVE  LET s == Place(g, i + 1)
                 new == [rows EXCEPT ![h] = row]
             IN new[s].uid = f[Len(f) - i].uid /\ new[s].msg = f[Len(f) - i].msg
                /\ (s \in M \/ new[s].status = f[Len(f) - i].status)
  <2>1. i + 0 = i
    OBVIOUS
  <2>2. PICK s \in Slots : s = Place(h, i) /\ s # h /\ Place(g, i + 1) = s
    BY <1>4, <1>5, Zenon
  <2>3. rows[s].uid = f[Len(f) - i].uid /\ rows[s].msg = f[Len(f) - i].msg
        /\ (s \in L \/ rows[s].status = f[Len(f) - i].status)
    <3>1. i + 0 < c
      BY <1>4, <1>5, <2>1, Zenon
    <3> QED
      BY <1>5, <2>1, <2>2, <3>1, Zenon DEF Mirrors
  <2>4. [rows EXCEPT ![h] = row][s] = rows[s]
    BY <2>2, Zenon
  <2> QED
    BY <2>2, <2>3, <2>4, Zenon
<1> QED
  BY <1>2, <1>5, Zenon DEF Mirrors

(* The new row is not yet in the file.                                     *)
LEMMA WriteRowMirror ==
    ASSUME OneAdder, MirrorIInv, NEW t \in StoreTask, WriteRow(t)
    PROVE  UpdateSound' /\ MirrorSound'
<1>1. StoreTypeOK /\ UpdateSound /\ MirrorSound /\ StepSound(t)
  BY Zenon DEF MirrorIInv, OrderIInv
<1>2. /\ head \in Slots /\ count \in 0 .. MSG_STORE_MAX /\ ring \in [Slots -> Row] /\ MSG_STORE_MAX \in Nat \ {0}
  BY <1>1, StoreAssumption, Zenon DEF StoreTypeOK
<1>3. PICK x, row : x = [at |-> "save", slot |-> head] /\ row = [uid |-> task[t].uid, msg |-> task[t].msg, status |-> "sent"]
  BY Zenon
<1>4. task[t].at = "write" /\ task[t].slot = head
  BY <1>1, Zenon DEF WriteRow, StepSound
<1>5. /\ task' = [task EXCEPT ![t] = x] /\ ring' = [ring EXCEPT ![head] = row]
      /\ head' = (head + 1) % MSG_STORE_MAX /\ count' = Min({count + 1, MSG_STORE_MAX})
      /\ UNCHANGED <<made, records, failed, behind>>
  BY <1>3, <1>4, Zenon DEF WriteRow, flash
<1>6. count' \in 0 .. MSG_STORE_MAX /\ count' <= count + 1
  <2>1. count' = IF count + 1 <= MSG_STORE_MAX THEN count + 1 ELSE MSG_STORE_MAX
    BY <1>2, <1>5, SmallerOfTwo
  <2> QED
    BY <1>2, <2>1
<1>7. x \in TaskState /\ x.at = "save"
  BY <1>2, <1>3, Zenon DEF TaskState
<1>8. /\ UpdateSound' /\ Saving' /\ ~Saving /\ ~Swapping /\ ~Swapping'
      /\ \A u \in StoreTask : task[u].at = "update" => task'[u] = task[u]
      /\ \A u \in StoreTask : task'[u].at # "swap"
  <2>1. task[t].at \notin {"idle", "update"} /\ task[t].at # "save" /\ task[t].at # "swap" /\ x.at # "update" /\ x.at # "swap"
    BY <1>4, <1>7, Zenon
  <2>2. /\ UpdateSound' /\ Saving' /\ ~Saving /\ ~Swapping /\ ~Swapping'
        /\ \A u \in StoreTask : task[u].at = "update" => task'[u] = task[u]
    BY <1>1, <1>5, <1>7, <2>1, StoringStep, Zenon
  <2> QED
    BY <2>2, Zenon DEF Swapping
<1>9. Loose \subseteq Loose' \cup {head}
  <2>1. \A s \in Slots : s # head => ring'[s] = ring[s]
    BY <1>2, <1>5, Zenon
  <2> QED
    BY <1>5, <1>8, <2>1 DEF Loose
<1>10. ASSUME ~failed'
       PROVE  Mirrors(records', 1, ring', head', count', Loose')
  <2>1. Mirrors(records, 0, ring, head, count, Loose)
    BY <1>1, <1>5, <1>8, <1>10, Zenon DEF MirrorSound
  <2>2. Mirrors(records, 1, [ring EXCEPT ![head] = row], (head + 1) % MSG_STORE_MAX, count', Loose')
    BY <1>2, <1>6, <1>9, <2>1, MirrorsPush, Zenon
  <2> QED
    BY <1>5, <2>2, Zenon
<1> QED
  BY <1>8, <1>10, Zenon DEF MirrorSound

(* The record of the newest row is appended.                               *)
LEMMA MirrorsAppend ==
    ASSUME NEW f \in Seq(Row), NEW rows, NEW h, NEW c \in Nat, NEW L, NEW M,
           Mirrors(f, 1, rows, h, c, L), L \subseteq M, rows[Place(h, 0)] \in Row
    PROVE  Mirrors(Append(f, rows[Place(h, 0)]), 0, rows, h, c, M)
<1>1. PICK g, rec : g = Append(f, rec) /\ rec = rows[Place(h, 0)] /\ rec \in Row
  BY Zenon
<1>2. /\ Len(f) \in Nat /\ Len(g) = Len(f) + 1 /\ g[Len(f) + 1] = rec
      /\ \A i \in 1 .. Len(f) : g[i] = f[i]
  BY <1>1
<1>3. ASSUME NEW i \in Nat, i + 0 < c, i < Len(g)
      PROVE  /\ rows[Place(h, i + 0)].uid = g[Len(g) - i].uid
             /\ rows[Place(h, i + 0)].msg = g[Len(g) - i].msg
             /\ Place(h, i + 0) \in M \/ rows[Place(h, i + 0)].status = g[Len(g) - i].status
  <2>1. CASE i = 0
    <3>1. i + 0 = 0 /\ Len(g) - i = Len(f) + 1
      BY <1>2, <2>1
    <3>2. rows[Place(h, i + 0)] = rec /\ g[Len(g) - i] = rec
      BY <1>1, <1>2, <3>1, Zenon
    <3> QED
      BY <3>2, Zenon
  <2>2. CASE i # 0
    <3>1. PICK j \in Nat : j = i - 1
      BY <2>2
    <3>2. j + 1 < c /\ j < Len(f) /\ j + 1 = i + 0 /\ Len(g) - i = Len(f) - j /\ Len(f) - j \in 1 .. Len(f)
      BY <1>2, <1>3, <3>1
    <3>3. /\ rows[Place(h, j + 1)].uid = f[Len(f) - j].uid
          /\ rows[Place(h, j + 1)].msg = f[Len(f) - j].msg
          /\ Place(h, j + 1) \in L \/ rows[Place(h, j + 1)].status = f[Len(f) - j].status
      BY <3>2, Zenon DEF Mirrors
    <3>4. g[Len(g) - i] = f[Len(f) - j] /\ Place(h, j + 1) = Place(h, i + 0)
      BY <1>2, <3>2, Zenon
    <3> QED
      BY <3>3, <3>4, Zenon
  <2> QED
    BY <2>1, <2>2, Zenon
<1> QED
  BY <1>1, <1>3, Zenon DEF Mirrors

(* Ring and file agree again once the record is appended.                  *)
LEMMA AppendRecordMirror ==
    ASSUME OneAdder, MirrorIInv, NEW t \in StoreTask, AppendRecord(t)
    PROVE  UpdateSound' /\ MirrorSound'
<1>1. StoreTypeOK /\ UpdateSound /\ MirrorSound /\ StepSound(t)
  BY Zenon DEF MirrorIInv, OrderIInv
<1>2. /\ head \in Slots /\ count \in Nat /\ ring \in [Slots -> Row] /\ records \in Seq(Row) /\ task[t] \in TaskState
  BY <1>1, StoreAssumption DEF StoreTypeOK
<1>3. PICK s, x : s = task[t].slot /\ x = [at |-> "header", msg |-> ring[task[t].slot].msg]
  BY Zenon
<1>4. /\ task[t].at = "save" /\ s = Place(head, 0) /\ s \in Slots
  BY <1>1, <1>2, <1>3, TaskFields, Zenon DEF AppendRecord, StepSound, RowIndex, Place
<1>5. /\ task' = [task EXCEPT ![t] = x] /\ records' = Append(records, ring[s])
      /\ UNCHANGED <<ring, head, count, made, failed, behind>>
  BY <1>3, Zenon DEF AppendRecord, ringVars
<1>6. x \in TaskState /\ x.at = "header" /\ ring[s] \in Row
  BY <1>2, <1>3, <1>4, Zenon DEF TaskState, Row
<1>7. /\ UpdateSound' /\ ~Saving' /\ Saving /\ ~Swapping /\ ~Swapping'
      /\ \A u \in StoreTask : task[u].at = "update" => task'[u] = task[u]
      /\ \A u \in StoreTask : task'[u].at # "swap"
  <2>1. task[t].at \notin {"idle", "update"} /\ task[t].at # "swap" /\ x.at # "update" /\ x.at # "swap" /\ x.at # "save"
    BY <1>4, <1>6, Zenon
  <2>2. /\ UpdateSound' /\ ~Saving' /\ Saving /\ ~Swapping /\ ~Swapping'
        /\ \A u \in StoreTask : task[u].at = "update" => task'[u] = task[u]
    BY <1>1, <1>4, <1>5, <1>6, <2>1, StoringStep, Zenon
  <2> QED
    BY <2>2, Zenon DEF Swapping
<1>8. Loose \subseteq Loose'
  BY <1>5, <1>7, LooseStays, Zenon
<1>9. ASSUME ~failed'
      PROVE  Mirrors(records', 0, ring', head', count', Loose')
  <2>1. Mirrors(records, 1, ring, head, count, Loose)
    BY <1>1, <1>5, <1>7, <1>9, Zenon DEF MirrorSound
  <2>2. Mirrors(Append(records, ring[s]), 0, ring, head, count, Loose')
    BY <1>2, <1>4, <1>6, <1>8, <2>1, MirrorsAppend, Zenon
  <2> QED
    BY <1>5, <2>2, Zenon
<1> QED
  BY <1>7, <1>9, Zenon DEF MirrorSound

(* A failed write ends the agreement.                                      *)
LEMMA AppendFailsMirror ==
    ASSUME OneAdder, MirrorIInv, NEW t \in StoreTask, AppendFails(t)
    PROVE  UpdateSound' /\ MirrorSound'
<1>1. StoreTypeOK /\ UpdateSound
  BY Zenon DEF MirrorIInv, OrderIInv
<1>2. PICK x : x = Idle
  BY Zenon
<1>3. /\ task[t].at = "save" /\ task' = [task EXCEPT ![t] = x] /\ made' = made /\ failed' = TRUE
  BY <1>2, Zenon DEF AppendFails
<1>4. x \in TaskState /\ x.at = "idle"
  BY <1>2, Zenon DEF TaskState, Idle
<1>5. UpdateSound'
  <2>1. task[t].at \notin {"idle", "update"} /\ x.at # "update"
    BY <1>3, <1>4, Zenon
  <2> QED
    BY <1>1, <1>3, <1>4, <2>1, StoringStep, Zenon
<1> QED
  BY <1>3, <1>5, Zenon DEF MirrorSound

(* A step of the task that stores which leaves ring and file as they are.  *)
LEMMA StoringMirror ==
    ASSUME OneAdder, MirrorIInv, NEW t \in StoreTask, NEW x \in TaskState,
           task' = [task EXCEPT ![t] = x], task[t].at \in {"header", "roll"}, x.at \in {"idle", "roll"},
           UNCHANGED <<ring, head, count, records, made, failed, behind>>
    PROVE  UpdateSound' /\ MirrorSound'
<1>1. StoreTypeOK /\ UpdateSound /\ MirrorSound
  BY Zenon DEF MirrorIInv, OrderIInv
<1>2. /\ UpdateSound' /\ ~Saving' /\ ~Saving /\ ~Swapping /\ ~Swapping'
      /\ \A u \in StoreTask : task[u].at = "update" => task'[u] = task[u]
      /\ \A u \in StoreTask : task'[u].at # "swap"
  <2>1. /\ task[t].at \notin {"idle", "update"} /\ task[t].at # "swap" /\ task[t].at # "save"
        /\ x.at # "update" /\ x.at # "swap" /\ x.at # "save"
    BY Zenon
  <2>2. /\ UpdateSound' /\ ~Saving' /\ ~Saving /\ ~Swapping /\ ~Swapping'
        /\ \A u \in StoreTask : task[u].at = "update" => task'[u] = task[u]
    <3>1. made' = made
      BY Zenon
    <3> QED
      BY <1>1, <2>1, <3>1, StoringStep, Zenon
  <2> QED
    BY <2>2, Zenon DEF Swapping
<1>3. Loose \subseteq Loose'
  BY <1>2, LooseStays, Zenon
<1>4. ASSUME ~failed'
      PROVE  Mirrors(records', 0, ring', head', count', Loose')
  <2>1. Mirrors(records, 0, ring, head, count, Loose)
    BY <1>1, <1>2, <1>4, Zenon DEF MirrorSound
  <2> QED
    BY <1>3, <2>1, MirrorsLoosely, Zenon
<1> QED
  BY <1>2, <1>4, Zenon DEF MirrorSound

(* The header changes neither ring nor records.                            *)
LEMMA WriteHeaderMirror ==
    ASSUME OneAdder, MirrorIInv, NEW t \in StoreTask, WriteHeader(t)
    PROVE  UpdateSound' /\ MirrorSound'
<1>1. PICK x : x \in {Idle, [at |-> "roll"]} /\ task' = [task EXCEPT ![t] = x]
  BY Zenon DEF WriteHeader
<1>2. /\ task[t].at = "header"
      /\ UNCHANGED <<ring, head, count, records, made, failed, behind>>
  BY Zenon DEF WriteHeader, ringVars
<1>3. x \in TaskState /\ x.at \in {"idle", "roll"}
  BY <1>1 DEF TaskState, Idle
<1> QED
  BY <1>1, <1>2, <1>3, StoringMirror, Zenon

(* The copy of a rollover agrees with the ring as the file did, since the  *)
(* records counted are all there are.                                      *)
LEMMA RolloverMirror ==
    ASSUME OneAdder, MirrorIInv, NEW t \in StoreTask, Rollover(t)
    PROVE  UpdateSound' /\ MirrorSound'
<1>1. OrderIInv /\ StoreTypeOK /\ UpdateSound /\ MirrorSound /\ CountSound
  BY Zenon DEF MirrorIInv, OrderIInv
<1>2. /\ task[t].at = "roll" /\ ready
      /\ UNCHANGED <<ring, head, count, made, counted, failed, behind>>
  BY Zenon DEF Rollover, ringVars, MirrorIInv, OrderIInv, StepSound
<1>3. CASE records' = records /\ task' = [task EXCEPT ![t] = Idle]
  <2>1. Idle \in TaskState /\ Idle.at = "idle"
    BY Zenon DEF TaskState, Idle
  <2>2. PICK x \in TaskState : x = Idle /\ x.at = "idle"
    BY <2>1, Zenon
  <2> QED
    BY <1>2, <1>3, <2>2, StoringMirror, Zenon
<1>4. CASE counted > PERSIST_MAX /\ task' = [task EXCEPT ![t] = [at |-> "swap", copy |-> Copied]]
  <2>1. PICK copy, x : copy = Copied /\ x = [at |-> "swap", copy |-> copy]
    BY Zenon
  <2>2. ~Swapping
    <3>1. t \in Adders
      BY <1>1, <1>2, StoringIsAdder, Zenon
    <3>2. \A u \in StoreTask : task[u].at = "swap" => u = t
      BY <1>1, <3>1, StoringIsAdder, Zenon DEF OneAdder
    <3> QED
      BY <1>2, <3>2, Zenon DEF Swapping
  <2>3. /\ copy \in Seq(Row) /\ Len(copy) = KeepCount
        /\ \A i \in DOMAIN copy : copy[i] = records[i + counted - KeepCount]
    BY <1>1, <1>2, <1>4, <2>1, <2>2, CopySound, Zenon
  <2>4. x \in TaskState /\ x.at = "swap" /\ x.copy = copy /\ task' = [task EXCEPT ![t] = x]
    BY <1>4, <2>1, <2>3, Zenon DEF TaskState
  <2>5. /\ UpdateSound' /\ ~Saving' /\ ~Saving /\ Swapping' /\ task'[t] = x
        /\ \A u \in StoreTask : task[u].at = "update" => task'[u] = task[u]
        /\ \A u \in StoreTask : task'[u].at = "swap" => u = t
    <3>1. task[t].at \notin {"idle", "update"} /\ task[t].at # "save" /\ x.at # "update" /\ x.at # "save"
      BY <1>2, <2>4, Zenon
    <3> QED
      BY <1>1, <1>2, <2>4, <3>1, StoringStep, Zenon
  <2>6. Loose \subseteq Loose'
    BY <1>2, <2>5, LooseStays, Zenon
  <2>7. ASSUME ~failed'
        PROVE  Mirrors(copy, 0, ring', head', count', Loose')
    <3>1. Mirrors(records, 0, ring, head, count, Loose) /\ counted = Len(records)
      BY <1>1, <1>2, <2>2, <2>5, <2>7, Zenon DEF MirrorSound, CountSound
    <3>2. KeepCount \in Nat /\ KeepCount <= PERSIST_MAX /\ PERSIST_MAX \in Nat /\ counted \in Nat
      BY <1>1, KeepCountRange, StoreAssumption, Zenon DEF StoreTypeOK
    <3>3. ASSUME NEW i \in Nat, i < Len(copy)
          PROVE  i < Len(records) /\ copy[Len(copy) - i] = records[Len(records) - i]
      <4>1. Len(copy) - i \in DOMAIN copy /\ Len(copy) - i + counted - KeepCount = Len(records) - i
        BY <2>3, <3>1, <3>2, <3>3
      <4>2. i < Len(records)
        BY <1>4, <2>3, <3>1, <3>2, <3>3
      <4> QED
        BY <2>3, <4>1, <4>2, Zenon
    <3>4. Mirrors(copy, 0, ring, head, count, Loose)
      BY <3>1, <3>3, Zenon DEF Mirrors
    <3> QED
      BY <1>2, <2>6, <3>4, MirrorsLoosely, Zenon
  <2>8. \A u \in StoreTask : task'[u].at = "swap" => task'[u].copy = copy
    BY <2>4, <2>5, Zenon
  <2> QED
    BY <2>5, <2>7, <2>8, Zenon DEF MirrorSound
<1> QED
  BY <1>3, <1>4, Zenon DEF Rollover, flash

(* The copy becomes the file.                                              *)
LEMMA RenameMirror ==
    ASSUME OneAdder, MirrorIInv, NEW t \in StoreTask, Rename(t)
    PROVE  UpdateSound' /\ MirrorSound'
<1>1. StoreTypeOK /\ UpdateSound /\ MirrorSound
  BY Zenon DEF MirrorIInv, OrderIInv
<1>2. PICK x : x = Idle
  BY Zenon
<1>3. /\ task[t].at = "swap" /\ task' = [task EXCEPT ![t] = x]
      /\ UNCHANGED <<ring, head, count, made, behind>>
      /\ failed' = TRUE \/ (records' = task[t].copy /\ failed' = failed)
  BY <1>2, Zenon DEF Rename, ringVars
<1>4. x \in TaskState /\ x.at = "idle"
  BY <1>2, Zenon DEF TaskState, Idle
<1>5. /\ UpdateSound' /\ ~Saving' /\ ~Swapping'
      /\ \A u \in StoreTask : task[u].at = "update" => task'[u] = task[u]
      /\ \A u \in StoreTask : task'[u].at # "swap"
  <2>1. task[t].at \notin {"idle", "update"} /\ x.at # "update" /\ x.at # "swap" /\ x.at # "save"
    BY <1>3, <1>4, Zenon
  <2>2. /\ UpdateSound' /\ ~Saving' /\ ~Swapping'
        /\ \A u \in StoreTask : task[u].at = "update" => task'[u] = task[u]
    BY <1>1, <1>3, <1>4, <2>1, StoringStep, Zenon
  <2> QED
    BY <2>2, Zenon DEF Swapping
<1>6. Loose \subseteq Loose'
  BY <1>3, <1>5, LooseStays, Zenon
<1>7. ASSUME ~failed'
      PROVE  Mirrors(records', 0, ring', head', count', Loose')
  <2>1. Mirrors(task[t].copy, 0, ring, head, count, Loose) /\ records' = task[t].copy
    BY <1>1, <1>3, <1>7, Zenon DEF MirrorSound
  <2> QED
    BY <1>3, <1>6, <2>1, MirrorsLoosely, Zenon
<1> QED
  BY <1>5, <1>7, Zenon DEF MirrorSound

(* A row that changes in a slot that may be ahead.                         *)
LEMMA MirrorsChange ==
    ASSUME NEW f, NEW k \in Nat, NEW rows, NEW new, NEW h \in Slots, NEW c \in 0 .. MSG_STORE_MAX, NEW L, NEW M,
           c < MSG_STORE_MAX => h = c, Mirrors(f, k, rows, h, c, L), L \subseteq M,
           \A s \in Slots : new[s].uid = rows[s].uid /\ new[s].msg = rows[s].msg,
           \A s \in Slots : s \in M \/ new[s] = rows[s]
    PROVE  Mirrors(f, k, new, h, c, M)
<1>1. \A i \in Nat : i + k < c => Place(h, i + k) \in Slots
  <2>1. \A i \in Nat : i + k < c => i + k \in 0 .. c - 1
    OBVIOUS
  <2>2. \A i \in 0 .. c - 1 : Place(h, i) \in Slots
    BY PlacesInUse, Zenon
  <2> QED
    BY <2>1, <2>2, Zenon
<1>2. ASSUME NEW i \in Nat, i + k < c, i < Len(f)
      PROVE  /\ new[Place(h, i + k)].uid = f[Len(f) - i].uid
             /\ new[Place(h, i + k)].msg = f[Len(f) - i].msg
             /\ Place(h, i + k) \in M \/ new[Place(h, i + k)].status = f[Len(f) - i].status
  <2>1. PICK s \in Slots : s = Place(h, i + k)
    BY <1>1, <1>2, Zenon
  <2>2. /\ rows[s].uid = f[Len(f) - i].uid
        /\ rows[s].msg = f[Len(f) - i].msg
        /\ s \in L \/ rows[s].status = f[Len(f) - i].status
    BY <1>2, <2>1, Zenon DEF Mirrors
  <2>3. new[s].uid = rows[s].uid /\ new[s].msg = rows[s].msg /\ (s \in M \/ new[s] = rows[s])
    BY Zenon
  <2> QED
    BY <2>1, <2>2, <2>3, Zenon
<1> QED
  BY <1>2, Zenon DEF Mirrors

(* The row of an update may be ahead until its record is written.          *)
LEMMA UpdateRowMirror ==
    ASSUME MirrorIInv, NEW t \in StoreTask, UpdateRow(t)
    PROVE  UpdateSound' /\ MirrorSound'
<1>1. StoreTypeOK /\ RingSound /\ UpdateSound /\ MirrorSound
  BY Zenon DEF MirrorIInv, OrderIInv
<1>2. /\ made \in Nat /\ head \in Slots /\ count \in 0 .. MSG_STORE_MAX /\ (count < MSG_STORE_MAX => head = count)
      /\ ring \in [Slots -> Row] /\ MSG_STORE_MAX \in Nat \ {0}
  BY <1>1, StoreAssumption, Zenon DEF StoreTypeOK, RingSound
<1>3. PICK i \in 0 .. count - 1, new \in {"queued", "delivered", "failed"} :
          /\ ring' = [ring EXCEPT ![RowIndex(i)].status = new]
          /\ task' = [task EXCEPT ![t] = [at |-> "update", slot |-> RowIndex(i), fromEnd |-> i,
                                          made |-> made, raced |-> Busy(t)]]
  BY Zenon DEF UpdateRow
<1>4. /\ task[t].at = "idle"
      /\ UNCHANGED <<head, count, made, records, failed, behind>>
  BY DEF UpdateRow, flash, Idle
<1>5. PICK k, x : k = RowIndex(i) /\ x = [at |-> "update", slot |-> RowIndex(i), fromEnd |-> i,
                                         made |-> made, raced |-> Busy(t)]
  BY Zenon
<1>6. k \in Slots
  <2>1. k = Place(head, i)
    BY <1>5, Zenon DEF RowIndex, Place
  <2> QED
    BY <1>2, <2>1, PlacesInUse, Zenon
<1>7. /\ x \in TaskState /\ x.at = "update" /\ x.slot = k /\ x.fromEnd = i /\ x.made = made
      /\ x.raced <=> Busy(t)
  <2>1. Busy(t) \in BOOLEAN
    BY Zenon DEF Busy
  <2>2. x \in [at : {"update"}, slot : Slots, fromEnd : Nat, made : Nat, raced : BOOLEAN]
    BY <1>2, <1>5, <1>6, <2>1
  <2>3. x.raced = Busy(t)
    BY <1>5, Zenon
  <2> QED
    BY <1>5, <2>2, <2>3, Zenon DEF TaskState
<1>8. task' = [task EXCEPT ![t] = x]
  BY <1>3, <1>5, Zenon
<1>9. /\ task'[t] = x
      /\ \A u \in StoreTask \ {t} : task'[u] = task[u]
      /\ \A u \in StoreTask : Storing(u)' <=> Storing(u)
      /\ \A u \in StoreTask : Storing(u)' => task'[u] = task[u]
      /\ Swapping' <=> Swapping
      /\ Saving' <=> Saving
  BY <1>1, <1>4, <1>7, <1>8, UpdaterStep, Zenon
<1>10. /\ \A s \in Slots : ring'[s].uid = ring[s].uid /\ ring'[s].msg = ring[s].msg
       /\ \A s \in Slots : s # k => ring'[s] = ring[s]
  <2>1. ring' = [ring EXCEPT ![k] = [ring[k] EXCEPT !.status = new]]
    BY <1>3, <1>5, Zenon
  <2> QED
    BY <1>2, <1>6, <2>1, Zenon DEF Row
<1>11. \A u \in StoreTask : task[u].at = "update" => task'[u] = task[u]
  BY <1>4, <1>9, Zenon
<1>12. Loose \subseteq Loose' /\ k \in Loose'
  <2>1. k \in Loose'
    BY <1>6, <1>7, <1>9, Zenon DEF Loose
  <2> QED
    BY <1>4, <1>10, <1>11, <2>1, Zenon DEF Loose
<1>13. \A s \in Slots : s \in Loose' \/ ring'[s] = ring[s]
  BY <1>10, <1>12, Zenon
<1>14. ASSUME ~failed', ~Swapping'
       PROVE  Mirrors(records', IF Saving' THEN 1 ELSE 0, ring', head', count', Loose')
  <2>1. PICK z \in Nat : z = (IF Saving THEN 1 ELSE 0) /\ z = (IF Saving' THEN 1 ELSE 0)
    BY <1>9, Zenon
  <2>2. Mirrors(records, z, ring, head, count, Loose)
    BY <1>1, <1>4, <1>9, <1>14, <2>1, Zenon DEF MirrorSound
  <2>3. Mirrors(records, z, ring', head, count, Loose')
    BY <1>2, <1>10, <1>12, <1>13, <2>2, MirrorsChange, Zenon
  <2> QED
    BY <1>4, <2>1, <2>3, Zenon
<1>15. ASSUME ~failed', NEW u \in StoreTask, task'[u].at = "swap"
       PROVE  Mirrors(task'[u].copy, 0, ring', head', count', Loose')
  <2>1. task'[u] = task[u]
    BY <1>7, <1>9, <1>15, Zenon
  <2>2. Mirrors(task[u].copy, 0, ring, head, count, Loose)
    BY <1>1, <1>4, <1>15, <2>1, Zenon DEF MirrorSound
  <2>3. 0 \in Nat
    BY Zenon
  <2>4. Mirrors(task[u].copy, 0, ring', head, count, Loose')
    BY <1>2, <1>10, <1>12, <1>13, <2>2, <2>3, MirrorsChange, Zenon
  <2> QED
    BY <1>4, <2>1, <2>4, Zenon
<1>16. UpdateSound'
  <2>1. ASSUME NEW u \in StoreTask, task'[u].at = "update"
        PROVE  /\ task'[u].made <= made'
               /\ ~task'[u].raced /\ task'[u].made = made' =>
                     /\ \A v \in StoreTask : ~Storing(v)'
                     /\ task'[u].fromEnd < count' /\ task'[u].slot = Place(head', task'[u].fromEnd)
    <3>1. CASE u = t
      <4>1. made <= made /\ i < count
        BY <1>2
      <4>2. ~Busy(t) => \A v \in StoreTask : ~Storing(v)'
        <5>1. ~Storing(t)
          BY <1>4, Zenon DEF Storing
        <5>2. ~Busy(t) => \A v \in StoreTask \ {t} : ~Storing(v)
          BY Zenon DEF Busy, Storing
        <5> QED
          BY <1>9, <5>1, <5>2, Zenon
      <4>3. k = Place(head', i)
        BY <1>4, <1>5, Zenon DEF RowIndex, Place
      <4> QED
        BY <1>4, <1>7, <1>9, <3>1, <4>1, <4>2, <4>3, Zenon
    <3>2. CASE u # t
      <4>1. task'[u] = task[u]
        BY <1>9, <3>2, Zenon
      <4>2. /\ task[u].made <= made
            /\ ~task[u].raced /\ task[u].made = made =>
                     /\ \A v \in StoreTask : ~Storing(v)
                     /\ task[u].fromEnd < count /\ task[u].slot = Place(head, task[u].fromEnd)
        BY <1>1, <2>1, <4>1, Zenon DEF UpdateSound
      <4> QED
        BY <1>4, <1>9, <4>1, <4>2, Zenon
    <3> QED
      BY <3>1, <3>2, Zenon
  <2> QED
    BY <2>1, Zenon DEF UpdateSound
<1> QED
  BY <1>14, <1>15, <1>16, Zenon DEF MirrorSound

(* A row and a record with one uid share their slot: slot s of a row in    *)
(* use and any slot r with the same uid.                                   *)
LEMMA OneSlot ==
    ASSUME StoreTypeOK, RingSound, NEW s \in Slots, NEW r \in Slots, s < count, ring[r].uid = ring[s].uid
    PROVE  r = s
<1>1. ring[s].uid # 0
  BY DEF RingSound
<1>2. count \in Nat /\ r \in Int
  BY DEF StoreTypeOK, Slots
<1>3. r < count
  <2>1. ~(r < count) => ring[r] = Blank
    BY Zenon DEF RingSound
  <2> QED
    BY <1>1, <2>1 DEF Blank
<1> QED
  BY <1>3, Zenon DEF RingSound

(* An update that met nobody finds its record and writes it; one that met  *)
(* a task storing leaves its row ahead.                                    *)
LEMMA UpdateRecordMirror ==
    ASSUME MirrorIInv, NEW t \in StoreTask, UpdateRecord(t)
    PROVE  UpdateSound' /\ MirrorSound'
<1>1. OrderIInv /\ StoreTypeOK /\ RingSound /\ UpdateSound /\ MirrorSound /\ CountSound
  BY Zenon DEF MirrorIInv, OrderIInv
<1>2. /\ task[t].at = "update" /\ ~Swapping
      /\ UNCHANGED <<ring, head, count, made, counted, ready, failed>>
      /\ DOMAIN records' = DOMAIN records /\ Len(records') = Len(records)
      /\ \A i \in DOMAIN records : records'[i].uid = records[i].uid /\ records'[i].msg = records[i].msg
  BY <1>1, UpdatedFile, Zenon
<1>3. /\ head \in Slots /\ count \in 0 .. MSG_STORE_MAX /\ (count < MSG_STORE_MAX => head = count)
      /\ records \in Seq(Row) /\ counted \in Nat /\ MSG_STORE_MAX \in Nat \ {0} /\ task[t] \in TaskState
  BY <1>1, StoreAssumption, Zenon DEF StoreTypeOK, RingSound
<1>4. PICK s, e, at, x : s = task[t].slot /\ e = task[t].fromEnd /\ at = RecordIndex(e) /\ x = Idle
  BY Zenon
<1>5. s \in Slots /\ e \in Nat /\ at = counted - e
  BY <1>2, <1>3, <1>4, TaskFields, Zenon DEF RecordIndex
<1>6. x \in TaskState /\ x.at = "idle" /\ task' = [task EXCEPT ![t] = x]
  BY <1>4, Zenon DEF TaskState, Idle, UpdateRecord
<1>7. /\ task'[t] = x
      /\ \A u \in StoreTask \ {t} : task'[u] = task[u]
      /\ \A u \in StoreTask : Storing(u)' <=> Storing(u)
      /\ Swapping' <=> Swapping
      /\ Saving' <=> Saving
  BY <1>1, <1>2, <1>6, UpdaterStep, Zenon
<1>8. UpdateSound'
  <2>1. \A u \in StoreTask : task'[u].at = "update" => u # t /\ task'[u] = task[u]
    BY <1>6, <1>7, Zenon
  <2> QED
    BY <1>1, <1>2, <1>7, <2>1, Zenon DEF UpdateSound
<1>9. \/ records' = records
      \/ at \in DOMAIN records /\ records[at].uid = ring[s].uid /\ records' = [records EXCEPT ![at] = ring[s]]
  BY <1>3, <1>4 DEF UpdateRecord, RecordMatches
<1>10. \/ ring[s].msg \in behind'
       \/ /\ ~task[t].raced /\ task[t].made = made
          /\ ready /\ at \in 1 .. Len(records) /\ records[at].uid = ring[s].uid =>
                records' = [records EXCEPT ![at] = ring[s]]
  BY <1>2, <1>4, Zenon DEF UpdateRecord, RecordMatches
<1>11. behind \subseteq behind'
  BY SMTT(30) DEF UpdateRecord
<1>12. Loose \subseteq Loose' \cup {s}
  <2>1. ASSUME NEW r \in Slots, NEW u \in StoreTask, task[u].at = "update", task[u].slot = r, r # s
        PROVE  r \in Loose'
    <3>1. u # t /\ task'[u] = task[u]
      BY <1>4, <1>7, <2>1, Zenon
    <3> QED
      BY <2>1, <3>1, Zenon DEF Loose
  <2>2. ASSUME NEW r \in Slots, ring[r].msg \in behind
        PROVE  r \in Loose'
    BY <1>2, <1>11, <2>2, Zenon DEF Loose
  <2> QED
    BY <2>1, <2>2, Zenon DEF Loose
<1>13. ring[s].msg \in behind' => s \in Loose'
  BY <1>2, <1>5, Zenon DEF Loose
<1>14. PICK k \in {0, 1} : k = (IF Saving THEN 1 ELSE 0)
  BY Zenon
<1>15. ASSUME ~failed'
       PROVE  Mirrors(records', k, ring', head', count', Loose')
  <2>1. Mirrors(records, k, ring, head, count, Loose) /\ counted = Len(records) /\ ready
    BY <1>1, <1>2, <1>14, <1>15, Zenon DEF MirrorSound, CountSound
  <2>2. ASSUME NEW i \in Nat, i + k < count, i < Len(records)
        PROVE  /\ ring[Place(head, i + k)].uid = records'[Len(records) - i].uid
               /\ ring[Place(head, i + k)].msg = records'[Len(records) - i].msg
               /\ Place(head, i + k) \in Loose' \/ ring[Place(head, i + k)].status = records'[Len(records) - i].status
    <3>1. i + k \in 0 .. count - 1
      BY <1>3, <2>2
    <3>2. PICK p \in Slots : p = Place(head, i + k) /\ p < count
      BY <1>3, <3>1, PlacesInUse, Zenon
    <3>3. PICK m \in DOMAIN records : m = Len(records) - i
      BY <1>3, <2>2
    <3>4. /\ ring[p].uid = records[m].uid /\ ring[p].msg = records[m].msg
          /\ p \in Loose \/ ring[p].status = records[m].status
      BY <2>1, <2>2, <3>2, <3>3, Zenon DEF Mirrors
    <3>5. p \in Loose' \/ ring[p].status = records'[m].status
      <4>1. CASE records'[m] = ring[s] /\ records[m].uid = ring[s].uid
        <5>1. s = p
          BY <1>1, <1>5, <3>2, <3>4, <4>1, OneSlot, Zenon
        <5> QED
          BY <4>1, <5>1, Zenon
      <4>2. CASE records'[m] = records[m]
        <5>1. CASE p # s
          BY <1>12, <3>4, <4>2, <5>1, Zenon
        <5>2. CASE p = s /\ ring[s].msg \in behind'
          BY <1>13, <5>2, Zenon
        <5>3. CASE p = s /\ ring[s].msg \notin behind'
          <6>1. ~task[t].raced /\ task[t].made = made
            BY <1>10, <5>3, Zenon
          <6>2. (\A u \in StoreTask : ~Storing(u)) /\ e < count /\ s = Place(head, e)
            BY <1>1, <1>2, <1>4, <6>1, Zenon DEF UpdateSound
          <6>3. k = 0
            <7>1. ~Saving
              BY <6>2, Zenon DEF Saving, Storing
            <7> QED
              BY <1>14, <7>1, Zenon
          <6>4. e = i
            <7>1. e \in 0 .. count - 1 /\ i \in 0 .. count - 1 /\ i + k = i
              BY <1>3, <1>5, <3>1, <6>2, <6>3
            <7>2. \A a, b \in 0 .. count - 1 : a # b => Place(head, a) # Place(head, b)
              BY <1>3, PlacesInUse, Zenon
            <7> QED
              BY <3>2, <5>3, <6>2, <7>1, <7>2, Zenon
          <6>5. at = m /\ at \in 1 .. Len(records)
            BY <1>3, <1>5, <2>1, <2>2, <3>3, <6>4
          <6>6. records[at].uid = ring[s].uid
            BY <3>4, <5>3, <6>5, Zenon
          <6>7. records' = [records EXCEPT ![at] = ring[s]]
            BY <1>10, <2>1, <5>3, <6>5, <6>6, Zenon
          <6>8. records'[m] = ring[s]
            BY <1>3, <6>5, <6>7, Zenon
          <6> QED
            BY <5>3, <6>8, Zenon
        <5> QED
          BY <5>1, <5>2, <5>3, Zenon
      <4> QED
        BY <1>3, <1>9, <4>1, <4>2, Zenon
    <3>6. records'[m].uid = records[m].uid /\ records'[m].msg = records[m].msg
      BY <1>2, Zenon
    <3> QED
      BY <3>2, <3>3, <3>4, <3>5, <3>6, Zenon
  <2>3. Mirrors(records', k, ring, head, count, Loose')
    BY <1>2, <2>2, Zenon DEF Mirrors
  <2> QED
    BY <1>2, <2>3, Zenon
<1>16. \A u \in StoreTask : task'[u].at # "swap"
  BY <1>2, <1>7, Zenon DEF Swapping
<1> QED
  BY <1>7, <1>8, <1>14, <1>15, <1>16, Zenon DEF MirrorSound

(* Boot fills the ring from the file.                                      *)
LEMMA BootMirror ==
    ASSUME MirrorIInv, Boot
    PROVE  UpdateSound' /\ MirrorSound'
<1>1. OrderIInv /\ records \in Seq(Row) /\ MSG_STORE_MAX \in Nat \ {0}
  BY StoreAssumption, Zenon DEF MirrorIInv, OrderIInv, StoreTypeOK
<1>2. PICK n \in Nat : n = Len(records)
  BY <1>1
<1>3. PICK load \in 0 .. MSG_STORE_MAX :
          /\ load <= n /\ count' = load /\ head' = load % MSG_STORE_MAX
          /\ ring' = [s \in Slots |-> IF s < load THEN records[n - load + s + 1] ELSE Blank]
  BY <1>1, <1>2, BootedRing, Zenon
<1>4. records' = records /\ task' = [t \in StoreTask |-> Idle]
  BY Zenon DEF Boot, flash
<1>5. \A t \in StoreTask : task'[t].at = "idle"
  BY <1>4, Zenon DEF Idle
<1>6. UpdateSound' /\ ~Saving' /\ ~Swapping'
  BY <1>5, Zenon DEF UpdateSound, Saving, Swapping
<1>7. ASSUME NEW i \in Nat, i + 0 < load
      PROVE  ring'[Place(head', i + 0)] = records[n - i]
  <2>1. i \in Slots /\ load - 1 - i \in Slots /\ load - 1 - i < load /\ i + 0 = i
    BY <1>1, <1>7 DEF Slots
  <2>2. head' = IF load < MSG_STORE_MAX THEN load ELSE 0
    <3>1. load \in -MSG_STORE_MAX .. MSG_STORE_MAX + MSG_STORE_MAX - 1
      BY <1>1
    <3>2. load % MSG_STORE_MAX = IF load < 0 THEN load + MSG_STORE_MAX
                                 ELSE IF load < MSG_STORE_MAX THEN load ELSE load - MSG_STORE_MAX
      BY <1>1, <3>1, RingRemainder, Zenon
    <3> QED
      BY <1>1, <1>3, <3>2
  <2>3. PICK h \in Slots : h = head'
    BY <1>1, <2>2 DEF Slots
  <2>4. Place(h, i) = IF i < h THEN h - 1 - i ELSE h - 1 - i + MSG_STORE_MAX
    BY <2>1, PlaceIs, Zenon
  <2>5. Place(h, i) = load - 1 - i
    BY <1>1, <1>7, <2>2, <2>3, <2>4
  <2>6. ring'[load - 1 - i] = records[n - load + (load - 1 - i) + 1]
    BY <1>3, <2>1, Zenon
  <2>7. n - load + (load - 1 - i) + 1 = n - i
    OBVIOUS
  <2> QED
    BY <2>1, <2>3, <2>5, <2>6, <2>7, Zenon
<1>8. Mirrors(records', 0, ring', head', count', Loose')
  BY <1>2, <1>3, <1>4, <1>7, Zenon DEF Mirrors
<1>9. \A t \in StoreTask : task'[t].at # "swap"
  BY <1>5, Zenon
<1> QED
  BY <1>6, <1>8, <1>9, Zenon DEF MirrorSound

(* Ring and file agree at first.                                           *)
LEMMA InitMirror == StoreInit => MirrorIInv
<1> SUFFICES ASSUME StoreInit PROVE MirrorIInv
  BY Zenon
<1>1. \A t \in StoreTask : task[t].at = "idle"
  BY Zenon DEF StoreInit, Idle
<1>2. UpdateSound
  BY <1>1, Zenon DEF UpdateSound
<1>3. ~Saving
  BY <1>1, Zenon DEF Saving
<1>4. \A i \in Nat : ~(i + 0 < 0)
  OBVIOUS
<1>5. Mirrors(records, 0, ring, head, 0, Loose)
  BY <1>4, Zenon DEF Mirrors
<1>6. count = 0
  BY Zenon DEF StoreInit
<1>7. MirrorSound
  <2>1. \A t \in StoreTask : task[t].at # "swap"
    BY <1>1, Zenon
  <2> QED
    BY <1>3, <1>5, <1>6, <2>1, Zenon DEF MirrorSound
<1> QED
  BY <1>2, <1>7, InitOrder, Zenon DEF MirrorIInv

(* A step that changes nothing keeps the agreement.                        *)
LEMMA SameMirror == MirrorIInv /\ UNCHANGED storeVars => UpdateSound' /\ MirrorSound'
<1> SUFFICES ASSUME MirrorIInv, UNCHANGED storeVars PROVE UpdateSound' /\ MirrorSound'
  BY Zenon
<1>1. UNCHANGED <<ring, head, count, records, task, made, failed, behind>>
  BY Zenon DEF storeVars
<1>2. UpdateSound'
  BY <1>1, Zenon DEF MirrorIInv, UpdateSound, Storing
<1>3. (Saving' <=> Saving) /\ (Swapping' <=> Swapping) /\ Loose' = Loose
  BY <1>1, Zenon DEF Saving, Swapping, Loose
<1>4. MirrorSound'
  BY <1>1, <1>3, Zenon DEF MirrorIInv, MirrorSound
<1> QED
  BY <1>2, <1>4, Zenon

(* Every step keeps the invariant of the agreement.                        *)
LEMMA NextMirror == ASSUME OneAdder PROVE MirrorIInv /\ [StoreNext]_storeVars => MirrorIInv'
<1>1. MirrorIInv /\ StoreNext => UpdateSound' /\ MirrorSound'
  BY PickSlotMirror, WriteRowMirror, AppendRecordMirror, AppendFailsMirror, WriteHeaderMirror, RolloverMirror,
     RenameMirror, UpdateRowMirror, UpdateRecordMirror, BootMirror, Zenon DEF StoreNext
<1> QED
  BY <1>1, SameMirror, NextOrder, Zenon DEF MirrorIInv

(* Whenever every task is at rest and no write has failed since the boot,  *)
(* the newest rows are the newest records, so that a reboot restores what  *)
(* was shown; a status may differ only where the update met a task storing *)
(* another message, or could not be written.                               *)
THEOREM MirrorsRingTheorem == ASSUME OneAdder PROVE StoreSpec => []MirrorsRing
<1>1. ASSUME MirrorIInv PROVE MirrorsRing
  <2> SUFFICES ASSUME \A t \in StoreTask : task[t] = Idle, ~failed,
                      NEW i \in 0 .. Min({count, Len(records)}) - 1
               PROVE  LET row == ring[RowIndex(i)]
                          rec == records[Len(records) - i]
                      IN row.msg = rec.msg /\ (row.msg \in behind \/ row.status = rec.status)
    BY Zenon DEF MirrorsRing
  <2>1. count \in Nat /\ Len(records) \in Nat /\ MirrorSound
    BY <1>1 DEF MirrorIInv, OrderIInv, StoreTypeOK
  <2>2. i \in Nat /\ i < count /\ i < Len(records) /\ i + 0 = i
    BY <2>1, SmallerOfTwo
  <2>3. \A t \in StoreTask : task[t].at = "idle"
    BY DEF Idle
  <2>4. ~Swapping /\ ~Saving
    BY <2>3, Zenon DEF Swapping, Saving
  <2>5. Mirrors(records, 0, ring, head, count, Loose)
    BY <2>1, <2>4, Zenon DEF MirrorSound
  <2>6. PICK s : s = RowIndex(i) /\ s = Place(head, i)
    BY Zenon DEF RowIndex, Place
  <2>7. /\ ring[s].msg = records[Len(records) - i].msg
        /\ s \in Loose \/ ring[s].status = records[Len(records) - i].status
    BY <2>2, <2>5, <2>6, Zenon DEF Mirrors
  <2>8. s \in Loose => ring[s].msg \in behind
    BY <2>3, Zenon DEF Loose
  <2> QED
    BY <2>6, <2>7, <2>8, Zenon
<1> QED
  BY <1>1, InitMirror, NextMirror, PTL DEF StoreSpec
=============================================================================
