---------------------------- MODULE MessageStore ----------------------------
(***************************************************************************)
(* The message history (msg_store.c) and its file (msg_store_lfs.c): a     *)
(* ring of rows in RAM, a file of records that both hold a suffix of one   *)
(* sequence of appends, status updates that are written through to the     *)
(* record of their row, a rollover that drops the oldest records, and a    *)
(* boot that fills the ring from the file.  Ring and file are under two    *)
(* different locks, each held for one step here; between the steps of one  *)
(* task another may run, and power may fail.                               *)
(*                                                                         *)
(* Messages are numbered in the order they are stored; the number is not   *)
(* part of the program and only the properties look at it.  All messages   *)
(* look alike (same peer, same text), so that msg_store_record_matches has *)
(* nothing but the uid to tell them apart.                                 *)
(***************************************************************************)
EXTENDS Integers, Sequences, FiniteSetsExt

CONSTANTS
    Adders, Updaters,       \* tasks that store messages, tasks that change a status
    MSG_STORE_MAX,          \* rows of the ring
    PERSIST_MAX, KEEP_PCT,  \* CONFIG_BRAMBLE_MSG_PERSIST_MAX, _ROLLOVER_KEEP_PCT
    MaxMessages,            \* bound of the model: messages stored
    MaxUpdates,             \* bound of the model: status changes
    MaxStoreFaults          \* bound of the model: power failures and failed writes

ASSUME StoreAssumption ==
    /\ MSG_STORE_MAX \in Nat \ {0} /\ PERSIST_MAX \in Nat \ {0}
    /\ KEEP_PCT \in 50 .. 90

StoreTask == Adders \cup Updaters
Blank == [uid |-> 0, msg |-> 0, status |-> "none"]

VARIABLES
    ring, head, count,  \* s_msgs, s_head, s_count
    nextUid,            \* s_next_uid
    records,            \* the records of MSG_FILE_PATH
    written,            \* record_count in the header on flash
    counted,            \* s_header.record_count
    ready,              \* s_initialized
    task,               \* what each task is in the middle of
    made, updates,      \* messages stored, status changes
    storeFaults,
    kept,               \* messages whose save succeeded and no rollover dropped
    failed,             \* a write failed since the last boot
    behind              \* messages whose update met a task storing another, or was not written

storeVars == <<ring, head, count, nextUid, records, written, counted, ready,
               task, made, updates, storeFaults, kept, failed, behind>>
flash == <<records, written>>
ringVars == <<ring, head, count>>

Idle == [at |-> "idle"]

(* nvs_lfs_lock is free for t: no other task is inside one of the file's   *)
(* operations.                                                             *)
FileFree(t) == \A u \in StoreTask \ {t} : task[u].at \notin {"header", "swap"}

(* The row i places before the newest, and the record i places before the  *)
(* last one counted.                                                       *)
RowIndex(i) == (head - 1 - i) % MSG_STORE_MAX
RecordIndex(i) == counted - i

StoreInit ==
    /\ ring = [s \in 0 .. MSG_STORE_MAX - 1 |-> Blank] /\ head = 0 /\ count = 0
    /\ nextUid = 1
    /\ records = <<>> /\ written = 0 /\ counted = 0 /\ ready = TRUE
    /\ task = [t \in StoreTask |-> Idle]
    /\ made = 0 /\ updates = 0 /\ storeFaults = 0
    /\ kept = {} /\ failed = FALSE /\ behind = {}

-----------------------------------------------------------------------------
(* msg_store_add_full up to the lock: a uid is taken, and the slot is read *)
(* before MSG_LOCK.                                                        *)
PickSlot(t) ==
    /\ t \in Adders /\ task[t] = Idle /\ made < MaxMessages
    /\ nextUid' = nextUid + 1
    /\ made' = made + 1
    /\ task' = [task EXCEPT ![t] = [at |-> "write", slot |-> head, uid |-> nextUid, msg |-> made + 1]]
    /\ UNCHANGED <<ringVars, flash, counted, ready, updates, storeFaults, kept, failed, behind>>

(* The row is written and the ring advances under MSG_LOCK.                *)
WriteRow(t) ==
    /\ task[t].at = "write"
    /\ ring' = [ring EXCEPT ![task[t].slot] =
                    [uid |-> task[t].uid, msg |-> task[t].msg, status |-> "sent"]]
    /\ head' = (head + 1) % MSG_STORE_MAX
    /\ count' = Min({count + 1, MSG_STORE_MAX})
    /\ task' = [task EXCEPT ![t] = [at |-> "save", slot |-> task[t].slot]]
    /\ UNCHANGED <<nextUid, flash, counted, ready, made, updates, storeFaults, kept, failed, behind>>

(* save_unlocked: what the slot holds by now is appended, then the header  *)
(* is written.  A failed write appends nothing; a failed sync leaves the   *)
(* record in the file, uncounted.  A partial record is cut off at boot, so *)
(* losing power in the middle is losing it before or after.                *)
AppendRecord(t) ==
    /\ task[t].at = "save" /\ ready /\ FileFree(t)
    /\ records' = Append(records, ring[task[t].slot])
    /\ counted' = counted + 1
    /\ task' = [task EXCEPT ![t] = [at |-> "header", msg |-> ring[task[t].slot].msg]]
    /\ UNCHANGED <<ringVars, nextUid, written, ready, made, updates, storeFaults, kept, failed, behind>>

AppendFails(t) ==
    /\ task[t].at = "save" /\ FileFree(t)
    /\ task' = [task EXCEPT ![t] = Idle]
    /\ failed' = TRUE
    /\ IF ready
       THEN /\ storeFaults < MaxStoreFaults /\ storeFaults' = storeFaults + 1
            /\ records' \in {records, Append(records, ring[task[t].slot])}
       ELSE UNCHANGED <<storeFaults, records>>
    /\ UNCHANGED <<ringVars, nextUid, written, counted, ready, made, updates, kept, behind>>

(* The save succeeds with the header; then msg_store_add_full looks at the *)
(* count.  When the header fails, so does the save.                        *)
WriteHeader(t) ==
    /\ task[t].at = "header"
    /\ \/ /\ written' = counted
          /\ kept' = kept \cup {task[t].msg}
          /\ task' = [task EXCEPT ![t] = IF counted >= PERSIST_MAX THEN [at |-> "roll"] ELSE Idle]
          /\ UNCHANGED storeFaults
       \/ /\ storeFaults < MaxStoreFaults /\ storeFaults' = storeFaults + 1
          /\ task' = [task EXCEPT ![t] = Idle]
          /\ UNCHANGED <<written, kept>>
    /\ UNCHANGED <<ringVars, nextUid, records, counted, ready, made, updates, failed, behind>>

-----------------------------------------------------------------------------
KeepCount == (PERSIST_MAX * KEEP_PCT) \div 100

(* What a rollover is meant to keep of the file.                           *)
Newest(recs) == SubSeq(recs, Len(recs) - KeepCount + 1, Len(recs))
Messages(recs) == {recs[i].msg : i \in DOMAIN recs}

(* Mutant of Copied: the copy starts, and ends, one record early.          *)
CopiedEarly == SubSeq(records, counted - KeepCount, counted - 1)

(* The last KeepCount records counted.                                     *)
Copied == SubSeq(records, counted - KeepCount + 1, counted)

(* rollover_unlocked: the newest counted records go to a second file, the  *)
(* first is removed, the second renamed.  When the copy fails the first    *)
(* stays.                                                                  *)
Rollover(t) ==
    /\ task[t].at = "roll" /\ FileFree(t)
    /\ UNCHANGED <<ringVars, nextUid, counted, ready, made, updates>>
    /\ \/ /\ counted <= PERSIST_MAX
          /\ task' = [task EXCEPT ![t] = Idle]
          /\ UNCHANGED <<flash, storeFaults, kept, failed, behind>>
       \/ /\ counted > PERSIST_MAX
          /\ task' = [task EXCEPT ![t] = [at |-> "swap", copy |-> Copied]]
          /\ records' = <<>> /\ written' = 0      \* removed
          /\ kept' = kept \cap Messages(Newest(records))
          /\ UNCHANGED <<storeFaults, failed, behind>>
       \/ /\ counted > PERSIST_MAX /\ storeFaults < MaxStoreFaults
          /\ storeFaults' = storeFaults + 1
          /\ task' = [task EXCEPT ![t] = Idle]
          /\ UNCHANGED <<flash, kept, failed, behind>>

Rename(t) ==
    /\ task[t].at = "swap"
    /\ task' = [task EXCEPT ![t] = Idle]
    /\ \/ /\ records' = task[t].copy /\ written' = KeepCount /\ counted' = KeepCount
          /\ UNCHANGED <<ready, storeFaults, kept, failed>>
       \/ /\ storeFaults < MaxStoreFaults /\ storeFaults' = storeFaults + 1
          /\ ready' = FALSE /\ failed' = TRUE
          /\ kept' = {}
          /\ UNCHANGED <<records, written, counted>>
    /\ UNCHANGED <<ringVars, nextUid, made, updates, behind>>

-----------------------------------------------------------------------------
(* Someone else is storing a message.                                      *)
Busy(t) == \E u \in StoreTask \ {t} : task[u].at \notin {"idle", "update"}

(* msg_store_update_by_uid and msg_store_update_status under MSG_LOCK, and *)
(* msg_store_unpark: a queued row takes nothing but a delivery, unless it  *)
(* is unparked.                                                            *)
Accepts(old, new) == old # "queued" \/ new = "delivered"

UpdateRow(t) ==
    /\ t \in Updaters /\ task[t] = Idle /\ updates < MaxUpdates
    /\ \E i \in 0 .. count - 1, new \in {"queued", "delivered", "failed"} :
         LET row == ring[RowIndex(i)] IN
         /\ row.status # new
         /\ Accepts(row.status, new) \/ (row.status = "queued" /\ new = "failed")
         /\ ring' = [ring EXCEPT ![RowIndex(i)].status = new]
         /\ task' = [task EXCEPT ![t] = [at |-> "update", slot |-> RowIndex(i), fromEnd |-> i,
                                         made |-> made, raced |-> Busy(t)]]
    /\ updates' = updates + 1
    /\ UNCHANGED <<head, count, nextUid, flash, counted, ready, made, storeFaults, kept, failed, behind>>

(* Mutant of RecordMatches: every message of the same peer and text.       *)
RecordMatchesText(rec, row) == TRUE

(* msg_store_record_matches, for messages that differ in their uid only.   *)
RecordMatches(rec, row) == rec.uid = row.uid

(* persist_row_update and update_unlocked: the record fromEnd places back  *)
(* is overwritten with what the slot holds by now, if it is the same       *)
(* message.  The write may fail.                                           *)
UpdateRecord(t) ==
    /\ task[t].at = "update" /\ FileFree(t)
    /\ LET row == ring[task[t].slot]
           at == RecordIndex(task[t].fromEnd)
           late == task[t].raced \/ Busy(t) \/ made # task[t].made
       IN \/ /\ records' = IF ready /\ at \in 1 .. Len(records) /\ RecordMatches(records[at], row)
                           THEN [records EXCEPT ![at] = row] ELSE records
             /\ behind' = IF late THEN behind \cup {row.msg} ELSE behind
             /\ UNCHANGED storeFaults
          \/ /\ storeFaults < MaxStoreFaults /\ storeFaults' = storeFaults + 1
             /\ behind' = behind \cup {row.msg}
             /\ UNCHANGED records
    /\ task' = [task EXCEPT ![t] = Idle]
    /\ UNCHANGED <<ringVars, nextUid, written, counted, ready, made, updates, kept, failed>>

-----------------------------------------------------------------------------
(* Mutant of ResumeUid: uids start over.                                   *)
ResumeUidAnew(rows) == 1

(* A uid above those of all rows loaded.                                   *)
ResumeUid(rows) == Max({row.uid : row \in rows} \cup {0}) + 1

(* Mutant of RecordsFound: the count in the header is taken.               *)
RecordsFoundHeader == written

(* init_unlocked: the number of records is that of the file, not that of   *)
(* the header.                                                             *)
RecordsFound == Len(records)

(* Power fails, and msg_store_init_with_persistence fills the ring with    *)
(* the newest records.  A file that was removed and not yet replaced is    *)
(* created anew.                                                           *)
Boot ==
    /\ storeFaults < MaxStoreFaults /\ storeFaults' = storeFaults + 1
    /\ LET n == RecordsFound
           load == Min({n, MSG_STORE_MAX})
           Loaded(s) == records[n - load + s + 1]
       IN /\ ring' = [s \in 0 .. MSG_STORE_MAX - 1 |-> IF s < load THEN Loaded(s) ELSE Blank]
          /\ count' = load /\ head' = load % MSG_STORE_MAX
          /\ nextUid' = ResumeUid({Loaded(s) : s \in 0 .. load - 1})
          /\ counted' = n
    /\ ready' = TRUE /\ failed' = FALSE /\ behind' = {}
    /\ kept' = IF \E t \in StoreTask : task[t].at = "swap" THEN {}
               ELSE IF failed THEN kept \cap Messages(records) ELSE kept
    /\ task' = [t \in StoreTask |-> Idle]
    /\ UNCHANGED <<flash, made, updates>>

StoreNext ==
    \/ \E t \in StoreTask :
          \/ PickSlot(t) \/ WriteRow(t) \/ AppendRecord(t) \/ AppendFails(t) \/ WriteHeader(t)
          \/ Rollover(t) \/ Rename(t) \/ UpdateRow(t) \/ UpdateRecord(t)
    \/ Boot

StoreSpec == StoreInit /\ [][StoreNext]_storeVars

-----------------------------------------------------------------------------
(* Every row in use is a message of its own: no message is written over    *)
(* another's row while the ring has an older one to give up, and no row    *)
(* counts that was never written.                                          *)
RowOfItsOwn ==
    \A i, j \in 0 .. count - 1 :
        /\ ring[RowIndex(i)] # Blank
        /\ i # j => ring[RowIndex(i)].uid # ring[RowIndex(j)].uid

(* No status update ever lands on the record of another message, whatever  *)
(* appends failed and whatever was stored between the two halves of the    *)
(* update: the records stay those of the messages stored, in order.        *)
NeighbourSafe == \A i \in 1 .. Len(records) - 1 : records[i].msg < records[i + 1].msg

(* Row and record agree: with every task at rest and no failed write since *)
(* the boot, the i-th newest row is the i-th newest record, status         *)
(* included, so that a reboot restores what was shown; only an update that *)
(* met another task storing a message may be missing.                      *)
MirrorsRing ==
    (\A t \in StoreTask : task[t] = Idle) /\ ready /\ ~failed =>
        \A i \in 0 .. Min({count, Len(records)}) - 1 :
            LET row == ring[RowIndex(i)]
                rec == records[Len(records) - i]
            IN row.msg = rec.msg /\ (row.msg \in behind \/ row.status = rec.status)

(* A message whose save reported success stays in the file until a         *)
(* rollover drops it as too old, through every loss of power but one       *)
(* between the removal of the old file and the renaming of the new one.    *)
SavedSurvives ==
    (\A t \in StoreTask : task[t].at # "swap") /\ ~failed =>
        kept \subseteq Messages(records)
=============================================================================
