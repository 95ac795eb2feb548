---------------------------- MODULE NonceCounter ----------------------------
(***************************************************************************)
(* The node-global nonce counter (components/nonce_counter) over its NVS   *)
(* store (main/mesh_persist.c), as the firmware drives it: one init at     *)
(* boot (mesh_task_start), then nonce_counter_next under s_nonce_mutex     *)
(* from every task that sends (mesh, RPC, UI, CLI).                        *)
(*                                                                         *)
(* The counter is drawn from blocks of NONCE_RESERVE values.  The ceiling  *)
(* of the block is written to NVS before a value of it is handed out, so   *)
(* that a reboot resumes above everything ever issued.  The steps between  *)
(* the NVS write and the RAM update are separate actions: the node may     *)
(* lose power between them, and a write that reports an error may or may   *)
(* not have landed.                                                        *)
(***************************************************************************)
EXTENDS Integers

CONSTANTS
    Task,           \* the FreeRTOS tasks that send
    NONCE_RESERVE,  \* counters reserved by one NVS write (65536 in the code)
    ReadErrors,     \* what a failed read of the ceiling yields: {0}, or {} if reads never fail
    MaxCeiling      \* bound of the model: no ceiling above it is written

ASSUME ReserveAssumption == NONCE_RESERVE \in Nat \ {0}
ASSUME MaxCeilingAssumption == MaxCeiling \in Nat
ASSUME TaskAssumption == "none" \notin Task
ASSUME ReadErrorsAssumption == ReadErrors \subseteq {0}

VARIABLES
    nvs,                \* the ceiling NVS holds; 0 when none was ever written
    s_counter,          \* next value to issue, valid only while s_ready
    s_ceiling_durable,  \* highest ceiling confirmed by a successful write
    s_ready,            \* the initial reserve-ahead write is durable
    boot,               \* "off", "read", "written", "up": progress of mesh_task_start
    rd_ceiling,         \* what nonce_counter_init read
    mutex,              \* the holder of s_nonce_mutex, or "none"
    pc,                 \* task -> "idle", "wait", "locked", "flushed"
    times               \* history: how often each counter value was issued

vars == <<nvs, s_counter, s_ceiling_durable, s_ready, boot, rd_ceiling, mutex, pc, times>>

Counter == 0 .. MaxCeiling

Init ==
    /\ nvs = 0
    /\ s_counter = 0
    /\ s_ceiling_durable = 0
    /\ s_ready = FALSE
    /\ boot = "off"
    /\ rd_ceiling = 0
    /\ mutex = "none"
    /\ pc = [t \in Task |-> "idle"]
    /\ times = [c \in Counter |-> 0]

-----------------------------------------------------------------------------
(* Boot: nonce_counter_init, run by mesh_task_start before any sender.     *)

(* mesh_nonce_read: the stored ceiling, 0 on a device that has none, and 0 *)
(* as well when NVS cannot be read.                                        *)
InitRead ==
    /\ boot = "off"
    /\ rd_ceiling' \in {nvs} \cup ReadErrors
    /\ boot' = "read"
    /\ s_ready' = FALSE
    /\ UNCHANGED <<nvs, s_counter, s_ceiling_durable, mutex, pc, times>>

(* The reserve-ahead write of nonce_counter_init is confirmed.             *)
InitWrite ==
    /\ boot = "read"
    /\ rd_ceiling + NONCE_RESERVE <= MaxCeiling
    /\ nvs' = rd_ceiling + NONCE_RESERVE
    /\ boot' = "written"
    /\ UNCHANGED <<s_counter, s_ceiling_durable, s_ready, rd_ceiling, mutex, pc, times>>

(* mesh_nonce_write reports failure: nvs_set_blob failed, or it landed and *)
(* nvs_commit failed.  init returns -1, the node boots with s_ready false. *)
InitWriteFail ==
    /\ boot = "read"
    /\ nvs' \in {nvs} \cup ({rd_ceiling + NONCE_RESERVE} \cap Counter)
    /\ boot' = "up"
    /\ UNCHANGED <<s_counter, s_ceiling_durable, s_ready, rd_ceiling, mutex, pc, times>>

(* Mutant of InitReady: the counter resumes one short of the ceiling read. *)
InitReadyResumesLow ==
    /\ boot = "written"
    /\ s_counter' = IF rd_ceiling = 0 THEN 0 ELSE rd_ceiling - 1
    /\ s_ceiling_durable' = rd_ceiling + NONCE_RESERVE
    /\ s_ready' = TRUE
    /\ boot' = "up"
    /\ UNCHANGED <<nvs, rd_ceiling, mutex, pc, times>>

InitReady ==
    /\ boot = "written"
    /\ s_counter' = rd_ceiling
    /\ s_ceiling_durable' = rd_ceiling + NONCE_RESERVE
    /\ s_ready' = TRUE
    /\ boot' = "up"
    /\ UNCHANGED <<nvs, rd_ceiling, mutex, pc, times>>

(* Power loss, esp_restart or a watchdog reset, at any moment: the RAM is  *)
(* gone, NVS stays.                                                        *)
Crash ==
    /\ boot # "off"
    /\ boot' = "off"
    /\ s_counter' = 0
    /\ s_ceiling_durable' = 0
    /\ s_ready' = FALSE
    /\ rd_ceiling' = 0
    /\ mutex' = "none"
    /\ pc' = [t \in Task |-> "idle"]
    /\ UNCHANGED <<nvs, times>>

-----------------------------------------------------------------------------
(* nonce_counter_next, called by task t under s_nonce_mutex.               *)

Request(t) ==
    /\ boot = "up"
    /\ pc[t] = "idle"
    /\ pc' = [pc EXCEPT ![t] = "wait"]
    /\ UNCHANGED <<nvs, s_counter, s_ceiling_durable, s_ready, boot, rd_ceiling, mutex, times>>

Acquire(t) ==
    /\ pc[t] = "wait"
    /\ mutex = "none"
    /\ mutex' = t
    /\ pc' = [pc EXCEPT ![t] = "locked"]
    /\ UNCHANGED <<nvs, s_counter, s_ceiling_durable, s_ready, boot, rd_ceiling, times>>

Release(t) ==
    /\ mutex' = "none"
    /\ pc' = [pc EXCEPT ![t] = "idle"]

(* The subsystem never became ready: refuse.                               *)
NextRefuse(t) ==
    /\ pc[t] = "locked"
    /\ ~s_ready
    /\ Release(t)
    /\ UNCHANGED <<nvs, s_counter, s_ceiling_durable, s_ready, boot, rd_ceiling, times>>

(* Flush-before-cross: the block is used up, reserve the next one.         *)
NextFlush(t) ==
    /\ pc[t] = "locked"
    /\ s_ready
    /\ s_counter >= s_ceiling_durable
    /\ s_ceiling_durable + NONCE_RESERVE <= MaxCeiling
    /\ nvs' = s_ceiling_durable + NONCE_RESERVE
    /\ pc' = [pc EXCEPT ![t] = "flushed"]
    /\ UNCHANGED <<s_counter, s_ceiling_durable, s_ready, boot, rd_ceiling, mutex, times>>

(* The boundary write is not confirmed (landed or not): issue nothing.     *)
NextFlushFail(t) ==
    /\ pc[t] = "locked"
    /\ s_ready
    /\ s_counter >= s_ceiling_durable
    /\ nvs' \in {nvs} \cup ({s_ceiling_durable + NONCE_RESERVE} \cap Counter)
    /\ Release(t)
    /\ UNCHANGED <<s_counter, s_ceiling_durable, s_ready, boot, rd_ceiling, times>>

(* Hand out s_counter.  After a flush the RAM ceiling advances first.      *)
Issue(t, ceiling) ==
    /\ s_counter < ceiling
    /\ times' = [times EXCEPT ![s_counter] = @ + 1]
    /\ s_counter' = s_counter + 1
    /\ s_ceiling_durable' = ceiling
    /\ Release(t)
    /\ UNCHANGED <<nvs, s_ready, boot, rd_ceiling>>

NextIssue(t) ==
    /\ pc[t] = "locked"
    /\ s_ready
    /\ Issue(t, s_ceiling_durable)

NextIssueFlushed(t) ==
    /\ pc[t] = "flushed"
    /\ Issue(t, s_ceiling_durable + NONCE_RESERVE)

-----------------------------------------------------------------------------
InitStep == InitRead \/ InitWrite \/ InitReady

NextStep(t) ==
    Acquire(t) \/ NextRefuse(t) \/ NextFlush(t) \/ NextFlushFail(t) \/ NextIssue(t)
               \/ NextIssueFlushed(t)

Next ==
    \/ InitStep
    \/ InitWriteFail
    \/ Crash
    \/ \E t \in Task : Request(t) \/ NextStep(t)

Spec == Init /\ [][Next]_vars

-----------------------------------------------------------------------------
Issued == {c \in Counter : times[c] > 0}

(* Types of the NVS cell, of the component's statics and of the mutex.     *)
TypeOK ==
    /\ nvs \in Counter
    /\ s_counter \in Counter
    /\ s_ceiling_durable \in Counter
    /\ s_ready \in BOOLEAN
    /\ boot \in {"off", "read", "written", "up"}
    /\ rd_ceiling \in Counter
    /\ mutex \in Task \cup {"none"}
    /\ pc \in [Task -> {"idle", "wait", "locked", "flushed"}]
    /\ times \in [Counter -> Nat]

(* nonce_counter.h: "persisted ceiling always exceeds every issued         *)
(* counter", whatever crashes and failed writes came before.               *)
CeilingExceedsIssued == \A c \in Issued : c < nvs

(* No counter value is handed out twice in the node's lifetime: across     *)
(* reboots, failed boundary writes and concurrent senders.                 *)
IssuedOnce == \A c \in Counter : times[c] <= 1

(* The counter keeps its promise (NonceIssuer): blocks, boundary writes,   *)
(* crashes and the tasks' interleavings do not show in what is handed out. *)
Issuer == INSTANCE NonceIssuer WITH MaxCeiling <- MaxCeiling, times <- times
KeepsPromise == Issuer!Spec
=============================================================================
