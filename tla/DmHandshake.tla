---------------------------- MODULE DmHandshake -----------------------------
(***************************************************************************)
(* The key exchange of direct messages between two nodes (mesh_dm.c with   *)
(* dm_session.c), down to which root key each side holds.  Three tasks of  *)
(* a node touch its session: the task that sends (mesh_send_dm), the mesh  *)
(* task that receives (handle_ke_envelope, handle_data) and the worker     *)
(* that runs the handshakes (process_ke_init, process_ke_resp); s_dm_mutex *)
(* covers only parts of what they do, so those are separate steps here.    *)
(*                                                                         *)
(* Keys are abstracted to what can be told apart.  A root is a number; the *)
(* responder of a handshake makes a new one and its RESP carries it, with  *)
(* the root it was chained onto, if any.  An INIT or RESP is live while    *)
(* the initiator's s_pending_eph still holds the ephemeral it was made     *)
(* with.  A data frame is the root of the chain that encrypted it; indices *)
(* within a chain are the subject of DmRatchet.                            *)
(***************************************************************************)
EXTENDS Naturals, Sequences, FiniteSets

CONSTANTS
    Lo, Hi,         \* the two nodes; Lo has the lower address
    QUEUE_LEN,      \* HANDSHAKE_WORK_QUEUE_LEN
    Pinned,         \* whether the nodes pinned each other's identity
    MaxEpoch,       \* bound of the model: highest epoch a rekey asks for
    MaxFaults       \* bound of the model: lost, repeated and late packets, reboots,
                    \* and messages of the side that does not keep sending

Node == {Lo, Hi}
Peer(n) == IF n = Lo THEN Hi ELSE Lo
NoRoot == 0

VARIABLES
    sess,       \* node -> its slot for the peer: state, root, previous root, epoch
    workq,      \* node -> s_handshake_work_q
    worker,     \* node -> the INIT or RESP handshake_worker_task has verified, or Idle
    sender,     \* node -> what mesh_send_dm still has to do outside the mutex
    queued,     \* node -> a message waits in s_queued_msgs for the session
    rate,       \* node -> dm_rehandshake_rate_ok would say yes
    air,        \* packets in flight
    talker,     \* the node that keeps sending
    faults      \* how many faults there were

vars == <<sess, workq, worker, sender, queued, rate, air, talker, faults>>
budget == <<talker, faults>>

NoSession == [state |-> "none", root |-> NoRoot, prev |-> NoRoot, epoch |-> 0]
Idle == [kind |-> "idle"]

(* seen: the receiver has the INIT in s_hs_dedup.                          *)
InitPkt(n, k, tagged) ==
    [kind |-> "init", to |-> Peer(n), epoch |-> k, tagged |-> tagged, live |-> TRUE, seen |-> FALSE]
RespPkt(n, live, k, root, base) ==
    [kind |-> "resp", to |-> Peer(n), epoch |-> k, live |-> live,
     root |-> IF live THEN root ELSE NoRoot, base |-> IF live THEN base ELSE NoRoot]
DataPkt(n, root) == [kind |-> "data", to |-> Peer(n), root |-> root]
Initiate(k) == [kind |-> "initiate", epoch |-> k]

Fault == faults < MaxFaults /\ faults' = faults + 1

(* Bound of the model: one data frame to each node is in flight at a time; *)
(* a second one is lost.                                                   *)
WithData(pkts, d) == IF \E p \in pkts : p.kind = "data" /\ p.to = d.to THEN pkts ELSE pkts \cup {d}

(* A change applied to every packet, wherever it is.                       *)
InAir(Op(_)) == {Op(p) : p \in air}
InQueues(Op(_), q) == [m \in Node |-> [i \in DOMAIN q[m] |-> Op(q[m][i])]]
InWorkers(Op(_)) == [m \in Node |-> Op(worker[m])]

(* Node n no longer holds the ephemeral that packet p was made with.       *)
Superseded(n, p) ==
    CASE p.kind = "init" /\ p.to # n -> [p EXCEPT !.live = FALSE]
      [] p.kind = "resp" /\ p.to = n -> [p EXCEPT !.live = FALSE, !.root = NoRoot, !.base = NoRoot]
      [] OTHER -> p

(* The roots the state depends on.  Making one renumbers them by age, so   *)
(* the numbers stay small.                                                 *)
RootsOf(p) ==
    CASE p.kind = "resp" -> {p.root, p.base}
      [] p.kind = "data" -> {p.root}
      [] OTHER -> {}
LiveRoots ==
    (UNION {{sess[n].root, sess[n].prev} \cup RootsOf(worker[n])
            \cup UNION {RootsOf(workq[n][i]) : i \in DOMAIN workq[n]} : n \in Node}
     \cup UNION {RootsOf(p) : p \in air}) \ {NoRoot}
NewRoot == Cardinality(LiveRoots) + 1
Aged(r) == Cardinality({q \in LiveRoots : q <= r})
AgedPkt(p) ==
    CASE p.kind = "resp" -> [p EXCEPT !.root = Aged(@), !.base = Aged(@)]
      [] p.kind = "data" -> [p EXCEPT !.root = Aged(@)]
      [] OTHER -> p

Init ==
    /\ sess = [n \in Node |-> NoSession]
    /\ workq = [n \in Node |-> <<>>]
    /\ worker = [n \in Node |-> Idle]
    /\ sender = [n \in Node |-> "idle"]
    /\ queued = [n \in Node |-> FALSE]
    /\ rate = [n \in Node |-> TRUE]
    /\ air = {}
    /\ talker \in Node
    /\ faults = 0

-----------------------------------------------------------------------------
(* mesh_send_dm under s_dm_mutex: an ACTIVE session sends at once;         *)
(* otherwise a slot is taken and, unless a young handshake is under way,   *)
(* this send is to start one.                                              *)
SendDm(n) ==
    /\ sender[n] = "idle"
    /\ IF n = talker THEN UNCHANGED faults ELSE Fault
    /\ \/ /\ sess[n].state = "active"
          /\ air' = WithData(air, DataPkt(n, sess[n].root))
          /\ UNCHANGED <<sess, sender>>
       \/ /\ sess[n].state # "active"
          /\ sess' = [sess EXCEPT ![n].state = "handshaking"]
          /\ sender' = [sender EXCEPT ![n] =
                           IF sess[n].state = "handshaking" THEN "queue" ELSE "initiate"]
          /\ UNCHANGED air
    /\ UNCHANGED <<workq, worker, queued, rate, talker>>

(* initiate_dm_handshake: a new ephemeral replaces the pending one and an  *)
(* INIT goes out.  A rekey needs an ACTIVE session, or falls back to 0.    *)
InitiateDmHandshake(n, k, q) ==
    LET rekey == k > 0 /\ sess[n].state = "active"
        Old(p) == Superseded(n, p) IN
    /\ air' = InAir(Old) \cup {InitPkt(n, IF rekey THEN k ELSE 0, rekey)}
    /\ workq' = InQueues(Old, q)
    /\ worker' = InWorkers(Old)

(* The rest of mesh_send_dm, after the mutex: queue the message, then the  *)
(* INIT.                                                                   *)
SendDmQueue(n) ==
    /\ sender[n] # "idle"
    /\ queued' = [queued EXCEPT ![n] = TRUE]
    /\ sender' = [sender EXCEPT ![n] = "idle"]
    /\ IF sender[n] = "initiate" THEN InitiateDmHandshake(n, 0, workq)
       ELSE UNCHANGED <<air, workq, worker>>
    /\ UNCHANGED <<sess, rate, budget>>

-----------------------------------------------------------------------------
(* xQueueSend without waiting: a full queue drops the item.                *)
Post(n, item) ==
    workq' = IF Len(workq[n]) < QUEUE_LEN THEN [workq EXCEPT ![n] = Append(@, item)] ELSE workq

(* handle_ke_envelope: an INIT seen before is dropped; it counts as seen   *)
(* even if the queue has no room for it.                                   *)
RecvKe(n, p) ==
    /\ p.kind \in {"init", "resp"}
    /\ IF p.kind = "init" /\ p.seen THEN UNCHANGED workq ELSE Post(n, p)
    /\ UNCHANGED <<sess, rate>>

(* Which frames dm_session_ratchet_decrypt can open.                       *)
Readable(n, root) == sess[n].state = "active" /\ root \in {sess[n].root, sess[n].prev}

(* handle_data's DM branch.  Frames of the current root use up the grace   *)
(* of the previous one (after DM_EPOCH_GRACE_MSGS of them; here at any     *)
(* time).  A frame that cannot be opened asks for a new handshake, at most *)
(* once per interval (maybe_trigger_dm_rehandshake).                       *)
RecvData(n, p) ==
    /\ p.kind = "data"
    /\ \/ /\ Readable(n, p.root)
          /\ \/ sess' = sess
             \/ p.root = sess[n].root /\ sess' = [sess EXCEPT ![n].prev = NoRoot]
          /\ UNCHANGED <<rate, workq>>
       \/ /\ ~Readable(n, p.root)
          /\ rate' = [rate EXCEPT ![n] = FALSE]
          /\ IF rate[n] THEN Post(n, Initiate(0)) ELSE UNCHANGED workq
          /\ UNCHANGED sess

(* A packet arrives, and is gone unless the medium delivers it again.      *)
Recv(n, kind) ==
    \E p \in air :
        /\ p.to = n /\ p.kind = kind
        /\ RecvKe(n, p) \/ RecvData(n, p)
        /\ \/ air' = air \ {p} /\ UNCHANGED faults
           \/ /\ Fault
              /\ air' = (air \ {p}) \cup {IF kind = "init" THEN [p EXCEPT !.seen = TRUE] ELSE p}
        /\ UNCHANGED <<worker, sender, queued, talker>>

(* maybe_schedule_dm_epoch_rekey: the lower address asks for the next      *)
(* epoch when the session is old enough or has sent enough.                *)
RekeyDue ==
    /\ sess[Lo].state = "active" /\ sess[Lo].epoch < MaxEpoch /\ rate[Lo]
    /\ rate' = [rate EXCEPT ![Lo] = FALSE]
    /\ Post(Lo, Initiate(sess[Lo].epoch + 1))
    /\ UNCHANGED <<sess, worker, sender, queued, air, budget>>

-----------------------------------------------------------------------------
(* Both sides chain the new pair of ephemerals onto the root of an ACTIVE  *)
(* session if the epoch is higher than the session's, keeping the old      *)
(* receive chain (dm_session_epoch_bump); anything else starts over        *)
(* (dm_session_ratchet_init_state).                                        *)
IsRekey(n, k) == sess[n].state = "active" /\ k > sess[n].epoch
Base(n, k) == IF IsRekey(n, k) THEN sess[n].root ELSE NoRoot

(* flush_session_queue: the waiting message goes out under the new root.   *)
Flushed(n, root, pkts) == IF queued[n] THEN WithData(pkts, DataPkt(n, root)) ELSE pkts

(* The session of n from now on; the roots of every packet age, and with   *)
(* the pending ephemeral cleared the packets made with it are superseded.  *)
Establish(n, root, k, reply, cleared) ==
    LET Op(p) == AgedPkt(IF cleared THEN Superseded(n, p) ELSE p) IN
    /\ sess' = [m \in Node |->
                  IF m = n
                  THEN [state |-> "active", root |-> root, prev |-> Aged(Base(n, k)), epoch |-> k]
                  ELSE [sess[m] EXCEPT !.root = Aged(@), !.prev = Aged(@)]]
    /\ air' = Flushed(n, root, InAir(Op) \cup reply)
    /\ queued' = [queued EXCEPT ![n] = FALSE]
    /\ workq' = InQueues(Op, workq)
    /\ worker' = [InWorkers(Op) EXCEPT ![n] = Idle]
    /\ UNCHANGED <<sender, rate, budget>>

(* handshake_worker_task takes an item.  An initiate item is one step; the *)
(* verification of INIT and RESP ends with the mutex released.             *)
Take(n, kind) == worker[n] = Idle /\ workq[n] # <<>> /\ Head(workq[n]).kind = kind

TakeInitiate(n) ==
    /\ Take(n, "initiate")
    /\ InitiateDmHandshake(n, Head(workq[n]).epoch, [workq EXCEPT ![n] = Tail(@)])
    /\ UNCHANGED <<sess, sender, queued, rate, budget>>

\* Mutant of TakeInit: no re-acceptance of a pinned peer's INIT.
TakeInitStrict(n) ==
    LET p == Head(workq[n]) IN
    /\ Take(n, "init")
    /\ workq' = [workq EXCEPT ![n] = Tail(@)]
    /\ worker' = [worker EXCEPT ![n] = IF sess[n].state = "active" /\ ~p.tagged THEN Idle ELSE p]
    /\ UNCHANGED <<sess, sender, queued, rate, air, budget>>

(* process_ke_init up to the RESP: against a known identity (an ACTIVE     *)
(* session has one) the tag must verify; if it does not, a pinned peer's   *)
(* INIT tears the session down, once per interval, and is taken as first   *)
(* contact.                                                                *)
TakeInit(n) ==
    LET p == Head(workq[n])
        known == sess[n].state = "active" IN
    /\ Take(n, "init")
    /\ workq' = [workq EXCEPT ![n] = Tail(@)]
    /\ \/ /\ known => p.tagged
          /\ worker' = [worker EXCEPT ![n] = p]
          /\ UNCHANGED <<sess, rate>>
       \/ /\ known /\ ~p.tagged /\ Pinned /\ rate[n]
          /\ sess' = [sess EXCEPT ![n] = NoSession]
          /\ rate' = [rate EXCEPT ![n] = FALSE]
          /\ worker' = [worker EXCEPT ![n] = p]
       \/ /\ known /\ ~p.tagged /\ ~(Pinned /\ rate[n])
          /\ UNCHANGED <<sess, rate, worker>>
    /\ UNCHANGED <<sender, queued, air, budget>>

(* process_ke_init from the second lock on: a new root, the RESP and the   *)
(* waiting messages.                                                       *)
AnswerInit(n) ==
    LET p == worker[n] IN
    /\ p.kind = "init"
    /\ Establish(n, NewRoot, p.epoch,
                 {RespPkt(n, p.live, p.epoch, NewRoot, Aged(Base(n, p.epoch)))}, FALSE)

(* process_ke_resp up to the lock: the tag covers both ephemerals, so only *)
(* a RESP to the pending one verifies.                                     *)
TakeResp(n) ==
    LET p == Head(workq[n]) IN
    /\ Take(n, "resp")
    /\ workq' = [workq EXCEPT ![n] = Tail(@)]
    /\ worker' = [worker EXCEPT ![n] = IF p.live THEN p ELSE Idle]
    /\ UNCHANGED <<sess, sender, queued, rate, air, budget>>

\* Mutant of AcceptResp: the pending ephemeral is not cleared.
AcceptRespKeepsEphemeral(n) ==
    LET p == worker[n]
        same == p.live /\ p.base = Base(n, p.epoch) IN
    /\ p.kind = "resp"
    /\ Establish(n, IF same THEN Aged(p.root) ELSE NewRoot, p.epoch, {}, FALSE)

(* process_ke_resp from dm_compute_ikm on: it reads the pending entry      *)
(* again and clears it at the end, whichever ephemeral is in it by then.   *)
(* The root is the responder's only if that entry and the root it is       *)
(* chained onto are the responder's; otherwise nobody else has it.         *)
AcceptResp(n) ==
    LET p == worker[n]
        same == p.live /\ p.base = Base(n, p.epoch) IN
    /\ p.kind = "resp"
    /\ Establish(n, IF same THEN Aged(p.root) ELSE NewRoot, p.epoch, {}, TRUE)

Work(n) == TakeInitiate(n) \/ TakeInit(n) \/ AnswerInit(n) \/ TakeResp(n) \/ AcceptResp(n)

-----------------------------------------------------------------------------
(* The intervals of the code (15 s and 30 s) are long against a handshake  *)
(* and the flight of a frame: they pass when no handshake is under way and *)
(* no frame of a root its sender has left, or, as a fault, while a packet  *)
(* is late.                                                                *)
Calm ==
    /\ \A p \in air : p.kind = "data" /\ p.root = sess[Peer(p.to)].root
    /\ \A n \in Node : workq[n] = <<>> /\ worker[n] = Idle /\ sender[n] # "initiate"
TimePasses ==
    \/ Calm /\ UNCHANGED faults
    \/ ~Calm /\ Fault

(* DM_REHANDSHAKE_MIN_INTERVAL_MS passes.                                  *)
RateElapses(n) ==
    /\ ~rate[n] /\ TimePasses
    /\ rate' = [rate EXCEPT ![n] = TRUE]
    /\ UNCHANGED <<sess, workq, worker, sender, queued, air, talker>>

(* DM_HANDSHAKE_STALE_MS passes (dm_handshake_is_stale).                   *)
StaleElapses(n) ==
    /\ sess[n].state = "handshaking" /\ TimePasses
    /\ sess' = [sess EXCEPT ![n].state = "stale"]
    /\ UNCHANGED <<workq, worker, sender, queued, rate, air, talker>>

(* All of it is RAM.                                                       *)
Reboot(n) ==
    LET Old(p) == Superseded(n, p)
        Forget(p) == IF p.to = n /\ p.kind = "init" THEN [p EXCEPT !.seen = FALSE] ELSE Old(p) IN
    /\ Fault
    /\ sess' = [sess EXCEPT ![n] = NoSession]
    /\ workq' = [InQueues(Old, workq) EXCEPT ![n] = <<>>]
    /\ worker' = [InWorkers(Old) EXCEPT ![n] = Idle]
    /\ sender' = [sender EXCEPT ![n] = "idle"]
    /\ queued' = [queued EXCEPT ![n] = FALSE]
    /\ rate' = [rate EXCEPT ![n] = TRUE]
    /\ air' = InAir(Forget)
    /\ UNCHANGED talker

Lose ==
    /\ Fault
    /\ \E p \in air : air' = air \ {p}
    /\ UNCHANGED <<sess, workq, worker, sender, queued, rate, talker>>

Next ==
    \/ \E n \in Node :
          \/ SendDm(n) \/ SendDmQueue(n) \/ Work(n) \/ RateElapses(n) \/ StaleElapses(n) \/ Reboot(n)
          \/ \E kind \in {"init", "resp", "data"} : Recv(n, kind)
    \/ RekeyDue \/ Lose

Spec == Init /\ [][Next]_vars
Fairness ==
    /\ WF_vars(SendDm(Lo) /\ talker = Lo) /\ WF_vars(SendDm(Hi) /\ talker = Hi)
    /\ \A n \in Node :
          /\ WF_vars(SendDmQueue(n)) /\ WF_vars(Work(n))
          /\ SF_vars(RateElapses(n)) /\ SF_vars(StaleElapses(n))
          /\ WF_vars(Recv(n, "init") \/ Recv(n, "resp")) /\ WF_vars(Recv(n, "data"))
FairSpec == Spec /\ Fairness

-----------------------------------------------------------------------------
(* A chain is never started over: a RESP the initiator accepts, repeated   *)
(* or late, gives it a root it does not already use, so no message key of  *)
(* mesh_dm.c encrypts two messages.                                        *)
ChainNeverRewound ==
    [][\A n \in Node : sess[n].state = "active" /\ AcceptResp(n) => sess'[n].root # Aged(sess[n].root)]_vars

(* Between nodes that pinned each other the session heals: however it came *)
(* apart (reboots, lost or repeated packets, crossing handshakes, lost     *)
(* rekeys), a node that keeps sending ends with every frame it sends       *)
(* readable at the peer (maybe_trigger_dm_rehandshake, process_ke_init).   *)
Heals ==
    <>[](Pinned => sess[talker].state = "active" /\ Readable(Peer(talker), sess[talker].root))
=============================================================================
