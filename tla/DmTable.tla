------------------------------ MODULE DmTable -------------------------------
(***************************************************************************)
(* The table of direct-message sessions of one node (dm_alloc and its      *)
(* users in mesh_dm.c) with several peers: how slots are taken, evicted    *)
(* and given up, the cap on handshakes under way, and the table of pending *)
(* ephemeral keys beside it.  What two ends agree on is the subject of     *)
(* DmHandshake; here peers answer, or not, as they like.                   *)
(***************************************************************************)
EXTENDS Integers, Sequences, SequencesExt, FiniteSets

CONSTANTS
    Peers,
    DM_MAX_SESSIONS, DM_MAX_HANDSHAKING

ASSUME TableAssumption ==
    /\ DM_MAX_SESSIONS \in Nat \ {0}
    /\ DM_MAX_HANDSHAKING \in 1 .. DM_MAX_SESSIONS

VARIABLES
    table,      \* slots in use, by last_active_ms, oldest first: peer, state, verified
    pend,       \* peers with an entry of s_pending_eph
    waiting,    \* peers a message waits for in s_queued_msgs
    answering,  \* the peer whose INIT handshake_worker_task has verified, if any
    verified    \* peers identity_store_is_verified says yes for

tableVars == <<table, pend, waiting, answering, verified>>

TableInit ==
    /\ table = <<>>
    /\ pend = {} /\ waiting = {} /\ answering = {} /\ verified = {}

Known(tab, p) == \E i \in DOMAIN tab : tab[i].peer = p
Place(tab, p) == CHOOSE i \in DOMAIN tab : tab[i].peer = p
Is(p, st) == Known(table, p) /\ table[Place(table, p)].state = st
NewSlot(p, st) == [peer |-> p, state |-> st, verified |-> FALSE]

(* dm_session_teardown.                                                    *)
Without(tab, p) == SelectSeq(tab, LAMBDA s : s.peer # p)

(* last_active_ms is stamped.                                              *)
Touched(tab, p) == Append(Without(tab, p), tab[Place(tab, p)])

Handshaking(tab) == {i \in DOMAIN tab : tab[i].state # "active"}

(* Mutant of Evictable: a verified ACTIVE session goes like any other.     *)
EvictableAny(tab) == DOMAIN tab

(* Slots dm_alloc may take from their peer.                                *)
Evictable(tab) == {i \in DOMAIN tab : ~(tab[i].state = "active" /\ tab[i].verified)}

(* Whether dm_alloc gives peer p a slot, and the table with it: its own, a *)
(* free one, or that of the least recently used session that is not both   *)
(* ACTIVE and verified.  At the cap on handshakes nobody gets a new one.   *)
CanAlloc(tab, p) ==
    \/ Known(tab, p)
    \/ /\ Cardinality(Handshaking(tab)) < DM_MAX_HANDSHAKING
       /\ Len(tab) < DM_MAX_SESSIONS \/ Evictable(tab) # {}

Victim(tab) == CHOOSE i \in Evictable(tab) : \A j \in Evictable(tab) : i <= j

Alloc(tab, p) ==
    IF Known(tab, p) THEN tab
    ELSE Append(IF Len(tab) < DM_MAX_SESSIONS THEN tab ELSE RemoveAt(tab, Victim(tab)),
                NewSlot(p, "handshaking"))

-----------------------------------------------------------------------------
(* mesh_send_dm under s_dm_mutex.  An ACTIVE session sends; a young        *)
(* handshake is left alone; a stale one is taken over; otherwise a slot is *)
(* allocated, or the message fails at once.  A full queue either gives up  *)
(* another peer's message for this one or refuses it; the slot stays       *)
(* behind.                                                                 *)
TableSend(p) ==
    /\ \/ /\ Is(p, "active")
          /\ table' = Touched(table, p)
          /\ UNCHANGED waiting
       \/ /\ ~Is(p, "active") /\ CanAlloc(table, p)
          /\ table' = IF Is(p, "stale") THEN Append(Without(table, p), NewSlot(p, "handshaking"))
                      ELSE Alloc(table, p)
          /\ waiting' \in {waiting} \cup {(waiting \ {q}) \cup {p} : q \in Peers}
       \/ /\ ~CanAlloc(table, p)
          /\ UNCHANGED <<table, waiting>>
    /\ UNCHANGED <<pend, answering, verified>>

(* pending_eph_store: the peer's entry or a free one, else none.           *)
StoreEph(p) == IF p \in pend \/ Cardinality(pend) < DM_MAX_HANDSHAKING THEN pend \cup {p} ELSE pend

(* initiate_dm_handshake, after a send let go of the mutex, or from the    *)
(* worker: a rekey, or healing, which needs no slot.                       *)
TableInitiate(p) ==
    /\ Is(p, "handshaking") \/ answering = {}
    /\ pend' = StoreEph(p)
    /\ UNCHANGED <<table, waiting, answering, verified>>

(* process_ke_init up to the second lock: a pinned peer's untagged INIT    *)
(* tears its session down.                                                 *)
TableTakeInit(p) ==
    /\ answering = {}
    /\ answering' = {p}
    /\ \/ UNCHANGED table
       \/ Is(p, "active") /\ table' = Without(table, p)
    /\ UNCHANGED <<pend, waiting, verified>>

(* The session of p becomes ACTIVE, its messages are sent                  *)
(* (flush_session_queue, which stamps last_active_ms); verified comes from *)
(* the pin.                                                                *)
Established(p) ==
    LET tab == Alloc(table, p)
        act == [tab EXCEPT ![Place(tab, p)].state = "active", ![Place(tab, p)].verified = p \in verified]
    IN IF CanAlloc(table, p)
       THEN /\ table' = IF p \in waiting THEN Touched(act, p) ELSE act
            /\ waiting' = waiting \ {p}
       ELSE UNCHANGED <<table, waiting>>

TableAnswer(p) ==
    /\ answering = {p}
    /\ answering' = {}
    /\ Established(p)
    /\ UNCHANGED <<pend, verified>>

(* process_ke_resp: the pending entry is gone even when no slot is left.   *)
TableResp(p) ==
    /\ answering = {} /\ p \in pend
    /\ pend' = pend \ {p}
    /\ Established(p)
    /\ UNCHANGED <<answering, verified>>

(* A frame of an ACTIVE session is received.                               *)
TableRecv(p) ==
    /\ Is(p, "active")
    /\ table' = Touched(table, p)
    /\ UNCHANGED <<pend, waiting, answering, verified>>

(* dm_handshake_is_stale becomes true.                                     *)
TableStale(p) ==
    /\ Is(p, "handshaking")
    /\ \A i \in 1 .. Place(table, p) - 1 : table[i].state # "handshaking"
    /\ table' = [table EXCEPT ![Place(table, p)].state = "stale"]
    /\ UNCHANGED <<pend, waiting, answering, verified>>

(* The message that waited is given up after DM_QUEUE_TTL_MS, which is     *)
(* longer than a handshake takes to be stale.                              *)
TableExpire(p) ==
    /\ p \in waiting
    /\ ~Is(p, "handshaking")
    /\ waiting' = waiting \ {p}
    /\ UNCHANGED <<table, pend, answering, verified>>

(* mesh_set_peer_verified, either way: the pin only; the session keeps     *)
(* what it had.                                                            *)
TableVerify(p) ==
    /\ verified' \in {verified \cup {p}, verified \ {p}} \ {verified}
    /\ UNCHANGED <<table, pend, waiting, answering>>

(* The attested identity of p changed (mesh_beacon.c): its session goes,   *)
(* and the verification of a verified one.                                 *)
TableKeyChanged(p) ==
    /\ Is(p, "active")
    /\ verified' = IF table[Place(table, p)].verified THEN verified \ {p} ELSE verified
    /\ table' = Without(table, p)
    /\ UNCHANGED <<pend, waiting, answering>>

TableNext ==
    \E p \in Peers :
        \/ TableSend(p) \/ TableInitiate(p) \/ TableTakeInit(p) \/ TableAnswer(p) \/ TableResp(p)
        \/ TableRecv(p) \/ TableStale(p) \/ TableExpire(p) \/ TableVerify(p) \/ TableKeyChanged(p)

TableSpec == TableInit /\ [][TableNext]_tableVars

-----------------------------------------------------------------------------
Protected(p) == Is(p, "active") /\ table[Place(table, p)].verified

(* Handshakes with any number of peers never cost a verified ACTIVE        *)
(* session: it ends only by its own peer's new INIT or change of key,      *)
(* however full the table is (dm_alloc's choice of a victim).              *)
VerifiedKept ==
    [][\A p \in Peers :
          Protected(p) /\ ~Protected(p)' => (TableTakeInit(p) \/ TableKeyChanged(p) \/ TableAnswer(p) \/ TableResp(p))]_tableVars

(* mesh_task.c: the slot of a handshake whose message expired "is          *)
(* reclaimed by dm_alloc's own state-priority LRU eviction the next time a *)
(* fresh handshake slot is needed".  A send is never refused while such a  *)
(* slot is there.                                                          *)
DeadSlotsReclaimed ==
    (\E i \in DOMAIN table : table[i].state = "stale" /\ table[i].peer \notin waiting)
        => \A p \in Peers : CanAlloc(table, p)
=============================================================================
