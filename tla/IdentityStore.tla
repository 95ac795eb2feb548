---------------------------- MODULE IdentityStore ----------------------------
(***************************************************************************)
(* The table of pinned identities, components/identity/identity_store.c,   *)
(* with its callers: handle_identity_attestation (main/mesh_beacon.c), the *)
(* user's verification and the trust anchor (main/mesh_task.c), the NVS    *)
(* copy (main/mesh_persist.c), and the sessions it is compared with        *)
(* (main/mesh_dm.c).                                                       *)
(*                                                                         *)
(* An identity is an address and a key.  Attestations that fail the checks *)
(* of address and signature change nothing and are left out; so are the    *)
(* counters and the grace period of the time quorum.  What the users       *)
(* compare, the SAS of a pin, is its address and key.  `recent` lists the  *)
(* used slots by last_confirmed_ms, the oldest first.                      *)
(***************************************************************************)
EXTENDS Integers, SequencesExt

CONSTANTS
    Address, Key,
    IDENTITY_STORE_CAPACITY,
    Anchor,             \* the trust anchors an operator may set
    Endorsed,           \* the addresses with a certificate of the anchor
    Talker,             \* the addresses that start key exchanges
    MaxPinFaults,       \* bound of the model: failed writes
    None

VARIABLES
    pins,       \* entries of s_identity_pins
    recent,
    anchor,     \* the anchor in force, also in NVS
    blob,       \* the pin table in NVS
    unsaved,    \* history: the last write of the blob failed
    lost,       \* history: number of failed writes
    session,    \* address -> peer key and verified bit of the active DM session
    work        \* the handshake at the worker, with the pin it took along

nvsState == <<blob, unsaved, lost>>
identityVars == <<pins, recent, anchor, nvsState, session, work>>

PinSlot == 1 .. IDENTITY_STORE_CAPACITY

Zeroed ==
    [used |-> FALSE, addr |-> None, key |-> None, verified |-> FALSE,
     sas |-> None, key_changed |-> FALSE]

NoSession == [key |-> None, verified |-> FALSE]

IdentityInit ==
    /\ pins = [i \in PinSlot |-> Zeroed]
    /\ recent = <<>>
    /\ anchor = None
    /\ blob = <<>>
    /\ unsaved = FALSE
    /\ lost = 0
    /\ session = [a \in Talker |-> NoSession]
    /\ work = None

-----------------------------------------------------------------------------
(* find_entry, as a set of at most one slot.                               *)
PinOf(a) == {i \in PinSlot : pins[i].used /\ pins[i].addr = a}

IsVerified(a) == \E i \in PinOf(a) : pins[i].verified

(* identity_store_serialize: the used slots in their order.                *)
PinRecord(e) == [addr |-> e.addr, key |-> e.key, verified |-> e.verified, sas |-> e.sas]

Serialized(p) ==
    LET used == SelectSeq([i \in PinSlot |-> p[i]], LAMBDA e : e.used)
    IN  [n \in DOMAIN used |-> PinRecord(used[n])]

(* mesh_pin_store_save of the new table.  A failed write is swallowed and  *)
(* leaves what NVS had before.                                             *)
SaveFails(old) ==
    lost < MaxPinFaults /\ lost' = lost + 1 /\ unsaved' = TRUE /\ blob' = old

SavePins ==
    \/ blob' = Serialized(pins') /\ unsaved' = FALSE /\ UNCHANGED lost
    \/ SaveFails(blob)

(* alloc_entry: the first free slot, else the least recently confirmed     *)
(* pin that is not verified, else the least recently confirmed.            *)
AllocEntry ==
    LET free == {i \in PinSlot : ~pins[i].used}
        plain == SelectSeq(recent, LAMBDA i : ~pins[i].verified)
    IN  IF free # {} THEN CHOOSE i \in free : \A j \in free : i <= j
        ELSE IF plain # <<>> THEN Head(plain) ELSE Head(recent)

(* A new pin writes these fields of its slot and no others.                *)
PinnedIn(e, a, k) == [e EXCEPT !.used = TRUE, !.addr = a, !.key = k]

Confirmed(i) == Append(SelectSeq(recent, LAMBDA j : j # i), i)

(* The trust-anchor gate.                                                  *)
Admitted(a) == anchor # None => a \in Endorsed

(* dm_pin_disagrees *)
Disagrees(a, k) == a \in Talker /\ session[a].key \notin {None, k}

(* The pin for a holds k: a session under another key is torn down, and if *)
(* it was verified the pin loses its mark and carries the warning.         *)
TearDown(a, k, p) ==
    IF Disagrees(a, k)
    THEN /\ session' = [session EXCEPT ![a] = NoSession]
         /\ pins' = IF session[a].verified
                    THEN [i \in PinSlot |->
                            IF p[i].used /\ p[i].addr = a
                            THEN [p[i] EXCEPT !.verified = FALSE, !.sas = None, !.key_changed = TRUE]
                            ELSE p[i]]
                    ELSE p
    ELSE UNCHANGED session /\ pins' = p

Revokes(a, k) == Disagrees(a, k) /\ session[a].verified

-----------------------------------------------------------------------------
(* handle_identity_attestation for an address without a pin: the table is  *)
(* saved with the new pin, and once more if its mark is revoked.           *)
PinNew(a, k) ==
    LET grown == [pins EXCEPT ![AllocEntry] = PinnedIn(@, a, k)]
    IN  /\ Admitted(a)
        /\ PinOf(a) = {}
        /\ TearDown(a, k, grown)
        /\ recent' = Confirmed(AllocEntry)
        /\ SavePins \/ (Revokes(a, k) /\ SaveFails(Serialized(grown)))
        /\ UNCHANGED <<anchor, work>>

(* For a pinned address: the same key refreshes, another is a conflict and *)
(* leaves the entry alone.  The session is compared with the pin either    *)
(* way.                                                                    *)
AttestAgain(a, k) ==
    /\ Admitted(a)
    /\ \E i \in PinOf(a) :
          /\ TearDown(a, pins[i].key, pins)
          /\ recent' = IF pins[i].key = k THEN Confirmed(i) ELSE recent
          /\ IF Revokes(a, pins[i].key) THEN SavePins ELSE UNCHANGED nvsState
    /\ UNCHANGED <<anchor, work>>

(* mesh_set_peer_verified                                                  *)
SetVerified(a) ==
    /\ \E i \in PinOf(a) :
          pins' = [pins EXCEPT ![i] = [@ EXCEPT !.verified = TRUE, !.key_changed = FALSE,
                                                !.sas = <<pins[i].addr, pins[i].key>>]]
    /\ SavePins
    /\ UNCHANGED <<recent, anchor, session, work>>

(* Mutant of ClearVerified: the change stays in memory.                    *)
ClearVerifiedUnsaved(a) ==
    /\ \E i \in PinOf(a) :
          pins' = [pins EXCEPT ![i] = [@ EXCEPT !.verified = FALSE, !.sas = None]]
    /\ UNCHANGED <<recent, anchor, session, work, nvsState>>

ClearVerified(a) ==
    /\ \E i \in PinOf(a) :
          pins' = [pins EXCEPT ![i] = [@ EXCEPT !.verified = FALSE, !.sas = None]]
    /\ SavePins
    /\ UNCHANGED <<recent, anchor, session, work>>

(* identity_store_set_anchor from an RPC: a new anchor frees every slot.   *)
SetAnchor(k) ==
    /\ anchor # k
    /\ anchor' = k
    /\ pins' = [i \in PinSlot |-> [pins[i] EXCEPT !.used = FALSE]]
    /\ recent' = <<>>
    /\ UNCHANGED <<nvsState, session, work>>

(* identity_store_init, the anchor, and identity_store_deserialize.        *)
RestoredPin(r) ==
    [used |-> TRUE, addr |-> r.addr, key |-> r.key, verified |-> r.verified,
     sas |-> IF r.verified THEN r.sas ELSE None, key_changed |-> FALSE]

IdentityReboot ==
    /\ pins' = [i \in PinSlot |-> IF i \in DOMAIN blob THEN RestoredPin(blob[i]) ELSE Zeroed]
    /\ recent' = [i \in DOMAIN blob |-> i]
    /\ unsaved' = FALSE
    /\ session' = [a \in Talker |-> NoSession]
    /\ work' = None
    /\ UNCHANGED <<anchor, blob, lost>>

(* An INIT or a RESP from a goes to the worker with a copy of the pin.     *)
HandleKe(a, k, type) ==
    /\ work = None
    /\ work' = [addr |-> a, key |-> k, type |-> type,
                pin |-> IF PinOf(a) = {} THEN None ELSE pins[CHOOSE i \in PinOf(a) : TRUE].key]
    /\ UNCHANGED <<pins, recent, anchor, nvsState, session>>

(* Continuity with the copied pin (dm_verify_init, dm_verify_resp).  An    *)
(* INIT must also agree with the session the peer has.                     *)
Continues(w) == w.pin \in {None, w.key}

Known(w) == w.type = "init" => session[w.addr].key \in {None, w.key}

(* process_ke_init, process_ke_resp: the session takes its verified bit    *)
(* from the table as it is now.  A pinned peer whose INIT does not agree   *)
(* with its session loses that one first.  The handshake may still fail on *)
(* its tag, the rate limit or a full session table.                        *)
FinishKe ==
    LET a == work.addr
        established == [key |-> work.key, verified |-> IsVerified(a)]
        heals == work.pin = work.key
    IN  /\ work # None
        /\ \/ UNCHANGED session
           \/ /\ Continues(work) /\ (Known(work) \/ heals)
              /\ session' = [session EXCEPT ![a] = established]
           \/ /\ work.type = "init" /\ heals
              /\ session' = [session EXCEPT ![a] = NoSession]
        /\ work' = None
        /\ UNCHANGED <<pins, recent, anchor, nvsState>>

(* Bound of the model: only the addresses with sessions change their key.  *)
KeysOf(a) == IF a \in Talker THEN Key ELSE {Min(Key)}

IdentityNext ==
    \/ \E a \in Address : \E k \in KeysOf(a) : PinNew(a, k) \/ AttestAgain(a, k)
    \/ \E a \in Talker, type \in {"init", "resp"} : \E k \in KeysOf(a) : HandleKe(a, k, type)
    \/ \E a \in Address : SetVerified(a) \/ ClearVerified(a)
    \/ \E k \in Anchor : SetAnchor(k)
    \/ FinishKe
    \/ IdentityReboot

IdentitySpec == IdentityInit /\ [][IdentityNext]_identityVars

-----------------------------------------------------------------------------
(* A restart brings back every pin as it was, with its mark of             *)
(* verification or without it: unless the last write failed, the blob has  *)
(* each pin of the table, through evictions, conflicts and revocations     *)
(* (mesh_pin_store_save at every change but a refresh).                    *)
PinsDurable ==
    ~unsaved => \A i \in PinSlot : pins[i].used => Contains(blob, PinRecord(pins[i]))

(* "SAS confirmed out of band": a pin is marked verified only if the SAS   *)
(* recorded with the mark is the one of its own identity.                  *)
VerifiedByUser ==
    \A i \in PinSlot :
        pins[i].used /\ pins[i].verified => pins[i].sas = <<pins[i].addr, pins[i].key>>
=============================================================================
