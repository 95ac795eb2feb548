------------------------------ MODULE Fragment ------------------------------
(***************************************************************************)
(* Long channel messages: split and sent by mesh_send_broadcast and        *)
(* mesh_send_channel, put together by the fragment branch of handle_data   *)
(* with components/fragment/fragment.c. Fragments may be refused by the    *)
(* sender's radio, lost, repeated and reordered on their way.              *)
(***************************************************************************)
EXTENDS Clock, FiniteSets, FiniteSetsExt, TLC

CONSTANTS
    Message,        \* records [src, id, len]
    FRAG_MAX_PLAINTEXT, FRAG_MAX_FRAGMENTS, FRAG_MAX_REASSEMBLIES,
    FRAG_REASSEMBLY_TIMEOUT,
    PURGE_INTERVAL,     \* ticks between two runs of the periodic maintenance
    Copies,             \* times a fragment gets past the packet dedup
    Unused              \* a slot that is not active

NumFrags(len) == (len + FRAG_MAX_PLAINTEXT - 1) \div FRAG_MAX_PLAINTEXT

Chunk(len, i) == Min({len - i * FRAG_MAX_PLAINTEXT, FRAG_MAX_PLAINTEXT})

ASSUME FragmentAssumption ==
    /\ FRAG_REASSEMBLY_TIMEOUT \in Nat /\ PURGE_INTERVAL \in Nat
    /\ FRAG_REASSEMBLY_TIMEOUT + PURGE_INTERVAL + 1 < W
    /\ \A m \in Message : NumFrags(m.len) \in 2..FRAG_MAX_FRAGMENTS

Frag == UNION {{<<m, i>> : i \in 0..(NumFrags(m.len) - 1)} : m \in Message}
FragsOf(m) == {f \in Frag : f[1] = m}

VARIABLES
    slot,           \* s_reassembly.slots
    air,            \* copies of each fragment still under way
    sent,           \* messages the users have sent
    delivered,      \* messages put together: [got, age]
    sincePurge      \* ticks since the last periodic maintenance

fragState == <<slot, air, sent, delivered, sincePurge>>
fragVars == <<fragState, now>>

Slots == 1..FRAG_MAX_REASSEMBLIES
Busy == {k \in Slots : slot[k] # Unused}

FragInit ==
    /\ slot = [k \in Slots |-> Unused]
    /\ air = [f \in Frag |-> 0]
    /\ sent = {}
    /\ delivered = {}
    /\ now = Start
    /\ sincePurge = 0

-----------------------------------------------------------------------------
(* A message is split and its fragments are sent one after the other; a    *)
(* fragment that the gate or the radio refuses is skipped.                 *)
SendMessage(m) ==
    /\ m \notin sent
    /\ sent' = sent \union {m}
    /\ \E S \in SUBSET FragsOf(m) :
          air' = [f \in Frag |-> IF f \in S THEN Copies ELSE air[f]]
    /\ UNCHANGED <<slot, delivered, now, sincePurge>>

(* A fragment has arrived or is lost.                                      *)
Takes(f) ==
    /\ air[f] > 0
    /\ air' = [air EXCEPT ![f] = @ - 1]
    /\ UNCHANGED <<sent, now, sincePurge>>

Lose(f) ==
    /\ Takes(f)
    /\ UNCHANGED <<slot, delivered>>

Mine(m) == {k \in Busy : slot[k].id = m.id}

(* Mutant of Stale: the times are compared as plain numbers.               *)
StalePlain(k) == now > slot[k].start + FRAG_REASSEMBLY_TIMEOUT

Stale(k) == (now - slot[k].start) % W > FRAG_REASSEMBLY_TIMEOUT

Opened(m) ==
    [id |-> m.id, total |-> NumFrags(m.len), got |-> <<>>, start |-> now, age |-> 0]

(* Mutant of Added: each fragment gives the message another timeout.       *)
AddedSliding(s, f) ==
    [s EXCEPT !.got = f[2] :> f @@ @, !.start = now]

(* Mutant of Added: the total is not compared.                             *)
AddedAnyTotal(s, f) ==
    IF f[2] \in DOMAIN s.got THEN s
    ELSE [s EXCEPT !.got = f[2] :> f @@ @]

(* A fragment that disagrees on the total or is there already is dropped.  *)
Added(s, f) ==
    IF s.total # NumFrags(f[1].len) \/ f[2] \in DOMAIN s.got THEN s
    ELSE [s EXCEPT !.got = f[2] :> f @@ @]

Complete(s) == DOMAIN s.got = 0..(s.total - 1)

(* reassembly_add and, where it reports completion, reassembly_collect and *)
(* the delivery. The first allocation may fail and leaves the complete     *)
(* slot behind; the second may fail and loses the message.                 *)
AddTo(k, s, f) ==
    LET s2 == Added(s, f)
    IN  \/ /\ s2 = s \/ ~Complete(s2)
           /\ slot' = [slot EXCEPT ![k] = s2]
           /\ UNCHANGED delivered
        \/ /\ s2 # s /\ Complete(s2)
           /\ \/ slot' = [slot EXCEPT ![k] = s2] /\ UNCHANGED delivered
              \/ slot' = [slot EXCEPT ![k] = Unused] /\ UNCHANGED delivered
              \/ /\ slot' = [slot EXCEPT ![k] = Unused]
                 /\ delivered' = delivered \union {[got |-> s2.got, age |-> s2.age]}

(* handle_data receives fragment f.                                        *)
Receive(f) ==
    /\ Takes(f)
    /\ \/ \E k \in Mine(f[1]) :
             \/ /\ Stale(k)
                /\ slot' = [slot EXCEPT ![k] = Unused]
                /\ UNCHANGED delivered
             \/ ~Stale(k) /\ AddTo(k, slot[k], f)
       \/ /\ Mine(f[1]) = {} /\ Busy # Slots
          /\ AddTo(Min(Slots \ Busy), Opened(f[1]), f)
       \/ /\ Mine(f[1]) = {} /\ Busy = Slots
          /\ UNCHANGED <<slot, delivered>>

(* reassembly_purge, from mesh_periodic_maintenance.                       *)
Purge ==
    /\ slot' = [k \in Slots |-> IF k \in Busy /\ Stale(k) THEN Unused ELSE slot[k]]
    /\ sincePurge' = 0
    /\ UNCHANGED <<air, sent, delivered, now>>

FragTick ==
    /\ sincePurge < PURGE_INTERVAL
    /\ now' = (now + 1) % W
    /\ sincePurge' = sincePurge + 1
    /\ slot' = [k \in Slots |-> IF k \in Busy THEN [slot[k] EXCEPT !.age = Min({@ + 1, W})]
                                ELSE Unused]
    /\ UNCHANGED <<air, sent, delivered>>

FragNext ==
    \/ \E m \in Message : SendMessage(m)
    \/ \E f \in Frag : Receive(f) \/ Lose(f)
    \/ Purge
    \/ FragTick

FragSpec == FragInit /\ [][FragNext]_fragVars

-----------------------------------------------------------------------------
(* What is delivered is one message that was sent, in its order and at its *)
(* full length: "corrupting someone else's in-progress reassembly is not"  *)
(* acceptable (reassembly_add).                                            *)
DeliveredAsSent ==
    \A d \in delivered :
        /\ \A i, j \in DOMAIN d.got : d.got[i][1] = d.got[j][1]
        /\ MapThenSumSet(LAMBDA i : Chunk(d.got[i][1].len, i), DOMAIN d.got) = d.got[0][1].len

(* "all fragments must arrive within this window": a message is put        *)
(* together from fragments no further apart than the timeout, whenever     *)
(* the purge runs and across the wrap of the clock.                        *)
WithinWindow == \A d \in delivered : d.age <= FRAG_REASSEMBLY_TIMEOUT

(* An unfinished message holds its slot for the timeout and one round of   *)
(* maintenance at most (reassembly_purge).                                 *)
SlotsComeBack == \A k \in Busy : slot[k].age <= FRAG_REASSEMBLY_TIMEOUT + PURGE_INTERVAL
=============================================================================
