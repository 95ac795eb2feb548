------------------------------ MODULE RouteNet ------------------------------
(***************************************************************************)
(* The reactive routing protocol between nodes: RREQ flood, RREP return    *)
(* (also by intermediate nodes), DATA forwarding with breadcrumbs, and     *)
(* RERR teardown; handlers of main/mesh_routing.c and the DATA case of     *)
(* mesh_process_rx_packet.                                                 *)
(*                                                                         *)
(* Every transmission is a broadcast: each linked node hears it or, up to  *)
(* MaxFaults times, does not.  Heard frames wait in the receiver's queue.  *)
(* Nodes look for routes to one destination, Target.  Expiry of the        *)
(* duplicate filter and of reverse routes (60 s) is beyond the modelled    *)
(* time; routing tables are large enough (capacity is in RouteTable).      *)
(***************************************************************************)
EXTENDS Naturals, Sequences, FiniteSets, FiniteSetsExt

CONSTANTS
    Node,
    Target,         \* the destination looked for
    Origin,         \* nodes whose users send to Target
    Link,           \* pairs {m, n} in radio range
    Holder,         \* neighbours of Target that may have found it before
    ROUTE_HOP_LIMIT_MAX, RREQ_HOP_LIMIT_INITIAL, RREQ_HOP_LIMIT_EXPANDED,
    REPLAY_WINDOW,
    SeqStart,       \* control sequence number of each node at the start
    MaxQuery, MaxData,
    MaxFaults,      \* restarts, expiries and losses in all
    RxQueueSize,
    NoNode

ASSUME NetAssumption ==
    /\ Target \in Node /\ NoNode \notin Node
    /\ Origin \subseteq Node \ {Target}
    /\ Holder \subseteq Node \ {Target}
    /\ \A n \in Node : {n} \notin Link
    /\ ROUTE_HOP_LIMIT_MAX \in Nat
    /\ RREQ_HOP_LIMIT_INITIAL \in Nat /\ RREQ_HOP_LIMIT_EXPANDED \in Nat
    /\ SeqStart \in [Node -> Nat]
    /\ MaxQuery \in Nat /\ MaxData \in Nat

VARIABLES
    route,      \* routing table of each node
    rev,        \* reverse route of each query
    pend,       \* queries of the node's pending discovery
    seen,       \* keys in the dispatch duplicate filter
    later,      \* RREQ forwards waiting for their jitter
    inbox,      \* frames heard and not yet handled
    seq,        \* last control sequence number drawn
    taken,      \* RREP sequence numbers accepted as Target's
    msg,        \* each message: waiting for its ACK, failed, or not sent
    got,        \* messages that reached Target
    budget,     \* queries, messages, reboots and expiries so far
    lost,       \* frames a node in range did not hear
    asked,      \* history: nodes that have started a discovery
    sent        \* history: transmissions of each message by each node

netVars == <<route, rev, pend, seen, later, inbox, seq, taken, msg, got, budget, lost, asked, sent>>

Query == 1..MaxQuery
Data == 1..MaxData

NoRoute == [next |-> NoNode, hops |-> 0, cost |-> 0, state |-> "none",
            source |-> "none", fresh |-> FALSE]

Nbrs(n) == {m \in Node : {m, n} \in Link}

Faults == budget.reboot + budget.expiry + lost

(* The sets of nodes that may hear a transmission.                         *)
Hearers(n) == {S \in SUBSET Nbrs(n) : Faults + Cardinality(Nbrs(n) \ S) <= MaxFaults}

-----------------------------------------------------------------------------
(* Routing-table rules (see RouteTable).  The cost of a path is its        *)
(* accumulated link penalty, one per link: lower is a better metric.       *)
RouteVia(next, hops, cost, source) ==
    [next |-> next, hops |-> hops, cost |-> cost, state |-> "active",
     source |-> source, fresh |-> TRUE]

Replaces(e, new) ==
    IF e.state = "none" \/ new.source # e.source
    THEN e.state = "none" \/ new.source = "discovered"
    ELSE \/ e.state = "broken"
         \/ new.cost < e.cost
         \/ new.cost = e.cost /\ new.hops < e.hops

Install(n, d, new) ==
    IF Replaces(route[n][d], new) THEN [route EXCEPT ![n][d] = new] ELSE route

(* intermediate_rrep_route_usable.                                         *)
CanVouch(e) ==
    /\ e.source = "discovered"
    /\ e.state = "active"
    /\ e.fresh

-----------------------------------------------------------------------------
(* Mutant of Key: without the packet type, an RREP has the key of the RREQ *)
(* it answers.                                                             *)
KeyUntyped(f) == <<"any", f.pid>>

(* The key of a frame in the dispatch duplicate filter.                    *)
Key(f) == <<f.type, f.pid>>

(* n handles the head of its queue and transmits f.                        *)
HandleAndSend(n, f) ==
    \E S \in Hearers(n) :
        /\ inbox' = [m \in Node |->
                    IF m = n THEN Tail(inbox[n])
                    ELSE IF m \in S /\ Len(inbox[m]) < RxQueueSize
                         THEN Append(inbox[m], f) ELSE inbox[m]]
        /\ lost' = lost + Cardinality(Nbrs(n) \ S)

HandleSilently(n) == inbox' = [inbox EXCEPT ![n] = Tail(@)] /\ UNCHANGED lost

(* n transmits f outside of a receive handler.                             *)
SendFrame(n, f) ==
    \E S \in Hearers(n) :
        /\ inbox' = [m \in Node |->
                    IF m \in S /\ Len(inbox[m]) < RxQueueSize
                    THEN Append(inbox[m], f) ELSE inbox[m]]
        /\ lost' = lost + Cardinality(Nbrs(n) \ S)

(* Some holders found the target longer ago than the duplicate filters     *)
(* remember: the answer to a neighbour's query names the asker as next hop.*)
NetInit ==
    /\ asked \in SUBSET Holder
    /\ route = [n \in Node |-> [d \in Node |-> IF n \in asked /\ d = Target
                                             THEN RouteVia(n, 1, 1, "discovered")
                                             ELSE NoRoute]]
    /\ rev = [n \in Node |-> [q \in Query |-> NoNode]]
    /\ pend = [n \in Node |-> {}]
    /\ seen = [n \in Node |-> {}]
    /\ later = [n \in Node |-> {}]
    /\ inbox = [n \in Node |-> <<>>]
    /\ seq = SeqStart
    /\ taken = [n \in Node |-> IF n \in asked THEN {seq[Target]} ELSE {}]
    /\ msg = [i \in Data |-> "unsent"]
    /\ got = {}
    /\ budget = [query |-> 0, data |-> 0, reboot |-> 0, expiry |-> 0]
    /\ lost = 0
    /\ sent = [i \in Data |-> [n \in Node |-> 0]]

-----------------------------------------------------------------------------
(* The frame n handles now.                                                *)
Frame(n) == Head(inbox[n])

Receives(n, type) ==
    /\ inbox[n] # <<>>
    /\ Frame(n).type = type

(* Mutant of FirstCopy: the filter forgets to remember.                    *)
FirstCopyForgets(n) ==
    /\ Key(Frame(n)) \notin seen[n]
    /\ UNCHANGED seen

(* The dispatch filter has not seen the frame; it is remembered.           *)
FirstCopy(n) ==
    /\ Key(Frame(n)) \notin seen[n]
    /\ seen' = [seen EXCEPT ![n] = @ \union {Key(Frame(n))}]

(* A frame whose key was seen is dropped before any handler.               *)
DropDuplicate(n) ==
    /\ inbox[n] # <<>>
    /\ Frame(n).type # "rerr"
    /\ Key(Frame(n)) \in seen[n]
    /\ HandleSilently(n)
    /\ UNCHANGED <<route, rev, pend, seen, later, seq, taken, msg, got, budget, asked, sent>>

(* initiate_discovery, and a retry under a fresh query id.                 *)
StartDiscovery(n) ==
    /\ n \in Origin
    /\ route[n][Target].state \in {"none", "broken"}
    /\ budget.query < MaxQuery
    /\ LET q == budget.query + 1 IN
       /\ budget' = [budget EXCEPT !.query = q]
       /\ pend' = [pend EXCEPT ![n] = @ \union {q}]
       /\ SendFrame(n, [type |-> "rreq", pid |-> q, query |-> q, prev |-> n, hops |-> 0,
                        cost |-> 0,
                        limit |-> IF pend[n] = {} THEN RREQ_HOP_LIMIT_INITIAL
                                                  ELSE RREQ_HOP_LIMIT_EXPANDED])
    /\ asked' = asked \union {n}
    /\ UNCHANGED <<route, rev, seen, later, seq, taken, msg, got, sent>>

(* The answer of the destination.  rrep_build_destination names itself as  *)
(* next hop, and handle_rreq then overwrites that with the node the RREQ   *)
(* came from.                                                              *)
AnswerOf(n, f) ==
    [type |-> "rrep", pid |-> f.query, query |-> f.query, src |-> n, next |-> f.prev,
     hops |-> f.hops + 1, cost |-> f.cost, seq |-> seq[n] + 1]

(* The answer of a node on the destination's behalf: the packet id stays   *)
(* zero and the sequence number is the answering node's own.               *)
AnswerFor(n, f) ==
    [type |-> "rrep", pid |-> 0, query |-> f.query, src |-> Target, next |-> n,
     hops |-> f.hops + 1 + route[n][Target].hops,
     cost |-> f.cost + 1 + route[n][Target].cost, seq |-> seq[n] + 1]

(* The RREQ that is passed on: one hop, one link and one limit further.    *)
Forwarded(n, f) ==
    [type |-> "rreq", pid |-> f.pid, query |-> f.query, prev |-> n, hops |-> f.hops + 1,
     cost |-> f.cost + 1, limit |-> f.limit - 1]

(* handle_rreq.                                                            *)
HandleRreq(n) ==
    /\ Receives(n, "rreq")
    /\ FirstCopy(n)
    /\ LET f == Frame(n) IN
       /\ rev' = [rev EXCEPT ![n][f.query] = f.prev]
       /\ \/ /\ n = Target
             /\ seq' = [seq EXCEPT ![n] = @ + 1]
             /\ HandleAndSend(n, AnswerOf(n, f))
             /\ route' = Install(n, f.prev, RouteVia(f.prev, f.hops, f.cost + 1, "breadcrumb"))
             /\ UNCHANGED later
          \/ /\ n # Target
             /\ CanVouch(route[n][Target])
             /\ seq' = [seq EXCEPT ![n] = @ + 1]
             /\ HandleAndSend(n, AnswerFor(n, f))
             /\ route' = Install(n, f.prev, RouteVia(f.prev, f.hops, f.cost + 1, "breadcrumb"))
             /\ UNCHANGED later
          \/ /\ n # Target
             /\ ~CanVouch(route[n][Target])
             /\ later' = IF f.limit > 1
                         THEN [later EXCEPT ![n] = @ \union {Forwarded(n, f)}]
                         ELSE later
             /\ HandleSilently(n)
             /\ UNCHANGED <<route, seq>>
    /\ UNCHANGED <<pend, taken, msg, got, budget, asked, sent>>

(* process_rreq_forward_queue: a forward's jitter has passed.              *)
ForwardRreq(n) ==
    \E f \in later[n] :
        /\ later' = [later EXCEPT ![n] = @ \ {f}]
        /\ SendFrame(n, f)
        /\ UNCHANGED <<route, rev, pend, seen, seq, taken, msg, got, budget, asked, sent>>

(* control_replay_ok for the sequence numbers of one signer.               *)
ReplayOk(n, s) ==
    /\ s \notin taken[n]
    /\ \A t \in taken[n] : s + REPLAY_WINDOW > t

(* Mutant of rrep_rx_decide's test: an overheard RREP plants a route too.  *)
ParticipatesAlways(n, q) == TRUE

(* Mutant of rrep_rx_decide's test: relays pass the RREP on and learn      *)
(* nothing from it.                                                        *)
ParticipatesOriginator(n, q) == q \in pend[n]

(* rrep_rx_decide: the node started the query or relayed it.               *)
Participates(n, q) == q \in pend[n] \/ rev[n][q] # NoNode

(* handle_rrep.                                                            *)
HandleRrep(n) ==
    /\ Receives(n, "rrep")
    /\ FirstCopy(n)
    /\ LET f == Frame(n) IN
       /\ \/ /\ ReplayOk(n, f.seq)
             /\ taken' = [taken EXCEPT ![n] = @ \union {f.seq}]
             /\ route' = IF Participates(n, f.query)
                         THEN Install(n, f.src, RouteVia(f.next, f.hops, f.cost + 1, "discovered"))
                         ELSE route
             /\ \/ /\ f.query \in pend[n]
                   /\ pend' = [pend EXCEPT ![n] = {}]
                   /\ HandleSilently(n)
                \/ /\ f.query \notin pend[n]
                   /\ rev[n][f.query] # NoNode
                   /\ HandleAndSend(n, [f EXCEPT !.next = n])
                   /\ UNCHANGED pend
                \/ /\ f.query \notin pend[n]
                   /\ rev[n][f.query] = NoNode
                   /\ HandleSilently(n)
                   /\ UNCHANGED pend
          \/ /\ ~ReplayOk(n, f.seq)
             /\ HandleSilently(n)
             /\ UNCHANGED <<taken, route, pend>>
    /\ UNCHANGED <<rev, later, seq, msg, got, budget, asked, sent>>

-----------------------------------------------------------------------------
(* A user's message goes out over a known route.                           *)
SendData(n) ==
    /\ n \in Origin
    /\ route[n][Target].state = "active"
    /\ budget.data < MaxData
    /\ LET i == budget.data + 1 IN
       /\ budget' = [budget EXCEPT !.data = i]
       /\ msg' = [msg EXCEPT ![i] = n]
       /\ sent' = [sent EXCEPT ![i][n] = @ + 1]
       /\ SendFrame(n, [type |-> "data", pid |-> i, src |-> n, prev |-> n,
                        limit |-> ROUTE_HOP_LIMIT_MAX])
    /\ UNCHANGED <<route, rev, pend, seen, later, seq, taken, got, asked>>

(* The route home that a DATA frame teaches (data_rx_decide).              *)
LearnReverse(n, f) ==
    IF f.src # n /\ f.prev # n
    THEN Install(n, f.src, RouteVia(f.prev, ROUTE_HOP_LIMIT_MAX - f.limit + 1, 1, "breadcrumb"))
    ELSE route

(* Mutant of Relayed: prev_hop is left as the originator wrote it.         *)
RelayedUnsigned(n, f) == [f EXCEPT !.limit = @ - 1]

(* The frame forward_data_packet rebroadcasts.                             *)
Relayed(n, f) == [f EXCEPT !.prev = n, !.limit = @ - 1]

HopsLeft(f) == f.limit > 1

(* The DATA case of mesh_process_rx_packet with forward_data_packet.       *)
HandleData(n) ==
    /\ Receives(n, "data")
    /\ FirstCopy(n)
    /\ LET f == Frame(n) IN
       /\ route' = LearnReverse(n, f)
       /\ \/ /\ n = Target
             /\ got' = got \union {f.pid}
             /\ HandleSilently(n)
             /\ UNCHANGED sent
          \/ /\ n # Target
             /\ ~HopsLeft(f)
             /\ HandleSilently(n)
             /\ UNCHANGED <<got, sent>>
          \/ /\ n # Target
             /\ HopsLeft(f)
             /\ route'[n][Target].state \in {"none", "broken"}
             /\ HandleAndSend(n, [type |-> "rerr", via |-> n])
             /\ UNCHANGED <<got, sent>>
          \/ /\ n # Target
             /\ HopsLeft(f)
             /\ route'[n][Target].state = "active"
             /\ HandleAndSend(n, Relayed(n, f))
             /\ sent' = [sent EXCEPT ![f.pid][n] = @ + 1]
             /\ UNCHANGED got
    /\ UNCHANGED <<rev, pend, later, seq, taken, msg, budget, asked>>

(* rerr_failfast_applies.                                                  *)
FailFastApplies(n, broke) ==
    \/ broke
    \/ ~(route[n][Target].next = Target /\ route[n][Target].state = "active")

(* handle_rerr: tears the route down if it goes through the reported hop,  *)
(* reports on with the same hop, and fails the messages waiting for ACKs.  *)
HandleRerr(n) ==
    /\ Receives(n, "rerr")
    /\ LET f == Frame(n)
           broke == route[n][Target].state # "none" /\ route[n][Target].next = f.via IN
       /\ route' = IF broke THEN [route EXCEPT ![n][Target].state = "broken"] ELSE route
       /\ IF broke
          THEN HandleAndSend(n, f)
          ELSE HandleSilently(n)
       /\ msg' = IF FailFastApplies(n, broke)
                 THEN [i \in Data |-> IF msg[i] = n THEN "failed" ELSE msg[i]]
                 ELSE msg
    /\ UNCHANGED <<rev, pend, seen, later, seq, taken, got, budget, asked, sent>>

(* A node restarts.  Its sequence counter and replay windows are in flash  *)
(* (see NonceCounter and ReplayWindow), the rest is lost.                  *)
Reboot(n) ==
    /\ Faults < MaxFaults
    /\ budget' = [budget EXCEPT !.reboot = @ + 1]
    /\ route' = [route EXCEPT ![n] = [d \in Node |-> NoRoute]]
    /\ rev' = [rev EXCEPT ![n] = [q \in Query |-> NoNode]]
    /\ pend' = [pend EXCEPT ![n] = {}]
    /\ seen' = [seen EXCEPT ![n] = {}]
    /\ later' = [later EXCEPT ![n] = {}]
    /\ inbox' = [inbox EXCEPT ![n] = <<>>]
    /\ msg' = [i \in Data |-> IF msg[i] = n THEN "forgotten" ELSE msg[i]]
    /\ UNCHANGED <<seq, taken, got, lost, asked, sent>>

(* A route ages past the freshness window, or maintenance removes it.      *)
AgeRoute(n) ==
    /\ route[n][Target].state # "none"
    /\ Faults < MaxFaults
    /\ budget' = [budget EXCEPT !.expiry = @ + 1]
    /\ \/ route[n][Target].fresh /\ route' = [route EXCEPT ![n][Target].fresh = FALSE]
       \/ route' = [route EXCEPT ![n][Target] = NoRoute]
    /\ UNCHANGED <<rev, pend, seen, later, inbox, seq, taken, msg, got, lost, asked, sent>>

Handle(n) ==
    \/ DropDuplicate(n)
    \/ HandleRreq(n)
    \/ HandleRrep(n)
    \/ HandleData(n)
    \/ HandleRerr(n)

NetNext ==
    \E n \in Node :
        \/ Handle(n)
        \/ ForwardRreq(n)
        \/ StartDiscovery(n)
        \/ SendData(n)
        \/ Reboot(n)
        \/ AgeRoute(n)

NetSpec == NetInit /\ [][NetNext]_netVars

(* Each node's mesh task handles what it hears and sends what is due.      *)
FairNetSpec ==
    /\ NetSpec
    /\ \A n \in Node : WF_netVars(Handle(n)) /\ WF_netVars(ForwardRreq(n))

-----------------------------------------------------------------------------
(* A node holds a discovered route only if it asked for it or relayed a    *)
(* query: an overheard or stray RREP plants no route (rrep_rx_decide).     *)
OnlyParticipantsLearn ==
    \A n \in Node :
        route[n][Target].source = "discovered" =>
            \/ n \in asked
            \/ \E q \in Query : rev[n][q] # NoNode

(* The breadcrumbs of DATA frames lead home without a cycle: the next hop  *)
(* is a radio neighbour that is the originator or has a shorter way to it  *)
(* (data_rx_decide, the prev_hop rewrite of forward_data_packet), as long  *)
(* as no node has restarted.                                               *)
WayHome ==
    \A n \in Node, s \in Origin :
        LET e == route[n][s] IN
        budget.reboot = 0 /\ e.source = "breadcrumb" =>
            /\ e.next \in Nbrs(n)
            /\ e.next = s \/ (/\ route[e.next][s].state = "active"
                              /\ route[e.next][s].hops < e.hops)

(* However the copies of a message reach a node, it relays the message     *)
(* once, and once more after a restart; the originator, whose own frame is *)
(* not in its filter, sends it at most twice.                              *)
DataRelayedOnce ==
    \A i \in Data, n \in Node :
        sent[i][n] <= 1 + budget.reboot + (IF n \in Origin THEN 1 ELSE 0)

(* A discovery within reach of the hop limit is answered unless a frame is *)
(* lost, a node restarts or a route expires (initiate_discovery to         *)
(* handle_rrep's DELIVER).                                                 *)
DiscoveryAnswered ==
    \A n \in Origin : pend[n] # {} ~> (route[n][Target].state = "active" \/ Faults > 0)

(* A message sent over a discovered route reaches the destination unless   *)
(* one of these happens.                                                   *)
DataArrives == \A i \in Data : msg[i] \in Origin ~> (i \in got \/ Faults > 0)
=============================================================================
