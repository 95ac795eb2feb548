--------------------------- MODULE RouteNetProofs ---------------------------
(***************************************************************************)
(* For every set of nodes, every topology and any number of queries,       *)
(* messages, restarts and losses: an overheard answer plants no route,     *)
(* breadcrumbs lead home, and a node sends a message a bounded number of   *)
(* times.  First the inductive invariant and what a step may do to queues  *)
(* and routing tables without breaking it, then the handlers.              *)
(***************************************************************************)
EXTENDS RouteNet, TLAPS

Entry ==
    [next : Node \cup {NoNode}, hops : Int, cost : Nat,
     state : {"none", "active", "broken"}, source : {"none", "breadcrumb", "discovered"},
     fresh : BOOLEAN]

RreqFrame ==
    [type : {"rreq"}, pid : Query, query : Query, prev : Node, hops : Nat, cost : Nat, limit : Int]
RrepFrame ==
    [type : {"rrep"}, pid : Nat, query : Query, src : {Target}, next : Node, hops : Int,
     cost : Nat, seq : Nat]
DataFrame == [type : {"data"}, pid : Data, src : Origin, prev : Node, limit : Int]
RerrFrame == [type : {"rerr"}, via : Node]
NetFrame == RreqFrame \cup RrepFrame \cup DataFrame \cup RerrFrame

NetTypeOK ==
    /\ route \in [Node -> [Node -> Entry]]
    /\ rev \in [Node -> [Query -> Node \cup {NoNode}]]
    /\ pend \in [Node -> SUBSET Query]
    /\ seen \in [Node -> SUBSET ({"rreq", "rrep", "data"} \X Nat)]
    /\ later \in [Node -> SUBSET RreqFrame]
    /\ inbox \in [Node -> Seq(NetFrame)]
    /\ seq \in [Node -> Nat]
    /\ budget \in [query : Nat, data : Nat, reboot : Nat, expiry : Nat]
    /\ asked \subseteq Node
    /\ sent \in [Data -> [Node -> Nat]]

(* A node waits only for answers to queries of its own.                    *)
OnlyAskersWait == \A n \in Node : pend[n] # {} => n \in asked

(* A message a node has handled since its last restart is in its filter:   *)
(* what it has sent is accounted for by its restarts, by the filter and,   *)
(* at the originator, by the user's own transmission.                      *)
SentAccounted ==
    \A i \in Data, n \in Node :
        sent[i][n] <= budget.reboot + (IF <<"data", i>> \in seen[n] THEN 1 ELSE 0)
                                    + (IF n \in Origin /\ i <= budget.data THEN 1 ELSE 0)

(* Only Target is ever a discovered destination, or reported broken: any   *)
(* other entry is empty or a breadcrumb in use.                            *)
OthersByBreadcrumb ==
    \A n \in Node, d \in Node \ {Target} :
        \/ route[n][d].state = "none" /\ route[n][d].source = "none"
        \/ route[n][d].state = "active" /\ route[n][d].source = "breadcrumb" /\ route[n][d].cost # 0

(* A frame that names the node it comes from comes from a radio neighbour; *)
(* a waiting forward names the node itself.                                *)
FromNeighbour(m, f) == f.type \in {"rreq", "data"} => f.prev \in Nbrs(m)

HeardFromNeighbours ==
    \A m \in Node :
        /\ \A k \in DOMAIN inbox[m] : FromNeighbour(m, inbox[m][k])
        /\ \A f \in later[m] : f.prev = m

(* Node x has a way to s of at most h hops that it learned from a DATA     *)
(* frame, at the lowest cost there is: only a shorter one can replace it.  *)
Firm(x, s, h) ==
    /\ route[x][s].source = "breadcrumb"
    /\ route[x][s].state = "active"
    /\ route[x][s].cost = 1
    /\ route[x][s].hops <= h

(* The node a DATA frame comes from is its originator or has a firm way    *)
(* there, no longer than the frame's path.                                 *)
TracesBack(f) ==
    f.type = "data" => f.prev = f.src \/ Firm(f.prev, f.src, ROUTE_HOP_LIMIT_MAX - f.limit)

(* What WayHome says of one entry, with a firm way as the next one.        *)
LeadsHome(n, s) ==
    LET e == route[n][s] IN
    e.source = "breadcrumb" =>
        /\ e.next \in Nbrs(n)
        /\ e.next = s \/ Firm(e.next, s, e.hops - 1)

Homeward ==
    /\ \A m \in Node : \A k \in DOMAIN inbox[m] : TracesBack(inbox[m][k])
    /\ \A n \in Node, s \in Origin : LeadsHome(n, s)

NetIInv ==
    /\ NetTypeOK
    /\ OnlyAskersWait
    /\ OnlyParticipantsLearn
    /\ SentAccounted
    /\ OthersByBreadcrumb
    /\ HeardFromNeighbours
    /\ budget.reboot = 0 => Homeward

-----------------------------------------------------------------------------
(* Every frame waiting after a step waited before, at the same node, or is *)
(* one of the frames F that n transmits, heard by a neighbour.             *)
NewFrames(n, F) ==
    /\ inbox' \in [Node -> Seq(NetFrame)]
    /\ \A m \in Node : \A k \in DOMAIN inbox'[m] :
          \/ \E j \in DOMAIN inbox[m] : inbox'[m][k] = inbox[m][j]
          \/ inbox'[m][k] \in F /\ n \in Nbrs(m)

(* The radio is symmetric.                                                 *)
LEMMA NbrsSymmetric == \A m \in Node, n \in Node : m \in Nbrs(n) <=> n \in Nbrs(m)
<1>1. \A m, n : {m, n} = {n, m}
  BY Zenon
<1> QED
  BY <1>1, Zenon DEF Nbrs

(* What is in a queue after a frame was appended.                          *)
LEMMA AppendFrames ==
    ASSUME NEW q \in Seq(NetFrame), NEW f \in NetFrame
    PROVE  /\ Append(q, f) \in Seq(NetFrame)
           /\ \A k \in DOMAIN Append(q, f) : (k \in DOMAIN q /\ Append(q, f)[k] = q[k]) \/ Append(q, f)[k] = f
  OBVIOUS

(* What is in a queue after its head was taken.                            *)
LEMMA TailFrames ==
    ASSUME NEW q \in Seq(NetFrame), q # <<>>
    PROVE  /\ Tail(q) \in Seq(NetFrame)
           /\ \A k \in DOMAIN Tail(q) : k + 1 \in DOMAIN q /\ Tail(q)[k] = q[k + 1]
  OBVIOUS

(* The queues after a transmission outside of a receive handler.           *)
LEMMA SendFrames ==
    ASSUME NetTypeOK, NEW n \in Node, NEW f \in NetFrame, SendFrame(n, f)
    PROVE  NewFrames(n, {f})
<1>1. PICK S \in Hearers(n) :
          inbox' = [m \in Node |-> IF m \in S /\ Len(inbox[m]) < RxQueueSize
                                   THEN Append(inbox[m], f) ELSE inbox[m]]
  BY Zenon DEF SendFrame
<1>2. \A m \in Node : inbox[m] \in Seq(NetFrame)
  BY Zenon DEF NetTypeOK
<1>3. \A m \in S : n \in Nbrs(m)
  BY <1>1, NbrsSymmetric, Zenon DEF Hearers, Nbrs
<1>4. inbox' \in [Node -> Seq(NetFrame)]
  BY <1>1, <1>2, AppendFrames, Zenon
<1>5. ASSUME NEW m \in Node, NEW k \in DOMAIN inbox'[m]
      PROVE  \/ \E j \in DOMAIN inbox[m] : inbox'[m][k] = inbox[m][j]
             \/ inbox'[m][k] = f /\ n \in Nbrs(m)
  <2>1. CASE inbox'[m] = inbox[m]
    BY <2>1, Zenon
  <2>2. CASE m \in S /\ inbox'[m] = Append(inbox[m], f)
    BY <1>2, <1>3, <2>2, AppendFrames
  <2> QED
    BY <1>1, <2>1, <2>2, Zenon
<1> QED
  BY <1>4, <1>5, Zenon DEF NewFrames

(* The queues after a handler that transmits.                              *)
LEMMA AnswerFrames ==
    ASSUME NetTypeOK, NEW n \in Node, inbox[n] # <<>>, NEW f \in NetFrame, HandleAndSend(n, f)
    PROVE  NewFrames(n, {f})
<1>1. PICK S \in Hearers(n) :
          inbox' = [m \in Node |-> IF m = n THEN Tail(inbox[n])
                                   ELSE IF m \in S /\ Len(inbox[m]) < RxQueueSize
                                        THEN Append(inbox[m], f) ELSE inbox[m]]
  BY Zenon DEF HandleAndSend
<1>2. \A m \in Node : inbox[m] \in Seq(NetFrame)
  BY Zenon DEF NetTypeOK
<1>3. \A m \in S : n \in Nbrs(m)
  BY <1>1, NbrsSymmetric, Zenon DEF Hearers, Nbrs
<1>4. inbox' \in [Node -> Seq(NetFrame)]
  BY <1>1, <1>2, AppendFrames, TailFrames, Zenon
<1>5. ASSUME NEW m \in Node, NEW k \in DOMAIN inbox'[m]
      PROVE  \/ \E j \in DOMAIN inbox[m] : inbox'[m][k] = inbox[m][j]
             \/ inbox'[m][k] = f /\ n \in Nbrs(m)
  <2>1. CASE inbox'[m] = inbox[m]
    BY <2>1, Zenon
  <2>2. CASE m \in S /\ inbox'[m] = Append(inbox[m], f)
    BY <1>2, <1>3, <2>2, AppendFrames
  <2>3. CASE m = n /\ inbox'[m] = Tail(inbox[n])
    BY <1>2, <2>3, TailFrames
  <2> QED
    BY <1>1, <2>1, <2>2, <2>3, Zenon
<1> QED
  BY <1>4, <1>5, Zenon DEF NewFrames

(* The queues after a handler that does not.                               *)
LEMMA SilentFrames ==
    ASSUME NetTypeOK, NEW n \in Node, inbox[n] # <<>>, HandleSilently(n)
    PROVE  NewFrames(n, {})
<1>1. inbox' = [inbox EXCEPT ![n] = Tail(inbox[n])]
  BY Zenon DEF HandleSilently
<1>2. \A m \in Node : inbox[m] \in Seq(NetFrame)
  BY Zenon DEF NetTypeOK
<1>3. inbox' \in [Node -> Seq(NetFrame)]
  BY <1>1, <1>2, TailFrames, Zenon DEF NetTypeOK
<1>4. ASSUME NEW m \in Node, NEW k \in DOMAIN inbox'[m]
      PROVE  \E j \in DOMAIN inbox[m] : inbox'[m][k] = inbox[m][j]
  <2>1. CASE m # n
    BY <1>1, <2>1, Zenon DEF NetTypeOK
  <2>2. CASE m = n
    <3>1. inbox'[m] = Tail(inbox[n])
      BY <1>1, <2>2, Zenon DEF NetTypeOK
    <3> QED
      BY <1>2, <2>2, <3>1, TailFrames
  <2> QED
    BY <2>1, <2>2, Zenon
<1> QED
  BY <1>3, <1>4, Zenon DEF NewFrames

(* The frame a node handles is of its type, and waited in its queue.       *)
LEMMA HeadFrame ==
    ASSUME NetTypeOK, NEW n \in Node, inbox[n] # <<>>
    PROVE  /\ Frame(n) \in NetFrame
           /\ Frame(n).type = "rreq" => Frame(n) \in RreqFrame
           /\ Frame(n).type = "rrep" => Frame(n) \in RrepFrame
           /\ Frame(n).type = "data" => Frame(n) \in DataFrame
           /\ Frame(n).type = "rerr" => Frame(n) \in RerrFrame
           /\ 1 \in DOMAIN inbox[n] /\ Frame(n) = inbox[n][1]
<1>1. inbox[n] \in Seq(NetFrame)
  BY Zenon DEF NetTypeOK
<1>2. 1 \in DOMAIN inbox[n] /\ Frame(n) = inbox[n][1] /\ Frame(n) \in NetFrame
  BY <1>1 DEF Frame
<1> QED
  BY <1>2, Zenon DEF NetFrame, RreqFrame, RrepFrame, DataFrame, RerrFrame

-----------------------------------------------------------------------------
(* Install replaces one entry or none (route_table_install).               *)
LEMMA InstallEffect ==
    ASSUME NetTypeOK, NEW n \in Node, NEW d \in Node, NEW e \in Entry, route' = Install(n, d, e)
    PROVE  /\ route' \in [Node -> [Node -> Entry]]
           /\ \A x \in Node, y \in Node : route'[x][y] = route[x][y] \/ (x = n /\ y = d)
           /\ IF Replaces(route[n][d], e) THEN route'[n][d] = e ELSE route'[n][d] = route[n][d]
<1>1. route \in [Node -> [Node -> Entry]]
  BY Zenon DEF NetTypeOK
<1>2. CASE Replaces(route[n][d], e)
  <2>1. route' = [route EXCEPT ![n][d] = e]
    BY <1>2, Zenon DEF Install
  <2> QED
    BY <1>1, <1>2, <2>1
<1>3. CASE ~Replaces(route[n][d], e)
  <2>1. route' = route
    BY <1>3, Zenon DEF Install
  <2> QED
    BY <1>1, <1>3, <2>1, Zenon
<1> QED
  BY <1>2, <1>3, Zenon

(* A new entry is an entry.                                                *)
LEMMA RouteViaType ==
    ASSUME NEW next \in Node, NEW hops \in Int, NEW cost \in Nat,
           NEW source \in {"breadcrumb", "discovered"}
    PROVE  /\ RouteVia(next, hops, cost, source) \in Entry
           /\ RouteVia(next, hops, cost, source).next = next
           /\ RouteVia(next, hops, cost, source).hops = hops
           /\ RouteVia(next, hops, cost, source).cost = cost
           /\ RouteVia(next, hops, cost, source).source = source
           /\ RouteVia(next, hops, cost, source).state = "active"
  BY Zenon DEF RouteVia, Entry

(* The entry of x for s is new, and leads home.                            *)
NewWay(x, s) ==
    LET e == route'[x][s] IN
    /\ e.source = "breadcrumb" /\ e.state = "active" /\ e.cost # 0
    /\ Replaces(route[x][s], e)
    /\ e.next \in Nbrs(x)
    /\ e.next = s \/ Firm(e.next, s, e.hops - 1)

(* What a step may do to the ways to the originators.                      *)
WaysImprove ==
    \A x \in Node, s \in Origin : route'[x][s] = route[x][s] \/ NewWay(x, s)

(* Of two ways the one of lower cost, or of as low a cost and no longer.   *)
LEMMA LowestCost ==
    ASSUME NEW c \in Nat, NEW g \in Int, NEW h \in Int, NEW b \in Int, c # 0
    PROVE  /\ c < 1 \/ (c = 1 /\ g < h) => c = 1 /\ (h <= b => g <= b)
           /\ ~(1 < c) /\ ~(1 = c /\ b < h) => c = 1 /\ h <= b
  OBVIOUS

(* A firm way stays: only a shorter one at the same cost replaces it.      *)
LEMMA FirmStays ==
    ASSUME NetTypeOK, NetTypeOK', WaysImprove,
           NEW x \in Node, NEW s \in Origin, NEW h \in Int, Firm(x, s, h)
    PROVE  Firm(x, s, h)'
<1>1. CASE route'[x][s] = route[x][s]
  BY <1>1, Zenon DEF Firm
<1>2. CASE NewWay(x, s)
  <2> DEFINE e == route'[x][s]
             o == route[x][s]
  <2>1. s \in Node
    BY NetAssumption, Zenon
  <2>2. e \in Entry /\ o \in Entry
    BY <2>1 DEF NetTypeOK
  <2>3. e.cost \in Nat /\ e.hops \in Int /\ o.hops \in Int
    BY <2>2, Zenon DEF Entry
  <2>4. e.cost # 0 /\ (e.cost < 1 \/ (e.cost = 1 /\ e.hops < o.hops))
    BY <1>2, Zenon DEF NewWay, Replaces, Firm
  <2>5. o.hops <= h
    BY Zenon DEF Firm
  <2> HIDE DEF e, o
  <2>6. e.cost = 1 /\ e.hops <= h
    BY <2>3, <2>4, <2>5, LowestCost, Zenon
  <2> USE DEF e
  <2> QED
    BY <1>2, <2>6, Zenon DEF NewWay, Firm
<1> QED
  BY <1>1, <1>2, Zenon DEF WaysImprove

(* With such a step, and new frames that trace back, everything still      *)
(* leads home.                                                             *)
LEMMA HomewardStays ==
    ASSUME NetTypeOK, NetTypeOK', Homeward, WaysImprove,
           NEW n \in Node, NEW F, NewFrames(n, F), \A f \in F : TracesBack(f)'
    PROVE  Homeward'
<1>1. ASSUME NEW m \in Node, NEW k \in DOMAIN inbox'[m], NEW f, f = inbox'[m][k]
      PROVE  TracesBack(f)'
  <2>1. CASE f \in F
    BY <2>1, Zenon
  <2>2. CASE \E j \in DOMAIN inbox[m] : f = inbox[m][j]
    <3>1. TracesBack(f) /\ f \in NetFrame
      BY <2>2, SMTT(30) DEF Homeward, NetTypeOK
    <3>2. CASE f.type = "data"
      <4>1. f \in DataFrame
        BY <3>1, <3>2, Zenon DEF NetFrame, RreqFrame, RrepFrame, RerrFrame
      <4>2. f.prev \in Node /\ f.src \in Origin /\ ROUTE_HOP_LIMIT_MAX - f.limit \in Int
        BY <4>1, NetAssumption DEF DataFrame
      <4> QED
        BY <3>1, <4>2, FirmStays, Zenon DEF TracesBack
    <3>3. CASE f.type # "data"
      BY <3>3, Zenon DEF TracesBack
    <3> QED
      BY <3>2, <3>3, Zenon
  <2> QED
    BY <1>1, <2>1, <2>2, Zenon DEF NewFrames
<1>2. ASSUME NEW x \in Node, NEW s \in Origin
      PROVE  LeadsHome(x, s)'
  <2>1. s \in Node
    BY NetAssumption, Zenon
  <2>2. PICK y, h : y = route'[x][s].next /\ h = route'[x][s].hops - 1
    BY Zenon
  <2>3. h \in Int
    <3>1. route'[x][s] \in Entry
      BY <2>1 DEF NetTypeOK
    <3>2. route'[x][s].hops \in Int
      BY <3>1, Zenon DEF Entry
    <3> QED
      BY <2>2, <3>2
  <2>4. route'[x][s].source = "breadcrumb" => y \in Nbrs(x) /\ (y = s \/ Firm(y, s, h))
    BY <2>2, Zenon DEF WaysImprove, NewWay, Homeward, LeadsHome
  <2>5. y \in Nbrs(x) => y \in Node
    BY Zenon DEF Nbrs
  <2>6. route'[x][s].source = "breadcrumb" => y = s \/ Firm(y, s, h)'
    BY <2>3, <2>4, <2>5, FirmStays, Zenon
  <2> QED
    BY <2>2, <2>4, <2>6, Zenon DEF LeadsHome
<1> QED
  BY <1>1, <1>2, Zenon DEF Homeward

-----------------------------------------------------------------------------
(* Frames that name their sender come from a neighbour.                    *)
LEMMA HeardStays ==
    ASSUME HeardFromNeighbours, NEW n \in Node, NEW F, NewFrames(n, F),
           \A f \in F : f.type \in {"rreq", "data"} => f.prev = n,
           \A m \in Node : \A f \in later'[m] : f.prev = m
    PROVE  HeardFromNeighbours'
  BY DEF HeardFromNeighbours, FromNeighbour, NewFrames

(* A message stays accounted for while filters and budgets only grow.      *)
LEMMA SentStays ==
    ASSUME NetTypeOK, SentAccounted, sent' = sent, NetTypeOK',
           budget.reboot <= budget'.reboot, budget.data <= budget'.data,
           \A n \in Node : seen[n] \subseteq seen'[n]
    PROVE  SentAccounted'
<1> SUFFICES ASSUME NEW i \in Data, NEW n \in Node
             PROVE  sent'[i][n] <= budget'.reboot
                        + (IF <<"data", i>> \in seen'[n] THEN 1 ELSE 0)
                        + (IF n \in Origin /\ i <= budget'.data THEN 1 ELSE 0)
  BY Zenon DEF SentAccounted
<1>1. sent[i][n] <= budget.reboot + (IF <<"data", i>> \in seen[n] THEN 1 ELSE 0)
                                  + (IF n \in Origin /\ i <= budget.data THEN 1 ELSE 0)
  BY Zenon DEF SentAccounted
<1>2. /\ budget.reboot \in Nat /\ budget'.reboot \in Nat /\ budget.data \in Nat /\ budget'.data \in Nat
      /\ sent[i][n] \in Nat /\ i \in Nat /\ sent'[i][n] = sent[i][n]
  BY NetAssumption, SMTT(30) DEF NetTypeOK, Data
<1>3. <<"data", i>> \in seen[n] => <<"data", i>> \in seen'[n]
  BY Zenon
<1>4. i <= budget.data => i <= budget'.data
  BY <1>2
<1> QED
  BY <1>1, <1>2, <1>3, <1>4

(* The dispatch filter remembers the key of the frame.                     *)
LEMMA FilterType ==
    ASSUME NetTypeOK, NEW n \in Node, inbox[n] # <<>>, Frame(n).type # "rerr", FirstCopy(n)
    PROVE  /\ seen' \in [Node -> SUBSET ({"rreq", "rrep", "data"} \X Nat)]
           /\ \A m \in Node : seen[m] \subseteq seen'[m]
           /\ Key(Frame(n)) \notin seen[n] /\ Key(Frame(n)) \in seen'[n]
<1>1. Frame(n).type \in {"rreq", "rrep", "data"} /\ Frame(n).pid \in Nat
  BY HeadFrame, NetAssumption, SMTT(30) DEF NetFrame, RreqFrame, RrepFrame, DataFrame, RerrFrame, Query, Data
<1>2. Key(Frame(n)) \in {"rreq", "rrep", "data"} \X Nat
  BY <1>1, Zenon DEF Key
<1>3. seen \in [Node -> SUBSET ({"rreq", "rrep", "data"} \X Nat)]
  BY Zenon DEF NetTypeOK
<1> QED
  BY <1>2, <1>3, Zenon DEF FirstCopy

(* The budgets are natural numbers.                                        *)
LEMMA BudgetType ==
    ASSUME NetTypeOK
    PROVE  /\ budget \in [query : Nat, data : Nat, reboot : Nat, expiry : Nat]
           /\ budget.query \in Nat /\ budget.data \in Nat
           /\ budget.reboot \in Nat /\ budget.expiry \in Nat
<1>1. budget \in [query : Nat, data : Nat, reboot : Nat, expiry : Nat]
  BY Zenon DEF NetTypeOK
<1> QED
  BY <1>1, Zenon

(* A duplicate is dropped.                                                 *)
LEMMA DropDuplicateIInv ==
    ASSUME NetIInv, NEW n \in Node, DropDuplicate(n)
    PROVE  NetIInv'
<1>1. NewFrames(n, {})
  BY SilentFrames, Zenon DEF DropDuplicate, NetIInv
<1>2. NetTypeOK'
  BY <1>1, Zenon DEF DropDuplicate, NetIInv, NetTypeOK, NewFrames
<1>3. HeardFromNeighbours'
  <2>1. \A m \in Node : \A k \in later'[m] : k.prev = m
    BY Zenon DEF NetIInv, DropDuplicate, HeardFromNeighbours
  <2> QED
    BY <1>1, <2>1, HeardStays DEF NetIInv
<1>4. budget.reboot = 0 => Homeward'
  BY <1>1, <1>2, HomewardStays DEF NetIInv, DropDuplicate, WaysImprove
<1> QED
  BY <1>2, <1>3, <1>4
  DEF NetIInv, DropDuplicate, OnlyAskersWait, OnlyParticipantsLearn, SentAccounted, OthersByBreadcrumb

(* initiate_discovery: the node is among those that asked.                 *)
LEMMA StartDiscoveryIInv ==
    ASSUME NetIInv, NEW n \in Node, StartDiscovery(n)
    PROVE  NetIInv'
<1> DEFINE q == budget.query + 1
           f == [type |-> "rreq", pid |-> q, query |-> q, prev |-> n, hops |-> 0, cost |-> 0,
                 limit |-> IF pend[n] = {} THEN RREQ_HOP_LIMIT_INITIAL ELSE RREQ_HOP_LIMIT_EXPANDED]
<1>1. q \in Query
  BY BudgetType, NetAssumption DEF StartDiscovery, NetIInv, Query
<1>2. f \in RreqFrame /\ f \in NetFrame /\ f.type = "rreq" /\ f.prev = n
  BY <1>1, NetAssumption DEF RreqFrame, NetFrame
<1>3. SendFrame(n, f)
  BY Zenon DEF StartDiscovery
<1> HIDE DEF f
<1>4. NewFrames(n, {f})
  BY <1>2, <1>3, SendFrames, Zenon DEF NetIInv
<1>5. budget' = [budget EXCEPT !.query = q] /\ pend' = [pend EXCEPT ![n] = @ \union {q}]
      /\ asked' = asked \union {n}
      /\ UNCHANGED <<route, rev, seen, later, seq, taken, msg, got, sent>>
  BY Zenon DEF StartDiscovery
<1>6. budget' \in [query : Nat, data : Nat, reboot : Nat, expiry : Nat]
      /\ budget'.reboot = budget.reboot /\ budget'.data = budget.data
  <2>1. q \in Nat
    BY BudgetType DEF NetIInv
  <2> HIDE DEF q
  <2> QED
    BY <1>5, <2>1, BudgetType, Zenon DEF NetIInv
<1>7. NetTypeOK'
  BY <1>1, <1>4, <1>5, <1>6, Zenon DEF NetIInv, NetTypeOK, NewFrames
<1>8. OnlyAskersWait' /\ OnlyParticipantsLearn' /\ OthersByBreadcrumb'
  BY <1>5 DEF NetIInv, NetTypeOK, OnlyAskersWait, OnlyParticipantsLearn, OthersByBreadcrumb
<1>9. SentAccounted'
  BY <1>5, <1>6, Zenon DEF NetIInv, SentAccounted
<1>10. HeardFromNeighbours'
  <2>1. \A k \in {f} : k.type \in {"rreq", "data"} => k.prev = n
    BY <1>2, Zenon
  <2>2. \A m \in Node : \A k \in later'[m] : k.prev = m
    BY <1>5, Zenon DEF NetIInv, HeardFromNeighbours
  <2> QED
    BY <1>4, <2>1, <2>2, HeardStays DEF NetIInv
<1>11. budget.reboot = 0 => Homeward'
  <2>1. \A g \in {f} : TracesBack(g)'
    BY <1>2, Zenon DEF TracesBack
  <2> QED
    BY <1>4, <1>5, <1>7, <2>1, HomewardStays, Zenon DEF NetIInv, WaysImprove
<1> QED
  BY <1>6, <1>7, <1>8, <1>9, <1>10, <1>11, Zenon DEF NetIInv

(* A jittered forward of an RREQ.                                          *)
LEMMA ForwardRreqIInv ==
    ASSUME NetIInv, NEW n \in Node, ForwardRreq(n)
    PROVE  NetIInv'
<1>1. PICK f \in later[n] :
          /\ later' = [later EXCEPT ![n] = @ \ {f}]
          /\ SendFrame(n, f)
          /\ UNCHANGED <<route, rev, pend, seen, seq, taken, msg, got, budget, asked, sent>>
  BY Zenon DEF ForwardRreq
<1>2. f \in RreqFrame /\ f \in NetFrame /\ f.type = "rreq"
  BY DEF NetIInv, NetTypeOK, RreqFrame, NetFrame
<1>3. NewFrames(n, {f})
  BY <1>1, <1>2, SendFrames, Zenon DEF NetIInv
<1>4. NetTypeOK'
  BY <1>1, <1>3, Zenon DEF NetIInv, NetTypeOK, NewFrames
<1>5. OnlyAskersWait' /\ OnlyParticipantsLearn' /\ OthersByBreadcrumb' /\ SentAccounted'
  BY <1>1, Zenon DEF NetIInv, OnlyAskersWait, OnlyParticipantsLearn, OthersByBreadcrumb, SentAccounted
<1>6. HeardFromNeighbours'
  <2>1. \A k \in {f} : k.prev = n
    BY <1>1, Zenon DEF NetIInv, HeardFromNeighbours
  <2>2. \A m \in Node : \A g \in later'[m] : g.prev = m
    BY <1>1, Zenon DEF NetIInv, NetTypeOK, HeardFromNeighbours
  <2> QED
    BY <1>3, <2>1, <2>2, HeardStays DEF NetIInv
<1>7. budget.reboot = 0 => Homeward'
  <2>1. \A g \in {f} : TracesBack(g)'
    BY <1>2, Zenon DEF TracesBack
  <2> QED
    BY <1>1, <1>3, <1>4, <2>1, HomewardStays, Zenon DEF NetIInv, WaysImprove
<1> QED
  BY <1>1, <1>4, <1>5, <1>6, <1>7, Zenon DEF NetIInv

(* A user's message: the originator's own frame.                           *)
LEMMA SendDataIInv ==
    ASSUME NetIInv, NEW n \in Node, SendData(n)
    PROVE  NetIInv'
<1> DEFINE i == budget.data + 1
           f == [type |-> "data", pid |-> i, src |-> n, prev |-> n, limit |-> ROUTE_HOP_LIMIT_MAX]
<1>1. i \in Data /\ i \in Nat /\ n \in Origin /\ budget.data \in Nat /\ budget.reboot \in Nat
  BY BudgetType, NetAssumption DEF SendData, NetIInv, Data
<1>2. f \in DataFrame /\ f \in NetFrame /\ f.type = "data" /\ f.prev = n /\ f.src = n
  BY <1>1, NetAssumption DEF DataFrame, NetFrame
<1>3. SendFrame(n, f)
  BY Zenon DEF SendData
<1>4. budget' = [budget EXCEPT !.data = i] /\ sent' = [sent EXCEPT ![i][n] = @ + 1]
      /\ UNCHANGED <<route, rev, pend, seen, later, seq, taken, got, asked>>
  BY Zenon DEF SendData
<1> HIDE DEF f
<1>5. NewFrames(n, {f})
  BY <1>2, <1>3, SendFrames, Zenon DEF NetIInv
<1>6. budget' \in [query : Nat, data : Nat, reboot : Nat, expiry : Nat]
      /\ budget'.reboot = budget.reboot /\ budget'.data = i
  <2> HIDE DEF i
  <2> QED
    BY <1>1, <1>4, BudgetType, Zenon DEF NetIInv
<1>7. sent' \in [Data -> [Node -> Nat]]
  BY <1>1, <1>4 DEF NetIInv, NetTypeOK
<1>8. NetTypeOK'
  BY <1>4, <1>5, <1>6, <1>7, Zenon DEF NetIInv, NetTypeOK, NewFrames
<1>9. OnlyAskersWait' /\ OnlyParticipantsLearn' /\ OthersByBreadcrumb'
  BY <1>4, Zenon DEF NetIInv, OnlyAskersWait, OnlyParticipantsLearn, OthersByBreadcrumb
<1>10. SentAccounted'
  <2> SUFFICES ASSUME NEW j \in Data, NEW m \in Node
               PROVE  sent'[j][m] <= budget'.reboot
                          + (IF <<"data", j>> \in seen'[m] THEN 1 ELSE 0)
                          + (IF m \in Origin /\ j <= budget'.data THEN 1 ELSE 0)
    BY Zenon DEF SentAccounted
  <2>1. sent[j][m] <= budget.reboot + (IF <<"data", j>> \in seen[m] THEN 1 ELSE 0)
                                    + (IF m \in Origin /\ j <= budget.data THEN 1 ELSE 0)
    BY Zenon DEF NetIInv, SentAccounted
  <2>2. sent[j][m] \in Nat /\ sent \in [Data -> [Node -> Nat]] /\ j \in Nat /\ seen' = seen
    <3>1. j \in Nat
      BY NetAssumption DEF Data
    <3>2. sent \in [Data -> [Node -> Nat]]
      BY Zenon DEF NetIInv, NetTypeOK
    <3> QED
      BY <1>4, <3>1, <3>2, Zenon
  <2>3. CASE j = i /\ m = n
    <3>1. sent'[j][m] = sent[j][m] + 1
      BY <1>1, <1>4, <2>2, <2>3, Zenon
    <3>2. ~(j <= budget.data) /\ j <= budget'.data /\ m \in Origin
      BY <1>1, <1>6, <2>3
    <3> QED
      BY <1>1, <1>6, <2>1, <2>2, <3>1, <3>2
  <2>4. CASE ~(j = i /\ m = n)
    <3>1. sent'[j][m] = sent[j][m]
      BY <1>1, <1>4, <2>2, <2>4, Zenon
    <3>2. j <= budget.data => j <= budget'.data
      BY <1>1, <1>6, <2>2
    <3> QED
      BY <1>1, <1>6, <2>1, <2>2, <3>1, <3>2
  <2> QED
    BY <2>3, <2>4, Zenon
<1>11. HeardFromNeighbours'
  <2>1. \A k \in {f} : k.type \in {"rreq", "data"} => k.prev = n
    BY <1>2, Zenon
  <2>2. \A m \in Node : \A k \in later'[m] : k.prev = m
    BY <1>4, Zenon DEF NetIInv, HeardFromNeighbours
  <2> QED
    BY <1>5, <2>1, <2>2, HeardStays DEF NetIInv
<1>12. budget.reboot = 0 => Homeward'
  <2>1. \A g \in {f} : TracesBack(g)'
    BY <1>2, Zenon DEF TracesBack
  <2> QED
    BY <1>4, <1>5, <1>8, <2>1, HomewardStays, Zenon DEF NetIInv, WaysImprove
<1> QED
  BY <1>6, <1>8, <1>9, <1>10, <1>11, <1>12, Zenon DEF NetIInv

(* A step that touches only entries for Target leaves the ways home alone. *)
LEMMA TargetOnly ==
    ASSUME OthersByBreadcrumb, \A x \in Node, y \in Node \ {Target} : route'[x][y] = route[x][y]
    PROVE  OthersByBreadcrumb' /\ WaysImprove
  BY NetAssumption DEF OthersByBreadcrumb, WaysImprove

(* A route ages or is removed.                                             *)
LEMMA AgeRouteIInv ==
    ASSUME NetIInv, NEW n \in Node, AgeRoute(n)
    PROVE  NetIInv'
<1>1. budget' = [budget EXCEPT !.expiry = @ + 1]
      /\ UNCHANGED <<rev, pend, seen, later, inbox, seq, taken, msg, got, lost, asked, sent>>
  BY Zenon DEF AgeRoute
<1>2. budget' \in [query : Nat, data : Nat, reboot : Nat, expiry : Nat]
      /\ budget'.reboot = budget.reboot /\ budget'.data = budget.data
  BY <1>1, BudgetType DEF NetIInv
<1>3. PICK e \in Entry : route' = [route EXCEPT ![n][Target] = e]
                        /\ (e.source = "discovered" => route[n][Target].source = "discovered")
  <2>1. route \in [Node -> [Node -> Entry]] /\ Target \in Node /\ route[n][Target] \in Entry
    BY NetAssumption DEF NetIInv, NetTypeOK
  <2>2. CASE route' = [route EXCEPT ![n][Target].fresh = FALSE]
    <3>1. [route[n][Target] EXCEPT !.fresh = FALSE] \in Entry
          /\ [route[n][Target] EXCEPT !.fresh = FALSE].source = route[n][Target].source
      BY <2>1, Zenon DEF Entry
    <3> QED
      BY <2>2, <3>1, Zenon
  <2>3. CASE route' = [route EXCEPT ![n][Target] = NoRoute]
    <3>1. NoRoute \in Entry /\ NoRoute.source = "none"
      BY DEF NoRoute, Entry
    <3> QED
      BY <2>3, <3>1, Zenon
  <2> QED
    BY <2>2, <2>3, Zenon DEF AgeRoute
<1>4. route \in [Node -> [Node -> Entry]] /\ Target \in Node
  BY NetAssumption, Zenon DEF NetIInv, NetTypeOK
<1>5. NetTypeOK'
  BY <1>1, <1>2, <1>3, <1>4, Zenon DEF NetIInv, NetTypeOK
<1>6. OthersByBreadcrumb' /\ WaysImprove
  BY <1>3, <1>4, TargetOnly, Zenon DEF NetIInv
<1>7. OnlyAskersWait' /\ OnlyParticipantsLearn'
  BY <1>1, <1>3, <1>4, Zenon DEF NetIInv, OnlyAskersWait, OnlyParticipantsLearn
<1>8. SentAccounted' /\ HeardFromNeighbours'
  BY <1>1, <1>2, Zenon DEF NetIInv, SentAccounted, HeardFromNeighbours
<1>9. NewFrames(n, {})
  BY <1>1, Zenon DEF NetIInv, NetTypeOK, NewFrames
<1>10. budget.reboot = 0 => Homeward'
  BY <1>5, <1>6, <1>9, HomewardStays DEF NetIInv
<1> QED
  BY <1>2, <1>5, <1>6, <1>7, <1>8, <1>10, Zenon DEF NetIInv

(* A restart: after it nothing is claimed of the ways home.                *)
LEMMA RebootIInv ==
    ASSUME NetIInv, NEW n \in Node, Reboot(n)
    PROVE  NetIInv'
<1>1. budget' \in [query : Nat, data : Nat, reboot : Nat, expiry : Nat]
      /\ budget'.reboot = budget.reboot + 1 /\ budget'.data = budget.data /\ budget.reboot \in Nat
  BY BudgetType DEF NetIInv, Reboot
<1>2. NoRoute \in Entry /\ NoRoute.source = "none" /\ NoRoute.state = "none"
  BY DEF NoRoute, Entry
<1>3. NetTypeOK'
  BY <1>1, <1>2, SMTT(30) DEF NetIInv, NetTypeOK, Reboot
<1>4. OnlyAskersWait'
  BY Zenon DEF NetIInv, NetTypeOK, OnlyAskersWait, Reboot
<1>5. OnlyParticipantsLearn' /\ OthersByBreadcrumb'
  <2>1. /\ Target \in Node
        /\ \A m \in Node, d \in Node :
              route'[m][d] = NoRoute \/ (m # n /\ route'[m][d] = route[m][d])
        /\ \A m \in Node : m # n => rev'[m] = rev[m]
        /\ asked' = asked
    BY NetAssumption, Zenon DEF NetIInv, NetTypeOK, Reboot
  <2> QED
    BY <1>2, <2>1 DEF NetIInv, OnlyParticipantsLearn, OthersByBreadcrumb
<1>6. HeardFromNeighbours'
  BY DEF NetIInv, NetTypeOK, HeardFromNeighbours, Reboot
<1>7. SentAccounted'
  <2> SUFFICES ASSUME NEW j \in Data, NEW m \in Node
               PROVE  sent'[j][m] <= budget'.reboot
                          + (IF <<"data", j>> \in seen'[m] THEN 1 ELSE 0)
                          + (IF m \in Origin /\ j <= budget'.data THEN 1 ELSE 0)
    BY Zenon DEF SentAccounted
  <2>1. sent[j][m] <= budget.reboot + (IF <<"data", j>> \in seen[m] THEN 1 ELSE 0)
                                    + (IF m \in Origin /\ j <= budget.data THEN 1 ELSE 0)
    BY Zenon DEF NetIInv, SentAccounted
  <2>2. sent[j][m] \in Nat /\ sent' = sent /\ (m # n => seen'[m] = seen[m])
    BY DEF NetIInv, NetTypeOK, Reboot
  <2> QED
    BY <1>1, <2>1, <2>2
<1> QED
  BY <1>1, <1>3, <1>4, <1>5, <1>6, <1>7 DEF NetIInv

-----------------------------------------------------------------------------
(* An entry marked broken is the same entry otherwise.                     *)
LEMMA BrokenEntry ==
    ASSUME NEW e \in Entry
    PROVE  [e EXCEPT !.state = "broken"] \in Entry /\ [e EXCEPT !.state = "broken"].source = e.source
<1>1. "broken" \in {"none", "active", "broken"}
  BY Zenon
<1> QED
  BY <1>1, Zenon DEF Entry

(* handle_rerr breaks a route to the target, and reports on.               *)
LEMMA HandleRerrIInv ==
    ASSUME NetIInv, NEW n \in Node, HandleRerr(n)
    PROVE  NetIInv'
<1> DEFINE f == Frame(n)
<1>1. f \in RerrFrame /\ f \in NetFrame /\ f.type = "rerr" /\ inbox[n] # <<>>
  BY HeadFrame, Zenon DEF HandleRerr, Receives, NetIInv
<1>2. /\ HandleAndSend(n, f) \/ HandleSilently(n)
      /\ route' = [route EXCEPT ![n][Target].state = "broken"] \/ route' = route
      /\ UNCHANGED <<rev, pend, seen, later, seq, taken, got, budget, asked, sent>>
  BY Zenon DEF HandleRerr
<1> HIDE DEF f
<1>3. NewFrames(n, {f})
  <2>1. CASE HandleAndSend(n, f)
    BY <1>1, <2>1, AnswerFrames, Zenon DEF NetIInv
  <2>2. CASE HandleSilently(n)
    <3>1. NewFrames(n, {})
      BY <1>1, <2>2, SilentFrames, Zenon DEF NetIInv
    <3> QED
      BY <3>1, Zenon DEF NewFrames
  <2> QED
    BY <1>2, <2>1, <2>2, Zenon
<1>4. route \in [Node -> [Node -> Entry]] /\ Target \in Node
  BY NetAssumption, Zenon DEF NetIInv, NetTypeOK
<1>5. /\ route' \in [Node -> [Node -> Entry]]
      /\ \A x \in Node, y \in Node \ {Target} : route'[x][y] = route[x][y]
      /\ \A x \in Node : route'[x][Target].source = route[x][Target].source
  <2>1. CASE route' = route
    BY <1>4, <2>1, Zenon
  <2>2. CASE route' = [route EXCEPT ![n][Target].state = "broken"]
    <3>1. PICK e : e = [route[n][Target] EXCEPT !.state = "broken"]
      BY Zenon
    <3>2. e \in Entry /\ e.source = route[n][Target].source
      BY <1>4, <3>1, BrokenEntry
    <3>3. route' = [route EXCEPT ![n][Target] = e]
      BY <2>2, <3>1, Zenon
    <3> QED
      BY <1>4, <3>2, <3>3, Zenon
  <2> QED
    BY <1>2, <2>1, <2>2, Zenon
<1>6. NetTypeOK'
  BY <1>2, <1>3, <1>5, Zenon DEF NetIInv, NetTypeOK, NewFrames
<1>7. OthersByBreadcrumb' /\ WaysImprove
  BY <1>5, TargetOnly, Zenon DEF NetIInv
<1>8. OnlyAskersWait' /\ OnlyParticipantsLearn' /\ SentAccounted'
  BY <1>2, <1>5, Zenon DEF NetIInv, OnlyAskersWait, OnlyParticipantsLearn, SentAccounted
<1>9. HeardFromNeighbours'
  <2>1. \A k \in {f} : k.type \in {"rreq", "data"} => k.prev = n
    BY <1>1, Zenon
  <2>2. \A m \in Node : \A k \in later'[m] : k.prev = m
    BY <1>2, Zenon DEF NetIInv, HeardFromNeighbours
  <2> QED
    BY <1>3, <2>1, <2>2, HeardStays DEF NetIInv
<1>10. budget.reboot = 0 => Homeward'
  <2>1. \A g \in {f} : TracesBack(g)'
    BY <1>1, Zenon DEF TracesBack
  <2> QED
    BY <1>3, <1>6, <1>7, <2>1, HomewardStays, Zenon DEF NetIInv
<1> QED
  BY <1>2, <1>6, <1>7, <1>8, <1>9, <1>10, Zenon DEF NetIInv

(* handle_rrep: a route is learned by the asker and by those who relayed   *)
(* the query.                                                              *)
LEMMA HandleRrepIInv ==
    ASSUME NetIInv, NEW n \in Node, HandleRrep(n)
    PROVE  NetIInv'
<1> DEFINE f == Frame(n)
           g == [f EXCEPT !.next = n]
           new == RouteVia(f.next, f.hops, f.cost + 1, "discovered")
<1>1. f \in RrepFrame /\ f.type = "rrep" /\ inbox[n] # <<>> /\ FirstCopy(n)
  BY HeadFrame, Zenon DEF HandleRrep, Receives, NetIInv
<1>2. f.src = Target /\ f.query \in Query /\ new \in Entry
  <2>1. f.src = Target /\ f.query \in Query /\ f.next \in Node /\ f.hops \in Int /\ f.cost + 1 \in Nat
    BY <1>1 DEF RrepFrame
  <2> QED
    BY <2>1, RouteViaType, Zenon
<1>3. g \in NetFrame /\ g.type = "rrep"
  BY <1>1, Zenon DEF RrepFrame, NetFrame
<1>4. /\ HandleAndSend(n, g) \/ HandleSilently(n)
      /\ \/ route' = route
         \/ Participates(n, f.query) /\ route' = Install(n, Target, new)
      /\ pend' = pend \/ pend' = [pend EXCEPT ![n] = {}]
      /\ UNCHANGED <<rev, later, seq, msg, got, budget, asked, sent>>
  BY <1>2, Zenon DEF HandleRrep
<1> HIDE DEF f, g, new
<1>5. NewFrames(n, {g})
  <2>1. CASE HandleAndSend(n, g)
    BY <1>1, <1>3, <2>1, AnswerFrames, Zenon DEF NetIInv
  <2>2. CASE HandleSilently(n)
    <3>1. NewFrames(n, {})
      BY <1>1, <2>2, SilentFrames, Zenon DEF NetIInv
    <3> QED
      BY <3>1, Zenon DEF NewFrames
  <2> QED
    BY <1>4, <2>1, <2>2, Zenon
<1>6. /\ route' \in [Node -> [Node -> Entry]]
      /\ \A x \in Node, y \in Node :
            route'[x][y] = route[x][y] \/ (x = n /\ y = Target /\ Participates(n, f.query))
  <2>1. CASE route' = route
    BY <2>1, Zenon DEF NetIInv, NetTypeOK
  <2>2. CASE Participates(n, f.query) /\ route' = Install(n, Target, new)
    <3>1. NetTypeOK /\ Target \in Node
      BY NetAssumption, Zenon DEF NetIInv
    <3>2. PICK e \in Entry : route' = Install(n, Target, e)
      BY <1>2, <2>2, Zenon
    <3>3. /\ route' \in [Node -> [Node -> Entry]]
          /\ \A x \in Node, y \in Node : route'[x][y] = route[x][y] \/ (x = n /\ y = Target)
      BY <3>1, <3>2, InstallEffect
    <3> QED
      BY <2>2, <3>3, Zenon
  <2> QED
    BY <1>4, <2>1, <2>2, Zenon
<1>7. /\ seen' \in [Node -> SUBSET ({"rreq", "rrep", "data"} \X Nat)]
      /\ \A m \in Node : seen[m] \subseteq seen'[m]
  BY <1>1, FilterType, Zenon DEF NetIInv, f
<1>8. NetTypeOK'
  BY <1>4, <1>5, <1>6, <1>7, Zenon DEF NetIInv, NetTypeOK, NewFrames
<1>9. OthersByBreadcrumb' /\ WaysImprove
  BY <1>6, TargetOnly, Zenon DEF NetIInv
<1>10. OnlyAskersWait'
  BY <1>4, Zenon DEF NetIInv, NetTypeOK, OnlyAskersWait
<1>11. OnlyParticipantsLearn'
  <2> SUFFICES ASSUME NEW m \in Node, route'[m][Target].source = "discovered"
               PROVE  m \in asked \/ \E q \in Query : rev[m][q] # NoNode
    BY <1>4, Zenon DEF OnlyParticipantsLearn
  <2>1. CASE route'[m][Target] = route[m][Target]
    BY <2>1, Zenon DEF NetIInv, OnlyParticipantsLearn
  <2>2. CASE m = n /\ Participates(n, f.query)
    BY <1>2, <2>2, Zenon DEF NetIInv, OnlyAskersWait, Participates
  <2> QED
    BY <1>6, <2>1, <2>2, NetAssumption, Zenon
<1>12. SentAccounted'
  BY <1>4, <1>7, <1>8, BudgetType, SentStays DEF NetIInv
<1>13. HeardFromNeighbours'
  <2>1. \A k \in {g} : k.type \in {"rreq", "data"} => k.prev = n
    BY <1>3, Zenon
  <2>2. \A m \in Node : \A k \in later'[m] : k.prev = m
    BY <1>4, Zenon DEF NetIInv, HeardFromNeighbours
  <2> QED
    BY <1>5, <2>1, <2>2, HeardStays DEF NetIInv
<1>14. budget.reboot = 0 => Homeward'
  <2>1. \A h \in {g} : TracesBack(h)'
    BY <1>3, Zenon DEF TracesBack
  <2> QED
    BY <1>5, <1>8, <1>9, <2>1, HomewardStays, Zenon DEF NetIInv
<1> QED
  BY <1>4, <1>8, <1>9, <1>10, <1>11, <1>12, <1>13, <1>14, Zenon DEF NetIInv

-----------------------------------------------------------------------------
(* A breadcrumb is installed: no entry becomes a discovered one, and the   *)
(* ways home improve if the new one leads home.                            *)
LEMMA BreadcrumbInstalled ==
    ASSUME NetIInv, NEW n \in Node, NEW d \in Node, NEW e \in Entry, route' = Install(n, d, e),
           e.source = "breadcrumb", e.state = "active", e.cost # 0,
           e.next \in Nbrs(n)
    PROVE  /\ route' \in [Node -> [Node -> Entry]]
           /\ OthersByBreadcrumb'
           /\ \A m \in Node : route'[m][Target].source = "discovered"
                               => route[m][Target].source = "discovered"
           /\ (d \in Origin => e.next = d \/ Firm(e.next, d, e.hops - 1)) => WaysImprove
<1>1. /\ route' \in [Node -> [Node -> Entry]]
      /\ \A x \in Node, y \in Node : route'[x][y] = route[x][y] \/ (x = n /\ y = d)
      /\ IF Replaces(route[n][d], e) THEN route'[n][d] = e ELSE route'[n][d] = route[n][d]
  BY InstallEffect DEF NetIInv
<1>2. \A x \in Node, y \in Node :
          \/ route'[x][y] = route[x][y]
          \/ x = n /\ y = d /\ route'[x][y] = e /\ Replaces(route[x][y], e)
  BY <1>1, Zenon
<1>3. OthersByBreadcrumb'
  BY <1>2 DEF NetIInv, OthersByBreadcrumb
<1>4. \A m \in Node : route'[m][Target].source = "discovered" => route[m][Target].source = "discovered"
  BY <1>2, NetAssumption, Zenon
<1>5. ASSUME d \in Origin => e.next = d \/ Firm(e.next, d, e.hops - 1)
      PROVE  WaysImprove
  <2> SUFFICES ASSUME NEW x \in Node, NEW s \in Origin, route'[x][s] # route[x][s]
               PROVE  NewWay(x, s)
    BY Zenon DEF WaysImprove
  <2>1. x = n /\ s = d /\ route'[x][s] = e /\ Replaces(route[x][s], e)
    BY <1>2, NetAssumption, Zenon
  <2> QED
    BY <1>5, <2>1, Zenon DEF NewWay
<1> QED
  BY <1>1, <1>3, <1>4, <1>5, Zenon

(* handle_rreq: the answer names no node it must not, the forward waits,   *)
(* and the breadcrumb leads to the neighbour it came from.                 *)
LEMMA HandleRreqIInv ==
    ASSUME NetIInv, NEW n \in Node, HandleRreq(n)
    PROVE  NetIInv'
<1> DEFINE f == Frame(n)
           g == Forwarded(n, f)
<1>1. f \in RreqFrame /\ f.type = "rreq" /\ inbox[n] # <<>> /\ FirstCopy(n)
      /\ 1 \in DOMAIN inbox[n] /\ f = inbox[n][1]
  BY HeadFrame, Zenon DEF HandleRreq, Receives, NetIInv
<1>2. PICK p \in Node, q \in Query, h \in Nat, c \in Nat :
          p = f.prev /\ q = f.query /\ h = f.hops /\ c = f.cost
  BY <1>1, Zenon DEF RreqFrame
<1>3. p \in Nbrs(n)
  BY <1>1, <1>2, Zenon DEF NetIInv, HeardFromNeighbours, FromNeighbour
<1>4. PICK e \in Entry : /\ e = RouteVia(p, h, c + 1, "breadcrumb")
                        /\ e.next = p /\ e.source = "breadcrumb" /\ e.state = "active" /\ e.cost # 0
  BY RouteViaType
<1>5. g \in RreqFrame /\ g.prev = n
  BY <1>1, SMTT(30) DEF Forwarded, RreqFrame
<1>6. /\ rev' = [rev EXCEPT ![n][q] = p]
      /\ \/ seq' = seq
         \/ seq' = [seq EXCEPT ![n] = @ + 1]
      /\ later' = later \/ later' = [later EXCEPT ![n] = @ \union {g}]
      /\ route' = route \/ route' = Install(n, p, e)
      /\ UNCHANGED <<pend, taken, msg, got, budget, asked, sent>>
  BY <1>2, <1>4, Zenon DEF HandleRreq
<1>7. \E a \in RrepFrame : NewFrames(n, {a})
  <2>0. seq[n] + 1 \in Nat /\ route[n][Target] \in Entry
    BY NetAssumption, SMTT(30) DEF NetIInv, NetTypeOK
  <2>1. CASE HandleSilently(n)
    <3>1. NewFrames(n, {})
      BY <1>1, <2>1, SilentFrames, Zenon DEF NetIInv
    <3>2. [type |-> "rrep", pid |-> 0, query |-> q, src |-> Target, next |-> n, hops |-> 0,
           cost |-> 0, seq |-> 0] \in RrepFrame
      BY DEF RrepFrame
    <3> QED
      BY <3>1, <3>2, Zenon DEF NewFrames
  <2>2. CASE n = Target /\ HandleAndSend(n, AnswerOf(n, f))
    <3>1. AnswerOf(n, f) \in RrepFrame
      BY <1>2, <2>0, <2>2, NetAssumption DEF AnswerOf, RrepFrame, Query
    <3>2. PICK a \in RrepFrame : HandleAndSend(n, a)
      BY <2>2, <3>1, Zenon
    <3>3. a \in NetFrame
      BY Zenon DEF NetFrame
    <3> QED
      BY <1>1, <3>2, <3>3, AnswerFrames, Zenon DEF NetIInv
  <2>3. CASE HandleAndSend(n, AnswerFor(n, f))
    <3>1. AnswerFor(n, f) \in RrepFrame
      BY <1>2, <2>0 DEF AnswerFor, RrepFrame, Entry
    <3>2. PICK a \in RrepFrame : HandleAndSend(n, a)
      BY <2>3, <3>1, Zenon
    <3>3. a \in NetFrame
      BY Zenon DEF NetFrame
    <3> QED
      BY <1>1, <3>2, <3>3, AnswerFrames, Zenon DEF NetIInv
  <2> QED
    BY <2>1, <2>2, <2>3, Zenon DEF HandleRreq
<1>8. PICK a \in RrepFrame : NewFrames(n, {a})
  BY <1>7, Zenon
<1>9. a.type = "rrep"
  BY Zenon DEF RrepFrame
<1> HIDE DEF f, g
<1>10. /\ route' \in [Node -> [Node -> Entry]]
       /\ OthersByBreadcrumb'
       /\ \A m \in Node : route'[m][Target].source = "discovered"
                           => route[m][Target].source = "discovered"
       /\ WaysImprove
  <2>1. CASE route' = route
    BY <2>1, SMTT(30) DEF NetIInv, NetTypeOK, OthersByBreadcrumb, WaysImprove
  <2>2. CASE route' = Install(n, p, e)
    BY <1>3, <1>4, <2>2, BreadcrumbInstalled, Zenon
  <2> QED
    BY <1>6, <2>1, <2>2, Zenon
<1>11. /\ seen' \in [Node -> SUBSET ({"rreq", "rrep", "data"} \X Nat)]
       /\ \A m \in Node : seen[m] \subseteq seen'[m]
  BY <1>1, FilterType, Zenon DEF NetIInv, f
<1>12. /\ rev' \in [Node -> [Query -> Node \cup {NoNode}]]
       /\ later' \in [Node -> SUBSET RreqFrame]
       /\ seq' \in [Node -> Nat]
       /\ \A m \in Node, k \in Query : rev[m][k] # NoNode => rev'[m][k] # NoNode
       /\ \A m \in Node : \A k \in later'[m] : k.prev = m
  <2>1. rev \in [Node -> [Query -> Node \cup {NoNode}]] /\ later \in [Node -> SUBSET RreqFrame]
        /\ seq \in [Node -> Nat] /\ p # NoNode
    BY NetAssumption, Zenon DEF NetIInv, NetTypeOK
  <2>2. \A m \in Node : \A k \in later[m] : k.prev = m
    BY Zenon DEF NetIInv, HeardFromNeighbours
  <2>3. rev' \in [Node -> [Query -> Node \cup {NoNode}]]
        /\ \A m \in Node, k \in Query : rev[m][k] # NoNode => rev'[m][k] # NoNode
    BY <1>6, <2>1, Zenon
  <2>4. later' \in [Node -> SUBSET RreqFrame] /\ \A m \in Node : \A k \in later'[m] : k.prev = m
    BY <1>5, <1>6, <2>1, <2>2
  <2>5. seq' \in [Node -> Nat]
    BY <1>6, <2>1
  <2> QED
    BY <2>3, <2>4, <2>5, Zenon
<1>13. NetTypeOK'
  BY <1>6, <1>8, <1>10, <1>11, <1>12, Zenon DEF NetIInv, NetTypeOK, NewFrames
<1>14. OnlyAskersWait'
  BY <1>6, Zenon DEF NetIInv, OnlyAskersWait
<1>15. OnlyParticipantsLearn'
  BY <1>6, <1>10, <1>12 DEF NetIInv, OnlyParticipantsLearn
<1>16. SentAccounted'
  BY <1>6, <1>11, <1>13, BudgetType, SentStays DEF NetIInv
<1>17. HeardFromNeighbours'
  BY <1>8, <1>9, <1>12, HeardStays DEF NetIInv
<1>18. budget.reboot = 0 => Homeward'
  <2>1. \A k \in {a} : TracesBack(k)'
    BY <1>9, Zenon DEF TracesBack
  <2> QED
    BY <1>8, <1>10, <1>13, <2>1, HomewardStays, Zenon DEF NetIInv
<1> QED
  BY <1>6, <1>10, <1>13, <1>14, <1>15, <1>16, <1>17, <1>18, Zenon DEF NetIInv

-----------------------------------------------------------------------------
(* The relayed frame names the node that relays it.                        *)
LEMMA RelayedFrame ==
    ASSUME NEW f \in DataFrame, NEW n \in Node
    PROVE  /\ Relayed(n, f) \in DataFrame
           /\ Relayed(n, f).type = "data" /\ Relayed(n, f).prev = n
           /\ Relayed(n, f).src = f.src /\ Relayed(n, f).limit = f.limit - 1
<1>1. f.limit - 1 \in Int
  BY DEF DataFrame
<1>2. PICK g : g = [f EXCEPT !.prev = n]
  BY Zenon
<1>3. g \in DataFrame /\ g.prev = n /\ g.src = f.src /\ g.limit = f.limit
  BY <1>2, Zenon DEF DataFrame
<1>4. Relayed(n, f) = [g EXCEPT !.limit = f.limit - 1]
  BY <1>2, Zenon DEF Relayed
<1> QED
  BY <1>1, <1>3, <1>4, Zenon DEF DataFrame

(* What handling a DATA frame leaves: the node knows a way to its source   *)
(* that is no longer than the frame's path.                                *)
LEMMA ReverseLearned ==
    ASSUME NetIInv, NEW n \in Node, NEW f \in DataFrame, route' = LearnReverse(n, f),
           f.prev \in Nbrs(n), budget.reboot = 0 => TracesBack(f)
    PROVE  /\ route' \in [Node -> [Node -> Entry]]
           /\ OthersByBreadcrumb'
           /\ \A m \in Node : route'[m][Target].source = "discovered"
                               => route[m][Target].source = "discovered"
           /\ budget.reboot = 0 => WaysImprove
           /\ n = f.src \/ Firm(n, f.src, ROUTE_HOP_LIMIT_MAX - f.limit + 1)'
<1>1. PICK s \in Origin, p \in Node, l \in Int : s = f.src /\ p = f.prev /\ l = f.limit
  BY Zenon DEF DataFrame
<1>2. s \in Node /\ s # Target /\ ROUTE_HOP_LIMIT_MAX - l + 1 \in Int /\ ROUTE_HOP_LIMIT_MAX - l \in Int
  BY NetAssumption
<1>3. p # n /\ p \in Nbrs(n)
  <2>1. \A x : {x, x} = {x}
    BY Zenon
  <2> QED
    BY <1>1, <2>1, NetAssumption, Zenon DEF Nbrs
<1>4. CASE s = n
  <2>1. route' = route
    BY <1>1, <1>4, Zenon DEF LearnReverse
  <2> QED
    <3>1. route' \in [Node -> [Node -> Entry]] /\ OthersByBreadcrumb'
      <4>1. route \in [Node -> [Node -> Entry]] /\ OthersByBreadcrumb
        BY Zenon DEF NetIInv, NetTypeOK
      <4> QED
        BY <2>1, <4>1, SMTT(30) DEF OthersByBreadcrumb
    <3>2. WaysImprove
      BY <2>1, Zenon DEF WaysImprove
    <3> QED
      BY <1>1, <1>4, <2>1, <3>1, <3>2, Zenon
<1>5. CASE s # n
  <2>1. PICK e \in Entry : /\ e = RouteVia(p, ROUTE_HOP_LIMIT_MAX - l + 1, 1, "breadcrumb")
                          /\ e.next = p /\ e.hops = ROUTE_HOP_LIMIT_MAX - l + 1 /\ e.cost = 1
                          /\ e.source = "breadcrumb" /\ e.state = "active"
    BY <1>2, RouteViaType
  <2>2. route' = Install(n, s, e)
    BY <1>1, <1>3, <1>5, <2>1, Zenon DEF LearnReverse
  <2>3. /\ route' \in [Node -> [Node -> Entry]]
        /\ OthersByBreadcrumb'
        /\ \A m \in Node : route'[m][Target].source = "discovered"
                            => route[m][Target].source = "discovered"
        /\ (s \in Origin => e.next = s \/ Firm(e.next, s, e.hops - 1)) => WaysImprove
    <3>1. e.cost # 0
      BY <2>1
    <3>2. e.next \in Nbrs(n)
      BY <1>3, <2>1, Zenon
    <3> QED
      BY <1>2, <2>1, <2>2, <3>1, <3>2, BreadcrumbInstalled, Zenon
  <2>4. budget.reboot = 0 => p = s \/ Firm(p, s, ROUTE_HOP_LIMIT_MAX - l)
    BY <1>1, Zenon DEF TracesBack, DataFrame
  <2>5. e.hops - 1 = ROUTE_HOP_LIMIT_MAX - l
    BY <1>2, <2>1, NetAssumption
  <2>6. budget.reboot = 0 => WaysImprove
    BY <2>1, <2>3, <2>4, <2>5, Zenon
  <2>7. IF Replaces(route[n][s], e) THEN route'[n][s] = e ELSE route'[n][s] = route[n][s]
    BY <1>2, <2>2, InstallEffect, Zenon DEF NetIInv
  <2>8. Firm(n, s, ROUTE_HOP_LIMIT_MAX - l + 1)'
    <3>1. CASE Replaces(route[n][s], e)
      BY <1>2, <2>1, <2>7, <3>1 DEF Firm
    <3>2. CASE ~Replaces(route[n][s], e)
      <4>1. route[n][s].state = "active" /\ route[n][s].source = "breadcrumb" /\ route[n][s].cost # 0
        BY <1>2, <3>2, Zenon DEF NetIInv, OthersByBreadcrumb, Replaces
      <4>2. route[n][s].cost \in Nat /\ route[n][s].hops \in Int
        <5>1. route[n][s] \in Entry
          BY <1>2, SMTT(30) DEF NetIInv, NetTypeOK
        <5> QED
          BY <5>1, Zenon DEF Entry
      <4>3. ~(e.cost < route[n][s].cost) /\ ~(e.cost = route[n][s].cost /\ e.hops < route[n][s].hops)
        BY <2>1, <3>2, <4>1, Zenon DEF Replaces
      <4>4. route[n][s].cost = 1 /\ route[n][s].hops <= ROUTE_HOP_LIMIT_MAX - l + 1
        <5>1. PICK c \in Nat, h \in Int, b \in Int :
                 c = route[n][s].cost /\ h = route[n][s].hops /\ b = ROUTE_HOP_LIMIT_MAX - l + 1
          BY <1>2, <4>2, Zenon
        <5>2. c # 0 /\ ~(1 < c) /\ ~(1 = c /\ b < h)
          BY <2>1, <4>1, <4>3, <5>1, Zenon
        <5>3. c = 1 /\ h <= b
          BY <5>2, LowestCost, Zenon
        <5> QED
          BY <5>1, <5>3, Zenon
      <4> QED
        BY <2>7, <3>2, <4>1, <4>4, Zenon DEF Firm
    <3> QED
      BY <3>1, <3>2, Zenon
  <2> QED
    BY <1>1, <2>3, <2>6, <2>8, Zenon
<1> QED
  BY <1>4, <1>5, Zenon

(* The DATA case: a relayed frame traces back to its originator.           *)
LEMMA HandleDataIInv ==
    ASSUME NetIInv, NEW n \in Node, HandleData(n)
    PROVE  NetIInv'
<1>1. PICK f \in DataFrame : f = Frame(n) /\ f = inbox[n][1] /\ 1 \in DOMAIN inbox[n]
  BY HeadFrame, Zenon DEF HandleData, Receives, NetIInv
<1>2. f.type = "data" /\ f.pid \in Data /\ f.limit \in Int /\ inbox[n] # <<>> /\ FirstCopy(n)
  BY <1>1, Zenon DEF HandleData, Receives, DataFrame
<1>3. f.prev \in Nbrs(n)
  BY <1>1, <1>2, Zenon DEF NetIInv, HeardFromNeighbours, FromNeighbour
<1>4. budget.reboot = 0 => TracesBack(f)
  BY <1>1, Zenon DEF NetIInv, Homeward
<1>5. PICK g \in DataFrame : /\ g = Relayed(n, f) /\ g.type = "data" /\ g.prev = n
                            /\ g.src = f.src /\ g.limit = f.limit - 1
  BY RelayedFrame, Zenon
<1>6. PICK r \in RerrFrame : r = [type |-> "rerr", via |-> n]
  BY Zenon DEF RerrFrame
<1>7. g \in NetFrame /\ r \in NetFrame /\ r.type = "rerr"
  BY SMTT(30) DEF NetFrame, RerrFrame
<1>8. /\ route' = LearnReverse(n, f)
      /\ HandleSilently(n) \/ HandleAndSend(n, r) \/ HandleAndSend(n, g)
      /\ sent' = sent \/ sent' = [sent EXCEPT ![f.pid][n] = @ + 1]
      /\ UNCHANGED <<rev, pend, later, seq, taken, msg, budget, asked>>
  BY <1>1, <1>5, <1>6, Zenon DEF HandleData
<1>9. NewFrames(n, {g, r})
  <2>1. CASE HandleSilently(n)
    BY <1>2, <2>1, SilentFrames, Zenon DEF NetIInv, NewFrames
  <2>2. CASE HandleAndSend(n, r)
    BY <1>2, <1>7, <2>2, AnswerFrames, SMTT(30) DEF NetIInv, NewFrames
  <2>3. CASE HandleAndSend(n, g)
    BY <1>2, <1>7, <2>3, AnswerFrames DEF NetIInv, NewFrames
  <2> QED
    BY <1>8, <2>1, <2>2, <2>3, Zenon
<1>10. /\ route' \in [Node -> [Node -> Entry]]
       /\ OthersByBreadcrumb'
       /\ \A m \in Node : route'[m][Target].source = "discovered"
                           => route[m][Target].source = "discovered"
       /\ budget.reboot = 0 => WaysImprove
       /\ n = f.src \/ Firm(n, f.src, ROUTE_HOP_LIMIT_MAX - f.limit + 1)'
  BY <1>3, <1>4, <1>8, ReverseLearned, Zenon
<1>11. /\ seen' \in [Node -> SUBSET ({"rreq", "rrep", "data"} \X Nat)]
       /\ \A m \in Node : seen[m] \subseteq seen'[m]
       /\ <<"data", f.pid>> \notin seen[n] /\ <<"data", f.pid>> \in seen'[n]
  BY <1>1, <1>2, FilterType, Zenon DEF NetIInv, Key
<1>12. sent' \in [Data -> [Node -> Nat]]
  <2>1. sent \in [Data -> [Node -> Nat]]
    BY SMTT(30) DEF NetIInv, NetTypeOK
  <2>2. PICK i \in Data : i = f.pid
    BY <1>2, Zenon
  <2>3. CASE sent' = [sent EXCEPT ![i][n] = sent[i][n] + 1]
    <3>1. sent[i][n] + 1 \in Nat
      BY <2>1
    <3> QED
      BY <2>1, <2>3, <3>1, Zenon
  <2> QED
    BY <1>8, <2>1, <2>2, <2>3, Zenon
<1>13. NetTypeOK'
  BY <1>8, <1>9, <1>10, <1>11, <1>12, Zenon DEF NetIInv, NetTypeOK, NewFrames
<1>14. OnlyAskersWait' /\ OnlyParticipantsLearn'
  BY <1>8, <1>10, Zenon DEF NetIInv, OnlyAskersWait, OnlyParticipantsLearn
<1>15. SentAccounted'
  <2>1. CASE sent' = sent
    BY <1>8, <1>11, <1>13, <2>1, BudgetType, SentStays DEF NetIInv
  <2>2. CASE sent' = [sent EXCEPT ![f.pid][n] = @ + 1]
    <3> SUFFICES ASSUME NEW j \in Data, NEW m \in Node
                 PROVE  sent'[j][m] <= budget.reboot
                            + (IF <<"data", j>> \in seen'[m] THEN 1 ELSE 0)
                            + (IF m \in Origin /\ j <= budget.data THEN 1 ELSE 0)
      BY <1>8, Zenon DEF SentAccounted
    <3>1. sent[j][m] <= budget.reboot + (IF <<"data", j>> \in seen[m] THEN 1 ELSE 0)
                                      + (IF m \in Origin /\ j <= budget.data THEN 1 ELSE 0)
      BY Zenon DEF NetIInv, SentAccounted
    <3>2. sent \in [Data -> [Node -> Nat]] /\ sent[j][m] \in Nat /\ budget.reboot \in Nat
      BY BudgetType DEF NetIInv, NetTypeOK
    <3>3. CASE j = f.pid /\ m = n
      <4>1. sent'[j][m] = sent[j][m] + 1
        BY <1>2, <2>2, <3>2, <3>3, Zenon
      <4>2. <<"data", j>> \notin seen[m] /\ <<"data", j>> \in seen'[m]
        BY <1>11, <3>3, Zenon
      <4> QED
        BY <3>1, <3>2, <4>1, <4>2
    <3>4. CASE ~(j = f.pid /\ m = n)
      <4>1. sent'[j][m] = sent[j][m]
        BY <1>2, <2>2, <3>2, <3>4, Zenon
      <4>2. <<"data", j>> \in seen[m] => <<"data", j>> \in seen'[m]
        BY <1>11, Zenon
      <4> QED
        BY <3>1, <3>2, <4>1, <4>2
    <3> QED
      BY <3>3, <3>4, Zenon
  <2> QED
    BY <1>8, <2>1, <2>2, Zenon
<1>16. HeardFromNeighbours'
  <2>1. \A k \in {g, r} : k.type \in {"rreq", "data"} => k.prev = n
    BY <1>5, <1>7, Zenon
  <2>2. \A m \in Node : \A k \in later'[m] : k.prev = m
    BY <1>8, Zenon DEF NetIInv, HeardFromNeighbours
  <2> QED
    BY <1>9, <2>1, <2>2, HeardStays DEF NetIInv
<1>17. budget.reboot = 0 => Homeward'
  <2>1. TracesBack(r)'
    BY <1>7, Zenon DEF TracesBack
  <2>2. TracesBack(g)'
    <3>1. ROUTE_HOP_LIMIT_MAX - g.limit = ROUTE_HOP_LIMIT_MAX - f.limit + 1
      BY <1>2, <1>5, NetAssumption
    <3> QED
      BY <1>5, <1>10, <3>1, Zenon DEF TracesBack
  <2>3. \A k \in {g, r} : TracesBack(k)'
    BY <2>1, <2>2, Zenon
  <2> QED
    BY <1>9, <1>10, <1>13, <2>3, HomewardStays, Zenon DEF NetIInv
<1> QED
  BY <1>8, <1>10, <1>13, <1>14, <1>15, <1>16, <1>17, Zenon DEF NetIInv

-----------------------------------------------------------------------------
(* Nothing is on the air when the network starts.                          *)
LEMMA NetInitIInv == NetInit => NetIInv
<1> SUFFICES ASSUME NetInit PROVE NetIInv
  BY Zenon
<1>1. NoRoute \in Entry /\ NoRoute.source = "none" /\ NoRoute.state = "none"
  BY DEF NoRoute, Entry
<1>2. \A n \in Node : RouteVia(n, 1, 1, "discovered") \in Entry
  BY RouteViaType
<1>3. /\ \A n \in Node, d \in Node : route[n][d] = NoRoute \/ (n \in asked /\ d = Target)
      /\ route \in [Node -> [Node -> Entry]]
      /\ asked \subseteq Node
  BY <1>1, <1>2, NetAssumption, Zenon DEF NetInit
<1>4. \A n \in Node : inbox[n] = <<>> /\ DOMAIN inbox[n] = {} /\ later[n] = {} /\ pend[n] = {}
  BY DEF NetInit
<1>5. NetTypeOK
  BY <1>3, NetAssumption DEF NetInit, NetTypeOK
<1>6. OnlyAskersWait /\ OnlyParticipantsLearn /\ OthersByBreadcrumb
  BY <1>1, <1>3, <1>4, NetAssumption, Zenon DEF OnlyAskersWait, OnlyParticipantsLearn, OthersByBreadcrumb
<1>7. SentAccounted
  BY NetAssumption, SMTT(30) DEF NetInit, SentAccounted, Data
<1>8. HeardFromNeighbours
  BY <1>4, Zenon DEF HeardFromNeighbours
<1>9. Homeward
  BY <1>1, <1>3, <1>4, NetAssumption, Zenon DEF Homeward, LeadsHome
<1> QED
  BY <1>5, <1>6, <1>7, <1>8, <1>9, Zenon DEF NetIInv

(* Every step keeps the invariant.                                         *)
LEMMA NetNextIInv == NetIInv /\ [NetNext]_netVars => NetIInv'
<1> SUFFICES ASSUME NetIInv, [NetNext]_netVars PROVE NetIInv'
  BY Zenon
<1>1. CASE NetNext
  <2>1. PICK n \in Node :
            \/ Handle(n) \/ ForwardRreq(n) \/ StartDiscovery(n) \/ SendData(n) \/ Reboot(n) \/ AgeRoute(n)
    BY <1>1, Zenon DEF NetNext
  <2>2. CASE Handle(n)
    BY <2>2, DropDuplicateIInv, HandleRreqIInv, HandleRrepIInv, HandleDataIInv, HandleRerrIInv
    DEF Handle
  <2> QED
    BY <2>1, <2>2, ForwardRreqIInv, StartDiscoveryIInv, SendDataIInv, RebootIInv, AgeRouteIInv, Zenon
<1>2. CASE UNCHANGED netVars
  <2>1. UNCHANGED <<route, rev, pend, seen, later, inbox, seq, budget, asked, sent>>
    BY <1>2, Zenon DEF netVars
  <2>2. NetTypeOK'
    BY <2>1, Zenon DEF NetIInv, NetTypeOK
  <2>3. OnlyAskersWait' /\ OnlyParticipantsLearn' /\ OthersByBreadcrumb' /\ SentAccounted'
    BY <2>1, Zenon DEF NetIInv, OnlyAskersWait, OnlyParticipantsLearn, OthersByBreadcrumb, SentAccounted
  <2>4. HeardFromNeighbours'
    BY <2>1, Zenon DEF NetIInv, HeardFromNeighbours
  <2>5. NewFrames(Target, {}) /\ WaysImprove /\ Target \in Node
    BY <2>1, NetAssumption, Zenon DEF NetIInv, NetTypeOK, NewFrames, WaysImprove
  <2>6. budget.reboot = 0 => Homeward'
    BY <2>2, <2>5, HomewardStays DEF NetIInv
  <2> QED
    BY <2>1, <2>2, <2>3, <2>4, <2>6, Zenon DEF NetIInv
<1> QED
  BY <1>1, <1>2, Zenon

(* In every reachable state the inductive invariant holds.                 *)
THEOREM NetAlwaysIInv == NetSpec => []NetIInv
  BY NetInitIInv, NetNextIInv, PTL DEF NetSpec

(* The hop count of a routing table entry.                                 *)
LEMMA HopsType == ASSUME NEW e \in Entry PROVE e.hops \in Int
  BY Zenon DEF Entry

(* rrep_rx_decide: whatever the topology and the order of frames, a node   *)
(* holds a discovered route only if it asked or relayed a query.           *)
THEOREM OnlyParticipantsLearnTheorem == NetSpec => []OnlyParticipantsLearn
<1>1. NetIInv => OnlyParticipantsLearn
  BY Zenon DEF NetIInv
<1> QED
  BY <1>1, NetAlwaysIInv, PTL

(* data_rx_decide and the prev_hop rewrite of forward_data_packet: until a *)
(* node restarts, breadcrumbs lead to the originator over radio neighbours *)
(* and each next hop is nearer, whatever the topology.                     *)
THEOREM WayHomeTheorem == NetSpec => []WayHome
<1>1. ASSUME NetIInv PROVE WayHome
  <2> SUFFICES ASSUME NEW n \in Node, NEW s \in Origin, budget.reboot = 0,
                      route[n][s].source = "breadcrumb"
               PROVE  /\ route[n][s].next \in Nbrs(n)
                      /\ \/ route[n][s].next = s
                         \/ /\ route[route[n][s].next][s].state = "active"
                            /\ route[route[n][s].next][s].hops < route[n][s].hops
    BY Zenon DEF WayHome
  <2>1. PICK y : y = route[n][s].next
    BY Zenon
  <2>2. y \in Nbrs(n) /\ (y = s \/ Firm(y, s, route[n][s].hops - 1))
    BY <1>1, <2>1, Zenon DEF NetIInv, Homeward, LeadsHome
  <2>3. s \in Node /\ y \in Node
    BY <2>2, NetAssumption, Zenon DEF Nbrs
  <2>4. route[n][s] \in Entry /\ route[y][s] \in Entry
    BY <1>1, <2>3, SMTT(30) DEF NetIInv, NetTypeOK
  <2>5. route[n][s].hops \in Int /\ route[y][s].hops \in Int
    BY <2>4, HopsType, Zenon
  <2>6. y = s \/ (route[y][s].state = "active" /\ route[y][s].hops < route[n][s].hops)
    BY <2>2, <2>5, SMTT(30) DEF Firm
  <2> QED
    BY <2>1, <2>2, <2>6, Zenon
<1> QED
  BY <1>1, NetAlwaysIInv, PTL

(* The dispatch duplicate filter and forward_data_packet: a node sends a   *)
(* message once, once more for each restart in the network and, at the     *)
(* originator, once more for the echo of its own frame.                    *)
THEOREM DataRelayedOnceTheorem == NetSpec => []DataRelayedOnce
<1>1. ASSUME NetIInv PROVE DataRelayedOnce
  <2> SUFFICES ASSUME NEW i \in Data, NEW n \in Node
               PROVE  sent[i][n] <= 1 + budget.reboot + (IF n \in Origin THEN 1 ELSE 0)
    BY Zenon DEF DataRelayedOnce
  <2>1. sent[i][n] <= budget.reboot + (IF <<"data", i>> \in seen[n] THEN 1 ELSE 0)
                                    + (IF n \in Origin /\ i <= budget.data THEN 1 ELSE 0)
    BY <1>1, Zenon DEF NetIInv, SentAccounted
  <2>2. sent[i][n] \in Nat /\ budget.reboot \in Nat
    BY <1>1, BudgetType DEF NetIInv, NetTypeOK
  <2> QED
    BY <2>1, <2>2, SMTT(30)
<1> QED
  BY <1>1, NetAlwaysIInv, PTL
=============================================================================
