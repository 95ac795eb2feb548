----------------------------- MODULE Discovery ------------------------------
(***************************************************************************)
(* Route discovery at its originator: the pending-discovery table of       *)
(* components/routing/discovery.c, the messages queued for a route, the    *)
(* per-destination rate limit and the retry tick of the mesh task.         *)
(*                                                                         *)
(* Intervals (5 s and 15 s between attempts, 30 s rate limit, 60 s queue   *)
(* TTL) are abstract: what is due may happen at any moment.  An answer to  *)
(* a query may come late, after later attempts, or never.                  *)
(***************************************************************************)
EXTENDS Naturals, FiniteSets, Functions

CONSTANTS
    Dest,
    MAX_PENDING_DISCOVERIES,
    MAX_RREQ_ATTEMPTS,
    MAX_QUEUED_MSGS,
    MaxQuery                \* bound on the query ids drawn

VARIABLES
    pd,         \* pending discovery of each destination: its query ids
    queued,     \* messages waiting for a route, per destination
    route,      \* destinations with a usable route
    cooling,    \* destinations within the RREQ rate limit
    asked,      \* RREQs on the air that may still be answered
    echoed,     \* own queries heard back from a relay (reverse routes)
    nextQuery

discVars == <<pd, queued, route, cooling, asked, echoed, nextQuery>>

Query == 1..MaxQuery

(* An entry is the set of the query ids of its attempts, so attempts is    *)
(* its size; no entry is the empty set.                                    *)
Pending == {d \in Dest : pd[d] # {}}

QueueFull == SumFunction(queued) >= MAX_QUEUED_MSGS

DiscInit ==
    /\ pd = [d \in Dest |-> {}]
    /\ queued = [d \in Dest |-> 0]
    /\ route = {}
    /\ cooling = {}
    /\ asked = {}
    /\ echoed = {}
    /\ nextQuery = 1

(* rreq_build_originator and send_rreq under a fresh query id.             *)
SendRreq(d) ==
    /\ nextQuery \in Query
    /\ asked' = asked \union {[query |-> nextQuery, dest |-> d]}
    /\ nextQuery' = nextQuery + 1

(* initiate_discovery past the rate limit.  The result of discovery_start  *)
(* is ignored: with a full table the RREQ goes out unrecorded.             *)
initiate_discovery(d) ==
    /\ SendRreq(d)
    /\ cooling' = cooling \union {d}
    /\ pd' = IF Cardinality(Pending) < MAX_PENDING_DISCOVERIES
             THEN [pd EXCEPT ![d] = {nextQuery}]
             ELSE pd

(* queue_message; with a full queue the message fails instead.             *)
queue_message(d) ==
    queued' = IF QueueFull THEN queued ELSE [queued EXCEPT ![d] = @ + 1]

(* mesh_send_message to a destination without a route.                     *)
SendMessage(d) ==
    /\ d \notin route
    /\ queue_message(d)
    /\ \/ /\ pd[d] = {}
          /\ d \notin cooling
          /\ initiate_discovery(d)
       \/ /\ pd[d] # {} \/ d \in cooling
          /\ UNCHANGED <<pd, cooling, asked, nextQuery>>
    /\ UNCHANGED <<route, echoed>>

discovery_should_retry(d) ==
    /\ pd[d] # {}
    /\ Cardinality(pd[d]) < MAX_RREQ_ATTEMPTS

(* The retry tick of mesh_task for one entry that is due.                  *)
RetryTick(d) ==
    /\ discovery_should_retry(d)
    /\ IF Cardinality(pd[d]) >= MAX_RREQ_ATTEMPTS
       THEN /\ pd' = [pd EXCEPT ![d] = {}]
            /\ queued' = [queued EXCEPT ![d] = 0]
            /\ UNCHANGED <<asked, nextQuery>>
       ELSE /\ SendRreq(d)
            /\ pd' = [pd EXCEPT ![d] = @ \union {nextQuery}]
            /\ UNCHANGED queued
    /\ UNCHANGED <<route, cooling, echoed>>

(* A relay's rebroadcast of an own RREQ is not recognised as one: handle_  *)
(* rreq records a reverse route for it.                                    *)
HearOwnRreq(a) ==
    /\ a \in asked
    /\ echoed' = echoed \union {a.query}
    /\ UNCHANGED <<pd, queued, route, cooling, asked, nextQuery>>

(* The pending discovery one of whose attempts used this query id.         *)
discovery_lookup_by_query(q) == {d \in Pending : q \in pd[d]}

(* handle_rrep: the answer to one of this node's RREQs.                    *)
HandleRrep(a) ==
    /\ a \in asked
    /\ asked' = asked \ {a}
    /\ IF discovery_lookup_by_query(a.query) # {}
       THEN /\ route' = route \union {a.dest}
            /\ pd' = [d \in Dest |-> IF d \in discovery_lookup_by_query(a.query) THEN {} ELSE pd[d]]
            /\ queued' = [d \in Dest |->
                            IF d \in discovery_lookup_by_query(a.query) THEN 0 ELSE queued[d]]
       ELSE /\ route' = IF a.query \in echoed THEN route \union {a.dest} ELSE route
            /\ UNCHANGED <<pd, queued>>
    /\ UNCHANGED <<cooling, echoed, nextQuery>>

(* A RERR or maintenance takes a route away.                               *)
LoseRoute(d) ==
    /\ d \in route
    /\ route' = route \ {d}
    /\ UNCHANGED <<pd, queued, cooling, asked, echoed, nextQuery>>

(* The oldest message for d outlives its TTL and is retired as failed.     *)
ExpireQueued(d) ==
    /\ queued[d] > 0
    /\ queued' = [queued EXCEPT ![d] = @ - 1]
    /\ UNCHANGED <<pd, route, cooling, asked, echoed, nextQuery>>

(* The rate limit for d elapses.                                           *)
CoolDown(d) ==
    /\ d \in cooling
    /\ cooling' = cooling \ {d}
    /\ UNCHANGED <<pd, queued, route, asked, echoed, nextQuery>>

DiscNext ==
    \/ \E d \in Dest : \/ SendMessage(d)
                       \/ RetryTick(d)
                       \/ LoseRoute(d)
                       \/ ExpireQueued(d)
                       \/ CoolDown(d)
    \/ \E a \in asked : HearOwnRreq(a) \/ HandleRrep(a)

DiscSpec == DiscInit /\ [][DiscNext]_discVars

(* The mesh task's loop runs the tick and the queue expiry again and       *)
(* again, and time passes; users and the radio owe nothing.                *)
FairDiscSpec ==
    /\ DiscSpec
    /\ \A d \in Dest : /\ WF_discVars(RetryTick(d))
                       /\ WF_discVars(ExpireQueued(d))
                       /\ WF_discVars(CoolDown(d))

-----------------------------------------------------------------------------
(* mesh_task means to give a discovery up after its last attempt: a        *)
(* discovery does not stay pending for ever.                               *)
DiscoveryEnds == \A d \in Dest : (pd[d] # {}) ~> (pd[d] = {})
=============================================================================
