----------------------------- MODULE RouteTable -----------------------------
(***************************************************************************)
(* One node's routing table: components/routing/routing.c and the table    *)
(* operations of forwarding.c.  The array of entries is a function from    *)
(* destinations (route_install searches the array for the destination      *)
(* before it takes a slot).  Timestamps are kept relative to now_ms, as    *)
(* the ages the code computes from them: age is now - last_confirmed and   *)
(* idle is now - last_used, both saturating at the hard timeout.           *)
(***************************************************************************)
EXTENDS Naturals, FiniteSets

CONSTANTS
    Dest,               \* destination addresses
    Hop,                \* next-hop addresses
    MaxMetric,          \* metrics are 0..MaxMetric, higher is better
    MaxHops,            \* hop counts are 0..MaxHops
    MAX_ROUTES,         \* slots of the table
    ACTIVE_TIMEOUT,     \* ROUTE_ACTIVE_TIMEOUT_MS
    STALE_TIMEOUT,      \* ROUTE_STALE_TIMEOUT_MS
    HARD_TIMEOUT,       \* ROUTE_HARD_TIMEOUT_MS
    NoRoute             \* no entry

VARIABLE table

EntryAge == 0..HARD_TIMEOUT

Entry == [hop : Hop, hops : 0..MaxHops, metric : 0..MaxMetric,
          state : {"active", "stale", "broken"},
          source : {"discovered", "breadcrumb"},
          idle : EntryAge, age : EntryAge]

ASSUME RouteSizeAssumption ==
    /\ IsFiniteSet(Dest)
    /\ MAX_ROUTES \in Nat \ {0}
    /\ MaxMetric \in Nat
    /\ MaxHops \in Nat
    /\ NoRoute \notin Entry

ASSUME RouteTimeAssumption ==
    /\ ACTIVE_TIMEOUT \in Nat \ {0}
    /\ STALE_TIMEOUT \in Nat
    /\ HARD_TIMEOUT \in Nat
    /\ ACTIVE_TIMEOUT < STALE_TIMEOUT
    /\ STALE_TIMEOUT < HARD_TIMEOUT

Held == {d \in Dest : table[d] # NoRoute}

HeldOf(source) == {d \in Held : table[d].source = source}

HeldIn(S, state) == {d \in S : table[d].state = state}

(* A new or rewritten entry: confirmed and used now.                       *)
NewEntry(h, n, m, source) ==
    [hop |-> h, hops |-> n, metric |-> m, state |-> "active",
     source |-> source, idle |-> 0, age |-> 0]

(* Mutant of Replaces: arbitrates on the metric before the trust class.    *)
ReplacesByMetric(e, new) ==
    \/ e.state \in {"broken", "stale"}
    \/ new.metric > e.metric
    \/ new.metric = e.metric /\ new.hops < e.hops

(* Which of two routes to one destination stays: the trust class decides,  *)
(* and within a class the metric and then the hop count.                   *)
Replaces(e, new) ==
    IF new.source # e.source
    THEN new.source = "discovered"
    ELSE \/ e.state \in {"broken", "stale"}
         \/ new.metric > e.metric
         \/ new.metric = e.metric /\ new.hops < e.hops

(* Broken first, then stale, then least recently used.  Where the code     *)
(* takes the lowest index among several candidates, any of them.           *)
PickFrom(S) ==
    IF HeldIn(S, "broken") # {} THEN HeldIn(S, "broken")
    ELSE IF HeldIn(S, "stale") # {} THEN HeldIn(S, "stale")
    ELSE {d \in S : \A c \in S : table[c].idle <= table[d].idle}

(* Mutant of Victims: evicts by state and age only.                        *)
VictimsAnyClass(source) == PickFrom(Held)

(* The entries a full table may give up for a new route of this class.     *)
Victims(source) ==
    IF HeldOf("breadcrumb") # {} THEN PickFrom(HeldOf("breadcrumb"))
    ELSE IF source = "breadcrumb" THEN {}
    ELSE PickFrom(Held)

-----------------------------------------------------------------------------
RouteInit == table = [d \in Dest |-> NoRoute]

(* route_install for a destination that has an entry.                      *)
InstallOver(d, new) ==
    /\ table[d] # NoRoute
    /\ table' = IF Replaces(table[d], new) THEN [table EXCEPT ![d] = new] ELSE table

(* route_install into a free slot.                                         *)
InstallFree(d, new) ==
    /\ table[d] = NoRoute
    /\ Cardinality(Held) < MAX_ROUTES
    /\ table' = [table EXCEPT ![d] = new]

(* route_install into a full table: a victim makes room, or the breadcrumb *)
(* is refused.                                                             *)
InstallEvict(d, new) ==
    /\ table[d] = NoRoute
    /\ Cardinality(Held) >= MAX_ROUTES
    /\ \/ \E v \in Victims(new.source) :
              table' = [table EXCEPT ![v] = NoRoute, ![d] = new]
       \/ Victims(new.source) = {} /\ UNCHANGED table

route_install(d, h, n, m, source) ==
    LET new == NewEntry(h, n, m, source) IN
    InstallOver(d, new) \/ InstallFree(d, new) \/ InstallEvict(d, new)

(* An RREP that this node solicited or relayed installs a discovered route.*)
Discover ==
    \E d \in Dest, h \in Hop, n \in 0..MaxHops, m \in 0..MaxMetric :
        route_install(d, h, n, m, "discovered")

(* Unicast DATA from d, or a RREQ whose previous hop is d, leaves a        *)
(* breadcrumb.                                                             *)
LearnBreadcrumb ==
    \E d \in Dest, h \in Hop, n \in 0..MaxHops, m \in 0..MaxMetric :
        route_install(d, h, n, m, "breadcrumb")

(* forward_data uses a route: a stale one becomes active and counts as     *)
(* confirmed.                                                              *)
Forwarded(e) ==
    IF e.state = "stale" THEN [e EXCEPT !.state = "active", !.age = 0, !.idle = 0]
    ELSE [e EXCEPT !.idle = 0]

(* Mutant of ForwardData: use revives a broken route like a stale one.     *)
ForwardDataRevives(d) ==
    /\ table[d] # NoRoute
    /\ table' = [table EXCEPT ![d] = [@ EXCEPT !.state = "active", !.idle = 0]]

ForwardData(d) ==
    /\ table[d] # NoRoute
    /\ table[d].state # "broken"
    /\ table' = [table EXCEPT ![d] = Forwarded(@)]

(* rerr_handle: only a route through the reported hop breaks.              *)
RerrHandle(d, h) ==
    /\ table[d] # NoRoute
    /\ table[d].hop = h
    /\ table' = [table EXCEPT ![d].state = "broken"]

(* What one sweep of route_maintenance makes of an entry.                  *)
Maintained(e) ==
    IF e.age >= HARD_TIMEOUT \/ (e.state = "stale" /\ e.age >= STALE_TIMEOUT)
    THEN NoRoute
    ELSE IF e.state = "active" /\ e.age >= ACTIVE_TIMEOUT
         THEN [e EXCEPT !.state = "stale"]
         ELSE e

Maintenance ==
    table' = [d \in Dest |-> IF table[d] = NoRoute THEN NoRoute ELSE Maintained(table[d])]

Older(t) == IF t < HARD_TIMEOUT THEN t + 1 ELSE t

(* Time passes for every entry.                                            *)
RouteTick ==
    table' = [d \in Dest |->
                IF table[d] = NoRoute THEN NoRoute
                ELSE [table[d] EXCEPT !.age = Older(@), !.idle = Older(@)]]

RouteNext ==
    \/ Discover
    \/ LearnBreadcrumb
    \/ \E d \in Dest : ForwardData(d)
    \/ \E d \in Dest, h \in Hop : RerrHandle(d, h)
    \/ Maintenance
    \/ RouteTick

RouteSpec == RouteInit /\ [][RouteNext]_table

-----------------------------------------------------------------------------
RouteTypeOK == table \in [Dest -> Entry \union {NoRoute}]

(* The table never holds more entries than the array has slots.            *)
TableBounded == Cardinality(Held) <= MAX_ROUTES

Discovered(e) == e # NoRoute /\ e.source = "discovered"

Breadcrumb(e) == e # NoRoute /\ e.source = "breadcrumb"

(* A step that learns or refreshes a breadcrumb leaves every discovered    *)
(* route as it is, whatever its state and however full the table: no       *)
(* unauthenticated hint displaces, evicts or repairs an authenticated      *)
(* route.                                                                  *)
TrustStep ==
    (\E c \in Dest : /\ Breadcrumb(table'[c])
                     /\ table'[c].age = 0
                     /\ table'[c] # table[c])
        => \A d \in Dest : Discovered(table[d]) => table'[d] = table[d]

TrustDominates == [][TrustStep]_table

(* A discovered route makes room for another destination only when the     *)
(* table holds no breadcrumb.                                              *)
EvictStep ==
    \A c, d \in Dest :
        /\ table[c] = NoRoute
        /\ table'[c] # NoRoute
        /\ Discovered(table[d])
        /\ table'[d] = NoRoute
        => HeldOf("breadcrumb") = {}

BreadcrumbsGoFirst == [][EvictStep]_table

(* A broken route carries traffic again only after a new route of its own  *)
(* class or a discovered one: neither use nor maintenance revives it.      *)
RepairStep ==
    \A d \in Dest :
        /\ table[d] # NoRoute
        /\ table[d].state = "broken"
        /\ table'[d] # NoRoute
        /\ table'[d].state # "broken"
        => /\ table'[d].age = 0
           /\ table'[d].source \in {table[d].source, "discovered"}
           /\ \E h \in Hop, n \in 0..MaxHops, m \in 0..MaxMetric :
                  table'[d] = NewEntry(h, n, m, table'[d].source)

BrokenStaysBroken == [][RepairStep]_table
=============================================================================
