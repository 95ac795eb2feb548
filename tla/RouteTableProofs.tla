-------------------------- MODULE RouteTableProofs --------------------------
(***************************************************************************)
(* The routing table's guarantees for every set of destinations, every     *)
(* table size and all timeouts that are ordered as the firmware's are.     *)
(* Type correctness and the bound on the number of entries form the        *)
(* inductive invariant; the step properties follow from typing alone.      *)
(***************************************************************************)
EXTENDS RouteTable, FiniteSetTheorems, TLAPS

(* What route_install writes is an entry.                                  *)
LEMMA NewEntryType ==
    ASSUME NEW h \in Hop, NEW n \in 0..MaxHops, NEW m \in 0..MaxMetric,
           NEW source \in {"discovered", "breadcrumb"}
    PROVE  NewEntry(h, n, m, source) \in Entry
<1>1. 0 \in EntryAge
    BY RouteTimeAssumption DEF EntryAge
<1> QED
    BY <1>1, Zenon DEF NewEntry, Entry

(* A victim is an entry of the table, and a breadcrumb if there is one or  *)
(* if the new route is a breadcrumb.                                       *)
LEMMA VictimFacts ==
    ASSUME NEW source \in {"discovered", "breadcrumb"},
           NEW v \in Victims(source)
    PROVE  /\ v \in Held
           /\ source = "breadcrumb" => v \in HeldOf("breadcrumb")
           /\ HeldOf("breadcrumb") # {} => v \in HeldOf("breadcrumb")
<1>1. \A S : \A x \in PickFrom(S) : x \in S
    BY Zenon DEF PickFrom, HeldIn
<1>2. HeldOf("breadcrumb") \subseteq Held
    BY Zenon DEF HeldOf
<1> QED
    BY <1>1, <1>2, Zenon DEF Victims

(* Time and maintenance keep an entry an entry.                            *)
LEMMA AgedType ==
    ASSUME NEW e \in Entry
    PROVE  /\ [e EXCEPT !.age = Older(@), !.idle = Older(@)] \in Entry
           /\ Maintained(e) \in Entry \union {NoRoute}
           /\ Forwarded(e) \in Entry
           /\ [e EXCEPT !.state = "broken"] \in Entry
<1>1. \A t \in EntryAge : Older(t) \in EntryAge
    BY RouteTimeAssumption DEF EntryAge, Older
<1>2. 0 \in EntryAge
    BY RouteTimeAssumption DEF EntryAge
<1>3. e.age \in EntryAge /\ e.idle \in EntryAge
    BY Zenon DEF Entry
<1>4. [e EXCEPT !.age = Older(@), !.idle = Older(@)] \in Entry
    BY <1>1, <1>3, Zenon DEF Entry
<1>5. Maintained(e) \in Entry \union {NoRoute}
    BY Zenon DEF Entry, Maintained
<1>6. Forwarded(e) \in Entry
    BY <1>2, Zenon DEF Entry, Forwarded
<1>7. [e EXCEPT !.state = "broken"] \in Entry
    BY Zenon DEF Entry
<1> QED
    BY <1>4, <1>5, <1>6, <1>7, Zenon

-----------------------------------------------------------------------------
(* Every step keeps the table a table.                                     *)
LEMMA RouteTypeStep == RouteTypeOK /\ [RouteNext]_table => RouteTypeOK'
<1> SUFFICES ASSUME RouteTypeOK, [RouteNext]_table
             PROVE  RouteTypeOK'
    BY Zenon
<1> USE DEF RouteTypeOK
<1>1. ASSUME NEW d \in Dest, NEW h \in Hop, NEW n \in 0..MaxHops, NEW m \in 0..MaxMetric,
             NEW source \in {"discovered", "breadcrumb"}, route_install(d, h, n, m, source)
      PROVE  RouteTypeOK'
    <2> DEFINE new == NewEntry(h, n, m, source)
    <2>1. new \in Entry
        BY NewEntryType, Zenon
    <2> HIDE DEF new
    <2>2. CASE InstallOver(d, new)
        BY <2>1, <2>2, Zenon DEF InstallOver
    <2>3. CASE InstallFree(d, new)
        BY <2>1, <2>3, Zenon DEF InstallFree
    <2>4. CASE InstallEvict(d, new)
        BY <2>1, <2>4, Zenon DEF InstallEvict
    <2> QED
        BY <1>1, <2>2, <2>3, <2>4, Zenon DEF route_install, new
<1>2. CASE Discover
    BY <1>1, <1>2, Zenon DEF Discover
<1>3. CASE LearnBreadcrumb
    BY <1>1, <1>3, Zenon DEF LearnBreadcrumb
<1>4. ASSUME NEW d \in Dest, ForwardData(d) PROVE RouteTypeOK'
    BY <1>4, AgedType, Zenon DEF ForwardData
<1>5. ASSUME NEW d \in Dest, NEW h \in Hop, RerrHandle(d, h) PROVE RouteTypeOK'
    <2>1. table[d] \in Entry
        BY <1>5, Zenon DEF RerrHandle
    <2>2. [table[d] EXCEPT !.state = "broken"] \in Entry
        BY <2>1, AgedType, Zenon
    <2> QED
        BY <1>5, <2>2, Zenon DEF RerrHandle
<1>6. CASE Maintenance
    BY <1>6, AgedType, Zenon DEF Maintenance
<1>7. CASE RouteTick
    BY <1>7, AgedType, Zenon DEF RouteTick
<1>8. CASE UNCHANGED table
    BY <1>8, Zenon
<1> QED
    BY <1>2, <1>3, <1>4, <1>5, <1>6, <1>7, <1>8, Zenon DEF RouteNext

(* The table is always a table of entries.                                 *)
THEOREM RouteTypeTheorem == RouteSpec => []RouteTypeOK
<1>1. RouteInit => RouteTypeOK
    BY Zenon DEF RouteInit, RouteTypeOK
<1> QED
    BY <1>1, RouteTypeStep, PTL DEF RouteSpec

-----------------------------------------------------------------------------
(* The set of destinations with a route is finite.                         *)
LEMMA HeldFinite == IsFiniteSet(Held) /\ Cardinality(Held) \in Nat
<1>1. Held \subseteq Dest
    BY Zenon DEF Held
<1>2. IsFiniteSet(Held)
    BY <1>1, RouteSizeAssumption, FS_Subset, Zenon
<1> QED
    BY <1>2, FS_CardinalityType, Zenon

(* A step that adds no destination keeps the bound.                        *)
LEMMA FewerHeld ==
    ASSUME TableBounded, Held' \subseteq Held
    PROVE  TableBounded'
<1>1. Cardinality(Held') <= Cardinality(Held)
    BY HeldFinite, FS_Subset, Zenon
<1>2. IsFiniteSet(Held') /\ Cardinality(Held') \in Nat
    BY HeldFinite, FS_Subset, FS_CardinalityType, Zenon
<1> QED
    BY <1>1, <1>2, HeldFinite, RouteSizeAssumption DEF TableBounded

(* Every step keeps the bound: an install into a full table first gives up *)
(* an entry.                                                               *)
LEMMA TableBoundedStep ==
    RouteTypeOK /\ TableBounded /\ [RouteNext]_table => TableBounded'
<1> SUFFICES ASSUME RouteTypeOK, TableBounded, [RouteNext]_table
             PROVE  TableBounded'
    BY Zenon
<1>1. ASSUME NEW d \in Dest, NEW h \in Hop, NEW n \in 0..MaxHops, NEW m \in 0..MaxMetric,
             NEW source \in {"discovered", "breadcrumb"}, route_install(d, h, n, m, source)
      PROVE  TableBounded'
    <2> DEFINE new == NewEntry(h, n, m, source)
    <2>1. new \in Entry /\ new.source = source
        BY NewEntryType, Zenon DEF NewEntry
    <2> HIDE DEF new
    <2>2. CASE InstallOver(d, new)
        <3>1. Held' \subseteq Held
            BY <2>2, <2>1, Zenon DEF InstallOver, Held, RouteTypeOK
        <3> QED
            BY <3>1, FewerHeld, Zenon
    <2>3. CASE InstallFree(d, new)
        <3>1. Held' = Held \union {d} /\ d \notin Held
            BY <2>3, <2>1, RouteSizeAssumption, Zenon DEF InstallFree, Held, RouteTypeOK
        <3>2. Cardinality(Held') = Cardinality(Held) + 1
            BY <3>1, HeldFinite, FS_AddElement, Zenon
        <3>3. Cardinality(Held) < MAX_ROUTES
            BY <2>3, Zenon DEF InstallFree
        <3> QED
            BY <3>2, <3>3, HeldFinite, RouteSizeAssumption DEF TableBounded
    <2>4. CASE InstallEvict(d, new)
        <3>1. CASE UNCHANGED table
            <4>1. Held' = Held
                BY <3>1, Zenon DEF Held
            <4> QED
                BY <4>1, FewerHeld, Zenon
        <3>2. ASSUME NEW v \in Victims(new.source),
                     table' = [table EXCEPT ![v] = NoRoute, ![d] = new]
              PROVE  TableBounded'
            <4>1. v \in Held
                BY <2>1, VictimFacts, Zenon
            <4>2. d \notin Held /\ v # d
                BY <2>4, <4>1, Zenon DEF InstallEvict, Held
            <4>3. Held' = (Held \ {v}) \union {d}
                BY <3>2, <4>1, <4>2, <2>1, RouteSizeAssumption, Zenon DEF Held, RouteTypeOK
            <4>4. /\ IsFiniteSet(Held \ {v})
                  /\ Cardinality(Held \ {v}) = Cardinality(Held) - 1
                BY <4>1, HeldFinite, FS_RemoveElement, Zenon
            <4>5. Cardinality((Held \ {v}) \union {d}) = Cardinality(Held \ {v}) + 1
                BY <4>2, <4>4, FS_AddElement, Zenon
            <4>6. Cardinality(Held') = Cardinality(Held)
                BY <4>3, <4>4, <4>5, HeldFinite
            <4> QED
                BY <4>6, Zenon DEF TableBounded
        <3> QED
            BY <2>4, <3>1, <3>2, Zenon DEF InstallEvict
    <2> QED
        BY <1>1, <2>2, <2>3, <2>4, Zenon DEF route_install, new
<1>2. CASE Discover
    BY <1>1, <1>2, Zenon DEF Discover
<1>3. CASE LearnBreadcrumb
    BY <1>1, <1>3, Zenon DEF LearnBreadcrumb
<1>4. CASE (\E d \in Dest : ForwardData(d)) \/ (\E d \in Dest, h \in Hop : RerrHandle(d, h))
    <2>1. Held' \subseteq Held
        BY <1>4, Zenon DEF ForwardData, RerrHandle, Held, RouteTypeOK
    <2> QED
        BY <2>1, FewerHeld, Zenon
<1>5. CASE Maintenance \/ RouteTick \/ UNCHANGED table
    <2>1. Held' \subseteq Held
        BY <1>5, Zenon DEF Maintenance, RouteTick, Held
    <2> QED
        BY <2>1, FewerHeld, Zenon
<1> QED
    BY <1>2, <1>3, <1>4, <1>5, Zenon DEF RouteNext

(* The table never holds more entries than slots, however routes are       *)
(* installed, evicted, broken and expired.                                 *)
THEOREM TableBoundedTheorem == RouteSpec => []TableBounded
<1>1. RouteInit => RouteTypeOK /\ TableBounded
    <2> SUFFICES ASSUME RouteInit PROVE RouteTypeOK /\ TableBounded
        BY Zenon
    <2>1. Held = {}
        BY Zenon DEF RouteInit, Held
    <2>2. Cardinality(Held) = 0
        BY <2>1, FS_EmptySet, Zenon
    <2> QED
        BY <2>2, RouteSizeAssumption DEF RouteInit, RouteTypeOK, TableBounded
<1> QED
    BY <1>1, RouteTypeStep, TableBoundedStep, PTL DEF RouteSpec

-----------------------------------------------------------------------------
(* An install changes at most its own destination and the victim's entry.  *)
LEMMA InstallFrame ==
    ASSUME RouteTypeOK, NEW d \in Dest, NEW h \in Hop, NEW n \in 0..MaxHops,
           NEW m \in 0..MaxMetric, NEW source \in {"discovered", "breadcrumb"},
           route_install(d, h, n, m, source), NEW c \in Dest, table'[c] # table[c]
    PROVE  \/ /\ c = d
              /\ table'[c] = NewEntry(h, n, m, source)
              /\ table[c] # NoRoute => Replaces(table[c], NewEntry(h, n, m, source))
           \/ /\ c \in Victims(source)
              /\ table'[c] = NoRoute
              /\ table[d] = NoRoute
<1> DEFINE new == NewEntry(h, n, m, source)
<1>1. new \in Entry /\ new.source = source
    BY NewEntryType, Zenon DEF NewEntry
<1> HIDE DEF new
<1>2. CASE InstallOver(d, new)
    BY <1>2, Zenon DEF InstallOver, RouteTypeOK, new
<1>3. CASE InstallFree(d, new)
    BY <1>3, Zenon DEF InstallFree, RouteTypeOK, new
<1>4. CASE InstallEvict(d, new)
    BY <1>1, <1>4, Zenon DEF InstallEvict, RouteTypeOK, new
<1> QED
    BY <1>2, <1>3, <1>4, Zenon DEF route_install, new

(* Breadcrumbs never displace, evict or change a discovered route, whether *)
(* they collide with it or need its slot.                                  *)
THEOREM TrustDominatesTheorem == RouteSpec => TrustDominates
<1>1. ASSUME RouteTypeOK, RouteNext PROVE TrustStep
    <2> SUFFICES ASSUME NEW c \in Dest, Breadcrumb(table'[c]), table'[c].age = 0,
                        table'[c] # table[c],
                        NEW d \in Dest, Discovered(table[d]), table'[d] # table[d]
                 PROVE  FALSE
        BY Zenon DEF TrustStep
    <2>1. ASSUME NEW x \in Dest, NEW h \in Hop, NEW n \in 0..MaxHops, NEW m \in 0..MaxMetric,
                 NEW source \in {"discovered", "breadcrumb"}, route_install(x, h, n, m, source)
          PROVE  FALSE
        <3> DEFINE new == NewEntry(h, n, m, source)
        <3>1. new.source = source
            BY Zenon DEF NewEntry
        <3>2. c = x /\ table'[c] = new
            BY <1>1, <2>1, InstallFrame DEF Breadcrumb
        <3>3. source = "breadcrumb"
            BY <3>1, <3>2, Zenon DEF Breadcrumb
        <3>4. d \notin Victims(source)
            BY <3>3, VictimFacts, Zenon DEF HeldOf, Discovered
        <3>5. d = x /\ Replaces(table[d], new)
            BY <1>1, <2>1, <3>4, InstallFrame DEF Discovered
        <3> QED
            BY <3>1, <3>3, <3>5, Zenon DEF Replaces, Discovered
    <2>2. CASE Discover
        BY <2>1, <2>2, Zenon DEF Discover
    <2>3. CASE LearnBreadcrumb
        BY <2>1, <2>3, Zenon DEF LearnBreadcrumb
    <2>4. ASSUME NEW x \in Dest, ForwardData(x) PROVE FALSE
        <3>1. c = x /\ d = x
            BY <1>1, <2>4, Zenon DEF ForwardData, RouteTypeOK
        <3>2. table'[x] = Forwarded(table[x]) /\ table[x] \in Entry
            BY <1>1, <2>4, Zenon DEF ForwardData, RouteTypeOK
        <3> QED
            BY <3>1, <3>2, Zenon DEF Forwarded, Breadcrumb, Discovered, Entry
    <2>5. ASSUME NEW x \in Dest, NEW h \in Hop, RerrHandle(x, h) PROVE FALSE
        <3>1. c = x /\ d = x
            BY <1>1, <2>5, Zenon DEF RerrHandle, RouteTypeOK
        <3>2. table'[x] = [table[x] EXCEPT !.state = "broken"] /\ table[x] \in Entry
            BY <1>1, <2>5, Zenon DEF RerrHandle, RouteTypeOK
        <3> QED
            BY <3>1, <3>2, Zenon DEF Breadcrumb, Discovered, Entry
    <2>6. CASE Maintenance
        <3>1. table[c] \in Entry /\ table'[c] = Maintained(table[c])
            BY <1>1, <2>6, Zenon DEF Maintenance, RouteTypeOK, Breadcrumb
        <3> QED
            BY <3>1, RouteTimeAssumption DEF Maintained, Breadcrumb, Entry, EntryAge
    <2>7. CASE RouteTick
        <3>1. table[c] \in Entry /\ table'[c].age = Older(table[c].age)
            BY <1>1, <2>7, Zenon DEF RouteTick, RouteTypeOK, Breadcrumb, Entry
        <3> QED
            BY <3>1, RouteTimeAssumption, SMTT(30) DEF Older, Entry, EntryAge
    <2> QED
        BY <1>1, <2>2, <2>3, <2>4, <2>5, <2>6, <2>7, Zenon DEF RouteNext
<1> QED
    BY <1>1, RouteTypeTheorem, PTL DEF RouteSpec, TrustDominates

(* A full table gives up a discovered route only when it holds no          *)
(* breadcrumb.                                                             *)
THEOREM BreadcrumbsGoFirstTheorem == RouteSpec => BreadcrumbsGoFirst
<1>1. ASSUME RouteTypeOK, RouteNext PROVE EvictStep
    <2> SUFFICES ASSUME NEW c \in Dest, NEW d \in Dest,
                        table[c] = NoRoute, table'[c] # NoRoute,
                        Discovered(table[d]), table'[d] = NoRoute
                 PROVE  HeldOf("breadcrumb") = {}
        BY Zenon DEF EvictStep
    <2>1. ASSUME NEW x \in Dest, NEW h \in Hop, NEW n \in 0..MaxHops, NEW m \in 0..MaxMetric,
                 NEW source \in {"discovered", "breadcrumb"}, route_install(x, h, n, m, source)
          PROVE  HeldOf("breadcrumb") = {}
        <3>1. table'[d] # table[d] /\ NewEntry(h, n, m, source) # NoRoute
            BY NewEntryType, RouteSizeAssumption, Zenon DEF Discovered
        <3>2. d \in Victims(source)
            BY <1>1, <2>1, <3>1, InstallFrame
        <3> QED
            BY <3>2, VictimFacts, Zenon DEF HeldOf, Discovered
    <2>2. CASE Discover
        BY <2>1, <2>2, Zenon DEF Discover
    <2>3. CASE LearnBreadcrumb
        BY <2>1, <2>3, Zenon DEF LearnBreadcrumb
    <2>4. CASE \E x \in Dest : ForwardData(x)
        BY <1>1, <2>4, Zenon DEF ForwardData, RouteTypeOK
    <2>5. CASE \E x \in Dest, h \in Hop : RerrHandle(x, h)
        BY <1>1, <2>5, Zenon DEF RerrHandle, RouteTypeOK
    <2>6. CASE Maintenance \/ RouteTick
        BY <2>6, Zenon DEF Maintenance, RouteTick
    <2> QED
        BY <1>1, <2>2, <2>3, <2>4, <2>5, <2>6, Zenon DEF RouteNext
<1> QED
    BY <1>1, RouteTypeTheorem, PTL DEF RouteSpec, BreadcrumbsGoFirst

(* A broken route comes back only as a new route of the same or of the     *)
(* higher class.                                                           *)
THEOREM BrokenStaysBrokenTheorem == RouteSpec => BrokenStaysBroken
<1>1. ASSUME RouteTypeOK, RouteNext PROVE RepairStep
    <2> SUFFICES ASSUME NEW d \in Dest, table[d] # NoRoute, table[d].state = "broken",
                        table'[d] # NoRoute, table'[d].state # "broken"
                 PROVE  /\ table'[d].age = 0
                        /\ table'[d].source \in {table[d].source, "discovered"}
                        /\ \E h \in Hop, n \in 0..MaxHops, m \in 0..MaxMetric :
                               table'[d] = NewEntry(h, n, m, table'[d].source)
        BY Zenon DEF RepairStep
    <2>0. table[d] \in Entry /\ table'[d] # table[d]
        BY <1>1, Zenon DEF RouteTypeOK
    <2>1. ASSUME NEW x \in Dest, NEW h \in Hop, NEW n \in 0..MaxHops, NEW m \in 0..MaxMetric,
                 NEW source \in {"discovered", "breadcrumb"}, route_install(x, h, n, m, source)
          PROVE  /\ table'[d] = NewEntry(h, n, m, source)
                 /\ source \in {table[d].source, "discovered"}
        <3> DEFINE new == NewEntry(h, n, m, source)
        <3>1. table'[d] = new /\ Replaces(table[d], new)
            BY <1>1, <2>0, <2>1, InstallFrame
        <3>2. new.source = source
            BY Zenon DEF NewEntry
        <3> QED
            BY <3>1, <3>2, Zenon DEF Replaces
    <2>2. \A h \in Hop, n \in 0..MaxHops, m \in 0..MaxMetric, s \in {"discovered", "breadcrumb"} :
              NewEntry(h, n, m, s).age = 0 /\ NewEntry(h, n, m, s).source = s
        BY Zenon DEF NewEntry
    <2>3. CASE Discover
        BY <2>1, <2>2, <2>3 DEF Discover
    <2>4. CASE LearnBreadcrumb
        BY <2>1, <2>2, <2>4 DEF LearnBreadcrumb
    <2>5. CASE \E x \in Dest : ForwardData(x)
        BY <1>1, <2>0, <2>5, Zenon DEF ForwardData, RouteTypeOK
    <2>6. CASE \E x \in Dest, h \in Hop : RerrHandle(x, h)
        BY <1>1, <2>0, <2>6 DEF RerrHandle, RouteTypeOK, Entry
    <2>7. CASE Maintenance
        BY <2>0, <2>7, Zenon DEF Maintenance, Maintained, Entry
    <2>8. CASE RouteTick
        BY <2>0, <2>8, Zenon DEF RouteTick, Entry
    <2> QED
        BY <1>1, <2>3, <2>4, <2>5, <2>6, <2>7, <2>8, Zenon DEF RouteNext
<1> QED
    BY <1>1, RouteTypeTheorem, PTL DEF RouteSpec, BrokenStaysBroken
=============================================================================
