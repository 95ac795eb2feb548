------------------------------ MODULE MCTables ------------------------------
(***************************************************************************)
(* Three tables a node fills from the packets it hears, which share no     *)
(* state: the replay gate, the routes and the proposals of time.  A        *)
(* behaviour is one of one of them, while the others stay as they were at  *)
(* the start.                                                              *)
(***************************************************************************)
EXTENDS ReplayGate, RouteTable, Timesync

VARIABLE part       \* the table that is filled

TablesInit ==
    /\ GateInit /\ RouteInit /\ SyncInit
    /\ part \in {"replay", "routes", "time"}

TablesNext ==
    /\ \/ part = "replay" /\ GateNext /\ UNCHANGED <<table, syncVars>>
       \/ part = "routes" /\ RouteNext /\ UNCHANGED <<vars, syncVars>>
       \/ part = "time" /\ SyncNext /\ UNCHANGED <<vars, table>>
    /\ UNCHANGED part

TablesSpec == TablesInit /\ [][TablesNext]_<<vars, table, syncVars, part>>
=============================================================================
