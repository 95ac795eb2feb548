------------------------------- MODULE MCPeers -------------------------------
(***************************************************************************)
(* What a node does for its peers, in five parts that share no state but   *)
(* the clock: the table of sessions, the ratchet of one session, the       *)
(* retries of parked messages, the timed replies, and the send path with   *)
(* its tasks interleaved at every step.  A behaviour is one of one of      *)
(* them, while the others stay as they were at the start.                  *)
(***************************************************************************)
EXTENDS DmTable, DmRatchet, ParkedRetry, TimedReplies, SendPath

VARIABLE part       \* the part that runs

PeersInit ==
    /\ TableInit /\ RatchetInit /\ ParkInit /\ ReplyInit /\ SendInit
    /\ part \in {"table", "ratchet", "parked", "replies", "send"}

PeersNext ==
    /\ \/ part = "table" /\ TableNext /\ UNCHANGED <<ratchetVars, parkState, replyState, sendVars, now>>
       \/ part = "ratchet" /\ RatchetNext /\ UNCHANGED <<tableVars, parkState, replyState, sendVars, now>>
       \/ part = "parked" /\ ParkNext /\ UNCHANGED <<tableVars, ratchetVars, replyState, sendVars>>
       \/ part = "replies" /\ ReplyNext /\ UNCHANGED <<tableVars, ratchetVars, parkState, sendVars>>
       \/ part = "send" /\ SendNextWithRetry /\ UNCHANGED <<tableVars, ratchetVars, parkState, replyState, now>>
    /\ UNCHANGED part

PeersSpec ==
    PeersInit /\ [][PeersNext]_<<tableVars, ratchetVars, parkState, replyState, sendVars, now, part>>
=============================================================================
