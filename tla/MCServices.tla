----------------------------- MODULE MCServices -----------------------------
(***************************************************************************)
(* Three services of a node that share no state but the clock: the         *)
(* mailbox, the reassembly of fragments and the transmit gate.  A          *)
(* behaviour is one of one of them, while the others stay as they were at  *)
(* the start.                                                              *)
(***************************************************************************)
EXTENDS Mailbox, Fragment, TxGate

VARIABLE part       \* the service that runs

(* Three and two fragments of two senders under one message id, and a      *)
(* message of two fragments under another, with FRAG_MAX_PLAINTEXT = 2.    *)
Mixed ==
    {[src |-> "a", id |-> 1, len |-> 5],
     [src |-> "b", id |-> 1, len |-> 3],
     [src |-> "b", id |-> 2, len |-> 4]}

(* 9, 2, 4 and 1 of the micro-mesh profile, more than half of DUTY_CAP:    *)
(* scaled to 5, 1, 2 and 1, with an allowance of 1 for control traffic.    *)
(* With 9 neighbors 4, 2, 2 and 1, which need no scaling.                  *)
SmallBase == [normal |-> 3, critical |-> 2, broadcast |-> 1, receipt |-> 0]

ServicesInit ==
    /\ MailInit /\ FragInit /\ GateInit
    /\ part \in {"mailbox", "fragment", "gate"}

ServicesNext ==
    /\ \/ part = "mailbox" /\ MailNext /\ UNCHANGED <<fragState, gateVars>>
       \/ part = "fragment" /\ FragNext /\ UNCHANGED <<mailState, gateVars>>
       \/ part = "gate" /\ GateNext /\ UNCHANGED <<mailState, fragState, now>>
    /\ UNCHANGED part

ServicesSpec == ServicesInit /\ [][ServicesNext]_<<mailState, fragState, gateVars, now, part>>
=============================================================================
