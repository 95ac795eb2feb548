---------------------------- MODULE NonceIssuer -----------------------------
(***************************************************************************)
(* What the nonce counter promises its users (send paths) and, through the *)
(* replay windows, its receivers: over the whole life of the node numbers  *)
(* are handed out in increasing order, none of them twice.  There are no   *)
(* blocks, no NVS, no tasks and no crashes in the promise.                 *)
(***************************************************************************)
EXTENDS Naturals

CONSTANT MaxCeiling     \* bound of the model: numbers above it are not used

VARIABLE times          \* number -> how often it was handed out

Init == times = [c \in 0 .. MaxCeiling |-> 0]

(* A caller gets a number above every number handed out so far.            *)
HandOut(c) ==
    /\ times' = [times EXCEPT ![c] = 1]
    /\ \A d \in 0 .. MaxCeiling : times[d] > 0 => d < c

Next == \E c \in 0 .. MaxCeiling : HandOut(c)

Spec == Init /\ [][Next]_times
=============================================================================
