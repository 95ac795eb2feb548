------------------------------- MODULE MCFlash -------------------------------
(***************************************************************************)
(* The three components that write flash through power failures, and share *)
(* nothing: the nonce counter, the message history and the pinned          *)
(* identities.  A behaviour is one of one of them, while the others stay   *)
(* as they were at the start.                                              *)
(***************************************************************************)
EXTENDS NonceCounter, MessageStore, IdentityStore

VARIABLE part       \* the component that runs

FlashInit == Init /\ StoreInit /\ IdentityInit /\ part \in {"nonce", "store", "pins"}

FlashNext ==
    /\ \/ part = "nonce" /\ Next /\ UNCHANGED <<storeVars, identityVars>>
       \/ part = "store" /\ StoreNext /\ UNCHANGED <<vars, identityVars>>
       \/ part = "pins" /\ IdentityNext /\ UNCHANGED <<vars, storeVars>>
    /\ UNCHANGED part

FlashSpec == FlashInit /\ [][FlashNext]_<<vars, storeVars, identityVars, part>>
=============================================================================
