----------------------------- MODULE DmRatchet ------------------------------
(***************************************************************************)
(* One direction of a ratcheted direct-message session (dm_session.c): the *)
(* sender numbers its frames within an epoch, the receiver walks its chain *)
(* to the number a frame carries, keeps the keys it skipped, and keeps the *)
(* chain of the previous epoch for a while after a rekey.  The medium      *)
(* loses, repeats and reorders frames at will.  A message key is the epoch *)
(* and the index it belongs to; each is good for one frame.                *)
(***************************************************************************)
EXTENDS Integers

CONSTANTS
    DM_MAX_SKIP,            \* skipped keys a chain can hold, and how far it looks ahead
    DM_EPOCH_GRACE_MSGS,    \* frames of the new epoch that end the previous one
    INDEX_MOD,              \* 2^16: indices and cursors are uint16_t
    MaxIndex,               \* bound of the model: frames per epoch
    MaxEpoch                \* bound of the model: rekeys

ASSUME RatchetAssumption ==
    /\ DM_MAX_SKIP \in Nat \ {0} /\ DM_EPOCH_GRACE_MSGS \in Nat \ {0}
    /\ MaxIndex \in Nat /\ MaxEpoch \in Nat /\ INDEX_MOD \in Nat
    /\ MaxIndex + DM_MAX_SKIP < INDEX_MOD

None == -1
SkipSlot == 0 .. DM_MAX_SKIP - 1

VARIABLES
    send,       \* dm_ratchet_t.send: epoch, index of the next frame
    recv,       \* dm_ratchet_t.recv and .skip: epoch, next index, cached keys
    prev,       \* dm_ratchet_t.prev_recv and .prev_skip
    prevValid,  \* prev_recv.valid
    fresh,      \* new_epoch_msgs
    sent,       \* frames the sender has encrypted
    opened      \* frames the receiver has decrypted

ratchetVars == <<send, recv, prev, prevValid, fresh, sent, opened>>

NewChain(e) == [epoch |-> e, next |-> 0, skip |-> [s \in SkipSlot |-> None]]

(* dm_session_ratchet_init_state on both sides.                            *)
RatchetInit ==
    /\ send = [epoch |-> 0, index |-> 0]
    /\ recv = NewChain(0)
    /\ prev = NewChain(0) /\ prevValid = FALSE
    /\ fresh = 0
    /\ sent = {} /\ opened = {}

(* dm_session_ratchet_encrypt.                                             *)
Encrypt ==
    /\ send.index < MaxIndex
    /\ sent' = sent \cup {[epoch |-> send.epoch, index |-> send.index]}
    /\ send' = [send EXCEPT !.index = @ + 1]
    /\ UNCHANGED <<recv, prev, prevValid, fresh, opened>>

(* dm_session_epoch_bump at the sender and at the receiver: whichever is   *)
(* the responder of the rekey goes first, the other follows.               *)
BumpSend ==
    /\ send.epoch < MaxEpoch /\ send.epoch <= recv.epoch
    /\ send' = [epoch |-> send.epoch + 1, index |-> 0]
    /\ UNCHANGED <<recv, prev, prevValid, fresh, sent, opened>>

(* Mutant of BumpRecv: the skipped keys of the old chain are not kept.     *)
BumpRecvDropsSkip ==
    /\ recv.epoch < MaxEpoch /\ recv.epoch <= send.epoch
    /\ prev' = [NewChain(recv.epoch) EXCEPT !.next = recv.next] /\ prevValid' = TRUE
    /\ recv' = NewChain(recv.epoch + 1)
    /\ fresh' = 0
    /\ UNCHANGED <<send, sent, opened>>

(* At the receiver the old chain and its skipped keys become prev.         *)
BumpRecv ==
    /\ recv.epoch < MaxEpoch /\ recv.epoch <= send.epoch
    /\ prev' = recv /\ prevValid' = TRUE
    /\ recv' = NewChain(recv.epoch + 1)
    /\ fresh' = 0
    /\ UNCHANGED <<send, sent, opened>>

-----------------------------------------------------------------------------
(* Whether dm_recv_walk decrypts frame f on chain ch: behind the cursor    *)
(* only with a cached key, ahead of it up to DM_MAX_SKIP; and the derived  *)
(* key is the frame's only if the epochs agree.  The sum of the cursor and *)
(* DM_MAX_SKIP is cut to 16 bits: a chain whose cursor gets that close to  *)
(* the end of the indices opens nothing any more, not even the next frame. *)
(* RatchetAssumption keeps epochs shorter than that.                       *)
Opens(ch, f) ==
    /\ f.epoch = ch.epoch
    /\ IF f.index < ch.next THEN ch.skip[f.index % DM_MAX_SKIP] = f.index
       ELSE f.index <= (ch.next + DM_MAX_SKIP) % INDEX_MOD

(* Mutant of Walk: a cached key is not wiped after its use.                *)
WalkKeepsKey(ch, f) ==
    IF f.index < ch.next
    THEN ch
    ELSE [epoch |-> ch.epoch, next |-> f.index + 1,
          skip |-> [s \in SkipSlot |->
                      IF \E j \in ch.next .. f.index - 1 : j % DM_MAX_SKIP = s
                      THEN CHOOSE j \in ch.next .. f.index - 1 : j % DM_MAX_SKIP = s
                      ELSE ch.skip[s]]]

(* What it leaves of the chain: the cached key is used up, or the cursor   *)
(* moves past f and the keys in between go to their slots.                 *)
Walk(ch, f) ==
    IF f.index < ch.next
    THEN [ch EXCEPT !.skip = [@ EXCEPT ![f.index % DM_MAX_SKIP] = None]]
    ELSE [epoch |-> ch.epoch, next |-> f.index + 1,
          skip |-> [s \in SkipSlot |->
                      IF \E j \in ch.next .. f.index - 1 : j % DM_MAX_SKIP = s
                      THEN CHOOSE j \in ch.next .. f.index - 1 : j % DM_MAX_SKIP = s
                      ELSE ch.skip[s]]]

(* dm_session_ratchet_decrypt: the current chain first, counting towards   *)
(* the end of the grace; then the previous epoch's.  A frame neither opens *)
(* changes nothing here.                                                   *)
Decrypt(f) ==
    \/ /\ Opens(recv, f)
       /\ recv' = Walk(recv, f)
       /\ fresh' = IF prevValid THEN fresh + 1 ELSE fresh
       /\ prevValid' = (prevValid /\ fresh + 1 < DM_EPOCH_GRACE_MSGS)
       /\ prev' = IF prevValid' THEN prev ELSE NewChain(0)
       /\ opened' = opened \cup {f}
       /\ UNCHANGED <<send, sent>>
    \/ /\ ~Opens(recv, f) /\ prevValid /\ Opens(prev, f)
       /\ prev' = Walk(prev, f)
       /\ opened' = opened \cup {f}
       /\ UNCHANGED <<send, recv, prevValid, fresh, sent>>

RatchetNext == Encrypt \/ BumpSend \/ BumpRecv \/ \E f \in sent : Decrypt(f)

RatchetSpec == RatchetInit /\ [][RatchetNext]_ratchetVars

-----------------------------------------------------------------------------
(* Frame f belongs to a chain the receiver still has, and is neither more  *)
(* than DM_MAX_SKIP behind its cursor nor more than DM_MAX_SKIP ahead.     *)
InWindow(ch, f) ==
    f.epoch = ch.epoch /\ f.index >= ch.next - DM_MAX_SKIP /\ f.index <= ch.next + DM_MAX_SKIP
CanOpen(f) == Opens(recv, f) \/ (prevValid /\ Opens(prev, f))

(* A frame opens at most once: the key of dm_recv_walk is gone afterwards, *)
(* from the cache, the chain and the previous epoch, across rekeys.        *)
OpensOnce == \A f \in opened : ~CanOpen(f)

(* Loss and reordering up to DM_MAX_SKIP cost no message: a frame in the   *)
(* window, of the current epoch or of the previous one in its grace, opens *)
(* when it arrives, whatever came before it; no slot of the skip cache is  *)
(* taken over by another index too early.                                  *)
WindowOpens ==
    \A f \in sent \ opened :
        InWindow(recv, f) \/ (prevValid /\ InWindow(prev, f)) => CanOpen(f)
=============================================================================
