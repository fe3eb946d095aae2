--------------------------- MODULE WriteMuProofs ----------------------------
(***************************************************************************)
(* The lock's invariant MuInv is kept by every operation of the lock.  The *)
(* proofs about the handlers cite these lemmas.                            *)
(***************************************************************************)
EXTENDS WriteMu, TLAPS

(* A fresh lock satisfies the invariant.                                   *)
LEMMA MuInitInv == MuInit => MuInv
BY NoCallAssumption DEF MuInit, MuInv, MuTypeOK

(* Claiming the writer slot leaves the readers inside alone.               *)
LEMMA LockClaimInv ==
    ASSUME NEW c \in Calls, MuInv, LockClaim(c)
    PROVE  MuInv' /\ writer' = c /\ ~entered'
BY NoCallAssumption DEF MuInv, MuTypeOK, LockClaim

(* A writer enters only when the last reader has left.                     *)
LEMMA LockEnterInv ==
    ASSUME NEW c \in Calls, MuInv, LockEnter(c)
    PROVE  MuInv' /\ HoldsWrite(c)'
BY NoCallAssumption DEF MuInv, MuTypeOK, LockEnter, HoldsWrite

(* Unlocking lets in exactly the readers that were parked.                 *)
LEMMA UnlockInv ==
    ASSUME NEW c \in Calls, MuInv, Unlock(c)
    PROVE  MuInv' /\ readers' \cup parked' = readers \cup parked /\ writer' = NoCall
BY NoCallAssumption DEF MuInv, MuTypeOK, Unlock, HoldsWrite

(* A reader enters or parks, and nobody else moves.                        *)
LEMMA RLockInv ==
    ASSUME NEW c \in Calls, MuInv, c \notin readers, RLock(c)
    PROVE  /\ MuInv'
           /\ readers' \cup parked' = readers \cup parked \cup {c}
           /\ readers \subseteq readers'
           /\ UNCHANGED <<writer, entered>>
BY NoCallAssumption DEF MuInv, MuTypeOK, RLock

(* A reader that leaves is gone, and nobody else moves.                    *)
LEMMA RUnlockInv ==
    ASSUME NEW c \in Calls, MuInv, RUnlock(c)
    PROVE  /\ MuInv'
           /\ readers' \cup parked' = (readers \cup parked) \ {c}
           /\ readers' = readers \ {c}
           /\ UNCHANGED <<writer, entered>>
BY NoCallAssumption DEF MuInv, MuTypeOK, RUnlock, HoldsRead

(* Steps of anybody else keep it.                                          *)
LEMMA MuStutter ==
    ASSUME MuInv, UNCHANGED muVars
    PROVE  MuInv'
BY DEF MuInv, MuTypeOK, muVars
(* Whoever queues for the lock queues for somebody who is inside, or for a *)
(* writer whom no reader keeps out any more.                               *)
LEMMA LockNeverIdles ==
    ASSUME MuInv, writer # NoCall \/ readers # {}
    PROVE  \E d \in Calls : \/ HoldsWrite(d)
                            \/ HoldsRead(d)
                            \/ writer = d /\ ~entered /\ readers = {}
BY DEF MuInv, MuTypeOK, HoldsWrite, HoldsRead
=============================================================================
