------------------------------ MODULE WriteMu ------------------------------
(***************************************************************************)
(* The mutation lock of tools.Deps: one sync.RWMutex, writeMu, taken       *)
(* exclusively by LockWrites and shared by RLockReads (tools.go:20-87).    *)
(*                                                                         *)
(* The lock gives writers priority.  Lock first takes the mutex's inner    *)
(* writer slot, from then on RLock parks new readers, and the writer       *)
(* enters once the readers it found inside have left.  Unlock admits every *)
(* parked reader before another writer can take the slot.                  *)
(*                                                                         *)
(* Neither side watches the request context: a call that was cancelled     *)
(* while it queued still takes the lock and runs its body.                 *)
(***************************************************************************)

CONSTANTS
    Calls,      \* tool calls, one goroutine each
    NoCall      \* nobody

ASSUME NoCallAssumption == NoCall \notin Calls

VARIABLES
    writer,     \* the call in the writer slot, waiting for readers or inside
    entered,    \* whether that call is inside
    readers,    \* the calls holding the lock shared
    parked      \* the readers waiting behind the writer

muVars == <<writer, entered, readers, parked>>

MuTypeOK ==
    /\ writer \in Calls \cup {NoCall}
    /\ entered \in BOOLEAN
    /\ readers \subseteq Calls
    /\ parked \subseteq Calls

MuInit ==
    /\ writer = NoCall
    /\ entered = FALSE
    /\ readers = {}
    /\ parked = {}

HoldsWrite(c) == writer = c /\ entered
HoldsRead(c) == c \in readers

-----------------------------------------------------------------------------
(* LockWrites: claim the writer slot, then enter when no reader is left.   *)
LockClaim(c) ==
    /\ writer = NoCall
    /\ writer' = c
    /\ UNCHANGED <<entered, readers, parked>>

(* Mutant: the writer does not wait for the readers inside.                *)
LockEnterUndrained(c) ==
    /\ writer = c
    /\ ~entered
    /\ entered' = TRUE
    /\ UNCHANGED <<writer, readers, parked>>

LockEnter(c) ==
    /\ writer = c
    /\ ~entered
    /\ readers = {}
    /\ entered' = TRUE
    /\ UNCHANGED <<writer, readers, parked>>

(* The function LockWrites returns, run by the handler's defer.            *)
Unlock(c) ==
    /\ HoldsWrite(c)
    /\ writer' = NoCall
    /\ entered' = FALSE
    /\ readers' = parked
    /\ parked' = {}

(* Mutant: only a writer inside parks readers, one that waits does not.    *)
RLockBarging(c) ==
    \/ /\ ~entered
       /\ readers' = readers \cup {c}
       /\ UNCHANGED <<writer, entered, parked>>
    \/ /\ entered
       /\ parked' = parked \cup {c}
       /\ UNCHANGED <<writer, entered, readers>>

(* Mutant: a read never waits.                                             *)
RLockUnchecked(c) ==
    /\ readers' = readers \cup {c}
    /\ UNCHANGED <<writer, entered, parked>>

(* RLockReads: enter at once, or park behind a writer.                     *)
RLock(c) ==
    \/ /\ writer = NoCall
       /\ readers' = readers \cup {c}
       /\ UNCHANGED <<writer, entered, parked>>
    \/ /\ writer # NoCall
       /\ parked' = parked \cup {c}
       /\ UNCHANGED <<writer, entered, readers>>

(* The function RLockReads returns.                                        *)
RUnlock(c) ==
    /\ HoldsRead(c)
    /\ readers' = readers \ {c}
    /\ UNCHANGED <<writer, entered, parked>>

-----------------------------------------------------------------------------
(* What makes the lock exclusive, as an inductive invariant: a writer      *)
(* inside has no reader beside it, only a claimed slot parks readers, and  *)
(* only a claimed slot is entered.                                         *)
MuInv ==
    /\ MuTypeOK
    /\ entered => writer # NoCall /\ readers = {}
    /\ parked # {} => writer # NoCall
    /\ parked \cap readers = {}
=============================================================================
