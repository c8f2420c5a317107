-------------------------- MODULE AtomicCheckpoint --------------------------
(***************************************************************************)
(* What the object service's checkpoint promises: one register that holds  *)
(* the last installed checkpoint.  A store installs its snapshot at most   *)
(* once and at one instant, under the next generation; it is confirmed     *)
(* only once it is installed; a store that fails or is cut off by a crash  *)
(* leaves either the old register or the new one, never anything else.     *)
(***************************************************************************)
EXTENDS Naturals

CONSTANTS Contents, Nothing

VARIABLES
    cell,       \* the installed checkpoint, or Nothing
    pending,    \* the checkpoint being stored, or Nothing
    confirmed   \* the last checkpoint reported as stored

vars == <<cell, pending, confirmed>>

Init == cell = Nothing /\ pending = Nothing /\ confirmed = Nothing

Begin(contents) ==
    /\ pending = Nothing
    /\ pending' = [generation |-> cell.generation + 1, snapshot |-> contents]
    /\ UNCHANGED <<cell, confirmed>>

(* The instant a store takes effect.  The store may be over at that very   *)
(* instant: a crash or an error can hide a write that did reach the disk.  *)
Install ==
    /\ pending # Nothing
    /\ cell.generation + 1 = pending.generation
    /\ cell' = pending
    /\ pending' \in {pending, Nothing}
    /\ UNCHANGED confirmed

Confirm ==
    /\ pending # Nothing
    /\ cell = pending
    /\ confirmed' = cell
    /\ pending' = Nothing
    /\ UNCHANGED cell

Abandon ==
    /\ pending # Nothing
    /\ pending' = Nothing
    /\ UNCHANGED <<cell, confirmed>>

Next ==
    \/ \E contents \in Contents : Begin(contents)
    \/ Install
    \/ Confirm
    \/ Abandon

Spec == Init /\ [][Next]_vars
=============================================================================
