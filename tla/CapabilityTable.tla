-------------------------- MODULE CapabilityTable --------------------------
(***************************************************************************)
(* The kernel's capability table (core/src/capabilities.rs): a bounded     *)
(* array of entries, each naming a holder, a resource and rights, guarded  *)
(* by a generation that revocation advances.  A slot is used once: revoked *)
(* entries stay in the table for the rest of the boot.                     *)
(*                                                                         *)
(* Generations are 32 bits wide and wrap; GenerationModulus stands for     *)
(* 2^32.  Operators only: the components that own a table keep it in a     *)
(* variable of theirs.                                                     *)
(***************************************************************************)
EXTENDS Naturals, FiniteSets

CONSTANTS
    CapabilitySlots,     \* CAPABILITY_TABLE_SLOTS
    GenerationModulus    \* 2^32

CapabilityTableAssumption ==
    CapabilitySlots \in Nat \ {0} /\ GenerationModulus \in Nat \ {0, 1}

NoEntry == [state |-> "None"]

EmptyTable == [s \in 1 .. CapabilitySlots |-> NoEntry]

Handle(s, g) == [slot |-> s, generation |-> g]

InvalidHandle == Handle(0, 0)

(* An equal grant that is still active is found again *)
Existing(table, holder, resource, rights) ==
    {s \in DOMAIN table :
        /\ table[s].state = "Active"
        /\ table[s].holder = holder
        /\ table[s].resource = resource
        /\ table[s].rights = rights}

Free(table) == {s \in DOMAIN table : table[s].state = "None"}

FirstSlot(slots) == CHOOSE s \in slots : \A t \in slots : s <= t

(* grant_with_provenance: table, handle and whether the entry is new; the  *)
(* handle is InvalidHandle when the table is full                          *)
grant(table, holder, resource, rights) ==
    LET same == Existing(table, holder, resource, rights)
        free == Free(table)
        slot == IF same # {} THEN FirstSlot(same) ELSE FirstSlot(free)
    IN CASE same # {} ->
              [table |-> table, created |-> FALSE,
               handle |-> Handle(slot, table[slot].generation)]
         [] same = {} /\ free # {} ->
              [table |-> [table EXCEPT ![slot] =
                             [state |-> "Active", holder |-> holder, resource |-> resource,
                              rights |-> rights, generation |-> 1]],
               created |-> TRUE, handle |-> Handle(slot, 1)]
         [] OTHER -> [table |-> table, created |-> FALSE, handle |-> InvalidHandle]

Live(table, handle) ==
    /\ handle.slot \in DOMAIN table
    /\ table[handle.slot].state # "None"
    /\ table[handle.slot].generation = handle.generation

(* validate: the handle names an active entry of this holder, for this     *)
(* resource, with at least these rights                                    *)
validate(table, caller, handle, resource, required) ==
    /\ Live(table, handle)
    /\ table[handle.slot].state = "Active"
    /\ table[handle.slot].holder = caller
    /\ table[handle.slot].resource = resource
    /\ required \subseteq table[handle.slot].rights

(* revoke: also of an entry that is revoked already, under its new         *)
(* generation; a handle that is not live leaves the table alone            *)
revoke(table, handle) ==
    IF Live(table, handle)
    THEN [table EXCEPT ![handle.slot].state = "Revoked",
                       ![handle.slot].generation = (@ + 1) % GenerationModulus]
    ELSE table
=============================================================================
