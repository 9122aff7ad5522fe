---------------------------- MODULE AddressSpace ----------------------------
(***************************************************************************)
(* What a memory map promises its caller, with no arrays and no offsets:   *)
(* every address has a value, some addresses can be written, and a store   *)
(* is seen at once at every address that names the same cell.              *)
(***************************************************************************)
CONSTANTS
    Address,         \* the addresses
    Values,          \* what they can hold
    Zero,            \* what the writable ones hold after Clear
    Writable,        \* the addresses a store can change
    SameCell(_, _)   \* two addresses name one cell

VARIABLE mem

Coherent == \A x, y \in Address : SameCell(x, y) => mem[x] = mem[y]

Init == mem \in [Address -> Values] /\ Coherent

Store(addr, data) ==
    mem' = [x \in Address |->
              IF addr \in Writable /\ SameCell(addr, x) THEN data ELSE mem[x]]

Clear == mem' = [x \in Address |-> IF x \in Writable THEN Zero ELSE mem[x]]

Next ==
    \/ \E addr \in Address, data \in Values : Store(addr, data)
    \/ Clear

Spec == Init /\ [][Next]_mem
=============================================================================
