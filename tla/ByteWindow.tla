----------------------------- MODULE ByteWindow -----------------------------
(***************************************************************************)
(* What the shift register promises: it remembers the last two bytes       *)
(* written and the amount, and a read returns the eight bits that start    *)
(* amount bits below the top of the newer byte.                            *)
(***************************************************************************)
EXTENDS Integers

CONSTANT Bytes

VARIABLES newest, previous, amount

vars == <<newest, previous, amount>>

Init == newest = 0 /\ previous = 0 /\ amount = 0

Push(byte) == newest' = byte /\ previous' = newest /\ UNCHANGED amount

Choose(n) == amount' = n /\ UNCHANGED <<newest, previous>>

Next == (\E byte \in Bytes : Push(byte)) \/ (\E n \in 0..7 : Choose(n))

Spec == Init /\ [][Next]_vars

Window == ((newest * 2 ^ amount) % 256) + (previous \div 2 ^ (8 - amount))
=============================================================================
