--------------------------- MODULE InterruptLatch ---------------------------
(***************************************************************************)
(* What the interrupt system of the emulated processor promises: an enable *)
(* flip-flop and a slot for one request.  A request fills the slot,        *)
(* replacing what waits there; the processor empties it, only while        *)
(* interrupts are enabled, and runs what was in it; and while a request    *)
(* waits with interrupts enabled it runs nothing else.                     *)
(***************************************************************************)
CONSTANTS
    Requests,      \* the instructions a device can put on the bus
    NoRequest,     \* an empty slot, not one of Requests
    Program        \* what the processor runs when it takes no request

VARIABLES
    enabled,   \* the enable flip-flop
    slot,      \* the request that waits, or NoRequest
    running    \* what the processor ran last: a request or Program

vars == <<enabled, slot, running>>

Init == enabled = FALSE /\ slot = NoRequest /\ running = Program

Request(r) == slot' = r /\ UNCHANGED <<enabled, running>>

Accept ==
    /\ enabled /\ slot # NoRequest
    /\ running' = slot
    /\ slot' = NoRequest
    /\ UNCHANGED enabled

\* A step of the program may switch the flip-flop.
Run ==
    /\ ~(enabled /\ slot # NoRequest)
    /\ running' = Program
    /\ enabled' \in BOOLEAN
    /\ UNCHANGED slot

Reset == enabled' = FALSE /\ slot' = NoRequest /\ UNCHANGED running

Next == (\E r \in Requests : Request(r)) \/ Accept \/ Run \/ Reset

Spec == Init /\ [][Next]_vars
=============================================================================
