----------------------------- MODULE FrameClock -----------------------------
(***************************************************************************)
(* What the main loop promises the game about time: the interrupts RST 1   *)
(* and RST 2 alternate, RST 1 comes with the first instruction boundary in *)
(* the second half of a frame, RST 2 with the first one behind the frame,  *)
(* and no instruction runs between the moment one is due and its request.  *)
(***************************************************************************)
EXTENDS Integers

CONSTANTS
    FrameLength,   \* the clock cycles of a frame
    Durations      \* how long an instruction can take

VARIABLES
    elapsed,    \* the cycles run in this frame
    half_done   \* RST 1 of this frame was requested

vars == <<elapsed, half_done>>

HalfDue == elapsed > FrameLength \div 2 /\ ~half_done
FrameDue == elapsed > FrameLength

Init == elapsed = 0 /\ half_done = FALSE

Run ==
    /\ ~HalfDue /\ ~FrameDue
    /\ \E c \in Durations : elapsed' = elapsed + c
    /\ UNCHANGED half_done

RequestRst1 == HalfDue /\ half_done' = TRUE /\ UNCHANGED elapsed

RequestRst2 == FrameDue /\ half_done /\ half_done' = FALSE /\ elapsed' = 0

Next == Run \/ RequestRst1 \/ RequestRst2

Spec == Init /\ [][Next]_vars
=============================================================================
