--------------------------- MODULE FrameLoopProofs ---------------------------
(***************************************************************************)
(* Proofs about FrameLoop, for every frame length and every set of cycle   *)
(* counts FrameAssumption allows, in both builds.                          *)
(***************************************************************************)
EXTENDS FrameLoop, TLAPS

\* Half of a frame is a whole number of cycles, and no more than the frame.
LEMMA HalfFrame ==
    /\ VBLANK_RATE \in Nat /\ MaxCycles \in Nat
    /\ VBLANK_RATE \div 2 \in Nat
    /\ VBLANK_RATE \div 2 + MaxCycles <= VBLANK_RATE
    /\ \A c \in Cycles : c \in Nat /\ c <= MaxCycles
BY FrameAssumption DEF FrameAssumption

\* The loop starts in the invariant.
LEMMA InitFrameInv == Init => FrameInv
<1> SUFFICES ASSUME Init PROVE FrameTypeOK /\ Timely
    BY DEF FrameInv
<1>1. FrameTypeOK
  BY FrameAssumption DEF Init, FrameTypeOK, RST1, RST2, NoInstruction, FrameAssumption, CloseEvents
<1>2. Timely
  BY HalfFrame DEF Init, Timely, HalfDue, FrameDue
<1> QED BY <1>1, <1>2

\* No step leaves the types.
LEMMA NextFrameType == FrameTypeOK /\ [Next]_vars => FrameTypeOK'
<1> SUFFICES ASSUME FrameTypeOK, [Next]_vars PROVE FrameTypeOK'
    OBVIOUS
<1> USE DEF FrameTypeOK, loopVars, debugVars, slotVars, cpuVars, setup
<1>1. CASE PollDebugger
  <2>1. CASE break(EndsDebugger)
    BY <1>1, <2>1 DEF PollDebugger, break
  <2>2. CASE drain(EndsDebugger) /\ debug_build /\ update_debugger_window
    <3>1. ~break(EndsDebugger) /\ closing' \subseteq CloseEvents
      BY <2>2 DEF drain, break
    <3> QED BY <1>1, <2>2, <3>1 DEF PollDebugger, update_debugger_window
  <2>3. CASE UNCHANGED <<loopVars, debugVars, cpuVars, closing>> /\ at' = "half"
    BY <1>1, <2>3 DEF PollDebugger
  <2> QED BY <1>1, <2>1, <2>2, <2>3 DEF PollDebugger, update_debugger_window
<1>2. CASE MiddleOfFrame
  BY <1>2 DEF MiddleOfFrame, request_interrupt
<1>3. CASE EndOfFrame
  <2>1. CASE break(EndsGame)
    BY <1>3, <2>1 DEF EndOfFrame, break
  <2>2. CASE drain(EndsGame) /\ FrameDue
    <3>1. ~break(EndsGame) /\ closing' \subseteq CloseEvents
      BY <2>2 DEF drain, break
    <3>2. /\ request_interrupt(RST2) /\ total_cycles' = 0 /\ interrupt_requested' = FALSE
          /\ at' = "exec"
          /\ UNCHANGED <<setup, gui_running, debugVars>>
      BY <1>3, <2>2, <3>1, Zenon DEF EndOfFrame
    <3> QED BY <3>1, <3>2 DEF request_interrupt
  <2>3. CASE ~FrameDue
    BY <1>3, <2>3 DEF EndOfFrame
  <2>4. break(EndsGame) \/ (drain(EndsGame) /\ FrameDue) \/ ~FrameDue
    BY <1>3, Zenon DEF EndOfFrame
  <2> QED BY <2>1, <2>2, <2>3, <2>4
<1>4. CASE Execute
  <2>1. total_cycles' \in Nat
    BY <1>4, HalfFrame DEF Execute, fetch_execute_instruction
  <2>2. masked' \in BOOLEAN
    BY <1>4 DEF Execute, fetch_execute_instruction
  <2>3. enabled' \in BOOLEAN /\ halted' \in BOOLEAN /\ waiting' \in BOOLEAN
    BY <1>4 DEF Execute, fetch_execute_instruction
  <2>4. instruction' \in {RST1, RST2, NoInstruction}
    BY <1>4 DEF Execute, fetch_execute_instruction
  <2>5. debug_cpu_running' \in BOOLEAN /\ step_through_cpu' \in BOOLEAN
    BY <1>4 DEF Execute
  <2>6. at' = "debugger" /\ UNCHANGED <<interrupt_requested, gui_running, closing, debug_build, may_halt>>
    BY <1>4 DEF Execute
  <2> QED BY <2>1, <2>2, <2>3, <2>4, <2>5, <2>6
<1>5. CASE Idle
  BY <1>5 DEF Idle
<1>6. CASE UserCloses
  BY <1>6 DEF UserCloses, CloseEvents
<1>7. CASE Terminated \/ UNCHANGED vars
  BY <1>7 DEF Terminated, vars
<1> QED BY <1>1, <1>2, <1>3, <1>4, <1>5, <1>6, <1>7 DEF Next, Loop

\* No step leaves the rest of the invariant: one step of the proof per action.
LEMMA NextTimely == FrameTypeOK /\ Timely /\ [Next]_vars => Timely'
<1> SUFFICES ASSUME FrameTypeOK, Timely, [Next]_vars PROVE Timely'
    OBVIOUS
<1> USE HalfFrame DEF Timely, HalfDue, FrameDue, loopVars, debugVars, cpuVars
<1>0. total_cycles \in Nat
  BY DEF FrameTypeOK
<1>1. CASE PollDebugger
  <2>1. total_cycles' = total_cycles /\ interrupt_requested' = interrupt_requested
    BY <1>1 DEF PollDebugger, update_debugger_window, break
  <2>2. waiting' /\ ~masked' => waiting /\ ~masked
    BY <1>1 DEF PollDebugger, update_debugger_window, break
  <2>3. at = "debugger" /\ at' \in {"half", "done"}
    BY <1>1 DEF PollDebugger, update_debugger_window, break
  <2> QED BY <2>1, <2>2, <2>3
<1>2. CASE MiddleOfFrame
  BY <1>0, <1>2 DEF MiddleOfFrame, request_interrupt
<1>3. CASE EndOfFrame
  BY <1>0, <1>3 DEF EndOfFrame, request_interrupt, break
<1>4. CASE Execute
  <2>1. PICK c \in Cycles : total_cycles' = total_cycles + c
    BY <1>4 DEF Execute, fetch_execute_instruction
  <2>2. /\ total_cycles' <= VBLANK_RATE + MaxCycles
        /\ ~interrupt_requested' => total_cycles' <= VBLANK_RATE \div 2 + MaxCycles
    BY <1>0, <1>4, <2>1 DEF Execute
  <2>3. waiting' => masked'
    BY <1>4 DEF Execute, fetch_execute_instruction, slotVars
  <2>4. at' = "debugger"
    BY <1>4 DEF Execute
  <2> QED BY <2>2, <2>3, <2>4
<1>5. CASE Idle
  BY <1>0, <1>5 DEF Idle
<1>6. CASE UserCloses
  BY <1>6 DEF UserCloses
<1>7. CASE Terminated \/ UNCHANGED vars
  BY <1>7 DEF Terminated, vars
<1> QED BY <1>1, <1>2, <1>3, <1>4, <1>5, <1>6, <1>7 DEF Next, Loop

(***************************************************************************)
(* The loop of main.cpp never overshoots a frame by more than the          *)
(* instruction that ends it, and never enters an instruction with a        *)
(* request due.                                                            *)
(***************************************************************************)
THEOREM FrameInvariant == Spec => []FrameInv
<1>1. Init => FrameInv
  BY InitFrameInv
<1>2. FrameInv /\ [Next]_vars => FrameInv'
  BY NextFrameType, NextTimely DEF FrameInv
<1> QED BY <1>1, <1>2, PTL DEF Spec

-----------------------------------------------------------------------------
\* A step that requests an interrupt over a waiting one follows an instruction
\* that ran with interrupts disabled.
LEMMA RequestLosesMasked ==
    FrameInv /\ [Next]_vars =>
      (waiting /\ interrupt_requested' # interrupt_requested => masked)
<1> SUFFICES ASSUME FrameInv, [Next]_vars, waiting,
                    interrupt_requested' # interrupt_requested
             PROVE  masked
    OBVIOUS
<1>1. HalfDue \/ FrameDue
  BY DEF Next, Loop, PollDebugger, update_debugger_window, break, MiddleOfFrame, EndOfFrame,
         Execute, Idle, UserCloses, Terminated, vars, loopVars, debugVars
<1> QED BY <1>1 DEF FrameInv, Timely

(***************************************************************************)
(* The one-slot interrupt system loses a request of the loop only to a     *)
(* program that kept interrupts disabled.                                  *)
(***************************************************************************)
THEOREM RequestsLostOnlyWhileMasked == Spec => LostOnlyWhileMasked
<1>1. FrameInv /\ [Next]_vars =>
        [waiting /\ interrupt_requested' # interrupt_requested => masked]_vars
  BY RequestLosesMasked
<1> QED BY <1>1, FrameInvariant, PTL DEF Spec, LostOnlyWhileMasked

-----------------------------------------------------------------------------
\* Every step of the loop is a step of the clock or leaves it alone.
LEMMA ClockStep == FrameInv /\ [Next]_vars => [Clock!Next]_(Clock!vars)
<1> SUFFICES ASSUME FrameInv, [Next]_vars PROVE [Clock!Next]_(Clock!vars)
    OBVIOUS
<1> USE DEF Clock!vars, loopVars, debugVars
<1>1. CASE PollDebugger
  BY <1>1 DEF PollDebugger, update_debugger_window, break
<1>2. CASE MiddleOfFrame
  BY <1>2 DEF MiddleOfFrame, HalfDue, Clock!Next, Clock!RequestRst1, Clock!HalfDue
<1>3. CASE EndOfFrame
  <2>1. FrameDue => interrupt_requested
    BY <1>3, HalfFrame DEF EndOfFrame, FrameInv, Timely, FrameTypeOK, FrameDue, HalfDue
  <2> QED BY <1>3, <2>1 DEF EndOfFrame, break, FrameDue,
             Clock!Next, Clock!RequestRst2, Clock!FrameDue
<1>4. CASE Execute
  <2>1. ~HalfDue /\ ~FrameDue
    BY <1>4 DEF Execute, FrameInv, Timely
  <2> QED BY <1>4, <2>1 DEF Execute, fetch_execute_instruction, HalfDue, FrameDue,
             Clock!Next, Clock!Run, Clock!HalfDue, Clock!FrameDue
<1>5. CASE Idle
  BY <1>5 DEF Idle
<1>6. CASE UserCloses
  BY <1>6 DEF UserCloses
<1>7. CASE Terminated \/ UNCHANGED vars
  BY <1>7 DEF Terminated, vars
<1> QED BY <1>1, <1>2, <1>3, <1>4, <1>5, <1>6, <1>7 DEF Next, Loop

(***************************************************************************)
(* The loop of main.cpp implements the game's clock.                       *)
(***************************************************************************)
THEOREM LoopImplementsClock == Spec => ImplementsFrameClock
<1>1. Init => Clock!Init
  BY DEF Init, Clock!Init
<1>2. FrameInv /\ [Next]_vars => [Clock!Next]_(Clock!vars)
  BY ClockStep
<1> QED BY <1>1, <1>2, FrameInvariant, PTL DEF Spec, ImplementsFrameClock, Clock!Spec
=============================================================================
