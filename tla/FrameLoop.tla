------------------------------ MODULE FrameLoop ------------------------------
(***************************************************************************)
(* The loop of src/src/core/invaders/main.cpp:69-145, in its release build *)
(* and in its debug build, with the user as its environment.  A pass of    *)
(* the loop is four steps: the debugger's window, the request in the       *)
(* middle of the frame, the game's window and the request at the end of    *)
(* the frame, and one instruction.  The user may act between any two.      *)
(*                                                                         *)
(* Of the processor the loop sees the interrupt slot, the halt and the     *)
(* cycles an instruction takes; the instructions themselves are any.       *)
(***************************************************************************)
EXTENDS Integers

CONSTANTS
    VBLANK_RATE,   \* the cycles of a frame, 33333 in main.cpp
    Cycles,        \* what fetch_execute_instruction can return, 4..18
    MaxCycles,     \* the largest of them
    Builds,        \* the builds: TRUE has the debugger (no NDEBUG)
    Halts          \* the programs: TRUE are those that may execute HLT

ASSUME FrameAssumption ==
    /\ VBLANK_RATE \in Nat /\ MaxCycles \in Nat
    /\ Cycles \subseteq 1..MaxCycles
    /\ MaxCycles <= VBLANK_RATE - VBLANK_RATE \div 2
    /\ Builds \subseteq BOOLEAN /\ Halts \subseteq BOOLEAN

VARIABLES
    debug_build,         \* of Builds; it never changes
    may_halt,            \* of Halts; it never changes
    at,                  \* the next step of the loop, or "done"
    total_cycles,
    interrupt_requested,
    gui_running,
    debug_cpu_running,   \* the debugger lets the processor run
    step_through_cpu,    \* the debugger asked for one instruction
    enabled, waiting, instruction,   \* m_interrupt
    halted,              \* m_halted
    closing,             \* the close and quit events in SDL's queue
    masked               \* an instruction ran with interrupts disabled since
                         \* the last request

loopVars == <<total_cycles, interrupt_requested, gui_running>>
debugVars == <<debug_cpu_running, step_through_cpu>>
slotVars == <<waiting, instruction>>
cpuVars == <<enabled, waiting, instruction, halted, masked>>
setup == <<debug_build, may_halt>>
vars == <<setup, at, loopVars, debugVars, cpuVars, closing>>

\* SDL_QUIT, and the close events of the game's and the debugger's window.
CloseEvents == {"quit", "game", "debugger"}

\* What main.cpp requests: RST 1 and RST 2.
RST1 == 207
RST2 == 215
NoInstruction == 0

FrameTypeOK ==
    /\ at \in {"debugger", "half", "vblank", "exec", "done"}
    /\ total_cycles \in Nat
    /\ interrupt_requested \in BOOLEAN /\ gui_running \in BOOLEAN
    /\ debug_cpu_running \in BOOLEAN /\ step_through_cpu \in BOOLEAN
    /\ enabled \in BOOLEAN /\ waiting \in BOOLEAN /\ halted \in BOOLEAN
    /\ instruction \in {RST1, RST2, NoInstruction}
    /\ closing \subseteq CloseEvents /\ masked \in BOOLEAN
    /\ debug_build \in BOOLEAN /\ may_halt \in BOOLEAN

Init ==
    /\ debug_build \in Builds /\ may_halt \in Halts
    /\ at = "debugger"
    /\ total_cycles = 0 /\ interrupt_requested = FALSE /\ gui_running = TRUE
    /\ debug_cpu_running = FALSE /\ step_through_cpu = FALSE
    /\ enabled = FALSE /\ waiting = FALSE /\ instruction = NoInstruction
    /\ halted = FALSE
    /\ closing = {}
    /\ masked = FALSE

-----------------------------------------------------------------------------
\* What ends the program when a poll of the debugger's window, or of the
\* game's, takes it from the queue both share.
EndsDebugger == CloseEvents
EndsGame == {"quit", "game"}

\* A poll found such an event: the loop breaks, the processor is reset and main
\* returns.
break(ends) ==
    /\ closing \cap ends # {}
    /\ gui_running' = FALSE /\ at' = "done"
    /\ enabled' = FALSE /\ waiting' = FALSE /\ instruction' = NoInstruction
    /\ halted' = FALSE
    /\ UNCHANGED <<total_cycles, interrupt_requested, debugVars, masked, closing>>

\* A poll found none: it has taken every event from the queue.
drain(ends) == closing \cap ends = {} /\ closing' = {}

request_interrupt(ins) ==
    /\ instruction' = ins /\ waiting' = TRUE
    /\ halted' = FALSE
    /\ masked' = FALSE
    /\ UNCHANGED enabled

HalfDue == total_cycles > VBLANK_RATE \div 2 /\ ~interrupt_requested
FrameDue == total_cycles > VBLANK_RATE

\* The debugger's window is updated in every pass while the processor is
\* paused, and once a frame while it runs.  Its buttons are Step and Run/Pause.
update_debugger_window ==
    \/ break(EndsDebugger)
    \/ /\ drain(EndsDebugger)
       /\ debug_cpu_running' \in BOOLEAN
       /\ step_through_cpu' \in {step_through_cpu, TRUE}
       /\ at' = "half"
       /\ UNCHANGED <<loopVars, cpuVars>>

\* Mutant: the window is updated only while frames end.
PollDebuggerPerFrame ==
    /\ at = "debugger" /\ UNCHANGED setup
    /\ \/ debug_build /\ FrameDue /\ update_debugger_window
       \/ /\ ~(debug_build /\ FrameDue)
          /\ at' = "half" /\ UNCHANGED <<loopVars, debugVars, cpuVars, closing>>

PollDebugger ==
    /\ at = "debugger" /\ UNCHANGED setup
    /\ \/ /\ debug_build /\ (FrameDue \/ ~debug_cpu_running)
          /\ update_debugger_window
       \/ /\ ~(debug_build /\ (FrameDue \/ ~debug_cpu_running))
          /\ at' = "half"
          /\ UNCHANGED <<loopVars, debugVars, cpuVars, closing>>

\* Mutant: the frame starts again in its middle.
MiddleOfFrameRestarts ==
    /\ at = "half"
    /\ at' = "vblank"
    /\ \/ HalfDue /\ request_interrupt(RST1) /\ total_cycles' = 0
       \/ ~HalfDue /\ UNCHANGED <<total_cycles, cpuVars>>
    /\ UNCHANGED <<interrupt_requested, gui_running, debugVars, closing, setup>>

MiddleOfFrame ==
    /\ at = "half"
    /\ at' = "vblank"
    /\ \/ /\ HalfDue
          /\ request_interrupt(RST1)
          /\ interrupt_requested' = TRUE
       \/ /\ ~HalfDue
          /\ UNCHANGED <<interrupt_requested, cpuVars>>
    /\ UNCHANGED <<total_cycles, gui_running, debugVars, closing, setup>>

\* Mutant: the flag of the RST 1 request survives the frame.
EndOfFrameKeepsFlag ==
    /\ at = "vblank" /\ UNCHANGED setup
    /\ \/ FrameDue /\ break(EndsGame)
       \/ /\ FrameDue /\ drain(EndsGame)
          /\ request_interrupt(RST2)
          /\ total_cycles' = 0
          /\ at' = "exec"
          /\ UNCHANGED <<interrupt_requested, gui_running, debugVars>>
       \/ /\ ~FrameDue
          /\ at' = "exec"
          /\ UNCHANGED <<loopVars, debugVars, cpuVars, closing>>

\* Mutant: the game's poll does not look at SDL_QUIT.
EndOfFrameNoQuit ==
    /\ at = "vblank" /\ UNCHANGED setup
    /\ \/ FrameDue /\ break({"game"})
       \/ /\ FrameDue /\ drain({"game"})
          /\ request_interrupt(RST2)
          /\ total_cycles' = 0 /\ interrupt_requested' = FALSE
          /\ at' = "exec"
          /\ UNCHANGED <<gui_running, debugVars>>
       \/ /\ ~FrameDue
          /\ at' = "exec"
          /\ UNCHANGED <<loopVars, debugVars, cpuVars, closing>>

EndOfFrame ==
    /\ at = "vblank" /\ UNCHANGED setup
    /\ \/ FrameDue /\ break(EndsGame)
       \/ /\ FrameDue /\ drain(EndsGame)
          /\ request_interrupt(RST2)
          /\ total_cycles' = 0 /\ interrupt_requested' = FALSE
          /\ at' = "exec"
          /\ UNCHANGED <<gui_running, debugVars>>
       \/ /\ ~FrameDue
          /\ at' = "exec"
          /\ UNCHANGED <<loopVars, debugVars, cpuVars, closing>>

-----------------------------------------------------------------------------
\* Mutant: a waiting request has no priority over the program.
fetch_execute_any ==
    /\ \E c \in Cycles : total_cycles' = total_cycles + c
    /\ masked' = (masked \/ ~enabled)
    /\ enabled' \in BOOLEAN
    /\ UNCHANGED <<slotVars, halted>>

\* One instruction: the waiting one, or one of the program, which may be EI or
\* DI, or HLT.
fetch_execute_instruction ==
    /\ \E c \in Cycles : total_cycles' = total_cycles + c
    /\ masked' = (masked \/ ~enabled)
    /\ \/ /\ enabled /\ waiting
          /\ waiting' = FALSE /\ instruction' = NoInstruction
          /\ UNCHANGED <<enabled, halted>>
       \/ /\ ~(enabled /\ waiting)
          /\ enabled' \in BOOLEAN
          /\ UNCHANGED <<slotVars, halted>>
       \/ /\ ~(enabled /\ waiting)
          /\ may_halt /\ halted' = TRUE
          /\ UNCHANGED <<enabled, slotVars>>

\* Mutant: several instructions run in one pass.
ExecuteMany ==
    /\ at = "exec"
    /\ ~halted /\ (debug_build => step_through_cpu \/ debug_cpu_running)
    /\ fetch_execute_instruction
    /\ at' \in {"exec", "debugger"}
    /\ UNCHANGED <<interrupt_requested, gui_running, debugVars, closing, setup>>

\* In the debug build an instruction that ends at a breakpoint pauses the
\* processor, and any instruction uses up the Step.
Execute ==
    /\ at = "exec"
    /\ ~halted /\ (debug_build => step_through_cpu \/ debug_cpu_running)
    /\ fetch_execute_instruction
    /\ \/ debug_build /\ debug_cpu_running' \in {debug_cpu_running, FALSE} /\ step_through_cpu' = FALSE
       \/ ~debug_build /\ UNCHANGED debugVars
    /\ at' = "debugger"
    /\ UNCHANGED <<interrupt_requested, gui_running, closing, setup>>

Idle ==
    /\ at = "exec"
    /\ halted \/ (debug_build /\ ~step_through_cpu /\ ~debug_cpu_running)
    /\ at' = "debugger"
    /\ UNCHANGED <<loopVars, debugVars, cpuVars, closing, setup>>

Loop == PollDebugger \/ MiddleOfFrame \/ EndOfFrame \/ Execute \/ Idle

\* The user closes a window, or interrupts the program: an event waits in SDL's
\* queue.
UserCloses ==
    /\ at # "done"
    /\ \E event \in CloseEvents \ closing :
         /\ event = "debugger" => debug_build
         /\ closing' = closing \cup {event}
    /\ UNCHANGED <<setup, at, loopVars, debugVars, cpuVars>>

Terminated == at = "done" /\ UNCHANGED vars

Next == Loop \/ UserCloses \/ Terminated

\* The loop never blocks: main's thread is scheduled.  The user owes nothing.
Spec == Init /\ [][Next]_vars /\ WF_vars(Loop)

-----------------------------------------------------------------------------
(***************************************************************************)
(* The loop keeps the game's clock: its two requests alternate, each in    *)
(* the pass in which it falls due, and no instruction runs in between      *)
(* (main.cpp:98-116 before main.cpp:117-131).                              *)
(***************************************************************************)
Clock == INSTANCE FrameClock
           WITH FrameLength <- VBLANK_RATE, Durations <- Cycles,
                elapsed <- total_cycles, half_done <- interrupt_requested

ImplementsFrameClock == Clock!Spec

(***************************************************************************)
(* A request overwrites one that still waits only if the program ran an    *)
(* instruction with interrupts disabled in between: RST 1 and RST 2 are    *)
(* far enough apart that an enabled processor takes each, paused by the    *)
(* debugger or not (request_interrupt has one slot, cpu.cpp:77-81).        *)
(***************************************************************************)
LostOnlyWhileMasked ==
    [][waiting /\ interrupt_requested' # interrupt_requested => masked]_vars

(***************************************************************************)
(* Until the program ends frames keep ending: the screen is drawn and the  *)
(* keys are read again and again, unless the debugger keeps pausing the    *)
(* processor or the program halts it (main.cpp:103-116).                   *)
(***************************************************************************)
FramesKeepEnding ==
    \/ []<>(at = "vblank" /\ FrameDue)
    \/ <>(at = "done")
    \/ may_halt
    \/ []<>(debug_build /\ ~debug_cpu_running)

(***************************************************************************)
(* Closing the game's window ends the program, as gui.cpp:201 says it      *)
(* should "even when its not updating (due to the cpu being paused for     *)
(* example)".                                                              *)
(***************************************************************************)
CloseEnds == "game" \in closing ~> at = "done"

(***************************************************************************)
(* Only a processor that stays halted keeps a close or quit event waiting: *)
(* main.cpp:118 and 122 add no cycles then, so no window is polled again.  *)
(* Otherwise SDL_QUIT and the close event of the game's window end the     *)
(* program.  The close event of the debugger's window is taken too, but    *)
(* when the game's poll is the one that takes it (gui.cpp:86-93) it is     *)
(* dropped and the program goes on.                                        *)
(***************************************************************************)
CloseEndsUnlessHalted ==
    \/ <>[]halted
    \/ /\ \A event \in {"quit", "game"} : (event \in closing ~> at = "done")
       /\ "debugger" \in closing ~> at = "done" \/ "debugger" \notin closing

(***************************************************************************)
(* Why the clock is kept and no request is lost: the loop enters the       *)
(* instruction with nothing due, so it overshoots by one instruction at    *)
(* most, and a request that waits with interrupts enabled was made since   *)
(* the last instruction, when the next one was not yet due.                *)
(***************************************************************************)
Timely ==
    /\ total_cycles <= VBLANK_RATE + MaxCycles
    /\ at \in {"debugger", "half"} /\ ~interrupt_requested =>
         total_cycles <= VBLANK_RATE \div 2 + MaxCycles
    /\ at \in {"vblank", "exec"} => ~HalfDue
    /\ at = "exec" => ~FrameDue
    /\ waiting /\ ~masked => ~HalfDue /\ ~FrameDue

FrameInv == FrameTypeOK /\ Timely
=============================================================================
