--------------------------- MODULE InvadersMachine ---------------------------
(***************************************************************************)
(* The whole emulator: main of src/src/core/invaders/main.cpp with the     *)
(* processor, the bus, the ROM it loads and, in the debug build, the       *)
(* debugger's breakpoints (src/src/gui/gui.cpp:229-271).  The loop is the  *)
(* one of FrameLoop; here it runs the processor of I8080Cpu.  The keys of  *)
(* a frame are any.                                                        *)
(***************************************************************************)
EXTENDS I8080Cycles, RomLoader

CONSTANTS
    VBLANK_RATE,       \* the cycles of a frame, 33333 in main.cpp
    MAX_BREAKPOINTS,   \* the slots of the breakpoint table, 16 in main.cpp
    Builds,            \* the builds: TRUE has the debugger (no NDEBUG)
    RomFiles,          \* sets of the four files
    Games,             \* those of a program that keeps enabling interrupts
    InputBytes,        \* what get_inputs returns
    Addresses,         \* the addresses the user enters as breakpoints
    Closes             \* the close events the user makes

ASSUME MachineAssumption ==
    /\ ROM_SIZE = INVADERS_ROM_SIZE
    /\ VBLANK_RATE \in Nat /\ VBLANK_RATE >= 36
    /\ MAX_BREAKPOINTS \in Nat
    /\ Builds \subseteq BOOLEAN
    /\ \A set \in RomFiles : AreRomFiles(set)
    /\ InputBytes \subseteq [0..2 -> Byte]
    /\ Addresses \subseteq Word
    /\ Closes \subseteq {"quit", "game", "debugger"}

VARIABLES
    debug_build,           \* of Builds; it never changes
    files,                 \* the ROM's files; they never change
    at,                    \* the next step of the loop, or "done"
    total_cycles, interrupt_requested, gui_running,
    debug_cpu_running, step_through_cpu,
    breakpoints,           \* the table
    breakpoints_initialised, available_breakpoint_slot_idx,   \* static variables
    closing,               \* the close events in SDL's queue
    typed,                 \* the addresses entered, as many as there are slots
    masked                 \* as in FrameLoop

clockVars == <<total_cycles, interrupt_requested>>
buttonVars == <<debug_cpu_running, step_through_cpu>>
breakpointVars == <<breakpoints, breakpoints_initialised, available_breakpoint_slot_idx, typed>>
setup == <<debug_build, files>>
vars == <<cpuVars, busVars, setup, at, clockVars, gui_running, buttonVars, breakpointVars,
          closing, masked>>

\* The marker of a free slot, 0xf0000: no address.
FreeSlot == -1
Slots == 0..MAX_BREAKPOINTS - 1

Init ==
    /\ debug_build \in Builds
    /\ files \in {f \in RomFiles : ~load_invaders_rom(f).panic}
    /\ BusInit(load_rom(load_invaders_rom(files)))
    /\ CpuInit(0)
    /\ at = "debugger"
    /\ total_cycles = 0 /\ interrupt_requested = FALSE /\ gui_running = TRUE
    /\ debug_cpu_running = FALSE /\ step_through_cpu = FALSE
    /\ breakpoints = [slot \in Slots |-> 0]
    /\ breakpoints_initialised = FALSE /\ available_breakpoint_slot_idx = 0
    /\ closing = {} /\ typed = <<>> /\ masked = FALSE

-----------------------------------------------------------------------------
HalfDue == total_cycles > VBLANK_RATE \div 2 /\ ~interrupt_requested
FrameDue == total_cycles > VBLANK_RATE

\* A poll found an event that closes the program: cpu.reset(), and main returns.
break(ends) ==
    /\ closing \cap ends # {}
    /\ gui_running' = FALSE /\ at' = "done"
    /\ reset
    /\ UNCHANGED <<setup, clockVars, buttonVars, breakpointVars, closing, masked>>

drain(ends) == closing \cap ends = {} /\ closing' = {}

\* What the debugger's first update makes of the table.
initialised_breakpoints ==
    IF breakpoints_initialised THEN breakpoints ELSE [slot \in Slots |-> FreeSlot]

\* Mutant: the index of the next slot is not advanced.
add_breakpoint_over(addr) ==
    LET table == initialised_breakpoints
    IN  IF available_breakpoint_slot_idx >= MAX_BREAKPOINTS
        THEN breakpoints' = table /\ UNCHANGED available_breakpoint_slot_idx
        ELSE /\ breakpoints' = [table EXCEPT ![available_breakpoint_slot_idx] = addr]
             /\ UNCHANGED available_breakpoint_slot_idx

\* The user enters an address: it goes to the first free slot that the static
\* index has not passed, if there is one.
add_breakpoint(addr) ==
    LET table == initialised_breakpoints
        free == {slot \in Slots : slot >= available_breakpoint_slot_idx /\ table[slot] = FreeSlot}
    IN  \/ /\ free = {}
           /\ breakpoints' = table /\ available_breakpoint_slot_idx' = MAX_BREAKPOINTS
        \/ \E slot \in free :
             /\ \A other \in free : slot <= other
             /\ breakpoints' = [table EXCEPT ![slot] = addr]
             /\ available_breakpoint_slot_idx' = slot + 1

\* The buttons Step and Run/Pause, and the field for a breakpoint.
update_debugger_window ==
    \/ break({"quit", "game", "debugger"})
    \/ /\ drain({"quit", "game", "debugger"})
       /\ debug_cpu_running' \in BOOLEAN /\ step_through_cpu' \in {step_through_cpu, TRUE}
       /\ breakpoints_initialised' = TRUE
       /\ \/ /\ breakpoints' = initialised_breakpoints
             /\ UNCHANGED <<available_breakpoint_slot_idx, typed>>
          \/ \E addr \in Addresses :
               /\ add_breakpoint(addr)
               /\ typed' = IF Len(typed) < MAX_BREAKPOINTS THEN Append(typed, addr) ELSE typed
       /\ at' = "half"
       /\ UNCHANGED <<cpuVars, busVars, setup, clockVars, gui_running, masked>>

PollDebugger ==
    /\ at = "debugger"
    /\ \/ debug_build /\ (FrameDue \/ ~debug_cpu_running) /\ update_debugger_window
       \/ /\ ~(debug_build /\ (FrameDue \/ ~debug_cpu_running))
          /\ at' = "half"
          /\ UNCHANGED <<cpuVars, busVars, setup, clockVars, gui_running, buttonVars,
                         breakpointVars, closing, masked>>

MiddleOfFrame ==
    /\ at = "half" /\ at' = "vblank"
    /\ \/ /\ HalfDue
          /\ request_interrupt(207)
          /\ interrupt_requested' = TRUE /\ masked' = FALSE
       \/ ~HalfDue /\ UNCHANGED <<cpuVars, busVars, interrupt_requested, masked>>
    /\ UNCHANGED <<setup, total_cycles, gui_running, buttonVars, breakpointVars, closing>>

\* Mutant: the inputs are stored, but no interrupt is requested.
EndOfFrameNoRequest ==
    /\ at = "vblank"
    /\ \/ FrameDue /\ break({"quit", "game"})
       \/ /\ FrameDue /\ drain({"quit", "game"})
          /\ total_cycles' = 0 /\ interrupt_requested' = FALSE /\ masked' = FALSE
          /\ \E kb_inputs \in InputBytes : StoreInputs(kb_inputs)
          /\ at' = "exec"
          /\ UNCHANGED <<cpuVars, setup, gui_running, buttonVars, breakpointVars>>
       \/ /\ ~FrameDue /\ at' = "exec"
          /\ UNCHANGED <<cpuVars, busVars, setup, clockVars, gui_running, buttonVars,
                         breakpointVars, closing, masked>>

EndOfFrame ==
    /\ at = "vblank"
    /\ \/ FrameDue /\ break({"quit", "game"})
       \/ /\ FrameDue /\ drain({"quit", "game"})
          /\ m_interrupt' = [m_interrupt EXCEPT !.instruction = 215, !.waiting = TRUE]
          /\ m_halted' = FALSE
          /\ total_cycles' = 0 /\ interrupt_requested' = FALSE /\ masked' = FALSE
          /\ \E kb_inputs \in InputBytes : StoreInputs(kb_inputs)
          /\ at' = "exec"
          /\ UNCHANGED <<registerVars, setup, gui_running, buttonVars, breakpointVars>>
       \/ /\ ~FrameDue /\ at' = "exec"
          /\ UNCHANGED <<cpuVars, busVars, setup, clockVars, gui_running, buttonVars,
                         breakpointVars, closing, masked>>

ProcessorRuns == ~m_halted /\ (debug_build => step_through_cpu \/ debug_cpu_running)

\* One instruction; in the debug build one that ends at a breakpoint pauses the
\* processor.
Execute ==
    /\ at = "exec" /\ at' = "debugger"
    /\ ProcessorRuns
    /\ fetch_execute_instruction
    /\ total_cycles' = total_cycles + instruction_cycles
    /\ masked' = (masked \/ ~m_interrupt.enabled)
    /\ \/ /\ debug_build /\ step_through_cpu' = FALSE
          /\ debug_cpu_running' =
               (debug_cpu_running /\ \A slot \in Slots : breakpoints[slot] # m_pc')
       \/ ~debug_build /\ UNCHANGED buttonVars
    /\ UNCHANGED <<setup, interrupt_requested, gui_running, breakpointVars, closing>>

Idle ==
    /\ at = "exec" /\ at' = "debugger"
    /\ ~ProcessorRuns
    /\ UNCHANGED <<cpuVars, busVars, setup, clockVars, gui_running, buttonVars,
                   breakpointVars, closing, masked>>

Loop == PollDebugger \/ MiddleOfFrame \/ EndOfFrame \/ Execute \/ Idle

UserCloses ==
    /\ at # "done"
    /\ \E event \in Closes \ closing :
         /\ event = "debugger" => debug_build
         /\ closing' = closing \cup {event}
    /\ UNCHANGED <<cpuVars, busVars, setup, at, clockVars, gui_running, buttonVars,
                   breakpointVars, masked>>

Terminated == at = "done" /\ UNCHANGED vars

Next == Loop \/ UserCloses \/ Terminated

\* The loop's steps are the steps that change at, and one of them is enabled until
\* the program has ended.
GoesOn == at # "done" /\ at' \in {"debugger", "half", "vblank", "exec", "done"}

\* The loop never blocks: main's thread is scheduled.  The user owes nothing.
Spec == Init /\ [][Next]_vars /\ WF_at(GoesOn)

-----------------------------------------------------------------------------
(***************************************************************************)
(* The abstract loop of FrameLoop is this one: its nondeterministic        *)
(* instruction is what the processor does to the interrupt slot, the halt  *)
(* and the clock, with the table's cycles, and its nondeterministic        *)
(* breakpoint is the debugger's table.  What FrameLoop shows of the clock  *)
(* and of lost requests therefore holds of every program.                  *)
(***************************************************************************)
Frame == INSTANCE FrameLoop
           WITH Cycles <- 4..18, MaxCycles <- 18, Halts <- {TRUE}, may_halt <- TRUE,
                enabled <- m_interrupt.enabled, waiting <- m_interrupt.waiting,
                instruction <- m_interrupt.instruction, halted <- m_halted

ImplementsFrameLoop == Frame!Init /\ [][Frame!Next]_(Frame!vars)

(***************************************************************************)
(* In the debug build the processor pauses behind an instruction exactly   *)
(* when the instruction leads to an address the user entered while a slot  *)
(* was free: no entry replaces another, and the table's other slots, and   *)
(* the zeros it is declared with, stop nothing (gui.cpp:238-264 and        *)
(* main.cpp:124-129).                                                      *)
(***************************************************************************)
BreakpointsPause ==
    [][debug_build /\ Execute =>
         debug_cpu_running' =
           (debug_cpu_running /\ \A i \in DOMAIN typed : typed[i] # m_pc')]_vars

(***************************************************************************)
(* A program that keeps enabling interrupts takes RST 1 and RST 2 again    *)
(* and again, so its two routines run, unless it is closed or the debugger *)
(* keeps pausing it: the requests, the cycles of the instructions, the     *)
(* acceptance and the routines themselves work together (main.cpp:98-131   *)
(* with cpu.cpp:77-96).                                                    *)
(***************************************************************************)
RoutinesRun ==
    files \in Games =>
        \/ <>(at = "done")
        \/ []<>(debug_build /\ ~debug_cpu_running)
        \/ \A routine \in {8, 16} : []<>(at = "debugger" /\ m_pc = routine)

(***************************************************************************)
(* The processor runs the program of the files: each byte of a file that   *)
(* lies in the file's quarter of the ROM is where it belongs.              *)
(***************************************************************************)
RomInPlace == InPlace(files, m_rom)
=============================================================================
