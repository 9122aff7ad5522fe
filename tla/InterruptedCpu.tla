--------------------------- MODULE InterruptedCpu ---------------------------
(***************************************************************************)
(* The processor with a device that requests interrupts between any two    *)
(* instructions, as the main loop may.  The auxiliary variables remember   *)
(* the requests made and, while interrupts are being served, every word    *)
(* their acceptances and routines put on the stack and did not take off.   *)
(***************************************************************************)
EXTENDS I8080Cpu, Sequences

CONSTANTS
    Roms,          \* the programs
    Vectors,       \* the RST instructions requested: RST 1 and RST 2 in main.cpp
    MaxRequests,   \* bound: the requests of a behaviour
    MaxResets      \* bound: the resets of a behaviour

ASSUME DeviceAssumption ==
    /\ Roms \subseteq RomImage
    /\ Vectors \subseteq {199 + 8 * n : n \in 0..7}
    /\ MaxRequests \in Nat /\ MaxResets \in Nat

VARIABLES
    requests,   \* the number of requests made
    resets,     \* the number of resets
    ran,        \* the interrupt instruction the last step took, or None
    stacked     \* what the interrupts being served have on the stack, the top last

vars == <<cpuVars, busVars, requests, resets, ran, stacked>>

None == -1

Init ==
    /\ \E rom \in Roms : BusInit(rom)
    /\ CpuInit(0)
    /\ requests = 0 /\ resets = 0
    /\ ran = None
    /\ stacked = <<>>

\* What an interrupted program can see of the machine.
Snapshot == [pc |-> m_pc, sp |-> m_sp, psw |-> m_psw, regs |-> m_regs, ram |-> m_ram]

\* What a word on the stack is: a register pair, by its bit pattern in PUSH and
\* POP, a return address, or the program counter at an interrupt.
CALL == 4
INTERRUPT == 5

Top == stacked[Len(stacked)]

\* The word a step puts on the stack, the machine before it, and the register
\* pairs the routine has on the stack from its start to this word.
Stacking(what, pairs) == Append(stacked, [what |-> what, before |-> Snapshot, pairs |-> pairs])

Step ==
    /\ fetch_execute_instruction
    /\ ran' = IF accepting THEN ins ELSE None
    /\ stacked' = IF accepting THEN Stacking(INTERRUPT, {})
                  ELSE IF stacked = <<>> THEN stacked
                  ELSE IF calling THEN Stacking(CALL, Top.pairs)
                  ELSE IF pushing THEN Stacking(RP, Top.pairs \cup {RP})
                  ELSE IF returning \/ popping THEN SubSeq(stacked, 1, Len(stacked) - 1)
                  ELSE stacked
    /\ UNCHANGED <<requests, resets>>

Device ==
    /\ requests < MaxRequests
    /\ \E instruction \in Vectors : request_interrupt(instruction)
    /\ requests' = requests + 1
    /\ UNCHANGED <<resets, ran, stacked>>

Reset ==
    /\ resets < MaxResets
    /\ reset
    /\ resets' = resets + 1
    /\ stacked' = <<>>
    /\ UNCHANGED <<requests, ran>>

Next == Step \/ Device \/ Reset

Spec == Init /\ [][Next]_vars

-----------------------------------------------------------------------------
(***************************************************************************)
(* The struct InterruptSystem of cpu.h and its uses in                     *)
(* request_interrupt, fetch_execute_instruction, ei, di and reset          *)
(* implement the one-slot latch.                                           *)
(***************************************************************************)
Latch == INSTANCE InterruptLatch
           WITH Requests <- Vectors, NoRequest <- None, Program <- None,
                enabled <- m_interrupt.enabled, running <- ran,
                slot <- IF m_interrupt.waiting THEN m_interrupt.instruction ELSE None

ImplementsLatch == Latch!Spec

\* The step calls the routine of the request that waits.
Calling ==
    /\ m_interrupt.enabled /\ ~m_halted
    /\ m_pc' = m_interrupt.instruction - 199
    /\ m_sp' = Wrap(m_sp - 2)
    /\ UNCHANGED <<m_psw, m_regs, m_halted>>
    /\ m_interrupt'.enabled
    /\ StackWritable =>
         /\ MakeWord(top_low, top_high)' = m_pc
         /\ \A i \in DOMAIN m_ram \ {Cell(Wrap(m_sp - 1)), Cell(Wrap(m_sp - 2))} :
              m_ram'[i] = m_ram[i]

(***************************************************************************)
(* A request that leaves the slot, other than by a reset, was taken, and a *)
(* taken RST n is a call of 8 * n from between two instructions: the       *)
(* program counter is pushed as it is, no byte fetched, and with the stack *)
(* in the RAM it is at the top of it, with every other cell, the           *)
(* registers and the flags as they were (the acceptance in                 *)
(* fetch_execute_instruction, rst and push).                               *)
(***************************************************************************)
AcceptanceIsCall ==
    [][m_interrupt.waiting /\ ~m_interrupt'.waiting /\ resets' = resets => Calling]_vars

\* The RAM at and above a stack pointer, of which 0 is behind the last address.
Above(sp) == {i \in 0..INVADERS_RAM_SIZE - 1 : i + ram_offset > Wrap(sp - 1)}

\* An interrupt ends: its routine returns.
Resuming == Len(stacked') < Len(stacked) /\ Top.what = INTERRUPT /\ resets' = resets

(***************************************************************************)
(* An interrupt whose routine saves what it uses is invisible: at its      *)
(* return the interrupted program finds its program counter, stack         *)
(* pointer, registers, flags and the memory at and above its stack         *)
(* pointer as they were, however the interrupts nested (the acceptance,    *)
(* rst, push, pop and ret of cpu.cpp).                                     *)
(***************************************************************************)
InterruptTransparent ==
    [][Resuming =>
         /\ m_pc' = Top.before.pc
         /\ m_sp' = Top.before.sp
         /\ m_psw' = Top.before.psw
         /\ m_regs' = Top.before.regs
         /\ \A i \in Above(Top.before.sp) : m_ram'[i] = Top.before.ram[i]]_vars

(***************************************************************************)
(* The processor comes to rest in the HLT of the program only with every   *)
(* interrupt returned from: no acceptance, push, pop or return loses a     *)
(* word of the stack (fetch_execute_instruction, rst, ret, push and pop).  *)
(***************************************************************************)
RestsReturned == m_halted => stacked = <<>>

-----------------------------------------------------------------------------
\* The memory routines leave alone: the words on the stack, and for an
\* interrupted program what lies at and above its stack pointer.
WordCells == {Cell(Wrap(stacked[n].before.sp - i)) : n \in DOMAIN stacked, i \in {1, 2}}
Kept == WordCells \cup UNION {Above(stacked[n].before.sp) :
                                 n \in {m \in DOMAIN stacked : stacked[m].what = INTERRUPT}}

(***************************************************************************)
(* What an interrupt routine of this processor has to do: it pops the      *)
(* pairs it pushed, last in first out, and returns with nothing of its own *)
(* on the stack; it changes only pairs it has pushed, and the stack        *)
(* pointer not at all otherwise; the stack lies in the RAM, and nothing    *)
(* writes over the words on it or over the memory of an interrupted        *)
(* program.                                                                *)
(***************************************************************************)
Disciplined ==
    requests' = requests /\ resets' = resets =>
      /\ accepting => StackWritable
      /\ stacked # <<>> => \A i \in Kept : m_ram'[i] = m_ram[i]
      /\ stacked # <<>> /\ ~accepting =>
           IF calling \/ pushing THEN StackWritable
           ELSE IF returning THEN Top.what \in {CALL, INTERRUPT}
           ELSE IF popping THEN Top.what = RP
           ELSE /\ m_sp' = m_sp
                /\ \A pair \in (0..3) \ Top.pairs :
                     PairOf(Snapshot', pair) = PairOf(Snapshot, pair)

RoutinesDisciplined == [][Disciplined]_vars
=============================================================================
