---------------------------- MODULE ProgramListing ----------------------------
(***************************************************************************)
(* A program and the table the debugger shows of its ROM.                  *)
(***************************************************************************)
EXTENDS ProgramRun, Disasm

\* The rows of the ROM.
Rows == disassemble_rom(m_rom, INVADERS_ROM_SIZE)

(***************************************************************************)
(* The instruction a program of code without data executes next is a row   *)
(* of the table: the disassembler finds the same instructions in the ROM   *)
(* as the processor, so the debugger can mark where it is (gui.cpp:320     *)
(* compares a row's address with the program counter).                     *)
(***************************************************************************)
InstructionListed == ~m_halted => m_pc \in Rows

\* The step takes a branch.
branching ==
    \/ ins \in {195, 201, 233}
    \/ ins >= 192 /\ SSS \in {0, 2} /\ condition_met
    \/ calling

\* The address of the row behind this one.
next_row == Wrap(m_pc + byte_count(ins))

\* A step that may leave the order of the rows: a branch, SBI, or the last row of
\* the ROM.  In code without data it goes to a row, too, unless it halts.
out_of_order == branching \/ ins = 222 \/ next_row \notin m_pc..INVADERS_ROM_SIZE - 1
LandsOnRows == [][out_of_order /\ ~m_halted' => m_pc' \in Rows']_vars

(***************************************************************************)
(* The processor and the disassembler agree on the length of every         *)
(* instruction but SBI, each with a table of its own (the switch of        *)
(* disassemble_rom, and the bytes the handlers in cpu.cpp fetch): a step   *)
(* that does not branch goes to the next row, and a CALL or RST with its   *)
(* stack in the RAM leaves the address of the next row on it.              *)
(***************************************************************************)
StepsAsListed ==
    [][ins # 222 =>
         /\ ~branching => m_pc' = next_row
         /\ calling /\ StackWritable => MakeWord(top_low, top_high)' = next_row]_vars
=============================================================================
