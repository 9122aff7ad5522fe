-------------------------------- MODULE Disasm --------------------------------
(***************************************************************************)
(* The disassembler of src/src/disasm/disasm.cpp: which bytes of a ROM it  *)
(* takes for the first byte of an instruction.  The debugger shows a row   *)
(* for each of them, and marks the row whose address is the program        *)
(* counter.  The texts of the rows are left out.                           *)
(***************************************************************************)
EXTENDS Integers

\* Mutant: IN and OUT have no operand.
byte_count_no_ports(op) ==
    IF \/ op \in {1, 17, 33, 49, 34, 42, 50, 58, 195, 205, 222}
       \/ op >= 192 /\ op % 8 \in {2, 4}
    THEN 3
    ELSE IF op \in {198, 206, 214, 230, 238, 246, 254} \/ (op < 64 /\ op % 8 = 6) THEN 2
    ELSE 1

\* The bytes the switch of disassemble_rom takes for an instruction with this
\* opcode: what a case adds to pc, and one.  222 is SBI.
byte_count(op) ==
    IF \/ op \in {1, 17, 33, 49, 34, 42, 50, 58, 195, 205, 222}
       \/ op >= 192 /\ op % 8 \in {2, 4}
    THEN 3
    ELSE IF \/ op \in {198, 206, 211, 214, 219, 230, 238, 246, 254}
            \/ op < 64 /\ op % 8 = 6
    THEN 2
    ELSE 1

\* The addresses of the rows disassemble_rom makes of a ROM of rom_size bytes: the
\* loop starts at 0 and goes on behind each instruction until it leaves the ROM.
disassemble_rom(rom, rom_size) ==
    LET rows_from[pc \in 0..rom_size + 2] ==
          IF pc < rom_size THEN {pc} \cup rows_from[pc + byte_count(rom[pc])] ELSE {}
    IN  rows_from[0]
=============================================================================
