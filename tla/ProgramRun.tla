------------------------------ MODULE ProgramRun ------------------------------
(***************************************************************************)
(* The processor running one program to its HLT with no device attached,   *)
(* from any of the program's starts.  The state it started from is         *)
(* remembered.  A program is a record                                      *)
(*   code     its bytes from address 0                                     *)
(*   routine  the code at RoutineStart, where RST 5 goes                   *)
(*   loses    the parts of the machine it does not give back at its end,   *)
(*            Parts if it is not made to give anything back               *)
(*   starts   records [regs, psw, sp], the states it starts from           *)
(* and the rest of the ROM is HLT: the code leaves room for one.           *)
(***************************************************************************)
EXTENDS I8080Cpu, Sequences

CONSTANTS
    Programs,   \* the programs
    Ram,        \* the RAM it starts with
    Scratch     \* the RAM addresses a program may use for itself

RoutineStart == 40
HLT == 118

ASSUME ProgramAssumption ==
    /\ \A p \in Programs :
         /\ p.code \in Seq(Byte) /\ p.routine \in Seq(Byte)
         /\ Len(p.code) < INVADERS_ROM_SIZE
         /\ p.starts \subseteq [regs : [0..6 -> Byte], psw : PswByte, sp : Word]
    /\ Ram \in RamImage
    /\ Scratch \subseteq Nat

VARIABLES program, start

vars == <<cpuVars, busVars, program, start>>

Image(p) ==
    [addr \in 0..INVADERS_ROM_SIZE - 1 |->
       IF addr < Len(p.code) THEN p.code[addr + 1]
       ELSE IF addr >= RoutineStart /\ addr < RoutineStart + Len(p.routine)
            THEN p.routine[addr - RoutineStart + 1]
            ELSE HLT]

Init ==
    /\ program \in Programs /\ start \in program.starts
    /\ m_rom = Image(program) /\ m_ram = Ram
    /\ inp = [port \in 0..2 |-> 0] /\ ShiftInit
    /\ m_pc = 0 /\ m_sp = start.sp /\ m_psw = start.psw /\ m_regs = start.regs
    /\ m_halted = FALSE
    /\ m_interrupt = [enabled |-> FALSE, waiting |-> FALSE, instruction |-> 0]

Next == fetch_execute_instruction /\ UNCHANGED <<program, start>>

Spec == Init /\ [][Next]_vars

-----------------------------------------------------------------------------
Parts == {"A", "B", "C", "D", "E", "H", "L", "CY", "flags", "sp"}

\* A part of a machine with these registers, status word and stack pointer.
Part(name, regs, psw, sp) ==
    CASE name = "A" -> regs[0] [] name = "B" -> regs[1] [] name = "C" -> regs[2]
      [] name = "D" -> regs[3] [] name = "E" -> regs[4] [] name = "H" -> regs[5]
      [] name = "L" -> regs[6]
      [] name = "CY" -> get_status_flag(psw, FLAG_CY)
      [] name = "flags" -> psw - get_status_flag(psw, FLAG_CY)
      [] name = "sp" -> sp

\* The stack below the stack pointer it started with is a program's own.
OwnStack == {Wrap(start.sp - i) : i \in 1..6}
OwnCells == {addr \in Scratch \cup OwnStack : IsRam(addr)}

(***************************************************************************)
(* A program made of instructions and their inverses ends at the end of    *)
(* its code with every part of the machine it does not lose, and every     *)
(* memory cell but its own, as it found them: push against pop, call and   *)
(* rst against ret, a rotation, increment, exchange, store, complement or  *)
(* addition against the one that undoes it, with any flags and with the    *)
(* stack across the edge of the RAM and its mirror.                        *)
(***************************************************************************)
Restored ==
    m_halted /\ program.loses # Parts =>
        /\ m_pc = Len(program.code) + 1
        /\ \A name \in Parts \ program.loses :
             Part(name, m_regs, m_psw, m_sp) = Part(name, start.regs, start.psw, start.sp)
        /\ \A i \in DOMAIN m_ram \ {Cell(addr) : addr \in OwnCells} : m_ram[i] = Ram[i]

\* The number a byte of two decimal digits stands for.
IsDecimal(byte) == byte \div 16 < 10 /\ byte % 16 < 10
Decimal(byte) == 10 * (byte \div 16) + (byte % 16)

(***************************************************************************)
(* ADD B and DAA of two numbers of two decimal digits leave the two digits *)
(* of their sum, and the hundreds in the carry flag.  Sums of the bytes    *)
(* that daa gets wrong are left out: from 250 to 255 the carry of its      *)
(* first addition is dropped and the digits are wrong; above them the      *)
(* carry ADD left is dropped, and only the digits are right (cpu.cpp:635   *)
(* and 638).                                                               *)
(***************************************************************************)
DecimalSum ==
    m_halted /\ program.code = <<128, 39>> =>
        LET x == start.regs[REGISTER_A]
            y == start.regs[REGISTER_B]
            sum == Decimal(x) + Decimal(y)
        IN  IsDecimal(x) /\ IsDecimal(y) =>
              /\ x + y \notin 250..255 => IsDecimal(A) /\ Decimal(A) = sum % 100
              /\ x + y < 250 => get_status_flag(m_psw, FLAG_CY) = sum \div 100

-----------------------------------------------------------------------------
\* The carry a step of the program starts with, if its instruction adds it.
carry_in == IF DDD \in {1, 3} THEN get_status_flag(m_psw, FLAG_CY) ELSE 0

adding == \E n \in {0, 1} : AluOperation(n)
subtracting == \E n \in {2, 3} : AluOperation(n)
FlagAfter(flag) == get_status_flag(m_psw', flag)

(***************************************************************************)
(* ADD, ADC, ADI and ACI add: the accumulator and the carry flag are the   *)
(* nine bits of the sum, although the code adds bit by bit (binary_add and *)
(* add).  ADC and ACI of 255 with the carry set are left out: there the    *)
(* code's data += carry wraps to 0 and the carry is lost.                  *)
(***************************************************************************)
AdditionExact ==
    [][adding /\ operand + carry_in < 256 =>
         256 * FlagAfter(FLAG_CY) + A' = A + operand + carry_in]_vars

(***************************************************************************)
(* CMP and CPI order the accumulator and the operand: a conditional branch *)
(* behind them finds the zero flag set exactly when they are equal and the *)
(* carry flag exactly when the accumulator is smaller (cmp, and            *)
(* branch_condition_is_met with the bit patterns of JZ and JC).            *)
(***************************************************************************)
ComparisonOrders ==
    [][AluOperation(7) =>
         /\ A' = A
         /\ branch_condition_is_met(m_psw', 1) <=> A = operand
         /\ branch_condition_is_met(m_psw', 3) <=> A < operand]_vars

(***************************************************************************)
(* DAD and INX work on whole pairs: the carry out of the low byte reaches  *)
(* the high byte, and only DAD's carry out of the high byte reaches the    *)
(* status word (dad and inx).                                              *)
(***************************************************************************)
PairArithmetic ==
    [][\A rp \in 0..3 : RP = rp =>
         /\ ins \in {9, 25, 41, 57} =>
              TwoTo16 * FlagAfter(FLAG_CY) + HL' = HL + get_register_pair(rp)
         /\ ins \in {3, 19, 35, 51} =>
              get_register_pair(rp)' = Wrap(get_register_pair(rp) + 1)
         /\ ins \in {11, 27, 43, 59} =>
              get_register_pair(rp)' = Wrap(get_register_pair(rp) - 1)]_vars

\* INR M and DCR M, and the byte one more or one less.
stepping == ins \in {52, 53}
stepped(byte) == (byte + (IF ins = 52 THEN 1 ELSE 255)) % 256

(***************************************************************************)
(* INR M and DCR M step the byte at HL where the board can store it, and   *)
(* everywhere a branch behind them finds flags that describe the byte a    *)
(* program reads back there, over the ROM and off the map too, where       *)
(* nothing was stored; the carry of a longer sum survives (inr_m).         *)
(***************************************************************************)
FlagsDescribeMemory ==
    [][stepping =>
         /\ branch_condition_is_met(m_psw', 1) <=> memory_read(HL)' = 0
         /\ branch_condition_is_met(m_psw', 5) <=> calculate_parity(memory_read(HL)')
         /\ branch_condition_is_met(m_psw', 7) <=> memory_read(HL)' >= 128
         /\ FlagAfter(FLAG_CY) = get_status_flag(m_psw, FLAG_CY)
         /\ IsRam(HL) => memory_read(HL)' = stepped(memory_read(HL))]_vars

(***************************************************************************)
(* What TST8080.ASM:171 says of SBI ("A=F0H-0F1H-CARRY(0)=FFH,C=1"), for   *)
(* every subtraction: the difference is left in the accumulator and the    *)
(* carry flag is set when it was negative.                                 *)
(***************************************************************************)
SubtractionBorrows ==
    [][subtracting =>
         A' - 256 * FlagAfter(FLAG_CY) = A - operand - carry_in]_vars

(***************************************************************************)
(* What the comment at cpu.cpp:522 says: when the instruction caused a     *)
(* carry out of bit 3 and into bit 4, the auxiliary carry is set.          *)
(***************************************************************************)
AuxCarryOutOfBit3 ==
    [][adding =>
         (FlagAfter(FLAG_AC) = 1 <=> (A % 16) + (operand % 16) + carry_in >= 16)]_vars
=============================================================================
