------------------------------ MODULE CpmHarness ------------------------------
(***************************************************************************)
(* The harness that runs CP/M test programs                                *)
(* (src/src/core/cpu-test/main.cpp): a flat memory, the two calls of CP/M  *)
(* that print, and the loop until HLT.                                     *)
(*                                                                         *)
(* In its own code a program does anything that leads to a call of address *)
(* 5 or to a jump to address 0; the few instructions below LOAD_ADDRESS    *)
(* are executed from memory.                                               *)
(***************************************************************************)
EXTENDS Integers, Sequences

CONSTANTS
    TEST_MEMORY_SIZE,   \* 65536 in the code
    LOAD_ADDRESS,       \* where a program is loaded, 256 in the code
    Roms,               \* the programs, sequences of bytes
    MaxPrinted          \* bound: the characters remembered of a call

Byte == 0..255
Addresses == 0..TEST_MEMORY_SIZE - 1

ASSUME HarnessAssumption ==
    /\ LOAD_ADDRESS \in Nat /\ LOAD_ADDRESS >= 8
    /\ TEST_MEMORY_SIZE \in Nat /\ MaxPrinted \in Nat
    /\ \A rom \in Roms : rom \in Seq(Byte) /\ Len(rom) + LOAD_ADDRESS < TEST_MEMORY_SIZE

VARIABLES
    m_memory,
    pc,
    c, de,       \* the registers a call is made with
    halted,
    at,          \* the next step of the loop: "check", "print" or "execute"
    i,           \* the index of the character printed next
    printed      \* what the current call printed

vars == <<m_memory, pc, c, de, halted, at, i, printed>>

NOP == 0
HLT == 118
RET == 201
DOLLAR == 36

\* Mutant: main writes no HLT.
TestMemoryNoHlt(rom) ==
    [addr \in Addresses |->
       CASE addr = 7 -> RET
         [] addr \in LOAD_ADDRESS..LOAD_ADDRESS + Len(rom) - 1 -> rom[addr - LOAD_ADDRESS + 1]
         [] OTHER -> 0]

\* load_rom, and the two bytes main writes.
TestMemory(rom) ==
    [addr \in Addresses |->
       CASE addr = 1 -> HLT
         [] addr = 7 -> RET
         [] addr \in LOAD_ADDRESS..LOAD_ADDRESS + Len(rom) - 1 -> rom[addr - LOAD_ADDRESS + 1]
         [] OTHER -> 0]

Init ==
    /\ \E rom \in Roms : m_memory = TestMemory(rom)
    /\ pc = LOAD_ADDRESS
    /\ c = 0 /\ de = 0
    /\ halted = FALSE
    /\ at = "check" /\ i = 0 /\ printed = <<>>

-----------------------------------------------------------------------------
\* An address is cut to the width of memory_read's parameter.
memory_read(addr) == m_memory[addr % TEST_MEMORY_SIZE]

Emit(char) ==
    printed' = IF Len(printed) < MaxPrinted THEN Append(printed, char) ELSE printed

\* Mutant: the call is seen at both of the instructions that lead to its RET.
CheckCallTwice ==
    /\ at = "check" /\ ~halted
    /\ \/ pc \in {5, 6} /\ c = 2 /\ Emit(de % 256) /\ at' = "execute" /\ UNCHANGED i
       \/ pc \in {5, 6} /\ c = 9 /\ i' = 0 /\ at' = "print" /\ UNCHANGED printed
       \/ (pc \notin {5, 6} \/ c \notin {2, 9}) /\ at' = "execute" /\ UNCHANGED <<i, printed>>
    /\ UNCHANGED <<m_memory, pc, c, de, halted>>

\* A call of CP/M is seen at its entry: 2 prints the character in E, 9 the text
\* at DE.
CheckCall ==
    /\ at = "check" /\ ~halted
    /\ \/ pc = 5 /\ c = 2 /\ Emit(de % 256) /\ at' = "execute" /\ UNCHANGED i
       \/ pc = 5 /\ c = 9 /\ i' = 0 /\ at' = "print" /\ UNCHANGED printed
       \/ (pc # 5 \/ c \notin {2, 9}) /\ at' = "execute" /\ UNCHANGED <<i, printed>>
    /\ UNCHANGED <<m_memory, pc, c, de, halted>>

\* The text ends at a dollar sign; without one the index runs on, and the text
\* starts again at the memory's end.  The index is kept modulo the memory, which
\* reads the same characters.
PrintText ==
    /\ at = "print"
    /\ \/ /\ memory_read(de + i) = DOLLAR
          /\ at' = "execute" /\ UNCHANGED <<i, printed>>
       \/ /\ memory_read(de + i) # DOLLAR
          /\ Emit(memory_read(de + i))
          /\ i' = (i + 1) % TEST_MEMORY_SIZE /\ UNCHANGED at
    /\ UNCHANGED <<m_memory, pc, c, de, halted>>

-----------------------------------------------------------------------------
\* fetch_execute_instruction: below the program's code, what the memory holds.
Execute ==
    /\ at = "execute" /\ at' = "check"
    /\ \/ /\ pc < LOAD_ADDRESS /\ m_memory[pc] = NOP
          /\ pc' = pc + 1 /\ UNCHANGED halted
       \/ /\ pc < LOAD_ADDRESS /\ m_memory[pc] = HLT
          /\ halted' = TRUE /\ pc' = pc + 1
       \/ /\ pc < LOAD_ADDRESS /\ m_memory[pc] = RET
          /\ pc' = LOAD_ADDRESS /\ UNCHANGED halted
       \/ pc >= LOAD_ADDRESS /\ pc' = 0 /\ UNCHANGED halted
    /\ UNCHANGED <<m_memory, c, de, i, printed>>

\* The program calls CP/M.
Call ==
    /\ at = "execute" /\ at' = "check"
    /\ pc >= LOAD_ADDRESS /\ pc' = 5
    /\ c' \in {2, 9, 11} /\ de' \in Addresses
    /\ printed' = <<>> /\ i' = 0
    /\ UNCHANGED <<m_memory, halted>>

Next == CheckCall \/ PrintText \/ Execute \/ Call

Spec == Init /\ [][Next]_vars /\ WF_vars(Next)

-----------------------------------------------------------------------------
\* The characters from addr to the one before the first dollar sign.
TextAt(addr, text) ==
    /\ \A k \in 1..Len(text) :
         text[k] = memory_read(addr + k - 1) /\ text[k] # DOLLAR
    /\ memory_read(addr + Len(text)) = DOLLAR

(***************************************************************************)
(* When a call returns to the program it has printed its text, all of it   *)
(* and once, wherever the text lies in the memory (main.cpp:66-80 and the  *)
(* NOPs and the RET at 5 to 7 that main.cpp:60 relies on).                 *)
(***************************************************************************)
CallPrinted ==
    at = "execute" /\ pc = 7 /\ Len(printed) < MaxPrinted =>
        CASE c = 2 -> printed = <<de % 256>>
          [] c = 9 -> TextAt(de, printed)
          [] OTHER -> printed = <<>>

(***************************************************************************)
(* A call returns if it is not the printing of a text in a memory without  *)
(* a dollar sign, which never ends; and a jump to 0 ends the program.      *)
(***************************************************************************)
CallsReturn ==
    /\ pc = 5 /\ (c # 9 \/ \E addr \in Addresses : m_memory[addr] = DOLLAR) ~> pc = LOAD_ADDRESS
    /\ pc = 0 ~> halted
=============================================================================
