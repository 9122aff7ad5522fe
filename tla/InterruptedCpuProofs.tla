------------------------ MODULE InterruptedCpuProofs ------------------------
(***************************************************************************)
(* Proofs about InterruptedCpu, for every program, every set of RST        *)
(* instructions requested and any number of requests and resets: the       *)
(* machine keeps its types, its interrupt system implements                *)
(* InterruptLatch, a request is taken as a call of its routine, and        *)
(* disciplined routines are invisible to what they interrupt.              *)
(***************************************************************************)
EXTENDS InterruptedCpu, I8080CpuProofs, SequenceTheorems

\* What waits was requested: the slot holds one of the vectors or is empty.
SlotHoldsVector == m_interrupt.waiting => m_interrupt.instruction \in Vectors

LatchInv == TypeOK /\ SlotHoldsVector

\* The RST instructions are bytes, and neither EI nor DI nor an empty slot.
LEMMA VectorsAreRst ==
  ASSUME NEW v \in Vectors
  PROVE  v \in Byte /\ v # 251 /\ v # 243 /\ v # None
<1>1. PICK n \in 0..7 : v = 199 + 8 * n
  BY DeviceAssumption DEF DeviceAssumption
<1> QED BY <1>1 DEF Byte, None

\* The board is set up in the types, with an empty slot.
LEMMA InitLatchInv == Init => LatchInv
<1> SUFFICES ASSUME Init PROVE LatchInv
    OBVIOUS
<1>1. 0 \in Word /\ 0 \in Byte /\ 2 \in PswByte
  BY DEF Word, TwoTo16, Byte, PswByte, Bit
<1>2. CpuTypeOK /\ ~m_interrupt.waiting
  BY <1>1 DEF Init, CpuInit, CpuTypeOK, InterruptSystem
<1>3. PICK rom \in Roms : BusInit(rom)
  BY DEF Init
<1>4. m_rom \in RomImage
  BY <1>3, DeviceAssumption DEF DeviceAssumption, BusInit
<1>5. BusTypeOK
  BY <1>1, <1>3, <1>4, EmptyRamType DEF BusInit, BusTypeOK, ShiftInit, ShiftTypeOK
<1> QED BY <1>2, <1>5 DEF LatchInv, TypeOK, SlotHoldsVector

\* What one instruction does to the interrupt system: it empties the slot if it
\* came from there, and only EI and DI move the flip-flop.
LEMMA InstructionAndSlot ==
  ASSUME TypeOK, fetch_execute_instruction
  PROVE  \/ m_interrupt' = interrupt_taken
         \/ /\ ins \in {243, 251}
            /\ \E b \in BOOLEAN : m_interrupt' = [interrupt_taken EXCEPT !.enabled = b]
<1>1. CASE dataHandler \/ hlt
  BY <1>1 DEF dataHandler, hlt
<1>2. CASE interruptHandler
  BY <1>2 DEF interruptHandler, ei, di
<1> QED BY <1>1, <1>2 DEF fetch_execute_instruction

\* A step that takes the waiting request.
LEMMA AcceptingStep ==
  ASSUME LatchInv, Step, accepting
  PROVE  /\ m_interrupt' = [m_interrupt EXCEPT !.waiting = FALSE, !.instruction = 0]
         /\ ran' = m_interrupt.instruction
         /\ m_interrupt.instruction # None
<1>1. TypeOK /\ fetch_execute_instruction
  BY DEF LatchInv, Step
<1>2. m_interrupt.instruction \in Vectors /\ ins = m_interrupt.instruction
  BY DEF LatchInv, SlotHoldsVector, accepting, ins
<1>3. ins \notin {243, 251} /\ ins # None
  BY <1>2, VectorsAreRst
<1>4. m_interrupt' = interrupt_taken
  BY <1>1, <1>3, InstructionAndSlot
<1> QED BY <1>2, <1>3, <1>4 DEF interrupt_taken, Step

\* A step that runs an instruction of the program.
LEMMA ProgramStep ==
  ASSUME LatchInv, Step, ~accepting
  PROVE  /\ ran' = None
         /\ m_interrupt'.waiting = m_interrupt.waiting
         /\ m_interrupt'.instruction = m_interrupt.instruction
         /\ m_interrupt'.enabled \in BOOLEAN
<1>1. TypeOK /\ fetch_execute_instruction
  BY DEF LatchInv, Step
<1>2. interrupt_taken = m_interrupt /\ m_interrupt \in InterruptSystem
  BY <1>1 DEF interrupt_taken, TypeOK, CpuTypeOK
<1> QED BY <1>1, <1>2, InstructionAndSlot DEF Step, InterruptSystem

\* Every step keeps the invariant.
LEMMA NextLatchInv == LatchInv /\ [Next]_vars => LatchInv'
<1> SUFFICES ASSUME LatchInv, [Next]_vars PROVE LatchInv'
    OBVIOUS
<1>0. TypeOK /\ m_interrupt \in InterruptSystem
  BY DEF LatchInv, TypeOK, CpuTypeOK
<1>1. CASE Step
  <2>1. TypeOK'
    BY <1>0, <1>1, StepKeepsTypes DEF Step
  <2>2. CASE accepting
    BY <1>0, <1>1, <2>1, <2>2, AcceptingStep DEF LatchInv, SlotHoldsVector, InterruptSystem
  <2>3. CASE ~accepting
    BY <1>1, <2>1, <2>3, ProgramStep DEF LatchInv, SlotHoldsVector
  <2> QED BY <2>2, <2>3
<1>2. CASE Device
  <2>1. PICK instruction \in Vectors : request_interrupt(instruction)
    BY <1>2 DEF Device
  <2>2. TypeOK'
    BY <1>0, <2>1, VectorsAreRst, RequestKeepsTypes
  <2> QED BY <1>0, <2>1, <2>2 DEF request_interrupt, LatchInv, SlotHoldsVector, InterruptSystem
<1>3. CASE Reset
  BY <1>0, <1>3, ResetKeepsTypes DEF Reset, reset, LatchInv, SlotHoldsVector
<1>4. CASE UNCHANGED vars
  BY <1>4 DEF vars, cpuVars, busVars, LatchInv, SlotHoldsVector, TypeOK, CpuTypeOK, BusTypeOK,
              ShiftTypeOK
<1> QED BY <1>1, <1>2, <1>3, <1>4 DEF Next

(***************************************************************************)
(* The machine keeps its types with interrupts taken between any two       *)
(* instructions, and resets.                                               *)
(***************************************************************************)
THEOREM InterruptsKeepTypes == Spec => [](CpuTypeOK /\ BusTypeOK)
<1>1. LatchInv => CpuTypeOK /\ BusTypeOK
  BY DEF LatchInv, TypeOK
<1> QED BY <1>1, InitLatchInv, NextLatchInv, PTL DEF Spec

\* A step of the machine is a step of the latch, or changes nothing of it.
LEMMA LatchStep == LatchInv /\ [Next]_vars => [Latch!Next]_(Latch!vars)
<1> SUFFICES ASSUME LatchInv, [Next]_vars PROVE [Latch!Next]_(Latch!vars)
    OBVIOUS
<1>0. m_interrupt \in InterruptSystem
  BY DEF LatchInv, TypeOK, CpuTypeOK
<1>1. CASE Step
  <2>1. CASE accepting
    <3>1. Latch!Accept
      BY <1>0, <1>1, <2>1, AcceptingStep DEF Latch!Accept, accepting, InterruptSystem
    <3> QED BY <3>1 DEF Latch!Next
  <2>2. CASE ~accepting
    <3>1. Latch!Run
      BY <1>0, <1>1, <2>2, ProgramStep DEF Latch!Run, accepting, InterruptSystem
    <3> QED BY <3>1 DEF Latch!Next
  <2> QED BY <2>1, <2>2
<1>2. CASE Device
  <2>1. PICK instruction \in Vectors : request_interrupt(instruction)
    BY <1>2 DEF Device
  <2>2. Latch!Request(instruction)
    BY <1>0, <1>2, <2>1 DEF Latch!Request, Device, request_interrupt, InterruptSystem
  <2> QED BY <2>2 DEF Latch!Next
<1>3. CASE Reset
  <2>1. Latch!Reset
    BY <1>3 DEF Latch!Reset, Reset, reset
  <2> QED BY <2>1 DEF Latch!Next
<1>4. CASE UNCHANGED vars
  BY <1>4 DEF vars, cpuVars, Latch!vars
<1> QED BY <1>1, <1>2, <1>3, <1>4 DEF Next

(***************************************************************************)
(* The interrupt system of cpu.cpp implements the one-slot latch: a        *)
(* request is taken once, by the first instruction boundary at which it    *)
(* waits with interrupts enabled, and nothing but a later request or a     *)
(* reset removes it before.                                                *)
(***************************************************************************)
THEOREM CpuImplementsLatch == Spec => ImplementsLatch
<1>1. Init => Latch!Init
  BY DEF Init, CpuInit, Latch!Init
<1>2. Spec => []LatchInv
  BY InitLatchInv, NextLatchInv, PTL DEF Spec
<1> QED BY <1>1, <1>2, LatchStep, PTL DEF Spec, ImplementsLatch, Latch!Spec

-----------------------------------------------------------------------------
\* An instruction with an opcode of RST runs rst.
LEMMA RstDecode ==
  ASSUME TypeOK, fetch_execute_instruction, NEW n \in 0..7, ins = 199 + 8 * n
  PROVE  /\ CallTo(8 * n, 0) /\ UNCHANGED <<m_psw, m_regs, m_halted>>
         /\ m_interrupt' = interrupt_taken
<1>1. ins >= 192 /\ ins % 8 = 7 /\ ins # 205
  OBVIOUS
<1>2. DDD = n
  <2>1. (199 + 8 * n) \div 8 = 24 + n /\ (24 + n) % 8 = n
    OBVIOUS
  <2> QED BY <2>1 DEF DDD
<1> HIDE DEF ins
<1>3. calling
  BY <1>1 DEF calling, SSS
<1> QED BY <1>1, <1>2, <1>3, CallingStep, StackOpcodes DEF SSS

\* An instruction that takes a request pushes the program counter as it is.
LEMMA AcceptancePushes ==
  ASSUME LatchInv, fetch_execute_instruction, accepting
  PROVE  /\ Push(LowByte(m_pc), HighByte(m_pc))
         /\ m_pc' = m_interrupt.instruction - 199
         /\ UNCHANGED <<m_psw, m_regs, m_halted>>
         /\ m_interrupt' = interrupt_taken
<1>1. TypeOK
  BY DEF LatchInv
<1>2. m_interrupt.instruction \in Vectors /\ ins = m_interrupt.instruction
  BY DEF LatchInv, SlotHoldsVector, accepting, ins
<1>3. PICK n \in 0..7 : m_interrupt.instruction = 199 + 8 * n
  BY <1>2, DeviceAssumption DEF DeviceAssumption
<1>4. /\ CallTo(8 * n, 0) /\ UNCHANGED <<m_psw, m_regs, m_halted>>
      /\ m_interrupt' = interrupt_taken
  <2>1. ins = 199 + 8 * n
    BY <1>2, <1>3
  <2> QED BY <1>1, <2>1, RstDecode
<1>5. Wrap(operand_pc + 0) = m_pc
  <2>1. m_pc \in Int /\ 0 <= m_pc /\ m_pc < 65536
    <3>1. m_pc \in Word
      BY <1>1 DEF TypeOK, CpuTypeOK
    <3> QED BY <3>1, WordRange
  <2>2. (m_pc + 0) % 65536 = m_pc
    BY <2>1
  <2> QED BY <2>2 DEF operand_pc, Wrap, TwoTo16
<1>6. Push(LowByte(m_pc), HighByte(m_pc)) /\ m_pc' = 8 * n
  BY <1>4, <1>5 DEF CallTo
<1> QED BY <1>3, <1>4, <1>6

\* An instruction that takes a request calls its routine.
LEMMA AcceptanceCalls ==
  ASSUME LatchInv, fetch_execute_instruction, accepting
  PROVE  Calling
<1>1. TypeOK /\ m_interrupt \in InterruptSystem /\ m_interrupt.enabled /\ ~m_halted
  BY DEF LatchInv, TypeOK, CpuTypeOK, accepting, fetch_execute_instruction
<1>2. /\ Push(LowByte(m_pc), HighByte(m_pc))
      /\ m_pc' = m_interrupt.instruction - 199
      /\ UNCHANGED <<m_psw, m_regs, m_halted>>
      /\ m_interrupt' = interrupt_taken
  BY AcceptancePushes
<1>3. m_interrupt'.enabled
  BY <1>1, <1>2 DEF interrupt_taken, accepting, InterruptSystem
<1>4. m_sp' = Wrap(m_sp - 2)
  BY <1>2 DEF Push
<1>5. ASSUME StackWritable
      PROVE  /\ MakeWord(top_low, top_high)' = m_pc
             /\ \A i \in DOMAIN m_ram \ {Cell(Wrap(m_sp - 1)), Cell(Wrap(m_sp - 2))} :
                  m_ram'[i] = m_ram[i]
  <2>1. /\ LowByte(m_pc) \in Byte /\ HighByte(m_pc) \in Byte
        /\ MakeWord(LowByte(m_pc), HighByte(m_pc)) = m_pc
    BY <1>1, WordParts DEF TypeOK, CpuTypeOK
  <2>2. m_rom' = m_rom
    BY DEF fetch_execute_instruction
  <2>3. /\ top_low' = LowByte(m_pc) /\ top_high' = HighByte(m_pc)
        /\ m_ram' = Stored(Stored(m_ram, Cell(Wrap(m_sp - 1)), HighByte(m_pc)),
                           Cell(Wrap(m_sp - 2)), LowByte(m_pc))
    BY <1>1, <1>2, <1>5, <2>1, <2>2, PushedWordIsOnTop
  <2>4. MakeWord(top_low, top_high)' = m_pc
    BY <2>1, <2>3 DEF MakeWord
  <2>5. \A i \in DOMAIN m_ram \ {Cell(Wrap(m_sp - 1)), Cell(Wrap(m_sp - 2))} :
          m_ram'[i] = m_ram[i]
    BY <2>3 DEF Stored
  <2> QED BY <2>4, <2>5
<1> QED BY <1>1, <1>2, <1>3, <1>4, <1>5 DEF Calling

\* The resets are counted.
LEMMA ResetsCounted == Spec => [](resets \in Nat)
<1>1. Init => resets \in Nat
  BY DEF Init
<1>2. resets \in Nat /\ [Next]_vars => (resets \in Nat)'
  BY DEF Next, Step, Device, Reset, vars
<1> QED BY <1>1, <1>2, PTL DEF Spec

(***************************************************************************)
(* For every program, wherever its stack lies, and every page size, a      *)
(* request leaves the slot only by the call of its routine or a reset.     *)
(***************************************************************************)
THEOREM InterruptsAreCalls == Spec => AcceptanceIsCall
<1> DEFINE Left == m_interrupt.waiting /\ ~m_interrupt'.waiting /\ resets' = resets
<1>1. ASSUME LatchInv, resets \in Nat, [Next]_vars, Left PROVE Calling
  <2>1. CASE Step
    <3>1. accepting
      BY <1>1, <2>1, ProgramStep
    <3> QED BY <1>1, <2>1, <3>1, AcceptanceCalls DEF Step
  <2>2. CASE Device
    <3>1. m_interrupt \in InterruptSystem
      BY <1>1 DEF LatchInv, TypeOK, CpuTypeOK
    <3>2. m_interrupt'.waiting
      BY <2>2, <3>1 DEF Device, request_interrupt, InterruptSystem
    <3> QED BY <1>1, <3>2
  <2>3. CASE Reset
    BY <1>1, <2>3 DEF Reset
  <2>4. CASE UNCHANGED vars
    BY <1>1, <2>4 DEF vars, cpuVars
  <2> QED BY <1>1, <2>1, <2>2, <2>3, <2>4 DEF Next
<1>2. LatchInv /\ resets \in Nat /\ [Next]_vars => [Left => Calling]_vars
  BY <1>1
<1>3. Spec => []LatchInv
  BY InitLatchInv, NextLatchInv, PTL DEF Spec
<1> QED BY <1>2, <1>3, ResetsCounted, PTL DEF Spec, AcceptanceIsCall

-----------------------------------------------------------------------------
\* A machine an interrupt or a push can find.
Machines == [pc : Word, sp : Word, psw : PswByte, regs : RegisterFile, ram : RamImage]

Words == [what : 0..5, before : Machines, pairs : SUBSET (0..3)]

\* The two cells of a word on the stack, low byte first, and what they hold.
LowCell(word) == Cell(Wrap(word.before.sp - 2))
HighCell(word) == Cell(Wrap(word.before.sp - 1))
Held(word, ram) == <<ram[LowCell(word)], ram[HighCell(word)]>>

WordInRam(word) == IsRam(Wrap(word.before.sp - 1)) /\ IsRam(Wrap(word.before.sp - 2))

\* The bytes that were put there: of a CALL's return address nothing is claimed.
Put(word) == IF word.what = INTERRUPT THEN <<LowByte(word.before.pc), HighByte(word.before.pc)>>
             ELSE PairOf(word.before, word.what)

\* What an interrupted program finds in the memory, when the routines leave it.
MemoryKept(word, ram) ==
    /\ word.what # CALL => Held(word, ram) = Put(word)
    /\ word.what = INTERRUPT => \A i \in Above(word.before.sp) : ram[i] = word.before.ram[i]

\* The machine since a word was put on the stack: its stack pointer is below the
\* word, and only pairs that the routine has on the stack changed.
Changed(word, machine) ==
    /\ machine.sp = Wrap(word.before.sp - 2)
    /\ \A pair \in (0..3) \ word.pairs : PairOf(machine, pair) = PairOf(word.before, pair)

\* The machine when the next word was put on the stack: now, above the last one.
After(n) == IF n = Len(stacked) THEN Snapshot ELSE stacked[n + 1].before

\* A routine starts with no pair on the stack, and each PUSH adds one.
Linked(n) ==
    /\ stacked[n].what = INTERRUPT => stacked[n].pairs = {}
    /\ stacked[n].what # INTERRUPT => n > 1
    /\ stacked[n].what = CALL => stacked[n].pairs = stacked[n - 1].pairs
    /\ stacked[n].what \in 0..3 =>
         stacked[n].pairs = stacked[n - 1].pairs \cup {stacked[n].what}

\* The invariant of disciplined routines.
Nested ==
    /\ stacked \in Seq(Words)
    /\ \A n \in 1..Len(stacked) :
         /\ WordInRam(stacked[n]) /\ MemoryKept(stacked[n], m_ram)
         /\ Changed(stacked[n], After(n)) /\ Linked(n)

\* The machine is one that a push can find.
LEMMA SnapshotType == TypeOK => Snapshot \in Machines
BY DEF TypeOK, CpuTypeOK, BusTypeOK, Snapshot, Machines, RegisterFile

\* Its pairs are those of the processor.
LEMMA SnapshotPairs == \A pair : /\ PairOf(Snapshot, pair) = PairOf(Machine, pair)
                                /\ PairOf(Snapshot', pair) = PairOf(Machine', pair)
BY DEF Snapshot, Machine, PairOf

\* A word pushed on a stack in the RAM is held there, below everything the
\* interrupted program looks at.
LEMMA PushHolds ==
  ASSUME TypeOK, StackWritable, NEW low \in Byte, NEW high \in Byte,
         Push(low, high), m_rom' = m_rom,
         NEW word, word.before = Snapshot
  PROVE  /\ WordInRam(word)
         /\ Held(word, m_ram') = <<low, high>>
         /\ m_sp' = Wrap(word.before.sp - 2)
         /\ \A i \in Above(m_sp) : m_ram'[i] = m_ram[i]
<1> DEFINE upper == Wrap(m_sp - 1)   lower == Wrap(m_sp - 2)
<1>1. m_ram \in [0..INVADERS_RAM_SIZE - 1 -> Byte] /\ m_sp \in Word
  BY DEF TypeOK, BusTypeOK, CpuTypeOK, RamImage
<1>2. word.before.sp = m_sp
  BY DEF Snapshot
<1>3. /\ IsRam(upper) /\ IsRam(lower) /\ upper \in Word /\ lower \in Word
      /\ Wrap(lower + 1) = upper /\ Cell(upper) # Cell(lower)
  BY <1>1, StackCells DEF StackWritable
<1>4. m_ram' = Stored(Stored(m_ram, Cell(upper), high), Cell(lower), low) /\ m_sp' = lower
  BY PushedWordIsOnTop DEF Push
<1> HIDE DEF upper, lower
<1>5. Cell(upper) \in 0..INVADERS_RAM_SIZE - 1 /\ Cell(lower) \in 0..INVADERS_RAM_SIZE - 1
  BY <1>3, RamRead
<1>6. m_ram'[Cell(lower)] = low /\ m_ram'[Cell(upper)] = high
  BY <1>1, <1>3, <1>4, <1>5 DEF Stored
<1>7. PAGE \in Nat /\ upper \in Nat /\ lower \in Nat /\ lower < upper
  <2>1. PAGE \in Nat /\ upper \in Nat /\ lower \in Nat /\ PAGE > 0
    BY <1>3, WordIsNat, PageAssumption DEF PageAssumption
  <2>2. 0 < upper
    BY <1>3, <2>1, Windows DEF IsRam
  <2>3. lower < 65536 /\ upper = (lower + 1) % 65536
    BY <1>3, WordRange DEF Wrap, TwoTo16
  <2> QED BY <2>1, <2>2, <2>3
<1>8. Cell(upper) + ram_offset <= upper /\ Cell(lower) + ram_offset <= upper
  BY <1>3, <1>7, Windows
     DEF Cell, IsRam, ram_offset, ram_mirror_offset, INVADERS_ROM_SIZE, INVADERS_RAM_SIZE
<1>9. Cell(upper) \notin Above(m_sp) /\ Cell(lower) \notin Above(m_sp)
  BY <1>5, <1>7, <1>8 DEF Above, upper, ram_offset, INVADERS_ROM_SIZE
<1>10. \A i \in Above(m_sp) : m_ram'[i] = m_ram[i]
  BY <1>1, <1>4, <1>5, <1>9 DEF Stored, Above
<1> QED BY <1>2, <1>3, <1>4, <1>6, <1>10 DEF WordInRam, Held, LowCell, HighCell, upper, lower

\* What no step overwrites stays as every word's program left it.
LEMMA MemoryStays ==
  ASSUME Nested, \A i \in Kept : m_ram'[i] = m_ram[i], NEW n \in 1..Len(stacked)
  PROVE  MemoryKept(stacked[n], m_ram')
<1> DEFINE word == stacked[n]
<1>1. MemoryKept(word, m_ram) /\ n \in DOMAIN stacked
  BY DEF Nested
<1>2. LowCell(word) \in WordCells /\ HighCell(word) \in WordCells
  BY <1>1 DEF WordCells, LowCell, HighCell
<1>3. m_ram'[LowCell(word)] = m_ram[LowCell(word)] /\ m_ram'[HighCell(word)] = m_ram[HighCell(word)]
  BY <1>2 DEF Kept
<1>4. word.what = INTERRUPT => Above(word.before.sp) \subseteq Kept
  BY <1>1 DEF Kept
<1> QED BY <1>1, <1>3, <1>4 DEF MemoryKept, Held

\* A word goes on the stack.
LEMMA WordAdded ==
  ASSUME TypeOK, Nested, stacked # <<>> => \A i \in Kept : m_ram'[i] = m_ram[i],
         NEW what \in 0..5, NEW pairs \in SUBSET (0..3), stacked' = Stacking(what, pairs),
         NEW word, word = [what |-> what, before |-> Snapshot, pairs |-> pairs],
         WordInRam(word), MemoryKept(word, m_ram'), Changed(word, Snapshot'),
         NEW top, top = Len(stacked) + 1, Linked(top)'
  PROVE  Nested'
<1> DEFINE len == Len(stacked)
<1>1. word \in Words
  BY SnapshotType DEF Words
<1>2. stacked \in Seq(Words) /\ len \in Nat
  BY DEF Nested
<1>3. /\ stacked' \in Seq(Words) /\ Len(stacked') = len + 1
      /\ stacked'[len + 1] = word
      /\ \A n \in 1..len : stacked'[n] = stacked[n]
  BY <1>1, <1>2 DEF Stacking
<1>4. ASSUME NEW n \in 1..len
      PROVE  /\ WordInRam(stacked'[n]) /\ MemoryKept(stacked'[n], m_ram')
             /\ Changed(stacked'[n], After(n)') /\ Linked(n)'
  <2>1. stacked'[n] = stacked[n] /\ stacked # <<>>
    BY <1>2, <1>3
  <2>2. MemoryKept(stacked[n], m_ram')
    BY <2>1, MemoryStays
  <2>3. WordInRam(stacked[n]) /\ Changed(stacked[n], After(n)) /\ Linked(n)
    BY DEF Nested
  <2>4. After(n)' = After(n)
    <3>1. n # Len(stacked') /\ After(n)' = stacked'[n + 1].before
      BY <1>2, <1>3 DEF After
    <3>2. CASE n = len
      BY <1>3, <3>1, <3>2 DEF After
    <3>3. CASE n # len
      BY <1>2, <1>3, <3>1, <3>3 DEF After
    <3> QED BY <3>2, <3>3
  <2>5. Linked(n)'
    <3>1. n > 1 => stacked'[n - 1] = stacked[n - 1]
      BY <1>2, <1>3
    <3>2. CALL = 4 /\ INTERRUPT = 5 /\ n \in Nat
      BY DEF CALL, INTERRUPT
    <3> QED BY <2>1, <2>3, <3>1, <3>2 DEF Linked
  <2> QED BY <2>1, <2>2, <2>3, <2>4, <2>5
<1>5. After(top)' = Snapshot'
  BY <1>3 DEF After
<1>6. \A n \in 1..Len(stacked') : n \in 1..len \/ n = top
  BY <1>2, <1>3
<1> QED BY <1>3, <1>4, <1>5, <1>6 DEF Nested

\* The word at the top is taken off the stack.
LEMMA WordRemoved ==
  ASSUME Nested, stacked # <<>>, \A i \in Kept : m_ram'[i] = m_ram[i],
         stacked' = SubSeq(stacked, 1, Len(stacked) - 1),
         Len(stacked) > 1 => Changed(stacked[Len(stacked) - 1], Snapshot')
  PROVE  Nested' /\ Len(stacked') < Len(stacked)
<1> DEFINE len == Len(stacked)
<1>1. stacked \in Seq(Words) /\ len \in Nat /\ len > 0
  BY DEF Nested
<1>2. /\ stacked' \in Seq(Words) /\ Len(stacked') = len - 1
      /\ \A n \in 1..len - 1 : stacked'[n] = stacked[n]
  <2> DEFINE rest == SubSeq(stacked, 1, len - 1)
  <2>1. \A i \in 1..len - 1 : stacked[i] \in Words
    BY <1>1
  <2>2. /\ rest \in Seq(Words)
        /\ Len(rest) = IF 1 <= len - 1 THEN (len - 1) - 1 + 1 ELSE 0
        /\ \A i \in 1..(len - 1) - 1 + 1 : rest[i] = stacked[1 + i - 1]
    <3> HIDE DEF len
    <3> QED BY <1>1, <2>1, SubSeqProperties
  <2>3. stacked' = rest
    OBVIOUS
  <2> HIDE DEF rest, len
  <2>4. Len(rest) = len - 1
    BY <1>1, <2>2
  <2>5. \A i \in 1..len - 1 : rest[i] = stacked[i]
    <3> TAKE i \in 1..len - 1
    <3>1. i \in 1..(len - 1) - 1 + 1 /\ 1 + i - 1 = i
      BY <1>1
    <3> QED BY <2>2, <3>1
  <2> QED BY <2>2, <2>3, <2>4, <2>5
<1>3. ASSUME NEW n \in 1..len - 1
      PROVE  /\ WordInRam(stacked'[n]) /\ MemoryKept(stacked'[n], m_ram')
             /\ Changed(stacked'[n], After(n)') /\ Linked(n)'
  <2>1. stacked'[n] = stacked[n] /\ n \in 1..len
    BY <1>1, <1>2
  <2>2. MemoryKept(stacked[n], m_ram')
    BY <2>1, MemoryStays
  <2>3. WordInRam(stacked[n]) /\ Changed(stacked[n], After(n)) /\ Linked(n)
    BY <2>1 DEF Nested
  <2>4. Changed(stacked[n], After(n)')
    <3>1. CASE n = len - 1
      BY <1>1, <1>2, <3>1 DEF After
    <3>2. CASE n # len - 1
      BY <1>1, <1>2, <2>3, <3>2 DEF After
    <3> QED BY <3>1, <3>2
  <2>5. Linked(n)'
    <3>1. n > 1 => stacked'[n - 1] = stacked[n - 1]
      BY <1>1, <1>2
    <3>2. CALL = 4 /\ INTERRUPT = 5 /\ n \in Nat
      BY DEF CALL, INTERRUPT
    <3> QED BY <2>1, <2>3, <3>1, <3>2 DEF Linked
  <2> QED BY <2>1, <2>2, <2>3, <2>4, <2>5
<1> QED BY <1>1, <1>2, <1>3 DEF Nested

\* The stack stays.
LEMMA WordsStay ==
  ASSUME Nested, stacked' = stacked, stacked # <<>> => \A i \in Kept : m_ram'[i] = m_ram[i],
         stacked # <<>> => Changed(Top, Snapshot')
  PROVE  Nested'
<1>1. ASSUME NEW n \in 1..Len(stacked)
      PROVE  /\ WordInRam(stacked'[n]) /\ MemoryKept(stacked'[n], m_ram')
             /\ Changed(stacked'[n], After(n)') /\ Linked(n)'
  <2>1. stacked # <<>> /\ MemoryKept(stacked[n], m_ram')
    <3>1. stacked # <<>>
      BY DEF Nested
    <3> QED BY <3>1, MemoryStays
  <2>2. WordInRam(stacked[n]) /\ Changed(stacked[n], After(n)) /\ Linked(n)
    BY DEF Nested
  <2>3. Changed(stacked[n], After(n)')
    BY <2>1, <2>2 DEF After, Top
  <2> QED BY <2>1, <2>2, <2>3 DEF Linked
<1> QED BY <1>1 DEF Nested

\* The word at the top of the stack is what the processor reads at its pointer.
LEMMA TopIsRead ==
  ASSUME TypeOK, Nested, stacked # <<>>
  PROVE  /\ Top \in Words /\ Len(stacked) \in 1..Len(stacked)
         /\ WordInRam(Top) /\ MemoryKept(Top, m_ram) /\ Changed(Top, Snapshot)
         /\ Linked(Len(stacked))
         /\ Wrap(m_sp + 2) = Top.before.sp
         /\ <<top_low, top_high>> = Held(Top, m_ram)
<1>1. stacked \in Seq(Words) /\ Len(stacked) \in 1..Len(stacked)
  BY DEF Nested
<1>2. /\ Top \in Words /\ WordInRam(Top) /\ MemoryKept(Top, m_ram)
      /\ Changed(Top, Snapshot) /\ Linked(Len(stacked))
  BY <1>1 DEF Nested, Top, After
<1> DEFINE sp == Top.before.sp
<1>3. sp \in Word /\ m_sp = Wrap(sp - 2)
  BY <1>2 DEF Words, Machines, Changed, Snapshot
<1>4. IsRam(Wrap(sp - 1)) /\ IsRam(Wrap(sp - 2))
  BY <1>2 DEF WordInRam
<1> HIDE DEF sp
<1>5. /\ Wrap(sp - 1) \in Word /\ Wrap(sp - 2) \in Word
      /\ Wrap(m_sp + 1) = Wrap(sp - 1) /\ Wrap(m_sp + 2) = sp
  BY <1>3, <1>4, StackCells
<1>6. top_low = m_ram[Cell(Wrap(sp - 2))] /\ top_high = m_ram[Cell(Wrap(sp - 1))]
  BY <1>3, <1>4, <1>5, RamRead DEF top_low, top_high, memory_read
<1> QED BY <1>1, <1>2, <1>5, <1>6 DEF Held, LowCell, HighCell, sp

\* A step pushes the bytes of a word, which is an interrupt's or a routine's.
Stacks(what, pairs, low, high) ==
    /\ what \in 0..5 /\ pairs \in SUBSET (0..3)
    /\ low \in Byte /\ high \in Byte
    /\ Push(low, high)
    /\ stacked' = Stacking(what, pairs)
    /\ what = INTERRUPT => pairs = {}
    /\ what # INTERRUPT => stacked # <<>>
    /\ what = CALL => pairs = Top.pairs
    /\ what \in 0..3 => pairs = Top.pairs \cup {what}
    /\ what # CALL => Put([what |-> what, before |-> Snapshot, pairs |-> pairs]) = <<low, high>>

LEMMA StackingStep ==
  ASSUME TypeOK, Nested, StackWritable, m_rom' = m_rom, UNCHANGED <<m_psw, m_regs>>,
         stacked # <<>> => \A i \in Kept : m_ram'[i] = m_ram[i],
         NEW what, NEW pairs, NEW low, NEW high, Stacks(what, pairs, low, high)
  PROVE  Nested'
<1> DEFINE word == [what |-> what, before |-> Snapshot, pairs |-> pairs]
<1>0. /\ what \in 0..5 /\ pairs \in SUBSET (0..3) /\ low \in Byte /\ high \in Byte
      /\ Push(low, high) /\ stacked' = Stacking(what, pairs)
      /\ stacked' = Append(stacked, word)
      /\ what = INTERRUPT => pairs = {}
      /\ what # INTERRUPT => stacked # <<>>
      /\ what = CALL => pairs = Top.pairs
      /\ what \in 0..3 => pairs = Top.pairs \cup {what}
      /\ what # CALL => Put(word) = <<low, high>>
  BY DEF Stacks, Stacking
<1>1. /\ word.what = what /\ word.pairs = pairs /\ word.before = Snapshot
      /\ Snapshot.sp = m_sp /\ Snapshot.ram = m_ram
      /\ word = [what |-> what, before |-> Snapshot, pairs |-> pairs]
  BY DEF Snapshot
<1> HIDE DEF word
<1>2. /\ WordInRam(word) /\ Held(word, m_ram') = <<low, high>>
      /\ m_sp' = Wrap(word.before.sp - 2)
      /\ \A i \in Above(m_sp) : m_ram'[i] = m_ram[i]
  BY <1>0, <1>1, PushHolds
<1>3. MemoryKept(word, m_ram')
  BY <1>0, <1>1, <1>2 DEF MemoryKept
<1>4. Changed(word, Snapshot')
  BY <1>1, <1>2 DEF Changed, PairOf, Snapshot
<1>5. stacked \in Seq(Words)
  BY DEF Nested
<1> DEFINE top == Len(stacked) + 1
<1>6. /\ top \in Nat /\ stacked'[top] = word
      /\ stacked # <<>> => top > 1 /\ stacked'[top - 1] = Top
  BY <1>0, <1>5 DEF Top
<1>7. \A n : n = top => Linked(n)'
  <2> TAKE n
  <2> HAVE n = top
  <2>1. stacked'[n] = word /\ (stacked # <<>> => n > 1 /\ stacked'[n - 1] = Top)
    BY <1>6
  <2>2. CALL = 4 /\ INTERRUPT = 5
    BY DEF CALL, INTERRUPT
  <2>3. stacked'[n].what = what /\ stacked'[n].pairs = pairs
    BY <1>1, <2>1
  <2>4. /\ what = INTERRUPT => pairs = {}
        /\ what # INTERRUPT => n > 1
        /\ what = CALL => pairs = stacked'[n - 1].pairs
        /\ what \in 0..3 => pairs = stacked'[n - 1].pairs \cup {what}
    BY <1>0, <2>1, <2>2
  <2> HIDE DEF top
  <2> QED BY <2>3, <2>4, <2>2 DEF Linked
<1> HIDE DEF top
<1> QED BY <1>0, <1>1, <1>2, <1>3, <1>4, <1>7, WordAdded DEF top

\* A step takes the word at the top off the stack, and gives its pair back.
LEMMA UnstackingStep ==
  ASSUME TypeOK, Nested, stacked # <<>>, \A i \in Kept : m_ram'[i] = m_ram[i],
         stacked' = SubSeq(stacked, 1, Len(stacked) - 1), Pop,
         \A pair \in 0..3 : pair \notin Top.pairs \/ pair = Top.what =>
           PairOf(Snapshot', pair) = PairOf(Top.before, pair)
  PROVE  Nested' /\ Len(stacked') < Len(stacked) /\ m_sp' = Top.before.sp
<1> DEFINE below == stacked[Len(stacked) - 1]
<1>1. m_sp' = Top.before.sp /\ Snapshot'.sp = m_sp'
  BY TopIsRead DEF Pop, Snapshot
<1>2. ASSUME Len(stacked) > 1 PROVE Changed(below, Snapshot')
  <2>1. stacked \in Seq(Words) /\ Len(stacked) - 1 \in 1..Len(stacked)
    BY <1>2 DEF Nested
  <2>2. Changed(below, Top.before)
    BY <2>1 DEF Nested, After, Top
  <2>3. Top.pairs \subseteq below.pairs \cup {Top.what}
    <3>1. Top.what \in 0..5
      BY TopIsRead DEF Words
    <3>2. Linked(Len(stacked)) /\ CALL = 4 /\ INTERRUPT = 5
      BY TopIsRead DEF CALL, INTERRUPT
    <3> QED BY <3>1, <3>2 DEF Linked, Top
  <2>4. ASSUME NEW pair \in (0..3) \ below.pairs
        PROVE  PairOf(Snapshot', pair) = PairOf(below.before, pair)
    BY <2>2, <2>3, <2>4 DEF Changed
  <2> QED BY <1>1, <2>2, <2>4 DEF Changed
<1> QED BY <1>1, <1>2, WordRemoved

\* What the interrupted program finds when its interrupt ends.
Resumed ==
    /\ m_pc' = Top.before.pc
    /\ m_sp' = Top.before.sp
    /\ m_psw' = Top.before.psw
    /\ m_regs' = Top.before.regs
    /\ \A i \in Above(Top.before.sp) : m_ram'[i] = Top.before.ram[i]

\* A call in a routine.
LEMMA CallNested ==
  ASSUME TypeOK, Nested, fetch_execute_instruction, calling, stacked # <<>>, StackWritable,
         \A i \in Kept : m_ram'[i] = m_ram[i], stacked' = Stacking(CALL, Top.pairs)
  PROVE  Nested'
<1>1. PICK ret_pc \in Word : Push(LowByte(ret_pc), HighByte(ret_pc))
  <2>1. Wrap(operand_pc + 0) \in Word /\ Wrap(operand_pc + 2) \in Word
    BY InstructionType
  <2> QED BY <2>1, CallingStep DEF CallTo
<1>2. UNCHANGED <<m_psw, m_regs>> /\ m_rom' = m_rom
  BY CallingStep DEF fetch_execute_instruction
<1>3. LowByte(ret_pc) \in Byte /\ HighByte(ret_pc) \in Byte
  BY WordParts
<1>4. Top.pairs \in SUBSET (0..3)
  BY TopIsRead DEF Words
<1>5. CALL = 4 /\ INTERRUPT = 5
  BY DEF CALL, INTERRUPT
<1>6. Stacks(CALL, Top.pairs, LowByte(ret_pc), HighByte(ret_pc))
  BY <1>1, <1>3, <1>4, <1>5 DEF Stacks
<1> QED BY <1>2, <1>6, StackingStep

\* A PUSH in a routine.
LEMMA PushNested ==
  ASSUME TypeOK, Nested, fetch_execute_instruction, pushing, stacked # <<>>, StackWritable,
         \A i \in Kept : m_ram'[i] = m_ram[i], stacked' = Stacking(RP, Top.pairs \cup {RP})
  PROVE  Nested'
<1> DEFINE word == [what |-> RP, before |-> Snapshot, pairs |-> Top.pairs \cup {RP}]
           low == PairOf(Machine, RP)[1]   high == PairOf(Machine, RP)[2]
<1>1. Push(low, high) /\ UNCHANGED <<m_psw, m_regs>> /\ m_rom' = m_rom
  BY PushingStep DEF fetch_execute_instruction
<1>2. RP \in 0..3 /\ RP \in 0..5
  BY FieldType
<1>3. CALL = 4 /\ INTERRUPT = 5
  BY DEF CALL, INTERRUPT
<1>4. low \in Byte /\ high \in Byte /\ PairOf(Snapshot, RP) = <<low, high>>
  <2>1. m_psw \in Byte /\ m_regs \in [0..6 -> Byte]
    BY RegisterType DEF RegisterFile
  <2> HIDE DEF RP
  <2> QED BY <1>2, <2>1 DEF PairOf, Snapshot, Machine, regpairs_map, REGISTER_A
<1>5. Top.pairs \cup {RP} \in SUBSET (0..3)
  BY <1>2, TopIsRead DEF Words
<1>6. Put(word) = <<low, high>>
  <2> HIDE DEF RP
  <2> QED BY <1>2, <1>3, <1>4 DEF Put
<1>7. Stacks(RP, Top.pairs \cup {RP}, low, high)
  <2> HIDE DEF low, high, RP
  <2> QED BY <1>1, <1>2, <1>3, <1>4, <1>5, <1>6 DEF Stacks
<1> QED BY <1>1, <1>7, StackingStep

\* A return in a routine, or the end of one.
LEMMA ReturnNested ==
  ASSUME TypeOK, TypeOK', Nested, fetch_execute_instruction, returning, stacked # <<>>,
         Top.what \in {CALL, INTERRUPT}, \A i \in Kept : m_ram'[i] = m_ram[i],
         stacked' = SubSeq(stacked, 1, Len(stacked) - 1)
  PROVE  Nested' /\ (Top.what = INTERRUPT => Resumed)
<1>1. Return /\ UNCHANGED <<m_psw, m_regs>>
  BY ReturningStep
<1>2. CALL = 4 /\ INTERRUPT = 5
  BY DEF CALL, INTERRUPT
<1>3. /\ Top \in Words /\ MemoryKept(Top, m_ram) /\ Changed(Top, Snapshot)
      /\ Linked(Len(stacked)) /\ <<top_low, top_high>> = Held(Top, m_ram)
  BY TopIsRead
<1>4. \A pair \in 0..3 : PairOf(Snapshot', pair) = PairOf(Snapshot, pair)
  BY <1>1 DEF PairOf, Snapshot
<1>5. \A pair \in 0..3 : pair \notin Top.pairs \/ pair = Top.what =>
        PairOf(Snapshot', pair) = PairOf(Top.before, pair)
  BY <1>2, <1>3, <1>4 DEF Changed
<1>6. Nested' /\ m_sp' = Top.before.sp
  BY <1>1, <1>5, UnstackingStep DEF Return
<1>7. ASSUME Top.what = INTERRUPT PROVE Resumed
  <2>1. Top.pairs = {}
    BY <1>3, <1>7 DEF Linked, Top
  <2>2. m_psw' = Top.before.psw /\ m_regs' = Top.before.regs
    <3>1. Snapshot \in Machines /\ Top.before \in Machines
      BY <1>3, SnapshotType DEF Words
    <3>2. \A pair \in 0..3 : PairOf(Snapshot, pair) = PairOf(Top.before, pair)
      BY <1>3, <2>1 DEF Changed
    <3>3. Snapshot.psw = Top.before.psw /\ Snapshot.regs = Top.before.regs
      BY <3>1, <3>2, PairsMakeMachine DEF Machines
    <3> QED BY <1>1, <3>3 DEF Snapshot
  <2>3. m_pc' = Top.before.pc
    <3>1. top_low = LowByte(Top.before.pc) /\ top_high = HighByte(Top.before.pc)
      BY <1>2, <1>3, <1>7 DEF MemoryKept, Put
    <3>2. Top.before.pc \in Word
      BY <1>3 DEF Words, Machines
    <3> QED BY <1>1, <3>1, <3>2, WordParts DEF Return
  <2>4. \A i \in Above(Top.before.sp) : m_ram'[i] = Top.before.ram[i]
    BY <1>1, <1>3, <1>7 DEF Return, MemoryKept
  <2> QED BY <1>6, <2>2, <2>3, <2>4 DEF Resumed
<1> QED BY <1>6, <1>7

\* A POP in a routine.
LEMMA PopNested ==
  ASSUME TypeOK, Nested, fetch_execute_instruction, popping, stacked # <<>>,
         Top.what = RP, \A i \in Kept : m_ram'[i] = m_ram[i],
         stacked' = SubSeq(stacked, 1, Len(stacked) - 1)
  PROVE  Nested'
<1>1. /\ Pop
      /\ RP = 3 => PairOf(Snapshot', RP) = <<MaskPsw(top_low), top_high>>
      /\ RP # 3 => PairOf(Snapshot', RP) = <<top_low, top_high>>
      /\ \A pair \in (0..3) \ {RP} : PairOf(Snapshot', pair) = PairOf(Snapshot, pair)
  BY PoppingStep, SnapshotPairs
<1>2. RP \in 0..3 /\ CALL = 4 /\ INTERRUPT = 5
  BY FieldType DEF CALL, INTERRUPT
<1>3. /\ Top \in Words /\ MemoryKept(Top, m_ram) /\ Changed(Top, Snapshot)
      /\ <<top_low, top_high>> = Held(Top, m_ram)
  BY TopIsRead
<1> HIDE DEF RP
<1>4. <<top_low, top_high>> = PairOf(Top.before, RP)
  BY <1>2, <1>3 DEF MemoryKept, Put
<1>5. RP = 3 => MaskPsw(top_low) = top_low
  <2>1. Top.before.psw \in PswByte
    BY <1>3 DEF Words, Machines
  <2>2. RP = 3 => top_low = Top.before.psw
    BY <1>4 DEF PairOf
  <2> QED BY <2>1, <2>2, MaskKeeps
<1>6. PairOf(Snapshot', RP) = PairOf(Top.before, RP)
  BY <1>1, <1>4, <1>5
<1>7. \A pair \in 0..3 : pair \notin Top.pairs \/ pair = Top.what =>
        PairOf(Snapshot', pair) = PairOf(Top.before, pair)
  BY <1>1, <1>3, <1>6 DEF Changed
<1> QED BY <1>1, <1>7, UnstackingStep

\* An interrupt is taken.
LEMMA AcceptanceNested ==
  ASSUME LatchInv, Nested, fetch_execute_instruction, accepting, StackWritable,
         stacked # <<>> => \A i \in Kept : m_ram'[i] = m_ram[i],
         stacked' = Stacking(INTERRUPT, {})
  PROVE  Nested'
<1> DEFINE word == [what |-> INTERRUPT, before |-> Snapshot, pairs |-> {}]
<1>1. TypeOK /\ m_rom' = m_rom
  BY DEF LatchInv, fetch_execute_instruction
<1>2. Push(LowByte(m_pc), HighByte(m_pc)) /\ UNCHANGED <<m_psw, m_regs>>
  BY AcceptancePushes
<1>3. LowByte(m_pc) \in Byte /\ HighByte(m_pc) \in Byte
  BY <1>1, WordParts DEF TypeOK, CpuTypeOK
<1>4. CALL = 4 /\ INTERRUPT = 5
  BY DEF CALL, INTERRUPT
<1>5. Put(word) = <<LowByte(m_pc), HighByte(m_pc)>>
  BY DEF Put, Snapshot
<1>6. Stacks(INTERRUPT, {}, LowByte(m_pc), HighByte(m_pc))
  BY <1>2, <1>3, <1>4, <1>5 DEF Stacks
<1> QED BY <1>1, <1>2, <1>6, StackingStep

\* A disciplined instruction keeps the invariant, and an interrupt that ends
\* gives everything back.
LEMMA StepNested ==
  ASSUME LatchInv, Nested, Step, Disciplined, resets' = resets
  PROVE  Nested' /\ (Resuming => Resumed)
<1>1. TypeOK /\ fetch_execute_instruction
  BY DEF LatchInv, Step
<1>2. TypeOK'
  BY <1>1, StepKeepsTypes
<1>3. /\ accepting => StackWritable
      /\ stacked # <<>> => \A i \in Kept : m_ram'[i] = m_ram[i]
      /\ stacked # <<>> /\ ~accepting =>
           IF calling \/ pushing THEN StackWritable
           ELSE IF returning THEN Top.what \in {CALL, INTERRUPT}
           ELSE IF popping THEN Top.what = RP
           ELSE /\ m_sp' = m_sp
                /\ \A pair \in (0..3) \ Top.pairs :
                     PairOf(Snapshot', pair) = PairOf(Snapshot, pair)
  BY DEF Disciplined, Step
<1>4. stacked' = IF accepting THEN Stacking(INTERRUPT, {})
                 ELSE IF stacked = <<>> THEN stacked
                 ELSE IF calling THEN Stacking(CALL, Top.pairs)
                 ELSE IF pushing THEN Stacking(RP, Top.pairs \cup {RP})
                 ELSE IF returning \/ popping THEN SubSeq(stacked, 1, Len(stacked) - 1)
                 ELSE stacked
  BY DEF Step
<1>5. Len(stacked) \in Nat /\ \A what, pairs : Len(Stacking(what, pairs)) = Len(stacked) + 1
  BY DEF Nested, Stacking
<1>6. CASE accepting
  BY <1>1, <1>3, <1>4, <1>5, <1>6, AcceptanceNested DEF Resuming
<1>7. CASE ~accepting /\ stacked = <<>>
  BY <1>4, <1>5, <1>7, WordsStay DEF Resuming
<1>8. CASE ~accepting /\ stacked # <<>> /\ calling
  BY <1>1, <1>3, <1>4, <1>5, <1>8, CallNested DEF Resuming
<1>9. CASE ~accepting /\ stacked # <<>> /\ ~calling /\ pushing
  BY <1>1, <1>3, <1>4, <1>5, <1>9, PushNested DEF Resuming
<1>10. CASE ~accepting /\ stacked # <<>> /\ ~calling /\ ~pushing /\ returning
  BY <1>1, <1>2, <1>3, <1>4, <1>10, ReturnNested DEF Resuming
<1>11. CASE ~accepting /\ stacked # <<>> /\ ~calling /\ ~pushing /\ ~returning /\ popping
  <2>1. Top.what = RP
    BY <1>3, <1>11
  <2>2. Top.what # INTERRUPT
    BY <1>1, <2>1, FieldType DEF INTERRUPT
  <2> QED BY <1>1, <1>3, <1>4, <1>11, <2>1, <2>2, PopNested DEF Resuming
<1>12. CASE ~accepting /\ stacked # <<>> /\ ~calling /\ ~pushing /\ ~returning /\ ~popping
  <2>1. stacked' = stacked
    BY <1>4, <1>12
  <2>2. Changed(Top, Snapshot)
    BY <1>1, <1>12, TopIsRead
  <2>3. Changed(Top, Snapshot')
    BY <1>3, <1>12, <2>2 DEF Changed, Snapshot
  <2> QED BY <1>3, <1>5, <2>1, <2>3, WordsStay DEF Resuming
<1> QED BY <1>6, <1>7, <1>8, <1>9, <1>10, <1>11, <1>12

\* A step that leaves the registers, the RAM and the stack.
LEMMA NestedStays ==
  ASSUME Nested, UNCHANGED <<registerVars, m_ram, stacked>>
  PROVE  Nested' /\ ~Resuming
<1>1. Snapshot' = Snapshot /\ stacked' = stacked /\ m_ram' = m_ram
  BY DEF Snapshot, registerVars
<1>2. \A n : After(n)' = After(n) /\ (Linked(n)' <=> Linked(n))
  BY <1>1 DEF After, Linked
<1>3. Nested'
  BY <1>1, <1>2 DEF Nested
<1> QED BY <1>1, <1>3 DEF Resuming, Nested

\* Every step of a behaviour with disciplined routines does.
LEMMA NextNested ==
  ASSUME LatchInv, resets \in Nat, Nested, [Next]_vars, [Disciplined]_vars
  PROVE  Nested' /\ (Resuming => Resumed)
<1>1. CASE Step
  <2>1. CASE Disciplined
    BY <1>1, <2>1, StepNested DEF Step
  <2>2. CASE UNCHANGED vars
    BY <2>2, NestedStays DEF vars, cpuVars, registerVars, busVars
  <2> QED BY <2>1, <2>2
<1>2. CASE Device
  BY <1>2, NestedStays DEF Device, request_interrupt, busVars
<1>3. CASE Reset
  BY <1>3 DEF Reset, Resuming, Nested
<1>4. CASE UNCHANGED vars
  BY <1>4, NestedStays DEF vars, cpuVars, registerVars, busVars
<1> QED BY <1>1, <1>2, <1>3, <1>4 DEF Next

(***************************************************************************)
(* For every program, every stack and any nesting: when routines pop what  *)
(* they push and change only what they saved, and nothing writes over the  *)
(* stack, an interrupt is invisible to the program it interrupts.          *)
(***************************************************************************)
THEOREM InterruptsAreTransparent == Spec /\ RoutinesDisciplined => InterruptTransparent
<1>1. Init => Nested
  BY DEF Init, Nested
<1>2. LatchInv /\ resets \in Nat /\ Nested /\ [Next]_vars /\ [Disciplined]_vars => Nested'
  BY NextNested
<1>3. LatchInv /\ resets \in Nat /\ Nested /\ [Next]_vars /\ [Disciplined]_vars
        => [Resuming => Resumed]_vars
  BY NextNested
<1>4. Spec => []LatchInv
  BY InitLatchInv, NextLatchInv, PTL DEF Spec
<1>5. InterruptTransparent <=> [][Resuming => Resumed]_vars
  BY DEF InterruptTransparent, Resumed
<1> QED BY <1>1, <1>2, <1>3, <1>4, <1>5, ResetsCounted, PTL DEF Spec, RoutinesDisciplined
=============================================================================
