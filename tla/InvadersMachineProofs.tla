------------------------ MODULE InvadersMachineProofs ------------------------
(***************************************************************************)
(* Proofs about the whole emulator, for every frame length from 36 cycles, *)
(* every ROM, any number of breakpoint slots and both builds: the files    *)
(* are where they belong in the ROM, the types hold, it implements the     *)
(* loop of FrameLoop and with it the game's clock, and its breakpoints     *)
(* pause it.                                                               *)
(***************************************************************************)
EXTENDS InvadersMachine, I8080CpuProofs

-----------------------------------------------------------------------------
(***************************************************************************)
(* The ROM.  Four files that main can read are read in full, whatever      *)
(* their lengths, and each file's bytes are in its quarter.                *)
(***************************************************************************)
RomBytes == [0..ROM_SIZE - 1 -> 0..255]
Reads == [buffer : RomBytes, size : 0..ROM_SIZE, panic : BOOLEAN]

\* A buffer that holds a file from the address start on, and else what it held.
Holds(buffer, before, start, file) ==
    \A addr \in 0..ROM_SIZE - 1 :
        IF addr >= start /\ addr < start + Len(file)
        THEN buffer[addr] = file[addr - start + 1]
        ELSE buffer[addr] = before[addr]

LEMMA ElementsType ==
  ASSUME NEW S, NEW seq \in Seq(S)
  PROVE  Len(seq) \in Nat /\ \A i \in 1..Len(seq) : seq[i] \in S
OBVIOUS

LEMMA ReadFile ==
  ASSUME NEW read \in Reads, NEW name, NEW start \in Nat, StartAddress[name] = start,
         NEW file \in Seq(0..255), NEW result, result = read_bin_file(read, name, file)
  PROVE  /\ result \in Reads
         /\ ~result.panic => /\ ~read.panic
                             /\ result.size = read.size + Len(file)
                             /\ Holds(result.buffer, read.buffer, start, file)
<1>a. ROM_SIZE \in Nat BY QuarterAssumption DEF ROM_SIZE
<1>b. Len(file) \in Nat /\ \A i \in 1..Len(file) : file[i] \in 0..255
  BY ElementsType
<1>0. /\ ROM_SIZE \in Nat /\ Len(file) \in Nat
      /\ \A i \in 1..Len(file) : file[i] \in 0..255
  BY <1>a, <1>b
<1>1. read.buffer \in RomBytes /\ read.size \in 0..ROM_SIZE /\ read.panic \in BOOLEAN
  BY DEF Reads
<1> DEFINE In(addr) == addr - start \in 0..Len(file) - 1
           placed == [addr \in 0..ROM_SIZE - 1 |->
                        IF In(addr) THEN file[addr - start + 1] ELSE read.buffer[addr]]
<1>2. ASSUME NEW addr \in 0..ROM_SIZE - 1
      PROVE  /\ In(addr) <=> addr >= start /\ addr < start + Len(file)
             /\ In(addr) => file[addr - start + 1] \in 0..255
  <2>1. addr \in Int /\ addr - start \in Int BY <1>0
  <2>2. In(addr) <=> addr >= start /\ addr < start + Len(file) BY <1>0, <2>1
  <2>3. In(addr) => addr - start + 1 \in 1..Len(file) BY <1>0, <2>1
  <2> QED BY <1>0, <2>2, <2>3
<1>3. placed \in RomBytes BY <1>1, <1>2 DEF RomBytes
<1>4. Holds(placed, read.buffer, start, file) BY <1>2 DEF Holds
<1>5. CASE read.panic \/ Len(file) > ROM_SIZE - read.size
  <2>1. result = [read EXCEPT !.panic = TRUE] BY <1>5 DEF read_bin_file
  <2> QED BY <2>1 DEF Reads
<1>6. CASE ~(read.panic \/ Len(file) > ROM_SIZE - read.size)
  <2>1. DOMAIN read.buffer = 0..ROM_SIZE - 1 BY <1>1 DEF RomBytes
  <2>2. result = [read EXCEPT !.size = @ + Len(file), !.buffer = placed]
    BY <1>6, <2>1, Zenon DEF read_bin_file
  <2>3. read.size + Len(file) \in 0..ROM_SIZE BY <1>0, <1>1, <1>6
  <2> HIDE DEF placed
  <2>4. result.buffer = placed /\ result.size = read.size + Len(file) /\ result \in Reads
    BY <1>3, <2>2, <2>3 DEF Reads
  <2> QED BY <1>4, <1>6, <2>4
<1> QED BY <1>5, <1>6

\* Four files that are read without a panic are read in full, and the first
\* QUARTER bytes of each are at its place.
LEMMA FourFiles ==
  ASSUME NEW set, AreRomFiles(set)
  PROVE  LET result == load_invaders_rom(set)
         IN  /\ result \in Reads
             /\ ~result.panic =>
                  /\ result.size = TotalSize(set)
                  /\ \A name \in DOMAIN set : \A i \in 1..Len(set[name]) :
                       i <= QUARTER =>
                         result.buffer[StartAddress[name] + i - 1] = set[name][i]
<1> DEFINE empty == [buffer |-> EmptyBuffer, size |-> 0, panic |-> FALSE]
           h == read_bin_file(empty, "h", set.h)
           g == read_bin_file(h, "g", set.g)
           f == read_bin_file(g, "f", set.f)
           e == read_bin_file(f, "e", set.e)
<1>1. /\ DOMAIN StartAddress = {"h", "g", "f", "e"}
      /\ StartAddress["h"] = 0 /\ StartAddress["g"] = QUARTER
      /\ StartAddress["f"] = 2 * QUARTER /\ StartAddress["e"] = 3 * QUARTER
  BY DEF StartAddress
<1>2. /\ QUARTER \in Nat /\ ROM_SIZE = 4 * QUARTER
      /\ DOMAIN set = {"h", "g", "f", "e"}
      /\ set.h \in Seq(0..255) /\ set.g \in Seq(0..255)
      /\ set.f \in Seq(0..255) /\ set.e \in Seq(0..255)
      /\ Len(set.h) \in Nat /\ Len(set.g) \in Nat /\ Len(set.f) \in Nat
      /\ Len(set.e) \in Nat /\ Len(set.e) <= QUARTER
  BY <1>1, QuarterAssumption DEF AreRomFiles, ROM_SIZE
<1>3. empty \in Reads
  BY <1>2 DEF Reads, RomBytes, EmptyBuffer
<1> HIDE DEF empty
<1>s. 0 \in Nat /\ 2 * QUARTER \in Nat /\ 3 * QUARTER \in Nat BY <1>2
<1>4. /\ h \in Reads
      /\ ~h.panic => /\ h.size = empty.size + Len(set.h)
                     /\ Holds(h.buffer, empty.buffer, 0, set.h)
  BY <1>1, <1>2, <1>3, <1>s, ReadFile
<1>5. /\ g \in Reads
      /\ ~g.panic => /\ ~h.panic /\ g.size = h.size + Len(set.g)
                     /\ Holds(g.buffer, h.buffer, QUARTER, set.g)
  <2> HIDE DEF h
  <2> QED BY <1>1, <1>2, <1>4, <1>s, ReadFile
<1>6. /\ f \in Reads
      /\ ~f.panic => /\ ~g.panic /\ f.size = g.size + Len(set.f)
                     /\ Holds(f.buffer, g.buffer, 2 * QUARTER, set.f)
  <2> HIDE DEF g
  <2> QED BY <1>1, <1>2, <1>5, <1>s, ReadFile
<1>7. /\ e \in Reads
      /\ ~e.panic => /\ ~f.panic /\ e.size = f.size + Len(set.e)
                     /\ Holds(e.buffer, f.buffer, 3 * QUARTER, set.e)
  <2> HIDE DEF f
  <2> QED BY <1>1, <1>2, <1>6, <1>s, ReadFile
<1>8. load_invaders_rom(set) = e BY DEF load_invaders_rom, empty
<1>e. empty.size = 0 BY DEF empty
<1> HIDE DEF e, f, g, h
<1>9. ASSUME ~e.panic
      PROVE  /\ e.size = TotalSize(set)
             /\ \A name \in DOMAIN set : \A i \in 1..Len(set[name]) :
                  i <= QUARTER => e.buffer[StartAddress[name] + i - 1] = set[name][i]
  <2>1. ~f.panic /\ e.size = f.size + Len(set.e) /\ Holds(e.buffer, f.buffer, 3 * QUARTER, set.e)
    BY <1>7, <1>9
  <2>2. ~g.panic /\ f.size = g.size + Len(set.f) /\ Holds(f.buffer, g.buffer, 2 * QUARTER, set.f)
    BY <1>6, <2>1
  <2>3. ~h.panic /\ g.size = h.size + Len(set.g) /\ Holds(g.buffer, h.buffer, QUARTER, set.g)
    BY <1>5, <2>2
  <2>4. h.size = Len(set.h) /\ Holds(h.buffer, empty.buffer, 0, set.h)
    BY <1>2, <1>4, <1>e, <2>3
  <2>5. e.size = TotalSize(set) BY <1>2, <2>1, <2>2, <2>3, <2>4 DEF TotalSize
  <2>6. ASSUME NEW i \in 1..Len(set.h), i <= QUARTER PROVE e.buffer[i - 1] = set.h[i]
    <3> DEFINE addr == i - 1
    <3>0. addr \in 0..ROM_SIZE - 1 /\ addr < Len(set.h) /\ addr - 0 + 1 = i /\ addr < QUARTER
      BY <1>2, <2>6
    <3>1. addr >= 0 /\ addr < 0 + Len(set.h) BY <1>2, <2>6, <3>0
    <3> HIDE DEF addr
    <3>2. h.buffer[addr] = set.h[i] BY <2>4, <3>0, <3>1 DEF Holds
    <3>3. ~(addr >= QUARTER) /\ ~(addr >= 2 * QUARTER) /\ ~(addr >= 3 * QUARTER)
      BY <1>2, <3>0
    <3>4. e.buffer[addr] = set.h[i] BY <2>1, <2>2, <2>3, <3>0, <3>2, <3>3 DEF Holds
    <3> QED BY <3>4 DEF addr
  <2>7. ASSUME NEW i \in 1..Len(set.g), i <= QUARTER
        PROVE  e.buffer[QUARTER + i - 1] = set.g[i]
    <3> DEFINE addr == QUARTER + i - 1
    <3>0. /\ addr \in 0..ROM_SIZE - 1 /\ QUARTER <= addr /\ addr < QUARTER + Len(set.g)
          /\ addr - QUARTER + 1 = i /\ addr < 2 * QUARTER /\ addr < 3 * QUARTER
      BY <1>2, <2>7
    <3> HIDE DEF addr
    <3>1. g.buffer[addr] = set.g[i] BY <2>3, <3>0 DEF Holds
    <3>2. ~(addr >= 2 * QUARTER) /\ ~(addr >= 3 * QUARTER) BY <1>2, <3>0
    <3>3. f.buffer[addr] = set.g[i] BY <2>2, <3>0, <3>1, <3>2 DEF Holds
    <3>4. e.buffer[addr] = set.g[i] BY <2>1, <3>0, <3>2, <3>3 DEF Holds
    <3> QED BY <3>4 DEF addr
  <2>8. ASSUME NEW i \in 1..Len(set.f), i <= QUARTER
        PROVE  e.buffer[2 * QUARTER + i - 1] = set.f[i]
    <3>1. f.buffer[2 * QUARTER + i - 1] = set.f[i] BY <1>2, <2>2, <2>8 DEF Holds
    <3> QED BY <1>2, <2>1, <2>8, <3>1 DEF Holds
  <2>9. ASSUME NEW i \in 1..Len(set.e), i <= QUARTER
        PROVE  e.buffer[3 * QUARTER + i - 1] = set.e[i]
    BY <1>2, <2>1, <2>9 DEF Holds
  <2>10. ASSUME NEW name \in DOMAIN set, NEW i \in 1..Len(set[name]), i <= QUARTER
         PROVE  e.buffer[StartAddress[name] + i - 1] = set[name][i]
    <3>1. CASE name = "h"
      <4>1. StartAddress[name] + i - 1 = i - 1 BY <1>1, <1>2, <3>1
      <4> QED BY <2>10, <3>1, <4>1, <2>6
    <3>2. CASE name = "g" BY <1>1, <2>10, <3>2, <2>7
    <3>3. CASE name = "f" BY <1>1, <2>10, <3>3, <2>8
    <3>4. CASE name = "e" BY <1>1, <2>10, <3>4, <2>9
    <3> QED BY <1>2, <3>1, <3>2, <3>3, <3>4
  <2> QED BY <2>5, <2>10
<1> QED BY <1>7, <1>8, <1>9

\* The ROM load_rom makes of them: bytes, each file's in its quarter.
LEMMA LoadedRom ==
  ASSUME NEW set, AreRomFiles(set)
  PROVE  LET read == load_invaders_rom(set)
         IN  /\ load_rom(read) \in RomBytes
             /\ ~read.panic => InPlace(set, load_rom(read))
<1> DEFINE read == load_invaders_rom(set)
<1>1. /\ read \in Reads
      /\ ~read.panic =>
           /\ read.size = TotalSize(set)
           /\ \A name \in DOMAIN set : \A i \in 1..Len(set[name]) :
                i <= QUARTER => read.buffer[StartAddress[name] + i - 1] = set[name][i]
  BY FourFiles
<1> HIDE DEF read
<1>2. /\ read.buffer \in RomBytes /\ QUARTER \in Nat /\ ROM_SIZE = 4 * QUARTER
      /\ DOMAIN set = DOMAIN StartAddress
      /\ \A name \in DOMAIN StartAddress : StartAddress[name] \in Nat
      /\ \A name \in DOMAIN StartAddress : StartAddress[name] + QUARTER <= ROM_SIZE
  BY <1>1, QuarterAssumption DEF Reads, ROM_SIZE, StartAddress, AreRomFiles
<1>3. load_rom(read) \in RomBytes
  <2>1. 0 \in 0..255 OBVIOUS
  <2> QED BY <1>2, <2>1 DEF load_rom, RomBytes
<1>4. ASSUME ~read.panic, NEW name \in DOMAIN set, NEW i \in 1..Len(set[name]),
             i <= QUARTER, StartAddress[name] + i - 1 < TotalSize(set)
      PROVE  load_rom(read)[StartAddress[name] + i - 1] = set[name][i]
  <2>1. StartAddress[name] + i - 1 \in 0..ROM_SIZE - 1
    <3>1. i \in Nat /\ i >= 1 OBVIOUS
    <3> QED BY <1>2, <1>4, <3>1
  <2> QED BY <1>1, <1>4, <2>1 DEF load_rom
<1> QED BY <1>3, <1>4 DEF InPlace, read

(***************************************************************************)
(* The ROM and the files, from the start to the end of the emulation.      *)
(***************************************************************************)
\* No step writes to the ROM.
LEMMA RomIsReadOnly == [Next]_vars => UNCHANGED <<m_rom, files>>
<1> SUFFICES ASSUME [Next]_vars PROVE UNCHANGED <<m_rom, files>> OBVIOUS
<1> USE DEF setup, busVars
<1>b. ASSUME NEW ends, break(ends) PROVE UNCHANGED <<m_rom, files>>
  BY <1>b DEF break, reset, reset_bus
<1>1. CASE PollDebugger
  BY <1>1, <1>b DEF PollDebugger, update_debugger_window
<1>2. CASE MiddleOfFrame
  BY <1>2 DEF MiddleOfFrame, request_interrupt
<1>3. CASE EndOfFrame
  BY <1>3, <1>b DEF EndOfFrame, StoreInputs
<1>4. CASE Execute
  BY <1>4 DEF Execute, fetch_execute_instruction
<1>5. CASE Idle BY <1>5 DEF Idle
<1>6. CASE UserCloses BY <1>6 DEF UserCloses
<1>7. CASE Terminated \/ UNCHANGED vars BY <1>7 DEF Terminated, vars
<1> QED BY <1>1, <1>2, <1>3, <1>4, <1>5, <1>6, <1>7 DEF Next, Loop

(***************************************************************************)
(* The program the processor runs is the one of the files, to the end of   *)
(* the emulation and for any four files main can read: each of their bytes *)
(* that lies in its file's quarter of the ROM is in its place              *)
(* (main.cpp:31-34, binary_reader.cpp:13-34, load_rom of invaders.cpp, and *)
(* the bus that drops every write to the ROM).                             *)
(***************************************************************************)
THEOREM RomStaysInPlace == Spec => []RomInPlace
<1>1. Init => RomInPlace
  <2> SUFFICES ASSUME Init PROVE InPlace(files, m_rom) BY DEF RomInPlace
  <2>1. /\ AreRomFiles(files) /\ ~load_invaders_rom(files).panic
        /\ m_rom = load_rom(load_invaders_rom(files))
    BY MachineAssumption DEF Init, BusInit
  <2> QED BY <2>1, LoadedRom
<1>2. RomInPlace /\ [Next]_vars => RomInPlace'
  BY RomIsReadOnly DEF RomInPlace, InPlace
<1> QED BY <1>1, <1>2, PTL DEF Spec

-----------------------------------------------------------------------------
(***************************************************************************)
(* The processor and the bus.                                              *)
(***************************************************************************)
\* The slot holds what main.cpp requests, or nothing.
SlotOK ==
    IF m_interrupt.waiting THEN m_interrupt.instruction \in {207, 215}
    ELSE m_interrupt.instruction = 0

CpuInv == TypeOK /\ SlotOK

LEMMA InitCpuInv == Init => CpuInv
<1> SUFFICES ASSUME Init PROVE CpuInv OBVIOUS
<1>1. 0 \in Word /\ 0 \in Byte /\ 2 \in PswByte
  BY DEF Word, TwoTo16, Byte, PswByte, Bit
<1>2. CpuTypeOK /\ SlotOK
  BY <1>1 DEF Init, CpuInit, CpuTypeOK, InterruptSystem, SlotOK
<1>3. m_rom \in RomImage
  <2>1. AreRomFiles(files) /\ m_rom = load_rom(load_invaders_rom(files))
    BY MachineAssumption DEF Init, BusInit
  <2>2. m_rom \in RomBytes BY <2>1, LoadedRom
  <2> QED BY <2>2, MachineAssumption DEF RomBytes, RomImage, Byte
<1>4. BusTypeOK
  BY <1>1, <1>3, EmptyRamType DEF Init, BusInit, BusTypeOK, ShiftInit, ShiftTypeOK
<1> QED BY <1>2, <1>4 DEF CpuInv, TypeOK

\* Every duration of the table and of a taken branch is from 4 to 18 cycles.
LEMMA CyclesType == TypeOK => instruction_cycles \in 4..18
<1> SUFFICES ASSUME TypeOK PROVE instruction_cycles \in 4..18 OBVIOUS
<1>1. ins \in 0..255 BY InstructionType DEF Byte
<1>2. instruction_clock_cycles(ins) \in {4, 5, 7, 10, 11, 13, 16, 17, 18}
  BY DEF instruction_clock_cycles
<1>3. branch_taken => instruction_clock_cycles(ins) <= 11
  BY <1>1 DEF branch_taken, SSS, instruction_clock_cycles
<1> QED BY <1>2, <1>3 DEF instruction_cycles

\* An instruction that takes the waiting request empties the slot, and changes
\* neither the flip-flop nor the halt.
LEMMA TakingInstruction ==
    ASSUME CpuInv, fetch_execute_instruction, accepting
    PROVE  /\ m_interrupt' = [m_interrupt EXCEPT !.waiting = FALSE, !.instruction = 0]
           /\ UNCHANGED m_halted
<1>1. ins \in {207, 215} BY DEF CpuInv, SlotOK, accepting, ins
<1>2. dataHandler
  BY <1>1 DEF fetch_execute_instruction, interruptHandler, ei, di, hlt
<1> QED BY <1>2 DEF dataHandler, interrupt_taken

\* Any other instruction leaves the slot; it moves the flip-flop, or halts, or
\* does neither.
LEMMA OtherInstruction ==
    ASSUME CpuInv, fetch_execute_instruction, ~accepting
    PROVE  /\ m_interrupt'.waiting = m_interrupt.waiting
           /\ m_interrupt'.instruction = m_interrupt.instruction
           /\ m_interrupt'.enabled \in BOOLEAN
           /\ \/ UNCHANGED m_halted
              \/ m_halted' = TRUE /\ m_interrupt'.enabled = m_interrupt.enabled
<1>1. interrupt_taken = m_interrupt /\ m_interrupt \in InterruptSystem
  BY DEF interrupt_taken, CpuInv, TypeOK, CpuTypeOK
<1>2. CASE dataHandler BY <1>1, <1>2 DEF dataHandler, InterruptSystem
<1>3. CASE interruptHandler
  <2>1. /\ \E b \in BOOLEAN : m_interrupt' = [interrupt_taken EXCEPT !.enabled = b]
        /\ UNCHANGED m_halted
    BY <1>3 DEF interruptHandler, ei, di
  <2> QED BY <1>1, <2>1 DEF InterruptSystem
<1>4. CASE hlt BY <1>1, <1>4 DEF hlt, InterruptSystem
<1> QED BY <1>2, <1>3, <1>4 DEF fetch_execute_instruction

\* A poll that ends the program resets the processor.
LEMMA BreakKeepsCpuInv == ASSUME CpuInv, NEW ends, break(ends) PROVE CpuInv'
<1>1. TypeOK' BY ResetKeepsTypes DEF break, CpuInv
<1> QED BY <1>1 DEF break, reset, CpuInv, SlotOK

\* A request makes an interrupt system of an interrupt system.
LEMMA WaitingType ==
  ASSUME NEW system \in InterruptSystem, NEW vector \in Byte
  PROVE  [system EXCEPT !.instruction = vector, !.waiting = TRUE] \in InterruptSystem
BY DEF InterruptSystem

LEMMA NextCpuInv == CpuInv /\ [Next]_vars => CpuInv'
<1> SUFFICES ASSUME CpuInv, [Next]_vars PROVE CpuInv' OBVIOUS
<1> USE DEF CpuInv
<1>0. m_interrupt \in InterruptSystem /\ 207 \in Byte /\ 215 \in Byte
  BY DEF TypeOK, CpuTypeOK, Byte
<1>u. ASSUME UNCHANGED <<cpuVars, busVars>> PROVE CpuInv'
  BY <1>u DEF cpuVars, busVars, TypeOK, CpuTypeOK, BusTypeOK, ShiftTypeOK, SlotOK
<1>1. CASE PollDebugger
  <2>1. CASE break({"quit", "game", "debugger"}) BY <2>1, BreakKeepsCpuInv
  <2>2. CASE ~break({"quit", "game", "debugger"})
    BY <1>1, <2>2, <1>u DEF PollDebugger, update_debugger_window
  <2> QED BY <2>1, <2>2
<1>2. CASE MiddleOfFrame
  <2>1. CASE request_interrupt(207)
    <3>1. TypeOK' BY <1>0, <2>1, RequestKeepsTypes
    <3> QED BY <1>0, <2>1, <3>1 DEF request_interrupt, SlotOK, InterruptSystem
  <2>2. CASE ~request_interrupt(207)
    BY <1>2, <2>2, <1>u DEF MiddleOfFrame
  <2> QED BY <2>1, <2>2
<1>3. CASE EndOfFrame
  <2>1. CASE FrameDue /\ break({"quit", "game"}) BY <2>1, BreakKeepsCpuInv
  <2>2. CASE FrameDue /\ ~break({"quit", "game"})
    <3>1. /\ m_interrupt' = [m_interrupt EXCEPT !.instruction = 215, !.waiting = TRUE]
          /\ m_halted' = FALSE /\ UNCHANGED registerVars
          /\ \E kb_inputs \in InputBytes : StoreInputs(kb_inputs)
      BY <1>3, <2>2 DEF EndOfFrame
    <3>m. m_interrupt' \in InterruptSystem BY <3>1, <1>0, WaitingType
    <3>2. CpuTypeOK' BY <3>1, <3>m DEF TypeOK, CpuTypeOK, registerVars
    <3>3. BusTypeOK'
      BY <3>1, MachineAssumption DEF TypeOK, BusTypeOK, StoreInputs, ShiftTypeOK
    <3>4. SlotOK' BY <3>1, <1>0 DEF SlotOK, InterruptSystem
    <3> QED BY <3>2, <3>3, <3>4 DEF TypeOK
  <2>3. CASE ~FrameDue BY <1>3, <2>3, <1>u DEF EndOfFrame
  <2> QED BY <2>1, <2>2, <2>3
<1>4. CASE Execute
  <2>1. fetch_execute_instruction BY <1>4 DEF Execute
  <2>2. TypeOK' BY <2>1, StepKeepsTypes
  <2>3. SlotOK'
    <3>1. CASE accepting
      BY <1>0, <2>1, <3>1, TakingInstruction DEF SlotOK, InterruptSystem
    <3>2. CASE ~accepting BY <2>1, <3>2, OtherInstruction DEF SlotOK
    <3> QED BY <3>1, <3>2
  <2> QED BY <2>2, <2>3
<1>5. CASE Idle BY <1>5, <1>u DEF Idle
<1>6. CASE UserCloses BY <1>6, <1>u DEF UserCloses
<1>7. CASE Terminated \/ UNCHANGED vars BY <1>7, <1>u DEF Terminated, vars
<1> QED BY <1>1, <1>2, <1>3, <1>4, <1>5, <1>6, <1>7 DEF Next, Loop

(***************************************************************************)
(* The processor keeps its types in the whole emulator, whatever its       *)
(* program, its keys and its debugger do.                                  *)
(***************************************************************************)
THEOREM MachineKeepsTypes == Spec => []CpuTypeOK
<1>1. CpuInv => CpuTypeOK BY DEF CpuInv, TypeOK
<1> QED BY <1>1, InitCpuInv, NextCpuInv, PTL DEF Spec

-----------------------------------------------------------------------------
(***************************************************************************)
(* The loop of FrameLoop.                                                  *)
(***************************************************************************)
LEMMA InitFrame == Init => Frame!Init
BY MachineAssumption DEF Init, CpuInit, Frame!Init, Frame!NoInstruction

\* Polls and buttons change nothing of the processor but by a reset.
LEMMA BreakIsFrameBreak ==
  ASSUME NEW ends, break(ends)
  PROVE  Frame!break(ends) /\ UNCHANGED setup
BY DEF break, reset, setup, clockVars, buttonVars, Frame!break, Frame!NoInstruction,
       Frame!debugVars

LEMMA MachineStep == CpuInv /\ [Next]_vars => [Frame!Next]_(Frame!vars)
<1> SUFFICES ASSUME CpuInv, [Next]_vars PROVE [Frame!Next]_(Frame!vars) OBVIOUS
<1> USE DEF Frame!setup, Frame!loopVars, Frame!debugVars, Frame!slotVars, Frame!cpuVars,
            clockVars, buttonVars, setup
<1>0. m_interrupt \in InterruptSystem BY DEF CpuInv, TypeOK, CpuTypeOK
<1>d. (HalfDue <=> Frame!HalfDue) /\ (FrameDue <=> Frame!FrameDue)
  BY DEF HalfDue, FrameDue, Frame!HalfDue, Frame!FrameDue
<1>1. CASE PollDebugger
  <2>1. CASE debug_build /\ (FrameDue \/ ~debug_cpu_running)
    <3>1. CASE break({"quit", "game", "debugger"})
      BY <1>1, <1>d, <2>1, <3>1, BreakIsFrameBreak
      DEF PollDebugger, Frame!PollDebugger, Frame!update_debugger_window,
          Frame!EndsDebugger, Frame!CloseEvents, Frame!Next, Frame!Loop
    <3>2. CASE ~break({"quit", "game", "debugger"})
      BY <1>1, <1>d, <2>1, <3>2
      DEF PollDebugger, update_debugger_window, drain, cpuVars, Frame!PollDebugger,
          Frame!update_debugger_window, Frame!drain, Frame!EndsDebugger,
          Frame!CloseEvents, Frame!Next, Frame!Loop
    <3> QED BY <3>1, <3>2
  <2>2. CASE ~(debug_build /\ (FrameDue \/ ~debug_cpu_running))
    BY <1>1, <1>d, <2>2
    DEF PollDebugger, cpuVars, Frame!PollDebugger, Frame!Next, Frame!Loop
  <2> QED BY <2>1, <2>2
<1>2. CASE MiddleOfFrame
  <2>1. CASE HalfDue
    BY <1>0, <1>2, <1>d, <2>1
    DEF MiddleOfFrame, request_interrupt, Frame!MiddleOfFrame, Frame!request_interrupt,
        Frame!RST1, Frame!Next, Frame!Loop, InterruptSystem
  <2>2. CASE ~HalfDue
    BY <1>2, <1>d, <2>2 DEF MiddleOfFrame, cpuVars, Frame!MiddleOfFrame, Frame!Next, Frame!Loop
  <2> QED BY <2>1, <2>2
<1>3. CASE EndOfFrame
  <2>1. CASE FrameDue /\ break({"quit", "game"})
    BY <1>3, <1>d, <2>1, BreakIsFrameBreak
    DEF EndOfFrame, Frame!EndOfFrame, Frame!EndsGame, Frame!Next, Frame!Loop
  <2>2. CASE FrameDue /\ ~break({"quit", "game"})
    BY <1>0, <1>3, <1>d, <2>2
    DEF EndOfFrame, drain, Frame!EndOfFrame, Frame!drain, Frame!EndsGame,
        Frame!request_interrupt, Frame!RST2, Frame!Next, Frame!Loop, InterruptSystem
  <2>3. CASE ~FrameDue
    BY <1>3, <1>d, <2>3 DEF EndOfFrame, cpuVars, Frame!EndOfFrame, Frame!Next, Frame!Loop
  <2> QED BY <2>1, <2>2, <2>3
<1>4. CASE Execute
  <2>1. fetch_execute_instruction /\ instruction_cycles \in 4..18
    BY <1>4, CyclesType DEF Execute, CpuInv
  <2>2. Frame!fetch_execute_instruction
    <3>1. CASE accepting
      BY <1>0, <1>4, <2>1, <3>1, TakingInstruction
      DEF Execute, accepting, Frame!fetch_execute_instruction, Frame!NoInstruction,
          InterruptSystem
    <3>2. CASE ~accepting
      BY <1>4, <2>1, <3>2, OtherInstruction
      DEF Execute, accepting, Frame!fetch_execute_instruction
    <3> QED BY <3>1, <3>2
  <2> QED BY <1>4, <2>2 DEF Execute, ProcessorRuns, Frame!Execute, Frame!Next, Frame!Loop
<1>5. CASE Idle
  BY <1>5 DEF Idle, ProcessorRuns, cpuVars, Frame!Idle, Frame!Next, Frame!Loop
<1>6. CASE UserCloses
  BY <1>6, MachineAssumption
  DEF UserCloses, cpuVars, Frame!UserCloses, Frame!CloseEvents, Frame!Next
<1>7. CASE Terminated \/ UNCHANGED vars
  BY <1>7 DEF Terminated, vars, cpuVars, Frame!vars
<1> QED BY <1>1, <1>2, <1>3, <1>4, <1>5, <1>6, <1>7 DEF Next, Loop

(***************************************************************************)
(* The emulator implements the loop of FrameLoop: every step of main with  *)
(* the real processor, its cycles, its slot and the debugger's table is a  *)
(* step of the loop or changes nothing of it, whatever the program.        *)
(***************************************************************************)
THEOREM MachineImplementsFrameLoop == Spec => ImplementsFrameLoop
BY InitCpuInv, NextCpuInv, InitFrame, MachineStep, PTL DEF Spec, ImplementsFrameLoop

-----------------------------------------------------------------------------
(***************************************************************************)
(* What FrameLoopProofs shows of the loop holds of the emulator: its       *)
(* lemmas, with the durations of the table and the slot of the processor.  *)
(***************************************************************************)
FP == INSTANCE FrameLoopProofs
        WITH Cycles <- 4..18, MaxCycles <- 18, Halts <- {TRUE}, may_halt <- TRUE,
             enabled <- m_interrupt.enabled, waiting <- m_interrupt.waiting,
             instruction <- m_interrupt.instruction, halted <- m_halted

\* The assumption of FrameLoop about its constants.
LEMMA FrameAssumed ==
    /\ VBLANK_RATE \in Nat /\ 18 \in Nat
    /\ 4..18 \subseteq 1..18
    /\ 18 <= VBLANK_RATE - VBLANK_RATE \div 2
    /\ Builds \subseteq BOOLEAN /\ {TRUE} \subseteq BOOLEAN
BY MachineAssumption

LEMMA SameLoop ==
    /\ Frame!Init <=> FP!Init
    /\ Frame!vars = FP!vars /\ Frame!vars' = FP!vars'
    /\ Frame!Next <=> FP!Next
    /\ Frame!FrameInv <=> FP!FrameInv
    /\ Frame!FrameInv' <=> FP!FrameInv'
BY DEF Frame!vars, FP!vars, Frame!setup, FP!setup, Frame!loopVars, FP!loopVars,
       Frame!debugVars, FP!debugVars, Frame!slotVars, FP!slotVars, Frame!cpuVars,
       FP!cpuVars, Frame!CloseEvents, FP!CloseEvents, Frame!RST1, FP!RST1, Frame!RST2,
       FP!RST2, Frame!NoInstruction, FP!NoInstruction, Frame!FrameTypeOK,
       FP!FrameTypeOK, Frame!Init, FP!Init, Frame!EndsDebugger, FP!EndsDebugger,
       Frame!EndsGame, FP!EndsGame, Frame!break, FP!break, Frame!drain, FP!drain,
       Frame!request_interrupt, FP!request_interrupt, Frame!HalfDue, FP!HalfDue,
       Frame!FrameDue, FP!FrameDue, Frame!update_debugger_window,
       FP!update_debugger_window, Frame!PollDebugger, FP!PollDebugger,
       Frame!MiddleOfFrame, FP!MiddleOfFrame, Frame!EndOfFrame, FP!EndOfFrame,
       Frame!fetch_execute_instruction, FP!fetch_execute_instruction, Frame!Execute,
       FP!Execute, Frame!Idle, FP!Idle, Frame!Loop, FP!Loop, Frame!UserCloses,
       FP!UserCloses, Frame!Terminated, FP!Terminated, Frame!Next, FP!Next,
       Frame!Timely, FP!Timely, Frame!FrameInv, FP!FrameInv

LEMMA MachineFrameInv == Spec => []Frame!FrameInv
<1>1. Init => Frame!FrameInv
  BY InitFrame, SameLoop, FrameAssumed, FP!InitFrameInv
<1>2. CpuInv /\ Frame!FrameInv /\ [Next]_vars => Frame!FrameInv'
  <2> SUFFICES ASSUME CpuInv, FP!FrameInv, [Next]_vars PROVE FP!FrameInv'
    BY SameLoop
  <2>1. [FP!Next]_(FP!vars) BY MachineStep, SameLoop
  <2>2. FP!FrameTypeOK' BY <2>1, FrameAssumed, FP!NextFrameType DEF FP!FrameInv
  <2>3. FP!Timely' BY <2>1, FrameAssumed, FP!NextTimely DEF FP!FrameInv
  <2> QED BY <2>2, <2>3 DEF FP!FrameInv
<1> QED BY <1>1, <1>2, InitCpuInv, NextCpuInv, PTL DEF Spec

(***************************************************************************)
(* In the whole emulator a request is lost only to a program that ran an   *)
(* instruction with interrupts disabled since the last one, whatever the   *)
(* program is (request_interrupt has one slot, cpu.cpp:77-81).             *)
(***************************************************************************)
THEOREM MachineLosesOnlyMasked == Spec => Frame!LostOnlyWhileMasked
<1>1. /\ CpuInv /\ Frame!FrameInv /\ [Next]_vars =>
           [m_interrupt.waiting /\ interrupt_requested' # interrupt_requested => masked]_(Frame!vars)
  BY MachineStep, SameLoop, FrameAssumed, FP!RequestLosesMasked
<1> QED BY <1>1, InitCpuInv, NextCpuInv, MachineFrameInv, PTL DEF Spec, Frame!LostOnlyWhileMasked

(***************************************************************************)
(* The whole emulator keeps the game's clock: with the durations of the    *)
(* table and of taken branches RST 1 and RST 2 alternate, each requested   *)
(* before another instruction once it is due (main.cpp:98-131).            *)
(***************************************************************************)
THEOREM MachineKeepsClock == Spec => Frame!ImplementsFrameClock
<1>1. Init => Frame!Clock!Init
  BY DEF Init, Frame!Clock!Init
<1>2. CpuInv /\ Frame!FrameInv /\ [Next]_vars => [Frame!Clock!Next]_(Frame!Clock!vars)
  <2>1. (Frame!Clock!Next <=> FP!Clock!Next) /\ Frame!Clock!vars = FP!Clock!vars
        /\ Frame!Clock!vars' = FP!Clock!vars'
    BY DEF Frame!Clock!Next, Frame!Clock!Run, Frame!Clock!RequestRst1, Frame!Clock!RequestRst2,
           Frame!Clock!HalfDue, Frame!Clock!FrameDue, Frame!Clock!vars,
           FP!Clock!Next, FP!Clock!Run, FP!Clock!RequestRst1, FP!Clock!RequestRst2,
           FP!Clock!HalfDue, FP!Clock!FrameDue, FP!Clock!vars
  <2> QED BY <2>1, MachineStep, SameLoop, FrameAssumed, FP!ClockStep
<1> QED BY <1>1, <1>2, InitCpuInv, NextCpuInv, MachineFrameInv, PTL
        DEF Spec, Frame!ImplementsFrameClock, Frame!Clock!Spec

-----------------------------------------------------------------------------
(***************************************************************************)
(* The breakpoints.  From the debugger's first update on, the table holds  *)
(* the addresses entered, in their order, and no other; before it the      *)
(* processor does not run.                                                 *)
(***************************************************************************)
Table(entered) ==
    [slot \in Slots |-> IF slot < Len(entered) THEN entered[slot + 1] ELSE FreeSlot]

BreakInv ==
    /\ typed \in Seq(Word) /\ Len(typed) <= MAX_BREAKPOINTS
    /\ available_breakpoint_slot_idx = Len(typed)
    /\ breakpoints_initialised \in BOOLEAN
    /\ IF breakpoints_initialised THEN breakpoints = Table(typed)
       ELSE typed = <<>> /\ ~debug_cpu_running /\ ~step_through_cpu

LEMMA InitBreakInv == Init => BreakInv
<1> SUFFICES ASSUME Init PROVE BreakInv OBVIOUS
<1>1. typed = <<>> /\ ~debug_cpu_running /\ ~step_through_cpu BY DEF Init
<1>2. breakpoints_initialised = FALSE /\ available_breakpoint_slot_idx = 0 BY DEF Init
<1>3. <<>> \in Seq(Word) /\ Len(<<>>) = 0 OBVIOUS
<1>4. 0 <= MAX_BREAKPOINTS BY MachineAssumption
<1> QED BY <1>1, <1>2, <1>3, <1>4 DEF BreakInv

LEMMA InitialisedTable == BreakInv => initialised_breakpoints = Table(typed)
<1> SUFFICES ASSUME BreakInv PROVE initialised_breakpoints = Table(typed) OBVIOUS
<1>1. CASE breakpoints_initialised BY <1>1 DEF BreakInv, initialised_breakpoints
<1>2. CASE ~breakpoints_initialised
  <2>1. Len(typed) = 0 BY <1>2 DEF BreakInv
  <2> QED BY <1>2, <2>1 DEF initialised_breakpoints, Table, Slots
<1> QED BY <1>1, <1>2

\* An entry is appended, or there is no slot left.
LEMMA EntryAppends ==
  ASSUME BreakInv, NEW addr \in Word, add_breakpoint(addr),
         typed' = IF Len(typed) < MAX_BREAKPOINTS THEN Append(typed, addr) ELSE typed
  PROVE  /\ typed' \in Seq(Word) /\ Len(typed') <= MAX_BREAKPOINTS
         /\ available_breakpoint_slot_idx' = Len(typed')
         /\ breakpoints' = Table(typed')
<1> DEFINE free == {slot \in Slots : /\ slot >= available_breakpoint_slot_idx
                                     /\ initialised_breakpoints[slot] = FreeSlot}
<1>0. /\ MAX_BREAKPOINTS \in Nat /\ typed \in Seq(Word) /\ Len(typed) \in Nat
      /\ Len(typed) <= MAX_BREAKPOINTS
      /\ available_breakpoint_slot_idx = Len(typed)
  BY MachineAssumption DEF BreakInv
<1>1. initialised_breakpoints = Table(typed) BY InitialisedTable
<1>2. free = Len(typed)..MAX_BREAKPOINTS - 1
  BY <1>0, <1>1 DEF Table, Slots
<1>3. CASE free = {}
  <2>1. Len(typed) = MAX_BREAKPOINTS /\ typed' = typed BY <1>0, <1>2, <1>3
  <2>2. breakpoints' = Table(typed) /\ available_breakpoint_slot_idx' = MAX_BREAKPOINTS
    BY <1>1, <1>3 DEF add_breakpoint
  <2> QED BY <1>0, <2>1, <2>2
<1>4. CASE free # {}
  <2>1. Len(typed) < MAX_BREAKPOINTS /\ typed' = Append(typed, addr) BY <1>0, <1>2, <1>4
  <2>2. PICK slot \in free :
          /\ \A other \in free : slot <= other
          /\ breakpoints' = [Table(typed) EXCEPT ![slot] = addr]
          /\ available_breakpoint_slot_idx' = slot + 1
    BY <1>1, <1>4 DEF add_breakpoint
  <2>3. slot = Len(typed) BY <1>0, <1>2, <2>1, <2>2
  <2>4. typed' \in Seq(Word) /\ Len(typed') = Len(typed) + 1 BY <1>0, <2>1
  <2>5. \A i \in 1..Len(typed) : typed'[i] = typed[i] BY <1>0, <2>1
  <2>6. typed'[Len(typed) + 1] = addr BY <1>0, <2>1
  <2>7. breakpoints' = Table(typed')
    <3>1. ASSUME NEW n \in Slots
          PROVE  [Table(typed) EXCEPT ![slot] = addr][n] = Table(typed')[n]
      <4>1. CASE n < Len(typed)
        BY <1>0, <2>3, <2>4, <2>5, <4>1 DEF Table, Slots
      <4>2. CASE n = Len(typed)
        BY <1>0, <2>3, <2>4, <2>6, <4>2 DEF Table, Slots
      <4>3. CASE n > Len(typed)
        BY <1>0, <2>3, <2>4, <4>3 DEF Table, Slots
      <4> QED BY <1>0, <4>1, <4>2, <4>3 DEF Slots
    <3> QED BY <2>2, <3>1 DEF Table
  <2> QED BY <1>0, <2>1, <2>2, <2>3, <2>4, <2>7
<1> QED BY <1>3, <1>4

LEMMA NextBreakInv == BreakInv /\ [Next]_vars => BreakInv'
<1> SUFFICES ASSUME BreakInv, [Next]_vars PROVE BreakInv' OBVIOUS
<1>u. ASSUME UNCHANGED <<breakpointVars, buttonVars>> PROVE BreakInv'
  BY <1>u DEF breakpointVars, buttonVars, BreakInv, Table
<1>1. CASE PollDebugger
  <2>1. CASE UNCHANGED <<breakpointVars, buttonVars>> BY <2>1, <1>u
  <2>2. CASE ~UNCHANGED <<breakpointVars, buttonVars>>
    <3>1. /\ breakpoints_initialised' = TRUE
          /\ \/ /\ breakpoints' = initialised_breakpoints
                /\ UNCHANGED <<available_breakpoint_slot_idx, typed>>
             \/ \E addr \in Addresses :
                  /\ add_breakpoint(addr)
                  /\ typed' = IF Len(typed) < MAX_BREAKPOINTS THEN Append(typed, addr)
                              ELSE typed
      BY <1>1, <2>2 DEF PollDebugger, update_debugger_window, break
    <3>2. CASE /\ breakpoints' = initialised_breakpoints
               /\ UNCHANGED <<available_breakpoint_slot_idx, typed>>
      BY <3>1, <3>2, InitialisedTable DEF BreakInv, Table
    <3>3. CASE \E addr \in Addresses :
                 /\ add_breakpoint(addr)
                 /\ typed' = IF Len(typed) < MAX_BREAKPOINTS THEN Append(typed, addr)
                             ELSE typed
      BY <3>1, <3>3, MachineAssumption, EntryAppends DEF BreakInv
    <3> QED BY <3>1, <3>2, <3>3
  <2> QED BY <2>1, <2>2
<1>2. CASE MiddleOfFrame BY <1>2, <1>u DEF MiddleOfFrame
<1>3. CASE EndOfFrame BY <1>3, <1>u DEF EndOfFrame, break
<1>4. CASE Execute
  <2>1. debug_cpu_running' => debug_cpu_running BY <1>4 DEF Execute, buttonVars
  <2>2. step_through_cpu' => step_through_cpu BY <1>4 DEF Execute, buttonVars
  <2>3. UNCHANGED breakpointVars BY <1>4 DEF Execute
  <2> QED BY <2>1, <2>2, <2>3 DEF breakpointVars, BreakInv, Table
<1>5. CASE Idle BY <1>5, <1>u DEF Idle
<1>6. CASE UserCloses BY <1>6, <1>u DEF UserCloses
<1>7. CASE Terminated \/ UNCHANGED vars BY <1>7, <1>u DEF Terminated, vars
<1> QED BY <1>1, <1>2, <1>3, <1>4, <1>5, <1>6, <1>7 DEF Next, Loop

\* An address stands in the table when it was entered; the marker of a free slot is
\* no address.
LEMMA TableHoldsEntries ==
  ASSUME BreakInv, breakpoints_initialised, NEW addr \in Word
  PROVE  (\A slot \in Slots : breakpoints[slot] # addr) <=> (\A i \in DOMAIN typed : typed[i] # addr)
<1>0. /\ MAX_BREAKPOINTS \in Nat /\ Len(typed) \in Nat /\ Len(typed) <= MAX_BREAKPOINTS
      /\ DOMAIN typed = 1..Len(typed) /\ breakpoints = Table(typed)
  BY MachineAssumption DEF BreakInv
<1>1. addr # FreeSlot BY DEF FreeSlot, Word, TwoTo16
<1>2. ASSUME NEW i \in DOMAIN typed PROVE i - 1 \in Slots /\ breakpoints[i - 1] = typed[i]
  BY <1>0, <1>2 DEF Table, Slots
<1>3. ASSUME NEW slot \in Slots
      PROVE  \/ breakpoints[slot] = FreeSlot
             \/ slot + 1 \in DOMAIN typed /\ breakpoints[slot] = typed[slot + 1]
  BY <1>0 DEF Table, Slots
<1> QED BY <1>1, <1>2, <1>3

LEMMA PauseStep ==
  ASSUME CpuInv', BreakInv, Execute, debug_build
  PROVE  debug_cpu_running' =
           (debug_cpu_running /\ \A i \in DOMAIN typed : typed[i] # m_pc')
<1>1. breakpoints_initialised BY DEF Execute, ProcessorRuns, BreakInv
<1>2. m_pc' \in Word BY DEF CpuInv, TypeOK, CpuTypeOK
<1>3. debug_cpu_running' =
        (debug_cpu_running /\ \A slot \in Slots : breakpoints[slot] # m_pc')
  BY DEF Execute
<1> QED BY <1>1, <1>2, <1>3, TableHoldsEntries

(***************************************************************************)
(* In the debug build the processor pauses behind an instruction exactly   *)
(* when it leads to an address that the user entered, whatever the number  *)
(* of slots and of entries (gui.cpp:238-264, main.cpp:124-129).            *)
(***************************************************************************)
THEOREM BreakpointsAlwaysPause == Spec => BreakpointsPause
<1>1. CpuInv /\ BreakInv /\ [Next]_vars /\ CpuInv' =>
        [debug_build /\ Execute =>
           debug_cpu_running' =
             (debug_cpu_running /\ \A i \in DOMAIN typed : typed[i] # m_pc')]_vars
  BY PauseStep
<1> QED BY <1>1, InitCpuInv, NextCpuInv, InitBreakInv, NextBreakInv, PTL DEF Spec, BreakpointsPause
=============================================================================
