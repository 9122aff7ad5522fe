# A TLA+ model of the i8080 / Space Invaders emulator

This directory models the emulator in TLA+: its processor, bus, interrupts and
main loop, the debugger's breakpoints, the keys, the loading of the ROM, the
disassembler's decoding and the CP/M test harness. TLC checks the models on
small instances, and TLAPS proves what holds for every instance. Paths such as
`cpu.cpp` are under `src/src/core/`, `invaders.cpp`, `shift_register.cpp` and
`main.cpp` under `src/src/core/invaders/`, `gui.cpp` under `src/src/gui/`.

## 1. The system

The program is single-threaded C++. `main` loads a ROM, builds a bus, a
processor and a window, and runs a loop that polls the windows, requests two
interrupts per frame and executes one instruction per pass. A second program,
`cpu-test`, runs CP/M test programs on the same processor.

| component | state | operations | correct when |
|---|---|---|---|
| CPU (`cpu.cpp`, `cpu.h`, `cpu_state.h`, `utils.h`) | pc, sp, status word, seven registers, halted flag | `fetch_execute_instruction` and the 256 opcodes behind it, with the cycles it returns; `reset` | every instruction does what its arithmetic says; calls, pushes and exchanges unwind; nothing leaves its type |
| Interrupt system (`cpu.cpp`, `cpu.h`) | enabled, waiting, one slot for an instruction | `request_interrupt`, acceptance, EI, DI, HLT, `reset` | a request is run once or overwritten, never twice; an interrupt is invisible to the program it interrupts |
| InvadersBus (`invaders.cpp`) | ROM, RAM, three input bytes, the shift register | `memory_read/write`, `io_read/write`, `reset`, `load_rom` | one RAM seen at two addresses, nothing else writable; no access outside an array |
| ShiftRegister (`shift_register.cpp`) | 16 bits of data, 3 bits of offset | two writes, one read | reads any 8 consecutive bits of the last two bytes written |
| Main loop (`main.cpp:46-150`) | cycle counter, request flag, running flags, breakpoint table | the pass of the loop | RST 1 and RST 2 alternate, twice a frame, and their routines run; frames keep ending; closing a window ends the program |
| ROM loading (`main.cpp:18-45`, `binary_reader.cpp`) | a buffer | four files at fixed offsets | every byte of a file that belongs into the ROM is where the program expects it |
| Game window and keys (`gui.cpp:81-178`) | key bytes, window, texture | poll of the SDL queue, drawing | the last event of a key decides its bit; every bit of the picture comes from the video RAM |
| Debugger window (`gui.cpp:180-376`, debug build) | run/step flags, breakpoints, static indices | Run/Pause, Step, breakpoints, poll of the SDL queue | pausing changes nothing but time; the processor stops exactly at the breakpoints entered |
| Disassembler (`src/src/disasm`) | none | `disassemble_rom` | it takes the same bytes for instructions as the processor |
| CP/M harness (`cpu-test/main.cpp`) | 64K of memory | two CP/M calls, loop to HLT | a call prints its text, once, and returns |
| Logging (`logging.h`), build, test ROMs | none | formatting; NDEBUG | - |

**How they interact.** All calls are synchronous. The processor calls the bus
for each fetched byte, operand, stack access and port; the bus calls its shift
register for ports 2, 3 and 4. The loop calls `request_interrupt` between
instructions and writes the key bytes into the bus once a frame. The user acts
at any moment, through a queue of SDL events that is looked at only at some
points of the loop. In the debug build two windows poll the same queue.

**Which behaviours are hard.** Interrupts fall between any two instructions,
nested ones too. There is one slot for requests, so an early RST 1 can be
overwritten. The loop is late by the length of an instruction at both points of
a frame. A halted processor adds no cycles, while interrupts and polls wait for
cycles. The debugger changes its flags in the middle of a pass. The arithmetic
is done bit by bit, and the stack wraps at 16 bits and runs over mirrored
memory. There is no concurrency, no persistence and no network, hence no crash
recovery and no lost messages other than key events. `PROJECT.json` lists each
hazard at its line with the properties that cover it.

## 2. The modules

| module | models | refines / uses |
|---|---|---|
| `I8080Alu` | `utils.h`, the status word of `cpu_state.h`, and the arithmetic of `cpu.cpp` (binary_add bit by bit, add, sub, cmp, the logical operations, rotations, inr, dcr, inx, dcx, dad, daa) as operators on bytes | - |
| `ShiftRegister` | the shift register | - |
| `InvadersBus` | the memory map and the ports, `PAGE` bytes to a page (4096 in the code) | extends `ShiftRegister` |
| `I8080Cpu` | one action per group of opcodes that share a handler, `fetch_execute_instruction`, `request_interrupt`, `reset` | extends `I8080Alu`, `InvadersBus` |
| `I8080Cycles` | the table of `cpu.h:64-81` and the 6 cycles of a branch taken | extends `I8080Cpu` |
| `AddressSpace`, `ByteWindow` | abstract: mirrored memory; a window over two bytes | - |
| `InvadersBoard` | the bus driven by any caller | implements the two above |
| `Screen` | which bit of the video RAM each point of the window shows | - |
| `InterruptLatch` | abstract: a one-slot latch of requests | - |
| `InterruptedCpu` | the processor with a device that requests and resets between any two instructions, and a history of the words on its stack | implements `InterruptLatch` |
| `Disasm` | which bytes of a ROM the disassembler takes for instructions | - |
| `ProgramRun`, `ProgramListing` | the processor running one program to its HLT; the same beside the debugger's listing of its ROM | extends `I8080Cpu`, `Disasm` |
| `FrameClock` | abstract: the clock of the game, RST 1 in the middle of a frame and RST 2 at its end | - |
| `FrameLoop` | the loop of `main.cpp:69-145` over any processor, release and debug build, with the user | implements `FrameClock` |
| `RomLoader` | `load_invaders_rom`, `read_bin_file`, `load_rom`: four files into quarters of `QUARTER` bytes (0x800 in the code) | - |
| `InvadersMachine` | the whole emulator: that loop with the processor, its cycles, the bus, the loaded ROM, the inputs and the debugger's breakpoint table | implements `FrameLoop`; extends `I8080Cycles`, `RomLoader` |
| `GameKeys` | the player, the SDL queue the two windows share, the key bytes and their copy to the bus | - |
| `CpmHarness` | `TestBus`, the calls 2 and 9 and the loop of `cpu-test/main.cpp` | - |

The `MC...` modules give the constants their values; `FrameLoop`'s and
`GameKeys`' constants are plain values, set in the configurations. The
`...Proofs` modules hold the theorems.

**Layers.** The abstract modules form two chains. `InvadersBoard` implements
`AddressSpace` and `ByteWindow`. `InvadersMachine`, the emulator with every
component in it, implements `FrameLoop`, which implements `FrameClock`: what
the second says of lost requests and of the clock therefore holds for every
program the first runs. `GameKeys` refines one step of the loop, the two polls
of a frame, into the events they take.

**Correspondence.** Variables carry the names of the members they model
(`m_pc`, `m_psw`, `m_interrupt`, `m_shift_data`, `total_cycles`,
`available_breakpoint_slot_idx`, ...). `m_regs[r]` is register `r` in the order
A, B, C, D, E, H, L of the registers array. `m_ram` and `m_rom` are the arrays,
`inp` the three input bytes. One instruction is one step: nothing in the
program can observe half of one. An action's guard is the set of opcodes of the
`case` labels; the opcode is the waiting interrupt instruction if one is
accepted, and the byte at `m_pc` otherwise, in the order of `cpu.cpp:86-96`.
Values are cut to 8 or 16 bits where the code's types cut them (`Wrap`,
`% 256`), also where that is a surprise: the stack address wraps in the
parameter of `memory_write`, `data += carry` wraps before the addition.

Behaviours that look odd and are kept as they are: `sub` computes its zero and
carry flags from the negated operand (section 4); INR M and DCR M take their
flags from the byte they read back (`FlagsDescribeMemory`); `daa` drops the carry of its first
addition; `reset` clears the RAM but not the shift register nor the inputs, which no
program observes, as `main.cpp` calls it only on the way out of its loop; the
breakpoint table starts with zeros and gets its marker with the debugger's
first frame; a full table drops an entry; the ROM's four files share one count
of the space that is left; the drawing loop starts one byte late.

**A pass of the loop** is five kinds of step in `FrameLoop` and
`InvadersMachine`: `PollDebugger`, `MiddleOfFrame`, `EndOfFrame` and one
instruction (in `InvadersMachine` either `Execute` or, when paused or halted,
`Idle`), because the user may close a window between any two of them and it
matters which poll sees it. Each step is a whole block of the loop. The
instructions are abstract in `FrameLoop`: any duration of `Cycles`, and any
effect on the interrupt flags that `I8080Cpu` allows. In `InvadersMachine` they
are those of `I8080Cpu` with the durations of `I8080Cycles`. `closing` is the
set of close events in SDL's queue; a poll takes all of it.

## 3. The runs

| run | instance | properties | distinct states |
|---|---|---|---|
| `interrupts` | a program with nesting routines in a 64-byte ROM (`PAGE` 32), two stacks, 2 requests and 1 reset at any point | `CpuTypeOK`, `RestsReturned`, `ImplementsLatch`, `AcceptanceIsCall`, `InterruptTransparent`, `RoutinesDisciplined` | 102 916 |
| `programs` | some 340 programs in a 64-byte ROM: sequences that undo themselves, single arithmetic instructions, decimal sums, every opcode | `Restored`, `DecimalSum`, `InstructionListed`, `AdditionExact`, `ComparisonOrders`, `PairArithmetic`, `StepsAsListed`, `FlagsDescribeMemory` | 42 518 |
| `board` | pages of 2 bytes, 10 addresses, 3 bytes, 5 ports | `BusTypeOK`, `PortReadsWindow`, `ImplementsAddressSpace`, `ImplementsByteWindow` | 1 458 |
| `frame` | a frame of 21 cycles, instructions of 4, 7 or 11, both builds, programs that halt and that do not | `FrameInv`, `ImplementsFrameClock`, `LostOnlyWhileMasked`, `FramesKeepEnding`, `CloseEndsUnlessHalted` | 36 956 |
| `machine` | five sets of ROM files, a frame of 97 cycles, both builds, 2 breakpoint slots, 3 addresses to enter | `RomInPlace`, `ImplementsFrameLoop`, `BreakpointsPause`, `RoutinesRun` | 273 167 |
| `keys` | 3 keys on two ports, 2 events a frame, both builds | `KeysTypeOK`, `KeysAccounted`, `KeysArrive` | 59 462 |
| `cpm` | a memory of 20 bytes, calls with any text address, texts with and without a dollar sign | `CallPrinted`, `CallsReturn` | 4 322 |
| `subtract`, `auxcarry`, `sbi` | `MCPrograms` with the programs in question | one each, violated | - |
| `frame_hlt`, `keys_debug` | as `frame` and `keys`, debug build | one each, violated | - |

What they show:

- **interrupts.** Wherever two interrupts fall, into the program, into an
  interrupt routine or into each other's entry and exit, the interrupted code
  finds its pc, sp, registers, flags and the memory at and above its stack
  pointer unchanged (`InterruptTransparent`), and the processor rests in its
  HLT only with every interrupt returned from. The model remembers each word
  that an acceptance, a CALL or a PUSH of a routine puts on the stack with the
  machine at that moment (`stacked`, a history no action reads); `RoutinesDisciplined`
  says of these routines what the proof of transparency asks of any: pops in
  the order of the pushes, no change of a pair not saved, no write over the
  stack or over the interrupted program's memory. Memory is taken at the RAM's
  own addresses, of which the mirror shows the same cells. The flags and the
  slot behave as one latch, and an acceptance is a call that returns to the
  instruction it came before (`AcceptanceIsCall`). Two requests are enough for
  a nested interrupt, a lost request and one that wakes a HLT; one reset
  reaches every reset of a fresh board.
- **programs.** Sequences that undo themselves leave the machine and its memory
  as they found it, from stacks at the top of the RAM, astride the edge of RAM
  and mirror and at the top of the mirror (`Restored`; six of them, one with
  three pushes inside each other, belong to the family that
  `ProgramsUndoThemselves` is about, the others use memory, calls, branches
  and arithmetic). Single sums and comparisons are
  checked on the ends of the byte, of its nibbles and of its sign; DAD, INX and
  DCX see the same bytes in both halves of a pair. ADD and DAA give the two
  decimal digits of the sum for all sums of two decimal bytes chosen around
  the carries of both digits. INR M and DCR M, over ROM, RAM, mirror and
  unmapped addresses, leave flags that describe the byte read back there
  (`FlagsDescribeMemory`). One program per opcode, its operands readable as
  opcodes, shows that `disassemble_rom` finds the instruction the processor
  executes next, and that a call leaves the address of the next row for its
  return (`StepsAsListed`); SBI is left out there and has the run `sbi`, RST 0
  because it would loop.
- **board.** Two bytes to a page is the smallest map on which a wrong page, a
  wrong cell in a page and a wrong mirror offset differ.
- **frame.** 21 cycles are the shortest frame whose two halves hold the longest
  instruction chosen, and the durations are three of the code's. The counter
  overshoots both thresholds by every possible amount.
- **machine.** The files hold a small game that reads the keys with interrupts
  disabled and has routines for RST 1 and RST 2. Three of the five sets are
  damaged: a file too long, a file too short, files too large together (where
  loading panics and the program never starts); one set halts when a key is
  down. Every file byte that belongs into the ROM is at its place
  (`RomInPlace`); both routines run again and again under every
  schedule (`RoutinesRun`), unless the program is closed or the debugger keeps
  pausing it; breakpoints stop it exactly where the user asked. 97 cycles hold
  some ten instructions, so requests fall on every instruction of the game and
  of its routines; two slots are filled and overfilled by the three addresses.
- **keys.** In the release build no press, repeat or release is lost however
  events of several keys interleave with the poll; a key that stays down or up
  is seen at the port.
- **cpm.** A text may start anywhere, run over the end of the memory, be empty
  or have no end. A call prints it once and returns unless it has no end.

**Bounds.** `PAGE`, `QUARTER`, `VBLANK_RATE`, `TEST_MEMORY_SIZE` and
`LOAD_ADDRESS` scale the code's sizes down; `MAX_BREAKPOINTS` stands for the 16 slots of the table.
`MaxRequests` and `MaxResets` bound the device of `interrupts`, `MaxEvents` the
player's events of a frame, `MaxPrinted` the characters remembered of a call
(one more than the memory holds), and `typed` of `InvadersMachine` keeps as
many entries as there are slots, since later ones have no effect. The program
sets, addresses and bytes of the MC modules are samples. Nothing else is
bounded: `total_cycles` is bounded by the behaviour itself, as `FrameInv`
states.

**Fairness.** `FrameLoop` and `GameKeys` assume `WF_vars(Loop)`: `main` keeps
running, that is all. The steps of a pass exclude each other and every pass
ends, as each call in it returns. `InvadersMachine` states the same as
`WF_at(GoesOn)`: the loop's steps are exactly those that change `at`, and one
is enabled until `at = "done"`, so the two conditions agree; the second saves
TLC the computation of whether a whole instruction is enabled. `CpmHarness`
assumes `WF_vars(Next)`, its only process being the loop of `main`; which call
the program makes next stays open. The user and the player owe nothing: no
fairness on closing a window, pausing, continuing or releasing a key.

**Deadlock.** `CHECK_DEADLOCK FALSE` stands in `interrupts`, in `programs` and
the violation runs of its module, and in `cpm`: a processor in HLT executes
nothing there, and the requests that could wake it are bounded or absent. The
board, the loop, the machine and the keys are checked for deadlock; after
`at = "done"` the loop stutters explicitly.

## 4. Findings

- **`subtract`** (`cpu.cpp:556`). `sub` assigns `data = ~data + 1` inside the
  argument list of `binary_add` and then compares the result with that negated
  operand for the zero and carry flags. TST8080.ASM:171 expects
  `F0H - F1H = FFH, C=1`. TLC finds a subtraction whose carry is not the
  borrow; the ROM itself stops at that test. CMP and CPI do not go through
  `sub` and are right (`ComparisonOrders`).
- **`auxcarry`** (`cpu.cpp:535`). The comment at `cpu.cpp:522` says that the
  auxiliary carry is a carry out of bit 3. ADC and ACI add the carry flag to
  the operand first, so a carry the flag causes in the operand's own low digit
  is missed.
- **`frame_hlt`** (`main.cpp:122`). gui.cpp:201 says the debugger's poll is
  there so that the window can be closed while the processor is paused. When
  it is halted and running no cycle is added, no poll is reached and no
  interrupt is requested: the window cannot be closed. `CloseEndsUnlessHalted`
  shows that this is the only such state. The release build loops the same way
  on HLT.
- **`sbi`** (`disasm.cpp:157`). The disassembler takes three bytes for SBI, the
  processor two (`cpu.cpp:154`). Every row behind an SBI may be wrong, and the
  row that gui.cpp:320 marks as the current one may be missing. No other opcode
  differs (`InstructionListed`).
- **`keys_debug`** (`gui.cpp:192`). In the debug build the debugger's poll
  drains the queue of both windows right before the game's poll, so the
  controls of the repository's README.md:30 reach the game only when an event
  arrives between the two. TLC finds a key that is held for ever and never
  seen.

## 5. The proofs

| theorem | says, for every value of the constants |
|---|---|
| `I8080CpuProofs!BinaryAddIsAddition` | the bit-by-bit adder is addition with carry in, carry out and half carry |
| `I8080CpuProofs!UpdateFlagSetsOneFlag`, `UpdateAllSetsFlags` | the flag updates touch one flag each and keep the fixed bits of the status word |
| `I8080CpuProofs!AddIsAddition`, `CmpIsComparison` | `add` without carry in is the nine-bit sum; `cmp` is the order of bytes |
| `I8080CpuProofs!SubResultAndZeroFlag` | what `sub` does compute |
| `I8080CpuProofs!DadIsAddition`, `InxIsIncrement` | two 8-bit additions make a 16-bit one; INX is + 1 modulo 2^16 |
| `I8080CpuProofs!DaaAddsSixes` | what `daa` computes: which sixes it adds, and that its carry is that of the second addition only |
| `I8080CpuProofs!AccessesStayInBounds` | no address indexes outside the ROM or RAM arrays |
| `I8080CpuProofs!StepKeepsTypes` | one instruction of any opcode from any state keeps every type |
| `I8080CpuProofs!PushedWordIsOnTop` | where both bytes of the stack can be stored, a pushed word is the one a pop or return finds, and two cells changed, over every edge of the map and of the 16-bit pointer |
| `InvadersBoardProofs!BoardKeepsTypes`, `PortAlwaysReadsWindow` | `BusTypeOK` and `PortReadsWindow` for every caller |
| `InvadersBoardProofs!BoardImplementsAddressSpace`, `BoardImplementsByteWindow` | the bus implements a mirrored memory and a window over two bytes, for every page size |
| `InvadersBoardProofs!EachBitDrawnOnce`, `ColumnsAreShifted` | the drawing loop shows video RAM only, no bit twice; which byte each point shows |
| `ProgramRunProofs!ProgramsKeepTypes`, `ProgramsAddExactly`, `ProgramsCompare`, `ProgramsAddPairs` | `Spec => []CpuTypeOK`, and `AdditionExact`, `ComparisonOrders` and `PairArithmetic` for every program and every operand (ADC and ACI of 255 with the carry set are left out of `AdditionExact`: there the code's `data += carry` wraps) |
| `ProgramRunProofs!DaaOfDecimalSum`, `ProgramsAddDecimals` | `daa` behind an addition of two decimal bytes gives the digits of the sum and the hundreds in the carry, except where the property says it does not; `Spec => []DecimalSum` |
| `ProgramRunProofs!ProgramsDescribeMemory` | `FlagsDescribeMemory` for every program and every HL |
| `ProgramRunProofs!ProgramsStepAsListed` | `StepsAsListed`: the lengths in `disasm.cpp` and in `cpu.cpp` agree for every opcode but SBI, whatever the memory holds |
| `ProgramRunProofs!ListedIfBranchesAre` | `Spec => (LandsOnRows <=> []InstructionListed)`: the program counter leaves the rows only by a branch into the middle of one, behind an SBI or at the end of the ROM |
| `InterruptedCpuProofs!InterruptsKeepTypes`, `CpuImplementsLatch` | the type invariant under any number of interrupts and resets; `Spec => Latch!Spec` |
| `ProgramRunProofs!ProgramsUndoThemselves` | `Spec => [](UndoesItself(program) /\ StackInRam => Restored)`: a program of any length whose second half undoes the first, the last instruction first, gives back the machine and the memory it found, from any registers, flags and stack |
| `InterruptedCpuProofs!InterruptsAreCalls` | `AcceptanceIsCall` for every program, stack and set of requests |
| `InterruptedCpuProofs!InterruptsAreTransparent` | `Spec /\ RoutinesDisciplined => InterruptTransparent`: for every program, stack, nesting and number of interrupts, routines that keep the discipline are invisible to the code they interrupt |
| `FrameLoopProofs!FrameInvariant`, `RequestsLostOnlyWhileMasked`, `LoopImplementsClock` | `FrameInv`, `LostOnlyWhileMasked` and the refinement for every frame and instruction length |
| `InvadersMachineProofs!MachineKeepsTypes`, `MachineImplementsFrameLoop` | the types in the whole emulator, and every step of it a step of `FrameLoop`, for every ROM and every frame from 36 cycles |
| `InvadersMachineProofs!MachineLosesOnlyMasked`, `MachineKeepsClock` | hence what the loop promises, for the whole emulator: only masked requests are lost, and the clock is implemented |
| `InvadersMachineProofs!RomStaysInPlace` | `RomInPlace` for all files that stay in the buffer, and every `QUARTER` |
| `InvadersMachineProofs!BreakpointsAlwaysPause` | `BreakpointsPause` for any number of slots and entries |
| `CpmHarnessProofs!CallsPrintTheirText` | `CallPrinted` for every size of the memory, load address, sequence of calls and text |
| `GameKeysProofs!KeysKeepTypes`, `NoKeyLost` | `KeysTypeOK` and `KeysAccounted` for any number of events |

**Assumptions.** The named ASSUMEs only: a page has at least one byte (`PAGE`),
ROM and RAM images, files and inputs hold bytes, a file fits behind its start
address, a program of `ProgramRun` leaves room in the ROM for its HLT, addresses
are words, the device requests RST instructions, and `FrameAssumption`: an instruction is no
longer than half a frame (18 cycles against 16 667 in the code), which
`MachineAssumption` gives for the durations of the table by a frame of at least
36 cycles. TLC evaluates each on every run that extends its module. Two
theorems have a hypothesis of their own, in their statement: the discipline of
routines (`InterruptsAreTransparent`, checked of the instance by `interrupts`)
and the form of the program and its stack (`ProgramsUndoThemselves`, which six
programs of `programs` have, from each of their starts).

**The argument.**

- *Types.* `TypeOK`, the processor's `CpuTypeOK` with the bus's `BusTypeOK`, is
  inductive as it stands, once each operator of `I8080Alu` is shown to return a
  byte, a bit or a status word; one lemma per operator, one step per group of
  opcodes. `BusTypeOK` alone is inductive for the board.
- *Arithmetic.* `BinaryAddIsAddition` splits an operand into its eight bits and
  adds the full adders' equations; everything above it cites only that lemma.
- *Board.* The memory follows from where the pages of an address lie: two
  addresses of the window share a cell exactly if they are two pages apart.
  The shift register splits its word into two bytes and takes the eight offsets
  one by one.
- *Stack.* A push writes two bytes through `memory_write`. `WrittenByte` says
  that a byte written to the RAM or its mirror is read back and no other cell
  changes, `StackCells` that the two addresses below the pointer are two cells,
  one above the other modulo 2^16, also astride RAM and mirror. The theorems
  on calls and on acceptance cite only these.
- *Programs.* `Undisturbed` is the invariant behind `StepsAsListed` and
  `DecimalSum`: without a device no request ever waits, so the opcode is the
  byte at the program counter, and the ROM stays what was loaded. `DecimalSum`
  speaks of a program's end only; `DecimalRun` says what the accumulator and
  the flags hold before each of its three instructions. That `daa` is right is
  a fact about the sum alone (`DaaOfDecimalSum`), from `DaaAddsSixes` and the
  digits of the two numbers.
- *Programs that undo themselves.* The bytes are those of NOP, XCHG, CMA, CMC,
  RAL, RAR, INX, DCX and PUSH, and `Opposite` gives the byte that undoes each;
  at most three pushes, in any places, since `Restored` leaves a program six
  bytes below its stack pointer, and these six lie in the RAM or its mirror
  (`StackInRam`). That one instruction undoes another is about bytes
  (`QuietUndone`: a pair stepped through 2^16 and back, an accumulator rotated
  through the carry and back). That a whole program does is about its run:
  `Restored` speaks of the end only, so the invariant `Unwinding` says that
  behind k instructions of the first half, and again with k of them left to
  undo, there is a *trail*: the machines before each of the k instructions,
  each following from the one before, the last of them the machine now, with
  every pushed pair still in its two cells and the stack pointer at a depth
  counted by the pushes. An instruction of the first half makes the trail one
  longer (`UndoUp`), one of the second half makes it one shorter (`UndoDown`).
  The six cells are distinct also across the edge of RAM and mirror
  (`StackCellsDiffer`), so no push writes over an earlier one.
- *Listing.* Each opcode is shown to run one handler and no other; what the
  handler fetches is compared with `byte_count`, group by group. That the rows
  go on behind each instruction (`RowsGoOn`) is about the recursive function
  in `disassemble_rom`: by induction from the end of the ROM
  (`DownwardInduction`, which takes a set where the library's induction
  theorems take an operator, and rests on `WFMin`) the function has a value
  from every address on, and then its rows are closed.
- *Latch.* The refinement needs `LatchInv`, that an instruction waits only if
  the device put it there, since acceptance runs whatever is in the slot.
- *Transparent interrupts.* The property compares the machine at a return with
  the one at the acceptance, so the invariant has to hold on to everything in
  between. `Nested` says it of each word on the stack: its two cells lie in
  the RAM and hold what was put there; until the next word was put, or until
  now, only pairs its routine had saved by then changed, and the stack pointer
  stayed right below it (`Changed`); and the saved pairs grow by one with each
  push and start empty with each interrupt (`Linked`). A push adds a word and its
  cells to what is kept, a pop or return takes the last word and gives its
  pair back, so that the machine agrees with the word below it again in one
  pair more; at the return of an interrupt no saved pair is left and all of it
  agrees. The assumption is needed: a routine that does not save what it
  changes is not transparent. It is a property of the program's code, which
  the run checks of the programs of the instance, and it says nothing of what
  a pop or a return does in the processor: what they read back, and that it is
  what was pushed, is proved.
- *Loop.* Neither the clock nor the lost requests follow from the types. The
  strengthening is `Timely`: the loop enters an instruction with nothing due,
  so it overshoots by one instruction at most, and a request that waits with
  interrupts enabled was made since the last instruction. That is why
  `FrameAssumption` is needed: an instruction longer than half a frame would
  let both requests come due between two acceptances.
- *Machine.* `SlotOK` says that the slot holds one of the two requests of
  `main.cpp` or nothing. From it follows that an accepted instruction is a RST,
  which moves no flag, and that any other leaves the slot: with 4 to 18 cycles
  that is the abstract instruction of `FrameLoop`. `FrameInv` carries over
  along the refinement, and with it the clock and the lost requests. The ROM
  is constant; that it starts right needs that a file read behind another one
  overwrites only what is past its quarter. The breakpoints need
  `BreakInv`: the table is the entered addresses in order with free slots
  behind them, and before the debugger's first frame, when it still holds
  zeros, the processor does not run.
- *Keys.* The invariant relates the three places an event passes: the last
  event of a key in the queue says whether it is held, and without one its bit
  does. A bit is changed by no event of another key, since keys have bits of
  their own.
- *CP/M harness.* `CallPrinted` speaks of the return of a call. `CallInv` adds
  what holds before: the two bytes `main` writes stay where they are, so the
  program counter below the load address is on its way to the HLT or to the
  RET; a call has printed nothing before it is seen, and a prefix of its text
  while it prints, at an index kept modulo the memory's size.

**Only model-checked.** What depends on the program of the instance:
`RoutinesDisciplined`, that its routines keep the discipline `InterruptsAreTransparent`
asks for; `RestsReturned`, that it halts outside of them; and `Restored` for
the programs outside the family of `ProgramsUndoThemselves`, those that go through
memory, calls, branches and arithmetic (a program that moves its stack into
the ROM breaks all three). `InstructionListed` too depends on where the program's
branches go; `ListedIfBranchesAre` says that on nothing else, and the run shows
that it holds for code without data. Every liveness property:
`FramesKeepEnding`, `CloseEndsUnlessHalted`, `RoutinesRun`, `KeysArrive`,
`CallsReturn`: liveness under fairness is outside this prover.

## 6. Not modelled

- Dear ImGui's and SDL's rendering, the set-up and removal of the windows
  (gui.cpp:8-79 and 374-396) and the wait for the display's vertical blank
  (gui.cpp:35). The panes of the debugger that only show state (registers,
  memory, disassembly, Follow Execution).
- The texts of the log and of the disassembler's rows. `logging.h`'s PANIC
  throws for a missing or too large file, where `RomLoader` sets its flag, and
  for an opcode without a handler, which no byte is.
- A ROM file longer than the buffer behind its start address: `read_bin_file`
  is told the space left in total and would write past the buffer's end, where
  the program has no defined behaviour. `AreRomFiles` leaves it out.
- The exercisers under `roms/tests`, which run for millions of instructions.
  What TST8080.ASM expects of a subtraction is checked (`subtract`).
- The passes of a paused processor in `GameKeys`, where only the debugger polls
  and takes key events too, as in `keys_debug`.
- In `CpmHarness` a program is any sequence of calls: its instructions between
  them, and a program that overwrites the bytes below its load address, are
  left out.

Nothing of the processor, the bus, the interrupts or the loop is left to model.
What could still be proved is that the routines of a particular program keep
the discipline, by an invariant about that program's text, and that further
instructions undo each other: a store and a load, or a call and its return,
between the halves of a program.
