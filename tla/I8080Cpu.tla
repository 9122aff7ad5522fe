------------------------------ MODULE I8080Cpu ------------------------------
(***************************************************************************)
(* The processor of src/src/core/cpu.cpp on the bus of InvadersBus.        *)
(*                                                                         *)
(* A step of the processor is one call of fetch_execute_instruction: it    *)
(* takes the pending interrupt's instruction or fetches one, and runs the  *)
(* handler of that instruction to its end.  There is one action per        *)
(* handler, with the handler's name.                                       *)
(***************************************************************************)
EXTENDS InvadersBus

VARIABLES
    m_pc,         \* program counter
    m_sp,         \* stack pointer
    m_psw,        \* processor status word
    m_regs,       \* the seven registers, indexed as enum Register is
    m_halted,     \* HLT was executed and no interrupt was requested since
    m_interrupt   \* struct InterruptSystem: enabled, waiting, instruction

registerVars == <<m_pc, m_sp, m_psw, m_regs>>
cpuVars == <<m_pc, m_sp, m_psw, m_regs, m_halted, m_interrupt>>
shiftUnchanged == UNCHANGED <<m_shift_data, m_shift_offset>>

\* enum Register
REGISTER_A == 0
REGISTER_B == 1
REGISTER_C == 2
REGISTER_D == 3
REGISTER_E == 4
REGISTER_H == 5
REGISTER_L == 6

InterruptSystem == [enabled : BOOLEAN, waiting : BOOLEAN, instruction : Byte]

(***************************************************************************)
(* Every register keeps its width, and the status word its three fixed     *)
(* bits (cpu.h:117-126).                                                   *)
(***************************************************************************)
CpuTypeOK ==
    /\ m_pc \in Word
    /\ m_sp \in Word
    /\ m_psw \in PswByte
    /\ m_regs \in [0..6 -> Byte]
    /\ m_halted \in BOOLEAN
    /\ m_interrupt \in InterruptSystem

CpuInit(start_pc) ==
    /\ m_pc = start_pc
    /\ m_sp = 0
    /\ m_psw = 2
    /\ m_regs = [r \in 0..6 |-> 0]
    /\ m_halted = FALSE
    /\ m_interrupt = [enabled |-> FALSE, waiting |-> FALSE, instruction |-> 0]

-----------------------------------------------------------------------------
(***************************************************************************)
(* The instruction of this step, and its operands.                         *)
(***************************************************************************)
Wrap(x) == x % TwoTo16

\* The step begins with the pending interrupt's instruction, not with a fetch.
accepting == m_interrupt.enabled /\ m_interrupt.waiting

ins == IF accepting THEN m_interrupt.instruction ELSE memory_read(m_pc)

\* Mutant: the request still waits when it has been taken.
interrupt_kept == m_interrupt

\* Accepting empties the slot; the enable flip-flop is left as it is.
interrupt_taken ==
    IF accepting
    THEN [m_interrupt EXCEPT !.waiting = FALSE, !.instruction = 0]
    ELSE m_interrupt

\* Mutant: an interrupt steps the program counter as a fetch does.
operand_pc_stepped == Wrap(m_pc + 1)

\* The first address behind the opcode: no byte was fetched for an interrupt.
operand_pc == IF accepting THEN m_pc ELSE Wrap(m_pc + 1)

d8 == memory_read(operand_pc)
d16 == MakeWord(d8, memory_read(Wrap(operand_pc + 1)))

\* The program counter once the handler has fetched n operand bytes.
Fetched(n) == m_pc' = Wrap(operand_pc + n)

\* The fields of the opcode (utils.h:2-5).
DDD == (ins \div 8) % 8
SSS == ins % 8
RP == (ins \div 16) % 4
CCC == (ins \div 8) % 8

-----------------------------------------------------------------------------
(***************************************************************************)
(* Registers by their bit patterns.                                        *)
(***************************************************************************)
regs_map(rg) == IF rg = 7 THEN REGISTER_A ELSE rg + 1
regpairs_map(rp) == 2 * rp + 1

get_register(rg) == m_regs[regs_map(rg)]
set_register(rg, data) == m_regs' = [m_regs EXCEPT ![regs_map(rg)] = data]

get_register_pair_from_idx(i) == MakeWord(m_regs[i + 1], m_regs[i])
get_register_pair(rp) == IF rp = 3 THEN m_sp ELSE get_register_pair_from_idx(regpairs_map(rp))

HL == get_register_pair_from_idx(REGISTER_H)
A == m_regs[REGISTER_A]
SetA(data) == m_regs' = [m_regs EXCEPT ![REGISTER_A] = data]

with_pair(rp, low, high) ==
    [m_regs EXCEPT ![regpairs_map(rp)] = high, ![regpairs_map(rp) + 1] = low]

set_register_pair(rp, low, high) ==
    IF rp = 3
    THEN m_sp' = MakeWord(low, high) /\ UNCHANGED m_regs
    ELSE m_regs' = with_pair(rp, low, high) /\ UNCHANGED m_sp

\* get_addressing_mode_data for the eight accumulator operations: opcodes from
\* 0xC0 have an immediate operand, register pattern 6 is the byte at HL.
operand ==
    IF ins >= 192 THEN d8
    ELSE IF SSS = 6 THEN memory_read(HL)
    ELSE get_register(SSS)

-----------------------------------------------------------------------------
(***************************************************************************)
(* Handlers that change registers only.                                    *)
(***************************************************************************)
nop ==
    /\ ins \in {0, 8, 16, 24, 32, 40, 48, 56, 203, 217, 221, 237, 253}
    /\ Fetched(0) /\ UNCHANGED <<m_regs, m_sp>>

mov_rr ==
    /\ ins \in 64..127 /\ DDD # 6 /\ SSS # 6
    /\ set_register(DDD, get_register(SSS)) /\ Fetched(0) /\ UNCHANGED m_sp

mov_rm ==
    /\ ins \in 64..127 /\ DDD # 6 /\ SSS = 6
    /\ set_register(DDD, memory_read(HL)) /\ Fetched(0) /\ UNCHANGED m_sp

mvi_r ==
    /\ ins \in 0..63 /\ SSS = 6 /\ DDD # 6
    /\ set_register(DDD, d8) /\ Fetched(1) /\ UNCHANGED m_sp

lxi ==
    /\ ins \in {1, 17, 33, 49}
    /\ set_register_pair(RP, LowByte(d16), HighByte(d16)) /\ Fetched(2)

lda ==
    /\ ins = 58
    /\ SetA(memory_read(d16)) /\ Fetched(2) /\ UNCHANGED m_sp

ldax ==
    /\ ins \in {10, 26}
    /\ SetA(memory_read(get_register_pair(RP))) /\ Fetched(0) /\ UNCHANGED m_sp

lhld ==
    /\ ins = 42
    /\ m_regs' = [m_regs EXCEPT ![REGISTER_L] = memory_read(d16),
                                ![REGISTER_H] = memory_read(Wrap(d16 + 1))]
    /\ Fetched(2) /\ UNCHANGED m_sp

xchg ==
    /\ ins = 235
    /\ m_regs' = [m_regs EXCEPT ![REGISTER_D] = m_regs[REGISTER_H],
                                ![REGISTER_H] = m_regs[REGISTER_D],
                                ![REGISTER_E] = m_regs[REGISTER_L],
                                ![REGISTER_L] = m_regs[REGISTER_E]]
    /\ Fetched(0) /\ UNCHANGED m_sp

inx_rp ==
    /\ ins \in {3, 19, 35, 51, 11, 27, 43, 59}
    /\ LET r == inx(get_register_pair(RP), ins % 16 = 11)
       IN  set_register_pair(RP, LowByte(r), HighByte(r))
    /\ Fetched(0)

sphl == ins = 249 /\ m_sp' = HL /\ Fetched(0) /\ UNCHANGED m_regs

cma_a == ins = 47 /\ SetA(cma(A)) /\ Fetched(0) /\ UNCHANGED m_sp

in_port == ins = 219 /\ SetA(io_read(d8)) /\ Fetched(1) /\ UNCHANGED m_sp

registerHandler ==
    /\ \/ nop \/ mov_rr \/ mov_rm \/ mvi_r \/ lxi \/ lda \/ ldax \/ lhld \/ xchg
       \/ inx_rp \/ sphl \/ cma_a \/ in_port
    /\ UNCHANGED <<m_psw, m_ram>> /\ shiftUnchanged

-----------------------------------------------------------------------------
(***************************************************************************)
(* Handlers that compute: registers and flags change.                      *)
(***************************************************************************)
\* The accumulator operation with number n, in both of its encodings.
AluOperation(n) == (ins \in 128..191 \/ (ins >= 192 /\ SSS = 6)) /\ DDD = n

\* The accumulator and the status word an operation returned.
Assign(r) == SetA(r.a) /\ m_psw' = r.psw

add_a ==
    \/ AluOperation(0) /\ Assign(add(A, operand, m_psw, FALSE))
    \/ AluOperation(1) /\ Assign(add(A, operand, m_psw, TRUE))

sub_a ==
    \/ AluOperation(2) /\ Assign(sub(A, operand, m_psw, FALSE))
    \/ AluOperation(3) /\ Assign(sub(A, operand, m_psw, TRUE))

boolean_a ==
    \/ AluOperation(4) /\ Assign(boolean_operation(A, operand, m_psw, "and"))
    \/ AluOperation(5) /\ Assign(boolean_operation(A, operand, m_psw, "xor"))
    \/ AluOperation(6) /\ Assign(boolean_operation(A, operand, m_psw, "or"))

cmp_a == AluOperation(7) /\ Assign(cmp(A, operand, m_psw))

accumulatorHandler == (add_a \/ sub_a \/ boolean_a \/ cmp_a) /\ Fetched(IF ins >= 192 THEN 1 ELSE 0)

rotate_a ==
    \/ ins \in {7, 23} /\ Assign(rotate_left(A, m_psw, ins = 23))
    \/ ins \in {15, 31} /\ Assign(rotate_right(A, m_psw, ins = 31))

daa_a == ins = 39 /\ Assign(daa(A, m_psw))

stc_cy == ins = 55 /\ m_psw' = stc(m_psw) /\ UNCHANGED m_regs

cmc_cy == ins = 63 /\ m_psw' = cmc(m_psw) /\ UNCHANGED m_regs

inr_r ==
    /\ ins \in 0..63 /\ SSS \in {4, 5} /\ DDD # 6
    /\ LET sum == inr_sum(get_register(DDD), SSS = 5)
       IN  /\ set_register(DDD, sum.res)
           /\ m_psw' = inr_flags(m_psw, sum.res, SSS = 5, sum.aux_carry)

dad_rp ==
    /\ ins \in {9, 25, 41, 57}
    /\ LET sum == dad(HL, get_register_pair(RP), m_psw)
       IN  /\ m_regs' = with_pair(2, LowByte(sum.hl), HighByte(sum.hl))
           /\ m_psw' = sum.psw

computeHandler ==
    /\ \/ accumulatorHandler
       \/ (rotate_a \/ daa_a \/ stc_cy \/ cmc_cy \/ inr_r \/ dad_rp) /\ Fetched(0)
    /\ UNCHANGED <<m_sp, m_ram>> /\ shiftUnchanged

-----------------------------------------------------------------------------
(***************************************************************************)
(* Handlers that write memory or a port.                                   *)
(***************************************************************************)
mov_mr ==
    /\ ins \in 112..119 /\ ins # 118
    /\ m_ram' = memory_write(m_ram, HL, get_register(SSS)) /\ Fetched(0)
    /\ UNCHANGED m_psw

mvi_m ==
    /\ ins = 54
    /\ m_ram' = memory_write(m_ram, HL, d8) /\ Fetched(1) /\ UNCHANGED m_psw

sta ==
    /\ ins = 50
    /\ m_ram' = memory_write(m_ram, d16, A) /\ Fetched(2) /\ UNCHANGED m_psw

stax ==
    /\ ins \in {2, 18}
    /\ m_ram' = memory_write(m_ram, get_register_pair(RP), A) /\ Fetched(0)
    /\ UNCHANGED m_psw

\* Mutant: the bytes are stored in the other order.
WriteWordSwapped(low_addr, low, high) ==
    memory_write(memory_write(m_ram, low_addr, high), Wrap(low_addr + 1), low)

\* The two writes of a 16-bit value: its low byte at low_addr.
WriteWord(low_addr, low, high) ==
    memory_write(memory_write(m_ram, low_addr, low), Wrap(low_addr + 1), high)

shld ==
    /\ ins = 34
    /\ m_ram' = WriteWord(d16, m_regs[REGISTER_L], m_regs[REGISTER_H]) /\ Fetched(2)
    /\ UNCHANGED m_psw

\* Mutant: the flags describe the sum, not the byte read back.
inr_m_of_sum ==
    /\ ins \in {52, 53}
    /\ LET sum == inr_sum(memory_read(HL), ins = 53)
       IN  /\ m_ram' = memory_write(m_ram, HL, sum.res)
           /\ m_psw' = inr_flags(m_psw, sum.res, ins = 53, sum.aux_carry)
    /\ Fetched(0)

\* The flags come from the byte READ BACK: over ROM or off the map the write is
\* dropped and they describe what was there.
inr_m ==
    /\ ins \in {52, 53}
    /\ LET sum == inr_sum(memory_read(HL), ins = 53)
       IN  /\ m_ram' = memory_write(m_ram, HL, sum.res)
           /\ m_psw' = inr_flags(m_psw, ReadMemory(m_rom, m_ram', HL), ins = 53,
                                 sum.aux_carry)
    /\ Fetched(0)

memoryHandler ==
    /\ mov_mr \/ mvi_m \/ sta \/ stax \/ shld \/ inr_m
    /\ UNCHANGED <<m_sp, m_regs>> /\ shiftUnchanged

out_port ==
    /\ ins = 211
    /\ io_write(d8, A) /\ Fetched(1)
    /\ UNCHANGED <<m_sp, m_psw, m_regs, m_ram>>

-----------------------------------------------------------------------------
(***************************************************************************)
(* The stack: it grows downwards, the high byte at the higher address.     *)
(***************************************************************************)
\* Mutant: the stack pointer is decremented after the bytes are written.
PushAbove(low, high) ==
    /\ m_ram' = memory_write(memory_write(m_ram, m_sp, high), Wrap(m_sp - 1), low)
    /\ m_sp' = Wrap(m_sp - 2)

Push(low, high) ==
    /\ m_ram' = memory_write(memory_write(m_ram, Wrap(m_sp - 1), high), Wrap(m_sp - 2), low)
    /\ m_sp' = Wrap(m_sp - 2)

top_low == memory_read(m_sp)
top_high == memory_read(Wrap(m_sp + 1))
Pop == m_sp' = Wrap(m_sp + 2)

\* What a push stores is kept.
StackWritable == IsRam(Wrap(m_sp - 1)) /\ IsRam(Wrap(m_sp - 2))

push_rp ==
    /\ ins \in {197, 213, 229}
    /\ Push(LowByte(get_register_pair(RP)), HighByte(get_register_pair(RP)))
    /\ UNCHANGED <<m_psw, m_regs>>

push_psw ==
    /\ ins = 245
    /\ Push(m_psw, A)
    /\ UNCHANGED <<m_psw, m_regs>>

pop_rp ==
    /\ ins \in {193, 209, 225}
    /\ m_regs' = with_pair(RP, top_low, top_high)
    /\ Pop
    /\ UNCHANGED <<m_psw, m_ram>>

pop_psw ==
    /\ ins = 241
    /\ m_psw' = MaskPsw(top_low)
    /\ SetA(top_high)
    /\ Pop
    /\ UNCHANGED m_ram

xthl ==
    /\ ins = 227
    /\ m_ram' = WriteWord(m_sp, m_regs[REGISTER_L], m_regs[REGISTER_H])
    /\ m_regs' = with_pair(2, top_low, top_high)
    /\ UNCHANGED <<m_sp, m_psw>>

stackHandler ==
    /\ push_rp \/ push_psw \/ pop_rp \/ pop_psw \/ xthl
    /\ Fetched(0) /\ shiftUnchanged

-----------------------------------------------------------------------------
(***************************************************************************)
(* Handlers that move the program counter.                                 *)
(***************************************************************************)
condition_met == branch_condition_is_met(m_psw, CCC)

Jump == m_pc' = d16 /\ UNCHANGED <<m_sp, m_ram>>
NoBranch(n) == Fetched(n) /\ UNCHANGED <<m_sp, m_ram>>

\* Mutant: the return address is read before the operand bytes are.
CallToEarly(addr, operand_bytes) ==
    Push(LowByte(operand_pc), HighByte(operand_pc)) /\ m_pc' = addr

\* The return address is the program counter behind the operand bytes.
CallTo(addr, operand_bytes) ==
    LET return_pc == Wrap(operand_pc + operand_bytes)
    IN  Push(LowByte(return_pc), HighByte(return_pc)) /\ m_pc' = addr

Return == m_pc' = MakeWord(top_low, top_high) /\ Pop /\ UNCHANGED m_ram

jmp == ins = 195 /\ Jump

jmp_conditional ==
    /\ ins >= 192 /\ SSS = 2
    /\ IF condition_met THEN Jump ELSE NoBranch(2)

call == ins = 205 /\ CallTo(d16, 2)

call_conditional ==
    /\ ins >= 192 /\ SSS = 4
    /\ IF condition_met THEN CallTo(d16, 2) ELSE NoBranch(2)

ret == ins = 201 /\ Return

ret_conditional ==
    /\ ins >= 192 /\ SSS = 0
    /\ IF condition_met THEN Return ELSE NoBranch(0)

\* Mutant: no return address is pushed.
rst_no_push == ins >= 192 /\ SSS = 7 /\ m_pc' = 8 * DDD /\ UNCHANGED <<m_sp, m_ram>>

rst == ins >= 192 /\ SSS = 7 /\ CallTo(8 * DDD, 0)

pchl == ins = 233 /\ m_pc' = HL /\ UNCHANGED <<m_sp, m_ram>>

\* What the instruction does with the stack: CALL, RST and the calls taken put
\* their return address on it, RET and the returns taken fetch theirs.
calling == ins = 205 \/ (ins >= 192 /\ (SSS = 7 \/ (SSS = 4 /\ condition_met)))
returning == ins = 201 \/ (ins >= 192 /\ SSS = 0 /\ condition_met)
pushing == ins \in {197, 213, 229, 245}
popping == ins \in {193, 209, 225, 241}

\* The two bytes of a register pair, as PUSH stores them.
PairOf(machine, pair) ==
    IF pair = 3 THEN <<machine.psw, machine.regs[REGISTER_A]>>
    ELSE <<machine.regs[regpairs_map(pair) + 1], machine.regs[regpairs_map(pair)]>>

branchHandler ==
    /\ \/ jmp \/ jmp_conditional \/ call \/ call_conditional \/ ret \/ ret_conditional
       \/ rst \/ pchl
    /\ UNCHANGED <<m_psw, m_regs>> /\ shiftUnchanged

-----------------------------------------------------------------------------
(***************************************************************************)
(* Handlers of the processor's own state.                                  *)
(***************************************************************************)
controlFrame == Fetched(0) /\ UNCHANGED <<m_sp, m_psw, m_regs, m_ram>> /\ shiftUnchanged

\* The flip-flop is set at once: the next step may take an interrupt.
ei == ins = 251 /\ m_interrupt' = [interrupt_taken EXCEPT !.enabled = TRUE]
di == ins = 243 /\ m_interrupt' = [interrupt_taken EXCEPT !.enabled = FALSE]
interruptHandler == (ei \/ di) /\ controlFrame /\ UNCHANGED m_halted

hlt == ins = 118 /\ m_halted' = TRUE /\ controlFrame /\ m_interrupt' = interrupt_taken

dataHandler ==
    /\ registerHandler \/ computeHandler \/ memoryHandler \/ out_port \/ stackHandler
       \/ branchHandler
    /\ UNCHANGED m_halted
    /\ m_interrupt' = interrupt_taken

(***************************************************************************)
(* One call of fetch_execute_instruction.  Its callers do not call it      *)
(* while the processor is halted (main.cpp:118 and 122).                   *)
(***************************************************************************)
fetch_execute_instruction ==
    /\ ~m_halted
    /\ dataHandler \/ interruptHandler \/ hlt
    /\ UNCHANGED <<m_rom, inp>>

\* A request overwrites the one that waits, and ends a halt even when
\* interrupts are disabled.
request_interrupt(instruction) ==
    /\ m_interrupt' = [m_interrupt EXCEPT !.instruction = instruction, !.waiting = TRUE]
    /\ m_halted' = FALSE
    /\ UNCHANGED registerVars
    /\ UNCHANGED busVars

reset ==
    /\ m_halted' = FALSE
    /\ m_interrupt' = [enabled |-> FALSE, waiting |-> FALSE, instruction |-> 0]
    /\ m_pc' = 0
    /\ m_sp' = 0
    /\ m_psw' = 2
    /\ m_regs' = [r \in 0..6 |-> 0]
    /\ reset_bus
=============================================================================
