-------------------------- MODULE ProgramRunProofs --------------------------
(***************************************************************************)
(* Proofs about ProgramRun and ProgramListing, for every program, start    *)
(* and page size: the machine keeps its types, the arithmetic instructions *)
(* compute what their properties say, decimal sums included, every         *)
(* instruction but SBI goes to the row the disassembler lists next, and a  *)
(* program whose second half undoes the first gives its machine back.      *)
(***************************************************************************)
EXTENDS ProgramListing, I8080CpuProofs, WellFoundedInduction, FiniteSetTheorems

\* The ROM of a program holds bytes.
LEMMA ImageType == ASSUME NEW p \in Programs PROVE Image(p) \in RomImage
<1>1. p.code \in Seq(Byte) /\ p.routine \in Seq(Byte)
  BY ProgramAssumption DEF ProgramAssumption
<1>2. HLT \in Byte
  BY DEF HLT, Byte
<1>3. ASSUME NEW addr \in 0..INVADERS_ROM_SIZE - 1 PROVE Image(p)[addr] \in Byte
  <2>1. addr \in Nat
    BY PageAssumption DEF PageAssumption, INVADERS_ROM_SIZE
  <2>2. addr < Len(p.code) => p.code[addr + 1] \in Byte
    BY <1>1, <2>1
  <2>3. addr >= RoutineStart /\ addr < RoutineStart + Len(p.routine) =>
          p.routine[addr - RoutineStart + 1] \in Byte
    BY <1>1, <2>1 DEF RoutineStart
  <2> QED BY <1>2, <2>2, <2>3 DEF Image
<1> QED BY <1>3 DEF Image, RomImage

\* A program starts in the types.
LEMMA InitTypes == Init => TypeOK
<1> SUFFICES ASSUME Init PROVE TypeOK
    OBVIOUS
<1>1. 0 \in Word /\ 0 \in Byte
  BY DEF Word, TwoTo16, Byte
<1>2. start \in program.starts /\ program \in Programs
  BY DEF Init
<1>3. start.regs \in [0..6 -> Byte] /\ start.psw \in PswByte /\ start.sp \in Word
  BY <1>2, ProgramAssumption DEF ProgramAssumption
<1>4. CpuTypeOK
  BY <1>1, <1>3 DEF Init, CpuTypeOK, InterruptSystem
<1>5. m_rom \in RomImage /\ m_ram \in RamImage
  BY <1>2, ImageType, ProgramAssumption DEF Init, ProgramAssumption
<1>6. inp \in [0..2 -> Byte] /\ ShiftTypeOK
  BY <1>1 DEF Init, ShiftInit, ShiftTypeOK
<1> QED BY <1>4, <1>5, <1>6 DEF TypeOK, BusTypeOK

\* An instruction of the program keeps the types.
LEMMA NextTypes == TypeOK /\ [Next]_vars => TypeOK'
<1> SUFFICES ASSUME TypeOK, [Next]_vars PROVE TypeOK'
    OBVIOUS
<1>1. CASE Next
  BY <1>1, StepKeepsTypes DEF Next
<1>2. CASE UNCHANGED vars
  BY <1>2 DEF vars, cpuVars, busVars, TypeOK, CpuTypeOK, BusTypeOK, ShiftTypeOK
<1> QED BY <1>1, <1>2

(***************************************************************************)
(* The registers, flags, memory and ports of the machine keep their types  *)
(* through every program: no handler stores a value wider than its         *)
(* register, clears a fixed bit of the status word or leaves an array.     *)
(***************************************************************************)
THEOREM ProgramsKeepTypes == Spec => [](CpuTypeOK /\ BusTypeOK)
<1>1. Init => TypeOK
  BY InitTypes
<1>2. TypeOK /\ [Next]_vars => TypeOK'
  BY NextTypes
<1>3. TypeOK => CpuTypeOK /\ BusTypeOK
  BY DEF TypeOK
<1> QED BY <1>1, <1>2, <1>3, PTL DEF Spec

-----------------------------------------------------------------------------
\* An instruction with the opcode of an accumulator operation runs that
\* operation's handler and no other.
LEMMA AccumulatorDecode ==
  ASSUME TypeOK, fetch_execute_instruction, NEW n \in 0..7, AluOperation(n)
  PROVE  accumulatorHandler
<1>1. ins \in 0..255 /\ (ins \in 128..191 \/ (ins >= 192 /\ ins % 8 = 6))
  BY InstructionType DEF Byte, AluOperation, SSS
<1> HIDE DEF ins
<1>2. ~registerHandler
  BY <1>1 DEF registerHandler, nop, mov_rr, mov_rm, mvi_r, lxi, lda, ldax, lhld, xchg, inx_rp,
         sphl, cma_a, in_port
<1>3. ~(rotate_a \/ daa_a \/ stc_cy \/ cmc_cy \/ inr_r \/ dad_rp)
  BY <1>1 DEF rotate_a, daa_a, stc_cy, cmc_cy, inr_r, dad_rp
<1>4. ~(memoryHandler \/ out_port)
  BY <1>1 DEF memoryHandler, mov_mr, mvi_m, sta, stax, shld, inr_m, out_port
<1>5. ~stackHandler
  BY <1>1 DEF stackHandler, push_rp, push_psw, pop_rp, pop_psw, xthl
<1>6. ~branchHandler
  BY <1>1 DEF branchHandler, jmp, jmp_conditional, call, call_conditional, ret,
         ret_conditional, rst, pchl, SSS
<1>7. ~(interruptHandler \/ hlt)
  BY <1>1 DEF interruptHandler, ei, di, hlt
<1> QED BY <1>2, <1>3, <1>4, <1>5, <1>6, <1>7
        DEF fetch_execute_instruction, dataHandler, computeHandler

\* The handler of operation n, once decoded: the field DDD tells them apart.
LEMMA OperationRuns ==
  ASSUME TypeOK, fetch_execute_instruction, NEW n \in 0..7, AluOperation(n)
  PROVE  /\ n = 0 => Assign(add(A, operand, m_psw, FALSE))
         /\ n = 1 => Assign(add(A, operand, m_psw, TRUE))
         /\ n = 7 => Assign(cmp(A, operand, m_psw))
<1>1. add_a \/ sub_a \/ boolean_a \/ cmp_a
  BY AccumulatorDecode DEF accumulatorHandler
<1>2. \A m \in 0..7 : AluOperation(m) => m = n
  BY DEF AluOperation
<1>3. ASSUME n = 0 PROVE Assign(add(A, operand, m_psw, FALSE))
  <2>1. ~(AluOperation(1) \/ AluOperation(2) \/ AluOperation(3) \/ AluOperation(4)
          \/ AluOperation(5) \/ AluOperation(6) \/ AluOperation(7))
    BY <1>2, <1>3
  <2> QED BY <1>1, <2>1 DEF add_a, sub_a, boolean_a, cmp_a
<1>4. ASSUME n = 1 PROVE Assign(add(A, operand, m_psw, TRUE))
  <2>1. ~(AluOperation(0) \/ AluOperation(2) \/ AluOperation(3) \/ AluOperation(4)
          \/ AluOperation(5) \/ AluOperation(6) \/ AluOperation(7))
    BY <1>2, <1>4
  <2> QED BY <1>1, <2>1 DEF add_a, sub_a, boolean_a, cmp_a
<1>5. ASSUME n = 7 PROVE Assign(cmp(A, operand, m_psw))
  <2>1. ~(AluOperation(0) \/ AluOperation(1) \/ AluOperation(2) \/ AluOperation(3)
          \/ AluOperation(4) \/ AluOperation(5) \/ AluOperation(6))
    BY <1>2, <1>5
  <2> QED BY <1>1, <2>1 DEF add_a, sub_a, boolean_a, cmp_a
<1> QED BY <1>3, <1>4, <1>5

\* What an operation returned is in the accumulator and the status word.
LEMMA Assigned ==
  ASSUME TypeOK, NEW r, Assign(r)
  PROVE  A' = r.a /\ m_psw' = r.psw
<1>1. m_regs \in RegisterFile
  BY RegisterType
<1> QED BY <1>1 DEF Assign, SetA, A, REGISTER_A, RegisterFile

\* An addition with carry in that does not wrap is an addition without.
LEMMA CarryIn ==
  ASSUME NEW a \in Byte, NEW data \in Byte, NEW psw \in Byte,
         data + get_status_flag(psw, FLAG_CY) < 256
  PROVE  add(a, data, psw, TRUE) = add(a, data + get_status_flag(psw, FLAG_CY), psw, FALSE)
<1> DEFINE cy == get_status_flag(psw, FLAG_CY)
<1>1. cy \in Bool01
  BY FlagIsBit DEF Flags
<1> HIDE DEF cy
<1>2. (data + cy) % 256 = data + cy
  BY <1>1 DEF Bool01, Byte, cy
<1> QED BY <1>2 DEF add, cy

\* The accumulator and the carry flag of an addition without carry in.
LEMMA NineBitSum ==
  ASSUME NEW a \in Byte, NEW data \in Byte, NEW psw \in Byte, NEW r,
         r = add(a, data, psw, FALSE)
  PROVE  /\ r.a \in Byte /\ r.psw \in PswByte
         /\ r.a + 256 * get_status_flag(r.psw, FLAG_CY) = a + data
<1> DEFINE sum == add(a, data, psw, FALSE)
<1>1. /\ sum.a \in Byte
      /\ sum.psw \in PswByte
      /\ sum.a + 256 * get_status_flag(sum.psw, FLAG_CY) = a + data
      /\ get_status_flag(sum.psw, FLAG_Z) = 1 <=> sum.a = 0
      /\ get_status_flag(sum.psw, FLAG_AC) = 1 <=> (a % 16) + (data % 16) >= 16
  BY AddIsAddition, ZenonT(60)
<1>2. r = sum
  OBVIOUS
<1> HIDE DEF sum
<1> QED BY <1>1, <1>2

\* A step that adds leaves the sum in the carry flag and the accumulator.
LEMMA AdditionStep ==
  ASSUME TypeOK, fetch_execute_instruction, adding, operand + carry_in < 256
  PROVE  256 * FlagAfter(FLAG_CY) + A' = A + operand + carry_in
<1> DEFINE data == operand + carry_in
           r == add(A, data, m_psw, FALSE)
           cy == get_status_flag(m_psw, FLAG_CY)
<1>1. A \in Byte /\ operand \in Byte /\ m_psw \in Byte
  BY RegisterType, OperandType
<1>2. cy \in Bool01
  BY <1>1, FlagIsBit DEF Flags
<1>3. carry_in \in Bool01
  BY <1>2, ZeroOneAreBits DEF carry_in
<1>4. data \in Byte
  BY <1>1, <1>3 DEF Byte, Bool01
<1>5. ASSUME AluOperation(0) PROVE Assign(r)
  <2>1. carry_in = 0
    BY <1>5 DEF AluOperation, carry_in
  <2>2. data = operand
    BY <1>1, <2>1 DEF Byte
  <2>3. 0 \in 0..7
    OBVIOUS
  <2>4. Assign(add(A, operand, m_psw, FALSE))
    BY <1>5, <2>3, OperationRuns
  <2>5. add(A, operand, m_psw, FALSE) = r
    BY <2>2
  <2> HIDE DEF r
  <2> QED BY <2>4, <2>5
<1>6. ASSUME AluOperation(1) PROVE Assign(r)
  <2>1. carry_in = cy
    BY <1>6 DEF AluOperation, carry_in
  <2>2. add(A, operand, m_psw, TRUE) = add(A, data, m_psw, FALSE)
    BY <1>1, <2>1, CarryIn
  <2>3. 1 \in 0..7
    OBVIOUS
  <2>4. Assign(add(A, operand, m_psw, TRUE))
    BY <1>6, <2>3, OperationRuns
  <2>5. add(A, operand, m_psw, TRUE) = r
    BY <2>2
  <2> HIDE DEF r
  <2> QED BY <2>4, <2>5
<1>7. AluOperation(0) \/ AluOperation(1)
  BY DEF adding
<1> HIDE DEF r
<1>8. Assign(r)
  BY <1>5, <1>6, <1>7
<1> HIDE DEF data
<1>9. r = add(A, data, m_psw, FALSE)
  BY DEF r
<1>10. /\ r.a \in Byte /\ r.psw \in PswByte
      /\ r.a + 256 * get_status_flag(r.psw, FLAG_CY) = A + data
  <2> HIDE DEF cy
  <2>1. \A psw \in Byte : \A s : s = add(A, data, psw, FALSE) =>
           /\ s.a \in Byte /\ s.psw \in PswByte
           /\ s.a + 256 * get_status_flag(s.psw, FLAG_CY) = A + data
    BY <1>1, <1>4, NineBitSum
  <2> QED BY <1>1, <1>9, <2>1
<1>11. A' = r.a /\ m_psw' = r.psw
  BY <1>8, Assigned
<1>12. get_status_flag(r.psw, FLAG_CY) \in Bool01
  BY <1>10, PswByteIsByte, FlagIsBit DEF Flags
<1>13. FlagAfter(FLAG_CY) = get_status_flag(r.psw, FLAG_CY)
  BY <1>11 DEF FlagAfter
<1>14. 256 * FlagAfter(FLAG_CY) + A' = A + data
  BY <1>1, <1>4, <1>10, <1>11, <1>12, <1>13 DEF Byte, Bool01
<1> QED BY <1>1, <1>3, <1>14 DEF data, Byte, Bool01

(***************************************************************************)
(* Every ADD, ADC, ADI and ACI of every program adds, within the range the *)
(* property states (add and binary_add in cpu.cpp).                        *)
(***************************************************************************)
THEOREM ProgramsAddExactly == Spec => AdditionExact
<1>1. TypeOK /\ [Next]_vars =>
        [adding /\ operand + carry_in < 256 =>
           256 * FlagAfter(FLAG_CY) + A' = A + operand + carry_in]_vars
  BY AdditionStep DEF Next
<1>2. Spec => []TypeOK
  BY InitTypes, NextTypes, PTL DEF Spec
<1> QED BY <1>1, <1>2, PTL DEF Spec, AdditionExact

\* The two conditions a branch behind a comparison tests (branch_condition_is_met).
LEMMA BranchConditions ==
  \A psw : /\ branch_condition_is_met(psw, 1) <=> get_status_flag(psw, FLAG_Z) = 1
           /\ branch_condition_is_met(psw, 3) <=> get_status_flag(psw, FLAG_CY) = 1
<1>1. 1 \div 2 = 0 /\ 3 \div 2 = 1 /\ 1 % 2 = 1 /\ 3 % 2 = 1
  OBVIOUS
<1> QED BY <1>1 DEF branch_condition_is_met

\* A step that compares.
LEMMA ComparisonStep ==
  ASSUME TypeOK, fetch_execute_instruction, AluOperation(7)
  PROVE  /\ A' = A
         /\ branch_condition_is_met(m_psw', 1) <=> A = operand
         /\ branch_condition_is_met(m_psw', 3) <=> A < operand
<1> DEFINE r == cmp(A, operand, m_psw)
<1>1. A \in Byte /\ operand \in Byte /\ m_psw \in Byte
  BY RegisterType, OperandType
<1>2. 7 \in 0..7
  OBVIOUS
<1>3. Assign(r)
  BY <1>2, OperationRuns
<1>4. /\ r.a = A
      /\ get_status_flag(r.psw, FLAG_Z) = 1 <=> A = operand
      /\ get_status_flag(r.psw, FLAG_CY) = 1 <=> A < operand
  BY <1>1, CmpIsComparison
<1> HIDE DEF r
<1>5. A' = r.a /\ m_psw' = r.psw
  BY <1>3, Assigned
<1> QED BY <1>4, <1>5, BranchConditions

(***************************************************************************)
(* Every CMP and CPI of every program orders the accumulator and the       *)
(* operand (cmp and branch_condition_is_met in cpu.cpp).                   *)
(***************************************************************************)
THEOREM ProgramsCompare == Spec => ComparisonOrders
<1>1. TypeOK /\ [Next]_vars =>
        [AluOperation(7) =>
           /\ A' = A
           /\ branch_condition_is_met(m_psw', 1) <=> A = operand
           /\ branch_condition_is_met(m_psw', 3) <=> A < operand]_vars
  BY ComparisonStep DEF Next
<1>2. Spec => []TypeOK
  BY InitTypes, NextTypes, PTL DEF Spec
<1> QED BY <1>1, <1>2, PTL DEF Spec, ComparisonOrders

-----------------------------------------------------------------------------
\* The first quarter of the opcodes has no accumulator operation.
LEMMA NotAccumulator == ins \in 0..63 => ~accumulatorHandler
<1>1. ASSUME NEW n, ins \in 0..63 PROVE ~AluOperation(n)
  <2> HIDE DEF ins
  <2> QED BY <1>1 DEF AluOperation
<1> QED BY <1>1 DEF accumulatorHandler, add_a, sub_a, boolean_a, cmp_a

\* An instruction with an opcode of DAD runs dad_rp.
LEMMA DadDecode ==
  ASSUME TypeOK, fetch_execute_instruction, ins \in {9, 25, 41, 57}
  PROVE  dad_rp
<1>1. /\ ins \in 0..63 /\ ins % 8 = 1
      /\ ins \notin {1, 17, 33, 49, 3, 19, 35, 51, 11, 27, 43, 59}
  OBVIOUS
<1> HIDE DEF ins
<1>2. ~registerHandler
  BY <1>1 DEF registerHandler, nop, mov_rr, mov_rm, mvi_r, lxi, lda, ldax, lhld, xchg, inx_rp,
         sphl, cma_a, in_port, SSS
<1>3. ~accumulatorHandler
  BY <1>1, NotAccumulator
<1>4. ~(rotate_a \/ daa_a \/ stc_cy \/ cmc_cy \/ inr_r)
  BY <1>1 DEF rotate_a, daa_a, stc_cy, cmc_cy, inr_r, SSS
<1>5. ~(memoryHandler \/ out_port)
  BY <1>1 DEF memoryHandler, mov_mr, mvi_m, sta, stax, shld, inr_m, out_port
<1>6. ~stackHandler
  BY <1>1 DEF stackHandler, push_rp, push_psw, pop_rp, pop_psw, xthl
<1>7. ~branchHandler
  BY <1>1 DEF branchHandler, jmp, jmp_conditional, call, call_conditional, ret,
         ret_conditional, rst, pchl
<1>8. ~(interruptHandler \/ hlt)
  BY <1>1 DEF interruptHandler, ei, di, hlt
<1> QED BY <1>2, <1>3, <1>4, <1>5, <1>6, <1>7, <1>8
        DEF fetch_execute_instruction, dataHandler, computeHandler

\* An instruction with an opcode of INX or DCX runs inx_rp.
LEMMA InxDecode ==
  ASSUME TypeOK, fetch_execute_instruction, ins \in {3, 19, 35, 51, 11, 27, 43, 59}
  PROVE  inx_rp
<1>1. ins \in 0..63 /\ ins % 8 = 3
  OBVIOUS
<1> HIDE DEF ins
<1>2. ~(nop \/ mov_rr \/ mov_rm \/ mvi_r \/ lxi \/ lda \/ ldax \/ lhld \/ xchg
        \/ sphl \/ cma_a \/ in_port)
  BY <1>1 DEF nop, mov_rr, mov_rm, mvi_r, lxi, lda, ldax, lhld, xchg, sphl, cma_a, in_port, SSS
<1>3. ~computeHandler
  <2>1. ~accumulatorHandler
    BY <1>1, NotAccumulator
  <2>2. ~(rotate_a \/ daa_a \/ stc_cy \/ cmc_cy \/ inr_r \/ dad_rp)
    BY <1>1 DEF rotate_a, daa_a, stc_cy, cmc_cy, inr_r, dad_rp, SSS
  <2> QED BY <2>1, <2>2 DEF computeHandler
<1>4. ~(memoryHandler \/ out_port)
  BY <1>1 DEF memoryHandler, mov_mr, mvi_m, sta, stax, shld, inr_m, out_port
<1>5. ~stackHandler
  BY <1>1 DEF stackHandler, push_rp, push_psw, pop_rp, pop_psw, xthl
<1>6. ~branchHandler
  BY <1>1 DEF branchHandler, jmp, jmp_conditional, call, call_conditional, ret,
         ret_conditional, rst, pchl
<1>7. ~(interruptHandler \/ hlt)
  BY <1>1 DEF interruptHandler, ei, di, hlt
<1> QED BY <1>2, <1>3, <1>4, <1>5, <1>6, <1>7
        DEF fetch_execute_instruction, dataHandler, registerHandler

\* A step that runs DAD.
LEMMA DadStep ==
  ASSUME TypeOK, fetch_execute_instruction, ins \in {9, 25, 41, 57}
  PROVE  TwoTo16 * FlagAfter(FLAG_CY) + HL' = HL + get_register_pair(RP)
<1> DEFINE pair == get_register_pair(RP)
           r == dad(HL, pair, m_psw)
<1>1. HL \in Word /\ pair \in Word /\ m_psw \in Byte /\ m_regs \in RegisterFile
  BY RegisterType, FieldType DEF TypeOK, CpuTypeOK
<1>2. m_regs' = with_pair(2, LowByte(r.hl), HighByte(r.hl)) /\ m_psw' = r.psw
  BY DadDecode DEF dad_rp
<1> HIDE DEF pair
<1>3. /\ r.hl \in Word /\ r.psw \in PswByte
      /\ r.hl + TwoTo16 * get_status_flag(r.psw, FLAG_CY) = HL + pair
  <2>1. \A hl \in Word, rp \in Word, psw \in Byte :
          /\ dad(hl, rp, psw).hl \in Word /\ dad(hl, rp, psw).psw \in PswByte
          /\ dad(hl, rp, psw).hl + TwoTo16 * get_status_flag(dad(hl, rp, psw).psw, FLAG_CY)
               = hl + rp
    BY DadIsAddition
  <2> QED BY <1>1, <2>1
<1> HIDE DEF r
<1>4. HL' = r.hl
  <2>1. m_regs'[5] = HighByte(r.hl) /\ m_regs'[6] = LowByte(r.hl)
    BY <1>1, <1>2 DEF with_pair, regpairs_map, RegisterFile
  <2>2. HL' = MakeWord(m_regs'[6], m_regs'[5])
    BY DEF HL, get_register_pair_from_idx, REGISTER_H
  <2> QED BY <1>3, <2>1, <2>2, WordParts
<1>5. get_status_flag(r.psw, FLAG_CY) \in Bool01
  BY <1>3, PswByteIsByte, FlagIsBit DEF Flags
<1>6. FlagAfter(FLAG_CY) = get_status_flag(r.psw, FLAG_CY)
  BY <1>2 DEF FlagAfter
<1>7. FlagAfter(FLAG_CY) \in Int /\ r.hl \in Int
  BY <1>3, <1>5, <1>6, WordRange DEF Bool01
<1>8. TwoTo16 * FlagAfter(FLAG_CY) + r.hl = HL + pair
  BY <1>3, <1>6, <1>7 DEF TwoTo16
<1> QED BY <1>4, <1>8 DEF pair

\* What a uint16_t keeps of a number, when the number is known up to 2^16.
LEMMA WrapIsUnique ==
  ASSUME NEW y \in Word, NEW z \in Int, NEW c \in Int, y + TwoTo16 * c = z
  PROVE  y = Wrap(z)
<1>1. y \in Int /\ 0 <= y /\ y < 65536
  BY WordRange
<1>2. y + 65536 * c = z
  BY DEF TwoTo16
<1>3. y = z % 65536
  BY <1>1, <1>2
<1> QED BY <1>3 DEF Wrap, TwoTo16

\* INX and DCX of a word, modulo 2^16.
LEMMA InxWraps ==
  ASSUME NEW x \in Word
  PROVE  inx(x, FALSE) = Wrap(x + 1) /\ inx(x, TRUE) = Wrap(x - 1)
<1> DEFINE up == inx(x, FALSE)   down == inx(x, TRUE)
<1>1. up \in Word /\ down \in Word
  BY InxIsIncrement
<1>2. PICK c \in Bool01 : up + TwoTo16 * c = x + 1
  BY InxIsIncrement
<1>3. PICK d \in Bool01 : down + TwoTo16 * d = x + (TwoTo16 - 1)
  BY InxIsIncrement
<1> HIDE DEF up, down
<1>4. x \in Int /\ x + 1 \in Int /\ x - 1 \in Int /\ down \in Int
  BY <1>1, WordRange
<1>5. c \in Int /\ d \in Int /\ d - 1 \in Int
  BY DEF Bool01
<1>6. up = Wrap(x + 1)
  BY <1>1, <1>2, <1>4, <1>5, WrapIsUnique
<1>7. down = Wrap(x - 1)
  <2>1. down + TwoTo16 * (d - 1) = x - 1
    BY <1>3, <1>4, <1>5 DEF TwoTo16
  <2> QED BY <1>1, <1>4, <1>5, <2>1, WrapIsUnique
<1> QED BY <1>6, <1>7 DEF up, down

\* A pair holds what set_register_pair stored in it.
LEMMA PairStored ==
  ASSUME TypeOK, NEW rp \in 0..3, NEW x \in Word,
         set_register_pair(rp, LowByte(x), HighByte(x))
  PROVE  get_register_pair(rp)' = x
<1>1. m_regs \in RegisterFile
  BY RegisterType
<1>2. MakeWord(LowByte(x), HighByte(x)) = x
  BY WordParts
<1>3. CASE rp = 3
  <2>1. m_sp' = MakeWord(LowByte(x), HighByte(x))
    BY <1>3 DEF set_register_pair
  <2> QED BY <1>2, <1>3, <2>1 DEF get_register_pair
<1>4. CASE rp # 3
  <2>1. regpairs_map(rp) \in 0..6 /\ regpairs_map(rp) + 1 \in 0..6
        /\ regpairs_map(rp) # regpairs_map(rp) + 1
    BY <1>4 DEF regpairs_map
  <2>2. m_regs' = with_pair(rp, LowByte(x), HighByte(x))
    BY <1>4 DEF set_register_pair
  <2>3. m_regs'[regpairs_map(rp)] = HighByte(x) /\ m_regs'[regpairs_map(rp) + 1] = LowByte(x)
    BY <1>1, <2>1, <2>2 DEF with_pair, RegisterFile
  <2>4. get_register_pair(rp)' = MakeWord(m_regs'[regpairs_map(rp) + 1], m_regs'[regpairs_map(rp)])
    BY <1>4 DEF get_register_pair, get_register_pair_from_idx, regpairs_map
  <2> QED BY <1>2, <2>3, <2>4
<1> QED BY <1>3, <1>4

\* A step that runs INX or DCX.
LEMMA InxStep ==
  ASSUME TypeOK, fetch_execute_instruction, NEW rp \in 0..3, RP = rp
  PROVE  /\ ins \in {3, 19, 35, 51} =>
              get_register_pair(rp)' = Wrap(get_register_pair(rp) + 1)
         /\ ins \in {11, 27, 43, 59} =>
              get_register_pair(rp)' = Wrap(get_register_pair(rp) - 1)
<1>1. get_register_pair(rp) \in Word
  BY RegisterType
<1>2. ASSUME NEW decrement \in BOOLEAN,
             set_register_pair(rp, LowByte(inx(get_register_pair(rp), decrement)),
                                   HighByte(inx(get_register_pair(rp), decrement)))
      PROVE  get_register_pair(rp)' = inx(get_register_pair(rp), decrement)
  <2>1. inx(get_register_pair(rp), decrement) \in Word
    BY <1>1, InxIsIncrement
  <2> QED BY <1>2, <2>1, PairStored
<1>3. ASSUME ins \in {3, 19, 35, 51}
      PROVE  get_register_pair(rp)' = Wrap(get_register_pair(rp) + 1)
  <2>1. inx_rp
    BY <1>3, InxDecode
  <2>2. (ins % 16 = 11) = FALSE
    BY <1>3
  <2>3. set_register_pair(rp, LowByte(inx(get_register_pair(rp), FALSE)),
                              HighByte(inx(get_register_pair(rp), FALSE)))
    BY <2>1, <2>2 DEF inx_rp
  <2> QED BY <1>1, <1>2, <2>3, InxWraps
<1>4. ASSUME ins \in {11, 27, 43, 59}
      PROVE  get_register_pair(rp)' = Wrap(get_register_pair(rp) - 1)
  <2>1. inx_rp
    BY <1>4, InxDecode
  <2>2. (ins % 16 = 11) = TRUE
    BY <1>4
  <2>3. set_register_pair(rp, LowByte(inx(get_register_pair(rp), TRUE)),
                              HighByte(inx(get_register_pair(rp), TRUE)))
    BY <2>1, <2>2 DEF inx_rp
  <2> QED BY <1>1, <1>2, <2>3, InxWraps
<1> QED BY <1>3, <1>4

(***************************************************************************)
(* Every DAD, INX and DCX of every program works on the whole pair (dad,   *)
(* inx and set_register_pair in cpu.cpp).                                  *)
(***************************************************************************)
THEOREM ProgramsAddPairs == Spec => PairArithmetic
<1> DEFINE Pairs ==
      \A rp \in 0..3 : RP = rp =>
         /\ ins \in {9, 25, 41, 57} =>
              TwoTo16 * FlagAfter(FLAG_CY) + HL' = HL + get_register_pair(rp)
         /\ ins \in {3, 19, 35, 51} =>
              get_register_pair(rp)' = Wrap(get_register_pair(rp) + 1)
         /\ ins \in {11, 27, 43, 59} =>
              get_register_pair(rp)' = Wrap(get_register_pair(rp) - 1)
<1>1. ASSUME TypeOK, Next PROVE Pairs
  <2> SUFFICES ASSUME NEW rp \in 0..3, RP = rp
               PROVE  /\ ins \in {9, 25, 41, 57} =>
                           TwoTo16 * FlagAfter(FLAG_CY) + HL' = HL + get_register_pair(rp)
                      /\ ins \in {3, 19, 35, 51} =>
                           get_register_pair(rp)' = Wrap(get_register_pair(rp) + 1)
                      /\ ins \in {11, 27, 43, 59} =>
                           get_register_pair(rp)' = Wrap(get_register_pair(rp) - 1)
      OBVIOUS
  <2>1. fetch_execute_instruction
    BY <1>1 DEF Next
  <2> QED BY <1>1, <2>1, DadStep, InxStep
<1>2. TypeOK /\ [Next]_vars => [Pairs]_vars
  BY <1>1
<1>3. Spec => []TypeOK
  BY InitTypes, NextTypes, PTL DEF Spec
<1> QED BY <1>2, <1>3, PTL DEF Spec, PairArithmetic

-----------------------------------------------------------------------------
\* An instruction with the opcode of INR M or DCR M runs inr_m.
LEMMA InrMDecode ==
  ASSUME TypeOK, fetch_execute_instruction, stepping
  PROVE  inr_m /\ UNCHANGED <<m_regs, m_rom>>
<1>1. /\ ins \in 48..55 /\ (ins % 8 = 4 \/ ins % 8 = 5) /\ (ins \div 8) % 8 = 6
      /\ ins \in {52, 53}
  BY DEF stepping
<1> HIDE DEF ins
<1>2. ~registerHandler
  BY <1>1 DEF registerHandler, nop, mov_rr, mov_rm, mvi_r, lxi, lda, ldax, lhld, xchg, inx_rp,
         sphl, cma_a, in_port, SSS
<1>3. ~accumulatorHandler
  BY <1>1, NotAccumulator
<1>4. ~(rotate_a \/ daa_a \/ stc_cy \/ cmc_cy \/ inr_r \/ dad_rp)
  BY <1>1 DEF rotate_a, daa_a, stc_cy, cmc_cy, inr_r, dad_rp, SSS, DDD
<1>5. ~(mov_mr \/ mvi_m \/ sta \/ stax \/ shld \/ out_port)
  BY <1>1 DEF mov_mr, mvi_m, sta, stax, shld, out_port
<1>6. ~stackHandler
  BY <1>1 DEF stackHandler, push_rp, push_psw, pop_rp, pop_psw, xthl
<1>7. ~branchHandler
  BY <1>1 DEF branchHandler, jmp, jmp_conditional, call, call_conditional, ret,
         ret_conditional, rst, pchl
<1>8. ~(interruptHandler \/ hlt)
  BY <1>1 DEF interruptHandler, ei, di, hlt
<1>9. memoryHandler /\ inr_m
  BY <1>2, <1>3, <1>4, <1>5, <1>6, <1>7, <1>8
     DEF fetch_execute_instruction, dataHandler, computeHandler, memoryHandler
<1> QED BY <1>9 DEF memoryHandler, fetch_execute_instruction

\* The sum of INR and DCR is the byte one more or one less.
LEMMA InrSteps ==
  ASSUME NEW x \in Byte, stepping
  PROVE  inr_sum(x, ins = 53).res = stepped(x)
<1> DEFINE d == IF ins = 53 THEN 255 ELSE 1
           sum == binary_add(x, d, 0)
<1>1. d \in Byte /\ 0 \in Bool01
  BY DEF Byte, Bool01
<1>2. sum.res \in Byte /\ sum.carry \in Bool01 /\ x + d + 0 = sum.res + 256 * sum.carry
  BY <1>1, BinaryAddIsAddition
<1>3. inr_sum(x, ins = 53) = sum
  BY DEF inr_sum
<1>4. stepped(x) = (x + d) % 256
  <2> HIDE DEF ins
  <2>1. ins = 52 \/ ins = 53
    BY DEF stepping
  <2> QED BY <2>1 DEF stepped
<1> HIDE DEF d, sum
<1>5. sum.res = (x + d) % 256
  <2>1. ASSUME NEW r \in 0..255, NEW c \in 0..1, NEW z \in Int, z = r + 256 * c
        PROVE  r = z % 256
    BY <2>1
  <2>2. x + d \in Int /\ x + d = sum.res + 256 * sum.carry
    BY <1>1, <1>2 DEF Byte, Bool01
  <2>3. sum.res \in 0..255 /\ sum.carry \in 0..1
    BY <1>2 DEF Byte, Bool01
  <2> QED BY <2>1, <2>2, <2>3
<1> QED BY <1>3, <1>4, <1>5

\* The conditions of the branches that test parity and sign.
LEMMA OtherBranchConditions ==
  \A psw : /\ branch_condition_is_met(psw, 5) <=> get_status_flag(psw, FLAG_P) = 1
           /\ branch_condition_is_met(psw, 7) <=> get_status_flag(psw, FLAG_S) = 1
<1>1. 5 \div 2 = 2 /\ 7 \div 2 = 3 /\ 5 % 2 = 1 /\ 7 % 2 = 1
  OBVIOUS
<1> QED BY <1>1 DEF branch_condition_is_met

\* A step that runs INR M or DCR M.
LEMMA InrMStep ==
  ASSUME TypeOK, fetch_execute_instruction, stepping
  PROVE  /\ branch_condition_is_met(m_psw', 1) <=> memory_read(HL)' = 0
         /\ branch_condition_is_met(m_psw', 5) <=> calculate_parity(memory_read(HL)')
         /\ branch_condition_is_met(m_psw', 7) <=> memory_read(HL)' >= 128
         /\ FlagAfter(FLAG_CY) = get_status_flag(m_psw, FLAG_CY)
         /\ IsRam(HL) => memory_read(HL)' = stepped(memory_read(HL))
<1> DEFINE decrement == ins = 53
           sum == inr_sum(memory_read(HL), decrement)
           stored == ReadMemory(m_rom, m_ram', HL)
<1>1. /\ HL \in Word /\ m_psw \in Byte /\ memory_read(HL) \in Byte
      /\ m_rom \in RomImage /\ m_ram \in RamImage
  BY RegisterType, MemoryReadType DEF TypeOK, BusTypeOK
<1>2. decrement \in BOOLEAN
  OBVIOUS
<1>3. /\ m_ram' = memory_write(m_ram, HL, sum.res)
      /\ m_psw' = inr_flags(m_psw, stored, decrement, sum.aux_carry)
  BY InrMDecode DEF inr_m
<1>4. HL' = HL /\ m_rom' = m_rom
  BY InrMDecode DEF HL, get_register_pair_from_idx
<1>5. memory_read(HL)' = stored
  BY <1>4 DEF memory_read
<1>6. sum.res = stepped(memory_read(HL))
  BY <1>1, InrSteps
<1> HIDE DEF decrement
<1>7. sum.res \in Byte /\ sum.aux_carry \in Bool01
  BY <1>1, <1>2, InrType
<1> HIDE DEF sum
<1>8. m_ram' \in RamImage
  BY <1>1, <1>3, <1>7, MemoryWriteType
<1>9. stored \in Byte
  BY <1>1, <1>8, ReadType
<1>10. IsRam(HL) => stored = sum.res
  BY <1>1, <1>3, <1>7, WrittenByte
<1> HIDE DEF stored
<1>11. /\ get_status_flag(m_psw', FLAG_Z) = Bool2Bit(stored = 0)
       /\ get_status_flag(m_psw', FLAG_S) = Bit(stored, 128)
       /\ get_status_flag(m_psw', FLAG_P) = Bool2Bit(calculate_parity(stored))
       /\ get_status_flag(m_psw', FLAG_CY) = get_status_flag(m_psw, FLAG_CY)
  BY <1>1, <1>2, <1>3, <1>7, <1>9, InrFlagsDescribe
<1>12. /\ Bool2Bit(stored = 0) = 1 <=> stored = 0
       /\ Bool2Bit(calculate_parity(stored)) = 1 <=> calculate_parity(stored)
  BY DEF Bool2Bit
<1>13. Bit(stored, 128) = 1 <=> stored >= 128
  BY <1>9 DEF Bit, Byte
<1>14. /\ branch_condition_is_met(m_psw', 1) <=> stored = 0
       /\ branch_condition_is_met(m_psw', 5) <=> calculate_parity(stored)
       /\ branch_condition_is_met(m_psw', 7) <=> stored >= 128
  BY <1>11, <1>12, <1>13, BranchConditions, OtherBranchConditions
<1> QED BY <1>5, <1>6, <1>10, <1>11, <1>14 DEF FlagAfter

(***************************************************************************)
(* After INR M and DCR M of every program, whatever HL points at, the      *)
(* flags describe the byte that is read back there (inr_m in cpu.cpp).     *)
(***************************************************************************)
THEOREM ProgramsDescribeMemory == Spec => FlagsDescribeMemory
<1>1. TypeOK /\ [Next]_vars =>
        [stepping =>
           /\ branch_condition_is_met(m_psw', 1) <=> memory_read(HL)' = 0
           /\ branch_condition_is_met(m_psw', 5) <=> calculate_parity(memory_read(HL)')
           /\ branch_condition_is_met(m_psw', 7) <=> memory_read(HL)' >= 128
           /\ FlagAfter(FLAG_CY) = get_status_flag(m_psw, FLAG_CY)
           /\ IsRam(HL) => memory_read(HL)' = stepped(memory_read(HL))]_vars
  BY InrMStep DEF Next
<1>2. Spec => []TypeOK
  BY InitTypes, NextTypes, PTL DEF Spec
<1> QED BY <1>1, <1>2, PTL DEF Spec, FlagsDescribeMemory

-----------------------------------------------------------------------------
\* The sum of two numbers of two decimal digits, digit by digit.
LEMMA DigitSums ==
  ASSUME NEW x \in Byte, NEW y \in Byte, IsDecimal(x), IsDecimal(y),
         NEW tens \in Int, tens = (x \div 16) + (y \div 16),
         NEW units \in Int, units = (x % 16) + (y % 16)
  PROVE  /\ tens \in 0..18 /\ units \in 0..18
         /\ x + y = 16 * tens + units
         /\ Decimal(x) + Decimal(y) = 10 * tens + units
BY DEF IsDecimal, Decimal, Byte

\* The digits of two numbers add up to tens and units, and their bytes to
\* a + 256 * cy.
AddedDigits(a, cy, tens, units) ==
    /\ a \in Int /\ 0 <= a /\ a < 256
    /\ cy \in Int /\ (cy = 0 \/ cy = 1)
    /\ tens \in Int /\ 0 <= tens /\ tens <= 18
    /\ units \in Int /\ 0 <= units /\ units <= 18
    /\ a + 256 * cy = 16 * tens + units

\* DAA of such a sum makes low of it, then high.
Sixes(a, cy, units, low, high) ==
    /\ low = IF a % 16 > 9 \/ units >= 16 THEN (a + 6) % 256 ELSE a
    /\ high = IF low \div 16 > 9 \/ cy = 1 THEN low + 96 ELSE low

LEMMA SixesAdjust ==
  ASSUME NEW a, NEW cy, NEW tens, NEW units, NEW low \in Int, NEW high \in Int,
         AddedDigits(a, cy, tens, units), Sixes(a, cy, units, low, high),
         16 * tens + units \notin 250..255
  PROVE  /\ IsDecimal(high % 256) /\ Decimal(high % 256) = (10 * tens + units) % 100
         /\ cy = 0 => high \div 256 = (10 * tens + units) \div 100
<1>0. /\ a \in Int /\ 0 <= a /\ a < 256
      /\ cy \in Int /\ (cy = 0 \/ cy = 1)
      /\ tens \in Int /\ 0 <= tens /\ tens <= 18
      /\ units \in Int /\ 0 <= units /\ units <= 18
      /\ a + 256 * cy = 16 * tens + units
      /\ low = IF a % 16 > 9 \/ units >= 16 THEN (a + 6) % 256 ELSE a
      /\ high = IF low \div 16 > 9 \/ cy = 1 THEN low + 96 ELSE low
  BY DEF AddedDigits, Sixes
<1> DEFINE t == IF units < 10 THEN tens ELSE tens + 1
           u == IF units < 10 THEN units ELSE units - 10
           t0 == t - 16 * cy
<1>1. /\ t \in Int /\ u \in Int /\ 0 <= u /\ u <= 9 /\ 0 <= t /\ t <= 19
      /\ 10 * t + u = 10 * tens + units
  BY <1>0
<1>2. low = 16 * t0 + u /\ 0 <= t0 /\ t0 <= 15
  <2>1. CASE units < 10
    <3>1. a = 16 * (tens - 16 * cy) + units BY <1>0
    <3>2. a % 16 = units BY <1>0, <2>1, <3>1, Divided16
    <3>3. low = a BY <1>0, <2>1, <3>2
    <3> QED BY <1>0, <2>1, <3>1, <3>3
  <2>2. CASE units >= 10
    <3>1. a % 16 > 9 \/ units >= 16
      <4>1. CASE units < 16
        <5>1. a = 16 * (tens - 16 * cy) + units BY <1>0
        <5>2. a % 16 = units BY <1>0, <2>2, <4>1, <5>1, Divided16
        <5> QED BY <1>0, <2>2, <5>2
      <4> QED BY <1>0, <4>1
    <3>2. low = (a + 6) % 256 BY <1>0, <3>1
    <3>3. a + 6 = 16 * t0 + u BY <1>0, <2>2
    <3>4. a + 6 < 256 BY <1>0, <2>2
    <3>5. (a + 6) % 256 = a + 6 BY <1>0, <3>4
    <3> QED BY <1>0, <1>1, <3>2, <3>3, <3>4, <3>5
  <2> QED BY <1>0, <2>1, <2>2
<1> HIDE DEF u
<1>3. low \div 16 = t0 BY <1>0, <1>1, <1>2, Divided16
<1> HIDE DEF t
<1>4. CASE t < 10
  <2>1. cy = 0 /\ high = 16 * t + u BY <1>0, <1>1, <1>2, <1>3, <1>4
  <2>2. high % 256 = 16 * t + u /\ high \div 256 = 0 BY <1>0, <1>1, <1>4, <2>1, Divided256
  <2>3. (16 * t + u) \div 16 = t /\ (16 * t + u) % 16 = u BY <1>0, <1>1, Divided16
  <2>4. 10 * tens + units = 100 * 0 + (10 * t + u) /\ 0 <= 10 * t + u /\ 10 * t + u < 100
    BY <1>0, <1>1, <1>4
  <2>5. (10 * tens + units) \div 100 = 0 /\ (10 * tens + units) % 100 = 10 * t + u
    BY <1>0, <1>1, <2>4, Divided100
  <2> QED BY <1>0, <1>1, <1>4, <2>2, <2>3, <2>5 DEF IsDecimal, Decimal
<1>5. CASE t >= 10
  <2>1. high = 16 * (t0 + 6) + u BY <1>0, <1>1, <1>2, <1>3, <1>5
  <2> DEFINE d == t - 10
  <2>d. d \in Int /\ 0 <= d /\ d < 10 BY <1>0, <1>1, <1>5
  <2>2. high = 256 * (1 - cy) + (16 * d + u) BY <1>0, <1>1, <2>1
  <2> HIDE DEF d
  <2>3. high % 256 = 16 * d + u /\ high \div 256 = 1 - cy BY <1>0, <1>1, <2>d, <2>2, Divided256
  <2>4. (16 * d + u) \div 16 = d /\ (16 * d + u) % 16 = u BY <1>0, <1>1, <2>d, Divided16
  <2>5. 10 * tens + units = 100 * 1 + (10 * d + u) BY <1>0, <1>1 DEF d
  <2>6. (10 * tens + units) \div 100 = 1 /\ (10 * tens + units) % 100 = 10 * d + u
    BY <1>0, <1>1, <2>d, <2>5, Divided100
  <2> QED BY <1>0, <1>1, <2>d, <2>3, <2>4, <2>6 DEF IsDecimal, Decimal
<1> QED BY <1>1, <1>0, <1>4, <1>5

\* The accumulator and the status word hold the decimal sum of x and y, within
\* the ranges DecimalSum states.
HoldsDecimalSum(x, y, a, psw) ==
    /\ x + y \notin 250..255 => IsDecimal(a) /\ Decimal(a) = (Decimal(x) + Decimal(y)) % 100
    /\ x + y < 250 => get_status_flag(psw, FLAG_CY) = (Decimal(x) + Decimal(y)) \div 100

(***************************************************************************)
(* ADD and DAA of two decimal bytes leave the digits of their sum, and     *)
(* below 250 its hundreds in the carry flag, whatever flags the addition   *)
(* found (add and daa in cpu.cpp).                                         *)
(***************************************************************************)
THEOREM DaaOfDecimalSum ==
  ASSUME NEW x \in Byte, NEW y \in Byte, NEW psw \in Byte, IsDecimal(x), IsDecimal(y),
         NEW sum, sum = add(x, y, psw, FALSE), NEW r, r = daa(sum.a, sum.psw)
  PROVE  HoldsDecimalSum(x, y, r.a, r.psw)
<1>1. /\ sum.a \in Byte /\ sum.psw \in PswByte
      /\ sum.a + 256 * get_status_flag(sum.psw, FLAG_CY) = x + y
      /\ get_status_flag(sum.psw, FLAG_AC) = 1 <=> (x % 16) + (y % 16) >= 16
  <2> DEFINE s == add(x, y, psw, FALSE)
  <2>1. /\ s.a \in Byte
        /\ s.psw \in PswByte
        /\ s.a + 256 * get_status_flag(s.psw, FLAG_CY) = x + y
        /\ get_status_flag(s.psw, FLAG_Z) = 1 <=> s.a = 0
        /\ get_status_flag(s.psw, FLAG_AC) = 1 <=> (x % 16) + (y % 16) >= 16
    BY AddIsAddition, ZenonT(60)
  <2>2. s = sum OBVIOUS
  <2> HIDE DEF s
  <2> QED BY <2>1, <2>2
<1> DEFINE a == sum.a
           cy == get_status_flag(sum.psw, FLAG_CY)
           ac == get_status_flag(sum.psw, FLAG_AC)
           low  == IF a % 16 > 9 \/ ac = 1 THEN (a + 6) % 256 ELSE a
           high == IF low \div 16 > 9 \/ cy = 1 THEN low + 96 ELSE low
           tens == (x \div 16) + (y \div 16)
           units == (x % 16) + (y % 16)
<1>0. x \in Int /\ y \in Int /\ x + y \in Int BY DEF Byte
<1>2. /\ a \in Int /\ 0 <= a /\ a < 256 /\ cy \in Int /\ (cy = 0 \/ cy = 1)
      /\ a + 256 * cy = x + y
      /\ ac = 1 <=> units >= 16
  <2>1. cy \in Bool01 BY <1>1, PswByteIsByte, FlagIsBit DEF Flags
  <2>2. a \in Byte BY <1>1
  <2>3. a \in Int /\ 0 <= a /\ a < 256 BY <2>2, ByteRange
  <2>4. cy \in Int /\ (cy = 0 \/ cy = 1) BY <2>1, BitRange
  <2> QED BY <1>1, <2>3, <2>4
<1>3. r.a = high % 256 /\ get_status_flag(r.psw, FLAG_CY) = high \div 256
  <2>1. sum.a \in Byte /\ sum.psw \in Byte BY <1>1, PswByteIsByte
  <2> DEFINE d == daa(sum.a, sum.psw)
  <2>2. d.a = high % 256 /\ get_status_flag(d.psw, FLAG_CY) = high \div 256
    BY <2>1, DaaAddsSixes, ZenonT(60)
  <2>3. d = r OBVIOUS
  <2> HIDE DEF d, high
  <2> QED BY <2>2, <2>3
<1>4. /\ tens \in 0..18 /\ units \in 0..18
      /\ x + y = 16 * tens + units
      /\ Decimal(x) + Decimal(y) = 10 * tens + units
  <2>1. tens \in Int /\ units \in Int BY DEF Byte
  <2> QED BY <2>1, DigitSums
<1> HIDE DEF a, cy, ac, tens, units
<1>5. x + y \notin 250..255 =>
        /\ IsDecimal(high % 256) /\ Decimal(high % 256) = (10 * tens + units) % 100
        /\ cy = 0 => high \div 256 = (10 * tens + units) \div 100
  <2>1. tens \in Int /\ 0 <= tens /\ tens <= 18 /\ units \in Int /\ 0 <= units /\ units <= 18
    BY <1>4
  <2>2. low = IF a % 16 > 9 \/ units >= 16 THEN (a + 6) % 256 ELSE a
    BY <1>2
  <2>3. low \in Int BY <1>2
  <2> HIDE DEF low
  <2>4. high \in Int BY <2>3
  <2>5. high = IF low \div 16 > 9 \/ cy = 1 THEN low + 96 ELSE low OBVIOUS
  <2> HIDE DEF high
  <2>6. SUFFICES ASSUME 16 * tens + units \notin 250..255
        PROVE  /\ IsDecimal(high % 256) /\ Decimal(high % 256) = (10 * tens + units) % 100
               /\ cy = 0 => high \div 256 = (10 * tens + units) \div 100
    BY <1>4
  <2>7. a + 256 * cy = 16 * tens + units BY <1>2, <1>4
  <2>8. AddedDigits(a, cy, tens, units) BY <1>2, <2>1, <2>7 DEF AddedDigits
  <2>9. Sixes(a, cy, units, low, high) BY <2>2, <2>5 DEF Sixes
  <2> QED BY <2>3, <2>4, <2>6, <2>8, <2>9, SixesAdjust
<1> HIDE DEF low, high
<1>6. x + y < 250 => cy = 0 /\ x + y \notin 250..255 BY <1>0, <1>2
<1> DEFINE result == high % 256   result_cy == high \div 256
<1> HIDE DEF result, result_cy
<1>7. r.a = result /\ get_status_flag(r.psw, FLAG_CY) = result_cy BY <1>3 DEF result, result_cy
<1>8. x + y \notin 250..255 =>
        /\ IsDecimal(result) /\ Decimal(result) = (10 * tens + units) % 100
        /\ cy = 0 => result_cy = (10 * tens + units) \div 100
  BY <1>5 DEF result, result_cy
<1>9. 10 * tens + units = Decimal(x) + Decimal(y) BY <1>4
<1> QED BY <1>6, <1>7, <1>8, <1>9, ZenonT(60) DEF HoldsDecimalSum

-----------------------------------------------------------------------------
(***************************************************************************)
(* No device is attached: the machine runs the program that was loaded,    *)
(* and no request ever waits.                                              *)
(***************************************************************************)
Undisturbed ==
    /\ TypeOK
    /\ program \in Programs /\ start \in program.starts
    /\ m_rom = Image(program)
    /\ ~m_interrupt.waiting

LEMMA InitUndisturbed == Init => Undisturbed
BY InitTypes DEF Init, Undisturbed

LEMMA NextUndisturbed == Undisturbed /\ [Next]_vars => Undisturbed'
<1> SUFFICES ASSUME Undisturbed, [Next]_vars PROVE Undisturbed'
    OBVIOUS
<1>1. TypeOK'
  BY NextTypes DEF Undisturbed
<1>2. CASE Next
  <2>1. UNCHANGED <<program, start, m_rom>>
    BY <1>2 DEF Next, fetch_execute_instruction
  <2>2. ~m_interrupt'.waiting
    <3>1. interrupt_taken = m_interrupt
      BY DEF Undisturbed, interrupt_taken, accepting
    <3>2. m_interrupt \in InterruptSystem
      BY DEF Undisturbed, TypeOK, CpuTypeOK
    <3>3. \/ m_interrupt' = m_interrupt
          \/ \E on \in BOOLEAN : m_interrupt' = [m_interrupt EXCEPT !.enabled = on]
      BY <1>2, <3>1 DEF Next, fetch_execute_instruction, dataHandler, interruptHandler, ei, di, hlt
    <3> QED BY <3>2, <3>3 DEF Undisturbed, InterruptSystem
  <2>3. Image(program)' = Image(program)
    BY <2>1 DEF Image
  <2> QED BY <1>1, <2>1, <2>2, <2>3 DEF Undisturbed
<1>3. CASE UNCHANGED vars
  <2>1. Image(program)' = Image(program)
    BY <1>3 DEF Image, vars
  <2> QED BY <1>1, <1>3, <2>1 DEF vars, cpuVars, busVars, Undisturbed
<1> QED BY <1>2, <1>3

\* The bytes of the code, and the HLT behind them, are what the processor fetches.
LEMMA CodeIsFetched ==
  ASSUME Undisturbed, m_pc <= Len(program.code)
  PROVE  /\ ins = IF m_pc < Len(program.code) THEN program.code[m_pc + 1] ELSE Image(program)[m_pc]
         /\ operand_pc = Wrap(m_pc + 1)
<1>1. m_pc \in Nat /\ m_pc \in Word
  BY WordIsNat DEF Undisturbed, TypeOK, CpuTypeOK
<1>2. program.code \in Seq(Byte) /\ Len(program.code) < INVADERS_ROM_SIZE
  BY ProgramAssumption DEF ProgramAssumption, Undisturbed
<1>3. Len(program.code) \in Nat
  BY <1>2
<1>4. INVADERS_ROM_SIZE \in Nat /\ INVADERS_ROM_SIZE = 2 * PAGE
  BY PageAssumption DEF PageAssumption, INVADERS_ROM_SIZE
<1>5. m_pc \in 0..INVADERS_ROM_SIZE - 1
  BY <1>1, <1>2, <1>3, <1>4
<1>6. msn(m_pc) < 2
  BY <1>1, <1>4, <1>5, BelowPage
<1>7. memory_read(m_pc) = Image(program)[m_pc]
  BY <1>6 DEF Undisturbed, memory_read, ReadMemory
<1>8. ~accepting
  BY DEF Undisturbed, accepting
<1>9. m_pc < Len(program.code) => Image(program)[m_pc] = program.code[m_pc + 1]
  BY <1>5 DEF Image
<1> QED BY <1>7, <1>8, <1>9 DEF ins, operand_pc

-----------------------------------------------------------------------------
\* An instruction with the opcode of DAA runs daa_a.
LEMMA DaaDecode ==
  ASSUME TypeOK, fetch_execute_instruction, ins = 39
  PROVE  daa_a /\ Fetched(0) /\ UNCHANGED m_halted
<1>1. /\ ins \in 0..63 /\ ins = 39 /\ ins % 8 = 7
  OBVIOUS
<1> HIDE DEF ins
<1>2. ~registerHandler
  BY <1>1 DEF registerHandler, nop, mov_rr, mov_rm, mvi_r, lxi, lda, ldax, lhld, xchg, inx_rp,
         sphl, cma_a, in_port, SSS
<1>3. ~accumulatorHandler
  BY <1>1, NotAccumulator
<1>4. ~(rotate_a \/ stc_cy \/ cmc_cy \/ inr_r \/ dad_rp)
  BY <1>1 DEF rotate_a, stc_cy, cmc_cy, inr_r, dad_rp, SSS
<1>5. ~(memoryHandler \/ out_port)
  BY <1>1 DEF memoryHandler, mov_mr, mvi_m, sta, stax, shld, inr_m, out_port
<1>6. ~stackHandler
  BY <1>1 DEF stackHandler, push_rp, push_psw, pop_rp, pop_psw, xthl
<1>7. ~branchHandler
  BY <1>1 DEF branchHandler, jmp, jmp_conditional, call, call_conditional, ret,
         ret_conditional, rst, pchl
<1>8. ~(interruptHandler \/ hlt)
  BY <1>1 DEF interruptHandler, ei, di, hlt
<1> QED BY <1>2, <1>3, <1>4, <1>5, <1>6, <1>7, <1>8
        DEF fetch_execute_instruction, dataHandler, computeHandler

\* An instruction with the opcode of HLT halts and changes nothing else.
LEMMA HltDecode ==
  ASSUME TypeOK, fetch_execute_instruction, ins = HLT
  PROVE  hlt /\ m_halted' /\ UNCHANGED <<m_regs, m_psw>>
<1>1. /\ ins = 118 /\ ins % 8 = 6 /\ (ins \div 8) % 8 = 6
  BY DEF HLT
<1> HIDE DEF ins
<1>2. ~registerHandler
  BY <1>1 DEF registerHandler, nop, mov_rr, mov_rm, mvi_r, lxi, lda, ldax, lhld, xchg, inx_rp,
         sphl, cma_a, in_port, SSS, DDD
<1>3. ~accumulatorHandler
  <2>1. ASSUME NEW n PROVE ~AluOperation(n)
    BY <1>1 DEF AluOperation
  <2> QED BY <2>1 DEF accumulatorHandler, add_a, sub_a, boolean_a, cmp_a
<1>4. ~(rotate_a \/ daa_a \/ stc_cy \/ cmc_cy \/ inr_r \/ dad_rp)
  BY <1>1 DEF rotate_a, daa_a, stc_cy, cmc_cy, inr_r, dad_rp, SSS
<1>5. ~(memoryHandler \/ out_port)
  BY <1>1 DEF memoryHandler, mov_mr, mvi_m, sta, stax, shld, inr_m, out_port
<1>6. ~stackHandler
  BY <1>1 DEF stackHandler, push_rp, push_psw, pop_rp, pop_psw, xthl
<1>7. ~branchHandler
  BY <1>1 DEF branchHandler, jmp, jmp_conditional, call, call_conditional, ret,
         ret_conditional, rst, pchl
<1>8. ~interruptHandler
  BY <1>1 DEF interruptHandler, ei, di
<1>9. hlt
  BY <1>2, <1>3, <1>4, <1>5, <1>6, <1>7, <1>8
     DEF fetch_execute_instruction, dataHandler, computeHandler
<1> QED BY <1>9 DEF hlt, controlFrame

\* ADD B adds register B, and does not halt.
LEMMA AddBStep ==
  ASSUME TypeOK, fetch_execute_instruction, ins = 128
  PROVE  /\ Assign(add(A, m_regs[REGISTER_B], m_psw, FALSE))
         /\ Fetched(0) /\ UNCHANGED m_halted
<1>1. ins = 128 /\ SSS = 0 /\ AluOperation(0) /\ 0 \in 0..7
  BY DEF SSS, DDD, AluOperation
<1>2. accumulatorHandler /\ Assign(add(A, operand, m_psw, FALSE))
  BY <1>1, AccumulatorDecode, OperationRuns
<1> HIDE DEF ins
<1>3. operand = m_regs[REGISTER_B]
  BY <1>1 DEF operand, get_register, regs_map, REGISTER_B
<1>4. ~(interruptHandler \/ hlt)
  BY <1>1 DEF interruptHandler, ei, di, hlt
<1>5. Fetched(0)
  BY <1>1, <1>2 DEF accumulatorHandler
<1> QED BY <1>2, <1>3, <1>4, <1>5 DEF fetch_execute_instruction, dataHandler

-----------------------------------------------------------------------------
\* What ADD B and DAA of a start leave.
StartSum == add(start.regs[REGISTER_A], start.regs[REGISTER_B], start.psw, FALSE)
StartDigits == daa(StartSum.a, StartSum.psw)

(***************************************************************************)
(* The run of ADD B, DAA, HLT: what the accumulator and the flags hold     *)
(* before each of its three instructions and at its end.                   *)
(***************************************************************************)
DecimalRun ==
    program.code = <<128, 39>> =>
      \/ m_pc = 0 /\ ~m_halted /\ m_regs = start.regs /\ m_psw = start.psw
      \/ m_pc = 1 /\ ~m_halted /\ A = StartSum.a /\ m_psw = StartSum.psw
      \/ (m_pc = 2 \/ m_halted) /\ A = StartDigits.a /\ m_psw = StartDigits.psw

LEMMA NextDecimalRun == Undisturbed /\ DecimalRun /\ [Next]_vars => DecimalRun'
<1> SUFFICES ASSUME Undisturbed, DecimalRun, [Next]_vars PROVE DecimalRun'
    OBVIOUS
<1>0. UNCHANGED <<program, start>>
  BY DEF Next, vars
<1> SUFFICES ASSUME program.code = <<128, 39>> PROVE DecimalRun'
  BY <1>0 DEF DecimalRun
<1>1. StartSum' = StartSum /\ StartDigits' = StartDigits
  BY <1>0 DEF StartSum, StartDigits
<1>2. CASE UNCHANGED vars
  BY <1>0, <1>1, <1>2 DEF DecimalRun, vars, cpuVars, A
<1>3. CASE Next
  <2>1. fetch_execute_instruction /\ ~m_halted /\ TypeOK
    BY <1>3 DEF Next, fetch_execute_instruction, Undisturbed
  <2>2. /\ Len(program.code) = 2 /\ program.code[1] = 128 /\ program.code[2] = 39
        /\ Wrap(0 + 1 + 0) = 1 /\ Wrap(1 + 1 + 0) = 2
    BY DEF Wrap, TwoTo16
  <2>3. CASE m_pc = 0 /\ m_regs = start.regs /\ m_psw = start.psw
    <3>1. ins = 128 /\ operand_pc = Wrap(0 + 1)
      BY <2>2, <2>3, CodeIsFetched
    <3>2. Assign(StartSum) /\ Fetched(0) /\ UNCHANGED m_halted
      BY <2>1, <2>3, <3>1, AddBStep DEF StartSum, A
    <3>3. m_pc' = 1
      BY <3>1, <3>2, <2>2 DEF Fetched, Wrap, TwoTo16
    <3>4. A' = StartSum.a /\ m_psw' = StartSum.psw
      BY <2>1, <3>2, Assigned
    <3> QED BY <1>0, <1>1, <2>1, <3>2, <3>3, <3>4 DEF DecimalRun
  <2>4. CASE m_pc = 1 /\ A = StartSum.a /\ m_psw = StartSum.psw
    <3>1. ins = 39 /\ operand_pc = Wrap(1 + 1)
      BY <2>2, <2>4, CodeIsFetched
    <3>2. Assign(StartDigits) /\ Fetched(0)
      BY <2>1, <2>4, <3>1, DaaDecode DEF daa_a, StartDigits
    <3>3. m_pc' = 2
      BY <3>1, <3>2, <2>2 DEF Fetched, Wrap, TwoTo16
    <3>4. A' = StartDigits.a /\ m_psw' = StartDigits.psw
      BY <2>1, <3>2, Assigned
    <3> QED BY <1>0, <1>1, <3>3, <3>4 DEF DecimalRun
  <2>5. CASE m_pc = 2 /\ A = StartDigits.a /\ m_psw = StartDigits.psw
    <3>1. Image(program)[2] = HLT
      <4>1. 2 \in 0..INVADERS_ROM_SIZE - 1
        <5>1. program \in Programs
          BY DEF Undisturbed
        <5>2. 2 < INVADERS_ROM_SIZE
          BY <2>2, <5>1, ProgramAssumption DEF ProgramAssumption
        <5> QED BY <5>2, PageAssumption DEF PageAssumption, INVADERS_ROM_SIZE
      <4> QED BY <2>2, <4>1 DEF Image, RoutineStart
    <3>2. ins = HLT
      BY <2>2, <2>5, <3>1, CodeIsFetched
    <3>3. m_halted' /\ UNCHANGED <<m_regs, m_psw>>
      BY <2>1, <3>2, HltDecode
    <3> QED BY <1>0, <1>1, <2>5, <3>3 DEF DecimalRun, A
  <2> QED BY <2>1, <2>3, <2>4, <2>5 DEF DecimalRun
<1> QED BY <1>2, <1>3

(***************************************************************************)
(* Every run of ADD B and DAA ends with the digits of the decimal sum, for *)
(* all bytes and flags it can start with (add and daa in cpu.cpp).         *)
(***************************************************************************)
THEOREM ProgramsAddDecimals == Spec => []DecimalSum
<1>1. Init => Undisturbed /\ DecimalRun
  BY InitUndisturbed DEF Init, DecimalRun
<1>2. Undisturbed /\ DecimalRun /\ [Next]_vars => (Undisturbed /\ DecimalRun)'
  BY NextUndisturbed, NextDecimalRun
<1>3. ASSUME Undisturbed, DecimalRun, m_halted, program.code = <<128, 39>>,
             IsDecimal(start.regs[REGISTER_A]), IsDecimal(start.regs[REGISTER_B])
      PROVE  LET x == start.regs[REGISTER_A]
                 y == start.regs[REGISTER_B]
                 sum == Decimal(x) + Decimal(y)
             IN  /\ x + y \notin 250..255 => IsDecimal(A) /\ Decimal(A) = sum % 100
                 /\ x + y < 250 => get_status_flag(m_psw, FLAG_CY) = sum \div 100
  <2> DEFINE x == start.regs[REGISTER_A]
             y == start.regs[REGISTER_B]
  <2>1. x \in Byte /\ y \in Byte /\ start.psw \in Byte
    <3>1. start.regs \in [0..6 -> Byte] /\ start.psw \in PswByte
      BY <1>3, ProgramAssumption DEF ProgramAssumption, Undisturbed
    <3> QED BY <3>1, PswByteIsByte DEF REGISTER_A, REGISTER_B
  <2>2. A = StartDigits.a /\ m_psw = StartDigits.psw
    BY <1>3 DEF DecimalRun
  <2>3. IsDecimal(x) /\ IsDecimal(y)
    BY <1>3
  <2>4. StartSum = add(x, y, start.psw, FALSE) /\ StartDigits = daa(StartSum.a, StartSum.psw)
    BY DEF StartSum, StartDigits
  <2> HIDE DEF x, y
  <2>5. HoldsDecimalSum(x, y, StartDigits.a, StartDigits.psw)
    BY <2>1, <2>3, <2>4, DaaOfDecimalSum
  <2> QED BY <2>2, <2>5 DEF x, y, HoldsDecimalSum
<1>4. Undisturbed /\ DecimalRun => DecimalSum
  BY <1>3 DEF DecimalSum
<1> QED BY <1>1, <1>2, <1>4, PTL DEF Spec

-----------------------------------------------------------------------------
\* Two steps of a program counter are one.
LEMMA WrapAdds == ASSUME NEW x \in Int, NEW m \in Int, NEW n \in Int
                  PROVE  Wrap(Wrap(x + m) + n) = Wrap(x + (m + n))
<1>1. (((x + m) % 65536) + n) % 65536 = (x + (m + n)) % 65536
  <2> DEFINE q == (x + m) \div 65536   r == (x + m) % 65536
  <2>1. q \in Int /\ r \in Int /\ x + m = 65536 * q + r
    OBVIOUS
  <2> HIDE DEF q, r
  <2>2. x + (m + n) = 65536 * q + (r + n)
    BY <2>1
  <2>3. (65536 * q + (r + n)) % 65536 = (r + n) % 65536
    BY <2>1
  <2>4. (r + n) % 65536 = (x + (m + n)) % 65536
    BY <2>2, <2>3
  <2> QED BY <2>4 DEF r
<1> QED BY <1>1 DEF Wrap, TwoTo16

\* What a handler that does not branch fetches is what the disassembler takes
\* for operands: registers only.
LEMMA RegisterLength ==
  ASSUME TypeOK, registerHandler
  PROVE  Fetched(byte_count(ins) - 1)
<1>1. ins \in 0..255
  BY InstructionType DEF Byte
<1> HIDE DEF ins
<1>2. ASSUME nop \/ mov_rr \/ mov_rm \/ ldax \/ xchg \/ inx_rp \/ sphl \/ cma_a
      PROVE  byte_count(ins) = 1 /\ Fetched(0)
  <2>1. \/ ins \in {0, 8, 16, 24, 32, 40, 48, 56, 203, 217, 221, 237, 253}
        \/ ins \in 64..127 \/ ins \in {10, 26} \/ ins = 235
        \/ ins \in {3, 19, 35, 51, 11, 27, 43, 59} \/ ins = 249 \/ ins = 47
    BY <1>2 DEF nop, mov_rr, mov_rm, ldax, xchg, inx_rp, sphl, cma_a
  <2>2. byte_count(ins) = 1
    BY <1>1, <2>1 DEF byte_count
  <2> QED BY <1>2, <2>2 DEF nop, mov_rr, mov_rm, ldax, xchg, inx_rp, sphl, cma_a
<1>3. ASSUME mvi_r \/ in_port PROVE byte_count(ins) = 2 /\ Fetched(1)
  <2>1. (ins \in 0..63 /\ ins % 8 = 6) \/ ins = 219
    BY <1>3 DEF mvi_r, in_port, SSS
  <2>2. byte_count(ins) = 2
    BY <1>1, <2>1 DEF byte_count
  <2> QED BY <1>3, <2>2 DEF mvi_r, in_port
<1>4. ASSUME lxi \/ lda \/ lhld PROVE byte_count(ins) = 3 /\ Fetched(2)
  BY <1>4 DEF lxi, lda, lhld, byte_count
<1>5. 1 - 1 = 0 /\ 2 - 1 = 1 /\ 3 - 1 = 2
  OBVIOUS
<1> QED BY <1>2, <1>3, <1>4, <1>5 DEF registerHandler

\* Handlers that compute; 222 is SBI.
LEMMA ComputeLength ==
  ASSUME TypeOK, computeHandler, ins # 222
  PROVE  Fetched(byte_count(ins) - 1)
<1>1. ins \in 0..255
  BY InstructionType DEF Byte
<1> HIDE DEF ins
<1>2. ASSUME accumulatorHandler
      PROVE  byte_count(ins) - 1 = IF ins >= 192 THEN 1 ELSE 0
  <2>1. PICK n : AluOperation(n)
    BY <1>2 DEF accumulatorHandler, add_a, sub_a, boolean_a, cmp_a
  <2>2. ins \in 128..191 \/ (ins >= 192 /\ ins % 8 = 6)
    BY <2>1 DEF AluOperation, SSS
  <2>3. CASE ins \in 128..191
    <3>1. byte_count(ins) = 1
      BY <2>3 DEF byte_count
    <3> QED BY <2>3, <3>1
  <2>4. CASE ins >= 192 /\ ins % 8 = 6
    <3>1. ins \in {198, 206, 214, 230, 238, 246, 254}
      BY <1>1, <2>4
    <3>2. byte_count(ins) = 2
      BY <3>1 DEF byte_count
    <3> QED BY <2>4, <3>2
  <2> QED BY <2>2, <2>3, <2>4
<1>3. ASSUME rotate_a \/ daa_a \/ stc_cy \/ cmc_cy \/ inr_r \/ dad_rp
      PROVE  byte_count(ins) - 1 = 0
  <2>1. \/ ins \in {7, 23, 15, 31, 39, 55, 63, 9, 25, 41, 57}
        \/ ins \in 0..63 /\ ins % 8 \in {4, 5}
    BY <1>3 DEF rotate_a, daa_a, stc_cy, cmc_cy, inr_r, dad_rp, SSS
  <2>2. byte_count(ins) = 1
    BY <1>1, <2>1 DEF byte_count
  <2> QED BY <2>2
<1> QED BY <1>2, <1>3 DEF computeHandler, accumulatorHandler

\* Handlers that write memory or a port.
LEMMA MemoryLength ==
  ASSUME TypeOK, memoryHandler \/ out_port
  PROVE  Fetched(byte_count(ins) - 1)
<1>1. ins \in 0..255
  BY InstructionType DEF Byte
<1> HIDE DEF ins
<1>2. ASSUME mov_mr \/ stax \/ inr_m PROVE byte_count(ins) = 1 /\ Fetched(0)
  <2>1. ins \in 112..119 \/ ins \in {2, 18, 52, 53}
    BY <1>2 DEF mov_mr, stax, inr_m
  <2>2. byte_count(ins) = 1
    BY <1>1, <2>1 DEF byte_count
  <2> QED BY <1>2, <2>2 DEF mov_mr, stax, inr_m
<1>3. ASSUME mvi_m \/ out_port PROVE byte_count(ins) = 2 /\ Fetched(1)
  BY <1>3 DEF mvi_m, out_port, byte_count
<1>4. ASSUME sta \/ shld PROVE byte_count(ins) = 3 /\ Fetched(2)
  BY <1>4 DEF sta, shld, byte_count
<1>5. 1 - 1 = 0 /\ 2 - 1 = 1 /\ 3 - 1 = 2
  OBVIOUS
<1> QED BY <1>2, <1>3, <1>4, <1>5 DEF memoryHandler

\* The stack instructions have no operand.
LEMMA StackLength ==
  ASSUME TypeOK, stackHandler
  PROVE  Fetched(byte_count(ins) - 1)
<1>1. ins \in {197, 213, 229, 245, 193, 209, 225, 241, 227}
  BY DEF stackHandler, push_rp, push_psw, pop_rp, pop_psw, xthl
<1> HIDE DEF ins
<1>2. byte_count(ins) = 1
  BY <1>1 DEF byte_count
<1> QED BY <1>2 DEF stackHandler

\* A conditional branch that is not taken has been fetched whole.
LEMMA NotTakenLength ==
  ASSUME TypeOK, branchHandler, ~branching
  PROVE  Fetched(byte_count(ins) - 1)
<1>1. ins \in 0..255
  BY InstructionType DEF Byte
<1> HIDE DEF ins
<1>2. ~(jmp \/ call \/ ret \/ rst \/ pchl)
  BY DEF branching, calling, jmp, call, ret, rst, pchl
<1>3. ASSUME jmp_conditional \/ call_conditional PROVE byte_count(ins) = 3 /\ Fetched(2)
  <2>1. ins >= 192 /\ ins % 8 \in {2, 4} /\ ~condition_met
    BY <1>3 DEF jmp_conditional, call_conditional, branching, calling, SSS
  <2>2. byte_count(ins) = 3
    BY <2>1 DEF byte_count
  <2> QED BY <1>3, <2>1, <2>2 DEF jmp_conditional, call_conditional, NoBranch
<1>4. ASSUME ret_conditional PROVE byte_count(ins) = 1 /\ Fetched(0)
  <2>1. ins >= 192 /\ ins % 8 = 0 /\ ~condition_met
    BY <1>4 DEF ret_conditional, branching, SSS
  <2>2. byte_count(ins) = 1
    BY <1>1, <2>1 DEF byte_count
  <2> QED BY <1>4, <2>1, <2>2 DEF ret_conditional, NoBranch
<1>5. 1 - 1 = 0 /\ 3 - 1 = 2
  OBVIOUS
<1> QED BY <1>2, <1>3, <1>4, <1>5 DEF branchHandler

\* EI, DI and HLT have no operand.
LEMMA ControlLength ==
  ASSUME TypeOK, interruptHandler \/ hlt
  PROVE  Fetched(byte_count(ins) - 1)
<1>1. ins \in {251, 243, 118}
  BY DEF interruptHandler, ei, di, hlt
<1> HIDE DEF ins
<1>2. byte_count(ins) - 1 = 0
  BY <1>1 DEF byte_count
<1> QED BY <1>2 DEF interruptHandler, hlt, controlFrame

\* A step that does not branch goes to the next row.
LEMMA StepLength ==
  ASSUME TypeOK, ~accepting, fetch_execute_instruction, ins # 222, ~branching
  PROVE  m_pc' = next_row
<1>1. Fetched(byte_count(ins) - 1)
  BY RegisterLength, ComputeLength, MemoryLength, StackLength, NotTakenLength, ControlLength
     DEF fetch_execute_instruction, dataHandler
<1>2. m_pc \in Int /\ byte_count(ins) \in Int
  BY WordIsNat DEF TypeOK, CpuTypeOK, byte_count
<1> DEFINE n == byte_count(ins)
<1> HIDE DEF n
<1>3. m_pc' = Wrap(Wrap(m_pc + 1) + (n - 1)) /\ n \in Int
  BY <1>1, <1>2 DEF Fetched, operand_pc, n
<1>4. Wrap(Wrap(m_pc + 1) + (n - 1)) = Wrap(m_pc + (1 + (n - 1)))
  BY <1>2, <1>3, WrapAdds
<1>5. 1 + (n - 1) = n
  BY <1>3
<1> QED BY <1>3, <1>4, <1>5 DEF next_row, n

\* An instruction with an opcode of a call runs CallTo with as many operands as
\* the disassembler gives it.
LEMMA CallDecode ==
  ASSUME TypeOK, fetch_execute_instruction, calling
  PROVE  \E addr : CallTo(addr, byte_count(ins) - 1)
<1>1. ins \in 0..255
  BY InstructionType DEF Byte
<1>2. CASE (ins = 205 \/ (ins >= 192 /\ SSS = 4)) /\ CallTo(d16, 2)
  <2>1. byte_count(ins) - 1 = 2
    BY <1>1, <1>2 DEF byte_count, SSS
  <2> QED BY <1>2, <2>1
<1>3. CASE ins >= 192 /\ SSS = 7 /\ CallTo(8 * DDD, 0)
  <2>1. byte_count(ins) - 1 = 0
    BY <1>1, <1>3 DEF byte_count, SSS
  <2> QED BY <1>3, <2>1
<1> QED BY <1>2, <1>3, CallingStep

\* A call with its stack in the RAM leaves the address of the next row on it.
LEMMA CallLeavesNextRow ==
  ASSUME TypeOK, ~accepting, fetch_execute_instruction, calling, StackWritable
  PROVE  MakeWord(top_low, top_high)' = next_row
<1> DEFINE n == byte_count(ins)
           return_pc == Wrap(operand_pc + (n - 1))
<1>1. PICK addr : CallTo(addr, n - 1)
  BY CallDecode
<1>2. n \in Int
  BY DEF byte_count
<1> HIDE DEF n
<1>3. m_pc \in Int /\ operand_pc \in Int
  BY InstructionType, WordIsNat DEF TypeOK, CpuTypeOK
<1>4. return_pc \in Word
  BY <1>2, <1>3, WrapType
<1>5. Push(LowByte(return_pc), HighByte(return_pc))
  BY <1>1 DEF CallTo
<1>6. return_pc = next_row
  <2>1. return_pc = Wrap(Wrap(m_pc + 1) + (n - 1))
    BY DEF operand_pc
  <2>2. Wrap(Wrap(m_pc + 1) + (n - 1)) = Wrap(m_pc + (1 + (n - 1)))
    BY <1>2, <1>3, WrapAdds
  <2>3. 1 + (n - 1) = n
    BY <1>2
  <2> QED BY <2>1, <2>2, <2>3 DEF next_row, n
<1> HIDE DEF return_pc
<1>7. LowByte(return_pc) \in Byte /\ HighByte(return_pc) \in Byte
      /\ MakeWord(LowByte(return_pc), HighByte(return_pc)) = return_pc
  BY <1>4, WordParts
<1>8. m_rom' = m_rom
  BY DEF fetch_execute_instruction
<1>9. top_low' = LowByte(return_pc) /\ top_high' = HighByte(return_pc)
  BY <1>5, <1>7, <1>8, PushedWordIsOnTop
<1>10. MakeWord(top_low, top_high)' = MakeWord(top_low', top_high')
  BY DEF MakeWord
<1> QED BY <1>6, <1>7, <1>9, <1>10

(***************************************************************************)
(* In every program the processor fetches the operands that the            *)
(* disassembler lists, for every instruction but SBI: a step that does not *)
(* branch goes to the next row and a call returns to it (the handlers of   *)
(* cpu.cpp, and the switch of disassemble_rom in disasm.cpp).              *)
(***************************************************************************)
THEOREM ProgramsStepAsListed == Spec => StepsAsListed
<1> DEFINE Listed ==
      ins # 222 =>
         /\ ~branching => m_pc' = next_row
         /\ calling /\ StackWritable => MakeWord(top_low, top_high)' = next_row
<1>1. ASSUME Undisturbed, Next PROVE Listed
  <2>1. TypeOK /\ ~accepting /\ fetch_execute_instruction
    BY <1>1 DEF Undisturbed, Next, accepting
  <2> QED BY <2>1, StepLength, CallLeavesNextRow
<1>2. Undisturbed /\ [Next]_vars => [Listed]_vars
  BY <1>1
<1>3. Spec => []Undisturbed
  BY InitUndisturbed, NextUndisturbed, PTL DEF Spec
<1> QED BY <1>2, <1>3, PTL DEF Spec, StepsAsListed
-----------------------------------------------------------------------------
(***************************************************************************)
(* The rows of the listing: disassemble_rom's loop finds with each row the *)
(* one behind it.  The loop is a recursive function; that it has a value   *)
(* at all, and what it is, is an induction from the end of the ROM.        *)
(***************************************************************************)
\* A set of numbers up to n that holds each one whose successors it holds is full.
LEMMA DownwardInduction ==
  ASSUME NEW n \in Nat, NEW S,
         \A k \in 0..n : (\A j \in k + 1..n : j \in S) => k \in S
  PROVE  \A k \in 0..n : k \in S
<1> DEFINE Less == OpToRel(<, Nat)
           Missing == {m \in 0..n : n - m \notin S}
<1>1. IsWellFoundedOn(Less, Nat)
  BY NatLessThanWellFounded
<1>2. \A x, y \in Nat : x < y => <<x, y>> \in Less
  BY DEF OpToRel
<1> HIDE DEF Less
<1>3. SUFFICES ASSUME Missing # {} PROVE FALSE
  <2>1. ASSUME NEW k \in 0..n PROVE k \in S
    <3>1. n - k \in 0..n /\ n - (n - k) = k
      OBVIOUS
    <3> QED BY <1>3, <3>1
  <2> QED BY <2>1
<1>4. PICK m \in Missing : \A o \in Missing : ~(<<o, m>> \in Less)
  <2>1. Missing \subseteq Nat
    OBVIOUS
  <2> HIDE DEF Missing
  <2> QED BY <1>1, <1>3, <2>1, WFMin
<1>5. m \in 0..n /\ n - m \notin S /\ n - m \in 0..n
  OBVIOUS
<1>6. ASSUME NEW j \in (n - m) + 1..n PROVE j \in S
  <2>1. n - j \in 0..n /\ n - (n - j) = j /\ n - j \in Nat /\ m \in Nat /\ n - j < m
    BY <1>5
  <2>2. n - j \notin Missing
    BY <1>2, <1>4, <2>1
  <2> QED BY <2>1, <2>2
<1> QED BY <1>5, <1>6

LEMMA ByteCountType == \A op : byte_count(op) \in 1..3
  BY DEF byte_count

\* The loop of disassemble_rom from an address, as a recursive function has it.
RowsStep(rom, n, f, pc) ==
    IF pc < n THEN {pc} \cup f[pc + byte_count(rom[pc])] ELSE {}
IsRowsFrom(rom, n, f) == f = [pc \in 0..n + 2 |-> RowsStep(rom, n, f, pc)]

\* The recursion has a solution from every address on.
SolvedFrom(rom, n) ==
    {k \in 0..n : \E f : f = [pc \in k..n + 2 |-> RowsStep(rom, n, f, pc)]}

LEMMA RowsSolved ==
  ASSUME NEW n \in Nat, NEW rom
  PROVE  \E f : IsRowsFrom(rom, n, f)
<1> DEFINE S == SolvedFrom(rom, n)
<1>1. ASSUME NEW k \in 0..n, \A j \in k + 1..n : j \in S
      PROVE  k \in S
  <2>1. CASE k = n
    <3> DEFINE f == [pc \in n..n + 2 |-> {}]
    <3>1. \A pc \in n..n + 2 : RowsStep(rom, n, f, pc) = {}
      BY DEF RowsStep
    <3>2. f = [pc \in k..n + 2 |-> RowsStep(rom, n, f, pc)]
      BY <2>1, <3>1
    <3> QED BY <3>2 DEF SolvedFrom
  <2>2. CASE k < n
    <3>1. PICK f : f = [pc \in k + 1..n + 2 |-> RowsStep(rom, n, f, pc)]
      BY <1>1, <2>2 DEF SolvedFrom
    <3> DEFINE g == [pc \in k..n + 2 |-> IF pc = k THEN RowsStep(rom, n, f, k) ELSE f[pc]]
    <3>2. ASSUME NEW pc \in k..n + 2 PROVE g[pc] = RowsStep(rom, n, g, pc)
      <4> DEFINE next == pc + byte_count(rom[pc])
      <4>1. byte_count(rom[pc]) \in 1..3
        BY ByteCountType
      <4>2. pc < n => next \in k + 1..n + 2
        BY <4>1, <1>1
      <4>3. pc < n => g[next] = f[next]
        BY <4>2, <1>1
      <4>4. RowsStep(rom, n, g, pc) = RowsStep(rom, n, f, pc)
        BY <4>3 DEF RowsStep
      <4>5. g[pc] = RowsStep(rom, n, f, pc)
        <5>1. CASE pc = k BY <5>1
        <5>2. CASE pc # k
          <6>1. pc \in k + 1..n + 2 BY <5>2, <1>1
          <6>2. f[pc] = RowsStep(rom, n, f, pc) BY <3>1, <6>1
          <6> QED BY <5>2, <6>2
        <5> QED BY <5>1, <5>2
      <4> QED BY <4>4, <4>5
    <3>3. g = [pc \in k..n + 2 |-> RowsStep(rom, n, g, pc)]
      <4> DEFINE h == [pc \in k..n + 2 |-> RowsStep(rom, n, g, pc)]
      <4>1. \A pc \in k..n + 2 : g[pc] = h[pc] BY <3>2
      <4> QED BY <4>1
    <3> HIDE DEF g
    <3> QED BY <3>3 DEF SolvedFrom
  <2> QED BY <2>1, <2>2, <1>1
<1>2. 0 \in S
  <2> HIDE DEF S
  <2>1. \A k \in 0..n : (\A j \in k + 1..n : j \in S) => k \in S
    BY <1>1
  <2>2. \A k \in 0..n : k \in S
    BY <2>1, DownwardInduction
  <2> QED BY <2>2
<1> QED BY <1>2 DEF SolvedFrom, IsRowsFrom

\* A set of rows that goes on behind each of its instructions.
GoesOn(rom, n, rows) ==
    \A pc \in rows : /\ pc \in 0..n - 1
                     /\ LET next == pc + byte_count(rom[pc])
                        IN  next < n => next \in rows

LEMMA RowsGoOn ==
  ASSUME NEW n \in Nat \ {0}, NEW rom
  PROVE  0 \in disassemble_rom(rom, n) /\ GoesOn(rom, n, disassemble_rom(rom, n))
<1> DEFINE f == CHOOSE f : IsRowsFrom(rom, n, f)
<1>1. IsRowsFrom(rom, n, f)
  BY RowsSolved
<1>2. disassemble_rom(rom, n) = f[0]
  BY DEF disassemble_rom, IsRowsFrom, RowsStep
<1> HIDE DEF f
<1> DEFINE S == {pc \in 0..n : GoesOn(rom, n, f[pc]) /\ (pc < n => pc \in f[pc])}
<1>3. /\ \A pc \in n..n + 2 : f[pc] = {}
      /\ \A pc \in 0..n - 1 : f[pc] = {pc} \cup f[pc + byte_count(rom[pc])]
  <2>1. \A pc \in 0..n + 2 : f[pc] = RowsStep(rom, n, f, pc)
    BY <1>1 DEF IsRowsFrom
  <2>2. ASSUME NEW pc \in n..n + 2 PROVE f[pc] = {}
    <3>1. pc \in 0..n + 2 /\ ~(pc < n) OBVIOUS
    <3> QED BY <2>1, <3>1 DEF RowsStep
  <2>3. ASSUME NEW pc \in 0..n - 1 PROVE f[pc] = {pc} \cup f[pc + byte_count(rom[pc])]
    <3>1. pc \in 0..n + 2 /\ pc < n OBVIOUS
    <3> QED BY <2>1, <3>1 DEF RowsStep
  <2> QED BY <2>2, <2>3
<1>4. ASSUME NEW k \in 0..n, \A j \in k + 1..n : j \in S
      PROVE  k \in S
  <2> DEFINE next == k + byte_count(rom[k])
  <2>1. CASE k = n
    <3>1. f[k] = {}
      BY <1>3, <2>1
    <3> QED BY <2>1, <3>1 DEF GoesOn
  <2>2. CASE k < n
    <3>1. next \in k + 1..n + 2 /\ f[k] = {k} \cup f[next]
      <4>1. byte_count(rom[k]) \in 1..3 BY ByteCountType
      <4>2. k \in 0..n - 1 BY <2>2
      <4> QED BY <1>3, <4>1, <4>2
    <3>2. GoesOn(rom, n, f[next]) /\ (next < n => next \in f[next])
      <4>1. CASE next \in k + 1..n
        BY <1>4, <4>1
      <4>2. CASE next \in n..n + 2
        <5>1. f[next] = {}
          BY <1>3, <4>2
        <5> QED BY <4>2, <5>1 DEF GoesOn
      <4> QED BY <3>1, <4>1, <4>2
    <3>3. GoesOn(rom, n, f[k])
      BY <2>2, <3>1, <3>2 DEF GoesOn
    <3> QED BY <3>1, <3>3
  <2> QED BY <2>1, <2>2, <1>4
<1>5. 0 \in S
  <2> HIDE DEF S
  <2>1. \A k \in 0..n : (\A j \in k + 1..n : j \in S) => k \in S
    BY <1>4
  <2>2. \A k \in 0..n : k \in S
    BY <2>1, DownwardInduction
  <2> QED BY <2>2
<1> QED BY <1>2, <1>5

\* The processor reads the opcode of a row in the ROM.
LEMMA RowIsFetched ==
  ASSUME Undisturbed, m_pc \in 0..INVADERS_ROM_SIZE - 1
  PROVE  ins = m_rom[m_pc]
<1>1. m_pc \in Nat /\ m_pc \in Word
  BY WordIsNat DEF Undisturbed, TypeOK, CpuTypeOK
<1>2. INVADERS_ROM_SIZE \in Nat /\ INVADERS_ROM_SIZE = 2 * PAGE
  BY PageAssumption DEF PageAssumption, INVADERS_ROM_SIZE
<1>3. msn(m_pc) < 2
  BY <1>1, <1>2, BelowPage
<1>4. memory_read(m_pc) = m_rom[m_pc]
  BY <1>3 DEF memory_read, ReadMemory
<1> QED BY <1>4 DEF ins, accepting, Undisturbed

\* A step in the order of the rows goes from a row to a row.
LEMMA StepStaysListed ==
  ASSUME Undisturbed, InstructionListed, Next, ~out_of_order
  PROVE  m_pc' \in Rows'
<1>1. TypeOK /\ ~accepting /\ fetch_execute_instruction /\ m_rom' = m_rom /\ ~m_halted
  BY DEF Undisturbed, Next, accepting, fetch_execute_instruction
<1>2. INVADERS_ROM_SIZE \in Nat \ {0}
  BY PageAssumption DEF PageAssumption, INVADERS_ROM_SIZE
<1>3. m_pc' = next_row /\ next_row \in m_pc..INVADERS_ROM_SIZE - 1
  BY <1>1, StepLength DEF out_of_order
<1>4. m_pc \in Rows
  BY <1>1 DEF InstructionListed
<1>5. /\ m_pc \in 0..INVADERS_ROM_SIZE - 1
      /\ m_pc + byte_count(m_rom[m_pc]) < INVADERS_ROM_SIZE =>
           m_pc + byte_count(m_rom[m_pc]) \in Rows
  BY <1>2, <1>4, RowsGoOn DEF GoesOn, Rows
<1>6. next_row = Wrap(m_pc + byte_count(m_rom[m_pc]))
  BY <1>5, RowIsFetched DEF next_row
<1> DEFINE n == byte_count(m_rom[m_pc])
<1>7. n \in 1..3
  BY ByteCountType
<1> HIDE DEF n
<1>8. m_pc \in Int /\ 0 <= m_pc /\ m_pc < 65536
  BY <1>1, WordRange DEF TypeOK, CpuTypeOK
<1>9. next_row = m_pc + n
  <2>1. next_row = (m_pc + n) % 65536
    BY <1>6 DEF Wrap, TwoTo16, n
  <2>2. next_row >= m_pc
    BY <1>3, <1>8
  <2>3. CASE m_pc + n < 65536
    BY <1>7, <1>8, <2>1, <2>3
  <2>4. CASE m_pc + n >= 65536
    <3>1. next_row \in 0..2 /\ m_pc \in 65533..65535
      BY <1>7, <1>8, <2>1, <2>4
    <3> HIDE DEF next_row
    <3> QED BY <2>2, <3>1
  <2> QED BY <1>7, <1>8, <2>3, <2>4
<1>10. next_row \in Rows
  BY <1>2, <1>3, <1>5, <1>8, <1>9 DEF n
<1> QED BY <1>1, <1>3, <1>10 DEF Rows

(***************************************************************************)
(* In every program the listing and the processor part only where a branch *)
(* goes into the middle of a row, behind an SBI, or at the end of the ROM: *)
(* the next instruction is a row all through the run exactly if every such *)
(* step goes to a row (disassemble_rom in disasm.cpp, and the handlers of  *)
(* cpu.cpp).                                                               *)
(***************************************************************************)
THEOREM ListedIfBranchesAre == Spec => (LandsOnRows <=> []InstructionListed)
<1>1. Init => InstructionListed
  <2>1. INVADERS_ROM_SIZE \in Nat \ {0}
    BY PageAssumption DEF PageAssumption, INVADERS_ROM_SIZE
  <2>2. 0 \in Rows
    BY <2>1, RowsGoOn DEF Rows
  <2> QED BY <2>2 DEF Init, InstructionListed
<1> DEFINE Lands == out_of_order /\ ~m_halted' => m_pc' \in Rows'
<1>2. ASSUME Undisturbed, InstructionListed, [Next]_vars, [Lands]_vars
      PROVE  InstructionListed'
  <2>1. CASE UNCHANGED vars
    BY <1>2, <2>1 DEF vars, cpuVars, busVars, InstructionListed, Rows
  <2>2. CASE Next /\ Lands
    <3>1. CASE out_of_order
      BY <2>2, <3>1 DEF InstructionListed
    <3>2. CASE ~out_of_order
      BY <1>2, <2>2, <3>2, StepStaysListed DEF InstructionListed
    <3> QED BY <3>1, <3>2
  <2> QED BY <1>2, <2>1, <2>2
<1>3. Undisturbed /\ InstructionListed' => [Lands]_vars
  BY DEF InstructionListed
<1>4. Spec => []Undisturbed
  BY InitUndisturbed, NextUndisturbed, PTL DEF Spec
<1> HIDE DEF Lands
<1>5. LandsOnRows <=> [][Lands]_vars
  BY DEF LandsOnRows, Lands
<1> QED BY <1>1, <1>2, <1>3, <1>4, <1>5, PTL DEF Spec

-----------------------------------------------------------------------------
(***************************************************************************)
(* Programs of any length whose second half undoes the first, the last     *)
(* instruction first.  The bytes that can be undone are those of NOP,      *)
(* XCHG, CMA, CMC, RAL and RAR, INX and DCX of BC, DE and HL, and PUSH,    *)
(* which a POP undoes.                                                     *)
(***************************************************************************)
Steps == {3, 19, 35}
BackSteps == {11, 27, 43}
Quiet == {0, 8, 16, 24, 32, 40, 48, 56, 235, 47, 63, 23, 31} \cup Steps \cup BackSteps
Saves == {197, 213, 229, 245}

Opposite(op) ==
    IF op \in Steps THEN op + 8
    ELSE IF op \in BackSteps THEN op - 8
    ELSE IF op = 23 THEN 31
    ELSE IF op = 31 THEN 23
    ELSE IF op \in Saves THEN op - 4
    ELSE op

\* What the quiet ones leave in the registers and in the status word.
PairStepped(regs, rp, decrement) ==
    LET i == regpairs_map(rp)
        word == inx(MakeWord(regs[i + 1], regs[i]), decrement)
    IN  [regs EXCEPT ![i] = HighByte(word), ![i + 1] = LowByte(word)]

RegsAfter(op, psw, regs) ==
    IF op = 235 THEN [regs EXCEPT ![3] = regs[5], ![5] = regs[3], ![4] = regs[6], ![6] = regs[4]]
    ELSE IF op = 47 THEN [regs EXCEPT ![0] = cma(regs[0])]
    ELSE IF op = 23 THEN [regs EXCEPT ![0] = rotate_left(regs[0], psw, TRUE).a]
    ELSE IF op = 31 THEN [regs EXCEPT ![0] = rotate_right(regs[0], psw, TRUE).a]
    ELSE IF op \in Steps THEN PairStepped(regs, op \div 16, FALSE)
    ELSE IF op \in BackSteps THEN PairStepped(regs, op \div 16, TRUE)
    ELSE regs

PswAfter(op, psw, regs) ==
    IF op = 63 THEN cmc(psw)
    ELSE IF op = 23 THEN rotate_left(regs[0], psw, TRUE).psw
    ELSE IF op = 31 THEN rotate_right(regs[0], psw, TRUE).psw
    ELSE psw

\* A pair counted up and down again is the pair it was.
LEMMA PairStepsUndone ==
  ASSUME NEW regs \in RegisterFile, NEW rp \in 0..2, NEW decrement \in BOOLEAN
  PROVE  /\ PairStepped(regs, rp, decrement) \in RegisterFile
         /\ PairStepped(PairStepped(regs, rp, decrement), rp, ~decrement) = regs
<1> DEFINE i == regpairs_map(rp)
           word == MakeWord(regs[i + 1], regs[i])
           next == inx(word, decrement)
           after == PairStepped(regs, rp, decrement)
<1>1. i \in 0..6 /\ i + 1 \in 0..6 /\ i # i + 1
  BY DEF regpairs_map
<1>2. regs[i] \in Byte /\ regs[i + 1] \in Byte /\ word \in Word
  <2> HIDE DEF i
  <2>1. regs[i] \in Byte /\ regs[i + 1] \in Byte
    BY <1>1 DEF RegisterFile
  <2> QED BY <2>1, MakeWordType
<1>3. LowByte(word) = regs[i + 1] /\ HighByte(word) = regs[i]
  <2> DEFINE low == regs[i + 1]   high == regs[i]
  <2>1. low \in 0..255 /\ high \in 0..255
    BY <1>2 DEF Byte
  <2>2. word = 256 * high + low
    BY DEF MakeWord
  <2> HIDE DEF low, high, word
  <2>3. (256 * high + low) % 256 = low /\ (256 * high + low) \div 256 = high
    BY <2>1
  <2> QED BY <2>2, <2>3 DEF LowByte, HighByte, low, high
<1> HIDE DEF word
<1>4. next \in Word /\ inx(next, ~decrement) = word
  <2>1. inx(word, FALSE) = Wrap(word + 1) /\ inx(word, TRUE) = Wrap(word - 1)
    BY <1>2, InxWraps
  <2>2. next \in Word
    BY <1>2, InxIsIncrement
  <2>3. inx(next, FALSE) = Wrap(next + 1) /\ inx(next, TRUE) = Wrap(next - 1)
    BY <2>2, InxWraps
  <2>4. Wrap(Wrap(word + 1) - 1) = word /\ Wrap(Wrap(word - 1) + 1) = word
    <3>1. word \in Int /\ 0 <= word /\ word < 65536
      BY <1>2, WordRange
    <3>2. (((word + 1) % 65536) - 1) % 65536 = word /\ (((word - 1) % 65536) + 1) % 65536 = word
      BY <3>1
    <3> QED BY <3>2 DEF Wrap, TwoTo16
  <2> QED BY <2>1, <2>2, <2>3, <2>4
<1>5. after = [regs EXCEPT ![i] = HighByte(next), ![i + 1] = LowByte(next)]
  BY DEF PairStepped, word
<1>6. LowByte(next) \in Byte /\ HighByte(next) \in Byte /\ MakeWord(LowByte(next), HighByte(next)) = next
  BY <1>4, WordParts
<1> HIDE DEF i, next, after
<1>7. after \in RegisterFile /\ after[i] = HighByte(next) /\ after[i + 1] = LowByte(next)
  BY <1>1, <1>5, <1>6 DEF RegisterFile
<1>8. PairStepped(after, rp, ~decrement) =
        [after EXCEPT ![i] = HighByte(word), ![i + 1] = LowByte(word)]
  BY <1>4, <1>6, <1>7 DEF PairStepped, i
<1>9. [after EXCEPT ![i] = HighByte(word), ![i + 1] = LowByte(word)] = regs
  BY <1>1, <1>3, <1>5, <1>6 DEF RegisterFile
<1> QED BY <1>7, <1>8, <1>9 DEF after

\* A carry flag that is changed and set to what it was leaves the status word.
LEMMA CarrySetBack ==
  ASSUME NEW psw \in PswByte, NEW is \in Bool01
  PROVE  /\ get_status_flag(psw, FLAG_CY) \in Bool01
         /\ update_flag(psw, FLAG_CY, is) \in PswByte
         /\ get_status_flag(update_flag(psw, FLAG_CY, is), FLAG_CY) = is
         /\ update_flag(update_flag(psw, FLAG_CY, is), FLAG_CY, get_status_flag(psw, FLAG_CY)) = psw
<1> DEFINE cy == get_status_flag(psw, FLAG_CY)   new == update_flag(psw, FLAG_CY, is)
<1>1. psw \in Byte /\ cy \in Bool01 /\ cy = psw % 2
  <2>1. psw \in Byte
    BY PswByteIsByte
  <2>2. cy = psw % 2
    BY <2>1 DEF get_status_flag, Bit, FLAG_CY, Byte
  <2> QED BY <2>1, <2>2, FlagIsBit DEF Flags
<1>2. new \in PswByte /\ new \in Byte /\ get_status_flag(new, FLAG_CY) = is /\ new % 2 = is
  <2>1. new \in PswByte /\ get_status_flag(new, FLAG_CY) = is
    BY <1>1, UpdateFlagSetsOneFlag DEF Flags
  <2>2. new \in Byte
    BY <2>1, PswByteIsByte
  <2> QED BY <2>1, <2>2 DEF get_status_flag, Bit, FLAG_CY, Byte
<1>3. ASSUME NEW word \in PswByte, NEW bit \in Bool01
      PROVE  update_flag(word, FLAG_CY, bit) = word - (word % 2) + bit
  <2>1. word \in Byte /\ MaskPsw(word) = word
    BY PswByteIsByte, MaskKeeps
  <2> QED BY <2>1 DEF update_flag, Bit, FLAG_CY, Byte, Bool01
<1>4. new = psw - cy + is
  BY <1>1, <1>3
<1>5. update_flag(new, FLAG_CY, cy) = new - is + cy
  BY <1>1, <1>2, <1>3
<1> HIDE DEF cy, new
<1>6. new - is + cy = psw
  BY <1>1, <1>2, <1>4 DEF Byte, Bool01
<1> QED BY <1>1, <1>2, <1>5, <1>6 DEF cy, new

\* An accumulator rotated through the carry and back.
LEMMA RotationUndone ==
  ASSUME NEW a \in Byte, NEW psw \in PswByte
  PROVE  /\ LET l == rotate_left(a, psw, TRUE)
            IN  /\ rotate_right(l.a, l.psw, TRUE).a = a
                /\ rotate_right(l.a, l.psw, TRUE).psw = psw
         /\ LET r == rotate_right(a, psw, TRUE)
            IN  /\ rotate_left(r.a, r.psw, TRUE).a = a
                /\ rotate_left(r.a, r.psw, TRUE).psw = psw
<1> DEFINE cy == get_status_flag(psw, FLAG_CY)
           l == rotate_left(a, psw, TRUE)    r == rotate_right(a, psw, TRUE)
<1>1. a \in 0..255 /\ Bit(a, 128) = a \div 128 /\ Bit(a, 1) = a % 2
  BY DEF Byte, Bit
<1>2. Bit(a, 128) \in Bool01 /\ Bit(a, 1) \in Bool01
  BY <1>1 DEF Bool01
<1>3. cy \in 0..1
  BY CarrySetBack, ZeroOneAreBits DEF Bool01
<1>4. /\ l.a = ((2 * a) % 256) + cy /\ l.psw = update_flag(psw, FLAG_CY, Bit(a, 128))
      /\ r.a = (a \div 2) + 128 * cy /\ r.psw = update_flag(psw, FLAG_CY, Bit(a, 1))
  BY DEF rotate_left, rotate_right
<1>5. /\ get_status_flag(l.psw, FLAG_CY) = Bit(a, 128) /\ update_flag(l.psw, FLAG_CY, cy) = psw
      /\ get_status_flag(r.psw, FLAG_CY) = Bit(a, 1) /\ update_flag(r.psw, FLAG_CY, cy) = psw
  <2>1. \A is \in Bool01 : /\ get_status_flag(update_flag(psw, FLAG_CY, is), FLAG_CY) = is
                           /\ update_flag(update_flag(psw, FLAG_CY, is), FLAG_CY, cy) = psw
    BY CarrySetBack
  <2> HIDE DEF l, r, cy
  <2> QED BY <1>2, <1>4, <2>1
<1> HIDE DEF cy, l, r
<1>6. /\ Bit(l.a, 1) = cy /\ (l.a \div 2) + 128 * (a \div 128) = a
      /\ Bit(r.a, 128) = cy /\ ((2 * r.a) % 256) + (a % 2) = a
  BY <1>1, <1>3, <1>4 DEF Bit
<1>7. rotate_right(l.a, l.psw, TRUE).a = a /\ rotate_right(l.a, l.psw, TRUE).psw = psw
  BY <1>1, <1>5, <1>6 DEF rotate_right
<1>8. rotate_left(r.a, r.psw, TRUE).a = a /\ rotate_left(r.a, r.psw, TRUE).psw = psw
  BY <1>1, <1>5, <1>6 DEF rotate_left
<1> QED BY <1>7, <1>8 DEF l, r

\* What a quiet instruction did, its opposite undoes.
LEMMA QuietUndone ==
  ASSUME NEW op \in Quiet, NEW psw \in PswByte, NEW regs \in RegisterFile
  PROVE  LET after == RegsAfter(op, psw, regs)
             status == PswAfter(op, psw, regs)
         IN  /\ after \in RegisterFile /\ status \in PswByte
             /\ Opposite(op) \in Quiet
             /\ RegsAfter(Opposite(op), status, after) = regs
             /\ PswAfter(Opposite(op), status, after) = psw
<1> DEFINE after == RegsAfter(op, psw, regs)   status == PswAfter(op, psw, regs)
           inv == Opposite(op)
<1>1. regs \in [0..6 -> Byte] /\ regs[0] \in Byte /\ psw \in Byte
  BY PswByteIsByte DEF RegisterFile
<1>2. CASE op \in Steps \cup BackSteps
  <2>1. PICK rp \in 0..2, decrement \in BOOLEAN :
          /\ op \div 16 = rp /\ inv \div 16 = rp
          /\ op \in Steps <=> ~decrement
          /\ inv \in Steps <=> decrement
          /\ inv \in Steps \cup BackSteps
    <3>1. CASE op \in Steps
      <4>1. op \div 16 \in 0..2 /\ inv \div 16 = op \div 16 /\ inv \in BackSteps /\ inv \notin Steps
        BY <3>1 DEF Opposite, Steps, BackSteps
      <4> QED BY <3>1, <4>1
    <3>2. CASE op \in BackSteps
      <4>1. op \div 16 \in 0..2 /\ inv \div 16 = op \div 16 /\ inv \in Steps /\ op \notin Steps
        BY <3>2 DEF Opposite, Steps, BackSteps
      <4> QED BY <3>2, <4>1
    <3> QED BY <1>2, <3>1, <3>2
  <2>2. op \notin {235, 47, 23, 31, 63} /\ inv \notin {235, 47, 23, 31, 63}
    BY <1>2, <2>1 DEF Steps, BackSteps
  <2> HIDE DEF inv
  <2>3. after = PairStepped(regs, rp, decrement) /\ status = psw
    BY <1>2, <2>1, <2>2 DEF RegsAfter, PswAfter
  <2>4. /\ RegsAfter(inv, status, after) = PairStepped(after, rp, ~decrement)
        /\ PswAfter(inv, status, after) = status
    BY <2>1, <2>2 DEF RegsAfter, PswAfter
  <2>5. /\ PairStepped(regs, rp, decrement) \in RegisterFile
        /\ PairStepped(PairStepped(regs, rp, decrement), rp, ~decrement) = regs
    BY PairStepsUndone
  <2>6. inv \in Quiet
    BY <2>1 DEF Quiet
  <2> QED BY <2>3, <2>4, <2>5, <2>6 DEF inv
<1>3. CASE op \in {23, 31}
  <2>1. inv = (IF op = 23 THEN 31 ELSE 23) /\ inv \in Quiet
    BY <1>3 DEF Opposite, Quiet, Steps, BackSteps
  <2>2. /\ rotate_left(regs[0], psw, TRUE).a \in Byte /\ rotate_left(regs[0], psw, TRUE).psw \in PswByte
        /\ rotate_right(regs[0], psw, TRUE).a \in Byte
        /\ rotate_right(regs[0], psw, TRUE).psw \in PswByte
    BY <1>1, RotateType
  <2> HIDE DEF inv
  <2>3. CASE op = 23
    <3> DEFINE l == rotate_left(regs[0], psw, TRUE)
    <3>0. l.a \in Byte /\ l.psw \in PswByte
      BY <2>2
    <3>1. after = [regs EXCEPT ![0] = l.a] /\ status = l.psw
      BY <2>3 DEF RegsAfter, PswAfter
    <3>2. after \in RegisterFile /\ after[0] = l.a
      <4> HIDE DEF after, l
      <4> QED BY <1>1, <3>0, <3>1 DEF RegisterFile
    <3>3. rotate_right(l.a, l.psw, TRUE).a = regs[0] /\ rotate_right(l.a, l.psw, TRUE).psw = psw
      BY <1>1, RotationUndone
    <3> HIDE DEF l, after, status
    <3>4. /\ RegsAfter(31, status, after) = [after EXCEPT ![0] = regs[0]]
          /\ PswAfter(31, status, after) = psw
      <4>1. rotate_right(after[0], status, TRUE) = rotate_right(l.a, l.psw, TRUE)
        BY <3>1, <3>2, Zenon
      <4>2. /\ RegsAfter(31, status, after) =
                 [after EXCEPT ![0] = rotate_right(after[0], status, TRUE).a]
            /\ PswAfter(31, status, after) = rotate_right(after[0], status, TRUE).psw
        BY DEF RegsAfter, PswAfter
      <4> QED BY <3>3, <4>1, <4>2
    <3>5. [after EXCEPT ![0] = regs[0]] = regs
      BY <1>1, <3>1
    <3> QED BY <2>1, <2>3, <3>0, <3>1, <3>2, <3>4, <3>5 DEF inv, after, status
  <2>4. CASE op = 31
    <3> DEFINE l == rotate_right(regs[0], psw, TRUE)
    <3>0. l.a \in Byte /\ l.psw \in PswByte
      BY <2>2
    <3>1. after = [regs EXCEPT ![0] = l.a] /\ status = l.psw
      BY <2>4 DEF RegsAfter, PswAfter
    <3>2. after \in RegisterFile /\ after[0] = l.a
      <4> HIDE DEF after, l
      <4> QED BY <1>1, <3>0, <3>1 DEF RegisterFile
    <3>3. rotate_left(l.a, l.psw, TRUE).a = regs[0] /\ rotate_left(l.a, l.psw, TRUE).psw = psw
      BY <1>1, RotationUndone
    <3> HIDE DEF l, after, status
    <3>4. /\ RegsAfter(23, status, after) = [after EXCEPT ![0] = regs[0]]
          /\ PswAfter(23, status, after) = psw
      <4>1. rotate_left(after[0], status, TRUE) = rotate_left(l.a, l.psw, TRUE)
        BY <3>1, <3>2, Zenon
      <4>2. /\ RegsAfter(23, status, after) =
                 [after EXCEPT ![0] = rotate_left(after[0], status, TRUE).a]
            /\ PswAfter(23, status, after) = rotate_left(after[0], status, TRUE).psw
        BY DEF RegsAfter, PswAfter
      <4> QED BY <3>3, <4>1, <4>2
    <3>5. [after EXCEPT ![0] = regs[0]] = regs
      BY <1>1, <3>1
    <3> QED BY <2>1, <2>4, <3>0, <3>1, <3>2, <3>4, <3>5 DEF inv, after, status
  <2> QED BY <1>3, <2>3, <2>4
<1>4. CASE op \notin Steps \cup BackSteps \cup {23, 31}
  <2>1. inv = op /\ inv \in Quiet
    BY <1>4 DEF Opposite, Quiet, Saves, Steps, BackSteps
  <2>2. CASE op = 235
    <3>1. /\ after = [regs EXCEPT ![3] = regs[5], ![5] = regs[3], ![4] = regs[6], ![6] = regs[4]]
          /\ status = psw
      BY <2>2 DEF RegsAfter, PswAfter
    <3> HIDE DEF after, status
    <3>2. after \in RegisterFile
      BY <1>1, <3>1 DEF RegisterFile
    <3>3. [after EXCEPT ![3] = after[5], ![5] = after[3], ![4] = after[6], ![6] = after[4]] = regs
      <4>1. /\ after \in [0..6 -> Byte]
            /\ after[3] = regs[5] /\ after[5] = regs[3] /\ after[4] = regs[6] /\ after[6] = regs[4]
            /\ \A i \in {0, 1, 2} : after[i] = regs[i]
        BY <1>1, <3>1
      <4> QED BY <1>1, <4>1
    <3>4. RegsAfter(op, status, after) = regs /\ PswAfter(op, status, after) = status
      BY <2>2, <3>3 DEF RegsAfter, PswAfter
    <3> QED BY <2>1, <3>1, <3>2, <3>4 DEF after, status
  <2>3. CASE op = 47
    <3>1. cma(regs[0]) \in Byte /\ cma(cma(regs[0])) = regs[0]
      BY <1>1 DEF cma, Byte
    <3>2. after = [regs EXCEPT ![0] = cma(regs[0])] /\ status = psw
      BY <2>3 DEF RegsAfter, PswAfter
    <3> HIDE DEF after, status
    <3>3. /\ RegsAfter(op, status, after) = [after EXCEPT ![0] = cma(after[0])]
          /\ PswAfter(op, status, after) = psw
      BY <2>3, <3>2 DEF RegsAfter, PswAfter
    <3>4. after \in RegisterFile /\ [after EXCEPT ![0] = cma(after[0])] = regs
      BY <1>1, <3>1, <3>2 DEF RegisterFile
    <3> QED BY <2>1, <3>2, <3>3, <3>4 DEF after, status
  <2>4. CASE op = 63
    <3> DEFINE cy == get_status_flag(psw, FLAG_CY)
    <3>1. cy \in Bool01
      BY CarrySetBack, ZeroOneAreBits
    <3> HIDE DEF cy
    <3>2. 1 - cy \in Bool01 /\ 1 - (1 - cy) = cy
      BY <3>1 DEF Bool01
    <3>3. cmc(psw) = update_flag(psw, FLAG_CY, 1 - cy)
      BY DEF cmc, cy
    <3>4. /\ cmc(psw) \in PswByte /\ get_status_flag(cmc(psw), FLAG_CY) = 1 - cy
          /\ update_flag(cmc(psw), FLAG_CY, cy) = psw
      BY <3>2, <3>3, CarrySetBack DEF cy
    <3>5. cmc(cmc(psw)) = psw
      BY <3>2, <3>4 DEF cmc
    <3>6. after = regs /\ status = cmc(psw)
      BY <2>4 DEF RegsAfter, PswAfter, Steps, BackSteps
    <3>7. RegsAfter(op, status, after) = after /\ PswAfter(op, status, after) = cmc(status)
      BY <2>4 DEF RegsAfter, PswAfter, Steps, BackSteps
    <3> QED BY <2>1, <3>4, <3>5, <3>6, <3>7
  <2>5. CASE op \notin {235, 47, 63}
    <3>1. after = regs /\ status = psw
      BY <1>4, <2>5 DEF RegsAfter, PswAfter
    <3> QED BY <1>4, <2>1, <2>5, <3>1 DEF RegsAfter, PswAfter
  <2> QED BY <2>2, <2>3, <2>4, <2>5
<1> QED BY <1>2, <1>3, <1>4

\* A step that runs a quiet instruction.
LEMMA QuietStep ==
  ASSUME TypeOK, fetch_execute_instruction, ins \in Quiet
  PROVE  /\ m_regs' = RegsAfter(ins, m_psw, m_regs) /\ m_psw' = PswAfter(ins, m_psw, m_regs)
         /\ UNCHANGED <<m_sp, m_ram, m_halted>> /\ Fetched(0)
<1>1. /\ ins \in {0, 8, 16, 24, 32, 40, 48, 56, 235, 47, 63, 23, 31, 3, 19, 35, 11, 27, 43}
      /\ ins \div 16 = RP \/ ins = 235
  BY DEF Quiet, Steps, BackSteps, RP
<1> HIDE DEF ins
<1>2. ~accumulatorHandler
  <2>1. ASSUME NEW n PROVE ~AluOperation(n)
    BY <1>1 DEF AluOperation, SSS
  <2> QED BY <2>1 DEF accumulatorHandler, add_a, sub_a, boolean_a, cmp_a
<1>3. ~(memoryHandler \/ out_port)
  BY <1>1 DEF memoryHandler, mov_mr, mvi_m, sta, stax, shld, inr_m, out_port
<1>4. ~stackHandler
  BY <1>1 DEF stackHandler, push_rp, push_psw, pop_rp, pop_psw, xthl
<1>5. ~branchHandler
  BY <1>1 DEF branchHandler, jmp, jmp_conditional, call, call_conditional, ret,
         ret_conditional, rst, pchl, SSS
<1>6. ~(interruptHandler \/ hlt)
  BY <1>1 DEF interruptHandler, ei, di, hlt
<1>7. UNCHANGED m_halted /\ (registerHandler \/ computeHandler)
  BY <1>3, <1>4, <1>5, <1>6 DEF fetch_execute_instruction, dataHandler
<1>8. CASE registerHandler
  <2>1. UNCHANGED <<m_psw, m_ram>>
    BY <1>8 DEF registerHandler
  <2>2. nop \/ xchg \/ inx_rp \/ cma_a
    BY <1>1, <1>8 DEF registerHandler, mov_rr, mov_rm, mvi_r, lxi, lda, ldax, lhld, sphl, in_port, SSS
  <2>3. CASE nop
    <3>1. ins \in {0, 8, 16, 24, 32, 40, 48, 56}
      BY <1>1, <2>3 DEF nop
    <3>2. ins \notin {235, 47, 23, 31, 63} /\ ins \notin Steps /\ ins \notin BackSteps
      BY <3>1 DEF Steps, BackSteps
    <3>3. RegsAfter(ins, m_psw, m_regs) = m_regs /\ PswAfter(ins, m_psw, m_regs) = m_psw
      BY <3>2 DEF RegsAfter, PswAfter
    <3> QED BY <1>7, <2>1, <2>3, <3>3 DEF nop
  <2>4. CASE xchg
    <3>1. m_regs' = [m_regs EXCEPT ![3] = m_regs[5], ![5] = m_regs[3],
                                   ![4] = m_regs[6], ![6] = m_regs[4]]
      BY <2>4 DEF xchg, REGISTER_D, REGISTER_E, REGISTER_H, REGISTER_L
    <3>2. m_regs' = RegsAfter(235, m_psw, m_regs) /\ PswAfter(235, m_psw, m_regs) = m_psw
      BY <3>1 DEF RegsAfter, PswAfter
    <3> QED BY <1>7, <2>1, <2>4, <3>2 DEF xchg
  <2>5. CASE cma_a
    <3>1. m_regs' = RegsAfter(47, m_psw, m_regs) /\ PswAfter(47, m_psw, m_regs) = m_psw
      BY <2>5 DEF cma_a, SetA, A, REGISTER_A, RegsAfter, PswAfter
    <3> QED BY <1>7, <2>1, <2>5, <3>1 DEF cma_a
  <2>6. CASE inx_rp
    <3>1. ins \in Steps \cup BackSteps /\ (ins % 16 = 11 <=> ins \notin Steps) /\ RP \in 0..2
          /\ ins \div 16 = RP
      BY <1>1, <2>6 DEF inx_rp, Steps, BackSteps, RP
    <3>2. ins \notin {235, 47, 63, 23, 31} /\ (ins \notin Steps => ins \in BackSteps)
      BY <3>1 DEF Steps, BackSteps
    <3>3. m_regs' = PairStepped(m_regs, RP, ins % 16 = 11) /\ UNCHANGED m_sp /\ Fetched(0)
      <4> HIDE DEF RP
      <4> QED BY <2>6, <3>1 DEF inx_rp, set_register_pair, with_pair, PairStepped,
                 get_register_pair, get_register_pair_from_idx
    <3>4. (ins % 16 = 11) \in BOOLEAN
      OBVIOUS
    <3>5. RegsAfter(ins, m_psw, m_regs) = PairStepped(m_regs, RP, ins % 16 = 11)
      BY <3>1, <3>2 DEF RegsAfter
    <3> QED BY <1>7, <2>1, <3>2, <3>3, <3>5 DEF PswAfter
  <2> QED BY <2>2, <2>3, <2>4, <2>5, <2>6
<1>9. CASE computeHandler
  <2>1. UNCHANGED <<m_sp, m_ram>> /\ Fetched(0)
    BY <1>2, <1>9 DEF computeHandler
  <2>2. rotate_a \/ cmc_cy
    BY <1>1, <1>2, <1>9 DEF computeHandler, daa_a, stc_cy, inr_r, dad_rp, SSS
  <2>3. CASE cmc_cy
    <3>1. RegsAfter(63, m_psw, m_regs) = m_regs /\ PswAfter(63, m_psw, m_regs) = cmc(m_psw)
      BY DEF RegsAfter, PswAfter, Steps, BackSteps
    <3> QED BY <1>7, <2>1, <2>3, <3>1 DEF cmc_cy
  <2>4. CASE rotate_a
    <3>1. CASE ins = 23
      <4>0. (ins = 23) = TRUE
        BY <3>1
      <4>1. Assign(rotate_left(A, m_psw, TRUE))
        <5>1. Assign(rotate_left(A, m_psw, ins = 23))
          BY <2>4, <3>1 DEF rotate_a
        <5> QED BY <4>0, <5>1, Zenon
      <4>2. m_regs' = RegsAfter(23, m_psw, m_regs) /\ m_psw' = PswAfter(23, m_psw, m_regs)
        BY <4>1 DEF Assign, SetA, A, REGISTER_A, RegsAfter, PswAfter
      <4> QED BY <1>7, <2>1, <3>1, <4>2
    <3>2. CASE ins = 31
      <4>0. (ins = 31) = TRUE
        BY <3>2
      <4>1. Assign(rotate_right(A, m_psw, TRUE))
        <5>1. Assign(rotate_right(A, m_psw, ins = 31))
          BY <2>4, <3>2 DEF rotate_a
        <5> QED BY <4>0, <5>1, Zenon
      <4>2. m_regs' = RegsAfter(31, m_psw, m_regs) /\ m_psw' = PswAfter(31, m_psw, m_regs)
        BY <4>1 DEF Assign, SetA, A, REGISTER_A, RegsAfter, PswAfter
      <4> QED BY <1>7, <2>1, <3>2, <4>2
    <3> QED BY <1>1, <2>4, <3>1, <3>2 DEF rotate_a
  <2> QED BY <2>2, <2>3, <2>4
<1> QED BY <1>7, <1>8, <1>9

-----------------------------------------------------------------------------
\* The second half of the code is the first one backwards, with the opposite of
\* each byte; it pushes three words at most, the stack Restored leaves to it.
UndoesItself(p) ==
    /\ p.routine = <<>>
    /\ \E n \in Nat :
         /\ Len(p.code) = 2 * n
         /\ \A i \in 1..n : /\ p.code[i] \in Quiet \cup Saves
                            /\ p.code[2 * n + 1 - i] = Opposite(p.code[i])
         /\ Cardinality({i \in 1..n : p.code[i] \in Saves}) <= 3

\* That stack lies in the RAM, in six cells.
Below(i) == Wrap(start.sp - i)
StackInRam == INVADERS_RAM_SIZE >= 6 /\ \A i \in 1..6 : IsRam(Below(i))

half == Len(program.code) \div 2

\* The pushes in the first k instructions.
Pushes(k) == {i \in 1..k : program.code[i] \in Saves}
Depth(k) == Cardinality(Pushes(k))

\* A push makes the stack one word deeper, a quiet instruction does not.
LEMMA DepthCounts ==
  /\ Depth(0) = 0
  /\ \A k \in Nat :
       /\ Depth(k) \in Nat
       /\ Depth(k + 1) = Depth(k) + (IF program.code[k + 1] \in Saves THEN 1 ELSE 0)
<1>1. \A k \in Nat : IsFiniteSet(Pushes(k))
  <2> TAKE k \in Nat
  <2>1. IsFiniteSet(1..k) /\ Pushes(k) \subseteq 1..k
    BY FS_Interval DEF Pushes
  <2> QED BY <2>1, FS_Subset
<1>2. Pushes(0) = {}
  BY DEF Pushes
<1>3. Depth(0) = 0
  BY <1>2, FS_EmptySet DEF Depth
<1>4. ASSUME NEW k \in Nat
      PROVE  /\ Depth(k) \in Nat
             /\ Depth(k + 1) = Depth(k) + (IF program.code[k + 1] \in Saves THEN 1 ELSE 0)
  <2>1. IsFiniteSet(Pushes(k)) /\ Depth(k) \in Nat
    BY <1>1, FS_CardinalityType DEF Depth
  <2>2. 1..k + 1 = (1..k) \cup {k + 1} /\ k + 1 \notin 1..k
    OBVIOUS
  <2>3. CASE program.code[k + 1] \in Saves
    <3>1. Pushes(k + 1) = Pushes(k) \cup {k + 1} /\ k + 1 \notin Pushes(k)
      BY <2>2, <2>3 DEF Pushes
    <3>2. Cardinality(Pushes(k) \cup {k + 1}) = Cardinality(Pushes(k)) + 1
      BY <2>1, <3>1, FS_AddElement
    <3> QED BY <2>1, <2>3, <3>1, <3>2 DEF Depth
  <2>4. CASE program.code[k + 1] \notin Saves
    <3>1. Pushes(k + 1) = Pushes(k)
      BY <2>2, <2>4 DEF Pushes
    <3> QED BY <2>1, <2>4, <3>1 DEF Depth
  <2> QED BY <2>1, <2>3, <2>4
<1> QED BY <1>3, <1>4

\* It never gets less deep before the middle.
LEMMA DepthGrows == \A k \in Nat : \A i \in 0..k : Depth(i) <= Depth(k)
<1> SUFFICES ASSUME NEW k \in Nat, NEW i \in 0..k PROVE Depth(i) <= Depth(k)
    OBVIOUS
<1>1. IsFiniteSet(1..k) /\ Pushes(k) \subseteq 1..k /\ Pushes(i) \subseteq Pushes(k)
  BY FS_Interval DEF Pushes
<1>2. IsFiniteSet(Pushes(k))
  BY <1>1, FS_Subset
<1> QED BY <1>1, <1>2, FS_Subset DEF Depth

\* The six bytes below the stack pointer of the start are six cells.
LEMMA StackCellsDiffer ==
  ASSUME start.sp \in Word, StackInRam
  PROVE  /\ \A i \in 1..6 : Below(i) \in Word /\ IsRam(Below(i))
         /\ \A i, j \in 1..6 : Cell(Below(i)) = Cell(Below(j)) => i = j
<1>1. PAGE \in Nat /\ PAGE > 0 /\ 2 * PAGE >= 6
  BY PageAssumption DEF PageAssumption, StackInRam, INVADERS_RAM_SIZE
<1>2. start.sp \in Int /\ 0 <= start.sp /\ start.sp < 65536
  BY WordRange
<1>3. \A i \in 1..6 : Below(i) \in Word /\ IsRam(Below(i)) /\ Below(i) = (start.sp - i) % 65536
  BY <1>2, WrapType DEF StackInRam, Below, Wrap, TwoTo16
<1>4. \A i \in 1..6 : 2 * PAGE <= Below(i) /\ Below(i) < 6 * PAGE
  BY <1>1, <1>3, Windows, WordIsNat DEF IsRam
<1>5. PICK top \in Int : \A i \in 1..6 : Below(i) = top - i
  <2>1. CASE start.sp = 0
    <3>1. \A i \in 1..6 : (0 - i) % 65536 = 65536 - i
      OBVIOUS
    <3>2. \A i \in 1..6 : Below(i) = 65536 - i
      BY <1>3, <2>1, <3>1
    <3>3. \E top \in Int : top = 65536
      OBVIOUS
    <3>4. PICK top \in Int : top = 65536
      BY <3>3
    <3>5. \A i \in 1..6 : Below(i) = top - i
      BY <3>2, <3>4
    <3> QED BY <3>5, Zenon
  <2>2. CASE start.sp >= 6
    <3>1. \A i \in 1..6 : Below(i) = start.sp - i
      BY <1>2, <1>3, <2>2
    <3>2. PICK top \in Int : top = start.sp
      BY <1>2
    <3>3. \A i \in 1..6 : Below(i) = top - i
      BY <3>1, <3>2
    <3> QED BY <3>3, Zenon
  <2>3. CASE start.sp \in 1..5
    <3>1. Below(start.sp) = 0 /\ start.sp \in 1..6
      BY <1>3, <2>3
    <3> QED BY <1>1, <1>4, <3>1
  <2> QED BY <1>2, <2>1, <2>2, <2>3
<1>6. \A i \in 1..6 : Cell(Below(i)) = IF top - i < 4 * PAGE THEN top - i - 2 * PAGE
                                                          ELSE top - i - 4 * PAGE
  BY <1>1, <1>3, <1>4, <1>5, Windows
     DEF Cell, ram_offset, ram_mirror_offset, INVADERS_ROM_SIZE, INVADERS_RAM_SIZE
<1>7. \A i, j \in 1..6 : Cell(Below(i)) = Cell(Below(j)) => i = j
  BY <1>1, <1>6
<1> QED BY <1>3, <1>7

\* What these assumptions give.
LEMMA UndoShape ==
  ASSUME Undisturbed, UndoesItself(program), StackInRam
  PROVE  /\ half \in Nat /\ Len(program.code) = 2 * half /\ 2 * half < 65535
         /\ \A i \in 1..half : /\ program.code[i] \in Quiet \cup Saves
                               /\ program.code[2 * half + 1 - i] = Opposite(program.code[i])
         /\ Depth(half) <= 3
         /\ start.regs \in RegisterFile /\ start.psw \in PswByte /\ start.sp \in Word
<1>1. PICK n \in Nat :
        /\ Len(program.code) = 2 * n
        /\ \A i \in 1..n : /\ program.code[i] \in Quiet \cup Saves
                           /\ program.code[2 * n + 1 - i] = Opposite(program.code[i])
        /\ Cardinality({i \in 1..n : program.code[i] \in Saves}) <= 3
  BY DEF UndoesItself
<1>2. half = n
  BY <1>1 DEF half
<1>3. /\ start.regs \in RegisterFile /\ start.psw \in PswByte /\ start.sp \in Word
      /\ Len(program.code) < INVADERS_ROM_SIZE
  BY ProgramAssumption DEF ProgramAssumption, Undisturbed, RegisterFile
<1>4. 2 * PAGE <= 65535 /\ PAGE \in Nat
  <2>1. Below(1) \in Word /\ IsRam(Below(1))
    BY <1>3, StackCellsDiffer
  <2>2. PAGE \in Nat /\ PAGE > 0 /\ Below(1) \in Nat /\ Below(1) <= 65535
    BY <2>1, WordRange, PageAssumption DEF PageAssumption
  <2>3. 2 * PAGE <= Below(1)
    BY <2>1, <2>2, Windows DEF IsRam
  <2> QED BY <2>2, <2>3
<1>5. 2 * n < 65535
  BY <1>1, <1>3, <1>4 DEF INVADERS_ROM_SIZE
<1>6. Depth(half) <= 3
  BY <1>1, <1>2 DEF Depth, Pushes
<1> QED BY <1>1, <1>2, <1>3, <1>5, <1>6

\* The instruction such a program executes next, and where the one behind it is.
LEMMA UndoFetch ==
  ASSUME Undisturbed, UndoesItself(program), StackInRam, m_pc \in 0..2 * half
  PROVE  /\ m_pc < 2 * half => ins = program.code[m_pc + 1]
         /\ m_pc = 2 * half => ins = HLT
         /\ Fetched(0) => m_pc' = m_pc + 1
<1>1. half \in Nat /\ Len(program.code) = 2 * half /\ 2 * half < 65535
  BY UndoShape
<1>2. /\ ins = IF m_pc < Len(program.code) THEN program.code[m_pc + 1] ELSE Image(program)[m_pc]
      /\ operand_pc = Wrap(m_pc + 1)
  BY <1>1, CodeIsFetched
<1>3. m_pc = 2 * half => Image(program)[m_pc] = HLT
  <2>1. program.routine = <<>> /\ Len(program.code) < INVADERS_ROM_SIZE
    BY ProgramAssumption DEF ProgramAssumption, Undisturbed, UndoesItself
  <2>2. 2 * half \in 0..INVADERS_ROM_SIZE - 1
    BY <1>1, <2>1, PageAssumption DEF PageAssumption, INVADERS_ROM_SIZE
  <2>3. Len(program.routine) = 0
    BY <2>1
  <2> QED BY <1>1, <2>2, <2>3 DEF Image, RoutineStart
<1>4. Wrap(m_pc + 1) = m_pc + 1 /\ Wrap((m_pc + 1) + 0) = m_pc + 1
  BY <1>1 DEF Wrap, TwoTo16
<1> QED BY <1>1, <1>2, <1>3, <1>4 DEF Fetched

-----------------------------------------------------------------------------
(***************************************************************************)
(* The run of such a program.  The machine before each instruction of the  *)
(* first half is remembered in a trail t: the first half lengthens it, the *)
(* second half walks it back.                                              *)
(***************************************************************************)
Machines == [psw : PswByte, regs : RegisterFile]
StartMachine == [psw |-> start.psw, regs |-> start.regs]

MachineAfter(op, machine) ==
    [psw |-> PswAfter(op, machine.psw, machine.regs),
     regs |-> RegsAfter(op, machine.psw, machine.regs)]

\* The word that lies on the stack once the first k instructions are done.
StackWord(k) == <<m_ram[Cell(Below(2 * Depth(k)))], m_ram[Cell(Below(2 * Depth(k) - 1))]>>
SavedPair(i) == (program.code[i] \div 16) % 4

Trail(t, k) ==
    /\ t \in [0..half -> Machines]
    /\ t[0] = StartMachine /\ t[k] = Machine
    /\ \A i \in 1..k : t[i] = MachineAfter(program.code[i], t[i - 1])
    /\ m_sp = Below(2 * Depth(k))
    /\ \A i \in Pushes(k) : StackWord(i) = PairOf(t[i - 1], SavedPair(i))

StackArea == {Cell(Below(j)) : j \in 1..6}

\* Behind k instructions of the first half, or with k of them left to undo.
Unwinding ==
    /\ \A i \in DOMAIN m_ram \ StackArea : m_ram[i] = Ram[i]
    /\ \/ /\ ~m_halted
          /\ \E k \in 0..half : m_pc \in {k, 2 * half - k} /\ \E t : Trail(t, k)
       \/ m_halted /\ m_pc = 2 * half + 1 /\ Machine = StartMachine /\ m_sp = start.sp

UndoRun == UndoesItself(program) /\ StackInRam => Unwinding

\* What the definitions above say of the program does not change.
LEMMA ProgramKept ==
  ASSUME UNCHANGED <<program, start>>
  PROVE  /\ half' = half /\ StartMachine' = StartMachine /\ StackArea' = StackArea
         /\ \A i : Depth(i)' = Depth(i) /\ Pushes(i)' = Pushes(i) /\ Below(i)' = Below(i)
         /\ \A i : SavedPair(i)' = SavedPair(i)
<1>1. \A i : Pushes(i)' = Pushes(i) /\ Below(i)' = Below(i) /\ SavedPair(i)' = SavedPair(i)
  BY DEF Pushes, Below, SavedPair
<1>2. half' = half /\ StartMachine' = StartMachine
  BY DEF half, StartMachine
<1>3. \A i : Depth(i)' = Depth(i)
  BY <1>1 DEF Depth
<1>4. StackArea' = StackArea
  BY <1>1 DEF StackArea
<1> QED BY <1>1, <1>2, <1>3, <1>4

LEMMA UndoRunKept ==
  ASSUME UNCHANGED <<program, start>>
  PROVE  (UndoesItself(program) /\ StackInRam)' <=> UndoesItself(program) /\ StackInRam
<1>1. \A i : Below(i)' = Below(i)
  BY ProgramKept
<1> QED BY <1>1 DEF UndoesItself, StackInRam

\* The stack pointer inside that stack.
LEMMA StackArithmetic ==
  ASSUME start.sp \in Word, NEW i \in 0..6
  PROVE  /\ Below(i) \in Word /\ Below(0) = start.sp
         /\ Wrap(Below(i) - 1) = Below(i + 1) /\ Wrap(Below(i) - 2) = Below(i + 2)
         /\ Wrap(Below(i) + 1) = Below(i - 1) /\ Wrap(Below(i) + 2) = Below(i - 2)
<1>1. start.sp \in Int /\ 0 <= start.sp /\ start.sp < 65536
  BY WordRange
<1>2. Below(i) \in Word
  BY <1>1, WrapType DEF Below
<1>3. start.sp % 65536 = start.sp
  BY <1>1
<1>4. \A d \in {-2, -1, 1, 2} : (((start.sp - i) % 65536) + d) % 65536 = (start.sp - i + d) % 65536
  BY <1>1
<1> QED BY <1>1, <1>2, <1>3, <1>4 DEF Below, Wrap, TwoTo16

\* An instruction of the first half is done: the trail is one machine longer.
LEMMA UndoUp ==
  ASSUME Undisturbed, UndoesItself(program), StackInRam, Next, ~m_halted,
         NEW k \in Nat, k < half, m_pc = k, NEW t, Trail(t, k)
  PROVE  /\ m_pc' = k + 1 /\ ~m_halted' /\ \E s : Trail(s, k + 1)'
         /\ \A i \in DOMAIN m_ram' \ StackArea : i \in DOMAIN m_ram /\ m_ram'[i] = m_ram[i]
<1> DEFINE op == program.code[k + 1]
<1>1. /\ half \in Nat /\ op \in Quiet \cup Saves /\ Depth(half) <= 3
      /\ TypeOK /\ fetch_execute_instruction /\ UNCHANGED <<program, start>>
      /\ start.sp \in Word
  BY UndoShape DEF Undisturbed, Next
<1>2. ins = op /\ (Fetched(0) => m_pc' = k + 1)
  BY <1>1, UndoFetch
<1>3. /\ k + 1 \in 0..half /\ k \in 0..half /\ 0 \in 0..half
      /\ t \in [0..half -> Machines] /\ t[0] = StartMachine /\ t[k] = Machine
      /\ \A i \in 1..k : t[i] = MachineAfter(program.code[i], t[i - 1])
      /\ m_sp = Below(2 * Depth(k))
      /\ \A i \in Pushes(k) : StackWord(i) = PairOf(t[i - 1], SavedPair(i))
  BY <1>1 DEF Trail
<1>4. /\ half' = half /\ StartMachine' = StartMachine /\ program' = program
      /\ \A i : Depth(i)' = Depth(i) /\ Pushes(i)' = Pushes(i) /\ Below(i)' = Below(i)
      /\ \A i : SavedPair(i)' = SavedPair(i)
  BY <1>1, ProgramKept
<1>5. /\ Depth(k) \in Nat /\ Depth(k + 1) \in Nat /\ Depth(k + 1) <= 3
      /\ Depth(k + 1) = Depth(k) + (IF op \in Saves THEN 1 ELSE 0)
  <2>1. k \in Nat /\ k + 1 \in Nat /\ k + 1 \in 0..half
    BY <1>1, <1>3
  <2>2. Depth(k + 1) <= Depth(half)
    BY <1>1, <2>1, DepthGrows
  <2>3. Depth(k) \in Nat /\ Depth(k + 1) \in Nat /\ Depth(half) \in Nat
    BY <1>1, <2>1, DepthCounts
  <2>4. Depth(k + 1) = Depth(k) + (IF op \in Saves THEN 1 ELSE 0)
    BY <2>1, DepthCounts
  <2> QED BY <1>1, <2>2, <2>3, <2>4
<1>6. PICK m \in Machines : m = Machine'
  <2>1. TypeOK'
    BY NextTypes DEF Undisturbed
  <2>2. Machine' \in Machines
    BY <2>1 DEF TypeOK, CpuTypeOK, Machine, Machines, RegisterFile
  <2> QED BY <2>2
<1> DEFINE s == [t EXCEPT ![k + 1] = m]
<1>7. /\ s \in [0..half -> Machines] /\ s[0] = StartMachine /\ s[k + 1] = m
      /\ \A i \in 0..k : s[i] = t[i]
  BY <1>1, <1>3
<1> HIDE DEF op, s
<1>8. ASSUME m = MachineAfter(op, Machine), m_sp' = Below(2 * Depth(k + 1)),
             \A i \in Pushes(k + 1) : StackWord(i)' = PairOf(s[i - 1], SavedPair(i))
      PROVE  Trail(s, k + 1)'
  <2>1. \A i \in 1..k + 1 : s[i] = MachineAfter(program.code[i], s[i - 1])
    <3> TAKE i \in 1..k + 1
    <3>1. CASE i = k + 1
      <4>1. s[i] = m /\ i - 1 = k /\ s[k] = Machine /\ program.code[i] = op
        BY <1>3, <1>7, <3>1 DEF op
      <4> QED BY <1>8, <4>1
    <3>2. CASE i \in 1..k
      <4>1. s[i] = t[i] /\ s[i - 1] = t[i - 1]
        BY <1>7, <3>2
      <4> QED BY <1>3, <3>2, <4>1
    <3> QED BY <3>1, <3>2
  <2>2. s \in [0..half' -> Machines] /\ s[0] = StartMachine' /\ s[k + 1] = Machine'
    BY <1>4, <1>6, <1>7
  <2>3. \A i \in 1..k + 1 : s[i] = MachineAfter(program'.code[i], s[i - 1])
    BY <1>4, <2>1
  <2>4. (m_sp = Below(2 * Depth(k + 1)))'
    BY <1>4, <1>8
  <2>5. \A i \in Pushes(k + 1)' : StackWord(i)' = PairOf(s[i - 1], SavedPair(i)')
    BY <1>4, <1>8
  <2> QED BY <2>2, <2>3, <2>4, <2>5 DEF Trail
<1>9. CASE op \in Quiet
  <2>1. /\ m_regs' = RegsAfter(op, m_psw, m_regs) /\ m_psw' = PswAfter(op, m_psw, m_regs)
        /\ UNCHANGED <<m_sp, m_ram, m_halted>> /\ Fetched(0)
    BY <1>1, <1>2, <1>9, QuietStep
  <2>2. m = MachineAfter(op, Machine)
    BY <1>6, <2>1 DEF Machine, MachineAfter
  <2>3. op \notin Saves
    BY <1>9 DEF Quiet, Saves, Steps, BackSteps
  <2>4. Pushes(k + 1) = Pushes(k) /\ Pushes(k) \subseteq 1..k
    BY <1>1, <2>3 DEF Pushes, op
  <2>5. m_sp' = Below(2 * Depth(k + 1))
    BY <1>3, <1>5, <2>1, <2>3
  <2>6. \A i \in Pushes(k + 1) : StackWord(i)' = PairOf(s[i - 1], SavedPair(i))
    <3> TAKE i \in Pushes(k + 1)
    <3>1. StackWord(i)' = StackWord(i)
      BY <1>4, <2>1 DEF StackWord, Cell
    <3>2. i - 1 \in 0..k
      BY <2>4
    <3> QED BY <1>3, <1>7, <2>4, <3>1, <3>2
  <2> QED BY <1>2, <1>8, <2>1, <2>2, <2>5, <2>6
<1>10. CASE op \in Saves
  <2> DEFINE depth == Depth(k)   high == Cell(Below(2 * depth + 1))
             low == Cell(Below(2 * depth + 2))   saved == PairOf(Machine, SavedPair(k + 1))
  <2>1. pushing /\ RP = SavedPair(k + 1)
    BY <1>2, <1>10 DEF pushing, Saves, RP, SavedPair, op
  <2>2. /\ Push(saved[1], saved[2]) /\ UNCHANGED <<m_psw, m_regs, m_halted>>
        /\ Fetched(0)
    BY <1>1, <2>1, PushingStep, StackOpcodes DEF stackHandler
  <2>3. /\ depth \in Nat /\ 2 * depth \in 0..4 /\ 2 * Depth(k + 1) = 2 * depth + 2
        /\ \A i \in 0..k : Depth(i) \in Nat /\ Depth(i) <= depth
    <3>1. \A i \in 0..k : Depth(i) \in Nat /\ Depth(i) <= depth
      <4> TAKE i \in 0..k
      <4>1. Depth(i) \in Nat
        BY DepthCounts
      <4>2. Depth(i) <= Depth(k)
        BY DepthGrows
      <4> QED BY <4>1, <4>2
    <3>2. depth \in Nat /\ Depth(k + 1) = depth + 1 /\ depth + 1 <= 3
      BY <1>1, <1>5, <1>10
    <3> HIDE DEF depth
    <3> QED BY <3>1, <3>2
  <2>4. /\ Wrap(m_sp - 1) = Below(2 * depth + 1) /\ Wrap(m_sp - 2) = Below(2 * depth + 2)
        /\ m_sp' = Below(2 * Depth(k + 1))
    <3>1. /\ 2 * depth \in 0..6 /\ m_sp = Below(2 * depth)
          /\ m_sp' = Wrap(m_sp - 2)
      BY <1>3, <2>2, <2>3 DEF Push
    <3> HIDE DEF depth
    <3> QED BY <1>1, <2>3, <3>1, StackArithmetic
  <2>5. saved[1] \in Byte /\ saved[2] \in Byte /\ saved = <<saved[1], saved[2]>>
    <3>1. /\ m_psw \in Byte /\ \A i \in 0..6 : m_regs[i] \in Byte
          /\ Machine.psw = m_psw /\ Machine.regs = m_regs
      BY <1>1, PswByteIsByte DEF TypeOK, CpuTypeOK, Machine
    <3>2. SavedPair(k + 1) \in 0..3
      BY <2>1, <1>10 DEF SavedPair, op, Saves
    <3>3. CASE SavedPair(k + 1) = 3
      <4>1. saved = <<m_psw, m_regs[0]>>
        BY <3>1, <3>3 DEF PairOf, REGISTER_A
      <4> QED BY <3>1, <4>1
    <3>4. CASE SavedPair(k + 1) \in 0..2
      <4>1. regpairs_map(SavedPair(k + 1)) \in 0..5
        BY <3>4 DEF regpairs_map
      <4>2. saved = <<m_regs[regpairs_map(SavedPair(k + 1)) + 1], m_regs[regpairs_map(SavedPair(k + 1))]>>
        BY <3>1, <3>4 DEF PairOf
      <4> QED BY <3>1, <4>1, <4>2
    <3> QED BY <3>2, <3>3, <3>4
  <2> HIDE DEF saved, depth
  <2>6. m_ram' = Stored(Stored(m_ram, high, saved[2]), low, saved[1])
    <3>1. 2 * depth + 1 \in 1..6 /\ 2 * depth + 2 \in 1..6
      BY <2>3
    <3>2. StackWritable
      BY <2>4, <3>1 DEF StackWritable, StackInRam
    <3>3. m_rom' = m_rom
      BY <1>1 DEF fetch_execute_instruction
    <3> QED BY <1>1, <2>2, <2>4, <2>5, <3>2, <3>3, PushedWordIsOnTop
  <2>7. /\ \A i, j \in 1..6 : Cell(Below(i)) = Cell(Below(j)) => i = j
        /\ \A i \in 1..6 : Cell(Below(i)) \in DOMAIN m_ram
        /\ high \in StackArea /\ low \in StackArea /\ high # low
    <3>1. \A i \in 1..6 : Below(i) \in Word /\ IsRam(Below(i))
      BY <1>1, StackCellsDiffer
    <3>2. \A i \in 1..6 : Cell(Below(i)) \in 0..INVADERS_RAM_SIZE - 1
      BY <3>1, RamRead
    <3>3. DOMAIN m_ram = 0..INVADERS_RAM_SIZE - 1
      BY <1>1 DEF TypeOK, BusTypeOK, RamImage
    <3>4. 2 * depth + 1 \in 1..6 /\ 2 * depth + 2 \in 1..6 /\ 2 * depth + 1 # 2 * depth + 2
      BY <2>3
    <3>5. \A i, j \in 1..6 : Cell(Below(i)) = Cell(Below(j)) => i = j
      BY <1>1, StackCellsDiffer
    <3> QED BY <3>2, <3>3, <3>4, <3>5 DEF StackArea
  <2>8. /\ DOMAIN m_ram' = DOMAIN m_ram /\ m_ram'[low] = saved[1] /\ m_ram'[high] = saved[2]
        /\ \A x \in DOMAIN m_ram \ {low, high} : m_ram'[x] = m_ram[x]
    <3>1. high \in DOMAIN m_ram /\ low \in DOMAIN m_ram
      <4>1. 2 * depth + 1 \in 1..6 /\ 2 * depth + 2 \in 1..6
        BY <2>3
      <4> QED BY <2>7, <4>1
    <3> HIDE DEF high, low
    <3> QED BY <2>6, <2>7, <3>1 DEF Stored
  <2>9. m = MachineAfter(op, Machine) /\ m = Machine
    <3>1. op \notin {235, 47, 63, 23, 31} /\ op \notin Steps /\ op \notin BackSteps
      BY <1>10 DEF Saves, Steps, BackSteps
    <3>2. MachineAfter(op, Machine) = Machine
      BY <3>1 DEF MachineAfter, RegsAfter, PswAfter, Machine
    <3> QED BY <1>6, <2>2, <3>2 DEF Machine
  <2>10. \A i \in Pushes(k + 1) : StackWord(i)' = PairOf(s[i - 1], SavedPair(i))
    <3> TAKE i \in Pushes(k + 1)
    <3>1. StackWord(i)' = <<m_ram'[Cell(Below(2 * Depth(i)))], m_ram'[Cell(Below(2 * Depth(i) - 1))]>>
      BY <1>4 DEF StackWord, Cell
    <3>2. i \in 1..k + 1
      BY DEF Pushes
    <3>3. CASE i = k + 1
      <4>1. 2 * Depth(i) = 2 * depth + 2 /\ 2 * Depth(i) - 1 = 2 * depth + 1
        BY <2>3, <3>3
      <4>2. StackWord(i)' = saved
        BY <2>5, <2>8, <3>1, <4>1
      <4>3. i - 1 = k /\ s[k] = Machine
        BY <1>3, <1>7, <3>3
      <4> QED BY <3>3, <4>2, <4>3 DEF saved
    <3>4. CASE i \in 1..k
      <4>1. i \in Pushes(k) /\ program.code[i] \in Saves
        BY <3>4 DEF Pushes
      <4>2. Depth(i) \in 1..depth
        <5>1. i - 1 \in Nat /\ (i - 1) + 1 = i
          BY <3>4
        <5>2. Depth(i - 1) \in Nat /\ Depth(i) = Depth(i - 1) + 1
          BY <4>1, <5>1, DepthCounts
        <5>3. Depth(i) \in Nat /\ Depth(i) <= depth
          BY <2>3, <3>4
        <5> QED BY <5>2, <5>3
      <4>3. /\ 2 * Depth(i) \in 1..6 /\ 2 * Depth(i) - 1 \in 1..6
            /\ 2 * depth + 1 \in 1..6 /\ 2 * depth + 2 \in 1..6
            /\ 2 * Depth(i) < 2 * depth + 1
        BY <2>3, <4>2
      <4>4. /\ Cell(Below(2 * Depth(i))) \in DOMAIN m_ram \ {low, high}
            /\ Cell(Below(2 * Depth(i) - 1)) \in DOMAIN m_ram \ {low, high}
        <5>1. \A j \in {2 * Depth(i), 2 * Depth(i) - 1} :
                j \in 1..6 /\ j # 2 * depth + 1 /\ j # 2 * depth + 2
          BY <2>3, <4>2, <4>3
        <5>2. \A j \in 1..6 : j # 2 * depth + 1 /\ j # 2 * depth + 2 =>
                Cell(Below(j)) \in DOMAIN m_ram \ {low, high}
          BY <2>7, <4>3
        <5> QED BY <5>1, <5>2
      <4>5. StackWord(i)' = StackWord(i)
        BY <2>8, <3>1, <4>4 DEF StackWord
      <4>6. s[i - 1] = t[i - 1]
        BY <1>7, <3>4
      <4> QED BY <1>3, <4>1, <4>5, <4>6
    <3> QED BY <3>2, <3>3, <3>4
  <2> QED BY <1>2, <1>8, <2>2, <2>4, <2>7, <2>8, <2>9, <2>10
<1> QED BY <1>1, <1>9, <1>10

\* The instruction that undoes the k-th one.
LEMMA UndoOpcodes ==
  ASSUME Undisturbed, UndoesItself(program), StackInRam, NEW k \in 1..half
  PROVE  /\ program.code[k] \in Quiet \cup Saves
         /\ program.code[2 * half + 1 - k] = Opposite(program.code[k])
<1>1. \A i \in 1..half : /\ program.code[i] \in Quiet \cup Saves
                         /\ program.code[2 * half + 1 - i] = Opposite(program.code[i])
  BY UndoShape
<1> QED BY <1>1

\* An instruction of the second half is done: the machine is back where it was
\* before the instruction this one undoes.
LEMMA UndoDown ==
  ASSUME Undisturbed, UndoesItself(program), StackInRam, Next, ~m_halted,
         NEW k \in Nat, k \in 1..half, m_pc = 2 * half - k, NEW t, Trail(t, k)
  PROVE  m_pc' = 2 * half - (k - 1) /\ ~m_halted' /\ m_ram' = m_ram /\ Trail(t, k - 1)'
<1> DEFINE op == program.code[k]
<1>1. /\ half \in Nat /\ Len(program.code) = 2 * half /\ op \in Quiet \cup Saves
      /\ program.code[2 * half + 1 - k] = Opposite(op) /\ Depth(half) <= 3
      /\ TypeOK /\ fetch_execute_instruction /\ UNCHANGED <<program, start>>
      /\ start.sp \in Word
  <2>1. half \in Nat /\ Len(program.code) = 2 * half /\ Depth(half) <= 3 /\ start.sp \in Word
    BY UndoShape
  <2>2. /\ program.code[k] \in Quiet \cup Saves
        /\ program.code[2 * half + 1 - k] = Opposite(program.code[k])
    BY UndoOpcodes
  <2> QED BY <2>1, <2>2 DEF Undisturbed, Next
<1>2. ins = Opposite(op) /\ (Fetched(0) => m_pc' = 2 * half - (k - 1))
  <2>1. m_pc \in 0..2 * half /\ m_pc < 2 * half /\ m_pc + 1 = 2 * half + 1 - k
        /\ m_pc + 1 = 2 * half - (k - 1)
    BY <1>1
  <2> QED BY <1>1, <2>1, UndoFetch
<1>3. /\ t \in [0..half -> Machines] /\ t[0] = StartMachine /\ t[k] = Machine
      /\ \A i \in 1..k : t[i] = MachineAfter(program.code[i], t[i - 1])
      /\ m_sp = Below(2 * Depth(k))
      /\ \A i \in Pushes(k) : StackWord(i) = PairOf(t[i - 1], SavedPair(i))
  BY <1>1 DEF Trail
<1>4. /\ half' = half /\ StartMachine' = StartMachine /\ program' = program
      /\ \A i : Depth(i)' = Depth(i) /\ Pushes(i)' = Pushes(i) /\ Below(i)' = Below(i)
      /\ \A i : SavedPair(i)' = SavedPair(i)
  BY <1>1, ProgramKept
<1>5. /\ k - 1 \in Nat /\ k - 1 \in 0..half /\ Depth(k - 1) \in Nat /\ Depth(k) <= 3
      /\ Depth(k) = Depth(k - 1) + (IF op \in Saves THEN 1 ELSE 0)
  <2>1. k - 1 \in Nat /\ (k - 1) + 1 = k /\ k - 1 \in 0..half
    BY <1>1
  <2>2. Depth(k) <= Depth(half) /\ Depth(k) \in Nat /\ Depth(half) \in Nat
    BY <1>1, DepthCounts, DepthGrows
  <2>3. /\ Depth(k - 1) \in Nat
        /\ Depth((k - 1) + 1) =
             Depth(k - 1) + (IF program.code[(k - 1) + 1] \in Saves THEN 1 ELSE 0)
    BY <2>1, DepthCounts
  <2> QED BY <1>1, <2>1, <2>2, <2>3
<1> DEFINE before == t[k - 1]
<1>6. /\ before \in Machines /\ Machine = MachineAfter(op, before)
      /\ before.psw \in PswByte /\ before.regs \in RegisterFile
      /\ before = [psw |-> before.psw, regs |-> before.regs]
  BY <1>3, <1>5 DEF Machines
<1> HIDE DEF op, before
<1>7. ASSUME m_ram' = m_ram, Machine' = before, m_sp' = Below(2 * Depth(k - 1))
      PROVE  Trail(t, k - 1)'
  <2>1. t \in [0..half' -> Machines] /\ t[0] = StartMachine' /\ t[k - 1] = Machine'
    BY <1>3, <1>4, <1>7 DEF before
  <2>2. \A i \in 1..k - 1 : t[i] = MachineAfter(program'.code[i], t[i - 1])
    BY <1>3, <1>4
  <2>3. (m_sp = Below(2 * Depth(k - 1)))'
    BY <1>4, <1>7
  <2>4. \A i \in Pushes(k - 1)' : StackWord(i)' = PairOf(t[i - 1], SavedPair(i)')
    <3>1. \A i \in Pushes(k - 1) : i \in Pushes(k)
      BY <1>5 DEF Pushes
    <3>2. \A i : StackWord(i)' = StackWord(i)
      BY <1>4, <1>7 DEF StackWord, Cell
    <3> QED BY <1>3, <1>4, <3>1, <3>2
  <2> QED BY <2>1, <2>2, <2>3, <2>4 DEF Trail
<1>8. m_regs = RegsAfter(op, before.psw, before.regs) /\ m_psw = PswAfter(op, before.psw, before.regs)
  BY <1>6 DEF Machine, MachineAfter
<1>9. CASE op \in Quiet
  <2>1. /\ ins \in Quiet
        /\ RegsAfter(ins, m_psw, m_regs) = before.regs /\ PswAfter(ins, m_psw, m_regs) = before.psw
    BY <1>2, <1>6, <1>8, <1>9, QuietUndone
  <2>2. /\ m_regs' = before.regs /\ m_psw' = before.psw
        /\ UNCHANGED <<m_sp, m_ram, m_halted>> /\ Fetched(0)
    BY <1>1, <2>1, QuietStep
  <2>3. Machine' = before
    BY <1>6, <2>2 DEF Machine
  <2>4. op \notin Saves
    BY <1>9 DEF Quiet, Saves, Steps, BackSteps
  <2> QED BY <1>2, <1>3, <1>5, <1>7, <2>2, <2>3, <2>4
<1>10. CASE op \in Saves
  <2> DEFINE depth == Depth(k)   pair == SavedPair(k)
  <2>1. popping /\ RP = pair /\ pair \in 0..3
    <3>1. ins = op - 4
      BY <1>2, <1>10 DEF Opposite, Saves, Steps, BackSteps
    <3> QED BY <1>10, <3>1 DEF popping, Saves, RP, SavedPair, op
  <2>2. before = Machine
    <3>1. op \notin {235, 47, 63, 23, 31} /\ op \notin Steps /\ op \notin BackSteps
      BY <1>10 DEF Saves, Steps, BackSteps
    <3>2. MachineAfter(op, before) = before
      BY <1>6, <3>1 DEF MachineAfter, RegsAfter, PswAfter
    <3> QED BY <1>6, <3>2
  <2>3. /\ Pop /\ UNCHANGED <<m_ram, m_halted>> /\ Fetched(0)
        /\ pair = 3 => PairOf(Machine', pair) = <<MaskPsw(top_low), top_high>>
        /\ pair # 3 => PairOf(Machine', pair) = <<top_low, top_high>>
        /\ \A other \in (0..3) \ {pair} : PairOf(Machine', other) = PairOf(Machine, other)
    BY <1>1, <2>1, PoppingStep, StackOpcodes DEF stackHandler
  <2>4. /\ depth \in 1..3 /\ 2 * depth \in 1..6 /\ 2 * depth - 1 \in 1..6
        /\ 2 * depth - 2 = 2 * Depth(k - 1)
    <3>1. depth = Depth(k - 1) + 1 /\ depth <= 3 /\ Depth(k - 1) \in Nat
      BY <1>5, <1>10
    <3> HIDE DEF depth
    <3> QED BY <3>1
  <2>5. /\ Wrap(m_sp + 1) = Below(2 * depth - 1) /\ m_sp = Below(2 * depth)
        /\ m_sp' = Below(2 * Depth(k - 1))
    <3>1. 2 * depth \in 0..6 /\ m_sp = Below(2 * depth) /\ m_sp' = Wrap(m_sp + 2)
      BY <1>3, <2>3, <2>4 DEF Pop
    <3> HIDE DEF depth
    <3> QED BY <1>1, <2>4, <3>1, StackArithmetic
  <2>6. <<top_low, top_high>> = PairOf(before, pair)
    <3>1. k \in Pushes(k)
      BY <1>10 DEF Pushes, op
    <3>2. StackWord(k) = PairOf(before, pair)
      BY <1>3, <3>1 DEF before
    <3>3. \A i \in 1..6 : Below(i) \in Word /\ IsRam(Below(i))
      BY <1>1, StackCellsDiffer
    <3>4. top_low = m_ram[Cell(Below(2 * depth))] /\ top_high = m_ram[Cell(Below(2 * depth - 1))]
      BY <2>4, <2>5, <3>3, RamRead DEF top_low, top_high, memory_read
    <3> QED BY <3>2, <3>4 DEF StackWord
  <2>7. PairOf(Machine', pair) = PairOf(before, pair)
    <3>1. CASE pair = 3
      <4>1. PairOf(before, pair) = <<before.psw, before.regs[0]>>
        BY <3>1 DEF PairOf, REGISTER_A
      <4>2. top_low = before.psw
        BY <2>6, <4>1
      <4>3. MaskPsw(top_low) = top_low
        BY <1>6, <4>2, MaskKeeps
      <4> QED BY <2>3, <2>6, <3>1, <4>3
    <3>2. CASE pair # 3
      BY <2>3, <2>6, <3>2
    <3> QED BY <3>1, <3>2
  <2>8. Machine'.regs \in RegisterFile /\ Machine' = [psw |-> Machine'.psw, regs |-> Machine'.regs]
    <3>1. TypeOK'
      BY NextTypes DEF Undisturbed
    <3> QED BY <3>1 DEF TypeOK, CpuTypeOK, RegisterFile, Machine
  <2>9. \A other \in 0..3 : PairOf(Machine', other) = PairOf(before, other)
    BY <2>2, <2>3, <2>7
  <2>10. Machine' = before
    <3>1. Machine'.psw = before.psw /\ Machine'.regs = before.regs
      BY <1>6, <2>8, <2>9, PairsMakeMachine
    <3> QED BY <1>6, <2>8, <3>1
  <2> QED BY <1>2, <1>7, <2>3, <2>5, <2>10
<1> QED BY <1>1, <1>9, <1>10

\* The HLT behind it is reached: the machine is the one it started with.
LEMMA UndoEnd ==
  ASSUME Undisturbed, UndoesItself(program), StackInRam, Next, ~m_halted,
         m_pc = 2 * half, NEW t, Trail(t, 0)
  PROVE  /\ m_pc' = 2 * half + 1 /\ m_halted' /\ m_ram' = m_ram
         /\ Machine' = StartMachine /\ m_sp' = start.sp
<1>1. /\ half \in Nat /\ TypeOK /\ fetch_execute_instruction /\ start.sp \in Word
  BY UndoShape DEF Undisturbed, Next
<1>2. ins = HLT /\ (Fetched(0) => m_pc' = 2 * half + 1)
  <2>1. m_pc \in 0..2 * half
    BY <1>1
  <2> QED BY <2>1, UndoFetch
<1>3. m_halted' /\ UNCHANGED <<m_regs, m_psw, m_sp, m_ram>> /\ Fetched(0)
  BY <1>1, <1>2, HltDecode DEF hlt, controlFrame
<1>4. Machine' = Machine /\ Machine = StartMachine
  BY <1>3 DEF Machine, Trail
<1>5. m_sp = start.sp
  <2>1. m_sp = Below(2 * Depth(0)) /\ Depth(0) = 0 /\ Below(0) = start.sp
    BY <1>1, DepthCounts, StackArithmetic DEF Trail
  <2> QED BY <2>1
<1> QED BY <1>2, <1>3, <1>4, <1>5

LEMMA InitUndoes == Init => UndoRun
<1> SUFFICES ASSUME Init, UndoesItself(program), StackInRam PROVE Unwinding
    BY DEF UndoRun
<1>1. Undisturbed
  BY InitUndisturbed
<1>2. half \in Nat /\ start.regs \in RegisterFile /\ start.psw \in PswByte /\ start.sp \in Word
  BY <1>1, UndoShape
<1>3. PICK m \in Machines : m = StartMachine
  BY <1>2 DEF StartMachine, Machines
<1> DEFINE t == [i \in 0..half |-> m]
<1>4. Machine = StartMachine
  BY DEF Init, Machine, StartMachine
<1>5. Trail(t, 0)
  <2>1. t \in [0..half -> Machines] /\ t[0] = m
    BY <1>2
  <2>2. m_sp = Below(2 * Depth(0))
    <3>1. Depth(0) = 0 /\ Below(0) = start.sp
      BY <1>2, DepthCounts, StackArithmetic
    <3> QED BY <3>1 DEF Init
  <2>3. Pushes(0) = {}
    BY DEF Pushes
  <2> HIDE DEF t
  <2> QED BY <1>3, <1>4, <2>1, <2>2, <2>3 DEF Trail
<1>6. m_ram = Ram /\ ~m_halted /\ m_pc = 0 /\ 0 \in 0..half
  BY <1>2 DEF Init
<1> HIDE DEF t
<1> QED BY <1>5, <1>6 DEF Unwinding

LEMMA NextUndoes == Undisturbed /\ UndoRun /\ [Next]_vars => UndoRun'
<1> SUFFICES ASSUME Undisturbed, UndoRun, [Next]_vars PROVE UndoRun'
    OBVIOUS
<1>1. CASE UNCHANGED vars
  <2>1. UNCHANGED <<program, start, m_ram, m_regs, m_psw, m_sp, m_pc, m_halted>>
    BY <1>1 DEF vars, cpuVars, busVars, registerVars
  <2>2. (UndoesItself(program) /\ StackInRam)' <=> UndoesItself(program) /\ StackInRam
    BY <2>1, UndoRunKept
  <2>3. /\ half' = half /\ StartMachine' = StartMachine /\ StackArea' = StackArea
        /\ \A i : Depth(i)' = Depth(i) /\ Pushes(i)' = Pushes(i) /\ Below(i)' = Below(i)
        /\ \A i : SavedPair(i)' = SavedPair(i)
    BY <2>1, ProgramKept
  <2>4. Machine' = Machine /\ \A i : StackWord(i)' = StackWord(i)
    BY <2>1, <2>3 DEF Machine, StackWord, Cell
  <2>5. \A t, k : Trail(t, k) => Trail(t, k)'
    BY <2>1, <2>3, <2>4 DEF Trail
  <2>6. Unwinding => Unwinding'
    BY <2>1, <2>3, <2>4, <2>5 DEF Unwinding
  <2> QED BY <2>2, <2>6 DEF UndoRun
<1>2. CASE Next
  <2> SUFFICES ASSUME UndoesItself(program), StackInRam PROVE Unwinding'
    <3>1. UNCHANGED <<program, start>>
      BY <1>2 DEF Next
    <3>2. (UndoesItself(program) /\ StackInRam)' <=> UndoesItself(program) /\ StackInRam
      BY <3>1, UndoRunKept
    <3> QED BY <3>2 DEF UndoRun
  <2>1. ~m_halted /\ UNCHANGED <<program, start>>
    BY <1>2 DEF Next, fetch_execute_instruction
  <2>2. half' = half /\ StartMachine' = StartMachine /\ StackArea' = StackArea /\ start' = start
    BY <2>1, ProgramKept
  <2>3. /\ \A i \in DOMAIN m_ram \ StackArea : m_ram[i] = Ram[i]
        /\ \E k \in 0..half : m_pc \in {k, 2 * half - k} /\ \E t : Trail(t, k)
    BY <2>1 DEF UndoRun, Unwinding
  <2>4. PICK k \in 0..half : m_pc \in {k, 2 * half - k} /\ \E t : Trail(t, k)
    BY <2>3
  <2>5. PICK t : Trail(t, k)
    BY <2>4
  <2>6. half \in Nat /\ k \in Nat /\ k <= half
    BY <1>2, UndoShape
  <2>7. CASE m_pc = k /\ k < half
    <3>1. /\ m_pc' = k + 1 /\ ~m_halted' /\ \E s : Trail(s, k + 1)'
          /\ \A i \in DOMAIN m_ram' \ StackArea : i \in DOMAIN m_ram /\ m_ram'[i] = m_ram[i]
      BY <1>2, <2>1, <2>5, <2>6, <2>7, UndoUp
    <3>2. \A i \in DOMAIN m_ram' \ StackArea : m_ram'[i] = Ram[i]
      BY <2>3, <3>1
    <3>3. k + 1 \in 0..half
      BY <2>6, <2>7
    <3> QED BY <2>2, <3>1, <3>2, <3>3 DEF Unwinding
  <2>8. CASE m_pc = 2 * half - k /\ k \in 1..half
    <3>1. m_pc' = 2 * half - (k - 1) /\ ~m_halted' /\ m_ram' = m_ram /\ Trail(t, k - 1)'
      BY <1>2, <2>1, <2>5, <2>6, <2>8, UndoDown
    <3>2. k - 1 \in 0..half
      BY <2>6, <2>8
    <3> QED BY <2>2, <2>3, <3>1, <3>2 DEF Unwinding
  <2>9. CASE m_pc = 2 * half /\ k = 0
    <3>1. /\ m_pc' = 2 * half + 1 /\ m_halted' /\ m_ram' = m_ram
          /\ Machine' = StartMachine /\ m_sp' = start.sp
      BY <1>2, <2>1, <2>5, <2>9, UndoEnd
    <3> QED BY <2>2, <2>3, <3>1 DEF Unwinding
  <2>10. \/ m_pc = k /\ k < half
         \/ m_pc = 2 * half - k /\ k \in 1..half
         \/ m_pc = 2 * half /\ k = 0
    BY <2>4, <2>6
  <2> QED BY <2>7, <2>8, <2>9, <2>10
<1> QED BY <1>1, <1>2 DEF vars

(***************************************************************************)
(* A program of any length whose second half undoes the first, from any    *)
(* registers, any flags and any stack pointer with RAM below it, ends with *)
(* the machine it started with, on a RAM changed in the six stack cells at *)
(* most: every push and pop, increment and decrement, rotation, exchange   *)
(* and complement takes back what its opposite did, and the words on the   *)
(* stack are the ones that were put there, across the edge of the RAM and  *)
(* its mirror too (cpu.cpp:317-340, 410-430, 604-618 and 661-669).         *)
(***************************************************************************)
THEOREM ProgramsUndoThemselves ==
  Spec => [](UndoesItself(program) /\ StackInRam => Restored)
<1>1. Undisturbed /\ UndoRun => (UndoesItself(program) /\ StackInRam => Restored)
  <2> SUFFICES ASSUME Undisturbed, UndoRun, UndoesItself(program), StackInRam, m_halted
               PROVE  Restored
    BY DEF Restored
  <2>1. /\ m_pc = 2 * half + 1 /\ Machine = StartMachine /\ m_sp = start.sp
        /\ \A i \in DOMAIN m_ram \ StackArea : m_ram[i] = Ram[i]
    BY DEF UndoRun, Unwinding
  <2>2. m_pc = Len(program.code) + 1
    BY <2>1, UndoShape
  <2>3. m_regs = start.regs /\ m_psw = start.psw
    BY <2>1 DEF Machine, StartMachine
  <2>4. \A name \in Parts \ program.loses :
          Part(name, m_regs, m_psw, m_sp) = Part(name, start.regs, start.psw, start.sp)
    BY <2>1, <2>3
  <2>5. StackArea \subseteq {Cell(addr) : addr \in OwnCells}
    BY DEF StackArea, OwnCells, OwnStack, StackInRam, Below
  <2> QED BY <2>1, <2>2, <2>4, <2>5 DEF Restored
<1> QED BY <1>1, InitUndisturbed, NextUndisturbed, InitUndoes, NextUndoes, PTL DEF Spec
=============================================================================
