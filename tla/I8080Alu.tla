------------------------------ MODULE I8080Alu ------------------------------
(***************************************************************************)
(* The arithmetic of the 8080 as src/src/core/cpu.cpp computes it: pure    *)
(* operators over bytes, 16-bit words and the processor status word.       *)
(*                                                                         *)
(* A byte is a number of 0..255 and a bit of it is named by its weight, as *)
(* the FLAG_ constants of cpu.h are.  An operator that stands for a method *)
(* of the class CPU takes the registers the method reads as arguments and  *)
(* returns a record of what it assigns.                                    *)
(***************************************************************************)
EXTENDS Integers

Byte == 0..255
TwoTo16 == 65536
Word == 0..TwoTo16 - 1
Bool01 == 0..1

\* The bit of weight w (1, 2, 4, ... 128) of the byte x.
Bit(x, w) == (x \div w) % 2
Bool2Bit(p) == IF p THEN 1 ELSE 0

LowByte(x) == x % 256
HighByte(x) == x \div 256
MakeWord(low, high) == 256 * high + low

-----------------------------------------------------------------------------
(***************************************************************************)
(* The processor status word.  Bits 5 and 3 read 0 and bit 1 reads 1: each *)
(* update masks the byte with 0xD7 and sets 0x02 before it changes a flag. *)
(***************************************************************************)
FLAG_S  == 128
FLAG_Z  == 64
FLAG_AC == 16
FLAG_P  == 4
FLAG_CY == 1

Flags == {FLAG_S, FLAG_Z, FLAG_AC, FLAG_P, FLAG_CY}

\* (psw & 0xD7) | 0x02
MaskPsw(psw) == psw - 32 * Bit(psw, 32) - 8 * Bit(psw, 8) - 2 * Bit(psw, 2) + 2

\* The status words the masking lets through.
PswByte == {psw \in Byte : Bit(psw, 32) = 0 /\ Bit(psw, 8) = 0 /\ Bit(psw, 2) = 1}

get_status_flag(psw, flag) == Bit(psw, flag)

update_flag(psw, flag, is) ==
    LET masked == MaskPsw(psw)
    IN  masked - flag * Bit(masked, flag) + flag * is

\* True when the number of one bits is even.
calculate_parity(x) ==
    (Bit(x, 1) + Bit(x, 2) + Bit(x, 4) + Bit(x, 8) + Bit(x, 16) + Bit(x, 32)
        + Bit(x, 64) + Bit(x, 128)) % 2 = 0

\* The three updates every arithmetic and logic operation makes; the zero flag
\* has an argument of its own because sub and cmp do not test the result for 0.
update_zsp(psw, zero, result) ==
    update_flag(
        update_flag(
            update_flag(psw, FLAG_Z, Bool2Bit(zero)),
            FLAG_S, Bit(result, 128)),
        FLAG_P, Bool2Bit(calculate_parity(result)))

update_all(psw, zero, result, carry, aux_carry) ==
    update_flag(
        update_flag(update_zsp(psw, zero, result), FLAG_CY, carry),
        FLAG_AC, aux_carry)

-----------------------------------------------------------------------------
(***************************************************************************)
(* The ripple-carry adder: bit i of the result is the exclusive or of the  *)
(* operands' bits and the carry, the next carry is their majority, and the *)
(* auxiliary carry is the one out of bit 3.                                *)
(***************************************************************************)
Xor3(x, y, c) == (x + y + c) % 2
\* Mutant: the carry in does not propagate.
MajorityDropsCarry(x, y, c) == IF x + y >= 2 THEN 1 ELSE 0

Majority(x, y, c) == IF x + y + c >= 2 THEN 1 ELSE 0

binary_add(a, b, carry) ==
    LET c1 == Majority(Bit(a, 1),   Bit(b, 1),   carry)
        c2 == Majority(Bit(a, 2),   Bit(b, 2),   c1)
        c3 == Majority(Bit(a, 4),   Bit(b, 4),   c2)
        c4 == Majority(Bit(a, 8),   Bit(b, 8),   c3)
        c5 == Majority(Bit(a, 16),  Bit(b, 16),  c4)
        c6 == Majority(Bit(a, 32),  Bit(b, 32),  c5)
        c7 == Majority(Bit(a, 64),  Bit(b, 64),  c6)
        c8 == Majority(Bit(a, 128), Bit(b, 128), c7)
    IN  [res |-> Xor3(Bit(a, 1), Bit(b, 1), carry)
                 + 2   * Xor3(Bit(a, 2),   Bit(b, 2),   c1)
                 + 4   * Xor3(Bit(a, 4),   Bit(b, 4),   c2)
                 + 8   * Xor3(Bit(a, 8),   Bit(b, 8),   c3)
                 + 16  * Xor3(Bit(a, 16),  Bit(b, 16),  c4)
                 + 32  * Xor3(Bit(a, 32),  Bit(b, 32),  c5)
                 + 64  * Xor3(Bit(a, 64),  Bit(b, 64),  c6)
                 + 128 * Xor3(Bit(a, 128), Bit(b, 128), c7),
         carry |-> c8,
         aux_carry |-> c4]

\* (uint8_t)(~data + 1)
Negate(data) == (256 - data) % 256

-----------------------------------------------------------------------------
(***************************************************************************)
(* The operations on the accumulator.  Each returns the new accumulator    *)
(* and the new status word.                                                *)
(***************************************************************************)
add(a, data, psw, with_carry) ==
    LET addend == IF with_carry
                  THEN (data + get_status_flag(psw, FLAG_CY)) % 256
                  ELSE data
        sum == binary_add(a, addend, 0)
    IN  [a |-> sum.res,
         psw |-> update_all(psw, sum.res = 0, sum.res, sum.carry, sum.aux_carry)]

\* The zero and carry flags are computed from the NEGATED operand: the
\* assignment data = ~data + 1 inside the call of binary_add comes first.
sub(a, data, psw, with_borrow) ==
    LET subtrahend == IF with_borrow
                      THEN (data + get_status_flag(psw, FLAG_CY)) % 256
                      ELSE data
        negated == Negate(subtrahend)
        sum == binary_add(a, negated, 0)
    IN  [a |-> sum.res,
         psw |-> update_all(psw, sum.res = negated, sum.res,
                            Bool2Bit(sum.res < negated), sum.aux_carry)]

\* Mutant: the carry flag says below or equal.
cmpBelowOrEqual(a, data, psw) ==
    LET result == binary_add(a, Negate(data), 0).res
    IN  [a |-> a,
         psw |-> update_all(psw, a = data, result, Bool2Bit(a <= data),
                            Xor3(Bit(a, 16), Bit(result, 16), Bit(data, 16)))]

cmp(a, data, psw) ==
    LET result == binary_add(a, Negate(data), 0).res
    IN  [a |-> a,
         psw |-> update_all(psw, a = data, result, Bool2Bit(a < data),
                            Xor3(Bit(a, 16), Bit(result, 16), Bit(data, 16)))]

BitAnd(x, y) == x * y
BitXor(x, y) == (x + y) % 2
BitOr(x, y) == x + y - x * y

\* The byte whose bits are f of the bits of a and b.
ByBit(f(_, _), a, b) ==
    f(Bit(a, 1), Bit(b, 1)) + 2 * f(Bit(a, 2), Bit(b, 2))
    + 4 * f(Bit(a, 4), Bit(b, 4)) + 8 * f(Bit(a, 8), Bit(b, 8))
    + 16 * f(Bit(a, 16), Bit(b, 16)) + 32 * f(Bit(a, 32), Bit(b, 32))
    + 64 * f(Bit(a, 64), Bit(b, 64)) + 128 * f(Bit(a, 128), Bit(b, 128))

bit_and(a, b) == ByBit(BitAnd, a, b)
bit_xor(a, b) == ByBit(BitXor, a, b)
bit_or(a, b) == ByBit(BitOr, a, b)

\* Only AND may set the auxiliary carry, and it looks at bit 3 of the result
\* (the accumulator is already assigned) and of the operand.
boolean_operation(a, data, psw, op) ==
    LET result == CASE op = "and" -> bit_and(a, data)
                    [] op = "xor" -> bit_xor(a, data)
                    [] op = "or"  -> bit_or(a, data)
        aux == IF op = "and" THEN BitOr(Bit(result, 8), Bit(data, 8)) ELSE 0
    IN  [a |-> result, psw |-> update_all(psw, result = 0, result, 0, aux)]

rotate_left(a, psw, through_carry) ==
    LET a_7 == Bit(a, 128)
        updated_a_0 == IF through_carry THEN get_status_flag(psw, FLAG_CY) ELSE a_7
    IN  [a |-> ((2 * a) % 256) + updated_a_0, psw |-> update_flag(psw, FLAG_CY, a_7)]

rotate_right(a, psw, through_carry) ==
    LET a_0 == Bit(a, 1)
        updated_a_7 == IF through_carry THEN get_status_flag(psw, FLAG_CY) ELSE a_0
    IN  [a |-> (a \div 2) + 128 * updated_a_7, psw |-> update_flag(psw, FLAG_CY, a_0)]

cma(a) == 255 - a
cmc(psw) == update_flag(psw, FLAG_CY, 1 - get_status_flag(psw, FLAG_CY))
stc(psw) == update_flag(psw, FLAG_CY, 1)

\* Mutant: the high digit is tested before the low one is adjusted.
daaHighFirst(a, psw) ==
    LET low  == IF a % 16 > 9 \/ get_status_flag(psw, FLAG_AC) = 1
                THEN binary_add(a, 6, 0)
                ELSE [res |-> a, carry |-> 0, aux_carry |-> 0]
        high == IF a \div 16 > 9 \/ get_status_flag(psw, FLAG_CY) = 1
                THEN binary_add(low.res, 96, 0)
                ELSE [res |-> low.res, carry |-> 0, aux_carry |-> 0]
    IN  [a |-> high.res,
         psw |-> update_all(psw, high.res = 0, high.res, high.carry, low.aux_carry)]

\* A carry out of the first adjustment is dropped, and the carry flag is replaced
\* by the carry out of the second one, also when it was set.
daa(a, psw) ==
    LET low  == IF a % 16 > 9 \/ get_status_flag(psw, FLAG_AC) = 1
                THEN binary_add(a, 6, 0)
                ELSE [res |-> a, carry |-> 0, aux_carry |-> 0]
        high == IF low.res \div 16 > 9 \/ get_status_flag(psw, FLAG_CY) = 1
                THEN binary_add(low.res, 96, 0)
                ELSE [res |-> low.res, carry |-> 0, aux_carry |-> 0]
    IN  [a |-> high.res,
         psw |-> update_all(psw, high.res = 0, high.res, high.carry, low.aux_carry)]

-----------------------------------------------------------------------------
(***************************************************************************)
(* Increments and the 16-bit operations.                                   *)
(***************************************************************************)
\* The sum inr_r and inr_m store; the carry flag is not among their updates.
inr_sum(x, decrement) == binary_add(x, IF decrement THEN 255 ELSE 1, 0)

\* The flags of inr_r and inr_m, from the result as it is read back.
inr_flags(psw, result, decrement, aux_carry) ==
    update_flag(update_zsp(psw, result = 0, result), FLAG_AC,
                IF decrement THEN Bool2Bit(result % 16 # 15) ELSE aux_carry)

\* Mutant: the carry out of the low byte is dropped.
inxByByte(rp, decrement) ==
    MakeWord(binary_add(LowByte(rp), IF decrement THEN 255 ELSE 1, 0).res,
             binary_add(HighByte(rp), IF decrement THEN 255 ELSE 0, 0).res)

inx(rp, decrement) ==
    LET low  == binary_add(LowByte(rp), IF decrement THEN 255 ELSE 1, 0)
        high == binary_add(HighByte(rp), IF decrement THEN 255 ELSE 0, low.carry)
    IN  MakeWord(low.res, high.res)

\* Mutant: the sum is kept in more than 16 bits.
dadWide(hl, rp, psw) ==
    [hl |-> hl + rp, psw |-> update_flag(psw, FLAG_CY, (hl + rp) \div TwoTo16)]

dad(hl, rp, psw) ==
    LET low  == binary_add(LowByte(hl), LowByte(rp), 0)
        high == binary_add(HighByte(hl), HighByte(rp), low.carry)
    IN  [hl |-> MakeWord(low.res, high.res), psw |-> update_flag(psw, FLAG_CY, high.carry)]

-----------------------------------------------------------------------------
\* The conditions of jumps, calls and returns, by their bit pattern 0..7.
branch_condition_is_met(psw, condition) ==
    LET flag == CASE condition \div 2 = 0 -> FLAG_Z
                  [] condition \div 2 = 1 -> FLAG_CY
                  [] condition \div 2 = 2 -> FLAG_P
                  [] condition \div 2 = 3 -> FLAG_S
    IN  get_status_flag(psw, flag) = condition % 2
=============================================================================
