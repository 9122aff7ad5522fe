--------------------------- MODULE I8080CpuProofs ---------------------------
(***************************************************************************)
(* What the operators of I8080Alu compute, for every byte: the ripple-     *)
(* carry loop of binary_add is addition, daa adds the decimal adjustment,  *)
(* and every operation returns a byte and a status word with its three     *)
(* fixed bits in place.  Then one step of the processor: it keeps every    *)
(* register at its width and every access inside the arrays of the bus     *)
(* (the bus first, then one lemma per group of handlers, for every page    *)
(* size), and a word pushed on the stack is the word a return finds there. *)
(***************************************************************************)
EXTENDS I8080Cpu, TLAPS

Weights == {1, 2, 4, 8, 16, 32, 64, 128}

(***************************************************************************)
(* A bit of a byte is 0 or 1 (the masks of cpu.cpp select one bit).        *)
(***************************************************************************)
LEMMA BitType == \A x \in Byte, w \in Weights : Bit(x, w) \in Bool01
  BY DEF Byte, Bit, Bool01, Weights

(***************************************************************************)
(* A byte is the sum of the weights of its bits.                           *)
(***************************************************************************)
LEMMA BitsOfByte ==
  ASSUME NEW x \in Byte
  PROVE  x = Bit(x, 1) + 2 * Bit(x, 2) + 4 * Bit(x, 4) + 8 * Bit(x, 8)
             + 16 * Bit(x, 16) + 32 * Bit(x, 32) + 64 * Bit(x, 64)
             + 128 * Bit(x, 128)
  BY SMTT(60) DEF Byte, Bit

(***************************************************************************)
(* The low four bits are the remainder by 16.                              *)
(***************************************************************************)
LEMMA BitsOfLowNibble ==
  ASSUME NEW x \in Byte
  PROVE  x % 16 = Bit(x, 1) + 2 * Bit(x, 2) + 4 * Bit(x, 4) + 8 * Bit(x, 8)
  BY SMTT(60) DEF Byte, Bit

(***************************************************************************)
(* One stage of the adder: the three inputs add up to the two outputs.     *)
(***************************************************************************)
LEMMA FullAdder ==
  \A x, y, c \in Bool01 :
     /\ Xor3(x, y, c) \in Bool01
     /\ Majority(x, y, c) \in Bool01
     /\ x + y + c = Xor3(x, y, c) + 2 * Majority(x, y, c)
  BY DEF Bool01, Xor3, Majority

(***************************************************************************)
(* The loop of binary_add (cpu.cpp:513-526) is addition with a carry in    *)
(* and a carry out, and its auxiliary carry is the carry out of bit 3.     *)
(***************************************************************************)
THEOREM BinaryAddIsAddition ==
  ASSUME NEW a \in Byte, NEW b \in Byte, NEW carry \in Bool01
  PROVE  LET sum == binary_add(a, b, carry)
         IN  /\ sum.res \in Byte
             /\ sum.carry \in Bool01
             /\ sum.aux_carry \in Bool01
             /\ a + b + carry = sum.res + 256 * sum.carry
             /\ sum.aux_carry = 1 <=> (a % 16) + (b % 16) + carry >= 16
<1> DEFINE a1 == Bit(a, 1)   b1 == Bit(b, 1)
           a2 == Bit(a, 2)   b2 == Bit(b, 2)
           a3 == Bit(a, 4)   b3 == Bit(b, 4)
           a4 == Bit(a, 8)   b4 == Bit(b, 8)
           a5 == Bit(a, 16)   b5 == Bit(b, 16)
           a6 == Bit(a, 32)   b6 == Bit(b, 32)
           a7 == Bit(a, 64)   b7 == Bit(b, 64)
           a8 == Bit(a, 128)   b8 == Bit(b, 128)
           c1 == Majority(a1, b1, carry)
           c2 == Majority(a2, b2, c1)
           c3 == Majority(a3, b3, c2)
           c4 == Majority(a4, b4, c3)
           c5 == Majority(a5, b5, c4)
           c6 == Majority(a6, b6, c5)
           c7 == Majority(a7, b7, c6)
           c8 == Majority(a8, b8, c7)
           s1 == Xor3(a1, b1, carry)
           s2 == Xor3(a2, b2, c1)
           s3 == Xor3(a3, b3, c2)
           s4 == Xor3(a4, b4, c3)
           s5 == Xor3(a5, b5, c4)
           s6 == Xor3(a6, b6, c5)
           s7 == Xor3(a7, b7, c6)
           s8 == Xor3(a8, b8, c7)
           sum == binary_add(a, b, carry)
<1>1. /\ sum.res = s1 + 2 * s2 + 4 * s3 + 8 * s4 + 16 * s5 + 32 * s6 + 64 * s7 + 128 * s8
      /\ sum.carry = c8
      /\ sum.aux_carry = c4
  BY DEF binary_add
<1>2. /\ a1 \in Bool01 /\ a2 \in Bool01 /\ a3 \in Bool01 /\ a4 \in Bool01
      /\ a5 \in Bool01 /\ a6 \in Bool01 /\ a7 \in Bool01 /\ a8 \in Bool01
      /\ b1 \in Bool01 /\ b2 \in Bool01 /\ b3 \in Bool01 /\ b4 \in Bool01
      /\ b5 \in Bool01 /\ b6 \in Bool01 /\ b7 \in Bool01 /\ b8 \in Bool01
  BY BitType DEF Weights
<1>3. /\ a % 16 = a1 + 2 * a2 + 4 * a3 + 8 * a4
      /\ b % 16 = b1 + 2 * b2 + 4 * b3 + 8 * b4
      /\ a = a1 + 2 * a2 + 4 * a3 + 8 * a4 + 16 * a5 + 32 * a6 + 64 * a7 + 128 * a8
      /\ b = b1 + 2 * b2 + 4 * b3 + 8 * b4 + 16 * b5 + 32 * b6 + 64 * b7 + 128 * b8
  BY BitsOfLowNibble, BitsOfByte
<1> HIDE DEF sum, a1, a2, a3, a4, a5, a6, a7, a8, b1, b2, b3, b4, b5, b6, b7, b8
<1>4. /\ s1 \in Bool01 /\ c1 \in Bool01
      /\ a1 + b1 + carry = s1 + 2 * c1
  BY <1>2, FullAdder
<1> HIDE DEF s1, c1
<1>5. /\ s2 \in Bool01 /\ c2 \in Bool01
      /\ a2 + b2 + c1 = s2 + 2 * c2
  BY <1>2, <1>4, FullAdder
<1> HIDE DEF s2, c2
<1>6. /\ s3 \in Bool01 /\ c3 \in Bool01
      /\ a3 + b3 + c2 = s3 + 2 * c3
  BY <1>2, <1>5, FullAdder
<1> HIDE DEF s3, c3
<1>7. /\ s4 \in Bool01 /\ c4 \in Bool01
      /\ a4 + b4 + c3 = s4 + 2 * c4
  BY <1>2, <1>6, FullAdder
<1> HIDE DEF s4, c4
<1>8. /\ s5 \in Bool01 /\ c5 \in Bool01
      /\ a5 + b5 + c4 = s5 + 2 * c5
  BY <1>2, <1>7, FullAdder
<1> HIDE DEF s5, c5
<1>9. /\ s6 \in Bool01 /\ c6 \in Bool01
      /\ a6 + b6 + c5 = s6 + 2 * c6
  BY <1>2, <1>8, FullAdder
<1> HIDE DEF s6, c6
<1>10. /\ s7 \in Bool01 /\ c7 \in Bool01
       /\ a7 + b7 + c6 = s7 + 2 * c7
  BY <1>2, <1>9, FullAdder
<1> HIDE DEF s7, c7
<1>11. /\ s8 \in Bool01 /\ c8 \in Bool01
       /\ a8 + b8 + c7 = s8 + 2 * c8
  BY <1>2, <1>10, FullAdder
<1> HIDE DEF s8, c8
<1>12. /\ (a % 16) + (b % 16) + carry = (s1 + 2 * s2 + 4 * s3 + 8 * s4) + 16 * c4
       /\ s1 + 2 * s2 + 4 * s3 + 8 * s4 \in 0..15
  BY <1>2, <1>3, <1>4, <1>5, <1>6, <1>7 DEF Bool01
<1>13. /\ a + b + carry = s1 + 2 * s2 + 4 * s3 + 8 * s4 + 16 * s5 + 32 * s6 + 64 * s7
                           + 128 * s8 + 256 * c8
       /\ s1 + 2 * s2 + 4 * s3 + 8 * s4 + 16 * s5 + 32 * s6 + 64 * s7 + 128 * s8 \in Byte
  BY <1>2, <1>3, <1>4, <1>5, <1>6, <1>7, <1>8, <1>9, <1>10, <1>11 DEF Bool01, Byte
<1>14. c4 = 1 <=> (a % 16) + (b % 16) + carry >= 16
  BY <1>7, <1>12 DEF Bool01, Byte
<1> QED
  BY <1>1, <1>7, <1>11, <1>13, <1>14 DEF sum

-----------------------------------------------------------------------------
(***************************************************************************)
(* The X macro of cpu.cpp:305-309: an update sets its flag, keeps the four *)
(* others and leaves the three fixed bits of the status word in place.     *)
(***************************************************************************)
THEOREM UpdateFlagSetsOneFlag ==
  ASSUME NEW psw \in Byte, NEW flag \in Flags, NEW is \in Bool01
  PROVE  /\ update_flag(psw, flag, is) \in PswByte
         /\ get_status_flag(update_flag(psw, flag, is), flag) = is
         /\ \A other \in Flags \ {flag} :
               get_status_flag(update_flag(psw, flag, is), other)
                 = get_status_flag(psw, other)
<1> DEFINE p1 == Bit(psw, 1)    p2 == Bit(psw, 2)    p3 == Bit(psw, 4)
           p4 == Bit(psw, 8)    p5 == Bit(psw, 16)   p6 == Bit(psw, 32)
           p7 == Bit(psw, 64)   p8 == Bit(psw, 128)
           masked == MaskPsw(psw)
           new == update_flag(psw, flag, is)
<1>1. /\ p1 \in Bool01 /\ p2 \in Bool01 /\ p3 \in Bool01 /\ p4 \in Bool01
      /\ p5 \in Bool01 /\ p6 \in Bool01 /\ p7 \in Bool01 /\ p8 \in Bool01
  BY BitType DEF Weights
<1>2. psw = p1 + 2 * p2 + 4 * p3 + 8 * p4 + 16 * p5 + 32 * p6 + 64 * p7 + 128 * p8
  BY BitsOfByte
<1>3. masked = psw - 32 * p6 - 8 * p4 - 2 * p2 + 2
  BY DEF MaskPsw
<1>4. new = masked - flag * Bit(masked, flag) + flag * is
  BY DEF update_flag
<1> HIDE DEF p1, p2, p3, p4, p5, p6, p7, p8, masked, new
<1>5. masked = p1 + 2 * 1 + 4 * p3 + 8 * 0 + 16 * p5 + 32 * 0 + 64 * p7 + 128 * p8
  BY <1>1, <1>2, <1>3 DEF Bool01
<1>6. /\ masked \in Byte
      /\ Bit(masked, 1) = p1 /\ Bit(masked, 4) = p3
      /\ Bit(masked, 16) = p5 /\ Bit(masked, 64) = p7 /\ Bit(masked, 128) = p8
  <2>1. masked \in Byte
    BY <1>1, <1>5 DEF Bool01, Byte
  <2>2. Bit(masked, 1) = p1 /\ Bit(masked, 4) = p3
    BY <1>1, <1>5 DEF Bool01, Bit
  <2>3. Bit(masked, 16) = p5 /\ Bit(masked, 64) = p7 /\ Bit(masked, 128) = p8
    BY <1>1, <1>5 DEF Bool01, Bit
  <2> QED
    BY <2>1, <2>2, <2>3
<1>7. \E q1, q3, q5, q7, q8 \in Bool01 :
        /\ new = q1 + 2 * 1 + 4 * q3 + 8 * 0 + 16 * q5 + 32 * 0 + 64 * q7 + 128 * q8
        /\ q1 = IF flag = 1 THEN is ELSE p1
        /\ q3 = IF flag = 4 THEN is ELSE p3
        /\ q5 = IF flag = 16 THEN is ELSE p5
        /\ q7 = IF flag = 64 THEN is ELSE p7
        /\ q8 = IF flag = 128 THEN is ELSE p8
  <2> DEFINE q1 == IF flag = 1 THEN is ELSE p1     q3 == IF flag = 4 THEN is ELSE p3
             q5 == IF flag = 16 THEN is ELSE p5    q7 == IF flag = 64 THEN is ELSE p7
             q8 == IF flag = 128 THEN is ELSE p8
  <2>1. flag = 1 \/ flag = 4 \/ flag = 16 \/ flag = 64 \/ flag = 128
    BY DEF Flags, FLAG_S, FLAG_Z, FLAG_AC, FLAG_P, FLAG_CY
  <2>2. new = q1 + 2 * 1 + 4 * q3 + 8 * 0 + 16 * q5 + 32 * 0 + 64 * q7 + 128 * q8
    <3>1. CASE flag = 1
      BY <3>1, <1>1, <1>4, <1>5, <1>6 DEF Bool01
    <3>2. CASE flag = 4
      BY <3>2, <1>1, <1>4, <1>5, <1>6 DEF Bool01
    <3>3. CASE flag = 16
      BY <3>3, <1>1, <1>4, <1>5, <1>6 DEF Bool01
    <3>4. CASE flag = 64
      BY <3>4, <1>1, <1>4, <1>5, <1>6 DEF Bool01
    <3>5. CASE flag = 128
      BY <3>5, <1>1, <1>4, <1>5, <1>6 DEF Bool01
    <3> QED
      BY <2>1, <3>1, <3>2, <3>3, <3>4, <3>5
  <2>3. q1 \in Bool01 /\ q3 \in Bool01 /\ q5 \in Bool01 /\ q7 \in Bool01 /\ q8 \in Bool01
    BY <1>1
  <2> QED
    BY <2>2, <2>3
<1>8. PICK q1, q3, q5, q7, q8 \in Bool01 :
        /\ new = q1 + 2 * 1 + 4 * q3 + 8 * 0 + 16 * q5 + 32 * 0 + 64 * q7 + 128 * q8
        /\ q1 = IF flag = 1 THEN is ELSE p1
        /\ q3 = IF flag = 4 THEN is ELSE p3
        /\ q5 = IF flag = 16 THEN is ELSE p5
        /\ q7 = IF flag = 64 THEN is ELSE p7
        /\ q8 = IF flag = 128 THEN is ELSE p8
  BY <1>7
<1>9. /\ new \in Byte
      /\ Bit(new, 1) = q1 /\ Bit(new, 2) = 1 /\ Bit(new, 4) = q3 /\ Bit(new, 8) = 0
      /\ Bit(new, 16) = q5 /\ Bit(new, 32) = 0 /\ Bit(new, 64) = q7 /\ Bit(new, 128) = q8
  <2>1. new = q1 + 2 + 4 * q3 + 16 * q5 + 64 * q7 + 128 * q8
    BY <1>8 DEF Bool01
  <2>2. new \in Byte
    BY <2>1 DEF Bool01, Byte
  <2>3. Bit(new, 1) = q1 /\ Bit(new, 2) = 1 /\ Bit(new, 4) = q3 /\ Bit(new, 8) = 0
    BY <2>1 DEF Bool01, Bit
  <2>4. Bit(new, 16) = q5 /\ Bit(new, 32) = 0 /\ Bit(new, 64) = q7 /\ Bit(new, 128) = q8
    BY <2>1 DEF Bool01, Bit
  <2> QED
    BY <2>2, <2>3, <2>4
<1>10. new \in PswByte
  BY <1>9 DEF PswByte
<1>11. \A other \in Flags :
         Bit(new, other) = IF other = flag THEN is ELSE Bit(psw, other)
  BY <1>8, <1>9 DEF Flags, FLAG_S, FLAG_Z, FLAG_AC, FLAG_P, FLAG_CY, p1, p3, p5, p7, p8
<1> QED
  BY <1>10, <1>11 DEF get_status_flag, new

-----------------------------------------------------------------------------
\* A condition stored in a flag is 0 or 1.
LEMMA Bool2BitType == \A p \in BOOLEAN : Bool2Bit(p) \in Bool01
  BY DEF Bool2Bit, Bool01

\* A flag read from the status word is 0 or 1 (get_status_flag, cpu.cpp:313-315).
LEMMA FlagIsBit == \A psw \in Byte, flag \in Flags : get_status_flag(psw, flag) \in Bool01
  BY BitType DEF get_status_flag, Flags, FLAG_S, FLAG_Z, FLAG_AC, FLAG_P, FLAG_CY, Weights

\* The status words are bytes.
LEMMA PswByteIsByte == PswByte \subseteq Byte
  BY DEF PswByte

(***************************************************************************)
(* The five flags after the updates of an arithmetic operation.            *)
(***************************************************************************)
THEOREM UpdateAllSetsFlags ==
  ASSUME NEW psw \in Byte, NEW zero \in BOOLEAN, NEW result \in Byte,
         NEW carry \in Bool01, NEW aux \in Bool01
  PROVE  LET new == update_all(psw, zero, result, carry, aux)
         IN  /\ new \in PswByte
             /\ get_status_flag(new, FLAG_Z) = Bool2Bit(zero)
             /\ get_status_flag(new, FLAG_S) = Bit(result, 128)
             /\ get_status_flag(new, FLAG_P) = Bool2Bit(calculate_parity(result))
             /\ get_status_flag(new, FLAG_CY) = carry
             /\ get_status_flag(new, FLAG_AC) = aux
<1> DEFINE z == Bool2Bit(zero)
           s == Bit(result, 128)
           p == Bool2Bit(calculate_parity(result))
           n1 == update_flag(psw, FLAG_Z, z)
           n2 == update_flag(n1, FLAG_S, s)
           n3 == update_flag(n2, FLAG_P, p)
           n4 == update_flag(n3, FLAG_CY, carry)
           n5 == update_flag(n4, FLAG_AC, aux)
<1>1. update_all(psw, zero, result, carry, aux) = n5
  BY DEF update_all, update_zsp
<1>2. z \in Bool01 /\ s \in Bool01 /\ p \in Bool01
  BY Bool2BitType, BitType DEF Weights, calculate_parity
<1>3. /\ FLAG_Z \in Flags /\ FLAG_S \in Flags /\ FLAG_P \in Flags
      /\ FLAG_CY \in Flags /\ FLAG_AC \in Flags
      /\ FLAG_Z # FLAG_S /\ FLAG_Z # FLAG_P /\ FLAG_Z # FLAG_CY /\ FLAG_Z # FLAG_AC
      /\ FLAG_S # FLAG_P /\ FLAG_S # FLAG_CY /\ FLAG_S # FLAG_AC
      /\ FLAG_P # FLAG_CY /\ FLAG_P # FLAG_AC /\ FLAG_CY # FLAG_AC
  BY DEF Flags, FLAG_S, FLAG_Z, FLAG_AC, FLAG_P, FLAG_CY
<1> HIDE DEF z, s, p
<1>4. n1 \in Byte /\ get_status_flag(n1, FLAG_Z) = z
  BY <1>2, <1>3, UpdateFlagSetsOneFlag, PswByteIsByte
<1> HIDE DEF n1
<1>5. n2 \in Byte /\ get_status_flag(n2, FLAG_Z) = z /\ get_status_flag(n2, FLAG_S) = s
  BY <1>2, <1>3, <1>4, UpdateFlagSetsOneFlag, PswByteIsByte
<1> HIDE DEF n2
<1>6. /\ n3 \in Byte /\ get_status_flag(n3, FLAG_Z) = z /\ get_status_flag(n3, FLAG_S) = s
      /\ get_status_flag(n3, FLAG_P) = p
  BY <1>2, <1>3, <1>5, UpdateFlagSetsOneFlag, PswByteIsByte
<1> HIDE DEF n3
<1>7. /\ n4 \in Byte /\ get_status_flag(n4, FLAG_Z) = z /\ get_status_flag(n4, FLAG_S) = s
      /\ get_status_flag(n4, FLAG_P) = p /\ get_status_flag(n4, FLAG_CY) = carry
  BY <1>3, <1>6, UpdateFlagSetsOneFlag, PswByteIsByte
<1> HIDE DEF n4
<1>8. /\ n5 \in PswByte /\ get_status_flag(n5, FLAG_Z) = z /\ get_status_flag(n5, FLAG_S) = s
      /\ get_status_flag(n5, FLAG_P) = p /\ get_status_flag(n5, FLAG_CY) = carry
      /\ get_status_flag(n5, FLAG_AC) = aux
  BY <1>3, <1>7, UpdateFlagSetsOneFlag
<1> HIDE DEF n5
<1> QED
  BY <1>1, <1>8 DEF z, s, p

(***************************************************************************)
(* ADD and ADI (cpu.cpp:528-544 without carry): the accumulator and the    *)
(* carry flag together hold the sum, and the other flags describe it.      *)
(***************************************************************************)
THEOREM AddIsAddition ==
  ASSUME NEW a \in Byte, NEW data \in Byte, NEW psw \in Byte
  PROVE  LET r == add(a, data, psw, FALSE)
         IN  /\ r.a \in Byte
             /\ r.psw \in PswByte
             /\ r.a + 256 * get_status_flag(r.psw, FLAG_CY) = a + data
             /\ get_status_flag(r.psw, FLAG_Z) = 1 <=> r.a = 0
             /\ get_status_flag(r.psw, FLAG_AC) = 1 <=> (a % 16) + (data % 16) >= 16
<1> DEFINE sum == binary_add(a, data, 0)
<1>1. 0 \in Bool01
  BY DEF Bool01
<1>2. /\ sum.res \in Byte /\ sum.carry \in Bool01 /\ sum.aux_carry \in Bool01
      /\ a + data + 0 = sum.res + 256 * sum.carry
      /\ sum.aux_carry = 1 <=> (a % 16) + (data % 16) + 0 >= 16
  BY <1>1, BinaryAddIsAddition
<1>3. /\ add(a, data, psw, FALSE).a = sum.res
      /\ add(a, data, psw, FALSE).psw
           = update_all(psw, sum.res = 0, sum.res, sum.carry, sum.aux_carry)
  BY DEF add
<1> DEFINE zero == sum.res = 0
           new == update_all(psw, zero, sum.res, sum.carry, sum.aux_carry)
<1>4. zero \in BOOLEAN
  OBVIOUS
<1>5. Bool2Bit(zero) = 1 <=> sum.res = 0
  BY DEF Bool2Bit
<1>6. add(a, data, psw, FALSE).a = sum.res /\ add(a, data, psw, FALSE).psw = new
  BY <1>3
<1> HIDE DEF sum, zero
<1>7. /\ new \in PswByte
      /\ get_status_flag(new, FLAG_Z) = Bool2Bit(zero)
      /\ get_status_flag(new, FLAG_CY) = sum.carry
      /\ get_status_flag(new, FLAG_AC) = sum.aux_carry
  BY <1>2, <1>4, UpdateAllSetsFlags
<1> HIDE DEF new
<1>8. sum.res + 256 * sum.carry = a + data
  BY <1>2 DEF Byte, Bool01
<1>9. (a % 16) + (data % 16) + 0 = (a % 16) + (data % 16)
  BY DEF Byte
<1> QED
  BY <1>2, <1>5, <1>6, <1>7, <1>8, <1>9

(***************************************************************************)
(* The zero flag and the carry flag of a status word update_all returns,   *)
(* in the form the operations use it.                                      *)
(***************************************************************************)
LEMMA UpdateAllType ==
  ASSUME NEW psw \in Byte, NEW zero \in BOOLEAN, NEW result \in Byte,
         NEW carry \in Bool01, NEW aux \in Bool01
  PROVE  update_all(psw, zero, result, carry, aux) \in PswByte
  BY UpdateAllSetsFlags

\* (uint8_t)(~data + 1) is a byte.
LEMMA NegateType == \A data \in Byte : Negate(data) \in Byte
  BY DEF Negate, Byte

\* 0 and 1 are bits.
LEMMA ZeroOneAreBits == 0 \in Bool01 /\ 1 \in Bool01
  BY DEF Bool01

(***************************************************************************)
(* CMP and CPI (cpu.cpp:395-408): the zero flag says equal, the carry flag *)
(* says below, and the accumulator is kept.                                *)
(***************************************************************************)
THEOREM CmpIsComparison ==
  ASSUME NEW a \in Byte, NEW data \in Byte, NEW psw \in Byte
  PROVE  LET r == cmp(a, data, psw)
         IN  /\ r.a = a
             /\ r.psw \in PswByte
             /\ get_status_flag(r.psw, FLAG_Z) = 1 <=> a = data
             /\ get_status_flag(r.psw, FLAG_CY) = 1 <=> a < data
<1> DEFINE result == binary_add(a, Negate(data), 0).res
           aux == Xor3(Bit(a, 16), Bit(result, 16), Bit(data, 16))
           zero == a = data
           below == a < data
           new == update_all(psw, zero, result, Bool2Bit(below), aux)
<1>1. cmp(a, data, psw).a = a /\ cmp(a, data, psw).psw = new
  BY DEF cmp
<1>2. result \in Byte
  BY NegateType, ZeroOneAreBits, BinaryAddIsAddition
<1>3. aux \in Bool01
  BY <1>2, BitType, FullAdder DEF Weights
<1>4. zero \in BOOLEAN /\ below \in BOOLEAN
  OBVIOUS
<1>5. /\ Bool2Bit(zero) = 1 <=> a = data
      /\ Bool2Bit(below) = 1 <=> a < data
  BY DEF Bool2Bit
<1> HIDE DEF result, aux, zero, below
<1>6. Bool2Bit(below) \in Bool01
  BY <1>4, Bool2BitType
<1>7. /\ new \in PswByte
      /\ get_status_flag(new, FLAG_Z) = Bool2Bit(zero)
      /\ get_status_flag(new, FLAG_CY) = Bool2Bit(below)
  BY <1>2, <1>3, <1>4, <1>6, UpdateAllSetsFlags
<1> HIDE DEF new
<1> QED
  BY <1>1, <1>5, <1>7

(***************************************************************************)
(* SUB, SUI and, with the borrow added to the operand, SBB and SBI         *)
(* (cpu.cpp:546-563): the accumulator is right, but the zero flag tells    *)
(* whether the OLD accumulator was zero, because the result is compared    *)
(* with the operand that the call has just negated.                        *)
(***************************************************************************)
THEOREM SubResultAndZeroFlag ==
  ASSUME NEW a \in Byte, NEW data \in Byte, NEW psw \in Byte
  PROVE  LET r == sub(a, data, psw, FALSE)
         IN  /\ r.a = (a - data) % 256
             /\ r.psw \in PswByte
             /\ get_status_flag(r.psw, FLAG_Z) = 1 <=> a = 0
             /\ get_status_flag(r.psw, FLAG_CY) = 1 <=> r.a < Negate(data)
<1> DEFINE negated == Negate(data)
           sum == binary_add(a, negated, 0)
           zero == sum.res = negated
           below == sum.res < negated
           new == update_all(psw, zero, sum.res, Bool2Bit(below), sum.aux_carry)
<1>1. sub(a, data, psw, FALSE).a = sum.res /\ sub(a, data, psw, FALSE).psw = new
  BY DEF sub
<1>2. negated \in Byte
  BY NegateType
<1> HIDE DEF negated
<1>3. /\ sum.res \in Byte /\ sum.carry \in Bool01 /\ sum.aux_carry \in Bool01
      /\ a + negated + 0 = sum.res + 256 * sum.carry
  BY <1>2, ZeroOneAreBits, BinaryAddIsAddition
<1> HIDE DEF sum
<1>4. zero \in BOOLEAN /\ below \in BOOLEAN
  OBVIOUS
<1>5. /\ Bool2Bit(zero) = 1 <=> sum.res = negated
      /\ Bool2Bit(below) = 1 <=> sum.res < negated
  BY DEF Bool2Bit
<1> HIDE DEF zero, below
<1>6. Bool2Bit(below) \in Bool01
  BY <1>4, Bool2BitType
<1>7. /\ new \in PswByte
      /\ get_status_flag(new, FLAG_Z) = Bool2Bit(zero)
      /\ get_status_flag(new, FLAG_CY) = Bool2Bit(below)
  BY <1>3, <1>4, <1>6, UpdateAllSetsFlags
<1> HIDE DEF new
<1>8. negated = (256 - data) % 256
  BY DEF negated, Negate
<1>9. /\ sum.res = negated <=> a = 0
      /\ sum.res = (a - data) % 256
  <2> DEFINE r == sum.res
             c == sum.carry
  <2>1. /\ a \in 0..255 /\ data \in 0..255 /\ negated \in 0..255
        /\ r \in 0..255 /\ c \in 0..1
        /\ a + negated + 0 = r + 256 * c
    BY <1>2, <1>3 DEF Byte, Bool01
  <2> HIDE DEF r, c
  <2>2. r = negated <=> a = 0
    BY <2>1
  <2>3. r = (a - data) % 256
    BY <2>1, <1>8
  <2> QED
    BY <2>2, <2>3 DEF r
<1> QED
  BY <1>1, <1>5, <1>7, <1>9 DEF negated

-----------------------------------------------------------------------------
(***************************************************************************)
(* Typing of every operation: bytes and status words in, the same out.     *)
(***************************************************************************)
LEMMA AddType ==
  ASSUME NEW a \in Byte, NEW data \in Byte, NEW psw \in Byte, NEW with \in BOOLEAN
  PROVE  add(a, data, psw, with).a \in Byte /\ add(a, data, psw, with).psw \in PswByte
<1> DEFINE addend == IF with THEN (data + get_status_flag(psw, FLAG_CY)) % 256 ELSE data
           sum == binary_add(a, addend, 0)
           zero == sum.res = 0
<1>1. get_status_flag(psw, FLAG_CY) \in Bool01
  BY FlagIsBit DEF Flags
<1>2. addend \in Byte
  BY <1>1 DEF Byte, Bool01
<1> HIDE DEF addend
<1>3. sum.res \in Byte /\ sum.carry \in Bool01 /\ sum.aux_carry \in Bool01
  BY <1>2, ZeroOneAreBits, BinaryAddIsAddition
<1>4. zero \in BOOLEAN
  OBVIOUS
<1>5. /\ add(a, data, psw, with).a = sum.res
      /\ add(a, data, psw, with).psw
           = update_all(psw, zero, sum.res, sum.carry, sum.aux_carry)
  BY DEF add, addend
<1> HIDE DEF sum, zero
<1> QED
  BY <1>3, <1>4, <1>5, UpdateAllType

\* SUB and SBB return a byte and a status word.
LEMMA SubType ==
  ASSUME NEW a \in Byte, NEW data \in Byte, NEW psw \in Byte, NEW with \in BOOLEAN
  PROVE  sub(a, data, psw, with).a \in Byte /\ sub(a, data, psw, with).psw \in PswByte
<1> DEFINE subtrahend == IF with THEN (data + get_status_flag(psw, FLAG_CY)) % 256 ELSE data
           negated == Negate(subtrahend)
           sum == binary_add(a, negated, 0)
           zero == sum.res = negated
           below == sum.res < negated
           cy == Bool2Bit(below)
<1>1. get_status_flag(psw, FLAG_CY) \in Bool01
  BY FlagIsBit DEF Flags
<1>2. subtrahend \in Byte
  BY <1>1 DEF Byte, Bool01
<1> HIDE DEF subtrahend
<1>3. negated \in Byte
  BY <1>2, NegateType
<1> HIDE DEF negated
<1>4. sum.res \in Byte /\ sum.carry \in Bool01 /\ sum.aux_carry \in Bool01
  BY <1>3, ZeroOneAreBits, BinaryAddIsAddition
<1>5. zero \in BOOLEAN /\ cy \in Bool01
  BY DEF Bool2Bit, Bool01
<1>6. /\ sub(a, data, psw, with).a = sum.res
      /\ sub(a, data, psw, with).psw = update_all(psw, zero, sum.res, cy, sum.aux_carry)
  BY DEF sub, subtrahend, negated
<1> HIDE DEF sum, zero, cy
<1> QED
  BY <1>4, <1>5, <1>6, UpdateAllType

\* CMP returns a byte and a status word.
LEMMA CmpType ==
  ASSUME NEW a \in Byte, NEW data \in Byte, NEW psw \in Byte
  PROVE  cmp(a, data, psw).a \in Byte /\ cmp(a, data, psw).psw \in PswByte
  BY CmpIsComparison

\* The bitwise operations return bytes.
LEMMA BitOperationType ==
  ASSUME NEW a \in Byte, NEW b \in Byte
  PROVE  bit_and(a, b) \in Byte /\ bit_xor(a, b) \in Byte /\ bit_or(a, b) \in Byte
<1>1. \A x, y \in Bool01 : /\ BitAnd(x, y) \in Bool01
                           /\ BitXor(x, y) \in Bool01
                           /\ BitOr(x, y) \in Bool01
  <2>1. \A x \in Bool01 : x = 0 \/ x = 1
    BY DEF Bool01
  <2> QED
    BY <2>1 DEF BitAnd, BitXor, BitOr, Bool01
<1>2. \A w \in Weights : Bit(a, w) \in Bool01 /\ Bit(b, w) \in Bool01
  BY BitType
<1>3. bit_and(a, b) \in Byte
  <2> DEFINE x(w) == BitAnd(Bit(a, w), Bit(b, w))
  <2>1. /\ x(1) \in 0..1 /\ x(2) \in 0..1 /\ x(4) \in 0..1 /\ x(8) \in 0..1
        /\ x(16) \in 0..1 /\ x(32) \in 0..1 /\ x(64) \in 0..1 /\ x(128) \in 0..1
    BY <1>1, <1>2 DEF Bool01, Weights
  <2>2. bit_and(a, b) = x(1) + 2 * x(2) + 4 * x(4) + 8 * x(8)
                         + 16 * x(16) + 32 * x(32) + 64 * x(64) + 128 * x(128)
    BY DEF bit_and, ByBit
  <2> HIDE DEF x
  <2> QED
    BY <2>1, <2>2 DEF Byte
<1>4. bit_xor(a, b) \in Byte
  <2> DEFINE x(w) == BitXor(Bit(a, w), Bit(b, w))
  <2>1. /\ x(1) \in 0..1 /\ x(2) \in 0..1 /\ x(4) \in 0..1 /\ x(8) \in 0..1
        /\ x(16) \in 0..1 /\ x(32) \in 0..1 /\ x(64) \in 0..1 /\ x(128) \in 0..1
    BY <1>1, <1>2 DEF Bool01, Weights
  <2>2. bit_xor(a, b) = x(1) + 2 * x(2) + 4 * x(4) + 8 * x(8)
                         + 16 * x(16) + 32 * x(32) + 64 * x(64) + 128 * x(128)
    BY DEF bit_xor, ByBit
  <2> HIDE DEF x
  <2> QED
    BY <2>1, <2>2 DEF Byte
<1>5. bit_or(a, b) \in Byte
  <2> DEFINE x(w) == BitOr(Bit(a, w), Bit(b, w))
  <2>1. /\ x(1) \in 0..1 /\ x(2) \in 0..1 /\ x(4) \in 0..1 /\ x(8) \in 0..1
        /\ x(16) \in 0..1 /\ x(32) \in 0..1 /\ x(64) \in 0..1 /\ x(128) \in 0..1
    BY <1>1, <1>2 DEF Bool01, Weights
  <2>2. bit_or(a, b) = x(1) + 2 * x(2) + 4 * x(4) + 8 * x(8)
                         + 16 * x(16) + 32 * x(32) + 64 * x(64) + 128 * x(128)
    BY DEF bit_or, ByBit
  <2> HIDE DEF x
  <2> QED
    BY <2>1, <2>2 DEF Byte
<1> QED
  BY <1>3, <1>4, <1>5

\* ANA, XRA and ORA return a byte and a status word.
LEMMA BooleanOperationType ==
  ASSUME NEW a \in Byte, NEW data \in Byte, NEW psw \in Byte, NEW op \in {"and", "xor", "or"}
  PROVE  /\ boolean_operation(a, data, psw, op).a \in Byte
         /\ boolean_operation(a, data, psw, op).psw \in PswByte
<1> DEFINE result == CASE op = "and" -> bit_and(a, data)
                       [] op = "xor" -> bit_xor(a, data)
                       [] op = "or"  -> bit_or(a, data)
           aux == IF op = "and" THEN BitOr(Bit(result, 8), Bit(data, 8)) ELSE 0
           zero == result = 0
<1>1. result \in Byte
  BY BitOperationType
<1>2. /\ boolean_operation(a, data, psw, op).a = result
      /\ boolean_operation(a, data, psw, op).psw = update_all(psw, zero, result, 0, aux)
  BY DEF boolean_operation
<1> HIDE DEF result
<1>3. aux \in Bool01
  <2>1. Bit(result, 8) \in {0, 1} /\ Bit(data, 8) \in {0, 1}
    BY <1>1 DEF Bit, Byte
  <2> QED
    BY <2>1 DEF BitOr, Bool01
<1>4. zero \in BOOLEAN
  OBVIOUS
<1> HIDE DEF aux, zero
<1> QED
  BY <1>1, <1>2, <1>3, <1>4, ZeroOneAreBits, UpdateAllType

\* One update leaves a status word.
LEMMA FlagUpdateType ==
  ASSUME NEW psw \in Byte, NEW flag \in Flags, NEW is \in Bool01
  PROVE  update_flag(psw, flag, is) \in PswByte
  BY UpdateFlagSetsOneFlag

\* What POP PSW stores is a status word: the mask is what every update begins
\* with.
LEMMA MaskPswType == ASSUME NEW psw \in Byte PROVE MaskPsw(psw) \in PswByte
<1> DEFINE masked == MaskPsw(psw)
           c == Bit(masked, 1)
<1>1. /\ Bit(psw, 32) \in Bool01 /\ Bit(psw, 8) \in Bool01 /\ Bit(psw, 2) \in Bool01
  BY BitType DEF Weights
<1>2. masked \in Int
  BY <1>1 DEF MaskPsw, Bool01, Byte
<1>3. update_flag(psw, FLAG_CY, c) = masked - 1 * Bit(masked, 1) + 1 * c
  BY DEF update_flag, FLAG_CY
<1> HIDE DEF masked
<1>4. c \in Bool01 /\ c \in Int
  BY <1>2 DEF Bit, Bool01
<1>5. update_flag(psw, FLAG_CY, c) = masked
  BY <1>2, <1>3, <1>4
<1>6. update_flag(psw, FLAG_CY, c) \in PswByte
  BY <1>4, FlagUpdateType DEF Flags
<1> QED BY <1>5, <1>6 DEF masked

\* An update of the carry flag leaves a status word.
LEMMA CyUpdateType ==
  ASSUME NEW psw \in Byte, NEW is \in Bool01
  PROVE  update_flag(psw, FLAG_CY, is) \in PswByte
  BY FlagUpdateType DEF Flags

\* The rotations return a byte and a status word.
LEMMA RotateType ==
  ASSUME NEW a \in Byte, NEW psw \in Byte, NEW through_carry \in BOOLEAN
  PROVE  /\ rotate_left(a, psw, through_carry).a \in Byte
         /\ rotate_left(a, psw, through_carry).psw \in PswByte
         /\ rotate_right(a, psw, through_carry).a \in Byte
         /\ rotate_right(a, psw, through_carry).psw \in PswByte
<1> DEFINE cy == get_status_flag(psw, FLAG_CY)
<1>1. cy \in Bool01 /\ Bit(a, 1) \in Bool01 /\ Bit(a, 128) \in Bool01
  BY FlagIsBit, BitType DEF Flags, Weights
<1>2. \A bit \in Bool01 : ((2 * a) % 256) + bit \in Byte
  BY DEF Byte, Bool01
<1>3. \A bit \in Bool01 : (a \div 2) + 128 * bit \in Byte
  BY DEF Byte, Bool01
<1>4. rotate_left(a, psw, through_carry).a \in Byte
  BY <1>1, <1>2 DEF rotate_left
<1>5. rotate_right(a, psw, through_carry).a \in Byte
  BY <1>1, <1>3 DEF rotate_right
<1>6. rotate_left(a, psw, through_carry).psw \in PswByte
  BY <1>1, CyUpdateType DEF rotate_left
<1>7. rotate_right(a, psw, through_carry).psw \in PswByte
  BY <1>1, CyUpdateType DEF rotate_right
<1> QED
  BY <1>4, <1>5, <1>6, <1>7

\* CMA returns a byte, CMC and STC a status word.
LEMMA ComplementType ==
  ASSUME NEW a \in Byte, NEW psw \in Byte
  PROVE  cma(a) \in Byte /\ cmc(psw) \in PswByte /\ stc(psw) \in PswByte
<1>1. cma(a) \in Byte
  BY DEF cma, Byte
<1>2. 1 - get_status_flag(psw, FLAG_CY) \in Bool01
  <2>1. get_status_flag(psw, FLAG_CY) \in Bool01
    BY FlagIsBit DEF Flags
  <2> QED
    BY <2>1 DEF Bool01
<1> QED
  BY <1>1, <1>2, CyUpdateType, ZeroOneAreBits DEF cmc, stc

\* DAA returns a byte and a status word.
LEMMA DaaType ==
  ASSUME NEW a \in Byte, NEW psw \in Byte
  PROVE  daa(a, psw).a \in Byte /\ daa(a, psw).psw \in PswByte
<1> DEFINE low  == IF a % 16 > 9 \/ get_status_flag(psw, FLAG_AC) = 1
                   THEN binary_add(a, 6, 0)
                   ELSE [res |-> a, carry |-> 0, aux_carry |-> 0]
           high == IF low.res \div 16 > 9 \/ get_status_flag(psw, FLAG_CY) = 1
                   THEN binary_add(low.res, 96, 0)
                   ELSE [res |-> low.res, carry |-> 0, aux_carry |-> 0]
           zero == high.res = 0
<1>1. 6 \in Byte /\ 96 \in Byte
  BY DEF Byte
<1>2. low.res \in Byte /\ low.aux_carry \in Bool01
  BY <1>1, ZeroOneAreBits, BinaryAddIsAddition
<1>3. /\ daa(a, psw).a = high.res
      /\ daa(a, psw).psw = update_all(psw, zero, high.res, high.carry, low.aux_carry)
  BY DEF daa
<1> HIDE DEF low
<1>4. high.res \in Byte /\ high.carry \in Bool01
  BY <1>1, <1>2, ZeroOneAreBits, BinaryAddIsAddition
<1>5. zero \in BOOLEAN
  OBVIOUS
<1> HIDE DEF high, zero
<1> QED
  BY <1>2, <1>3, <1>4, <1>5, UpdateAllType

\* INR and DCR store a byte, and their auxiliary carry is a bit.
LEMMA InrType ==
  ASSUME NEW x \in Byte, NEW psw \in Byte, NEW decrement \in BOOLEAN
  PROVE  /\ inr_sum(x, decrement).res \in Byte
         /\ inr_sum(x, decrement).aux_carry \in Bool01
<1>1. (IF decrement THEN 255 ELSE 1) \in Byte
  BY DEF Byte
<1> QED
  BY <1>1, ZeroOneAreBits, BinaryAddIsAddition DEF inr_sum

\* INR and DCR leave a status word.
LEMMA InrFlagsType ==
  ASSUME NEW psw \in Byte, NEW result \in Byte, NEW decrement \in BOOLEAN, NEW aux \in Bool01
  PROVE  inr_flags(psw, result, decrement, aux) \in PswByte
<1> DEFINE zero == result = 0
           n1 == update_flag(psw, FLAG_Z, Bool2Bit(zero))
           n2 == update_flag(n1, FLAG_S, Bit(result, 128))
           n3 == update_flag(n2, FLAG_P, Bool2Bit(calculate_parity(result)))
           filled == result % 16 # 15
           ac == IF decrement THEN Bool2Bit(filled) ELSE aux
<1>1. inr_flags(psw, result, decrement, aux) = update_flag(n3, FLAG_AC, ac)
  BY DEF inr_flags, update_zsp
<1>2. /\ Bool2Bit(zero) \in Bool01 /\ ac \in Bool01
      /\ Bool2Bit(calculate_parity(result)) \in Bool01
  BY DEF Bool2Bit, Bool01
<1>3. Bit(result, 128) \in Bool01
  BY BitType DEF Weights
<1>4. FLAG_Z \in Flags /\ FLAG_S \in Flags /\ FLAG_P \in Flags /\ FLAG_AC \in Flags
  BY DEF Flags
<1> HIDE DEF zero, ac
<1>5. n1 \in Byte
  BY <1>2, <1>4, FlagUpdateType, PswByteIsByte
<1> HIDE DEF n1
<1>6. n2 \in Byte
  BY <1>3, <1>4, <1>5, FlagUpdateType, PswByteIsByte
<1> HIDE DEF n2
<1>7. n3 \in Byte
  BY <1>2, <1>4, <1>6, FlagUpdateType, PswByteIsByte
<1> HIDE DEF n3
<1> QED
  BY <1>1, <1>2, <1>4, <1>7, FlagUpdateType

\* INR and DCR: zero, sign and parity describe the byte given as the result, and
\* the carry flag survives.
LEMMA InrFlagsDescribe ==
  ASSUME NEW psw \in Byte, NEW result \in Byte, NEW decrement \in BOOLEAN, NEW aux \in Bool01,
         NEW new, new = inr_flags(psw, result, decrement, aux)
  PROVE  /\ get_status_flag(new, FLAG_Z) = Bool2Bit(result = 0)
         /\ get_status_flag(new, FLAG_S) = Bit(result, 128)
         /\ get_status_flag(new, FLAG_P) = Bool2Bit(calculate_parity(result))
         /\ get_status_flag(new, FLAG_CY) = get_status_flag(psw, FLAG_CY)
<1> DEFINE z == Bool2Bit(result = 0)
           sign == Bit(result, 128)
           p == Bool2Bit(calculate_parity(result))
           ac == IF decrement THEN Bool2Bit(result % 16 # 15) ELSE aux
           n1 == update_flag(psw, FLAG_Z, z)
           n2 == update_flag(n1, FLAG_S, sign)
           n3 == update_flag(n2, FLAG_P, p)
<1>1. new = update_flag(n3, FLAG_AC, ac)
  BY DEF inr_flags, update_zsp
<1>2. z \in Bool01 /\ p \in Bool01 /\ ac \in Bool01
  BY DEF Bool2Bit, Bool01
<1>3. sign \in Bool01
  BY BitType DEF Weights
<1> HIDE DEF z, sign, p, ac
<1>4. /\ FLAG_Z \in Flags /\ FLAG_S \in Flags /\ FLAG_P \in Flags
      /\ FLAG_AC \in Flags /\ FLAG_CY \in Flags
      /\ FLAG_S \notin {FLAG_Z, FLAG_P, FLAG_AC, FLAG_CY}
      /\ FLAG_Z \notin {FLAG_P, FLAG_AC, FLAG_CY}
      /\ FLAG_P \notin {FLAG_AC, FLAG_CY} /\ FLAG_AC # FLAG_CY
  BY DEF Flags, FLAG_Z, FLAG_S, FLAG_P, FLAG_AC, FLAG_CY
<1>5. /\ n1 \in Byte /\ get_status_flag(n1, FLAG_Z) = z
      /\ get_status_flag(n1, FLAG_CY) = get_status_flag(psw, FLAG_CY)
  BY <1>2, <1>4, UpdateFlagSetsOneFlag, PswByteIsByte
<1> HIDE DEF n1
<1>6. /\ n2 \in Byte /\ get_status_flag(n2, FLAG_S) = sign
      /\ get_status_flag(n2, FLAG_Z) = z
      /\ get_status_flag(n2, FLAG_CY) = get_status_flag(psw, FLAG_CY)
  BY <1>3, <1>4, <1>5, UpdateFlagSetsOneFlag, PswByteIsByte
<1> HIDE DEF n2
<1>7. /\ n3 \in Byte /\ get_status_flag(n3, FLAG_P) = p
      /\ get_status_flag(n3, FLAG_S) = sign /\ get_status_flag(n3, FLAG_Z) = z
      /\ get_status_flag(n3, FLAG_CY) = get_status_flag(psw, FLAG_CY)
  BY <1>2, <1>4, <1>6, UpdateFlagSetsOneFlag, PswByteIsByte
<1> HIDE DEF n3
<1>8. /\ get_status_flag(new, FLAG_P) = p
      /\ get_status_flag(new, FLAG_S) = sign /\ get_status_flag(new, FLAG_Z) = z
      /\ get_status_flag(new, FLAG_CY) = get_status_flag(psw, FLAG_CY)
  BY <1>1, <1>2, <1>4, <1>7, UpdateFlagSetsOneFlag
<1> QED BY <1>8 DEF z, sign, p

\* A word is its two bytes.
LEMMA WordParts ==
  ASSUME NEW x \in Word
  PROVE  /\ LowByte(x) \in Byte
         /\ HighByte(x) \in Byte
         /\ MakeWord(LowByte(x), HighByte(x)) = x
<1>1. x \in Int /\ 0 <= x /\ x < 65536
  BY DEF Word, TwoTo16
<1>2. x % 256 \in 0..255 /\ x \div 256 \in Int
  BY <1>1
<1>3. 0 <= x \div 256 /\ x \div 256 < 256
  BY <1>1
<1>4. 256 * (x \div 256) + (x % 256) = x
  BY <1>1
<1>5. x \div 256 \in 0..255
  BY <1>2, <1>3
<1> QED
  BY <1>2, <1>4, <1>5 DEF LowByte, HighByte, MakeWord, Byte

\* Two bytes make a word.
LEMMA MakeWordType ==
  ASSUME NEW low \in Byte, NEW high \in Byte
  PROVE  MakeWord(low, high) \in Word
<1>1. low \in 0..255 /\ high \in 0..255
  BY DEF Byte
<1>2. 256 * high + low \in Int /\ 0 <= 256 * high + low /\ 256 * high + low <= 65535
  BY <1>1
<1>3. TwoTo16 - 1 = 65535
  BY DEF TwoTo16
<1> QED
  BY <1>2, <1>3 DEF MakeWord, Word

(***************************************************************************)
(* DAD (cpu.cpp:620-629): HL and the carry flag hold the 17-bit sum of HL  *)
(* and the register pair, from two chained byte additions.                 *)
(***************************************************************************)
THEOREM DadIsAddition ==
  ASSUME NEW hl \in Word, NEW rp \in Word, NEW psw \in Byte
  PROVE  LET r == dad(hl, rp, psw)
         IN  /\ r.hl \in Word
             /\ r.psw \in PswByte
             /\ r.hl + TwoTo16 * get_status_flag(r.psw, FLAG_CY) = hl + rp
<1> DEFINE al == LowByte(hl)   ah == HighByte(hl)
           bl == LowByte(rp)   bh == HighByte(rp)
           low == binary_add(al, bl, 0)
           high == binary_add(ah, bh, low.carry)
           l == low.res   h == high.res   c == low.carry   cy == high.carry
<1>1. /\ dad(hl, rp, psw).hl = MakeWord(l, h)
      /\ dad(hl, rp, psw).psw = update_flag(psw, FLAG_CY, cy)
  BY DEF dad
<1>2. /\ al \in Byte /\ ah \in Byte /\ bl \in Byte /\ bh \in Byte
      /\ MakeWord(al, ah) = hl /\ MakeWord(bl, bh) = rp
  BY WordParts
<1> HIDE DEF al, ah, bl, bh
<1>3. l \in Byte /\ c \in Bool01 /\ al + bl + 0 = l + 256 * c
  BY <1>2, ZeroOneAreBits, BinaryAddIsAddition
<1> HIDE DEF low
<1>4. h \in Byte /\ cy \in Bool01 /\ ah + bh + c = h + 256 * cy
  BY <1>2, <1>3, BinaryAddIsAddition
<1> HIDE DEF high, l, h, c, cy
<1>5. MakeWord(l, h) \in Word
  BY <1>3, <1>4, MakeWordType
<1>6. /\ update_flag(psw, FLAG_CY, cy) \in PswByte
      /\ get_status_flag(update_flag(psw, FLAG_CY, cy), FLAG_CY) = cy
  BY <1>4, UpdateFlagSetsOneFlag DEF Flags
<1>7. MakeWord(l, h) + TwoTo16 * cy = hl + rp
  <2>1. /\ al \in 0..255 /\ ah \in 0..255 /\ bl \in 0..255 /\ bh \in 0..255
        /\ l \in 0..255 /\ h \in 0..255 /\ c \in 0..1 /\ cy \in 0..1
        /\ hl = 256 * ah + al /\ rp = 256 * bh + bl
    BY <1>2, <1>3, <1>4 DEF Byte, Bool01, MakeWord
  <2> QED
    BY <2>1, <1>3, <1>4 DEF MakeWord, TwoTo16
<1> QED
  BY <1>1, <1>5, <1>6, <1>7

(***************************************************************************)
(* INX and DCX (cpu.cpp:604-618): the register pair plus or minus one,     *)
(* wrapping at 16 bits, although each byte is added on its own.            *)
(***************************************************************************)
THEOREM InxIsIncrement ==
  ASSUME NEW rp \in Word
  PROVE  /\ inx(rp, FALSE) \in Word
         /\ inx(rp, TRUE) \in Word
         /\ \E carry \in Bool01 : inx(rp, FALSE) + TwoTo16 * carry = rp + 1
         /\ \E carry \in Bool01 : inx(rp, TRUE) + TwoTo16 * carry = rp + (TwoTo16 - 1)
<1> DEFINE al == LowByte(rp)   ah == HighByte(rp)
<1>1. 255 \in Byte /\ 1 \in Byte /\ 0 \in Byte
  BY DEF Byte
<1>2. al \in Byte /\ ah \in Byte /\ MakeWord(al, ah) = rp
  BY WordParts
<1> HIDE DEF al, ah
<1>3. /\ inx(rp, FALSE) \in Word
      /\ \E carry \in Bool01 : inx(rp, FALSE) + TwoTo16 * carry = rp + 1
  <2> DEFINE low == binary_add(al, 1, 0)
             high == binary_add(ah, 0, low.carry)
             l == low.res   h == high.res   c == low.carry   cy == high.carry
  <2>1. inx(rp, FALSE) = MakeWord(l, h)
    BY DEF inx, al, ah
  <2>2. l \in Byte /\ c \in Bool01 /\ al + 1 + 0 = l + 256 * c
    BY <1>1, <1>2, ZeroOneAreBits, BinaryAddIsAddition
  <2> HIDE DEF low
  <2>3. h \in Byte /\ cy \in Bool01 /\ ah + 0 + c = h + 256 * cy
    BY <1>1, <1>2, <2>2, BinaryAddIsAddition
  <2> HIDE DEF high, l, h, c, cy
  <2>4. MakeWord(l, h) \in Word
    BY <2>2, <2>3, MakeWordType
  <2>5. MakeWord(l, h) + TwoTo16 * cy = rp + 1
    <3>1. /\ al \in 0..255 /\ ah \in 0..255 /\ l \in 0..255 /\ h \in 0..255
          /\ c \in 0..1 /\ cy \in 0..1 /\ rp = 256 * ah + al
      BY <1>2, <2>2, <2>3 DEF Byte, Bool01, MakeWord
    <3> QED
      BY <3>1, <2>2, <2>3 DEF MakeWord, TwoTo16
  <2> QED
    BY <2>1, <2>3, <2>4, <2>5
<1>4. /\ inx(rp, TRUE) \in Word
      /\ \E carry \in Bool01 : inx(rp, TRUE) + TwoTo16 * carry = rp + (TwoTo16 - 1)
  <2> DEFINE low == binary_add(al, 255, 0)
             high == binary_add(ah, 255, low.carry)
             l == low.res   h == high.res   c == low.carry   cy == high.carry
  <2>1. inx(rp, TRUE) = MakeWord(l, h)
    BY DEF inx, al, ah
  <2>2. l \in Byte /\ c \in Bool01 /\ al + 255 + 0 = l + 256 * c
    BY <1>1, <1>2, ZeroOneAreBits, BinaryAddIsAddition
  <2> HIDE DEF low
  <2>3. h \in Byte /\ cy \in Bool01 /\ ah + 255 + c = h + 256 * cy
    BY <1>1, <1>2, <2>2, BinaryAddIsAddition
  <2> HIDE DEF high, l, h, c, cy
  <2>4. MakeWord(l, h) \in Word
    BY <2>2, <2>3, MakeWordType
  <2>5. MakeWord(l, h) + TwoTo16 * cy = rp + (TwoTo16 - 1)
    <3>1. /\ al \in 0..255 /\ ah \in 0..255 /\ l \in 0..255 /\ h \in 0..255
          /\ c \in 0..1 /\ cy \in 0..1 /\ rp = 256 * ah + al
      BY <1>2, <2>2, <2>3 DEF Byte, Bool01, MakeWord
    <3> QED
      BY <3>1, <2>2, <2>3 DEF MakeWord, TwoTo16
  <2> QED
    BY <2>1, <2>3, <2>4, <2>5
<1> QED
  BY <1>3, <1>4

-----------------------------------------------------------------------------
\* Bytes and bits as integers.
LEMMA ByteRange == \A b \in Byte : b \in Int /\ 0 <= b /\ b < 256
BY DEF Byte

LEMMA BitRange == \A b \in Bool01 : b \in Int /\ (b = 0 \/ b = 1)
BY DEF Bool01

\* Quotient and remainder of a number that is given by them.
LEMMA Divided16 ==
  ASSUME NEW q \in Int, NEW r \in Int, 0 <= r, r < 16, NEW z \in Int, z = 16 * q + r
  PROVE  z \div 16 = q /\ z % 16 = r
OBVIOUS

LEMMA Divided100 ==
  ASSUME NEW q \in Int, NEW r \in Int, 0 <= r, r < 100, NEW z \in Int, z = 100 * q + r
  PROVE  z \div 100 = q /\ z % 100 = r
OBVIOUS

LEMMA Divided256 ==
  ASSUME NEW q \in Int, NEW r \in Int, 0 <= r, r < 256, NEW z \in Int, z = 256 * q + r
  PROVE  z \div 256 = q /\ z % 256 = r
OBVIOUS

\* A number below 512 in nine bits.
LEMMA NineBits ==
  ASSUME NEW res \in Byte, NEW carry \in Bool01, NEW z \in Int, z = res + 256 * carry
  PROVE  res = z % 256 /\ carry = z \div 256
<1>1. /\ res \in Int /\ 0 <= res /\ res < 256 /\ carry \in Int
      /\ z = 256 * carry + res
  BY DEF Byte, Bool01
<1> QED BY <1>1, Divided256

(***************************************************************************)
(* DAA (cpu.cpp:621-647): six is added to the low digit and the carry of   *)
(* that addition is dropped, then 96 when the high digit or the carry flag *)
(* ask for it, and the carry flag is replaced by what that leaves.         *)
(***************************************************************************)
THEOREM DaaAddsSixes ==
  ASSUME NEW a \in Byte, NEW psw \in Byte
  PROVE  LET low  == IF a % 16 > 9 \/ get_status_flag(psw, FLAG_AC) = 1
                     THEN (a + 6) % 256 ELSE a
             high == IF low \div 16 > 9 \/ get_status_flag(psw, FLAG_CY) = 1
                     THEN low + 96 ELSE low
             r == daa(a, psw)
         IN  r.a = high % 256 /\ get_status_flag(r.psw, FLAG_CY) = high \div 256
<1> DEFINE low  == IF a % 16 > 9 \/ get_status_flag(psw, FLAG_AC) = 1
                   THEN binary_add(a, 6, 0)
                   ELSE [res |-> a, carry |-> 0, aux_carry |-> 0]
           high == IF low.res \div 16 > 9 \/ get_status_flag(psw, FLAG_CY) = 1
                   THEN binary_add(low.res, 96, 0)
                   ELSE [res |-> low.res, carry |-> 0, aux_carry |-> 0]
           zero == high.res = 0
           low_sum == IF a % 16 > 9 \/ get_status_flag(psw, FLAG_AC) = 1
                      THEN (a + 6) % 256 ELSE a
           high_sum == IF low_sum \div 16 > 9 \/ get_status_flag(psw, FLAG_CY) = 1
                       THEN low_sum + 96 ELSE low_sum
<1>1. 6 \in Byte /\ 96 \in Byte
  BY DEF Byte
<1>2. low.res \in Byte /\ low.aux_carry \in Bool01 /\ low.res = low_sum
  <2>1. ASSUME NEW sum, sum = binary_add(a, 6, 0)
        PROVE  sum.res \in Byte /\ sum.aux_carry \in Bool01 /\ sum.res = (a + 6) % 256
    <3>1. /\ sum.res \in Byte /\ sum.carry \in Bool01 /\ sum.aux_carry \in Bool01
          /\ a + 6 + 0 = sum.res + 256 * sum.carry
      BY <1>1, <2>1, ZeroOneAreBits, BinaryAddIsAddition
    <3>2. a + 6 \in Int /\ a + 6 + 0 = a + 6 BY DEF Byte
    <3> QED BY <3>1, <3>2, NineBits
  <2> QED BY <2>1, ZeroOneAreBits
<1>3. /\ daa(a, psw).a = high.res
      /\ daa(a, psw).psw = update_all(psw, zero, high.res, high.carry, low.aux_carry)
  BY DEF daa
<1> HIDE DEF low
<1>4. /\ high.res \in Byte /\ high.carry \in Bool01
      /\ high.res = high_sum % 256 /\ high.carry = high_sum \div 256
  <2>1. ASSUME NEW sum, sum = binary_add(low.res, 96, 0)
        PROVE  /\ sum.res \in Byte /\ sum.carry \in Bool01
               /\ sum.res = (low.res + 96) % 256 /\ sum.carry = (low.res + 96) \div 256
    <3>1. /\ sum.res \in Byte /\ sum.carry \in Bool01
          /\ low.res + 96 + 0 = sum.res + 256 * sum.carry
      BY <1>1, <1>2, <2>1, ZeroOneAreBits, BinaryAddIsAddition
    <3>2. low.res + 96 \in Int /\ low.res + 96 + 0 = low.res + 96 BY <1>2 DEF Byte
    <3> QED BY <3>1, <3>2, NineBits
  <2>2. low.res % 256 = low.res /\ low.res \div 256 = 0
    BY <1>2 DEF Byte
  <2>3. CASE low.res \div 16 > 9 \/ get_status_flag(psw, FLAG_CY) = 1
    <3>1. high_sum = low.res + 96 BY <1>2, <2>3
    <3>2. high = binary_add(low.res, 96, 0) BY <2>3
    <3> HIDE DEF high, high_sum
    <3> QED BY <2>1, <3>1, <3>2
  <2>4. CASE ~(low.res \div 16 > 9 \/ get_status_flag(psw, FLAG_CY) = 1)
    <3>1. high_sum = low.res BY <1>2, <2>4
    <3>2. high.res = low.res /\ high.carry = 0 BY <2>4
    <3> HIDE DEF high, high_sum
    <3> QED BY <1>2, <2>2, <3>1, <3>2, ZeroOneAreBits
  <2> QED BY <2>3, <2>4
<1>5. zero \in BOOLEAN
  OBVIOUS
<1> HIDE DEF high, zero
<1>6. get_status_flag(daa(a, psw).psw, FLAG_CY) = high.carry
  BY <1>2, <1>3, <1>4, <1>5, UpdateAllSetsFlags
<1> QED BY <1>3, <1>4, <1>6

-----------------------------------------------------------------------------

\* The page of an address brackets it.
LEMMA PageBounds ==
  ASSUME NEW addr \in Nat
  PROVE  /\ msn(addr) \in Nat
         /\ PAGE * msn(addr) <= addr
         /\ addr < PAGE * msn(addr) + PAGE
BY PageAssumption DEF PageAssumption, msn

\* To compare the page of an address is to compare the address.
LEMMA BelowPage ==
  ASSUME NEW addr \in Nat, NEW k \in Nat
  PROVE  msn(addr) < k <=> addr < k * PAGE
<1>1. PAGE \in Nat /\ PAGE > 0
  BY PageAssumption DEF PageAssumption
<1> DEFINE q == msn(addr)
<1>2. q \in Nat /\ PAGE * q <= addr /\ addr < PAGE * q + PAGE
  BY PageBounds
<1> HIDE DEF q
<1>3. CASE q < k
  <2>1. PICK d \in Nat : k = q + 1 + d
    BY <1>2, <1>3
  <2>2. k * PAGE = PAGE * q + PAGE + d * PAGE
    BY <1>1, <1>2, <2>1
  <2>3. d * PAGE \in Nat
    BY <1>1
  <2> QED BY <1>1, <1>2, <1>3, <2>2, <2>3 DEF q
<1>4. CASE ~(q < k)
  <2>1. PICK d \in Nat : q = k + d
    BY <1>2, <1>4
  <2>2. PAGE * q = k * PAGE + d * PAGE
    BY <1>1, <1>2, <2>1
  <2>3. d * PAGE \in Nat
    BY <1>1
  <2> QED BY <1>1, <1>2, <1>4, <2>2, <2>3 DEF q
<1> QED BY <1>3, <1>4

\* A word is a natural number.
LEMMA WordIsNat == \A x \in Word : x \in Nat
BY DEF Word, TwoTo16

\* A word is a number below 2^16.
LEMMA WordRange == ASSUME NEW w \in Word PROVE w \in Int /\ 0 <= w /\ w < 65536
BY DEF Word, TwoTo16

(***************************************************************************)
(* The index memory_read and memory_write compute from an address is one   *)
(* of the array's, whichever branch is taken (invaders.cpp:24-81).         *)
(***************************************************************************)
THEOREM AccessesStayInBounds ==
  ASSUME NEW addr \in Word
  PROVE  /\ msn(addr) < 2 => addr \in 0..INVADERS_ROM_SIZE - 1
         /\ InRam(addr) => addr - ram_offset \in 0..INVADERS_RAM_SIZE - 1
         /\ InRamMirror(addr) => addr - ram_mirror_offset \in 0..INVADERS_RAM_SIZE - 1
<1>1. addr \in Nat /\ PAGE \in Nat
  BY WordIsNat, PageAssumption DEF PageAssumption
<1>2. msn(addr) \in Nat
  BY <1>1, PageBounds
<1>3. msn(addr) < 2 <=> addr < 2 * PAGE
  BY <1>1, BelowPage
<1>4. msn(addr) < 4 <=> addr < 4 * PAGE
  BY <1>1, BelowPage
<1>5. msn(addr) < 6 <=> addr < 6 * PAGE
  BY <1>1, BelowPage
<1> QED
  BY <1>1, <1>2, <1>3, <1>4, <1>5
     DEF InRam, InRamMirror, ram_offset, ram_mirror_offset, INVADERS_ROM_SIZE, INVADERS_RAM_SIZE

\* Whatever memories of bytes a board has, a read returns a byte.
LEMMA ReadType ==
  ASSUME NEW rom \in RomImage, NEW ram \in RamImage, NEW addr \in Word
  PROVE  ReadMemory(rom, ram, addr) \in Byte
<1>1. 0 \in Byte
  BY DEF Byte
<1> QED BY <1>1, AccessesStayInBounds DEF ReadMemory, RomImage, RamImage

\* A write of a byte leaves a RAM of bytes.
LEMMA WriteType ==
  ASSUME NEW ram \in RamImage, NEW addr \in Word, NEW data \in Byte
  PROVE  memory_write(ram, addr, data) \in RamImage
BY DEF memory_write, RamImage

\* The cleared RAM is a RAM of bytes.
LEMMA EmptyRamType == EmptyRam \in RamImage
BY DEF EmptyRam, RamImage, Byte

-----------------------------------------------------------------------------
\* The shift register returns a byte.
LEMMA ShiftResultType == ShiftTypeOK => get_shift_result_r \in Byte
<1> SUFFICES ASSUME ShiftTypeOK PROVE get_shift_result_r \in Byte
    OBVIOUS
<1>1. m_shift_data \in Nat /\ m_shift_offset \in 0..7
  BY WordIsNat DEF ShiftTypeOK
<1>2. ShiftLeft(m_shift_data, m_shift_offset) \in Nat
  BY <1>1 DEF ShiftLeft
<1> DEFINE x == ShiftLeft(m_shift_data, m_shift_offset)
<1>3. x \in Nat
  BY <1>2
<1> HIDE DEF x
<1>4. (x \div 256) % 256 \in 0..255
  BY <1>3
<1> QED BY <1>4 DEF x, get_shift_result_r, Byte

\* IN reads a byte.
LEMMA IoReadType ==
  ASSUME BusTypeOK, NEW port \in Byte
  PROVE  io_read(port) \in Byte
<1>1. 0 \in Byte
  BY DEF Byte
<1> QED BY <1>1, ShiftResultType DEF BusTypeOK, io_read

\* OUT leaves the shift register a word and an offset of three bits.
LEMMA IoWriteType ==
  ASSUME ShiftTypeOK, NEW port \in Byte, NEW data \in Byte, io_write(port, data)
  PROVE  ShiftTypeOK'
<1>1. CASE set_shift_offset_w(data)
  <2>1. m_shift_offset' \in 0..7
    BY <1>1 DEF set_shift_offset_w, Byte
  <2> QED BY <1>1, <2>1 DEF set_shift_offset_w, ShiftTypeOK
<1>2. CASE shift_data_w(data)
  <2>1. m_shift_data' \in Word
    <3>1. HighByte(m_shift_data) \in Byte
      BY WordParts DEF ShiftTypeOK
    <3>2. MakeWord(HighByte(m_shift_data), data) \in Word
      BY <3>1, MakeWordType
    <3>3. m_shift_data' = MakeWord(HighByte(m_shift_data), data)
      BY <1>2, <3>1 DEF shift_data_w, MakeWord, Byte
    <3> QED BY <3>2, <3>3
  <2> QED BY <1>2, <2>1 DEF shift_data_w, ShiftTypeOK
<1>3. CASE UNCHANGED shiftVars
  BY <1>3 DEF shiftVars, ShiftTypeOK
<1> QED BY <1>1, <1>2, <1>3 DEF io_write

-----------------------------------------------------------------------------
TypeOK == CpuTypeOK /\ BusTypeOK

RegisterFile == [0..6 -> Byte]

\* What uint16_t arithmetic leaves is a word.
LEMMA WrapType == \A x \in Int : Wrap(x) \in Word
<1>1. TwoTo16 \in Int /\ TwoTo16 > 0
  BY DEF TwoTo16
<1>2. \A x \in Int : x % TwoTo16 \in Int /\ 0 <= x % TwoTo16 /\ x % TwoTo16 < TwoTo16
  BY <1>1
<1>3. \A w \in Int : 0 <= w /\ w < TwoTo16 => w \in Word
  BY <1>1 DEF Word
<1> QED BY <1>2, <1>3 DEF Wrap

\* A read of the processor returns a byte.
LEMMA MemoryReadType == TypeOK => \A addr \in Word : memory_read(addr) \in Byte
BY ReadType DEF TypeOK, BusTypeOK, memory_read

\* The instruction is a byte and what follows it is fetched from words.
LEMMA InstructionType ==
  ASSUME TypeOK
  PROVE  /\ ins \in Byte
         /\ operand_pc \in Word
         /\ d8 \in Byte /\ d16 \in Word
         /\ \A n \in 0..2 : Wrap(operand_pc + n) \in Word
         /\ interrupt_taken \in InterruptSystem
<1>1. ins \in Byte
  BY MemoryReadType DEF ins, accepting, TypeOK, CpuTypeOK, InterruptSystem
<1>2. m_pc \in Nat /\ m_pc \in Word
  BY WordIsNat DEF TypeOK, CpuTypeOK
<1>3. operand_pc \in Word
  BY <1>2, WrapType DEF operand_pc
<1>4. operand_pc \in Nat
  BY <1>3, WordIsNat
<1>5. \A n \in 0..2 : Wrap(operand_pc + n) \in Word
  BY <1>4, WrapType
<1>6. d8 \in Byte /\ memory_read(Wrap(operand_pc + 1)) \in Byte
  BY <1>3, <1>5, MemoryReadType DEF d8
<1>7. d16 \in Word
  BY <1>6, MakeWordType DEF d16
<1>8. interrupt_taken \in InterruptSystem
  <2>1. 0 \in Byte
    BY DEF Byte
  <2> QED BY <2>1 DEF interrupt_taken, TypeOK, CpuTypeOK, InterruptSystem
<1> QED BY <1>1, <1>3, <1>5, <1>6, <1>7, <1>8

\* The fields of the opcode.
LEMMA FieldType ==
  ASSUME TypeOK
  PROVE  DDD \in 0..7 /\ SSS \in 0..7 /\ RP \in 0..3 /\ CCC \in 0..7
<1>1. ins \in 0..255
  BY InstructionType DEF Byte
<1> HIDE DEF ins
<1> QED BY <1>1 DEF DDD, SSS, RP, CCC

\* The registers the fields name.
LEMMA RegisterType ==
  ASSUME TypeOK
  PROVE  /\ m_regs \in RegisterFile
         /\ \A rg \in 0..7 : rg # 6 => regs_map(rg) \in 0..6 /\ get_register(rg) \in Byte
         /\ \A rp \in 0..3 : get_register_pair(rp) \in Word
         /\ HL \in Word /\ A \in Byte
         /\ m_sp \in Word /\ m_sp \in Nat
         /\ m_psw \in PswByte /\ m_psw \in Byte
<1>1. m_regs \in RegisterFile /\ m_sp \in Word /\ m_psw \in PswByte
  BY DEF TypeOK, CpuTypeOK, RegisterFile
<1>2. \A rg \in 0..7 : rg # 6 => regs_map(rg) \in 0..6
  BY DEF regs_map, REGISTER_A
<1>3. \A rg \in 0..7 : rg # 6 => get_register(rg) \in Byte
  BY <1>1, <1>2 DEF get_register, RegisterFile
<1>4. \A i \in {1, 3, 5} : get_register_pair_from_idx(i) \in Word
  <2> TAKE i \in {1, 3, 5}
  <2>1. m_regs[i + 1] \in Byte /\ m_regs[i] \in Byte
    BY <1>1 DEF RegisterFile
  <2> QED BY <2>1, MakeWordType DEF get_register_pair_from_idx
<1>5. \A rp \in 0..3 : rp # 3 => regpairs_map(rp) \in {1, 3, 5}
  BY DEF regpairs_map
<1>6. \A rp \in 0..3 : get_register_pair(rp) \in Word
  BY <1>1, <1>4, <1>5 DEF get_register_pair
<1>7. HL \in Word
  BY <1>4 DEF HL, REGISTER_H
<1>8. A \in Byte
  BY <1>1 DEF A, REGISTER_A, RegisterFile
<1>9. m_psw \in Byte /\ m_sp \in Nat
  BY <1>1, PswByteIsByte, WordIsNat
<1> QED BY <1>1, <1>2, <1>3, <1>6, <1>7, <1>8, <1>9

\* Storing a byte in a register, or a word in a pair, leaves a register file.
LEMMA RegisterUpdateType ==
  ASSUME TypeOK
  PROVE  /\ \A r \in 0..6, x \in Byte : [m_regs EXCEPT ![r] = x] \in RegisterFile
         /\ \A rp \in 0..2, low \in Byte, high \in Byte :
              with_pair(rp, low, high) \in RegisterFile
<1>1. m_regs \in RegisterFile
  BY RegisterType
<1>2. \A r \in 0..6, x \in Byte : [m_regs EXCEPT ![r] = x] \in RegisterFile
  BY <1>1 DEF RegisterFile
<1>3. \A rp \in 0..2, low \in Byte, high \in Byte :
        with_pair(rp, low, high) \in RegisterFile
  <2> TAKE rp \in 0..2, low \in Byte, high \in Byte
  <2>1. regpairs_map(rp) \in 0..6 /\ regpairs_map(rp) + 1 \in 0..6
    BY DEF regpairs_map
  <2> QED BY <1>1, <2>1 DEF with_pair, RegisterFile
<1> QED BY <1>2, <1>3

\* A byte stored in the accumulator leaves a register file (m_regs in cpu.h:117-126).
LEMMA SetAType == ASSUME TypeOK, NEW x \in Byte, SetA(x) PROVE m_regs' \in RegisterFile
<1>1. m_regs \in RegisterFile
  BY RegisterType
<1> QED BY <1>1 DEF SetA, RegisterFile, REGISTER_A

\* The operand of an accumulator operation is a byte.
LEMMA OperandType == ASSUME TypeOK PROVE operand \in Byte
BY InstructionType, FieldType, RegisterType, MemoryReadType DEF operand

-----------------------------------------------------------------------------
\* What a handler assigns, typed.
RegistersType ==
    m_pc' \in Word /\ m_sp' \in Word /\ m_psw' \in PswByte /\ m_regs' \in RegisterFile

\* A handler that ends behind its operands leaves the program counter a word.
LEMMA FetchedType == ASSUME TypeOK, NEW n \in 0..2, Fetched(n) PROVE m_pc' \in Word
BY InstructionType DEF Fetched

\* Handlers that change registers only.
LEMMA RegisterHandlerType ==
  ASSUME TypeOK, registerHandler
  PROVE  RegistersType /\ m_ram' = m_ram /\ ShiftTypeOK'
<1> USE RegisterType
<1>1. m_psw' \in PswByte /\ m_ram' = m_ram
  BY DEF registerHandler
<1>2. ShiftTypeOK'
  BY DEF registerHandler, shiftUnchanged, TypeOK, BusTypeOK, ShiftTypeOK
<1>3. m_pc' \in Word
  <2>1. \E n \in 0..2 : Fetched(n)
    BY DEF registerHandler, nop, mov_rr, mov_rm, mvi_r, lxi, lda, ldax, lhld, xchg, inx_rp,
           sphl, cma_a, in_port
  <2> QED BY <2>1, FetchedType
<1>4. m_regs' \in RegisterFile /\ m_sp' \in Word
  <2>1. CASE nop
    BY <2>1 DEF nop
  <2>2. CASE mov_rr
    BY <2>2, FieldType, RegisterUpdateType DEF mov_rr, set_register
  <2>3. CASE mov_rm
    BY <2>3, FieldType, RegisterUpdateType, MemoryReadType DEF mov_rm, set_register
  <2>4. CASE mvi_r
    <3>1. d8 \in Byte /\ regs_map(DDD) \in 0..6
      BY <2>4, FieldType, InstructionType DEF mvi_r
    <3> QED BY <2>4, <3>1, RegisterUpdateType DEF mvi_r, set_register
  <2>5. CASE lxi
    <3>1. LowByte(d16) \in Byte /\ HighByte(d16) \in Byte
      BY InstructionType, WordParts
    <3>2. set_register_pair(RP, LowByte(d16), HighByte(d16))
      BY <2>5 DEF lxi
    <3> QED BY <3>1, <3>2, FieldType, RegisterUpdateType, MakeWordType DEF set_register_pair
  <2>6. CASE lda
    <3>1. memory_read(d16) \in Byte
      BY InstructionType, MemoryReadType
    <3> QED BY <2>6, <3>1, SetAType DEF lda
  <2>7. CASE ldax
    <3>1. memory_read(get_register_pair(RP)) \in Byte
      BY FieldType, MemoryReadType
    <3> QED BY <2>7, <3>1, SetAType DEF ldax
  <2>8. CASE lhld
    <3>1. d16 \in Int
      BY InstructionType, WordIsNat
    <3>2. memory_read(d16) \in Byte /\ memory_read(Wrap(d16 + 1)) \in Byte
      BY <3>1, InstructionType, WrapType, MemoryReadType
    <3> QED BY <2>8, <3>2 DEF lhld, RegisterFile, REGISTER_L, REGISTER_H
  <2>9. CASE xchg
    BY <2>9 DEF xchg, RegisterFile, REGISTER_D, REGISTER_E, REGISTER_H, REGISTER_L
  <2>10. CASE inx_rp
    <3> DEFINE r == inx(get_register_pair(RP), ins % 16 = 11)
    <3>1. r \in Word
      <4>1. get_register_pair(RP) \in Word
        BY FieldType
      <4>2. CASE ins % 16 = 11
        BY <4>1, <4>2, InxIsIncrement
      <4>3. CASE ~(ins % 16 = 11)
        BY <4>1, <4>3, InxIsIncrement
      <4> QED BY <4>2, <4>3
    <3>2. set_register_pair(RP, LowByte(r), HighByte(r))
      BY <2>10 DEF inx_rp
    <3> HIDE DEF r
    <3>3. LowByte(r) \in Byte /\ HighByte(r) \in Byte
      BY <3>1, WordParts
    <3> QED BY <3>2, <3>3, FieldType, RegisterUpdateType, MakeWordType DEF set_register_pair
  <2>11. CASE sphl
    BY <2>11 DEF sphl
  <2>12. CASE cma_a
    <3>1. cma(A) \in Byte
      BY ComplementType
    <3> QED BY <2>12, <3>1, SetAType DEF cma_a
  <2>13. CASE in_port
    <3>1. io_read(d8) \in Byte
      BY InstructionType, IoReadType DEF TypeOK
    <3> QED BY <2>13, <3>1, SetAType DEF in_port
  <2> QED BY <2>1, <2>2, <2>3, <2>4, <2>5, <2>6, <2>7, <2>8, <2>9, <2>10, <2>11, <2>12,
             <2>13 DEF registerHandler
<1> QED BY <1>1, <1>2, <1>3, <1>4 DEF RegistersType

\* The accumulator and status word an operation returned, assigned.
LEMMA AssignType ==
  ASSUME TypeOK, NEW r, Assign(r), r.a \in Byte, r.psw \in PswByte
  PROVE  m_regs' \in RegisterFile /\ m_psw' \in PswByte
<1>1. SetA(r.a) /\ m_psw' = r.psw
  BY DEF Assign
<1> QED BY <1>1, SetAType

\* The accumulator operations.
LEMMA AccumulatorHandlerType ==
  ASSUME TypeOK, add_a \/ sub_a \/ boolean_a \/ cmp_a
  PROVE  m_regs' \in RegisterFile /\ m_psw' \in PswByte
<1>1. A \in Byte /\ operand \in Byte /\ m_psw \in Byte
  BY RegisterType, OperandType
<1>2. CASE add_a
  <2>1. PICK with \in BOOLEAN : Assign(add(A, operand, m_psw, with))
    BY <1>2 DEF add_a
  <2> QED BY <1>1, <2>1, AddType, AssignType
<1>3. CASE sub_a
  <2>1. PICK with \in BOOLEAN : Assign(sub(A, operand, m_psw, with))
    BY <1>3 DEF sub_a
  <2> QED BY <1>1, <2>1, SubType, AssignType
<1>4. CASE boolean_a
  <2>1. PICK op \in {"and", "xor", "or"} : Assign(boolean_operation(A, operand, m_psw, op))
    BY <1>4 DEF boolean_a
  <2> QED BY <1>1, <2>1, BooleanOperationType, AssignType
<1>5. CASE cmp_a
  BY <1>1, <1>5, CmpType, AssignType DEF cmp_a
<1> QED BY <1>2, <1>3, <1>4, <1>5

\* INR and DCR of a register.
LEMMA InrHandlerType ==
  ASSUME TypeOK, inr_r
  PROVE  m_regs' \in RegisterFile /\ m_psw' \in PswByte
<1> DEFINE decrement == SSS = 5
           sum == inr_sum(get_register(DDD), decrement)
<1>1. decrement \in BOOLEAN /\ DDD \in 0..7 /\ DDD # 6
  BY FieldType DEF inr_r
<1>2. get_register(DDD) \in Byte /\ regs_map(DDD) \in 0..6 /\ m_psw \in Byte
  BY <1>1, RegisterType
<1>3. /\ set_register(DDD, sum.res)
      /\ m_psw' = inr_flags(m_psw, sum.res, decrement, sum.aux_carry)
  BY DEF inr_r
<1> HIDE DEF decrement
<1>4. sum.res \in Byte /\ sum.aux_carry \in Bool01
  BY <1>1, <1>2, InrType
<1> HIDE DEF sum
<1>5. m_psw' \in PswByte
  BY <1>1, <1>2, <1>3, <1>4, InrFlagsType
<1>6. m_regs' \in RegisterFile
  BY <1>2, <1>3, <1>4, RegisterUpdateType DEF set_register
<1> QED BY <1>5, <1>6

\* DAD.
LEMMA DadHandlerType ==
  ASSUME TypeOK, dad_rp
  PROVE  m_regs' \in RegisterFile /\ m_psw' \in PswByte
<1> DEFINE sum == dad(HL, get_register_pair(RP), m_psw)
<1>1. HL \in Word /\ get_register_pair(RP) \in Word /\ m_psw \in Byte
  BY FieldType, RegisterType
<1>2. sum.hl \in Word /\ sum.psw \in PswByte
  BY <1>1, DadIsAddition
<1>3. m_regs' = with_pair(2, LowByte(sum.hl), HighByte(sum.hl)) /\ m_psw' = sum.psw
  BY DEF dad_rp
<1> HIDE DEF sum
<1>4. LowByte(sum.hl) \in Byte /\ HighByte(sum.hl) \in Byte
  BY <1>2, WordParts
<1> QED BY <1>2, <1>3, <1>4, RegisterUpdateType

\* Handlers that compute.
LEMMA ComputeHandlerType ==
  ASSUME TypeOK, computeHandler
  PROVE  RegistersType /\ m_ram' = m_ram /\ ShiftTypeOK'
<1> USE RegisterType
<1>1. m_sp' \in Word /\ m_ram' = m_ram
  BY DEF computeHandler
<1>2. ShiftTypeOK'
  BY DEF computeHandler, shiftUnchanged, TypeOK, BusTypeOK, ShiftTypeOK
<1>3. m_pc' \in Word
  <2>1. \E n \in 0..2 : Fetched(n)
    BY DEF computeHandler, accumulatorHandler
  <2> QED BY <2>1, FetchedType
<1>4. m_regs' \in RegisterFile /\ m_psw' \in PswByte
  <2>1. CASE accumulatorHandler
    BY <2>1, AccumulatorHandlerType DEF accumulatorHandler
  <2>2. CASE rotate_a
    <3>1. \/ Assign(rotate_left(A, m_psw, TRUE)) \/ Assign(rotate_left(A, m_psw, FALSE))
          \/ Assign(rotate_right(A, m_psw, TRUE)) \/ Assign(rotate_right(A, m_psw, FALSE))
      <4>1. CASE ins \in {7, 23} /\ Assign(rotate_left(A, m_psw, ins = 23))
        <5>1. (ins = 23) = TRUE \/ (ins = 23) = FALSE
          OBVIOUS
        <5> QED BY <4>1, <5>1
      <4>2. CASE ins \in {15, 31} /\ Assign(rotate_right(A, m_psw, ins = 31))
        <5>1. (ins = 31) = TRUE \/ (ins = 31) = FALSE
          OBVIOUS
        <5> QED BY <4>2, <5>1
      <4> QED BY <2>2, <4>1, <4>2 DEF rotate_a
    <3>2. TRUE \in BOOLEAN /\ FALSE \in BOOLEAN
      OBVIOUS
    <3> QED BY <3>1, <3>2, RotateType, AssignType
  <2>3. CASE daa_a
    BY <2>3, DaaType, AssignType DEF daa_a
  <2>4. CASE stc_cy
    BY <2>4, ComplementType DEF stc_cy
  <2>5. CASE cmc_cy
    BY <2>5, ComplementType DEF cmc_cy
  <2>6. CASE inr_r
    BY <2>6, InrHandlerType
  <2>7. CASE dad_rp
    BY <2>7, DadHandlerType
  <2> QED BY <2>1, <2>2, <2>3, <2>4, <2>5, <2>6, <2>7 DEF computeHandler
<1> QED BY <1>1, <1>2, <1>3, <1>4 DEF RegistersType

-----------------------------------------------------------------------------
\* One write, and two writes to consecutive addresses, leave a RAM of bytes.
LEMMA MemoryWriteType ==
  ASSUME TypeOK, NEW addr \in Word, NEW x \in Byte
  PROVE  memory_write(m_ram, addr, x) \in RamImage
BY WriteType DEF TypeOK, BusTypeOK

\* The two writes of SHLD and XTHL leave a RAM of bytes (cpu.cpp:342-351, 650-654).
LEMMA WriteWordType ==
  ASSUME TypeOK, NEW addr \in Word, NEW low \in Byte, NEW high \in Byte
  PROVE  WriteWord(addr, low, high) \in RamImage
<1>1. memory_write(m_ram, addr, low) \in RamImage
  BY MemoryWriteType
<1>2. Wrap(addr + 1) \in Word
  BY WordIsNat, WrapType
<1> QED BY <1>1, <1>2, WriteType DEF WriteWord

\* INR and DCR of the byte at HL.
LEMMA InrMemoryType ==
  ASSUME TypeOK, inr_m
  PROVE  m_ram' \in RamImage /\ m_psw' \in PswByte
<1> DEFINE decrement == ins = 53
           sum == inr_sum(memory_read(HL), decrement)
           stored == ReadMemory(m_rom, m_ram', HL)
<1>1. HL \in Word /\ m_psw \in Byte /\ m_rom \in RomImage /\ memory_read(HL) \in Byte
  BY RegisterType, MemoryReadType DEF TypeOK, BusTypeOK
<1>2. decrement \in BOOLEAN
  OBVIOUS
<1>3. /\ m_ram' = memory_write(m_ram, HL, sum.res)
      /\ m_psw' = inr_flags(m_psw, stored, decrement, sum.aux_carry)
  BY DEF inr_m
<1> HIDE DEF decrement
<1>4. sum.res \in Byte /\ sum.aux_carry \in Bool01
  BY <1>1, <1>2, InrType
<1> HIDE DEF sum
<1>5. m_ram' \in RamImage
  BY <1>1, <1>3, <1>4, MemoryWriteType
<1>6. stored \in Byte
  BY <1>1, <1>5, ReadType
<1> HIDE DEF stored
<1> QED BY <1>1, <1>2, <1>3, <1>4, <1>5, <1>6, InrFlagsType

\* Handlers that write memory.
LEMMA MemoryHandlerType ==
  ASSUME TypeOK, memoryHandler
  PROVE  RegistersType /\ m_ram' \in RamImage /\ ShiftTypeOK'
<1> USE RegisterType
<1>1. m_sp' \in Word /\ m_regs' \in RegisterFile
  BY DEF memoryHandler
<1>2. ShiftTypeOK'
  BY DEF memoryHandler, shiftUnchanged, TypeOK, BusTypeOK, ShiftTypeOK
<1>3. m_pc' \in Word
  <2>1. \E n \in 0..2 : Fetched(n)
    BY DEF memoryHandler, mov_mr, mvi_m, sta, stax, shld, inr_m
  <2> QED BY <2>1, FetchedType
<1>4. m_ram' \in RamImage /\ m_psw' \in PswByte
  <2>1. CASE mov_mr
    <3>1. SSS \in 0..7 /\ SSS # 6
      BY <2>1, FieldType DEF mov_mr, SSS
    <3>2. get_register(SSS) \in Byte
      BY <3>1
    <3> QED BY <2>1, <3>2, MemoryWriteType DEF mov_mr
  <2>2. CASE mvi_m
    BY <2>2, InstructionType, MemoryWriteType DEF mvi_m
  <2>3. CASE sta
    BY <2>3, InstructionType, MemoryWriteType DEF sta
  <2>4. CASE stax
    <3>1. get_register_pair(RP) \in Word
      BY FieldType
    <3> QED BY <2>4, <3>1, MemoryWriteType DEF stax
  <2>5. CASE shld
    <3>1. m_regs[REGISTER_L] \in Byte /\ m_regs[REGISTER_H] \in Byte
      BY DEF REGISTER_L, REGISTER_H, RegisterFile
    <3> QED BY <2>5, <3>1, InstructionType, WriteWordType DEF shld
  <2>6. CASE inr_m
    BY <2>6, InrMemoryType
  <2> QED BY <2>1, <2>2, <2>3, <2>4, <2>5, <2>6 DEF memoryHandler
<1> QED BY <1>1, <1>2, <1>3, <1>4 DEF RegistersType

\* OUT.
LEMMA OutType ==
  ASSUME TypeOK, out_port
  PROVE  RegistersType /\ m_ram' = m_ram /\ ShiftTypeOK'
<1>1. ShiftTypeOK'
  BY InstructionType, RegisterType, IoWriteType DEF out_port, TypeOK, BusTypeOK
<1>2. m_pc' \in Word
  <2>1. Fetched(1) /\ 1 \in 0..2
    BY DEF out_port
  <2> QED BY <2>1, FetchedType
<1> QED BY <1>1, <1>2, RegisterType DEF out_port, RegistersType

-----------------------------------------------------------------------------
\* The stack pointer moves from word to word, and what it names are bytes.
LEMMA StackType ==
  ASSUME TypeOK
  PROVE  /\ Wrap(m_sp - 1) \in Word /\ Wrap(m_sp - 2) \in Word
         /\ Wrap(m_sp + 1) \in Word /\ Wrap(m_sp + 2) \in Word
         /\ top_low \in Byte /\ top_high \in Byte
<1>1. m_sp \in Word /\ m_sp \in Int
  BY RegisterType
<1>2. /\ Wrap(m_sp - 1) \in Word /\ Wrap(m_sp - 2) \in Word
      /\ Wrap(m_sp + 1) \in Word /\ Wrap(m_sp + 2) \in Word
  BY <1>1, WrapType
<1> QED BY <1>1, <1>2, MemoryReadType DEF top_low, top_high

\* A push leaves a RAM of bytes and a stack pointer of 16 bits (cpu.cpp:317-328).
LEMMA PushType ==
  ASSUME TypeOK, NEW low \in Byte, NEW high \in Byte, Push(low, high)
  PROVE  m_ram' \in RamImage /\ m_sp' \in Word
<1>1. memory_write(m_ram, Wrap(m_sp - 1), high) \in RamImage
  BY StackType, MemoryWriteType
<1> QED BY <1>1, StackType, WriteType DEF Push

\* Handlers that use the stack for data.
LEMMA StackHandlerType ==
  ASSUME TypeOK, stackHandler
  PROVE  RegistersType /\ m_ram' \in RamImage /\ ShiftTypeOK'
<1> USE RegisterType
<1>0. m_ram \in RamImage
  BY DEF TypeOK, BusTypeOK
<1>1. ShiftTypeOK'
  BY DEF stackHandler, shiftUnchanged, TypeOK, BusTypeOK, ShiftTypeOK
<1>2. m_pc' \in Word
  <2>1. Fetched(0) /\ 0 \in 0..2
    BY DEF stackHandler
  <2> QED BY <2>1, FetchedType
<1>3. m_sp' \in Word /\ m_psw' \in PswByte /\ m_regs' \in RegisterFile /\ m_ram' \in RamImage
  <2>1. CASE push_rp
    <3> DEFINE pair == get_register_pair(RP)
    <3>1. pair \in Word
      BY FieldType
    <3>2. Push(LowByte(pair), HighByte(pair)) /\ UNCHANGED <<m_psw, m_regs>>
      BY <2>1 DEF push_rp
    <3> HIDE DEF pair
    <3>3. LowByte(pair) \in Byte /\ HighByte(pair) \in Byte
      BY <3>1, WordParts
    <3> QED BY <3>2, <3>3, PushType
  <2>2. CASE push_psw
    BY <2>2, PushType DEF push_psw
  <2>3. CASE pop_rp
    <3>1. RP \in 0..2
      BY <2>3, InstructionType DEF pop_rp, RP
    <3>2. with_pair(RP, top_low, top_high) \in RegisterFile
      BY <3>1, StackType, RegisterUpdateType
    <3> QED BY <1>0, <2>3, <3>2, StackType DEF pop_rp, Pop
  <2>4. CASE pop_psw
    <3>1. m_regs' \in RegisterFile
      BY <2>4, StackType, SetAType DEF pop_psw
    <3>2. m_psw' \in PswByte
      BY <2>4, StackType, MaskPswType DEF pop_psw
    <3> QED BY <1>0, <2>4, <3>1, <3>2, StackType DEF pop_psw, Pop
  <2>5. CASE xthl
    <3>1. m_regs[REGISTER_L] \in Byte /\ m_regs[REGISTER_H] \in Byte
      BY DEF REGISTER_L, REGISTER_H, RegisterFile
    <3>2. with_pair(2, top_low, top_high) \in RegisterFile
      BY StackType, RegisterUpdateType
    <3> QED BY <2>5, <3>1, <3>2, WriteWordType DEF xthl
  <2> QED BY <2>1, <2>2, <2>3, <2>4, <2>5 DEF stackHandler
<1> QED BY <1>1, <1>2, <1>3 DEF RegistersType

-----------------------------------------------------------------------------
\* A call pushes the address behind its operands.
LEMMA CallType ==
  ASSUME TypeOK, NEW addr \in Word, NEW n \in 0..2, CallTo(addr, n)
  PROVE  m_pc' \in Word /\ m_sp' \in Word /\ m_ram' \in RamImage
<1> DEFINE return_pc == Wrap(operand_pc + n)
<1>1. return_pc \in Word
  BY InstructionType
<1>2. Push(LowByte(return_pc), HighByte(return_pc)) /\ m_pc' = addr
  BY DEF CallTo
<1> HIDE DEF return_pc
<1>3. LowByte(return_pc) \in Byte /\ HighByte(return_pc) \in Byte
  BY <1>1, WordParts
<1> QED BY <1>2, <1>3, PushType

\* RET loads the program counter with a word and pops it (cpu.cpp:488-491).
LEMMA ReturnType ==
  ASSUME TypeOK, Return
  PROVE  m_pc' \in Word /\ m_sp' \in Word /\ m_ram' \in RamImage
<1>1. MakeWord(top_low, top_high) \in Word
  BY StackType, MakeWordType
<1> QED BY <1>1, StackType DEF Return, Pop, TypeOK, BusTypeOK

\* Handlers that move the program counter.
LEMMA BranchHandlerType ==
  ASSUME TypeOK, branchHandler
  PROVE  RegistersType /\ m_ram' \in RamImage /\ ShiftTypeOK'
<1>1. ShiftTypeOK'
  BY DEF branchHandler, shiftUnchanged, TypeOK, BusTypeOK, ShiftTypeOK
<1>2. m_psw' \in PswByte /\ m_regs' \in RegisterFile
  BY RegisterType DEF branchHandler
<1>3. m_pc' \in Word /\ m_sp' \in Word /\ m_ram' \in RamImage
  <2>0. m_ram \in RamImage /\ m_sp \in Word /\ HL \in Word /\ d16 \in Word
    BY RegisterType, InstructionType DEF TypeOK, BusTypeOK
  <2>1. CASE Jump
    BY <2>0, <2>1 DEF Jump
  <2>2. CASE NoBranch(2) \/ NoBranch(0)
    <3>1. PICK n \in 0..2 : Fetched(n) /\ UNCHANGED <<m_sp, m_ram>>
      BY <2>2 DEF NoBranch
    <3> QED BY <2>0, <3>1, FetchedType
  <2>3. CASE CallTo(d16, 2)
    <3>1. 2 \in 0..2
      OBVIOUS
    <3> QED BY <2>0, <2>3, <3>1, CallType
  <2>4. CASE Return
    BY <2>4, ReturnType
  <2>5. CASE rst
    <3>1. 8 * DDD \in 0..56
      BY FieldType
    <3>2. 8 * DDD \in Word
      <4>1. 8 * DDD \in Int /\ 0 <= 8 * DDD /\ 8 * DDD <= 65535
        BY <3>1
      <4>2. TwoTo16 - 1 = 65535
        BY DEF TwoTo16
      <4> QED BY <4>1, <4>2 DEF Word
    <3>3. CallTo(8 * DDD, 0) /\ 0 \in 0..2
      BY <2>5 DEF rst
    <3> QED BY <3>2, <3>3, CallType
  <2>6. CASE pchl
    BY <2>0, <2>6 DEF pchl
  <2> QED BY <2>1, <2>2, <2>3, <2>4, <2>5, <2>6
          DEF branchHandler, jmp, jmp_conditional, call, call_conditional, ret, ret_conditional
<1> QED BY <1>1, <1>2, <1>3 DEF RegistersType

\* EI, DI and HLT change none of the registers but the program counter.
LEMMA ControlFrameType ==
  ASSUME TypeOK, controlFrame
  PROVE  RegistersType /\ m_ram' = m_ram /\ ShiftTypeOK'
<1>1. m_pc' \in Word
  <2>1. Fetched(0) /\ 0 \in 0..2
    BY DEF controlFrame
  <2> QED BY <2>1, FetchedType
<1>2. ShiftTypeOK'
  BY DEF controlFrame, shiftUnchanged, TypeOK, BusTypeOK, ShiftTypeOK
<1> QED BY <1>1, <1>2, RegisterType DEF controlFrame, RegistersType

(***************************************************************************)
(* One call of fetch_execute_instruction (cpu.cpp:83-246) keeps every      *)
(* register, flag and memory cell of the machine in its type.              *)
(***************************************************************************)
THEOREM StepKeepsTypes == TypeOK /\ fetch_execute_instruction => TypeOK'
<1> SUFFICES ASSUME TypeOK, fetch_execute_instruction PROVE TypeOK'
    OBVIOUS
<1>1. RegistersType /\ m_ram' \in RamImage /\ ShiftTypeOK'
  <2>0. m_ram \in RamImage
    BY DEF TypeOK, BusTypeOK
  <2>1. CASE dataHandler
    BY <2>0, <2>1, RegisterHandlerType, ComputeHandlerType, MemoryHandlerType, OutType,
       StackHandlerType, BranchHandlerType DEF dataHandler
  <2>2. CASE interruptHandler \/ hlt
    BY <2>0, <2>2, ControlFrameType DEF interruptHandler, hlt
  <2> QED BY <2>1, <2>2 DEF fetch_execute_instruction
<1>2. m_halted' \in BOOLEAN /\ m_interrupt' \in InterruptSystem
  <2>1. CASE dataHandler
    BY <2>1, InstructionType DEF dataHandler, TypeOK, CpuTypeOK
  <2>2. CASE interruptHandler
    BY <2>2, InstructionType DEF interruptHandler, ei, di, TypeOK, CpuTypeOK, InterruptSystem
  <2>3. CASE hlt
    BY <2>3, InstructionType DEF hlt
  <2> QED BY <2>1, <2>2, <2>3 DEF fetch_execute_instruction
<1>3. UNCHANGED <<m_rom, inp>>
  BY DEF fetch_execute_instruction
<1> QED BY <1>1, <1>2, <1>3
        DEF TypeOK, CpuTypeOK, BusTypeOK, RegistersType, RegisterFile

\* A request, and a reset, keep the types too.
LEMMA RequestKeepsTypes ==
  ASSUME TypeOK, NEW instruction \in Byte, request_interrupt(instruction)
  PROVE  TypeOK'
BY DEF request_interrupt, TypeOK, CpuTypeOK, BusTypeOK, ShiftTypeOK, InterruptSystem,
       registerVars, busVars

\* A reset of the processor and its bus keeps the types (cpu.cpp:25-40).
LEMMA ResetKeepsTypes == TypeOK /\ reset => TypeOK'
<1> SUFFICES ASSUME TypeOK, reset PROVE TypeOK'
    OBVIOUS
<1>1. 0 \in Word /\ 0 \in Byte /\ 2 \in PswByte
  BY DEF Word, TwoTo16, Byte, PswByte, Bit
<1>2. CpuTypeOK'
  BY <1>1 DEF reset, CpuTypeOK, InterruptSystem
<1>3. BusTypeOK'
  BY EmptyRamType DEF reset, reset_bus, TypeOK, BusTypeOK, ShiftTypeOK
<1> QED BY <1>2, <1>3 DEF TypeOK

-----------------------------------------------------------------------------
\* A page size in ordinary arithmetic.
LEMMA Windows ==
  ASSUME NEW addr \in Word
  PROVE  /\ InRam(addr) <=> 2 * PAGE <= addr /\ addr < 4 * PAGE
         /\ InRamMirror(addr) <=> 4 * PAGE <= addr /\ addr < 6 * PAGE
         /\ msn(addr) < 2 <=> addr < 2 * PAGE
<1>1. addr \in Nat /\ PAGE \in Nat
  BY WordIsNat, PageAssumption DEF PageAssumption
<1>2. msn(addr) \in Nat
  BY <1>1, PageBounds
<1> QED
  BY <1>1, <1>2, BelowPage DEF InRam, InRamMirror

\* The RAM with one cell changed.
Stored(ram, i, data) == [ram EXCEPT ![i] = data]

\* A read in the RAM window is a read of its cell.
LEMMA RamRead ==
  ASSUME NEW x \in Word, IsRam(x), NEW rom, NEW ram
  PROVE  /\ ReadMemory(rom, ram, x) = ram[Cell(x)]
         /\ Cell(x) \in 0..INVADERS_RAM_SIZE - 1
<1>1. InRam(x) \/ InRamMirror(x)
  BY DEF IsRam
<1>2. PAGE \in Nat /\ PAGE > 0 /\ x \in Nat
  BY WordIsNat, PageAssumption DEF PageAssumption
<1>3. 2 * PAGE <= x
  BY <1>1, <1>2, Windows
<1>4. ~(msn(x) < 2)
  BY <1>2, <1>3, Windows
<1> QED BY <1>1, <1>4, AccessesStayInBounds DEF ReadMemory, Cell

\* A byte written is read back at its address, and at every address that names
\* another cell nothing changes.
LEMMA WrittenByte ==
  ASSUME NEW rom \in RomImage, NEW ram \in RamImage, NEW data \in Byte,
         NEW addr \in Word, IsRam(addr),
         NEW after, after = memory_write(ram, addr, data)
  PROVE  /\ after \in RamImage
         /\ after = Stored(ram, Cell(addr), data)
         /\ Cell(addr) \in DOMAIN ram
         /\ ReadMemory(rom, after, addr) = data
         /\ \A other \in Word :
              IsRam(other) /\ Cell(other) # Cell(addr) =>
                ReadMemory(rom, after, other) = ReadMemory(rom, ram, other)
<1>1. Cell(addr) \in 0..INVADERS_RAM_SIZE - 1
  BY AccessesStayInBounds DEF IsRam, Cell
<1>2. after = Stored(ram, Cell(addr), data)
  BY DEF IsRam, Cell, memory_write, Stored
<1>3. ram \in [0..INVADERS_RAM_SIZE - 1 -> Byte]
  BY DEF RamImage
<1>4. \A i \in 0..INVADERS_RAM_SIZE - 1 :
         after[i] = IF i = Cell(addr) THEN data ELSE ram[i]
  BY <1>2, <1>3 DEF Stored
<1>5. after \in RamImage
  BY WriteType
<1>6. ReadMemory(rom, after, addr) = data
  BY <1>1, <1>4, RamRead
<1>7. ASSUME NEW other \in Word, IsRam(other), Cell(other) # Cell(addr)
      PROVE  ReadMemory(rom, after, other) = ReadMemory(rom, ram, other)
  BY <1>4, <1>7, RamRead
<1> QED BY <1>1, <1>2, <1>3, <1>5, <1>6, <1>7

\* The two bytes below the stack pointer are two cells, one above the other.
LEMMA StackCells ==
  ASSUME NEW sp \in Word, IsRam(Wrap(sp - 1)), IsRam(Wrap(sp - 2))
  PROVE  /\ Wrap(sp - 1) \in Word /\ Wrap(sp - 2) \in Word
         /\ Wrap(Wrap(sp - 2) + 1) = Wrap(sp - 1)
         /\ Wrap(Wrap(sp - 2) + 2) = sp
         /\ Cell(Wrap(sp - 1)) # Cell(Wrap(sp - 2))
<1> DEFINE upper == Wrap(sp - 1)   lower == Wrap(sp - 2)
<1>1. sp \in Int /\ 0 <= sp /\ sp < 65536
  BY DEF Word, TwoTo16
<1>2. upper \in Word /\ lower \in Word
  BY <1>1, WrapType
<1>3. upper = (sp - 1) % 65536 /\ lower = (sp - 2) % 65536
  BY DEF Wrap, TwoTo16
<1>4. (lower + 1) % 65536 = upper /\ (lower + 2) % 65536 = sp
  BY <1>1, <1>3
<1>5. /\ upper \in Int /\ 0 <= upper /\ upper < 65536
      /\ lower \in Int /\ 0 <= lower /\ lower < 65536
  BY <1>1, <1>3
<1> HIDE DEF upper, lower
<1>6. PAGE \in Nat /\ PAGE > 0
  BY PageAssumption DEF PageAssumption
<1>7. \A x \in Word : IsRam(x) => x > 0
  BY <1>6, Windows, WordIsNat DEF IsRam
<1>8. upper > 0
  BY <1>2, <1>7 DEF upper
<1>9. upper = lower + 1
  BY <1>4, <1>5, <1>8
<1>10. Cell(upper) # Cell(lower)
  BY <1>2, <1>5, <1>6, <1>9, Windows
     DEF Cell, ram_offset, ram_mirror_offset, INVADERS_ROM_SIZE, INVADERS_RAM_SIZE
<1> QED BY <1>2, <1>4, <1>10 DEF Wrap, TwoTo16, upper, lower

(***************************************************************************)
(* A word pushed on a stack in the RAM is the word at the top of the       *)
(* stack, and nothing but its two cells changes: also with the stack       *)
(* across the edge of the RAM and its mirror, for every page size (push    *)
(* and pop in cpu.cpp, memory_read and memory_write in invaders.cpp).      *)
(***************************************************************************)
THEOREM PushedWordIsOnTop ==
  ASSUME TypeOK, StackWritable, NEW low \in Byte, NEW high \in Byte,
         Push(low, high), m_rom' = m_rom
  PROVE  /\ top_low' = low /\ top_high' = high
         /\ m_sp' \in Word /\ Wrap(m_sp' + 2) = m_sp
         /\ m_ram' = Stored(Stored(m_ram, Cell(Wrap(m_sp - 1)), high),
                            Cell(Wrap(m_sp - 2)), low)
<1> DEFINE upper == Wrap(m_sp - 1)   lower == Wrap(m_sp - 2)
           first == memory_write(m_ram, upper, high)
<1>1. m_rom \in RomImage /\ m_ram \in RamImage /\ m_sp \in Word
  BY DEF TypeOK, BusTypeOK, CpuTypeOK
<1>2. /\ IsRam(upper) /\ IsRam(lower) /\ upper \in Word /\ lower \in Word
      /\ Wrap(lower + 1) = upper /\ Wrap(lower + 2) = m_sp
      /\ Cell(upper) # Cell(lower)
  BY <1>1, StackCells DEF StackWritable
<1>3. m_ram' = memory_write(first, lower, low) /\ m_sp' = lower
  BY DEF Push
<1> HIDE DEF upper, lower
<1>4. /\ first \in RamImage
      /\ first = Stored(m_ram, Cell(upper), high)
      /\ ReadMemory(m_rom, first, upper) = high
  BY <1>1, <1>2, WrittenByte
<1> HIDE DEF first
<1>5. /\ m_ram' = Stored(first, Cell(lower), low)
      /\ ReadMemory(m_rom, m_ram', lower) = low
      /\ ReadMemory(m_rom, m_ram', upper) = ReadMemory(m_rom, first, upper)
  BY <1>1, <1>2, <1>3, <1>4, WrittenByte
<1>6. top_low' = low /\ top_high' = high
  BY <1>2, <1>3, <1>4, <1>5 DEF top_low, top_high, memory_read
<1> QED BY <1>2, <1>3, <1>4, <1>5, <1>6 DEF upper, lower

-----------------------------------------------------------------------------
\* The instructions that put a word on the stack or take one off run the handlers
\* of the branches and of the stack, and no other.
LEMMA StackOpcodes ==
  ASSUME TypeOK, fetch_execute_instruction, calling \/ returning \/ pushing \/ popping
  PROVE  /\ (branchHandler \/ stackHandler) /\ UNCHANGED m_halted
         /\ m_interrupt' = interrupt_taken
         /\ calling \/ returning => branchHandler
         /\ pushing \/ popping => stackHandler
<1>1. ins \in 0..255
  BY InstructionType DEF Byte
<1>2. /\ ins >= 192 /\ ins % 8 \in {0, 1, 4, 5, 7}
      /\ ins % 8 \in {1, 5} => ins \in {193, 197, 201, 205, 209, 213, 225, 229, 241, 245}
  BY <1>1 DEF calling, returning, pushing, popping, SSS
<1> HIDE DEF ins
<1>3. ~registerHandler
  BY <1>1, <1>2 DEF registerHandler, nop, mov_rr, mov_rm, mvi_r, lxi, lda, ldax, lhld, xchg,
         inx_rp, sphl, cma_a, in_port
<1>4. ~computeHandler
  <2>1. ASSUME NEW n PROVE ~AluOperation(n)
    BY <1>2 DEF AluOperation, SSS
  <2>2. ~accumulatorHandler
    BY <2>1 DEF accumulatorHandler, add_a, sub_a, boolean_a, cmp_a
  <2>3. ~(rotate_a \/ daa_a \/ stc_cy \/ cmc_cy \/ inr_r \/ dad_rp)
    BY <1>1, <1>2 DEF rotate_a, daa_a, stc_cy, cmc_cy, inr_r, dad_rp
  <2> QED BY <2>2, <2>3 DEF computeHandler
<1>5. ~(memoryHandler \/ out_port)
  BY <1>1, <1>2 DEF memoryHandler, mov_mr, mvi_m, sta, stax, shld, inr_m, out_port
<1>6. ~(interruptHandler \/ hlt)
  BY <1>1, <1>2 DEF interruptHandler, ei, di, hlt
<1>7. /\ branchHandler \/ stackHandler
      /\ UNCHANGED m_halted /\ m_interrupt' = interrupt_taken
  BY <1>3, <1>4, <1>5, <1>6 DEF fetch_execute_instruction, dataHandler
<1>8. calling \/ returning => ~stackHandler
  BY <1>1 DEF calling, returning, stackHandler, push_rp, push_psw, pop_rp, pop_psw, xthl, SSS
<1>9. pushing \/ popping => ~branchHandler
  BY <1>1 DEF pushing, popping, branchHandler, jmp, jmp_conditional, call, call_conditional,
         ret, ret_conditional, rst, pchl, SSS
<1> QED BY <1>7, <1>8, <1>9

\* CALL, RST and a conditional call whose condition is met run CallTo.
LEMMA CallingStep ==
  ASSUME TypeOK, fetch_execute_instruction, calling
  PROVE  /\ \/ (ins = 205 \/ (ins >= 192 /\ SSS = 4)) /\ CallTo(d16, 2)
            \/ ins >= 192 /\ SSS = 7 /\ CallTo(8 * DDD, 0)
         /\ UNCHANGED <<m_psw, m_regs>>
<1>1. ins \in 0..255 /\ branchHandler
  BY InstructionType, StackOpcodes DEF Byte
<1>2. ins >= 192 /\ ins % 8 \in {4, 5, 7} /\ (ins % 8 = 5 => ins = 205)
      /\ (ins % 8 = 4 => condition_met)
  BY <1>1 DEF calling, SSS
<1> HIDE DEF ins
<1>3. ~(jmp \/ jmp_conditional \/ ret \/ ret_conditional \/ pchl)
  BY <1>1, <1>2 DEF jmp, jmp_conditional, ret, ret_conditional, pchl, SSS
<1>4. call \/ call_conditional \/ rst
  BY <1>1, <1>3 DEF branchHandler
<1>5. call \/ call_conditional => (ins = 205 \/ (ins >= 192 /\ SSS = 4)) /\ CallTo(d16, 2)
  BY <1>2 DEF call, call_conditional, SSS
<1> QED BY <1>1, <1>4, <1>5 DEF branchHandler, rst

\* RET and a conditional return whose condition is met run Return.
LEMMA ReturningStep ==
  ASSUME TypeOK, fetch_execute_instruction, returning
  PROVE  Return /\ UNCHANGED <<m_psw, m_regs>>
<1>1. ins \in 0..255 /\ branchHandler
  BY InstructionType, StackOpcodes DEF Byte
<1>2. ins = 201 \/ (ins >= 192 /\ ins % 8 = 0 /\ condition_met)
  BY <1>1 DEF returning, SSS
<1> HIDE DEF ins
<1>3. ~(jmp \/ jmp_conditional \/ call \/ call_conditional \/ rst \/ pchl)
  BY <1>1, <1>2 DEF jmp, jmp_conditional, call, call_conditional, rst, pchl, SSS
<1>4. ret \/ ret_conditional
  BY <1>1, <1>3 DEF branchHandler
<1> QED BY <1>1, <1>2, <1>4 DEF branchHandler, ret, ret_conditional, SSS

-----------------------------------------------------------------------------
\* What PUSH saves and POP gives back.
Machine == [psw |-> m_psw, regs |-> m_regs]

\* The bytes of a pair are those of its word.
LEMMA PairParts ==
  ASSUME TypeOK, NEW pair \in 0..2
  PROVE  PairOf(Machine, pair) =
           <<LowByte(get_register_pair(pair)), HighByte(get_register_pair(pair))>>
<1> DEFINE low == m_regs[regpairs_map(pair) + 1]
           high == m_regs[regpairs_map(pair)]
<1>1. regpairs_map(pair) \in 0..6 /\ regpairs_map(pair) + 1 \in 0..6
  BY DEF regpairs_map
<1>2. low \in 0..255 /\ high \in 0..255
  BY <1>1 DEF TypeOK, CpuTypeOK, Byte
<1>3. get_register_pair(pair) = 256 * high + low
  BY DEF get_register_pair, get_register_pair_from_idx, MakeWord
<1> HIDE DEF low, high
<1>4. (256 * high + low) % 256 = low /\ (256 * high + low) \div 256 = high
  BY <1>2
<1> QED BY <1>3, <1>4 DEF PairOf, Machine, LowByte, HighByte, low, high

\* PUSH puts the bytes of its pair on the stack.
LEMMA PushingStep ==
  ASSUME TypeOK, fetch_execute_instruction, pushing
  PROVE  /\ Push(PairOf(Machine, RP)[1], PairOf(Machine, RP)[2])
         /\ UNCHANGED <<m_psw, m_regs>>
<1>1. stackHandler
  BY StackOpcodes
<1>2. ins \in {197, 213, 229, 245}
  BY DEF pushing
<1>3. (ins = 245 => RP = 3) /\ (ins # 245 => RP \in 0..2)
  BY <1>2 DEF RP
<1> HIDE DEF ins
<1>4. push_rp \/ push_psw
  BY <1>1, <1>2 DEF stackHandler, pop_rp, pop_psw, xthl
<1>5. CASE push_rp
  <2>1. RP \in 0..2
    BY <1>3, <1>5 DEF push_rp
  <2> QED BY <1>5, <2>1, PairParts DEF push_rp
<1>6. CASE push_psw
  BY <1>3, <1>6 DEF push_psw, PairOf, Machine, A
<1> QED BY <1>4, <1>5, <1>6

\* POP gives its pair the bytes at the top of the stack and leaves the others.
LEMMA PoppingStep ==
  ASSUME TypeOK, fetch_execute_instruction, popping
  PROVE  /\ Pop /\ UNCHANGED m_ram
         /\ RP = 3 => PairOf(Machine', RP) = <<MaskPsw(top_low), top_high>>
         /\ RP # 3 => PairOf(Machine', RP) = <<top_low, top_high>>
         /\ \A pair \in (0..3) \ {RP} : PairOf(Machine', pair) = PairOf(Machine, pair)
<1>1. stackHandler
  BY StackOpcodes
<1>2. ins \in {193, 209, 225, 241}
  BY DEF popping
<1>3. (ins = 241 => RP = 3) /\ (ins # 241 => RP \in 0..2)
  BY <1>2 DEF RP
<1>4. DOMAIN m_regs = 0..6
  BY DEF TypeOK, CpuTypeOK
<1> HIDE DEF ins
<1>5. pop_rp \/ pop_psw
  BY <1>1, <1>2 DEF stackHandler, push_rp, push_psw, xthl
<1>6. CASE pop_rp
  <2>1. RP \in 0..2 /\ m_psw' = m_psw /\ Pop /\ UNCHANGED m_ram /\ m_regs' = with_pair(RP, top_low, top_high)
    BY <1>3, <1>6 DEF pop_rp
  <2> QED BY <1>4, <2>1 DEF PairOf, Machine, with_pair, regpairs_map, REGISTER_A
<1>7. CASE pop_psw
  <2>1. RP = 3 /\ m_psw' = MaskPsw(top_low) /\ SetA(top_high) /\ Pop /\ UNCHANGED m_ram
    BY <1>3, <1>7 DEF pop_psw
  <2> QED BY <1>4, <2>1 DEF PairOf, Machine, SetA, regpairs_map, REGISTER_A
<1> QED BY <1>5, <1>6, <1>7

\* A status word has its fixed bits already.
LEMMA MaskKeeps == ASSUME NEW psw \in PswByte PROVE MaskPsw(psw) = psw
BY DEF PswByte, MaskPsw, Byte

\* A machine with the pairs of another has its registers and its status word.
LEMMA PairsMakeMachine ==
  ASSUME NEW one, NEW other, one.regs \in RegisterFile, other.regs \in RegisterFile,
         \A pair \in 0..3 : PairOf(one, pair) = PairOf(other, pair)
  PROVE  one.psw = other.psw /\ one.regs = other.regs
<1>1. one.regs \in [0..6 -> Byte] /\ other.regs \in [0..6 -> Byte]
  BY DEF RegisterFile
<1>2. PairOf(one, 3) = PairOf(other, 3) /\ PairOf(one, 0) = PairOf(other, 0)
      /\ PairOf(one, 1) = PairOf(other, 1) /\ PairOf(one, 2) = PairOf(other, 2)
  OBVIOUS
<1>3. one.psw = other.psw /\ one.regs[0] = other.regs[0]
  BY <1>2 DEF PairOf, REGISTER_A
<1>4. /\ one.regs[1] = other.regs[1] /\ one.regs[2] = other.regs[2]
      /\ one.regs[3] = other.regs[3] /\ one.regs[4] = other.regs[4]
      /\ one.regs[5] = other.regs[5] /\ one.regs[6] = other.regs[6]
  BY <1>2 DEF PairOf, regpairs_map
<1>5. \A r \in 0..6 : one.regs[r] = other.regs[r]
  BY <1>3, <1>4
<1> QED BY <1>1, <1>3, <1>5
=============================================================================
