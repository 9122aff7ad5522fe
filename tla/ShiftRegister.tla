---------------------------- MODULE ShiftRegister ----------------------------
(***************************************************************************)
(* The external shift register of the Space Invaders board                 *)
(* (src/src/core/invaders/shift_register.cpp): 16 bits of data, filled a   *)
(* byte at a time from the high end, and a 3-bit offset that selects the   *)
(* eight bits a read returns.                                              *)
(***************************************************************************)
EXTENDS I8080Alu

VARIABLES
    m_shift_data,    \* the two bytes last written, the newest one high
    m_shift_offset   \* 0..7

shiftVars == <<m_shift_data, m_shift_offset>>

ShiftTypeOK == m_shift_data \in Word /\ m_shift_offset \in 0..7

ShiftInit == m_shift_data = 0 /\ m_shift_offset = 0

\* x << n for n in 0..7
ShiftLeft(x, n) == x * <<1, 2, 4, 8, 16, 32, 64, 128>>[n + 1]

\* Mutant: the register is filled from the low end.
shift_data_wLow(data) ==
    /\ m_shift_data' = 256 * LowByte(m_shift_data) + data
    /\ UNCHANGED m_shift_offset

shift_data_w(data) ==
    /\ m_shift_data' = HighByte(m_shift_data) + 256 * data
    /\ UNCHANGED m_shift_offset

\* Mutant: the offset is not cut to three bits.
set_shift_offset_wWide(offset) == m_shift_offset' = offset /\ UNCHANGED m_shift_data

set_shift_offset_w(offset) ==
    /\ m_shift_offset' = offset % 8
    /\ UNCHANGED m_shift_data

\* Mutant: the result is taken from the low byte.
get_shift_result_rLow == ShiftLeft(m_shift_data, m_shift_offset) % 256

get_shift_result_r == (ShiftLeft(m_shift_data, m_shift_offset) \div 256) % 256
=============================================================================
