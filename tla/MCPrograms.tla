------------------------------ MODULE MCPrograms ------------------------------
(***************************************************************************)
(* Programs in a ROM of 64 bytes: instructions and their inverses, single  *)
(* arithmetic instructions, decimal sums, and every opcode.  The RAM is    *)
(* 64..127 and its mirror 128..191.                                        *)
(***************************************************************************)
EXTENDS ProgramListing

Regs(a, b, c, d, e, h, l) ==
    [r \in 0..6 |-> <<a, b, c, d, e, h, l>>[r + 1]]

MCRegs == {Regs(0, 0, 0, 0, 0, 0, 0), Regs(255, 255, 255, 255, 255, 255, 255),
           Regs(153, 1, 255, 128, 0, 15, 240), Regs(127, 129, 0, 255, 255, 0, 100)}

\* Stacks at the top of the RAM, across the edge to the mirror, at the top of
\* the mirror.
RoundTripStarts == [regs : MCRegs, psw : {2, 3, 70, 215, 146}, sp : {128, 129, 192}]

S(code, routine, loses) ==
    [code |-> code, routine |-> routine, loses |-> loses, starts |-> RoundTripStarts]
P(code, loses) == S(code, <<>>, loses)

Calc == {"CY", "flags"}     \* what an arithmetic instruction may change

Moves == {
    P(<<0, 235, 8, 235>>, {}),                       \* XCHG, XCHG
    P(<<197, 1, 0, 0, 193>>, {}),                    \* PUSH B, LXI B, POP B
    P(<<213, 17, 0, 0, 209>>, {}),                   \* PUSH D, LXI D, POP D
    P(<<229, 33, 0, 0, 225>>, {}),                   \* PUSH H, LXI H, POP H
    P(<<245, 175, 55, 241>>, {}),                    \* PUSH PSW, XRA A, STC, POP PSW
    P(<<229, 227, 227, 225>>, {}),                   \* PUSH H, XTHL, XTHL, POP H
    P(<<197, 229, 193, 225, 197, 229, 193, 225>>, {}),   \* HL and BC exchanged twice
    P(<<33, 0, 0, 57, 249>>, {"H", "L", "CY"}),      \* LXI H,0; DAD SP; SPHL
    P(<<34, 100, 0, 33, 0, 0, 42, 100, 0>>, {}),     \* SHLD, LXI H, LHLD
    P(<<50, 164, 0, 62, 0, 58, 100, 0>>, {}),        \* STA in the mirror, LDA
    P(<<1, 100, 0, 2, 175, 10>>, {"B", "C", "CY", "flags"}),       \* STAX B, LDAX B
    P(<<17, 165, 0, 18, 175, 26>>, {"D", "E", "CY", "flags"}),     \* STAX D, LDAX D
    P(<<33, 100, 0, 113, 14, 0, 78>>, {"H", "L"}),   \* MOV M,C; MVI C; MOV C,M
    P(<<33, 100, 0, 54, 90, 126, 214, 90, 130, 87>>, {"A", "H", "L"} \cup Calc),
                                                     \* MVI M; MOV A,M; SUI; ADD D
    P(<<80, 122, 66>>, {"A", "D"}),                  \* MOV D,B; MOV A,D; MOV B,D
    P(<<120, 211, 4, 175, 211, 2, 219, 3, 71>>, {"A"} \cup Calc),  \* OUT 4, OUT 2, IN 3
    P(<<251, 243, 0>>, {}),                          \* EI, DI
    P(<<197, 23, 3, 47, 245, 43, 235, 229, 0,        \* PUSH, RAL, INX, CMA, ... each undone
        0, 225, 235, 35, 241, 47, 11, 31, 193>>, {})
}

Arithmetic == {
    P(<<128, 144>>, Calc), P(<<144, 128>>, Calc),    \* ADD B, SUB B and back
    P(<<183, 137, 183, 153>>, Calc),                 \* ORA A, ADC C, ORA A, SBB C
    P(<<198, 255, 214, 255>>, Calc),                 \* ADI, SUI
    P(<<238, 165, 238, 165>>, Calc),                 \* XRI, XRI
    P(<<184, 254, 128>>, Calc),                      \* CMP B, CPI
    P(<<87, 160, 95, 122, 176, 131, 144>>, {"D", "E"} \cup Calc),  \* (A&B) + (A|B) - B
    P(<<62, 85, 238, 0, 39, 214, 85, 128, 71>>, {"A"} \cup Calc),  \* DAA of a BCD number
    P(<<47, 47>>, {}), P(<<63, 63>>, {}),            \* CMA, CMA and CMC, CMC
    P(<<7, 15>>, {"CY"}), P(<<23, 31>>, {}),         \* RLC, RRC and RAL, RAR
    P(<<31, 31, 31, 31, 31, 31, 31, 31, 31>>, {}),   \* RAR nine times
    P(<<4, 5>>, {"flags"}), P(<<61, 60>>, {"flags"}),              \* INR B, DCR B and back
    P(<<33, 100, 0, 113, 52, 53, 78>>, {"H", "L", "flags"}),       \* INR M, DCR M
    P(<<3, 11>>, {}), P(<<27, 19>>, {}), P(<<51, 59>>, {}),        \* INX, DCX
    P(<<120, 47, 71, 121, 47, 79, 3, 84, 93, 9, 235,               \* HL - BC by complement,
        120, 47, 71, 121, 47, 79, 3, 235, 9>>,                     \* then + BC
      {"A", "D", "E", "CY"})
}

Calls ==
    {S(<<205, 40, 0>>, <<201>>, {}),                 \* CALL, RET
     S(<<239>>, <<201>>, {}),                        \* RST 5, RET
     P(<<195, 3, 0>>, {}),                           \* JMP to the next instruction
     P(<<229, 33, 5, 0, 233, 225>>, {})}             \* LXI H; PCHL to the next instruction
    \cup {P(<<194 + 8 * c, 3, 0>>, {}) : c \in 0..7}               \* Jcc
    \cup {S(<<196 + 8 * c, 40, 0>>, <<201>>, {}) : c \in 0..7}     \* Ccc, RET
    \cup {S(<<205, 40, 0>>, <<192 + 8 * c, 201>>, {}) : c \in 0..7}   \* CALL, Rcc or RET

RoundTrips == Moves \cup Arithmetic \cup Calls

-----------------------------------------------------------------------------
\* A program that gives nothing back.
Once(code, starts) ==
    [code |-> code, routine |-> <<>>, loses |-> Parts, starts |-> starts]

\* One arithmetic instruction, on bytes at the edges of the nibbles, of the byte
\* and of the sign, with and without carry: A and H hold one, B and L another.
Samples == {0, 1, 9, 15, 16, 127, 128, 240, 254, 255}
SampleStarts(stacks) ==
    [regs : {Regs(x, y, x, 15, y, x, y) : x \in Samples, y \in Samples}, psw : {2, 215},
     sp : stacks]

\* ADD B, ADC B, CMP B, ADI, ACI, CPI, ADD M, INR M, DCR M (in the ROM, the RAM,
\* its mirror and off the map), and DAD, INX, DCX of BC, DE, HL.
Sums ==
    {<<128>>, <<136>>, <<184>>, <<198, 15>>, <<206, 254>>, <<254, 128>>, <<134>>, <<52>>, <<53>>}
    \cup {<<16 * rp + op>> : rp \in 0..2, op \in {9, 3, 11}}

\* DAD, INX, DCX of SP.
StackSums == {<<57>>, <<51>>, <<59>>}

SumPrograms ==
    {Once(code, SampleStarts({0})) : code \in Sums}
    \cup {Once(code, SampleStarts({0, 128, 65535})) : code \in StackSums}

\* SUB B, SBB B, SUI and SBI.
DifferencePrograms ==
    {Once(code, SampleStarts({0})) : code \in {<<144>>, <<152>>, <<214, 1>>, <<222, 241>>}}

\* ADD B and DAA, with and without carries out of both digits, before and after
\* the adjustment.
DecimalBytes == {16 * tens + units : tens \in {0, 1, 5, 6, 8, 9}, units \in {0, 1, 4, 5, 9}}
DecimalPrograms ==
    {Once(<<128, 39>>,
          [regs : {Regs(x, y, 0, 0, 0, 0, 0) : x \in DecimalBytes, y \in DecimalBytes},
           psw : {2}, sp : {0}])}

\* Every opcode but SBI (222) and RST 0 (199, a loop), with its branch conditions
\* met and not.  A branch goes to 3, or returns there from a stack in the program
\* itself; the operands of the others, taken for opcodes, are LXI and its first
\* operand.
ListingStarts == [regs : {Regs(0, 0, 0, 0, 0, 0, 3)}, psw : {2, 215}, sp : {1}]
Branches == {op \in 192..255 : op % 8 \in {0, 2, 4, 7}} \cup {195, 201, 205, 233}
Listed(op) == IF op \in Branches THEN <<op, 3, 0>> ELSE <<op, 1, 1>>
ListingPrograms == {Once(Listed(op), ListingStarts) : op \in (0..255) \ {199, 222}}
SbiPrograms == {Once(<<222, 1>>, ListingStarts)}

MCPrograms == RoundTrips \cup SumPrograms \cup DecimalPrograms \cup ListingPrograms

MCRam == [i \in 0..63 |-> i]
MCScratch == {100, 101}
=============================================================================
