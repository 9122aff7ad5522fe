-------------------------- MODULE MCInterruptedCpu --------------------------
(***************************************************************************)
(* A program with the two interrupt routines of the board, in a ROM of 64  *)
(* bytes; the RAM is 64..127 and its mirror 128..191.  The routines save   *)
(* what they use and enable interrupts before they return, so they nest.   *)
(***************************************************************************)
EXTENDS InterruptedCpu

Code(stack_top) == <<
    49, stack_top, 0,         \*  0  LXI  SP, stack_top
    251,                      \*  3  EI
    195, 46, 0,               \*  4  JMP  46
    0,
    195, 19, 0,               \*  8  RST 1: JMP 19
    55, 4, 60, 201,           \* 11  STC, INR B, INR A, RET
    0,
    195, 36, 0,               \* 16  RST 2: JMP 36
    245, 197, 213, 229,       \* 19  PUSH PSW, B, D, H
    33, 255, 128,             \* 23  LXI  H, 80FFh
    41, 235,                  \* 26  DAD  H, XCHG
    205, 11, 0,               \* 28  CALL 11
    225, 209, 193, 241,       \* 31  POP  H, D, B, PSW
    201,                      \* 35  RET, with interrupts as they were
    245, 229,                 \* 36  PUSH PSW, H
    33, 64, 0,                \* 38  LXI  H, 64
    52,                       \* 41  INR  M
    225, 241,                 \* 42  POP  H, PSW
    251, 201,                 \* 44  EI, RET
    62, 153, 71, 197,         \* 46  MVI A, 99h; MOV B,A; PUSH B
    205, 11, 0,               \* 50  CALL 11
    193,                      \* 53  POP  B
    243, 60, 251,             \* 54  DI, INR A, EI
    118,                      \* 57  HLT
    195, 57, 0,               \* 58  JMP  57
    0, 0, 0 >>

Rom(stack_top) == [addr \in 0..63 |-> Code(stack_top)[addr + 1]]

\* The stack starts at the top of the RAM or in the mirror.
MCRoms == {Rom(128), Rom(176)}

\* RST 1 and RST 2
MCVectors == {207, 215}
=============================================================================
