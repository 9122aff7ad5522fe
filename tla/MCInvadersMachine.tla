-------------------------- MODULE MCInvadersMachine --------------------------
(***************************************************************************)
(* A game of 64 bytes in four files, in a ROM of 64 bytes: it reads the    *)
(* keys with interrupts disabled, and both its interrupt routines use the  *)
(* stack.                                                                  *)
(***************************************************************************)
EXTENDS InvadersMachine

Reset == <<49, 128, 0,            \*  0  LXI SP, 128
           251,                   \*  3  EI
           195, 32, 0,            \*  4  JMP 32
           0,
           245, 241, 201,         \*  8  RST 1: PUSH PSW, POP PSW, RET
           0, 0, 0, 0, 0>>
Routine == <<213, 209,            \* 16  RST 2: PUSH D, POP D
             201,                 \* 18  RET
             0, 0, 0, 0, 0,
             201,                 \* 24  RET
             0, 0, 0, 0, 0, 0, 0>>
Main == <<243, 219, 1, 251,       \* 32  DI, IN 1, EI
          230, 1,                 \* 36  ANI 1
          196, 24, 0,             \* 38  CNZ 24
          195, 32, 0>>            \* 41  JMP 32
Table == <<1, 2, 3, 4>>
HaltMain == <<219, 1, 230, 1, 202, 32, 0, 118, 195, 32, 0>>   \* HLT when the key is down
Pad(s, n) == [i \in 1..n |-> IF i <= Len(s) THEN s[i] ELSE 0]

Game == [h |-> Reset, g |-> Routine, f |-> Pad(Main, 16), e |-> Pad(Table, 16)]
\* The first file is too long by two bytes, its last one is short.
LongGame == [h |-> Reset \o <<118, 118>>, g |-> Routine, f |-> Main, e |-> Table]
\* The second file is short, and hides the end of the last one.
ShortGame == [h |-> Reset, g |-> SubSeq(Routine, 1, 9), f |-> Pad(Main, 16), e |-> Pad(Table, 16)]
\* The files are too large together.
LargeGame == [h |-> Pad(Reset, 33), g |-> Routine, f |-> Pad(Main, 16), e |-> Pad(Table, 16)]
HaltGame == [h |-> Reset, g |-> Routine, f |-> Pad(HaltMain, 16), e |-> Pad(Table, 16)]

MCRomFiles == {Game, LongGame, ShortGame, LargeGame, HaltGame}

MCGames == {Game, LongGame, ShortGame}

MCInputBytes == {[port \in 0..2 |-> IF port = 1 THEN inp1 ELSE 0] : inp1 \in {8, 9}}
=============================================================================
