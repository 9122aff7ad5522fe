-------------------------------- MODULE Screen --------------------------------
(***************************************************************************)
(* What update_game_window draws of the RAM (src/src/gui/gui.cpp:165-175). *)
(* The game keeps a column of the screen in 32 bytes of its video RAM,     *)
(* from the bottom up; the loop runs over the columns from 1 and, in each, *)
(* backwards from the first byte of the column.                            *)
(***************************************************************************)
EXTENDS Integers

\* The video RAM, 2400-3fff: the indices of its bytes in the board's RAM.
VideoRam == 1024..8191

Columns == 1..223
Rows == 0..255

\* The byte and the bit that the point of column i and row r shows: r advances
\* with every bit, of byte j = r \div 8 and from bit 7 down.
DrawnIndex(i, r) == 1024 + i * 32 - r \div 8
DrawnBit(r) == 7 - (r % 8)

colour(ram, i, r) ==
    IF (ram[DrawnIndex(i, r)] \div 2^DrawnBit(r)) % 2 = 1 THEN 255 ELSE 0
===============================================================================
