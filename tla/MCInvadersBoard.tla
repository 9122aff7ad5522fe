--------------------------- MODULE MCInvadersBoard ---------------------------
(***************************************************************************)
(* A board with pages of two bytes: the ROM is 0..3, the RAM 4..7, its     *)
(* mirror 8..11, and 12..15 and the top of the 64K are unmapped.           *)
(***************************************************************************)
EXTENDS InvadersBoard

\* Both ends of every area and, in the RAM and its mirror, pairs that are cells
\* of one page or of two.
MCAddresses == {0, 3, 4, 5, 7, 8, 9, 11, 12, 65535}

\* 3 and 181 also set the shift amount to 3 and, with the high bits that
\* set_shift_offset_w drops, to 5.
MCDatas == {0, 3, 181}

MCRoms == {[i \in 0..3 |-> IF i % 2 = 0 THEN 181 ELSE 3]}

\* Ports 2 and 4 are the shift register's, 3 and 6 are sound and watchdog,
\* 255 is none of the switch's.
MCPorts == {2, 3, 4, 6, 255}

MCInputs == {[port \in 0..2 |-> 0], [port \in 0..2 |-> IF port = 1 THEN 181 ELSE 3]}
=============================================================================
