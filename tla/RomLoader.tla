------------------------------ MODULE RomLoader ------------------------------
(***************************************************************************)
(* How the game's four files reach the ROM: load_invaders_rom of           *)
(* src/src/core/invaders/main.cpp, read_bin_file of                        *)
(* src/src/common/binary_reader.cpp and load_rom of invaders.cpp.  The     *)
(* quarters of the ROM have QUARTER bytes each, 0x800 in the code.         *)
(***************************************************************************)
EXTENDS Integers, Sequences

CONSTANT QUARTER

ASSUME QuarterAssumption == QUARTER \in Nat

ROM_SIZE == 4 * QUARTER

\* Where a file starts in the buffer: INVADERS_H_START_ADDRESS and the others.
StartAddress == [h |-> 0, g |-> QUARTER, f |-> 2 * QUARTER, e |-> 3 * QUARTER]

EmptyBuffer == [addr \in 0..ROM_SIZE - 1 |-> 0]

\* A set of files, each the sequence of its bytes.  What is longer than the
\* buffer behind its start address would be written past its end, and is left
\* out.
AreRomFiles(files) ==
    /\ DOMAIN files = DOMAIN StartAddress
    /\ \A name \in DOMAIN files :
         /\ files[name] \in Seq(0..255)
         /\ StartAddress[name] + Len(files[name]) <= ROM_SIZE

\* Mutant: the files are read one behind the other.
read_bin_file_packed(read, name, file) ==
    IF read.panic \/ Len(file) > ROM_SIZE - read.size THEN [read EXCEPT !.panic = TRUE]
    ELSE [read EXCEPT
            !.size = @ + Len(file),
            !.buffer = [addr \in DOMAIN @ |->
                          IF addr - read.size \in 0..Len(file) - 1
                          THEN file[addr - read.size + 1] ELSE @[addr]]]

\* One file is read to its start address, unless it is larger than what is left
\* of the ROM in total: then read_bin_file panics, which main does not catch.
read_bin_file(read, name, file) ==
    IF read.panic \/ Len(file) > ROM_SIZE - read.size THEN [read EXCEPT !.panic = TRUE]
    ELSE [read EXCEPT
            !.size = @ + Len(file),
            !.buffer = [addr \in DOMAIN @ |->
                          IF addr - StartAddress[name] \in 0..Len(file) - 1
                          THEN file[addr - StartAddress[name] + 1] ELSE @[addr]]]

\* What is read of all four, in the order of the code.  The sum of what was read
\* is never larger than the ROM, so its check at the end (main.cpp:35) finds
\* nothing.
load_invaders_rom(files) ==
    LET h == read_bin_file([buffer |-> EmptyBuffer, size |-> 0, panic |-> FALSE], "h", files.h)
        g == read_bin_file(h, "g", files.g)
        f == read_bin_file(g, "f", files.f)
    IN  read_bin_file(f, "e", files.e)

\* load_rom copies as many bytes as the files have, from the buffer's start.
load_rom(read) ==
    [addr \in 0..ROM_SIZE - 1 |-> IF addr < read.size THEN read.buffer[addr] ELSE 0]

(***************************************************************************)
(* The bytes of a file that lie in its quarter of the ROM are where the    *)
(* program expects them, whatever the lengths of the other files: one that *)
(* is too long is cut by the next one.  The last bytes may be missing when *)
(* an early file is short, since load_rom copies only as many bytes as the *)
(* files have together.                                                    *)
(***************************************************************************)
TotalSize(files) == Len(files.h) + Len(files.g) + Len(files.f) + Len(files.e)

InPlace(files, rom) ==
    \A name \in DOMAIN files :
        \A i \in 1..Len(files[name]) :
            LET addr == StartAddress[name] + i - 1
            IN  i <= QUARTER /\ addr < TotalSize(files) => rom[addr] = files[name][i]
=============================================================================
