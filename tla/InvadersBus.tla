----------------------------- MODULE InvadersBus -----------------------------
(***************************************************************************)
(* The bus of the Space Invaders board                                     *)
(* (src/src/core/invaders/invaders.cpp): the memory map behind             *)
(* memory_read and memory_write, the ports behind io_read and io_write,    *)
(* and the reset line.                                                     *)
(*                                                                         *)
(* The code decodes an address by its most significant nibble: two pages   *)
(* of ROM, two of RAM, two that mirror the RAM, the rest unmapped.  A page *)
(* has PAGE bytes here, 0x1000 in the code.                                *)
(***************************************************************************)
EXTENDS ShiftRegister

CONSTANT PAGE     \* the bytes of a page: what addr >> 12 divides by

ASSUME PageAssumption == PAGE \in Nat \ {0}

VARIABLES
    m_rom,   \* the ROM, as load_rom copied it
    m_ram,   \* RAM and video RAM
    inp      \* the input bytes inp0, inp1 and inp2 the main loop stores

busVars == <<m_rom, m_ram, inp, m_shift_data, m_shift_offset>>

INVADERS_ROM_SIZE == 2 * PAGE
INVADERS_RAM_SIZE == 2 * PAGE
ram_offset == INVADERS_ROM_SIZE
ram_mirror_offset == INVADERS_ROM_SIZE + INVADERS_RAM_SIZE

RomImage == [0..INVADERS_ROM_SIZE - 1 -> Byte]
RamImage == [0..INVADERS_RAM_SIZE - 1 -> Byte]
EmptyRam == [i \in 0..INVADERS_RAM_SIZE - 1 |-> 0]

BusTypeOK ==
    /\ m_rom \in RomImage
    /\ m_ram \in RamImage
    /\ inp \in [0..2 -> Byte]
    /\ ShiftTypeOK

\* The board as main sets it up, with the program rom in its ROM.
BusInit(rom) ==
    /\ m_rom = rom
    /\ m_ram = EmptyRam
    /\ inp = [port \in 0..2 |-> 0]
    /\ ShiftInit

-----------------------------------------------------------------------------
\* The most significant nibble of a 16-bit address.
msn(addr) == addr \div PAGE

InRam(addr) == msn(addr) >= 2 /\ msn(addr) < 4
\* Mutant: the second page of the mirror is missing.
InRamMirrorShort(addr) == msn(addr) = 4

InRamMirror(addr) == msn(addr) >= 4 /\ msn(addr) < 6

\* A byte written to this address is kept, in this cell of the RAM.
IsRam(addr) == InRam(addr) \/ InRamMirror(addr)
Cell(addr) == IF InRam(addr) THEN addr - ram_offset ELSE addr - ram_mirror_offset

\* memory_read of a board whose memories are rom and ram.
ReadMemory(rom, ram, addr) ==
    IF msn(addr) < 2 THEN rom[addr]
    ELSE IF InRam(addr) THEN ram[addr - ram_offset]
    ELSE IF InRamMirror(addr) THEN ram[addr - ram_mirror_offset]
    ELSE 0

memory_read(addr) == ReadMemory(m_rom, m_ram, addr)

\* The RAM after memory_write; a write to the ROM or off the map is dropped.
memory_write(ram, addr, data) ==
    IF InRam(addr) THEN [ram EXCEPT ![addr - ram_offset] = data]
    ELSE IF InRamMirror(addr) THEN [ram EXCEPT ![addr - ram_mirror_offset] = data]
    ELSE ram

-----------------------------------------------------------------------------
IPORT_SHFT_IN == 3
OPORT_SHFT_AMNT == 2
OPORT_SHFT_DATA == 4

io_read(port) ==
    IF port \in 0..2 THEN inp[port]
    ELSE IF port = IPORT_SHFT_IN THEN get_shift_result_r
    ELSE 0

\* The sound and watchdog ports, and the ports the switch does not list,
\* change nothing.
io_write(port, data) ==
    \/ port = OPORT_SHFT_AMNT /\ set_shift_offset_w(data)
    \/ port = OPORT_SHFT_DATA /\ shift_data_w(data)
    \/ port \notin {OPORT_SHFT_AMNT, OPORT_SHFT_DATA} /\ UNCHANGED shiftVars

\* main.cpp:112-115, where the main loop stores the keyboard's bytes.
StoreInputs(values) ==
    /\ inp' = values
    /\ UNCHANGED <<m_rom, m_ram, m_shift_data, m_shift_offset>>

\* Only the RAM is cleared: the shift register and the inputs survive.
reset_bus ==
    /\ m_ram' = EmptyRam
    /\ UNCHANGED <<m_rom, inp, m_shift_data, m_shift_offset>>
=============================================================================
