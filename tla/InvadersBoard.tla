---------------------------- MODULE InvadersBoard ----------------------------
(***************************************************************************)
(* The bus of InvadersBus driven by any caller: the processor writes       *)
(* memory and ports and resets the board, the main loop stores the inputs. *)
(* Its properties say that the arrays and offsets of the bus implement an  *)
(* address space with mirrored RAM, and its 16-bit shift register a window *)
(* over the last two bytes written.                                        *)
(***************************************************************************)
EXTENDS InvadersBus

CONSTANTS
    Roms,        \* the ROM images load_rom can have copied
    Addresses,   \* the addresses the caller uses
    Datas,       \* the bytes it writes
    Ports,       \* the ports it writes
    Inputs       \* the input bytes the main loop stores, [0..2 -> Byte]

ASSUME CallerAssumption ==
    /\ Roms \subseteq [0..INVADERS_ROM_SIZE - 1 -> Datas]
    /\ Addresses \subseteq Word
    /\ Datas \subseteq Byte /\ 0 \in Datas
    /\ Ports \subseteq Byte
    /\ Inputs \subseteq [0..2 -> Byte]

MemoryWrite(addr, data) ==
    /\ m_ram' = memory_write(m_ram, addr, data)
    /\ UNCHANGED <<m_rom, inp, m_shift_data, m_shift_offset>>

IoWrite(port, data) ==
    /\ io_write(port, data)
    /\ UNCHANGED <<m_rom, m_ram, inp>>

Init == \E rom \in Roms : BusInit(rom)

Next ==
    \/ \E addr \in Addresses, data \in Datas : MemoryWrite(addr, data)
    \/ \E port \in Ports, data \in Datas : IoWrite(port, data)
    \/ \E values \in Inputs : StoreInputs(values)
    \/ reset_bus

Spec == Init /\ [][Next]_busVars

-----------------------------------------------------------------------------
\* The addresses of the RAM and of its mirror, 2000-5fff in the code, and
\* whether two addresses name one cell.
RamWindow == 2 * PAGE .. 6 * PAGE - 1
SameRamCell(x, y) ==
    x = y \/ (x \in RamWindow /\ y \in RamWindow /\ (x - y) % INVADERS_RAM_SIZE = 0)

(***************************************************************************)
(* The bus implements an address space in which 2000-3fff and 4000-5fff    *)
(* are the same cells: a write is read back at its address and at the      *)
(* mirrored one and nowhere else, and a write to the ROM or off the map    *)
(* changes no address (memory_read, memory_write, reset).                  *)
(***************************************************************************)
Space == INSTANCE AddressSpace
           WITH Address <- Addresses, Values <- Datas, Zero <- 0, Writable <- RamWindow,
                SameCell <- SameRamCell, mem <- [addr \in Addresses |-> memory_read(addr)]

ImplementsAddressSpace == Space!Spec

(***************************************************************************)
(* The shift register implements the window over the last two bytes, and   *)
(* port 3 reads that window.                                               *)
(***************************************************************************)
Shift == INSTANCE ByteWindow
           WITH Bytes <- Datas, newest <- HighByte(m_shift_data),
                previous <- LowByte(m_shift_data), amount <- m_shift_offset

ImplementsByteWindow == Shift!Spec

PortReadsWindow == io_read(IPORT_SHFT_IN) = Shift!Window
=============================================================================
