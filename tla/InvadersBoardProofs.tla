-------------------------- MODULE InvadersBoardProofs --------------------------
(***************************************************************************)
(* Proofs about the board of InvadersBoard, for every page size and every  *)
(* caller: its types, that it implements the mirrored address space and    *)
(* the window over two bytes; and what the window shows of its video RAM.  *)
(***************************************************************************)
EXTENDS InvadersBoard, Screen, I8080CpuProofs

-----------------------------------------------------------------------------
LEMMA InitBusTypeOK == Init => BusTypeOK
<1> SUFFICES ASSUME Init PROVE BusTypeOK OBVIOUS
<1>1. m_rom \in RomImage BY CallerAssumption DEF Init, BusInit, RomImage
<1>2. 0 \in Byte /\ 0 \in Word BY DEF Byte, Word, TwoTo16
<1> QED BY <1>1, <1>2, EmptyRamType DEF Init, BusInit, ShiftInit, BusTypeOK, ShiftTypeOK

LEMMA NextBusTypeOK == BusTypeOK /\ [Next]_busVars => BusTypeOK'
<1> SUFFICES ASSUME BusTypeOK, [Next]_busVars PROVE BusTypeOK' OBVIOUS
<1>1. ASSUME NEW addr \in Addresses, NEW data \in Datas, MemoryWrite(addr, data)
      PROVE  BusTypeOK'
  <2>1. addr \in Word /\ data \in Byte BY CallerAssumption
  <2>2. m_ram' \in RamImage BY <1>1, <2>1, WriteType DEF MemoryWrite, BusTypeOK
  <2> QED BY <1>1, <2>2 DEF MemoryWrite, BusTypeOK, ShiftTypeOK
<1>2. ASSUME NEW port \in Ports, NEW data \in Datas, IoWrite(port, data)
      PROVE  BusTypeOK'
  <2>1. port \in Byte /\ data \in Byte BY CallerAssumption
  <2>2. ShiftTypeOK' BY <1>2, <2>1, IoWriteType DEF IoWrite, BusTypeOK
  <2> QED BY <1>2, <2>2 DEF IoWrite, BusTypeOK
<1>3. ASSUME NEW values \in Inputs, StoreInputs(values) PROVE BusTypeOK'
  BY <1>3, CallerAssumption DEF StoreInputs, BusTypeOK, ShiftTypeOK
<1>4. CASE reset_bus
  BY <1>4, EmptyRamType DEF reset_bus, BusTypeOK, ShiftTypeOK
<1>5. CASE UNCHANGED busVars
  BY <1>5 DEF busVars, BusTypeOK, ShiftTypeOK
<1> QED BY <1>1, <1>2, <1>3, <1>4, <1>5 DEF Next

(***************************************************************************)
(* The board keeps its types: no write, port access or reset puts anything *)
(* but bytes into its arrays, or an offset of more than three bits into    *)
(* its shift register.                                                     *)
(***************************************************************************)
THEOREM BoardKeepsTypes == Spec => []BusTypeOK
BY InitBusTypeOK, NextBusTypeOK, PTL DEF Spec

-----------------------------------------------------------------------------
(***************************************************************************)
(* The shift register.                                                     *)
(***************************************************************************)
LEMMA WindowInit == Init => Shift!Init
<1>1. HighByte(0) = 0 /\ LowByte(0) = 0 BY DEF HighByte, LowByte
<1> QED BY <1>1 DEF Init, BusInit, ShiftInit, Shift!Init

LEMMA WindowStep == BusTypeOK /\ [Next]_busVars => [Shift!Next]_(Shift!vars)
<1> SUFFICES ASSUME BusTypeOK, [Next]_busVars PROVE [Shift!Next]_(Shift!vars) OBVIOUS
<1>u. ASSUME UNCHANGED shiftVars PROVE UNCHANGED Shift!vars
  BY <1>u DEF shiftVars, Shift!vars
<1>1. ASSUME NEW port \in Ports, NEW data \in Datas, IoWrite(port, data)
      PROVE  [Shift!Next]_(Shift!vars)
  <2>0. data \in Byte BY CallerAssumption
  <2>1. CASE set_shift_offset_w(data)
    <3>1. data % 8 \in 0..7 BY <2>0 DEF Byte
    <3>2. Shift!Choose(data % 8) BY <2>1 DEF set_shift_offset_w, Shift!Choose
    <3> QED BY <3>1, <3>2 DEF Shift!Next
  <2>2. CASE shift_data_w(data)
    <3>1. HighByte(m_shift_data) \in Byte
      BY WordParts DEF BusTypeOK, ShiftTypeOK
    <3>2. m_shift_data' = HighByte(m_shift_data) + 256 * data
      BY <2>2 DEF shift_data_w
    <3>3. HighByte(m_shift_data') = data /\ LowByte(m_shift_data') = HighByte(m_shift_data)
      BY <2>0, <3>1, <3>2 DEF HighByte, LowByte, Byte
    <3>4. Shift!Push(data) BY <2>2, <3>3 DEF shift_data_w, Shift!Push
    <3> QED BY <3>4 DEF Shift!Next
  <2>3. CASE UNCHANGED shiftVars BY <2>3, <1>u
  <2> QED BY <1>1, <2>1, <2>2, <2>3 DEF IoWrite, io_write
<1>2. CASE UNCHANGED shiftVars BY <1>2, <1>u
<1> QED BY <1>1, <1>2 DEF Next, MemoryWrite, StoreInputs, reset_bus, busVars, shiftVars

(***************************************************************************)
(* The shift register implements the window over the last two bytes, for   *)
(* every byte written and whatever else the caller does.                   *)
(***************************************************************************)
THEOREM BoardImplementsByteWindow == Spec => ImplementsByteWindow
BY InitBusTypeOK, NextBusTypeOK, WindowInit, WindowStep, PTL
   DEF Spec, ImplementsByteWindow, Shift!Spec

\* A byte times k, split at the bit that k moves to the top: k * m = 256.
LEMMA SplitByte ==
  ASSUME NEW x \in Byte, NEW k \in Nat, NEW m \in Nat, k * m = 256
  PROVE  /\ x \div m \in Nat /\ k * (x % m) \in Nat
         /\ x \div m < k
         /\ k * (x % m) + k <= 256
         /\ k * x = 256 * (x \div m) + k * (x % m)
<1>1. k > 0 /\ m > 0
  <2>1. k # 0 /\ m # 0 OBVIOUS
  <2> QED BY <2>1
<1> DEFINE high == x \div m
           low == x % m
<1>2. high \in Nat /\ low \in Nat /\ low < m /\ x = m * high + low
  BY <1>1 DEF Byte
<1> HIDE DEF high, low
<1>3. high < k
  <2> SUFFICES ASSUME ~(high < k) PROVE FALSE OBVIOUS
  <2>1. PICK d \in Nat : high = k + d BY <1>2
  <2>2. m * high = 256 + m * d /\ m * d \in Nat BY <2>1
  <2> QED BY <1>2, <2>2 DEF Byte
<1>4. k * low + k <= 256
  <2>1. PICK d \in Nat : m = low + 1 + d BY <1>2
  <2>2. k * m = k * low + k + k * d /\ k * d \in Nat /\ k * low \in Nat BY <1>2, <2>1
  <2> QED BY <2>2
<1>5. k * x = 256 * high + k * low
  <2>1. k * x = k * (m * high) + k * low BY <1>2
  <2>2. k * (m * high) = (k * m) * high BY <1>2
  <2> QED BY <2>1, <2>2
<1>6. high \in Nat /\ k * low \in Nat BY <1>2
<1> QED BY <1>3, <1>4, <1>5, <1>6 DEF high, low

\* What the shift by k brings into the high byte: the low bits of h, and the high
\* bits of l.
LEMMA ShiftWindow ==
  ASSUME NEW h \in Byte, NEW l \in Byte, NEW k \in Nat, NEW m \in Nat, k * m = 256
  PROVE  (((256 * h + l) * k) \div 256) % 256 = ((h * k) % 256) + (l \div m)
<1> DEFINE x == l \div m
           a == h \div m
           kr == k * (l % m)
           kb == k * (h % m)
           hk == h * k
           dk == (256 * h + l) * k
<1>1. /\ x \in Nat /\ a \in Nat /\ kr \in Nat /\ kb \in Nat
      /\ x < k /\ kb + k <= 256
      /\ hk = 256 * a + kb
      /\ k * l = 256 * x + kr
  <2>1. hk = k * h BY DEF Byte
  <2> QED BY <2>1, SplitByte
<1>2. kr < 256
  <2>1. kr + k <= 256 BY SplitByte
  <2>2. k # 0 OBVIOUS
  <2> QED BY <1>1, <2>1, <2>2
<1>3. dk = 256 * hk + k * l
  BY DEF Byte
<1> HIDE DEF x, a, kr, kb, hk, dk
<1>4. dk = 256 * (256 * a + kb + x) + kr
  <2>1. dk = 256 * hk + (256 * x + kr) BY <1>1, <1>3
  <2> QED BY <1>1, <2>1
<1>5. kb + x < 256 BY <1>1
<1>6. dk \div 256 = 256 * a + (kb + x) BY <1>1, <1>2, <1>4
<1>7. (256 * a + (kb + x)) % 256 = kb + x BY <1>1, <1>5
<1>8. hk % 256 = kb
  <2>1. kb < 256 BY <1>1
  <2> QED BY <1>1, <2>1
<1>9. (dk \div 256) % 256 = (hk % 256) + x BY <1>6, <1>7, <1>8
<1> QED BY <1>9 DEF hk, dk, x

LEMMA WindowRead == BusTypeOK => PortReadsWindow
<1> SUFFICES ASSUME BusTypeOK PROVE PortReadsWindow OBVIOUS
<1> DEFINE h == HighByte(m_shift_data)
           l == LowByte(m_shift_data)
<1>1. h \in Byte /\ l \in Byte /\ m_shift_data = 256 * h + l
  <2>1. m_shift_data \in Word BY DEF BusTypeOK, ShiftTypeOK
  <2>2. h \in Byte /\ l \in Byte /\ MakeWord(l, h) = m_shift_data
    BY <2>1, WordParts
  <2> HIDE DEF h, l
  <2> QED BY <2>2 DEF MakeWord
<1> HIDE DEF h, l
<1>2. ASSUME NEW k \in Nat, NEW m \in Nat, k * m = 256,
             ShiftLeft(m_shift_data, m_shift_offset) = m_shift_data * k,
             2 ^ m_shift_offset = k, 2 ^ (8 - m_shift_offset) = m
      PROVE  PortReadsWindow
  <2>1. get_shift_result_r = ((h * k) % 256) + (l \div m)
    BY <1>1, <1>2, ShiftWindow DEF get_shift_result_r
  <2>2. Shift!Window = ((h * k) % 256) + (l \div m)
    BY <1>2 DEF Shift!Window, h, l
  <2>3. io_read(IPORT_SHFT_IN) = get_shift_result_r
    BY DEF io_read, IPORT_SHFT_IN
  <2> QED BY <2>1, <2>2, <2>3 DEF PortReadsWindow
<1>3. m_shift_offset \in 0..7 BY DEF BusTypeOK, ShiftTypeOK
<1>4. CASE m_shift_offset = 0 BY <1>2, <1>4 DEF ShiftLeft
<1>5. CASE m_shift_offset = 1 BY <1>2, <1>5 DEF ShiftLeft
<1>6. CASE m_shift_offset = 2 BY <1>2, <1>6 DEF ShiftLeft
<1>7. CASE m_shift_offset = 3 BY <1>2, <1>7 DEF ShiftLeft
<1>8. CASE m_shift_offset = 4 BY <1>2, <1>8 DEF ShiftLeft
<1>9. CASE m_shift_offset = 5 BY <1>2, <1>9 DEF ShiftLeft
<1>10. CASE m_shift_offset = 6 BY <1>2, <1>10 DEF ShiftLeft
<1>11. CASE m_shift_offset = 7 BY <1>2, <1>11 DEF ShiftLeft
<1> QED BY <1>3, <1>4, <1>5, <1>6, <1>7, <1>8, <1>9, <1>10, <1>11

(***************************************************************************)
(* Port 3 always reads the window: the eight bits that start at the offset *)
(* below the top of the newest byte (shift_register.cpp:15-17).            *)
(***************************************************************************)
THEOREM PortAlwaysReadsWindow == Spec => []PortReadsWindow
BY InitBusTypeOK, NextBusTypeOK, WindowRead, PTL DEF Spec

-----------------------------------------------------------------------------
(***************************************************************************)
(* The address space.                                                      *)
(***************************************************************************)
LEMMA WindowIsRam ==
  ASSUME NEW addr \in Word
  PROVE  /\ addr \in RamWindow <=> InRam(addr) \/ InRamMirror(addr)
         /\ InRam(addr) <=> 2 * PAGE <= addr /\ addr < 4 * PAGE
         /\ InRamMirror(addr) <=> 4 * PAGE <= addr /\ addr < 6 * PAGE
         /\ addr \in RamWindow => msn(addr) >= 2
         /\ addr \in RamWindow => Cell(addr) \in 0..INVADERS_RAM_SIZE - 1
<1>1. addr \in Nat /\ PAGE \in Nat /\ PAGE > 0
  BY WordIsNat, PageAssumption DEF PageAssumption
<1>2. msn(addr) \in Nat BY <1>1, PageBounds
<1>3. msn(addr) < 2 <=> addr < 2 * PAGE BY <1>1, BelowPage
<1>4. msn(addr) < 4 <=> addr < 4 * PAGE BY <1>1, BelowPage
<1>5. msn(addr) < 6 <=> addr < 6 * PAGE BY <1>1, BelowPage
<1>6. /\ InRam(addr) <=> 2 * PAGE <= addr /\ addr < 4 * PAGE
      /\ InRamMirror(addr) <=> 4 * PAGE <= addr /\ addr < 6 * PAGE
  BY <1>1, <1>2, <1>3, <1>4, <1>5 DEF InRam, InRamMirror
<1>7. addr \in RamWindow <=> 2 * PAGE <= addr /\ addr < 6 * PAGE
  BY <1>1 DEF RamWindow
<1>8. addr \in RamWindow => msn(addr) >= 2 BY <1>1, <1>2, <1>3, <1>7
<1>9. addr \in RamWindow => Cell(addr) \in 0..INVADERS_RAM_SIZE - 1
  BY <1>1, <1>6, <1>7
  DEF Cell, ram_offset, ram_mirror_offset, INVADERS_ROM_SIZE, INVADERS_RAM_SIZE
<1> QED BY <1>1, <1>6, <1>7, <1>8, <1>9

\* A difference of less than twice a modulus is a multiple of it in three cases.
LEMMA SmallMultiple ==
  ASSUME NEW q \in Nat, NEW d \in Int, q > 0, -(2 * q) < d, d < 2 * q
  PROVE  d % q = 0 <=> d \in {-q, 0, q}
<1> DEFINE k == d \div q
           r == d % q
<1>1. k \in Int /\ r \in Nat /\ r < q /\ d = q * k + r OBVIOUS
<1> HIDE DEF k, r
<1>2. k < 2
  <2> SUFFICES ASSUME ~(k < 2) PROVE FALSE OBVIOUS
  <2>1. PICK n \in Nat : k = 2 + n BY <1>1
  <2>2. q * k = 2 * q + q * n /\ q * n \in Nat BY <2>1
  <2> QED BY <1>1, <2>2
<1>3. k >= -2
  <2> SUFFICES ASSUME ~(k >= -2) PROVE FALSE OBVIOUS
  <2>1. PICK n \in Nat : k = -3 - n BY <1>1
  <2>2. q * k = -(3 * q) - q * n /\ q * n \in Nat BY <2>1
  <2> QED BY <1>1, <2>2
<1>4. k \in {-2, -1, 0, 1} BY <1>1, <1>2, <1>3
<1>5. r = 0 <=> d \in {-q, 0, q}
  <2>1. CASE k = -2 BY <1>1, <2>1
  <2>2. CASE k = -1 BY <1>1, <2>2
  <2>3. CASE k = 0 BY <1>1, <2>3
  <2>4. CASE k = 1 BY <1>1, <2>4
  <2> QED BY <1>4, <2>1, <2>2, <2>3, <2>4
<1> QED BY <1>5 DEF r

\* Two addresses of the window name one cell when they have one index.
LEMMA CellsOfWindow ==
  ASSUME NEW x \in Word, NEW y \in Word, x \in RamWindow, y \in RamWindow
  PROVE  SameRamCell(x, y) <=> Cell(x) = Cell(y)
<1>1. x \in Nat /\ y \in Nat /\ PAGE \in Nat /\ PAGE > 0
  BY WordIsNat, PageAssumption DEF PageAssumption
<1> DEFINE q == 2 * PAGE
<1>2. INVADERS_RAM_SIZE = q /\ ram_offset = q /\ ram_mirror_offset = 2 * q /\ q \in Nat /\ q > 0
  BY <1>1 DEF INVADERS_RAM_SIZE, INVADERS_ROM_SIZE, ram_offset, ram_mirror_offset
<1>3. /\ InRam(x) <=> q <= x /\ x < 2 * q
      /\ InRam(y) <=> q <= y /\ y < 2 * q
      /\ q <= x /\ x < 3 * q /\ q <= y /\ y < 3 * q
  BY <1>1, WindowIsRam DEF RamWindow
<1> HIDE DEF q
<1>4. (x - y) % q = 0 <=> (x - y) \in {-q, 0, q}
  BY <1>1, <1>2, <1>3, SmallMultiple
<1>5. SameRamCell(x, y) <=> x = y \/ (x - y) \in {-q, 0, q}
  BY <1>2, <1>4 DEF SameRamCell
<1> QED BY <1>1, <1>2, <1>3, <1>5 DEF Cell

\* A read in the window is a read of the RAM, any other one depends on the ROM only.
LEMMA ReadsOfWindow ==
  ASSUME NEW rom, NEW ram, NEW addr \in Word
  PROVE  /\ addr \in RamWindow => ReadMemory(rom, ram, addr) = ram[Cell(addr)]
         /\ addr \notin RamWindow =>
              ReadMemory(rom, ram, addr) = IF msn(addr) < 2 THEN rom[addr] ELSE 0
<1>1. msn(addr) \in Nat BY WordIsNat, PageBounds
<1> QED BY <1>1, WindowIsRam DEF ReadMemory, Cell

LEMMA SpaceInit == Init => Space!Init
<1> SUFFICES ASSUME Init PROVE Space!Init OBVIOUS
<1> DEFINE mem == [addr \in Addresses |-> memory_read(addr)]
<1>1. m_rom \in [0..INVADERS_ROM_SIZE - 1 -> Datas] /\ m_ram = EmptyRam /\ 0 \in Datas
  BY CallerAssumption DEF Init, BusInit
<1>2. ASSUME NEW addr \in Addresses PROVE memory_read(addr) \in Datas
  <2>1. addr \in Word BY CallerAssumption
  <2>2. CASE addr \in RamWindow
    BY <1>1, <2>1, <2>2, ReadsOfWindow, WindowIsRam DEF memory_read, EmptyRam
  <2>3. CASE addr \notin RamWindow
    BY <1>1, <2>1, <2>3, ReadsOfWindow, AccessesStayInBounds DEF memory_read
  <2> QED BY <2>2, <2>3
<1>3. ASSUME NEW x \in Addresses, NEW y \in Addresses, SameRamCell(x, y)
      PROVE  memory_read(x) = memory_read(y)
  <2>1. x \in Word /\ y \in Word BY CallerAssumption
  <2>2. CASE x = y BY <2>2
  <2>3. CASE x # y
    <3>1. x \in RamWindow /\ y \in RamWindow BY <1>3, <2>3 DEF SameRamCell
    <3>2. Cell(x) = Cell(y) BY <1>3, <2>1, <3>1, CellsOfWindow
    <3> QED BY <2>1, <3>1, <3>2, ReadsOfWindow DEF memory_read
  <2> QED BY <2>2, <2>3
<1> QED BY <1>2, <1>3 DEF Space!Init, Space!Coherent

\* A write is read back at every address of its cell, and nowhere else.
LEMMA WriteIsStore ==
  ASSUME BusTypeOK, NEW addr \in Addresses, NEW data \in Datas, MemoryWrite(addr, data)
  PROVE  Space!Store(addr, data)
<1>0. addr \in Word /\ m_ram \in RamImage BY CallerAssumption DEF BusTypeOK
<1>1. m_ram' = memory_write(m_ram, addr, data) /\ m_rom' = m_rom BY DEF MemoryWrite
<1>2. m_ram' = IF addr \in RamWindow THEN [m_ram EXCEPT ![Cell(addr)] = data] ELSE m_ram
  BY <1>0, <1>1, WindowIsRam DEF memory_write, Cell
<1>3. ASSUME NEW x \in Addresses
      PROVE  memory_read(x)' = IF addr \in RamWindow /\ SameRamCell(addr, x) THEN data
                               ELSE memory_read(x)
  <2>0. x \in Word BY CallerAssumption
  <2>1. memory_read(x)' = ReadMemory(m_rom, m_ram', x) /\ memory_read(x) = ReadMemory(m_rom, m_ram, x)
    BY <1>1 DEF memory_read
  <2>2. CASE addr \in RamWindow /\ x \in RamWindow
    <3>1. Cell(x) \in DOMAIN m_ram /\ Cell(addr) \in DOMAIN m_ram
      BY <1>0, <2>0, <2>2, WindowIsRam DEF RamImage
    <3>2. SameRamCell(addr, x) <=> Cell(addr) = Cell(x)
      BY <1>0, <2>0, <2>2, CellsOfWindow
    <3> QED BY <1>2, <2>0, <2>1, <2>2, <3>1, <3>2, ReadsOfWindow
  <2>3. CASE addr \in RamWindow /\ x \notin RamWindow
    <3>1. ~SameRamCell(addr, x) BY <2>3 DEF SameRamCell
    <3> QED BY <2>0, <2>1, <2>3, <3>1, ReadsOfWindow
  <2>4. CASE addr \notin RamWindow BY <1>2, <2>1, <2>4
  <2> QED BY <2>2, <2>3, <2>4
<1> QED BY <1>3 DEF Space!Store

\* A reset clears what can be written, and nothing else.
LEMMA ResetIsClear == ASSUME BusTypeOK, reset_bus PROVE Space!Clear
<1>1. ASSUME NEW x \in Addresses
      PROVE  memory_read(x)' = IF x \in RamWindow THEN 0 ELSE memory_read(x)
  <2>0. x \in Word BY CallerAssumption
  <2>1. memory_read(x)' = ReadMemory(m_rom, EmptyRam, x) /\ memory_read(x) = ReadMemory(m_rom, m_ram, x)
    BY DEF memory_read, reset_bus
  <2>2. CASE x \in RamWindow
    BY <2>0, <2>1, <2>2, ReadsOfWindow, WindowIsRam DEF EmptyRam
  <2>3. CASE x \notin RamWindow BY <2>0, <2>1, <2>3, ReadsOfWindow
  <2> QED BY <2>2, <2>3
<1> QED BY <1>1 DEF Space!Clear

LEMMA SpaceStep ==
  LET mem == [addr \in Addresses |-> memory_read(addr)]
  IN  BusTypeOK /\ [Next]_busVars => [Space!Next]_mem
<1> DEFINE mem == [addr \in Addresses |-> memory_read(addr)]
<1> SUFFICES ASSUME BusTypeOK, [Next]_busVars PROVE [Space!Next]_mem OBVIOUS
<1>1. ASSUME NEW addr \in Addresses, NEW data \in Datas, MemoryWrite(addr, data)
      PROVE  Space!Next
  BY <1>1, WriteIsStore DEF Space!Next
<1>2. CASE reset_bus BY <1>2, ResetIsClear DEF Space!Next
<1>3. CASE UNCHANGED <<m_rom, m_ram>> BY <1>3 DEF memory_read
<1> QED BY <1>1, <1>2, <1>3 DEF Next, IoWrite, StoreInputs, busVars

(***************************************************************************)
(* The bus implements the mirrored address space, for every page size and  *)
(* every choice of addresses: arrays and offsets are invisible.            *)
(***************************************************************************)
THEOREM BoardImplementsAddressSpace == Spec => ImplementsAddressSpace
BY InitBusTypeOK, NextBusTypeOK, SpaceInit, SpaceStep, PTL
   DEF Spec, ImplementsAddressSpace, Space!Spec

-----------------------------------------------------------------------------
(***************************************************************************)
(* The screen shows the video RAM and nothing else, and no bit of it at    *)
(* two points: the drawing loop, which starts at column 1 and indexes      *)
(* backwards, stays clear of the 1K of work RAM below (gui.cpp:165-175).   *)
(***************************************************************************)
THEOREM EachBitDrawnOnce ==
  /\ \A i \in Columns, r \in Rows :
       DrawnIndex(i, r) \in VideoRam /\ DrawnBit(r) \in 0..7
  /\ \A i, k \in Columns : \A r, s \in Rows :
       DrawnIndex(i, r) = DrawnIndex(k, s) /\ DrawnBit(r) = DrawnBit(s) => i = k /\ r = s
<1>1. ASSUME NEW r \in Rows
      PROVE  r \div 8 \in 0..31 /\ r % 8 \in 0..7 /\ r = 8 * (r \div 8) + (r % 8)
  BY DEF Rows
<1>2. ASSUME NEW i \in Columns, NEW r \in Rows
      PROVE  DrawnIndex(i, r) \in VideoRam /\ DrawnBit(r) \in 0..7
  <2>1. PICK q \in 0..31, b \in 0..7 : q = r \div 8 /\ b = r % 8
    BY <1>1
  <2>2. DrawnIndex(i, r) = 1024 + i * 32 - q /\ DrawnBit(r) = 7 - b
    BY <2>1 DEF DrawnIndex, DrawnBit
  <2>3. 1024 + i * 32 - q \in VideoRam
    BY DEF Columns, VideoRam
  <2> QED BY <2>2, <2>3
<1>3. ASSUME NEW i \in Columns, NEW k \in Columns, NEW r \in Rows, NEW s \in Rows,
             DrawnIndex(i, r) = DrawnIndex(k, s), DrawnBit(r) = DrawnBit(s)
      PROVE  i = k /\ r = s
  <2>0. r % 8 = s % 8
    BY <1>1, <1>3 DEF DrawnBit
  <2>1. i * 32 - r \div 8 = k * 32 - s \div 8
    <3>1. 1024 + i * 32 - r \div 8 = 1024 + k * 32 - s \div 8
      BY <1>3 DEF DrawnIndex
    <3>2. r \div 8 \in Int /\ s \div 8 \in Int BY <1>1
    <3> QED BY <3>1, <3>2 DEF Columns
  <2>2. i = k /\ r \div 8 = s \div 8
    BY <1>1, <2>1 DEF Columns
  <2> QED BY <1>1, <2>0, <2>2
<1> QED BY <1>2, <1>3

(***************************************************************************)
(* Column i of the window shows the game's column i - 1 eight rows lower   *)
(* than the game drew it, and above it the lowest byte of the game's       *)
(* column i: the loop's backward index starts one byte late                *)
(* (gui.cpp:168).  A game column c has the bytes 1024 + 32 c + b, b from 0 *)
(* at the bottom to 31 at the top.                                         *)
(***************************************************************************)
THEOREM ColumnsAreShifted ==
  \A i \in Columns, r \in Rows :
    IF r < 8 THEN DrawnIndex(i, r) = 1024 + 32 * i
    ELSE \E b \in 1..31 : /\ DrawnIndex(i, r) = 1024 + 32 * (i - 1) + b
                          /\ b = 31 - (r - 8) \div 8
<1> SUFFICES ASSUME NEW i \in Columns, NEW r \in Rows
             PROVE  IF r < 8 THEN DrawnIndex(i, r) = 1024 + 32 * i
                    ELSE \E b \in 1..31 : /\ DrawnIndex(i, r) = 1024 + 32 * (i - 1) + b
                                          /\ b = 31 - (r - 8) \div 8
    OBVIOUS
<1>1. CASE r < 8
  <2>1. r \div 8 = 0 BY <1>1 DEF Rows
  <2> QED BY <1>1, <2>1 DEF DrawnIndex, Columns
<1>2. CASE ~(r < 8)
  <2> DEFINE b == 31 - (r - 8) \div 8
  <2>1. (r - 8) \div 8 = r \div 8 - 1 /\ r \div 8 \in 1..31 BY <1>2 DEF Rows
  <2>2. b \in 1..31 BY <2>1
  <2>3. DrawnIndex(i, r) = 1024 + 32 * (i - 1) + b BY <2>1 DEF DrawnIndex, Columns
  <2> QED BY <1>2, <2>2, <2>3
<1> QED BY <1>1, <1>2
================================================================================
