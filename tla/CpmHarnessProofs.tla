-------------------------- MODULE CpmHarnessProofs --------------------------
(***************************************************************************)
(* Proofs about CpmHarness, for every memory size, load address, set of    *)
(* programs and number of characters remembered: a call of CP/M has        *)
(* printed its text when it returns.                                       *)
(***************************************************************************)
EXTENDS CpmHarness, TLAPS

-----------------------------------------------------------------------------
\* A remainder is known from any quotient.
LEMMA RemainderIsUnique ==
  ASSUME NEW n \in Nat \ {0}, NEW z \in Int, NEW q \in Int, NEW r \in 0..n - 1,
         z = n * q + r
  PROVE  z % n = r
<1> DEFINE p == z \div n   s == z % n
<1>1. p \in Int /\ s \in 0..n - 1 /\ z = n * p + s
  OBVIOUS
<1> HIDE DEF p, s
<1>2. ~(p < q)
  <2> SUFFICES ASSUME p < q PROVE FALSE
      OBVIOUS
  <2>1. PICK d \in Nat : q = p + 1 + d
    BY <1>1
  <2>2. n * q = n * p + n + n * d /\ n * d \in Nat
    BY <1>1, <2>1
  <2> QED BY <1>1, <2>2
<1>3. ~(q < p)
  <2> SUFFICES ASSUME q < p PROVE FALSE
      OBVIOUS
  <2>1. PICK d \in Nat : p = q + 1 + d
    BY <1>1
  <2>2. n * p = n * q + n + n * d /\ n * d \in Nat
    BY <1>1, <2>1
  <2> QED BY <1>1, <2>2
<1>4. p = q
  BY <1>1, <1>2, <1>3
<1>5. s = r
  BY <1>1, <1>4
<1> QED BY <1>5 DEF s

\* To cut a summand first changes nothing of the sum cut.
LEMMA CutSum ==
  ASSUME NEW n \in Nat \ {0}, NEW a \in Int, NEW b \in Int
  PROVE  (a + (b % n)) % n = (a + b) % n
<1> DEFINE q == b \div n   r == b % n
           p == (a + r) \div n   s == (a + r) % n
<1>1. q \in Int /\ r \in 0..n - 1 /\ b = n * q + r
  OBVIOUS
<1> HIDE DEF q, r
<1>2. p \in Int /\ s \in 0..n - 1 /\ a + r = n * p + s
  BY <1>1
<1> HIDE DEF p, s
<1>3. a + b = n * (q + p) + s
  BY <1>1, <1>2
<1>4. q + p \in Int /\ a + b \in Int
  BY <1>1, <1>2
<1>5. (a + b) % n = s
  BY <1>2, <1>3, <1>4, RemainderIsUnique
<1> QED BY <1>5 DEF s, r

-----------------------------------------------------------------------------
\* The memory main sets up: HLT at 1, and at 5 to 7 the way back from a call.
MemoryInv ==
    /\ TEST_MEMORY_SIZE \in Nat /\ TEST_MEMORY_SIZE > LOAD_ADDRESS
    /\ m_memory \in [Addresses -> Byte]
    /\ m_memory[0] = NOP /\ m_memory[1] = HLT
    /\ m_memory[5] = NOP /\ m_memory[6] = NOP /\ m_memory[7] = RET

\* Below the load address the program counter is on the way to the HLT or on
\* the way back from a call.
ControlInv ==
    /\ pc \in {0, 1, 2, 5, 6, 7, LOAD_ADDRESS}
    /\ at \in {"check", "print", "execute"}
    /\ halted \in BOOLEAN
    /\ halted => at = "check"
    /\ pc = 2 => halted
    /\ at = "print" => pc = 5 /\ c = 9

\* What a text's characters are, up to the one printed last.
PrintedSoFar ==
    /\ i = Len(printed) % TEST_MEMORY_SIZE
    /\ \A k \in 1..Len(printed) :
         printed[k] = memory_read(de + k - 1) /\ printed[k] # DOLLAR

\* What a call printed.
Printed ==
    CASE c = 2 -> printed = <<de % 256>>
      [] c = 9 -> TextAt(de, printed)
      [] OTHER -> printed = <<>>

(***************************************************************************)
(* A call prints nothing before it is seen, a prefix of its text while it  *)
(* prints, and its text from then on until it returns.                     *)
(***************************************************************************)
PrintInv ==
    /\ de \in Addresses /\ i \in Addresses
    /\ printed \in Seq(Byte)
    /\ pc = 5 /\ at = "check" => printed = <<>>
    /\ Len(printed) < MaxPrinted =>
         /\ at = "print" => PrintedSoFar
         /\ (pc = 5 /\ at = "execute") \/ pc \in {6, 7} => Printed

CallInv == MemoryInv /\ ControlInv /\ PrintInv

\* The memory is set up so.
LEMMA InitCallInv == Init => CallInv
<1> SUFFICES ASSUME Init PROVE CallInv
    OBVIOUS
<1>1. PICK rom \in Roms : m_memory = TestMemory(rom)
  BY DEF Init
<1>2. /\ LOAD_ADDRESS \in Nat /\ LOAD_ADDRESS >= 8 /\ TEST_MEMORY_SIZE \in Nat
      /\ rom \in Seq(Byte) /\ Len(rom) \in Nat /\ Len(rom) + LOAD_ADDRESS < TEST_MEMORY_SIZE
  BY HarnessAssumption DEF HarnessAssumption
<1>3. ASSUME NEW addr \in Addresses PROVE TestMemory(rom)[addr] \in Byte
  <2>1. HLT \in Byte /\ RET \in Byte /\ 0 \in Byte
    BY DEF HLT, RET, Byte
  <2>2. addr \in LOAD_ADDRESS..LOAD_ADDRESS + Len(rom) - 1 =>
          rom[addr - LOAD_ADDRESS + 1] \in Byte
    BY <1>2 DEF Addresses
  <2> QED BY <2>1, <2>2 DEF TestMemory
<1>4. {0, 1, 5, 6, 7} \subseteq Addresses
  BY <1>2 DEF Addresses
<1>5. \A addr \in {0, 1, 5, 6, 7} : addr \notin LOAD_ADDRESS..LOAD_ADDRESS + Len(rom) - 1
  BY <1>2
<1>6. m_memory[0] = NOP /\ m_memory[1] = HLT /\ m_memory[5] = NOP /\ m_memory[6] = NOP
      /\ m_memory[7] = RET
  BY <1>1, <1>4, <1>5 DEF TestMemory, NOP
<1>7. m_memory \in [Addresses -> Byte]
  BY <1>1, <1>3 DEF TestMemory
<1>8. MemoryInv
  BY <1>2, <1>6, <1>7 DEF MemoryInv
<1>9. ControlInv
  <2>1. pc = LOAD_ADDRESS /\ halted = FALSE /\ at = "check"
    BY DEF Init
  <2>2. pc # 2
    BY <1>2, <2>1
  <2> QED BY <2>1, <2>2 DEF ControlInv
<1>10. PrintInv
  BY <1>2, <1>4 DEF Init, PrintInv
<1> QED BY <1>8, <1>9, <1>10 DEF CallInv

\* A character is remembered behind the others while there is room.
LEMMA EmitKeeps ==
  ASSUME printed \in Seq(Byte), NEW char \in Byte, Emit(char)
  PROVE  /\ printed' \in Seq(Byte)
         /\ Len(printed') < MaxPrinted =>
              /\ Len(printed) < MaxPrinted
              /\ printed' = Append(printed, char)
              /\ Len(printed') = Len(printed) + 1
BY HarnessAssumption DEF HarnessAssumption, Emit

\* The step that looks for a call.
LEMMA CheckCallKeeps == CallInv /\ CheckCall => CallInv'
<1> SUFFICES ASSUME CallInv, CheckCall PROVE CallInv'
    OBVIOUS
<1>1. MemoryInv'
  BY DEF CallInv, MemoryInv, CheckCall
<1>2. ControlInv'
  BY DEF CallInv, ControlInv, CheckCall
<1>3. PrintInv'
  <2>0. UNCHANGED <<m_memory, pc, c, de>> /\ at = "check" /\ PrintInv /\ ControlInv
    BY DEF CheckCall, CallInv
  <2>1. CASE pc = 5 /\ c = 2 /\ Emit(de % 256) /\ at' = "execute" /\ UNCHANGED i
    <3>1. printed = <<>> /\ printed \in Seq(Byte) /\ de \in Addresses /\ de \in Int
      BY <2>0, <2>1 DEF PrintInv, Addresses
    <3>2. de % 256 \in Byte
      BY <3>1 DEF Byte
    <3>3. /\ printed' \in Seq(Byte)
          /\ Len(printed') < MaxPrinted => printed' = Append(printed, de % 256)
      BY <2>1, <3>1, <3>2, EmitKeeps
    <3>4. Append(printed, de % 256) = <<de % 256>>
      BY <3>1
    <3>5. Len(printed') < MaxPrinted => Printed'
      BY <2>0, <2>1, <3>3, <3>4 DEF Printed
    <3> QED BY <2>0, <2>1, <3>1, <3>3, <3>5 DEF PrintInv
  <2>2. CASE pc = 5 /\ c = 9 /\ i' = 0 /\ at' = "print" /\ UNCHANGED printed
    <3>1. printed' = <<>> /\ Len(printed') = 0
      BY <2>0, <2>2 DEF PrintInv
    <3>2. 0 % TEST_MEMORY_SIZE = 0
      <4>1. TEST_MEMORY_SIZE \in Nat \ {0} /\ 0 = TEST_MEMORY_SIZE * 0 + 0
        BY HarnessAssumption DEF HarnessAssumption, CallInv, MemoryInv
      <4> QED BY <4>1
    <3>3. PrintedSoFar'
      BY <2>2, <3>1, <3>2 DEF PrintedSoFar
    <3>4. i' \in Addresses
      BY <2>2, HarnessAssumption DEF HarnessAssumption, CallInv, MemoryInv, Addresses
    <3> QED BY <2>0, <2>2, <3>3, <3>4 DEF PrintInv
  <2>3. CASE (pc # 5 \/ c \notin {2, 9}) /\ at' = "execute" /\ UNCHANGED <<i, printed>>
    <3>1. CASE pc = 5
      <4>1. printed' = <<>> /\ c' \notin {2, 9}
        BY <2>0, <2>3, <3>1 DEF PrintInv
      <4>2. Printed'
        BY <4>1 DEF Printed
      <4> QED BY <2>0, <2>3, <3>1, <4>2 DEF PrintInv
    <3>2. CASE pc # 5
      <4>1. Printed => Printed'
        BY <2>0, <2>3 DEF Printed, TextAt, memory_read
      <4> QED BY <2>0, <2>3, <3>2, <4>1 DEF PrintInv
    <3> QED BY <3>1, <3>2
  <2> QED BY <2>1, <2>2, <2>3 DEF CheckCall
<1> QED BY <1>1, <1>2, <1>3 DEF CallInv

\* The step that prints a character of a text, or finds its end.
LEMMA PrintTextKeeps == CallInv /\ PrintText => CallInv'
<1> SUFFICES ASSUME CallInv, PrintText PROVE CallInv'
    OBVIOUS
<1>0. /\ UNCHANGED <<m_memory, pc, c, de, halted>> /\ at = "print" /\ pc = 5 /\ c = 9
      /\ MemoryInv /\ ControlInv /\ PrintInv
  BY DEF PrintText, CallInv, ControlInv
<1>1. MemoryInv'
  BY <1>0 DEF MemoryInv
<1>2. ControlInv'
  BY <1>0 DEF ControlInv, PrintText
<1>3. TEST_MEMORY_SIZE \in Nat \ {0} /\ de \in Int /\ printed \in Seq(Byte) /\ Len(printed) \in Nat
  BY <1>0, HarnessAssumption DEF HarnessAssumption, MemoryInv, PrintInv, Addresses
<1>4. Len(printed) < MaxPrinted =>
        /\ PrintedSoFar
        /\ memory_read(de + i) = memory_read(de + Len(printed))
  <2>1. \A len \in Nat : (de + (len % TEST_MEMORY_SIZE)) % TEST_MEMORY_SIZE
                            = (de + len) % TEST_MEMORY_SIZE
    <3> TAKE len \in Nat
    <3>1. len \in Int
      OBVIOUS
    <3> QED BY <1>3, <3>1, CutSum
  <2> QED BY <1>0, <1>3, <2>1 DEF PrintInv, PrintedSoFar, memory_read
<1>5. CASE memory_read(de + i) = DOLLAR /\ at' = "execute" /\ UNCHANGED <<i, printed>>
  <2>1. Len(printed) < MaxPrinted => TextAt(de, printed)
    BY <1>4, <1>5 DEF TextAt, PrintedSoFar
  <2>2. TextAt(de, printed) => Printed'
    BY <1>0, <1>5 DEF TextAt, Printed, memory_read
  <2>3. PrintInv'
    BY <1>0, <1>5, <2>1, <2>2 DEF PrintInv
  <2> QED BY <1>1, <1>2, <2>3 DEF CallInv
<1>6. CASE /\ memory_read(de + i) # DOLLAR /\ Emit(memory_read(de + i))
           /\ i' = (i + 1) % TEST_MEMORY_SIZE /\ UNCHANGED at
  <2> DEFINE char == memory_read(de + i)
             n == Len(printed)
  <2>1. char \in Byte
    <3>1. de + i \in Int
      BY <1>0, <1>3 DEF PrintInv, Addresses
    <3>2. (de + i) % TEST_MEMORY_SIZE \in Addresses
      BY <1>3, <3>1 DEF Addresses
    <3> QED BY <1>0, <3>2 DEF memory_read, MemoryInv
  <2>2. /\ printed' \in Seq(Byte)
        /\ Len(printed') < MaxPrinted =>
             /\ n < MaxPrinted
             /\ printed' = Append(printed, char)
             /\ Len(printed') = n + 1
    BY <1>3, <1>6, <2>1, EmitKeeps
  <2>3. i' \in Addresses
    BY <1>0, <1>3, <1>6 DEF PrintInv, Addresses
  <2>4. ASSUME Len(printed') < MaxPrinted PROVE PrintedSoFar'
    <3>1. /\ i = n % TEST_MEMORY_SIZE
          /\ \A k \in 1..n : printed[k] = memory_read(de + k - 1) /\ printed[k] # DOLLAR
          /\ char = memory_read(de + n)
      BY <1>4, <2>2, <2>4 DEF PrintedSoFar
    <3>2. i' = (n + 1) % TEST_MEMORY_SIZE
      <4>1. \A a, b \in Int : (a + (b % TEST_MEMORY_SIZE)) % TEST_MEMORY_SIZE
                                = (a + b) % TEST_MEMORY_SIZE
        BY <1>3, CutSum
      <4>2. n \in Int /\ 1 \in Int /\ 1 + n = n + 1
        BY <1>3
      <4>3. (1 + (n % TEST_MEMORY_SIZE)) % TEST_MEMORY_SIZE = (1 + n) % TEST_MEMORY_SIZE
        BY <4>1, <4>2
      <4>4. 1 + (n % TEST_MEMORY_SIZE) = (n % TEST_MEMORY_SIZE) + 1
        BY <1>3
      <4> QED BY <1>6, <3>1, <4>2, <4>3, <4>4
    <3>3. ASSUME NEW k \in 1..n + 1
          PROVE  printed'[k] = memory_read(de + k - 1) /\ printed'[k] # DOLLAR
      <4>1. CASE k \in 1..n
        BY <1>3, <2>2, <2>4, <3>1, <4>1
      <4>2. CASE k = n + 1
        <5>1. printed'[k] = char
          BY <1>3, <2>2, <2>4, <4>2
        <5>2. de + k - 1 = de + n
          BY <1>3, <4>2
        <5> QED BY <1>6, <3>1, <5>1, <5>2
      <4> QED BY <1>3, <4>1, <4>2
    <3> QED BY <1>0, <2>2, <2>4, <3>2, <3>3 DEF PrintedSoFar, memory_read
  <2>5. PrintInv'
    BY <1>0, <1>6, <2>2, <2>3, <2>4 DEF PrintInv
  <2> QED BY <1>1, <1>2, <2>5 DEF CallInv
<1> QED BY <1>5, <1>6 DEF PrintText

\* An instruction below the load address, or a step of the program.
LEMMA ExecuteKeeps == CallInv /\ Execute => CallInv'
<1> SUFFICES ASSUME CallInv, Execute PROVE CallInv'
    OBVIOUS
<1>0. /\ UNCHANGED <<m_memory, c, de, i, printed>> /\ at = "execute" /\ at' = "check"
      /\ MemoryInv /\ ControlInv /\ PrintInv /\ ~halted
      /\ LOAD_ADDRESS \in Nat /\ LOAD_ADDRESS >= 8
  BY HarnessAssumption DEF HarnessAssumption, Execute, CallInv, ControlInv
<1>1. MemoryInv'
  BY <1>0 DEF MemoryInv
<1>2. Printed => Printed'
  BY <1>0 DEF Printed, TextAt, memory_read
<1>3. pc \in {0, 1, 5, 6, 7, LOAD_ADDRESS}
  BY <1>0 DEF ControlInv
<1>4. \/ pc = 0 /\ pc' = 1 /\ UNCHANGED halted
      \/ pc = 1 /\ pc' = 2 /\ halted' = TRUE
      \/ pc = 5 /\ pc' = 6 /\ UNCHANGED halted
      \/ pc = 6 /\ pc' = 7 /\ UNCHANGED halted
      \/ pc = 7 /\ pc' = LOAD_ADDRESS /\ UNCHANGED halted
      \/ pc = LOAD_ADDRESS /\ pc' = 0 /\ UNCHANGED halted
  BY <1>0, <1>3 DEF Execute, MemoryInv, NOP, HLT, RET
<1>5. ControlInv'
  <2>1. pc' \in {0, 1, 2, 5, 6, 7, LOAD_ADDRESS}
    BY <1>4
  <2>2. pc' = 2 => halted'
    BY <1>0, <1>4
  <2>3. halted' \in BOOLEAN
    BY <1>0, <1>4 DEF ControlInv
  <2> QED BY <1>0, <2>1, <2>2, <2>3 DEF ControlInv
<1>6. PrintInv'
  <2>1. pc' # 5 /\ (pc' \in {6, 7} => pc \in {5, 6})
    BY <1>0, <1>4
  <2> QED BY <1>0, <1>2, <2>1 DEF PrintInv
<1> QED BY <1>1, <1>5, <1>6 DEF CallInv

\* The program calls CP/M.
LEMMA CallKeeps == CallInv /\ Call => CallInv'
<1> SUFFICES ASSUME CallInv, Call PROVE CallInv'
    OBVIOUS
<1>1. MemoryInv'
  BY DEF CallInv, MemoryInv, Call
<1>2. ControlInv'
  BY DEF CallInv, ControlInv, Call
<1>3. 0 \in Addresses
  BY HarnessAssumption DEF HarnessAssumption, CallInv, MemoryInv, Addresses
<1>4. PrintInv'
  BY <1>3 DEF CallInv, PrintInv, Call
<1> QED BY <1>1, <1>2, <1>4 DEF CallInv

(***************************************************************************)
(* Wherever a text lies in a memory of any size, also across its end, a    *)
(* call has printed all of it, once, when it returns to the program (the   *)
(* loop of cpu-test/main.cpp, and the bytes it writes at 1 and 7).         *)
(***************************************************************************)
THEOREM CallsPrintTheirText == Spec => []CallPrinted
<1>1. CallInv /\ [Next]_vars => CallInv'
  <2> SUFFICES ASSUME CallInv, [Next]_vars PROVE CallInv'
      OBVIOUS
  <2>1. CASE UNCHANGED vars
    BY <2>1 DEF vars, CallInv, MemoryInv, ControlInv, PrintInv, PrintedSoFar, Printed, TextAt,
                memory_read
  <2> QED BY <2>1, CheckCallKeeps, PrintTextKeeps, ExecuteKeeps, CallKeeps DEF Next
<1>2. CallInv => CallPrinted
  <2> SUFFICES ASSUME CallInv, at = "execute", pc = 7, Len(printed) < MaxPrinted PROVE Printed
      BY DEF CallPrinted, Printed
  <2> QED BY DEF CallInv, PrintInv
<1> QED BY <1>1, <1>2, InitCallInv, PTL DEF Spec
=============================================================================
