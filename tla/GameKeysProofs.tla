---------------------------- MODULE GameKeysProofs ----------------------------
(***************************************************************************)
(* Proofs about the keys: for any set of keys and any number of events in  *)
(* a frame.                                                                *)
(***************************************************************************)
EXTENDS GameKeys, TLAPS

Bits == {1, 2, 4, 16, 32, 64}
Bytes == 0..255

-----------------------------------------------------------------------------
(***************************************************************************)
(* One bit.                                                                *)
(***************************************************************************)
\* Setting a bit of a byte sets it and leaves the others.
LEMMA SetBitSets ==
    ASSUME NEW byte \in Bytes, NEW b \in Bits, NEW c \in Bits \cup {8}
    PROVE  /\ SetBit(byte, b) \in Bytes
           /\ HasBit(SetBit(byte, b), c) <=> (c = b \/ HasBit(byte, c))
<1>1. CASE b = 1 BY <1>1 DEF Bytes, Bits, SetBit, HasBit
<1>2. CASE b = 2 BY <1>2 DEF Bytes, Bits, SetBit, HasBit
<1>3. CASE b = 4 BY <1>3 DEF Bytes, Bits, SetBit, HasBit
<1>4. CASE b = 16 BY <1>4 DEF Bytes, Bits, SetBit, HasBit
<1>5. CASE b = 32 BY <1>5 DEF Bytes, Bits, SetBit, HasBit
<1>6. CASE b = 64 BY <1>6 DEF Bytes, Bits, SetBit, HasBit
<1> QED BY <1>1, <1>2, <1>3, <1>4, <1>5, <1>6 DEF Bits

\* Clearing a bit of a byte clears it and leaves the others.
LEMMA ClearBitClears ==
    ASSUME NEW byte \in Bytes, NEW b \in Bits, NEW c \in Bits \cup {8}
    PROVE  /\ ClearBit(byte, b) \in Bytes
           /\ HasBit(ClearBit(byte, b), c) <=> (c # b /\ HasBit(byte, c))
<1>1. CASE b = 1 BY <1>1 DEF Bytes, Bits, ClearBit, HasBit
<1>2. CASE b = 2 BY <1>2 DEF Bytes, Bits, ClearBit, HasBit
<1>3. CASE b = 4 BY <1>3 DEF Bytes, Bits, ClearBit, HasBit
<1>4. CASE b = 16 BY <1>4 DEF Bytes, Bits, ClearBit, HasBit
<1>5. CASE b = 32 BY <1>5 DEF Bytes, Bits, ClearBit, HasBit
<1>6. CASE b = 64 BY <1>6 DEF Bytes, Bits, ClearBit, HasBit
<1> QED BY <1>1, <1>2, <1>3, <1>4, <1>5, <1>6 DEF Bits

-----------------------------------------------------------------------------
(***************************************************************************)
(* The bits of the keys.                                                   *)
(***************************************************************************)
AllKeys == {"c", "backspace", "return", "space", "left", "right", "s", "a", "d"}

LEMMA KeysAreKeys == Keys \subseteq AllKeys
BY KeysAssumption DEF KeyPort, AllKeys

\* Every key has a bit of its own.
LEMMA OwnBits ==
    ASSUME NEW key \in AllKeys, NEW other \in AllKeys
    PROVE  /\ KeyPort[key] \in {1, 2} /\ KeyBit[key] \in Bits
           /\ KeyPort[key] = KeyPort[other] /\ KeyBit[key] = KeyBit[other] => key = other
BY DEF AllKeys, KeyPort, KeyBit, Bits

FixedBits(inputs) == inputs[0] = 14 /\ HasBit(inputs[1], 8)

\* An event changes the bit of its key to what it says, and no other.
LEMMA ApplyChangesOneKey ==
    ASSUME NEW inputs \in Inputs, FixedBits(inputs), NEW event \in KeyEvents, NEW key \in Keys
    PROVE  /\ apply(inputs, event) \in Inputs
           /\ FixedBits(apply(inputs, event))
           /\ Pressed(apply(inputs, event), key) <=>
                IF key = event.key THEN event.down ELSE Pressed(inputs, key)
<1> DEFINE port == KeyPort[event.key]
           bit == KeyBit[event.key]
           byte == inputs[port]
           new == IF event.down THEN SetBit(byte, bit) ELSE ClearBit(byte, bit)
<1>1. event.key \in AllKeys /\ key \in AllKeys /\ event.down \in BOOLEAN
  BY KeysAreKeys DEF KeyEvents
<1>2. /\ port \in {1, 2} /\ bit \in Bits
      /\ KeyPort[key] \in {1, 2} /\ KeyBit[key] \in Bits
      /\ KeyPort[key] = port /\ KeyBit[key] = bit => key = event.key
  BY <1>1, OwnBits
<1>3. byte \in Bytes BY <1>2 DEF Inputs, Bytes
<1>4. apply(inputs, event) = [inputs EXCEPT ![port] = new] BY DEF apply
<1>5. /\ new \in Bytes
      /\ \A c \in Bits \cup {8} :
           HasBit(new, c) <=> IF c = bit THEN event.down ELSE HasBit(byte, c)
  <2> HIDE DEF bit, byte
  <2>1. CASE event.down
    BY <2>1, <1>2, <1>3, SetBitSets
  <2>2. CASE ~event.down
    BY <2>2, <1>2, <1>3, ClearBitClears
  <2> QED BY <1>1, <2>1, <2>2
<1>6. \A p \in 0..2 : apply(inputs, event)[p] = IF p = port THEN new ELSE inputs[p]
  BY <1>2, <1>4 DEF Inputs
<1> HIDE DEF new, port, bit
<1>7. apply(inputs, event) \in Inputs
  BY <1>2, <1>4, <1>5 DEF Inputs, Bytes
<1>8. FixedBits(apply(inputs, event))
  BY <1>2, <1>5, <1>6, FixedBits(inputs) DEF FixedBits, Bits, port
<1>9. Pressed(apply(inputs, event), key) <=>
        IF key = event.key THEN event.down ELSE Pressed(inputs, key)
  BY <1>2, <1>5, <1>6 DEF Pressed, port, bit
<1> QED BY <1>7, <1>8, <1>9

-----------------------------------------------------------------------------
(***************************************************************************)
(* The steps.                                                              *)
(***************************************************************************)
\* Only the debug build polls the debugger's window.
DebuggerPolls == at = "debugger" => debug_build

KeysInv == KeysTypeOK /\ KeysAccounted /\ DebuggerPolls

LEMMA InitKeysInv == Init => KeysInv
<1> SUFFICES ASSUME Init PROVE KeysInv OBVIOUS
<1>1. KeysTypeOK
  <2>1. m_inputs \in Inputs /\ inp \in Inputs BY DEF Init, Inputs
  <2>2. m_inputs[0] = 14 /\ m_inputs[1] = 8 BY DEF Init
  <2> QED BY <2>1, <2>2, KeysAssumption DEF Init, KeysTypeOK
<1>2. KeysAccounted
  <2>1. \A key \in Keys : ~Pressed(m_inputs, key)
    <3> SUFFICES ASSUME NEW key \in Keys PROVE ~Pressed(m_inputs, key) OBVIOUS
    <3>1. key \in AllKeys BY KeysAreKeys
    <3>2. KeyPort[key] \in {1, 2} /\ KeyBit[key] \in Bits BY <3>1, OwnBits
    <3>3. m_inputs[KeyPort[key]] \in {0, 8} BY <3>2 DEF Init
    <3> QED BY <3>2, <3>3 DEF Pressed, HasBit, Bits
  <2> QED BY <2>1 DEF Init, KeysAccounted
<1> QED BY <1>1, <1>2 DEF KeysInv, DebuggerPolls, Init

\* An event at the end of the queue is the last of its key.
LEMMA PlayerKeepsKeysInv == KeysInv /\ Player => KeysInv'
<1> SUFFICES ASSUME KeysInv, Player PROVE KeysInv' OBVIOUS
<1> USE DEF KeysInv
<1>1. PICK event \in KeyEvents :
        /\ queue' = Append(queue, event)
        /\ held' = IF event.down THEN held \cup {event.key} ELSE held \ {event.key}
  BY DEF Player
<1>2. event.key \in Keys /\ event.down \in BOOLEAN /\ queue \in Seq(KeyEvents)
  BY DEF KeyEvents, KeysTypeOK
<1>3. KeysTypeOK'
  BY <1>1, <1>2, KeysAssumption DEF KeysTypeOK, Player
<1>4. /\ Len(queue') = Len(queue) + 1
      /\ \A i \in DOMAIN queue : queue'[i] = queue[i] /\ queue[i] \in KeyEvents
      /\ queue'[Len(queue) + 1] = event
  BY <1>1, <1>2
<1>5. DOMAIN queue = 1..Len(queue) /\ DOMAIN queue' = 1..Len(queue) + 1 /\ Len(queue) \in Nat
  BY <1>1, <1>2
<1>6. \A key \in Keys \ {event.key} : key \in held' <=> key \in held
  BY <1>1
<1>7. event.down <=> event.key \in held'
  BY <1>1
<1>8. ASSUME ~debug_build' PROVE \A i \in DOMAIN queue' :
        LastEvent(i)' => (queue'[i].down <=> queue'[i].key \in held')
  <2> SUFFICES ASSUME NEW i \in DOMAIN queue', LastEvent(i)'
               PROVE  queue'[i].down <=> queue'[i].key \in held'
    OBVIOUS
  <2>1. CASE i = Len(queue) + 1 BY <2>1, <1>4, <1>7
  <2>2. CASE i \in DOMAIN queue
    <3>1. queue'[i] = queue[i] BY <2>2, <1>4
    <3>2. \A j \in i + 1..Len(queue) + 1 : queue'[j].key # queue[i].key
      BY <1>4, <3>1 DEF LastEvent
    <3>3. queue[i].key # event.key BY <3>2, <1>4, <1>5, <2>2
    <3>4. LastEvent(i) BY <3>2, <1>4, <1>5, <2>2 DEF LastEvent
    <3>5. queue[i].key \in Keys BY <1>4, <2>2 DEF KeyEvents
    <3>6. queue[i].down <=> queue[i].key \in held
      BY <1>8, <3>4, <2>2 DEF KeysAccounted, Player
    <3> QED BY <3>1, <3>3, <3>5, <3>6, <1>6
  <2> QED BY <2>1, <2>2, <1>5
<1>9. ASSUME ~debug_build', NEW key \in Keys, \A i \in DOMAIN queue' : queue'[i].key # key
      PROVE  Pressed(m_inputs, key)' <=> key \in held'
  <2>1. key # event.key /\ \A i \in DOMAIN queue : queue[i].key # key
    BY <1>9, <1>4, <1>5
  <2>2. Pressed(m_inputs, key) <=> key \in held
    BY <2>1, <1>9 DEF KeysAccounted, Player
  <2> QED BY <2>1, <2>2, <1>6 DEF Player, Pressed
<1>10. KeysAccounted' BY <1>8, <1>9 DEF KeysAccounted
<1>11. DebuggerPolls' BY DEF DebuggerPolls, Player
<1> QED BY <1>3, <1>10, <1>11

\* What the poll takes was the last event of its key, or another one follows.
LEMMA PollGameKeepsKeysInv == KeysInv /\ PollGame => KeysInv'
<1> SUFFICES ASSUME KeysInv, PollGame PROVE KeysInv' OBVIOUS
<1> USE DEF KeysInv
<1>1. CASE queue = <<>>
  <2>1. KeysTypeOK' BY <1>1 DEF KeysTypeOK, PollGame
  <2>2. KeysAccounted' BY <1>1 DEF KeysAccounted, PollGame, LastEvent, Pressed
  <2> QED BY <2>1, <2>2 DEF DebuggerPolls, PollGame
<1>2. CASE queue # <<>>
  <2> DEFINE event == Head(queue)
  <2>1. queue \in Seq(KeyEvents) /\ event \in KeyEvents /\ event = queue[1]
    BY <1>2 DEF KeysTypeOK
  <2>2. /\ queue' = Tail(queue) /\ m_inputs' = apply(m_inputs, event)
        /\ UNCHANGED <<at, debug_build, held, inp, events>>
    BY <1>2 DEF PollGame
  <2>3. m_inputs \in Inputs /\ FixedBits(m_inputs)
    BY DEF KeysTypeOK, FixedBits, HasBit
  <2>4. /\ Len(queue) \in Nat \ {0} /\ Len(queue') = Len(queue) - 1
        /\ DOMAIN queue = 1..Len(queue) /\ DOMAIN queue' = 1..Len(queue) - 1
        /\ \A i \in 1..Len(queue) - 1 : queue'[i] = queue[i + 1]
    BY <1>2, <2>1, <2>2
  <2>5. event.key \in Keys /\ event.down \in BOOLEAN BY <2>1 DEF KeyEvents
  <2> HIDE DEF event
  <2>6. \A key \in Keys :
          /\ m_inputs' \in Inputs /\ FixedBits(m_inputs')
          /\ Pressed(m_inputs', key) <=>
                IF key = event.key THEN event.down ELSE Pressed(m_inputs, key)
    BY <2>1, <2>2, <2>3, ApplyChangesOneKey
  <2>7. KeysTypeOK'
    <3>1. m_inputs' \in Inputs /\ FixedBits(m_inputs') BY <2>5, <2>6
    <3>2. queue' \in Seq(KeyEvents) BY <1>2, <2>1, <2>2
    <3> QED BY <3>1, <3>2, <2>2 DEF KeysTypeOK, FixedBits, HasBit
  <2>8. ASSUME ~debug_build', NEW i \in DOMAIN queue', LastEvent(i)'
        PROVE  queue'[i].down <=> queue'[i].key \in held'
    <3>1. i + 1 \in DOMAIN queue /\ queue'[i] = queue[i + 1] BY <2>8, <2>4
    <3>2. \A j \in i + 1..Len(queue) - 1 : queue'[j].key # queue'[i].key
      BY <2>8, <2>4 DEF LastEvent
    <3>3. LastEvent(i + 1)
      <4> SUFFICES ASSUME NEW j \in i + 2..Len(queue) PROVE queue[j].key # queue[i + 1].key
        BY <2>8, <2>4 DEF LastEvent
      <4>1. j - 1 \in i + 1..Len(queue) - 1 /\ queue'[j - 1] = queue[j]
        BY <2>8, <2>4
      <4> QED BY <4>1, <3>1, <3>2
    <3> QED BY <2>8, <3>1, <3>3, <2>2 DEF KeysAccounted
  <2>9. ASSUME ~debug_build', NEW key \in Keys, \A i \in DOMAIN queue' : queue'[i].key # key
        PROVE  Pressed(m_inputs', key) <=> key \in held'
    <3>1. \A j \in 2..Len(queue) : queue[j].key # key
      <4> SUFFICES ASSUME NEW j \in 2..Len(queue) PROVE queue[j].key # key OBVIOUS
      <4>1. j - 1 \in 1..Len(queue) - 1 /\ queue'[j - 1] = queue[j] BY <2>4
      <4> QED BY <4>1, <2>9, <2>4
    <3>2. CASE key = event.key
      <4>1. 1 \in DOMAIN queue /\ LastEvent(1)
        BY <3>1, <3>2, <2>1, <2>4 DEF LastEvent
      <4>2. event.down <=> key \in held
        BY <4>1, <3>2, <2>1, <2>2, <2>9 DEF KeysAccounted
      <4> QED BY <4>2, <3>2, <2>6, <2>2
    <3>3. CASE key # event.key
      <4>1. \A i \in DOMAIN queue : queue[i].key # key
        BY <3>1, <3>3, <2>1, <2>4
      <4>2. Pressed(m_inputs, key) <=> key \in held
        BY <4>1, <2>2, <2>9 DEF KeysAccounted
      <4> QED BY <4>2, <3>3, <2>6, <2>2
    <3> QED BY <3>2, <3>3
  <2>10. KeysAccounted'
    <3>1. \A key : Pressed(m_inputs, key)' <=> Pressed(m_inputs', key) BY DEF Pressed
    <3> QED BY <2>8, <2>9, <3>1 DEF KeysAccounted
  <2> QED BY <2>7, <2>10, <2>2 DEF DebuggerPolls
<1> QED BY <1>1, <1>2

LEMMA StepKeepsKeysInv == KeysInv /\ [Next]_vars => KeysInv'
<1> SUFFICES ASSUME KeysInv, [Next]_vars PROVE KeysInv' OBVIOUS
<1> USE DEF KeysInv
<1>1. CASE EndFrame
  BY <1>1 DEF EndFrame, KeysTypeOK, KeysAccounted, LastEvent, Pressed, DebuggerPolls
<1>2. CASE PollDebugger
  <2>1. debug_build BY <1>2 DEF PollDebugger, DebuggerPolls
  <2>2. KeysTypeOK' BY <1>2 DEF PollDebugger, KeysTypeOK
  <2> QED BY <2>1, <2>2, <1>2 DEF PollDebugger, KeysAccounted, DebuggerPolls
<1>3. CASE PollGame BY <1>3, PollGameKeepsKeysInv
<1>4. CASE Store
  BY <1>4, KeysAssumption DEF Store, KeysTypeOK, KeysAccounted, LastEvent, Pressed, DebuggerPolls
<1>5. CASE Player BY <1>5, PlayerKeepsKeysInv
<1>6. CASE UNCHANGED vars
  BY <1>6 DEF vars, KeysTypeOK, KeysAccounted, LastEvent, Pressed, DebuggerPolls
<1> QED BY <1>1, <1>2, <1>3, <1>4, <1>5, <1>6 DEF Next, Loop

-----------------------------------------------------------------------------
(***************************************************************************)
(* For any of the game's keys and any number of events in a frame, the     *)
(* bits no key stands for are kept, in both builds.                        *)
(***************************************************************************)
THEOREM KeysKeepTypes == Spec => []KeysTypeOK
<1>1. KeysInv => KeysTypeOK BY DEF KeysInv
<1> QED BY <1>1, InitKeysInv, StepKeepsKeysInv, PTL DEF Spec

(***************************************************************************)
(* For any of the game's keys and any number of events in a frame, the     *)
(* release build loses no key.                                             *)
(***************************************************************************)
THEOREM NoKeyLost == Spec => []KeysAccounted
<1>1. KeysInv => KeysAccounted BY DEF KeysInv
<1> QED BY <1>1, InitKeysInv, StepKeepsKeysInv, PTL DEF Spec
=============================================================================
