------------------------------- MODULE GameKeys -------------------------------
(***************************************************************************)
(* The keys of the game, from the keyboard through SDL's queue and         *)
(* m_inputs (src/src/gui/gui.cpp:86-161) to the input bytes of the bus     *)
(* (src/src/core/invaders/main.cpp:103-116).  At the end of a frame the    *)
(* debug build first updates the debugger's window, which takes its events *)
(* from the same queue.  The player may act between any two of the steps.  *)
(* Left out are the passes of a paused processor, in which only the        *)
(* debugger polls.                                                         *)
(***************************************************************************)
EXTENDS Integers, Sequences

CONSTANTS
    Keys,         \* the keys the player uses
    MaxEvents,    \* bound: the key events of a frame
    Builds        \* the builds: TRUE has the debugger (no NDEBUG)

\* The port a key is read at and its bit there: INP1_INPUTS, INP2_INPUTS and the
\* cases of the two switches.
KeyPort ==
    [c |-> 1, backspace |-> 1, return |-> 1, space |-> 1, left |-> 1, right |-> 1,
     s |-> 2, a |-> 2, d |-> 2]
KeyBit ==
    [c |-> 1, backspace |-> 2, return |-> 4, space |-> 16, left |-> 32, right |-> 64,
     s |-> 16, a |-> 32, d |-> 64]

Inputs == [0..2 -> 0..255]

ASSUME KeysAssumption ==
    /\ Keys \subseteq DOMAIN KeyPort
    /\ MaxEvents \in Nat
    /\ Builds \subseteq BOOLEAN

VARIABLES
    debug_build,   \* of Builds; it never changes
    at,            \* the next step of the frame
    held,          \* the keys the player holds down
    queue,         \* the key events in SDL's queue
    m_inputs,      \* the game window's input bytes, inp0 to inp2
    inp,           \* the bytes the bus shows at the ports 0 to 2
    events         \* the key events since the last frame ended

vars == <<debug_build, at, held, queue, m_inputs, inp, events>>

KeyEvents == [key : Keys, down : BOOLEAN]

(***************************************************************************)
(* The bits no key stands for stay as m_inputs was built with them         *)
(* (gui.h:57), whatever the order of the events and whichever of them the  *)
(* debugger took.                                                          *)
(***************************************************************************)
KeysTypeOK ==
    /\ debug_build \in Builds
    /\ at \in {"run", "debugger", "poll", "store"}
    /\ held \subseteq Keys
    /\ queue \in Seq(KeyEvents)
    /\ m_inputs \in Inputs /\ m_inputs[0] = 14 /\ (m_inputs[1] \div 8) % 2 = 1
    /\ inp \in Inputs
    /\ events \in 0..MaxEvents

Init ==
    /\ debug_build \in Builds
    /\ at = "run"
    /\ held = {} /\ queue = <<>>
    /\ m_inputs = [port \in 0..2 |-> IF port = 0 THEN 14 ELSE IF port = 1 THEN 8 ELSE 0]
    /\ inp = [port \in 0..2 |-> 0]
    /\ events = 0

-----------------------------------------------------------------------------
HasBit(byte, bit) == (byte \div bit) % 2 = 1

\* byte |= bit, and byte &= ~bit.
SetBit(byte, bit) == IF HasBit(byte, bit) THEN byte ELSE byte + bit

\* Mutant: byte -= bit.
TakeBit(byte, bit) == byte - bit

ClearBit(byte, bit) == IF HasBit(byte, bit) THEN byte - bit ELSE byte

\* Mutant: a press changes its bit to the other value, byte ^= bit.
apply_toggle(inputs, event) ==
    LET bit == KeyBit[event.key]
    IN  [inputs EXCEPT ![KeyPort[event.key]] =
           IF HasBit(@, bit) THEN ClearBit(@, bit) ELSE SetBit(@, bit)]

\* What the game window's poll does with a key event.
apply(inputs, event) ==
    [inputs EXCEPT ![KeyPort[event.key]] =
       IF event.down THEN SetBit(@, KeyBit[event.key]) ELSE ClearBit(@, KeyBit[event.key])]

Pressed(inputs, key) == HasBit(inputs[KeyPort[key]], KeyBit[key])

-----------------------------------------------------------------------------
\* A frame ends.
EndFrame ==
    /\ at = "run"
    /\ at' = IF debug_build THEN "debugger" ELSE "poll"
    /\ UNCHANGED <<debug_build, held, queue, m_inputs, inp, events>>

\* The debugger's poll hands an event to Dear ImGui, and the game never sees it.
PollDebugger ==
    /\ at = "debugger"
    /\ IF queue = <<>>
       THEN at' = "poll" /\ UNCHANGED queue
       ELSE queue' = Tail(queue) /\ UNCHANGED at
    /\ UNCHANGED <<debug_build, held, m_inputs, inp, events>>

PollGame ==
    /\ at = "poll"
    /\ IF queue = <<>>
       THEN at' = "store" /\ UNCHANGED <<queue, m_inputs>>
       ELSE /\ m_inputs' = apply(m_inputs, Head(queue))
            /\ queue' = Tail(queue)
            /\ UNCHANGED at
    /\ UNCHANGED <<debug_build, held, inp, events>>

\* Mutant: the bytes are stored only once.
StoreOnce ==
    /\ at = "store" /\ at' = "run"
    /\ inp' = IF inp[0] = 0 THEN m_inputs ELSE inp
    /\ events' = 0
    /\ UNCHANGED <<debug_build, held, queue, m_inputs>>

\* The screen is drawn, and the loop copies the bytes to the bus.
Store ==
    /\ at = "store" /\ at' = "run"
    /\ inp' = m_inputs
    /\ events' = 0
    /\ UNCHANGED <<debug_build, held, queue, m_inputs>>

Loop == EndFrame \/ PollDebugger \/ PollGame \/ Store

\* The player presses or releases a key; SDL repeats the press of a held one.
Player ==
    /\ events < MaxEvents
    /\ events' = events + 1
    /\ \E event \in KeyEvents :
         /\ event.key \in held \/ event.down
         /\ queue' = Append(queue, event)
         /\ held' = IF event.down THEN held \cup {event.key} ELSE held \ {event.key}
    /\ UNCHANGED <<debug_build, at, m_inputs, inp>>

Next == Loop \/ Player

\* Frames keep ending (FrameLoop).  The player owes nothing.
Spec == Init /\ [][Next]_vars /\ WF_vars(Loop)

-----------------------------------------------------------------------------
LastEvent(i) == \A j \in i + 1..Len(queue) : queue[j].key # queue[i].key

(***************************************************************************)
(* In the release build no key is lost or stuck: its last event in the     *)
(* queue says whether it is held, and when none waits its bit in m_inputs  *)
(* does, whatever the other keys, the repeats and the point the poll was   *)
(* interrupted at (gui.cpp:95-157).                                        *)
(***************************************************************************)
KeysAccounted ==
    ~debug_build =>
        /\ \A i \in DOMAIN queue : LastEvent(i) => (queue[i].down <=> queue[i].key \in held)
        /\ \A key \in Keys :
             (\A i \in DOMAIN queue : queue[i].key # key) =>
                 (Pressed(m_inputs, key) <=> key \in held)

(***************************************************************************)
(* In the release build a key that stays down is seen by the game and one  *)
(* that stays up is no longer seen, unless the player changes his mind     *)
(* first: a press shorter than a frame may be missed (main.cpp:112-115     *)
(* copies the bits once, after the whole queue).                           *)
(***************************************************************************)
KeysArrive ==
    debug_build \/
        \A key \in Keys : /\ key \in held ~> Pressed(inp, key) \/ key \notin held
                          /\ key \notin held ~> ~Pressed(inp, key) \/ key \in held

(***************************************************************************)
(* README.md's controls work in every build: the game sees the key that    *)
(* the player holds down.                                                  *)
(***************************************************************************)
ControlsWork ==
    \A key \in Keys : key \in held ~> Pressed(inp, key) \/ key \notin held
=============================================================================
