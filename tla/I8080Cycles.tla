----------------------------- MODULE I8080Cycles -----------------------------
(***************************************************************************)
(* How long an instruction of I8080Cpu takes: the table of                 *)
(* src/src/core/cpu.h:64-81, and the cycles fetch_execute_instruction adds *)
(* to it.                                                                  *)
(***************************************************************************)
EXTENDS I8080Cpu

\* The table, by the duration of the opcodes.
instruction_clock_cycles(op) ==
    IF op = 227 THEN 18
    ELSE IF op \in {205, 221, 237, 253} THEN 17
    ELSE IF op \in {34, 42} THEN 16
    ELSE IF op \in {50, 58} THEN 13
    ELSE IF op = 203 \/ (op >= 192 /\ (op % 8 \in {4, 7} \/ op % 16 = 5)) THEN 11
    ELSE IF \/ op \in {52, 53, 54} \/ (op < 64 /\ op % 8 = 1)
            \/ op >= 192 /\ op % 8 \in {1, 2, 3} /\ op \notin {233, 235, 243, 249, 251}
    THEN 10
    ELSE IF op % 8 = 6 \/ (op < 64 /\ op % 8 = 2) \/ op \in 112..119 THEN 7
    ELSE IF \/ op \in {235, 243, 251} \/ op \in 128..191
            \/ op < 64 /\ op % 8 \in {0, 7}
    THEN 4
    ELSE 5

\* A conditional call or return that is taken lasts longer.
branch_taken == ins >= 192 /\ SSS \in {0, 4} /\ condition_met

\* What the step's call of fetch_execute_instruction returns.
instruction_cycles ==
    instruction_clock_cycles(ins) + (IF branch_taken THEN 6 ELSE 0)
=============================================================================
