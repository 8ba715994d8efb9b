---------------------------- MODULE FallbackLedger ----------------------------
(***************************************************************************)
(* The arithmetic of FallbackLedger (fallback_ledger.h, fallback_ledger.cpp)*)
(* as operators on a FallbackBudget and an ExecutionStatistics record.     *)
(* The ledger keeps no state besides its budget: ExecutionSession passes   *)
(* it the statistics at every call.  An error message is the negation of a *)
(* predicate here; its wording is left out.                                *)
(***************************************************************************)
EXTENDS Naturals

CONSTANTS
    MaxCounter,      \* the largest std::uint64_t, the type of every counter
    MaxCount         \* the largest std::uint32_t, the type of a block's count

ASSUME WidthAssumption ==
    /\ MaxCounter \in Nat
    /\ MaxCount \in Nat
    /\ MaxCount <= MaxCounter

-----------------------------------------------------------------------------
(***************************************************************************)
(* Types                                                                   *)
(***************************************************************************)

JitRefusalReasons ==
    {"UnsupportedInstruction", "UnsafeInstructionFetch",
     "UnsafeHostExecution", "PrivilegedInstruction"}

\* A byte outside the enumeration: the adapter casts whatever Dolphin sends.
InvalidReason == "InvalidReason"

FallbackBudgets ==
    [maximum_blocks : 0..MaxCounter,
     maximum_total_instructions : 0..MaxCounter,
     maximum_instructions_per_block : 0..MaxCount]

ExecutionStatistics ==
    [jit_dispatches : Nat,
     jit_blocks_compiled : Nat,
     jit_blocks_executed : Nat,
     jit_instructions_executed : Nat,
     fallback_blocks : 0..MaxCounter,
     fallback_instructions : 0..MaxCounter,
     fallback_blocks_by_reason : [JitRefusalReasons -> 0..MaxCounter],
     fallback_instructions_by_reason : [JitRefusalReasons -> 0..MaxCounter],
     diagnostic_interpreter_blocks : Nat,
     diagnostic_interpreter_instructions : Nat]

NoStatistics ==
    [jit_dispatches |-> 0,
     jit_blocks_compiled |-> 0,
     jit_blocks_executed |-> 0,
     jit_instructions_executed |-> 0,
     fallback_blocks |-> 0,
     fallback_instructions |-> 0,
     fallback_blocks_by_reason |-> [r \in JitRefusalReasons |-> 0],
     fallback_instructions_by_reason |-> [r \in JitRefusalReasons |-> 0],
     diagnostic_interpreter_blocks |-> 0,
     diagnostic_interpreter_instructions |-> 0]

-----------------------------------------------------------------------------
(***************************************************************************)
(* Operations                                                              *)
(***************************************************************************)

\* std::uint64_t addition.
Add64(a, b) == IF a + b > MaxCounter THEN a + b - (MaxCounter + 1) ELSE a + b

Disabled(budget) ==
    /\ budget.maximum_blocks = 0
    /\ budget.maximum_total_instructions = 0
    /\ budget.maximum_instructions_per_block = 0

FullyConfigured(budget) ==
    /\ budget.maximum_blocks # 0
    /\ budget.maximum_total_instructions # 0
    /\ budget.maximum_instructions_per_block # 0

\* The constructor throws on any other budget.
ValidBudget(budget) == Disabled(budget) \/ FullyConfigured(budget)

\* Mutation of can_enter: one block more than the budget.
can_enter_inclusive(budget, refusal, statistics) ==
    /\ refusal.reason \in JitRefusalReasons
    /\ statistics.fallback_blocks <= budget.maximum_blocks
    /\ statistics.fallback_instructions < budget.maximum_total_instructions

\* Mutation of can_enter: the instruction total is not looked at.
can_enter_by_blocks(budget, refusal, statistics) ==
    /\ refusal.reason \in JitRefusalReasons
    /\ statistics.fallback_blocks < budget.maximum_blocks

can_enter(budget, refusal, statistics) ==
    /\ refusal.reason \in JitRefusalReasons
    /\ statistics.fallback_blocks < budget.maximum_blocks
    /\ statistics.fallback_instructions < budget.maximum_total_instructions

\* Mutation of instruction_limit: the remainder is not looked at.
instruction_limit_per_block(budget, statistics) ==
    budget.maximum_instructions_per_block

instruction_limit(budget, statistics) ==
    IF statistics.fallback_instructions >= budget.maximum_total_instructions
    THEN 0
    ELSE LET remaining == budget.maximum_total_instructions
                            - statistics.fallback_instructions
         IN  IF budget.maximum_instructions_per_block <= remaining
             THEN budget.maximum_instructions_per_block
             ELSE remaining

\* Mutation of Recordable: the last instruction of the total is not granted.
RecordableBelowTotal(budget, refusal, execution, statistics) ==
    /\ refusal.reason \in JitRefusalReasons
    /\ execution.guest_pc = refusal.guest_pc
    /\ execution.instruction_count # 0
    /\ execution.instruction_count <= budget.maximum_instructions_per_block
    /\ Add64(statistics.fallback_instructions, execution.instruction_count)
            < budget.maximum_total_instructions

\* The checks record makes before it touches the statistics.
Recordable(budget, refusal, execution, statistics) ==
    /\ refusal.reason \in JitRefusalReasons
    /\ execution.guest_pc = refusal.guest_pc
    /\ execution.instruction_count # 0
    /\ execution.instruction_count <= budget.maximum_instructions_per_block
    /\ Add64(statistics.fallback_instructions, execution.instruction_count)
            <= budget.maximum_total_instructions

\* Mutation of Recorded: a reason counts blocks where it counts instructions.
RecordedByBlock(refusal, execution, statistics) ==
    [statistics EXCEPT
        !.fallback_blocks = Add64(@, 1),
        !.fallback_instructions = Add64(@, execution.instruction_count),
        !.fallback_blocks_by_reason[refusal.reason] = Add64(@, 1),
        !.fallback_instructions_by_reason[refusal.reason] = Add64(@, 1)]

\* The statistics once record has accepted the block.
Recorded(refusal, execution, statistics) ==
    [statistics EXCEPT
        !.fallback_blocks = Add64(@, 1),
        !.fallback_instructions = Add64(@, execution.instruction_count),
        !.fallback_blocks_by_reason[refusal.reason] = Add64(@, 1),
        !.fallback_instructions_by_reason[refusal.reason] =
            Add64(@, execution.instruction_count)]
=============================================================================
