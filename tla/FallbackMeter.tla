---------------------------- MODULE FallbackMeter ----------------------------
(***************************************************************************)
(* What the fallback budget promises whoever configured it, whatever the   *)
(* dispatch loop does around it: interpreted blocks are spent one at a     *)
(* time, none is longer than the per-block limit, and neither the number   *)
(* of blocks nor the number of instructions ever passes its total.         *)
(***************************************************************************)
EXTENDS Naturals

CONSTANT
    Budgets          \* what may be configured

VARIABLES
    budget,          \* the limits in force, Unconfigured before construction
    blocks,          \* blocks interpreted so far
    instructions     \* instructions interpreted so far

meterVars == <<budget, blocks, instructions>>

Unconfigured ==
    [maximum_blocks |-> 0,
     maximum_total_instructions |-> 0,
     maximum_instructions_per_block |-> 0]

MeterInit ==
    /\ budget = Unconfigured
    /\ blocks = 0
    /\ instructions = 0

Configure ==
    /\ budget = Unconfigured
    /\ budget' \in Budgets
    /\ UNCHANGED <<blocks, instructions>>

Spend ==
    /\ blocks < budget.maximum_blocks
    /\ blocks' = blocks + 1
    /\ instructions' > instructions
    /\ instructions' <= instructions + budget.maximum_instructions_per_block
    /\ instructions' <= budget.maximum_total_instructions
    /\ UNCHANGED budget

MeterNext == Configure \/ Spend

MeterSpec == MeterInit /\ [][MeterNext]_meterVars
=============================================================================
