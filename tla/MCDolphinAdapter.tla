--------------------------- MODULE MCDolphinAdapter ---------------------------
(***************************************************************************)
(* An instance of DolphinAdapter for TLC: two keys the session accepts and *)
(* one of a stale generation, and a binding more than keys.                *)
(***************************************************************************)
EXTENDS DolphinAdapter, TLC

CONSTANTS zero, disc, first, second, b1, b2, b3, b4

MCImages == {zero, disc}
MCGenerations == 0..1
MCAddresses == {0, 4, 8}
MCKeys ==
    {[image |-> disc, module_generation |-> 1, address |-> 4],
     [image |-> disc, module_generation |-> 1, address |-> 8],
     [image |-> disc, module_generation |-> 0, address |-> 4]}
MCIdentity == [image |-> disc, module_generation |-> 1]
MCCallbacks == {first, second, EmptyCallback}
MCBindings == {b1, b2, b3, b4}
MCSymmetry == Permutations(MCBindings)
=============================================================================
