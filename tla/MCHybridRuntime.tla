--------------------------- MODULE MCHybridRuntime ---------------------------
(***************************************************************************)
(* An instance of HybridRuntime for TLC: two guest functions, one of which *)
(* can be hooked.                                                          *)
(***************************************************************************)
EXTENDS HybridRuntime

MCMaxCount == 2
MCMaxCounter == 5
MCGuestAddresses == {0, 4}

\* A budget whose remainder binds before the block limit, and the other mode.
MCConfigurations ==
    {[mode |-> mode, diagnostic_instructions_per_dispatch |-> 1,
      fallback |-> [maximum_blocks |-> 2, maximum_total_instructions |-> 3,
                    maximum_instructions_per_block |-> 2]]
        : mode \in {"Jit", "DiagnosticInterpreter"}}
=============================================================================
