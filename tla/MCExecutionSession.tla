-------------------------- MODULE MCExecutionSession --------------------------
(***************************************************************************)
(* Instances of ExecutionSession for TLC.  The widths are shrunk so that   *)
(* a few blocks reach the largest counter.                                 *)
(***************************************************************************)
EXTENDS ExecutionSession

MCMaxCount == 2
MCMaxCounter == 5
MCGuestAddresses == {0, 4}

Limits(blocks, total, per_block) ==
    [maximum_blocks |-> blocks,
     maximum_total_instructions |-> total,
     maximum_instructions_per_block |-> per_block]

Configuration(mode, fallback, diagnostic) ==
    [mode |-> mode, fallback |-> fallback,
     diagnostic_instructions_per_dispatch |-> diagnostic]

\* No budget, a budget whose totals bind, one whose remainder binds before the
\* block limit, one that reaches the largest counter, the two kinds of
\* configuration the constructor rejects, and the diagnostic mode.
MCConfigurations ==
    {Configuration("Jit", Limits(0, 0, 0), 1),
     Configuration("Jit", Limits(1, 5, 2), 1),
     Configuration("Jit", Limits(3, 3, 2), 1),
     Configuration("Jit", Limits(5, MCMaxCounter, 2), 1),
     Configuration("Jit", Limits(2, 0, 2), 1),
     Configuration("Jit", Limits(2, 3, 2), 0),
     Configuration("DiagnosticInterpreter", Limits(0, 0, 0), 1),
     Configuration("DiagnosticInterpreter", Limits(2, 3, 2), 2)}
=============================================================================
