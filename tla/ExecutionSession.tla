--------------------------- MODULE ExecutionSession ---------------------------
(***************************************************************************)
(* ExecutionSession (execution_session.h, execution_session.cpp): the loop *)
(* that offers every guest block to the JIT first, enters the interpreter  *)
(* only after a typed refusal and within a budget, and accounts for all of *)
(* it in statistics that outlive a run.                                    *)
(*                                                                         *)
(* One session, one backend, one diagnostics sink, one thread.  A virtual  *)
(* call is the boundary of a step: the phase says which call the session   *)
(* is waiting in, and the reply, or an exception, is an action of the      *)
(* callee.  The embedder calls run again after any outcome: the code keeps *)
(* no stopped state.  The statistics copied into a RunResult are those of  *)
(* the moment, so result keeps only the reason and the PC.                 *)
(***************************************************************************)
EXTENDS FallbackLedger

CONSTANTS
    Configurations,  \* what the embedder may construct a session with
    GuestAddresses,  \* guest PCs, 0 among them
    BackendConforms, \* does the backend keep the contract of RuntimeBackend?
    MaxRuns,         \* bound: calls of run
    MaxDispatches    \* bound: the maximum_dispatches of one call

RuntimeConfigurations ==
    [mode : {"Jit", "DiagnosticInterpreter"},
     fallback : FallbackBudgets,
     diagnostic_instructions_per_dispatch : 0..MaxCount]

ASSUME ConfigurationAssumption == Configurations \subseteq RuntimeConfigurations
ASSUME AddressAssumption == GuestAddresses \subseteq Nat /\ 0 \in GuestAddresses
ASSUME ConformsAssumption == BackendConforms \in BOOLEAN
ASSUME BoundAssumption == MaxRuns \in Nat /\ MaxDispatches \in Nat

VARIABLES
    configuration,
    statistics,
    phase,              \* where the session's control is
    dispatch,           \* run's loop variable
    maximum_dispatches, \* run's argument
    refusal,            \* the refusal being served
    limit,              \* the instruction limit the interpreter was given
    result,             \* what the last run returned, if it returned
    backend,            \* what the backend has executed, whoever recorded it
    base,               \* work the backend had done when the run began
    runs                \* calls of run so far

sessionVars == <<configuration, statistics, dispatch, maximum_dispatches,
                 refusal, limit, result, base, runs>>
vars == <<configuration, statistics, phase, dispatch, maximum_dispatches,
          refusal, limit, result, backend, base, runs>>

Phases == {"unbuilt", "rejected", "idle", "loop", "in_jit", "in_fallback",
           "in_diagnostic", "in_sink"}

Refusals == [guest_pc : GuestAddresses,
             reason : JitRefusalReasons \cup {InvalidReason}]
DefaultRefusal == [guest_pc |-> 0, reason |-> "UnsupportedInstruction"]

InterpretedBlocks == [guest_pc : GuestAddresses, instruction_count : 0..MaxCount]

RunStopReasons ==
    {"BackendExit", "BackendFault", "DispatchBudgetExhausted",
     "FallbackBudgetExceeded", "InvalidBackendResult"}

\* No run yet, a run under way, or one that an exception ended.
NoResult == [reason |-> "None", guest_pc |-> 0]
RunResults == [reason : RunStopReasons \cup {"None"}, guest_pc : GuestAddresses]

BackendTallies ==
    [offers : Nat, jit_blocks : Nat, jit_instructions : Nat,
     fallback_blocks : Nat, fallback_instructions : Nat,
     diagnostic_blocks : Nat, diagnostic_instructions : Nat]
NoWork ==
    [offers |-> 0, jit_blocks |-> 0, jit_instructions |-> 0,
     fallback_blocks |-> 0, fallback_instructions |-> 0,
     diagnostic_blocks |-> 0, diagnostic_instructions |-> 0]

BlocksExecuted(tallies) ==
    tallies.jit_blocks + tallies.fallback_blocks + tallies.diagnostic_blocks

TypeOK ==
    /\ configuration \in Configurations
    /\ statistics \in ExecutionStatistics
    /\ phase \in Phases
    /\ dispatch \in 0..MaxDispatches
    /\ maximum_dispatches \in 0..MaxDispatches
    /\ refusal \in Refusals
    /\ limit \in 0..MaxCount
    /\ result \in RunResults
    /\ backend \in BackendTallies
    /\ base \in [blocks : Nat, offers : Nat]
    /\ runs \in 0..MaxRuns

-----------------------------------------------------------------------------
(***************************************************************************)
(* The embedder                                                            *)
(***************************************************************************)

Init ==
    /\ configuration \in Configurations
    /\ statistics = NoStatistics
    /\ phase = "unbuilt"
    /\ dispatch = 0
    /\ maximum_dispatches = 0
    /\ refusal = DefaultRefusal
    /\ limit = 0
    /\ result = NoResult
    /\ backend = NoWork
    /\ base = [blocks |-> 0, offers |-> 0]
    /\ runs = 0

\* The constructor, which throws or not.
Constructible ==
    /\ ValidBudget(configuration.fallback)
    /\ configuration.diagnostic_instructions_per_dispatch # 0

Construct ==
    /\ phase = "unbuilt"
    /\ phase' = IF Constructible THEN "idle" ELSE "rejected"
    /\ UNCHANGED <<sessionVars, backend>>

Run ==
    /\ phase = "idle"
    /\ runs < MaxRuns
    /\ runs' = runs + 1
    /\ maximum_dispatches' \in 0..MaxDispatches
    /\ dispatch' = 0
    /\ result' = NoResult
    /\ base' = [blocks |-> BlocksExecuted(backend), offers |-> backend.offers]
    /\ phase' = "loop"
    /\ UNCHANGED <<configuration, statistics, refusal, limit, backend>>

-----------------------------------------------------------------------------
(***************************************************************************)
(* Leaving a dispatch.  refusal and limit go out of scope.                 *)
(***************************************************************************)

LeaveScope ==
    /\ refusal' = DefaultRefusal
    /\ limit' = 0
    /\ UNCHANGED <<configuration, dispatch, maximum_dispatches, base, runs>>

\* return stopped(reason, guest_pc, ...) through run.
Stop(reason, guest_pc) ==
    /\ phase' = "idle"
    /\ result' = [reason |-> reason, guest_pc |-> guest_pc]
    /\ LeaveScope

\* The counters are written and the sink is told.
Notify ==
    /\ phase' = "in_sink"
    /\ UNCHANGED result
    /\ LeaveScope

\* An exception of the callee unwinds run; nothing in it catches.
Unwind ==
    /\ phase' = "idle"
    /\ UNCHANGED <<statistics, result>>
    /\ LeaveScope

-----------------------------------------------------------------------------
(***************************************************************************)
(* run: the loop                                                           *)
(***************************************************************************)

Exhaust ==
    /\ phase = "loop"
    /\ dispatch >= maximum_dispatches
    /\ Stop("DispatchBudgetExhausted", 0)
    /\ UNCHANGED <<statistics, backend>>

SinkReturns ==
    /\ phase = "in_sink"
    /\ phase' = "loop"
    /\ dispatch' = dispatch + 1
    /\ UNCHANGED <<configuration, statistics, maximum_dispatches, refusal,
                   limit, result, backend, base, runs>>

SinkThrows ==
    /\ phase = "in_sink"
    /\ Unwind
    /\ UNCHANGED backend

-----------------------------------------------------------------------------
(***************************************************************************)
(* run_jit_dispatch                                                        *)
(***************************************************************************)

\* Mutation of BeginJitDispatch: one dispatch too many.
BeginJitDispatchInclusive ==
    /\ phase = "loop"
    /\ dispatch <= maximum_dispatches
    /\ configuration.mode = "Jit"
    /\ statistics' = [statistics EXCEPT !.jit_dispatches = @ + 1]
    /\ backend' = [backend EXCEPT !.offers = @ + 1]
    /\ phase' = "in_jit"
    /\ UNCHANGED <<configuration, dispatch, maximum_dispatches, refusal, limit,
                   result, base, runs>>

BeginJitDispatch ==
    /\ phase = "loop"
    /\ dispatch < maximum_dispatches
    /\ configuration.mode = "Jit"
    /\ statistics' = [statistics EXCEPT !.jit_dispatches = @ + 1]
    /\ backend' = [backend EXCEPT !.offers = @ + 1]
    /\ phase' = "in_jit"
    /\ UNCHANGED <<configuration, dispatch, maximum_dispatches, refusal, limit,
                   result, base, runs>>

\* Mutation of JitCounted: a cache hit does not count its instructions.
JitCountedWhenCompiled(count, compiled) ==
    [statistics EXCEPT
        !.jit_blocks_executed = @ + 1,
        !.jit_instructions_executed = IF compiled THEN @ + count ELSE @,
        !.jit_blocks_compiled = IF compiled THEN @ + 1 ELSE @]

\* The statistics after a JitExecution of count instructions.
JitCounted(count, compiled) ==
    [statistics EXCEPT
        !.jit_blocks_executed = @ + 1,
        !.jit_instructions_executed = @ + count,
        !.jit_blocks_compiled = IF compiled THEN @ + 1 ELSE @]

\* Mutation of JitExecutes: an execution of no instruction is let through.
JitExecutesUnchecked(guest_pc, count, compiled) ==
    /\ phase = "in_jit"
    /\ BackendConforms => count # 0
    /\ backend' = [backend EXCEPT !.jit_blocks = IF count = 0 THEN @ ELSE @ + 1,
                                  !.jit_instructions = @ + count]
    /\ statistics' = JitCounted(count, compiled)
    /\ Notify

JitExecutes(guest_pc, count, compiled) ==
    /\ phase = "in_jit"
    /\ BackendConforms => count # 0
    /\ backend' = [backend EXCEPT !.jit_blocks = IF count = 0 THEN @ ELSE @ + 1,
                                  !.jit_instructions = @ + count]
    /\ \/ /\ count = 0
          /\ Stop("InvalidBackendResult", guest_pc)
          /\ UNCHANGED statistics
       \/ /\ count # 0
          /\ statistics' = JitCounted(count, compiled)
          /\ Notify

JitRefuses(refused) ==
    /\ phase = "in_jit"
    /\ BackendConforms => refused.reason \in JitRefusalReasons
    /\ \/ /\ ~can_enter(configuration.fallback, refused, statistics)
          /\ Stop("FallbackBudgetExceeded", refused.guest_pc)
       \/ /\ can_enter(configuration.fallback, refused, statistics)
          /\ refusal' = refused
          /\ limit' = instruction_limit(configuration.fallback, statistics)
          /\ phase' = "in_fallback"
          /\ UNCHANGED <<configuration, dispatch, maximum_dispatches, result,
                         base, runs>>
    /\ UNCHANGED <<statistics, backend>>

JitExits ==
    /\ phase = "in_jit"
    /\ Stop("BackendExit", 0)
    /\ UNCHANGED <<statistics, backend>>

JitFaults(guest_pc) ==
    /\ phase = "in_jit"
    /\ Stop("BackendFault", guest_pc)
    /\ UNCHANGED <<statistics, backend>>

JitThrows ==
    /\ phase = "in_jit"
    /\ Unwind
    /\ UNCHANGED backend

\* The interpreter is confined to the refused block and to the limit.
WithinOrder(execution) ==
    /\ execution.guest_pc = refusal.guest_pc
    /\ execution.instruction_count \in 1..limit

\* Mutation of FallbackReturns: the answer of record is not looked at.
FallbackReturnsRegardless(execution) ==
    /\ phase = "in_fallback"
    /\ BackendConforms => WithinOrder(execution)
    /\ backend' = [backend EXCEPT
                      !.fallback_blocks =
                          IF execution.instruction_count = 0 THEN @ ELSE @ + 1,
                      !.fallback_instructions = @ + execution.instruction_count]
    /\ statistics' =
          IF Recordable(configuration.fallback, refusal, execution, statistics)
          THEN Recorded(refusal, execution, statistics)
          ELSE statistics
    /\ Notify

FallbackReturns(execution) ==
    /\ phase = "in_fallback"
    /\ BackendConforms => WithinOrder(execution)
    /\ backend' = [backend EXCEPT
                      !.fallback_blocks =
                          IF execution.instruction_count = 0 THEN @ ELSE @ + 1,
                      !.fallback_instructions = @ + execution.instruction_count]
    /\ \/ /\ Recordable(configuration.fallback, refusal, execution, statistics)
          /\ statistics' = Recorded(refusal, execution, statistics)
          /\ Notify
       \/ /\ ~Recordable(configuration.fallback, refusal, execution, statistics)
          /\ Stop("FallbackBudgetExceeded", refusal.guest_pc)
          /\ UNCHANGED statistics

FallbackThrows ==
    /\ phase = "in_fallback"
    /\ Unwind
    /\ UNCHANGED backend

-----------------------------------------------------------------------------
(***************************************************************************)
(* run_diagnostic_dispatch                                                 *)
(***************************************************************************)

DiagnosticLimit == configuration.diagnostic_instructions_per_dispatch

BeginDiagnosticDispatch ==
    /\ phase = "loop"
    /\ dispatch < maximum_dispatches
    /\ configuration.mode # "Jit"
    /\ phase' = "in_diagnostic"
    /\ UNCHANGED <<sessionVars, backend>>

\* Mutation of DiagnosticReturns: a block without instructions is asked for
\* again, and no dispatch is spent on it.
DiagnosticReturnsRetrying(execution) ==
    LET count == execution.instruction_count
    IN  /\ phase = "in_diagnostic"
        /\ BackendConforms => count \in 1..DiagnosticLimit
        /\ backend' = [backend EXCEPT
                          !.diagnostic_blocks = IF count = 0 THEN @ ELSE @ + 1,
                          !.diagnostic_instructions = @ + count]
        /\ \/ /\ count = 0
              /\ phase' = "loop"
              /\ UNCHANGED sessionVars
           \/ /\ count > DiagnosticLimit
              /\ Stop("InvalidBackendResult", execution.guest_pc)
              /\ UNCHANGED statistics
           \/ /\ ~(count = 0 \/ count > DiagnosticLimit)
              /\ statistics' =
                    [statistics EXCEPT
                        !.diagnostic_interpreter_blocks = @ + 1,
                        !.diagnostic_interpreter_instructions = @ + count]
              /\ Notify

DiagnosticReturns(execution) ==
    LET count == execution.instruction_count
    IN  /\ phase = "in_diagnostic"
        /\ BackendConforms => count \in 1..DiagnosticLimit
        /\ backend' = [backend EXCEPT
                          !.diagnostic_blocks = IF count = 0 THEN @ ELSE @ + 1,
                          !.diagnostic_instructions = @ + count]
        /\ \/ /\ count = 0 \/ count > DiagnosticLimit
              /\ Stop("InvalidBackendResult", execution.guest_pc)
              /\ UNCHANGED statistics
           \/ /\ ~(count = 0 \/ count > DiagnosticLimit)
              /\ statistics' =
                    [statistics EXCEPT
                        !.diagnostic_interpreter_blocks = @ + 1,
                        !.diagnostic_interpreter_instructions = @ + count]
              /\ Notify

DiagnosticThrows ==
    /\ phase = "in_diagnostic"
    /\ Unwind
    /\ UNCHANGED backend

-----------------------------------------------------------------------------
BackendReplies ==
    \/ \E guest_pc \in GuestAddresses, count \in 0..MaxCount, compiled \in BOOLEAN :
           JitExecutes(guest_pc, count, compiled)
    \/ \E refused \in Refusals : JitRefuses(refused)
    \/ JitExits
    \/ \E guest_pc \in GuestAddresses : JitFaults(guest_pc)
    \/ JitThrows
    \/ \E execution \in InterpretedBlocks : FallbackReturns(execution)
    \/ FallbackThrows
    \/ \E execution \in InterpretedBlocks : DiagnosticReturns(execution)
    \/ DiagnosticThrows

SinkReplies == SinkReturns \/ SinkThrows

SessionSteps == Exhaust \/ BeginJitDispatch \/ BeginDiagnosticDispatch

Next == Construct \/ Run \/ SessionSteps \/ BackendReplies \/ SinkReplies

(***************************************************************************)
(* The session's own steps run on its thread without waiting; a backend    *)
(* executes exactly one guest basic block per call, so it replies; a sink  *)
(* only adapts an event.  Nobody has to construct a session or to call run.*)
(***************************************************************************)
Fairness == WF_vars(SessionSteps) /\ WF_vars(BackendReplies) /\ WF_vars(SinkReplies)

Spec == Init /\ [][Next]_vars /\ Fairness

-----------------------------------------------------------------------------
(***************************************************************************)
(* Properties                                                              *)
(***************************************************************************)

Running == phase \in {"loop", "in_jit", "in_fallback", "in_diagnostic", "in_sink"}

\* A conforming backend never interprets more blocks or more instructions
\* than the budget grants, over all the runs of one session: can_enter and
\* instruction_limit see statistics that outlive a run, before the block runs.
BudgetRespected ==
    BackendConforms =>
        /\ backend.fallback_blocks <= configuration.fallback.maximum_blocks
        /\ backend.fallback_instructions
                <= configuration.fallback.maximum_total_instructions

\* The denominators are what really ran: after every reply of a conforming
\* backend, after every early return and after every exception of a callee,
\* the statistics equal the work done, in all the runs together.
AccountingExact ==
    BackendConforms =>
        /\ statistics.jit_dispatches = backend.offers
        /\ statistics.jit_blocks_executed = backend.jit_blocks
        /\ statistics.jit_instructions_executed = backend.jit_instructions
        /\ statistics.fallback_blocks = backend.fallback_blocks
        /\ statistics.fallback_instructions = backend.fallback_instructions
        /\ statistics.diagnostic_interpreter_blocks = backend.diagnostic_blocks
        /\ statistics.diagnostic_interpreter_instructions
                = backend.diagnostic_instructions

\* A backend that keeps its contract is never blamed: a run that stops on the
\* fallback budget has used up one of its totals (a disabled budget is used up
\* from the start), and no run stops on an invalid result.  So no sequence of
\* blocks leaves record rejecting what can_enter and instruction_limit allowed.
StopIsJustified ==
    BackendConforms =>
        /\ result.reason # "InvalidBackendResult"
        /\ result.reason = "FallbackBudgetExceeded" =>
            \/ statistics.fallback_blocks = configuration.fallback.maximum_blocks
            \/ statistics.fallback_instructions
                    = configuration.fallback.maximum_total_instructions

\* Whenever the interpreter is entered it is given room for one instruction at
\* least and for no more than the block limit and the remainder: the cast to 32
\* bits loses nothing and a limit of 0 is never handed out.
LimitIsUsable ==
    phase = "in_fallback" =>
        /\ limit \in 1..configuration.fallback.maximum_instructions_per_block
        /\ statistics.fallback_instructions + limit
                <= configuration.fallback.maximum_total_instructions

\* The four refusal reasons partition the fallback totals, in the 64-bit
\* arithmetic of the counters and whatever the backend reports.
SumOverReasons(f) ==
    Add64(Add64(f["UnsupportedInstruction"], f["UnsafeInstructionFetch"]),
          Add64(f["UnsafeHostExecution"], f["PrivilegedInstruction"]))

ReasonsPartitionTotals ==
    /\ SumOverReasons(statistics.fallback_blocks_by_reason)
            = statistics.fallback_blocks
    /\ SumOverReasons(statistics.fallback_instructions_by_reason)
            = statistics.fallback_instructions

\* One dispatch is one block: at every point of a run the backend has executed
\* exactly one block for each completed dispatch, and in Jit mode each of them
\* was offered to the JIT first, so no block is interpreted without an offer.  A
\* run that exhausts its dispatches has done exactly as many blocks as asked.
BlocksThisRun == BlocksExecuted(backend) - base.blocks
OffersThisRun == backend.offers - base.offers

DispatchAccounting ==
    /\ phase \in {"loop", "in_jit", "in_fallback", "in_diagnostic"} =>
           BlocksThisRun = dispatch
    /\ phase = "in_sink" => BlocksThisRun = dispatch + 1
    /\ Running /\ configuration.mode = "Jit" =>
           OffersThisRun = dispatch + (IF phase = "loop" THEN 0 ELSE 1)
    /\ result.reason = "DispatchBudgetExhausted" =>
           BlocksThisRun = maximum_dispatches

\* Whatever the backend reports, a block that was executed and not recorded
\* ends the run in the same step: it is never followed by another dispatch of
\* that run.
UnrecordedEndsRun ==
    [][ (backend' # backend /\ phase # "loop"
            /\ statistics' = statistics) => phase' = "idle" ]_vars

\* README.md: a fallback is recorded before returning to JIT.  Whenever the JIT
\* is called, every block the interpreter has executed is in the statistics.
RecordedBeforeJit ==
    phase = "in_jit" => statistics.fallback_blocks = backend.fallback_blocks

\* Every run comes to an end, by a result or by an exception, whatever the
\* backend reports: each trip of the loop spends a dispatch or leaves it
\* (execution_session.cpp:20-29).
RunsEnd == Running ~> (phase = "idle")

-----------------------------------------------------------------------------
(***************************************************************************)
(* The work of a conforming backend implements the metered budget.         *)
(***************************************************************************)
\* No budget is in force before the constructor has accepted one.
MeterBudget ==
    IF phase \in {"unbuilt", "rejected"}
    THEN [maximum_blocks |-> 0,
          maximum_total_instructions |-> 0,
          maximum_instructions_per_block |-> 0]
    ELSE configuration.fallback

Meter == INSTANCE FallbackMeter WITH
    Budgets <- {c.fallback : c \in Configurations},
    budget <- MeterBudget,
    blocks <- backend.fallback_blocks,
    instructions <- backend.fallback_instructions

\* Every step of a session with a conforming backend configures the meter,
\* spends one block within its limits, or leaves it alone.
MetersFallback == Meter!MeterSpec
=============================================================================
