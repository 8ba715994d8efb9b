------------------------ MODULE ExecutionSessionProofs ------------------------
(***************************************************************************)
(* Proofs about ExecutionSession, for every width, set of configurations,  *)
(* set of addresses and bound.                                             *)
(***************************************************************************)
EXTENDS ExecutionSession, TLAPS

-----------------------------------------------------------------------------
(***************************************************************************)
(* The ledger's arithmetic                                                 *)
(***************************************************************************)

\* Addition of counters yields a counter, and is exact below the width.
LEMMA Add64Counter ==
    ASSUME NEW a \in 0..MaxCounter, NEW b \in 0..MaxCounter
    PROVE  /\ Add64(a, b) \in 0..MaxCounter
           /\ a + b <= MaxCounter => Add64(a, b) = a + b
  BY WidthAssumption DEF Add64

\* The limit is a block count, whatever has been spent.
LEMMA LimitType ==
    ASSUME NEW budget \in FallbackBudgets, NEW statistic \in ExecutionStatistics
    PROVE  instruction_limit(budget, statistic) \in 0..MaxCount
  BY WidthAssumption DEF instruction_limit, FallbackBudgets, ExecutionStatistics

\* A refusal that can enter gets room for one instruction at least, and never
\* more than the block limit or the remainder.
LEMMA LimitUsable ==
    ASSUME NEW budget \in FallbackBudgets, NEW statistic \in ExecutionStatistics,
           NEW refused \in Refusals,
           ValidBudget(budget), can_enter(budget, refused, statistic)
    PROVE  LET granted == instruction_limit(budget, statistic)
           IN  /\ granted \in 1..budget.maximum_instructions_per_block
               /\ statistic.fallback_instructions + granted
                        <= budget.maximum_total_instructions
  BY WidthAssumption
  DEF instruction_limit, FallbackBudgets, ExecutionStatistics, ValidBudget,
      Disabled, FullyConfigured, can_enter
\* A block within a usable limit passes every check of record.
LEMMA WithinLimitRecordable ==
    ASSUME NEW budget \in FallbackBudgets, NEW statistic \in ExecutionStatistics,
           NEW refused \in Refusals, NEW execution \in InterpretedBlocks,
           NEW granted \in 1..budget.maximum_instructions_per_block,
           statistic.fallback_instructions + granted
                <= budget.maximum_total_instructions,
           refused.reason \in JitRefusalReasons,
           execution.guest_pc = refused.guest_pc,
           execution.instruction_count \in 1..granted
    PROVE  Recordable(budget, refused, execution, statistic)
  BY WidthAssumption
  DEF Recordable, Add64, FallbackBudgets, ExecutionStatistics,
      InterpretedBlocks

\* Once a refusal may enter, record accepts exactly the blocks that instruction_limit
\* granted, at the address of the refusal, and every block, within the limit of a
\* block, whose sum leaves 64 bits: the sum that is compared has wrapped by then
\* (fallback_ledger.cpp:85).
THEOREM RecordIsTheGrant ==
    ASSUME NEW budget \in FallbackBudgets, NEW statistic \in ExecutionStatistics,
           NEW refused \in Refusals, NEW execution \in InterpretedBlocks,
           ValidBudget(budget), can_enter(budget, refused, statistic)
    PROVE  LET count == execution.instruction_count
               spent == statistic.fallback_instructions
           IN  Recordable(budget, refused, execution, statistic)
                   <=> /\ execution.guest_pc = refused.guest_pc
                       /\ \/ count \in 1..instruction_limit(budget, statistic)
                          \/ /\ count <= budget.maximum_instructions_per_block
                             /\ spent + count > MaxCounter
<1> DEFINE count == execution.instruction_count
           spent == statistic.fallback_instructions
           total == budget.maximum_total_instructions
           each == budget.maximum_instructions_per_block
<1>1. /\ count \in 0..MaxCount /\ each \in 0..MaxCount /\ spent \in 0..MaxCounter
      /\ total \in 0..MaxCounter /\ MaxCount \in Nat /\ MaxCounter \in Nat
      /\ MaxCount <= MaxCounter /\ spent < total
  BY WidthAssumption
  DEF InterpretedBlocks, FallbackBudgets, ExecutionStatistics, can_enter
<1>2. count \in 1..instruction_limit(budget, statistic)
          <=> count # 0 /\ count <= each /\ spent + count <= total
  BY <1>1 DEF instruction_limit
<1>3. CASE spent + count <= MaxCounter
  <2>1. Add64(spent, count) = spent + count
    BY <1>1, <1>3 DEF Add64
  <2> QED
    BY <1>1, <1>2, <1>3, <2>1 DEF Recordable, can_enter
<1>4. CASE spent + count > MaxCounter
  <2>1. Add64(spent, count) <= total /\ count # 0
    BY <1>1, <1>4 DEF Add64
  <2> QED
    BY <1>1, <1>2, <1>4, <2>1 DEF Recordable, can_enter
<1> QED
  BY <1>1, <1>3, <1>4

\* Recording keeps the statistics well typed.
LEMMA RecordedType ==
    ASSUME NEW statistic \in ExecutionStatistics,
           NEW refused \in Refusals, refused.reason \in JitRefusalReasons,
           NEW execution \in InterpretedBlocks
    PROVE  Recorded(refused, execution, statistic) \in ExecutionStatistics
<1> DEFINE n == execution.instruction_count
<1>1. n \in 0..MaxCounter
  BY WidthAssumption DEF InterpretedBlocks
<1>2. 1 \in 0..MaxCounter \/ MaxCounter = 0
  BY WidthAssumption
<1>3. \A a \in 0..MaxCounter : Add64(a, n) \in 0..MaxCounter
  BY <1>1, Add64Counter
<1>4. \A a \in 0..MaxCounter : Add64(a, 1) \in 0..MaxCounter
  BY WidthAssumption DEF Add64
<1> QED
  BY <1>3, <1>4 DEF Recorded, ExecutionStatistics

-----------------------------------------------------------------------------
(***************************************************************************)
(* The inductive invariant                                                 *)
(***************************************************************************)

Built == phase \notin {"unbuilt", "rejected"}

\* Where control is says what has been checked on the way there.
ControlInv ==
    /\ Built => Constructible
    /\ ~Built => backend = NoWork
    /\ Running => dispatch <= maximum_dispatches
    /\ Running /\ phase # "loop" => dispatch < maximum_dispatches

\* An order to interpret is given for a known reason, with a block to spare.
OrderInv ==
    phase = "in_fallback" =>
        /\ refusal.reason \in JitRefusalReasons
        /\ statistics.fallback_blocks < configuration.fallback.maximum_blocks

\* What is recorded never passes the totals, whatever the backend reports.
RecordedWithinBudget ==
    /\ statistics.fallback_blocks <= configuration.fallback.maximum_blocks
    /\ statistics.fallback_instructions
            <= configuration.fallback.maximum_total_instructions

\* A run under way has no result yet.
PendingResult == Running => result = NoResult

IInv ==
    /\ TypeOK
    /\ ControlInv
    /\ OrderInv
    /\ LimitIsUsable
    /\ RecordedWithinBudget
    /\ AccountingExact
    /\ PendingResult
    /\ StopIsJustified

\* The initial states are well typed and satisfy the rest of the invariant.
LEMMA InitIInv == Init => IInv
<1> SUFFICES ASSUME Init PROVE IInv
  OBVIOUS
<1>1. TypeOK
  BY WidthAssumption, AddressAssumption, BoundAssumption
  DEF Init, TypeOK, ExecutionStatistics, NoStatistics, Phases, Refusals,
      DefaultRefusal, JitRefusalReasons, RunResults, NoResult, BackendTallies,
      NoWork
<1>2. ControlInv /\ OrderInv /\ LimitIsUsable
  BY DEF Init, ControlInv, OrderInv, LimitIsUsable, Built, Running
<1>3. RecordedWithinBudget
  BY ConfigurationAssumption
  DEF Init, RecordedWithinBudget, NoStatistics, RuntimeConfigurations,
      FallbackBudgets
<1>4. AccountingExact /\ PendingResult /\ StopIsJustified
  BY DEF Init, AccountingExact, PendingResult, StopIsJustified, NoStatistics,
         NoWork, NoResult
<1> QED
  BY <1>1, <1>2, <1>3, <1>4 DEF IInv

-----------------------------------------------------------------------------
(***************************************************************************)
(* Types.  Most actions leave a dispatch in one of three ways, so their    *)
(* effect on everything but the counters is proved once for each way.      *)
(***************************************************************************)

CountersTyped ==
    /\ statistics \in ExecutionStatistics
    /\ backend \in BackendTallies

ControlTyped ==
    /\ configuration \in Configurations
    /\ phase \in Phases
    /\ dispatch \in 0..MaxDispatches
    /\ maximum_dispatches \in 0..MaxDispatches
    /\ refusal \in Refusals
    /\ limit \in 0..MaxCount
    /\ result \in RunResults
    /\ base \in [blocks : Nat, offers : Nat]
    /\ runs \in 0..MaxRuns

\* The type invariant is its two halves.
LEMMA TypeParts == TypeOK <=> CountersTyped /\ ControlTyped
  BY DEF TypeOK, CountersTyped, ControlTyped

\* So it is after a step.
LEMMA TypePartsNext == TypeOK' <=> CountersTyped' /\ ControlTyped'
  BY DEF TypeOK, CountersTyped, ControlTyped

\* Going out of scope restores the typed defaults of refusal and limit.
LEMMA LeaveScopeType ==
    ASSUME ControlTyped, LeaveScope, phase' \in Phases, result' \in RunResults
    PROVE  ControlTyped'
  BY WidthAssumption, AddressAssumption
  DEF ControlTyped, LeaveScope, DefaultRefusal, Refusals, JitRefusalReasons
\* Leaving run with a result leaves the control variables typed.
LEMMA StopType ==
    ASSUME ControlTyped, NEW reason \in RunStopReasons,
           NEW guest_pc \in GuestAddresses, Stop(reason, guest_pc)
    PROVE  ControlTyped'
<1>1. phase' \in Phases /\ result' \in RunResults
  BY DEF Stop, Phases, RunResults
<1> QED
  BY <1>1, LeaveScopeType DEF Stop

\* So does calling the sink.
LEMMA NotifyType ==
    ASSUME ControlTyped, Notify
    PROVE  ControlTyped'
<1>1. phase' \in Phases /\ result' \in RunResults
  BY DEF Notify, Phases, ControlTyped
<1> QED
  BY <1>1, LeaveScopeType DEF Notify

\* So does an exception of a callee.
LEMMA UnwindType ==
    ASSUME TypeOK, Unwind, UNCHANGED backend
    PROVE  TypeOK'
<1>1. phase' \in Phases /\ result' \in RunResults
  BY DEF Unwind, Phases, TypeOK
<1>2. ControlTyped'
  BY <1>1, LeaveScopeType, TypeParts DEF Unwind
<1>3. CountersTyped'
  BY TypeParts DEF Unwind, CountersTyped
<1> QED
  BY <1>2, <1>3, TypePartsNext

\* The counters written after a JIT block.
LEMMA CountedType ==
    ASSUME NEW count \in Nat, NEW compiled \in BOOLEAN,
           statistics \in ExecutionStatistics
    PROVE  JitCounted(count, compiled) \in ExecutionStatistics
<1>1. /\ statistics.jit_blocks_executed + 1 \in Nat
      /\ statistics.jit_instructions_executed + count \in Nat
      /\ statistics.jit_blocks_compiled + 1 \in Nat
  BY DEF ExecutionStatistics
<1> QED
  BY <1>1 DEF JitCounted, ExecutionStatistics

\* The tallies after any reply that reports a count.
LEMMA TallyType ==
    ASSUME NEW count \in Nat, backend \in BackendTallies
    PROVE  /\ [backend EXCEPT !.jit_blocks = IF count = 0 THEN @ ELSE @ + 1,
                              !.jit_instructions = @ + count]
                    \in BackendTallies
           /\ [backend EXCEPT !.fallback_blocks = IF count = 0 THEN @ ELSE @ + 1,
                              !.fallback_instructions = @ + count]
                    \in BackendTallies
           /\ [backend EXCEPT !.diagnostic_blocks = IF count = 0 THEN @ ELSE @ + 1,
                              !.diagnostic_instructions = @ + count]
                    \in BackendTallies
<1>1. /\ backend.jit_blocks + 1 \in Nat
      /\ backend.jit_instructions + count \in Nat
      /\ backend.fallback_blocks + 1 \in Nat
      /\ backend.fallback_instructions + count \in Nat
      /\ backend.diagnostic_blocks + 1 \in Nat
      /\ backend.diagnostic_instructions + count \in Nat
  BY DEF BackendTallies
<1> QED
  BY <1>1 DEF BackendTallies

\* Every step keeps the types.
LEMMA TypeStep ==
    ASSUME TypeOK, ControlInv, [Next]_vars
    PROVE  TypeOK'
<1> USE TypeParts, TypePartsNext
<1>1. CASE Construct
  BY <1>1 DEF Construct, sessionVars, TypeOK, Phases
<1>2. CASE Run
  <2>1. CountersTyped'
    BY <1>2 DEF Run, CountersTyped
  <2>2. runs' \in 0..MaxRuns /\ maximum_dispatches' \in 0..MaxDispatches
        /\ dispatch' \in 0..MaxDispatches
    BY <1>2, BoundAssumption DEF Run, ControlTyped
  <2>3. base' \in [blocks : Nat, offers : Nat]
    BY <1>2 DEF Run, CountersTyped, BackendTallies, BlocksExecuted
  <2>4. result' \in RunResults /\ phase' \in Phases
    BY <1>2, AddressAssumption DEF Run, NoResult, RunResults, Phases
  <2> QED
    BY <1>2, <2>1, <2>2, <2>3, <2>4 DEF Run, ControlTyped
<1>3. CASE Exhaust
  <2>1. ControlTyped'
    BY <1>3, StopType, AddressAssumption DEF Exhaust, RunStopReasons
  <2> QED
    BY <1>3, <2>1 DEF Exhaust, CountersTyped
<1>4. CASE SinkReturns
  BY <1>4, BoundAssumption
  DEF SinkReturns, TypeOK, ControlInv, Running, Phases
<1>5. CASE SinkThrows
  BY <1>5, UnwindType DEF SinkThrows
<1>6. CASE BeginJitDispatch
  <2>1. CountersTyped'
    BY <1>6
    DEF BeginJitDispatch, CountersTyped, ExecutionStatistics, BackendTallies
<2> QED
    BY <1>6, <2>1 DEF BeginJitDispatch, ControlTyped, Phases
<1>7. ASSUME NEW guest_pc \in GuestAddresses, NEW count \in 0..MaxCount,
             NEW compiled \in BOOLEAN, JitExecutes(guest_pc, count, compiled)
      PROVE  TypeOK'
  <2>1. count \in Nat
    BY WidthAssumption
  <2>2. JitCounted(count, compiled) \in ExecutionStatistics
    BY <2>1, CountedType DEF CountersTyped
  <2>3. statistics' \in ExecutionStatistics
    BY <1>7, <2>2 DEF JitExecutes, CountersTyped
  <2>4. backend' \in BackendTallies
    BY <1>7, <2>1, TallyType DEF JitExecutes, CountersTyped
  <2>5. ControlTyped'
    BY <1>7, StopType, NotifyType DEF JitExecutes, RunStopReasons
  <2> QED
    BY <2>3, <2>4, <2>5 DEF CountersTyped
<1>8. ASSUME NEW refused \in Refusals, JitRefuses(refused)
      PROVE  TypeOK'
  <2>1. CountersTyped'
    BY <1>8 DEF JitRefuses, CountersTyped
  <2>2. CASE Stop("FallbackBudgetExceeded", refused.guest_pc)
    BY <2>1, <2>2, StopType DEF Refusals, RunStopReasons
  <2>3. CASE /\ refusal' = refused
             /\ limit' = instruction_limit(configuration.fallback, statistics)
             /\ phase' = "in_fallback"
             /\ UNCHANGED <<configuration, dispatch, maximum_dispatches, result,
                            base, runs>>
    <3>1. configuration.fallback \in FallbackBudgets
      BY ConfigurationAssumption DEF ControlTyped, RuntimeConfigurations
    <3>2. limit' \in 0..MaxCount
      BY <2>3, <3>1, LimitType DEF CountersTyped
    <3> QED
      BY <2>1, <2>3, <3>2 DEF ControlTyped, Phases
  <2> QED
    BY <1>8, <2>2, <2>3 DEF JitRefuses
<1>9. CASE JitExits
  <2>1. ControlTyped'
    BY <1>9, StopType, AddressAssumption DEF JitExits, RunStopReasons
  <2> QED
    BY <1>9, <2>1 DEF JitExits, CountersTyped
<1>10. ASSUME NEW guest_pc \in GuestAddresses, JitFaults(guest_pc)
       PROVE  TypeOK'
  <2>1. ControlTyped'
    BY <1>10, StopType DEF JitFaults, RunStopReasons
  <2> QED
    BY <1>10, <2>1 DEF JitFaults, CountersTyped
<1>11. CASE JitThrows
  BY <1>11, UnwindType DEF JitThrows
<1>12. ASSUME NEW execution \in InterpretedBlocks, FallbackReturns(execution)
       PROVE  TypeOK'
  <2>1. backend' \in BackendTallies
    <3>1. execution.instruction_count \in Nat
      BY WidthAssumption DEF InterpretedBlocks
    <3> QED
      BY <1>12, <3>1, TallyType DEF FallbackReturns, CountersTyped
  <2>2. statistics' \in ExecutionStatistics
    BY <1>12, RecordedType
    DEF FallbackReturns, Recordable, CountersTyped, ControlTyped
<2>3. ControlTyped'
    BY <1>12, StopType, NotifyType
    DEF FallbackReturns, RunStopReasons, ControlTyped, Refusals
<2> QED
    BY <2>1, <2>2, <2>3 DEF CountersTyped
<1>13. CASE FallbackThrows
  BY <1>13, UnwindType DEF FallbackThrows
<1>14. CASE BeginDiagnosticDispatch
  BY <1>14 DEF BeginDiagnosticDispatch, sessionVars, TypeOK, Phases
<1>15. ASSUME NEW execution \in InterpretedBlocks, DiagnosticReturns(execution)
       PROVE  TypeOK'
  <2>1. /\ execution.instruction_count \in Nat
        /\ execution.guest_pc \in GuestAddresses
    BY WidthAssumption DEF InterpretedBlocks
  <2>2. backend' \in BackendTallies
    BY <1>15, <2>1, TallyType DEF DiagnosticReturns, CountersTyped
  <2>3. statistics' \in ExecutionStatistics
    <3>1. /\ statistics.diagnostic_interpreter_blocks + 1 \in Nat
          /\ statistics.diagnostic_interpreter_instructions
                + execution.instruction_count \in Nat
      BY <2>1 DEF CountersTyped, ExecutionStatistics
    <3> QED
      BY <1>15, <3>1 DEF DiagnosticReturns, CountersTyped, ExecutionStatistics
  <2>4. ControlTyped'
    BY <1>15, <2>1, StopType, NotifyType DEF DiagnosticReturns, RunStopReasons
  <2> QED
    BY <2>2, <2>3, <2>4 DEF CountersTyped
<1>16. CASE DiagnosticThrows
  BY <1>16, UnwindType DEF DiagnosticThrows
<1>17. CASE UNCHANGED vars
  BY <1>17 DEF vars, TypeOK
<1> QED
  BY <1>1, <1>2, <1>3, <1>4, <1>5, <1>6, <1>7, <1>8, <1>9, <1>10, <1>11, <1>12,
     <1>13, <1>14, <1>15, <1>16, <1>17
  DEF Next, SessionSteps, BackendReplies, SinkReplies
-----------------------------------------------------------------------------
(***************************************************************************)
(* Control                                                                 *)
(***************************************************************************)

\* Every step keeps what is known of where control is.
LEMMA ControlStep ==
    ASSUME TypeOK, ControlInv, [Next]_vars
    PROVE  ControlInv'
<1>1. CASE Construct
  BY <1>1, ControlInv
  DEF Construct, sessionVars, ControlInv, Built, Running, Constructible
<1>2. CASE Run
  BY <1>2, ControlInv, TypeOK
  DEF Run, ControlInv, Built, Running, TypeOK, Constructible
<1>3. CASE Exhaust
  BY <1>3, ControlInv
  DEF Exhaust, Stop, LeaveScope, ControlInv, Built, Running, Constructible
<1>4. CASE SinkReturns
  BY <1>4, ControlInv, TypeOK
  DEF SinkReturns, ControlInv, Built, Running, TypeOK, Constructible
<1>5. CASE SinkThrows
  BY <1>5, ControlInv
  DEF SinkThrows, Unwind, LeaveScope, ControlInv, Built, Running,
      Constructible
<1>6. CASE BeginJitDispatch
  BY <1>6, ControlInv, TypeOK
  DEF BeginJitDispatch, ControlInv, Built, Running, TypeOK, Constructible
<1>7. ASSUME NEW guest_pc \in GuestAddresses, NEW count \in 0..MaxCount,
             NEW compiled \in BOOLEAN, JitExecutes(guest_pc, count, compiled)
      PROVE  ControlInv'
  BY <1>7, ControlInv, TypeOK
  DEF JitExecutes, Stop, Notify, LeaveScope, ControlInv, Built, Running,
      TypeOK, Constructible
<1>8. ASSUME NEW refused \in Refusals, JitRefuses(refused)
      PROVE  ControlInv'
  BY <1>8, ControlInv, TypeOK
  DEF JitRefuses, Stop, LeaveScope, ControlInv, Built, Running, TypeOK,
      Constructible
<1>9. CASE JitExits
  BY <1>9, ControlInv
  DEF JitExits, Stop, LeaveScope, ControlInv, Built, Running, Constructible
<1>10. ASSUME NEW guest_pc \in GuestAddresses, JitFaults(guest_pc)
       PROVE  ControlInv'
  BY <1>10, ControlInv
  DEF JitFaults, Stop, LeaveScope, ControlInv, Built, Running, Constructible
<1>11. CASE JitThrows
  BY <1>11, ControlInv
  DEF JitThrows, Unwind, LeaveScope, ControlInv, Built, Running, Constructible
<1>12. ASSUME NEW execution \in InterpretedBlocks, FallbackReturns(execution)
       PROVE  ControlInv'
  BY <1>12, ControlInv, TypeOK
  DEF FallbackReturns, Stop, Notify, LeaveScope, ControlInv, Built, Running,
      TypeOK, Constructible
<1>13. CASE FallbackThrows
  BY <1>13, ControlInv
  DEF FallbackThrows, Unwind, LeaveScope, ControlInv, Built, Running,
      Constructible
<1>14. CASE BeginDiagnosticDispatch
  BY <1>14, ControlInv, TypeOK
  DEF BeginDiagnosticDispatch, sessionVars, ControlInv, Built, Running,
      TypeOK, Constructible
<1>15. ASSUME NEW execution \in InterpretedBlocks, DiagnosticReturns(execution)
       PROVE  ControlInv'
  BY <1>15, ControlInv, TypeOK
  DEF DiagnosticReturns, Stop, Notify, LeaveScope, ControlInv, Built, Running,
      TypeOK, Constructible
<1>16. CASE DiagnosticThrows
  BY <1>16, ControlInv
  DEF DiagnosticThrows, Unwind, LeaveScope, ControlInv, Built, Running,
      Constructible
<1>17. CASE UNCHANGED vars
  BY <1>17, ControlInv, TypeOK
  DEF vars, ControlInv, Built, Running, TypeOK, Constructible
<1> QED
  BY <1>1, <1>2, <1>3, <1>4, <1>5, <1>6, <1>7, <1>8, <1>9, <1>10, <1>11,
     <1>12, <1>13, <1>14, <1>15, <1>16, <1>17
  DEF Next, SessionSteps, BackendReplies, SinkReplies
-----------------------------------------------------------------------------
(***************************************************************************)
(* Orders to the interpreter                                               *)
(***************************************************************************)

\* What the ledger lemmas ask of the session's state.
LEMMA LedgerFacts ==
    ASSUME TypeOK
    PROVE  /\ configuration.fallback \in FallbackBudgets
           /\ configuration.diagnostic_instructions_per_dispatch \in 0..MaxCount
           /\ statistics \in ExecutionStatistics
           /\ statistics.fallback_blocks \in 0..MaxCounter
           /\ statistics.fallback_instructions \in 0..MaxCounter
  BY ConfigurationAssumption
  DEF TypeOK, RuntimeConfigurations, ExecutionStatistics
\* Only a refusal that can enter opens an order, and it carries a usable limit.
LEMMA OrderStep ==
    ASSUME TypeOK, ControlInv, OrderInv, LimitIsUsable, [Next]_vars
    PROVE  OrderInv' /\ LimitIsUsable'
<1>1. ASSUME NEW refused \in Refusals, JitRefuses(refused)
      PROVE  OrderInv' /\ LimitIsUsable'
  <2>1. CASE Stop("FallbackBudgetExceeded", refused.guest_pc)
    BY <2>1 DEF Stop, OrderInv, LimitIsUsable
  <2>2. CASE ~Stop("FallbackBudgetExceeded", refused.guest_pc)
    <3>1. /\ can_enter(configuration.fallback, refused, statistics)
          /\ refusal' = refused
          /\ limit' = instruction_limit(configuration.fallback, statistics)
          /\ UNCHANGED <<configuration, statistics>>
      BY <1>1, <2>2 DEF JitRefuses
    <3>2. ValidBudget(configuration.fallback)
      BY <1>1 DEF JitRefuses, ControlInv, Built, Constructible
    <3>3. LimitIsUsable'
      BY <3>1, <3>2, LedgerFacts, LimitUsable DEF LimitIsUsable
    <3>4. OrderInv'
      BY <3>1 DEF OrderInv, can_enter
    <3> QED
      BY <3>3, <3>4
  <2> QED
    BY <2>1, <2>2
<1>2. CASE phase' # "in_fallback"
  BY <1>2 DEF OrderInv, LimitIsUsable
<1>3. CASE UNCHANGED vars
  BY <1>3 DEF vars, OrderInv, LimitIsUsable
<1>4. ASSUME Next, phase' = "in_fallback"
      PROVE  \E refused \in Refusals : JitRefuses(refused)
  BY <1>4
  DEF Next, SessionSteps, BackendReplies, SinkReplies, Construct, Run,
      Exhaust, BeginJitDispatch, BeginDiagnosticDispatch, SinkReturns,
      SinkThrows, JitExecutes, JitExits, JitFaults, JitThrows,
      FallbackReturns, FallbackThrows, DiagnosticReturns, DiagnosticThrows,
      Stop, Notify, Unwind
<1> QED
  BY <1>1, <1>2, <1>3, <1>4

\* A conforming backend's block is always recorded, and exactly.
LEMMA ConformingRecorded ==
    ASSUME TypeOK, OrderInv, LimitIsUsable, phase = "in_fallback",
           NEW execution \in InterpretedBlocks, WithinOrder(execution)
    PROVE  /\ Recordable(configuration.fallback, refusal, execution, statistics)
           /\ Add64(statistics.fallback_instructions, execution.instruction_count)
                = statistics.fallback_instructions + execution.instruction_count
<1>1. /\ limit \in 1..configuration.fallback.maximum_instructions_per_block
      /\ statistics.fallback_instructions + limit
            <= configuration.fallback.maximum_total_instructions
      /\ refusal.reason \in JitRefusalReasons
      /\ refusal \in Refusals
  BY DEF LimitIsUsable, OrderInv, TypeOK
<1>2. /\ execution.guest_pc = refusal.guest_pc
      /\ execution.instruction_count \in 1..limit
  BY DEF WithinOrder
<1>3. Recordable(configuration.fallback, refusal, execution, statistics)
  BY <1>1, <1>2, LedgerFacts, WithinLimitRecordable
<1>4. /\ execution.instruction_count \in 0..MaxCounter
      /\ statistics.fallback_instructions + execution.instruction_count
            <= MaxCounter
  BY <1>1, <1>2, LedgerFacts, WidthAssumption DEF FallbackBudgets
<1> QED
  BY <1>3, <1>4, LedgerFacts, Add64Counter

-----------------------------------------------------------------------------
(***************************************************************************)
(* Totals and accounting                                                   *)
(***************************************************************************)

\* Every step keeps what is recorded within the totals.
LEMMA BudgetStep ==
    ASSUME TypeOK, OrderInv, RecordedWithinBudget, [Next]_vars
    PROVE  RecordedWithinBudget'
<1>1. CASE Construct
  BY <1>1, RecordedWithinBudget
  DEF Construct, sessionVars, RecordedWithinBudget
<1>2. CASE Run
  BY <1>2, RecordedWithinBudget
  DEF Run, RecordedWithinBudget
<1>3. CASE Exhaust
  BY <1>3, RecordedWithinBudget
  DEF Exhaust, Stop, LeaveScope, RecordedWithinBudget
<1>4. CASE SinkReturns
  BY <1>4, RecordedWithinBudget
  DEF SinkReturns, RecordedWithinBudget
<1>5. CASE SinkThrows
  BY <1>5, RecordedWithinBudget
  DEF SinkThrows, Unwind, LeaveScope, RecordedWithinBudget
<1>6. CASE BeginJitDispatch
  BY <1>6, RecordedWithinBudget, TypeOK
  DEF BeginJitDispatch, RecordedWithinBudget, TypeOK, ExecutionStatistics
<1>7. ASSUME NEW guest_pc \in GuestAddresses, NEW count \in 0..MaxCount,
             NEW compiled \in BOOLEAN, JitExecutes(guest_pc, count, compiled)
      PROVE  RecordedWithinBudget'
  BY <1>7, RecordedWithinBudget, TypeOK
  DEF JitExecutes, Stop, Notify, LeaveScope, RecordedWithinBudget, JitCounted,
      TypeOK, ExecutionStatistics
<1>8. ASSUME NEW refused \in Refusals, JitRefuses(refused)
      PROVE  RecordedWithinBudget'
  BY <1>8, RecordedWithinBudget
  DEF JitRefuses, Stop, LeaveScope, RecordedWithinBudget
<1>9. CASE JitExits
  BY <1>9, RecordedWithinBudget
  DEF JitExits, Stop, LeaveScope, RecordedWithinBudget
<1>10. ASSUME NEW guest_pc \in GuestAddresses, JitFaults(guest_pc)
       PROVE  RecordedWithinBudget'
  BY <1>10, RecordedWithinBudget
  DEF JitFaults, Stop, LeaveScope, RecordedWithinBudget
<1>11. CASE JitThrows
  BY <1>11, RecordedWithinBudget
  DEF JitThrows, Unwind, LeaveScope, RecordedWithinBudget
<1>12. ASSUME NEW execution \in InterpretedBlocks, FallbackReturns(execution)
       PROVE  RecordedWithinBudget'
  <2>1. CASE statistics' = statistics
    BY <1>12, <2>1
    DEF FallbackReturns, Stop, Notify, LeaveScope, RecordedWithinBudget
<2>2. CASE /\ Recordable(configuration.fallback, refusal, execution, statistics)
             /\ statistics' = Recorded(refusal, execution, statistics)
    <3>1. Add64(statistics.fallback_blocks, 1) = statistics.fallback_blocks + 1
      BY <1>12, LedgerFacts, WidthAssumption
      DEF FallbackReturns, OrderInv, FallbackBudgets, Add64
<3>2. /\ statistics'.fallback_blocks = statistics.fallback_blocks + 1
          /\ statistics'.fallback_instructions =
                Add64(statistics.fallback_instructions,
                      execution.instruction_count)
      BY <2>2, <3>1, LedgerFacts DEF Recorded, ExecutionStatistics
    <3> QED
      BY <1>12, <2>2, <3>2, LedgerFacts
      DEF FallbackReturns, Stop, Notify, LeaveScope, Recordable, OrderInv,
          RecordedWithinBudget, FallbackBudgets
<2> QED
    BY <1>12, <2>1, <2>2 DEF FallbackReturns
<1>13. CASE FallbackThrows
  BY <1>13, RecordedWithinBudget
  DEF FallbackThrows, Unwind, LeaveScope, RecordedWithinBudget
<1>14. CASE BeginDiagnosticDispatch
  BY <1>14, RecordedWithinBudget
  DEF BeginDiagnosticDispatch, sessionVars, RecordedWithinBudget
<1>15. ASSUME NEW execution \in InterpretedBlocks, DiagnosticReturns(execution)
       PROVE  RecordedWithinBudget'
  BY <1>15, RecordedWithinBudget, TypeOK
  DEF DiagnosticReturns, Stop, Notify, LeaveScope, RecordedWithinBudget,
      TypeOK, ExecutionStatistics
<1>16. CASE DiagnosticThrows
  BY <1>16, RecordedWithinBudget
  DEF DiagnosticThrows, Unwind, LeaveScope, RecordedWithinBudget
<1>17. CASE UNCHANGED vars
  BY <1>17, RecordedWithinBudget
  DEF vars, RecordedWithinBudget
<1> QED
  BY <1>1, <1>2, <1>3, <1>4, <1>5, <1>6, <1>7, <1>8, <1>9, <1>10, <1>11,
     <1>12, <1>13, <1>14, <1>15, <1>16, <1>17
  DEF Next, SessionSteps, BackendReplies, SinkReplies
\* Every step of a session with a conforming backend records what it executed.
LEMMA AccountingStep ==
    ASSUME TypeOK, OrderInv, LimitIsUsable, AccountingExact, [Next]_vars
    PROVE  AccountingExact'
<1>1. CASE Construct
  BY <1>1, AccountingExact
  DEF Construct, sessionVars, AccountingExact
<1>2. CASE Run
  BY <1>2, AccountingExact
  DEF Run, AccountingExact
<1>3. CASE Exhaust
  BY <1>3, AccountingExact
  DEF Exhaust, Stop, LeaveScope, AccountingExact
<1>4. CASE SinkReturns
  BY <1>4, AccountingExact
  DEF SinkReturns, AccountingExact
<1>5. CASE SinkThrows
  BY <1>5, AccountingExact
  DEF SinkThrows, Unwind, LeaveScope, AccountingExact
<1>6. CASE BeginJitDispatch
  BY <1>6, AccountingExact, TypeOK
  DEF BeginJitDispatch, AccountingExact, TypeOK, ExecutionStatistics,
      BackendTallies
<1>7. ASSUME NEW guest_pc \in GuestAddresses, NEW count \in 0..MaxCount,
             NEW compiled \in BOOLEAN, JitExecutes(guest_pc, count, compiled)
      PROVE  AccountingExact'
  <2>1. CASE BackendConforms
    <3>1. /\ statistics' = JitCounted(count, compiled)
          /\ count # 0
      BY <1>7, <2>1 DEF JitExecutes
    <3> QED
      BY <1>7, <3>1, AccountingExact, TypeOK
      DEF JitExecutes, JitCounted, AccountingExact, TypeOK,
          ExecutionStatistics, BackendTallies
<2> QED
    BY <2>1 DEF AccountingExact
<1>8. ASSUME NEW refused \in Refusals, JitRefuses(refused)
      PROVE  AccountingExact'
  BY <1>8, AccountingExact
  DEF JitRefuses, Stop, LeaveScope, AccountingExact
<1>9. CASE JitExits
  BY <1>9, AccountingExact
  DEF JitExits, Stop, LeaveScope, AccountingExact
<1>10. ASSUME NEW guest_pc \in GuestAddresses, JitFaults(guest_pc)
       PROVE  AccountingExact'
  BY <1>10, AccountingExact
  DEF JitFaults, Stop, LeaveScope, AccountingExact
<1>11. CASE JitThrows
  BY <1>11, AccountingExact
  DEF JitThrows, Unwind, LeaveScope, AccountingExact
<1>12. ASSUME NEW execution \in InterpretedBlocks, FallbackReturns(execution)
       PROVE  AccountingExact'
  <2>1. CASE BackendConforms
    <3>1. /\ phase = "in_fallback"
          /\ WithinOrder(execution)
          /\ execution.instruction_count # 0
      BY <1>12, <2>1, TypeOK, WidthAssumption
      DEF FallbackReturns, WithinOrder, TypeOK
<3>2. /\ Recordable(configuration.fallback, refusal, execution, statistics)
          /\ Add64(statistics.fallback_instructions,
                   execution.instruction_count)
                = statistics.fallback_instructions + execution.instruction_count
      BY <3>1, ConformingRecorded
    <3>3. Add64(statistics.fallback_blocks, 1) = statistics.fallback_blocks + 1
      BY <3>1, LedgerFacts, WidthAssumption
      DEF OrderInv, FallbackBudgets, Add64
<3>4. statistics' = Recorded(refusal, execution, statistics)
      BY <1>12, <3>2 DEF FallbackReturns
    <3> QED
      BY <1>12, <3>1, <3>2, <3>3, <3>4, AccountingExact, TypeOK
      DEF FallbackReturns, Recorded, AccountingExact, TypeOK,
          ExecutionStatistics, BackendTallies
<2> QED
    BY <2>1 DEF AccountingExact
<1>13. CASE FallbackThrows
  BY <1>13, AccountingExact
  DEF FallbackThrows, Unwind, LeaveScope, AccountingExact
<1>14. CASE BeginDiagnosticDispatch
  BY <1>14, AccountingExact
  DEF BeginDiagnosticDispatch, sessionVars, AccountingExact
<1>15. ASSUME NEW execution \in InterpretedBlocks, DiagnosticReturns(execution)
       PROVE  AccountingExact'
  <2>1. CASE BackendConforms
    <3>1. /\ execution.instruction_count # 0
          /\ statistics' =
                [statistics EXCEPT
                    !.diagnostic_interpreter_blocks = @ + 1,
                    !.diagnostic_interpreter_instructions =
                        @ + execution.instruction_count]
      BY <1>15, <2>1, LedgerFacts, WidthAssumption
      DEF DiagnosticReturns, DiagnosticLimit
<3> QED
      BY <1>15, <3>1, AccountingExact, TypeOK
      DEF DiagnosticReturns, AccountingExact, TypeOK, ExecutionStatistics,
          BackendTallies
<2> QED
    BY <2>1 DEF AccountingExact
<1>16. CASE DiagnosticThrows
  BY <1>16, AccountingExact
  DEF DiagnosticThrows, Unwind, LeaveScope, AccountingExact
<1>17. CASE UNCHANGED vars
  BY <1>17, AccountingExact
  DEF vars, AccountingExact
<1> QED
  BY <1>1, <1>2, <1>3, <1>4, <1>5, <1>6, <1>7, <1>8, <1>9, <1>10, <1>11,
     <1>12, <1>13, <1>14, <1>15, <1>16, <1>17
  DEF Next, SessionSteps, BackendReplies, SinkReplies
-----------------------------------------------------------------------------
(***************************************************************************)
(* Results                                                                 *)
(***************************************************************************)

\* Every step keeps the result pending while a run is under way.
LEMMA PendingStep ==
    ASSUME PendingResult, [Next]_vars
    PROVE  PendingResult'
<1>1. CASE Construct
  BY <1>1, PendingResult
  DEF Construct, sessionVars, PendingResult, Running
<1>2. CASE Run
  BY <1>2, PendingResult
  DEF Run, PendingResult, Running
<1>3. CASE Exhaust
  BY <1>3, PendingResult
  DEF Exhaust, Stop, LeaveScope, PendingResult, Running
<1>4. CASE SinkReturns
  BY <1>4, PendingResult
  DEF SinkReturns, PendingResult, Running
<1>5. CASE SinkThrows
  BY <1>5, PendingResult
  DEF SinkThrows, Unwind, LeaveScope, PendingResult, Running
<1>6. CASE BeginJitDispatch
  BY <1>6, PendingResult
  DEF BeginJitDispatch, PendingResult, Running
<1>7. ASSUME NEW guest_pc \in GuestAddresses, NEW count \in 0..MaxCount,
             NEW compiled \in BOOLEAN, JitExecutes(guest_pc, count, compiled)
      PROVE  PendingResult'
  BY <1>7, PendingResult
  DEF JitExecutes, Stop, Notify, LeaveScope, PendingResult, Running
<1>8. ASSUME NEW refused \in Refusals, JitRefuses(refused)
      PROVE  PendingResult'
  BY <1>8, PendingResult
  DEF JitRefuses, Stop, LeaveScope, PendingResult, Running
<1>9. CASE JitExits
  BY <1>9, PendingResult
  DEF JitExits, Stop, LeaveScope, PendingResult, Running
<1>10. ASSUME NEW guest_pc \in GuestAddresses, JitFaults(guest_pc)
       PROVE  PendingResult'
  BY <1>10, PendingResult
  DEF JitFaults, Stop, LeaveScope, PendingResult, Running
<1>11. CASE JitThrows
  BY <1>11, PendingResult
  DEF JitThrows, Unwind, LeaveScope, PendingResult, Running
<1>12. ASSUME NEW execution \in InterpretedBlocks, FallbackReturns(execution)
       PROVE  PendingResult'
  BY <1>12, PendingResult
  DEF FallbackReturns, Stop, Notify, LeaveScope, PendingResult, Running
<1>13. CASE FallbackThrows
  BY <1>13, PendingResult
  DEF FallbackThrows, Unwind, LeaveScope, PendingResult, Running
<1>14. CASE BeginDiagnosticDispatch
  BY <1>14, PendingResult
  DEF BeginDiagnosticDispatch, sessionVars, PendingResult, Running
<1>15. ASSUME NEW execution \in InterpretedBlocks, DiagnosticReturns(execution)
       PROVE  PendingResult'
  BY <1>15, PendingResult
  DEF DiagnosticReturns, Stop, Notify, LeaveScope, PendingResult, Running
<1>16. CASE DiagnosticThrows
  BY <1>16, PendingResult
  DEF DiagnosticThrows, Unwind, LeaveScope, PendingResult, Running
<1>17. CASE UNCHANGED vars
  BY <1>17, PendingResult
  DEF vars, PendingResult, Running
<1> QED
  BY <1>1, <1>2, <1>3, <1>4, <1>5, <1>6, <1>7, <1>8, <1>9, <1>10, <1>11,
     <1>12, <1>13, <1>14, <1>15, <1>16, <1>17
  DEF Next, SessionSteps, BackendReplies, SinkReplies
\* Every step keeps the stops of a conforming backend justified.
LEMMA StopStep ==
    ASSUME TypeOK, OrderInv, LimitIsUsable, RecordedWithinBudget, PendingResult,
           StopIsJustified, [Next]_vars
    PROVE  StopIsJustified'
<1>1. CASE Construct
  BY <1>1, StopIsJustified
  DEF Construct, sessionVars, StopIsJustified
<1>2. CASE Run
  BY <1>2, StopIsJustified
  DEF Run, StopIsJustified, NoResult
<1>3. CASE Exhaust
  BY <1>3
  DEF Exhaust, Stop, LeaveScope, StopIsJustified
<1>4. CASE SinkReturns
  BY <1>4, StopIsJustified
  DEF SinkReturns, StopIsJustified
<1>5. CASE SinkThrows
  BY <1>5, StopIsJustified
  DEF SinkThrows, Unwind, LeaveScope, StopIsJustified
<1>6. CASE BeginJitDispatch
  BY <1>6, StopIsJustified, TypeOK
  DEF BeginJitDispatch, StopIsJustified, TypeOK, ExecutionStatistics
<1>7. ASSUME NEW guest_pc \in GuestAddresses, NEW count \in 0..MaxCount,
             NEW compiled \in BOOLEAN, JitExecutes(guest_pc, count, compiled)
      PROVE  StopIsJustified'
  <2>1. CASE BackendConforms
    <3>1. result' = result /\ phase = "in_jit"
      BY <1>7, <2>1 DEF JitExecutes, Notify
    <3> QED
      BY <3>1 DEF PendingResult, Running, NoResult, StopIsJustified
  <2> QED
    BY <2>1 DEF StopIsJustified
<1>8. ASSUME NEW refused \in Refusals, JitRefuses(refused)
      PROVE  StopIsJustified'
  <2>1. CASE BackendConforms /\ Stop("FallbackBudgetExceeded", refused.guest_pc)
    <3>1. \/ statistics.fallback_blocks >= configuration.fallback.maximum_blocks
          \/ statistics.fallback_instructions
                >= configuration.fallback.maximum_total_instructions
      BY <1>8, <2>1, LedgerFacts
      DEF JitRefuses, can_enter, FallbackBudgets, Stop
<3>2. \/ statistics.fallback_blocks = configuration.fallback.maximum_blocks
          \/ statistics.fallback_instructions
                = configuration.fallback.maximum_total_instructions
      BY <3>1, LedgerFacts DEF RecordedWithinBudget, FallbackBudgets
    <3> QED
      BY <1>8, <2>1, <3>2 DEF JitRefuses, Stop, LeaveScope, StopIsJustified
  <2>2. CASE ~Stop("FallbackBudgetExceeded", refused.guest_pc)
    BY <1>8, <2>2, StopIsJustified DEF JitRefuses, StopIsJustified
  <2> QED
    BY <2>1, <2>2 DEF StopIsJustified
<1>9. CASE JitExits
  BY <1>9
  DEF JitExits, Stop, LeaveScope, StopIsJustified
<1>10. ASSUME NEW guest_pc \in GuestAddresses, JitFaults(guest_pc)
       PROVE  StopIsJustified'
  BY <1>10
  DEF JitFaults, Stop, LeaveScope, StopIsJustified
<1>11. CASE JitThrows
  BY <1>11, StopIsJustified
  DEF JitThrows, Unwind, LeaveScope, StopIsJustified
<1>12. ASSUME NEW execution \in InterpretedBlocks, FallbackReturns(execution)
       PROVE  StopIsJustified'
  <2>1. CASE BackendConforms
    <3>1. Recordable(configuration.fallback, refusal, execution, statistics)
      BY <1>12, <2>1, ConformingRecorded DEF FallbackReturns
    <3>2. /\ result' = result
          /\ phase = "in_fallback"
      BY <1>12, <3>1 DEF FallbackReturns, Notify
    <3>3. result.reason = "None"
      BY <3>2 DEF PendingResult, Running, NoResult
    <3> QED
      BY <3>2, <3>3 DEF StopIsJustified
  <2> QED
    BY <2>1 DEF StopIsJustified
<1>13. CASE FallbackThrows
  BY <1>13, StopIsJustified
  DEF FallbackThrows, Unwind, LeaveScope, StopIsJustified
<1>14. CASE BeginDiagnosticDispatch
  BY <1>14, StopIsJustified
  DEF BeginDiagnosticDispatch, sessionVars, StopIsJustified
<1>15. ASSUME NEW execution \in InterpretedBlocks, DiagnosticReturns(execution)
       PROVE  StopIsJustified'
  <2>1. CASE BackendConforms
    <3>1. result' = result /\ phase = "in_diagnostic"
      BY <1>15, <2>1, LedgerFacts, WidthAssumption
      DEF DiagnosticReturns, DiagnosticLimit, Notify
<3> QED
      BY <3>1 DEF PendingResult, Running, NoResult, StopIsJustified
  <2> QED
    BY <2>1 DEF StopIsJustified
<1>16. CASE DiagnosticThrows
  BY <1>16, StopIsJustified
  DEF DiagnosticThrows, Unwind, LeaveScope, StopIsJustified
<1>17. CASE UNCHANGED vars
  BY <1>17, StopIsJustified
  DEF vars, StopIsJustified
<1> QED
  BY <1>1, <1>2, <1>3, <1>4, <1>5, <1>6, <1>7, <1>8, <1>9, <1>10, <1>11,
     <1>12, <1>13, <1>14, <1>15, <1>16, <1>17
  DEF Next, SessionSteps, BackendReplies, SinkReplies
-----------------------------------------------------------------------------
(***************************************************************************)
(* The invariant holds in every reachable state                            *)
(***************************************************************************)

\* The inductive invariant is kept by every step.
LEMMA IInvStep == IInv /\ [Next]_vars => IInv'
  BY TypeStep, ControlStep, OrderStep, BudgetStep, AccountingStep, PendingStep,
     StopStep
  DEF IInv
\* So it holds in every state.
LEMMA IInvHolds == Spec => []IInv
<1>1. Init => IInv
  BY InitIInv
<1>2. IInv /\ [Next]_vars => IInv'
  BY IInvStep
<1> QED
  BY <1>1, <1>2, PTL DEF Spec

\* The types of execution_types.h and the phases of the dispatch loop.
THEOREM TypeCorrect == Spec => []TypeOK
  BY IInvHolds, PTL DEF IInv

\* fallback_ledger.cpp: a conforming backend interprets within both totals.
THEOREM BudgetSafe == Spec => []BudgetRespected
<1>1. IInv => BudgetRespected
  BY DEF IInv, BudgetRespected, AccountingExact, RecordedWithinBudget
<1> QED
  BY <1>1, IInvHolds, PTL

\* execution_session.cpp: the statistics are the work a conforming backend did.
THEOREM AccountingCorrect == Spec => []AccountingExact
  BY IInvHolds, PTL DEF IInv

\* What README.md:17-19 says, that a fallback is recorded before the JIT is called
\* again, is so with a backend that conforms: over all runs, and after any end of
\* the one before.
THEOREM RecordedIfConforming ==
    ASSUME BackendConforms PROVE Spec => []RecordedBeforeJit
<1>1. IInv => RecordedBeforeJit
  BY DEF IInv, AccountingExact, RecordedBeforeJit
<1> QED
  BY <1>1, IInvHolds, PTL

\* execution_session.cpp: a conforming backend is stopped by a spent budget only.
THEOREM StopsJustified == Spec => []StopIsJustified
  BY IInvHolds, PTL DEF IInv

\* fallback_ledger.cpp: instruction_limit is never 0 nor too large when used.
THEOREM LimitsUsable == Spec => []LimitIsUsable
  BY IInvHolds, PTL DEF IInv

-----------------------------------------------------------------------------
(***************************************************************************)
(* One dispatch, one block                                                 *)
(***************************************************************************)

\* The counters a run is measured by are numbers.
LEMMA CounterFacts ==
    ASSUME TypeOK
    PROVE  /\ backend.offers \in Nat
           /\ backend.jit_blocks \in Nat
           /\ backend.fallback_blocks \in Nat
           /\ backend.diagnostic_blocks \in Nat
           /\ base.blocks \in Nat
           /\ base.offers \in Nat
           /\ dispatch \in Nat
           /\ maximum_dispatches \in Nat
  BY BoundAssumption DEF TypeOK, BackendTallies

\* Every step keeps one block to a dispatch.
LEMMA DispatchStep ==
    ASSUME TypeOK, ControlInv, PendingResult, DispatchAccounting, [Next]_vars
    PROVE  DispatchAccounting'
<1>1. CASE Construct
  BY <1>1, DispatchAccounting
  DEF Construct, sessionVars, DispatchAccounting, BlocksThisRun,
      OffersThisRun, BlocksExecuted, Running, PendingResult, NoResult
<1>2. CASE Run
  BY <1>2, DispatchAccounting, PendingResult, CounterFacts
  DEF Run, DispatchAccounting, BlocksThisRun, OffersThisRun, BlocksExecuted,
      Running, PendingResult, NoResult
<1>3. CASE Exhaust
  BY <1>3, DispatchAccounting, PendingResult, CounterFacts, ControlInv
  DEF Exhaust, Stop, LeaveScope, DispatchAccounting, BlocksThisRun,
      OffersThisRun, BlocksExecuted, Running, PendingResult, NoResult,
      ControlInv
<1>4. CASE SinkReturns
  BY <1>4, DispatchAccounting, PendingResult, CounterFacts
  DEF SinkReturns, DispatchAccounting, BlocksThisRun, OffersThisRun,
      BlocksExecuted, Running, PendingResult, NoResult
<1>5. CASE SinkThrows
  BY <1>5, DispatchAccounting
  DEF SinkThrows, Unwind, LeaveScope, DispatchAccounting, BlocksThisRun,
      OffersThisRun, BlocksExecuted, Running, PendingResult, NoResult
<1>6. CASE BeginJitDispatch
  BY <1>6, DispatchAccounting, PendingResult, CounterFacts, TypeOK
  DEF BeginJitDispatch, DispatchAccounting, BlocksThisRun, OffersThisRun,
      BlocksExecuted, Running, PendingResult, NoResult, TypeOK, BackendTallies
<1>7. ASSUME NEW guest_pc \in GuestAddresses, NEW count \in 0..MaxCount,
             NEW compiled \in BOOLEAN, JitExecutes(guest_pc, count, compiled)
      PROVE  DispatchAccounting'
  BY <1>7, DispatchAccounting, PendingResult, CounterFacts, TypeOK
  DEF JitExecutes, Stop, Notify, LeaveScope, DispatchAccounting,
      BlocksThisRun, OffersThisRun, BlocksExecuted, Running, PendingResult,
      NoResult, TypeOK, BackendTallies
<1>8. ASSUME NEW refused \in Refusals, JitRefuses(refused)
      PROVE  DispatchAccounting'
  BY <1>8, DispatchAccounting, PendingResult, CounterFacts
  DEF JitRefuses, Stop, LeaveScope, DispatchAccounting, BlocksThisRun,
      OffersThisRun, BlocksExecuted, Running, PendingResult, NoResult
<1>9. CASE JitExits
  BY <1>9, DispatchAccounting
  DEF JitExits, Stop, LeaveScope, DispatchAccounting, BlocksThisRun,
      OffersThisRun, BlocksExecuted, Running, PendingResult, NoResult
<1>10. ASSUME NEW guest_pc \in GuestAddresses, JitFaults(guest_pc)
       PROVE  DispatchAccounting'
  BY <1>10, DispatchAccounting
  DEF JitFaults, Stop, LeaveScope, DispatchAccounting, BlocksThisRun,
      OffersThisRun, BlocksExecuted, Running, PendingResult, NoResult
<1>11. CASE JitThrows
  BY <1>11, DispatchAccounting
  DEF JitThrows, Unwind, LeaveScope, DispatchAccounting, BlocksThisRun,
      OffersThisRun, BlocksExecuted, Running, PendingResult, NoResult
<1>12. ASSUME NEW execution \in InterpretedBlocks, FallbackReturns(execution)
       PROVE  DispatchAccounting'
  BY <1>12, DispatchAccounting, PendingResult, CounterFacts, TypeOK
  DEF FallbackReturns, Stop, Notify, LeaveScope, DispatchAccounting,
      BlocksThisRun, OffersThisRun, BlocksExecuted, Running, PendingResult,
      NoResult, TypeOK, BackendTallies, Recordable
<1>13. CASE FallbackThrows
  BY <1>13, DispatchAccounting
  DEF FallbackThrows, Unwind, LeaveScope, DispatchAccounting, BlocksThisRun,
      OffersThisRun, BlocksExecuted, Running, PendingResult, NoResult
<1>14. CASE BeginDiagnosticDispatch
  BY <1>14, DispatchAccounting, PendingResult, CounterFacts
  DEF BeginDiagnosticDispatch, sessionVars, DispatchAccounting, BlocksThisRun,
      OffersThisRun, BlocksExecuted, Running, PendingResult, NoResult
<1>15. ASSUME NEW execution \in InterpretedBlocks, DiagnosticReturns(execution)
       PROVE  DispatchAccounting'
  BY <1>15, DispatchAccounting, PendingResult, CounterFacts, TypeOK
  DEF DiagnosticReturns, Stop, Notify, LeaveScope, DispatchAccounting,
      BlocksThisRun, OffersThisRun, BlocksExecuted, Running, PendingResult,
      NoResult, TypeOK, BackendTallies, DiagnosticLimit
<1>16. CASE DiagnosticThrows
  BY <1>16, DispatchAccounting
  DEF DiagnosticThrows, Unwind, LeaveScope, DispatchAccounting, BlocksThisRun,
      OffersThisRun, BlocksExecuted, Running, PendingResult, NoResult
<1>17. CASE UNCHANGED vars
  BY <1>17, DispatchAccounting
  DEF vars, DispatchAccounting, BlocksThisRun, OffersThisRun, BlocksExecuted,
      Running, PendingResult, NoResult
<1> QED
  BY <1>1, <1>2, <1>3, <1>4, <1>5, <1>6, <1>7, <1>8, <1>9, <1>10, <1>11,
     <1>12, <1>13, <1>14, <1>15, <1>16, <1>17
  DEF Next, SessionSteps, BackendReplies, SinkReplies
\* execution_session.cpp: a run has executed one block for each completed
\* dispatch, each offered to the JIT first, whatever the backend reports.
THEOREM DispatchesAccounted == Spec => []DispatchAccounting
<1>1. Init => DispatchAccounting
  BY DEF Init, DispatchAccounting, Running, NoResult
<1>2. IInv /\ DispatchAccounting /\ [Next]_vars => DispatchAccounting'
  BY DispatchStep DEF IInv
<1> QED
  BY <1>1, <1>2, IInvHolds, PTL DEF Spec

-----------------------------------------------------------------------------
(***************************************************************************)
(* A block that is executed and not recorded                               *)
(***************************************************************************)

Unrecorded ==
    backend' # backend /\ phase # "loop" /\ statistics' = statistics
        => phase' = "idle"

\* A step that executes without recording leaves the session idle.
LEMMA UnrecordedStep ==
    ASSUME TypeOK, OrderInv, Next
    PROVE  Unrecorded
<1>1. CASE Construct
  BY <1>1
  DEF Construct, sessionVars, Unrecorded
<1>2. CASE Run
  BY <1>2
  DEF Run, Unrecorded
<1>3. CASE Exhaust
  BY <1>3
  DEF Exhaust, Stop, LeaveScope, Unrecorded
<1>4. CASE SinkReturns
  BY <1>4
  DEF SinkReturns, Unrecorded
<1>5. CASE SinkThrows
  BY <1>5
  DEF SinkThrows, Unwind, LeaveScope, Unrecorded
<1>6. CASE BeginJitDispatch
  BY <1>6
  DEF BeginJitDispatch, Unrecorded
<1>7. ASSUME NEW guest_pc \in GuestAddresses, NEW count \in 0..MaxCount,
             NEW compiled \in BOOLEAN, JitExecutes(guest_pc, count, compiled)
      PROVE  Unrecorded
  <2>1. CASE phase' = "idle"
    BY <2>1 DEF Unrecorded
  <2>2. CASE phase' # "idle"
    <3>1. statistics' = JitCounted(count, compiled)
      BY <1>7, <2>2 DEF JitExecutes, Stop
    <3>2. statistics'.jit_blocks_executed # statistics.jit_blocks_executed
      BY <3>1, TypeOK DEF JitCounted, TypeOK, ExecutionStatistics
    <3> QED
      BY <3>2 DEF Unrecorded
  <2> QED
    BY <2>1, <2>2
<1>8. ASSUME NEW refused \in Refusals, JitRefuses(refused)
      PROVE  Unrecorded
  BY <1>8
  DEF JitRefuses, Stop, LeaveScope, Unrecorded
<1>9. CASE JitExits
  BY <1>9
  DEF JitExits, Stop, LeaveScope, Unrecorded
<1>10. ASSUME NEW guest_pc \in GuestAddresses, JitFaults(guest_pc)
       PROVE  Unrecorded
  BY <1>10
  DEF JitFaults, Stop, LeaveScope, Unrecorded
<1>11. CASE JitThrows
  BY <1>11
  DEF JitThrows, Unwind, LeaveScope, Unrecorded
<1>12. ASSUME NEW execution \in InterpretedBlocks, FallbackReturns(execution)
       PROVE  Unrecorded
  <2>1. CASE phase' = "idle"
    BY <2>1 DEF Unrecorded
  <2>2. CASE phase' # "idle"
    <3>1. statistics' = Recorded(refusal, execution, statistics)
      BY <1>12, <2>2 DEF FallbackReturns, Stop
    <3>2. Add64(statistics.fallback_blocks, 1) # statistics.fallback_blocks
      BY <1>12, LedgerFacts, WidthAssumption
      DEF FallbackReturns, OrderInv, FallbackBudgets, Add64
<3>3. statistics'.fallback_blocks # statistics.fallback_blocks
      BY <3>1, <3>2, LedgerFacts DEF Recorded, ExecutionStatistics
    <3> QED
      BY <3>3 DEF Unrecorded
  <2> QED
    BY <2>1, <2>2
<1>13. CASE FallbackThrows
  BY <1>13
  DEF FallbackThrows, Unwind, LeaveScope, Unrecorded
<1>14. CASE BeginDiagnosticDispatch
  BY <1>14
  DEF BeginDiagnosticDispatch, sessionVars, Unrecorded
<1>15. ASSUME NEW execution \in InterpretedBlocks, DiagnosticReturns(execution)
       PROVE  Unrecorded
  <2>1. CASE phase' = "idle"
    BY <2>1 DEF Unrecorded
  <2>2. CASE phase' # "idle"
    <3>1. statistics' =
                [statistics EXCEPT
                    !.diagnostic_interpreter_blocks = @ + 1,
                    !.diagnostic_interpreter_instructions =
                        @ + execution.instruction_count]
      BY <1>15, <2>2 DEF DiagnosticReturns, Stop
    <3>2. statistics'.diagnostic_interpreter_blocks
            # statistics.diagnostic_interpreter_blocks
      BY <3>1, TypeOK DEF TypeOK, ExecutionStatistics
    <3> QED
      BY <3>2 DEF Unrecorded
  <2> QED
    BY <2>1, <2>2
<1>16. CASE DiagnosticThrows
  BY <1>16
  DEF DiagnosticThrows, Unwind, LeaveScope, Unrecorded
<1> QED
  BY <1>1, <1>2, <1>3, <1>4, <1>5, <1>6, <1>7, <1>8, <1>9, <1>10, <1>11,
     <1>12, <1>13, <1>14, <1>15, <1>16
  DEF Next, SessionSteps, BackendReplies, SinkReplies
\* execution_session.cpp: a block the session could not account for ends the
\* run in the same step, whatever the backend reports.
THEOREM UnrecordedEnds == Spec => UnrecordedEndsRun
<1>1. IInv /\ [Next]_vars => [Unrecorded]_vars
  BY UnrecordedStep DEF IInv
<1> QED
  BY <1>1, IInvHolds, PTL DEF Spec, UnrecordedEndsRun, Unrecorded

-----------------------------------------------------------------------------
(***************************************************************************)
(* Refinement of FallbackMeter                                             *)
(***************************************************************************)

\* Every step of a session with a conforming backend is a step of the meter.
LEMMA MeterStep ==
    ASSUME BackendConforms, TypeOK, OrderInv, LimitIsUsable, AccountingExact,
           [Next]_vars
    PROVE  [Meter!MeterNext]_(Meter!meterVars)
<1>1. CASE Construct
  <2>1. UNCHANGED <<configuration, backend>>
    BY <1>1 DEF Construct, sessionVars
  <2>2. CASE phase' = "idle"
    <3>1. MeterBudget = Meter!Unconfigured
      BY <1>1 DEF Construct, MeterBudget, Meter!Unconfigured
    <3>2. /\ MeterBudget' = configuration.fallback
          /\ configuration.fallback \in {c.fallback : c \in Configurations}
      BY <2>1, <2>2, TypeOK DEF MeterBudget, TypeOK
    <3> QED
      BY <2>1, <3>1, <3>2 DEF Meter!MeterNext, Meter!Configure, MeterBudget
  <2>3. CASE phase' = "rejected"
    BY <1>1, <2>1, <2>3 DEF Construct, MeterBudget, Meter!meterVars
  <2> QED
    BY <1>1, <2>2, <2>3 DEF Construct
<1>2. CASE Run
  BY <1>2
  DEF Run, MeterBudget, Meter!meterVars
<1>3. CASE Exhaust
  BY <1>3
  DEF Exhaust, Stop, LeaveScope, MeterBudget, Meter!meterVars
<1>4. CASE SinkReturns
  BY <1>4
  DEF SinkReturns, MeterBudget, Meter!meterVars
<1>5. CASE SinkThrows
  BY <1>5
  DEF SinkThrows, Unwind, LeaveScope, MeterBudget, Meter!meterVars
<1>6. CASE BeginJitDispatch
  BY <1>6, TypeOK
  DEF BeginJitDispatch, MeterBudget, Meter!meterVars, TypeOK, BackendTallies
<1>7. ASSUME NEW guest_pc \in GuestAddresses, NEW count \in 0..MaxCount,
             NEW compiled \in BOOLEAN, JitExecutes(guest_pc, count, compiled)
      PROVE  [Meter!MeterNext]_(Meter!meterVars)
  BY <1>7, TypeOK
  DEF JitExecutes, Stop, Notify, LeaveScope, MeterBudget, Meter!meterVars,
      TypeOK, BackendTallies
<1>8. ASSUME NEW refused \in Refusals, JitRefuses(refused)
      PROVE  [Meter!MeterNext]_(Meter!meterVars)
  BY <1>8
  DEF JitRefuses, Stop, LeaveScope, MeterBudget, Meter!meterVars
<1>9. CASE JitExits
  BY <1>9
  DEF JitExits, Stop, LeaveScope, MeterBudget, Meter!meterVars
<1>10. ASSUME NEW guest_pc \in GuestAddresses, JitFaults(guest_pc)
       PROVE  [Meter!MeterNext]_(Meter!meterVars)
  BY <1>10
  DEF JitFaults, Stop, LeaveScope, MeterBudget, Meter!meterVars
<1>11. CASE JitThrows
  BY <1>11
  DEF JitThrows, Unwind, LeaveScope, MeterBudget, Meter!meterVars
<1>12. ASSUME NEW execution \in InterpretedBlocks, FallbackReturns(execution)
       PROVE  [Meter!MeterNext]_(Meter!meterVars)
  <2>1. /\ WithinOrder(execution)
        /\ phase = "in_fallback"
    BY <1>12 DEF FallbackReturns
  <2>2. execution.instruction_count \in 1..limit
    BY <2>1 DEF WithinOrder
  <2>3. /\ limit \in 1..configuration.fallback.maximum_instructions_per_block
        /\ backend.fallback_instructions + limit
                <= configuration.fallback.maximum_total_instructions
        /\ backend.fallback_blocks < configuration.fallback.maximum_blocks
    BY <2>1 DEF LimitIsUsable, OrderInv, AccountingExact
  <2>4. /\ backend'.fallback_blocks = backend.fallback_blocks + 1
        /\ backend'.fallback_instructions =
                backend.fallback_instructions + execution.instruction_count
    BY <1>12, <2>2, <2>3, LedgerFacts, TypeOK
    DEF FallbackReturns, TypeOK, BackendTallies, FallbackBudgets
<2>5. MeterBudget = configuration.fallback /\ MeterBudget' = MeterBudget
    BY <1>12, <2>1
    DEF FallbackReturns, Stop, Notify, LeaveScope, MeterBudget
<2> QED
    BY <2>2, <2>3, <2>4, <2>5, LedgerFacts, TypeOK
    DEF Meter!MeterNext, Meter!Spend, MeterBudget, TypeOK, BackendTallies,
        FallbackBudgets
<1>13. CASE FallbackThrows
  BY <1>13
  DEF FallbackThrows, Unwind, LeaveScope, MeterBudget, Meter!meterVars
<1>14. CASE BeginDiagnosticDispatch
  BY <1>14
  DEF BeginDiagnosticDispatch, sessionVars, MeterBudget, Meter!meterVars
<1>15. ASSUME NEW execution \in InterpretedBlocks, DiagnosticReturns(execution)
       PROVE  [Meter!MeterNext]_(Meter!meterVars)
  BY <1>15, TypeOK
  DEF DiagnosticReturns, Stop, Notify, LeaveScope, MeterBudget,
      Meter!meterVars, TypeOK, BackendTallies
<1>16. CASE DiagnosticThrows
  BY <1>16
  DEF DiagnosticThrows, Unwind, LeaveScope, MeterBudget, Meter!meterVars
<1>17. CASE UNCHANGED vars
  BY <1>17
  DEF vars, MeterBudget, Meter!meterVars
<1> QED
  BY <1>1, <1>2, <1>3, <1>4, <1>5, <1>6, <1>7, <1>8, <1>9, <1>10, <1>11,
     <1>12, <1>13, <1>14, <1>15, <1>16, <1>17
  DEF Next, SessionSteps, BackendReplies, SinkReplies
\* A session with a conforming backend spends fallback as the meter allows.
THEOREM MeterRefinement ==
    ASSUME BackendConforms
    PROVE  Spec => MetersFallback
<1>1. Init => Meter!MeterInit
  BY DEF Init, NoWork, MeterBudget, Meter!MeterInit, Meter!Unconfigured
<1>2. IInv /\ [Next]_vars => [Meter!MeterNext]_(Meter!meterVars)
  BY MeterStep DEF IInv
<1> QED
  BY <1>1, <1>2, IInvHolds, PTL DEF Spec, MetersFallback, Meter!MeterSpec

-----------------------------------------------------------------------------
(***************************************************************************)
(* The reasons partition the totals                                        *)
(***************************************************************************)

\* What is added to a summand is added to the sum, whatever wraps on the way.
LEMMA AddToSum ==
    ASSUME NEW a \in 0..MaxCounter, NEW b \in 0..MaxCounter, NEW n \in 0..MaxCounter + 1
    PROVE  /\ Add64(a, b) \in 0..MaxCounter
           /\ Add64(Add64(a, n), b) = Add64(Add64(a, b), n)
           /\ Add64(a, Add64(b, n)) = Add64(Add64(a, b), n)
<1>1. Add64(a, b) \in 0..MaxCounter
  BY WidthAssumption DEF Add64
<1>2. Add64(Add64(a, n), b) = Add64(Add64(a, b), n)
  <2>1. CASE a + b > MaxCounter
    BY <2>1, WidthAssumption DEF Add64
  <2>2. CASE a + b <= MaxCounter
    BY <2>2, WidthAssumption DEF Add64
  <2> QED
    BY <2>1, <2>2, WidthAssumption
<1>3. Add64(a, Add64(b, n)) = Add64(Add64(a, b), n)
  <2>1. CASE a + b > MaxCounter
    BY <2>1, WidthAssumption DEF Add64
  <2>2. CASE a + b <= MaxCounter
    BY <2>2, WidthAssumption DEF Add64
  <2> QED
    BY <2>1, <2>2, WidthAssumption
<1> QED
  BY <1>1, <1>2, <1>3

\* One more at one reason is one more in the sum.
LEMMA SumAdds ==
    ASSUME NEW f \in [JitRefusalReasons -> 0..MaxCounter],
           NEW reason \in JitRefusalReasons, NEW n \in 0..MaxCounter + 1
    PROVE  SumOverReasons([f EXCEPT ![reason] = Add64(@, n)])
                = Add64(SumOverReasons(f), n)
<1> DEFINE a == f["UnsupportedInstruction"]
           b == f["UnsafeInstructionFetch"]
           c == f["UnsafeHostExecution"]
           d == f["PrivilegedInstruction"]
<1>1. a \in 0..MaxCounter /\ b \in 0..MaxCounter /\ c \in 0..MaxCounter /\ d \in 0..MaxCounter
  BY DEF JitRefusalReasons
<1>2. /\ Add64(Add64(a, n), b) = Add64(Add64(a, b), n)
      /\ Add64(a, Add64(b, n)) = Add64(Add64(a, b), n)
      /\ Add64(Add64(c, n), d) = Add64(Add64(c, d), n)
      /\ Add64(c, Add64(d, n)) = Add64(Add64(c, d), n)
  BY <1>1, AddToSum
<1>3. /\ Add64(Add64(Add64(a, b), n), Add64(c, d)) = Add64(Add64(Add64(a, b), Add64(c, d)), n)
      /\ Add64(Add64(a, b), Add64(Add64(c, d), n)) = Add64(Add64(Add64(a, b), Add64(c, d)), n)
  <2>1. Add64(a, b) \in 0..MaxCounter /\ Add64(c, d) \in 0..MaxCounter
    BY <1>1, AddToSum
  <2> QED
    BY <2>1, AddToSum
<1>4. SumOverReasons([f EXCEPT ![reason] = Add64(@, n)]) =
          CASE reason = "UnsupportedInstruction" -> Add64(Add64(Add64(a, n), b), Add64(c, d))
            [] reason = "UnsafeInstructionFetch" -> Add64(Add64(a, Add64(b, n)), Add64(c, d))
            [] reason = "UnsafeHostExecution" -> Add64(Add64(a, b), Add64(Add64(c, n), d))
            [] reason = "PrivilegedInstruction" -> Add64(Add64(a, b), Add64(c, Add64(d, n)))
  BY DEF SumOverReasons, JitRefusalReasons
<1>5. SumOverReasons(f) = Add64(Add64(a, b), Add64(c, d))
  BY DEF SumOverReasons
<1> QED
  BY <1>2, <1>3, <1>4, <1>5 DEF JitRefusalReasons

\* The parts of the statistics that record alone writes.
FallbackCounters ==
    <<statistics.fallback_blocks, statistics.fallback_instructions,
      statistics.fallback_blocks_by_reason, statistics.fallback_instructions_by_reason>>

\* A step records one block of the refused reason, or none.
LEMMA FallbackCountersStep ==
    ASSUME TypeOK, OrderInv, [Next]_vars
    PROVE  \/ UNCHANGED FallbackCounters
           \/ \E execution \in InterpretedBlocks :
                  /\ FallbackReturns(execution)
                  /\ refusal.reason \in JitRefusalReasons
                  /\ statistics' = Recorded(refusal, execution, statistics)
<1>1. ASSUME NEW execution \in InterpretedBlocks, FallbackReturns(execution)
      PROVE  \/ UNCHANGED statistics
             \/ /\ refusal.reason \in JitRefusalReasons
                /\ statistics' = Recorded(refusal, execution, statistics)
  BY <1>1 DEF FallbackReturns, OrderInv
<1>2. CASE BeginJitDispatch
  BY <1>2 DEF BeginJitDispatch, FallbackCounters, TypeOK, ExecutionStatistics
<1>3. ASSUME NEW guest_pc \in GuestAddresses, NEW count \in 0..MaxCount,
             NEW compiled \in BOOLEAN, JitExecutes(guest_pc, count, compiled)
      PROVE  UNCHANGED FallbackCounters
  BY <1>3 DEF JitExecutes, JitCounted, FallbackCounters, TypeOK, ExecutionStatistics
<1>4. ASSUME NEW execution \in InterpretedBlocks, DiagnosticReturns(execution)
      PROVE  UNCHANGED FallbackCounters
  BY <1>4 DEF DiagnosticReturns, FallbackCounters, TypeOK, ExecutionStatistics
<1>5. CASE UNCHANGED statistics
  BY <1>5 DEF FallbackCounters
<1>6. \/ UNCHANGED statistics
      \/ BeginJitDispatch
      \/ \E guest_pc \in GuestAddresses, count \in 0..MaxCount, compiled \in BOOLEAN :
             JitExecutes(guest_pc, count, compiled)
      \/ \E execution \in InterpretedBlocks : FallbackReturns(execution)
      \/ \E execution \in InterpretedBlocks : DiagnosticReturns(execution)
  BY DEF Next, SessionSteps, BackendReplies, SinkReplies, vars, sessionVars,
         Construct, Run, Exhaust, BeginDiagnosticDispatch, Stop, Unwind,
         SinkReturns, SinkThrows, JitRefuses, JitExits, JitFaults, JitThrows,
         FallbackThrows, DiagnosticThrows
<1> QED
  BY <1>1, <1>2, <1>3, <1>4, <1>5, <1>6

\* What record adds where.
LEMMA RecordedFields ==
    ASSUME TypeOK, NEW execution \in InterpretedBlocks,
           refusal.reason \in JitRefusalReasons,
           statistics' = Recorded(refusal, execution, statistics)
    PROVE  /\ statistics'.fallback_blocks = Add64(statistics.fallback_blocks, 1)
           /\ statistics'.fallback_instructions
                 = Add64(statistics.fallback_instructions, execution.instruction_count)
           /\ statistics'.fallback_blocks_by_reason
                 = [statistics.fallback_blocks_by_reason EXCEPT
                       ![refusal.reason] = Add64(@, 1)]
           /\ statistics'.fallback_instructions_by_reason
                 = [statistics.fallback_instructions_by_reason EXCEPT
                       ![refusal.reason] = Add64(@, execution.instruction_count)]
  BY DEF Recorded, TypeOK, ExecutionStatistics

\* So the sums by reason follow the totals.
LEMMA PartitionStep ==
    ASSUME TypeOK, OrderInv, ReasonsPartitionTotals, [Next]_vars
    PROVE  ReasonsPartitionTotals'
<1>1. CASE UNCHANGED FallbackCounters
  BY <1>1 DEF FallbackCounters, ReasonsPartitionTotals
<1>2. ASSUME NEW execution \in InterpretedBlocks,
             refusal.reason \in JitRefusalReasons,
             statistics' = Recorded(refusal, execution, statistics)
      PROVE  ReasonsPartitionTotals'
  <2> DEFINE n == execution.instruction_count
  <2>1. n \in 0..MaxCounter + 1 /\ 1 \in 0..MaxCounter + 1
    BY WidthAssumption DEF InterpretedBlocks
  <2>2. /\ statistics.fallback_blocks_by_reason \in [JitRefusalReasons -> 0..MaxCounter]
        /\ statistics.fallback_instructions_by_reason
              \in [JitRefusalReasons -> 0..MaxCounter]
    BY DEF TypeOK, ExecutionStatistics
  <2>3. /\ statistics'.fallback_blocks = Add64(statistics.fallback_blocks, 1)
        /\ statistics'.fallback_instructions
                = Add64(statistics.fallback_instructions, n)
        /\ statistics'.fallback_blocks_by_reason
                = [statistics.fallback_blocks_by_reason EXCEPT
                      ![refusal.reason] = Add64(@, 1)]
        /\ statistics'.fallback_instructions_by_reason
                = [statistics.fallback_instructions_by_reason EXCEPT
                      ![refusal.reason] = Add64(@, n)]
    BY <1>2, RecordedFields
  <2>4. SumOverReasons(statistics'.fallback_blocks_by_reason)
            = Add64(SumOverReasons(statistics.fallback_blocks_by_reason), 1)
    BY <1>2, <2>1, <2>2, <2>3, SumAdds
  <2>5. SumOverReasons(statistics'.fallback_instructions_by_reason)
            = Add64(SumOverReasons(statistics.fallback_instructions_by_reason), n)
    BY <1>2, <2>1, <2>2, <2>3, SumAdds
  <2> QED
    BY <2>3, <2>4, <2>5 DEF ReasonsPartitionTotals
<1> QED
  BY <1>1, <1>2, FallbackCountersStep

\* Nothing is recorded at the start.
LEMMA PartitionInit == Init => ReasonsPartitionTotals
  BY WidthAssumption
  DEF Init, NoStatistics, ReasonsPartitionTotals, SumOverReasons, Add64,
      JitRefusalReasons

\* fallback_ledger.cpp: the counters by reason add up to the totals in the
\* arithmetic of the counters, whatever the backend reports.
THEOREM ReasonsPartition == Spec => []ReasonsPartitionTotals
<1>1. TypeOK /\ OrderInv /\ ReasonsPartitionTotals /\ [Next]_vars
      => ReasonsPartitionTotals'
  BY PartitionStep
<1> QED
  BY <1>1, PartitionInit, IInvHolds, PTL DEF Spec, IInv

-----------------------------------------------------------------------------
(***************************************************************************)
(* With a conforming backend no counter wraps                              *)
(***************************************************************************)

PlainSum(f) == f["UnsupportedInstruction"] + f["UnsafeInstructionFetch"]
                   + f["UnsafeHostExecution"] + f["PrivilegedInstruction"]

\* The counters by reason add up to the totals as numbers.
ReasonsExact ==
    /\ PlainSum(statistics.fallback_blocks_by_reason) = statistics.fallback_blocks
    /\ PlainSum(statistics.fallback_instructions_by_reason)
            = statistics.fallback_instructions

\* One counter is at most the sum, so it has room for what the sum has room for.
LEMMA PlainSumAdds ==
    ASSUME NEW f \in [JitRefusalReasons -> 0..MaxCounter],
           NEW reason \in JitRefusalReasons, NEW n \in Nat,
           PlainSum(f) + n <= MaxCounter
    PROVE  PlainSum([f EXCEPT ![reason] = Add64(@, n)]) = PlainSum(f) + n
<1>1. \A r \in JitRefusalReasons : f[r] \in Nat
  OBVIOUS
<1>2. f[reason] <= PlainSum(f) /\ PlainSum(f) \in Nat
  BY <1>1 DEF PlainSum, JitRefusalReasons
<1>3. Add64(f[reason], n) = f[reason] + n
  BY <1>1, <1>2, WidthAssumption DEF Add64
<1> QED
  BY <1>1, <1>3 DEF PlainSum, JitRefusalReasons

\* What a conforming backend interprets fits both totals.
LEMMA RoomToRecord ==
    ASSUME BackendConforms, IInv, NEW execution \in InterpretedBlocks,
           FallbackReturns(execution)
    PROVE  /\ statistics.fallback_blocks + 1 <= MaxCounter
           /\ statistics.fallback_instructions + execution.instruction_count <= MaxCounter
<1>1. execution.instruction_count \in 1..limit /\ limit \in Nat
  BY DEF FallbackReturns, WithinOrder, IInv, TypeOK
<1>2. /\ statistics.fallback_blocks < configuration.fallback.maximum_blocks
      /\ statistics.fallback_instructions + limit
              <= configuration.fallback.maximum_total_instructions
  BY DEF FallbackReturns, IInv, OrderInv, LimitIsUsable
<1>3. /\ configuration.fallback.maximum_blocks \in 0..MaxCounter
      /\ configuration.fallback.maximum_total_instructions \in 0..MaxCounter
      /\ statistics.fallback_blocks \in Nat
      /\ statistics.fallback_instructions \in Nat
  BY ConfigurationAssumption
  DEF IInv, TypeOK, ExecutionStatistics, RuntimeConfigurations, FallbackBudgets
<1> QED
  BY <1>1, <1>2, <1>3, WidthAssumption

\* So every step of such a session counts exactly.
LEMMA ExactStep ==
    ASSUME BackendConforms, IInv, ReasonsExact, [Next]_vars
    PROVE  ReasonsExact'
<1>1. CASE UNCHANGED FallbackCounters
  BY <1>1 DEF FallbackCounters, ReasonsExact
<1>2. ASSUME NEW execution \in InterpretedBlocks, FallbackReturns(execution),
             refusal.reason \in JitRefusalReasons,
             statistics' = Recorded(refusal, execution, statistics)
      PROVE  ReasonsExact'
  <2> DEFINE n == execution.instruction_count
  <2>1. TypeOK /\ n \in Nat /\ 1 \in Nat
    BY DEF IInv, InterpretedBlocks
  <2>2. /\ statistics.fallback_blocks_by_reason \in [JitRefusalReasons -> 0..MaxCounter]
        /\ statistics.fallback_instructions_by_reason
              \in [JitRefusalReasons -> 0..MaxCounter]
        /\ statistics.fallback_blocks \in 0..MaxCounter
        /\ statistics.fallback_instructions \in 0..MaxCounter
    BY <2>1 DEF TypeOK, ExecutionStatistics
  <2>3. /\ statistics.fallback_blocks + 1 <= MaxCounter
        /\ statistics.fallback_instructions + n <= MaxCounter
    BY <1>2, RoomToRecord
  <2>4. /\ statistics'.fallback_blocks = Add64(statistics.fallback_blocks, 1)
        /\ statistics'.fallback_instructions
                = Add64(statistics.fallback_instructions, n)
        /\ statistics'.fallback_blocks_by_reason
                = [statistics.fallback_blocks_by_reason EXCEPT
                      ![refusal.reason] = Add64(@, 1)]
        /\ statistics'.fallback_instructions_by_reason
                = [statistics.fallback_instructions_by_reason EXCEPT
                      ![refusal.reason] = Add64(@, n)]
    BY <1>2, <2>1, RecordedFields
  <2>5. PlainSum(statistics'.fallback_blocks_by_reason)
            = PlainSum(statistics.fallback_blocks_by_reason) + 1
    BY <1>2, <2>1, <2>2, <2>3, <2>4, PlainSumAdds DEF ReasonsExact
  <2>6. PlainSum(statistics'.fallback_instructions_by_reason)
            = PlainSum(statistics.fallback_instructions_by_reason) + n
    BY <1>2, <2>1, <2>2, <2>3, <2>4, PlainSumAdds DEF ReasonsExact
  <2>7. /\ Add64(statistics.fallback_blocks, 1) = statistics.fallback_blocks + 1
        /\ Add64(statistics.fallback_instructions, n) = statistics.fallback_instructions + n
    BY <2>1, <2>2, <2>3, WidthAssumption DEF Add64
  <2> QED
    BY <2>4, <2>5, <2>6, <2>7 DEF ReasonsExact
<1> QED
  BY <1>1, <1>2, FallbackCountersStep DEF IInv

\* Nothing is recorded at the start.
LEMMA ExactInit == Init => ReasonsExact
  BY DEF Init, NoStatistics, ReasonsExact, PlainSum, JitRefusalReasons

\* fallback_ledger.cpp: with a conforming backend the 64-bit counters never wrap,
\* so the reasons add up as numbers; a backend that oversteps its limit can make
\* the sum of record wrap to a total that is still within the budget.
THEOREM CountersDoNotWrap ==
    ASSUME BackendConforms
    PROVE  Spec => []ReasonsExact
<1>1. IInv /\ ReasonsExact /\ [Next]_vars => ReasonsExact'
  BY ExactStep
<1> QED
  BY <1>1, ExactInit, IInvHolds, PTL DEF Spec

-----------------------------------------------------------------------------
(***************************************************************************)
(* A run has a bounded number of steps                                     *)
(***************************************************************************)

\* How far a dispatch has come.
PhaseRank ==
    CASE phase = "loop" -> 3
      [] phase \in {"in_jit", "in_diagnostic"} -> 2
      [] phase = "in_fallback" -> 1
      [] OTHER -> 0

\* What is left of a run.
Rank == 4 * (maximum_dispatches - dispatch) + PhaseRank

\* The rank is a number, and is lower in the next phase of a dispatch and in the
\* next dispatch.
LEMMA RankFalls ==
    ASSUME TypeOK, TypeOK', ControlInv, Running,
           UNCHANGED maximum_dispatches,
           \/ UNCHANGED dispatch /\ PhaseRank' < PhaseRank
           \/ phase = "in_sink" /\ dispatch' = dispatch + 1
    PROVE  Rank \in Nat /\ Rank' < Rank
<1>1. /\ maximum_dispatches \in Nat /\ dispatch \in Nat /\ dispatch <= maximum_dispatches
      /\ maximum_dispatches' = maximum_dispatches
      /\ PhaseRank \in 0..3 /\ PhaseRank' \in 0..3
  BY BoundAssumption DEF TypeOK, ControlInv, PhaseRank
<1>2. \A m, d \in Nat, p, q \in 0..3 :
          /\ d <= m => 4 * (m - d) + p \in Nat
          /\ q < p => 4 * (m - d) + q < 4 * (m - d) + p
          /\ 4 * (m - (d + 1)) + q < 4 * (m - d) + p
  OBVIOUS
<1>3. Rank \in Nat
  BY <1>1, <1>2 DEF Rank
<1>4. Rank' = 4 * (maximum_dispatches - dispatch') + PhaseRank'
  BY <1>1 DEF Rank
<1>5. CASE UNCHANGED dispatch /\ PhaseRank' < PhaseRank
  BY <1>1, <1>2, <1>3, <1>4, <1>5 DEF Rank
<1>6. CASE phase = "in_sink" /\ dispatch' = dispatch + 1
  <2>1. PhaseRank = 0
    BY <1>6 DEF PhaseRank
  <2> QED
    BY <1>1, <1>2, <1>3, <1>4, <1>6, <2>1 DEF Rank
<1> QED
  BY <1>5, <1>6

\* Every step of a running session ends the run or lowers what is left of it:
\* execution_session.cpp has no other loop, so whatever the backend and the sink
\* reply, a run takes at most 4 * maximum_dispatches + 4 steps.
RunShrinks ==
    [][Running => \/ phase' = "idle"
                  \/ Running' /\ Rank \in Nat /\ Rank' < Rank]_vars

\* A reply or an exception moves the run on within its dispatch, or ends it.
LEMMA ShrinkStep ==
    ASSUME IInv, IInv', Running, Next
    PROVE  \/ phase' = "idle"
           \/ Running' /\ Rank \in Nat /\ Rank' < Rank
<1> TypeOK /\ TypeOK' /\ ControlInv
  BY DEF IInv
<1>1. CASE SinkReturns
  BY <1>1, RankFalls DEF SinkReturns, Running
<1>2. CASE BeginJitDispatch
  BY <1>2, RankFalls DEF BeginJitDispatch, Running, PhaseRank
<1>3. CASE BeginDiagnosticDispatch
  BY <1>3, RankFalls DEF BeginDiagnosticDispatch, sessionVars, Running, PhaseRank
<1>4. ASSUME NEW guest_pc \in GuestAddresses, NEW count \in 0..MaxCount,
             NEW compiled \in BOOLEAN, JitExecutes(guest_pc, count, compiled)
      PROVE  \/ phase' = "idle"
             \/ Running' /\ Rank \in Nat /\ Rank' < Rank
  BY <1>4, RankFalls DEF JitExecutes, Stop, Notify, LeaveScope, Running, PhaseRank
<1>5. ASSUME NEW refused \in Refusals, JitRefuses(refused)
      PROVE  \/ phase' = "idle"
             \/ Running' /\ Rank \in Nat /\ Rank' < Rank
  BY <1>5, RankFalls DEF JitRefuses, Stop, Running, PhaseRank
<1>6. ASSUME NEW execution \in InterpretedBlocks, FallbackReturns(execution)
      PROVE  \/ phase' = "idle"
             \/ Running' /\ Rank \in Nat /\ Rank' < Rank
  BY <1>6, RankFalls DEF FallbackReturns, Stop, Notify, LeaveScope, Running, PhaseRank
<1>7. ASSUME NEW execution \in InterpretedBlocks, DiagnosticReturns(execution)
      PROVE  \/ phase' = "idle"
             \/ Running' /\ Rank \in Nat /\ Rank' < Rank
  BY <1>7, RankFalls DEF DiagnosticReturns, Stop, Notify, LeaveScope, Running, PhaseRank
<1>8. CASE \/ Exhaust \/ SinkThrows \/ JitExits \/ JitThrows \/ FallbackThrows
           \/ DiagnosticThrows
           \/ \E guest_pc \in GuestAddresses : JitFaults(guest_pc)
  BY <1>8 DEF Exhaust, SinkThrows, JitExits, JitThrows, FallbackThrows,
              DiagnosticThrows, JitFaults, Stop, Unwind
<1>9. ~Construct /\ ~Run
  BY DEF Construct, Run, Running
<1> QED
  BY <1>1, <1>2, <1>3, <1>4, <1>5, <1>6, <1>7, <1>8, <1>9
  DEF Next, SessionSteps, BackendReplies, SinkReplies

\* A run has a bounded number of steps, whatever the backend and the sink do.
THEOREM RunsAreBounded == Spec => RunShrinks
<1>1. IInv /\ IInv' /\ [Next]_vars =>
        [Running => \/ phase' = "idle"
                    \/ Running' /\ Rank \in Nat /\ Rank' < Rank]_vars
  BY ShrinkStep
<1> QED
  BY <1>1, IInvHolds, PTL DEF Spec, RunShrinks
=============================================================================
