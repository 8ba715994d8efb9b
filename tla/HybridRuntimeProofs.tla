------------------------- MODULE HybridRuntimeProofs -------------------------
(***************************************************************************)
(* Proofs about HybridRuntime: a session on the adapter, over a Dolphin    *)
(* that executes what it is asked to, takes the steps of a session with a  *)
(* conforming backend, so that ExecutionSessionProofs applies to it, and   *)
(* the adapter's own promises.                                             *)
(***************************************************************************)
EXTENDS HybridRuntime, ExecutionSessionProofs

hybridAll == <<vars, hybridVars>>

-----------------------------------------------------------------------------
(***************************************************************************)
(* The session's part of a step                                            *)
(***************************************************************************)

\* What Dolphin and the native code do inside execute_jit_block, and what the
\* consumer does between runs, is no step of the session.
InsideDolphin ==
    \/ \E address \in HookAddresses :
           InstallHook(address) \/ RemoveHook(address) \/ ArmOriginalCall(address)
    \/ \E address \in GuestAddresses : EnterBody(address) \/ EnterHook(address)
    \/ CallOriginal \/ OriginalExceedsBound
    \/ \E index \in 0..RegisterCount : AccessRegister(index)
    \/ \E action \in HookActions \cup {"Unknown"} : HookReturns(action)

\* Inside of Dolphin the session waits.
LEMMA InsideKeepsSession == InsideDolphin => UNCHANGED vars
  BY DEF InsideDolphin, InstallHook, RemoveHook, ArmOriginalCall, EnterBody,
         EnterHook, CallOriginal, OriginalExceedsBound, AccessRegister, HookReturns

\* The rest of the step, by the call of the backend it ends or begins.
LEMMA HybridCases ==
    ASSUME [HybridNext]_hybridAll
    PROVE  \/ UNCHANGED hybridAll
           \/ InsideDolphin
           \/ SessionAlone /\ UNCHANGED hybridVars
           \/ Offer
           \/ \E outcome \in Outcomes : BlockEnds(outcome)
           \/ DispatchThrows
           \/ \E execution \in InterpretedBlocks :
                  InterpretRefused(execution) \/ InterpretDiagnostic(execution)
           \/ InterpreterThrows
  BY DEF HybridNext, InsideDolphin

\* The fields of an outcome, by its kind.
LEMMA OutcomeFacts ==
    ASSUME NEW outcome \in Outcomes
    PROVE  /\ outcome.guest_pc \in GuestAddresses
           /\ outcome.refusal_reason \in Bytes
           /\ outcome.kind \in {"Compiled", "CacheHit"}
                => outcome.instruction_count \in 0..MaxCount
           /\ outcome.kind = "Refused"
                => [guest_pc |-> outcome.guest_pc,
                    reason |-> to_gcnport(outcome.refusal_reason)] \in Refusals
           /\ to_gcnport(outcome.refusal_reason) \in JitRefusalReasons
           /\ to_gcnport(outcome.refusal_reason)
                = DolphinJitRefusalReason[outcome.refusal_reason + 1]
<1>1. /\ outcome.guest_pc \in GuestAddresses
      /\ outcome.refusal_reason \in 0..3
      /\ outcome.kind \in {"Compiled", "CacheHit"}
            => outcome.instruction_count \in 0..MaxCount
  BY DEF Outcomes, Bytes, DolphinJitRefusalReason
<1>2. /\ to_gcnport(outcome.refusal_reason) \in JitRefusalReasons
      /\ to_gcnport(outcome.refusal_reason)
            = DolphinJitRefusalReason[outcome.refusal_reason + 1]
  BY <1>1 DEF to_gcnport, JitRefusalReason, DolphinJitRefusalReason, JitRefusalReasons
<1> QED
  BY <1>1, <1>2 DEF Refusals, Bytes, DolphinJitRefusalReason

\* A step of the whole is a step of the session or leaves it alone.
LEMMA SessionStep == ASSUME TypeOK, [HybridNext]_hybridAll PROVE [Next]_vars
<1>1. CASE UNCHANGED hybridAll
  BY <1>1 DEF hybridAll
<1>2. CASE InsideDolphin
  BY <1>2, InsideKeepsSession
<1>3. CASE SessionAlone
  BY <1>3 DEF SessionAlone, Next, SessionSteps
<1>4. CASE Offer
  BY <1>4 DEF Offer, Next, SessionSteps
<1>5. ASSUME NEW outcome \in Outcomes, BlockEnds(outcome)
      PROVE  Next
  <2>1. CASE outcome.kind \in {"Compiled", "CacheHit"}
    <3>1. JitExecutes(outcome.guest_pc, outcome.instruction_count, outcome.kind = "Compiled")
      BY <1>5, <2>1 DEF BlockEnds, Report
    <3>2. outcome.instruction_count \in 0..MaxCount
      BY <2>1, OutcomeFacts
    <3>3. (outcome.kind = "Compiled") \in BOOLEAN
      OBVIOUS
    <3> QED
      BY <1>5, <3>1, <3>2, <3>3, OutcomeFacts DEF Next, BackendReplies
  <2>2. CASE outcome.kind = "Refused"
    BY <1>5, <2>2, OutcomeFacts DEF BlockEnds, Report, Next, BackendReplies
  <2>3. CASE outcome.kind \notin {"Compiled", "CacheHit", "Refused"}
    BY <1>5, <2>3, OutcomeFacts DEF BlockEnds, Report, Next, BackendReplies
  <2> QED
    BY <2>1, <2>2, <2>3
<1>6. CASE DispatchThrows
  BY <1>6 DEF DispatchThrows, Next, BackendReplies
<1>7. ASSUME NEW execution \in InterpretedBlocks, InterpretRefused(execution)
      PROVE  Next
  BY <1>7 DEF InterpretRefused, Next, BackendReplies
<1>8. ASSUME NEW execution \in InterpretedBlocks, InterpretDiagnostic(execution)
      PROVE  Next
  BY <1>8 DEF InterpretDiagnostic, Next, BackendReplies
<1>9. CASE InterpreterThrows
  BY <1>9 DEF InterpreterThrows, Next, BackendReplies
<1> QED
  BY <1>1, <1>2, <1>3, <1>4, <1>5, <1>6, <1>7, <1>8, <1>9, HybridCases

\* So every invariant of the session holds on Dolphin, whatever Dolphin does.
LEMMA SessionHolds == HybridSpec => []IInv
<1>1. HybridInit => IInv
  BY InitIInv DEF HybridInit
<1>2. IInv /\ [HybridNext]_hybridAll => IInv'
  BY SessionStep, IInvStep DEF IInv
<1> QED
  BY <1>1, <1>2, PTL DEF HybridSpec, hybridAll

-----------------------------------------------------------------------------
(***************************************************************************)
(* A conforming backend                                                    *)
(***************************************************************************)

\* What the session does alone it does with any backend.
LEMMA AloneConforms == ASSUME SessionAlone PROVE Conforming!Next
<1>1. CASE Construct
  <2>1. Constructible = Conforming!Constructible
    BY DEF Constructible, ValidBudget, Disabled, FullyConfigured,
           Conforming!Constructible, Conforming!ValidBudget, Conforming!Disabled,
           Conforming!FullyConfigured
  <2> QED
    BY <1>1, <2>1 DEF Construct, sessionVars, Conforming!Next,
                      Conforming!Construct, Conforming!sessionVars
<1>2. CASE Run
  <2>1. NoResult = Conforming!NoResult /\ BlocksExecuted(backend) = Conforming!BlocksExecuted(backend)
    BY DEF NoResult, BlocksExecuted, Conforming!NoResult, Conforming!BlocksExecuted
  <2> QED
    BY <1>2, <2>1 DEF Run, Conforming!Next, Conforming!Run
<1>3. CASE Exhaust
  BY <1>3 DEF Exhaust, Stop, LeaveScope, DefaultRefusal, Conforming!Next,
              Conforming!SessionSteps, Conforming!Exhaust, Conforming!Stop,
              Conforming!LeaveScope, Conforming!DefaultRefusal
<1>4. CASE BeginDiagnosticDispatch
  BY <1>4 DEF BeginDiagnosticDispatch, sessionVars, Conforming!Next,
              Conforming!SessionSteps, Conforming!BeginDiagnosticDispatch,
              Conforming!sessionVars
<1>5. CASE SinkReturns
  BY <1>5 DEF SinkReturns, Conforming!Next, Conforming!SinkReplies,
              Conforming!SinkReturns
<1>6. CASE SinkThrows
  BY <1>6 DEF SinkThrows, Unwind, LeaveScope, DefaultRefusal, Conforming!Next,
              Conforming!SinkReplies, Conforming!SinkThrows, Conforming!Unwind,
              Conforming!LeaveScope, Conforming!DefaultRefusal
<1> QED
  BY <1>1, <1>2, <1>3, <1>4, <1>5, <1>6 DEF SessionAlone, SinkReplies

\* What Dolphin replies, whatever kind it reports, is what RuntimeBackend allows.
LEMMA OutcomeConforms ==
    ASSUME DolphinConforms, NEW outcome \in Outcomes, BlockEnds(outcome)
    PROVE  Conforming!Next
<1> DEFINE refused == [guest_pc |-> outcome.guest_pc,
                       reason |-> to_gcnport(outcome.refusal_reason)]
<1>1. CASE outcome.kind \in {"Compiled", "CacheHit"}
  <2> DEFINE count == outcome.instruction_count
             compiled == outcome.kind = "Compiled"
  <2>1. JitExecutes(outcome.guest_pc, count, compiled)
    BY <1>1 DEF BlockEnds, Report
  <2>2. count # 0
    BY <1>1 DEF BlockEnds, ExecutesSome
  <2>3. count # 0 /\ count \in 0..MaxCount /\ compiled \in BOOLEAN
    BY <1>1, <2>2, OutcomeFacts
  <2>4. Conforming!JitExecutes(outcome.guest_pc, count, compiled)
    <3> HIDE DEF count, compiled
    <3> QED
      BY <2>1, <2>3
      DEF JitExecutes, JitCounted, Stop, Notify, LeaveScope, DefaultRefusal,
          Conforming!JitExecutes, Conforming!JitCounted, Conforming!Stop,
          Conforming!Notify, Conforming!LeaveScope, Conforming!DefaultRefusal
  <2> QED
    BY <2>3, <2>4, OutcomeFacts DEF Conforming!Next, Conforming!BackendReplies
<1>2. CASE outcome.kind = "Refused"
  <2>1. JitRefuses(refused)
    BY <1>2 DEF BlockEnds, Report
  <2>2. refused \in Conforming!Refusals /\ refused.reason \in Conforming!JitRefusalReasons
    BY <1>2, OutcomeFacts
    DEF Refusals, JitRefusalReasons, InvalidReason, Conforming!Refusals,
        Conforming!JitRefusalReasons, Conforming!InvalidReason
  <2>3. Conforming!JitRefuses(refused)
    <3> HIDE DEF refused
    <3>1. /\ can_enter(configuration.fallback, refused, statistics)
                = Conforming!can_enter(configuration.fallback, refused, statistics)
          /\ instruction_limit(configuration.fallback, statistics)
                = Conforming!instruction_limit(configuration.fallback, statistics)
      BY DEF can_enter, instruction_limit, JitRefusalReasons, Conforming!can_enter,
             Conforming!instruction_limit, Conforming!JitRefusalReasons
    <3> QED
      BY <2>1, <2>2, <3>1
      DEF JitRefuses, Stop, LeaveScope, DefaultRefusal, Conforming!JitRefuses,
          Conforming!Stop, Conforming!LeaveScope, Conforming!DefaultRefusal
  <2> QED
    BY <2>2, <2>3 DEF Conforming!Next, Conforming!BackendReplies
<1>3. CASE outcome.kind \notin {"Compiled", "CacheHit", "Refused"}
  <2>1. JitFaults(outcome.guest_pc)
    BY <1>3 DEF BlockEnds, Report
  <2>2. Conforming!JitFaults(outcome.guest_pc)
    BY <2>1
    DEF JitFaults, Stop, LeaveScope, DefaultRefusal, Conforming!JitFaults,
        Conforming!Stop, Conforming!LeaveScope, Conforming!DefaultRefusal
  <2> QED
    BY <2>2, OutcomeFacts DEF Conforming!Next, Conforming!BackendReplies
<1> QED
  BY <1>1, <1>2, <1>3

\* What Dolphin interprets is the block and the number it was asked for.
LEMMA InterpretationConforms ==
    ASSUME DolphinConforms, NEW execution \in InterpretedBlocks
    PROVE  InterpretRefused(execution) \/ InterpretDiagnostic(execution)
               => Conforming!Next
<1>1. execution \in Conforming!InterpretedBlocks
  BY DEF InterpretedBlocks, Conforming!InterpretedBlocks
<1>2. ASSUME InterpretRefused(execution)
      PROVE  Conforming!Next
  <2>1. Conforming!WithinOrder(execution)
    BY <1>2 DEF InterpretRefused, WithinOrder, Conforming!WithinOrder
  <2>2. FallbackReturns(execution)
    BY <1>2 DEF InterpretRefused
  <2>3. /\ Recordable(configuration.fallback, refusal, execution, statistics)
              = Conforming!Recordable(configuration.fallback, refusal, execution, statistics)
        /\ Recorded(refusal, execution, statistics)
              = Conforming!Recorded(refusal, execution, statistics)
    BY DEF Recordable, Recorded, Add64, JitRefusalReasons, Conforming!Recordable,
           Conforming!Recorded, Conforming!Add64, Conforming!JitRefusalReasons
  <2>4. Conforming!FallbackReturns(execution)
    BY <2>1, <2>2, <2>3
    DEF FallbackReturns, Stop, Notify, LeaveScope, DefaultRefusal,
        Conforming!FallbackReturns, Conforming!Stop, Conforming!Notify,
        Conforming!LeaveScope, Conforming!DefaultRefusal
  <2> QED
    BY <1>1, <2>4 DEF Conforming!Next, Conforming!BackendReplies
<1>3. ASSUME InterpretDiagnostic(execution)
      PROVE  Conforming!Next
  <2>1. execution.instruction_count \in 1..Conforming!DiagnosticLimit
    BY <1>3 DEF InterpretDiagnostic, DiagnosticLimit, Conforming!DiagnosticLimit
  <2>2. DiagnosticReturns(execution)
    BY <1>3 DEF InterpretDiagnostic
  <2>3. Conforming!DiagnosticReturns(execution)
    BY <2>1, <2>2
    DEF DiagnosticReturns, DiagnosticLimit, Stop, Notify, LeaveScope,
        DefaultRefusal, Conforming!DiagnosticReturns,
        Conforming!DiagnosticLimit, Conforming!Stop, Conforming!Notify,
        Conforming!LeaveScope, Conforming!DefaultRefusal
  <2> QED
    BY <1>1, <2>3 DEF Conforming!Next, Conforming!BackendReplies
<1> QED
  BY <1>2, <1>3

\* Every step is one of a session whose backend keeps its contract.
LEMMA ConformingStep ==
    ASSUME DolphinConforms, [HybridNext]_hybridAll
    PROVE  [Conforming!Next]_vars
<1>1. CASE UNCHANGED hybridAll
  BY <1>1 DEF hybridAll
<1>2. CASE InsideDolphin
  BY <1>2, InsideKeepsSession
<1>3. CASE SessionAlone
  BY <1>3, AloneConforms
<1>4. CASE Offer
  BY <1>4 DEF Offer, BeginJitDispatch, Conforming!Next, Conforming!SessionSteps,
              Conforming!BeginJitDispatch
<1>5. CASE DispatchThrows
  BY <1>5 DEF DispatchThrows, JitThrows, Unwind, LeaveScope, DefaultRefusal,
              Conforming!Next, Conforming!BackendReplies, Conforming!JitThrows,
              Conforming!Unwind, Conforming!LeaveScope, Conforming!DefaultRefusal
<1>6. CASE InterpreterThrows
  BY <1>6 DEF InterpreterThrows, FallbackThrows, DiagnosticThrows, Unwind,
              LeaveScope, DefaultRefusal, Conforming!Next,
              Conforming!BackendReplies, Conforming!FallbackThrows,
              Conforming!DiagnosticThrows, Conforming!Unwind,
              Conforming!LeaveScope, Conforming!DefaultRefusal
<1> QED
  BY <1>1, <1>2, <1>3, <1>4, <1>5, <1>6, HybridCases, OutcomeConforms,
     InterpretationConforms

\* Over a Dolphin that executes what it is asked to, the session is one with a
\* conforming backend, whatever kinds and exceptions Dolphin reports and whatever
\* native code does in front of the guest functions.
THEOREM AdapterConforms ==
    ASSUME DolphinConforms PROVE HybridSpec => ConformingBackend
<1>1. HybridInit => Conforming!Init
  BY DEF HybridInit, Init, NoStatistics, DefaultRefusal, NoResult, NoWork,
         Conforming!Init, Conforming!NoStatistics, Conforming!DefaultRefusal,
         Conforming!NoResult, Conforming!NoWork, JitRefusalReasons,
         Conforming!JitRefusalReasons
<1>2. [HybridNext]_hybridAll => [Conforming!Next]_vars
  BY ConformingStep
<1> QED
  BY <1>1, <1>2, PTL DEF HybridSpec, hybridAll, ConformingBackend

-----------------------------------------------------------------------------
(***************************************************************************)
(* One dispatch of a hooked function                                       *)
(***************************************************************************)

\* The body has run once for each call_original until the callback returns.
DispatchInv ==
    /\ control = "dispatching" => call = NoCall
    /\ control = "callback" =>
           /\ call.hooked /\ call.entered /\ call.asked = "None"
           /\ call.bodies = call.originals
    /\ BodyRunsAsAsked

\* No dispatch is under way at first.
LEMMA DispatchInit == HybridInit => HybridTypeOK /\ DispatchInv
<1> SUFFICES ASSUME HybridInit PROVE HybridTypeOK /\ DispatchInv
  OBVIOUS
<1>1. TypeOK
  BY InitIInv DEF HybridInit, IInv
<1>2. NoCall \in Calls
  BY HybridAssumption DEF NoCall, Calls
<1>3. /\ 0 \in Bytes
      /\ 0 \in 0..MaxCounter
  BY WidthAssumption DEF Bytes, DolphinJitRefusalReason
<1> QED
  BY <1>1, <1>2, <1>3
  DEF HybridInit, Init, HybridTypeOK, DispatchInv, BodyRunsAsAsked

\* The sum of two counters is a counter.
LEMMA CounterSum ==
    ASSUME NEW a \in 0..MaxCounter, NEW b \in 0..MaxCounter + 1
    PROVE  Add64(a, b) \in 0..MaxCounter
  BY WidthAssumption DEF Add64

\* Every step keeps the types and what a dispatch has done so far.
LEMMA DispatchInvStep ==
    ASSUME HybridTypeOK, TypeOK', DispatchInv, [HybridNext]_hybridAll
    PROVE  HybridTypeOK' /\ DispatchInv'
<1> USE HybridAssumption DEF HybridTypeOK, DispatchInv, BodyRunsAsAsked
<1>1. CASE UNCHANGED hybridAll
  BY <1>1 DEF hybridAll, hybridVars, vars
<1>2. CASE SessionAlone /\ UNCHANGED hybridVars
  <2>1. phase # "in_jit" /\ phase' # "in_jit"
    BY <1>2
    DEF SessionAlone, Construct, Run, Exhaust, BeginDiagnosticDispatch,
        SinkReplies, SinkReturns, SinkThrows, Stop, Unwind
  <2> QED
    BY <1>2, <2>1 DEF hybridVars
<1>3. ASSUME NEW address \in HookAddresses,
             InstallHook(address) \/ RemoveHook(address) \/ ArmOriginalCall(address)
      PROVE  HybridTypeOK' /\ DispatchInv'
  BY <1>3 DEF InstallHook, RemoveHook, ArmOriginalCall, vars
<1>4. CASE Offer
  <2>1. NoCall \in Calls
    BY DEF NoCall, Calls
  <2> QED
    BY <1>4, <2>1 DEF Offer, BeginJitDispatch
<1>5. ASSUME NEW address \in GuestAddresses, EnterBody(address)
      PROVE  HybridTypeOK' /\ DispatchInv'
  <2>1. call' = [hooked |-> (address \in hooks), entered |-> FALSE, touched |-> {},
                 originals |-> 0, asked |-> "None", bodies |-> 1]
    <3>1. call = NoCall /\ call' = [call EXCEPT !.hooked = address \in hooks, !.bodies = 1]
      BY <1>5 DEF EnterBody
    <3> QED
      BY ONLY <3>1 DEF NoCall
  <2>2. call' \in Calls
    BY ONLY <2>1, HybridAssumption DEF Calls
  <2>3. /\ call'.hooked = (address \in hooks) /\ call'.entered = FALSE /\ call'.asked = "None"
        /\ call'.originals = 0 /\ call'.bodies = 1
    BY ONLY <2>1
  <2>4. /\ UNCHANGED <<phase, hooks, dolphin>> /\ tickets' \subseteq tickets
        /\ control = "dispatching" /\ control' = "executing"
    BY <1>5 DEF EnterBody, vars
  <2> QED
    BY <2>2, <2>3, <2>4
<1>6. ASSUME NEW address \in GuestAddresses, EnterHook(address)
      PROVE  HybridTypeOK' /\ DispatchInv'
  <2>1. call' = [hooked |-> TRUE, entered |-> TRUE, touched |-> {},
                 originals |-> 0, asked |-> "None", bodies |-> 0]
    <3>1. call = NoCall /\ call' = [call EXCEPT !.hooked = TRUE, !.entered = TRUE]
      BY <1>6 DEF EnterHook
    <3> QED
      BY ONLY <3>1 DEF NoCall
  <2>2. call' \in Calls
    BY ONLY <2>1, HybridAssumption DEF Calls
  <2>3. /\ call'.hooked = TRUE /\ call'.entered = TRUE /\ call'.asked = "None"
        /\ call'.originals = 0 /\ call'.bodies = 0
    BY ONLY <2>1
  <2>4. /\ UNCHANGED <<phase, hooks, dolphin>> /\ tickets' \subseteq tickets
        /\ control = "dispatching" /\ control' = "callback"
    BY <1>6 DEF EnterHook, vars
  <2> QED
    BY <2>2, <2>3, <2>4
<1>7. CASE CallOriginal
  <2>1. /\ call \in Calls /\ call.hooked /\ call.entered /\ call.asked = "None"
        /\ call.bodies = call.originals /\ call.originals < MaxOriginals
        /\ call' = [call EXCEPT !.originals = @ + 1, !.bodies = @ + 1]
    BY <1>7 DEF CallOriginal
  <2>2. call.originals + 1 \in 0..MaxOriginals /\ call.bodies + 1 \in 0..MaxOriginals + 1
    BY <2>1, HybridAssumption DEF Calls
  <2>3. /\ call' \in Calls /\ call'.hooked /\ call'.entered /\ call'.asked = "None"
        /\ call'.bodies = call'.originals
    BY ONLY <2>1, <2>2 DEF Calls
  <2>4. /\ UNCHANGED <<phase, hooks, tickets, dolphin>>
        /\ control = "callback" /\ control' = "callback"
    BY <1>7 DEF CallOriginal, vars
  <2> QED
    BY <2>3, <2>4
<1>8. CASE OriginalExceedsBound
  BY <1>8 DEF OriginalExceedsBound, vars
<1>9. ASSUME NEW index \in 0..RegisterCount, AccessRegister(index)
      PROVE  HybridTypeOK' /\ DispatchInv'
  <2>1. CASE RegisterExists(index)
    <3>1. index \in 0..RegisterCount - 1
      BY <2>1 DEF RegisterExists
    <3> QED
      BY <1>9, <2>1, <3>1 DEF AccessRegister, Calls, vars
  <2>2. CASE ~RegisterExists(index)
    BY <1>9, <2>2 DEF AccessRegister, vars
  <2> QED
    BY <2>1, <2>2
<1>10. ASSUME NEW action \in HookActions \cup {"Unknown"}, HookReturns(action)
       PROVE  HybridTypeOK' /\ DispatchInv'
  <2>1. to_dolphin(action) = "RunOriginalOnce"
            <=> action \notin {"ReturnToCaller", "ContinueAtAddress"}
    BY DEF to_dolphin, HookActions
  <2>2. call' = [call EXCEPT !.asked = action,
                    !.bodies = IF to_dolphin(action) = "RunOriginalOnce" THEN @ + 1 ELSE @]
    BY <1>10 DEF HookReturns
  <2>3. /\ call \in Calls /\ call.hooked /\ call.entered
        /\ call.bodies = call.originals
    BY <1>10 DEF HookReturns
  <2>4. call' \in Calls /\ call'.asked = action /\ call'.hooked /\ call'.entered
    <3> DEFINE bodies == IF to_dolphin(action) = "RunOriginalOnce"
                         THEN call.bodies + 1 ELSE call.bodies
    <3>1. call' = [call EXCEPT !.asked = action, !.bodies = bodies]
      BY <2>2, <2>3 DEF Calls
    <3>2. bodies \in 0..MaxOriginals + 1
      BY <2>3, HybridAssumption DEF Calls
    <3>3. action \in HookActions \cup {"None", "Unknown"}
      OBVIOUS
    <3> HIDE DEF bodies
    <3> QED
      BY ONLY <2>3, <3>1, <3>2, <3>3 DEF Calls
  <2>5. /\ call'.originals = call.originals
        /\ call'.bodies = call.originals
                + IF action \in {"ReturnToCaller", "ContinueAtAddress"} THEN 0 ELSE 1
    BY ONLY <2>1, <2>2, <2>3 DEF Calls
  <2>6. /\ UNCHANGED <<phase, hooks, tickets, dolphin>>
        /\ control = "callback" /\ control' = "executing"
    BY <1>10 DEF HookReturns, vars
  <2> QED
    BY <2>4, <2>5, <2>6
<1>11. ASSUME NEW outcome \in Outcomes, BlockEnds(outcome)
       PROVE  HybridTypeOK' /\ DispatchInv'
  <2>1. phase' # "in_jit"
    BY <1>11
    DEF BlockEnds, Report, JitExecutes, JitRefuses, JitFaults, Stop, Notify
  <2>2. NoCall \in Calls
    BY DEF NoCall, Calls
  <2>3. outcome.refusal_reason \in Bytes
    BY OutcomeFacts
  <2> QED
    BY <1>11, <2>1, <2>2, <2>3 DEF BlockEnds
<1>12. CASE DispatchThrows
  <2>1. NoCall \in Calls
    BY DEF NoCall, Calls
  <2> QED
    BY <1>12, <2>1 DEF DispatchThrows, JitThrows, Unwind
<1>13. ASSUME NEW execution \in InterpretedBlocks, InterpretRefused(execution)
       PROVE  HybridTypeOK' /\ DispatchInv'
  <2>1. phase # "in_jit" /\ phase' # "in_jit"
    BY <1>13 DEF InterpretRefused, FallbackReturns, Stop, Notify
  <2>2. DolphinJitRefusalReason[dolphin.refused + 1] \in JitRefusalReasons
    <3>1. dolphin.refused \in 0..3
      BY DEF Bytes, DolphinJitRefusalReason
    <3> QED
      BY <3>1 DEF DolphinJitRefusalReason, JitRefusalReasons
  <2>3. execution.instruction_count \in 0..MaxCounter + 1 /\ 1 \in 0..MaxCounter + 1
    BY WidthAssumption DEF InterpretedBlocks
  <2>4. dolphin' \in [refused : Bytes, blocks : [JitRefusalReasons -> 0..MaxCounter],
                      instructions : [JitRefusalReasons -> 0..MaxCounter]]
    <3>1. 0 \in Bytes
      BY DEF Bytes, DolphinJitRefusalReason
    <3> QED
      BY <1>13, <2>2, <2>3, <3>1, CounterSum DEF InterpretRefused
  <2> QED
    BY <1>13, <2>1, <2>4 DEF InterpretRefused
<1>14. ASSUME NEW execution \in InterpretedBlocks, InterpretDiagnostic(execution)
       PROVE  HybridTypeOK' /\ DispatchInv'
  BY <1>14 DEF InterpretDiagnostic, DiagnosticReturns, Stop, Notify, hybridVars
<1>15. CASE InterpreterThrows
  <2>1. 0 \in Bytes
    BY DEF Bytes, DolphinJitRefusalReason
  <2> QED
    BY <1>15, <2>1 DEF InterpreterThrows, FallbackThrows, DiagnosticThrows, Unwind
<1> QED
  BY <1>1, <1>2, <1>3, <1>4, <1>5, <1>6, <1>7, <1>8, <1>9, <1>10, <1>11, <1>12,
     <1>13, <1>14, <1>15, HybridCases DEF InsideDolphin

\* The account of the dispatch under way is always right.
LEMMA DispatchHolds == HybridSpec => [](HybridTypeOK /\ DispatchInv)
<1>1. IInv => TypeOK
  BY DEF IInv
<1> QED
  BY <1>1, DispatchInit, DispatchInvStep, SessionHolds, PTL DEF HybridSpec, hybridAll

\* No access gets at what follows a register file, whatever index native code
\* names; every variable keeps its type.
THEOREM HybridTypeCorrect == HybridSpec => []HybridTypeOK
  BY DispatchHolds, PTL

\* A hooked function runs as often as its native code asked for, for every hook,
\* ticket and action.
THEOREM BodiesAsAsked == HybridSpec => []BodyRunsAsAsked
<1>1. DispatchInv => BodyRunsAsAsked
  BY DEF DispatchInv
<1> QED
  BY <1>1, DispatchHolds, PTL

-----------------------------------------------------------------------------
(***************************************************************************)
(* The labels of the fallbacks                                             *)
(***************************************************************************)

\* The reason the session was given is the one Dolphin keeps.
SameReason ==
    phase = "in_fallback" =>
        refusal.reason = DolphinJitRefusalReason[dolphin.refused + 1]

\* Every step keeps the labels of both sides alike.
LEMMA ReasonsStep ==
    ASSUME DolphinConforms, IInv, HybridTypeOK, SameReason, ReasonsAgree,
           [HybridNext]_hybridAll
    PROVE  SameReason' /\ ReasonsAgree'
<1> USE DEF SameReason, ReasonsAgree
<1> TypeOK /\ OrderInv /\ LimitIsUsable
  BY DEF IInv
<1>1. CASE UNCHANGED hybridAll
  BY <1>1 DEF hybridAll, hybridVars, vars
<1>2. CASE InsideDolphin
  <2>1. UNCHANGED dolphin
    BY <1>2
    DEF InsideDolphin, InstallHook, RemoveHook, ArmOriginalCall, EnterBody,
        EnterHook, CallOriginal, OriginalExceedsBound, AccessRegister, HookReturns
  <2> QED
    BY <1>2, <2>1, InsideKeepsSession DEF vars
<1>3. CASE SessionAlone /\ UNCHANGED hybridVars
  <2>1. phase' # "in_fallback" /\ UNCHANGED statistics
    BY <1>3
    DEF SessionAlone, Construct, Run, Exhaust, BeginDiagnosticDispatch,
        SinkReplies, SinkReturns, SinkThrows, Stop, Unwind, sessionVars
  <2> QED
    BY <1>3, <2>1 DEF hybridVars
<1>4. CASE Offer
  BY <1>4 DEF Offer, BeginJitDispatch, TypeOK, ExecutionStatistics
<1>5. ASSUME NEW outcome \in Outcomes, BlockEnds(outcome)
      PROVE  SameReason' /\ ReasonsAgree'
  <2>1. /\ dolphin'.refused = outcome.refusal_reason
        /\ dolphin'.blocks = dolphin.blocks
        /\ dolphin'.instructions = dolphin.instructions
    BY <1>5 DEF BlockEnds, HybridTypeOK
  <2>2. CASE outcome.kind \in {"Compiled", "CacheHit"}
    BY <1>5, <2>1, <2>2
    DEF BlockEnds, Report, JitExecutes, JitCounted, Stop, Notify, TypeOK,
        ExecutionStatistics
  <2>3. CASE outcome.kind = "Refused"
    <3>1. JitRefuses([guest_pc |-> outcome.guest_pc,
                      reason |-> to_gcnport(outcome.refusal_reason)])
      BY <1>5, <2>3 DEF BlockEnds, Report
    <3> QED
      BY <2>1, <3>1, OutcomeFacts DEF JitRefuses, Stop
  <2>4. CASE outcome.kind \notin {"Compiled", "CacheHit", "Refused"}
    BY <1>5, <2>1, <2>4 DEF BlockEnds, Report, JitFaults, Stop
  <2> QED
    BY <2>2, <2>3, <2>4
<1>6. CASE DispatchThrows
  BY <1>6 DEF DispatchThrows, JitThrows, Unwind
<1>7. ASSUME NEW execution \in InterpretedBlocks, InterpretRefused(execution)
      PROVE  SameReason' /\ ReasonsAgree'
  <2> DEFINE count == execution.instruction_count
  <2>1. WithinOrder(execution)
    BY <1>7 DEF InterpretRefused
  <2>2. phase = "in_fallback" /\ FallbackReturns(execution)
    BY <1>7 DEF InterpretRefused, FallbackReturns
  <2>3. Recordable(configuration.fallback, refusal, execution, statistics)
    BY <2>1, <2>2, ConformingRecorded
  <2>4. phase' # "in_fallback" /\ statistics' = Recorded(refusal, execution, statistics)
    BY <2>2, <2>3 DEF FallbackReturns, Notify
  <2>5. refusal.reason \in JitRefusalReasons
    BY <2>2 DEF OrderInv
  <2>6. dolphin' = [dolphin EXCEPT !.refused = 0,
                        !.blocks[refusal.reason] = Add64(@, 1),
                        !.instructions[refusal.reason] = Add64(@, count)]
    BY <1>7, <2>2 DEF InterpretRefused
  <2>7. /\ dolphin'.blocks = [dolphin.blocks EXCEPT ![refusal.reason] = Add64(@, 1)]
        /\ dolphin'.instructions
                = [dolphin.instructions EXCEPT ![refusal.reason] = Add64(@, count)]
    BY <2>6 DEF HybridTypeOK
  <2>8. /\ statistics'.fallback_blocks_by_reason
                = [statistics.fallback_blocks_by_reason EXCEPT
                       ![refusal.reason] = Add64(@, 1)]
        /\ statistics'.fallback_instructions_by_reason
                = [statistics.fallback_instructions_by_reason EXCEPT
                       ![refusal.reason] = Add64(@, count)]
    BY <2>4 DEF Recorded, TypeOK, ExecutionStatistics
  <2> QED
    BY <2>4, <2>7, <2>8
<1>8. ASSUME NEW execution \in InterpretedBlocks, InterpretDiagnostic(execution)
      PROVE  SameReason' /\ ReasonsAgree'
  BY <1>8
  DEF InterpretDiagnostic, DiagnosticReturns, Stop, Notify, hybridVars, TypeOK,
      ExecutionStatistics
<1>9. CASE InterpreterThrows
  BY <1>9 DEF InterpreterThrows, FallbackThrows, DiagnosticThrows, Unwind, HybridTypeOK
<1> QED
  BY <1>1, <1>2, <1>3, <1>4, <1>5, <1>6, <1>7, <1>8, <1>9, HybridCases

\* The session labels every fallback as a Dolphin that conforms does, for every
\* budget, width and sequence of runs.
THEOREM LabelsAgree ==
    ASSUME DolphinConforms PROVE HybridSpec => []ReasonsAgree
<1>1. HybridInit => SameReason /\ ReasonsAgree
  BY DEF HybridInit, Init, NoStatistics, SameReason, ReasonsAgree
<1>2. IInv /\ HybridTypeOK /\ SameReason /\ ReasonsAgree /\ [HybridNext]_hybridAll
          => SameReason' /\ ReasonsAgree'
  BY ReasonsStep
<1> QED
  BY <1>1, <1>2, SessionHolds, HybridTypeCorrect, PTL DEF HybridSpec, hybridAll

-----------------------------------------------------------------------------
(***************************************************************************)
(* What the session promises, of a session on Dolphin.  Its proofs, read   *)
(* with a backend that conforms, are about ConformingBackend.              *)
(***************************************************************************)

Promise == INSTANCE ExecutionSessionProofs WITH BackendConforms <- TRUE

\* The state of the session is one of those its proofs are about.
LEMMA PromiseInit == Conforming!Init => Promise!Init
  BY DEF Conforming!Init, Conforming!NoStatistics, Conforming!JitRefusalReasons,
         Conforming!DefaultRefusal, Conforming!NoResult, Conforming!NoWork,
         Promise!Init, Promise!NoStatistics, Promise!JitRefusalReasons,
         Promise!DefaultRefusal, Promise!NoResult, Promise!NoWork

\* And so is each of its steps.
LEMMA PromiseStep == Conforming!Next => Promise!Next
  BY DEF
     Conforming!Next, Promise!Next, Conforming!SessionSteps,
     Promise!SessionSteps, Conforming!BackendReplies, Promise!BackendReplies,
     Conforming!SinkReplies, Promise!SinkReplies, Conforming!Construct,
     Promise!Construct, Conforming!Constructible, Promise!Constructible,
     Conforming!Run, Promise!Run, Conforming!Exhaust, Promise!Exhaust,
     Conforming!SinkReturns, Promise!SinkReturns, Conforming!SinkThrows,
     Promise!SinkThrows, Conforming!BeginJitDispatch, Promise!BeginJitDispatch,
     Conforming!JitExecutes, Promise!JitExecutes, Conforming!JitRefuses,
     Promise!JitRefuses, Conforming!JitExits, Promise!JitExits,
     Conforming!JitFaults, Promise!JitFaults, Conforming!JitThrows,
     Promise!JitThrows, Conforming!FallbackReturns, Promise!FallbackReturns,
     Conforming!FallbackThrows, Promise!FallbackThrows,
     Conforming!BeginDiagnosticDispatch, Promise!BeginDiagnosticDispatch,
     Conforming!DiagnosticReturns, Promise!DiagnosticReturns,
     Conforming!DiagnosticThrows, Promise!DiagnosticThrows,
     Conforming!DiagnosticLimit, Promise!DiagnosticLimit,
     Conforming!WithinOrder, Promise!WithinOrder, Conforming!LeaveScope,
     Promise!LeaveScope, Conforming!Stop, Promise!Stop, Conforming!Notify,
     Promise!Notify, Conforming!Unwind, Promise!Unwind, Conforming!JitCounted,
     Promise!JitCounted, Conforming!sessionVars, Promise!sessionVars,
     Conforming!BlocksExecuted, Promise!BlocksExecuted, Conforming!NoResult,
     Promise!NoResult, Conforming!DefaultRefusal, Promise!DefaultRefusal,
     Conforming!Refusals, Promise!Refusals, Conforming!InterpretedBlocks,
     Promise!InterpretedBlocks, Conforming!ValidBudget, Promise!ValidBudget,
     Conforming!Disabled, Promise!Disabled, Conforming!FullyConfigured,
     Promise!FullyConfigured, Conforming!can_enter, Promise!can_enter,
     Conforming!instruction_limit, Promise!instruction_limit,
     Conforming!Recordable, Promise!Recordable, Conforming!Recorded,
     Promise!Recorded, Conforming!Add64, Promise!Add64,
     Conforming!JitRefusalReasons, Promise!JitRefusalReasons,
     Conforming!InvalidReason, Promise!InvalidReason

\* The assumptions of the session's modules are those of this one.
LEMMA PromiseAssumptions ==
    Configurations \subseteq Promise!RuntimeConfigurations
  BY ConfigurationAssumption
  DEF RuntimeConfigurations, FallbackBudgets, Promise!RuntimeConfigurations,
      Promise!FallbackBudgets

\* So the invariant of a session whose backend conforms is that of this one.
LEMMA PromiseHolds ==
    ASSUME DolphinConforms
    PROVE  HybridSpec => [](Promise!IInv /\ Promise!ReasonsExact)
<1>1. Conforming!Init => Promise!IInv /\ Promise!ReasonsExact
  BY PromiseInit, Promise!InitIInv, Promise!ExactInit, PromiseAssumptions,
     WidthAssumption, AddressAssumption, BoundAssumption
<1>2. Promise!IInv /\ [Conforming!Next]_vars => [Promise!Next]_(Promise!vars)
  BY PromiseStep DEF vars, Promise!vars
<1>3. Promise!IInv /\ [Promise!Next]_(Promise!vars) => Promise!IInv'
  BY Promise!IInvStep, PromiseAssumptions, WidthAssumption, AddressAssumption,
     BoundAssumption
<1>4. Promise!IInv /\ Promise!ReasonsExact /\ [Promise!Next]_(Promise!vars)
          => Promise!ReasonsExact'
  BY Promise!ExactStep, PromiseAssumptions, WidthAssumption, AddressAssumption,
     BoundAssumption
<1> QED
  BY <1>1, <1>2, <1>3, <1>4, AdapterConforms, PTL DEF ConformingBackend

\* Over a Dolphin that executes what it is asked to, no budget is passed, the
\* statistics are what was executed, and a run that stops on the fallback budget
\* has used up one of its totals, after any hook, ticket, exception, outcome of a
\* kind the adapter does not know, and run.
THEOREM PromisesKept ==
    ASSUME DolphinConforms
    PROVE  HybridSpec => [](/\ Conforming!BudgetRespected
                            /\ Conforming!AccountingExact
                            /\ Conforming!StopIsJustified)
<1>1. Promise!IInv => /\ Conforming!BudgetRespected
                      /\ Conforming!AccountingExact
                      /\ Conforming!StopIsJustified
  BY DEF Promise!IInv, Promise!RecordedWithinBudget, Promise!AccountingExact,
         Promise!StopIsJustified, Conforming!BudgetRespected,
         Conforming!AccountingExact, Conforming!StopIsJustified
<1> QED
  BY <1>1, PromiseHolds, PTL

\* Over a Dolphin that executes what it is asked to, every interpreted block is
\* recorded before the JIT is called again (README.md:17-19), in this run and in
\* the next; without that the adapter does not bring it about, since it passes on
\* what Dolphin reports (dolphin_adapter.cpp:206-209).
THEOREM RecordedOverDolphin ==
    ASSUME DolphinConforms PROVE HybridSpec => []RecordedBeforeJit
<1>1. Promise!IInv => RecordedBeforeJit
  BY DEF Promise!IInv, Promise!AccountingExact, RecordedBeforeJit
<1> QED
  BY <1>1, PromiseHolds, PTL

\* What Dolphin interpreted is in its own books, by the reasons it refused for, as
\* a number and not in wrapping arithmetic: what it booked is what it did, is what
\* the session recorded, and is within the budget.
BooksBalance ==
    /\ PlainSum(dolphin.blocks) = backend.fallback_blocks
    /\ PlainSum(dolphin.instructions) = backend.fallback_instructions
    /\ backend.fallback_blocks <= configuration.fallback.maximum_blocks
    /\ backend.fallback_instructions
            <= configuration.fallback.maximum_total_instructions

\* The counters by reason of a Dolphin that conforms are a second account of the
\* same work, and balance.
THEOREM DolphinsBooksBalance ==
    ASSUME DolphinConforms PROVE HybridSpec => []BooksBalance
<1>1. Promise!IInv /\ Promise!ReasonsExact /\ ReasonsAgree => BooksBalance
  BY DEF Promise!IInv, Promise!RecordedWithinBudget, Promise!AccountingExact,
         Promise!ReasonsExact, Promise!PlainSum, PlainSum, ReasonsAgree, BooksBalance
<1> QED
  BY <1>1, PromiseHolds, LabelsAgree, PTL

\* The session on a Dolphin that conforms implements the metered budget.
THEOREM MeterOverDolphin ==
    ASSUME DolphinConforms PROVE HybridSpec => Conforming!MetersFallback
<1>1. Conforming!Init => Conforming!Meter!MeterInit
  BY DEF Conforming!Init, Conforming!NoWork, Conforming!MeterBudget,
         Conforming!Meter!MeterInit, Conforming!Meter!Unconfigured
<1>2. Promise!IInv /\ [Promise!Next]_(Promise!vars)
          => [Promise!Meter!MeterNext]_(Promise!Meter!meterVars)
  BY Promise!MeterStep, PromiseAssumptions, WidthAssumption, AddressAssumption,
     BoundAssumption DEF Promise!IInv
<1>3. Promise!IInv /\ [Conforming!Next]_vars => [Promise!Next]_(Promise!vars)
  BY PromiseStep DEF vars, Promise!vars
<1>4. [Promise!Meter!MeterNext]_(Promise!Meter!meterVars)
          => [Conforming!Meter!MeterNext]_(Conforming!Meter!meterVars)
  BY DEF Promise!Meter!MeterNext, Promise!Meter!meterVars, Promise!Meter!Configure,
         Promise!Meter!Spend, Promise!Meter!Unconfigured, Promise!MeterBudget,
         Conforming!Meter!MeterNext, Conforming!Meter!meterVars,
         Conforming!Meter!Configure, Conforming!Meter!Spend,
         Conforming!Meter!Unconfigured, Conforming!MeterBudget
<1> QED
  BY <1>1, <1>2, <1>3, <1>4, PromiseHolds, AdapterConforms, PTL
  DEF ConformingBackend, Conforming!MetersFallback, Conforming!Meter!MeterSpec
=============================================================================
