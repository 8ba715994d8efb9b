---------------------------- MODULE HybridRuntime ----------------------------
(***************************************************************************)
(* An ExecutionSession on a DolphinRuntimeAdapter (dolphin_adapter.cpp,    *)
(* guest_context.h): every block of the session goes through Dolphin, and  *)
(* at a hooked address through native code, which may call the guest       *)
(* function it stands in for.                                              *)
(*                                                                         *)
(* Dolphin's RuntimeSession is external, modelled by what the adapter and  *)
(* the session ask of it: it executes one block per call and refuses for a *)
(* reason of its own enumeration, of which ours is a mirror kept by hand.  *)
(* The adapter passes on the address and the number of instructions that   *)
(* Dolphin reports as they are: whether they are what was asked for is a   *)
(* parameter.  The kind of an outcome may be one the adapter does not      *)
(* know.  Hooks here are those Dolphin accepted: DolphinAdapter says how   *)
(* their storage comes and goes.  What registers and memory hold is left   *)
(* out, the index native code names is not.                                *)
(***************************************************************************)
EXTENDS ExecutionSession, Sequences

CONSTANTS
    DolphinConforms, \* does Dolphin execute something, and what it is asked to?
    RegisterCount,   \* of each of the two files
    MaxOriginals     \* bound: calls of call_original in one callback

ASSUME HybridAssumption ==
    /\ DolphinConforms \in BOOLEAN
    /\ RegisterCount \in Nat \ {0} /\ MaxOriginals \in Nat

VARIABLES
    hooks,           \* the addresses with an installed hook
    tickets,         \* those whose next entry runs the body instead
    control,         \* where Dolphin is in execute_jit_block
    call,            \* the dispatch of a hooked function under way
    dolphin          \* its own books: the reason it refused for, its counters

hybridVars == <<hooks, tickets, control, call, dolphin>>

HookAddresses == GuestAddresses \ {0}

HookActions == {"ReturnToCaller", "ContinueAtAddress", "CallOriginalOnce"}

\* `touched` are the registers native code got at, `originals` counts its calls
\* of call_original, `asked` is what it returned, an action outside the
\* enumeration included, and `bodies` how often Dolphin was made to run the
\* guest body.
Calls == [hooked : BOOLEAN, entered : BOOLEAN, touched : SUBSET (0..RegisterCount - 1),
          originals : 0..MaxOriginals, asked : HookActions \cup {"None", "Unknown"},
          bodies : 0..MaxOriginals + 1]

NoCall == [hooked |-> FALSE, entered |-> FALSE, touched |-> {}, originals |-> 0,
           asked |-> "None", bodies |-> 0]

\* The order of the enumerators, here and in Dolphin: a reason crosses the
\* boundary as its byte.
JitRefusalReason == <<"UnsupportedInstruction", "UnsafeInstructionFetch",
                      "UnsafeHostExecution", "PrivilegedInstruction">>

DolphinJitRefusalReason == <<"UnsupportedInstruction", "UnsafeInstructionFetch",
                             "UnsafeHostExecution", "PrivilegedInstruction">>

Bytes == 0..Len(DolphinJitRefusalReason) - 1

Outcomes ==
    [kind : {"Compiled", "CacheHit"}, guest_pc : GuestAddresses,
     instruction_count : 0..MaxCount, refusal_reason : {0}]
    \cup [kind : {"Refused"}, guest_pc : GuestAddresses,
          instruction_count : {0}, refusal_reason : Bytes]
    \cup [kind : {"BackendFault", "Unknown"}, guest_pc : GuestAddresses,
          instruction_count : {0}, refusal_reason : {0}]

\* With the registers: no access, whatever index a consumer names, gets at what
\* follows either file (dolphin_adapter.cpp:113-133).
HybridTypeOK ==
    /\ TypeOK
    /\ hooks \subseteq HookAddresses
    /\ tickets \subseteq HookAddresses
    /\ control \in {"outside", "dispatching", "callback", "executing", "terminated"}
    /\ control # "outside" <=> phase = "in_jit"
    /\ call \in Calls
    /\ dolphin \in [refused : Bytes, blocks : [JitRefusalReasons -> 0..MaxCounter],
                    instructions : [JitRefusalReasons -> 0..MaxCounter]]

HybridInit ==
    /\ Init
    /\ hooks = {} /\ tickets = {}
    /\ control = "outside"
    /\ call = NoCall
    /\ dolphin = [refused |-> 0, blocks |-> [r \in JitRefusalReasons |-> 0],
                  instructions |-> [r \in JitRefusalReasons |-> 0]]

-----------------------------------------------------------------------------
\* The consumer, at a stopped safe point.

\* Whether Dolphin drops a ticket when its hook changes is Dolphin's affair.
InstallHook(address) ==
    /\ phase = "idle"
    /\ hooks' = hooks \cup {address}
    /\ tickets' \in {tickets, tickets \ {address}}
    /\ UNCHANGED <<vars, control, call, dolphin>>

RemoveHook(address) ==
    /\ phase = "idle"
    /\ hooks' = hooks \ {address}
    /\ tickets' \in {tickets, tickets \ {address}}
    /\ UNCHANGED <<vars, control, call, dolphin>>

\* arm_original_call returns false where no hook is installed.
ArmOriginalCall(address) ==
    /\ phase = "idle"
    /\ tickets' = IF address \in hooks THEN tickets \cup {address} ELSE tickets
    /\ UNCHANGED <<vars, hooks, control, call, dolphin>>

-----------------------------------------------------------------------------
\* Inside execute_jit_block: Dolphin enters the block at the guest's PC.

Offer ==
    /\ BeginJitDispatch
    /\ control' = "dispatching"
    /\ call' = NoCall
    /\ UNCHANGED <<hooks, tickets, dolphin>>

\* No hook is in front of the block, or a ticket takes its place once.
EnterBody(address) ==
    /\ control = "dispatching"
    /\ address \notin hooks \/ address \in tickets
    /\ tickets' = tickets \ {address}
    /\ call' = [call EXCEPT !.hooked = address \in hooks, !.bodies = 1]
    /\ control' = "executing"
    /\ UNCHANGED <<vars, hooks, dolphin>>

\* Binding::Invoke.
EnterHook(address) ==
    /\ control = "dispatching"
    /\ address \in hooks \ tickets
    /\ call' = [call EXCEPT !.hooked = TRUE, !.entered = TRUE]
    /\ control' = "callback"
    /\ UNCHANGED <<vars, hooks, tickets, dolphin>>

\* call_original: the body of the key the hook is installed at, inside the
\* callback.
CallOriginal ==
    /\ control = "callback"
    /\ call.originals < MaxOriginals
    /\ call' = [call EXCEPT !.originals = @ + 1, !.bodies = @ + 1]
    /\ UNCHANGED <<vars, hooks, tickets, control, dolphin>>

\* checked_register_index and checked_floating_register_index.
RegisterExists(index) == index < RegisterCount

\* general_register, floating_register and their setters throw.
AccessRegister(index) ==
    /\ control = "callback"
    /\ IF RegisterExists(index)
       THEN call' = [call EXCEPT !.touched = @ \cup {index}] /\ UNCHANGED control
       ELSE control' = "terminated" /\ UNCHANGED call
    /\ UNCHANGED <<vars, hooks, tickets, dolphin>>

\* Nothing may unwind through generated code: the process ends.
OriginalExceedsBound ==
    /\ control = "callback"
    /\ control' = "terminated"
    /\ UNCHANGED <<vars, hooks, tickets, call, dolphin>>

\* Mutation of to_dolphin: an unknown action returns to the caller.
to_dolphin_returning(action) ==
    CASE action = "ContinueAtAddress" -> "ContinueAt"
      [] action = "CallOriginalOnce" -> "RunOriginalOnce"
      [] OTHER -> "ReturnToCaller"

\* to_dolphin of a HookResult.
to_dolphin(action) ==
    CASE action = "ReturnToCaller" -> "ReturnToCaller"
      [] action = "ContinueAtAddress" -> "ContinueAt"
      [] OTHER -> "RunOriginalOnce"

HookReturns(action) ==
    /\ control = "callback"
    /\ call' = [call EXCEPT !.asked = action,
                    !.bodies = IF to_dolphin(action) = "RunOriginalOnce" THEN @ + 1 ELSE @]
    /\ control' = "executing"
    /\ UNCHANGED <<vars, hooks, tickets, dolphin>>

-----------------------------------------------------------------------------
\* What execute_jit_block makes of Dolphin's outcome.

\* Mutation of to_gcnport: the mirror has two members in another order.
to_gcnport_reordered(byte) ==
    LET reasons == <<"UnsupportedInstruction", "UnsafeHostExecution",
                     "UnsafeInstructionFetch", "PrivilegedInstruction">>
    IN  IF byte < Len(reasons) THEN reasons[byte + 1] ELSE InvalidReason

\* to_gcnport of a JitRefusalReason.
to_gcnport(byte) ==
    IF byte < Len(JitRefusalReason) THEN JitRefusalReason[byte + 1] ELSE InvalidReason

\* Mutation of Report: an unknown kind is a cache hit.
ReportAsExecution(outcome) ==
    CASE outcome.kind = "Refused" ->
            JitRefuses([guest_pc |-> outcome.guest_pc,
                        reason |-> to_gcnport(outcome.refusal_reason)])
      [] outcome.kind = "BackendFault" -> JitFaults(outcome.guest_pc)
      [] OTHER -> JitExecutes(outcome.guest_pc, outcome.instruction_count,
                              outcome.kind = "Compiled")

\* The step handed to the session; a kind outside the enumeration is a fault.
Report(outcome) ==
    CASE outcome.kind \in {"Compiled", "CacheHit"} ->
            JitExecutes(outcome.guest_pc, outcome.instruction_count,
                        outcome.kind = "Compiled")
      [] outcome.kind = "Refused" ->
            JitRefuses([guest_pc |-> outcome.guest_pc,
                        reason |-> to_gcnport(outcome.refusal_reason)])
      [] OTHER -> JitFaults(outcome.guest_pc)

\* A block that was executed has an instruction.
ExecutesSome(outcome) ==
    outcome.kind \in {"Compiled", "CacheHit"} => outcome.instruction_count # 0

\* Dolphin keeps the reason, since execute_refused_block names none.
BlockEnds(outcome) ==
    /\ control = "executing"
    /\ DolphinConforms => ExecutesSome(outcome)
    /\ Report(outcome)
    /\ control' = "outside"
    /\ call' = NoCall
    /\ dolphin' = [dolphin EXCEPT !.refused = outcome.refusal_reason]
    /\ UNCHANGED <<hooks, tickets>>

\* An exception of ExecuteJitBlock, outside a callback.
DispatchThrows ==
    /\ control \in {"dispatching", "executing"}
    /\ JitThrows
    /\ control' = "outside"
    /\ call' = NoCall
    /\ UNCHANGED <<hooks, tickets, dolphin>>

-----------------------------------------------------------------------------
\* execute_refused_block and execute_diagnostic_interpreter_block.

\* The address and the bound are passed on, and what comes back is passed back,
\* unchecked; Dolphin books under its reason.
InterpretRefused(execution) ==
    /\ DolphinConforms => WithinOrder(execution)
    /\ FallbackReturns(execution)
    /\ LET reason == DolphinJitRefusalReason[dolphin.refused + 1]
       IN  dolphin' = [dolphin EXCEPT !.refused = 0,
                                      !.blocks[reason] = Add64(@, 1),
                                      !.instructions[reason] =
                                          Add64(@, execution.instruction_count)]
    /\ UNCHANGED <<hooks, tickets, control, call>>

InterpretDiagnostic(execution) ==
    /\ DolphinConforms => execution.instruction_count \in 1..DiagnosticLimit
    /\ DiagnosticReturns(execution)
    /\ UNCHANGED hybridVars

InterpreterThrows ==
    /\ FallbackThrows \/ DiagnosticThrows
    /\ dolphin' = [dolphin EXCEPT !.refused = 0]
    /\ UNCHANGED <<hooks, tickets, control, call>>

-----------------------------------------------------------------------------
\* What the session does besides calling its backend.
SessionAlone == Construct \/ Run \/ Exhaust \/ BeginDiagnosticDispatch \/ SinkReplies

HybridNext ==
    \/ SessionAlone /\ UNCHANGED hybridVars
    \/ \E address \in HookAddresses :
           InstallHook(address) \/ RemoveHook(address) \/ ArmOriginalCall(address)
    \/ Offer
    \/ \E address \in GuestAddresses : EnterBody(address) \/ EnterHook(address)
    \/ CallOriginal \/ OriginalExceedsBound
    \/ \E index \in 0..RegisterCount : AccessRegister(index)
    \/ \E action \in HookActions \cup {"Unknown"} : HookReturns(action)
    \/ \E outcome \in Outcomes : BlockEnds(outcome)
    \/ DispatchThrows
    \/ \E execution \in InterpretedBlocks :
           InterpretRefused(execution) \/ InterpretDiagnostic(execution)
    \/ InterpreterThrows

HybridSpec == HybridInit /\ [][HybridNext]_<<vars, hybridVars>>

-----------------------------------------------------------------------------
(***************************************************************************)
(* Properties                                                              *)
(***************************************************************************)

Conforming == INSTANCE ExecutionSession WITH BackendConforms <- TRUE

\* The adapter adds nothing that breaks the contract of RuntimeBackend: with
\* hooks, tickets, exceptions and kinds it does not know, a session on it is one
\* with a conforming backend as long as Dolphin executes what it is asked to,
\* which the adapter does not check (runtime_backend.h:8-9,
\* dolphin_adapter.cpp:197-200 and :206-209).
ConformingBackend == Conforming!Init /\ [][Conforming!Next]_vars

\* A hooked function is never skipped unless the native code said so, and never
\* run once more than asked: each dispatch runs its body once for a ticket, or
\* once for each call_original and once more unless the callback returned to
\* the caller or named a continuation (dolphin_adapter.cpp:41-44).
BodyRunsAsAsked ==
    control = "executing" /\ call.hooked =>
        call.bodies =
            IF ~call.entered THEN 1
            ELSE call.originals
                    + IF call.asked \in {"ReturnToCaller", "ContinueAtAddress"} THEN 0 ELSE 1

\* Every fallback the session reports is labelled as Dolphin labels it, in all
\* runs together, after exceptions and exhausted budgets too: a member out of
\* order in either enumeration relabels every fallback of a consumer's report
\* (execution_types.h:25-27, dolphin_adapter.cpp:143-149).
ReasonsAgree ==
    /\ statistics.fallback_blocks_by_reason = dolphin.blocks
    /\ statistics.fallback_instructions_by_reason = dolphin.instructions
=============================================================================
