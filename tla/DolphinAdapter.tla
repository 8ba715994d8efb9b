---------------------------- MODULE DolphinAdapter ----------------------------
(***************************************************************************)
(* DolphinRuntimeAdapter (dolphin_adapter.h, dolphin_adapter.cpp): the     *)
(* owner of the callables Dolphin's RuntimeSession reaches through raw     *)
(* context pointers.                                                       *)
(*                                                                         *)
(* Everything runs on the CPU thread and the hooks change at a safe point, *)
(* so never inside a callback.  A step is what happens between two places  *)
(* where a callee can throw; a Binding is a cell of a heap that gives freed*)
(* cells out again.  RuntimeSession is external: a table of contexts by    *)
(* key, which refuses a key of another identity by throwing or by doing    *)
(* nothing (install_hook has no result to look at), and which has the      *)
(* strong guarantee when it throws.  The operations that only convert and  *)
(* forward to it keep no state here.                                       *)
(***************************************************************************)
EXTENDS HookKeys

CONSTANTS
    Keys,            \* the keys the consumer names
    SessionIdentity, \* the image and generation the session runs under
    Callbacks,       \* the callables, the empty one among them
    EmptyCallback,   \* a default-constructed std::function
    NoHook,          \* no callable
    Bindings,        \* the addresses a Binding can have
    Null,            \* the null pointer
    Freed            \* what a cell holds that is not allocated

ASSUME AdapterAssumption ==
    /\ Keys \subseteq HookKey
    /\ SessionIdentity \in [image : Images, module_generation : Generations]
    /\ EmptyCallback \in Callbacks
    /\ NoHook \notin Callbacks
    /\ Null \notin Bindings
    /\ Freed \notin [hook : Callbacks, key : Keys]

VARIABLES
    bindings,        \* bindings_: the cell each key owns
    heap,            \* what each cell holds
    session,         \* the context the session dispatches a key through
    step,            \* what the adapter is about to do
    key,             \* the key argument of the call under way
    binding,         \* install_hook's local unique_ptr
    invoking,        \* the context Invoke is running on
    entered,         \* the callable the last dispatch entered
    lost             \* the keys dispatched through a binding nobody owns: the
                     \* allocation of the map node threw, and nothing has
                     \* pointed the session elsewhere since

vars == <<bindings, heap, session, step, key, binding, invoking, entered, lost>>

Steps == {"idle", "install_point", "install_store", "remove_erase",
          "destroying", "destroyed", "terminated"}

TypeOK ==
    /\ bindings \in [Keys -> Bindings \cup {Null}]
    /\ heap \in [Bindings -> [hook : Callbacks, key : Keys] \cup {Freed}]
    /\ session \in [Keys -> Bindings \cup {Null}]
    /\ step \in Steps
    /\ key \in Keys
    /\ binding \in Bindings \cup {Null}
    /\ invoking \in Bindings \cup {Null}
    /\ entered \in Callbacks \cup {NoHook}
    /\ lost \subseteq Keys

Init ==
    /\ bindings = [k \in Keys |-> Null]
    /\ heap = [b \in Bindings |-> Freed]
    /\ session = [k \in Keys |-> Null]
    /\ step = "idle"
    /\ key \in Keys
    /\ binding = Null
    /\ invoking = Null
    /\ entered = NoHook
    /\ lost = {}

-----------------------------------------------------------------------------
\* The session refuses every other key.
Accepts(k) ==
    /\ is_valid(k)
    /\ k.image = SessionIdentity.image
    /\ k.module_generation = SessionIdentity.module_generation

SafePoint == step = "idle" /\ invoking = Null

\* The unique_ptr that held cell b, if it held one, lets it go.
Free(b) == heap' = [c \in Bindings |-> IF c = b THEN Freed ELSE heap[c]]

\* Mutation of Abandon: a raw pointer frees nothing.
AbandonLeaking ==
    /\ binding' = Null
    /\ step' = "idle"
    /\ UNCHANGED <<bindings, heap, session, key, invoking, entered>>

\* An exception leaves install_hook; the local unique_ptr frees its cell.
Abandon ==
    /\ Free(binding)
    /\ binding' = Null
    /\ step' = "idle"
    /\ UNCHANGED <<bindings, session, key, invoking, entered>>

-----------------------------------------------------------------------------
(***************************************************************************)
(* install_hook.  Nothing has happened yet when make_unique throws.        *)
(***************************************************************************)

\* Mutation of InstallCall: the storage it replaces is dropped first.
InstallCallDroppingFirst(k, h) ==
    /\ SafePoint
    /\ \E b \in Bindings :
           /\ heap[b] = Freed
           /\ heap' = [c \in Bindings |->
                          IF c = b THEN [hook |-> h, key |-> k]
                          ELSE IF c = bindings[k] THEN Freed ELSE heap[c]]
           /\ binding' = b
    /\ bindings' = [bindings EXCEPT ![k] = Null]
    /\ key' = k
    /\ step' = "install_point"
    /\ UNCHANGED <<session, invoking, entered, lost>>

InstallCall(k, h) ==
    /\ SafePoint
    /\ \E b \in Bindings :
           /\ heap[b] = Freed
           /\ heap' = [heap EXCEPT ![b] = [hook |-> h, key |-> k]]
           /\ binding' = b
    /\ key' = k
    /\ step' = "install_point"
    /\ UNCHANGED <<bindings, session, invoking, entered, lost>>

InstallPoint ==
    /\ step = "install_point"
    /\ \/ /\ session' = IF Accepts(key) THEN [session EXCEPT ![key] = binding]
                                        ELSE session
          /\ lost' = lost \ {key}
          /\ step' = "install_store"
          /\ UNCHANGED <<bindings, heap, key, binding, invoking, entered>>
       \/ Abandon /\ UNCHANGED lost

\* Mutation of InstallStore: insert, which keeps the old binding.
InstallStoreInserting ==
    /\ step = "install_store"
    /\ bindings' = [bindings EXCEPT ![key] = IF @ = Null THEN binding ELSE @]
    /\ Free(IF bindings[key] = Null THEN Null ELSE binding)
    /\ binding' = Null
    /\ step' = "idle"
    /\ UNCHANGED <<session, key, invoking, entered, lost>>

\* insert_or_assign: an assignment frees the cell it replaces, an insertion
\* allocates a node first.
InstallStore ==
    /\ step = "install_store"
    /\ \/ /\ bindings' = [bindings EXCEPT ![key] = binding]
          /\ Free(bindings[key])
          /\ binding' = Null
          /\ step' = "idle"
          /\ UNCHANGED <<session, key, invoking, entered, lost>>
       \/ /\ bindings[key] = Null
          /\ lost' = IF Accepts(key) THEN lost \cup {key} ELSE lost
          /\ Abandon

-----------------------------------------------------------------------------
(***************************************************************************)
(* remove_hook and the destructor                                          *)
(***************************************************************************)

RemoveCall(k) ==
    /\ SafePoint
    /\ session' = [session EXCEPT ![k] = Null]
    /\ lost' = lost \ {k}
    /\ key' = k
    /\ step' = "remove_erase"
    /\ UNCHANGED <<bindings, heap, binding, invoking, entered>>

RemoveErase ==
    /\ step = "remove_erase"
    /\ bindings' = [bindings EXCEPT ![key] = Null]
    /\ Free(bindings[key])
    /\ step' = "idle"
    /\ UNCHANGED <<session, key, binding, invoking, entered, lost>>

DestroyCall ==
    /\ SafePoint
    /\ step' = "destroying"
    /\ UNCHANGED <<bindings, heap, session, key, binding, invoking, entered, lost>>

DestroyRemove(k) ==
    /\ step = "destroying"
    /\ bindings[k] # Null
    /\ session[k] # Null
    /\ session' = [session EXCEPT ![k] = Null]
    /\ UNCHANGED <<bindings, heap, step, key, binding, invoking, entered, lost>>

\* Mutation of DestroyMembers: the destructor revokes nothing.
DestroyMembersAtOnce ==
    /\ step = "destroying"
    /\ bindings' = [k \in Keys |-> Null]
    /\ heap' = [c \in Bindings |-> IF \E k \in Keys : bindings[k] = c
                                   THEN Freed ELSE heap[c]]
    /\ step' = "destroyed"
    /\ UNCHANGED <<session, key, binding, invoking, entered, lost>>

DestroyMembers ==
    /\ step = "destroying"
    /\ \A k \in Keys : bindings[k] # Null => session[k] = Null
    /\ bindings' = [k \in Keys |-> Null]
    /\ heap' = [c \in Bindings |-> IF \E k \in Keys : bindings[k] = c
                                   THEN Freed ELSE heap[c]]
    /\ step' = "destroyed"
    /\ UNCHANGED <<session, key, binding, invoking, entered, lost>>

-----------------------------------------------------------------------------
(***************************************************************************)
(* The session, which outlives the adapter, enters a hook; the callback    *)
(* returns, or throws into a noexcept function.                            *)
(***************************************************************************)

\* What a read of a freed cell finds is undefined.
Callable(b) == IF heap[b] = Freed THEN Callbacks \cup {NoHook} ELSE {heap[b].hook}

Invoke(k) ==
    /\ step \in {"idle", "destroyed"}
    /\ invoking = Null
    /\ session[k] # Null
    /\ invoking' = session[k]
    /\ entered' \in Callable(session[k])
    /\ UNCHANGED <<bindings, heap, session, step, key, binding, lost>>

CallbackReturns ==
    /\ step # "terminated"
    /\ invoking # Null
    /\ entered # EmptyCallback
    /\ invoking' = Null
    /\ UNCHANGED <<bindings, heap, session, step, key, binding, entered, lost>>

CallbackThrows ==
    /\ step # "terminated"
    /\ invoking # Null
    /\ step' = "terminated"
    /\ UNCHANGED <<bindings, heap, session, key, binding, invoking, entered, lost>>

-----------------------------------------------------------------------------
Next ==
    \/ \E k \in Keys :
           \/ \E h \in Callbacks : InstallCall(k, h)
           \/ RemoveCall(k)
           \/ DestroyRemove(k)
           \/ Invoke(k)
    \/ InstallPoint \/ InstallStore \/ RemoveErase
    \/ DestroyCall \/ DestroyMembers
    \/ CallbackReturns \/ CallbackThrows

Spec == Init /\ [][Next]_vars

-----------------------------------------------------------------------------
(***************************************************************************)
(* Properties                                                              *)
(***************************************************************************)

\* The context of a key is the live binding of that very key.
Live(k) == session[k] # Null => heap[session[k]] # Freed /\ heap[session[k]].key = k

\* "The session dispatches through raw pointers into `bindings_`, so every
\* installed hook has to go before this object's storage does"
\* (dolphin_adapter.cpp:174-175): each context it would dispatch through is
\* live, and so is the binding of a callback until the callback returns.  An
\* install that cannot allocate its map node breaks it.
ContextsAlwaysLive ==
    /\ \A k \in Keys : Live(k)
    /\ invoking # Null => heap[invoking] # Freed

\* Nothing else does, and no other key suffers: half-way through an install, a
\* replacement, a refused install, a removal and the destructor too, the context
\* of every key but the lost ones is live, so that call_original names the body
\* the hook stands in front of; a lost key is whole again once it is removed or
\* installed again.
NoDanglingContext ==
    /\ \A k \in Keys \ lost : Live(k)
    /\ invoking # Null =>
           heap[invoking] # Freed \/ \E k \in lost : session[k] = invoking

\* A binding has one owner as long as it lives: the map, under the key it was
\* made for, or the install under way.  Replacing, removing, a refused install
\* and an exception neither leak a cell nor free one twice.
Owners(b) == {k \in Keys : bindings[k] = b}

EveryBindingOwned ==
    \A b \in Bindings :
        IF heap[b] = Freed THEN Owners(b) = {} /\ binding # b
        ELSE Owners(b) = IF binding = b THEN {} ELSE {heap[b].key}

\* Between calls the adapter can still revoke whatever the session dispatches,
\* and once it is destroyed the session dispatches nothing of it, but for the
\* lost keys.
SessionRevocable ==
    \A k \in Keys \ lost :
        /\ step = "idle" => session[k] \in {Null, bindings[k]}
        /\ step = "destroyed" => session[k] = Null

\* What the session would enter at a key.
Entry(k) ==
    IF session[k] = Null \/ k \in lost THEN NoHook
    ELSE IF heap[session[k]] = Freed THEN Freed
    ELSE heap[session[k]].hook

Table == INSTANCE HookTable WITH
    TableKeys <- Keys,
    Hooks <- Callbacks,
    Absent <- NoHook,
    Readers <- {"cpu"},
    table <- [k \in Keys |-> Entry(k)],
    answers <- [r \in {"cpu"} |-> entered]

\* The same promise as the registry's: dispatch sees a table of hooks that
\* changes at once or not at all, in which a lost key has no hook; only what is
\* dispatched at a lost key is not its answer.
ServesTable ==
    /\ Table!TableInit
    /\ [][(\E k \in lost : Invoke(k)) \/ Table!TableNext]_(Table!tableVars)
=============================================================================
