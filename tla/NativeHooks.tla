------------------------------ MODULE NativeHooks ------------------------------
(***************************************************************************)
(* NativeHookRegistry (native_hooks.h, native_hooks.cpp): the hooks kept   *)
(* by exact key under a shared_mutex, each change preceded, under the lock,*)
(* by the invalidation of the code at its address.                         *)
(*                                                                         *)
(* Each thread calls one operation at a time.  A step is what a thread does*)
(* between two points where another thread can run or a callee can throw.  *)
(* The translator is the CodeInvalidator's side of the bargain: the thread *)
(* Cpu looks a key up, may translate what it found into code, and later    *)
(* runs that code without looking up again.  Keys of several generations   *)
(* may share an address, and invalidation goes by the address alone.       *)
(***************************************************************************)
EXTENDS HookKeys

CONSTANTS
    Callbacks,       \* the callables that are not empty
    EmptyCallback,   \* a default-constructed std::function
    NoHook,          \* std::nullopt
    Untranslated,    \* no code at a key
    Cpu,             \* the thread that translates and runs code
    Hosts,           \* the embedder's other threads
    Nobody           \* the lock is not held

Threads == Hosts \cup {Cpu}
ValidKeys == {k \in HookKey : is_valid(k)}

ASSUME HookAssumption ==
    /\ {EmptyCallback, NoHook, Untranslated} \cap Callbacks = {}
    /\ EmptyCallback # NoHook
    /\ NoHook # Untranslated
    /\ Nobody \notin Threads

VARIABLES
    hooks,           \* storage_->hooks
    writer,          \* the thread that holds the mutex exclusively
    readers,         \* the threads that hold it shared
    step,            \* what each thread is about to do
    key,             \* the key argument of each thread's call
    hook,            \* the hook argument of each thread's install
    found,           \* the copy each thread's last find returned
    code             \* the selection translated into the code at a key

vars == <<hooks, writer, readers, step, key, hook, found, code>>

Steps == {"idle", "install_lock", "install_invalidate", "install_assign",
          "remove_lock", "remove_contains", "remove_invalidate", "remove_erase",
          "find_lock", "find_read", "translate"}

Installing == {"install_lock", "install_invalidate", "install_assign"}
Removing == {"remove_lock", "remove_contains", "remove_invalidate", "remove_erase"}

TypeOK ==
    /\ hooks \in [HookKey -> Callbacks \cup {NoHook}]
    /\ writer \in Threads \cup {Nobody}
    /\ readers \subseteq Threads
    /\ step \in [Threads -> Steps]
    /\ key \in [Threads -> HookKey]
    /\ hook \in [Threads -> Callbacks \cup {EmptyCallback}]
    /\ found \in [Threads -> Callbacks \cup {NoHook}]
    /\ code \in [HookKey -> Callbacks \cup {NoHook, Untranslated}]
    /\ \A t \in Threads : step[t] \in Installing => hook[t] \in Callbacks

Init ==
    /\ hooks = [k \in HookKey |-> NoHook]
    /\ writer = Nobody
    /\ readers = {}
    /\ step = [t \in Threads |-> "idle"]
    /\ key = [t \in Threads |-> DefaultKey]
    /\ hook = [t \in Threads |-> EmptyCallback]
    /\ found = [t \in Threads |-> NoHook]
    /\ code = [k \in HookKey |-> Untranslated]

-----------------------------------------------------------------------------
(***************************************************************************)
(* The lock, and what is common to the operations                          *)
(***************************************************************************)

Goto(t, s) == step' = [step EXCEPT ![t] = s]

\* Mutation of LockExclusive: it does not wait for the readers.
LockExclusiveAmongReaders(t) == writer = Nobody /\ writer' = t

LockExclusive(t) == writer = Nobody /\ readers = {} /\ writer' = t
LockShared(t) == writer = Nobody /\ readers' = readers \cup {t}

\* native_hooks.h: mutations happen at the backend's CPU safe point.  The CPU
\* neither looks up nor translates while anybody mutates.
Mutating == \E t \in Threads : step[t] \in Installing \cup Removing
CpuSafe == step[Cpu] \notin {"find_lock", "find_read", "translate"}

\* invalidate_instruction drops the code at the address, whatever its key.
Invalidated(address) ==
    [k \in HookKey |-> IF k.address = address THEN Untranslated ELSE code[k]]

\* The invalidator throws before or after it has dropped code; the guard
\* releases the lock.
InvalidatorThrows(t) ==
    /\ code' \in {code, Invalidated(key[t].address)}
    /\ writer' = Nobody
    /\ Goto(t, "idle")
    /\ UNCHANGED <<hooks, readers, key, hook, found>>

InvalidatorReturns(t, next) ==
    /\ code' = Invalidated(key[t].address)
    /\ Goto(t, next)
    /\ UNCHANGED <<hooks, writer, readers, key, hook, found>>

-----------------------------------------------------------------------------
(***************************************************************************)
(* install.  An invalid key and an empty callback throw before the lock.   *)
(***************************************************************************)

\* Mutation of InstallCall: an empty callback is accepted.
InstallCallEmpty(t, k, h) ==
    /\ step[t] = "idle"
    /\ CpuSafe
    /\ is_valid(k)
    /\ key' = [key EXCEPT ![t] = k]
    /\ hook' = [hook EXCEPT ![t] = h]
    /\ Goto(t, "install_lock")
    /\ UNCHANGED <<hooks, writer, readers, found, code>>

InstallCall(t, k, h) ==
    /\ step[t] = "idle"
    /\ CpuSafe
    /\ is_valid(k)
    /\ h # EmptyCallback
    /\ key' = [key EXCEPT ![t] = k]
    /\ hook' = [hook EXCEPT ![t] = h]
    /\ Goto(t, "install_lock")
    /\ UNCHANGED <<hooks, writer, readers, found, code>>

InstallLock(t) ==
    /\ step[t] = "install_lock"
    /\ LockExclusive(t)
    /\ Goto(t, "install_invalidate")
    /\ UNCHANGED <<hooks, readers, key, hook, found, code>>

\* Mutation of InstallInvalidate: the code at the address is kept.
InstallInvalidateNothing(t) ==
    /\ step[t] = "install_invalidate"
    /\ Goto(t, "install_assign")
    /\ UNCHANGED <<hooks, writer, readers, key, hook, found, code>>

InstallInvalidate(t) ==
    /\ step[t] = "install_invalidate"
    /\ InvalidatorReturns(t, "install_assign") \/ InvalidatorThrows(t)

\* insert_or_assign, which throws only when it has to allocate a node.
InstallAssign(t) ==
    /\ step[t] = "install_assign"
    /\ \/ hooks' = [hooks EXCEPT ![key[t]] = hook[t]]
       \/ hooks[key[t]] = NoHook /\ UNCHANGED hooks
    /\ writer' = Nobody
    /\ hook' = [hook EXCEPT ![t] = EmptyCallback]
    /\ Goto(t, "idle")
    /\ UNCHANGED <<readers, key, found, code>>

-----------------------------------------------------------------------------
(***************************************************************************)
(* remove                                                                  *)
(***************************************************************************)

RemoveCall(t, k) ==
    /\ step[t] = "idle"
    /\ CpuSafe
    /\ is_valid(k)
    /\ key' = [key EXCEPT ![t] = k]
    /\ Goto(t, "remove_lock")
    /\ UNCHANGED <<hooks, writer, readers, hook, found, code>>

RemoveLock(t) ==
    /\ step[t] = "remove_lock"
    /\ LockExclusive(t)
    /\ Goto(t, "remove_contains")
    /\ UNCHANGED <<hooks, readers, key, hook, found, code>>

\* Mutation of RemoveContains: it goes on to erase without invalidating.
RemoveContainsToErase(t) ==
    /\ step[t] = "remove_contains"
    /\ \/ /\ hooks[key[t]] = NoHook
          /\ writer' = Nobody
          /\ Goto(t, "idle")
       \/ /\ hooks[key[t]] # NoHook
          /\ UNCHANGED writer
          /\ Goto(t, "remove_erase")
    /\ UNCHANGED <<hooks, readers, key, hook, found, code>>

RemoveContains(t) ==
    /\ step[t] = "remove_contains"
    /\ \/ /\ hooks[key[t]] = NoHook
          /\ writer' = Nobody
          /\ Goto(t, "idle")
       \/ /\ hooks[key[t]] # NoHook
          /\ UNCHANGED writer
          /\ Goto(t, "remove_invalidate")
    /\ UNCHANGED <<hooks, readers, key, hook, found, code>>

RemoveInvalidate(t) ==
    /\ step[t] = "remove_invalidate"
    /\ InvalidatorReturns(t, "remove_erase") \/ InvalidatorThrows(t)

\* Mutation of RemoveErase: every hook at the address goes, whatever its key.
RemoveEraseAddress(t) ==
    /\ step[t] = "remove_erase"
    /\ hooks' = [k \in HookKey |->
                    IF k.address = key[t].address THEN NoHook ELSE hooks[k]]
    /\ writer' = Nobody
    /\ Goto(t, "idle")
    /\ UNCHANGED <<readers, key, found, hook, code>>

RemoveErase(t) ==
    /\ step[t] = "remove_erase"
    /\ hooks' = [hooks EXCEPT ![key[t]] = NoHook]
    /\ writer' = Nobody
    /\ Goto(t, "idle")
    /\ UNCHANGED <<readers, key, hook, found, code>>

-----------------------------------------------------------------------------
(***************************************************************************)
(* find, and what the CPU does with the copy it returns                    *)
(***************************************************************************)

FindCall(t, k) ==
    /\ step[t] = "idle"
    /\ is_valid(k)
    /\ t = Cpu => ~Mutating /\ code[k] = Untranslated
    /\ key' = [key EXCEPT ![t] = k]
    /\ Goto(t, "find_lock")
    /\ UNCHANGED <<hooks, writer, readers, hook, found, code>>

FindLock(t) ==
    /\ step[t] = "find_lock"
    /\ LockShared(t)
    /\ Goto(t, "find_read")
    /\ UNCHANGED <<hooks, writer, key, hook, found, code>>

\* Copying the callable that was found may throw.
FindRead(t) ==
    /\ step[t] = "find_read"
    /\ \/ /\ found' = [found EXCEPT ![t] = hooks[key[t]]]
          /\ Goto(t, IF t = Cpu THEN "translate" ELSE "idle")
       \/ /\ hooks[key[t]] # NoHook
          /\ UNCHANGED found
          /\ Goto(t, "idle")
    /\ readers' = readers \ {t}
    /\ UNCHANGED <<hooks, writer, key, hook, code>>

\* The translation succeeds or is given up.
Translate ==
    /\ step[Cpu] = "translate"
    /\ code' \in {code, [code EXCEPT ![key[Cpu]] = found[Cpu]]}
    /\ Goto(Cpu, "idle")
    /\ UNCHANGED <<hooks, writer, readers, key, hook, found>>

-----------------------------------------------------------------------------
Next ==
    \/ \E t \in Threads :
           \/ \E k \in HookKey :
                  \/ \E h \in Callbacks \cup {EmptyCallback} : InstallCall(t, k, h)
                  \/ RemoveCall(t, k)
                  \/ FindCall(t, k)
           \/ InstallLock(t) \/ InstallInvalidate(t) \/ InstallAssign(t)
           \/ RemoveLock(t) \/ RemoveContains(t)
           \/ RemoveInvalidate(t) \/ RemoveErase(t)
           \/ FindLock(t) \/ FindRead(t)
    \/ Translate

Spec == Init /\ [][Next]_vars

-----------------------------------------------------------------------------
(***************************************************************************)
(* Properties                                                              *)
(***************************************************************************)

\* Code never runs a selection the registry has replaced: whatever has been
\* translated at a key is what find would answer now, between the invalidation
\* and the assignment too, and after an invalidator or an allocation that threw.
CodeCoherent ==
    \A k \in HookKey : code[k] \in {Untranslated, hooks[k]}

\* A change excludes every reader and every other change from the moment its
\* key is invalidated to the moment the map is written.
Changing(t) == step[t] \in {"install_invalidate", "install_assign",
                            "remove_contains", "remove_invalidate", "remove_erase"}
Reading(t) == step[t] = "find_read"

ChangesExclusive ==
    \A t, u \in Threads :
        Changing(t) /\ t # u => ~Changing(u) /\ ~Reading(u)

\* Every change is the change of one valid key, to a hook that is not empty or
\* to none, and only after the code at its address has been dropped.
ChangesInvalidated ==
    [][ \A k \in HookKey :
            hooks'[k] # hooks[k] =>
                /\ is_valid(k)
                /\ hooks'[k] # EmptyCallback
                /\ \A other \in HookKey :
                       other.address = k.address => code[other] = Untranslated ]_vars

Table == INSTANCE HookTable WITH
    TableKeys <- ValidKeys,
    Hooks <- Callbacks,
    Absent <- NoHook,
    Readers <- Threads,
    table <- [k \in ValidKeys |-> hooks[k]],
    answers <- found

\* Every step is a change of the table, an answer from it, or neither.
ServesTable == Table!TableSpec
=============================================================================
