--------------------------- MODULE NativeHooksProofs ---------------------------
(***************************************************************************)
(* Proofs about NativeHooks, for every set of keys, callables and threads. *)
(***************************************************************************)
EXTENDS NativeHooks, TLAPS

-----------------------------------------------------------------------------
(***************************************************************************)
(* The inductive invariant                                                 *)
(***************************************************************************)

\* Who holds the mutex is known from where the threads are.
LockInv ==
    /\ \A t \in Threads : writer = t <=> Changing(t)
    /\ \A t \in Threads : t \in readers <=> Reading(t)
    /\ writer # Nobody => readers = {}

\* The contract of the safe point: no change overlaps a look-up of the CPU, so
\* the copy the CPU is about to translate is the registry's answer.  The clients
\* keep it (native_hooks.h:69-72), the registry does not: this is what is assumed
\* of them.
SafePointInv == Mutating => CpuSafe

CopyInv == step[Cpu] = "translate" => found[Cpu] = hooks[key[Cpu]]

\* What a call has validated.
ArgumentInv ==
    \A t \in Threads :
        /\ step[t] # "idle" => is_valid(key[t])
        /\ step[t] \in Installing => hook[t] # EmptyCallback

\* Once the invalidator has returned there is no code at the address.
InvalidatedInv ==
    \A t \in Threads :
        step[t] \in {"install_assign", "remove_erase"} =>
            \A k \in HookKey : k.address = key[t].address => code[k] = Untranslated

IInv ==
    /\ TypeOK
    /\ LockInv
    /\ SafePointInv
    /\ ArgumentInv
    /\ InvalidatedInv
    /\ CopyInv
    /\ CodeCoherent

-----------------------------------------------------------------------------
(***************************************************************************)
(* Steps keep each part                                                    *)
(***************************************************************************)

\* Every step keeps the types.
LEMMA TypeStep ==
    ASSUME TypeOK, [Next]_vars
    PROVE  TypeOK'
<1>1. ASSUME NEW t \in Threads, NEW k \in HookKey,
             NEW h \in Callbacks \cup {EmptyCallback},
             InstallCall(t, k, h)
      PROVE  TypeOK'
  BY <1>1, TypeOK DEF InstallCall, Goto, TypeOK, Steps, Installing
<1>2. ASSUME NEW t \in Threads, NEW k \in HookKey, RemoveCall(t, k)
      PROVE  TypeOK'
  BY <1>2, TypeOK DEF RemoveCall, Goto, TypeOK, Steps, Installing
<1>3. ASSUME NEW t \in Threads, NEW k \in HookKey, FindCall(t, k)
      PROVE  TypeOK'
  BY <1>3, TypeOK DEF FindCall, Goto, TypeOK, Steps, Installing
<1>4. ASSUME NEW t \in Threads, InstallLock(t)
      PROVE  TypeOK'
  BY <1>4, TypeOK DEF InstallLock, Goto, LockExclusive, TypeOK, Steps, Installing
<1>5. ASSUME NEW t \in Threads, InstallInvalidate(t)
      PROVE  TypeOK'
  BY <1>5, TypeOK
  DEF InstallInvalidate, Goto, InvalidatorReturns, InvalidatorThrows,
      Invalidated, TypeOK, Steps, Installing
<1>6. ASSUME NEW t \in Threads, InstallAssign(t)
      PROVE  TypeOK'
  BY <1>6, TypeOK DEF InstallAssign, Goto, TypeOK, Steps, Installing
<1>7. ASSUME NEW t \in Threads, RemoveLock(t)
      PROVE  TypeOK'
  BY <1>7, TypeOK DEF RemoveLock, Goto, LockExclusive, TypeOK, Steps, Installing
<1>8. ASSUME NEW t \in Threads, RemoveContains(t)
      PROVE  TypeOK'
  BY <1>8, TypeOK DEF RemoveContains, Goto, TypeOK, Steps, Installing
<1>9. ASSUME NEW t \in Threads, RemoveInvalidate(t)
      PROVE  TypeOK'
  BY <1>9, TypeOK
  DEF RemoveInvalidate, Goto, InvalidatorReturns, InvalidatorThrows,
      Invalidated, TypeOK, Steps, Installing
<1>10. ASSUME NEW t \in Threads, RemoveErase(t)
       PROVE  TypeOK'
  BY <1>10, TypeOK DEF RemoveErase, Goto, TypeOK, Steps, Installing
<1>11. ASSUME NEW t \in Threads, FindLock(t)
       PROVE  TypeOK'
  BY <1>11, TypeOK DEF FindLock, Goto, LockShared, TypeOK, Steps, Installing
<1>12. ASSUME NEW t \in Threads, FindRead(t)
       PROVE  TypeOK'
  BY <1>12, TypeOK DEF FindRead, Goto, TypeOK, Steps, Installing
<1>13. CASE Translate
  BY <1>13, TypeOK DEF Translate, Goto, TypeOK, Steps, Installing, Threads
<1>14. CASE UNCHANGED vars
  BY <1>14, TypeOK DEF vars, TypeOK, Steps, Installing
<1> QED
  BY <1>1, <1>2, <1>3, <1>4, <1>5, <1>6, <1>7, <1>8, <1>9, <1>10, <1>11,
     <1>12, <1>13, <1>14
  DEF Next

\* Every step leaves the mutex with the threads inside it.
LEMMA LockStep ==
    ASSUME TypeOK, LockInv, [Next]_vars
    PROVE  LockInv'
<1>1. ASSUME NEW t \in Threads, NEW k \in HookKey,
             NEW h \in Callbacks \cup {EmptyCallback},
             InstallCall(t, k, h)
      PROVE  LockInv'
  BY <1>1, TypeOK, LockInv, HookAssumption
  DEF InstallCall, Goto, TypeOK, LockInv, Changing, Reading
<1>2. ASSUME NEW t \in Threads, NEW k \in HookKey, RemoveCall(t, k)
      PROVE  LockInv'
  BY <1>2, TypeOK, LockInv, HookAssumption
  DEF RemoveCall, Goto, TypeOK, LockInv, Changing, Reading
<1>3. ASSUME NEW t \in Threads, NEW k \in HookKey, FindCall(t, k)
      PROVE  LockInv'
  BY <1>3, TypeOK, LockInv, HookAssumption
  DEF FindCall, Goto, TypeOK, LockInv, Changing, Reading
<1>4. ASSUME NEW t \in Threads, InstallLock(t)
      PROVE  LockInv'
  BY <1>4, TypeOK, LockInv, HookAssumption
  DEF InstallLock, Goto, LockExclusive, TypeOK, LockInv, Changing, Reading
<1>5. ASSUME NEW t \in Threads, InstallInvalidate(t)
      PROVE  LockInv'
  BY <1>5, TypeOK, LockInv, HookAssumption
  DEF InstallInvalidate, Goto, InvalidatorReturns, InvalidatorThrows,
      Invalidated, TypeOK, LockInv, Changing, Reading
<1>6. ASSUME NEW t \in Threads, InstallAssign(t)
      PROVE  LockInv'
  BY <1>6, TypeOK, LockInv, HookAssumption
  DEF InstallAssign, Goto, TypeOK, LockInv, Changing, Reading
<1>7. ASSUME NEW t \in Threads, RemoveLock(t)
      PROVE  LockInv'
  BY <1>7, TypeOK, LockInv, HookAssumption
  DEF RemoveLock, Goto, LockExclusive, TypeOK, LockInv, Changing, Reading
<1>8. ASSUME NEW t \in Threads, RemoveContains(t)
      PROVE  LockInv'
  BY <1>8, TypeOK, LockInv, HookAssumption
  DEF RemoveContains, Goto, TypeOK, LockInv, Changing, Reading
<1>9. ASSUME NEW t \in Threads, RemoveInvalidate(t)
      PROVE  LockInv'
  BY <1>9, TypeOK, LockInv, HookAssumption
  DEF RemoveInvalidate, Goto, InvalidatorReturns, InvalidatorThrows,
      Invalidated, TypeOK, LockInv, Changing, Reading
<1>10. ASSUME NEW t \in Threads, RemoveErase(t)
       PROVE  LockInv'
  BY <1>10, TypeOK, LockInv, HookAssumption
  DEF RemoveErase, Goto, TypeOK, LockInv, Changing, Reading
<1>11. ASSUME NEW t \in Threads, FindLock(t)
       PROVE  LockInv'
  BY <1>11, TypeOK, LockInv, HookAssumption
  DEF FindLock, Goto, LockShared, TypeOK, LockInv, Changing, Reading
<1>12. ASSUME NEW t \in Threads, FindRead(t)
       PROVE  LockInv'
  BY <1>12, TypeOK, LockInv, HookAssumption
  DEF FindRead, Goto, TypeOK, LockInv, Changing, Reading
<1>13. CASE Translate
  BY <1>13, TypeOK, LockInv, HookAssumption
  DEF Translate, Goto, TypeOK, LockInv, Changing, Reading
<1>14. CASE UNCHANGED vars
  BY <1>14, TypeOK, LockInv, HookAssumption
  DEF vars, TypeOK, LockInv, Changing, Reading
<1> QED
  BY <1>1, <1>2, <1>3, <1>4, <1>5, <1>6, <1>7, <1>8, <1>9, <1>10, <1>11,
     <1>12, <1>13, <1>14
  DEF Next

\* No change begins while the CPU looks up, nor the other way round.
LEMMA SafePointStep ==
    ASSUME TypeOK, SafePointInv, [Next]_vars
    PROVE  SafePointInv'
<1>1. ASSUME NEW t \in Threads, NEW k \in HookKey,
             NEW h \in Callbacks \cup {EmptyCallback},
             InstallCall(t, k, h)
      PROVE  SafePointInv'
  BY <1>1, TypeOK, SafePointInv
  DEF InstallCall, Goto, TypeOK, SafePointInv, Mutating, CpuSafe, Installing,
      Removing, Threads
<1>2. ASSUME NEW t \in Threads, NEW k \in HookKey, RemoveCall(t, k)
      PROVE  SafePointInv'
  BY <1>2, TypeOK, SafePointInv
  DEF RemoveCall, Goto, TypeOK, SafePointInv, Mutating, CpuSafe, Installing,
      Removing, Threads
<1>3. ASSUME NEW t \in Threads, NEW k \in HookKey, FindCall(t, k)
      PROVE  SafePointInv'
  BY <1>3, TypeOK, SafePointInv
  DEF FindCall, Goto, TypeOK, SafePointInv, Mutating, CpuSafe, Installing,
      Removing, Threads
<1>4. ASSUME NEW t \in Threads, InstallLock(t)
      PROVE  SafePointInv'
  BY <1>4, TypeOK, SafePointInv
  DEF InstallLock, Goto, LockExclusive, TypeOK, SafePointInv, Mutating,
      CpuSafe, Installing, Removing, Threads
<1>5. ASSUME NEW t \in Threads, InstallInvalidate(t)
      PROVE  SafePointInv'
  BY <1>5, TypeOK, SafePointInv
  DEF InstallInvalidate, Goto, InvalidatorReturns, InvalidatorThrows,
      Invalidated, TypeOK, SafePointInv, Mutating, CpuSafe, Installing,
      Removing, Threads
<1>6. ASSUME NEW t \in Threads, InstallAssign(t)
      PROVE  SafePointInv'
  BY <1>6, TypeOK, SafePointInv
  DEF InstallAssign, Goto, TypeOK, SafePointInv, Mutating, CpuSafe,
      Installing, Removing, Threads
<1>7. ASSUME NEW t \in Threads, RemoveLock(t)
      PROVE  SafePointInv'
  BY <1>7, TypeOK, SafePointInv
  DEF RemoveLock, Goto, LockExclusive, TypeOK, SafePointInv, Mutating,
      CpuSafe, Installing, Removing, Threads
<1>8. ASSUME NEW t \in Threads, RemoveContains(t)
      PROVE  SafePointInv'
  BY <1>8, TypeOK, SafePointInv
  DEF RemoveContains, Goto, TypeOK, SafePointInv, Mutating, CpuSafe,
      Installing, Removing, Threads
<1>9. ASSUME NEW t \in Threads, RemoveInvalidate(t)
      PROVE  SafePointInv'
  BY <1>9, TypeOK, SafePointInv
  DEF RemoveInvalidate, Goto, InvalidatorReturns, InvalidatorThrows,
      Invalidated, TypeOK, SafePointInv, Mutating, CpuSafe, Installing,
      Removing, Threads
<1>10. ASSUME NEW t \in Threads, RemoveErase(t)
       PROVE  SafePointInv'
  BY <1>10, TypeOK, SafePointInv
  DEF RemoveErase, Goto, TypeOK, SafePointInv, Mutating, CpuSafe, Installing,
      Removing, Threads
<1>11. ASSUME NEW t \in Threads, FindLock(t)
       PROVE  SafePointInv'
  BY <1>11, TypeOK, SafePointInv
  DEF FindLock, Goto, LockShared, TypeOK, SafePointInv, Mutating, CpuSafe,
      Installing, Removing, Threads
<1>12. ASSUME NEW t \in Threads, FindRead(t)
       PROVE  SafePointInv'
  BY <1>12, TypeOK, SafePointInv
  DEF FindRead, Goto, TypeOK, SafePointInv, Mutating, CpuSafe, Installing,
      Removing, Threads
<1>13. CASE Translate
  BY <1>13, TypeOK, SafePointInv
  DEF Translate, Goto, TypeOK, SafePointInv, Mutating, CpuSafe, Installing,
      Removing, Threads
<1>14. CASE UNCHANGED vars
  BY <1>14, TypeOK, SafePointInv
  DEF vars, TypeOK, SafePointInv, Mutating, CpuSafe, Installing, Removing,
      Threads
<1> QED
  BY <1>1, <1>2, <1>3, <1>4, <1>5, <1>6, <1>7, <1>8, <1>9, <1>10, <1>11,
     <1>12, <1>13, <1>14
  DEF Next

\* Only validated arguments get past the call.
LEMMA ArgumentStep ==
    ASSUME TypeOK, ArgumentInv, [Next]_vars
    PROVE  ArgumentInv'
<1>1. ASSUME NEW t \in Threads, NEW k \in HookKey,
             NEW h \in Callbacks \cup {EmptyCallback},
             InstallCall(t, k, h)
      PROVE  ArgumentInv'
  BY <1>1, TypeOK, ArgumentInv
  DEF InstallCall, Goto, TypeOK, ArgumentInv, Installing
<1>2. ASSUME NEW t \in Threads, NEW k \in HookKey, RemoveCall(t, k)
      PROVE  ArgumentInv'
  BY <1>2, TypeOK, ArgumentInv
  DEF RemoveCall, Goto, TypeOK, ArgumentInv, Installing
<1>3. ASSUME NEW t \in Threads, NEW k \in HookKey, FindCall(t, k)
      PROVE  ArgumentInv'
  BY <1>3, TypeOK, ArgumentInv
  DEF FindCall, Goto, TypeOK, ArgumentInv, Installing
<1>4. ASSUME NEW t \in Threads, InstallLock(t)
      PROVE  ArgumentInv'
  BY <1>4, TypeOK, ArgumentInv
  DEF InstallLock, Goto, LockExclusive, TypeOK, ArgumentInv, Installing
<1>5. ASSUME NEW t \in Threads, InstallInvalidate(t)
      PROVE  ArgumentInv'
  BY <1>5, TypeOK, ArgumentInv
  DEF InstallInvalidate, Goto, InvalidatorReturns, InvalidatorThrows,
      Invalidated, TypeOK, ArgumentInv, Installing
<1>6. ASSUME NEW t \in Threads, InstallAssign(t)
      PROVE  ArgumentInv'
  BY <1>6, TypeOK, ArgumentInv
  DEF InstallAssign, Goto, TypeOK, ArgumentInv, Installing
<1>7. ASSUME NEW t \in Threads, RemoveLock(t)
      PROVE  ArgumentInv'
  BY <1>7, TypeOK, ArgumentInv
  DEF RemoveLock, Goto, LockExclusive, TypeOK, ArgumentInv, Installing
<1>8. ASSUME NEW t \in Threads, RemoveContains(t)
      PROVE  ArgumentInv'
  BY <1>8, TypeOK, ArgumentInv
  DEF RemoveContains, Goto, TypeOK, ArgumentInv, Installing
<1>9. ASSUME NEW t \in Threads, RemoveInvalidate(t)
      PROVE  ArgumentInv'
  BY <1>9, TypeOK, ArgumentInv
  DEF RemoveInvalidate, Goto, InvalidatorReturns, InvalidatorThrows,
      Invalidated, TypeOK, ArgumentInv, Installing
<1>10. ASSUME NEW t \in Threads, RemoveErase(t)
       PROVE  ArgumentInv'
  BY <1>10, TypeOK, ArgumentInv
  DEF RemoveErase, Goto, TypeOK, ArgumentInv, Installing
<1>11. ASSUME NEW t \in Threads, FindLock(t)
       PROVE  ArgumentInv'
  BY <1>11, TypeOK, ArgumentInv
  DEF FindLock, Goto, LockShared, TypeOK, ArgumentInv, Installing
<1>12. ASSUME NEW t \in Threads, FindRead(t)
       PROVE  ArgumentInv'
  BY <1>12, TypeOK, ArgumentInv
  DEF FindRead, Goto, TypeOK, ArgumentInv, Installing
<1>13. CASE Translate
  BY <1>13, TypeOK, ArgumentInv
  DEF Translate, Goto, TypeOK, ArgumentInv, Installing
<1>14. CASE UNCHANGED vars
  BY <1>14, TypeOK, ArgumentInv DEF vars, TypeOK, ArgumentInv, Installing
<1> QED
  BY <1>1, <1>2, <1>3, <1>4, <1>5, <1>6, <1>7, <1>8, <1>9, <1>10, <1>11,
     <1>12, <1>13, <1>14
  DEF Next

\* Nothing is translated at an address that is being changed.
LEMMA InvalidatedStep ==
    ASSUME TypeOK, SafePointInv, InvalidatedInv, [Next]_vars
    PROVE  InvalidatedInv'
<1>1. ASSUME NEW t \in Threads, NEW k \in HookKey,
             NEW h \in Callbacks \cup {EmptyCallback},
             InstallCall(t, k, h)
      PROVE  InvalidatedInv'
  BY <1>1, TypeOK, InvalidatedInv
  DEF InstallCall, Goto, TypeOK, InvalidatedInv
<1>2. ASSUME NEW t \in Threads, NEW k \in HookKey, RemoveCall(t, k)
      PROVE  InvalidatedInv'
  BY <1>2, TypeOK, InvalidatedInv DEF RemoveCall, Goto, TypeOK, InvalidatedInv
<1>3. ASSUME NEW t \in Threads, NEW k \in HookKey, FindCall(t, k)
      PROVE  InvalidatedInv'
  BY <1>3, TypeOK, InvalidatedInv DEF FindCall, Goto, TypeOK, InvalidatedInv
<1>4. ASSUME NEW t \in Threads, InstallLock(t)
      PROVE  InvalidatedInv'
  BY <1>4, TypeOK, InvalidatedInv
  DEF InstallLock, Goto, LockExclusive, TypeOK, InvalidatedInv
<1>5. ASSUME NEW t \in Threads, InstallInvalidate(t)
      PROVE  InvalidatedInv'
  BY <1>5, TypeOK, InvalidatedInv
  DEF InstallInvalidate, Goto, InvalidatorReturns, InvalidatorThrows,
      Invalidated, TypeOK, InvalidatedInv
<1>6. ASSUME NEW t \in Threads, InstallAssign(t)
      PROVE  InvalidatedInv'
  BY <1>6, TypeOK, InvalidatedInv
  DEF InstallAssign, Goto, TypeOK, InvalidatedInv
<1>7. ASSUME NEW t \in Threads, RemoveLock(t)
      PROVE  InvalidatedInv'
  BY <1>7, TypeOK, InvalidatedInv
  DEF RemoveLock, Goto, LockExclusive, TypeOK, InvalidatedInv
<1>8. ASSUME NEW t \in Threads, RemoveContains(t)
      PROVE  InvalidatedInv'
  BY <1>8, TypeOK, InvalidatedInv
  DEF RemoveContains, Goto, TypeOK, InvalidatedInv
<1>9. ASSUME NEW t \in Threads, RemoveInvalidate(t)
      PROVE  InvalidatedInv'
  BY <1>9, TypeOK, InvalidatedInv
  DEF RemoveInvalidate, Goto, InvalidatorReturns, InvalidatorThrows,
      Invalidated, TypeOK, InvalidatedInv
<1>10. ASSUME NEW t \in Threads, RemoveErase(t)
       PROVE  InvalidatedInv'
  BY <1>10, TypeOK, InvalidatedInv
  DEF RemoveErase, Goto, TypeOK, InvalidatedInv
<1>11. ASSUME NEW t \in Threads, FindLock(t)
       PROVE  InvalidatedInv'
  BY <1>11, TypeOK, InvalidatedInv
  DEF FindLock, Goto, LockShared, TypeOK, InvalidatedInv
<1>12. ASSUME NEW t \in Threads, FindRead(t)
       PROVE  InvalidatedInv'
  BY <1>12, TypeOK, InvalidatedInv DEF FindRead, Goto, TypeOK, InvalidatedInv
<1>13. CASE Translate
  BY <1>13, TypeOK, SafePointInv, InvalidatedInv
  DEF Translate, Goto, TypeOK, InvalidatedInv, SafePointInv, Mutating,
      CpuSafe, Installing, Removing, Threads
<1>14. CASE UNCHANGED vars
  BY <1>14, TypeOK, InvalidatedInv DEF vars, TypeOK, InvalidatedInv
<1> QED
  BY <1>1, <1>2, <1>3, <1>4, <1>5, <1>6, <1>7, <1>8, <1>9, <1>10, <1>11,
     <1>12, <1>13, <1>14
  DEF Next

\* The copy in the hands of the CPU stays the answer.
LEMMA CopyStep ==
    ASSUME TypeOK, SafePointInv, CopyInv, [Next]_vars
    PROVE  CopyInv'
<1>1. ASSUME NEW t \in Threads, NEW k \in HookKey,
             NEW h \in Callbacks \cup {EmptyCallback},
             InstallCall(t, k, h)
      PROVE  CopyInv'
  BY <1>1, TypeOK, CopyInv, SafePointInv
  DEF InstallCall, Goto, TypeOK, CopyInv, Threads,
      SafePointInv, Mutating, CpuSafe, Installing, Removing
<1>2. ASSUME NEW t \in Threads, NEW k \in HookKey, RemoveCall(t, k)
      PROVE  CopyInv'
  BY <1>2, TypeOK, CopyInv, SafePointInv
  DEF RemoveCall, Goto, TypeOK, CopyInv, Threads, SafePointInv,
      Mutating, CpuSafe, Installing, Removing
<1>3. ASSUME NEW t \in Threads, NEW k \in HookKey, FindCall(t, k)
      PROVE  CopyInv'
  BY <1>3, TypeOK, CopyInv
  DEF FindCall, Goto, TypeOK, CopyInv, Threads
<1>4. ASSUME NEW t \in Threads, InstallLock(t)
      PROVE  CopyInv'
  BY <1>4, TypeOK, CopyInv
  DEF InstallLock, Goto, LockExclusive, TypeOK, CopyInv,
      Threads
<1>5. ASSUME NEW t \in Threads, InstallInvalidate(t)
      PROVE  CopyInv'
  BY <1>5, TypeOK, CopyInv
  DEF InstallInvalidate, Goto, InvalidatorReturns, InvalidatorThrows,
      Invalidated, TypeOK, CopyInv, Threads
<1>6. ASSUME NEW t \in Threads, InstallAssign(t)
      PROVE  CopyInv'
  BY <1>6, TypeOK, CopyInv, SafePointInv
  DEF InstallAssign, Goto, TypeOK, CopyInv, Threads,
      SafePointInv, Mutating, CpuSafe, Installing, Removing
<1>7. ASSUME NEW t \in Threads, RemoveLock(t)
      PROVE  CopyInv'
  BY <1>7, TypeOK, CopyInv
  DEF RemoveLock, Goto, LockExclusive, TypeOK, CopyInv, Threads
<1>8. ASSUME NEW t \in Threads, RemoveContains(t)
      PROVE  CopyInv'
  BY <1>8, TypeOK, CopyInv
  DEF RemoveContains, Goto, TypeOK, CopyInv, Threads
<1>9. ASSUME NEW t \in Threads, RemoveInvalidate(t)
      PROVE  CopyInv'
  BY <1>9, TypeOK, CopyInv
  DEF RemoveInvalidate, Goto, InvalidatorReturns, InvalidatorThrows,
      Invalidated, TypeOK, CopyInv, Threads
<1>10. ASSUME NEW t \in Threads, RemoveErase(t)
       PROVE  CopyInv'
  BY <1>10, TypeOK, CopyInv, SafePointInv
  DEF RemoveErase, Goto, TypeOK, CopyInv, Threads,
      SafePointInv, Mutating, CpuSafe, Installing, Removing
<1>11. ASSUME NEW t \in Threads, FindLock(t)
       PROVE  CopyInv'
  BY <1>11, TypeOK, CopyInv
  DEF FindLock, Goto, LockShared, TypeOK, CopyInv, Threads
<1>12. ASSUME NEW t \in Threads, FindRead(t)
       PROVE  CopyInv'
  BY <1>12, TypeOK, CopyInv
  DEF FindRead, Goto, TypeOK, CopyInv, Threads
<1>13. CASE Translate
  BY <1>13, TypeOK, CopyInv
  DEF Translate, Goto, TypeOK, CopyInv, Threads
<1>14. CASE UNCHANGED vars
  BY <1>14, TypeOK, CopyInv
  DEF vars, TypeOK, CopyInv, Threads
<1> QED
  BY <1>1, <1>2, <1>3, <1>4, <1>5, <1>6, <1>7, <1>8, <1>9, <1>10, <1>11,
     <1>12, <1>13, <1>14
  DEF Next

\* Code stays coherent.
LEMMA CoherentStep ==
    ASSUME TypeOK, InvalidatedInv, CopyInv, CodeCoherent, [Next]_vars
    PROVE  CodeCoherent'
<1>1. ASSUME NEW t \in Threads, NEW k \in HookKey,
             NEW h \in Callbacks \cup {EmptyCallback},
             InstallCall(t, k, h)
      PROVE  CodeCoherent'
  BY <1>1, TypeOK, CodeCoherent DEF InstallCall, Goto, TypeOK, CodeCoherent
<1>2. ASSUME NEW t \in Threads, NEW k \in HookKey, RemoveCall(t, k)
      PROVE  CodeCoherent'
  BY <1>2, TypeOK, CodeCoherent DEF RemoveCall, Goto, TypeOK, CodeCoherent
<1>3. ASSUME NEW t \in Threads, NEW k \in HookKey, FindCall(t, k)
      PROVE  CodeCoherent'
  BY <1>3, TypeOK, CodeCoherent DEF FindCall, Goto, TypeOK, CodeCoherent
<1>4. ASSUME NEW t \in Threads, InstallLock(t)
      PROVE  CodeCoherent'
  BY <1>4, TypeOK, CodeCoherent
  DEF InstallLock, Goto, LockExclusive, TypeOK, CodeCoherent
<1>5. ASSUME NEW t \in Threads, InstallInvalidate(t)
      PROVE  CodeCoherent'
  BY <1>5, TypeOK, CodeCoherent
  DEF InstallInvalidate, Goto, InvalidatorReturns, InvalidatorThrows,
      Invalidated, TypeOK, CodeCoherent
<1>6. ASSUME NEW t \in Threads, InstallAssign(t)
      PROVE  CodeCoherent'
  BY <1>6, TypeOK, CodeCoherent, InvalidatedInv
  DEF InstallAssign, Goto, TypeOK, CodeCoherent, InvalidatedInv
<1>7. ASSUME NEW t \in Threads, RemoveLock(t)
      PROVE  CodeCoherent'
  BY <1>7, TypeOK, CodeCoherent
  DEF RemoveLock, Goto, LockExclusive, TypeOK, CodeCoherent
<1>8. ASSUME NEW t \in Threads, RemoveContains(t)
      PROVE  CodeCoherent'
  BY <1>8, TypeOK, CodeCoherent DEF RemoveContains, Goto, TypeOK, CodeCoherent
<1>9. ASSUME NEW t \in Threads, RemoveInvalidate(t)
      PROVE  CodeCoherent'
  BY <1>9, TypeOK, CodeCoherent
  DEF RemoveInvalidate, Goto, InvalidatorReturns, InvalidatorThrows,
      Invalidated, TypeOK, CodeCoherent
<1>10. ASSUME NEW t \in Threads, RemoveErase(t)
       PROVE  CodeCoherent'
  BY <1>10, TypeOK, CodeCoherent, InvalidatedInv
  DEF RemoveErase, Goto, TypeOK, CodeCoherent, InvalidatedInv
<1>11. ASSUME NEW t \in Threads, FindLock(t)
       PROVE  CodeCoherent'
  BY <1>11, TypeOK, CodeCoherent
  DEF FindLock, Goto, LockShared, TypeOK, CodeCoherent
<1>12. ASSUME NEW t \in Threads, FindRead(t)
       PROVE  CodeCoherent'
  BY <1>12, TypeOK, CodeCoherent DEF FindRead, Goto, TypeOK, CodeCoherent
<1>13. CASE Translate
  BY <1>13, TypeOK, CodeCoherent, CopyInv
  DEF Translate, Goto, TypeOK, CodeCoherent, CopyInv, Threads
<1>14. CASE UNCHANGED vars
  BY <1>14, TypeOK, CodeCoherent DEF vars, TypeOK, CodeCoherent
<1> QED
  BY <1>1, <1>2, <1>3, <1>4, <1>5, <1>6, <1>7, <1>8, <1>9, <1>10, <1>11,
     <1>12, <1>13, <1>14
  DEF Next

-----------------------------------------------------------------------------
(***************************************************************************)
(* The invariant holds in every reachable state                            *)
(***************************************************************************)

\* The inductive invariant holds initially.
LEMMA InitIInv == Init => IInv
<1> SUFFICES ASSUME Init PROVE IInv
  OBVIOUS
<1>1. TypeOK
  BY KeyAssumption DEF Init, TypeOK, Steps, Installing, DefaultKey, HookKey
<1>2. LockInv /\ SafePointInv
  BY HookAssumption
  DEF Init, LockInv, SafePointInv, Changing, Reading, Mutating, Installing,
      Removing
<1>3. ArgumentInv /\ InvalidatedInv /\ CopyInv /\ CodeCoherent
  BY DEF Init, ArgumentInv, InvalidatedInv, CopyInv,
         CodeCoherent, Installing, Threads
<1> QED
  BY <1>1, <1>2, <1>3 DEF IInv

\* So it holds in every state.
LEMMA IInvHolds == Spec => []IInv
<1>1. Init => IInv
  BY InitIInv
<1>2. IInv /\ [Next]_vars => IInv'
  BY TypeStep, LockStep, SafePointStep, ArgumentStep, InvalidatedStep, CopyStep,
     CoherentStep
  DEF IInv
<1> QED
  BY <1>1, <1>2, PTL DEF Spec

\* The storage of NativeHookRegistry and the threads that call it.
THEOREM TypeCorrect == Spec => []TypeOK
  BY IInvHolds, PTL DEF IInv

\* native_hooks.cpp: invalidating before writing, under the lock and at a safe
\* point, keeps translated code at what find would answer.
THEOREM CodeIsCoherent == Spec => []CodeCoherent
  BY IInvHolds, PTL DEF IInv

\* native_hooks.cpp: a change overlaps no other change and no read.
THEOREM ChangesAreExclusive == Spec => []ChangesExclusive
<1>1. IInv => ChangesExclusive
  BY HookAssumption DEF IInv, LockInv, ChangesExclusive
<1> QED
  BY <1>1, IInvHolds, PTL

\* No thread waits for the mutex that another one holds while it waits for it, no
\* thread keeps it that is outside of an operation, an exception of an invalidator,
\* an allocation or a copy included, and who waits in vain waits for a thread that
\* is inside: as long as invalidators do not call back (native_hooks.h:69-70), no
\* set of calls can wait for each other.
Waiting(t) == step[t] \in {"install_lock", "remove_lock", "find_lock"}
Holding(t) == writer = t \/ t \in readers

NoHoldAndWait ==
    \A t \in Threads :
        /\ Holding(t) => step[t] # "idle" /\ ~Waiting(t)
        /\ Waiting(t) => \/ writer = Nobody /\ readers = {}
                         \/ \E u \in Threads \ {t} : Holding(u)

\* So calls of the registry (native_hooks.cpp:55-85) never wait for each other.
THEOREM HoldersDoNotWait == Spec => []NoHoldAndWait
<1>1. IInv => NoHoldAndWait
  <2> SUFFICES ASSUME TypeOK, LockInv, NEW t \in Threads
               PROVE  /\ Holding(t) => step[t] # "idle" /\ ~Waiting(t)
                      /\ Waiting(t) => \/ writer = Nobody /\ readers = {}
                                       \/ \E u \in Threads \ {t} : Holding(u)
    BY DEF IInv, NoHoldAndWait
  <2>1. Holding(t) => step[t] # "idle" /\ ~Waiting(t)
    BY DEF Holding, Waiting, LockInv, Changing, Reading
  <2>2. \A u \in Threads : Waiting(t) /\ Holding(u) => u # t
    BY <2>1
  <2>3. writer # Nobody => writer \in Threads /\ Holding(writer)
    BY DEF TypeOK, Holding
  <2>4. \A u \in readers : u \in Threads /\ Holding(u)
    BY DEF TypeOK, Holding
  <2> QED
    BY <2>1, <2>2, <2>3, <2>4
<1> QED
  BY <1>1, IInvHolds, PTL

-----------------------------------------------------------------------------
(***************************************************************************)
(* What a step may change                                                  *)
(***************************************************************************)

Change ==
    \A k \in HookKey :
        hooks'[k] # hooks[k] =>
            /\ is_valid(k)
            /\ hooks'[k] # EmptyCallback
            /\ \A other \in HookKey :
                   other.address = k.address => code[other] = Untranslated

\* A step that changes a hook is one of install or remove, after invalidation.
LEMMA ChangeStep ==
    ASSUME TypeOK, ArgumentInv, InvalidatedInv, [Next]_vars
    PROVE  Change
<1>1. ASSUME NEW t \in Threads, NEW k \in HookKey,
             NEW h \in Callbacks \cup {EmptyCallback},
             InstallCall(t, k, h)
      PROVE  Change
  BY <1>1 DEF InstallCall, Goto, Change
<1>2. ASSUME NEW t \in Threads, NEW k \in HookKey, RemoveCall(t, k)
      PROVE  Change
  BY <1>2 DEF RemoveCall, Goto, Change
<1>3. ASSUME NEW t \in Threads, NEW k \in HookKey, FindCall(t, k)
      PROVE  Change
  BY <1>3 DEF FindCall, Goto, Change
<1>4. ASSUME NEW t \in Threads, InstallLock(t)
      PROVE  Change
  BY <1>4 DEF InstallLock, Goto, LockExclusive, Change
<1>5. ASSUME NEW t \in Threads, InstallInvalidate(t)
      PROVE  Change
  BY <1>5
  DEF InstallInvalidate, Goto, InvalidatorReturns, InvalidatorThrows,
      Invalidated, Change
<1>6. ASSUME NEW t \in Threads, InstallAssign(t)
      PROVE  Change
  <2>1. CASE hooks' = [hooks EXCEPT ![key[t]] = hook[t]]
    <3>1. /\ is_valid(key[t])
          /\ hook[t] # EmptyCallback
          /\ \A k \in HookKey :
                 k.address = key[t].address => code[k] = Untranslated
      BY <1>6 DEF InstallAssign, ArgumentInv, InvalidatedInv, Installing
    <3> QED
      BY <2>1, <3>1, TypeOK DEF Change, TypeOK
  <2>2. CASE UNCHANGED hooks
    BY <2>2 DEF Change
  <2> QED
    BY <1>6, <2>1, <2>2 DEF InstallAssign
<1>7. ASSUME NEW t \in Threads, RemoveLock(t)
      PROVE  Change
  BY <1>7 DEF RemoveLock, Goto, LockExclusive, Change
<1>8. ASSUME NEW t \in Threads, RemoveContains(t)
      PROVE  Change
  BY <1>8 DEF RemoveContains, Goto, Change
<1>9. ASSUME NEW t \in Threads, RemoveInvalidate(t)
      PROVE  Change
  BY <1>9
  DEF RemoveInvalidate, Goto, InvalidatorReturns, InvalidatorThrows,
      Invalidated, Change
<1>10. ASSUME NEW t \in Threads, RemoveErase(t)
       PROVE  Change
  <2>1. /\ is_valid(key[t])
        /\ \A k \in HookKey :
               k.address = key[t].address => code[k] = Untranslated
    BY <1>10 DEF RemoveErase, ArgumentInv, InvalidatedInv
  <2> QED
    BY <1>10, <2>1, TypeOK, HookAssumption DEF RemoveErase, Change, TypeOK
<1>11. ASSUME NEW t \in Threads, FindLock(t)
       PROVE  Change
  BY <1>11 DEF FindLock, Goto, LockShared, Change
<1>12. ASSUME NEW t \in Threads, FindRead(t)
       PROVE  Change
  BY <1>12 DEF FindRead, Goto, Change
<1>13. CASE Translate
  BY <1>13 DEF Translate, Goto, Change
<1>14. CASE UNCHANGED vars
  BY <1>14 DEF vars, Change
<1> QED
  BY <1>1, <1>2, <1>3, <1>4, <1>5, <1>6, <1>7, <1>8, <1>9, <1>10, <1>11,
     <1>12, <1>13, <1>14
  DEF Next

\* native_hooks.cpp: one valid key changes, after its code has been dropped.
THEOREM ChangesAreInvalidated == Spec => ChangesInvalidated
<1>1. IInv /\ [Next]_vars => [Change]_vars
  BY ChangeStep DEF IInv
<1> QED
  BY <1>1, IInvHolds, PTL DEF Spec, ChangesInvalidated, Change

-----------------------------------------------------------------------------
(***************************************************************************)
(* Refinement of HookTable                                                 *)
(***************************************************************************)

\* Every step changes the table at one key, answers from it, or does not show.
LEMMA TableStep ==
    ASSUME TypeOK, ArgumentInv, [Next]_vars
    PROVE  [Table!TableNext]_(Table!tableVars)
<1>1. ASSUME NEW t \in Threads, NEW k \in HookKey,
             NEW h \in Callbacks \cup {EmptyCallback},
             InstallCall(t, k, h)
      PROVE  [Table!TableNext]_(Table!tableVars)
  BY <1>1 DEF InstallCall, Goto, Table!tableVars
<1>2. ASSUME NEW t \in Threads, NEW k \in HookKey, RemoveCall(t, k)
      PROVE  [Table!TableNext]_(Table!tableVars)
  BY <1>2 DEF RemoveCall, Goto, Table!tableVars
<1>3. ASSUME NEW t \in Threads, NEW k \in HookKey, FindCall(t, k)
      PROVE  [Table!TableNext]_(Table!tableVars)
  BY <1>3 DEF FindCall, Goto, Table!tableVars
<1>4. ASSUME NEW t \in Threads, InstallLock(t)
      PROVE  [Table!TableNext]_(Table!tableVars)
  BY <1>4 DEF InstallLock, Goto, LockExclusive, Table!tableVars
<1>5. ASSUME NEW t \in Threads, InstallInvalidate(t)
      PROVE  [Table!TableNext]_(Table!tableVars)
  BY <1>5
  DEF InstallInvalidate, Goto, InvalidatorReturns, InvalidatorThrows,
      Invalidated, Table!tableVars
<1>6. ASSUME NEW t \in Threads, InstallAssign(t)
      PROVE  [Table!TableNext]_(Table!tableVars)
  <2>1. CASE hooks' = [hooks EXCEPT ![key[t]] = hook[t]]
    <3>1. /\ key[t] \in ValidKeys
          /\ hook[t] \in Callbacks
      BY <1>6, TypeOK
      DEF InstallAssign, ArgumentInv, Installing, TypeOK, ValidKeys
    <3>2. [k \in ValidKeys |-> hooks[k]]' =
              [[k \in ValidKeys |-> hooks[k]] EXCEPT ![key[t]] = hook[t]]
      BY <2>1, TypeOK DEF TypeOK, ValidKeys
    <3> QED
      BY <1>6, <3>1, <3>2 DEF InstallAssign, Table!TableNext, Table!Put
  <2>2. CASE UNCHANGED hooks
    BY <1>6, <2>2 DEF InstallAssign, Table!tableVars
  <2> QED
    BY <1>6, <2>1, <2>2 DEF InstallAssign
<1>7. ASSUME NEW t \in Threads, RemoveLock(t)
      PROVE  [Table!TableNext]_(Table!tableVars)
  BY <1>7 DEF RemoveLock, Goto, LockExclusive, Table!tableVars
<1>8. ASSUME NEW t \in Threads, RemoveContains(t)
      PROVE  [Table!TableNext]_(Table!tableVars)
  BY <1>8 DEF RemoveContains, Goto, Table!tableVars
<1>9. ASSUME NEW t \in Threads, RemoveInvalidate(t)
      PROVE  [Table!TableNext]_(Table!tableVars)
  BY <1>9
  DEF RemoveInvalidate, Goto, InvalidatorReturns, InvalidatorThrows,
      Invalidated, Table!tableVars
<1>10. ASSUME NEW t \in Threads, RemoveErase(t)
       PROVE  [Table!TableNext]_(Table!tableVars)
  <2>1. key[t] \in ValidKeys
    BY <1>10, TypeOK DEF RemoveErase, ArgumentInv, TypeOK, ValidKeys
  <2>2. [k \in ValidKeys |-> hooks[k]]' =
            [[k \in ValidKeys |-> hooks[k]] EXCEPT ![key[t]] = NoHook]
    BY <1>10, TypeOK DEF RemoveErase, TypeOK, ValidKeys
  <2> QED
    BY <1>10, <2>1, <2>2 DEF RemoveErase, Table!TableNext, Table!Drop
<1>11. ASSUME NEW t \in Threads, FindLock(t)
       PROVE  [Table!TableNext]_(Table!tableVars)
  BY <1>11 DEF FindLock, Goto, LockShared, Table!tableVars
<1>12. ASSUME NEW t \in Threads, FindRead(t)
       PROVE  [Table!TableNext]_(Table!tableVars)
  <2>1. key[t] \in ValidKeys
    BY <1>12, TypeOK DEF FindRead, ArgumentInv, TypeOK, ValidKeys
  <2>2. UNCHANGED [k \in ValidKeys |-> hooks[k]]
    BY <1>12 DEF FindRead
  <2>3. CASE found' = [found EXCEPT ![t] = hooks[key[t]]]
    <3>1. found' = [found EXCEPT ![t] = [k \in ValidKeys |-> hooks[k]][key[t]]]
      BY <2>1, <2>3
    <3> QED
      BY <2>1, <2>2, <3>1 DEF Table!TableNext, Table!LookUp
  <2>4. CASE UNCHANGED found
    BY <2>2, <2>4 DEF Table!tableVars
  <2> QED
    BY <1>12, <2>3, <2>4 DEF FindRead
<1>13. CASE Translate
  BY <1>13 DEF Translate, Goto, Table!tableVars
<1>14. CASE UNCHANGED vars
  BY <1>14 DEF vars, Table!tableVars
<1> QED
  BY <1>1, <1>2, <1>3, <1>4, <1>5, <1>6, <1>7, <1>8, <1>9, <1>10, <1>11,
     <1>12, <1>13, <1>14
  DEF Next

\* Locks, exceptions and interleavings do not show: the registry is a table.
THEOREM TableRefinement == Spec => ServesTable
<1>1. Init => Table!TableInit
  BY DEF Init, Table!TableInit, ValidKeys
<1>2. IInv /\ [Next]_vars => [Table!TableNext]_(Table!tableVars)
  BY TableStep DEF IInv
<1> QED
  BY <1>1, <1>2, IInvHolds, PTL DEF Spec, ServesTable, Table!TableSpec
=============================================================================
