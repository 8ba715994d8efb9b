-------------------------- MODULE DolphinAdapterProofs --------------------------
(***************************************************************************)
(* Proofs about DolphinAdapter, for every set of keys, callables and cells.*)
(***************************************************************************)
EXTENDS DolphinAdapter, TLAPS

-----------------------------------------------------------------------------
(***************************************************************************)
(* The inductive invariants.  The first needs nothing of the allocator.    *)
(***************************************************************************)

\* The map and the local unique_ptr own each other's complement of the heap,
\* and a callback and a change exclude each other.
Owned ==
    /\ \A k \in Keys :
           bindings[k] # Null =>
               /\ heap[bindings[k]] # Freed
               /\ heap[bindings[k]].key = k
               /\ bindings[k] # binding
    /\ \A b \in Bindings :
           heap[b] # Freed => binding = b \/ bindings[heap[b].key] = b
    /\ binding # Null => heap[binding] # Freed /\ heap[binding].key = key
    /\ binding # Null <=> step \in {"install_point", "install_store"}
    /\ invoking # Null => step \in {"idle", "destroyed", "terminated"}

\* Where the contexts of the session come from: from the two owners, or, at a
\* lost key, from neither.
Pointed ==
    /\ \A k \in Keys :
           session[k] # Null =>
               /\ Accepts(k)
               /\ \/ session[k] = bindings[k]
                  \/ step = "install_store" /\ k = key /\ session[k] = binding
                  \/ k \in lost
    /\ \A k \in lost : bindings[k] = Null /\ session[k] # Null
    /\ step = "install_store" =>
           key \notin lost /\ session[key] = IF Accepts(key) THEN binding ELSE Null
    /\ step = "remove_erase" => session[key] = Null
    /\ step = "destroyed" => \A k \in Keys : bindings[k] = Null
    /\ invoking # Null =>
           heap[invoking] # Freed \/ \E k \in lost : session[k] = invoking

-----------------------------------------------------------------------------
(***************************************************************************)
(* Steps keep each part                                                    *)
(***************************************************************************)

\* Every step keeps the types.
LEMMA TypeStep ==
    ASSUME TypeOK, [Next]_vars
    PROVE  TypeOK'
<1>1. ASSUME NEW k \in Keys, NEW h \in Callbacks, InstallCall(k, h)
      PROVE  TypeOK'
  BY <1>1, TypeOK, AdapterAssumption
  DEF InstallCall, SafePoint, TypeOK, Steps
<1>2. CASE InstallPoint
  <2>1. CASE Abandon
    BY <1>2, <2>1, TypeOK, AdapterAssumption
    DEF InstallPoint, Abandon, Free, TypeOK, Steps
  <2>2. CASE ~Abandon
    BY <1>2, <2>2, TypeOK, AdapterAssumption
    DEF InstallPoint, TypeOK, Steps
  <2> QED
    BY <2>1, <2>2
<1>3. CASE InstallStore
  <2>1. CASE Abandon
    BY <1>3, <2>1, TypeOK, AdapterAssumption
    DEF InstallStore, Abandon, Free, TypeOK, Steps
  <2>2. CASE ~Abandon
    BY <1>3, <2>2, TypeOK, AdapterAssumption
    DEF InstallStore, Free, TypeOK, Steps
  <2> QED
    BY <2>1, <2>2
<1>4. ASSUME NEW k \in Keys, RemoveCall(k)
      PROVE  TypeOK'
  BY <1>4, TypeOK, AdapterAssumption
  DEF RemoveCall, SafePoint, TypeOK, Steps
<1>5. CASE RemoveErase
  BY <1>5, TypeOK, AdapterAssumption
  DEF RemoveErase, Free, TypeOK, Steps
<1>6. CASE DestroyCall
  BY <1>6, TypeOK, AdapterAssumption
  DEF DestroyCall, SafePoint, TypeOK, Steps
<1>7. ASSUME NEW k \in Keys, DestroyRemove(k)
      PROVE  TypeOK'
  BY <1>7, TypeOK, AdapterAssumption
  DEF DestroyRemove, TypeOK, Steps
<1>8. CASE DestroyMembers
  BY <1>8, TypeOK, AdapterAssumption
  DEF DestroyMembers, TypeOK, Steps
<1>9. ASSUME NEW k \in Keys, Invoke(k)
      PROVE  TypeOK'
  BY <1>9, TypeOK, AdapterAssumption
  DEF Invoke, Callable, TypeOK, Steps
<1>10. CASE CallbackReturns
  BY <1>10, TypeOK, AdapterAssumption
  DEF CallbackReturns, TypeOK, Steps
<1>11. CASE CallbackThrows
  BY <1>11, TypeOK, AdapterAssumption
  DEF CallbackThrows, TypeOK, Steps
<1>12. CASE UNCHANGED vars
  BY <1>12, TypeOK, AdapterAssumption
  DEF vars, TypeOK, Steps
<1> QED
  BY <1>1, <1>2, <1>3, <1>4, <1>5, <1>6, <1>7, <1>8, <1>9, <1>10, <1>11, <1>12
  DEF Next

\* Every step keeps the ownership of the cells, allocations that fail included.
LEMMA OwnedStep ==
    ASSUME TypeOK, Owned, [Next]_vars
    PROVE  Owned'
<1>1. ASSUME NEW k \in Keys, NEW h \in Callbacks, InstallCall(k, h)
      PROVE  Owned'
  BY <1>1, TypeOK, Owned, AdapterAssumption
  DEF InstallCall, SafePoint, TypeOK, Owned
<1>2. CASE InstallPoint
  <2>1. CASE Abandon
    BY <1>2, <2>1, TypeOK, Owned, AdapterAssumption
    DEF InstallPoint, Abandon, Free, TypeOK, Owned
  <2>2. CASE ~Abandon
    BY <1>2, <2>2, TypeOK, Owned, AdapterAssumption
    DEF InstallPoint, TypeOK, Owned
  <2> QED
    BY <2>1, <2>2
<1>3. CASE InstallStore
  <2>1. CASE Abandon
    BY <1>3, <2>1, TypeOK, Owned, AdapterAssumption
    DEF InstallStore, Abandon, Free, TypeOK, Owned
  <2>2. CASE ~Abandon
    BY <1>3, <2>2, TypeOK, Owned, AdapterAssumption
    DEF InstallStore, Free, TypeOK, Owned
  <2> QED
    BY <2>1, <2>2
<1>4. ASSUME NEW k \in Keys, RemoveCall(k)
      PROVE  Owned'
  BY <1>4, TypeOK, Owned, AdapterAssumption
  DEF RemoveCall, SafePoint, TypeOK, Owned
<1>5. CASE RemoveErase
  BY <1>5, TypeOK, Owned, AdapterAssumption
  DEF RemoveErase, Free, TypeOK, Owned
<1>6. CASE DestroyCall
  BY <1>6, TypeOK, Owned, AdapterAssumption
  DEF DestroyCall, SafePoint, TypeOK, Owned
<1>7. ASSUME NEW k \in Keys, DestroyRemove(k)
      PROVE  Owned'
  BY <1>7, TypeOK, Owned, AdapterAssumption
  DEF DestroyRemove, TypeOK, Owned
<1>8. CASE DestroyMembers
  BY <1>8, TypeOK, Owned, AdapterAssumption
  DEF DestroyMembers, TypeOK, Owned
<1>9. ASSUME NEW k \in Keys, Invoke(k)
      PROVE  Owned'
  BY <1>9, TypeOK, Owned, AdapterAssumption
  DEF Invoke, Callable, TypeOK, Owned
<1>10. CASE CallbackReturns
  BY <1>10, TypeOK, Owned, AdapterAssumption
  DEF CallbackReturns, TypeOK, Owned
<1>11. CASE CallbackThrows
  BY <1>11, TypeOK, Owned, AdapterAssumption
  DEF CallbackThrows, TypeOK, Owned
<1>12. CASE UNCHANGED vars
  BY <1>12, TypeOK, Owned, AdapterAssumption
  DEF vars, TypeOK, Owned
<1> QED
  BY <1>1, <1>2, <1>3, <1>4, <1>5, <1>6, <1>7, <1>8, <1>9, <1>10, <1>11, <1>12
  DEF Next

\* Every step keeps the contexts owned or lost.
LEMMA PointedStep ==
    ASSUME TypeOK, Owned, Pointed, [Next]_vars
    PROVE  Pointed'
<1>1. ASSUME NEW k \in Keys, NEW h \in Callbacks, InstallCall(k, h)
      PROVE  Pointed'
  BY <1>1, TypeOK, Owned, Pointed, AdapterAssumption
  DEF InstallCall, SafePoint, TypeOK, Owned, Pointed
<1>2. CASE InstallPoint
  <2>1. CASE Abandon
    BY <1>2, <2>1, TypeOK, Owned, Pointed, AdapterAssumption
    DEF InstallPoint, Abandon, Free, TypeOK, Owned, Pointed
  <2>2. CASE ~Abandon
    BY <1>2, <2>2, TypeOK, Owned, Pointed, AdapterAssumption
    DEF InstallPoint, TypeOK, Owned, Pointed
  <2> QED
    BY <2>1, <2>2
<1>3. CASE InstallStore
  <2>1. CASE Abandon
    BY <1>3, <2>1, TypeOK, Owned, Pointed, AdapterAssumption
    DEF InstallStore, Abandon, Free, TypeOK, Owned, Pointed
  <2>2. CASE ~Abandon
    BY <1>3, <2>2, TypeOK, Owned, Pointed, AdapterAssumption
    DEF InstallStore, Free, TypeOK, Owned, Pointed
  <2> QED
    BY <2>1, <2>2
<1>4. ASSUME NEW k \in Keys, RemoveCall(k)
      PROVE  Pointed'
  BY <1>4, TypeOK, Owned, Pointed, AdapterAssumption
  DEF RemoveCall, SafePoint, TypeOK, Owned, Pointed
<1>5. CASE RemoveErase
  BY <1>5, TypeOK, Owned, Pointed, AdapterAssumption
  DEF RemoveErase, Free, TypeOK, Owned, Pointed
<1>6. CASE DestroyCall
  BY <1>6, TypeOK, Owned, Pointed, AdapterAssumption
  DEF DestroyCall, SafePoint, TypeOK, Owned, Pointed
<1>7. ASSUME NEW k \in Keys, DestroyRemove(k)
      PROVE  Pointed'
  BY <1>7, TypeOK, Owned, Pointed, AdapterAssumption
  DEF DestroyRemove, TypeOK, Owned, Pointed
<1>8. CASE DestroyMembers
  BY <1>8, TypeOK, Owned, Pointed, AdapterAssumption
  DEF DestroyMembers, TypeOK, Owned, Pointed
<1>9. ASSUME NEW k \in Keys, Invoke(k)
      PROVE  Pointed'
  BY <1>9, TypeOK, Owned, Pointed, AdapterAssumption
  DEF Invoke, Callable, TypeOK, Owned, Pointed
<1>10. CASE CallbackReturns
  BY <1>10, TypeOK, Owned, Pointed, AdapterAssumption
  DEF CallbackReturns, TypeOK, Owned, Pointed
<1>11. CASE CallbackThrows
  BY <1>11, TypeOK, Owned, Pointed, AdapterAssumption
  DEF CallbackThrows, TypeOK, Owned, Pointed
<1>12. CASE UNCHANGED vars
  BY <1>12, TypeOK, Owned, Pointed, AdapterAssumption
  DEF vars, TypeOK, Owned, Pointed
<1> QED
  BY <1>1, <1>2, <1>3, <1>4, <1>5, <1>6, <1>7, <1>8, <1>9, <1>10, <1>11, <1>12
  DEF Next

-----------------------------------------------------------------------------
(***************************************************************************)
(* Theorems                                                                *)
(***************************************************************************)

\* Every variable has its type: a call, a callback and the destructor leave the
\* adapter and the heap in the shapes the source declares.
THEOREM TypeCorrect == Spec => []TypeOK
<1>1. Init => TypeOK
  BY AdapterAssumption DEF Init, TypeOK, Steps
<1> QED
  BY <1>1, TypeStep, PTL DEF Spec

\* The ownership of the cells is inductive.
LEMMA OwnedHolds == Spec => []Owned
<1>1. Init => Owned
  BY AdapterAssumption DEF Init, Owned
<1> QED
  BY <1>1, OwnedStep, TypeCorrect, PTL DEF Spec

\* So is where contexts come from.
LEMMA PointedHolds == Spec => []Pointed
<1>1. Init => Pointed
  BY AdapterAssumption DEF Init, Pointed
<1> QED
  BY <1>1, PointedStep, TypeCorrect, OwnedHolds, PTL DEF Spec

\* No cell leaks, is freed twice or has two owners, whatever throws.
THEOREM BindingsOwned == Spec => []EveryBindingOwned
<1>1. TypeOK /\ Owned => EveryBindingOwned
  <2> SUFFICES ASSUME TypeOK, Owned, NEW b \in Bindings
               PROVE  IF heap[b] = Freed THEN Owners(b) = {} /\ binding # b
                      ELSE Owners(b) = IF binding = b THEN {} ELSE {heap[b].key}
    BY DEF EveryBindingOwned
  <2>1. CASE heap[b] = Freed
    BY <2>1, AdapterAssumption DEF TypeOK, Owned, Owners
  <2>2. CASE heap[b] # Freed
    <3>1. heap[b].key \in Keys
      BY <2>2 DEF TypeOK
    <3>2. \A k \in Keys : bindings[k] = b => k = heap[b].key /\ binding # b
      BY AdapterAssumption DEF Owned
    <3>3. binding = b \/ bindings[heap[b].key] = b
      BY <2>2 DEF Owned
    <3> QED
      BY <2>2, <3>1, <3>2, <3>3 DEF Owners
  <2> QED
    BY <2>1, <2>2
<1> QED
  BY <1>1, TypeCorrect, OwnedHolds, PTL

\* Every context of the session but those of lost keys is live, at every point of
\* every operation: install points the session at the new cell before it frees the
\* old, remove and the destructor revoke before they free.
THEOREM ContextsLive == Spec => []NoDanglingContext
<1>1. TypeOK /\ Owned /\ Pointed => NoDanglingContext
  BY AdapterAssumption DEF TypeOK, Owned, Pointed, NoDanglingContext, Live
<1> QED
  BY <1>1, TypeCorrect, OwnedHolds, PointedHolds, PTL

\* And what the session dispatches at them can be revoked, by the destructor too.
THEOREM ContextsRevocable == Spec => []SessionRevocable
<1>1. TypeOK /\ Owned /\ Pointed => SessionRevocable
  BY AdapterAssumption DEF TypeOK, Owned, Pointed, SessionRevocable
<1> QED
  BY <1>1, TypeCorrect, OwnedHolds, PointedHolds, PTL

\* What the destructor leaves behind: no cell, and no context, but those of the
\* lost keys.
Gone ==
    step = "destroyed" =>
        /\ \A b \in Bindings : heap[b] = Freed
        /\ \A k \in Keys : session[k] # Null => k \in lost

\* A destroyed adapter has freed every binding it ever made, replacements, refused
\* installs and exceptions included, and the session, which outlives it, keeps no
\* pointer to them, but for the lost keys.
THEOREM NothingLeftBehind == Spec => []Gone
<1>1. TypeOK /\ Owned /\ Pointed => Gone
  BY AdapterAssumption DEF TypeOK, Owned, Pointed, Gone
<1> QED
  BY <1>1, TypeCorrect, OwnedHolds, PointedHolds, PTL

\* What dolphin_adapter.cpp:174-175 says holds to the letter for as long as no key
\* is lost: one allocation, of the node of a new key, is all that stands between
\* the code and its comment.
THEOREM LiveUnlessLost ==
    Spec => [](lost = {} =>
                  /\ ContextsAlwaysLive
                  /\ step = "idle" => \A k \in Keys : session[k] \in {Null, bindings[k]})
<1>1. NoDanglingContext /\ SessionRevocable =>
          (lost = {} =>
              /\ ContextsAlwaysLive
              /\ step = "idle" => \A k \in Keys : session[k] \in {Null, bindings[k]})
  BY DEF NoDanglingContext, SessionRevocable, ContextsAlwaysLive
<1> QED
  BY <1>1, ContextsLive, ContextsRevocable, PTL

-----------------------------------------------------------------------------
(***************************************************************************)
(* Refinement                                                              *)
(***************************************************************************)

\* What a step must show of the table.
Shown == [(\E k \in lost : Invoke(k)) \/ Table!TableNext]_(Table!tableVars)

\* A step that leaves the contexts in use what they hold.
Kept ==
    /\ UNCHANGED <<session, entered, lost>>
    /\ \A k \in Keys \ lost :
           session[k] # Null => heap'[session[k]] = heap[session[k]]

\* The table is the same where the contexts in use are, and hold what they held.
LEMMA EntriesKept ==
    ASSUME Kept
    PROVE  Shown
<1>1. \A k \in Keys : Entry(k)' = Entry(k)
  BY DEF Entry, Kept
<1>2. UNCHANGED Table!tableVars
  BY <1>1 DEF Table!tableVars, Kept
<1> QED
  BY <1>2 DEF Shown

\* A step that takes one hook from the table, if the key had one.
LEMMA EntryDropped ==
    ASSUME NEW k \in Keys, UNCHANGED entered,
           \A j \in Keys : Entry(j)' = IF j = k THEN NoHook ELSE Entry(j)
    PROVE  Shown
<1>1. [j \in Keys |-> Entry(j)]' = [[j \in Keys |-> Entry(j)] EXCEPT ![k] = NoHook]
  OBVIOUS
<1>2. UNCHANGED [r \in {"cpu"} |-> entered]
  OBVIOUS
<1> QED
  BY <1>1, <1>2 DEF Table!TableNext, Table!Drop, Shown

\* Every step changes the table at one key, answers from it, does not show, or
\* enters a lost key.
LEMMA TableStep ==
    ASSUME TypeOK, Owned, Pointed, NoDanglingContext, [Next]_vars
    PROVE  Shown
<1>1. ASSUME NEW k \in Keys, NEW h \in Callbacks, InstallCall(k, h)
      PROVE  Shown
  <2>1. Kept
    BY <1>1, AdapterAssumption
    DEF InstallCall, TypeOK, NoDanglingContext, Live, Kept
  <2> QED
    BY <2>1, EntriesKept
<1>2. CASE InstallPoint
  <2>1. CASE Abandon /\ UNCHANGED lost
    <3>1. Kept
      BY <1>2, <2>1, AdapterAssumption
      DEF InstallPoint, Abandon, Free, TypeOK, Owned, Pointed, Kept
    <3> QED
      BY <3>1, EntriesKept
  <2>2. CASE /\ session' = IF Accepts(key) THEN [session EXCEPT ![key] = binding]
                                           ELSE session
             /\ lost' = lost \ {key}
             /\ UNCHANGED <<heap, entered>>
    <3>1. /\ key \in Keys
          /\ binding \in Bindings
          /\ heap[binding] # Freed
          /\ heap[binding].hook \in Callbacks
      BY <1>2, AdapterAssumption DEF InstallPoint, TypeOK, Owned
    <3>2. CASE Accepts(key)
      <4>1. \A j \in Keys :
                Entry(j)' = IF j = key THEN heap[binding].hook ELSE Entry(j)
        BY <2>2, <3>1, <3>2, AdapterAssumption DEF TypeOK, Entry
      <4>2. [j \in Keys |-> Entry(j)]' =
                [[j \in Keys |-> Entry(j)] EXCEPT ![key] = heap[binding].hook]
        BY <3>1, <4>1
      <4>3. UNCHANGED [r \in {"cpu"} |-> entered]
        BY <2>2
      <4> QED
        BY <3>1, <4>2, <4>3 DEF Table!TableNext, Table!Put, Shown
    <3>3. CASE ~Accepts(key)
      <4>1. key \notin lost
        BY <3>1, <3>3 DEF Pointed, TypeOK
      <4>2. Kept
        BY <2>2, <3>3, <4>1 DEF TypeOK, Kept
      <4> QED
        BY <4>2, EntriesKept
    <3> QED
      BY <3>2, <3>3
  <2> QED
    BY <1>2, <2>1, <2>2 DEF InstallPoint
<1>3. CASE InstallStore
  <2>1. step = "install_store" /\ key \in Keys /\ UNCHANGED <<session, entered>>
    BY <1>3 DEF InstallStore, Abandon, TypeOK
  <2>2. CASE Free(bindings[key]) /\ UNCHANGED lost
    <3>1. Kept
      BY <2>1, <2>2, AdapterAssumption DEF Free, TypeOK, Owned, Pointed, Kept
    <3> QED
      BY <3>1, EntriesKept
  <2>3. CASE Abandon /\ ~Accepts(key) /\ UNCHANGED lost
    <3>1. Kept
      BY <2>1, <2>3, AdapterAssumption
      DEF Abandon, Free, TypeOK, Owned, Pointed, Kept
    <3> QED
      BY <3>1, EntriesKept
  <2>4. CASE Abandon /\ Accepts(key) /\ lost' = lost \cup {key}
    <3>1. \A j \in Keys \ lost :
              j # key /\ session[j] # Null => heap'[session[j]] = heap[session[j]]
      BY <2>1, <2>4, AdapterAssumption
      DEF Abandon, Free, TypeOK, Owned, Pointed
    <3>2. \A j \in Keys : Entry(j)' = IF j = key THEN NoHook ELSE Entry(j)
      BY <2>1, <2>4, <3>1 DEF Entry
    <3> QED
      BY <2>1, <3>2, EntryDropped
  <2> QED
    BY <1>3, <2>2, <2>3, <2>4 DEF InstallStore
<1>4. ASSUME NEW k \in Keys, RemoveCall(k)
      PROVE  Shown
  <2>1. \A j \in Keys : Entry(j)' = IF j = k THEN NoHook ELSE Entry(j)
    BY <1>4 DEF RemoveCall, TypeOK, Entry
  <2>2. UNCHANGED entered
    BY <1>4 DEF RemoveCall
  <2> QED
    BY <2>1, <2>2, EntryDropped
<1>5. CASE RemoveErase
  <2>1. Kept
    BY <1>5, AdapterAssumption DEF RemoveErase, Free, TypeOK, Owned, Pointed, Kept
  <2> QED
    BY <2>1, EntriesKept
<1>6. CASE DestroyCall
  BY <1>6, EntriesKept DEF DestroyCall, Kept
<1>7. ASSUME NEW k \in Keys, DestroyRemove(k)
      PROVE  Shown
  <2>1. \A j \in Keys : Entry(j)' = IF j = k THEN NoHook ELSE Entry(j)
    BY <1>7 DEF DestroyRemove, TypeOK, Entry
  <2>2. UNCHANGED entered
    BY <1>7 DEF DestroyRemove
  <2> QED
    BY <2>1, <2>2, EntryDropped
<1>8. CASE DestroyMembers
  <2>1. \A j \in Keys \ lost : session[j] = Null
    BY <1>8, AdapterAssumption DEF DestroyMembers, Pointed
  <2> QED
    BY <1>8, <2>1, EntriesKept DEF DestroyMembers, Kept
<1>9. ASSUME NEW k \in Keys, Invoke(k)
      PROVE  Shown
  <2>1. CASE k \in lost
    BY <1>9, <2>1 DEF Shown
  <2>2. CASE k \notin lost
    <3>1. entered' = Entry(k)
      BY <1>9, <2>2 DEF Invoke, Callable, NoDanglingContext, Live, Entry
    <3>2. \A j \in Keys : Entry(j)' = Entry(j)
      BY <1>9 DEF Invoke, Entry
    <3>3. [r \in {"cpu"} |-> entered]' =
              [[r \in {"cpu"} |-> entered] EXCEPT
                  !["cpu"] = [j \in Keys |-> Entry(j)][k]]
      BY <3>1
    <3>4. UNCHANGED [j \in Keys |-> Entry(j)]
      BY <3>2
    <3> QED
      BY <3>3, <3>4 DEF Table!TableNext, Table!LookUp, Shown
  <2> QED
    BY <2>1, <2>2
<1>10. CASE CallbackReturns
  BY <1>10, EntriesKept DEF CallbackReturns, Kept
<1>11. CASE CallbackThrows
  BY <1>11, EntriesKept DEF CallbackThrows, Kept
<1>12. CASE UNCHANGED vars
  BY <1>12, EntriesKept DEF vars, Kept
<1> QED
  BY <1>1, <1>2, <1>3, <1>4, <1>5, <1>6, <1>7, <1>8, <1>9, <1>10, <1>11, <1>12
  DEF Next

\* The cells, their owners and their order of destruction do not show: what is
\* dispatched is a table of hooks that changes at once, in which the failure to
\* install a hook is the removal of that hook and of no other.
THEOREM TableRefinement == Spec => ServesTable
<1>1. Init => Table!TableInit
  BY DEF Init, Table!TableInit, Entry
<1>2. TypeOK /\ Owned /\ Pointed /\ NoDanglingContext /\ [Next]_vars
          => [(\E k \in lost : Invoke(k)) \/ Table!TableNext]_(Table!tableVars)
  BY TableStep DEF Shown
<1> QED
  BY <1>1, <1>2, TypeCorrect, OwnedHolds, PointedHolds, ContextsLive, PTL
  DEF Spec, ServesTable
=============================================================================
