-------------------------- MODULE OriginalCallsProofs --------------------------
(***************************************************************************)
(* Proofs about OriginalCalls, for every set of keys and every number of   *)
(* tickets.                                                                *)
(***************************************************************************)
EXTENDS OriginalCalls, TLAPS

-----------------------------------------------------------------------------
(***************************************************************************)
(* The inductive invariant                                                 *)
(***************************************************************************)

WindowInv ==
    window # Closed =>
        /\ window.ticket \in TicketValues
        /\ window.stage # "closed"

\* Nothing has happened to a ticket that is not issued.
UnissuedInv ==
    \A t \in TicketValues :
        t >= next_ticket => tickets[t].state = "Absent" /\ entered[t] = 0

\* A ticket has not been entered before its claim, nor before the window of
\* its claim has got that far.
EntryInv ==
    /\ \A t \in TicketValues : tickets[t].state = "Pending" => entered[t] = 0
    /\ window.stage \in {"claimed", "compiled"} => entered[window.ticket] = 0

IInv ==
    /\ TypeOK
    /\ WindowInv
    /\ UnissuedInv
    /\ EntryInv
    /\ OneEntry
    /\ EntersOwnKey
    /\ NoOrphanBlock

\* HookKey{} is a key.
LEMMA DefaultKeyType == DefaultKey \in HookKey
  BY KeyAssumption DEF DefaultKey, HookKey

\* The closed window is a window.
LEMMA ClosedType == Closed \in Windows
  BY TicketAssumption, DefaultKeyType DEF Closed, Windows

\* begin hands out the next value, within the bound.
LEMMA BeginFacts ==
    ASSUME TypeOK, NEW key \in HookKey, begin(key)
    PROVE  /\ next_ticket \in TicketValues
           /\ next_ticket' = next_ticket + 1
           /\ next_ticket \in Nat
           /\ UNCHANGED entered
  BY TicketAssumption DEF begin, TypeOK, TicketValues

-----------------------------------------------------------------------------
(***************************************************************************)
(* Steps keep each part                                                    *)
(***************************************************************************)

\* Every step keeps the types.
LEMMA TypeStep ==
    ASSUME TypeOK, WindowInv, [Next]_vars
    PROVE  TypeOK'
<1>1. ASSUME NEW key \in HookKey, begin(key)
      PROVE  TypeOK'
  <2>1. next_ticket \in TicketValues /\ next_ticket' \in 1..(MaxTickets + 1)
    BY <1>1, BeginFacts, TicketAssumption DEF TicketValues
  <2>2. [key |-> key, state |-> "Pending"] \in TicketRecord
    BY DEF TicketRecord
  <2>3. tickets' \in [TicketValues -> TicketRecord]
    BY <1>1, <2>2, TypeOK DEF begin, TypeOK
  <2>4. one_shot' \subseteq TicketValues
    BY <1>1, TypeOK DEF begin, Surviving, TypeOK
  <2> QED
    BY <1>1, <2>1, <2>3, <2>4, TypeOK DEF begin, TypeOK
<1>2. ASSUME NEW t \in TicketValues, NEW key \in HookKey, claim_entry(t, key)
      PROVE  TypeOK'
  BY <1>2, TypeOK, TicketAssumption, ClosedType
  DEF claim_entry, Claimable, TypeOK, TicketRecord, Windows, Closed,
      TicketValues
<1>3. ASSUME NEW t \in TicketValues, complete(t)
      PROVE  TypeOK'
  <2>1. tickets' \in [TicketValues -> TicketRecord]
    BY <1>3, TypeOK DEF complete, Retire, Erased, TypeOK, TicketRecord
  <2>2. one_shot' \subseteq TicketValues
    BY <1>3, TypeOK DEF complete, Retire, Surviving, TypeOK
  <2> QED
    BY <1>3, <2>1, <2>2, ClosedType, TypeOK DEF complete, TypeOK
<1>4. ASSUME NEW t \in TicketValues, cancel(t)
      PROVE  TypeOK'
  <2>1. tickets' \in [TicketValues -> TicketRecord]
    BY <1>4, TypeOK DEF cancel, Retire, Erased, TypeOK, TicketRecord
  <2>2. one_shot' \subseteq TicketValues
    BY <1>4, TypeOK DEF cancel, Retire, Surviving, TypeOK
  <2> QED
    BY <1>4, <2>1, <2>2, ClosedType, TypeOK DEF cancel, TypeOK
<1>5. CASE CompileOneShot
  BY <1>5, TypeOK, TicketAssumption, WindowInv
  DEF CompileOneShot, TypeOK, TicketRecord, Windows, WindowInv, Closed
<1>6. CASE EnterOneShot
  BY <1>6, TypeOK, TicketAssumption, WindowInv
  DEF EnterOneShot, TypeOK, TicketRecord, Windows, WindowInv, Closed
<1>7. CASE UNCHANGED vars
  BY <1>7, TypeOK, TicketAssumption DEF vars, TypeOK, TicketRecord
<1> QED
  BY <1>1, <1>2, <1>3, <1>4, <1>5, <1>6, <1>7
  DEF Next

\* A window is closed or serves a ticket.
LEMMA WindowStep ==
    ASSUME TypeOK, WindowInv, [Next]_vars
    PROVE  WindowInv'
<1>1. ASSUME NEW key \in HookKey, begin(key)
      PROVE  WindowInv'
  BY <1>1, TypeOK, WindowInv
  DEF begin, Surviving, TypeOK, WindowInv, Closed, Windows
<1>2. ASSUME NEW t \in TicketValues, NEW key \in HookKey, claim_entry(t, key)
      PROVE  WindowInv'
  BY <1>2, TypeOK, WindowInv
  DEF claim_entry, Claimable, TypeOK, WindowInv, Closed, Windows, TicketValues
<1>3. ASSUME NEW t \in TicketValues, complete(t)
      PROVE  WindowInv'
  BY <1>3, TypeOK, WindowInv
  DEF complete, Retire, Surviving, Erased, TypeOK, WindowInv, Closed, Windows
<1>4. ASSUME NEW t \in TicketValues, cancel(t)
      PROVE  WindowInv'
  BY <1>4, TypeOK, WindowInv
  DEF cancel, Retire, Surviving, Erased, TypeOK, WindowInv, Closed, Windows
<1>5. CASE CompileOneShot
  BY <1>5, TypeOK, WindowInv
  DEF CompileOneShot, TypeOK, WindowInv, Closed, Windows
<1>6. CASE EnterOneShot
  BY <1>6, TypeOK, WindowInv
  DEF EnterOneShot, TypeOK, WindowInv, Closed, Windows
<1>7. CASE UNCHANGED vars
  BY <1>7, TypeOK, WindowInv DEF vars, TypeOK, WindowInv, Closed, Windows
<1> QED
  BY <1>1, <1>2, <1>3, <1>4, <1>5, <1>6, <1>7
  DEF Next

\* Nothing happens to a ticket before its issue.
LEMMA UnissuedStep ==
    ASSUME TypeOK, WindowInv, UnissuedInv, EntersOwnKey, [Next]_vars
    PROVE  UnissuedInv'
<1>1. ASSUME NEW key \in HookKey, begin(key)
      PROVE  UnissuedInv'
  <2>1. CASE tickets' = [tickets EXCEPT ![next_ticket] =
                             [key |-> key, state |-> "Pending"]]
    BY <1>1, <2>1, BeginFacts, TypeOK, UnissuedInv, TicketAssumption
    DEF begin, Surviving, TypeOK, UnissuedInv, TicketRecord,
        TicketValues
  <2>2. CASE UNCHANGED tickets
    BY <1>1, <2>2, BeginFacts, TypeOK, UnissuedInv, TicketAssumption
    DEF begin, Surviving, TypeOK, UnissuedInv, TicketRecord,
        TicketValues
  <2> QED
    BY <1>1, <2>1, <2>2 DEF begin
<1>2. ASSUME NEW t \in TicketValues, NEW key \in HookKey, claim_entry(t, key)
      PROVE  UnissuedInv'
  BY <1>2, TypeOK, UnissuedInv
  DEF claim_entry, Claimable, TypeOK, UnissuedInv, TicketRecord, TicketValues
<1>3. ASSUME NEW t \in TicketValues, complete(t)
      PROVE  UnissuedInv'
  BY <1>3, TypeOK, UnissuedInv
  DEF complete, Retire, Surviving, Erased, TypeOK, UnissuedInv, TicketRecord,
      TicketValues
<1>4. ASSUME NEW t \in TicketValues, cancel(t)
      PROVE  UnissuedInv'
  BY <1>4, TypeOK, UnissuedInv
  DEF cancel, Retire, Surviving, Erased, TypeOK, UnissuedInv, TicketRecord,
      TicketValues
<1>5. CASE CompileOneShot
  BY <1>5, TypeOK, UnissuedInv
  DEF CompileOneShot, TypeOK, UnissuedInv, TicketRecord, TicketValues
<1>6. CASE EnterOneShot
  BY <1>6, TypeOK, UnissuedInv, WindowInv, EntersOwnKey
  DEF EnterOneShot, TypeOK, UnissuedInv, TicketRecord, TicketValues,
      WindowInv, EntersOwnKey, Closed
<1>7. CASE UNCHANGED vars
  BY <1>7, TypeOK, UnissuedInv
  DEF vars, TypeOK, UnissuedInv, TicketRecord, TicketValues
<1> QED
  BY <1>1, <1>2, <1>3, <1>4, <1>5, <1>6, <1>7
  DEF Next

\* A window enters what has not been entered.
LEMMA EntryStep ==
    ASSUME TypeOK, WindowInv, UnissuedInv, EntersOwnKey, EntryInv, [Next]_vars
    PROVE  EntryInv'
<1>1. ASSUME NEW key \in HookKey, begin(key)
      PROVE  EntryInv'
  <2>1. CASE tickets' = [tickets EXCEPT ![next_ticket] =
                             [key |-> key, state |-> "Pending"]]
    BY <1>1, <2>1, BeginFacts, TypeOK, EntryInv, UnissuedInv
    DEF begin, Surviving, TypeOK, EntryInv, TicketRecord, UnissuedInv, Closed
  <2>2. CASE UNCHANGED tickets
    BY <1>1, <2>2, BeginFacts, TypeOK, EntryInv, UnissuedInv
    DEF begin, Surviving, TypeOK, EntryInv, TicketRecord, UnissuedInv, Closed
  <2> QED
    BY <1>1, <2>1, <2>2 DEF begin
<1>2. ASSUME NEW t \in TicketValues, NEW key \in HookKey, claim_entry(t, key)
      PROVE  EntryInv'
  BY <1>2, TypeOK, EntryInv
  DEF claim_entry, Claimable, TypeOK, EntryInv, TicketRecord, Closed
<1>3. ASSUME NEW t \in TicketValues, complete(t)
      PROVE  EntryInv'
  BY <1>3, TypeOK, EntryInv
  DEF complete, Retire, Surviving, Erased, TypeOK, EntryInv, TicketRecord,
      Closed
<1>4. ASSUME NEW t \in TicketValues, cancel(t)
      PROVE  EntryInv'
  BY <1>4, TypeOK, EntryInv
  DEF cancel, Retire, Surviving, Erased, TypeOK, EntryInv, TicketRecord,
      Closed
<1>5. CASE CompileOneShot
  BY <1>5, TypeOK, EntryInv
  DEF CompileOneShot, TypeOK, EntryInv, TicketRecord, Closed, Windows
<1>6. CASE EnterOneShot
  BY <1>6, TypeOK, EntryInv, WindowInv, EntersOwnKey
  DEF EnterOneShot, TypeOK, EntryInv, TicketRecord, Closed, WindowInv,
      EntersOwnKey, Windows
<1>7. CASE UNCHANGED vars
  BY <1>7, TypeOK, EntryInv DEF vars, TypeOK, EntryInv, TicketRecord, Closed
<1> QED
  BY <1>1, <1>2, <1>3, <1>4, <1>5, <1>6, <1>7
  DEF Next

\* No second entry.
LEMMA OneEntryStep ==
    ASSUME TypeOK, WindowInv, EntryInv, OneEntry, [Next]_vars
    PROVE  OneEntry'
<1>1. ASSUME NEW key \in HookKey, begin(key)
      PROVE  OneEntry'
  BY <1>1, TypeOK, OneEntry DEF begin, Surviving, TypeOK, OneEntry
<1>2. ASSUME NEW t \in TicketValues, NEW key \in HookKey, claim_entry(t, key)
      PROVE  OneEntry'
  BY <1>2, TypeOK, OneEntry DEF claim_entry, Claimable, TypeOK, OneEntry
<1>3. ASSUME NEW t \in TicketValues, complete(t)
      PROVE  OneEntry'
  BY <1>3, TypeOK, OneEntry
  DEF complete, Retire, Surviving, Erased, TypeOK, OneEntry
<1>4. ASSUME NEW t \in TicketValues, cancel(t)
      PROVE  OneEntry'
  BY <1>4, TypeOK, OneEntry
  DEF cancel, Retire, Surviving, Erased, TypeOK, OneEntry
<1>5. CASE CompileOneShot
  BY <1>5, TypeOK, OneEntry DEF CompileOneShot, TypeOK, OneEntry
<1>6. CASE EnterOneShot
  BY <1>6, TypeOK, OneEntry, EntryInv, WindowInv
  DEF EnterOneShot, TypeOK, OneEntry, EntryInv, WindowInv, Closed
<1>7. CASE UNCHANGED vars
  BY <1>7, TypeOK, OneEntry DEF vars, TypeOK, OneEntry
<1> QED
  BY <1>1, <1>2, <1>3, <1>4, <1>5, <1>6, <1>7
  DEF Next

\* The window stays with the key of its ticket.
LEMMA OwnKeyStep ==
    ASSUME TypeOK, WindowInv, EntersOwnKey, [Next]_vars
    PROVE  EntersOwnKey'
<1>1. ASSUME NEW key \in HookKey, begin(key)
      PROVE  EntersOwnKey'
  BY <1>1, TypeOK, WindowInv, EntersOwnKey
  DEF begin, Surviving, TypeOK, WindowInv, EntersOwnKey, Closed, TicketRecord,
      Windows
<1>2. ASSUME NEW t \in TicketValues, NEW key \in HookKey, claim_entry(t, key)
      PROVE  EntersOwnKey'
  BY <1>2, TypeOK, WindowInv, EntersOwnKey
  DEF claim_entry, Claimable, TypeOK, WindowInv, EntersOwnKey, Closed,
      TicketRecord, Windows
<1>3. ASSUME NEW t \in TicketValues, complete(t)
      PROVE  EntersOwnKey'
  BY <1>3, TypeOK, WindowInv, EntersOwnKey
  DEF complete, Retire, Surviving, Erased, TypeOK, WindowInv, EntersOwnKey,
      Closed, TicketRecord, Windows
<1>4. ASSUME NEW t \in TicketValues, cancel(t)
      PROVE  EntersOwnKey'
  BY <1>4, TypeOK, WindowInv, EntersOwnKey
  DEF cancel, Retire, Surviving, Erased, TypeOK, WindowInv, EntersOwnKey,
      Closed, TicketRecord, Windows
<1>5. CASE CompileOneShot
  BY <1>5, TypeOK, WindowInv, EntersOwnKey
  DEF CompileOneShot, TypeOK, WindowInv, EntersOwnKey, Closed, TicketRecord,
      Windows
<1>6. CASE EnterOneShot
  BY <1>6, TypeOK, WindowInv, EntersOwnKey
  DEF EnterOneShot, TypeOK, WindowInv, EntersOwnKey, Closed, TicketRecord,
      Windows
<1>7. CASE UNCHANGED vars
  BY <1>7, TypeOK, WindowInv, EntersOwnKey
  DEF vars, TypeOK, WindowInv, EntersOwnKey, Closed, TicketRecord, Windows
<1> QED
  BY <1>1, <1>2, <1>3, <1>4, <1>5, <1>6, <1>7
  DEF Next

\* No block loses its ticket.
LEMMA OrphanStep ==
    ASSUME TypeOK, WindowInv, UnissuedInv, EntersOwnKey, NoOrphanBlock, [Next]_vars
    PROVE  NoOrphanBlock'
<1>1. ASSUME NEW key \in HookKey, begin(key)
      PROVE  NoOrphanBlock'
  <2>1. CASE tickets' = [tickets EXCEPT ![next_ticket] =
                             [key |-> key, state |-> "Pending"]]
    BY <1>1, <2>1, BeginFacts, TypeOK, NoOrphanBlock, UnissuedInv
    DEF begin, Surviving, TypeOK, NoOrphanBlock, TicketRecord, UnissuedInv
  <2>2. CASE UNCHANGED tickets
    BY <1>1, <2>2, BeginFacts, TypeOK, NoOrphanBlock, UnissuedInv
    DEF begin, Surviving, TypeOK, NoOrphanBlock, TicketRecord, UnissuedInv
  <2> QED
    BY <1>1, <2>1, <2>2 DEF begin
<1>2. ASSUME NEW t \in TicketValues, NEW key \in HookKey, claim_entry(t, key)
      PROVE  NoOrphanBlock'
  BY <1>2, TypeOK, NoOrphanBlock
  DEF claim_entry, Claimable, TypeOK, NoOrphanBlock, TicketRecord
<1>3. ASSUME NEW t \in TicketValues, complete(t)
      PROVE  NoOrphanBlock'
  BY <1>3, TypeOK, NoOrphanBlock
  DEF complete, Retire, Surviving, Erased, TypeOK, NoOrphanBlock, TicketRecord
<1>4. ASSUME NEW t \in TicketValues, cancel(t)
      PROVE  NoOrphanBlock'
  BY <1>4, TypeOK, NoOrphanBlock
  DEF cancel, Retire, Surviving, Erased, TypeOK, NoOrphanBlock, TicketRecord
<1>5. CASE CompileOneShot
  BY <1>5, TypeOK, NoOrphanBlock, EntersOwnKey
  DEF CompileOneShot, TypeOK, NoOrphanBlock, TicketRecord, EntersOwnKey,
      Closed
<1>6. CASE EnterOneShot
  BY <1>6, TypeOK, NoOrphanBlock
  DEF EnterOneShot, TypeOK, NoOrphanBlock, TicketRecord
<1>7. CASE UNCHANGED vars
  BY <1>7, TypeOK, NoOrphanBlock DEF vars, TypeOK, NoOrphanBlock, TicketRecord
<1> QED
  BY <1>1, <1>2, <1>3, <1>4, <1>5, <1>6, <1>7
  DEF Next

-----------------------------------------------------------------------------
(***************************************************************************)
(* The invariant holds in every reachable state                            *)
(***************************************************************************)

\* The inductive invariant holds initially.
LEMMA InitIInv == Init => IInv
<1> SUFFICES ASSUME Init PROVE IInv
  OBVIOUS
<1>1. TypeOK
  BY TicketAssumption, DefaultKeyType, ClosedType
  DEF Init, TypeOK, TicketRecord
<1>2. WindowInv /\ UnissuedInv /\ EntryInv /\ OneEntry
  BY DEF Init, WindowInv, UnissuedInv, EntryInv, OneEntry, Closed
<1>3. EntersOwnKey /\ NoOrphanBlock
  BY DEF Init, EntersOwnKey, NoOrphanBlock
<1> QED
  BY <1>1, <1>2, <1>3 DEF IInv

\* So it holds in every state.
LEMMA IInvHolds == Spec => []IInv
<1>1. Init => IInv
  BY InitIInv
<1>2. IInv /\ [Next]_vars => IInv'
  BY TypeStep, WindowStep, UnissuedStep, EntryStep, OneEntryStep, OwnKeyStep,
     OrphanStep
  DEF IInv
<1> QED
  BY <1>1, <1>2, PTL DEF Spec

\* The storage of OriginalCallCoordinator and the dispatcher it serves.
THEOREM TypeCorrect == Spec => []TypeOK
  BY IInvHolds, PTL DEF IInv

\* original_calls.cpp: a ticket lets the original body run once at most.
THEOREM TicketsEnterOnce == Spec => []OneEntry
  BY IInvHolds, PTL DEF IInv

\* original_calls.cpp: and only under the key the ticket was begun for.
THEOREM TicketsEnterTheirKey == Spec => []EntersOwnKey
  BY IInvHolds, PTL DEF IInv

\* original_calls.cpp: invalidating before erasing leaves no block without a
\* ticket, whatever throws.
THEOREM NoBlockOrphaned == Spec => []NoOrphanBlock
  BY IInvHolds, PTL DEF IInv

-----------------------------------------------------------------------------
(***************************************************************************)
(* Refinement of OneShotTickets                                            *)
(***************************************************************************)

\* Every step moves at most one ticket along its life.
LEMMA LifeStep ==
    ASSUME TypeOK, UnissuedInv, [Next]_vars
    PROVE  [Lives!LifeNext]_TicketLife
<1>1. ASSUME NEW key \in HookKey, begin(key)
      PROVE  [Lives!LifeNext]_TicketLife
  <2>1. CASE tickets' = [tickets EXCEPT ![next_ticket] =
                             [key |-> key, state |-> "Pending"]]
    <3>1. TicketLife' = [TicketLife EXCEPT ![next_ticket] = "Pending"]
      <4>1. \A u \in TicketValues :
                TicketLife'[u] = IF u = next_ticket THEN "Pending"
                                 ELSE TicketLife[u]
        BY <1>1, <2>1, BeginFacts, TypeOK, TicketAssumption
        DEF TicketLife, TypeOK, TicketRecord, TicketValues
      <4> QED
        BY <4>1 DEF TicketLife
    <3>2. TicketLife[next_ticket] = "unissued"
      BY <1>1, BeginFacts DEF TicketLife
    <3> QED
      BY <1>1, <3>1, <3>2, BeginFacts DEF Lives!LifeNext, Lives!Issue
  <2>2. CASE UNCHANGED tickets
    <3>1. tickets[next_ticket].state = "Absent"
      BY <1>1, BeginFacts DEF UnissuedInv
    <3>2. TicketLife' = [TicketLife EXCEPT ![next_ticket] = "spent"]
      <4>1. \A u \in TicketValues :
                TicketLife'[u] = IF u = next_ticket THEN "spent"
                                 ELSE TicketLife[u]
        BY <1>1, <2>2, <3>1, BeginFacts, TypeOK, TicketAssumption
        DEF TicketLife, TypeOK, TicketValues
      <4> QED
        BY <4>1 DEF TicketLife
    <3>3. TicketLife[next_ticket] # "spent"
      BY <1>1, BeginFacts DEF TicketLife
    <3> QED
      BY <1>1, <3>2, <3>3, BeginFacts DEF Lives!LifeNext, Lives!Retire
  <2> QED
    BY <1>1, <2>1, <2>2 DEF begin
<1>2. ASSUME NEW t \in TicketValues, NEW key \in HookKey, claim_entry(t, key)
      PROVE  [Lives!LifeNext]_TicketLife
  <2>1. t < next_ticket
    BY <1>2, TypeOK, TicketAssumption
    DEF claim_entry, Claimable, UnissuedInv, TypeOK, TicketValues
  <2>2. TicketLife[t] = "Pending"
    BY <1>2, <2>1, TypeOK, TicketAssumption
    DEF claim_entry, Claimable, TicketLife, TypeOK, TicketValues
  <2>3. TicketLife' = [TicketLife EXCEPT ![t] = "Claimed"]
    <3>1. \A u \in TicketValues :
              TicketLife'[u] = IF u = t THEN "Claimed" ELSE TicketLife[u]
      BY <1>2, <2>1, TypeOK, TicketAssumption
      DEF claim_entry, TicketLife, TypeOK, TicketRecord, TicketValues
    <3> QED
      BY <3>1 DEF TicketLife
  <2> QED
    BY <2>2, <2>3 DEF Lives!LifeNext, Lives!Claim
<1>3. ASSUME NEW t \in TicketValues, complete(t)
      PROVE  [Lives!LifeNext]_TicketLife
  <2>1. CASE tickets' = Erased(t)
    <3>1. t < next_ticket /\ tickets[t].state # "Absent"
      BY <1>3, TypeOK, TicketAssumption
      DEF complete, UnissuedInv, TypeOK, TicketValues
    <3>2. TicketLife[t] # "spent"
      BY <3>1, TypeOK DEF TicketLife, TypeOK, TicketRecord
    <3>3. TicketLife' = [TicketLife EXCEPT ![t] = "spent"]
      <4>1. \A u \in TicketValues :
                TicketLife'[u] = IF u = t THEN "spent" ELSE TicketLife[u]
        BY <1>3, <2>1, <3>1, TypeOK, TicketAssumption
        DEF complete, Erased, TicketLife, TypeOK, TicketRecord, TicketValues
      <4> QED
        BY <4>1 DEF TicketLife
    <3> QED
      BY <3>2, <3>3 DEF Lives!LifeNext, Lives!Retire
  <2>2. CASE UNCHANGED tickets
    BY <1>3, <2>2 DEF complete, TicketLife
  <2> QED
    BY <1>3, <2>1, <2>2 DEF complete, Retire
<1>4. ASSUME NEW t \in TicketValues, cancel(t)
      PROVE  [Lives!LifeNext]_TicketLife
  <2>1. CASE tickets' = Erased(t)
    <3>1. t < next_ticket /\ tickets[t].state # "Absent"
      BY <1>4, TypeOK, TicketAssumption
      DEF cancel, UnissuedInv, TypeOK, TicketValues
    <3>2. TicketLife[t] # "spent"
      BY <3>1, TypeOK DEF TicketLife, TypeOK, TicketRecord
    <3>3. TicketLife' = [TicketLife EXCEPT ![t] = "spent"]
      <4>1. \A u \in TicketValues :
                TicketLife'[u] = IF u = t THEN "spent" ELSE TicketLife[u]
        BY <1>4, <2>1, <3>1, TypeOK, TicketAssumption
        DEF cancel, Erased, TicketLife, TypeOK, TicketRecord, TicketValues
      <4> QED
        BY <4>1 DEF TicketLife
    <3> QED
      BY <3>2, <3>3 DEF Lives!LifeNext, Lives!Retire
  <2>2. CASE UNCHANGED tickets
    BY <1>4, <2>2 DEF cancel, TicketLife
  <2> QED
    BY <1>4, <2>1, <2>2 DEF cancel, Retire
<1>5. CASE CompileOneShot
  BY <1>5 DEF CompileOneShot, TicketLife
<1>6. CASE EnterOneShot
  BY <1>6 DEF EnterOneShot, TicketLife
<1>7. CASE UNCHANGED vars
  BY <1>7 DEF vars, TicketLife
<1> QED
  BY <1>1, <1>2, <1>3, <1>4, <1>5, <1>6, <1>7
  DEF Next

\* Every ticket of the coordinator lives the life of a one-shot ticket.
THEOREM LifeRefinement == Spec => LivesOnce
<1>1. Init => Lives!LifeInit
  BY TicketAssumption DEF Init, Lives!LifeInit, TicketLife, TicketValues
<1>2. IInv /\ [Next]_vars => [Lives!LifeNext]_TicketLife
  BY LifeStep DEF IInv
<1> QED
  BY <1>1, <1>2, IInvHolds, PTL DEF Spec, LivesOnce, Lives!LifeSpec

-----------------------------------------------------------------------------
(***************************************************************************)
(* A spent ticket                                                          *)
(***************************************************************************)

\* What is over for a spent ticket: it is not pending again, no block of it is
\* compiled, and the original body does not run for it.
RetiredForGood ==
    [][\A t \in TicketValues :
           TicketLife[t] = "spent" =>
               /\ TicketLife'[t] = "spent"
               /\ t \notin one_shot'
               /\ entered'[t] = entered[t]]_vars

\* A spent ticket is a value that was issued and is not in the map.
LEMMA SpentIs ==
    ASSUME NEW t \in TicketValues, TypeOK
    PROVE  TicketLife[t] = "spent"
               <=> t < next_ticket /\ tickets[t].state = "Absent"
  BY TicketAssumption DEF TypeOK, TicketLife, TicketRecord, TicketValues

\* No step concerns a spent ticket.
LEMMA SpentStep ==
    ASSUME IInv, [Next]_vars, NEW t \in TicketValues,
           t < next_ticket, tickets[t].state = "Absent"
    PROVE  /\ t < next_ticket' /\ tickets'[t].state = "Absent"
           /\ t \notin one_shot'
           /\ entered'[t] = entered[t]
<1> USE DEF IInv
<1>1. t \notin one_shot
  BY DEF NoOrphanBlock
<1>2. window # Closed => window.ticket # t
  BY DEF EntersOwnKey
<1>3. ASSUME NEW key \in HookKey, begin(key)
      PROVE  /\ t < next_ticket' /\ tickets'[t].state = "Absent"
             /\ t \notin one_shot' /\ entered'[t] = entered[t]
  BY <1>1, <1>3, BeginFacts, TicketAssumption
  DEF begin, Surviving, TypeOK, TicketValues
<1>4. ASSUME NEW u \in TicketValues, NEW key \in HookKey, claim_entry(u, key)
      PROVE  /\ t < next_ticket' /\ tickets'[t].state = "Absent"
             /\ t \notin one_shot' /\ entered'[t] = entered[t]
  BY <1>1, <1>4 DEF claim_entry, Claimable, TypeOK
<1>5. ASSUME NEW u \in TicketValues, complete(u) \/ cancel(u)
      PROVE  /\ t < next_ticket' /\ tickets'[t].state = "Absent"
             /\ t \notin one_shot' /\ entered'[t] = entered[t]
  BY <1>1, <1>5 DEF complete, cancel, Retire, Erased, Surviving, TypeOK
<1>6. CASE CompileOneShot
  BY <1>1, <1>2, <1>6 DEF CompileOneShot, Closed
<1>7. CASE EnterOneShot
  BY <1>1, <1>2, <1>7 DEF EnterOneShot, Closed, TypeOK
<1>8. CASE UNCHANGED vars
  BY <1>1, <1>8 DEF vars
<1> QED
  BY <1>3, <1>4, <1>5, <1>6, <1>7, <1>8 DEF Next

\* Completed or cancelled is for good: presented again, by whoever kept its value,
\* after any exception in between, a spent ticket claims nothing and runs nothing.
THEOREM SpentIsSpent == Spec => RetiredForGood
<1>1. ASSUME IInv, IInv', [Next]_vars, NEW t \in TicketValues, TicketLife[t] = "spent"
      PROVE  /\ TicketLife'[t] = "spent"
             /\ t \notin one_shot'
             /\ entered'[t] = entered[t]
  <2>1. t < next_ticket /\ tickets[t].state = "Absent"
    BY <1>1, SpentIs DEF IInv
  <2>2. /\ t < next_ticket' /\ tickets'[t].state = "Absent"
        /\ t \notin one_shot'
        /\ entered'[t] = entered[t]
    BY <1>1, <2>1, SpentStep
  <2>3. TicketLife'[t] = "spent"
    BY <1>1, <2>2, TicketAssumption DEF IInv, TypeOK, TicketLife, TicketRecord, TicketValues
  <2> QED
    BY <2>2, <2>3
<1>2. IInv /\ IInv' /\ [Next]_vars =>
          [\A t \in TicketValues :
               TicketLife[t] = "spent" =>
                   /\ TicketLife'[t] = "spent"
                   /\ t \notin one_shot'
                   /\ entered'[t] = entered[t]]_vars
  BY <1>1
<1> QED
  BY <1>2, IInvHolds, PTL DEF Spec, RetiredForGood
=============================================================================
