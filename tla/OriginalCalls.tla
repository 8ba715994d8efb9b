----------------------------- MODULE OriginalCalls -----------------------------
(***************************************************************************)
(* OriginalCallCoordinator (original_calls.h, original_calls.cpp): tickets *)
(* that let one entry of a hooked address run the original body.           *)
(*                                                                         *)
(* Each operation holds the coordinator's mutex from its first access to   *)
(* its last, the call of the invalidator included, so an operation is one  *)
(* step; the invalidator, or an allocation, may throw inside it.           *)
(*                                                                         *)
(* The dispatcher is external.  original_calls.h says what it does with a  *)
(* claim: compile an unpublished one-shot block, run it, and complete the  *)
(* ticket before ordinary dispatch resumes.  Everything else is called at a*)
(* safe point, so not inside that window.                                  *)
(***************************************************************************)
EXTENDS HookKeys

CONSTANT
    MaxTickets       \* bound: the tickets begun, far below 2^64

ASSUME TicketAssumption == MaxTickets \in Nat

TicketValues == 1..MaxTickets

VARIABLES
    tickets,         \* storage_->tickets, "Absent" where the map has no entry
    next_ticket,     \* storage_->next_ticket
    window,          \* the claim the dispatcher is serving
    one_shot,        \* tickets whose one-shot block exists
    entered          \* how often a one-shot block was run for each ticket

vars == <<tickets, next_ticket, window, one_shot, entered>>

\* The dispatcher at the live key, between a claim and its completion.
Windows == [ticket : 0..MaxTickets, key : HookKey,
            stage : {"closed", "claimed", "compiled", "entered"}]
Closed == [ticket |-> 0, key |-> DefaultKey, stage |-> "closed"]

TicketRecord == [key : HookKey, state : {"Absent", "Pending", "Claimed"}]

TypeOK ==
    /\ tickets \in [TicketValues -> TicketRecord]
    /\ next_ticket \in 1..(MaxTickets + 1)
    /\ window \in Windows
    /\ one_shot \subseteq TicketValues
    /\ entered \in [TicketValues -> Nat]

\* Mutation of Init: the first ticket is 0, which no ticket is.
InitAtZero ==
    /\ tickets = [t \in TicketValues |-> [key |-> DefaultKey, state |-> "Absent"]]
    /\ next_ticket = 0
    /\ window = Closed
    /\ one_shot = {}
    /\ entered = [t \in TicketValues |-> 0]

Init ==
    /\ tickets = [t \in TicketValues |-> [key |-> DefaultKey, state |-> "Absent"]]
    /\ next_ticket = 1
    /\ window = Closed
    /\ one_shot = {}
    /\ entered = [t \in TicketValues |-> 0]

-----------------------------------------------------------------------------
\* invalidate_instruction destroys the one-shot blocks at the address.
Surviving(address) == {t \in one_shot : tickets[t].key.address # address}

\* Mutation of Erased: the ticket is put back for another attempt.
PutBack(t) == [tickets EXCEPT ![t].state = "Pending"]

Erased(t) == [tickets EXCEPT ![t].state = "Absent"]

\* Mutation of Retire: the ticket is erased before the invalidator is called.
RetireErasingFirst(t) ==
    /\ one_shot' \in {one_shot, Surviving(tickets[t].key.address)}
    /\ tickets' = Erased(t)

\* tickets.erase after the invalidator, or the invalidator throws, before or
\* after it has destroyed blocks, and the entry stays.
Retire(t) ==
    \/ /\ one_shot' = Surviving(tickets[t].key.address)
       /\ tickets' = Erased(t)
    \/ /\ one_shot' \in {one_shot, Surviving(tickets[t].key.address)}
       /\ UNCHANGED tickets

-----------------------------------------------------------------------------
(***************************************************************************)
(* The coordinator                                                         *)
(***************************************************************************)

\* The ticket value is used up before anything can throw.
begin(key) ==
    /\ window = Closed
    /\ is_valid(key)
    /\ next_ticket <= MaxTickets
    /\ next_ticket' = next_ticket + 1
    /\ \/ /\ one_shot' = Surviving(key.address)
          /\ tickets' = [tickets EXCEPT ![next_ticket] =
                             [key |-> key, state |-> "Pending"]]
       \/ /\ one_shot' \in {one_shot, Surviving(key.address)}
          /\ UNCHANGED tickets
    /\ UNCHANGED <<window, entered>>

\* Mutation of Claimable: a claimed ticket can be claimed again.
ClaimableTwice(t, key) ==
    /\ tickets[t].state # "Absent"
    /\ tickets[t].key = key

\* Mutation of Claimable: an address is enough.
ClaimableAtAddress(t, key) ==
    /\ tickets[t].state = "Pending"
    /\ tickets[t].key.address = key.address

\* A refused claim returns false and changes nothing.
Claimable(t, key) ==
    /\ tickets[t].state = "Pending"
    /\ tickets[t].key = key

claim_entry(t, key) ==
    /\ window = Closed
    /\ Claimable(t, key)
    /\ tickets' = [tickets EXCEPT ![t].state = "Claimed"]
    /\ window' = [ticket |-> t, key |-> key, stage |-> "claimed"]
    /\ UNCHANGED <<next_ticket, one_shot, entered>>

\* logic_error, and no change, unless the ticket is claimed.  The window closes
\* when complete returns and when it throws.
complete(t) ==
    /\ window = Closed \/ window.ticket = t
    /\ tickets[t].state = "Claimed"
    /\ Retire(t)
    /\ window' = Closed
    /\ UNCHANGED <<next_ticket, entered>>

\* No change for a ticket the map does not have.
cancel(t) ==
    /\ window = Closed \/ window.ticket = t
    /\ tickets[t].state # "Absent"
    /\ Retire(t)
    /\ window' = Closed
    /\ UNCHANGED <<next_ticket, entered>>

-----------------------------------------------------------------------------
(***************************************************************************)
(* The dispatcher, within the window of a claim                            *)
(***************************************************************************)

CompileOneShot ==
    /\ window.stage = "claimed"
    /\ one_shot' = one_shot \cup {window.ticket}
    /\ window' = [window EXCEPT !.stage = "compiled"]
    /\ UNCHANGED <<tickets, next_ticket, entered>>

EnterOneShot ==
    /\ window.stage = "compiled"
    /\ entered' = [entered EXCEPT ![window.ticket] = @ + 1]
    /\ window' = [window EXCEPT !.stage = "entered"]
    /\ UNCHANGED <<tickets, next_ticket, one_shot>>

-----------------------------------------------------------------------------
Next ==
    \/ \E key \in HookKey : begin(key)
    \/ \E t \in TicketValues :
           \/ \E key \in HookKey : claim_entry(t, key)
           \/ complete(t)
           \/ cancel(t)
    \/ CompileOneShot
    \/ EnterOneShot

Spec == Init /\ [][Next]_vars

-----------------------------------------------------------------------------
(***************************************************************************)
(* Properties                                                              *)
(***************************************************************************)

\* A ticket lets the original body run once, over its whole life: not again by
\* a second claim, nor by a completion that threw and is tried again, nor by a
\* ticket issued later.
OneEntry == \A t \in TicketValues : entered[t] <= 1

\* The body runs under exactly the key the ticket was begun for, never at that
\* address under another image or module generation.
EntersOwnKey ==
    window # Closed =>
        /\ tickets[window.ticket].state = "Claimed"
        /\ tickets[window.ticket].key = window.key

\* A one-shot block never outlives its claim: wherever an invalidator throws,
\* and whichever of several tickets at an address is retired first, a block
\* that still bypasses a hook belongs to a ticket that can still be retired.
NoOrphanBlock == \A t \in one_shot : tickets[t].state = "Claimed"

\* How far each ticket has got.
TicketLife ==
    [t \in TicketValues |->
        IF t >= next_ticket THEN "unissued"
        ELSE IF tickets[t].state = "Absent" THEN "spent"
        ELSE tickets[t].state]

Lives == INSTANCE OneShotTickets WITH
    TicketValues <- TicketValues,
    life <- TicketLife

\* Every ticket lives the life of a one-shot ticket.
LivesOnce == Lives!LifeSpec
=============================================================================
