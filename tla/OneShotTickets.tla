---------------------------- MODULE OneShotTickets ----------------------------
(***************************************************************************)
(* The life of an original-call ticket as its holder may rely on it: a     *)
(* ticket is issued once, claimed at most once and only while it is        *)
(* pending, and once it is spent it never comes back.                      *)
(***************************************************************************)
CONSTANT
    TicketValues     \* the values a ticket may have

VARIABLE
    life             \* how far each ticket has got

LifeInit == life = [t \in TicketValues |-> "unissued"]

Issue(t) ==
    /\ life[t] = "unissued"
    /\ life' = [life EXCEPT ![t] = "Pending"]

Claim(t) ==
    /\ life[t] = "Pending"
    /\ life' = [life EXCEPT ![t] = "Claimed"]

\* Never issued because its issue failed, cancelled, or completed.
Retire(t) ==
    /\ life[t] # "spent"
    /\ life' = [life EXCEPT ![t] = "spent"]

LifeNext == \E t \in TicketValues : Issue(t) \/ Claim(t) \/ Retire(t)

LifeSpec == LifeInit /\ [][LifeNext]_life
=============================================================================
