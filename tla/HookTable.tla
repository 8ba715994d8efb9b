------------------------------- MODULE HookTable -------------------------------
(***************************************************************************)
(* What a hook registry promises whoever looks a hook up: a table that     *)
(* changes at once or not at all, and answers that were its contents.      *)
(***************************************************************************)
CONSTANTS
    TableKeys,       \* the keys a hook may be kept under
    Hooks,           \* the callables
    Absent,          \* no hook
    Readers          \* whoever looks hooks up

VARIABLES
    table,           \* the hook kept under each key
    answers          \* the last answer each reader got

tableVars == <<table, answers>>

TableInit ==
    /\ table = [k \in TableKeys |-> Absent]
    /\ answers = [r \in Readers |-> Absent]

Put ==
    /\ \E k \in TableKeys, h \in Hooks : table' = [table EXCEPT ![k] = h]
    /\ UNCHANGED answers

Drop ==
    /\ \E k \in TableKeys : table' = [table EXCEPT ![k] = Absent]
    /\ UNCHANGED answers

LookUp ==
    /\ \E r \in Readers, k \in TableKeys :
           answers' = [answers EXCEPT ![r] = table[k]]
    /\ UNCHANGED table

TableNext == Put \/ Drop \/ LookUp

TableSpec == TableInit /\ [][TableNext]_tableVars
=============================================================================
