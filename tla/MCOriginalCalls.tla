---------------------------- MODULE MCOriginalCalls ----------------------------
(***************************************************************************)
(* An instance of OriginalCalls for TLC: two generations at one valid      *)
(* address, so that tickets share an address under different keys.         *)
(***************************************************************************)
EXTENDS OriginalCalls

CONSTANTS zero, disc

MCImages == {zero, disc}
MCGenerations == 0..1
MCAddresses == {0, 4, 8}
=============================================================================
