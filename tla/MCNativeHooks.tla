---------------------------- MODULE MCNativeHooks ----------------------------
(***************************************************************************)
(* An instance of NativeHooks for TLC.                                     *)
(***************************************************************************)
EXTENDS NativeHooks, TLC

CONSTANTS zero, disc, first, second, cpu, host

MCImages == {zero, disc}
MCGenerations == 0..1
MCAddresses == {0, 4}
MCCallbacks == {first, second}
MCHosts == {host}
MCSymmetry == Permutations(MCCallbacks)
=============================================================================
