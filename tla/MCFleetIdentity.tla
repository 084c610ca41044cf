---------------------------- MODULE MCFleetIdentity ----------------------------
(***************************************************************************)
(* FleetIdentity for TLC.                                                   *)
(***************************************************************************)
EXTENDS FleetIdentity, TLC

IdentitySymmetry == Permutations(Procs) \cup Permutations(Installations)
================================================================================
