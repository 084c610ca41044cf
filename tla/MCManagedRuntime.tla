---------------------------- MODULE MCManagedRuntime ----------------------------
(***************************************************************************)
(* ManagedRuntime for TLC: an upgrade from one inventory to another.        *)
(***************************************************************************)
EXTENDS ManagedRuntime, TLC

CONSTANTS v1, v2

TwoDocs == 1..2
Upgrade == [d \in TwoDocs |-> IF d = 1 THEN v1 ELSE v2]

HookSymmetry == Permutations(Hooks)
================================================================================
