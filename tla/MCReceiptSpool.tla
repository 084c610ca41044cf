----------------------------- MODULE MCReceiptSpool ----------------------------
(***************************************************************************)
(* ReceiptSpool for TLC: the constants are given in MCReceiptSpool.cfg;     *)
(* nothing tells the attempts, or the event types, apart.                   *)
(***************************************************************************)
EXTENDS ReceiptSpool, TLC

SpoolSymmetry == Permutations(Attempts) \cup Permutations(Types)
================================================================================
