--------------------------- MODULE MCFleetReconciler ----------------------------
(***************************************************************************)
(* FleetReconciler for TLC: the constants are given in the configurations   *)
(* of its runs, ReconcilerCrash.cfg and the others.                         *)
(***************************************************************************)
EXTENDS FleetReconciler

(* Bound: of the crash, the failing call, the drift and the idle start, any *)
(* three; what follows a fourth is left to the proofs.                      *)
ThreeMishaps == count.stops + count.faults + count.drifts + count.starts <= 3
================================================================================
