---------------------------- MODULE MCReceiptUpload ----------------------------
(***************************************************************************)
(* ReceiptUpload for TLC.                                                   *)
(***************************************************************************)
EXTENDS ReceiptUpload, TLC

ProcSymmetry == Permutations(Procs)

(* Bound: of the gap, the refused receipt, the two failing requests, the    *)
(* answer that names no receipt and the crash, any three.  Every step that  *)
(* must be taken in the end has an outcome within it.                       *)
ThreeMishaps ==
    count.gaps + count.faults + count.vague + count.crashes + Cardinality(refused) <= 3
================================================================================
