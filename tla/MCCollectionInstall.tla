-------------------------- MODULE MCCollectionInstall --------------------------
(***************************************************************************)
(* CollectionInstall for TLC.                                               *)
(***************************************************************************)
EXTENDS CollectionInstall
================================================================================
