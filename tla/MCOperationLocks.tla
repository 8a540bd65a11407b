-------------------------- MODULE MCOperationLocks --------------------------
EXTENDS OperationLocks

(***************************************************************************)
(* Three goroutines are enough for a holder, a blocked exclusive request   *)
(* and a request behind it.  One more entry than goroutines lets a new     *)
(* entry be allocated while every old one is still referenced, should the  *)
(* code ever drop one that is in use.                                      *)
(***************************************************************************)
=============================================================================
