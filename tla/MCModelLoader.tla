--------------------------- MODULE MCModelLoader ---------------------------
EXTENDS ModelLoader, TLC

(***************************************************************************)
(* The requests are interchangeable, and so are the stoppers: used in the  *)
(* runs that check no liveness property.                                   *)
(***************************************************************************)
Symmetry == Permutations(Requests) \cup Permutations(Stoppers)
=============================================================================
