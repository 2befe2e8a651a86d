--------------------------- MODULE MCListDispatch ---------------------------
(***************************************************************************)
(* ListDispatch with array steps of one slot, so that the array grows and  *)
(* shrinks often, and a few nodes; which address malloc picks, and what    *)
(* the elements are, does not matter.                                      *)
(***************************************************************************)
EXTENDS ListDispatch, TLC

Symmetry == Permutations(Node) \cup Permutations(Elem)

=============================================================================
