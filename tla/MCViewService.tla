---------------------------- MODULE MCViewService ----------------------------
(* ViewService on a small instance.                                         *)
EXTENDS ViewService, TLC

Symmetry == Permutations(Server)
=============================================================================
