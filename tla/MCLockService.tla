---------------------------- MODULE MCLockService ----------------------------
(* LockService on a small instance.                                         *)
EXTENDS LockService, TLC

Symmetry == Permutations(Client)
=============================================================================
