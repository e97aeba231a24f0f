----------------------------- MODULE MCTribbler -----------------------------
(***************************************************************************)
(* Tribbler for TLC.                                                       *)
(***************************************************************************)
EXTENDS Tribbler, TLC

\* Users and servers are interchangeable.
Symmetry == Permutations(Members) \cup Permutations(TribServers)
=============================================================================
