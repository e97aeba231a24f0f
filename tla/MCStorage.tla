----------------------------- MODULE MCStorage -----------------------------
(***************************************************************************)
(* Two storage servers and two libstores on a small instance.              *)
(***************************************************************************)
EXTENDS Storage

CONSTANTS l1, l2, k1

\* The key belongs to the second server.
TwoNodes == {3, 5}
HashOfKey == [k \in {k1} |-> 4]
OneEach == {<<l1, 1>>, <<l2, 1>>}
=============================================================================
