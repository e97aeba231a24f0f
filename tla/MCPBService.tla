---------------------------- MODULE MCPBService ----------------------------
(* PBService on small instances.                                            *)
EXTENDS PBService, FiniteSets, TLC

Symmetry == Permutations(Server) \cup Permutations(Clerk)

\* Two servers for all clerks, or all servers for one clerk.
Instance ==
    \/ Cardinality(started) <= 2
    \/ \E c \in Clerk : \A d \in Clerk \ {c} : pc[d] = "idle" /\ op[d].value = 0 /\ ckView[d] = NoView
=============================================================================
