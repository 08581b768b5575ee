----------------------------- MODULE MCCluster -----------------------------
(* Small instances of Cluster for TLC. *)
EXTENDS Cluster, TLC

CONSTANTS n1, n2, c1, c2

TwoNodes == {n1, n2}
OneConn == {c1}
TwoConns == {c1, c2}

(* Nodes are interchangeable, and so are the pooled connections. *)
Sym == Permutations(TwoNodes) \cup Permutations(TwoConns)
=============================================================================
