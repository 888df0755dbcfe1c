----------------------------- MODULE MCCluster -----------------------------
(* Small instances of Cluster for TLC. *)
EXTENDS Cluster

CONSTANT app

TwoNodes == 1 .. 2
FourIds == 1 .. 4
=============================================================================
