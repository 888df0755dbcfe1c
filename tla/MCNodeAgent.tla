----------------------------- MODULE MCNodeAgent -----------------------------
(* Small instances of NodeAgent for TLC. *)
EXTENDS NodeAgent

CONSTANTS a, b, p1

\* The replicas of one application ask for the same host port.
SamePort == {<<p1>>}

NoPorts == {<<>>}
=============================================================================
