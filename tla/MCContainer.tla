----------------------------- MODULE MCContainer -----------------------------
(* Small instances of Container for TLC. *)
EXTENDS Container

CONSTANTS a, p1, c1

\* Every container asks for the one host port.
SamePort == {<<p1>>}
=============================================================================
