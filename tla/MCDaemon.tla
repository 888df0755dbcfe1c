------------------------------ MODULE MCDaemon ------------------------------
(* Small instances of Daemon for TLC. *)
EXTENDS Daemon

CONSTANTS a, b, p1, p2, c1

\* One manifest with both ports and one with the second only: two names can
\* compete for a port that the other binds first or second.
TwoManifests == {<<p1, p2>>, <<p2>>}
=============================================================================
