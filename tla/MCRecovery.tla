----------------------------- MODULE MCRecovery -----------------------------
(* Small instances of Recovery for TLC. *)
EXTENDS MCDaemon, Recovery

\* Two names with it compete for both ports, whichever a recovery gets first.
OneManifest == {<<p1, p2>>}
=============================================================================
