------------------------------ MODULE MCSandbox ------------------------------
(* Small instances of Sandbox for TLC. *)
EXTENDS Sandbox

CONSTANTS r1, r2, r3, layer1, t1, t2

BuildFaults == {"crash", "setup", "chroot", "install", "line", "cachedir", "rename", "cp"}
=============================================================================
