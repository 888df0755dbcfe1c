--------------------------- MODULE MCOverlayEngine ---------------------------
(* Small instances of OverlayEngine for TLC. *)
EXTENDS OverlayEngine

CONSTANTS r1, r2, r3, image, layer

\* Everything that can fail while rename works.
BuildFaults == {"crash", "curl", "spawn", "tar", "remove", "install", "cp"}
=============================================================================
