----------------------------- MODULE MCRestore -----------------------------
(* Small instances of the photos and the restore.                          *)
EXTENDS Restore, TLC
============================================================================
