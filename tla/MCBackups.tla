---------------------------- MODULE MCBackups ----------------------------
(* One instance of Backups for TLC: two daily dumps and one safety net kept. *)
EXTENDS Backups
MCKeep == [k \in Kind |-> IF k = "daily" THEN 2 ELSE 1]
==========================================================================
