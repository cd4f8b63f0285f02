------------------------------ MODULE MCDues ------------------------------
(* One instance of Dues for TLC. *)
EXTENDS Dues
===========================================================================
