------------------------------ MODULE MCAccess ------------------------------
(* Small instances of the login and its sessions.                          *)
EXTENDS Access, TLC
=============================================================================
