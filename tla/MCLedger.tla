------------------------------ MODULE MCLedger ------------------------------
(***************************************************************************)
(* Small instances of the ledger.  Each configuration opens one part of it *)
(* and closes the others with their bounds: an empty set of envelopes,     *)
(* titipan or claims, or a zero count of months, counts or half-days.      *)
(***************************************************************************)
EXTENDS LedgerProperties, LedgerFund, Report, Document, TLC

\* Locations, envelopes and claims are interchangeable: no action or property
\* tells two of them apart.
Symmetry == Permutations(Account) \cup Permutations(Incidental) \cup Permutations(Claim)
=============================================================================
