----------------------------- MODULE LedgerFund -----------------------------
(***************************************************************************)
(* The book keeps a fund.  There is no stored balance anywhere: what the   *)
(* treasurer sees is derived from the rows, and every call on the ledger   *)
(* is one step of the fund she sees, or none.                              *)
(***************************************************************************)
EXTENDS Ledger

\* Balances: all the money, where it lies and what it is for, each its own sum
\* over the rows, read at one moment.
Whole == Net(rows, 1..Len(rows))
Holdings == [a \in Account |-> AccountBalance(rows, a)]
Earmarks == [p \in Purpose |-> PurposeBalance(rows, p)]

F == INSTANCE Fund WITH
       total <- Whole, held <- Holdings, tagged <- Earmarks,
       place <- account, door <- envelope, counted <- Len(counts)

\* Every successful call does to the balances what the fund allows: movements
\* keep the other view untouched, corrections and reversals land where the
\* money is now, an envelope closes empty, and a retired location changes only
\* by a single purpose's money in or out (a mistake undone, ADR-033).
ImplementsFund == F!Spec
=============================================================================
