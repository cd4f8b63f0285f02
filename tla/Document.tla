------------------------------ MODULE Document ------------------------------
(***************************************************************************)
(* internal/backup: what a backup says of the book and how a restore puts  *)
(* it back.  The file lists the rows of every table with their ids and the *)
(* balances they add up to.  A restore inserts the rows under the schema's *)
(* own checks and its one live trigger, which the order of the rows has to *)
(* satisfy, and then proves the balances.  A file of format 2 knows no     *)
(* dues payments: they are read back out of when its rows were written.    *)
(*                                                                         *)
(* Nothing here changes the ledger's state.  When a file is written, staged *)
(* and taken in, and what crashes in between, is in Backups and Restore.   *)
(* Counts, incidentals and the dues tables are inserted as they are listed *)
(* and left out.                                                           *)
(***************************************************************************)
EXTENDS Ledger

\* What the file lists of the tables that rows refer to.
ListedAccounts == {a \in Account : account[a] # Absent}
ListedPurposes == {p \in Purpose : Exists(p)}
ListedClaims == {c \in Claim : claims[c].status # Absent}

-----------------------------------------------------------------------------
(* The schema, as it meets one inserted row.                                *)

\* The CHECKs of the transaction table.
ChecksHold(row) ==
  /\ row.amount \in 1..Ceiling
  /\ row.kind = "dues" => row.named /\ row.direction = "in"
  /\ row.named /\ row.kind # "dues" =>
       \/ row.kind = "normal" /\ row.direction = "in" /\ row.reverses = NoRow
       \/ row.kind = "adjustment" /\ row.direction = "out" /\ row.reverses # NoRow
  /\ row.reverses # NoRow => row.kind = "adjustment"
  /\ row.kind = "reimbursement" => row.claim # NoClaim /\ row.direction = "out"
  /\ row.kind = "transfer" => row.movement # "none"
  /\ (row.kind = "dues") = (row.payment # NoRow)

\* transaction_named_row_shape, the one trigger a restore leaves on: "there" are
\* the rows inserted so far.  The original's purpose and date are not compared.
ShapeHolds(there, row) ==
  /\ row.kind = "normal" /\ row.named => row.purpose \in Incidental
  /\ row.reverses # NoRow =>
       \E o \in there \cap {row.reverses} :
         /\ rows[o].kind \in {"dues", "normal"}
         /\ rows[o].direction = Opposite(row.direction)
         /\ rows[o].amount = row.amount /\ rows[o].account = row.account
         /\ rows[o].named = row.named

\* The three partial unique indexes: one payout of a claim, one reversal of a
\* row, one opening balance of a location.
UniqueAmong(there, row) ==
  \A o \in there :
    /\ row.kind = "reimbursement" =>
         rows[o].kind # "reimbursement" \/ rows[o].claim # row.claim
    /\ row.reverses # NoRow => rows[o].reverses # row.reverses
    /\ row.kind = "opening" => rows[o].kind # "opening" \/ rows[o].account # row.account

Insertable(there, i) ==
  ChecksHold(rows[i]) /\ ShapeHolds(there, rows[i]) /\ UniqueAmong(there, rows[i])

\* The foreign keys, which a restore defers to its commit.
ReferencesResolve(there) ==
  \A i \in there :
    /\ rows[i].account \in ListedAccounts /\ rows[i].purpose \in ListedPurposes
    /\ rows[i].claim \in ListedClaims \cup {NoClaim}
    /\ {rows[i].reverses, rows[i].corrects, rows[i].payment} \subseteq there \cup {NoRow}

-----------------------------------------------------------------------------
(* Inserting a file's rows, "file" being the order it lists them in.  The    *)
(* export lists them by date; a file that was saved again by other means may *)
(* list them in any order, and ids say nothing of it.                        *)

\* What is inserted on behalf of each row while the rows "there" are in: nothing
\* once it is in itself, and a row right after what it reverses.
InsertedFor(there) ==
  LET insert[i \in 1..Len(rows)] ==
        IF i \in there THEN << >>
        ELSE IF rows[i].reverses = NoRow THEN <<i>>
        ELSE Append(insert[rows[i].reverses], i)
  IN  insert

\* Mutant: as the file lists them.
InsertedAsListed(file) == file
Inserted(file) ==
  LET after[n \in 0..Len(file)] ==
        IF n = 0 THEN << >>
        ELSE LET before == after[n - 1]
             IN  before \o InsertedFor(Range(before))[file[n]]
  IN  after[Len(file)]

\* The balances the file claims are those of the queries every screen asks; what
\* it is held against is a second sum, over its own rows one after another.
ClaimedTotals ==
  [fund |-> Net(rows, 1..Len(rows)),
   accounts |-> [a \in ListedAccounts |-> AccountBalance(rows, a)],
   purposes |-> [p \in ListedPurposes |-> PurposeBalance(rows, p)]]
TotalsFromRows(file) ==
  LET sum(S) == Total([n \in 1..Len(file) |->
                         IF file[n] \in S THEN Signed(rows[file[n]]) ELSE 0])
  IN  [fund |-> sum(1..Len(rows)),
       accounts |-> [a \in ListedAccounts |-> sum(Located(rows, a))],
       purposes |-> [p \in ListedPurposes |-> sum(Tagged(rows, p))]]

ProvesItsNumbers(file, claimed) == TotalsFromRows(file) = claimed

\* The restore's one transaction, over a book emptied before.
Restorable(file, claimed) ==
  LET order == Inserted(file)
      before(n) == {order[m] : m \in 1..(n - 1)}
  IN  /\ \A n \in 1..Len(order) : Insertable(before(n), order[n])
      /\ Range(order) = 1..Len(rows)
      /\ ReferencesResolve(Range(order))
      /\ ProvesItsNumbers(file, claimed)

-----------------------------------------------------------------------------
(* Format 2: dues rows without payments, each with the second it was        *)
(* written in.                                                              *)

DuesRows == {i \in 1..Len(rows) : rows[i].kind = "dues"}

\* Seconds apart at which a row still joins the one before it.
DuesPaymentChainGap == 1

\* How long after the one before each row can have been written: the clock does
\* not go back, and no second passes whole between two months of one payment.  A
\* pause of two seconds stands for any longer one.
Pauses ==
  {pause \in [1..Len(rows) -> 0..2] :
     \A i \in DuesRows : i > 1 /\ rows[i].payment = rows[i - 1].payment => pause[i] < 2}

SamePayer(i, j) ==
  rows[i].account = rows[j].account /\ rows[i].occurredOn = rows[j].occurredOn

\* The rows that begin a payment, and the one that begins row i's.
Begins(at, i) ==
  \A j \in DuesRows : SamePayer(i, j) /\ j < i => at[i] - at[j] > DuesPaymentChainGap
Begun(at, i) == {j \in DuesRows : j <= i /\ SamePayer(i, j) /\ Begins(at, j)}
LastIn(begun) == CHOOSE j \in begun : \A k \in begun : k <= j
UpgradedPayment(at, i) == LastIn(Begun(at, i))

-----------------------------------------------------------------------------
(* What a treasurer with a backup may rely on.                              *)

\* A backup of any book brings it back (ADR-012), whatever order it lists the rows
\* in: every row is accepted under the checks that stay on, nothing is left out,
\* and the balances proved at the end are those of the live book.  One that was
\* saved before payments were recorded gives each payment back whole.
BackupBringsItBack ==
  /\ LET claimed == ClaimedTotals
     IN  \A file \in Orders(1..Len(rows)) : Restorable(file, claimed)
  /\ \A pause \in Pauses :
       LET at == Running(pause)
       IN  \A i, j \in DuesRows : i < j /\ rows[i].payment = rows[j].payment =>
             UpgradedPayment(at, i) = UpgradedPayment(at, j)
=============================================================================
