------------------------------- MODULE Book -------------------------------
(***************************************************************************)
(* The fund's book: what one posted row of the "transaction" table holds,  *)
(* and what the queries and the ledger_entry view derive from a sequence   *)
(* of rows.  A row's id is its position in the sequence: ids are handed    *)
(* out in insertion order and rows are never updated or deleted.           *)
(*                                                                         *)
(* Amounts are whole rupiah and dates are day numbers; what a row is       *)
(* labelled with (notes, names, who typed it) is left out.                 *)
(***************************************************************************)
EXTENDS Integers, Sequences, FiniteSets, Functions

CONSTANTS
  Account,      \* the fund's possible locations (wallet, bank, ...)
  Main,         \* the purpose "Kas Utama"
  PassThrough,  \* the purposes of kind pass_through
  Incidental,   \* the purposes of kind incidental: the envelopes
  Claim,        \* ids a reimbursement can have
  NoClaim,      \* a NULL reimbursement_id
  Ceiling       \* the largest amount one row can carry

ASSUME PurposesDistinct ==
  Main \notin Incidental /\ Main \notin PassThrough /\ Incidental \cap PassThrough = {}
ASSUME AccountAssumption == IsFiniteSet(Account)
ASSUME PurposeAssumption == IsFiniteSet(PassThrough) /\ IsFiniteSet(Incidental)
ASSUME NoClaimAssumption == NoClaim \notin Claim
ASSUME CeilingAssumption == Ceiling \in Nat \ {0}

Purpose == {Main} \cup PassThrough \cup Incidental

Direction == {"in", "out"}
Opposite(direction) == IF direction = "in" THEN "out" ELSE "in"

Kind == {"opening", "normal", "dues", "reimbursement", "adjustment", "transfer"}

\* transfer.kind and transfer.reason, and whether corrects_transaction_id is set.
Movement == {"none", "between_accounts", "correction", "allocation", "roll"}

NoRow == 0

\* corrects, from the leg's transfer header, is kept on the leg itself.
Row == [account    : Account,
        purpose    : Purpose,
        direction  : Direction,
        amount     : 1..Ceiling,
        occurredOn : Nat,
        kind       : Kind,
        named      : BOOLEAN,           \* member_id is set
        reverses   : Nat,               \* reverses_transaction_id
        movement   : Movement,
        corrects   : Nat,               \* corrects_transaction_id
        payment    : Nat,               \* dues_payment_id: the payment's first row
        claim      : Claim \cup {NoClaim}]

\* A row with every optional column NULL.
Entry(account, purpose, direction, amount, occurredOn, kind) ==
  [account |-> account, purpose |-> purpose, direction |-> direction,
   amount |-> amount, occurredOn |-> occurredOn, kind |-> kind,
   named |-> FALSE, reverses |-> NoRow, movement |-> "none",
   corrects |-> NoRow, payment |-> NoRow, claim |-> NoClaim]

\* A leg says where one half of a movement is posted.
Leg(account, purpose) == [account |-> account, purpose |-> purpose]

\* The two rows of one value-neutral movement: out at "from", in at "to".
TransferPair(from, to, amount, occurredOn, movement, corrects) ==
  LET half(leg, direction) ==
        [Entry(leg.account, leg.purpose, direction, amount, occurredOn, "transfer")
           EXCEPT !.movement = movement, !.corrects = corrects]
  IN  << half(from, "out"), half(to, "in") >>

-----------------------------------------------------------------------------
(* Sums.  Every balance is a sum over the rows, never a stored total.       *)

Signed(row) == IF row.direction = "in" THEN row.amount ELSE -row.amount

\* The running totals of a sequence of integers, and the total of all of it.
Running(v) == LET run[n \in 0..Len(v)] == IF n = 0 THEN 0 ELSE run[n - 1] + v[n]
              IN  run
Total(v) == Running(v)[Len(v)]

\* The signed amounts of the rows whose ids are in "ids", zero elsewhere.
Effects(rs, ids) == [i \in 1..Len(rs) |-> IF i \in ids THEN Signed(rs[i]) ELSE 0]
Net(rs, ids) == Total(Effects(rs, ids))

Tagged(rs, p) == {i \in 1..Len(rs) : rs[i].purpose = p}
Located(rs, a) == {i \in 1..Len(rs) : rs[i].account = a}

PurposeBalance(rs, p) == Net(rs, Tagged(rs, p))
AccountBalance(rs, a) == Net(rs, Located(rs, a))
\* Mutant: the cutoff row itself is left out.
AccountBalanceBefore(rs, a, cutoff) == Net(rs, Located(rs, a) \cap 1..(cutoff - 1))
AccountBalanceThrough(rs, a, cutoff) == Net(rs, Located(rs, a) \cap 1..cutoff)

-----------------------------------------------------------------------------
(* The derived columns of the ledger_entry view.                            *)

Reversed(rs, i) == \E j \in 1..Len(rs) : rs[j].reverses = i
CorrectionLegs(rs, i) == {j \in 1..Len(rs) : rs[j].corrects = i}

\* How often the corrections of row i moved its money into p, less how often
\* they moved it out; the row's own posting counts as one arrival.
\* Mutant: departures are not counted.
ArrivalsOnly(rs, i, p) ==
  Cardinality({j \in CorrectionLegs(rs, i) : rs[j].purpose = p
                                              /\ rs[j].direction = rs[i].direction})
Arrivals(rs, i, p) ==
  LET at == {j \in CorrectionLegs(rs, i) : rs[j].purpose = p}
      into == {j \in at : rs[j].direction = rs[i].direction}
  IN  Cardinality(into) - Cardinality(at \ into)
        + (IF rs[i].purpose = p THEN 1 ELSE 0)

\* The purposes a correction leg names where the money arrived once more than
\* it left: the HAVING clause, of which the view takes any one (LIMIT 1).
PathEnds(rs, i) ==
  {p \in {rs[j].purpose : j \in CorrectionLegs(rs, i)} : Arrivals(rs, i, p) = 1}

EffectivePurpose(rs, i) ==
  IF PathEnds(rs, i) = {} THEN rs[i].purpose
  ELSE CHOOSE p \in PathEnds(rs, i) : TRUE

-----------------------------------------------------------------------------
(* IncidentalActivityTotals: what an envelope's occasion itself collected   *)
(* and disbursed, of the rows dated by "through".  A roll is left out, an   *)
(* allocation always counts as collected, and a correction's leg and a      *)
(* reversal are read against the bucket of the row they point at.           *)

ActivityRows(rs, e, through) ==
  {i \in Tagged(rs, e) : rs[i].movement # "roll" /\ rs[i].occurredOn <= through}

Pointed(row) == IF row.corrects # NoRow THEN row.corrects ELSE row.reverses

\* Mutant: a correction's leg and a reversal are read by their own direction.
OwnBucket(rs, i) == rs[i].direction
Bucket(rs, i) == IF Pointed(rs[i]) = NoRow THEN rs[i].direction
                 ELSE rs[Pointed(rs[i])].direction

Collected(rs, e, through) ==
  Net(rs, {i \in ActivityRows(rs, e, through) :
             rs[i].movement = "allocation" \/ Bucket(rs, i) = "in"})
Disbursed(rs, e, through) ==
  -Net(rs, {i \in ActivityRows(rs, e, through) :
              rs[i].movement # "allocation" /\ Bucket(rs, i) = "out"})
=============================================================================
