------------------------------ MODULE Ledger ------------------------------
(***************************************************************************)
(* internal/ledger: every operation that posts to one fund's book, or that *)
(* decides what may be posted to it.  Each action is one method, run in    *)
(* one database transaction on the process's single connection, so an      *)
(* action is atomic and the interleavings are those of whole calls.  A     *)
(* refused call changes nothing and is a step that is not taken.           *)
(***************************************************************************)
EXTENDS Book

CONSTANTS
  Amount,     \* the amounts a caller types
  Zones,      \* the fund's possible time zones: half-days ahead of the clock
  MaxRows,    \* bound: how many rows the book can hold
  MaxEntries, \* bound: how many of them PostTransaction wrote
  MaxCounts,  \* bound: how many counts (cek kas) are taken
  MaxMonths,  \* bound: how many months one dues payment covers
  MaxClock    \* bound: how many half-days pass

ASSUME AmountAssumption == Amount \subseteq 1..Ceiling
ASSUME ZonesAssumption == Zones \subseteq {0, 1} /\ Zones # {}
ASSUME BoundsAssumption ==
  /\ MaxRows \in Nat /\ MaxEntries \in Nat /\ MaxCounts \in Nat
  /\ MaxMonths \in Nat /\ MaxClock \in Nat

VARIABLES
  rows,      \* the "transaction" table, in id order
  account,   \* what became of each possible location
  envelope,  \* what became of each incidental
  counts,    \* the reconciliation table with its lines, in id order
  claims,    \* the reimbursement table
  setUp,     \* the fund row exists
  zone,      \* fund.time_zone
  clock      \* the server's clock, in half-days

vars == <<rows, account, envelope, counts, claims, setUp, zone, clock>>

Absent == "absent"
NoReimbursement == [status |-> Absent, purpose |-> Main, amount |-> 1]

Resolution == {"matched", "left_open", "adjusted", "entry_added"}

\* One counted location: its frozen figure, what was found there, how the gap
\* was resolved and the id of the entry posted for it.
Line == [recorded : Int, actual : Nat, resolution : Resolution, fix : Nat]

TypeOK ==
  /\ rows \in Seq(Row)
  /\ account \in [Account -> {Absent, "active", "retired"}]
  /\ envelope \in [Incidental -> {Absent, "open", "closed"}]
  /\ counts \in Seq([cutoff : Nat, at : Nat,
                     lines : UNION {[S -> Line] : S \in SUBSET Account}])
  /\ claims \in [Claim -> [status : {Absent, "pending", "waived"},
                           purpose : Purpose, amount : 1..Ceiling]]
  /\ setUp \in BOOLEAN
  /\ zone \in Zones
  /\ clock \in Nat

-----------------------------------------------------------------------------
(* What the guards read.                                                    *)

DayAt(instant, z) == (instant + z) \div 2
Today == DayAt(clock, zone)
Day == 0..Today            \* the dates a caller may give: floor to today

Active == {a \in Account : account[a] = "active"}

Exists(p) == setUp /\ (p \in Incidental => envelope[p] # Absent)
Closed(p) == p \in Incidental /\ envelope[p] = "closed"
\* Mutant: the closed envelope is not refused.
OpenOrClosed(p) == Exists(p)
Open(p) == Exists(p) /\ ~Closed(p)

\* The sequences in which the members of S can be handled.
Orders(S) == Bijection(1..Cardinality(S), S)

\* Whether row i is what a cek kas posted as a fix, and whether one counted it.
\* Mutants: only a plug is a fix; the cutoff row itself is left out.
IsFixIfPlugged(i) ==
  \E c \in 1..Len(counts) : \E a \in DOMAIN counts[c].lines :
    counts[c].lines[a].fix = i /\ counts[c].lines[a].resolution = "adjusted"
IsFix(i) == \E c \in 1..Len(counts) : \E a \in DOMAIN counts[c].lines :
              counts[c].lines[a].fix = i
HasCountedBefore(i) == \E c \in 1..Len(counts) : counts[c].cutoff > i
HasCounted(i) == \E c \in 1..Len(counts) : counts[c].cutoff >= i

Settled(c) == \E i \in 1..Len(rows) : rows[i].claim = c

\* The insert of CreateTransaction, once per row of "batch".  The table checks
\* every amount, so one row over the ceiling fails the whole call.
\* Mutant: the amount is not checked.
PostUnchecked(batch) ==
  /\ Len(rows) + Len(batch) <= MaxRows
  /\ rows' = rows \o batch
Post(batch) ==
  /\ \A n \in 1..Len(batch) : batch[n].amount \in 1..Ceiling
  /\ Len(rows) + Len(batch) <= MaxRows
  /\ rows' = rows \o batch

-----------------------------------------------------------------------------
(* The fund and its locations.                                              *)

OpeningBalance == [amount : Amount \cup {0}, occurredOn : Day]

\* The opening row of each account in "order": always in, on Kas Utama.
Openings(opening, order) ==
  [i \in 1..Len(order) |->
     Entry(order[i], Main, "in", opening[order[i]].amount,
           opening[order[i]].occurredOn, "opening")]

\* The fund, its main purpose, at least one location and the opening balances,
\* all or nothing and once only.  A zero opening balance posts no row.
SetUpFund(born, opening) ==
  /\ ~setUp
  /\ born # {}
  /\ \E order \in Orders({a \in born : opening[a].amount > 0}) :
       Post(Openings(opening, order))
  /\ setUp' = TRUE
  /\ account' = [a \in Account |-> IF a \in born THEN "active" ELSE account[a]]
  /\ UNCHANGED <<envelope, counts, claims, zone, clock>>

CreateAccount(a, opening) ==
  /\ setUp
  /\ account[a] = Absent
  /\ Post(IF opening.amount > 0 THEN Openings([x \in {a} |-> opening], <<a>>)
          ELSE << >>)
  /\ account' = [account EXCEPT ![a] = "active"]
  /\ UNCHANGED <<envelope, counts, claims, setUp, zone, clock>>

\* Foreign keys refuse a location that any row or count line names.
DeleteAccount(a) ==
  /\ account[a] # Absent
  /\ Located(rows, a) = {}
  /\ \A c \in 1..Len(counts) : a \notin DOMAIN counts[c].lines
  /\ account' = [account EXCEPT ![a] = Absent]
  /\ UNCHANGED <<rows, envelope, counts, claims, setUp, zone, clock>>

RetireAccount(a) ==
  /\ account[a] # Absent
  /\ AccountBalance(rows, a) = 0
  /\ account' = [account EXCEPT ![a] = "retired"]
  /\ UNCHANGED <<rows, envelope, counts, claims, setUp, zone, clock>>

ReinstateAccount(a) ==
  /\ account[a] = "retired"
  /\ account' = [account EXCEPT ![a] = "active"]
  /\ UNCHANGED <<rows, envelope, counts, claims, setUp, zone, clock>>

\* UpdateFund: nothing posted is rewritten, but "today" may move back a day.
UpdateTimeZone(z) ==
  /\ setUp
  /\ zone' = z
  /\ UNCHANGED <<rows, account, envelope, counts, claims, setUp, clock>>

-----------------------------------------------------------------------------
(* Postings and value-neutral movements.                                    *)

Correctable(row) ==
  \/ row.kind = "normal" /\ ~row.named
  \/ row.kind = "adjustment" /\ row.reverses = NoRow

\* A retired location and a closed envelope are refused; only a contribution
\* to an envelope (normal, in) may name a member.
PostTransaction(a, p, direction, amount, day, kind, named) ==
  /\ a \in Active
  /\ Open(p)
  /\ named => kind = "normal" /\ direction = "in" /\ p \in Incidental
  /\ Cardinality({i \in 1..Len(rows) : Correctable(rows[i]) \/ rows[i].kind = "normal"})
       < MaxEntries
  /\ Post(<< [Entry(a, p, direction, amount, day, kind) EXCEPT !.named = named] >>)
  /\ UNCHANGED <<account, envelope, counts, claims, setUp, zone, clock>>

\* Within one purpose, which may be a closed envelope: nothing checks that.
PostTransferBetweenAccounts(p, from, to, amount, day) ==
  /\ from # to
  /\ from \in Active /\ to \in Active
  /\ Exists(p)
  /\ Post(TransferPair(Leg(from, p), Leg(to, p), amount, day, "between_accounts", NoRow))
  /\ UNCHANGED <<account, envelope, counts, claims, setUp, zone, clock>>

\* The legs that move row i's money from purpose "was" to "becomes", on the row's
\* own location and date: which of them the money leaves follows the direction.
CorrectionPair(i, was, becomes) ==
  LET from == IF rows[i].direction = "out" THEN becomes ELSE was
      to == IF rows[i].direction = "out" THEN was ELSE becomes
  IN  TransferPair(Leg(rows[i].account, from), Leg(rows[i].account, to),
                   rows[i].amount, rows[i].occurredOn, "correction", i)

PostPurposeCorrection(i, target) ==
  LET effective == EffectivePurpose(rows, i)
  IN  /\ Correctable(rows[i])
      /\ ~Reversed(rows, i)
      /\ target # effective
      /\ Open(target)
      /\ ~Closed(effective)
      /\ Post(CorrectionPair(i, effective, target))
      /\ UNCHANGED <<account, envelope, counts, claims, setUp, zone, clock>>

\* The source's balance is the sum of the book now, whatever day is given.
PostPurposeMove(from, to, a, amount, day) ==
  /\ from # to
  /\ \A p \in {from, to} : p \notin PassThrough /\ Open(p)
  /\ a \in Active
  /\ amount <= PurposeBalance(rows, from)
  /\ Post(TransferPair(Leg(a, from), Leg(a, to), amount, day, "allocation", NoRow))
  /\ UNCHANGED <<account, envelope, counts, claims, setUp, zone, clock>>

-----------------------------------------------------------------------------
(* Envelopes.                                                               *)

OpenIncidental(e) ==
  /\ setUp
  /\ envelope[e] = Absent
  /\ envelope' = [envelope EXCEPT ![e] = "open"]
  /\ UNCHANGED <<rows, account, counts, claims, setUp, zone, clock>>

\* What is left rolls into Kas Utama, what is missing is covered from it, and
\* the envelope closes in the same transaction.  The roll is one row on each
\* side, so a leftover above the ceiling of an amount cannot be rolled.
CloseIncidentalAndRoll(e, a, day) ==
  LET leftover == PurposeBalance(rows, e)
      here == Leg(a, e)
      mainLeg == Leg(a, Main)
  IN  /\ envelope[e] = "open"
      /\ leftover # 0 => a \in Active
      /\ \/ leftover > 0
            /\ Post(TransferPair(here, mainLeg, leftover, day, "roll", NoRow))
         \/ leftover < 0
            /\ Post(TransferPair(mainLeg, here, -leftover, day, "roll", NoRow))
         \/ leftover = 0 /\ Post(<< >>)
      /\ envelope' = [envelope EXCEPT ![e] = "closed"]
      /\ UNCHANGED <<account, counts, claims, setUp, zone, clock>>

ReopenIncidental(e) ==
  /\ envelope[e] = "closed"
  /\ envelope' = [envelope EXCEPT ![e] = "open"]
  /\ UNCHANGED <<rows, account, counts, claims, setUp, zone, clock>>

-----------------------------------------------------------------------------
(* Dues payments and reversals.                                             *)

\* One row per month, bound by one payment; always in, on Kas Utama.  Which
\* months, and whether one of them is waived, is left out.
PostDuesPayments(a, amounts, day) ==
  LET payment == Len(rows) + 1
      month(n) == [Entry(a, Main, "in", amounts[n], day, "dues")
                     EXCEPT !.named = TRUE, !.payment = payment]
  IN  /\ setUp
      /\ a \in Active
      /\ amounts # << >>
      /\ Post([n \in 1..Len(amounts) |-> month(n)])
      /\ UNCHANGED <<account, envelope, counts, claims, setUp, zone, clock>>

\* A reversal takes its row's own day, unless a count has counted the row since.
ReversalDate(i) == IF HasCounted(i) THEN Today ELSE rows[i].occurredOn

\* The rows that ReversalRefusal and the effective envelope's door let through.
Undoable(i) ==
  /\ \/ rows[i].kind = "dues"
     \/ rows[i].kind = "normal" /\ ~IsFix(i)
  /\ ~Reversed(rows, i)

\* Mutant: the stored purpose's door is asked.
ReversibleByStoredPurpose(i) ==
  Undoable(i) /\ ~Closed(rows[i].purpose) /\ rows[i].occurredOn <= ReversalDate(i)
Reversible(i) ==
  /\ Undoable(i)
  /\ ~Closed(EffectivePurpose(rows, i))
  /\ rows[i].occurredOn <= ReversalDate(i)

\* The row that undoes row i: the other way, same amount, location and member,
\* on the effective purpose.  Mutant: on the purpose the row was posted to.
ReversalOnStoredPurpose(i) ==
  [Entry(rows[i].account, rows[i].purpose, Opposite(rows[i].direction),
         rows[i].amount, ReversalDate(i), "adjustment")
     EXCEPT !.named = rows[i].named, !.reverses = i]
Reversal(i) ==
  [Entry(rows[i].account, EffectivePurpose(rows, i), Opposite(rows[i].direction),
         rows[i].amount, ReversalDate(i), "adjustment")
     EXCEPT !.named = rows[i].named, !.reverses = i]

ReverseTransaction(i) ==
  /\ rows[i].payment = NoRow
  /\ Reversible(i)
  /\ Post(<< Reversal(i) >>)
  /\ UNCHANGED <<account, envelope, counts, claims, setUp, zone, clock>>

\* A payment is reversed whole: one reversal for each month still standing, in
\* the order of the months, and one month refused refuses all.
ReverseDuesPayment(payment) ==
  LET standing == {i \in 1..Len(rows) : rows[i].payment = payment
                                        /\ ~Reversed(rows, i)}
  IN  /\ payment # NoRow
      /\ standing # {}
      /\ \A i \in standing : Reversible(i)
      /\ \E order \in Orders(standing) :
           Post([n \in 1..Len(order) |-> Reversal(order[n])])
      /\ UNCHANGED <<account, envelope, counts, claims, setUp, zone, clock>>

-----------------------------------------------------------------------------
(* The count (cek kas).                                                     *)

Fix == [purpose : Purpose, direction : Direction, amount : Amount, occurredOn : Day]

\* What the caller says of one location.  A fix is an optional record: << >>
\* where there is none, and there is one exactly for the resolutions that post.
LocationCount ==
  [actual : Amount \cup {0}, resolution : {"matched", "left_open"}, fix : {<< >>}]
    \cup [actual : Amount \cup {0}, resolution : {"adjusted", "entry_added"},
          fix : {<< f >> : f \in Fix}]

\* "matched" has no gap, and a plug ("adjusted") squares the gap exactly; an
\* entry found missing may close any part of it.  A fix lands on no closed
\* envelope.
Acceptable(a, c) ==
  LET difference == c.actual - AccountBalance(rows, a)
  IN  /\ c.resolution = "matched" => difference = 0
      /\ c.resolution = "adjusted" => Signed(c.fix[1]) = difference
      /\ c.fix # << >> => Open(c.fix[1].purpose)

\* Every active location is counted and no other.  The cutoff and the recorded
\* figures are taken first; the fixes are posted next, in the order the caller
\* lists them, so that their ids are above the cutoff; then the snapshot.
TakeReconciliation(count) ==
  LET cutoff == Len(rows)
      fixed == {a \in Active : count[a].fix # << >>}
      posted(a) == LET f == count[a].fix[1]
                   IN  Entry(a, f.purpose, f.direction, f.amount, f.occurredOn,
                             IF count[a].resolution = "adjusted" THEN "adjustment"
                             ELSE "normal")
      line(a, fix) == [recorded |-> AccountBalance(rows, a), actual |-> count[a].actual,
                       resolution |-> count[a].resolution, fix |-> fix]
  IN  /\ setUp
      /\ Active # {}
      /\ Len(counts) < MaxCounts
      /\ \A a \in Active : Acceptable(a, count[a])
      /\ \E order \in Orders(fixed) :
           LET fixOf(a) == IF a \in fixed
                           THEN cutoff + (CHOOSE n \in 1..Len(order) : order[n] = a)
                           ELSE NoRow
           IN  /\ Post([n \in 1..Len(order) |-> posted(order[n])])
               /\ counts' = Append(counts,
                              [cutoff |-> cutoff, at |-> clock,
                               lines |-> [a \in Active |-> line(a, fixOf(a))]])
      /\ UNCHANGED <<account, envelope, claims, setUp, zone, clock>>

-----------------------------------------------------------------------------
(* Claims (talangan): off the book until settled.                           *)

\* Mutant: a claim already paid is still taken.
Recorded(c) == claims[c].status # Absent
Unsettled(c) == claims[c].status # Absent /\ ~Settled(c)

CreateReimbursement(c, p, amount) ==
  /\ claims[c].status = Absent
  /\ Open(p)
  /\ claims' = [claims EXCEPT ![c] = [status |-> "pending", purpose |-> p, amount |-> amount]]
  /\ UNCHANGED <<rows, account, envelope, counts, setUp, zone, clock>>

\* Waiving and taking a waiver back ride on the same update.  Only a move onto
\* a closed envelope is refused: a claim already there still takes an amount.
UpdateReimbursement(c, p, amount, status) ==
  /\ Unsettled(c)
  /\ p # claims[c].purpose => Open(p)
  /\ claims' = [claims EXCEPT ![c] = [status |-> status, purpose |-> p, amount |-> amount]]
  /\ UNCHANGED <<rows, account, envelope, counts, setUp, zone, clock>>

SettleReimbursement(c, a, day) ==
  /\ Unsettled(c)
  /\ claims[c].status # "waived"
  /\ a \in Active
  /\ ~Closed(claims[c].purpose)
  /\ Post(<< [Entry(a, claims[c].purpose, "out", claims[c].amount, day, "reimbursement")
                EXCEPT !.claim = c] >>)
  /\ UNCHANGED <<account, envelope, counts, claims, setUp, zone, clock>>

DeleteReimbursement(c) ==
  /\ Unsettled(c)
  /\ claims' = [claims EXCEPT ![c] = NoReimbursement]
  /\ UNCHANGED <<rows, account, envelope, counts, setUp, zone, clock>>

-----------------------------------------------------------------------------
Tick ==
  /\ clock < MaxClock
  /\ clock' = clock + 1
  /\ UNCHANGED <<rows, account, envelope, counts, claims, setUp, zone>>

Init ==
  /\ rows = << >>
  /\ account = [a \in Account |-> Absent]
  /\ envelope = [e \in Incidental |-> Absent]
  /\ counts = << >>
  /\ claims = [c \in Claim |-> NoReimbursement]
  /\ setUp = FALSE
  /\ zone \in Zones
  /\ clock = 0

-----------------------------------------------------------------------------
(* The routes of the API.  A handler reads the path and the body, resolves   *)
(* the fund and the row it names and makes one call: what it may pass on is  *)
(* what the quantifiers range over.                                          *)

SetupRequest ==
  \E born \in SUBSET Account : \E opening \in [born -> OpeningBalance] :
    SetUpFund(born, opening)
FundRequest == \E z \in Zones : UpdateTimeZone(z)

NewAccountRequest ==
  \E a \in Account : \E opening \in OpeningBalance : CreateAccount(a, opening)
AccountRequest == \E a \in Account : RetireAccount(a) \/ ReinstateAccount(a)
DeleteAccountRequest == \E a \in Account : DeleteAccount(a)

TransactionRequest ==
  \E a \in Account, p \in Purpose, direction \in Direction, amount \in Amount,
     day \in Day, kind \in {"normal", "adjustment"}, named \in BOOLEAN :
    PostTransaction(a, p, direction, amount, day, kind, named)
TransferRequest ==
  \E p \in Purpose, from, to \in Account, amount \in Amount, day \in Day :
    PostTransferBetweenAccounts(p, from, to, amount, day)
CorrectionRequest ==
  \E i \in 1..Len(rows), target \in Purpose : PostPurposeCorrection(i, target)
MoveRequest ==
  \E from, to \in Purpose, a \in Account, amount \in Amount, day \in Day :
    PostPurposeMove(from, to, a, amount, day)
DuesRequest ==
  \E a \in Account, n \in 1..MaxMonths, day \in Day : \E amounts \in [1..n -> Amount] :
    PostDuesPayments(a, amounts, day)
\* One route for both: a row that is a month of a payment takes the payment along.
ReversalRequest ==
  \/ \E i \in 1..Len(rows) : ReverseTransaction(i)
  \/ \E payment \in 1..Len(rows) : ReverseDuesPayment(payment)

OpenRequest == \E e \in Incidental : OpenIncidental(e)
CloseRequest ==
  \E e \in Incidental, a \in Account, day \in Day : CloseIncidentalAndRoll(e, a, day)
ReopenRequest == \E e \in Incidental : ReopenIncidental(e)

CountRequest ==
  \E count \in [Active -> LocationCount] : TakeReconciliation(count)

NewClaimRequest ==
  \E c \in Claim, p \in Purpose, amount \in Amount : CreateReimbursement(c, p, amount)
ClaimRequest ==
  \E c \in Claim, p \in Purpose, amount \in Amount, status \in {"pending", "waived"} :
    UpdateReimbursement(c, p, amount, status)
SettleRequest ==
  \E c \in Claim, a \in Account, day \in Day : SettleReimbursement(c, a, day)
DeleteClaimRequest == \E c \in Claim : DeleteReimbursement(c)

FundStep ==
  \/ SetupRequest \/ FundRequest
  \/ NewAccountRequest \/ AccountRequest \/ DeleteAccountRequest
PostingStep ==
  \/ TransactionRequest \/ TransferRequest \/ CorrectionRequest \/ MoveRequest
  \/ DuesRequest \/ ReversalRequest
EnvelopeStep == OpenRequest \/ CloseRequest \/ ReopenRequest
ClaimStep == NewClaimRequest \/ ClaimRequest \/ SettleRequest \/ DeleteClaimRequest

Next == FundStep \/ PostingStep \/ EnvelopeStep \/ CountRequest \/ ClaimStep \/ Tick

Spec == Init /\ [][Next]_vars
=============================================================================
