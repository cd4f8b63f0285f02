-------------------------- MODULE LedgerProperties --------------------------
(***************************************************************************)
(* What the ledger promises, over whole histories of calls.                *)
(***************************************************************************)
EXTENDS Ledger

Ids == 1..Len(rows)
NewIds == (Len(rows) + 1)..Len(rows')

\* A row and everything posted because of it: its corrections and its reversal.
Consequences(i) ==
  {i} \cup CorrectionLegs(rows, i) \cup {j \in Ids : rows[j].reverses = i}

\* A closed envelope holds nothing.  CloseIncidentalAndRoll squares the purpose
\* to zero (ADR-031), and no later correction, reversal, fix, settlement, move
\* or transfer may leave a balance behind a closed door.
ClosedEnvelopeIsZero ==
  \A e \in Incidental : Closed(e) => PurposeBalance(rows, e) = 0

\* While an envelope stays closed, the only rows that can reach it are the legs
\* of a transfer between locations (PostTransferBetweenAccounts checks no
\* envelope): every other path posts to an open one.
ClosedTakesOnlyTransfers ==
  [][\A e \in Incidental : Closed(e) /\ Closed(e)' =>
       \A i \in NewIds : rows'[i].purpose = e =>
         rows'[i].movement = "between_accounts"]_vars

\* ADR-031: "A closed envelope refuses every posting", which the code does not
\* keep: a transfer between locations posts both of its legs to one.
ClosedRefusesEveryPosting ==
  [][\A e \in Incidental : Closed(e) /\ Closed(e)' =>
       \A i \in NewIds : rows'[i].purpose # e]_vars

\* The effective purpose, which the view derives by counting arrivals without
\* ordering the corrections, is the purpose the last correction moved the row
\* to; and the correction path never has two ends for LIMIT 1 to pick from.
EffectivePurposeIsLastTarget ==
  \A i \in Ids :
    LET legs == CorrectionLegs(rows, i)
        last == {j \in legs : rows[j].direction = rows[i].direction
                   /\ \A k \in legs : rows[k].direction = rows[i].direction => k <= j}
    IN  /\ Cardinality(PathEnds(rows, i)) <= 1
        /\ legs # {} => \E j \in last : EffectivePurpose(rows, i) = rows[j].purpose

\* A reversal undoes everything its row did: the row, its corrections and its
\* reversal sum to zero in every purpose and every location (ADR-033, ADR-042),
\* and no row is undone twice.
ReversalUndoes ==
  \A i \in Ids : Reversed(rows, i) =>
    /\ Cardinality({j \in Ids : rows[j].reverses = i}) = 1
    /\ \A p \in Purpose : Net(rows, Consequences(i) \cap Tagged(rows, p)) = 0
    /\ \A a \in Account : Net(rows, Consequences(i) \cap Located(rows, a)) = 0

\* A snapshot can be derived again for ever: summing the book through its
\* cutoff gives each counted location's frozen figure, whatever was posted,
\* backdated or reversed since.
SnapshotReproducible ==
  \A c \in 1..Len(counts) : \A a \in DOMAIN counts[c].lines :
    AccountBalanceThrough(rows, a, counts[c].cutoff) = counts[c].lines[a].recorded

\* A line that says the books were squared stays true: its fix is a row posted
\* after the cutoff on that location, no other line names it, it is never
\* reversed, and a plug makes up exactly the frozen gap.
FixSquaresItsLine ==
  \A c \in 1..Len(counts) : \A a \in DOMAIN counts[c].lines :
    LET line == counts[c].lines[a]
    IN  /\ line.resolution = "matched" => line.actual = line.recorded
        /\ line.fix = NoRow <=> line.resolution \in {"matched", "left_open"}
        /\ line.fix # NoRow =>
             /\ line.fix \in Ids /\ line.fix > counts[c].cutoff
             /\ rows[line.fix].account = a
             /\ ~Reversed(rows, line.fix)
             /\ \A d \in 1..Len(counts) : \A b \in DOMAIN counts[d].lines :
                  counts[d].lines[b].fix = line.fix => c = d /\ a = b
        /\ line.resolution = "adjusted" =>
             line.recorded + Signed(rows[line.fix]) = line.actual

\* A claim that was paid agrees with the row that paid it for ever: one payout,
\* of the claim's amount and purpose, and the claim is still there and was not
\* waived.
PayoutMatchesClaim ==
  \A c \in Claim : LET payouts == {i \in Ids : rows[i].claim = c}
    IN  /\ Cardinality(payouts) <= 1
        /\ \A i \in payouts : /\ claims[c].status = "pending"
                              /\ rows[i].amount = claims[c].amount
                              /\ rows[i].purpose = claims[c].purpose

\* Corrections and reversals leave no trace in what an occasion collected and
\* disbursed: the totals are those of the rows that stand, each under the
\* purpose it is under now, plus what was allocated and moved between locations.
ActivityCountsWhatStands ==
  LET final == DayAt(MaxClock, 1)
      original(i) == rows[i].kind # "transfer" /\ rows[i].reverses = NoRow
      standing(e, direction) ==
        {i \in Ids : original(i) /\ ~Reversed(rows, i)
                       /\ EffectivePurpose(rows, i) = e /\ rows[i].direction = direction}
      moved(e, movements, direction) ==
        {i \in Tagged(rows, e) : rows[i].movement \in movements
                                  /\ rows[i].direction \in direction}
  IN  \A e \in Incidental :
        /\ Collected(rows, e, final) =
             Net(rows, standing(e, "in") \cup moved(e, {"allocation"}, Direction)
                         \cup moved(e, {"between_accounts"}, {"in"}))
        /\ Disbursed(rows, e, final) =
             -Net(rows, standing(e, "out") \cup moved(e, {"between_accounts"}, {"out"}))
=============================================================================
