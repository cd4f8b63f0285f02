-------------------------------- MODULE Dues --------------------------------
(***************************************************************************)
(* internal/ledger, the dues side: what each member owes for each month,   *)
(* derived from a tier's rates, a member's tiers, what was paid and what   *)
(* the group waived.  Rates and tiers are start-dated rows, corrected by a *)
(* new row of the same month and never overwritten, so every table is kept *)
(* here with its superseded rows.  Each action is one method of Ledger in  *)
(* one database transaction; a refused call is a step that is not taken.   *)
(*                                                                         *)
(* A month is a number and a date is the month it falls in.  Where money   *)
(* lies, and when a payment may be reversed, is the business of Ledger.    *)
(***************************************************************************)
EXTENDS Integers, Sequences, FiniteSets, SequencesExt

CONSTANTS
  Member, Tier,     \* the members and the tiers there can be
  NoTier,           \* a NULL tier_id: no dues are owed
  Rate,             \* what a tier can cost; 0 is a free tier
  Amount,           \* what a payment can bring for one month
  DuesMonthsAhead,  \* how far ahead a month can be paid or waived
  RateMonthsAhead,  \* how far ahead a rate can start
  YearAhead,        \* how far ahead a member can join or leave
  GridMonths,       \* how many months the status table spans
  LastMonth,        \* bound: the last month any date names
  MaxNow,           \* bound: the last month that becomes the current one
  MaxRows           \* bound: rates, tier rows and payments held

ASSUME NoTierAssumption == NoTier \notin Tier
ASSUME MoneyAssumption == Rate \subseteq Nat /\ Amount \subseteq Nat \ {0}
ASSUME MonthsAssumption ==
  /\ DuesMonthsAhead \in Nat /\ RateMonthsAhead \in Nat /\ YearAhead \in Nat
  /\ GridMonths \in Nat \ {0}
  /\ LastMonth \in Nat /\ MaxNow \in 0..LastMonth /\ MaxRows \in Nat

VARIABLES
  tiers,     \* the dues_tier table
  rates,     \* dues_rate: each tier's rows of each month, by correction
  member,    \* the member table
  spans,     \* member_tier: each member's rows of each month, by correction
  payments,  \* the dues payments, in the order they were posted
  waived,    \* dues_waiver: the months waived for each member
  now        \* the current month in the fund's zone

vars == <<tiers, rates, member, spans, payments, waived, now>>

Month == 0..LastMonth
Open == LastMonth + 1                     \* inactive_on is NULL
Absent == [joined |-> Open, left |-> 0]
NoRows == [p \in Month |-> << >>]
RateRow == [amount : Rate, deleted : BOOLEAN]
Payment == [member : Member, toward : UNION {[S -> Amount] : S \in SUBSET Month},
            stands : BOOLEAN]

TypeOK ==
  /\ tiers \subseteq Tier
  /\ rates \in [Tier -> [Month -> Seq(RateRow)]]
  /\ member \in [Member -> [joined : 0..Open, left : 0..Open]]
  /\ spans \in [Member -> [Month -> Seq(Tier \cup {NoTier})]]
  /\ payments \in Seq(Payment)
  /\ waived \in [Member -> SUBSET Month]
  /\ now \in 0..MaxNow

-----------------------------------------------------------------------------
(* What a month costs.  A row holds from its month until the next row's.    *)

LatestOf(months) == CHOOSE p \in months : \A q \in months : q <= p
EarliestOf(months) == CHOOSE p \in months : \A q \in months : p <= q
Later(p, q) == IF p > q THEN p ELSE q
Standing(rows) == rows[Len(rows)]

\* The months whose standing row is a rate, in the view dues_rate_standing.
\* Mutant: the deletions are left out before the highest correction is taken.
RatedOnce(t) == {p \in Month : \E n \in 1..Len(rates[t][p]) : ~rates[t][p][n].deleted}
Rated(t) == {p \in Month : rates[t][p] # << >> /\ ~Standing(rates[t][p]).deleted}

\* The months a member's tier was stated for, in the view member_tier_standing.
Stated(held) == {p \in Month : held[p] # << >>}

TierAt(held, p) ==
  LET before == {q \in Stated(held) : q <= p}
  IN  IF before = {} THEN NoTier ELSE Standing(held[LatestOf(before)])

\* The rate of tier t at month p, as a set: empty while none is decided.
RateAt(t, p) ==
  LET before == {q \in Rated(t) : q <= p}
  IN  IF before = {} THEN {} ELSE {Standing(rates[t][LatestOf(before)]).amount}

PriceAt(m, p) ==
  LET t == TierAt(spans[m], p) IN IF t = NoTier THEN {} ELSE RateAt(t, p)

CurrentTier(m) == TierAt(spans[m], Later(now, member[m].joined))
HasTier(m) == \E p \in Stated(spans[m]) : Standing(spans[m][p]) # NoTier

-----------------------------------------------------------------------------
(* What was paid, and what a month's standing is.                           *)

Members == {m \in Member : member[m] # Absent}

\* The payments that stand and that bring something toward the month.
Toward(m, p) == {k \in DOMAIN payments : /\ payments[k].member = m /\ payments[k].stands
                                         /\ p \in DOMAIN payments[k].toward}
Paid(m, p) == MapThenSumSet(LAMBDA k : payments[k].toward[p], Toward(m, p))
LatestPaid(m) == LatestOf({-1} \cup {p \in Month : Toward(m, p) # {}})

\* A partial month counts in full, at both ends.
OwesPeriod(m, p) == member[m].joined <= p /\ p <= member[m].left

DuesStatus(owed, paid) ==
  IF paid >= owed THEN "paid" ELSE IF paid > 0 THEN "partial" ELSE "unpaid"
MonthStatus(m, owed, p) ==
  IF p \in waived[m] THEN "waived" ELSE DuesStatus(owed, Paid(m, p))

\* The last of the unbroken run of paid months after p.  A month that has no
\* price is stepped over; one that is waived, short or outside the member's
\* window ends the run.  Mutant: a waived month is stepped over too.
PassesOverWaived(m, p) == PriceAt(m, p) = {} \/ p \in waived[m]
PassesOver(m, p) == PriceAt(m, p) = {}
PaidThrough(m, p) ==
  LET run[q \in p..Open] ==
        IF q > LatestPaid(m) \/ ~OwesPeriod(m, q) THEN {}
        ELSE IF PassesOver(m, q) THEN run[q + 1]
        ELSE IF \A owed \in PriceAt(m, q) : MonthStatus(m, owed, q) = "paid"
             THEN {q} \cup run[q + 1] ELSE {}
  IN  LatestOf({p} \cup run[p + 1])

\* DuesStatusForPeriod: "none" when the member is not on the month's list.
StatusOf(m, p) ==
  IF ~OwesPeriod(m, p) \/ PriceAt(m, p) = {} THEN "none"
  ELSE LET status == MonthStatus(m, CHOOSE owed \in PriceAt(m, p) : TRUE, p)
       IN  IF status = "paid" /\ LatestPaid(m) > p THEN "paid_in_advance" ELSE status

\* OutstandingDuesForMember: the months up to "through" still owed.
Outstanding(m, through) ==
  IF ~HasTier(m) THEN {}
  ELSE {p \in member[m].joined..through :
          /\ OwesPeriod(m, p)
          /\ \E owed \in PriceAt(m, p) : MonthStatus(m, owed, p) \in {"unpaid", "partial"}}

Arrears(m) == Cardinality(Outstanding(m, now - 1))

\* The rows of GET /api/members price the member in SQL, by the tier and the
\* rate of the later of the current month and the joining month.
\* Mutant: the joining month is not looked at.
RosterMonthOfToday(m) == now
RosterMonth(m) == Later(now, member[m].joined)
RosterRate(m) ==
  {Standing(rates[x.tier][x.from]).amount :
     x \in {x \in [tier : Tier, from : Month] :
              /\ \E q \in Stated(spans[m]) :
                   /\ Standing(spans[m][q]) = x.tier /\ q <= RosterMonth(m)
                   /\ \A r \in Stated(spans[m]) : r <= RosterMonth(m) => r <= q
              /\ x.from \in Rated(x.tier) /\ x.from <= RosterMonth(m)
              /\ ~\E r \in Rated(x.tier) : r <= RosterMonth(m) /\ r > x.from}}

\* The status table: its months end at the current one, and those before the
\* first in which anyone owes are dropped.
GridCell(m, p) ==
  IF ~OwesPeriod(m, p) \/ PriceAt(m, p) = {} THEN "none"
  ELSE MonthStatus(m, CHOOSE owed \in PriceAt(m, p) : TRUE, p)
DuesGrid ==
  LET window == (now - GridMonths + 1)..now
      owed == {p \in window \cap Month : \E m \in Members : GridCell(m, p) # "none"}
  IN  {p \in window \cap Month : \E q \in owed : q <= p}

-----------------------------------------------------------------------------
(* Tiers and rates.                                                         *)

Room ==
  LET held(table, keys) ==
        MapThenSumSet(LAMBDA k : MapThenSumSet(LAMBDA p : Len(table[k][p]), Month), keys)
  IN  held(rates, Tier) + held(spans, Member) + Len(payments) < MaxRows

CreateDuesTier(t) ==
  /\ t \notin tiers
  /\ tiers' = tiers \cup {t}
  /\ UNCHANGED <<rates, member, spans, payments, waived, now>>

\* A tier that any row names, a superseded one too, is refused; else its rates
\* go with it.
DeleteDuesTier(t) ==
  /\ t \in tiers
  /\ \A m \in Member, p \in Month : \A n \in 1..Len(spans[m][p]) : spans[m][p][n] # t
  /\ tiers' = tiers \ {t}
  /\ rates' = [rates EXCEPT ![t] = NoRows]
  /\ UNCHANGED <<member, spans, payments, waived, now>>

AppendRate(t, p, amount, deleted) ==
  /\ Room
  /\ rates' = [rates EXCEPT ![t][p] = Append(@, [amount |-> amount, deleted |-> deleted])]
  /\ UNCHANGED <<tiers, member, spans, payments, waived, now>>

CreateDuesRate(t, p, amount) ==
  /\ t \in tiers /\ p <= now + RateMonthsAhead
  /\ rates[t][p] # << >> => Standing(rates[t][p]).deleted
  /\ AppendRate(t, p, amount, FALSE)

\* The row a page names by its id must still be the one that stands.
StandingRate(t, p, n) == n = Len(rates[t][p]) /\ ~rates[t][p][n].deleted

CorrectDuesRate(t, p, n, amount) ==
  /\ StandingRate(t, p, n)
  /\ amount # rates[t][p][n].amount
  /\ AppendRate(t, p, amount, FALSE)

DeleteDuesRate(t, p, n) ==
  /\ StandingRate(t, p, n)
  /\ AppendRate(t, p, rates[t][p][n].amount, TRUE)

-----------------------------------------------------------------------------
(* Members.                                                                 *)

CreateMember(m, joined, t) ==
  /\ Room
  /\ member[m] = Absent
  /\ joined <= now + YearAhead /\ t \in tiers \cup {NoTier}
  /\ member' = [member EXCEPT ![m] = [joined |-> joined, left |-> Open]]
  /\ spans' = IF t = NoTier THEN spans ELSE [spans EXCEPT ![m][joined] = <<t>>]
  /\ UNCHANGED <<tiers, rates, payments, waived, now>>

\* The first of a member's rows follows the joining month back.
Reaches(first, joined) == first <= joined
MovedBack(held, from, to) ==
  IF Stated(held) = {} THEN held
  ELSE LET first == EarliestOf(Stated(held))
       IN  IF /\ to < from /\ to < first /\ Reaches(first, from)
              /\ Standing(held[first]) # NoTier
           THEN [held EXCEPT ![to] = <<Standing(held[first])>>] ELSE held

\* "Tier t from month p" writes a row only when it is not so already.
WithTier(held, t, p) ==
  IF TierAt(held, p) = t THEN held ELSE [held EXCEPT ![p] = Append(@, t)]

\* One PATCH: the joining and leaving months, and what is said of the tier,
\* which is a set of at most one pair <<tier, month>>.
UpdateMember(m, joined, left, said) ==
  LET moved == MovedBack(spans[m], member[m].joined, joined)
  IN  /\ Room
      /\ member[m] # Absent
      /\ joined \in {member[m].joined} \cup 0..(now + YearAhead)
      /\ left \in {member[m].left, Open} \cup 0..(now + YearAhead)
      /\ joined <= left
      /\ \A s \in said : /\ s[1] \in tiers \cup {NoTier}
                         /\ joined <= s[2] /\ s[2] <= Later(now, joined)
      /\ member' = [member EXCEPT ![m] = [joined |-> joined, left |-> left]]
      /\ spans' = [spans EXCEPT ![m] =
                     IF said = {} THEN moved
                     ELSE LET s == CHOOSE s \in said : TRUE IN WithTier(moved, s[1], s[2])]
      /\ UNCHANGED <<tiers, rates, payments, waived, now>>

\* Refused by the foreign keys of what names the member; a reversed payment
\* still does.  The member's tier rows go along.
DeleteMember(m) ==
  /\ member[m] # Absent
  /\ \A k \in DOMAIN payments : payments[k].member # m
  /\ waived[m] = {}
  /\ member' = [member EXCEPT ![m] = Absent]
  /\ spans' = [spans EXCEPT ![m] = NoRows]
  /\ UNCHANGED <<tiers, rates, payments, waived, now>>

-----------------------------------------------------------------------------
(* Payments and waivers.                                                    *)

\* Mutant: only the first month of a payment is looked at.
FirstIsWaived(m, periods) == EarliestOf(periods) \in waived[m]
NamesWaived(m, periods) == periods \cap waived[m] # {}

\* Several months at once, all or none; the member need not owe them.
PostDuesPayments(m, toward) ==
  /\ Room
  /\ member[m] # Absent
  /\ DOMAIN toward # {}
  /\ \A p \in DOMAIN toward : p <= now + DuesMonthsAhead
  /\ ~NamesWaived(m, DOMAIN toward)
  /\ payments' = Append(payments, [member |-> m, toward |-> toward, stands |-> TRUE])
  /\ UNCHANGED <<tiers, rates, member, spans, waived, now>>

\* A payment is reversed whole (Ledger!ReverseDuesPayment).
ReverseDuesPayment(k) ==
  /\ payments[k].stands
  /\ payments' = [payments EXCEPT ![k].stands = FALSE]
  /\ UNCHANGED <<tiers, rates, member, spans, waived, now>>

\* Exactly the months the payment form offers can be waived.
WaiveDues(m, periods) ==
  /\ member[m] # Absent
  /\ periods # {}
  /\ ~NamesWaived(m, periods)
  /\ periods \subseteq Outstanding(m, now + DuesMonthsAhead)
  /\ waived' = [waived EXCEPT ![m] = @ \cup periods]
  /\ UNCHANGED <<tiers, rates, member, spans, payments, now>>

UnwaiveDues(m, p) ==
  /\ p \in waived[m]
  /\ waived' = [waived EXCEPT ![m] = @ \ {p}]
  /\ UNCHANGED <<tiers, rates, member, spans, payments, now>>

\* The month ends, or the fund's zone is changed within hours of a month's end,
\* which may turn the month back.
TurnMonth(p) ==
  /\ p \in {now - 1, now + 1}
  /\ now' = p
  /\ UNCHANGED <<tiers, rates, member, spans, payments, waived>>

-----------------------------------------------------------------------------
(* The routes of internal/http, with what their bodies can say.             *)

TierRequest == \E t \in Tier : CreateDuesTier(t) \/ DeleteDuesTier(t)
NewRateRequest == \E t \in Tier, p \in Month, amount \in Rate : CreateDuesRate(t, p, amount)
RateRequest ==
  \E t \in Tier, p \in Month : \E n \in 1..Len(rates[t][p]) :
    \/ \E amount \in Rate : CorrectDuesRate(t, p, n, amount)
    \/ DeleteDuesRate(t, p, n)
NewMemberRequest ==
  \E m \in Member, joined \in Month, t \in Tier \cup {NoTier} : CreateMember(m, joined, t)
MemberRequest ==
  \E m \in Members, joined \in Month, left \in Month \cup {Open} :
    \/ UpdateMember(m, joined, left, {})
    \/ \E t \in Tier \cup {NoTier}, p \in Month : UpdateMember(m, joined, left, {<<t, p>>})
DeleteMemberRequest == \E m \in Members : DeleteMember(m)
PaymentRequest ==
  \E m \in Members, S \in SUBSET Month : \E toward \in [S -> Amount] : PostDuesPayments(m, toward)
ReversalRequest == \E k \in DOMAIN payments : ReverseDuesPayment(k)
WaiverRequest == \E m \in Members, S \in SUBSET Month : WaiveDues(m, S)
UnwaiverRequest == \E m \in Members, p \in Month : UnwaiveDues(m, p)

Init ==
  /\ tiers = {}
  /\ rates = [t \in Tier |-> NoRows]
  /\ member = [m \in Member |-> Absent]
  /\ spans = [m \in Member |-> NoRows]
  /\ payments = << >>
  /\ waived = [m \in Member |-> {}]
  /\ now = 0

Next ==
  \/ TierRequest \/ NewRateRequest \/ RateRequest
  \/ NewMemberRequest \/ MemberRequest \/ DeleteMemberRequest
  \/ PaymentRequest \/ ReversalRequest \/ WaiverRequest \/ UnwaiverRequest
  \/ \E p \in 0..MaxNow : TurnMonth(p)

Spec == Init /\ [][Next]_vars

-----------------------------------------------------------------------------
(* What the dues screens promise.                                           *)

\* A withdrawn rate leaves no trace in what is owed: its month costs what the
\* month before it costs (DeleteDuesRate: the periods it covered "fall back to
\* the earlier month's rate, or to not decided").
WithdrawnRateFallsBack ==
  \A t \in Tier, p \in Month :
    rates[t][p] # << >> /\ Standing(rates[t][p]).deleted =>
      RateAt(t, p) = IF p = 0 THEN {} ELSE RateAt(t, p - 1)

\* While a month stays waived no payment comes to stand for it, alone or among
\* the months of a larger payment (ADR-050: a month is owed or waived).
WaivedTakesNoMoney ==
  [][\A m \in Member : \A p \in waived[m] \cap waived'[m] :
       Toward(m, p)' \subseteq Toward(m, p)]_vars

\* "Paid through" is true to the month lists: no month up to it is shown as
\* short or waived (one that is shown at all is paid), and the run is not cut
\* short, so the next month that has a price is not a paid one unless it lies past
\* the last payment or the member's window.  A month that was waived and has lost
\* its price since is not shown, and is stepped over.
PaidThroughIsUnbroken ==
  \A m \in Members, p \in Month : StatusOf(m, p) = "paid_in_advance" =>
    LET through == PaidThrough(m, p)
        later == {q \in Month : q > through /\ q <= LatestPaid(m) /\ PriceAt(m, q) # {}}
    IN  /\ \A q \in p..through : StatusOf(m, q) \in {"paid", "paid_in_advance", "none"}
        /\ later # {} /\ OwesPeriod(m, EarliestOf(later)) =>
             StatusOf(m, EarliestOf(later)) \in {"unpaid", "partial", "waived"}

\* The screens agree: the rate the roster's SQL shows is the one the walk
\* charges, the months in arrears are those the month lists show as short, and
\* none of them that the table spans is dropped from it.
ScreensAgree ==
  \A m \in Members :
    /\ RosterRate(m) = IF CurrentTier(m) = NoTier THEN {}
                       ELSE RateAt(CurrentTier(m), Later(now, member[m].joined))
    /\ Arrears(m) =
         Cardinality({p \in 0..(now - 1) : StatusOf(m, p) \in {"unpaid", "partial"}})
    /\ \A p \in Outstanding(m, now) :
         p > now - GridMonths => p \in DuesGrid /\ GridCell(m, p) = StatusOf(m, p)
=============================================================================
