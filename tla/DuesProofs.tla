----------------------------- MODULE DuesProofs -----------------------------
(***************************************************************************)
(* The dues, proved for any members, tiers, rates and months.  TypeOK is   *)
(* inductive as it stands, and the tables being what it says is all that   *)
(* the other promises rest on.                                             *)
(***************************************************************************)
EXTENDS Dues, WellFoundedInduction, TLAPS

-----------------------------------------------------------------------------
(* The types.                                                               *)

LEMMA InitType == Init => TypeOK
BY MonthsAssumption DEF Init, TypeOK, NoRows, Absent, Open, Month

\* A set of months that is not empty has an earliest.
LEMMA SmallestMonth ==
  ASSUME NEW S, S \subseteq Month, S # {}
  PROVE  \E p \in S : \A q \in S : p <= q
<1> DEFINE R == OpToRel(<, Nat)
<1>1. S \subseteq Nat
  BY MonthsAssumption DEF Month
<1>2. IsWellFoundedOn(R, Nat)
  BY NatLessThanWellFounded
<1>3. \A y, z \in Nat : y < z => <<y, z>> \in R
  BY DEF OpToRel
<1> HIDE DEF R
<1>4. PICK p \in S : \A q \in S : ~ (<<q, p>> \in R)
  BY <1>1, <1>2, WFMin
<1>5. ASSUME NEW q \in S
      PROVE  p <= q
  <2>1. p \in Nat /\ q \in Nat
    BY <1>1
  <2>2. ~(q < p)
    BY <2>1, <1>3, <1>4
  <2> QED
    BY <2>1, <2>2
<1> QED
  BY <1>5

\* One row more in one cell of a table of tables of rows.
LEMMA CellAppend ==
  ASSUME NEW S, NEW K, NEW J, NEW table \in [K -> [J -> Seq(S)]],
         NEW k \in K, NEW j \in J, NEW x \in S
  PROVE  [table EXCEPT ![k][j] = Append(@, x)] \in [K -> [J -> Seq(S)]]
<1>1. Append(table[k][j], x) \in Seq(S)
  OBVIOUS
<1> QED
  BY <1>1

LEMMA RateRowsKeepTheirType ==
  ASSUME TypeOK, NEW t \in Tier, NEW p \in Month, NEW amount \in Rate,
         NEW deleted \in BOOLEAN, AppendRate(t, p, amount, deleted)
  PROVE  TypeOK'
<1>1. [amount |-> amount, deleted |-> deleted] \in RateRow
  BY DEF RateRow
<1>2. rates' \in [Tier -> [Month -> Seq(RateRow)]]
  BY <1>1, CellAppend DEF AppendRate, TypeOK
<1> QED
  BY <1>2 DEF AppendRate, TypeOK

\* What a change of the joining month writes is a table of tiers.
LEMMA MovedBackType ==
  ASSUME NEW held \in [Month -> Seq(Tier \cup {NoTier})], NEW from, NEW to \in Month
  PROVE  MovedBack(held, from, to) \in [Month -> Seq(Tier \cup {NoTier})]
<1> DEFINE first == EarliestOf(Stated(held))
<1>1. CASE /\ Stated(held) # {} /\ to < from /\ to < first /\ Reaches(first, from)
           /\ Standing(held[first]) # NoTier
  <2>1. first \in Stated(held)
    <3>1. \E p \in Stated(held) : \A q \in Stated(held) : p <= q
      BY <1>1, SmallestMonth DEF Stated
    <3> QED
      BY <3>1 DEF EarliestOf
  <2>2. Standing(held[first]) \in Tier \cup {NoTier}
    BY <2>1 DEF Stated, Standing
  <2>3. <<Standing(held[first])>> \in Seq(Tier \cup {NoTier})
    BY <2>2
  <2> QED
    BY <1>1, <2>3 DEF MovedBack
<1>2. CASE ~(/\ Stated(held) # {} /\ to < from /\ to < first /\ Reaches(first, from)
             /\ Standing(held[first]) # NoTier)
  BY <1>2 DEF MovedBack
<1> QED
  BY <1>1, <1>2

LEMMA MemberRowsKeepTheirType ==
  ASSUME TypeOK, NEW m \in Member, NEW joined \in Month,
         NEW left \in Month \cup {Open}, NEW said,
         \A s \in said : s[1] \in Tier \cup {NoTier} /\ s[2] \in Month,
         UpdateMember(m, joined, left, said)
  PROVE  TypeOK'
<1> DEFINE moved == MovedBack(spans[m], member[m].joined, joined)
           table == IF said = {} THEN moved
                    ELSE LET s == CHOOSE s \in said : TRUE IN WithTier(moved, s[1], s[2])
<1>1. [joined |-> joined, left |-> left] \in [joined : 0..Open, left : 0..Open]
  BY MonthsAssumption DEF Open, Month
<1>2. moved \in [Month -> Seq(Tier \cup {NoTier})]
  BY MovedBackType DEF TypeOK
<1> HIDE DEF moved
<1>3. ASSUME NEW t \in Tier \cup {NoTier}, NEW p \in Month
      PROVE  WithTier(moved, t, p) \in [Month -> Seq(Tier \cup {NoTier})]
  BY <1>2 DEF WithTier
<1>4. table \in [Month -> Seq(Tier \cup {NoTier})]
  <2>1. CASE said = {}
    BY <2>1, <1>2
  <2>2. CASE said # {}
    <3>1. (CHOOSE s \in said : TRUE) \in said
      BY <2>2
    <3> QED
      BY <2>2, <3>1, <1>3
  <2> QED
    BY <2>1, <2>2
<1>5. spans' = [spans EXCEPT ![m] = table]
  BY DEF UpdateMember, moved
<1> HIDE DEF table
<1>6. spans' \in [Member -> [Month -> Seq(Tier \cup {NoTier})]]
  BY <1>4, <1>5 DEF TypeOK
<1>7. member' \in [Member -> [joined : 0..Open, left : 0..Open]]
  BY <1>1 DEF UpdateMember, TypeOK
<1> QED
  BY <1>6, <1>7 DEF UpdateMember, TypeOK

LEMMA StepType == TypeOK /\ [Next]_vars => TypeOK'
<1> SUFFICES ASSUME TypeOK, [Next]_vars
             PROVE  TypeOK'
  OBVIOUS
<1> USE DEF TypeOK
<1>1. CASE TierRequest
  <2>1. NoRows \in [Month -> Seq(RateRow)]
    BY DEF NoRows
  <2>2. ASSUME NEW t \in Tier, CreateDuesTier(t)
        PROVE  TypeOK'
    BY <2>2 DEF CreateDuesTier
  <2>3. ASSUME NEW t \in Tier, DeleteDuesTier(t)
        PROVE  TypeOK'
    BY <2>1, <2>3 DEF DeleteDuesTier
  <2> QED
    BY <1>1, <2>2, <2>3 DEF TierRequest
<1>2. CASE NewRateRequest
  BY <1>2, RateRowsKeepTheirType DEF NewRateRequest, CreateDuesRate
<1>3. CASE RateRequest
  <2>1. ASSUME NEW t \in Tier, NEW p \in Month, NEW n \in 1..Len(rates[t][p])
        PROVE  rates[t][p][n].amount \in Rate
    <3>1. rates[t][p] \in Seq(RateRow)
      OBVIOUS
    <3>2. rates[t][p][n] \in RateRow
      BY <3>1
    <3> QED
      BY <3>2 DEF RateRow
  <2>2. ASSUME NEW t \in Tier, NEW p \in Month, NEW n \in 1..Len(rates[t][p]),
               NEW amount \in Rate, CorrectDuesRate(t, p, n, amount)
        PROVE  TypeOK'
    BY <2>2, RateRowsKeepTheirType DEF CorrectDuesRate
  <2>3. ASSUME NEW t \in Tier, NEW p \in Month, NEW n \in 1..Len(rates[t][p]),
               DeleteDuesRate(t, p, n)
        PROVE  TypeOK'
    BY <2>1, <2>3, RateRowsKeepTheirType DEF DeleteDuesRate
  <2> QED
    BY <1>3, <2>2, <2>3 DEF RateRequest
<1>4. CASE NewMemberRequest
  <2> PICK m \in Member, joined \in Month, t \in Tier \cup {NoTier} :
        CreateMember(m, joined, t)
    BY <1>4 DEF NewMemberRequest
  <2>1. [joined |-> joined, left |-> Open] \in [joined : 0..Open, left : 0..Open]
    BY MonthsAssumption DEF Open, Month
  <2>2. <<t>> \in Seq(Tier \cup {NoTier})
    OBVIOUS
  <2>3. spans' \in [Member -> [Month -> Seq(Tier \cup {NoTier})]]
    BY <2>2 DEF CreateMember
  <2> QED
    BY <2>1, <2>3 DEF CreateMember
<1>5. CASE MemberRequest
  <2>1. ASSUME NEW m \in Members, NEW joined \in Month, NEW left \in Month \cup {Open},
               UpdateMember(m, joined, left, {})
        PROVE  TypeOK'
    <3>1. \A s \in {} : s[1] \in Tier \cup {NoTier} /\ s[2] \in Month
      OBVIOUS
    <3>2. m \in Member
      BY DEF Members
    <3> HIDE DEF TypeOK
    <3> QED
      BY <2>1, <3>1, <3>2, MemberRowsKeepTheirType
  <2>2. ASSUME NEW m \in Members, NEW joined \in Month, NEW left \in Month \cup {Open},
               NEW t \in Tier \cup {NoTier}, NEW p \in Month,
               UpdateMember(m, joined, left, {<<t, p>>})
        PROVE  TypeOK'
    <3>1. \A s \in {<<t, p>>} : s[1] \in Tier \cup {NoTier} /\ s[2] \in Month
      OBVIOUS
    <3>2. m \in Member
      BY DEF Members
    <3> HIDE DEF TypeOK
    <3> QED
      BY <2>2, <3>1, <3>2, MemberRowsKeepTheirType
  <2> QED
    BY <1>5, <2>1, <2>2 DEF MemberRequest
<1>6. CASE DeleteMemberRequest
  <2>1. Absent \in [joined : 0..Open, left : 0..Open]
    BY MonthsAssumption DEF Absent, Open
  <2>2. NoRows \in [Month -> Seq(Tier \cup {NoTier})]
    BY DEF NoRows
  <2> QED
    <3>1. PICK m \in Member : DeleteMember(m)
      BY <1>6 DEF DeleteMemberRequest, Members
    <3> QED
      BY <2>1, <2>2, <3>1 DEF DeleteMember
<1>7. CASE PaymentRequest
  <2> PICK m \in Members, S \in SUBSET Month :
        \E toward \in [S -> Amount] : PostDuesPayments(m, toward)
    BY <1>7 DEF PaymentRequest
  <2> PICK toward \in [S -> Amount] : PostDuesPayments(m, toward)
    OBVIOUS
  <2>1. toward \in UNION {[T -> Amount] : T \in SUBSET Month}
    OBVIOUS
  <2>2. [member |-> m, toward |-> toward, stands |-> TRUE] \in Payment
    BY <2>1 DEF Payment, Members
  <2> QED
    BY <2>2 DEF PostDuesPayments
<1>8. CASE ReversalRequest
  <2> PICK k \in DOMAIN payments : ReverseDuesPayment(k)
    BY <1>8 DEF ReversalRequest
  <2>1. [payments[k] EXCEPT !.stands = FALSE] \in Payment
    <3>1. payments[k] \in Payment
      OBVIOUS
    <3> QED
      BY <3>1 DEF Payment
  <2>2. payments' = [payments EXCEPT ![k] = [payments[k] EXCEPT !.stands = FALSE]]
    BY DEF ReverseDuesPayment
  <2>3. payments' \in Seq(Payment)
    BY <2>1, <2>2
  <2> QED
    BY <2>3 DEF ReverseDuesPayment
<1>9. CASE WaiverRequest
  <2> PICK m \in Members, S \in SUBSET Month : WaiveDues(m, S)
    BY <1>9 DEF WaiverRequest
  <2>1. m \in Member /\ waived[m] \cup S \in SUBSET Month
    BY DEF Members
  <2> QED
    BY <2>1 DEF WaiveDues
<1>10. CASE UnwaiverRequest
  BY <1>10 DEF UnwaiverRequest, UnwaiveDues, Members
<1>11. CASE \E p \in 0..MaxNow : TurnMonth(p)
  BY <1>11 DEF TurnMonth
<1>12. CASE UNCHANGED vars
  BY <1>12 DEF vars
<1> QED
  BY <1>1, <1>2, <1>3, <1>4, <1>5, <1>6, <1>7, <1>8, <1>9, <1>10, <1>11, <1>12 DEF Next

\* Whatever the requests, the tables hold what their columns can: no row is
\* written outside the months, the tiers and the amounts there are.
THEOREM TypeCorrect == Spec => []TypeOK
<1> QED
  BY InitType, StepType, PTL DEF Spec

-----------------------------------------------------------------------------
(* Rates.                                                                   *)

\* A withdrawn rate leaves no trace: at its month the standing rows that count
\* are those of the month before.
LEMMA WithdrawnIsNotRated ==
  ASSUME NEW t \in Tier, NEW p \in Month, rates[t][p] # << >>,
         Standing(rates[t][p]).deleted
  PROVE  RateAt(t, p) = IF p = 0 THEN {} ELSE RateAt(t, p - 1)
<1>1. p \notin Rated(t) /\ Rated(t) \subseteq Nat /\ p \in Nat
  BY MonthsAssumption DEF Rated, Month
<1>2. CASE p = 0
  <2>1. {q \in Rated(t) : q <= p} = {}
    BY <1>1, <1>2
  <2> QED
    BY <1>2, <2>1 DEF RateAt
<1>3. CASE p # 0
  <2>1. {q \in Rated(t) : q <= p} = {q \in Rated(t) : q <= p - 1}
    BY <1>1, <1>3
  <2> QED
    BY <1>3, <2>1 DEF RateAt
<1> QED
  BY <1>2, <1>3

\* DeleteDuesRate's promise, in every state: what a withdrawn rate covered falls
\* back to the month before it, or to "not decided".
THEOREM WithdrawnRatesFallBack == Spec => []WithdrawnRateFallsBack
<1>1. WithdrawnRateFallsBack
  BY WithdrawnIsNotRated DEF WithdrawnRateFallsBack
<1> QED
  BY <1>1, PTL

-----------------------------------------------------------------------------
(* Waivers.                                                                 *)

\* What a new payment stands for was not waived when it was posted.
LEMMA PaymentNamesNoWaived ==
  ASSUME TypeOK, NEW m \in Members, NEW S \in SUBSET Month, NEW toward \in [S -> Amount],
         PostDuesPayments(m, toward), NEW x \in Member, NEW p \in waived[x]
  PROVE  Toward(x, p)' \subseteq Toward(x, p)
<1> DEFINE row == [member |-> m, toward |-> toward, stands |-> TRUE]
<1>1. payments \in Seq(Payment) /\ payments' = Append(payments, row)
  BY DEF TypeOK, PostDuesPayments
<1>2. DOMAIN toward \cap waived[m] = {}
  BY DEF PostDuesPayments, NamesWaived
<1>3. row.member = m /\ row.toward = toward
  OBVIOUS
<1> HIDE DEF row
<1>4. ASSUME NEW k \in Toward(x, p)'
      PROVE  k \in Toward(x, p)
  <2>1. k \in DOMAIN payments' /\ payments'[k].member = x /\ payments'[k].stands
          /\ p \in DOMAIN payments'[k].toward
    BY DEF Toward
  <2>2. k \in 1..(Len(payments) + 1)
    BY <1>1, <2>1
  <2>3. k # Len(payments) + 1
    <3>1. SUFFICES ASSUME k = Len(payments) + 1
                   PROVE  FALSE
      OBVIOUS
    <3>2. payments'[k] = row
      BY <1>1, <3>1
    <3> QED
      BY <1>2, <1>3, <2>1, <3>2
  <2>4. k \in DOMAIN payments /\ payments'[k] = payments[k]
    BY <1>1, <2>2, <2>3
  <2> QED
    BY <2>1, <2>4 DEF Toward
<1> QED
  BY <1>4

LEMMA StepTakesNoMoney ==
  ASSUME TypeOK, [Next]_vars, NEW m \in Member, NEW p \in waived[m]
  PROVE  Toward(m, p)' \subseteq Toward(m, p)
<1>1. CASE PaymentRequest
  BY <1>1, PaymentNamesNoWaived DEF PaymentRequest
<1>2. CASE ReversalRequest
  <2> PICK k \in DOMAIN payments : ReverseDuesPayment(k)
    BY <1>2 DEF ReversalRequest
  <2>1. payments \in Seq(Payment)
    BY DEF TypeOK
  <2>2. /\ payments' = [payments EXCEPT ![k].stands = FALSE]
        /\ payments[k] \in Payment
    BY <2>1 DEF ReverseDuesPayment
  <2>3. DOMAIN payments' = DOMAIN payments
    BY <2>1, <2>2
  <2>4. ASSUME NEW j \in DOMAIN payments, j # k
        PROVE  payments'[j] = payments[j]
    BY <2>2, <2>4
  <2>5. payments'[k].stands = FALSE
    BY <2>2 DEF Payment
  <2>6. \A j \in Toward(m, p)' : j \in DOMAIN payments /\ j # k
    BY <2>3, <2>5 DEF Toward
  <2> QED
    BY <2>4, <2>6 DEF Toward
<1>3. CASE UNCHANGED payments
  BY <1>3 DEF Toward
<1>4. CASE TierRequest
  BY <1>3, <1>4 DEF TierRequest, CreateDuesTier, DeleteDuesTier
<1>5. CASE NewRateRequest \/ RateRequest
  BY <1>3, <1>5 DEF NewRateRequest, CreateDuesRate, RateRequest, CorrectDuesRate,
                    DeleteDuesRate, AppendRate
<1>6. CASE NewMemberRequest \/ DeleteMemberRequest
  BY <1>3, <1>6 DEF NewMemberRequest, CreateMember, DeleteMemberRequest, DeleteMember
<1>7. CASE MemberRequest
  BY <1>3, <1>7 DEF MemberRequest, UpdateMember
<1>8. CASE WaiverRequest \/ UnwaiverRequest
  BY <1>3, <1>8 DEF WaiverRequest, WaiveDues, UnwaiverRequest, UnwaiveDues
<1>9. CASE (\E q \in 0..MaxNow : TurnMonth(q)) \/ UNCHANGED vars
  BY <1>3, <1>9 DEF TurnMonth, vars
<1> QED
  BY <1>1, <1>2, <1>4, <1>5, <1>6, <1>7, <1>8, <1>9 DEF Next

\* While a month stays waived no payment comes to stand for it (ADR-050).
THEOREM WaivedMonthsTakeNoMoney == Spec => WaivedTakesNoMoney
<1>1. ASSUME TypeOK, [Next]_vars
      PROVE  [\A m \in Member : \A p \in waived[m] \cap waived'[m] :
                Toward(m, p)' \subseteq Toward(m, p)]_vars
  BY <1>1, StepTakesNoMoney
<1> QED
  BY <1>1, TypeCorrect, PTL DEF Spec, WaivedTakesNoMoney

-----------------------------------------------------------------------------
(* The screens.                                                             *)

\* The latest of some months is one of them, and the only one that none follows.
LEMMA LatestIsLargest ==
  ASSUME NEW S, S \subseteq Month, S # {}
  PROVE  LatestOf(S) \in S /\ \A q \in S : q <= LatestOf(S)
<1> DEFINE T == {LastMonth - q : q \in S}
<1>1. T \subseteq Month /\ T # {}
  <2>1. ASSUME NEW q \in Month
        PROVE  LastMonth - q \in Month
    BY MonthsAssumption DEF Month
  <2>2. \A q \in S : q \in Month
    OBVIOUS
  <2> QED
    BY <2>1, <2>2
<1>2. PICK x \in T : \A y \in T : x <= y
  BY <1>1, SmallestMonth
<1>3. PICK p \in S : x = LastMonth - p
  OBVIOUS
<1>4. ASSUME NEW q \in S
      PROVE  q <= p
  <2>1. LastMonth - p <= LastMonth - q
    BY <1>2, <1>3
  <2>2. p \in Nat /\ q \in Nat /\ LastMonth \in Nat
    BY MonthsAssumption DEF Month
  <2> QED
    BY <2>1, <2>2
<1>5. \E r \in S : \A q \in S : q <= r
  BY <1>4
<1> QED
  BY <1>5 DEF LatestOf

LEMMA LargestIsLatest ==
  ASSUME NEW S, S \subseteq Month, NEW p \in S, \A q \in S : q <= p
  PROVE  p = LatestOf(S)
<1>1. LatestOf(S) \in S /\ p <= LatestOf(S) /\ LatestOf(S) <= p
  BY LatestIsLargest
<1>2. p \in Month /\ LatestOf(S) \in Month
  BY <1>1
<1>3. p \in Nat /\ LatestOf(S) \in Nat
  BY <1>2, MonthsAssumption DEF Month
<1> QED
  BY <1>1, <1>3

\* The walk's tier of a month is the one the roster's join finds.
LEMMA TierByJoin ==
  ASSUME NEW held, NEW upto \in Nat, NEW t, t # NoTier
  PROVE  TierAt(held, upto) = t <=>
           \E q \in Stated(held) :
             /\ Standing(held[q]) = t /\ q <= upto
             /\ \A r \in Stated(held) : r <= upto => r <= q
<1> DEFINE before == {q \in Stated(held) : q <= upto}
<1>1. before \subseteq Month
  BY DEF Stated
<1>2. CASE before = {}
  BY <1>2 DEF TierAt
<1>3. CASE before # {}
  <2>1. /\ LatestOf(before) \in before
        /\ \A r \in before : r <= LatestOf(before)
    BY <1>1, <1>3, LatestIsLargest
  <2>2. TierAt(held, upto) = Standing(held[LatestOf(before)])
    BY <1>3 DEF TierAt
  <2>3. ASSUME NEW q \in before, \A r \in before : r <= q
        PROVE  q = LatestOf(before)
    BY <1>1, <2>3, LargestIsLatest
  <2> QED
    BY <2>1, <2>2, <2>3
<1> QED
  BY <1>2, <1>3

\* The walk's rate of a month is the one the roster's join finds.
LEMMA RateByJoin ==
  ASSUME NEW t \in Tier, NEW upto \in Nat
  PROVE  RateAt(t, upto) =
           {Standing(rates[t][p]).amount :
              p \in {p \in Rated(t) : p <= upto /\ ~\E r \in Rated(t) : r <= upto /\ r > p}}
<1> DEFINE before == {q \in Rated(t) : q <= upto}
           top == {p \in Rated(t) : p <= upto /\ ~\E r \in Rated(t) : r <= upto /\ r > p}
<1>1. before \subseteq Month /\ before \subseteq Nat
  BY MonthsAssumption DEF Rated, Month
<1>2. CASE before = {}
  BY <1>2 DEF RateAt
<1>3. CASE before # {}
  <2>1. LatestOf(before) \in before /\ \A r \in before : r <= LatestOf(before)
    BY <1>1, <1>3, LatestIsLargest
  <2>2. top = {LatestOf(before)}
    <3>1. ASSUME NEW p \in top
          PROVE  p = LatestOf(before)
      <4>1. p \in before /\ \A r \in before : r <= p
        BY <1>1
      <4> QED
        BY <1>1, <4>1, LargestIsLatest
    <3>2. LatestOf(before) \in top
      BY <1>1, <2>1
    <3> QED
      BY <3>1, <3>2
  <2>3. RateAt(t, upto) = {Standing(rates[t][LatestOf(before)]).amount}
    BY <1>3 DEF RateAt
  <2> HIDE DEF top, before
  <2> QED
    BY <2>2, <2>3 DEF top
<1> QED
  BY <1>2, <1>3

\* A tier in force was stated by a row.
LEMMA TierIsStated ==
  ASSUME NEW held, NEW p, TierAt(held, p) # NoTier
  PROVE  \E q \in Stated(held) : Standing(held[q]) # NoTier
<1> DEFINE before == {q \in Stated(held) : q <= p}
<1>1. before # {} /\ TierAt(held, p) = Standing(held[LatestOf(before)])
  BY DEF TierAt
<1>2. before \subseteq Month
  BY DEF Stated
<1>3. LatestOf(before) \in before
  BY <1>1, <1>2, LatestIsLargest
<1> QED
  BY <1>1, <1>3

LEMMA TierType ==
  ASSUME NEW held \in [Month -> Seq(Tier \cup {NoTier})], NEW p
  PROVE  TierAt(held, p) \in Tier \cup {NoTier}
<1> DEFINE before == {q \in Stated(held) : q <= p}
<1>1. CASE before = {}
  BY <1>1 DEF TierAt
<1>2. CASE before # {}
  <2>1. LatestOf(before) \in Stated(held)
    BY <1>2, LatestIsLargest DEF Stated
  <2>2. Standing(held[LatestOf(before)]) \in Tier \cup {NoTier}
    BY <2>1 DEF Stated, Standing
  <2> QED
    BY <1>2, <2>2 DEF TierAt
<1> QED
  BY <1>1, <1>2

LEMMA RosterShowsWhatIsCharged ==
  ASSUME TypeOK, NEW m \in Members
  PROVE  RosterRate(m) = IF CurrentTier(m) = NoTier THEN {}
                         ELSE RateAt(CurrentTier(m), Later(now, member[m].joined))
<1> DEFINE upto == RosterMonth(m)
           tier == CurrentTier(m)
           held(t) == \E q \in Stated(spans[m]) :
                        /\ Standing(spans[m][q]) = t /\ q <= upto
                        /\ \A r \in Stated(spans[m]) : r <= upto => r <= q
           top(t) == {p \in Rated(t) : p <= upto /\ ~\E r \in Rated(t) : r <= upto /\ r > p}
           cells == {x \in [tier : Tier, from : Month] :
                       /\ held(x.tier)
                       /\ x.from \in Rated(x.tier) /\ x.from <= upto
                       /\ ~\E r \in Rated(x.tier) : r <= upto /\ r > x.from}
<1>1. upto \in Nat
  <2>1. m \in Member
    BY DEF Members
  <2>2. member[m].joined \in 0..Open /\ now \in 0..MaxNow
    BY <2>1 DEF TypeOK
  <2> QED
    BY <2>2, MonthsAssumption DEF RosterMonth, Later, Open
<1>2. tier = TierAt(spans[m], upto) /\ upto = Later(now, member[m].joined)
  BY DEF CurrentTier, RosterMonth
<1>3. ASSUME NEW t \in Tier
      PROVE  tier = t <=> held(t)
  BY <1>1, <1>2, NoTierAssumption, TierByJoin
<1>4. RosterRate(m) = {Standing(rates[x.tier][x.from]).amount : x \in cells}
  BY DEF RosterRate
<1> HIDE DEF upto, tier, held
<1>5. ASSUME NEW t \in Tier
      PROVE  RateAt(t, upto) = {Standing(rates[t][p]).amount : p \in top(t)}
  BY <1>1, RateByJoin
<1>6. CASE tier \in Tier
  <2>1. ASSUME NEW y \in RosterRate(m)
        PROVE  y \in RateAt(tier, upto)
    <3>1. PICK x \in cells : y = Standing(rates[x.tier][x.from]).amount
      BY <1>4
    <3>2. x.tier \in Tier /\ held(x.tier)
      OBVIOUS
    <3>3. x.tier = tier
      BY <1>3, <3>2
    <3>4. x.from \in top(tier)
      BY <3>3
    <3> QED
      BY <1>5, <1>6, <3>1, <3>3, <3>4
  <2>2. ASSUME NEW y \in RateAt(tier, upto)
        PROVE  y \in RosterRate(m)
    <3>1. PICK p \in top(tier) : y = Standing(rates[tier][p]).amount
      BY <1>5, <1>6
    <3> DEFINE x == [tier |-> tier, from |-> p]
    <3>2. x \in cells /\ x.tier = tier /\ x.from = p
      BY <1>3, <1>6 DEF Rated
    <3> HIDE DEF x, cells
    <3> QED
      BY <1>4, <3>1, <3>2
  <2>3. tier # NoTier
    BY <1>6, NoTierAssumption
  <2>4. RosterRate(m) = RateAt(tier, upto)
    BY <2>1, <2>2
  <2> QED
    BY <1>2, <2>3, <2>4 DEF tier
<1>7. CASE tier \notin Tier
  <2>1. RosterRate(m) = {}
    BY <1>3, <1>4, <1>7
  <2>2. tier = NoTier
    <3>1. spans[m] \in [Month -> Seq(Tier \cup {NoTier})]
      BY DEF TypeOK, Members
    <3>2. tier \in Tier \cup {NoTier}
      BY <1>2, <3>1, TierType
    <3> QED
      BY <1>7, <3>2
  <2> QED
    BY <2>1, <2>2 DEF tier
<1> QED
  BY <1>6, <1>7

\* A month is priced once or not at all, so the two screens read one price.
LEMMA OnePrice ==
  ASSUME NEW m, NEW p, NEW owed \in PriceAt(m, p)
  PROVE  owed = CHOOSE o \in PriceAt(m, p) : TRUE
BY DEF PriceAt, RateAt

\* What the walk finds outstanding is what the month's list shows as short.
LEMMA OutstandingIsListed ==
  ASSUME TypeOK, NEW m \in Members, NEW through \in Int
  PROVE  /\ Outstanding(m, through) =
              {p \in 0..through : StatusOf(m, p) \in {"unpaid", "partial"}}
         /\ \A p \in Outstanding(m, through) : GridCell(m, p) = StatusOf(m, p)
<1>1. m \in Member /\ member[m].joined \in Nat
  <2>1. m \in Member
    BY DEF Members
  <2> QED
    BY <2>1, MonthsAssumption DEF TypeOK, Open
<1>2. ASSUME NEW p \in Int
      PROVE  /\ p \in Outstanding(m, through) <=>
                  p \in 0..through /\ StatusOf(m, p) \in {"unpaid", "partial"}
             /\ p \in Outstanding(m, through) => GridCell(m, p) = StatusOf(m, p)
  <2> DEFINE owed == CHOOSE o \in PriceAt(m, p) : TRUE
             status == MonthStatus(m, owed, p)
  <2>1. \A o \in PriceAt(m, p) : o = owed
    BY OnePrice
  <2>2. status \in {"waived", "paid", "partial", "unpaid"}
    BY DEF MonthStatus, DuesStatus
  <2>3. StatusOf(m, p) =
          IF ~OwesPeriod(m, p) \/ PriceAt(m, p) = {} THEN "none"
          ELSE IF status = "paid" /\ LatestPaid(m) > p THEN "paid_in_advance" ELSE status
    BY DEF StatusOf
  <2>4. GridCell(m, p) = IF ~OwesPeriod(m, p) \/ PriceAt(m, p) = {} THEN "none" ELSE status
    BY DEF GridCell
  <2>5. OwesPeriod(m, p) => member[m].joined <= p
    BY DEF OwesPeriod
  <2>6. PriceAt(m, p) # {} => HasTier(m)
    <3>1. PriceAt(m, p) # {} => TierAt(spans[m], p) # NoTier
      BY DEF PriceAt
    <3> QED
      BY <3>1, TierIsStated DEF HasTier
  <2>7. p \in Outstanding(m, through) <=>
          /\ HasTier(m) /\ p \in member[m].joined..through /\ OwesPeriod(m, p)
          /\ \E o \in PriceAt(m, p) : MonthStatus(m, o, p) \in {"unpaid", "partial"}
    BY DEF Outstanding
  <2>8. (\E o \in PriceAt(m, p) : MonthStatus(m, o, p) \in {"unpaid", "partial"})
          <=> PriceAt(m, p) # {} /\ status \in {"unpaid", "partial"}
    BY <2>1
  <2> HIDE DEF status, owed
  <2> QED
    BY <1>1, <2>2, <2>3, <2>4, <2>5, <2>6, <2>7, <2>8
<1>3. Outstanding(m, through) \subseteq Int
  BY <1>1 DEF Outstanding
<1> QED
  BY <1>2, <1>3

LEMMA GridKeepsWhatIsOwed ==
  ASSUME TypeOK, NEW m \in Members, NEW p \in Outstanding(m, now), p > now - GridMonths
  PROVE  p \in DuesGrid
<1>1. now \in Nat /\ now <= LastMonth /\ LastMonth \in Nat /\ GridMonths \in Nat
  BY MonthsAssumption DEF TypeOK
<1>2. p \in 0..now /\ StatusOf(m, p) \in {"unpaid", "partial"} /\ GridCell(m, p) = StatusOf(m, p)
  BY <1>1, OutstandingIsListed
<1>3. p \in (now - GridMonths + 1)..now /\ p \in Month
  BY <1>1, <1>2 DEF Month
<1>4. GridCell(m, p) # "none"
  BY <1>2
<1>5. p <= p
  BY <1>3 DEF Month
<1> QED
  BY <1>3, <1>4, <1>5 DEF DuesGrid

\* The roster, the month's list, the arrears and the status table are computed
\* by four pieces of code, and never say different things of one member.
THEOREM ScreensNeverDiffer == Spec => []ScreensAgree
<1>1. TypeOK => ScreensAgree
  <2> SUFFICES ASSUME TypeOK, NEW m \in Members
               PROVE  /\ RosterRate(m) = IF CurrentTier(m) = NoTier THEN {}
                           ELSE RateAt(CurrentTier(m), Later(now, member[m].joined))
                      /\ Arrears(m) = Cardinality({p \in 0..(now - 1) :
                                         StatusOf(m, p) \in {"unpaid", "partial"}})
                      /\ \A p \in Outstanding(m, now) : p > now - GridMonths =>
                           p \in DuesGrid /\ GridCell(m, p) = StatusOf(m, p)
    BY DEF ScreensAgree
  <2>1. now \in Int /\ now - 1 \in Int
    BY MonthsAssumption DEF TypeOK
  <2>2. Outstanding(m, now - 1) =
          {p \in 0..(now - 1) : StatusOf(m, p) \in {"unpaid", "partial"}}
    BY <2>1, OutstandingIsListed
  <2> QED
    BY <2>1, <2>2, RosterShowsWhatIsCharged, OutstandingIsListed, GridKeepsWhatIsOwed
       DEF Arrears
<1> QED
  BY <1>1, TypeCorrect, PTL

-----------------------------------------------------------------------------
(* Paid through.                                                            *)

\* What the walk says of one month after the payment's, and the months it can
\* stop at when it starts from month q: the same months as its recursion finds.
PaidUp(m, q) == \A owed \in PriceAt(m, q) : MonthStatus(m, owed, q) = "paid"
Unbroken(m, q) ==
  q <= LatestPaid(m) /\ OwesPeriod(m, q) /\ (PassesOver(m, q) \/ PaidUp(m, q))
RunFrom(m, q) ==
  {r \in Month : q <= r /\ ~PassesOver(m, r) /\ \A s \in q..r : Unbroken(m, s)}

LEMMA EarliestIsSmallest ==
  ASSUME NEW S, S \subseteq Month, S # {}
  PROVE  EarliestOf(S) \in S /\ \A q \in S : EarliestOf(S) <= q
BY SmallestMonth DEF EarliestOf

LEMMA LatestPaidType ==
  ASSUME NEW m
  PROVE  LatestPaid(m) \in Int /\ LatestPaid(m) <= LastMonth
<1> DEFINE S == {p \in Month : Toward(m, p) # {}}
           T == {-1} \cup S
<1>0. S \subseteq Month /\ LastMonth \in Nat /\ \A p \in Month : p \in Nat /\ p <= LastMonth
  BY MonthsAssumption DEF Month
<1> HIDE DEF S
<1>1. \E p \in T : \A q \in T : q <= p
  <2>1. CASE S = {}
    BY <2>1
  <2>2. CASE S # {}
    <3>1. LatestOf(S) \in S /\ \A q \in S : q <= LatestOf(S)
      BY <1>0, <2>2, LatestIsLargest
    <3>2. -1 <= LatestOf(S)
      BY <1>0, <3>1
    <3> QED
      BY <3>1, <3>2
  <2> QED
    BY <2>1, <2>2
<1>2. LatestOf(T) \in T
  BY <1>1 DEF LatestOf
<1>3. LatestPaid(m) = LatestOf(T)
  BY DEF LatestPaid, S
<1> QED
  BY <1>0, <1>2, <1>3

\* One step of the walk.
LEMMA RunStep ==
  ASSUME NEW m, NEW q \in 0..Open
  PROVE  RunFrom(m, q) =
           IF q > LatestPaid(m) \/ ~OwesPeriod(m, q) THEN {}
           ELSE IF PassesOver(m, q) THEN RunFrom(m, q + 1)
           ELSE IF PaidUp(m, q) THEN {q} \cup RunFrom(m, q + 1) ELSE {}
<1>1. /\ q \in Nat /\ LastMonth \in Nat /\ LatestPaid(m) \in Int /\ LatestPaid(m) <= LastMonth
      /\ \A r \in Month : r \in Nat /\ r <= LastMonth
  BY LatestPaidType, MonthsAssumption DEF Open, Month
<1>2. CASE ~Unbroken(m, q)
  <2>1. ASSUME NEW r \in RunFrom(m, q)
        PROVE  FALSE
    <3>1. r \in Month /\ q <= r /\ \A s \in q..r : Unbroken(m, s)
      BY DEF RunFrom
    <3>2. q \in q..r
      BY <1>1, <3>1
    <3> QED
      BY <1>2, <3>1, <3>2
  <2>2. RunFrom(m, q) = {}
    BY <2>1
  <2> QED
    BY <1>1, <1>2, <2>2 DEF Unbroken
<1>3. CASE Unbroken(m, q)
  <2>1. q \in Month /\ ~(q > LatestPaid(m)) /\ OwesPeriod(m, q)
    BY <1>1, <1>3 DEF Unbroken, Month
  <2>2. ASSUME NEW r \in Month, r # q
        PROVE  r \in RunFrom(m, q) <=> r \in RunFrom(m, q + 1)
    <3>1. r \in Nat
      BY <1>1
    <3>2. q <= r <=> q + 1 <= r
      BY <1>1, <2>2, <3>1
    <3>3. (\A s \in q..r : Unbroken(m, s)) <=> (\A s \in (q + 1)..r : Unbroken(m, s))
      <4>1. \A s : s \in (q + 1)..r => s \in q..r
        BY <1>1, <3>1
      <4>2. \A s : s \in q..r => s = q \/ s \in (q + 1)..r
        BY <1>1, <3>1
      <4> QED
        BY <1>3, <4>1, <4>2
    <3> QED
      BY <3>2, <3>3 DEF RunFrom
  <2>3. q \notin RunFrom(m, q + 1)
    BY <1>1 DEF RunFrom
  <2>4. q \in RunFrom(m, q) <=> ~PassesOver(m, q)
    <3>1. \A s \in q..q : s = q
      BY <1>1
    <3> QED
      BY <1>1, <1>3, <2>1, <3>1 DEF RunFrom
  <2>5. \A k \in {q, q + 1} : RunFrom(m, k) \subseteq Month
    BY DEF RunFrom
  <2>6. CASE PassesOver(m, q)
    <3>1. RunFrom(m, q) = RunFrom(m, q + 1)
      BY <2>2, <2>3, <2>4, <2>5, <2>6
    <3> QED
      BY <2>1, <2>6, <3>1
  <2>7. CASE ~PassesOver(m, q)
    <3>1. RunFrom(m, q) = {q} \cup RunFrom(m, q + 1)
      BY <2>2, <2>4, <2>5, <2>7
    <3> QED
      BY <1>3, <2>1, <2>7, <3>1 DEF Unbroken
  <2> QED
    BY <2>6, <2>7
<1> QED
  BY <1>2, <1>3

\* The walk's recursion has one solution, so the walk finds the run.
LEMMA PaidThroughIs ==
  ASSUME NEW m, NEW p \in Month
  PROVE  PaidThrough(m, p) = LatestOf({p} \cup RunFrom(m, p + 1))
<1> DEFINE step(f, q) == IF q > LatestPaid(m) \/ ~OwesPeriod(m, q) THEN {}
                         ELSE IF PassesOver(m, q) THEN f[q + 1]
                         ELSE IF PaidUp(m, q) THEN {q} \cup f[q + 1] ELSE {}
           Solves(f) == f = [q \in p..Open |-> step(f, q)]
           run == CHOOSE f : Solves(f)
           known == [q \in p..Open |-> RunFrom(m, q)]
<1>1. /\ p \in Nat /\ LastMonth \in Nat /\ Open = LastMonth + 1 /\ p <= LastMonth
      /\ LatestPaid(m) \in Int /\ LatestPaid(m) <= LastMonth
  BY LatestPaidType, MonthsAssumption DEF Open, Month
<1>2. PaidThrough(m, p) = LatestOf({p} \cup run[p + 1])
  BY DEF PaidThrough, PaidUp
<1>3. \A q \in p..Open : q \in 0..Open /\ (q <= LatestPaid(m) => q + 1 \in p..Open)
  BY <1>1
<1>4. Solves(known)
  <2>1. ASSUME NEW q \in p..Open
        PROVE  RunFrom(m, q) = step(known, q)
    <3>1. q <= LatestPaid(m) => known[q + 1] = RunFrom(m, q + 1)
      BY <1>3
    <3>2. ~(q > LatestPaid(m)) => q <= LatestPaid(m)
      BY <1>1
    <3> HIDE DEF known
    <3> QED
      BY <1>3, <3>1, <3>2, RunStep
  <2> QED
    BY <2>1
<1>5. Solves(run)
  BY <1>4
<1> HIDE DEF run, known
<1>6. \A q \in p..Open : run[q] = step(run, q)
  BY <1>5
<1> DEFINE wrong == {q \in p..LastMonth : run[q] # RunFrom(m, q)}
<1>7. run[Open] = RunFrom(m, Open)
  <2>1. Open \in p..Open /\ Open > LatestPaid(m)
    BY <1>1
  <2>2. run[Open] = {}
    BY <1>6, <2>1
  <2>3. RunFrom(m, Open) = {}
    BY <1>3, <2>1, RunStep
  <2> QED
    BY <2>2, <2>3
<1>8. wrong = {}
  <2>1. SUFFICES ASSUME wrong # {}
                 PROVE  FALSE
    OBVIOUS
  <2>2. wrong \subseteq Month
    BY <1>1 DEF Month
  <2> DEFINE q == LatestOf(wrong)
  <2>3. q \in wrong /\ \A r \in wrong : r <= q
    BY <2>1, <2>2, LatestIsLargest
  <2> HIDE DEF q
  <2>4. q \in p..Open /\ q + 1 \in p..Open /\ (q + 1 = Open \/ q + 1 \in p..LastMonth)
    BY <1>1, <2>3
  <2>5. run[q + 1] = RunFrom(m, q + 1)
    <3>1. q + 1 \notin wrong
      BY <1>1, <2>3
    <3> QED
      BY <1>7, <2>4, <3>1
  <2>6. run[q] = step(run, q)
    BY <1>6, <2>4
  <2>7. RunFrom(m, q) = step(run, q)
    BY <1>3, <2>4, <2>5, RunStep
  <2> HIDE DEF step
  <2> QED
    BY <2>3, <2>6, <2>7
<1>9. run[p + 1] = RunFrom(m, p + 1)
  BY <1>1, <1>7, <1>8
<1> QED
  BY <1>2, <1>9

\* What a month shows when it is paid up, and when it is not.
LEMMA PaidUpShows ==
  ASSUME NEW m, NEW q
  PROVE  /\ StatusOf(m, q) \in {"paid", "paid_in_advance"} =>
              OwesPeriod(m, q) /\ ~PassesOver(m, q) /\ PaidUp(m, q)
         /\ PassesOver(m, q) => StatusOf(m, q) = "none"
         /\ PaidUp(m, q) => StatusOf(m, q) \in {"paid", "paid_in_advance", "none"}
         /\ OwesPeriod(m, q) /\ ~PassesOver(m, q) /\ ~PaidUp(m, q) =>
              StatusOf(m, q) \in {"unpaid", "partial", "waived"}
<1> DEFINE owed == CHOOSE o \in PriceAt(m, q) : TRUE
           status == MonthStatus(m, owed, q)
<1>1. \A o \in PriceAt(m, q) : o = owed
  BY OnePrice
<1>2. status \in {"waived", "paid", "partial", "unpaid"}
  BY DEF MonthStatus, DuesStatus
<1>3. StatusOf(m, q) =
        IF ~OwesPeriod(m, q) \/ PriceAt(m, q) = {} THEN "none"
        ELSE IF status = "paid" /\ LatestPaid(m) > q THEN "paid_in_advance" ELSE status
  BY DEF StatusOf
<1>4. PriceAt(m, q) # {} => (PaidUp(m, q) <=> status = "paid")
  BY <1>1 DEF PaidUp
<1> HIDE DEF status, owed
<1> QED
  BY <1>2, <1>3, <1>4 DEF PassesOver

LEMMA PaidThroughTrue ==
  ASSUME TypeOK, NEW m \in Members, NEW p \in Month, StatusOf(m, p) = "paid_in_advance"
  PROVE  LET through == PaidThrough(m, p)
             later == {q \in Month : q > through /\ q <= LatestPaid(m) /\ PriceAt(m, q) # {}}
         IN  /\ \A q \in p..through : StatusOf(m, q) \in {"paid", "paid_in_advance", "none"}
             /\ later # {} /\ OwesPeriod(m, EarliestOf(later)) =>
                  StatusOf(m, EarliestOf(later)) \in {"unpaid", "partial", "waived"}
<1> DEFINE through == PaidThrough(m, p)
           later == {q \in Month : q > through /\ q <= LatestPaid(m) /\ PriceAt(m, q) # {}}
           ends == {p} \cup RunFrom(m, p + 1)
<1>0. /\ LastMonth \in Nat /\ LatestPaid(m) \in Int /\ p \in Nat
      /\ \A r \in Month : r \in Nat /\ r <= LastMonth
      /\ member[m].joined \in Nat /\ member[m].left \in Nat
  <2>1. m \in Member
    BY DEF Members
  <2> QED
    BY <2>1, LatestPaidType, MonthsAssumption DEF Month, TypeOK, Open
<1>1. OwesPeriod(m, p) /\ ~PassesOver(m, p) /\ PaidUp(m, p)
  BY PaidUpShows
<1>2. ends \subseteq Month
  BY DEF RunFrom
<1>3. through \in ends /\ \A r \in ends : r <= through
  BY <1>2, LatestIsLargest, PaidThroughIs
<1> HIDE DEF through, ends
<1>4. through \in Month /\ p <= through
  BY <1>2, <1>3 DEF ends
<1>5. \A s \in (p + 1)..through : Unbroken(m, s)
  <2>1. CASE through = p
    BY <1>0, <2>1
  <2>2. CASE through # p
    BY <1>3, <2>2 DEF ends, RunFrom
  <2> QED
    BY <2>1, <2>2
<1>6. ASSUME NEW q \in p..through
      PROVE  StatusOf(m, q) \in {"paid", "paid_in_advance", "none"}
  <2>1. CASE q = p
    BY <2>1
  <2>2. CASE q # p
    <3>1. q \in (p + 1)..through
      BY <1>0, <1>4, <2>2
    <3>2. PassesOver(m, q) \/ PaidUp(m, q)
      BY <1>5, <3>1 DEF Unbroken
    <3> QED
      BY <3>2, PaidUpShows
  <2> QED
    BY <2>1, <2>2
<1>7. ASSUME later # {}, OwesPeriod(m, EarliestOf(later))
      PROVE  StatusOf(m, EarliestOf(later)) \in {"unpaid", "partial", "waived"}
  <2> DEFINE q == EarliestOf(later)
  <2>1. q \in later /\ \A r \in later : q <= r
    BY <1>7, EarliestIsSmallest
  <2> HIDE DEF q
  <2>2. /\ q \in Month /\ q \in Nat /\ through \in Nat /\ q > through /\ q <= LatestPaid(m)
        /\ ~PassesOver(m, q) /\ OwesPeriod(m, q) /\ q \notin ends
    <3>1. q \notin ends
      BY <1>0, <1>3, <1>4, <2>1
    <3> QED
      BY <1>0, <1>4, <1>7, <2>1, <3>1 DEF PassesOver, q
  <2>3. ASSUME NEW s \in (through + 1)..(q - 1)
        PROVE  Unbroken(m, s)
    <3>1. s \in Month /\ s > through /\ s < q /\ s <= LatestPaid(m) /\ s \in Nat
      BY <1>0, <1>4, <2>2 DEF Month
    <3>2. s \notin later
      BY <2>1, <2>2, <3>1
    <3>3. PassesOver(m, s)
      BY <3>1, <3>2 DEF PassesOver
    <3>4. OwesPeriod(m, s)
      BY <1>0, <1>1, <1>4, <2>2, <3>1 DEF OwesPeriod
    <3> QED
      BY <3>1, <3>3, <3>4 DEF Unbroken
  <2>4. ~PaidUp(m, q)
    <3>1. SUFFICES ASSUME PaidUp(m, q)
                   PROVE  FALSE
      OBVIOUS
    <3>2. Unbroken(m, q)
      BY <2>2, <3>1 DEF Unbroken
    <3>3. \A s \in (p + 1)..q : s \in (p + 1)..through \/ s \in (through + 1)..(q - 1) \/ s = q
      BY <1>0, <1>4, <2>2
    <3>4. \A s \in (p + 1)..q : Unbroken(m, s)
      BY <1>5, <2>3, <3>2, <3>3
    <3>5. p + 1 <= q
      BY <1>0, <1>4, <2>2
    <3>6. q \in RunFrom(m, p + 1)
      BY <2>2, <3>4, <3>5 DEF RunFrom
    <3> QED
      BY <2>2, <3>6 DEF ends
  <2> QED
    BY <2>2, <2>4, PaidUpShows DEF q
<1> QED
  BY <1>6, <1>7 DEF through

\* "Paid through" never promises a month that a list shows as short or waived,
\* and never stops before one that is paid, whatever rates, tiers, windows,
\* payments and waivers came between.
THEOREM PaidThroughIsTrue == Spec => []PaidThroughIsUnbroken
<1>1. TypeOK => PaidThroughIsUnbroken
  BY PaidThroughTrue DEF PaidThroughIsUnbroken
<1> QED
  BY <1>1, TypeCorrect, PTL
=============================================================================
