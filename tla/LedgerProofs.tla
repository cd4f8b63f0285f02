---------------------------- MODULE LedgerProofs ----------------------------
(***************************************************************************)
(* The ledger's promises, proved for any number of locations, envelopes,   *)
(* claims, rows and counts.  The first sections are facts about sequences  *)
(* of rows alone: what their sums are, what posting a batch adds to them,  *)
(* and how corrections and reversals point from one row to another.  Then  *)
(* what each operation posts and the promises it keeps, the fund the book  *)
(* stands for, the report, and backups of the book.                        *)
(***************************************************************************)
EXTENDS LedgerProperties, LedgerFund, Report, Document, SequenceTheorems, FiniteSetTheorems,
        WellFoundedInduction, TLAPS

-----------------------------------------------------------------------------
(* The sums of the book.                                                    *)

\* Induction over the naturals, for a set in place of a predicate.
LEMMA SetInduction ==
  ASSUME NEW S, 0 \in S, \A n \in Nat : n \in S => n + 1 \in S
  PROVE  Nat \subseteq S
<1> DEFINE R == OpToRel(<, Nat)
           T == Nat \ S
<1>1. SUFFICES ASSUME T # {} PROVE FALSE
  OBVIOUS
<1>2. IsWellFoundedOn(R, Nat)
  BY NatLessThanWellFounded
<1>3. T \subseteq Nat /\ \A n \in Nat : n \in T <=> n \notin S
  OBVIOUS
<1>4. \A y, z \in Nat : y < z => <<y, z>> \in R
  BY DEF OpToRel
<1> HIDE DEF R, T
<1>5. PICK x \in T : \A y \in T : ~ (<<y, x>> \in R)
  BY <1>1, <1>2, <1>3, WFMin
<1>6. x \in Nat /\ x \notin S /\ x # 0
  BY <1>3
<1>7. x - 1 \in Nat /\ x = (x - 1) + 1 /\ x - 1 < x
  BY <1>6
<1>8. x - 1 \in S
  BY <1>7, <1>4, <1>5, <1>6, <1>3
<1> QED
  BY <1>6, <1>7, <1>8

\* A set of numbers with a bound has a greatest member.
LEMMA LastOf ==
  ASSUME NEW n \in Nat, NEW T \in SUBSET (1..n), T # {}
  PROVE  \E c \in T : \A d \in T : d <= c
<1> DEFINE P == {k \in Nat : \A S \in SUBSET (1..k) :
                               S # {} => \E c \in S : \A d \in S : d <= c}
<1>1. 0 \in P
  <2>1. 1..0 = {}
    OBVIOUS
  <2> QED
    BY <2>1
<1>2. ASSUME NEW k \in Nat, k \in P
      PROVE  k + 1 \in P
  <2>1. ASSUME NEW S \in SUBSET (1..(k + 1)), S # {}
        PROVE  \E c \in S : \A d \in S : d <= c
    <3>1. CASE k + 1 \in S
      BY <3>1
    <3>2. CASE k + 1 \notin S
      <4>1. S \in SUBSET (1..k)
        BY <3>2
      <4> QED
        BY <1>2, <2>1, <4>1
    <3> QED
      BY <3>1, <3>2
  <2> QED
    BY <2>1
<1> HIDE DEF P
<1>3. P = Nat
  BY <1>1, <1>2, SetInduction DEF P
<1> QED
  BY <1>3 DEF P

\* A set of which any two members are the same one has at most one.
LEMMA AtMostOne ==
  ASSUME NEW S, \A x, y \in S : x = y
  PROVE  /\ IsFiniteSet(S) /\ Cardinality(S) <= 1
         /\ S # {} => Cardinality(S) = 1
<1>1. CASE S = {}
  BY <1>1, FS_EmptySet
<1>2. CASE S # {}
  <2>1. PICK x \in S : TRUE
    BY <1>2
  <2>2. S = {x}
    BY <2>1
  <2>3. IsFiniteSet({x}) /\ Cardinality({x}) = 1
    BY FS_Singleton
  <2> QED
    BY <2>2, <2>3
<1> QED
  BY <1>1, <1>2

-----------------------------------------------------------------------------
(* Totals.                                                                  *)

\* The recursive definition of Running denotes a function: its equations hold.
LEMMA RunningEquation ==
  ASSUME NEW v \in Seq(Int)
  PROVE  Running(v) = [n \in 0..Len(v) |-> IF n = 0 THEN 0 ELSE Running(v)[n - 1] + v[n]]
<1> DEFINE Solves(f, k) == f = [n \in 0..k |-> IF n = 0 THEN 0 ELSE f[n - 1] + v[n]]
           S == {k \in Nat : \E f : Solves(f, k)}
<1>1. 0 \in S
  <2> DEFINE f == [n \in 0..0 |-> 0]
  <2>1. Solves(f, 0)
    OBVIOUS
  <2> QED
    BY <2>1
<1>2. ASSUME NEW k \in Nat, k \in S
      PROVE  k + 1 \in S
  <2>1. PICK f : Solves(f, k)
    BY <1>2
  <2> DEFINE g == [n \in 0..(k + 1) |-> IF n = k + 1 THEN f[k] + v[k + 1] ELSE f[n]]
  <2>2. Solves(g, k + 1)
    <3>1. ASSUME NEW n \in 0..(k + 1)
          PROVE  g[n] = IF n = 0 THEN 0 ELSE g[n - 1] + v[n]
      <4>1. CASE n = 0
        BY <2>1, <4>1
      <4>2. CASE n \in 1..k
        <5>1. n - 1 \in 0..(k + 1) /\ n - 1 # k + 1 /\ n # k + 1 /\ n \in 0..k /\ n # 0
          BY <4>2
        <5>2. f[n] = f[n - 1] + v[n]
          BY <2>1, <5>1
        <5> QED
          BY <5>1, <5>2
      <4>3. CASE n = k + 1
        <5>1. n - 1 = k /\ k # k + 1 /\ k \in 0..(k + 1) /\ n # 0
          BY <4>3
        <5> QED
          BY <5>1, <4>3
      <4> QED
        BY <4>1, <4>2, <4>3
    <3>2. g = [n \in 0..(k + 1) |-> g[n]]
      OBVIOUS
    <3> HIDE DEF g
    <3> QED
      BY <3>1, <3>2
  <2>3. \E h : Solves(h, k + 1)
    <3> HIDE DEF g, Solves
    <3> QED
      BY <2>2
  <2> HIDE DEF Solves
  <2> QED
    BY <2>3
<1>3. Len(v) \in S
  <2> HIDE DEF S
  <2> QED
    BY <1>1, <1>2, SetInduction, LenProperties
<1>4. \E f : Solves(f, Len(v))
  BY <1>3
<1> QED
  BY <1>4 DEF Running

\* Every running total is an integer.
LEMMA RunningInt ==
  ASSUME NEW v \in Seq(Int)
  PROVE  \A n \in 0..Len(v) : Running(v)[n] \in Int
<1> DEFINE S == {n \in Nat : n <= Len(v) => Running(v)[n] \in Int}
<1>0. Len(v) \in Nat
  BY LenProperties
<1>1. 0 \in S
  BY <1>0, RunningEquation
<1>2. ASSUME NEW n \in Nat, n \in S
      PROVE  n + 1 \in S
  <2>1. CASE n + 1 <= Len(v)
    <3>1. n + 1 \in 0..Len(v) /\ n + 1 # 0 /\ (n + 1) - 1 = n /\ n <= Len(v)
      BY <2>1, <1>0
    <3>2. Running(v)[n + 1] = Running(v)[n] + v[n + 1]
      BY <3>1, RunningEquation
    <3>3. v[n + 1] \in Int
      BY <3>1, <1>0, ElementOfSeq
    <3> QED
      BY <3>1, <3>2, <3>3, <1>2
  <2> QED
    BY <2>1
<1>3. Nat \subseteq S
  <2> HIDE DEF S
  <2> QED
    BY <1>1, <1>2, SetInduction
<1> QED
  BY <1>0, <1>3

LEMMA TotalInt ==
  ASSUME NEW v \in Seq(Int)
  PROVE  Total(v) \in Int
BY RunningInt, LenProperties DEF Total

\* The first total is 0 and each next one adds the next member.
LEMMA RunningStep ==
  ASSUME NEW v \in Seq(Int)
  PROVE  /\ Running(v)[0] = 0
         /\ \A n \in 1..Len(v) : Running(v)[n] = Running(v)[n - 1] + v[n]
<1>0. Len(v) \in Nat
  BY LenProperties
<1>1. 0 \in 0..Len(v) /\ \A n \in 1..Len(v) : n \in 0..Len(v) /\ n # 0
  BY <1>0
<1> QED
  BY <1>1, RunningEquation

\* The total of a concatenation is the sum of the totals.
LEMMA TotalConcat ==
  ASSUME NEW v \in Seq(Int), NEW w \in Seq(Int)
  PROVE  v \o w \in Seq(Int) /\ Total(v \o w) = Total(v) + Total(w)
<1> DEFINE vw == v \o w
           P == {n \in Nat : n <= Len(v) => Running(vw)[n] = Running(v)[n]}
           Q == {n \in Nat : n <= Len(w) => Running(vw)[Len(v) + n] = Total(v) + Running(w)[n]}
<1>1. /\ vw \in Seq(Int) /\ Len(vw) = Len(v) + Len(w)
      /\ \A i \in 1..Len(v) : vw[i] = v[i]
      /\ \A i \in 1..Len(w) : vw[Len(v) + i] = w[i]
      /\ Len(v) \in Nat /\ Len(w) \in Nat
  BY ConcatProperties, LenProperties
<1> HIDE DEF vw
<1>2. 0 \in P
  BY <1>1, RunningStep
<1>3. ASSUME NEW n \in Nat, n \in P
      PROVE  n + 1 \in P
  <2>1. SUFFICES ASSUME n + 1 <= Len(v)
                 PROVE  Running(vw)[n + 1] = Running(v)[n + 1]
    OBVIOUS
  <2>2. n + 1 \in 1..Len(v) /\ n + 1 \in 1..Len(vw) /\ (n + 1) - 1 = n /\ n <= Len(v)
    BY <2>1, <1>1
  <2>3. Running(vw)[n + 1] = Running(vw)[n] + vw[n + 1]
    BY <2>2, <1>1, RunningStep
  <2>4. Running(v)[n + 1] = Running(v)[n] + v[n + 1]
    BY <2>2, RunningStep
  <2> QED
    BY <2>2, <2>3, <2>4, <1>1, <1>3
<1>4. Nat \subseteq P
  <2> HIDE DEF P
  <2> QED
    BY <1>2, <1>3, SetInduction
<1>5. 0 \in Q
  <2>1. Running(vw)[Len(v)] = Running(v)[Len(v)]
    BY <1>4, <1>1
  <2>2. Running(v)[Len(v)] \in Int
    BY RunningInt, <1>1
  <2> QED
    BY <2>1, <2>2, RunningStep, <1>1 DEF Total
<1>6. ASSUME NEW n \in Nat, n \in Q
      PROVE  n + 1 \in Q
  <2>1. SUFFICES ASSUME n + 1 <= Len(w)
                 PROVE  Running(vw)[Len(v) + (n + 1)] = Total(v) + Running(w)[n + 1]
    OBVIOUS
  <2>2. /\ n + 1 \in 1..Len(w) /\ n \in 0..Len(w) /\ (n + 1) - 1 = n
        /\ Len(v) + (n + 1) \in 1..Len(vw) /\ (Len(v) + (n + 1)) - 1 = Len(v) + n
    BY <2>1, <1>1
  <2>3. Running(vw)[Len(v) + (n + 1)] = Running(vw)[Len(v) + n] + vw[Len(v) + (n + 1)]
    BY <2>2, <1>1, RunningStep
  <2>4. Running(w)[n + 1] = Running(w)[n] + w[n + 1]
    BY <2>2, RunningStep
  <2>5. Running(vw)[Len(v) + n] = Total(v) + Running(w)[n]
    BY <2>2, <1>6
  <2>6. Running(w)[n] \in Int /\ Total(v) \in Int /\ w[n + 1] \in Int
    BY <2>2, RunningInt, TotalInt, ElementOfSeq
  <2>7. vw[Len(v) + (n + 1)] = w[n + 1]
    BY <2>2, <1>1
  <2> QED
    BY <2>3, <2>4, <2>5, <2>6, <2>7
<1>7. Nat \subseteq Q
  <2> HIDE DEF Q
  <2> QED
    BY <1>5, <1>6, SetInduction
<1>8. Running(vw)[Len(v) + Len(w)] = Total(v) + Running(w)[Len(w)]
  BY <1>7, <1>1
<1> QED
  BY <1>8, <1>1 DEF Total, vw

\* Nothing adds up to nothing.
LEMMA TotalZeros ==
  ASSUME NEW v \in Seq(Int), \A n \in 1..Len(v) : v[n] = 0
  PROVE  Total(v) = 0
<1> DEFINE P == {n \in Nat : n <= Len(v) => Running(v)[n] = 0}
<1>0. Len(v) \in Nat
  BY LenProperties
<1>1. 0 \in P
  BY RunningStep
<1>2. ASSUME NEW n \in Nat, n \in P
      PROVE  n + 1 \in P
  <2>1. SUFFICES ASSUME n + 1 <= Len(v)
                 PROVE  Running(v)[n + 1] = 0
    OBVIOUS
  <2>2. n + 1 \in 1..Len(v) /\ (n + 1) - 1 = n /\ n <= Len(v)
    BY <2>1, <1>0
  <2>3. Running(v)[n + 1] = Running(v)[n] + v[n + 1]
    BY <2>2, RunningStep
  <2> QED
    BY <2>2, <2>3, <1>2
<1>3. Nat \subseteq P
  <2> HIDE DEF P
  <2> QED
    BY <1>1, <1>2, SetInduction
<1> QED
  BY <1>3, <1>0 DEF Total

\* Where all but one member is nothing, the total is that member.
LEMMA TotalOne ==
  ASSUME NEW v \in Seq(Int), NEW k \in 1..Len(v), \A n \in 1..Len(v) : n # k => v[n] = 0
  PROVE  Total(v) = v[k]
<1> DEFINE P == {n \in Nat : n <= Len(v) => Running(v)[n] = IF n >= k THEN v[k] ELSE 0}
<1>0. Len(v) \in Nat /\ v[k] \in Int
  BY LenProperties, ElementOfSeq
<1>1. 0 \in P
  BY RunningStep
<1>2. ASSUME NEW n \in Nat, n \in P
      PROVE  n + 1 \in P
  <2>1. SUFFICES ASSUME n + 1 <= Len(v)
                 PROVE  Running(v)[n + 1] = IF n + 1 >= k THEN v[k] ELSE 0
    OBVIOUS
  <2>2. n + 1 \in 1..Len(v) /\ (n + 1) - 1 = n /\ n <= Len(v)
    BY <2>1, <1>0
  <2>3. Running(v)[n + 1] = Running(v)[n] + v[n + 1]
    BY <2>2, RunningStep
  <2>4. Running(v)[n] = IF n >= k THEN v[k] ELSE 0
    BY <1>2, <2>2
  <2>5. v[n + 1] = IF n + 1 = k THEN v[k] ELSE 0
    BY <2>2
  <2> HIDE DEF P
  <2> QED
    BY <1>0, <2>3, <2>4, <2>5
<1>3. Nat \subseteq P
  <2> HIDE DEF P
  <2> QED
    BY <1>1, <1>2, SetInduction
<1> QED
  BY <1>3, <1>0 DEF Total

\* Two sequences added member by member add up to the sum of their totals.
LEMMA TotalSum ==
  ASSUME NEW u \in Seq(Int), NEW v \in Seq(Int), NEW w \in Seq(Int),
         Len(u) = Len(w), Len(v) = Len(w),
         \A n \in 1..Len(w) : w[n] = u[n] + v[n]
  PROVE  Total(w) = Total(u) + Total(v)
<1> DEFINE P == {n \in Nat : n <= Len(w) => Running(w)[n] = Running(u)[n] + Running(v)[n]}
<1>0. Len(w) \in Nat
  BY LenProperties
<1>1. 0 \in P
  BY RunningStep
<1>2. ASSUME NEW n \in Nat, n \in P
      PROVE  n + 1 \in P
  <2>1. SUFFICES ASSUME n + 1 <= Len(w)
                 PROVE  Running(w)[n + 1] = Running(u)[n + 1] + Running(v)[n + 1]
    OBVIOUS
  <2>2. n + 1 \in 1..Len(w) /\ n \in 0..Len(w) /\ (n + 1) - 1 = n
    BY <1>0, <2>1
  <2>3. /\ Running(w)[n + 1] = Running(w)[n] + w[n + 1]
        /\ Running(u)[n + 1] = Running(u)[n] + u[n + 1]
        /\ Running(v)[n + 1] = Running(v)[n] + v[n + 1]
    BY <2>2, RunningStep
  <2>4. Running(w)[n] = Running(u)[n] + Running(v)[n] /\ w[n + 1] = u[n + 1] + v[n + 1]
    BY <1>0, <1>2, <2>2
  <2>5. /\ Running(u)[n] \in Int /\ Running(v)[n] \in Int
        /\ u[n + 1] \in Int /\ v[n + 1] \in Int
    BY <2>2, RunningInt, ElementOfSeq
  <2> QED
    BY <2>3, <2>4, <2>5
<1>3. Nat \subseteq P
  <2> HIDE DEF P
  <2> QED
    BY <1>1, <1>2, SetInduction
<1> QED
  BY <1>0, <1>3 DEF Total

\* A pair adds up to its two members.
LEMMA TotalPair ==
  ASSUME NEW v \in Seq(Int), Len(v) = 2
  PROVE  Total(v) = v[1] + v[2]
<1>1. Running(v)[0] = 0 /\ Running(v)[1] = Running(v)[0] + v[1]
        /\ Running(v)[2] = Running(v)[1] + v[2]
  BY RunningStep
<1>2. v[1] \in Int /\ v[2] \in Int
  <2>1. 1 \in 1..Len(v) /\ 2 \in 1..Len(v)
    OBVIOUS
  <2> QED
    BY <2>1, ElementOfSeq
<1> QED
  BY <1>1, <1>2 DEF Total

-----------------------------------------------------------------------------
(* Balances.                                                                *)

LEMMA SignedInt ==
  ASSUME NEW row \in Row
  PROVE  Signed(row) \in Int
BY CeilingAssumption DEF Signed, Row

LEMMA EffectsSeq ==
  ASSUME NEW rs \in Seq(Row), NEW ids
  PROVE  /\ Effects(rs, ids) \in Seq(Int)
         /\ Len(Effects(rs, ids)) = Len(rs)
         /\ \A i \in 1..Len(rs) :
              Effects(rs, ids)[i] = IF i \in ids THEN Signed(rs[i]) ELSE 0
<1>1. Len(rs) \in Nat /\ \A i \in 1..Len(rs) : rs[i] \in Row
  BY LenProperties, ElementOfSeq
<1>2. \A i \in 1..Len(rs) : (IF i \in ids THEN Signed(rs[i]) ELSE 0) \in Int
  BY <1>1, SignedInt
<1> QED
  BY <1>1, <1>2, IsASeq DEF Effects

LEMMA NetInt ==
  ASSUME NEW rs \in Seq(Row), NEW ids
  PROVE  Net(rs, ids) \in Int
BY EffectsSeq, TotalInt DEF Net

\* Posting a batch to a book adds the batch's share to every sum: "mine" are
\* the ids of the old rows that are summed, "theirs" those of the batch's own.
LEMMA NetConcat ==
  ASSUME NEW rs \in Seq(Row), NEW batch \in Seq(Row), NEW ids, NEW mine, NEW theirs,
         \A i \in 1..Len(rs) : i \in ids <=> i \in mine,
         \A n \in 1..Len(batch) : Len(rs) + n \in ids <=> n \in theirs
  PROVE  Net(rs \o batch, ids) = Net(rs, mine) + Net(batch, theirs)
<1> DEFINE all == rs \o batch
           v == Effects(rs, mine)
           w == Effects(batch, theirs)
<1>1. /\ all \in Seq(Row) /\ Len(all) = Len(rs) + Len(batch)
      /\ \A i \in 1..Len(rs) : all[i] = rs[i]
      /\ \A n \in 1..Len(batch) : all[Len(rs) + n] = batch[n]
      /\ Len(rs) \in Nat /\ Len(batch) \in Nat
  BY ConcatProperties, LenProperties
<1> HIDE DEF all
<1>2. /\ v \in Seq(Int) /\ Len(v) = Len(rs)
      /\ w \in Seq(Int) /\ Len(w) = Len(batch)
  BY EffectsSeq
<1>3. /\ v \o w \in Seq(Int) /\ Len(v \o w) = Len(v) + Len(w)
      /\ \A i \in 1..Len(v) : (v \o w)[i] = v[i]
      /\ \A n \in 1..Len(w) : (v \o w)[Len(v) + n] = w[n]
  <2>1. ASSUME NEW x \in Seq(Int), NEW y \in Seq(Int)
        PROVE  /\ x \o y \in Seq(Int) /\ Len(x \o y) = Len(x) + Len(y)
               /\ \A i \in 1..Len(x) : (x \o y)[i] = x[i]
               /\ \A n \in 1..Len(y) : (x \o y)[Len(x) + n] = y[n]
    BY ConcatProperties, LenProperties
  <2> HIDE DEF v, w
  <2> QED
    BY <1>2, <2>1
<1>4. /\ Effects(all, ids) \in Seq(Int) /\ Len(Effects(all, ids)) = Len(all)
  BY <1>1, EffectsSeq
<1>5. ASSUME NEW i \in 1..Len(all)
      PROVE  Effects(all, ids)[i] = (v \o w)[i]
  <2>1. Effects(all, ids)[i] = IF i \in ids THEN Signed(all[i]) ELSE 0
    BY <1>1, EffectsSeq
  <2>2. CASE i \in 1..Len(rs)
    <3>1. (v \o w)[i] = IF i \in mine THEN Signed(rs[i]) ELSE 0
      BY <2>2, <1>2, <1>3, EffectsSeq
    <3> QED
      BY <2>1, <2>2, <3>1, <1>1
  <2>3. CASE i \notin 1..Len(rs)
    <3>1. PICK n \in 1..Len(batch) : i = Len(rs) + n
      <4>1. i - Len(rs) \in 1..Len(batch) /\ i = Len(rs) + (i - Len(rs))
        BY <2>3, <1>1
      <4> QED
        BY <4>1
    <3>2. (v \o w)[i] = IF n \in theirs THEN Signed(batch[n]) ELSE 0
      BY <3>1, <1>2, <1>3, EffectsSeq
    <3> QED
      BY <2>1, <3>1, <3>2, <1>1
  <2> QED
    BY <2>2, <2>3
<1>6. Effects(all, ids) = v \o w
  <2> HIDE DEF v, w
  <2> QED
    BY <1>1, <1>2, <1>3, <1>4, <1>5, SeqEqual
<1> QED
  BY <1>2, <1>6, TotalConcat DEF Net, all

\* Only the ids of rows matter to a sum.
LEMMA NetSame ==
  ASSUME NEW rs \in Seq(Row), NEW ids, NEW others,
         \A i \in 1..Len(rs) : i \in ids <=> i \in others
  PROVE  Net(rs, ids) = Net(rs, others)
BY LenProperties DEF Net, Effects

LEMMA NetNothing ==
  ASSUME NEW rs \in Seq(Row), NEW ids, \A i \in 1..Len(rs) : i \notin ids
  PROVE  Net(rs, ids) = 0
BY EffectsSeq, TotalZeros DEF Net

LEMMA NetOne ==
  ASSUME NEW rs \in Seq(Row), NEW k \in 1..Len(rs), NEW ids,
         \A i \in 1..Len(rs) : i \in ids <=> i = k
  PROVE  Net(rs, ids) = Signed(rs[k])
<1> DEFINE v == Effects(rs, ids)
<1>1. v \in Seq(Int) /\ Len(v) = Len(rs)
  BY EffectsSeq
<1>2. \A i \in 1..Len(rs) : v[i] = IF i = k THEN Signed(rs[k]) ELSE 0
  BY EffectsSeq
<1> HIDE DEF v
<1>3. Total(v) = v[k]
  BY <1>1, <1>2, TotalOne
<1> QED
  BY <1>2, <1>3 DEF Net, v

\* A sum over ids in two disjoint parts is the sum of the two.
LEMMA NetSplit ==
  ASSUME NEW rs \in Seq(Row), NEW ids, NEW one, NEW other,
         \A i \in 1..Len(rs) : /\ i \in ids <=> i \in one \/ i \in other
                               /\ ~(i \in one /\ i \in other)
  PROVE  Net(rs, ids) = Net(rs, one) + Net(rs, other)
<1> DEFINE u == Effects(rs, one)
           v == Effects(rs, other)
           w == Effects(rs, ids)
<1>1. /\ u \in Seq(Int) /\ v \in Seq(Int) /\ w \in Seq(Int)
      /\ Len(u) = Len(rs) /\ Len(v) = Len(rs) /\ Len(w) = Len(rs)
  BY EffectsSeq
<1>2. ASSUME NEW n \in 1..Len(rs)
      PROVE  w[n] = u[n] + v[n]
  <2>1. Signed(rs[n]) \in Int
    BY ElementOfSeq, SignedInt
  <2>2. /\ u[n] = IF n \in one THEN Signed(rs[n]) ELSE 0
        /\ v[n] = IF n \in other THEN Signed(rs[n]) ELSE 0
        /\ w[n] = IF n \in ids THEN Signed(rs[n]) ELSE 0
    BY EffectsSeq
  <2> HIDE DEF u, v, w
  <2> QED
    BY <2>1, <2>2
<1> HIDE DEF u, v, w
<1>3. Total(w) = Total(u) + Total(v)
  BY <1>1, <1>2, TotalSum
<1> QED
  BY <1>3 DEF Net, u, v, w

LEMMA NetPair ==
  ASSUME NEW pair \in Seq(Row), Len(pair) = 2, NEW ids
  PROVE  Net(pair, ids) = (IF 1 \in ids THEN Signed(pair[1]) ELSE 0)
                            + (IF 2 \in ids THEN Signed(pair[2]) ELSE 0)
<1> DEFINE v == Effects(pair, ids)
<1>1. /\ v \in Seq(Int) /\ Len(v) = 2
      /\ v[1] = (IF 1 \in ids THEN Signed(pair[1]) ELSE 0)
      /\ v[2] = (IF 2 \in ids THEN Signed(pair[2]) ELSE 0)
  BY EffectsSeq
<1> HIDE DEF v
<1> QED
  BY <1>1, TotalPair DEF Net, v

\* Posting a batch adds the batch's balance of a purpose to the book's.
LEMMA PurposeBalanceConcat ==
  ASSUME NEW rs \in Seq(Row), NEW batch \in Seq(Row), NEW p
  PROVE  PurposeBalance(rs \o batch, p) = PurposeBalance(rs, p) + PurposeBalance(batch, p)
<1>1. /\ Len(rs \o batch) = Len(rs) + Len(batch)
      /\ \A i \in 1..Len(rs) : (rs \o batch)[i] = rs[i]
      /\ \A n \in 1..Len(batch) : (rs \o batch)[Len(rs) + n] = batch[n]
      /\ Len(rs) \in Nat /\ Len(batch) \in Nat
  BY ConcatProperties, LenProperties
<1> DEFINE ids == Tagged(rs \o batch, p)
           mine == Tagged(rs, p)
           theirs == Tagged(batch, p)
<1>2. \A i \in 1..Len(rs) : i \in ids <=> i \in mine
  BY <1>1 DEF Tagged
<1>3. \A n \in 1..Len(batch) : Len(rs) + n \in ids <=> n \in theirs
  BY <1>1 DEF Tagged
<1> HIDE DEF ids, mine, theirs
<1>4. Net(rs \o batch, ids) = Net(rs, mine) + Net(batch, theirs)
  BY <1>2, <1>3, NetConcat
<1> QED
  BY <1>4 DEF PurposeBalance, ids, mine, theirs

LEMMA PurposeBalanceNothing ==
  ASSUME NEW rs \in Seq(Row), NEW p, \A i \in 1..Len(rs) : rs[i].purpose # p
  PROVE  PurposeBalance(rs, p) = 0
BY NetNothing DEF PurposeBalance, Tagged

LEMMA PurposeBalancePair ==
  ASSUME NEW pair \in Seq(Row), Len(pair) = 2, NEW p
  PROVE  PurposeBalance(pair, p) = (IF pair[1].purpose = p THEN Signed(pair[1]) ELSE 0)
                                     + (IF pair[2].purpose = p THEN Signed(pair[2]) ELSE 0)
BY NetPair DEF PurposeBalance, Tagged

\* A sum through a cutoff inside the book is not moved by what is posted after.
LEMMA AccountBalanceThroughConcat ==
  ASSUME NEW rs \in Seq(Row), NEW batch \in Seq(Row), NEW a,
         NEW cutoff \in Nat, cutoff <= Len(rs)
  PROVE  AccountBalanceThrough(rs \o batch, a, cutoff) = AccountBalanceThrough(rs, a, cutoff)
<1>1. /\ Len(rs \o batch) = Len(rs) + Len(batch)
      /\ \A i \in 1..Len(rs) : (rs \o batch)[i] = rs[i]
      /\ Len(rs) \in Nat /\ Len(batch) \in Nat
  BY ConcatProperties, LenProperties
<1> DEFINE ids == Located(rs \o batch, a) \cap 1..cutoff
           mine == Located(rs, a) \cap 1..cutoff
           none == {}
<1>2. \A i \in 1..Len(rs) : i \in ids <=> i \in mine
  BY <1>1 DEF Located
<1>3. \A n \in 1..Len(batch) : Len(rs) + n \in ids <=> n \in none
  BY <1>1
<1>4. \A n \in 1..Len(batch) : n \notin none
  OBVIOUS
<1> HIDE DEF ids, mine, none
<1>5. Net(rs \o batch, ids) = Net(rs, mine) + Net(batch, none)
  BY <1>2, <1>3, NetConcat
<1>6. Net(batch, none) = 0 /\ Net(rs, mine) \in Int
  BY <1>4, NetNothing, NetInt
<1>7. Net(rs \o batch, ids) = Net(rs, mine)
  BY <1>5, <1>6
<1> QED
  BY <1>7 DEF AccountBalanceThrough, ids, mine

\* A sum through the last row is the balance.
LEMMA AccountBalanceThroughAll ==
  ASSUME NEW rs \in Seq(Row), NEW a
  PROVE  AccountBalanceThrough(rs, a, Len(rs)) = AccountBalance(rs, a)
BY NetSame DEF AccountBalanceThrough, AccountBalance

-----------------------------------------------------------------------------
(* Corrections.  Posting a batch leaves what is derived of an old row as it *)
(* was, unless the batch corrects or reverses it.                           *)

\* "all" is the book "rs" with a batch posted to it.
Grown(rs, batch, all) == all = rs \o batch

LEMMA BatchRows ==
  ASSUME NEW rs \in Seq(Row), NEW batch \in Seq(Row), NEW all, Grown(rs, batch, all)
  PROVE  /\ all \in Seq(Row) /\ Len(rs) \in Nat /\ Len(batch) \in Nat
         /\ Len(all) = Len(rs) + Len(batch)
         /\ \A i \in 1..Len(rs) : all[i] = rs[i] /\ i \in 1..Len(all)
         /\ \A n \in 1..Len(batch) :
              /\ all[Len(rs) + n] = batch[n]
              /\ Len(rs) + n \in 1..Len(all) /\ Len(rs) + n \notin 1..Len(rs)
         /\ \A i \in 1..Len(all) :
              i \in 1..Len(rs) \/ \E n \in 1..Len(batch) : i = Len(rs) + n
         /\ \A i \in 1..Len(rs) : rs[i] \in Row
         /\ \A n \in 1..Len(batch) : batch[n] \in Row
<1>1. /\ all \in Seq(Row) /\ Len(all) = Len(rs) + Len(batch)
      /\ \A i \in 1..Len(rs) : all[i] = rs[i]
      /\ \A n \in 1..Len(batch) : all[Len(rs) + n] = batch[n]
      /\ Len(rs) \in Nat /\ Len(batch) \in Nat
  BY ConcatProperties, LenProperties DEF Grown
<1>2. /\ \A i \in 1..Len(rs) : i \in 1..Len(all)
      /\ \A n \in 1..Len(batch) : Len(rs) + n \in 1..Len(all) /\ Len(rs) + n \notin 1..Len(rs)
  BY <1>1
<1>3. ASSUME NEW i \in 1..Len(all), i \notin 1..Len(rs)
      PROVE  \E n \in 1..Len(batch) : i = Len(rs) + n
  <2>1. i - Len(rs) \in 1..Len(batch) /\ i = Len(rs) + (i - Len(rs))
    BY <1>1, <1>3
  <2> QED
    BY <2>1
<1>4. (\A i \in 1..Len(rs) : rs[i] \in Row) /\ (\A n \in 1..Len(batch) : batch[n] \in Row)
  BY ElementOfSeq
<1> QED
  BY <1>1, <1>2, <1>3, <1>4

LEMMA GrownAt ==
  ASSUME NEW rs \in Seq(Row), NEW batch \in Seq(Row), NEW all, Grown(rs, batch, all),
         NEW n \in 1..Len(batch)
  PROVE  all[Len(rs) + n] = batch[n] /\ Len(rs) + n \in 1..Len(all)
BY BatchRows

\* "ids" are, of the book with the batch posted, "mine" of the book's own rows
\* and "theirs" of the batch's.
Splits(rs, batch, ids, mine, theirs) ==
  /\ \A j \in 1..Len(rs) : j \in ids <=> j \in mine
  /\ \A n \in 1..Len(batch) : Len(rs) + n \in ids <=> n \in theirs

\* The rows of a purpose and of a location, once a batch is posted.
LEMMA TaggedGrows ==
  ASSUME NEW rs \in Seq(Row), NEW batch \in Seq(Row), NEW all, Grown(rs, batch, all), NEW p
  PROVE  Splits(rs, batch, Tagged(all, p), Tagged(rs, p), Tagged(batch, p))
<1>1. \A j \in 1..Len(rs) : all[j] = rs[j] /\ j \in 1..Len(all)
  BY BatchRows
<1>2. \A n \in 1..Len(batch) : all[Len(rs) + n] = batch[n] /\ Len(rs) + n \in 1..Len(all)
  BY GrownAt
<1> QED
  BY <1>1, <1>2 DEF Tagged, Splits

LEMMA LocatedGrows ==
  ASSUME NEW rs \in Seq(Row), NEW batch \in Seq(Row), NEW all, Grown(rs, batch, all), NEW a
  PROVE  Splits(rs, batch, Located(all, a), Located(rs, a), Located(batch, a))
<1>1. \A j \in 1..Len(rs) : all[j] = rs[j] /\ j \in 1..Len(all)
  BY BatchRows
<1>2. \A n \in 1..Len(batch) : all[Len(rs) + n] = batch[n] /\ Len(rs) + n \in 1..Len(all)
  BY GrownAt
<1> QED
  BY <1>1, <1>2 DEF Located, Splits

\* The corrections of row i that put its money into p, and those that took it out.
Into(rs, i, p) ==
  {j \in CorrectionLegs(rs, i) : rs[j].purpose = p /\ rs[j].direction = rs[i].direction}
OutOf(rs, i, p) ==
  {j \in CorrectionLegs(rs, i) : rs[j].purpose = p /\ rs[j].direction # rs[i].direction}

LEMMA LegsFinite ==
  ASSUME NEW rs \in Seq(Row), NEW i, NEW p
  PROVE  /\ IsFiniteSet(CorrectionLegs(rs, i))
         /\ IsFiniteSet(Into(rs, i, p)) /\ IsFiniteSet(OutOf(rs, i, p))
         /\ Cardinality(Into(rs, i, p)) \in Nat /\ Cardinality(OutOf(rs, i, p)) \in Nat
<1>1. IsFiniteSet(1..Len(rs))
  BY LenProperties, FS_Interval
<1>2. /\ CorrectionLegs(rs, i) \in SUBSET (1..Len(rs))
      /\ Into(rs, i, p) \in SUBSET (1..Len(rs)) /\ OutOf(rs, i, p) \in SUBSET (1..Len(rs))
  BY DEF CorrectionLegs, Into, OutOf
<1> QED
  BY <1>1, <1>2, FS_Subset, FS_CardinalityType

LEMMA ArrivalsCount ==
  ASSUME NEW rs \in Seq(Row), NEW i, NEW p
  PROVE  Arrivals(rs, i, p) = Cardinality(Into(rs, i, p)) - Cardinality(OutOf(rs, i, p))
                                + (IF rs[i].purpose = p THEN 1 ELSE 0)
<1> DEFINE at == {j \in CorrectionLegs(rs, i) : rs[j].purpose = p}
           into == {j \in at : rs[j].direction = rs[i].direction}
<1>1. into = Into(rs, i, p) /\ at \ into = OutOf(rs, i, p)
  BY DEF Into, OutOf
<1>2. Arrivals(rs, i, p) = Cardinality(into) - Cardinality(at \ into)
                             + (IF rs[i].purpose = p THEN 1 ELSE 0)
  BY DEF Arrivals
<1> HIDE DEF at, into
<1> QED
  BY <1>1, <1>2

\* A row that was never corrected is under the purpose it was posted to.
LEMMA NeverCorrected ==
  ASSUME NEW rs \in Seq(Row), NEW i, CorrectionLegs(rs, i) = {}
  PROVE  /\ EffectivePurpose(rs, i) = rs[i].purpose
         /\ \A p : Arrivals(rs, i, p) = IF rs[i].purpose = p THEN 1 ELSE 0
<1>1. PathEnds(rs, i) = {}
  BY DEF PathEnds
<1>2. ASSUME NEW p
      PROVE  Arrivals(rs, i, p) = IF rs[i].purpose = p THEN 1 ELSE 0
  <2>1. Into(rs, i, p) = {} /\ OutOf(rs, i, p) = {}
    BY DEF Into, OutOf
  <2>2. Cardinality({}) = 0
    BY FS_EmptySet
  <2>3. Arrivals(rs, i, p) = Cardinality(Into(rs, i, p)) - Cardinality(OutOf(rs, i, p))
                               + (IF rs[i].purpose = p THEN 1 ELSE 0)
    BY ArrivalsCount
  <2>4. Arrivals(rs, i, p) = 0 - 0 + (IF rs[i].purpose = p THEN 1 ELSE 0)
    BY <2>1, <2>2, <2>3
  <2> QED
    BY <2>4
<1> QED
  BY <1>1, <1>2 DEF EffectivePurpose

\* What a batch that does not correct row i leaves of the row's corrections.
LEMMA LegsStay ==
  ASSUME NEW rs \in Seq(Row), NEW batch \in Seq(Row), NEW all, Grown(rs, batch, all),
         NEW i \in 1..Len(rs),
         \A n \in 1..Len(batch) : batch[n].corrects # i
  PROVE  /\ CorrectionLegs(all, i) = CorrectionLegs(rs, i)
         /\ \A p : Arrivals(all, i, p) = Arrivals(rs, i, p)
         /\ PathEnds(all, i) = PathEnds(rs, i)
         /\ EffectivePurpose(all, i) = EffectivePurpose(rs, i)
<1>1. /\ \A j \in 1..Len(rs) : all[j] = rs[j] /\ j \in 1..Len(all)
      /\ \A n \in 1..Len(batch) : all[Len(rs) + n] = batch[n]
      /\ \A j \in 1..Len(all) : j \in 1..Len(rs) \/ \E n \in 1..Len(batch) : j = Len(rs) + n
      /\ all \in Seq(Row)
  BY BatchRows
<1>2. CorrectionLegs(all, i) = CorrectionLegs(rs, i)
  BY <1>1 DEF CorrectionLegs
<1>3. \A j \in CorrectionLegs(rs, i) : all[j] = rs[j]
  BY <1>1 DEF CorrectionLegs
<1>4. all[i] = rs[i]
  BY <1>1
<1>5. ASSUME NEW p
      PROVE  Arrivals(all, i, p) = Arrivals(rs, i, p)
  <2>1. Into(all, i, p) = Into(rs, i, p) /\ OutOf(all, i, p) = OutOf(rs, i, p)
    BY <1>2, <1>3, <1>4 DEF Into, OutOf
  <2> QED
    BY <1>1, <1>4, <2>1, ArrivalsCount
<1>6. PathEnds(all, i) = PathEnds(rs, i)
  <2>1. {all[j].purpose : j \in CorrectionLegs(all, i)}
          = {rs[j].purpose : j \in CorrectionLegs(rs, i)}
    BY <1>2, <1>3
  <2> QED
    BY <2>1, <1>5 DEF PathEnds
<1>7. EffectivePurpose(all, i) = EffectivePurpose(rs, i)
  BY <1>4, <1>6 DEF EffectivePurpose
<1> QED
  BY <1>2, <1>5, <1>6, <1>7

\* What the two legs of one correction add to row i's corrections: leg m puts
\* the money into "target", leg o takes it out of "was".
LEMMA LegsGrow ==
  ASSUME NEW rs \in Seq(Row), NEW batch \in Seq(Row), NEW all, Grown(rs, batch, all),
         NEW i \in 1..Len(rs),
         NEW m \in 1..2, NEW o \in 1..2, m # o, Len(batch) = 2, NEW was, NEW target,
         batch[1].corrects = i, batch[2].corrects = i,
         batch[m].purpose = target, batch[m].direction = rs[i].direction,
         batch[o].purpose = was, batch[o].direction # rs[i].direction
  PROVE  /\ CorrectionLegs(all, i)
              = CorrectionLegs(rs, i) \cup {Len(rs) + m, Len(rs) + o}
         /\ \A p : Arrivals(all, i, p)
                     = Arrivals(rs, i, p) + (IF p = target THEN 1 ELSE 0)
                                          - (IF p = was THEN 1 ELSE 0)
<1> DEFINE x == Len(rs) + m
           y == Len(rs) + o
<1>1. /\ \A j \in 1..Len(rs) : all[j] = rs[j] /\ j \in 1..Len(all)
      /\ \A n \in 1..Len(batch) :
           /\ all[Len(rs) + n] = batch[n]
           /\ Len(rs) + n \in 1..Len(all) /\ Len(rs) + n \notin 1..Len(rs)
      /\ \A j \in 1..Len(all) : j \in 1..Len(rs) \/ \E n \in 1..Len(batch) : j = Len(rs) + n
      /\ all \in Seq(Row) /\ Len(rs) \in Nat
  BY BatchRows
<1>2. \A n \in 1..2 : n = m \/ n = o
  OBVIOUS
<1>3. /\ all[x] = batch[m] /\ x \in 1..Len(all) /\ x \notin 1..Len(rs)
      /\ all[y] = batch[o] /\ y \in 1..Len(all) /\ y \notin 1..Len(rs)
      /\ \A j \in 1..Len(all) : j \in 1..Len(rs) \/ j = x \/ j = y
      /\ batch[m].corrects = i /\ batch[o].corrects = i
  <2>1. m \in 1..Len(batch) /\ o \in 1..Len(batch) /\ \A n \in 1..Len(batch) : n = m \/ n = o
    BY <1>2
  <2>2. \A n \in 1..2 : n = 1 \/ n = 2
    OBVIOUS
  <2> QED
    BY <1>1, <1>2, <2>1, <2>2
<1> HIDE DEF x, y
<1>4. CorrectionLegs(all, i) = CorrectionLegs(rs, i) \cup {x, y}
  <2>1. \A j \in 1..Len(rs) : j \in CorrectionLegs(all, i) <=> j \in CorrectionLegs(rs, i)
    BY <1>1 DEF CorrectionLegs
  <2>2. x \in CorrectionLegs(all, i) /\ y \in CorrectionLegs(all, i)
    BY <1>3 DEF CorrectionLegs
  <2>3. /\ CorrectionLegs(all, i) \subseteq 1..Len(all)
        /\ CorrectionLegs(rs, i) \subseteq 1..Len(rs)
    BY DEF CorrectionLegs
  <2> QED
    BY <1>3, <2>1, <2>2, <2>3
<1>5. \A j \in CorrectionLegs(rs, i) : all[j] = rs[j] /\ j \in 1..Len(rs)
  BY <1>1 DEF CorrectionLegs
<1>6. all[i] = rs[i]
  BY <1>1
<1>7. ASSUME NEW p
      PROVE  Arrivals(all, i, p) = Arrivals(rs, i, p) + (IF p = target THEN 1 ELSE 0)
                                                      - (IF p = was THEN 1 ELSE 0)
  <2>1. Into(all, i, p) = IF p = target THEN Into(rs, i, p) \cup {x} ELSE Into(rs, i, p)
    BY <1>3, <1>4, <1>5, <1>6 DEF Into
  <2>2. OutOf(all, i, p) = IF p = was THEN OutOf(rs, i, p) \cup {y} ELSE OutOf(rs, i, p)
    BY <1>3, <1>4, <1>5, <1>6 DEF OutOf
  <2>3. x \notin Into(rs, i, p) /\ y \notin OutOf(rs, i, p)
    BY <1>3, <1>5 DEF Into, OutOf
  <2>5. /\ Cardinality(Into(rs, i, p)) \in Nat /\ Cardinality(OutOf(rs, i, p)) \in Nat
        /\ Cardinality(Into(rs, i, p) \cup {x}) = Cardinality(Into(rs, i, p)) + 1
        /\ Cardinality(OutOf(rs, i, p) \cup {y}) = Cardinality(OutOf(rs, i, p)) + 1
    BY <2>3, LegsFinite, FS_AddElement
  <2>4. /\ Cardinality(Into(all, i, p))
             = Cardinality(Into(rs, i, p)) + (IF p = target THEN 1 ELSE 0)
        /\ Cardinality(OutOf(all, i, p))
             = Cardinality(OutOf(rs, i, p)) + (IF p = was THEN 1 ELSE 0)
    <3>1. CASE p = target
      <4>1. CASE p = was
        BY <2>1, <2>2, <2>5, <3>1, <4>1
      <4>2. CASE p # was
        BY <2>1, <2>2, <2>5, <3>1, <4>2
      <4> QED
        BY <4>1, <4>2
    <3>2. CASE p # target
      <4>1. CASE p = was
        BY <2>1, <2>2, <2>5, <3>2, <4>1
      <4>2. CASE p # was
        BY <2>1, <2>2, <2>5, <3>2, <4>2
      <4> QED
        BY <4>1, <4>2
    <3> QED
      BY <3>1, <3>2
  <2>6. Arrivals(rs, i, p) = Cardinality(Into(rs, i, p)) - Cardinality(OutOf(rs, i, p))
                               + (IF rs[i].purpose = p THEN 1 ELSE 0)
    BY ArrivalsCount
  <2>7. Arrivals(all, i, p) = Cardinality(Into(all, i, p)) - Cardinality(OutOf(all, i, p))
                                + (IF rs[i].purpose = p THEN 1 ELSE 0)
    BY <1>1, <1>6, ArrivalsCount
  <2> DEFINE into == Cardinality(Into(rs, i, p))
             outOf == Cardinality(OutOf(rs, i, p))
             own == IF rs[i].purpose = p THEN 1 ELSE 0
             more == IF p = target THEN 1 ELSE 0
             less == IF p = was THEN 1 ELSE 0
  <2>8. own \in Int /\ more \in Int /\ less \in Int /\ into \in Int /\ outOf \in Int
    BY <2>5
  <2>9. Arrivals(all, i, p) = (into + more) - (outOf + less) + own
    BY <2>4, <2>7
  <2>10. Arrivals(rs, i, p) = into - outOf + own
    BY <2>6
  <2> HIDE DEF into, outOf, own, more, less
  <2>11. Arrivals(all, i, p) = Arrivals(rs, i, p) + more - less
    BY <2>8, <2>9, <2>10
  <2> QED
    BY <2>11 DEF more, less
<1> QED
  BY <1>4, <1>7 DEF x, y

\* Row i's corrections form one path: its money arrived once more than it left
\* at the purpose it is under now and nowhere else, and the last correction is
\* what brought it there.
OnePath(rs, i) ==
  LET legs == CorrectionLegs(rs, i)
      now == EffectivePurpose(rs, i)
      last == {j \in legs : rs[j].direction = rs[i].direction
                 /\ \A k \in legs : rs[k].direction = rs[i].direction => k <= j}
  IN  /\ \A p \in Purpose : Arrivals(rs, i, p) = IF p = now THEN 1 ELSE 0
      /\ legs # {} => \E j \in last : now = rs[j].purpose

LEMMA NoCorrectionOnePath ==
  ASSUME NEW rs \in Seq(Row), NEW i, CorrectionLegs(rs, i) = {}
  PROVE  OnePath(rs, i)
BY NeverCorrected DEF OnePath

\* A path has at most one end.
LEMMA OnePathOneEnd ==
  ASSUME NEW rs \in Seq(Row), NEW i, OnePath(rs, i)
  PROVE  Cardinality(PathEnds(rs, i)) <= 1
<1> DEFINE now == EffectivePurpose(rs, i)
<1>1. \A p \in PathEnds(rs, i) : p \in Purpose /\ Arrivals(rs, i, p) = 1
  <2>1. \A j \in 1..Len(rs) : rs[j] \in Row
    BY ElementOfSeq
  <2> QED
    BY <2>1 DEF PathEnds, CorrectionLegs, Row
<1>2. \A p \in PathEnds(rs, i) : p = now
  BY <1>1 DEF OnePath
<1>3. PathEnds(rs, i) \in SUBSET {now}
  BY <1>2
<1>4. IsFiniteSet({now}) /\ Cardinality({now}) = 1
  BY FS_Singleton
<1> HIDE DEF now
<1>5. Cardinality(PathEnds(rs, i)) <= Cardinality({now})
  BY <1>3, <1>4, FS_Subset
<1> QED
  BY <1>4, <1>5

LEMMA OnePathStays ==
  ASSUME NEW rs \in Seq(Row), NEW batch \in Seq(Row), NEW all, Grown(rs, batch, all),
         NEW i \in 1..Len(rs),
         \A n \in 1..Len(batch) : batch[n].corrects # i, OnePath(rs, i)
  PROVE  OnePath(all, i)
<1>1. /\ CorrectionLegs(all, i) = CorrectionLegs(rs, i)
      /\ \A p : Arrivals(all, i, p) = Arrivals(rs, i, p)
      /\ EffectivePurpose(all, i) = EffectivePurpose(rs, i)
  BY LegsStay
<1>2. \A j \in 1..Len(rs) : all[j] = rs[j]
  BY BatchRows
<1>3. \A j \in CorrectionLegs(rs, i) : j \in 1..Len(rs)
  BY DEF CorrectionLegs
<1>4. /\ \A j \in CorrectionLegs(rs, i) : all[j] = rs[j]
      /\ all[i] = rs[i]
      /\ CorrectionLegs(all, i) = CorrectionLegs(rs, i)
      /\ \A p : Arrivals(all, i, p) = Arrivals(rs, i, p)
      /\ EffectivePurpose(all, i) = EffectivePurpose(rs, i)
  BY <1>1, <1>2, <1>3
<1> QED
  BY <1>4 DEF OnePath

\* A correction from the purpose the row is under lengthens the path to its target.
LEMMA OnePathGrows ==
  ASSUME NEW rs \in Seq(Row), NEW batch \in Seq(Row), NEW all, Grown(rs, batch, all),
         NEW i \in 1..Len(rs),
         NEW m \in 1..2, NEW o \in 1..2, m # o, Len(batch) = 2,
         NEW was, NEW target \in Purpose,
         batch[1].corrects = i, batch[2].corrects = i,
         batch[m].purpose = target, batch[m].direction = rs[i].direction,
         batch[o].purpose = was, batch[o].direction # rs[i].direction,
         OnePath(rs, i), was = EffectivePurpose(rs, i), target # was
  PROVE  /\ OnePath(all, i)
         /\ EffectivePurpose(all, i) = target
<1> DEFINE x == Len(rs) + m
           y == Len(rs) + o
<1>a. CorrectionLegs(all, i) = CorrectionLegs(rs, i) \cup {Len(rs) + m, Len(rs) + o}
  BY LegsGrow
<1>b. \A p : Arrivals(all, i, p) = Arrivals(rs, i, p) + (IF p = target THEN 1 ELSE 0)
                                                    - (IF p = was THEN 1 ELSE 0)
  BY LegsGrow
<1>1. /\ CorrectionLegs(all, i) = CorrectionLegs(rs, i) \cup {x, y}
      /\ \A p : Arrivals(all, i, p) = Arrivals(rs, i, p) + (IF p = target THEN 1 ELSE 0)
                                                         - (IF p = was THEN 1 ELSE 0)
  BY <1>a, <1>b
<1>2. m \in 1..Len(batch) /\ o \in 1..Len(batch)
  OBVIOUS
<1>3. /\ all[x] = batch[m] /\ all[y] = batch[o]
      /\ \A j \in 1..Len(rs) : all[j] = rs[j] /\ j < x
      /\ all \in Seq(Row) /\ Len(rs) \in Nat
      /\ x \in 1..Len(all) /\ y \in 1..Len(all) /\ x \in Nat
  <2>1. all \in Seq(Row) /\ Len(rs) \in Nat
    BY BatchRows
  <2>2. \A j \in 1..Len(rs) : all[j] = rs[j]
    BY BatchRows
  <2>3. x \in Nat /\ \A j \in 1..Len(rs) : j < x
    BY <2>1
  <2>4. all[x] = batch[m] /\ x \in 1..Len(all)
    BY <1>2, GrownAt
  <2>5. all[y] = batch[o] /\ y \in 1..Len(all)
    BY <1>2, GrownAt
  <2> QED
    BY <2>1, <2>2, <2>3, <2>4, <2>5
<1> HIDE DEF x, y
<1>4. \A p \in Purpose : Arrivals(all, i, p) = IF p = target THEN 1 ELSE 0
  <2>1. \A p \in Purpose : Arrivals(rs, i, p) = IF p = was THEN 1 ELSE 0
    BY DEF OnePath
  <2> QED
    BY <1>1, <2>1
<1>5. PathEnds(all, i) = {target}
  <2>1. \A j \in CorrectionLegs(all, i) : all[j].purpose \in Purpose
    <3>1. \A j \in 1..Len(all) : all[j] \in Row
      BY <1>3, ElementOfSeq
    <3> QED
      BY <3>1 DEF CorrectionLegs, Row
  <2>2. target \in {all[j].purpose : j \in CorrectionLegs(all, i)}
    BY <1>1, <1>3
  <2> QED
    BY <1>4, <2>1, <2>2 DEF PathEnds
<1>6. EffectivePurpose(all, i) = target
  BY <1>5 DEF EffectivePurpose
<1>7. /\ x \in CorrectionLegs(all, i) /\ all[x].direction = all[i].direction
      /\ all[x].purpose = target
      /\ \A k \in CorrectionLegs(all, i) : all[k].direction = all[i].direction => k <= x
  <2>1. all[i] = rs[i]
    BY <1>3
  <2>2. \A k \in CorrectionLegs(rs, i) : k < x /\ k \in Nat
    BY <1>3 DEF CorrectionLegs
  <2>3. \A k \in CorrectionLegs(all, i) : k \in CorrectionLegs(rs, i) \/ k = x \/ k = y
    BY <1>1
  <2>4. x <= x /\ \A k \in CorrectionLegs(rs, i) : k <= x
    BY <1>3, <2>2
  <2> QED
    BY <1>1, <1>3, <2>1, <2>3, <2>4
<1>8. OnePath(all, i)
  BY <1>4, <1>6, <1>7 DEF OnePath
<1> QED
  BY <1>6, <1>8

-----------------------------------------------------------------------------
(* What became of a row: itself, its corrections and its reversal.          *)

Outcome(rs, i) ==
  {i} \cup CorrectionLegs(rs, i) \cup {j \in 1..Len(rs) : rs[j].reverses = i}

\* What a row still puts where its money is: nothing once it is undone.
Standing(rs, i) == IF Reversed(rs, i) THEN 0 ELSE Signed(rs[i])

\* A row is undone by at most one row, and what became of it adds up, in every
\* purpose and in every location, to what the row stands for and no more.
Squared(rs, i) ==
  /\ \A j, k \in 1..Len(rs) : rs[j].reverses = i /\ rs[k].reverses = i => j = k
  /\ \A p \in Purpose : Net(rs, Outcome(rs, i) \cap Tagged(rs, p))
                          = IF p = EffectivePurpose(rs, i) THEN Standing(rs, i) ELSE 0
  /\ \A a \in Account : Net(rs, Outcome(rs, i) \cap Located(rs, a))
                          = IF a = rs[i].account THEN Standing(rs, i) ELSE 0

\* The rows of a batch that correct or undo row i.
Aimed(batch, i) ==
  {n \in 1..Len(batch) : batch[n].corrects = i \/ batch[n].reverses = i}

LEMMA OutcomeGrows ==
  ASSUME NEW rs \in Seq(Row), NEW batch \in Seq(Row), NEW all, Grown(rs, batch, all),
         NEW i \in 1..Len(rs), NEW ids, NEW mine, NEW theirs,
         Splits(rs, batch, ids, mine, theirs)
  PROVE  Net(all, Outcome(all, i) \cap ids)
           = Net(rs, Outcome(rs, i) \cap mine) + Net(batch, Aimed(batch, i) \cap theirs)
<1> DEFINE whole == Outcome(all, i) \cap ids
           old == Outcome(rs, i) \cap mine
           new == Aimed(batch, i) \cap theirs
<1>1. \A j \in 1..Len(rs) : all[j] = rs[j] /\ j \in 1..Len(all)
  BY BatchRows
<1>2. \A n \in 1..Len(batch) : /\ all[Len(rs) + n] = batch[n]
                               /\ Len(rs) + n \in 1..Len(all)
  BY GrownAt
<1>3. \A n \in 1..Len(batch) : Len(rs) + n # i
  BY BatchRows
<1>4. \A j \in 1..Len(rs) : j \in whole <=> j \in old
  BY <1>1 DEF Outcome, CorrectionLegs, Splits
<1>5. ASSUME NEW n \in 1..Len(batch)
      PROVE  Len(rs) + n \in whole <=> n \in new
  <2>1. /\ all[Len(rs) + n] = batch[n] /\ Len(rs) + n \in 1..Len(all)
        /\ Len(rs) + n # i /\ (Len(rs) + n \in ids <=> n \in theirs)
    BY <1>2, <1>3 DEF Splits
  <2> DEFINE j == Len(rs) + n
  <2> HIDE DEF j
  <2>2. /\ all[j] = batch[n] /\ j \in 1..Len(all) /\ j # i /\ (j \in ids <=> n \in theirs)
    BY <2>1 DEF j
  <2>3. j \in whole <=> n \in new
    BY <2>2 DEF Outcome, CorrectionLegs, Aimed
  <2> QED
    BY <2>3 DEF j
<1> HIDE DEF whole, old, new
<1>6. Net(rs \o batch, whole) = Net(rs, old) + Net(batch, new)
  BY <1>4, <1>5, NetConcat
<1>7. all = rs \o batch
  BY DEF Grown
<1>8. Net(all, whole) = Net(rs, old) + Net(batch, new)
  BY <1>6, <1>7, Zenon
<1> QED
  BY <1>8 DEF whole, old, new

\* A row a batch does not reach stands as it stood.
LEMMA SquaredStays ==
  ASSUME NEW rs \in Seq(Row), NEW batch \in Seq(Row), NEW all, Grown(rs, batch, all),
         NEW i \in 1..Len(rs), Squared(rs, i),
         \A n \in 1..Len(batch) : batch[n].corrects # i /\ batch[n].reverses # i
  PROVE  Squared(all, i)
<1>1. EffectivePurpose(all, i) = EffectivePurpose(rs, i)
  BY LegsStay
<1>2. all[i] = rs[i]
  BY BatchRows
<1>3. \A j \in 1..Len(all) : all[j].reverses = i => j \in 1..Len(rs) /\ all[j] = rs[j]
  <2> SUFFICES ASSUME NEW j \in 1..Len(all), all[j].reverses = i
               PROVE  j \in 1..Len(rs) /\ all[j] = rs[j]
    OBVIOUS
  <2>1. j \in 1..Len(rs)
    <3> SUFFICES ASSUME j \notin 1..Len(rs) PROVE FALSE
      OBVIOUS
    <3>1. PICK n \in 1..Len(batch) : j = Len(rs) + n
      BY BatchRows
    <3>2. all[j] = batch[n]
      BY <3>1, GrownAt
    <3> QED
      BY <3>2
  <2> QED
    BY <2>1, BatchRows
<1>4. Reversed(all, i) <=> Reversed(rs, i)
  <2>1. Reversed(rs, i) => Reversed(all, i)
    <3>1. \A j \in 1..Len(rs) : all[j] = rs[j] /\ j \in 1..Len(all)
      BY BatchRows
    <3> QED
      BY <3>1 DEF Reversed
  <2> QED
    BY <1>3, <2>1 DEF Reversed
<1>5. Standing(all, i) = Standing(rs, i)
  BY <1>2, <1>4 DEF Standing
<1>6. \A j, k \in 1..Len(all) : all[j].reverses = i /\ all[k].reverses = i => j = k
  BY <1>3 DEF Squared
<1>7. ASSUME NEW ids, NEW mine, NEW theirs, Splits(rs, batch, ids, mine, theirs)
      PROVE  Net(all, Outcome(all, i) \cap ids) = Net(rs, Outcome(rs, i) \cap mine)
  <2>1. Net(all, Outcome(all, i) \cap ids)
          = Net(rs, Outcome(rs, i) \cap mine) + Net(batch, Aimed(batch, i) \cap theirs)
    BY <1>7, OutcomeGrows
  <2>2. Net(batch, Aimed(batch, i) \cap theirs) = 0
    BY NetNothing DEF Aimed
  <2>3. Net(rs, Outcome(rs, i) \cap mine) \in Int
    BY NetInt
  <2> QED
    BY <2>1, <2>2, <2>3
<1>8. ASSUME NEW p \in Purpose
      PROVE  Net(all, Outcome(all, i) \cap Tagged(all, p))
               = IF p = EffectivePurpose(all, i) THEN Standing(all, i) ELSE 0
  <2>1. Net(all, Outcome(all, i) \cap Tagged(all, p)) = Net(rs, Outcome(rs, i) \cap Tagged(rs, p))
    BY <1>7, TaggedGrows
  <2> QED
    BY <1>1, <1>5, <2>1 DEF Squared
<1>9. ASSUME NEW a \in Account
      PROVE  Net(all, Outcome(all, i) \cap Located(all, a))
               = IF a = all[i].account THEN Standing(all, i) ELSE 0
  <2>1. Net(all, Outcome(all, i) \cap Located(all, a)) = Net(rs, Outcome(rs, i) \cap Located(rs, a))
    BY <1>7, LocatedGrows
  <2> QED
    BY <1>2, <1>5, <2>1 DEF Squared
<1> QED
  BY <1>6, <1>8, <1>9 DEF Squared

\* A row nothing points at is all that became of it.
LEMMA NewSquared ==
  ASSUME NEW rs \in Seq(Row), NEW i \in 1..Len(rs),
         CorrectionLegs(rs, i) = {}, ~Reversed(rs, i)
  PROVE  Squared(rs, i)
<1>1. Outcome(rs, i) = {i} /\ Standing(rs, i) = Signed(rs[i])
  BY DEF Outcome, Standing, Reversed
<1>2. EffectivePurpose(rs, i) = rs[i].purpose
  BY NeverCorrected
<1>3. ASSUME NEW ids
      PROVE  Net(rs, {i} \cap ids) = IF i \in ids THEN Signed(rs[i]) ELSE 0
  <2>1. CASE i \in ids
    BY <2>1, NetOne
  <2>2. CASE i \notin ids
    BY <2>2, NetNothing
  <2> QED
    BY <2>1, <2>2
<1>4. \A p \in Purpose : Net(rs, Outcome(rs, i) \cap Tagged(rs, p))
                           = IF p = EffectivePurpose(rs, i) THEN Standing(rs, i) ELSE 0
  BY <1>1, <1>2, <1>3 DEF Tagged
<1>5. \A a \in Account : Net(rs, Outcome(rs, i) \cap Located(rs, a))
                           = IF a = rs[i].account THEN Standing(rs, i) ELSE 0
  BY <1>1, <1>3 DEF Located
<1> QED
  BY <1>4, <1>5 DEF Squared, Reversed

\* The batch is the two legs of a correction of row i: leg m goes the row's own
\* way, leg o the other.
Amends(rs, i, batch, m, o) ==
  /\ Len(batch) = 2 /\ m \in 1..2 /\ o \in 1..2 /\ m # o
  /\ \A n \in 1..2 : /\ batch[n].corrects = i /\ batch[n].reverses # i
                     /\ batch[n].account = rs[i].account /\ batch[n].amount = rs[i].amount
  /\ batch[m].direction = rs[i].direction /\ batch[o].direction # rs[i].direction

\* Row k of the batch, and no other, undoes row i.
Undoing(rs, i, batch, k) ==
  /\ k \in 1..Len(batch)
  /\ \A n \in 1..Len(batch) : batch[n].corrects # i /\ (batch[n].reverses = i <=> n = k)
  /\ batch[k].purpose = EffectivePurpose(rs, i)
  /\ batch[k].account = rs[i].account /\ batch[k].amount = rs[i].amount
  /\ batch[k].direction # rs[i].direction

\* The signs of a row's legs and of its reversal.
LEMMA Signs ==
  ASSUME NEW one \in Row, NEW other \in Row, one.amount = other.amount
  PROVE  /\ one.direction = other.direction => Signed(one) = Signed(other)
         /\ one.direction # other.direction => Signed(one) = -Signed(other)
BY CeilingAssumption DEF Row, Direction, Signed

LEMMA AmendsShare ==
  ASSUME NEW rs \in Seq(Row), NEW batch \in Seq(Row), NEW i \in 1..Len(rs),
         NEW m, NEW o, Amends(rs, i, batch, m, o), NEW theirs
  PROVE  Net(batch, Aimed(batch, i) \cap theirs)
           = (IF m \in theirs THEN Signed(rs[i]) ELSE 0)
               - (IF o \in theirs THEN Signed(rs[i]) ELSE 0)
<1> DEFINE ids == Aimed(batch, i) \cap theirs
           s == Signed(rs[i])
<1>1. /\ Len(batch) = 2 /\ m \in 1..2 /\ o \in 1..2 /\ m # o
      /\ \A n \in 1..2 : n = m \/ n = o
  BY DEF Amends
<1>2. rs[i] \in Row /\ batch[1] \in Row /\ batch[2] \in Row
  <2>1. 1 \in 1..Len(batch) /\ 2 \in 1..Len(batch)
    BY <1>1
  <2> QED
    BY <2>1, ElementOfSeq
<1>3. batch[m] \in Row /\ batch[o] \in Row
  BY <1>1, <1>2
<1>4. Signed(batch[m]) = s /\ Signed(batch[o]) = -s /\ s \in Int
  <2>1. s \in Int
    BY <1>2, SignedInt
  <2>2. /\ batch[m].amount = rs[i].amount /\ batch[o].amount = rs[i].amount
        /\ batch[m].direction = rs[i].direction /\ batch[o].direction # rs[i].direction
    BY DEF Amends
  <2>3. Signed(batch[m]) = Signed(rs[i])
    BY <1>2, <1>3, <2>2, Signs
  <2>4. Signed(batch[o]) = -Signed(rs[i])
    BY <1>2, <1>3, <2>2, Signs
  <2> QED
    BY <2>1, <2>3, <2>4
<1>5. Net(batch, ids) = (IF 1 \in ids THEN Signed(batch[1]) ELSE 0)
                          + (IF 2 \in ids THEN Signed(batch[2]) ELSE 0)
  BY <1>1, NetPair
<1>6. \A n \in 1..2 : n \in ids <=> n \in theirs
  BY <1>1 DEF Aimed, Amends
<1> HIDE DEF ids, s
<1>7. Net(batch, ids) = (IF m \in theirs THEN s ELSE 0) - (IF o \in theirs THEN s ELSE 0)
  <2>1. CASE m = 1
    <3>1. o = 2
      BY <1>1, <2>1
    <3> QED
      BY <1>4, <1>5, <1>6, <2>1, <3>1
  <2>2. CASE m = 2
    <3>1. o = 1
      BY <1>1, <2>2
    <3> QED
      BY <1>4, <1>5, <1>6, <2>2, <3>1
  <2> QED
    BY <1>1, <2>1, <2>2
<1> QED
  BY <1>7 DEF ids, s

\* A correction moves all that a row stands for to its target.
LEMMA SquaredCorrected ==
  ASSUME NEW rs \in Seq(Row), NEW batch \in Seq(Row), NEW all, Grown(rs, batch, all),
         NEW i \in 1..Len(rs), Squared(rs, i), ~Reversed(rs, i),
         NEW m, NEW o, Amends(rs, i, batch, m, o),
         batch[m].purpose = EffectivePurpose(all, i),
         batch[o].purpose = EffectivePurpose(rs, i)
  PROVE  Squared(all, i)
<1> DEFINE s == Signed(rs[i])
<1>1. all[i] = rs[i]
  BY BatchRows
<1>2. \A j \in 1..Len(all) : all[j].reverses # i
  <2> SUFFICES ASSUME NEW j \in 1..Len(all) PROVE all[j].reverses # i
    OBVIOUS
  <2>1. CASE j \in 1..Len(rs)
    <3>1. all[j] = rs[j]
      BY <2>1, BatchRows
    <3> QED
      BY <2>1, <3>1 DEF Reversed
  <2>2. CASE j \notin 1..Len(rs)
    <3>1. PICK n \in 1..Len(batch) : j = Len(rs) + n
      BY <2>2, BatchRows
    <3>2. all[j] = batch[n]
      BY <3>1, GrownAt
    <3> QED
      BY <3>2 DEF Amends
  <2> QED
    BY <2>1, <2>2
<1>3. Standing(all, i) = s /\ Standing(rs, i) = s /\ s \in Int
  <2>1. s \in Int
    BY ElementOfSeq, SignedInt
  <2> QED
    BY <1>1, <1>2, <2>1 DEF Standing, Reversed
<1> HIDE DEF s
<1>4. ASSUME NEW ids, NEW mine, NEW theirs, Splits(rs, batch, ids, mine, theirs)
      PROVE  Net(all, Outcome(all, i) \cap ids)
               = Net(rs, Outcome(rs, i) \cap mine)
                   + ((IF m \in theirs THEN s ELSE 0) - (IF o \in theirs THEN s ELSE 0))
  <2>1. Net(all, Outcome(all, i) \cap ids)
          = Net(rs, Outcome(rs, i) \cap mine) + Net(batch, Aimed(batch, i) \cap theirs)
    BY <1>4, OutcomeGrows
  <2>2. Net(batch, Aimed(batch, i) \cap theirs)
          = (IF m \in theirs THEN s ELSE 0) - (IF o \in theirs THEN s ELSE 0)
    BY AmendsShare DEF s
  <2> QED
    BY <2>1, <2>2
<1>5. m \in 1..Len(batch) /\ o \in 1..Len(batch)
  BY DEF Amends
<1>6. ASSUME NEW p \in Purpose
      PROVE  Net(all, Outcome(all, i) \cap Tagged(all, p))
               = IF p = EffectivePurpose(all, i) THEN Standing(all, i) ELSE 0
  <2>1. Net(all, Outcome(all, i) \cap Tagged(all, p))
          = Net(rs, Outcome(rs, i) \cap Tagged(rs, p))
              + ((IF m \in Tagged(batch, p) THEN s ELSE 0)
                   - (IF o \in Tagged(batch, p) THEN s ELSE 0))
    BY <1>4, TaggedGrows
  <2>2. /\ m \in Tagged(batch, p) <=> p = EffectivePurpose(all, i)
        /\ o \in Tagged(batch, p) <=> p = EffectivePurpose(rs, i)
    BY <1>5 DEF Tagged
  <2>3. Net(rs, Outcome(rs, i) \cap Tagged(rs, p)) = IF p = EffectivePurpose(rs, i) THEN s ELSE 0
    BY <1>3 DEF Squared
  <2>4. CASE p = EffectivePurpose(rs, i)
    BY <1>3, <2>1, <2>2, <2>3, <2>4
  <2>5. CASE p # EffectivePurpose(rs, i)
    BY <1>3, <2>1, <2>2, <2>3, <2>5
  <2> QED
    BY <2>4, <2>5
<1>7. ASSUME NEW a \in Account
      PROVE  Net(all, Outcome(all, i) \cap Located(all, a))
               = IF a = all[i].account THEN Standing(all, i) ELSE 0
  <2>1. Net(all, Outcome(all, i) \cap Located(all, a))
          = Net(rs, Outcome(rs, i) \cap Located(rs, a))
              + ((IF m \in Located(batch, a) THEN s ELSE 0)
                   - (IF o \in Located(batch, a) THEN s ELSE 0))
    BY <1>4, LocatedGrows
  <2>2. m \in Located(batch, a) <=> o \in Located(batch, a)
    BY <1>5 DEF Located, Amends
  <2>3. Net(rs, Outcome(rs, i) \cap Located(rs, a)) = IF a = rs[i].account THEN s ELSE 0
    BY <1>3 DEF Squared
  <2>4. CASE m \in Located(batch, a)
    BY <1>1, <1>3, <2>1, <2>2, <2>3, <2>4
  <2>5. CASE m \notin Located(batch, a)
    BY <1>1, <1>3, <2>1, <2>2, <2>3, <2>5
  <2> QED
    BY <2>4, <2>5
<1> QED
  BY <1>2, <1>6, <1>7 DEF Squared

\* A reversal leaves nothing of what a row stood for.
LEMMA SquaredUndone ==
  ASSUME NEW rs \in Seq(Row), NEW batch \in Seq(Row), NEW all, Grown(rs, batch, all),
         NEW i \in 1..Len(rs), Squared(rs, i), ~Reversed(rs, i),
         NEW k, Undoing(rs, i, batch, k)
  PROVE  Squared(all, i)
<1> DEFINE s == Signed(rs[i])
           x == Len(rs) + k
<1>1. all[i] = rs[i]
  BY BatchRows
<1>2. EffectivePurpose(all, i) = EffectivePurpose(rs, i)
  <2>1. \A n \in 1..Len(batch) : batch[n].corrects # i
    BY DEF Undoing
  <2> QED
    BY <2>1, LegsStay
<1>3. k \in 1..Len(batch) /\ all[x] = batch[k] /\ x \in 1..Len(all)
  <2>1. k \in 1..Len(batch)
    BY DEF Undoing
  <2> QED
    BY <2>1, GrownAt
<1>4. \A j \in 1..Len(all) : all[j].reverses = i => j = x
  <2> SUFFICES ASSUME NEW j \in 1..Len(all), all[j].reverses = i PROVE j = x
    OBVIOUS
  <2>1. CASE j \in 1..Len(rs)
    <3>1. all[j] = rs[j]
      BY <2>1, BatchRows
    <3> QED
      BY <2>1, <3>1 DEF Reversed
  <2>2. CASE j \notin 1..Len(rs)
    <3>1. PICK n \in 1..Len(batch) : j = Len(rs) + n
      BY <2>2, BatchRows
    <3>2. all[j] = batch[n]
      BY <3>1, GrownAt
    <3>3. n = k
      BY <3>2 DEF Undoing
    <3> QED
      BY <3>1, <3>3
  <2> QED
    BY <2>1, <2>2
<1>5. Standing(all, i) = 0 /\ Standing(rs, i) = s
  <2>1. all[x].reverses = i
    BY <1>3 DEF Undoing
  <2> HIDE DEF x
  <2>2. Reversed(all, i)
    BY <1>3, <2>1 DEF Reversed
  <2> QED
    BY <2>2 DEF Standing
<1>6. s \in Int /\ Signed(batch[k]) = -s
  <2>1. rs[i] \in Row /\ batch[k] \in Row
    BY <1>3, ElementOfSeq
  <2>2. batch[k].amount = rs[i].amount /\ batch[k].direction # rs[i].direction
    BY DEF Undoing
  <2> QED
    BY <2>1, <2>2, Signs, SignedInt
<1> HIDE DEF s, x
<1>7. ASSUME NEW ids, NEW mine, NEW theirs, Splits(rs, batch, ids, mine, theirs)
      PROVE  Net(all, Outcome(all, i) \cap ids)
               = Net(rs, Outcome(rs, i) \cap mine) + (IF k \in theirs THEN -s ELSE 0)
  <2>1. Net(all, Outcome(all, i) \cap ids)
          = Net(rs, Outcome(rs, i) \cap mine) + Net(batch, Aimed(batch, i) \cap theirs)
    BY <1>7, OutcomeGrows
  <2>2. \A n : n \in Aimed(batch, i) <=> n = k
    BY <1>3 DEF Aimed, Undoing
  <2>3. Net(batch, Aimed(batch, i) \cap theirs) = IF k \in theirs THEN -s ELSE 0
    <3>1. CASE k \in theirs
      BY <1>3, <1>6, <2>2, <3>1, NetOne
    <3>2. CASE k \notin theirs
      BY <2>2, <3>2, NetNothing
    <3> QED
      BY <3>1, <3>2
  <2> QED
    BY <2>1, <2>3
<1>8. ASSUME NEW p \in Purpose
      PROVE  Net(all, Outcome(all, i) \cap Tagged(all, p))
               = IF p = EffectivePurpose(all, i) THEN Standing(all, i) ELSE 0
  <2>1. Net(all, Outcome(all, i) \cap Tagged(all, p))
          = Net(rs, Outcome(rs, i) \cap Tagged(rs, p)) + (IF k \in Tagged(batch, p) THEN -s ELSE 0)
    BY <1>7, TaggedGrows
  <2>2. k \in Tagged(batch, p) <=> p = EffectivePurpose(rs, i)
    BY <1>3 DEF Tagged, Undoing
  <2>3. Net(rs, Outcome(rs, i) \cap Tagged(rs, p)) = IF p = EffectivePurpose(rs, i) THEN s ELSE 0
    BY <1>5 DEF Squared
  <2> QED
    BY <1>2, <1>5, <1>6, <2>1, <2>2, <2>3
<1>9. ASSUME NEW a \in Account
      PROVE  Net(all, Outcome(all, i) \cap Located(all, a))
               = IF a = all[i].account THEN Standing(all, i) ELSE 0
  <2>1. Net(all, Outcome(all, i) \cap Located(all, a))
          = Net(rs, Outcome(rs, i) \cap Located(rs, a)) + (IF k \in Located(batch, a) THEN -s ELSE 0)
    BY <1>7, LocatedGrows
  <2>2. k \in Located(batch, a) <=> a = rs[i].account
    BY <1>3 DEF Located, Undoing
  <2>3. Net(rs, Outcome(rs, i) \cap Located(rs, a)) = IF a = rs[i].account THEN s ELSE 0
    BY <1>5 DEF Squared
  <2> QED
    BY <1>1, <1>5, <1>6, <2>1, <2>2, <2>3
<1> QED
  BY <1>4, <1>8, <1>9 DEF Squared

-----------------------------------------------------------------------------
(* The types of what is posted.                                             *)

LEMMA DaysAreNaturals ==
  ASSUME TypeOK
  PROVE  Today \in Nat /\ Day \subseteq Nat
<1>1. clock \in Nat /\ zone \in {0, 1}
  BY ZonesAssumption DEF TypeOK
<1> QED
  BY <1>1 DEF Today, DayAt, Day

LEMMA EntryType ==
  ASSUME NEW a \in Account, NEW p \in Purpose, NEW d \in Direction,
         NEW amount \in 1..Ceiling, NEW day \in Nat, NEW k \in Kind
  PROVE  Entry(a, p, d, amount, day, k) \in Row
BY DEF Entry, Row, Movement, NoRow

\* The two legs of a movement, whatever its amount is.
LEMMA PairFields ==
  ASSUME NEW from, NEW to, NEW amount, NEW day, NEW movement, NEW corrects
  PROVE  LET pair == TransferPair(from, to, amount, day, movement, corrects)
         IN  /\ Len(pair) = 2
             /\ pair[1].purpose = from.purpose /\ pair[2].purpose = to.purpose
             /\ pair[1].account = from.account /\ pair[2].account = to.account
             /\ pair[1].direction = "out" /\ pair[2].direction = "in"
             /\ \A n \in 1..2 : pair[n].amount = amount /\ pair[n].movement = movement
                                  /\ pair[n].occurredOn = day /\ pair[n].kind = "transfer"
                                  /\ pair[n].corrects = corrects
                                  /\ pair[n].reverses = NoRow /\ pair[n].payment = NoRow
                                  /\ pair[n].claim = NoClaim /\ ~pair[n].named
<1> DEFINE half(leg, d) == [Entry(leg.account, leg.purpose, d, amount, day, "transfer")
                               EXCEPT !.movement = movement, !.corrects = corrects]
           pair == <<half(from, "out"), half(to, "in")>>
<1>1. ASSUME NEW leg, NEW d
      PROVE  /\ half(leg, d).purpose = leg.purpose /\ half(leg, d).direction = d
             /\ half(leg, d).account = leg.account /\ half(leg, d).corrects = corrects
             /\ half(leg, d).amount = amount /\ half(leg, d).movement = movement
             /\ half(leg, d).occurredOn = day /\ half(leg, d).kind = "transfer"
             /\ half(leg, d).reverses = NoRow /\ half(leg, d).payment = NoRow
             /\ half(leg, d).claim = NoClaim /\ ~half(leg, d).named
  BY DEF Entry
<1>2. TransferPair(from, to, amount, day, movement, corrects) = pair
  BY DEF TransferPair
<1> HIDE DEF half
<1>3. Len(pair) = 2 /\ pair[1] = half(from, "out") /\ pair[2] = half(to, "in")
  OBVIOUS
<1>4. \A n \in 1..2 : n = 1 \/ n = 2
  OBVIOUS
<1> HIDE DEF pair
<1> QED
  BY <1>1, <1>2, <1>3, <1>4

LEMMA PairType ==
  ASSUME NEW a \in Account, NEW b \in Account, NEW p \in Purpose, NEW q \in Purpose,
         NEW amount \in 1..Ceiling, NEW day \in Nat, NEW movement \in Movement,
         NEW corrects \in Nat
  PROVE  TransferPair(Leg(a, p), Leg(b, q), amount, day, movement, corrects) \in Seq(Row)
<1> DEFINE half(x, y, d) == [Entry(x, y, d, amount, day, "transfer")
                               EXCEPT !.movement = movement, !.corrects = corrects]
<1>1. half(a, p, "out") \in Row /\ half(b, q, "in") \in Row
  BY DEF Entry, Row, NoRow, Kind, Direction
<1>2. TransferPair(Leg(a, p), Leg(b, q), amount, day, movement, corrects)
        = <<half(a, p, "out"), half(b, q, "in")>>
  BY DEF TransferPair, Leg
<1> HIDE DEF half
<1> QED
  BY <1>1, <1>2

\* A row's money is under a purpose of the fund.
LEMMA EffectivePurposeType ==
  ASSUME NEW rs \in Seq(Row), NEW i \in 1..Len(rs)
  PROVE  EffectivePurpose(rs, i) \in Purpose
<1>1. \A j \in 1..Len(rs) : rs[j].purpose \in Purpose
  <2>1. \A j \in 1..Len(rs) : rs[j] \in Row
    BY ElementOfSeq
  <2> QED
    BY <2>1 DEF Row
<1>2. PathEnds(rs, i) \subseteq Purpose
  BY <1>1 DEF PathEnds, CorrectionLegs
<1> QED
  BY <1>1, <1>2 DEF EffectivePurpose

\* Handling the members of a finite set in some order.
LEMMA OrdersType ==
  ASSUME NEW S, IsFiniteSet(S), NEW order \in Orders(S)
  PROVE  /\ order \in Seq(S) /\ Len(order) \in Nat
         /\ \A s \in S : \E n \in 1..Len(order) : order[n] = s
         /\ \A m, n \in 1..Len(order) : order[m] = order[n] => m = n
<1>1. Cardinality(S) \in Nat
  BY FS_CardinalityType
<1>2. /\ order \in [1..Cardinality(S) -> S]
      /\ \A s \in S : \E n \in 1..Cardinality(S) : order[n] = s
      /\ \A m, n \in 1..Cardinality(S) : order[m] = order[n] => m = n
  BY DEF Orders, Bijection, Injection, Surjection, IsInjective
<1> QED
  BY <1>1, <1>2, IsASeq, LenProperties

LEMMA PostType ==
  ASSUME rows \in Seq(Row), NEW batch \in Seq(Row), Post(batch)
  PROVE  rows' \in Seq(Row)
BY ConcatProperties DEF Post

-----------------------------------------------------------------------------
(* What each operation posts: rows of the book, and on a closed envelope    *)
(* nothing but the two legs of a transfer between locations; either entries *)
(* that stand alone, or the two legs of one movement.  And what its rows    *)
(* rest on: entries that point at nothing; a movement; the correction of    *)
(* one row, from the purpose it is under; the reversals of rows that stand; *)
(* or the payout of a claim nobody has paid.                                *)

Spares(batch) == \A n \in 1..Len(batch) : ~Closed(batch[n].purpose)

Carries(batch) ==
  /\ Len(batch) = 2
  /\ batch[1].purpose = batch[2].purpose /\ batch[1].amount = batch[2].amount
  /\ batch[1].direction = "out" /\ batch[2].direction = "in"
  /\ \A n \in 1..2 : batch[n].movement = "between_accounts"

Plain(row) == row.kind # "transfer" /\ (row.reverses # NoRow => row.kind = "adjustment")

Paired(batch) ==
  /\ Len(batch) = 2
  /\ batch[1].direction = "out" /\ batch[2].direction = "in"
  /\ batch[1].amount = batch[2].amount /\ batch[1].occurredOn = batch[2].occurredOn
  /\ batch[1].kind = "transfer" /\ batch[2].kind = "transfer"
  /\ batch[1].movement = batch[2].movement
  /\ batch[1].movement = "between_accounts" => batch[1].purpose = batch[2].purpose

Shaped(batch) == (\A n \in 1..Len(batch) : Plain(batch[n])) \/ Paired(batch)

\* The shape of an entry that points at no row and pays no claim.
Shapely(row) ==
  /\ row.kind # "reimbursement"
  /\ row.kind = "dues" <=> row.payment # NoRow
  /\ row.kind = "dues" => row.named /\ row.direction = "in"
  /\ row.named =>
       \/ row.kind = "dues"
       \/ row.kind = "normal" /\ row.direction = "in" /\ row.purpose \in Incidental

Fresh(row) ==
  /\ row.kind # "transfer" /\ row.movement = "none" /\ row.occurredOn \in Day
  /\ row.corrects = NoRow /\ row.reverses = NoRow /\ row.claim = NoClaim
  /\ Shapely(row)

Moves(batch) ==
  \E a, b \in Account, p, q \in Purpose, amount \in 1..Ceiling, day \in Day,
     movement \in {"between_accounts", "allocation", "roll"} :
    batch = TransferPair(Leg(a, p), Leg(b, q), amount, day, movement, NoRow)

Corrects(batch) ==
  \E i \in 1..Len(rows), target \in Purpose :
    /\ Correctable(rows[i]) /\ ~Reversed(rows, i) /\ target # EffectivePurpose(rows, i)
    /\ batch = CorrectionPair(i, EffectivePurpose(rows, i), target)

\* A month of a dues payment is not undone without the rest of them.
Entire(S) ==
  \A i \in S, k \in 1..Len(rows) :
    rows[i].payment # NoRow /\ rows[k].payment = rows[i].payment /\ ~Reversed(rows, k) => k \in S

Undoes(batch) ==
  \E S \in SUBSET (1..Len(rows)) : \E order \in Orders(S) :
    /\ \A i \in S : Reversible(i)
    /\ Entire(S)
    /\ batch = [n \in 1..Len(order) |-> Reversal(order[n])]

Pays(batch) ==
  \E c \in Claim, a \in Account, day \in Day :
    /\ Unsettled(c) /\ claims[c].status # "waived"
    /\ batch = << [Entry(a, claims[c].purpose, "out", claims[c].amount, day,
                        "reimbursement") EXCEPT !.claim = c] >>

Grounded(batch) ==
  \/ \A n \in 1..Len(batch) : Fresh(batch[n])
  \/ Moves(batch) \/ Corrects(batch) \/ Undoes(batch) \/ Pays(batch)

\* An opening balance is posted to a location that is new, and only once.
Opens(batch) ==
  \A n \in 1..Len(batch) : batch[n].kind = "opening" =>
    /\ setUp => account[batch[n].account] = Absent
    /\ \A m \in 1..Len(batch) : batch[m].account = batch[n].account => m = n

Posts == \E batch \in Seq(Row) : /\ rows' = rows \o batch
                                 /\ Spares(batch) \/ Carries(batch)
                                 /\ Shaped(batch) /\ Grounded(batch) /\ Opens(batch)

LEMMA OpenDoors ==
  /\ \A p : Open(p) => ~Closed(p)
  /\ ~Closed(Main)
BY PurposesDistinct DEF Open, Closed

\* A call that posts nothing.
LEMMA PostsNothing ==
  ASSUME rows \in Seq(Row), rows' = rows
  PROVE  Posts
<1>1. << >> \in Seq(Row) /\ rows \o << >> = rows /\ Len(<< >>) = 0
  BY ConcatEmptySeq
<1>2. Spares(<< >>) /\ Shaped(<< >>) /\ Grounded(<< >>) /\ Opens(<< >>)
  BY <1>1 DEF Spares, Shaped, Grounded, Opens
<1> QED
  BY <1>1, <1>2 DEF Posts

\* A call that posts one row to an open door.
LEMMA PostsOne ==
  ASSUME NEW row \in Row, Post(<<row>>), ~Closed(row.purpose), Plain(row),
         Fresh(row) \/ Grounded(<<row>>),
         row.kind = "opening" => (setUp => account[row.account] = Absent)
  PROVE  Posts
<1>1. <<row>> \in Seq(Row) /\ Len(<<row>>) = 1 /\ <<row>>[1] = row
  OBVIOUS
<1>2. Spares(<<row>>) /\ Shaped(<<row>>)
  BY <1>1 DEF Spares, Shaped
<1>5. Opens(<<row>>)
  BY <1>1 DEF Opens
<1>3. rows' = rows \o <<row>>
  BY DEF Post
<1>4. Grounded(<<row>>)
  BY <1>1 DEF Grounded
<1> HIDE DEF Closed
<1> QED
  BY <1>1, <1>2, <1>3, <1>4, <1>5 DEF Posts

\* A call that posts the two legs of a movement between open doors.
LEMMA PostsPair ==
  ASSUME NEW a \in Account, NEW b \in Account, NEW p \in Purpose, NEW q \in Purpose,
         NEW amount \in 1..Ceiling, NEW day \in Nat, NEW movement \in Movement,
         NEW corrects \in Nat, ~Closed(p), ~Closed(q),
         movement # "between_accounts",
         Post(TransferPair(Leg(a, p), Leg(b, q), amount, day, movement, corrects)),
         Grounded(TransferPair(Leg(a, p), Leg(b, q), amount, day, movement, corrects))
  PROVE  Posts
<1> DEFINE batch == TransferPair(Leg(a, p), Leg(b, q), amount, day, movement, corrects)
<1>1. batch \in Seq(Row) /\ rows' = rows \o batch /\ Grounded(batch)
  BY PairType DEF Post
<1>2. /\ Len(batch) = 2 /\ batch[1].purpose = p /\ batch[2].purpose = q
      /\ batch[1].direction = "out" /\ batch[2].direction = "in"
      /\ \A n \in 1..2 : batch[n].amount = amount /\ batch[n].occurredOn = day
                           /\ batch[n].kind = "transfer" /\ batch[n].movement = movement
  BY PairFields DEF Leg
<1> HIDE DEF batch
<1>4. Shaped(batch) /\ Opens(batch)
  BY <1>2 DEF Shaped, Paired, Opens
<1>3. Spares(batch)
  <2>1. \A n \in 1..2 : n = 1 \/ n = 2
    OBVIOUS
  <2> QED
    BY <1>2, <2>1 DEF Spares
<1> QED
  BY <1>1, <1>3, <1>4 DEF Posts

\* A call that posts k rows to open doors.
LEMMA PostsMany ==
  ASSUME NEW k \in Nat, NEW batch, batch = [n \in 1..k |-> batch[n]], Post(batch),
         \A n \in 1..k : batch[n] \in Row /\ ~Closed(batch[n].purpose) /\ Plain(batch[n]),
         (\A n \in 1..k : Fresh(batch[n])) \/ Grounded(batch),
         \A n \in 1..k : batch[n].kind = "opening" =>
           /\ setUp => account[batch[n].account] = Absent
           /\ \A m \in 1..k : batch[m].account = batch[n].account => m = n
  PROVE  Posts
<1>1. batch \in Seq(Row)
  BY IsASeq
<1>2. Len(batch) = k
  BY <1>1, LenProperties
<1>3. Spares(batch) /\ Shaped(batch) /\ Grounded(batch)
  BY <1>2 DEF Spares, Shaped, Grounded
<1>5. Opens(batch)
  BY <1>2 DEF Opens
<1>4. rows' = rows \o batch
  BY DEF Post
<1> QED
  BY <1>1, <1>3, <1>4, <1>5 DEF Posts

\* The row an opening balance above zero posts.
LEMMA OpeningRowType ==
  ASSUME TypeOK, NEW o \in OpeningBalance, o.amount > 0
  PROVE  o.amount \in 1..Ceiling /\ o.occurredOn \in Nat /\ o.occurredOn \in Day
<1>1. o.amount \in Amount \cup {0} /\ o.occurredOn \in Day
  BY DEF OpeningBalance
<1>2. o.amount # 0
  OBVIOUS
<1> QED
  BY <1>1, <1>2, DaysAreNaturals, AmountAssumption

LEMMA SetUpFundPosts ==
  ASSUME TypeOK, NEW born \in SUBSET Account, NEW opening \in [born -> OpeningBalance],
         SetUpFund(born, opening)
  PROVE  Posts
<1> DEFINE S == {a \in born : opening[a].amount > 0}
<1>1. PICK order \in Orders(S) : Post(Openings(opening, order))
  BY DEF SetUpFund
<1>2. IsFiniteSet(S)
  BY AccountAssumption, FS_Subset
<1>3. order \in Seq(S)
  <2> HIDE DEF S
  <2> QED
    BY <1>2, OrdersType
<1> DEFINE row(n) == Entry(order[n], Main, "in", opening[order[n]].amount,
                           opening[order[n]].occurredOn, "opening")
           batch == Openings(opening, order)
<1>4. ASSUME NEW n \in 1..Len(order)
      PROVE  /\ row(n) \in Row /\ row(n).purpose = Main /\ Plain(row(n)) /\ Fresh(row(n))
             /\ row(n).account = order[n]
  <2>1. order[n] \in S
    <3> HIDE DEF S
    <3> QED
      BY <1>3, ElementOfSeq
  <2>2. order[n] \in Account /\ opening[order[n]] \in OpeningBalance
          /\ opening[order[n]].amount > 0
    BY <2>1
  <2>3. /\ opening[order[n]].amount \in 1..Ceiling /\ opening[order[n]].occurredOn \in Nat
        /\ opening[order[n]].occurredOn \in Day
    BY <2>2, OpeningRowType
  <2>4. Main \in Purpose /\ "in" \in Direction /\ "opening" \in Kind
    BY DEF Purpose, Direction, Kind
  <2>5. /\ row(n).purpose = Main /\ Plain(row(n)) /\ Fresh(row(n))
        /\ row(n).account = order[n]
    BY <2>3 DEF Entry, Plain, Fresh, Shapely
  <2> QED
    BY <2>2, <2>3, <2>4, <2>5, EntryType
<1>5. Len(order) \in Nat
  BY <1>3, LenProperties
<1>6. batch = [n \in 1..Len(order) |-> row(n)]
  BY DEF Openings
<1>7. \A m, n \in 1..Len(order) : order[m] = order[n] => m = n
  <2> HIDE DEF S
  <2> QED
    BY <1>2, OrdersType
<1>8. ~setUp
  BY DEF SetUpFund
<1> HIDE DEF row, batch, S
<1> QED
  BY <1>1, <1>4, <1>5, <1>6, <1>7, <1>8, OpenDoors, PostsMany DEF batch

LEMMA CreateAccountPosts ==
  ASSUME TypeOK, NEW a \in Account, NEW opening \in OpeningBalance,
         CreateAccount(a, opening)
  PROVE  Posts
<1>1. CASE opening.amount > 0
  <2> DEFINE row == Entry(a, Main, "in", opening.amount, opening.occurredOn, "opening")
  <2>1. row \in Row /\ row.purpose = Main /\ Plain(row) /\ Fresh(row) /\ row.account = a
    <3>1. Main \in Purpose /\ "in" \in Direction /\ "opening" \in Kind
      BY DEF Purpose, Direction, Kind
    <3>2. row.purpose = Main /\ Plain(row) /\ Fresh(row) /\ row.account = a
      BY <1>1, OpeningRowType DEF Entry, Plain, Fresh, Shapely
    <3> QED
      BY <1>1, <3>1, <3>2, OpeningRowType, EntryType
  <2>2. Openings([x \in {a} |-> opening], <<a>>) = <<row>>
    <3>1. Len(<<a>>) = 1 /\ <<a>>[1] = a
      OBVIOUS
    <3>2. Openings([x \in {a} |-> opening], <<a>>) = [i \in 1..1 |-> row]
      BY <3>1 DEF Openings
    <3> HIDE DEF row
    <3> QED
      BY <3>2
  <2>3. Post(<<row>>) /\ account[a] = Absent
    BY <1>1, <2>2 DEF CreateAccount
  <2> HIDE DEF row
  <2> QED
    BY <2>1, <2>3, PostsOne, OpenDoors
<1>2. CASE ~ (opening.amount > 0)
  <2>1. rows' = rows \o << >> /\ rows \in Seq(Row)
    BY <1>2 DEF CreateAccount, Post, TypeOK
  <2> QED
    BY <2>1, PostsNothing, ConcatEmptySeq
<1> QED
  BY <1>1, <1>2

LEMMA PostTransactionPosts ==
  ASSUME TypeOK, NEW a \in Account, NEW p \in Purpose, NEW direction \in Direction,
         NEW amount \in Amount, NEW day \in Day, NEW kind \in {"normal", "adjustment"},
         NEW named \in BOOLEAN,
         PostTransaction(a, p, direction, amount, day, kind, named)
  PROVE  Posts
<1> DEFINE row == [Entry(a, p, direction, amount, day, kind) EXCEPT !.named = named]
<1>1. amount \in 1..Ceiling /\ day \in Nat /\ kind \in Kind
  BY AmountAssumption, DaysAreNaturals DEF Kind
<1>2. Entry(a, p, direction, amount, day, kind) \in Row
  BY <1>1, EntryType
<1>5. named => kind = "normal" /\ direction = "in" /\ p \in Incidental
  BY DEF PostTransaction
<1>3. /\ row \in Row /\ row.purpose = p /\ Plain(row) /\ Fresh(row)
      /\ row.kind # "opening"
  BY <1>2, <1>5 DEF Entry, Row, Plain, Fresh, Shapely
<1>4. Post(<<row>>) /\ Open(p)
  BY DEF PostTransaction
<1> HIDE DEF row
<1> QED
  BY <1>3, <1>4, PostsOne, OpenDoors

LEMMA PostTransferBetweenAccountsPosts ==
  ASSUME TypeOK, NEW p \in Purpose, NEW from \in Account, NEW to \in Account,
         NEW amount \in Amount, NEW day \in Day,
         PostTransferBetweenAccounts(p, from, to, amount, day)
  PROVE  Posts
<1> DEFINE batch == TransferPair(Leg(from, p), Leg(to, p), amount, day,
                                 "between_accounts", NoRow)
<1>1. amount \in 1..Ceiling /\ day \in Nat /\ "between_accounts" \in Movement /\ NoRow \in Nat
  BY AmountAssumption, DaysAreNaturals DEF Movement, NoRow
<1>2. batch \in Seq(Row)
  BY <1>1, PairType
<1>3. /\ Len(batch) = 2
      /\ batch[1].purpose = p /\ batch[2].purpose = p
      /\ batch[1].direction = "out" /\ batch[2].direction = "in"
      /\ \A n \in 1..2 : batch[n].amount = amount /\ batch[n].movement = "between_accounts"
                           /\ batch[n].occurredOn = day /\ batch[n].kind = "transfer"
  BY PairFields DEF Leg
<1>4. rows' = rows \o batch
  BY DEF PostTransferBetweenAccounts, Post
<1>6. Grounded(batch)
  BY <1>1 DEF Grounded, Moves
<1> HIDE DEF batch
<1>5. Carries(batch) /\ Shaped(batch) /\ Opens(batch)
  BY <1>3 DEF Carries, Shaped, Paired, Opens
<1> QED
  BY <1>2, <1>4, <1>5, <1>6 DEF Posts

LEMMA PostPurposeMovePosts ==
  ASSUME TypeOK, NEW from \in Purpose, NEW to \in Purpose, NEW a \in Account,
         NEW amount \in Amount, NEW day \in Day,
         PostPurposeMove(from, to, a, amount, day)
  PROVE  Posts
<1>1. amount \in 1..Ceiling /\ day \in Nat /\ "allocation" \in Movement /\ NoRow \in Nat
  BY AmountAssumption, DaysAreNaturals DEF Movement, NoRow
<1>2. /\ Open(from) /\ Open(to)
      /\ Post(TransferPair(Leg(a, from), Leg(a, to), amount, day, "allocation", NoRow))
  BY DEF PostPurposeMove
<1>3. Grounded(TransferPair(Leg(a, from), Leg(a, to), amount, day, "allocation", NoRow))
  BY <1>1 DEF Grounded, Moves
<1> QED
  BY <1>1, <1>2, <1>3, OpenDoors, PostsPair

LEMMA PostPurposeCorrectionPosts ==
  ASSUME TypeOK, NEW i \in 1..Len(rows), NEW target \in Purpose,
         PostPurposeCorrection(i, target)
  PROVE  Posts
<1> DEFINE effective == EffectivePurpose(rows, i)
<1>1. rows \in Seq(Row) /\ rows[i] \in Row /\ i \in Nat
  <2>1. rows \in Seq(Row)
    BY DEF TypeOK
  <2> QED
    BY <2>1, ElementOfSeq, LenProperties
<1>2. effective \in Purpose
  BY <1>1, EffectivePurposeType
<1>3. rows[i].account \in Account /\ rows[i].amount \in 1..Ceiling /\ rows[i].occurredOn \in Nat
  BY <1>1 DEF Row
<1>4. ~Closed(effective) /\ ~Closed(target) /\ Post(CorrectionPair(i, effective, target))
  BY OpenDoors DEF PostPurposeCorrection
<1>5. "correction" \in Movement
  BY DEF Movement
<1>8. Grounded(CorrectionPair(i, effective, target))
  BY DEF PostPurposeCorrection, Grounded, Corrects
<1> HIDE DEF effective
<1>6. CASE rows[i].direction = "out"
  BY <1>1, <1>2, <1>3, <1>4, <1>5, <1>6, <1>8, PostsPair DEF CorrectionPair
<1>7. CASE rows[i].direction # "out"
  BY <1>1, <1>2, <1>3, <1>4, <1>5, <1>7, <1>8, PostsPair DEF CorrectionPair
<1> QED
  BY <1>6, <1>7

LEMMA BalanceInt ==
  ASSUME TypeOK
  PROVE  /\ \A p : PurposeBalance(rows, p) \in Int
         /\ \A a : AccountBalance(rows, a) \in Int
BY NetInt DEF TypeOK, PurposeBalance, AccountBalance

\* A roll that is posted fits under the ceiling: the table refuses any other.
LEMMA RollFits ==
  ASSUME NEW from, NEW to, NEW amount, NEW day,
         Post(TransferPair(from, to, amount, day, "roll", NoRow))
  PROVE  amount \in 1..Ceiling
<1> DEFINE pair == TransferPair(from, to, amount, day, "roll", NoRow)
<1>1. Len(pair) = 2 /\ pair[1].amount = amount
  BY PairFields
<1>2. \A n \in 1..Len(pair) : pair[n].amount \in 1..Ceiling
  BY DEF Post
<1> HIDE DEF pair
<1> QED
  BY <1>1, <1>2

LEMMA CloseIncidentalAndRollPosts ==
  ASSUME TypeOK, NEW e \in Incidental, NEW a \in Account, NEW day \in Day,
         CloseIncidentalAndRoll(e, a, day)
  PROVE  Posts
<1> DEFINE leftover == PurposeBalance(rows, e)
<1>1. e \in Purpose /\ Main \in Purpose /\ ~Closed(e) /\ ~Closed(Main)
  BY OpenDoors DEF Purpose, Closed, CloseIncidentalAndRoll
<1>2. day \in Nat /\ "roll" \in Movement /\ NoRow \in Nat /\ leftover \in Int
  BY DaysAreNaturals, BalanceInt DEF Movement, NoRow
<1>3. \/ Post(TransferPair(Leg(a, e), Leg(a, Main), leftover, day, "roll", NoRow))
      \/ Post(TransferPair(Leg(a, Main), Leg(a, e), -leftover, day, "roll", NoRow))
      \/ Post(<< >>)
  BY DEF CloseIncidentalAndRoll
<1> HIDE DEF leftover
<1>4. ASSUME NEW from, NEW to, NEW amount,
             Post(TransferPair(from, to, amount, day, "roll", NoRow))
      PROVE  amount \in 1..Ceiling
  BY <1>4, RollFits
<1>8. \A p, q \in Purpose : \A amount \in 1..Ceiling :
        Grounded(TransferPair(Leg(a, p), Leg(a, q), amount, day, "roll", NoRow))
  BY DEF Grounded, Moves
<1>5. CASE Post(TransferPair(Leg(a, e), Leg(a, Main), leftover, day, "roll", NoRow))
  BY <1>1, <1>2, <1>4, <1>5, <1>8, PostsPair
<1>6. CASE Post(TransferPair(Leg(a, Main), Leg(a, e), -leftover, day, "roll", NoRow))
  <2> DEFINE missing == -leftover
  <2>1. Post(TransferPair(Leg(a, Main), Leg(a, e), missing, day, "roll", NoRow))
    BY <1>6
  <2> HIDE DEF missing
  <2> QED
    BY <2>1, <1>1, <1>2, <1>4, <1>8, PostsPair
<1>7. CASE Post(<< >>)
  <2>1. rows' = rows \o << >> /\ rows \in Seq(Row)
    BY <1>7 DEF Post, TypeOK
  <2> QED
    BY <2>1, PostsNothing, ConcatEmptySeq
<1> QED
  BY <1>3, <1>5, <1>6, <1>7

LEMMA PostDuesPaymentsPosts ==
  ASSUME TypeOK, NEW a \in Account, NEW k \in 1..MaxMonths, NEW amounts \in [1..k -> Amount],
         NEW day \in Day, PostDuesPayments(a, amounts, day)
  PROVE  Posts
<1> DEFINE row(n) == [Entry(a, Main, "in", amounts[n], day, "dues")
                        EXCEPT !.named = TRUE, !.payment = Len(rows) + 1]
           batch == [n \in 1..k |-> row(n)]
<1>1. k \in Nat /\ Len(amounts) = k /\ Len(rows) \in Nat
  <2>1. k \in Nat
    BY BoundsAssumption
  <2>2. amounts \in Seq(Amount)
    BY <2>1, IsASeq
  <2>3. rows \in Seq(Row)
    BY DEF TypeOK
  <2> QED
    BY <2>1, <2>2, <2>3, LenProperties
<1>2. Post(batch)
  BY <1>1 DEF PostDuesPayments
<1>3. ASSUME NEW n \in 1..k
      PROVE  /\ row(n) \in Row /\ row(n).purpose = Main /\ Plain(row(n)) /\ Fresh(row(n))
             /\ row(n).kind = "dues"
  <2>1. amounts[n] \in 1..Ceiling /\ day \in Nat
    BY AmountAssumption, DaysAreNaturals
  <2>2. Main \in Purpose /\ "in" \in Direction /\ "dues" \in Kind
    BY DEF Purpose, Direction, Kind
  <2> DEFINE base == Entry(a, Main, "in", amounts[n], day, "dues")
             payment == Len(rows) + 1
  <2>3. base \in Row
    BY <2>1, <2>2, EntryType
  <2>4. /\ base.purpose = Main /\ base.kind = "dues" /\ base.direction = "in"
        /\ base.movement = "none" /\ base.occurredOn \in Day /\ base.corrects = NoRow
        /\ base.reverses = NoRow /\ base.claim = NoClaim
    BY DEF Entry
  <2>5. /\ row(n) = [base EXCEPT !.named = TRUE, !.payment = payment]
        /\ payment \in Nat /\ payment # NoRow
    BY <1>1 DEF NoRow
  <2> HIDE DEF base, payment, row
  <2>6. /\ row(n) \in Row /\ Fresh(row(n))
        /\ row(n).purpose = Main /\ row(n).kind = "dues" /\ row(n).reverses = NoRow
    BY <2>3, <2>4, <2>5 DEF Row, Fresh, Shapely
  <2> QED
    BY <2>6 DEF Plain
<1> HIDE DEF row
<1>4. \A n \in 1..k : /\ batch[n] \in Row /\ ~Closed(batch[n].purpose)
                      /\ Plain(batch[n]) /\ Fresh(batch[n]) /\ batch[n].kind # "opening"
  BY <1>3, OpenDoors
<1> QED
  BY <1>1, <1>2, <1>4, PostsMany

\* The reversal of a posted row is a row, on the purpose its money is under.
LEMMA ReversalType ==
  ASSUME TypeOK, NEW i \in 1..Len(rows)
  PROVE  /\ Reversal(i) \in Row
         /\ Reversal(i).purpose = EffectivePurpose(rows, i)
         /\ Reversal(i).reverses = i /\ Reversal(i).corrects = NoRow
         /\ Reversal(i).account = rows[i].account /\ Reversal(i).amount = rows[i].amount
         /\ Reversal(i).direction = Opposite(rows[i].direction)
         /\ Reversal(i).occurredOn = ReversalDate(i) /\ Reversal(i).kind = "adjustment"
         /\ Reversal(i).movement = "none" /\ Reversal(i).payment = NoRow
         /\ Reversal(i).claim = NoClaim /\ Reversal(i).named = rows[i].named
         /\ Plain(Reversal(i))
<1>1. rows \in Seq(Row) /\ rows[i] \in Row /\ i \in Nat
  <2>1. rows \in Seq(Row)
    BY DEF TypeOK
  <2> QED
    BY <2>1, ElementOfSeq, LenProperties
<1>2. EffectivePurpose(rows, i) \in Purpose
  BY <1>1, EffectivePurposeType
<1>3. /\ rows[i].account \in Account /\ rows[i].amount \in 1..Ceiling
      /\ rows[i].named \in BOOLEAN /\ ReversalDate(i) \in Nat
      /\ Opposite(rows[i].direction) \in Direction /\ "adjustment" \in Kind
  BY <1>1, DaysAreNaturals DEF Row, ReversalDate, Opposite, Direction, Kind
<1> DEFINE base == Entry(rows[i].account, EffectivePurpose(rows, i),
                         Opposite(rows[i].direction), rows[i].amount,
                         ReversalDate(i), "adjustment")
<1>4. /\ base \in Row /\ base.purpose = EffectivePurpose(rows, i) /\ base.kind = "adjustment"
      /\ base.account = rows[i].account /\ base.amount = rows[i].amount
      /\ base.direction = Opposite(rows[i].direction) /\ base.occurredOn = ReversalDate(i)
      /\ base.movement = "none" /\ base.payment = NoRow /\ base.claim = NoClaim
      /\ base.corrects = NoRow
  <2>1. /\ base.purpose = EffectivePurpose(rows, i) /\ base.kind = "adjustment"
        /\ base.account = rows[i].account /\ base.amount = rows[i].amount
        /\ base.direction = Opposite(rows[i].direction) /\ base.occurredOn = ReversalDate(i)
        /\ base.movement = "none" /\ base.payment = NoRow /\ base.claim = NoClaim
        /\ base.corrects = NoRow
    BY DEF Entry
  <2> QED
    BY <1>2, <1>3, <2>1, EntryType
<1>5. Reversal(i) = [base EXCEPT !.named = rows[i].named, !.reverses = i]
  BY DEF Reversal
<1> HIDE DEF base
<1> QED
  BY <1>1, <1>3, <1>4, <1>5 DEF Row, Plain

LEMMA ReverseTransactionPosts ==
  ASSUME TypeOK, NEW i \in 1..Len(rows), ReverseTransaction(i)
  PROVE  Posts
<1>1. ~Closed(EffectivePurpose(rows, i)) /\ Post(<<Reversal(i)>>) /\ Reversible(i)
  BY DEF ReverseTransaction, Reversible
<1>2. Grounded(<<Reversal(i)>>)
  <2> DEFINE order == [n \in 1..1 |-> i]
  <2>1. Cardinality({i}) = 1
    BY FS_Singleton
  <2>2. order \in Orders({i})
    <3>1. order \in [1..1 -> {i}] /\ \A m, n \in 1..1 : m = n
      OBVIOUS
    <3>2. \A x \in {i} : \E n \in 1..1 : order[n] = x
      OBVIOUS
    <3> QED
      BY <2>1, <3>1, <3>2 DEF Orders, Bijection, Injection, Surjection, IsInjective
  <2>3. Len(order) = 1 /\ order[1] = i
    OBVIOUS
  <2>4. <<Reversal(i)>> = [n \in 1..Len(order) |-> Reversal(order[n])]
    BY <2>3
  <2> HIDE DEF order
  <2>5. Undoes(<<Reversal(i)>>)
    <3>1. Entire({i})
      BY DEF ReverseTransaction, Entire
    <3> QED
      BY <1>1, <2>2, <2>4, <3>1 DEF Undoes
  <2> QED
    BY <2>5 DEF Grounded
<1> QED
  BY <1>1, <1>2, ReversalType, PostsOne

LEMMA ReverseDuesPaymentPosts ==
  ASSUME TypeOK, NEW payment \in 1..Len(rows), ReverseDuesPayment(payment)
  PROVE  Posts
<1> DEFINE S == {i \in 1..Len(rows) : rows[i].payment = payment /\ ~Reversed(rows, i)}
<1>1. PICK order \in Orders(S) : Post([n \in 1..Len(order) |-> Reversal(order[n])])
  BY DEF ReverseDuesPayment
<1>2. \A i \in S : i \in 1..Len(rows) /\ ~Closed(EffectivePurpose(rows, i)) /\ Reversible(i)
  BY DEF ReverseDuesPayment, Reversible
<1>3. IsFiniteSet(S)
  <2>1. Len(rows) \in Nat
    BY LenProperties DEF TypeOK
  <2>2. IsFiniteSet(1..Len(rows))
    BY <2>1, FS_Interval
  <2> QED
    BY <2>2, FS_Subset
<1> HIDE DEF S
<1>4. order \in Seq(S) /\ Len(order) \in Nat /\ \A n \in 1..Len(order) : order[n] \in S
  <2>1. order \in Seq(S)
    BY <1>3, OrdersType
  <2> QED
    BY <2>1, LenProperties, ElementOfSeq
<1> DEFINE batch == [n \in 1..Len(order) |-> Reversal(order[n])]
<1>5. \A n \in 1..Len(order) : /\ batch[n] \in Row /\ ~Closed(batch[n].purpose)
                               /\ Plain(batch[n]) /\ batch[n].kind # "opening"
  BY <1>2, <1>4, ReversalType
<1>6. Grounded(batch)
  <2>1. S \in SUBSET (1..Len(rows)) /\ Entire(S)
    BY DEF S, Entire
  <2> QED
    BY <1>2, <2>1 DEF Grounded, Undoes
<1> QED
  BY <1>1, <1>4, <1>5, <1>6, PostsMany

LEMMA SettleReimbursementPosts ==
  ASSUME TypeOK, NEW c \in Claim, NEW a \in Account, NEW day \in Day,
         SettleReimbursement(c, a, day)
  PROVE  Posts
<1> DEFINE base == Entry(a, claims[c].purpose, "out", claims[c].amount, day, "reimbursement")
           row == [base EXCEPT !.claim = c]
<1>1. claims[c].purpose \in Purpose /\ claims[c].amount \in 1..Ceiling /\ day \in Nat
  BY DaysAreNaturals DEF TypeOK
<1>2. /\ base \in Row /\ base.purpose = claims[c].purpose /\ Plain(base)
      /\ base.kind # "opening"
  <2>1. "out" \in Direction /\ "reimbursement" \in Kind
    BY DEF Direction, Kind
  <2>2. base.purpose = claims[c].purpose /\ Plain(base) /\ base.kind # "opening"
    BY DEF Entry, Plain
  <2> QED
    BY <1>1, <2>1, <2>2, EntryType
<1>3. Post(<<row>>) /\ ~Closed(claims[c].purpose)
  BY DEF SettleReimbursement
<1>5. Grounded(<<row>>)
  BY DEF SettleReimbursement, Grounded, Pays
<1> HIDE DEF base
<1>4. row \in Row /\ row.purpose = claims[c].purpose /\ Plain(row) /\ row.kind # "opening"
  BY <1>2 DEF Row, Plain
<1> HIDE DEF row
<1> QED
  BY <1>3, <1>4, <1>5, PostsOne

\* A fix the caller gives for a location is a posting with the caller's fields.
LEMMA FixType ==
  ASSUME TypeOK, NEW c \in LocationCount, c.fix # << >>
  PROVE  /\ c.fix[1].purpose \in Purpose /\ c.fix[1].direction \in Direction
         /\ c.fix[1].amount \in 1..Ceiling /\ c.fix[1].occurredOn \in Nat
         /\ c.fix[1].occurredOn \in Day
<1>1. PICK f \in Fix : c.fix = <<f>>
  BY DEF LocationCount
<1>2. f.purpose \in Purpose /\ f.direction \in Direction /\ f.amount \in Amount
        /\ f.occurredOn \in Day
  BY DEF Fix
<1>3. c.fix[1] = f
  BY <1>1
<1> QED
  BY <1>2, <1>3, AmountAssumption, DaysAreNaturals

LEMMA TakeReconciliationPosts ==
  ASSUME TypeOK, NEW count \in [Active -> LocationCount], TakeReconciliation(count)
  PROVE  Posts
<1> DEFINE fixed == {a \in Active : count[a].fix # << >>}
           row(a) == Entry(a, count[a].fix[1].purpose, count[a].fix[1].direction,
                           count[a].fix[1].amount, count[a].fix[1].occurredOn,
                           IF count[a].resolution = "adjusted" THEN "adjustment" ELSE "normal")
<1>1. PICK order \in Orders(fixed) : Post([n \in 1..Len(order) |-> row(order[n])])
  BY DEF TakeReconciliation
<1>2. IsFiniteSet(fixed)
  BY AccountAssumption, FS_Subset DEF Active
<1>3. ASSUME NEW a \in fixed
      PROVE  /\ row(a) \in Row /\ ~Closed(row(a).purpose) /\ Plain(row(a)) /\ Fresh(row(a))
             /\ row(a).kind # "opening"
  <2>1. a \in Account /\ count[a] \in LocationCount /\ count[a].fix # << >>
    BY DEF Active
  <2>2. (IF count[a].resolution = "adjusted" THEN "adjustment" ELSE "normal") \in Kind
    BY DEF Kind
  <2>3. /\ row(a).purpose = count[a].fix[1].purpose /\ Plain(row(a)) /\ Fresh(row(a))
        /\ row(a).kind # "opening"
    BY <2>1, FixType DEF Entry, Plain, Fresh, Shapely
  <2>4. Open(count[a].fix[1].purpose)
    BY <2>1 DEF TakeReconciliation, Acceptable
  <2>5. row(a) \in Row
    BY <2>1, <2>2, FixType, EntryType
  <2> QED
    BY <2>3, <2>4, <2>5, OpenDoors
<1> HIDE DEF fixed, row
<1>4. Len(order) \in Nat /\ \A n \in 1..Len(order) : order[n] \in fixed
  BY <1>2, OrdersType, ElementOfSeq
<1> DEFINE batch == [n \in 1..Len(order) |-> row(order[n])]
<1>5. \A n \in 1..Len(order) : /\ batch[n] \in Row /\ ~Closed(batch[n].purpose)
                               /\ Plain(batch[n]) /\ Fresh(batch[n])
                               /\ batch[n].kind # "opening"
  BY <1>3, <1>4
<1> QED
  BY <1>1, <1>4, <1>5, PostsMany

\* Every step posts rows of the book, to a closed envelope at most the two legs
\* of one transfer between locations, no leg without its other half, and nothing
\* that points at a row or a claim unless the row or the claim allows it.
LEMMA StepPosts ==
  ASSUME TypeOK, [Next]_vars
  PROVE  Posts
<1> USE DEF TypeOK
<1>1. CASE FundStep
  <2>1. ASSUME NEW born \in SUBSET Account, NEW opening \in [born -> OpeningBalance],
               SetUpFund(born, opening)
        PROVE  Posts
    BY <2>1, SetUpFundPosts
  <2>2. ASSUME NEW a \in Account, NEW opening \in OpeningBalance, CreateAccount(a, opening)
        PROVE  Posts
    BY <2>2, CreateAccountPosts
  <2>3. ASSUME NEW a \in Account, DeleteAccount(a) \/ RetireAccount(a) \/ ReinstateAccount(a)
        PROVE  Posts
    BY <2>3, PostsNothing DEF DeleteAccount, RetireAccount, ReinstateAccount
  <2>4. ASSUME NEW z \in Zones, UpdateTimeZone(z)
        PROVE  Posts
    BY <2>4, PostsNothing DEF UpdateTimeZone
  <2> QED
    BY <1>1, <2>1, <2>2, <2>3, <2>4
    DEF FundStep, SetupRequest, FundRequest, NewAccountRequest, AccountRequest,
        DeleteAccountRequest
<1>2. CASE PostingStep
  <2>1. ASSUME NEW a \in Account, NEW p \in Purpose, NEW direction \in Direction,
               NEW amount \in Amount, NEW day \in Day, NEW kind \in {"normal", "adjustment"},
               NEW named \in BOOLEAN,
               PostTransaction(a, p, direction, amount, day, kind, named)
        PROVE  Posts
    BY <2>1, PostTransactionPosts
  <2>2. ASSUME NEW p \in Purpose, NEW from \in Account, NEW to \in Account,
               NEW amount \in Amount, NEW day \in Day,
               PostTransferBetweenAccounts(p, from, to, amount, day)
        PROVE  Posts
    BY <2>2, PostTransferBetweenAccountsPosts
  <2>3. ASSUME NEW i \in 1..Len(rows), NEW target \in Purpose, PostPurposeCorrection(i, target)
        PROVE  Posts
    BY <2>3, PostPurposeCorrectionPosts
  <2>4. ASSUME NEW from \in Purpose, NEW to \in Purpose, NEW a \in Account,
               NEW amount \in Amount, NEW day \in Day,
               PostPurposeMove(from, to, a, amount, day)
        PROVE  Posts
    BY <2>4, PostPurposeMovePosts
  <2>5. ASSUME NEW a \in Account, NEW n \in 1..MaxMonths, NEW day \in Day,
               NEW amounts \in [1..n -> Amount], PostDuesPayments(a, amounts, day)
        PROVE  Posts
    BY <2>5, PostDuesPaymentsPosts
  <2>6. ASSUME NEW i \in 1..Len(rows), ReverseTransaction(i) \/ ReverseDuesPayment(i)
        PROVE  Posts
    BY <2>6, ReverseTransactionPosts, ReverseDuesPaymentPosts
  <2> QED
    BY <1>2, <2>1, <2>2, <2>3, <2>4, <2>5, <2>6
    DEF PostingStep, TransactionRequest, TransferRequest, CorrectionRequest, MoveRequest,
        DuesRequest, ReversalRequest
<1>3. CASE EnvelopeStep
  <2>1. ASSUME NEW e \in Incidental, OpenIncidental(e) \/ ReopenIncidental(e)
        PROVE  Posts
    BY <2>1, PostsNothing DEF OpenIncidental, ReopenIncidental
  <2>2. ASSUME NEW e \in Incidental, NEW a \in Account, NEW day \in Day,
               CloseIncidentalAndRoll(e, a, day)
        PROVE  Posts
    BY <2>2, CloseIncidentalAndRollPosts
  <2> QED
    BY <1>3, <2>1, <2>2 DEF EnvelopeStep, OpenRequest, CloseRequest, ReopenRequest
<1>4. CASE CountRequest
  BY <1>4, TakeReconciliationPosts DEF CountRequest
<1>5. CASE ClaimStep
  <2>1. ASSUME NEW c \in Claim, NEW a \in Account, NEW day \in Day,
               SettleReimbursement(c, a, day)
        PROVE  Posts
    BY <2>1, SettleReimbursementPosts
  <2>2. CASE \E c \in Claim, a \in Account, day \in Day : SettleReimbursement(c, a, day)
    BY <2>1, <2>2
  <2>3. CASE ~ \E c \in Claim, a \in Account, day \in Day : SettleReimbursement(c, a, day)
    <3>1. rows' = rows
      BY <1>5, <2>3
      DEF ClaimStep, NewClaimRequest, ClaimRequest, SettleRequest, DeleteClaimRequest,
          CreateReimbursement, UpdateReimbursement, DeleteReimbursement
    <3> QED
      BY <3>1, PostsNothing
  <2> QED
    BY <2>2, <2>3
<1>6. CASE Tick
  BY <1>6, PostsNothing DEF Tick
<1>7. CASE UNCHANGED vars
  BY <1>7, PostsNothing DEF vars
<1> QED
  BY <1>1, <1>2, <1>3, <1>4, <1>5, <1>6, <1>7 DEF Next

-----------------------------------------------------------------------------
(* Type correctness.                                                        *)

\* The counts a step leaves: those there were, or one more, on the cutoff and
\* the balances of the book before the step's own rows.
Counted ==
  \/ counts' = counts
  \/ \E count : /\ counts' = Append(counts, count)
                /\ count.cutoff = Len(rows)
                /\ count \in [cutoff : Nat, at : Nat,
                              lines : UNION {[S -> Line] : S \in SUBSET Account}]
                /\ \A a \in DOMAIN count.lines :
                     count.lines[a].recorded = AccountBalance(rows, a)

LEMMA TakeReconciliationCounts ==
  ASSUME TypeOK, NEW count \in [Active -> LocationCount], TakeReconciliation(count)
  PROVE  Counted
<1> DEFINE fixed == {a \in Active : count[a].fix # << >>}
           line(a, fix) == [recorded |-> AccountBalance(rows, a), actual |-> count[a].actual,
                            resolution |-> count[a].resolution, fix |-> fix]
           fixOf(order, a) == IF a \in fixed
                              THEN Len(rows) + (CHOOSE n \in 1..Len(order) : order[n] = a)
                              ELSE NoRow
<1>1. PICK order \in Orders(fixed) :
        counts' = Append(counts, [cutoff |-> Len(rows), at |-> clock,
                                  lines |-> [a \in Active |-> line(a, fixOf(order, a))]])
  BY DEF TakeReconciliation
<1>2. IsFiniteSet(fixed)
  BY AccountAssumption, FS_Subset DEF Active
<1>3. Len(rows) \in Nat /\ clock \in Nat
  BY LenProperties DEF TypeOK
<1>4. ASSUME NEW a \in Active
      PROVE  line(a, fixOf(order, a)) \in Line
  <2>1. fixOf(order, a) \in Nat
    <3>1. CASE a \in fixed
      <4> HIDE DEF fixed
      <4>1. \E n \in 1..Len(order) : order[n] = a
        BY <1>2, <3>1, OrdersType
      <4>2. Len(order) \in Nat
        BY <1>2, OrdersType
      <4>3. (CHOOSE n \in 1..Len(order) : order[n] = a) \in Nat
        BY <4>1, <4>2
      <4> QED
        BY <3>1, <4>3, <1>3
    <3>2. CASE a \notin fixed
      BY <3>2 DEF NoRow
    <3> QED
      BY <3>1, <3>2
  <2>2. AccountBalance(rows, a) \in Int
    BY BalanceInt
  <2>3. count[a].actual \in Nat /\ count[a].resolution \in Resolution
    <3>1. count[a] \in LocationCount
      OBVIOUS
    <3>2. \A c \in LocationCount : c.actual \in Amount \cup {0} /\ c.resolution \in Resolution
      BY DEF LocationCount, Resolution
    <3>3. Amount \cup {0} \subseteq Nat
      BY AmountAssumption, CeilingAssumption
    <3> HIDE DEF line, fixOf, fixed
    <3> QED
      BY <3>1, <3>2, <3>3
  <2> HIDE DEF fixOf
  <2> QED
    BY <2>1, <2>2, <2>3 DEF Line
<1> DEFINE lines == [a \in Active |-> line(a, fixOf(order, a))]
           c == [cutoff |-> Len(rows), at |-> clock, lines |-> lines]
<1>5. \A a \in DOMAIN lines : lines[a].recorded = AccountBalance(rows, a)
  OBVIOUS
<1> HIDE DEF line, fixOf
<1>6. lines \in [Active -> Line] /\ Active \in SUBSET Account
  BY <1>4 DEF Active
<1> HIDE DEF lines
<1>7. /\ c \in [cutoff : Nat, at : Nat, lines : UNION {[S -> Line] : S \in SUBSET Account}]
      /\ c.cutoff = Len(rows) /\ c.lines = lines
  BY <1>3, <1>6
<1>8. counts' = Append(counts, c)
  BY <1>1 DEF lines
<1> HIDE DEF c
<1> QED
  BY <1>5, <1>7, <1>8 DEF Counted

\* Nothing but a count takes one.
LEMMA OnlyCountsCount ==
  ASSUME [Next]_vars, ~CountRequest
  PROVE  counts' = counts
BY DEF Next, vars, FundStep, SetupRequest, FundRequest, NewAccountRequest,
    AccountRequest, DeleteAccountRequest, PostingStep, TransactionRequest,
    TransferRequest, CorrectionRequest, MoveRequest, DuesRequest, ReversalRequest,
    EnvelopeStep, OpenRequest, CloseRequest, ReopenRequest, ClaimStep,
    NewClaimRequest, ClaimRequest, SettleRequest, DeleteClaimRequest, Tick, SetUpFund,
    CreateAccount, DeleteAccount, RetireAccount, ReinstateAccount, UpdateTimeZone,
    PostTransaction, PostTransferBetweenAccounts, PostPurposeCorrection,
    PostPurposeMove, PostDuesPayments, ReverseTransaction, ReverseDuesPayment,
    OpenIncidental, ReopenIncidental, CloseIncidentalAndRoll, CreateReimbursement,
    UpdateReimbursement, SettleReimbursement, DeleteReimbursement

LEMMA StepCounts ==
  ASSUME TypeOK, [Next]_vars
  PROVE  Counted
<1>1. CASE CountRequest
  BY <1>1, TakeReconciliationCounts DEF CountRequest
<1>2. CASE ~CountRequest
  BY <1>2, OnlyCountsCount DEF Counted
<1> QED
  BY <1>1, <1>2

\* The rest of the state keeps its type.
LEMMA StepKeepsTypes ==
  ASSUME TypeOK, [Next]_vars
  PROVE  /\ account' \in [Account -> {Absent, "active", "retired"}]
         /\ envelope' \in [Incidental -> {Absent, "open", "closed"}]
         /\ claims' \in [Claim -> [status : {Absent, "pending", "waived"},
                                   purpose : Purpose, amount : 1..Ceiling]]
         /\ setUp' \in BOOLEAN /\ zone' \in Zones /\ clock' \in Nat
<1> USE DEF TypeOK
<1>1. CASE FundStep
  BY <1>1
  DEF FundStep, SetupRequest, FundRequest, NewAccountRequest, AccountRequest,
      DeleteAccountRequest, SetUpFund, CreateAccount, DeleteAccount, RetireAccount,
      ReinstateAccount, UpdateTimeZone
<1>2. CASE PostingStep
  BY <1>2
  DEF PostingStep, TransactionRequest, TransferRequest, CorrectionRequest, MoveRequest,
      DuesRequest, ReversalRequest, PostTransaction, PostTransferBetweenAccounts,
      PostPurposeCorrection, PostPurposeMove, PostDuesPayments, ReverseTransaction,
      ReverseDuesPayment
<1>3. CASE EnvelopeStep
  BY <1>3
  DEF EnvelopeStep, OpenRequest, CloseRequest, ReopenRequest, OpenIncidental,
      ReopenIncidental, CloseIncidentalAndRoll
<1>4. CASE CountRequest
  BY <1>4 DEF CountRequest, TakeReconciliation
<1>5. CASE ClaimStep
  <2>1. Main \in Purpose /\ 1 \in 1..Ceiling
    BY CeilingAssumption DEF Purpose
  <2>2. NoReimbursement \in [status : {Absent, "pending", "waived"},
                             purpose : Purpose, amount : 1..Ceiling]
    BY <2>1 DEF NoReimbursement
  <2>3. ASSUME NEW c \in Claim, NEW claim \in [status : {Absent, "pending", "waived"},
                                              purpose : Purpose, amount : 1..Ceiling],
               claims' = [claims EXCEPT ![c] = claim]
        PROVE  claims' \in [Claim -> [status : {Absent, "pending", "waived"},
                                     purpose : Purpose, amount : 1..Ceiling]]
    BY <2>3
  <2>4. ASSUME NEW c \in Claim, NEW p \in Purpose, NEW amount \in Amount,
               NEW status \in {"pending", "waived"},
               CreateReimbursement(c, p, amount) \/ UpdateReimbursement(c, p, amount, status)
        PROVE  claims' \in [Claim -> [status : {Absent, "pending", "waived"},
                                     purpose : Purpose, amount : 1..Ceiling]]
    BY <2>3, <2>4, AmountAssumption DEF CreateReimbursement, UpdateReimbursement
  <2>5. ASSUME NEW c \in Claim, DeleteReimbursement(c)
        PROVE  claims' \in [Claim -> [status : {Absent, "pending", "waived"},
                                     purpose : Purpose, amount : 1..Ceiling]]
    BY <2>2, <2>3, <2>5 DEF DeleteReimbursement
  <2>6. ASSUME NEW c \in Claim, NEW a \in Account, NEW day \in Day,
               SettleReimbursement(c, a, day)
        PROVE  claims' \in [Claim -> [status : {Absent, "pending", "waived"},
                                     purpose : Purpose, amount : 1..Ceiling]]
    BY <2>6 DEF SettleReimbursement
  <2>7. UNCHANGED <<account, envelope, setUp, zone, clock>>
    BY <1>5
    DEF ClaimStep, NewClaimRequest, ClaimRequest, SettleRequest, DeleteClaimRequest,
        CreateReimbursement, UpdateReimbursement, SettleReimbursement, DeleteReimbursement
  <2>8. claims' \in [Claim -> [status : {Absent, "pending", "waived"},
                              purpose : Purpose, amount : 1..Ceiling]]
    <3> HIDE DEF TypeOK
    <3> QED
      BY <1>5, <2>4, <2>5, <2>6, Zenon
      DEF ClaimStep, NewClaimRequest, ClaimRequest, SettleRequest, DeleteClaimRequest
  <2> QED
    BY <2>7, <2>8
<1>6. CASE Tick
  BY <1>6 DEF Tick
<1>7. CASE UNCHANGED vars
  BY <1>7 DEF vars
<1> QED
  BY <1>1, <1>2, <1>3, <1>4, <1>5, <1>6, <1>7 DEF Next

LEMMA InitTypeOK == Init => TypeOK
<1> SUFFICES ASSUME Init PROVE TypeOK
  OBVIOUS
<1>1. NoReimbursement \in [status : {Absent, "pending", "waived"},
                           purpose : Purpose, amount : 1..Ceiling]
  BY CeilingAssumption DEF NoReimbursement, Purpose
<1> QED
  BY <1>1, EmptySeq DEF Init, TypeOK

LEMMA NextTypeOK == TypeOK /\ [Next]_vars => TypeOK'
<1> SUFFICES ASSUME TypeOK, [Next]_vars PROVE TypeOK'
  OBVIOUS
<1>1. rows' \in Seq(Row)
  <2>1. PICK batch \in Seq(Row) : rows' = rows \o batch
    BY StepPosts DEF Posts
  <2>2. rows \in Seq(Row)
    BY DEF TypeOK
  <2> QED
    BY <2>1, <2>2, ConcatProperties
<1>2. counts' \in Seq([cutoff : Nat, at : Nat,
                       lines : UNION {[S -> Line] : S \in SUBSET Account}])
  <2> DEFINE Snapshot == [cutoff : Nat, at : Nat,
                          lines : UNION {[S -> Line] : S \in SUBSET Account}]
  <2>1. counts \in Seq(Snapshot)
    BY DEF TypeOK
  <2>2. counts' = counts \/ \E count \in Snapshot : counts' = Append(counts, count)
    BY StepCounts DEF Counted
  <2> HIDE DEF Snapshot
  <2>3. counts' \in Seq(Snapshot)
    BY <2>1, <2>2, AppendProperties
  <2> QED
    BY <2>3 DEF Snapshot
<1> QED
  BY <1>1, <1>2, StepKeepsTypes DEF TypeOK

\* Every reachable state of the ledger is well-typed: above all, every row
\* posted is a row the table accepts, whatever a sum of rows came to.
THEOREM TypeCorrect == Spec => []TypeOK
<1>1. Init => TypeOK
  BY InitTypeOK
<1>2. TypeOK /\ [Next]_vars => TypeOK'
  BY NextTypeOK
<1> QED
  BY <1>1, <1>2, PTL DEF Spec

-----------------------------------------------------------------------------
(* Closed envelopes.                                                        *)

\* No row but the legs of a transfer between locations reaches an envelope
\* while it stays closed, whichever operation posts it.
THEOREM OnlyTransfersReachClosed == Spec => ClosedTakesOnlyTransfers
<1> DEFINE A == \A e \in Incidental : Closed(e) /\ Closed(e)' =>
                  \A i \in NewIds : rows'[i].purpose = e =>
                    rows'[i].movement = "between_accounts"
<1>1. TypeOK /\ [Next]_vars => [A]_vars
  <2> SUFFICES ASSUME TypeOK, [Next]_vars,
                      NEW e \in Incidental, Closed(e),
                      NEW i \in NewIds, rows'[i].purpose = e
               PROVE  rows'[i].movement = "between_accounts"
    OBVIOUS
  <2>1. PICK batch \in Seq(Row) : /\ rows' = rows \o batch
                                  /\ Spares(batch) \/ Carries(batch)
    BY StepPosts DEF Posts
  <2>2. /\ rows \in Seq(Row) /\ Len(rows) \in Nat /\ Len(batch) \in Nat
    <3>1. rows \in Seq(Row)
      BY DEF TypeOK
    <3> QED
      BY <3>1, LenProperties
  <2>3. /\ Len(rows') = Len(rows) + Len(batch)
        /\ \A n \in 1..Len(batch) : rows'[Len(rows) + n] = batch[n]
    BY <2>1, <2>2, ConcatProperties
  <2>4. PICK n \in 1..Len(batch) : i = Len(rows) + n
    <3>1. i - Len(rows) \in 1..Len(batch) /\ i = Len(rows) + (i - Len(rows))
      BY <2>2, <2>3 DEF NewIds
    <3> QED
      BY <3>1
  <2>5. batch[n].purpose = e /\ rows'[i] = batch[n]
    BY <2>3, <2>4
  <2>6. ~Spares(batch)
    BY <2>5 DEF Spares
  <2> QED
    BY <2>1, <2>4, <2>5, <2>6 DEF Carries
<1>2. Spec => []TypeOK
  BY TypeCorrect
<1> QED
  BY <1>1, <1>2, PTL DEF Spec, ClosedTakesOnlyTransfers

\* What a step posts leaves the balance of a closed envelope as it was.
LEMMA ClosedBalanceStays ==
  ASSUME TypeOK, [Next]_vars, NEW e \in Incidental, Closed(e)
  PROVE  PurposeBalance(rows', e) = PurposeBalance(rows, e)
<1>1. PICK batch \in Seq(Row) : rows' = rows \o batch /\ (Spares(batch) \/ Carries(batch))
  BY StepPosts DEF Posts
<1>2. rows \in Seq(Row)
  BY DEF TypeOK
<1>3. PurposeBalance(batch, e) = 0
  <2>1. CASE Spares(batch)
    BY <2>1, PurposeBalanceNothing DEF Spares
  <2>2. CASE Carries(batch)
    <3>1. Len(batch) = 2 /\ batch[1] \in Row
      <4>1. Len(batch) = 2 /\ 1 \in 1..Len(batch)
        BY <2>2 DEF Carries
      <4> QED
        BY <4>1, ElementOfSeq
    <3>2. PurposeBalance(batch, e) = (IF batch[1].purpose = e THEN Signed(batch[1]) ELSE 0)
                                       + (IF batch[2].purpose = e THEN Signed(batch[2]) ELSE 0)
      BY <3>1, PurposeBalancePair
    <3>3. Signed(batch[1]) \in Int /\ Signed(batch[2]) = -Signed(batch[1])
      <4>1. Signed(batch[1]) \in Int
        BY <3>1, SignedInt
      <4>2. batch[1].amount \in Int
        BY <3>1, CeilingAssumption DEF Row
      <4> QED
        BY <2>2, <4>1, <4>2 DEF Carries, Signed
    <3>4. batch[1].purpose = batch[2].purpose
      BY <2>2 DEF Carries
    <3> QED
      BY <3>2, <3>3, <3>4
  <2> QED
    BY <1>1, <2>1, <2>2
<1>4. PurposeBalance(rows, e) \in Int
  BY BalanceInt
<1>5. PurposeBalance(rows', e) = PurposeBalance(rows, e) + PurposeBalance(batch, e)
  BY <1>1, <1>2, PurposeBalanceConcat
<1> QED
  BY <1>3, <1>4, <1>5

\* Closing an envelope squares it to zero, whether it was over, under or even.
LEMMA ClosingSquares ==
  ASSUME TypeOK, NEW e \in Incidental, NEW a \in Account, NEW day \in Day,
         CloseIncidentalAndRoll(e, a, day)
  PROVE  PurposeBalance(rows', e) = 0
<1> DEFINE leftover == PurposeBalance(rows, e)
<1>1. rows \in Seq(Row) /\ leftover \in Int /\ e # Main
  BY BalanceInt, PurposesDistinct DEF TypeOK
<1>2. ASSUME NEW from, NEW to, NEW amount \in Int,
             Post(TransferPair(Leg(a, from), Leg(a, to), amount, day, "roll", NoRow)),
             from \in Purpose, to \in Purpose, amount \in 1..Ceiling
      PROVE  PurposeBalance(rows', e) = leftover + (IF from = e THEN -amount ELSE 0)
                                                 + (IF to = e THEN amount ELSE 0)
  <2> DEFINE pair == TransferPair(Leg(a, from), Leg(a, to), amount, day, "roll", NoRow)
  <2>1. pair \in Seq(Row)
    BY <1>2, DaysAreNaturals, PairType DEF Movement, NoRow
  <2>2. /\ Len(pair) = 2 /\ pair[1].purpose = from /\ pair[2].purpose = to
        /\ Signed(pair[1]) = -amount /\ Signed(pair[2]) = amount
    BY PairFields DEF Leg, Signed
  <2>3. rows' = rows \o pair
    BY <1>2 DEF Post
  <2> HIDE DEF pair
  <2>4. PurposeBalance(rows', e) = leftover + PurposeBalance(pair, e)
    BY <1>1, <2>1, <2>3, PurposeBalanceConcat
  <2>5. PurposeBalance(pair, e) = (IF from = e THEN -amount ELSE 0)
                                    + (IF to = e THEN amount ELSE 0)
    BY <2>1, <2>2, PurposeBalancePair
  <2> HIDE DEF leftover
  <2> QED
    BY <1>1, <2>4, <2>5
<1>3. ASSUME NEW from, NEW to, NEW amount,
             Post(TransferPair(from, to, amount, day, "roll", NoRow))
      PROVE  amount \in 1..Ceiling
  BY <1>3, RollFits
<1>4. e \in Purpose /\ Main \in Purpose
  BY DEF Purpose
<1>5. \/ Post(TransferPair(Leg(a, e), Leg(a, Main), leftover, day, "roll", NoRow))
      \/ Post(TransferPair(Leg(a, Main), Leg(a, e), -leftover, day, "roll", NoRow))
      \/ leftover = 0 /\ Post(<< >>)
  BY DEF CloseIncidentalAndRoll
<1>6. CASE Post(TransferPair(Leg(a, e), Leg(a, Main), leftover, day, "roll", NoRow))
  <2> HIDE DEF leftover
  <2>1. leftover \in 1..Ceiling
    BY <1>3, <1>6
  <2>2. PurposeBalance(rows', e) = leftover + (IF e = e THEN -leftover ELSE 0)
                                            + (IF Main = e THEN leftover ELSE 0)
    BY <1>1, <1>2, <1>4, <1>6, <2>1
  <2> QED
    BY <1>1, <2>2
<1>7. CASE Post(TransferPair(Leg(a, Main), Leg(a, e), -leftover, day, "roll", NoRow))
  <2> DEFINE missing == -leftover
  <2>1. missing \in Int /\ Post(TransferPair(Leg(a, Main), Leg(a, e), missing, day, "roll", NoRow))
    BY <1>1, <1>7
  <2>2. missing = -leftover
    OBVIOUS
  <2> HIDE DEF missing, leftover
  <2>3. missing \in 1..Ceiling
    BY <1>3, <2>1
  <2>4. PurposeBalance(rows', e) = leftover + (IF Main = e THEN -missing ELSE 0)
                                            + (IF e = e THEN missing ELSE 0)
    BY <1>2, <1>4, <2>1, <2>3
  <2> QED
    BY <1>1, <2>2, <2>4
<1>8. CASE leftover = 0 /\ Post(<< >>)
  <2>1. rows' = rows
    BY <1>1, <1>8, ConcatEmptySeq DEF Post
  <2> QED
    BY <1>8, <2>1
<1> QED
  BY <1>5, <1>6, <1>7, <1>8

\* Only CloseIncidentalAndRoll closes an envelope.
LEMMA OnlyRollCloses ==
  ASSUME TypeOK, [Next]_vars, NEW e \in Incidental, ~Closed(e), Closed(e)'
  PROVE  \E a \in Account, day \in Day : CloseIncidentalAndRoll(e, a, day)
<1>1. envelope[e] # "closed" /\ envelope'[e] = "closed"
  BY DEF Closed
<1>2. envelope' # envelope
  BY <1>1
<1>3. EnvelopeStep
  BY <1>2
  DEF Next, vars, FundStep, SetupRequest, FundRequest, NewAccountRequest, AccountRequest,
      DeleteAccountRequest, PostingStep, TransactionRequest, TransferRequest,
      CorrectionRequest, MoveRequest, DuesRequest, ReversalRequest, CountRequest,
      ClaimStep, NewClaimRequest, ClaimRequest, SettleRequest, DeleteClaimRequest, Tick,
      SetUpFund, CreateAccount, DeleteAccount, RetireAccount, ReinstateAccount,
      UpdateTimeZone, PostTransaction, PostTransferBetweenAccounts, PostPurposeCorrection,
      PostPurposeMove, PostDuesPayments, ReverseTransaction, ReverseDuesPayment,
      TakeReconciliation, CreateReimbursement, UpdateReimbursement, SettleReimbursement,
      DeleteReimbursement
<1>4. ASSUME NEW x \in Incidental, OpenIncidental(x) \/ ReopenIncidental(x)
      PROVE  FALSE
  BY <1>1, <1>4 DEF OpenIncidental, ReopenIncidental, TypeOK
<1>5. ASSUME NEW x \in Incidental, NEW a \in Account, NEW day \in Day,
             CloseIncidentalAndRoll(x, a, day)
      PROVE  x = e
  BY <1>1, <1>5 DEF CloseIncidentalAndRoll, TypeOK
<1> QED
  BY <1>3, <1>4, <1>5 DEF EnvelopeStep, OpenRequest, CloseRequest, ReopenRequest

\* A closed envelope holds nothing, for ever: closing squares it, and nothing
\* that can reach it afterwards changes what it holds.
THEOREM ClosedHoldsNothing == Spec => []ClosedEnvelopeIsZero
<1>1. Init => ClosedEnvelopeIsZero
  BY DEF Init, ClosedEnvelopeIsZero, Closed, Absent
<1>2. TypeOK /\ ClosedEnvelopeIsZero /\ [Next]_vars => ClosedEnvelopeIsZero'
  <2> SUFFICES ASSUME TypeOK, ClosedEnvelopeIsZero, [Next]_vars,
                      NEW e \in Incidental, Closed(e)'
               PROVE  PurposeBalance(rows', e) = 0
    BY DEF ClosedEnvelopeIsZero
  <2>1. CASE Closed(e)
    <3>1. PurposeBalance(rows, e) = 0
      BY <2>1 DEF ClosedEnvelopeIsZero
    <3> QED
      BY <2>1, <3>1, ClosedBalanceStays
  <2>2. CASE ~Closed(e)
    BY <2>2, OnlyRollCloses, ClosingSquares
  <2> QED
    BY <2>1, <2>2
<1> QED
  BY <1>1, <1>2, TypeCorrect, PTL DEF Spec

-----------------------------------------------------------------------------
(* Counts.                                                                  *)

\* What the snapshot's own invariant needs: no count looks past the book.
CutoffsInBook == \A c \in 1..Len(counts) : counts[c].cutoff <= Len(rows)

\* A count's frozen figures can be derived again for ever: no row posted since,
\* whatever day it is dated, comes below the count's cutoff.
THEOREM SnapshotsReproducible == Spec => []SnapshotReproducible
<1> DEFINE IInv == CutoffsInBook /\ SnapshotReproducible
<1>1. Init => IInv
  BY DEF Init, CutoffsInBook, SnapshotReproducible
<1>2. TypeOK /\ IInv /\ [Next]_vars => IInv'
  <2> SUFFICES ASSUME TypeOK, IInv, [Next]_vars
               PROVE  IInv'
    OBVIOUS
  <2>1. PICK batch \in Seq(Row) : rows' = rows \o batch
    BY StepPosts DEF Posts
  <2>2. rows \in Seq(Row) /\ Len(rows) \in Nat /\ Len(rows') = Len(rows) + Len(batch)
          /\ Len(batch) \in Nat
    <3>1. rows \in Seq(Row)
      BY DEF TypeOK
    <3> QED
      BY <2>1, <3>1, LenProperties, ConcatProperties
  <2>3. \A c \in 1..Len(counts) : counts[c].cutoff \in Nat
    <3> DEFINE Snapshot == [cutoff : Nat, at : Nat,
                            lines : UNION {[S -> Line] : S \in SUBSET Account}]
    <3>1. counts \in Seq(Snapshot)
      BY DEF TypeOK
    <3>2. \A count \in Snapshot : count.cutoff \in Nat
      OBVIOUS
    <3> HIDE DEF Snapshot
    <3> QED
      BY <3>1, <3>2, ElementOfSeq
  <2>4. ASSUME NEW c \in 1..Len(counts)
        PROVE  /\ counts[c].cutoff <= Len(rows')
               /\ \A a \in DOMAIN counts[c].lines :
                    AccountBalanceThrough(rows', a, counts[c].cutoff)
                      = counts[c].lines[a].recorded
    BY <2>1, <2>2, <2>3, AccountBalanceThroughConcat DEF CutoffsInBook, SnapshotReproducible
  <2>5. CASE counts' = counts
    BY <2>4, <2>5 DEF CutoffsInBook, SnapshotReproducible
  <2>6. ASSUME NEW count, counts' = Append(counts, count), count.cutoff = Len(rows),
               \A a \in DOMAIN count.lines : count.lines[a].recorded = AccountBalance(rows, a)
        PROVE  IInv'
    <3>1. counts \in Seq([cutoff : Nat, at : Nat,
                          lines : UNION {[S -> Line] : S \in SUBSET Account}])
      BY DEF TypeOK
    <3>2. /\ Len(counts') = Len(counts) + 1 /\ Len(counts) \in Nat
          /\ \A c \in 1..Len(counts) : counts'[c] = counts[c]
          /\ counts'[Len(counts) + 1] = count
      BY <3>1, <2>6, LenProperties
    <3>3. ASSUME NEW a \in DOMAIN count.lines
          PROVE  AccountBalanceThrough(rows', a, count.cutoff) = count.lines[a].recorded
      BY <2>1, <2>2, <2>6, AccountBalanceThroughConcat, AccountBalanceThroughAll
    <3>4. \A c \in 1..Len(counts') : c \in 1..Len(counts) \/ c = Len(counts) + 1
      BY <3>2
    <3>5. count.cutoff <= Len(rows')
      BY <2>2, <2>6
    <3> QED
      BY <2>4, <3>2, <3>3, <3>4, <3>5 DEF CutoffsInBook, SnapshotReproducible
  <2> QED
    BY <2>5, <2>6, StepCounts DEF Counted
<1> QED
  BY <1>1, <1>2, TypeCorrect, PTL DEF Spec

-----------------------------------------------------------------------------
(* Corrections.  A row's corrections are its legs, and a row that is undone *)
(* is never corrected again.                                                *)

\* A row points at rows older than itself.
PointsBack(rs) == \A j \in 1..Len(rs) : rs[j].corrects < j /\ rs[j].reverses < j

\* The fields of the row that undoes row i, and of either leg that corrects it.
IsReversal(row, i) ==
  /\ row.reverses = i /\ row.corrects = NoRow
  /\ row.purpose = EffectivePurpose(rows, i)
  /\ row.account = rows[i].account /\ row.amount = rows[i].amount
  /\ row.direction = Opposite(rows[i].direction)
  /\ row.kind = "adjustment" /\ row.movement = "none" /\ row.claim = NoClaim
  /\ row.payment = NoRow /\ row.occurredOn = ReversalDate(i)
  /\ row.named = rows[i].named
IsCorrection(row, i) ==
  /\ row.corrects = i /\ row.reverses = NoRow
  /\ row.account = rows[i].account /\ row.amount = rows[i].amount
  /\ row.occurredOn = rows[i].occurredOn /\ row.kind = "transfer"
  /\ row.movement = "correction" /\ row.claim = NoClaim /\ row.payment = NoRow
  /\ ~row.named

LEMMA StepGrounded ==
  ASSUME TypeOK, [Next]_vars
  PROVE  \E batch \in Seq(Row) : Grown(rows, batch, rows') /\ Shaped(batch) /\ Grounded(batch)
BY StepPosts DEF Posts, Grown

\* Distinct rows that stand are undone, each by one row.
LEMMA UndoesRows ==
  ASSUME TypeOK, NEW batch \in Seq(Row), Undoes(batch)
  PROVE  /\ \A n \in 1..Len(batch) : \E i \in Ids : Reversible(i) /\ IsReversal(batch[n], i)
         /\ \A m, n \in 1..Len(batch) : batch[m].reverses = batch[n].reverses => m = n
         /\ \A n \in 1..Len(batch), k \in Ids :
              /\ rows[batch[n].reverses].payment # NoRow
              /\ rows[k].payment = rows[batch[n].reverses].payment
              /\ ~Reversed(rows, k)
              => \E m \in 1..Len(batch) : batch[m].reverses = k
<1>0. PICK S \in SUBSET Ids : \E order \in Orders(S) :
        /\ \A i \in S : Reversible(i)
        /\ Entire(S)
        /\ batch = [n \in 1..Len(order) |-> Reversal(order[n])]
  BY DEF Undoes, Ids
<1>1. PICK order \in Orders(S) :
        /\ \A i \in S : Reversible(i)
        /\ Entire(S)
        /\ batch = [n \in 1..Len(order) |-> Reversal(order[n])]
  BY <1>0
<1>2. IsFiniteSet(S)
  <2>1. rows \in Seq(Row)
    BY DEF TypeOK
  <2>2. IsFiniteSet(1..Len(rows))
    BY <2>1, LenProperties, FS_Interval
  <2>3. S \in SUBSET (1..Len(rows))
    BY DEF Ids
  <2> QED
    BY <2>2, <2>3, FS_Subset
<1>3. /\ Len(order) \in Nat /\ \A n \in 1..Len(order) : order[n] \in S
      /\ \A m, n \in 1..Len(order) : order[m] = order[n] => m = n
  BY <1>2, OrdersType, ElementOfSeq
<1>4. Len(batch) = Len(order) /\ \A n \in 1..Len(batch) : batch[n] = Reversal(order[n])
  BY <1>1, <1>3, LenProperties
<1>5. ASSUME NEW n \in 1..Len(batch)
      PROVE  order[n] \in Ids /\ Reversible(order[n]) /\ IsReversal(batch[n], order[n])
  <2>1. order[n] \in Ids /\ Reversible(order[n])
    BY <1>1, <1>3, <1>4
  <2>2. order[n] \in 1..Len(rows)
    BY <2>1 DEF Ids
  <2> QED
    BY <1>4, <2>1, <2>2, ReversalType DEF IsReversal
<1>6. \A m, n \in 1..Len(batch) : batch[m].reverses = batch[n].reverses => m = n
  BY <1>3, <1>4, <1>5 DEF IsReversal
<1>7. ASSUME NEW n \in 1..Len(batch), NEW k \in Ids,
             rows[batch[n].reverses].payment # NoRow,
             rows[k].payment = rows[batch[n].reverses].payment, ~Reversed(rows, k)
      PROVE  \E m \in 1..Len(batch) : batch[m].reverses = k
  <2>1. batch[n].reverses = order[n] /\ order[n] \in S
    BY <1>3, <1>4, <1>5 DEF IsReversal
  <2>2. k \in S
    BY <1>1, <1>7, <2>1 DEF Entire, Ids
  <2>3. PICK m \in 1..Len(order) : order[m] = k
    BY <1>2, <2>2, OrdersType
  <2> QED
    BY <1>4, <1>5, <2>3 DEF IsReversal
<1> QED
  BY <1>5, <1>6, <1>7

\* One row that stands is corrected, by a leg m that brings its money to a new
\* purpose and a leg o that takes it out of the one it was under.
LEMMA CorrectsRows ==
  ASSUME TypeOK, NEW batch \in Seq(Row), Corrects(batch)
  PROVE  \E i \in Ids, target \in Purpose, m, o \in 1..2 :
           /\ Correctable(rows[i]) /\ ~Reversed(rows, i)
           /\ m # o /\ Len(batch) = 2
           /\ IsCorrection(batch[1], i) /\ IsCorrection(batch[2], i)
           /\ batch[m].purpose = target /\ batch[m].direction = rows[i].direction
           /\ batch[o].purpose = EffectivePurpose(rows, i)
           /\ batch[o].direction # rows[i].direction
           /\ target # EffectivePurpose(rows, i)
<1>1. PICK i \in Ids, target \in Purpose :
        /\ Correctable(rows[i]) /\ ~Reversed(rows, i) /\ target # EffectivePurpose(rows, i)
        /\ batch = CorrectionPair(i, EffectivePurpose(rows, i), target)
  BY DEF Corrects, Ids
<1>2. rows[i].direction \in {"in", "out"}
  <2>1. rows[i] \in Row
    BY ElementOfSeq DEF TypeOK, Ids
  <2> QED
    BY <2>1 DEF Row, Direction
<1> DEFINE was == EffectivePurpose(rows, i)
           from == IF rows[i].direction = "out" THEN target ELSE was
           to == IF rows[i].direction = "out" THEN was ELSE target
<1>3. batch = TransferPair(Leg(rows[i].account, from), Leg(rows[i].account, to),
                           rows[i].amount, rows[i].occurredOn, "correction", i)
  BY <1>1 DEF CorrectionPair
<1> HIDE DEF from, to, was
<1>4. /\ Len(batch) = 2 /\ IsCorrection(batch[1], i) /\ IsCorrection(batch[2], i)
      /\ batch[1].purpose = from /\ batch[2].purpose = to
      /\ batch[1].direction = "out" /\ batch[2].direction = "in"
  BY <1>3, PairFields DEF Leg, IsCorrection
<1>5. CASE rows[i].direction = "out"
  <2>1. batch[1].purpose = target /\ batch[2].purpose = was
    BY <1>4, <1>5 DEF from, to
  <2> QED
    BY <1>1, <1>4, <1>5, <2>1 DEF was
<1>6. CASE rows[i].direction = "in"
  <2>1. batch[2].purpose = target /\ batch[1].purpose = was
    BY <1>4, <1>6 DEF from, to
  <2> QED
    BY <1>1, <1>4, <1>6, <2>1 DEF was
<1> QED
  BY <1>2, <1>5, <1>6

LEMMA MovesRows ==
  ASSUME TypeOK, NEW batch, Moves(batch)
  PROVE  /\ Len(batch) = 2
         /\ \A n \in 1..2 :
              /\ batch[n].corrects = NoRow /\ batch[n].reverses = NoRow
              /\ batch[n].claim = NoClaim /\ batch[n].payment = NoRow
              /\ batch[n].kind = "transfer" /\ batch[n].occurredOn \in Day
              /\ batch[n].movement \in {"between_accounts", "allocation", "roll"}
              /\ ~batch[n].named
BY PairFields DEF Moves

LEMMA PaysRows ==
  ASSUME TypeOK, NEW batch, Pays(batch)
  PROVE  /\ Len(batch) = 1
         /\ \E c \in Claim :
              /\ Unsettled(c) /\ claims[c].status # "waived"
              /\ batch[1].claim = c
              /\ batch[1].purpose = claims[c].purpose /\ batch[1].amount = claims[c].amount
              /\ batch[1].direction = "out" /\ batch[1].kind = "reimbursement"
              /\ batch[1].movement = "none" /\ batch[1].occurredOn \in Day
              /\ batch[1].corrects = NoRow /\ batch[1].reverses = NoRow
              /\ batch[1].payment = NoRow /\ ~batch[1].named
BY DEF Pays, Entry

\* What a batch that rests on the book points at: rows of that book.
LEMMA BatchPointsBack ==
  ASSUME TypeOK, NEW batch \in Seq(Row), Grounded(batch), NEW n \in 1..Len(batch)
  PROVE  batch[n].corrects \in 0..Len(rows) /\ batch[n].reverses \in 0..Len(rows)
<1>1. Len(rows) \in Nat
  BY LenProperties DEF TypeOK
<1>2. Ids \subseteq 0..Len(rows) /\ NoRow \in 0..Len(rows)
  BY <1>1 DEF Ids, NoRow
<1>3. CASE \A k \in 1..Len(batch) : Fresh(batch[k])
  BY <1>2, <1>3 DEF Fresh
<1>4. CASE Moves(batch)
  BY <1>2, <1>4, MovesRows
<1>5. CASE Corrects(batch)
  <2>1. PICK i \in Ids : Len(batch) = 2 /\ IsCorrection(batch[1], i) /\ IsCorrection(batch[2], i)
    BY <1>5, CorrectsRows
  <2>2. n = 1 \/ n = 2
    BY <2>1
  <2> QED
    BY <1>2, <2>1, <2>2 DEF IsCorrection
<1>6. CASE Undoes(batch)
  BY <1>2, <1>6, UndoesRows DEF IsReversal
<1>7. CASE Pays(batch)
  <2>0. Len(batch) = 1
    BY <1>7, PaysRows
  <2>1. n = 1
    BY <2>0
  <2> QED
    BY <1>2, <1>7, <2>1, PaysRows
<1> QED
  BY <1>3, <1>4, <1>5, <1>6, <1>7 DEF Grounded

LEMMA StepPointsBack ==
  ASSUME TypeOK, PointsBack(rows), NEW batch \in Seq(Row), NEW all,
         Grown(rows, batch, all), Grounded(batch)
  PROVE  PointsBack(all)
<1>0. rows \in Seq(Row)
  BY DEF TypeOK
<1>1. ASSUME NEW j \in 1..Len(all)
      PROVE  all[j].corrects < j /\ all[j].reverses < j
  <2>1. CASE j \in 1..Len(rows)
    <3>1. all[j] = rows[j]
      BY <1>0, <2>1, BatchRows
    <3> QED
      BY <2>1, <3>1 DEF PointsBack
  <2>2. CASE j \notin 1..Len(rows)
    <3>1. PICK n \in 1..Len(batch) : j = Len(rows) + n
      BY <1>0, <2>2, BatchRows
    <3>2. all[j] = batch[n] /\ Len(rows) \in Nat
      <4>1. all[Len(rows) + n] = batch[n]
        BY <1>0, GrownAt
      <4>2. Len(rows) \in Nat
        BY <1>0, BatchRows
      <4> QED
        BY <3>1, <4>1, <4>2
    <3>3. batch[n].corrects \in 0..Len(rows) /\ batch[n].reverses \in 0..Len(rows)
      BY BatchPointsBack
    <3>4. n \in Nat /\ n >= 1
      OBVIOUS
    <3> QED
      BY <3>1, <3>2, <3>3, <3>4
  <2> QED
    BY <2>1, <2>2
<1> QED
  BY <1>1 DEF PointsBack

\* What a step does to the corrections of a row that was there before it.
LEMMA StepKeepsPath ==
  ASSUME TypeOK, NEW batch \in Seq(Row), NEW all, Grown(rows, batch, all),
         Grounded(batch), NEW i \in Ids, OnePath(rows, i)
  PROVE  OnePath(all, i)
<1>0. rows \in Seq(Row) /\ i \in 1..Len(rows) /\ i # NoRow
  <2>1. rows \in Seq(Row)
    BY DEF TypeOK
  <2> QED
    BY <2>1 DEF Ids, NoRow
<1>1. CASE \A n \in 1..Len(batch) : batch[n].corrects # i
  BY <1>0, <1>1, OnePathStays
<1>2. CASE ~ \A n \in 1..Len(batch) : batch[n].corrects # i
  <2>1. Corrects(batch)
    <3>1. \A n \in 1..Len(batch) : batch[n].corrects = NoRow \/ Corrects(batch)
      <4>1. CASE \A k \in 1..Len(batch) : Fresh(batch[k])
        BY <4>1 DEF Fresh
      <4>2. CASE Moves(batch)
        BY <4>2, MovesRows
      <4>3. CASE Undoes(batch)
        BY <4>3, UndoesRows DEF IsReversal
      <4>4. CASE Pays(batch)
        <5>0. Len(batch) = 1
          BY <4>4, PaysRows
        <5>1. \A n \in 1..Len(batch) : n = 1
          BY <5>0
        <5> QED
          BY <4>4, <5>1, PaysRows
      <4> QED
        BY <4>1, <4>2, <4>3, <4>4 DEF Grounded
    <3> QED
      BY <1>0, <1>2, <3>1
  <2>2. PICK k \in Ids, target \in Purpose, m \in 1..2, o \in 1..2 :
          /\ m # o /\ Len(batch) = 2
          /\ IsCorrection(batch[1], k) /\ IsCorrection(batch[2], k)
          /\ batch[m].purpose = target /\ batch[m].direction = rows[k].direction
          /\ batch[o].purpose = EffectivePurpose(rows, k)
          /\ batch[o].direction # rows[k].direction
          /\ target # EffectivePurpose(rows, k)
    BY <2>1, CorrectsRows
  <2>3. batch[1].corrects = k /\ batch[2].corrects = k
    BY <2>2 DEF IsCorrection
  <2>4. k = i
    <3>1. \A n \in 1..Len(batch) : n = 1 \/ n = 2
      BY <2>2
    <3> QED
      BY <1>2, <2>3, <3>1
  <2> QED
    BY <1>0, <2>2, <2>3, <2>4, OnePathGrows
<1> QED
  BY <1>1, <1>2

\* What is derived of a row is what happened to it: the inductive invariant has
\* every row point back, so that a new row has no corrections yet, and every
\* row's corrections form one path.
Paths == PointsBack(rows) /\ \A i \in Ids : OnePath(rows, i)

LEMMA NewRowHasNoLegs ==
  ASSUME NEW rs \in Seq(Row), NEW batch \in Seq(Row), NEW all, Grown(rs, batch, all),
         PointsBack(rs), NEW i \in 1..Len(all), i \notin 1..Len(rs),
         \A n \in 1..Len(batch) : /\ batch[n].corrects \in 0..Len(rs)
                                  /\ batch[n].reverses \in 0..Len(rs)
  PROVE  CorrectionLegs(all, i) = {} /\ ~Reversed(all, i)
<1>1. i > Len(rs) /\ Len(rs) \in Nat
  BY BatchRows
<1>2. ASSUME NEW j \in 1..Len(all)
      PROVE  all[j].corrects # i /\ all[j].reverses # i
  <2>1. CASE j \in 1..Len(rs)
    <3>1. all[j] = rs[j] /\ rs[j].corrects < j /\ rs[j].reverses < j
      <4>1. all[j] = rs[j]
        BY <2>1, BatchRows
      <4> QED
        BY <2>1, <4>1 DEF PointsBack
    <3>2. rs[j].corrects \in Nat /\ rs[j].reverses \in Nat
      <4>1. rs[j] \in Row
        BY <2>1, ElementOfSeq
      <4> QED
        BY <4>1 DEF Row
    <3> QED
      BY <1>1, <2>1, <3>1, <3>2
  <2>2. CASE j \notin 1..Len(rs)
    <3>1. PICK n \in 1..Len(batch) : j = Len(rs) + n
      BY <2>2, BatchRows
    <3>2. all[Len(rs) + n] = batch[n]
      BY GrownAt
    <3> QED
      BY <1>1, <3>1, <3>2
  <2> QED
    BY <2>1, <2>2
<1> QED
  BY <1>2 DEF CorrectionLegs, Reversed

LEMMA StepPaths ==
  ASSUME TypeOK, Paths, NEW batch \in Seq(Row), NEW all,
         Grown(rows, batch, all), Grounded(batch)
  PROVE  PointsBack(all) /\ \A i \in 1..Len(all) : OnePath(all, i)
<1>0. rows \in Seq(Row) /\ all \in Seq(Row)
  <2>1. rows \in Seq(Row)
    BY DEF TypeOK
  <2> QED
    BY <2>1, BatchRows
<1>1. PointsBack(all)
  BY StepPointsBack DEF Paths
<1>2. ASSUME NEW i \in 1..Len(all)
      PROVE  OnePath(all, i)
  <2>1. CASE i \in 1..Len(rows)
    BY <2>1, StepKeepsPath DEF Paths, Ids
  <2>2. CASE i \notin 1..Len(rows)
    <3>1. CorrectionLegs(all, i) = {}
      BY <1>0, <2>2, BatchPointsBack, NewRowHasNoLegs DEF Paths
    <3> QED
      BY <1>0, <3>1, NoCorrectionOnePath
  <2> QED
    BY <2>1, <2>2
<1> QED
  BY <1>1, <1>2

LEMMA PathsHold == Spec => [](TypeOK /\ Paths)
<1>1. Init => Paths
  BY DEF Init, Paths, PointsBack, Ids
<1>2. TypeOK /\ Paths /\ [Next]_vars => Paths'
  <2> SUFFICES ASSUME TypeOK, Paths, [Next]_vars PROVE Paths'
    OBVIOUS
  <2>1. PICK batch \in Seq(Row) : Grown(rows, batch, rows') /\ Grounded(batch)
    BY StepGrounded
  <2>2. PointsBack(rows') /\ \A i \in 1..Len(rows') : OnePath(rows', i)
    BY <2>1, StepPaths
  <2> QED
    BY <2>2 DEF Paths, Ids
<1> QED
  BY <1>1, <1>2, TypeCorrect, PTL DEF Spec

\* The view's count of arrivals names the purpose of the last correction, and
\* only that one, after any history of postings, corrections and reversals.
THEOREM LastTargetCounts == Spec => []EffectivePurposeIsLastTarget
<1>1. TypeOK /\ Paths => EffectivePurposeIsLastTarget
  <2> SUFFICES ASSUME TypeOK, Paths, NEW i \in Ids
               PROVE  LET legs == CorrectionLegs(rows, i)
                          last == {j \in legs : rows[j].direction = rows[i].direction
                                     /\ \A k \in legs :
                                          rows[k].direction = rows[i].direction => k <= j}
                      IN  /\ Cardinality(PathEnds(rows, i)) <= 1
                          /\ legs # {} => \E j \in last :
                                            EffectivePurpose(rows, i) = rows[j].purpose
    BY DEF EffectivePurposeIsLastTarget
  <2>1. OnePath(rows, i) /\ rows \in Seq(Row)
    BY DEF Paths, TypeOK
  <2>2. Cardinality(PathEnds(rows, i)) <= 1
    BY <2>1, OnePathOneEnd
  <2> QED
    BY <2>1, <2>2 DEF OnePath
<1> QED
  BY <1>1, PathsHold, PTL

-----------------------------------------------------------------------------
(* Claims.                                                                  *)

\* A step changes a claim only while nobody has paid it, and then posts nothing.
LEMMA StepClaims ==
  ASSUME TypeOK, [Next]_vars, NEW c \in Claim, claims'[c] # claims[c]
  PROVE  rows' = rows /\ (claims[c].status = Absent \/ ~Settled(c))
<1>1. claims' # claims
  OBVIOUS
<1>2. ClaimStep
  BY <1>1
  DEF Next, vars, FundStep, SetupRequest, FundRequest, NewAccountRequest, AccountRequest,
      DeleteAccountRequest, PostingStep, TransactionRequest, TransferRequest,
      CorrectionRequest, MoveRequest, DuesRequest, ReversalRequest, CountRequest,
      EnvelopeStep, OpenRequest, CloseRequest, ReopenRequest, Tick,
      SetUpFund, CreateAccount, DeleteAccount, RetireAccount, ReinstateAccount,
      UpdateTimeZone, PostTransaction, PostTransferBetweenAccounts, PostPurposeCorrection,
      PostPurposeMove, PostDuesPayments, ReverseTransaction, ReverseDuesPayment,
      OpenIncidental, ReopenIncidental, CloseIncidentalAndRoll, TakeReconciliation
<1>3. ASSUME NEW k \in Claim, NEW p, NEW amount, NEW status,
             \/ CreateReimbursement(k, p, amount)
             \/ UpdateReimbursement(k, p, amount, status)
             \/ DeleteReimbursement(k)
      PROVE  rows' = rows /\ (claims[c].status = Absent \/ ~Settled(c))
  <2>1. rows' = rows /\ (claims[k].status = Absent \/ ~Settled(k))
    BY <1>3
    DEF CreateReimbursement, UpdateReimbursement, DeleteReimbursement, Unsettled
  <2>2. \E claim : claims' = [claims EXCEPT ![k] = claim]
    BY <1>3 DEF CreateReimbursement, UpdateReimbursement, DeleteReimbursement
  <2>3. k = c
    BY <2>2 DEF TypeOK
  <2> QED
    BY <2>1, <2>3
<1>4. ASSUME NEW k \in Claim, NEW a, NEW day, SettleReimbursement(k, a, day)
      PROVE  FALSE
  BY <1>1, <1>4 DEF SettleReimbursement
<1> QED
  BY <1>2, <1>3, <1>4
  DEF ClaimStep, NewClaimRequest, ClaimRequest, SettleRequest, DeleteClaimRequest

\* Every payout agrees with a pending claim that no other row pays.
PaidOnce ==
  \A i \in Ids : rows[i].claim # NoClaim =>
    /\ claims[rows[i].claim].status = "pending"
    /\ rows[i].amount = claims[rows[i].claim].amount
    /\ rows[i].purpose = claims[rows[i].claim].purpose
    /\ \A j \in Ids : rows[j].claim = rows[i].claim => i = j

\* Only a payout carries a claim.
LEMMA OnlyPaysCarriesClaim ==
  ASSUME TypeOK, NEW batch \in Seq(Row), Grounded(batch), NEW n \in 1..Len(batch),
         batch[n].claim # NoClaim
  PROVE  Pays(batch) /\ n = 1
<1>1. CASE \A k \in 1..Len(batch) : Fresh(batch[k])
  BY <1>1 DEF Fresh
<1>2. CASE Moves(batch)
  BY <1>2, MovesRows
<1>3. CASE Corrects(batch)
  <2>1. PICK i \in Ids : Len(batch) = 2 /\ IsCorrection(batch[1], i) /\ IsCorrection(batch[2], i)
    BY <1>3, CorrectsRows
  <2>2. n = 1 \/ n = 2
    BY <2>1
  <2> QED
    BY <2>1, <2>2 DEF IsCorrection
<1>4. CASE Undoes(batch)
  BY <1>4, UndoesRows DEF IsReversal
<1>5. CASE Pays(batch)
  BY <1>5, PaysRows
<1> QED
  BY <1>1, <1>2, <1>3, <1>4, <1>5 DEF Grounded

LEMMA StepPaidOnce == TypeOK /\ PaidOnce /\ [Next]_vars => PaidOnce'
<1> SUFFICES ASSUME TypeOK, PaidOnce, [Next]_vars PROVE PaidOnce'
  OBVIOUS
<1>1. PICK batch \in Seq(Row) : Grown(rows, batch, rows') /\ Grounded(batch)
  BY StepGrounded
<1>2. rows \in Seq(Row)
  BY DEF TypeOK
<1>3. /\ \A j \in Ids : rows'[j] = rows[j]
      /\ \A j \in 1..Len(rows') : j \in Ids \/ \E n \in 1..Len(batch) : j = Len(rows) + n
  <2>1. \A j \in 1..Len(rows) : rows'[j] = rows[j]
    BY <1>1, <1>2, BatchRows
  <2>2. \A j \in 1..Len(rows') :
          j \in 1..Len(rows) \/ \E n \in 1..Len(batch) : j = Len(rows) + n
    BY <1>1, <1>2, BatchRows
  <2> QED
    BY <2>1, <2>2 DEF Ids
<1>4. \A n \in 1..Len(batch) : rows'[Len(rows) + n] = batch[n]
  BY <1>1, <1>2, GrownAt
<1>5. \A j \in Ids : rows[j].claim \in Claim \cup {NoClaim}
  <2>1. \A j \in Ids : rows[j] \in Row
    BY <1>2, ElementOfSeq DEF Ids
  <2> QED
    BY <2>1 DEF Row
\* Claims that rows already pay are as they were.
<1>6. \A j \in Ids : rows[j].claim # NoClaim => claims'[rows[j].claim] = claims[rows[j].claim]
  <2> SUFFICES ASSUME NEW j \in Ids, rows[j].claim # NoClaim,
                      claims'[rows[j].claim] # claims[rows[j].claim]
               PROVE  FALSE
    OBVIOUS
  <2>1. rows[j].claim \in Claim
    BY <1>5
  <2>2. claims[rows[j].claim].status = Absent \/ ~Settled(rows[j].claim)
    BY <2>1, StepClaims
  <2>3. Settled(rows[j].claim)
    BY DEF Settled, Ids
  <2> QED
    BY <2>2, <2>3 DEF PaidOnce, Absent
\* A new row that pays one is its first and finds it pending.
<1>7. ASSUME NEW n \in 1..Len(batch), batch[n].claim # NoClaim
      PROVE  /\ n = 1 /\ Len(batch) = 1
             /\ claims'[batch[n].claim].status = "pending"
             /\ batch[n].amount = claims'[batch[n].claim].amount
             /\ batch[n].purpose = claims'[batch[n].claim].purpose
             /\ \A j \in Ids : rows[j].claim # batch[n].claim
  <2>1. Pays(batch) /\ n = 1
    BY <1>1, <1>7, OnlyPaysCarriesClaim
  <2>2. PICK c \in Claim :
          /\ Unsettled(c) /\ claims[c].status # "waived" /\ batch[1].claim = c
          /\ batch[1].purpose = claims[c].purpose /\ batch[1].amount = claims[c].amount
    BY <2>1, PaysRows
  <2>3. claims[c].status = "pending" /\ \A j \in Ids : rows[j].claim # c
    <3>1. claims[c].status \in {Absent, "pending", "waived"}
      BY DEF TypeOK
    <3> QED
      BY <2>2, <3>1 DEF Unsettled, Settled, Ids
  <2>4. Len(batch) = 1
    BY <2>1, PaysRows
  <2>5. rows' # rows
    <3>1. Len(rows') = Len(rows) + Len(batch) /\ Len(rows) \in Nat
      BY <1>1, <1>2, BatchRows
    <3> QED
      BY <2>4, <3>1
  <2>6. claims'[c] = claims[c]
    BY <2>5, StepClaims
  <2> QED
    BY <2>1, <2>2, <2>3, <2>4, <2>6
<1> SUFFICES ASSUME NEW i \in 1..Len(rows'), rows'[i].claim # NoClaim
             PROVE  /\ claims'[rows'[i].claim].status = "pending"
                    /\ rows'[i].amount = claims'[rows'[i].claim].amount
                    /\ rows'[i].purpose = claims'[rows'[i].claim].purpose
                    /\ \A j \in 1..Len(rows') : rows'[j].claim = rows'[i].claim => i = j
  BY DEF PaidOnce, Ids
<1>8. CASE i \in Ids
  <2>1. /\ rows'[i] = rows[i] /\ rows[i].claim # NoClaim
        /\ claims'[rows[i].claim] = claims[rows[i].claim]
    BY <1>3, <1>6, <1>8
  <2>2. ASSUME NEW j \in 1..Len(rows'), rows'[j].claim = rows[i].claim
        PROVE  i = j
    <3>1. CASE j \in Ids
      BY <1>3, <1>8, <2>1, <2>2, <3>1 DEF PaidOnce
    <3>2. CASE j \notin Ids
      <4>1. PICK n \in 1..Len(batch) : j = Len(rows) + n
        BY <1>3, <3>2
      <4>2. batch[n].claim = rows[i].claim
        BY <1>4, <2>2, <4>1
      <4> QED
        BY <1>7, <1>8, <2>1, <4>2
    <3> QED
      BY <3>1, <3>2
  <2> QED
    BY <1>8, <2>1, <2>2 DEF PaidOnce
<1>9. CASE i \notin Ids
  <2>1. PICK n \in 1..Len(batch) : i = Len(rows) + n
    BY <1>3, <1>9
  <2>2. rows'[i] = batch[n] /\ batch[n].claim # NoClaim
    BY <1>4, <2>1
  <2>3. ASSUME NEW j \in 1..Len(rows'), rows'[j].claim = batch[n].claim
        PROVE  i = j
    <3>1. CASE j \in Ids
      BY <1>3, <1>7, <2>2, <2>3, <3>1
    <3>2. CASE j \notin Ids
      <4>1. PICK k \in 1..Len(batch) : j = Len(rows) + k
        BY <1>3, <3>2
      <4>2. batch[k].claim # NoClaim
        BY <1>4, <2>2, <2>3, <4>1
      <4> QED
        BY <1>7, <2>1, <2>2, <4>1, <4>2
    <3> QED
      BY <3>1, <3>2
  <2> QED
    BY <1>7, <2>2, <2>3
<1> QED
  BY <1>8, <1>9

LEMMA AlwaysPaidOnce == Spec => []PaidOnce
<1>1. Init => PaidOnce
  BY DEF Init, PaidOnce, Ids
<1> QED
  BY <1>1, StepPaidOnce, TypeCorrect, PTL DEF Spec

\* A paid claim and the row that paid it agree for ever: no later edit, waiver
\* or deletion reaches a claim somebody paid, and nobody pays it again.
THEOREM PayoutsMatchClaims == Spec => []PayoutMatchesClaim
<1>1. TypeOK /\ PaidOnce => PayoutMatchesClaim
  <2> SUFFICES ASSUME TypeOK, PaidOnce, NEW c \in Claim
               PROVE  LET payouts == {i \in Ids : rows[i].claim = c}
                      IN  /\ Cardinality(payouts) <= 1
                          /\ \A i \in payouts : /\ claims[c].status = "pending"
                                                /\ rows[i].amount = claims[c].amount
                                                /\ rows[i].purpose = claims[c].purpose
    BY DEF PayoutMatchesClaim
  <2> DEFINE payouts == {i \in Ids : rows[i].claim = c}
  <2>1. c # NoClaim
    BY NoClaimAssumption
  <2>2. \A i, j \in payouts : i = j
    BY <2>1 DEF PaidOnce
  <2>3. \A i \in payouts : /\ claims[c].status = "pending"
                           /\ rows[i].amount = claims[c].amount
                           /\ rows[i].purpose = claims[c].purpose
    BY <2>1 DEF PaidOnce
  <2> HIDE DEF payouts
  <2>4. Cardinality(payouts) <= 1
    BY <2>2, AtMostOne
  <2> QED
    BY <2>3, <2>4 DEF payouts
<1> QED
  BY <1>1, TypeCorrect, AlwaysPaidOnce, PTL

-----------------------------------------------------------------------------
(* Reversals.                                                               *)

\* What a step does to a row that was there: nothing, or it lengthens the path
\* of its corrections, or it undoes it.
LEMMA StepKeepsSquared ==
  ASSUME TypeOK, Paths, NEW batch \in Seq(Row), NEW all, Grown(rows, batch, all),
         Grounded(batch), NEW i \in Ids, Squared(rows, i)
  PROVE  Squared(all, i)
<1>0. rows \in Seq(Row) /\ i \in 1..Len(rows) /\ i # NoRow /\ OnePath(rows, i)
  <2>1. rows \in Seq(Row)
    BY DEF TypeOK
  <2> QED
    BY <2>1 DEF Ids, NoRow, Paths
<1>1. CASE \A n \in 1..Len(batch) : batch[n].corrects # i /\ batch[n].reverses # i
  BY <1>0, <1>1, SquaredStays
<1>2. CASE Corrects(batch) /\ ~ \A n \in 1..Len(batch) : batch[n].corrects # i
                                                            /\ batch[n].reverses # i
  <2>2. PICK k \in Ids, target \in Purpose, m \in 1..2, o \in 1..2 :
          /\ Correctable(rows[k]) /\ ~Reversed(rows, k)
          /\ m # o /\ Len(batch) = 2
          /\ IsCorrection(batch[1], k) /\ IsCorrection(batch[2], k)
          /\ batch[m].purpose = target /\ batch[m].direction = rows[k].direction
          /\ batch[o].purpose = EffectivePurpose(rows, k)
          /\ batch[o].direction # rows[k].direction
          /\ target # EffectivePurpose(rows, k)
    BY <1>2, CorrectsRows
  <2>3. batch[1].corrects = k /\ batch[2].corrects = k
    BY <2>2 DEF IsCorrection
  <2>4. \A n \in 1..2 : n = 1 \/ n = 2
    OBVIOUS
  <2>5. k = i
    BY <1>0, <1>2, <2>2, <2>4 DEF IsCorrection
  <2>6. EffectivePurpose(all, i) = target
    BY <1>0, <2>2, <2>3, <2>5, OnePathGrows
  <2>7. Amends(rows, i, batch, m, o)
    BY <1>0, <2>2, <2>4, <2>5 DEF Amends, IsCorrection
  <2> QED
    BY <1>0, <2>2, <2>5, <2>6, <2>7, SquaredCorrected
<1>3. CASE Undoes(batch) /\ ~ \A n \in 1..Len(batch) : batch[n].corrects # i
                                                          /\ batch[n].reverses # i
  <2>1. /\ \A n \in 1..Len(batch) : \E j \in Ids : Reversible(j) /\ IsReversal(batch[n], j)
        /\ \A m, n \in 1..Len(batch) : batch[m].reverses = batch[n].reverses => m = n
    BY <1>3, UndoesRows
  <2>2. PICK k \in 1..Len(batch) : batch[k].reverses = i
    BY <1>0, <1>3, <2>1 DEF IsReversal
  <2>3. Reversible(i) /\ IsReversal(batch[k], i)
    BY <2>1, <2>2 DEF IsReversal
  <2>4. ~Reversed(rows, i)
    BY <2>3 DEF Reversible, Undoable
  <2>5. batch[k].direction # rows[i].direction
    <3>1. rows[i].direction \in {"in", "out"}
      <4>1. rows[i] \in Row
        BY <1>0, ElementOfSeq
      <4> QED
        BY <4>1 DEF Row, Direction
    <3> QED
      BY <2>3, <3>1 DEF IsReversal, Opposite
  <2>6. \A n \in 1..Len(batch) : batch[n].corrects # i /\ (batch[n].reverses = i <=> n = k)
    <3>1. \A n \in 1..Len(batch) : batch[n].corrects = NoRow
      BY <2>1 DEF IsReversal
    <3>2. \A n \in 1..Len(batch) : batch[n].reverses = i => n = k
      BY <2>1, <2>2
    <3> QED
      BY <1>0, <2>2, <3>1, <3>2
  <2>7. Undoing(rows, i, batch, k)
    BY <2>3, <2>5, <2>6 DEF Undoing, IsReversal
  <2> QED
    BY <1>0, <2>4, <2>7, SquaredUndone
<1>4. CASE ~Corrects(batch) /\ ~Undoes(batch)
  <2>1. CASE \A n \in 1..Len(batch) : Fresh(batch[n])
    BY <1>0, <1>1, <2>1 DEF Fresh
  <2>2. CASE Moves(batch)
    BY <1>0, <1>1, <2>2, MovesRows
  <2>3. CASE Pays(batch)
    <3>1. Len(batch) = 1 /\ batch[1].corrects = NoRow /\ batch[1].reverses = NoRow
      BY <2>3, PaysRows
    <3>2. \A n \in 1..Len(batch) : batch[n].corrects = NoRow /\ batch[n].reverses = NoRow
      BY <3>1
    <3> QED
      BY <1>0, <1>1, <3>2
  <2> QED
    BY <1>4, <2>1, <2>2, <2>3 DEF Grounded
<1> QED
  BY <1>1, <1>2, <1>3, <1>4

\* Every row is squared.  A new row has nothing against it, since every row
\* points back; from there each step keeps it squared.
AllSquared == \A i \in Ids : Squared(rows, i)

LEMMA AlwaysSquared == Spec => []AllSquared
<1>1. Init => AllSquared
  BY DEF Init, Ids, AllSquared
<1>2. TypeOK /\ Paths /\ AllSquared /\ [Next]_vars => AllSquared'
  <2> SUFFICES ASSUME TypeOK, Paths, AllSquared, [Next]_vars PROVE AllSquared'
    OBVIOUS
  <2>1. PICK batch \in Seq(Row) : Grown(rows, batch, rows') /\ Grounded(batch)
    BY StepGrounded
  <2>2. rows \in Seq(Row) /\ rows' \in Seq(Row)
    <3>1. rows \in Seq(Row)
      BY DEF TypeOK
    <3> QED
      BY <2>1, <3>1, BatchRows
  <2>3. ASSUME NEW i \in 1..Len(rows')
        PROVE  Squared(rows', i)
    <3>1. CASE i \in Ids
      BY <2>1, <3>1, StepKeepsSquared DEF AllSquared
    <3>2. CASE i \notin Ids
      <4>1. \A n \in 1..Len(batch) : /\ batch[n].corrects \in 0..Len(rows)
                                     /\ batch[n].reverses \in 0..Len(rows)
        BY <2>1, BatchPointsBack
      <4>2. CorrectionLegs(rows', i) = {} /\ ~Reversed(rows', i)
        BY <2>1, <2>2, <3>2, <4>1, NewRowHasNoLegs DEF Paths, Ids
      <4> QED
        BY <2>2, <4>2, NewSquared
    <3> QED
      BY <3>1, <3>2
  <2> QED
    BY <2>3 DEF Ids, AllSquared
<1> QED
  BY <1>1, <1>2, PathsHold, PTL DEF Spec

\* A reversal undoes its row whole, wherever corrections had moved it by then,
\* and no row is undone twice.
THEOREM ReversalsUndo == Spec => []ReversalUndoes
<1>1. TypeOK /\ AllSquared => ReversalUndoes
  <2> SUFFICES ASSUME TypeOK, AllSquared, NEW i \in Ids, Reversed(rows, i)
               PROVE  /\ Cardinality({j \in Ids : rows[j].reverses = i}) = 1
                      /\ \A p \in Purpose : Net(rows, Consequences(i) \cap Tagged(rows, p)) = 0
                      /\ \A a \in Account : Net(rows, Consequences(i) \cap Located(rows, a)) = 0
    BY DEF ReversalUndoes
  <2>1. Squared(rows, i) /\ Standing(rows, i) = 0
    BY DEF Standing, AllSquared
  <2>2. Consequences(i) = Outcome(rows, i)
    BY DEF Consequences, Outcome, Ids
  <2> DEFINE undone == {j \in Ids : rows[j].reverses = i}
  <2>3. (\A j, k \in undone : j = k) /\ undone # {}
    BY <2>1 DEF Squared, Ids, Reversed
  <2> HIDE DEF undone
  <2>4. Cardinality(undone) = 1
    BY <2>3, AtMostOne
  <2> QED
    BY <2>1, <2>2, <2>4 DEF Squared, undone
<1> QED
  BY <1>1, AlwaysSquared, TypeCorrect, PTL

-----------------------------------------------------------------------------
(* What an occasion collected and disbursed.                                *)

\* A row stands for itself, or moves or undoes one that does.
Original(row) == row.kind # "transfer" /\ row.reverses = NoRow

Belongs(rs, row) ==
  /\ row.occurredOn <= DayAt(MaxClock, 1)
  /\ row.corrects = NoRow \/ row.reverses = NoRow
  /\ row.corrects # NoRow =>
       /\ row.kind = "transfer" /\ row.movement = "correction"
       /\ row.corrects \in 1..Len(rs) /\ Original(rs[row.corrects])
  /\ row.reverses # NoRow =>
       /\ row.kind = "adjustment" /\ row.movement = "none"
       /\ row.reverses \in 1..Len(rs) /\ Original(rs[row.reverses])
       /\ row.amount = rs[row.reverses].amount
       /\ row.direction = Opposite(rs[row.reverses].direction)
  /\ row.corrects = NoRow /\ row.reverses = NoRow =>
       IF row.kind = "transfer" THEN row.movement \in {"between_accounts", "allocation", "roll"}
       ELSE row.movement = "none"

AllBelong(rs) == \A j \in 1..Len(rs) : Belongs(rs, rs[j])

\* A row stays what it is when rows are added.
LEMMA BelongsStill ==
  ASSUME NEW rs \in Seq(Row), NEW batch \in Seq(Row), NEW all, Grown(rs, batch, all),
         NEW row, Belongs(rs, row)
  PROVE  Belongs(all, row)
<1>1. \A i \in 1..Len(rs) : all[i] = rs[i] /\ i \in 1..Len(all)
  BY BatchRows
<1> QED
  BY <1>1 DEF Belongs

\* The dates of a step are within the days that can come.
LEMMA DaysEnd ==
  ASSUME TypeOK, clock <= MaxClock
  PROVE  /\ Today \in Nat /\ Today <= DayAt(MaxClock, 1)
         /\ \A day \in Day : day <= DayAt(MaxClock, 1)
<1>1. zone \in {0, 1} /\ clock \in Nat /\ MaxClock \in Nat
  BY ZonesAssumption, BoundsAssumption DEF TypeOK
<1>2. (clock + zone) \div 2 \in Nat /\ (clock + zone) \div 2 <= (MaxClock + 1) \div 2
      /\ (MaxClock + 1) \div 2 \in Nat
  BY <1>1
<1> QED
  BY <1>2 DEF Today, DayAt, Day

LEMMA BatchBelongs ==
  ASSUME TypeOK, clock <= MaxClock, AllBelong(rows), NEW batch \in Seq(Row),
         Grounded(batch), NEW n \in 1..Len(batch)
  PROVE  Belongs(rows, batch[n])
<1>0. /\ \A day \in Day : day <= DayAt(MaxClock, 1)
      /\ Today <= DayAt(MaxClock, 1)
  BY DaysEnd
<1>1. CASE \A k \in 1..Len(batch) : Fresh(batch[k])
  BY <1>0, <1>1 DEF Fresh, Belongs
<1>2. CASE Moves(batch)
  <2>0. Len(batch) = 2
    BY <1>2, MovesRows
  <2>1. n = 1 \/ n = 2
    BY <2>0
  <2> QED
    BY <1>0, <1>2, <2>1, MovesRows DEF Belongs
<1>3. CASE Corrects(batch)
  <2>1. PICK i \in Ids : /\ Correctable(rows[i]) /\ Len(batch) = 2
                         /\ IsCorrection(batch[1], i) /\ IsCorrection(batch[2], i)
    BY <1>3, CorrectsRows
  <2>2. IsCorrection(batch[n], i)
    <3>1. n = 1 \/ n = 2
      BY <2>1
    <3> QED
      BY <2>1, <3>1
  <2>3. i \in 1..Len(rows) /\ Belongs(rows, rows[i])
    BY DEF AllBelong, Ids
  <2>4. Original(rows[i]) /\ rows[i].occurredOn <= DayAt(MaxClock, 1)
    BY <2>1, <2>3 DEF Correctable, Belongs, Original
  <2> QED
    BY <2>2, <2>3, <2>4 DEF Belongs, IsCorrection, NoRow
<1>4. CASE Undoes(batch)
  <2>1. PICK i \in Ids : Reversible(i) /\ IsReversal(batch[n], i)
    BY <1>4, UndoesRows
  <2>2. i \in 1..Len(rows) /\ Belongs(rows, rows[i])
    BY DEF AllBelong, Ids
  <2>3. Original(rows[i]) /\ rows[i].occurredOn <= DayAt(MaxClock, 1)
    BY <2>1, <2>2 DEF Reversible, Undoable, Belongs, Original
  <2>4. ReversalDate(i) <= DayAt(MaxClock, 1)
    BY <1>0, <2>3 DEF ReversalDate
  <2> QED
    BY <2>1, <2>2, <2>3, <2>4 DEF Belongs, IsReversal, NoRow
<1>5. CASE Pays(batch)
  <2>0. Len(batch) = 1
    BY <1>5, PaysRows
  <2>1. n = 1
    BY <2>0
  <2> QED
    BY <1>0, <1>5, <2>1, PaysRows DEF Belongs
<1> QED
  BY <1>1, <1>2, <1>3, <1>4, <1>5 DEF Grounded

Belonging == clock <= MaxClock /\ AllBelong(rows)

LEMMA AlwaysBelong == Spec => []Belonging
<1>1. Init => Belonging
  BY BoundsAssumption DEF Init, Belonging, AllBelong
<1>2. TypeOK /\ Belonging /\ [Next]_vars => Belonging'
  <2> SUFFICES ASSUME TypeOK, clock <= MaxClock, AllBelong(rows), [Next]_vars
               PROVE  Belonging'
    BY DEF Belonging
  <2>0. rows \in Seq(Row)
    BY DEF TypeOK
  <2>1. clock' <= MaxClock
    <3>1. Tick \/ clock' = clock
      BY DEF Next, vars, FundStep, PostingStep, EnvelopeStep, ClaimStep, CountRequest,
             SetupRequest, FundRequest, NewAccountRequest, AccountRequest, DeleteAccountRequest,
             TransactionRequest, TransferRequest, CorrectionRequest, MoveRequest, DuesRequest,
             ReversalRequest, OpenRequest, CloseRequest, ReopenRequest, NewClaimRequest,
             ClaimRequest, SettleRequest, DeleteClaimRequest,
             SetUpFund, CreateAccount, DeleteAccount, RetireAccount, ReinstateAccount,
             UpdateTimeZone, PostTransaction, PostTransferBetweenAccounts,
             PostPurposeCorrection, PostPurposeMove, OpenIncidental, CloseIncidentalAndRoll,
             ReopenIncidental, PostDuesPayments, ReverseTransaction, ReverseDuesPayment,
             TakeReconciliation, CreateReimbursement, UpdateReimbursement,
             SettleReimbursement, DeleteReimbursement
    <3> QED
      BY <3>1, BoundsAssumption DEF Tick, TypeOK
  <2>2. PICK batch \in Seq(Row) : Grown(rows, batch, rows') /\ Grounded(batch)
    BY StepGrounded
  <2>3. ASSUME NEW j \in 1..Len(rows')
        PROVE  Belongs(rows', rows'[j])
    <3>1. CASE j \in 1..Len(rows)
      <4>1. rows'[j] = rows[j]
        BY <2>0, <2>2, <3>1, BatchRows
      <4> QED
        BY <2>0, <2>2, <3>1, <4>1, BelongsStill DEF AllBelong
    <3>2. CASE j \notin 1..Len(rows)
      <4>1. PICK n \in 1..Len(batch) : j = Len(rows) + n
        BY <2>0, <2>2, <3>2, BatchRows
      <4>2. rows'[j] = batch[n]
        BY <2>0, <2>2, <4>1, GrownAt
      <4> QED
        BY <2>0, <2>2, <4>2, BatchBelongs, BelongsStill
    <3> QED
      BY <3>1, <3>2
  <2> QED
    BY <2>1, <2>3 DEF AllBelong, Belonging
<1> QED
  BY <1>1, <1>2, TypeCorrect, PTL DEF Spec

\* The row a row belongs to, and the rows of an envelope that belong to the
\* originals of one direction among the first n rows.
Root(rs, j) == IF Pointed(rs[j]) = NoRow THEN j ELSE Pointed(rs[j])
Gathered(rs, e, direction, n) ==
  {j \in Tagged(rs, e) : /\ rs[j].movement \in {"none", "correction"}
                         /\ Root(rs, j) \in 1..n /\ rs[Root(rs, j)].direction = direction}
\* The originals that stand, under the envelope they are under now.
Stood(rs, e, direction, n) ==
  {i \in 1..n : /\ Original(rs[i]) /\ ~Reversed(rs, i)
                /\ EffectivePurpose(rs, i) = e /\ rs[i].direction = direction}

\* What became of an original is what belongs to it; nothing belongs to another row.
LEMMA RootsAre ==
  ASSUME NEW rs \in Seq(Row), AllBelong(rs), NEW i \in 1..Len(rs), NEW j \in 1..Len(rs)
  PROVE  /\ Original(rs[i]) =>
              (j \in Outcome(rs, i) <=> /\ rs[j].movement \in {"none", "correction"}
                                        /\ Root(rs, j) = i)
         /\ rs[j].movement \in {"none", "correction"} => Original(rs[Root(rs, j)])
         /\ Root(rs, j) \in 1..Len(rs)
         /\ rs[j].movement \in {"allocation", "between_accounts", "roll"} =>
              Root(rs, j) = j /\ ~Original(rs[j])
<1>1. Belongs(rs, rs[j]) /\ Belongs(rs, rs[i])
  BY DEF AllBelong
<1>2. i # NoRow /\ j # NoRow
  BY DEF NoRow
<1>3. CASE rs[j].corrects # NoRow
  <2>1. Root(rs, j) = rs[j].corrects
    BY <1>3 DEF Root, Pointed
  <2>2. ~Original(rs[j])
    BY <1>1, <1>3 DEF Belongs, Original
  <2> QED
    BY <1>1, <1>2, <1>3, <2>1, <2>2 DEF Belongs, Outcome, CorrectionLegs
<1>4. CASE rs[j].corrects = NoRow /\ rs[j].reverses # NoRow
  <2>1. Root(rs, j) = rs[j].reverses
    BY <1>4 DEF Root, Pointed
  <2>2. ~Original(rs[j])
    BY <1>1, <1>4 DEF Belongs, Original
  <2> QED
    BY <1>1, <1>2, <1>4, <2>1, <2>2 DEF Belongs, Outcome, CorrectionLegs
<1>5. CASE rs[j].corrects = NoRow /\ rs[j].reverses = NoRow
  <2>1. Root(rs, j) = j
    BY <1>5 DEF Root, Pointed
  <2>2. j \in Outcome(rs, i) <=> j = i
    BY <1>2, <1>5 DEF Outcome, CorrectionLegs
  <2>3. IF rs[j].kind = "transfer" THEN rs[j].movement \in {"between_accounts", "allocation", "roll"}
        ELSE rs[j].movement = "none"
    BY <1>1, <1>5 DEF Belongs
  <2>4. Original(rs[j]) <=> rs[j].kind # "transfer"
    BY <1>5 DEF Original
  <2> QED
    BY <2>1, <2>2, <2>3, <2>4
<1> QED
  BY <1>3, <1>4, <1>5

\* One original after another, what belongs to them adds up to what stands.
LEMMA GatheredStands ==
  ASSUME NEW rs \in Seq(Row), AllBelong(rs), \A i \in 1..Len(rs) : Squared(rs, i),
         NEW e \in Purpose, NEW direction
  PROVE  Net(rs, Gathered(rs, e, direction, Len(rs))) = Net(rs, Stood(rs, e, direction, Len(rs)))
<1> DEFINE G(n) == Gathered(rs, e, direction, n)
           S(n) == Stood(rs, e, direction, n)
           P == {n \in Nat : n <= Len(rs) => Net(rs, G(n)) = Net(rs, S(n))}
<1>0. Len(rs) \in Nat
  BY LenProperties
<1>1. 0 \in P
  <2>1. \A j \in 1..Len(rs) : j \notin G(0) /\ j \notin S(0)
    BY DEF Gathered, Stood
  <2>2. Net(rs, G(0)) = 0 /\ Net(rs, S(0)) = 0
    <3> HIDE DEF G, S
    <3> QED
      BY <2>1, NetNothing
  <2> QED
    BY <2>2
<1>2. ASSUME NEW n \in Nat, n \in P
      PROVE  n + 1 \in P
  <2> SUFFICES ASSUME n + 1 <= Len(rs)
               PROVE  Net(rs, G(n + 1)) = Net(rs, S(n + 1))
    OBVIOUS
  <2> DEFINE i == n + 1
  <2>0. i \in 1..Len(rs) /\ Net(rs, G(n)) = Net(rs, S(n)) /\ i \notin 1..n
        /\ \A k : k \in 1..i <=> k \in 1..n \/ k = i
    BY <1>0, <1>2
  <2> DEFINE mine == IF Original(rs[i]) /\ rs[i].direction = direction
                     THEN Outcome(rs, i) \cap Tagged(rs, e) ELSE {}
             own == IF /\ Original(rs[i]) /\ ~Reversed(rs, i)
                       /\ EffectivePurpose(rs, i) = e /\ rs[i].direction = direction
                    THEN {i} ELSE {}
  <2> HIDE DEF i
  <2>1. ASSUME NEW j \in 1..Len(rs)
        PROVE  /\ j \in G(i) <=> j \in G(n) \/ j \in mine
               /\ ~(j \in G(n) /\ j \in mine)
    <3>1. /\ Original(rs[i]) =>
               (j \in Outcome(rs, i) <=> /\ rs[j].movement \in {"none", "correction"}
                                         /\ Root(rs, j) = i)
          /\ rs[j].movement \in {"none", "correction"} => Original(rs[Root(rs, j)])
      BY <2>0, RootsAre
    <3>2. j \in G(i) <=> /\ j \in Tagged(rs, e) /\ rs[j].movement \in {"none", "correction"}
                         /\ Root(rs, j) \in 1..n \/ Root(rs, j) = i
                         /\ rs[Root(rs, j)].direction = direction
      BY <2>0 DEF Gathered
    <3>3. j \in G(n) <=> /\ j \in Tagged(rs, e) /\ rs[j].movement \in {"none", "correction"}
                         /\ Root(rs, j) \in 1..n
                         /\ rs[Root(rs, j)].direction = direction
      BY DEF Gathered
    <3>4. j \in mine <=> /\ j \in Tagged(rs, e) /\ rs[j].movement \in {"none", "correction"}
                         /\ Root(rs, j) = i /\ rs[Root(rs, j)].direction = direction
      BY <3>1
    <3> HIDE DEF G, mine
    <3> QED
      BY <2>0, <3>2, <3>3, <3>4
  <2>2. ASSUME NEW j \in 1..Len(rs)
        PROVE  /\ j \in S(i) <=> j \in S(n) \/ j \in own
               /\ ~(j \in S(n) /\ j \in own)
    BY <2>0 DEF Stood
  <2>3. Net(rs, mine) = Net(rs, own)
    <3>1. CASE Original(rs[i]) /\ rs[i].direction = direction
      <4>1. Net(rs, mine) = IF e = EffectivePurpose(rs, i) THEN Standing(rs, i) ELSE 0
        BY <2>0, <3>1 DEF Squared
      <4>2. Net(rs, {i}) = Signed(rs[i])
        BY <2>0, NetOne
      <4>3. Net(rs, {}) = 0
        BY NetNothing
      <4> HIDE DEF mine
      <4> QED
        BY <3>1, <4>1, <4>2, <4>3 DEF Standing
    <3>2. CASE ~(Original(rs[i]) /\ rs[i].direction = direction)
      <4>1. mine = {} /\ own = {}
        BY <3>2
      <4> HIDE DEF mine, own
      <4> QED
        BY <4>1
    <3> QED
      BY <3>1, <3>2
  <2> HIDE DEF G, S, mine, own
  <2>4. Net(rs, G(i)) = Net(rs, G(n)) + Net(rs, mine)
    BY <2>1, NetSplit
  <2>5. Net(rs, S(i)) = Net(rs, S(n)) + Net(rs, own)
    BY <2>2, NetSplit
  <2>6. Net(rs, G(i)) = Net(rs, S(i))
    BY <2>0, <2>3, <2>4, <2>5
  <2> QED
    BY <2>6 DEF i
<1> HIDE DEF P
<1>3. Nat \subseteq P
  BY <1>1, <1>2, SetInduction
<1> QED
  BY <1>0, <1>3 DEF P

\* The rows of an envelope that were moved there, and by such a movement.
Carried(rs, e, movements, direction) ==
  {i \in Tagged(rs, e) : rs[i].movement \in movements /\ rs[i].direction \in direction}

\* What an occasion collected and disbursed is what the rows that stand brought
\* and took, whatever was corrected and reversed before.
LEMMA TotalsCountWhatStands ==
  TypeOK /\ Belonging /\ AllSquared => ActivityCountsWhatStands
<1> SUFFICES ASSUME TypeOK, Belonging, AllSquared PROVE ActivityCountsWhatStands
  OBVIOUS
<1> DEFINE final == DayAt(MaxClock, 1)
           original(i) == rows[i].kind # "transfer" /\ rows[i].reverses = NoRow
           standing(e, direction) ==
             {i \in Ids : original(i) /\ ~Reversed(rows, i)
                            /\ EffectivePurpose(rows, i) = e /\ rows[i].direction = direction}
<1>0. rows \in Seq(Row) /\ AllBelong(rows) /\ \A i \in 1..Len(rows) : Squared(rows, i)
  BY DEF TypeOK, Belonging, AllSquared, Ids
<1> SUFFICES ASSUME NEW e \in Incidental
             PROVE  /\ Collected(rows, e, final) =
                         Net(rows, standing(e, "in") \cup Carried(rows, e, {"allocation"}, Direction)
                                     \cup Carried(rows, e, {"between_accounts"}, {"in"}))
                    /\ Disbursed(rows, e, final) =
                         -Net(rows, standing(e, "out")
                                      \cup Carried(rows, e, {"between_accounts"}, {"out"}))
  BY DEF ActivityCountsWhatStands, Carried
<1>1. \A direction : standing(e, direction) = Stood(rows, e, direction, Len(rows))
  BY DEF Stood, Original, Ids
<1> DEFINE G(direction) == Gathered(rows, e, direction, Len(rows))
           S(direction) == Stood(rows, e, direction, Len(rows))
           given == Carried(rows, e, {"allocation"}, Direction)
           moved(direction) == Carried(rows, e, {"between_accounts"}, {direction})
           collected == {i \in ActivityRows(rows, e, final) :
                           rows[i].movement = "allocation" \/ Bucket(rows, i) = "in"}
           disbursed == {i \in ActivityRows(rows, e, final) :
                           rows[i].movement # "allocation" /\ Bucket(rows, i) = "out"}
<1>2. \A direction : Net(rows, G(direction)) = Net(rows, S(direction))
  BY <1>0, GatheredStands DEF Purpose
<1>3. ASSUME NEW i \in 1..Len(rows)
      PROVE  /\ rows[i].movement \in Movement /\ rows[i].direction \in Direction
             /\ rows[i].occurredOn <= final
             /\ Root(rows, i) \in 1..Len(rows) /\ Bucket(rows, i) = rows[Root(rows, i)].direction
             /\ rows[i].movement \in {"allocation", "between_accounts", "roll"} =>
                  Root(rows, i) = i /\ ~Original(rows[i])
  <2>1. rows[i] \in Row /\ Belongs(rows, rows[i])
    BY <1>0, ElementOfSeq DEF AllBelong
  <2>2. Bucket(rows, i) = rows[Root(rows, i)].direction
    BY DEF Bucket, Root
  <2> QED
    BY <1>0, <2>1, <2>2, RootsAre DEF Row, Belongs
<1>4. ASSUME NEW i \in 1..Len(rows), NEW direction \in Direction
      PROVE  /\ i \in G(direction) <=> /\ rows[i].purpose = e
                                       /\ rows[i].movement \in {"none", "correction"}
                                       /\ Bucket(rows, i) = direction
             /\ i \in moved(direction) <=> /\ rows[i].purpose = e
                                           /\ rows[i].movement = "between_accounts"
                                           /\ Bucket(rows, i) = direction
             /\ i \in given <=> rows[i].purpose = e /\ rows[i].movement = "allocation"
             /\ i \in S(direction) => rows[i].movement \in {"none", "correction"}
             /\ i \in collected <=> /\ rows[i].purpose = e /\ rows[i].movement # "roll"
                                    /\ rows[i].movement = "allocation" \/ Bucket(rows, i) = "in"
             /\ i \in disbursed <=> /\ rows[i].purpose = e /\ rows[i].movement # "roll"
                                    /\ rows[i].movement # "allocation" /\ Bucket(rows, i) = "out"
  <2>1. i \in Tagged(rows, e) <=> rows[i].purpose = e
    BY DEF Tagged
  <2>2. i \in G(direction) <=> /\ rows[i].purpose = e
                               /\ rows[i].movement \in {"none", "correction"}
                               /\ Bucket(rows, i) = direction
    BY <1>3, <2>1 DEF Gathered
  <2>3. i \in moved(direction) <=> /\ rows[i].purpose = e
                                   /\ rows[i].movement = "between_accounts"
                                   /\ Bucket(rows, i) = direction
    BY <1>3, <2>1 DEF Carried
  <2>4. i \in given <=> rows[i].purpose = e /\ rows[i].movement = "allocation"
    BY <1>3, <2>1 DEF Carried
  <2>5. i \in S(direction) => rows[i].movement \in {"none", "correction"}
    BY <1>3 DEF Stood, Movement
  <2>6. i \in ActivityRows(rows, e, final) <=> rows[i].purpose = e /\ rows[i].movement # "roll"
    BY <1>3, <2>1 DEF ActivityRows
  <2> QED
    BY <2>2, <2>3, <2>4, <2>5, <2>6
<1> DEFINE inRight == S("in") \cup given \cup moved("in")
           outRight == S("out") \cup moved("out")
<1>5. Direction = {"in", "out"} /\ Movement = {"none", "between_accounts", "correction", "allocation", "roll"}
  BY DEF Direction, Movement
<1>6. /\ Collected(rows, e, final) = Net(rows, collected)
      /\ Disbursed(rows, e, final) = -Net(rows, disbursed)
  BY DEF Collected, Disbursed
<1> HIDE DEF G, S, given, moved, collected, disbursed, final
<1>7. Net(rows, collected) = Net(rows, inRight)
  <2> DEFINE rest == given \cup moved("in")
  <2>1. ASSUME NEW i \in 1..Len(rows)
        PROVE  /\ i \in collected <=> i \in G("in") \/ i \in rest
               /\ ~(i \in G("in") /\ i \in rest)
               /\ i \in inRight <=> i \in S("in") \/ i \in rest
               /\ ~(i \in S("in") /\ i \in rest)
    BY <1>3, <1>4, <1>5
  <2> HIDE DEF rest, inRight
  <2>2. Net(rows, collected) = Net(rows, G("in")) + Net(rows, rest)
    BY <1>0, <2>1, NetSplit
  <2>3. Net(rows, inRight) = Net(rows, S("in")) + Net(rows, rest)
    BY <1>0, <2>1, NetSplit
  <2> QED
    BY <1>2, <2>2, <2>3
<1>8. Net(rows, disbursed) = Net(rows, outRight)
  <2>1. ASSUME NEW i \in 1..Len(rows)
        PROVE  /\ i \in disbursed <=> i \in G("out") \/ i \in moved("out")
               /\ ~(i \in G("out") /\ i \in moved("out"))
               /\ i \in outRight <=> i \in S("out") \/ i \in moved("out")
               /\ ~(i \in S("out") /\ i \in moved("out"))
    BY <1>3, <1>4, <1>5
  <2> HIDE DEF outRight
  <2>2. Net(rows, disbursed) = Net(rows, G("out")) + Net(rows, moved("out"))
    BY <1>0, <2>1, NetSplit
  <2>3. Net(rows, outRight) = Net(rows, S("out")) + Net(rows, moved("out"))
    BY <1>0, <2>1, NetSplit
  <2> QED
    BY <1>2, <2>2, <2>3
<1>9. /\ inRight = standing(e, "in") \cup Carried(rows, e, {"allocation"}, Direction)
                     \cup Carried(rows, e, {"between_accounts"}, {"in"})
      /\ outRight = standing(e, "out") \cup Carried(rows, e, {"between_accounts"}, {"out"})
  BY <1>1 DEF S, given, moved
<1> HIDE DEF inRight, outRight, standing
<1> QED
  BY <1>6, <1>7, <1>8, <1>9

\* Corrections and reversals leave no trace in what an occasion collected and
\* disbursed, for any history of them.
THEOREM ActivityAlwaysCounts == Spec => []ActivityCountsWhatStands
BY TotalsCountWhatStands, AlwaysBelong, AlwaysSquared, TypeCorrect, PTL

-----------------------------------------------------------------------------
(* The fixes of a count.                                                    *)

\* What a count's line says of the row posted for it.
Fixes(row, line, a) ==
  /\ row.account = a /\ row.kind \in {"normal", "adjustment"}
  /\ line.resolution = "adjusted" => line.recorded + Signed(row) = line.actual

\* What a line says that no row can change.
Says(line) ==
  /\ line.resolution = "matched" => line.actual = line.recorded
  /\ line.fix = NoRow <=> line.resolution \in {"matched", "left_open"}
  /\ line.resolution = "adjusted" => line.fix # NoRow

\* The batch holds, once each, the fixes of a new count's lines.
Squares(batch, count) ==
  \A a \in DOMAIN count.lines : LET line == count.lines[a]
    IN  /\ Says(line)
        /\ line.fix # NoRow =>
             /\ \E n \in 1..Len(batch) : line.fix = Len(rows) + n /\ Fixes(batch[n], line, a)
             /\ \A b \in DOMAIN count.lines : count.lines[b].fix = line.fix => a = b

\* A resolution posts a fix or does not, and says which.
LEMMA LocationCountSays ==
  ASSUME NEW c \in LocationCount
  PROVE  /\ c.fix = << >> <=> c.resolution \in {"matched", "left_open"}
         /\ c.resolution = "adjusted" => c.fix # << >>
         /\ c.actual \in Int
<1>1. \A f \in Fix : <<f>> # << >>
  OBVIOUS
<1>2. Amount \cup {0} \subseteq Int
  BY AmountAssumption, CeilingAssumption
<1>3. CASE c \in [actual : Amount \cup {0}, resolution : {"matched", "left_open"},
                  fix : {<< >>}]
  BY <1>2, <1>3
<1>4. CASE c \in [actual : Amount \cup {0}, resolution : {"adjusted", "entry_added"},
                  fix : {<< f >> : f \in Fix}]
  <2>1. PICK f \in Fix : c.fix = <<f>>
    BY <1>4
  <2> QED
    BY <1>1, <1>2, <1>4, <2>1
<1> QED
  BY <1>3, <1>4 DEF LocationCount

LEMMA TakeReconciliationFixes ==
  ASSUME TypeOK, NEW count \in [Active -> LocationCount], TakeReconciliation(count)
  PROVE  \E batch \in Seq(Row) : \E taken :
           /\ Grown(rows, batch, rows') /\ Grounded(batch)
           /\ counts' = Append(counts, taken)
           /\ taken.cutoff = Len(rows) /\ Squares(batch, taken)
<1> DEFINE fixed == {a \in Active : count[a].fix # << >>}
           row(a) == Entry(a, count[a].fix[1].purpose, count[a].fix[1].direction,
                           count[a].fix[1].amount, count[a].fix[1].occurredOn,
                           IF count[a].resolution = "adjusted" THEN "adjustment" ELSE "normal")
           line(a, fix) == [recorded |-> AccountBalance(rows, a), actual |-> count[a].actual,
                            resolution |-> count[a].resolution, fix |-> fix]
           fixOf(order, a) == IF a \in fixed
                              THEN Len(rows) + (CHOOSE n \in 1..Len(order) : order[n] = a)
                              ELSE NoRow
<1>1. PICK order \in Orders(fixed) :
        /\ Post([n \in 1..Len(order) |-> row(order[n])])
        /\ counts' = Append(counts, [cutoff |-> Len(rows), at |-> clock,
                                     lines |-> [a \in Active |-> line(a, fixOf(order, a))]])
  BY DEF TakeReconciliation
<1>2. IsFiniteSet(fixed)
  BY AccountAssumption, FS_Subset DEF Active
<1>3. ASSUME NEW a \in fixed
      PROVE  /\ row(a) \in Row /\ Fresh(row(a)) /\ row(a).account = a
             /\ row(a).kind \in {"normal", "adjustment"}
             /\ Signed(row(a)) = Signed(count[a].fix[1])
  <2>1. a \in Account /\ count[a] \in LocationCount /\ count[a].fix # << >>
    BY DEF Active
  <2>2. (IF count[a].resolution = "adjusted" THEN "adjustment" ELSE "normal") \in Kind
    BY DEF Kind
  <2>3. Fresh(row(a)) /\ row(a).account = a /\ row(a).kind \in {"normal", "adjustment"}
    BY <2>1, FixType DEF Entry, Fresh, Shapely
  <2>4. Signed(row(a)) = Signed(count[a].fix[1])
    BY DEF Entry, Signed
  <2>5. row(a) \in Row
    BY <2>1, <2>2, FixType, EntryType
  <2> QED
    BY <2>3, <2>4, <2>5
<1> HIDE DEF row
<1>4. /\ Len(order) \in Nat /\ \A n \in 1..Len(order) : order[n] \in fixed
      /\ \A s \in fixed : \E n \in 1..Len(order) : order[n] = s
  <2> HIDE DEF fixed
  <2> QED
    BY <1>2, OrdersType, ElementOfSeq
<1> DEFINE batch == [n \in 1..Len(order) |-> row(order[n])]
           lines == [a \in Active |-> line(a, fixOf(order, a))]
           taken == [cutoff |-> Len(rows), at |-> clock, lines |-> lines]
<1>5. batch \in Seq(Row) /\ Len(batch) = Len(order)
  <2>1. \A n \in 1..Len(order) : row(order[n]) \in Row
    BY <1>3, <1>4
  <2>2. batch \in Seq(Row)
    BY <1>4, <2>1, IsASeq
  <2> QED
    BY <1>4, <2>2, LenProperties
<1>6. Grown(rows, batch, rows')
  BY <1>1 DEF Post, Grown
<1>7. Grounded(batch)
  <2>1. \A n \in 1..Len(batch) : Fresh(batch[n])
    BY <1>3, <1>4, <1>5
  <2> HIDE DEF batch
  <2> QED
    BY <2>1 DEF Grounded
<1>8. counts' = Append(counts, taken) /\ taken.cutoff = Len(rows)
  BY <1>1
<1>9. Len(rows) \in Nat
  BY LenProperties DEF TypeOK
<1>10. ASSUME NEW a \in fixed
       PROVE  \E n \in 1..Len(order) : order[n] = a /\ fixOf(order, a) = Len(rows) + n
  <2>1. (CHOOSE n \in 1..Len(order) : order[n] = a) \in 1..Len(order)
    BY <1>4
  <2>2. order[CHOOSE n \in 1..Len(order) : order[n] = a] = a
    BY <1>4
  <2> QED
    BY <2>1, <2>2
<1>11. \A a \in Active : a \notin fixed => fixOf(order, a) = NoRow
  OBVIOUS
<1>12. ASSUME NEW a \in fixed
       PROVE  fixOf(order, a) # NoRow
  <2>1. PICK n \in 1..Len(order) : fixOf(order, a) = Len(rows) + n
    BY <1>10
  <2> HIDE DEF fixOf
  <2> QED
    BY <1>4, <1>9, <2>1 DEF NoRow
<1>13. \A a \in Active : /\ lines[a].recorded = AccountBalance(rows, a)
                         /\ lines[a].actual = count[a].actual
                         /\ lines[a].resolution = count[a].resolution
                         /\ lines[a].fix = fixOf(order, a)
  OBVIOUS
<1>14. DOMAIN taken.lines = Active /\ taken.lines = lines
  OBVIOUS
<1>15. \A a \in Active : /\ a \in fixed <=> count[a].resolution \notin {"matched", "left_open"}
                         /\ count[a].resolution = "adjusted" => a \in fixed
                         /\ count[a].actual \in Int
  BY LocationCountSays
<1>16. \A a \in Active : Acceptable(a, count[a]) /\ AccountBalance(rows, a) \in Int
  BY BalanceInt DEF TakeReconciliation
<1> HIDE DEF fixOf, line, lines, taken
<1>17. ASSUME NEW a \in Active
       PROVE  Says(lines[a])
  <2>1. count[a].resolution = "matched" => count[a].actual = AccountBalance(rows, a)
    BY <1>15, <1>16 DEF Acceptable
  <2> HIDE DEF fixed
  <2> QED
    BY <1>11, <1>12, <1>13, <1>15, <2>1 DEF Says
<1>18. ASSUME NEW a \in fixed
       PROVE  /\ \E n \in 1..Len(batch) : lines[a].fix = Len(rows) + n
                                          /\ Fixes(batch[n], lines[a], a)
              /\ \A b \in Active : lines[b].fix = lines[a].fix => a = b
  <2>0. a \in Active
    OBVIOUS
  <2>1. PICK n \in 1..Len(order) : order[n] = a /\ fixOf(order, a) = Len(rows) + n
    BY <1>10
  <2>2. batch[n] = row(a)
    BY <2>1
  <2>3. count[a].resolution = "adjusted" =>
          AccountBalance(rows, a) + Signed(row(a)) = count[a].actual
    <3>1. count[a].resolution = "adjusted" =>
            Signed(row(a)) = count[a].actual - AccountBalance(rows, a)
      BY <1>3, <1>16, <2>0 DEF Acceptable
    <3> QED
      BY <1>15, <1>16, <2>0, <3>1
  <2>4. Fixes(batch[n], lines[a], a)
    BY <1>3, <1>13, <2>0, <2>2, <2>3 DEF Fixes
  <2>5. ASSUME NEW b \in Active, lines[b].fix = lines[a].fix
        PROVE  a = b
    <3>1. b \in fixed
      BY <1>11, <1>12, <1>13, <2>0, <2>5
    <3>2. PICK k \in 1..Len(order) : order[k] = b /\ fixOf(order, b) = Len(rows) + k
      BY <1>10, <3>1
    <3>3. k = n
      BY <1>4, <1>9, <1>13, <2>0, <2>1, <2>5, <3>2
    <3> QED
      BY <2>1, <3>2, <3>3
  <2>6. n \in 1..Len(batch) /\ lines[a].fix = Len(rows) + n
    BY <1>5, <1>13, <2>0, <2>1
  <2> QED
    BY <2>4, <2>5, <2>6
<1>19. Squares(batch, taken)
  <2> HIDE DEF batch, fixed
  <2>1. \A a \in Active : lines[a].fix # NoRow => a \in fixed
    BY <1>11, <1>13
  <2> QED
    BY <1>14, <1>17, <1>18, <2>1 DEF Squares
<1> HIDE DEF batch
<1> QED
  BY <1>5, <1>6, <1>7, <1>8, <1>19

\* Every step posts grounded rows, and takes at most one count, whose fixes
\* they are.
LEMMA StepFixes ==
  ASSUME TypeOK, [Next]_vars
  PROVE  \E batch \in Seq(Row) :
           /\ Grown(rows, batch, rows') /\ Grounded(batch)
           /\ \/ counts' = counts
              \/ \E taken : /\ counts' = Append(counts, taken)
                            /\ taken.cutoff = Len(rows) /\ Squares(batch, taken)
<1>1. CASE CountRequest
  BY <1>1, TakeReconciliationFixes DEF CountRequest
<1>2. CASE ~CountRequest
  BY <1>2, StepGrounded, OnlyCountsCount
<1> QED
  BY <1>1, <1>2

\* What FixSquaresItsLine needs to be inductive: a fix is an entry of a kind no
\* reversal undoes while a line names it, and a row that no other line names.
Kept ==
  \A c \in 1..Len(counts) : \A a \in DOMAIN counts[c].lines :
    LET line == counts[c].lines[a]
    IN  /\ Says(line)
        /\ line.fix # NoRow =>
             /\ line.fix \in Ids /\ line.fix > counts[c].cutoff
             /\ Fixes(rows[line.fix], line, a) /\ ~Reversed(rows, line.fix)
             /\ \A d \in 1..Len(counts) : \A b \in DOMAIN counts[d].lines :
                  counts[d].lines[b].fix = line.fix => c = d /\ a = b

\* A row that no reversal may undo is not undone.
LEMMA StaysStanding ==
  ASSUME TypeOK, NEW batch \in Seq(Row), NEW all, Grown(rows, batch, all),
         Grounded(batch), NEW i \in Ids, ~Reversed(rows, i), ~Reversible(i)
  PROVE  ~Reversed(all, i)
<1>0. rows \in Seq(Row) /\ i # NoRow
  <2>1. rows \in Seq(Row)
    BY DEF TypeOK
  <2> QED
    BY <2>1 DEF Ids, NoRow
<1>1. \A n \in 1..Len(batch) : batch[n].reverses # i
  <2>1. CASE \A n \in 1..Len(batch) : Fresh(batch[n])
    BY <1>0, <2>1 DEF Fresh
  <2>2. CASE Moves(batch)
    BY <1>0, <2>2, MovesRows
  <2>3. CASE Corrects(batch)
    <3>1. PICK k \in Ids : /\ Len(batch) = 2
                           /\ IsCorrection(batch[1], k) /\ IsCorrection(batch[2], k)
      BY <2>3, CorrectsRows
    <3>2. \A n \in 1..Len(batch) : n = 1 \/ n = 2
      BY <3>1
    <3> QED
      BY <1>0, <3>1, <3>2 DEF IsCorrection
  <2>4. CASE Undoes(batch)
    <3>1. \A n \in 1..Len(batch) : \E k \in Ids : Reversible(k) /\ IsReversal(batch[n], k)
      BY <2>4, UndoesRows
    <3> HIDE DEF Reversible
    <3> QED
      BY <3>1 DEF IsReversal
  <2>5. CASE Pays(batch)
    <3>1. Len(batch) = 1 /\ batch[1].reverses = NoRow
      BY <2>5, PaysRows
    <3>2. \A n \in 1..Len(batch) : batch[n].reverses = NoRow
      BY <3>1
    <3> QED
      BY <1>0, <3>2
  <2> QED
    BY <2>1, <2>2, <2>3, <2>4, <2>5 DEF Grounded
<1>2. ASSUME NEW j \in 1..Len(all)
      PROVE  all[j].reverses # i
  <2>1. CASE j \in 1..Len(rows)
    <3>1. all[j] = rows[j]
      BY <1>0, <2>1, BatchRows
    <3> QED
      BY <2>1, <3>1 DEF Reversed
  <2>2. CASE j \notin 1..Len(rows)
    <3>1. PICK n \in 1..Len(batch) : j = Len(rows) + n
      BY <1>0, <2>2, BatchRows
    <3>2. all[j] = batch[n]
      BY <1>0, <3>1, GrownAt
    <3> QED
      BY <1>1, <3>2
  <2> QED
    BY <2>1, <2>2
<1> QED
  BY <1>2 DEF Reversed

LEMMA StepKept ==
  ASSUME TypeOK, Paths, Kept, [Next]_vars
  PROVE  Kept'
<1>1. PICK batch \in Seq(Row) :
        /\ Grown(rows, batch, rows') /\ Grounded(batch)
        /\ \/ counts' = counts
           \/ \E taken : /\ counts' = Append(counts, taken)
                         /\ taken.cutoff = Len(rows) /\ Squares(batch, taken)
  BY StepFixes
<1>0. rows \in Seq(Row) /\ rows' \in Seq(Row) /\ Len(rows) \in Nat
  <2>1. rows \in Seq(Row)
    BY DEF TypeOK
  <2> QED
    BY <1>1, <2>1, BatchRows
<1>2. ASSUME NEW c \in 1..Len(counts), NEW a \in DOMAIN counts[c].lines,
             counts[c].lines[a].fix # NoRow
      PROVE  LET line == counts[c].lines[a]
             IN  /\ line.fix \in 1..Len(rows') /\ line.fix > counts[c].cutoff
                 /\ Fixes(rows'[line.fix], line, a) /\ ~Reversed(rows', line.fix)
  <2> DEFINE line == counts[c].lines[a]
             i == line.fix
  <2>1. /\ i \in Ids /\ i > counts[c].cutoff /\ Fixes(rows[i], line, a) /\ ~Reversed(rows, i)
    BY <1>2 DEF Kept
  <2>2. ~Reversible(i)
    <3>1. IsFix(i)
      BY DEF IsFix
    <3>2. rows[i].kind \in {"normal", "adjustment"}
      BY <2>1 DEF Fixes
    <3> QED
      BY <3>1, <3>2 DEF Reversible, Undoable
  <2> HIDE DEF line, i
  <2>3. ~Reversed(rows', i)
    BY <1>1, <2>1, <2>2, StaysStanding
  <2>4. rows'[i] = rows[i] /\ i \in 1..Len(rows')
    <3>1. i \in 1..Len(rows)
      BY <2>1 DEF Ids
    <3> QED
      BY <1>0, <1>1, <3>1, BatchRows
  <2>5. /\ i \in 1..Len(rows') /\ i > counts[c].cutoff
        /\ Fixes(rows'[i], line, a) /\ ~Reversed(rows', i)
    BY <2>1, <2>3, <2>4
  <2> QED
    BY <2>5 DEF line, i
<1>3. CASE counts' = counts
  BY <1>2, <1>3 DEF Kept, Ids
<1>4. ASSUME NEW taken, counts' = Append(counts, taken), taken.cutoff = Len(rows),
             Squares(batch, taken)
      PROVE  Kept'
  <2>1. /\ Len(counts') = Len(counts) + 1 /\ Len(counts) \in Nat
        /\ \A c \in 1..Len(counts) : counts'[c] = counts[c]
        /\ counts'[Len(counts) + 1] = taken
    <3>1. counts \in Seq([cutoff : Nat, at : Nat,
                          lines : UNION {[S -> Line] : S \in SUBSET Account}])
      BY DEF TypeOK
    <3> QED
      BY <1>4, <3>1, LenProperties
  <2>2. \A c \in 1..Len(counts') : c \in 1..Len(counts) \/ c = Len(counts) + 1
    BY <2>1
  <2>3. ASSUME NEW a \in DOMAIN taken.lines, taken.lines[a].fix # NoRow
        PROVE  LET line == taken.lines[a]
               IN  /\ line.fix \in 1..Len(rows') /\ line.fix > Len(rows)
                   /\ Fixes(rows'[line.fix], line, a) /\ ~Reversed(rows', line.fix)
    <3> DEFINE line == taken.lines[a]
    <3>1. PICK n \in 1..Len(batch) : line.fix = Len(rows) + n /\ Fixes(batch[n], line, a)
      BY <1>4, <2>3 DEF Squares
    <3> HIDE DEF line
    <3>2. rows'[line.fix] = batch[n] /\ line.fix \in 1..Len(rows')
      BY <1>0, <1>1, <3>1, GrownAt
    <3>3. line.fix > Len(rows) /\ line.fix \notin 1..Len(rows)
      BY <1>0, <3>1
    <3>4. \A k \in 1..Len(batch) : /\ batch[k].corrects \in 0..Len(rows)
                                   /\ batch[k].reverses \in 0..Len(rows)
      BY <1>1, BatchPointsBack
    <3>5. ~Reversed(rows', line.fix)
      BY <1>0, <1>1, <3>2, <3>3, <3>4, NewRowHasNoLegs DEF Paths
    <3>6. /\ line.fix \in 1..Len(rows') /\ line.fix > Len(rows)
          /\ Fixes(rows'[line.fix], line, a) /\ ~Reversed(rows', line.fix)
      BY <3>1, <3>2, <3>3, <3>5
    <3> QED
      BY <3>6 DEF line
  <2>4. ASSUME NEW c \in 1..Len(counts'), NEW a \in DOMAIN counts'[c].lines
        PROVE  LET line == counts'[c].lines[a]
               IN  /\ Says(line)
                   /\ line.fix # NoRow =>
                        /\ line.fix \in 1..Len(rows') /\ line.fix > counts'[c].cutoff
                        /\ Fixes(rows'[line.fix], line, a) /\ ~Reversed(rows', line.fix)
    <3>1. CASE c \in 1..Len(counts)
      <4>1. counts'[c] = counts[c] /\ a \in DOMAIN counts[c].lines
        BY <2>1, <3>1
      <4>2. Says(counts[c].lines[a])
        BY <3>1, <4>1 DEF Kept
      <4> QED
        BY <1>2, <3>1, <4>1, <4>2
    <3>2. CASE c = Len(counts) + 1
      <4>1. counts'[c] = taken /\ a \in DOMAIN taken.lines
        BY <2>1, <3>2
      <4>2. Says(taken.lines[a])
        BY <1>4, <4>1 DEF Squares
      <4> QED
        BY <1>4, <2>3, <4>1, <4>2
    <3> QED
      BY <2>2, <3>1, <3>2
  <2>5. ASSUME NEW c \in 1..Len(counts'), NEW a \in DOMAIN counts'[c].lines,
               NEW d \in 1..Len(counts'), NEW b \in DOMAIN counts'[d].lines,
               counts'[c].lines[a].fix # NoRow,
               counts'[d].lines[b].fix = counts'[c].lines[a].fix
        PROVE  c = d /\ a = b
    <3> DEFINE old(x) == x \in 1..Len(counts)
    <3>0. ASSUME NEW x \in 1..Len(counts), NEW e \in DOMAIN counts[x].lines,
                 counts[x].lines[e].fix # NoRow
          PROVE  counts[x].lines[e].fix \in 1..Len(rows)
      BY <3>0 DEF Kept, Ids
    <3>1. CASE old(c) /\ old(d)
      <4>1. counts'[c] = counts[c] /\ counts'[d] = counts[d]
        BY <2>1, <3>1
      <4> QED
        BY <2>5, <3>1, <4>1 DEF Kept
    <3>2. CASE old(c) /\ d = Len(counts) + 1
      <4>1. counts'[c] = counts[c] /\ counts'[d] = taken
        BY <2>1, <3>2
      <4>2. counts[c].lines[a].fix \in 1..Len(rows)
        BY <2>5, <3>0, <3>2, <4>1
      <4>3. taken.lines[b].fix > Len(rows)
        BY <2>3, <2>5, <4>1
      <4> QED
        BY <1>0, <2>5, <4>1, <4>2, <4>3
    <3>3. CASE c = Len(counts) + 1 /\ old(d)
      <4>1. counts'[d] = counts[d] /\ counts'[c] = taken
        BY <2>1, <3>3
      <4>2. counts[d].lines[b].fix \in 1..Len(rows)
        BY <2>5, <3>0, <3>3, <4>1
      <4>3. taken.lines[a].fix > Len(rows)
        BY <2>3, <2>5, <4>1
      <4> QED
        BY <1>0, <2>5, <4>1, <4>2, <4>3
    <3>4. CASE c = Len(counts) + 1 /\ d = Len(counts) + 1
      BY <1>4, <2>1, <2>5, <3>4 DEF Squares
    <3> QED
      BY <2>2, <3>1, <3>2, <3>3, <3>4
  <2> QED
    BY <2>4, <2>5 DEF Kept, Ids
<1> QED
  BY <1>1, <1>3, <1>4

LEMMA FixesStayKept == Spec => []Kept
<1>1. Init => Kept
  BY DEF Init, Kept
<1>2. TypeOK /\ Paths /\ Kept /\ [Next]_vars => Kept'
  BY StepKept
<1> QED
  BY <1>1, <1>2, PathsHold, PTL DEF Spec

\* A line that says a gap was closed names, for ever, the one row posted for it:
\* no other line names that row and no reversal undoes it.
THEOREM FixesSquareTheirLines == Spec => []FixSquaresItsLine
<1>1. Kept => FixSquaresItsLine
  <2> SUFFICES ASSUME Kept, NEW c \in 1..Len(counts), NEW a \in DOMAIN counts[c].lines
               PROVE  LET line == counts[c].lines[a]
                      IN  /\ line.resolution = "matched" => line.actual = line.recorded
                          /\ line.fix = NoRow <=> line.resolution \in {"matched", "left_open"}
                          /\ line.fix # NoRow =>
                               /\ line.fix \in Ids /\ line.fix > counts[c].cutoff
                               /\ rows[line.fix].account = a
                               /\ ~Reversed(rows, line.fix)
                               /\ \A d \in 1..Len(counts) : \A b \in DOMAIN counts[d].lines :
                                    counts[d].lines[b].fix = line.fix => c = d /\ a = b
                          /\ line.resolution = "adjusted" =>
                               line.recorded + Signed(rows[line.fix]) = line.actual
    BY DEF FixSquaresItsLine
  <2> QED
    BY DEF Kept, Says, Fixes
<1> QED
  BY <1>1, FixesStayKept, PTL
-----------------------------------------------------------------------------
(* Sums over locations and over purposes: the two views the treasurer has of *)
(* one book.                                                                *)

\* Recursion over the subsets of a finite set, taking one member at a time.
Picked(s) == CHOOSE x \in s : TRUE
Adds(g, f, parts) ==
  g = [s \in parts |-> IF s = {} THEN 0 ELSE f[Picked(s)] + g[s \ {Picked(s)}]]

LEMMA AddsEquation ==
  ASSUME NEW S, IsFiniteSet(S), NEW f
  PROVE  \E g : Adds(g, f, SUBSET S)
<1> DEFINE upTo(k) == {s \in SUBSET S : Cardinality(s) <= k}
           P == {k \in Nat : \E g : Adds(g, f, upTo(k))}
<1>0. \A s \in SUBSET S : /\ IsFiniteSet(s) /\ Cardinality(s) \in Nat
                          /\ s # {} => /\ Picked(s) \in s /\ s \ {Picked(s)} \in SUBSET S
                                       /\ Cardinality(s \ {Picked(s)}) = Cardinality(s) - 1
  <2> SUFFICES ASSUME NEW s \in SUBSET S
               PROVE  /\ IsFiniteSet(s) /\ Cardinality(s) \in Nat
                      /\ s # {} => /\ Picked(s) \in s /\ s \ {Picked(s)} \in SUBSET S
                                   /\ Cardinality(s \ {Picked(s)}) = Cardinality(s) - 1
    OBVIOUS
  <2>1. IsFiniteSet(s)
    BY FS_Subset
  <2>2. Cardinality(s) \in Nat
    BY <2>1, FS_CardinalityType
  <2>3. CASE s # {}
    <3>1. Picked(s) \in s
      BY <2>3 DEF Picked
    <3> QED
      BY <2>1, <2>2, <3>1, FS_RemoveElement
  <2> QED
    BY <2>1, <2>2, <2>3
<1>1. 0 \in P
  <2>1. \A s \in upTo(0) : s = {}
    BY FS_EmptySet, FS_CardinalityType, FS_Subset
  <2> DEFINE g == [s \in upTo(0) |-> 0]
  <2>2. Adds(g, f, upTo(0))
    BY <2>1 DEF Adds
  <2> QED
    BY <2>2
<1>2. ASSUME NEW k \in Nat, k \in P
      PROVE  k + 1 \in P
  <2>1. PICK g : Adds(g, f, upTo(k))
    BY <1>2
  <2> DEFINE h == [s \in upTo(k + 1) |->
                     IF s = {} THEN 0 ELSE f[Picked(s)] + g[s \ {Picked(s)}]]
  <2>2. ASSUME NEW s \in upTo(k)
        PROVE  s \in upTo(k + 1) /\ h[s] = g[s]
    <3>1. s \in upTo(k + 1)
      <4>1. s \in SUBSET S /\ Cardinality(s) <= k
        OBVIOUS
      <4>2. Cardinality(s) \in Nat
        BY <1>0, <4>1
      <4>3. Cardinality(s) <= k + 1
        BY <4>1, <4>2
      <4> QED
        BY <4>1, <4>3
    <3> QED
      BY <2>1, <3>1 DEF Adds
  <2>3. ASSUME NEW s \in upTo(k + 1), s # {}
        PROVE  s \ {Picked(s)} \in upTo(k)
    BY <1>0, <2>3
  <2>4. Adds(h, f, upTo(k + 1))
    <3>1. \A s \in upTo(k + 1) : s # {} => h[s \ {Picked(s)}] = g[s \ {Picked(s)}]
      <4> HIDE DEF h, upTo
      <4> QED
        BY <2>2, <2>3
    <3> HIDE DEF upTo
    <3>2. \A s \in upTo(k + 1) :
            h[s] = IF s = {} THEN 0 ELSE f[Picked(s)] + h[s \ {Picked(s)}]
      BY <3>1
    <3>3. h = [s \in upTo(k + 1) |-> h[s]]
      OBVIOUS
    <3> HIDE DEF h
    <3> QED
      BY <3>2, <3>3 DEF Adds
  <2> HIDE DEF h, upTo
  <2>5. \E e : Adds(e, f, upTo(k + 1))
    BY <2>4
  <2> QED
    BY <2>5
<1>3. Cardinality(S) \in Nat
  BY FS_CardinalityType
<1> HIDE DEF P
<1>4. Cardinality(S) \in P
  BY <1>1, <1>2, <1>3, SetInduction
<1>5. upTo(Cardinality(S)) = SUBSET S
  <2>1. \A s \in SUBSET S : Cardinality(s) <= Cardinality(S)
    BY FS_Subset
  <2> QED
    BY <2>1
<1>6. \E g : Adds(g, f, upTo(Cardinality(S)))
  BY <1>4 DEF P
<1> QED
  BY <1>5, <1>6

\* The fund's sum is that recursion, at the whole set.
LEMMA FundSum ==
  ASSUME NEW S, IsFiniteSet(S), NEW f, DOMAIN f = S
  PROVE  \E g : Adds(g, f, SUBSET S) /\ F!Sum(f) = g[S]
<1> DEFINE g == CHOOSE g : Adds(g, f, SUBSET S)
<1>1. Adds(g, f, SUBSET S)
  BY AddsEquation
<1>2. F!Sum(f) = LET iter[s \in SUBSET S] ==
                       IF s = {} THEN 0
                       ELSE f[CHOOSE x \in s : TRUE] + iter[s \ {CHOOSE x \in s : TRUE}]
                 IN  iter[S]
  BY DEF F!Sum, F!MapThenSumSet, F!MapThenFoldSet
<1>3. F!Sum(f) = g[S]
  BY <1>2 DEF Adds, Picked
<1> HIDE DEF g
<1> QED
  BY <1>1, <1>3

\* Two views: where every row of a book is under exactly one heading, the sums
\* under the headings add up to the sum of the book.
LEMMA HeadingsAddUp ==
  ASSUME NEW rs \in Seq(Row), NEW S, IsFiniteSet(S), NEW of,
         \A i \in 1..Len(rs) : of[i] \in S,
         NEW f, DOMAIN f = S, \A s \in S : f[s] = Net(rs, {i \in 1..Len(rs) : of[i] = s})
  PROVE  F!Sum(f) = Net(rs, 1..Len(rs))
<1>1. PICK g : Adds(g, f, SUBSET S) /\ F!Sum(f) = g[S]
  BY FundSum
<1> DEFINE under(s) == {i \in 1..Len(rs) : of[i] \in s}
           P == {k \in Nat : \A s \in SUBSET S : Cardinality(s) = k => g[s] = Net(rs, under(s))}
<1>2. 0 \in P
  <2> SUFFICES ASSUME NEW s \in SUBSET S, Cardinality(s) = 0
               PROVE  g[s] = Net(rs, under(s))
    OBVIOUS
  <2>1. s = {}
    BY FS_Subset, FS_EmptySet
  <2>2. g[s] = 0
    BY <1>1, <2>1 DEF Adds
  <2>3. Net(rs, under(s)) = 0
    BY <2>1, NetNothing
  <2> QED
    BY <2>2, <2>3
<1>3. ASSUME NEW k \in Nat, k \in P
      PROVE  k + 1 \in P
  <2> SUFFICES ASSUME NEW s \in SUBSET S, Cardinality(s) = k + 1
               PROVE  g[s] = Net(rs, under(s))
    OBVIOUS
  <2> DEFINE x == Picked(s)
             rest == s \ {x}
  <2>1. s # {} /\ IsFiniteSet(s)
    BY FS_Subset, FS_EmptySet
  <2>2. x \in s /\ x \in S
    BY <2>1 DEF Picked
  <2>3. rest \in SUBSET S /\ Cardinality(rest) = k
    <3>1. Cardinality(rest) = Cardinality(s) - 1
      BY <2>1, <2>2, FS_RemoveElement
    <3> QED
      BY <3>1
  <2>4. g[s] = f[x] + g[rest]
    BY <1>1, <2>1 DEF Adds
  <2>5. g[rest] = Net(rs, under(rest))
    BY <1>3, <2>3
  <2> DEFINE one == {i \in 1..Len(rs) : of[i] = x}
  <2>6. f[x] = Net(rs, one)
    BY <2>2
  <2>7. \A i \in 1..Len(rs) : /\ i \in under(s) <=> i \in one \/ i \in under(rest)
                              /\ ~(i \in one /\ i \in under(rest))
    BY <2>2
  <2> HIDE DEF one, under, x, rest
  <2> QED
    BY <2>4, <2>5, <2>6, <2>7, NetSplit
<1> HIDE DEF P
<1>4. Cardinality(S) \in P
  BY <1>2, <1>3, SetInduction, FS_CardinalityType
<1>5. g[S] = Net(rs, under(S))
  BY <1>4 DEF P
<1>6. under(S) = 1..Len(rs)
  OBVIOUS
<1> QED
  BY <1>1, <1>5, <1>6

\* In any book, where the money lies and what it is for are two views of it.
LEMMA TwoViewsOfBook ==
  ASSUME NEW rs \in Seq(Row)
  PROVE  /\ F!Sum([a \in Account |-> AccountBalance(rs, a)]) = Net(rs, 1..Len(rs))
         /\ F!Sum([p \in Purpose |-> PurposeBalance(rs, p)]) = Net(rs, 1..Len(rs))
<1>1. \A i \in 1..Len(rs) : rs[i].account \in Account /\ rs[i].purpose \in Purpose
  <2>1. \A i \in 1..Len(rs) : rs[i] \in Row
    BY ElementOfSeq
  <2> QED
    BY <2>1 DEF Row
<1>2. IsFiniteSet(Purpose)
  <2>1. IsFiniteSet({Main})
    BY FS_Singleton
  <2>2. IsFiniteSet({Main} \cup PassThrough)
    BY <2>1, PurposeAssumption, FS_Union
  <2> QED
    BY <2>2, PurposeAssumption, FS_Union DEF Purpose
<1>3. F!Sum([a \in Account |-> AccountBalance(rs, a)]) = Net(rs, 1..Len(rs))
  <2> DEFINE of == [i \in 1..Len(rs) |-> rs[i].account]
             f == [a \in Account |-> AccountBalance(rs, a)]
  <2>1. \A i \in 1..Len(rs) : of[i] \in Account
    BY <1>1
  <2>2. \A s \in Account : f[s] = Net(rs, {i \in 1..Len(rs) : of[i] = s})
    <3> SUFFICES ASSUME NEW s \in Account
                 PROVE  f[s] = Net(rs, {i \in 1..Len(rs) : of[i] = s})
      OBVIOUS
    <3>1. {i \in 1..Len(rs) : of[i] = s} = Located(rs, s)
      BY DEF Located
    <3> QED
      BY <3>1 DEF AccountBalance
  <2>3. DOMAIN f = Account
    OBVIOUS
  <2> HIDE DEF of, f
  <2>4. F!Sum(f) = Net(rs, 1..Len(rs))
    BY <2>1, <2>2, <2>3, AccountAssumption, HeadingsAddUp
  <2> QED
    BY <2>4 DEF f
<1>4. F!Sum([p \in Purpose |-> PurposeBalance(rs, p)]) = Net(rs, 1..Len(rs))
  <2> DEFINE of == [i \in 1..Len(rs) |-> rs[i].purpose]
             f == [p \in Purpose |-> PurposeBalance(rs, p)]
  <2>1. \A i \in 1..Len(rs) : of[i] \in Purpose
    BY <1>1
  <2>2. \A s \in Purpose : f[s] = Net(rs, {i \in 1..Len(rs) : of[i] = s})
    <3> SUFFICES ASSUME NEW s \in Purpose
                 PROVE  f[s] = Net(rs, {i \in 1..Len(rs) : of[i] = s})
      OBVIOUS
    <3>1. {i \in 1..Len(rs) : of[i] = s} = Tagged(rs, s)
      BY DEF Tagged
    <3> QED
      BY <3>1 DEF PurposeBalance
  <2>3. DOMAIN f = Purpose
    OBVIOUS
  <2> HIDE DEF of, f
  <2>4. F!Sum(f) = Net(rs, 1..Len(rs))
    BY <1>2, <2>1, <2>2, <2>3, HeadingsAddUp
  <2> QED
    BY <2>4 DEF f
<1> QED
  BY <1>3, <1>4

\* The fund's three figures after a batch is posted.
LEMMA FiguresGrow ==
  ASSUME rows \in Seq(Row), NEW batch \in Seq(Row), rows' = rows \o batch
  PROVE  /\ Whole' = Whole + Net(batch, 1..Len(batch))
         /\ Holdings' = [a \in Account |-> Holdings[a] + AccountBalance(batch, a)]
         /\ Earmarks' = [p \in Purpose |-> Earmarks[p] + PurposeBalance(batch, p)]
         /\ F!TwoViews'
<1>0. Grown(rows, batch, rows')
  BY DEF Grown
<1>1. rows' \in Seq(Row)
  BY <1>0, BatchRows
<1>2. Net(rows', 1..Len(rows')) = Net(rows, 1..Len(rows)) + Net(batch, 1..Len(batch))
  <2> DEFINE ids == 1..Len(rows')
             mine == 1..Len(rows)
             theirs == 1..Len(batch)
  <2>1. \A i \in 1..Len(rows) : i \in ids <=> i \in mine
    BY <1>0, BatchRows
  <2>2. \A n \in 1..Len(batch) : Len(rows) + n \in ids <=> n \in theirs
    BY <1>0, BatchRows
  <2> HIDE DEF ids, mine, theirs
  <2>3. Net(rows \o batch, ids) = Net(rows, mine) + Net(batch, theirs)
    BY <2>1, <2>2, NetConcat
  <2> QED
    BY <2>3 DEF ids, mine, theirs
<1>3. ASSUME NEW a
      PROVE  AccountBalance(rows', a) = AccountBalance(rows, a) + AccountBalance(batch, a)
  <2> DEFINE ids == Located(rows', a)
             mine == Located(rows, a)
             theirs == Located(batch, a)
  <2>1. Splits(rows, batch, ids, mine, theirs)
    BY <1>0, LocatedGrows
  <2> HIDE DEF ids, mine, theirs
  <2>2. Net(rows \o batch, ids) = Net(rows, mine) + Net(batch, theirs)
    BY <2>1, NetConcat DEF Splits
  <2> QED
    BY <2>2 DEF AccountBalance, ids, mine, theirs
<1>4. \A p : PurposeBalance(rows', p) = PurposeBalance(rows, p) + PurposeBalance(batch, p)
  BY PurposeBalanceConcat
<1>5. F!TwoViews'
  <2>1. /\ F!Sum([a \in Account |-> AccountBalance(rows', a)]) = Net(rows', 1..Len(rows'))
        /\ F!Sum([p \in Purpose |-> PurposeBalance(rows', p)]) = Net(rows', 1..Len(rows'))
    BY <1>1, TwoViewsOfBook
  <2> QED
    BY <2>1 DEF F!TwoViews, Holdings, Earmarks, Whole
<1> QED
  BY <1>2, <1>3, <1>4, <1>5 DEF Whole, Holdings, Earmarks

LEMMA FiguresType ==
  ASSUME rows \in Seq(Row)
  PROVE  /\ Whole \in Int /\ DOMAIN Holdings = Account /\ DOMAIN Earmarks = Purpose
         /\ \A a \in Account : Holdings[a] \in Int /\ Holdings[a] = AccountBalance(rows, a)
         /\ \A p \in Purpose : Earmarks[p] \in Int /\ Earmarks[p] = PurposeBalance(rows, p)
BY NetInt DEF Whole, Holdings, Earmarks, AccountBalance, PurposeBalance

\* A step that posts nothing leaves the figures as they are.
LEMMA FiguresStay ==
  ASSUME rows' = rows
  PROVE  Whole' = Whole /\ Holdings' = Holdings /\ Earmarks' = Earmarks
BY DEF Whole, Holdings, Earmarks

\* A batch under one purpose, or at one location, weighs on that one alone.
LEMMA AccountBalanceAlone ==
  ASSUME NEW batch \in Seq(Row), NEW a, \A n \in 1..Len(batch) : batch[n].account = a
  PROVE  \A b : AccountBalance(batch, b) = IF b = a THEN Net(batch, 1..Len(batch)) ELSE 0
<1> SUFFICES ASSUME NEW b
             PROVE  AccountBalance(batch, b) = IF b = a THEN Net(batch, 1..Len(batch)) ELSE 0
  OBVIOUS
<1>1. CASE b = a
  <2>1. Located(batch, b) = 1..Len(batch)
    BY <1>1 DEF Located
  <2> QED
    BY <1>1, <2>1 DEF AccountBalance
<1>2. CASE b # a
  <2>1. \A n \in 1..Len(batch) : n \notin Located(batch, b)
    BY <1>2 DEF Located
  <2> QED
    BY <1>2, <2>1, NetNothing DEF AccountBalance
<1> QED
  BY <1>1, <1>2

LEMMA PurposeBalanceAlone ==
  ASSUME NEW batch \in Seq(Row), NEW p, \A n \in 1..Len(batch) : batch[n].purpose = p
  PROVE  \A q : PurposeBalance(batch, q) = IF q = p THEN Net(batch, 1..Len(batch)) ELSE 0
<1> SUFFICES ASSUME NEW q
             PROVE  PurposeBalance(batch, q) = IF q = p THEN Net(batch, 1..Len(batch)) ELSE 0
  OBVIOUS
<1>1. CASE q = p
  <2>1. Tagged(batch, q) = 1..Len(batch)
    BY <1>1 DEF Tagged
  <2> QED
    BY <1>1, <2>1 DEF PurposeBalance
<1>2. CASE q # p
  <2>1. \A n \in 1..Len(batch) : n \notin Tagged(batch, q)
    BY <1>2 DEF Tagged
  <2> QED
    BY <1>2, <2>1, NetNothing DEF PurposeBalance
<1> QED
  BY <1>1, <1>2

\* Rows that bring money in add up to no less than nothing.
LEMMA NetNotNegative ==
  ASSUME NEW rs \in Seq(Row), \A i \in 1..Len(rs) : rs[i].direction = "in", NEW ids
  PROVE  Net(rs, ids) >= 0
<1> DEFINE v == Effects(rs, ids)
           P == {n \in Nat : n <= Len(v) => Running(v)[n] >= 0}
<1>1. /\ v \in Seq(Int) /\ Len(v) = Len(rs) /\ Len(v) \in Nat
      /\ \A i \in 1..Len(rs) : v[i] = IF i \in ids THEN Signed(rs[i]) ELSE 0
  BY EffectsSeq, LenProperties
<1>2. \A i \in 1..Len(v) : v[i] >= 0 /\ v[i] \in Int
  <2>1. ASSUME NEW i \in 1..Len(rs)
        PROVE  Signed(rs[i]) \in Nat
    <3>1. rs[i] \in Row
      BY ElementOfSeq
    <3> QED
      BY <3>1, CeilingAssumption DEF Signed, Row
  <2> HIDE DEF v
  <2> QED
    BY <1>1, <2>1
<1> HIDE DEF v
<1>3. 0 \in P
  BY <1>1, RunningStep
<1>4. ASSUME NEW n \in Nat, n \in P
      PROVE  n + 1 \in P
  <2>1. SUFFICES ASSUME n + 1 <= Len(v)
                 PROVE  Running(v)[n + 1] >= 0
    OBVIOUS
  <2>2. n + 1 \in 1..Len(v) /\ (n + 1) - 1 = n /\ n <= Len(v) /\ n \in 0..Len(v)
    BY <1>1, <2>1
  <2>3. Running(v)[n + 1] = Running(v)[n] + v[n + 1]
    BY <1>1, <2>2, RunningStep
  <2>4. Running(v)[n] \in Int /\ Running(v)[n] >= 0
    BY <1>1, <1>4, <2>2, RunningInt
  <2> QED
    BY <1>2, <2>2, <2>3, <2>4
<1> HIDE DEF P
<1>5. Len(v) \in P
  BY <1>1, <1>3, <1>4, SetInduction
<1> QED
  BY <1>5 DEF P, Net, Total, v

\* A batch for one purpose moves the whole and that purpose by the same amount,
\* and one at one location moves that location by as much.
LEMMA OnePurposeMoves ==
  ASSUME rows \in Seq(Row), NEW batch \in Seq(Row), rows' = rows \o batch,
         NEW p \in Purpose, \A n \in 1..Len(batch) : batch[n].purpose = p
  PROVE  Earmarks' = [Earmarks EXCEPT ![p] = @ + Whole' - Whole]
<1> DEFINE sum == Net(batch, 1..Len(batch))
<1>1. /\ Whole' = Whole + sum
      /\ Earmarks' = [x \in Purpose |-> Earmarks[x] + PurposeBalance(batch, x)]
  BY FiguresGrow
<1>2. \A x : PurposeBalance(batch, x) = IF x = p THEN sum ELSE 0
  BY PurposeBalanceAlone
<1>3. /\ Whole \in Int /\ sum \in Int /\ Earmarks = [x \in Purpose |-> Earmarks[x]]
      /\ \A x \in Purpose : Earmarks[x] \in Int
  BY FiguresType, NetInt DEF Earmarks
<1> HIDE DEF sum
<1>4. \A x \in Purpose : Earmarks'[x] = IF x = p THEN Earmarks[p] + Whole' - Whole ELSE Earmarks[x]
  BY <1>1, <1>2, <1>3
<1>5. Earmarks' = [x \in Purpose |-> Earmarks'[x]]
  BY <1>1
<1> QED
  BY <1>3, <1>4, <1>5

LEMMA OneLocationMoves ==
  ASSUME rows \in Seq(Row), NEW batch \in Seq(Row), rows' = rows \o batch,
         NEW a \in Account, \A n \in 1..Len(batch) : batch[n].account = a
  PROVE  Holdings' = [Holdings EXCEPT ![a] = @ + Whole' - Whole]
<1> DEFINE sum == Net(batch, 1..Len(batch))
<1>1. /\ Whole' = Whole + sum
      /\ Holdings' = [x \in Account |-> Holdings[x] + AccountBalance(batch, x)]
  BY FiguresGrow
<1>2. \A x : AccountBalance(batch, x) = IF x = a THEN sum ELSE 0
  BY AccountBalanceAlone
<1>3. /\ Whole \in Int /\ sum \in Int /\ Holdings = [x \in Account |-> Holdings[x]]
      /\ \A x \in Account : Holdings[x] \in Int
  BY FiguresType, NetInt DEF Holdings
<1> HIDE DEF sum
<1>4. \A x \in Account : Holdings'[x] = IF x = a THEN Holdings[a] + Whole' - Whole ELSE Holdings[x]
  BY <1>1, <1>2, <1>3
<1>5. Holdings' = [x \in Account |-> Holdings'[x]]
  BY <1>1
<1> QED
  BY <1>3, <1>4, <1>5

\* What the two legs of a movement weigh: nothing in all, their amount out of
\* one location and purpose and into the other.
LEMMA PairWeighs ==
  ASSUME NEW pair \in Seq(Row), Len(pair) = 2, NEW amount \in Int,
         Signed(pair[1]) = -amount, Signed(pair[2]) = amount
  PROVE  /\ Net(pair, 1..Len(pair)) = 0
         /\ \A x : AccountBalance(pair, x) = (IF pair[1].account = x THEN -amount ELSE 0)
                                               + (IF pair[2].account = x THEN amount ELSE 0)
         /\ \A x : PurposeBalance(pair, x) = (IF pair[1].purpose = x THEN -amount ELSE 0)
                                               + (IF pair[2].purpose = x THEN amount ELSE 0)
<1>1. \A ids : Net(pair, ids) = (IF 1 \in ids THEN -amount ELSE 0)
                                  + (IF 2 \in ids THEN amount ELSE 0)
  BY NetPair
<1>2. 1 \in 1..Len(pair) /\ 2 \in 1..Len(pair)
  OBVIOUS
<1>3. Net(pair, 1..Len(pair)) = 0
  BY <1>1, <1>2
<1>4. ASSUME NEW x
      PROVE  AccountBalance(pair, x) = (IF pair[1].account = x THEN -amount ELSE 0)
                                         + (IF pair[2].account = x THEN amount ELSE 0)
  <2>1. (1 \in Located(pair, x) <=> pair[1].account = x) /\ (2 \in Located(pair, x) <=> pair[2].account = x)
    BY <1>2 DEF Located
  <2> QED
    BY <1>1, <2>1 DEF AccountBalance
<1>5. ASSUME NEW x
      PROVE  PurposeBalance(pair, x) = (IF pair[1].purpose = x THEN -amount ELSE 0)
                                         + (IF pair[2].purpose = x THEN amount ELSE 0)
  <2>1. (1 \in Tagged(pair, x) <=> pair[1].purpose = x) /\ (2 \in Tagged(pair, x) <=> pair[2].purpose = x)
    BY <1>2 DEF Tagged
  <2> QED
    BY <1>1, <2>1 DEF PurposeBalance
<1> QED
  BY <1>3, <1>4, <1>5

\* A movement between two locations, within one purpose.
LEMMA CarryMoves ==
  ASSUME rows \in Seq(Row), NEW from \in Account, NEW to \in Account, from # to,
         NEW p \in Purpose, NEW amount \in 1..Ceiling, NEW day \in Nat,
         NEW movement \in Movement, NEW corrects \in Nat,
         rows' = rows \o TransferPair(Leg(from, p), Leg(to, p), amount, day, movement, corrects)
  PROVE  /\ Whole' = Whole /\ Earmarks' = Earmarks
         /\ Holdings' = [Holdings EXCEPT ![from] = @ - amount, ![to] = @ + amount]
         /\ Holdings'[to] - Holdings[to] = amount
<1> DEFINE pair == TransferPair(Leg(from, p), Leg(to, p), amount, day, movement, corrects)
<1>1. /\ pair \in Seq(Row) /\ Len(pair) = 2
      /\ pair[1].account = from /\ pair[2].account = to
      /\ pair[1].purpose = p /\ pair[2].purpose = p
      /\ Signed(pair[1]) = -amount /\ Signed(pair[2]) = amount
  <2>1. pair \in Seq(Row)
    BY PairType
  <2>2. /\ Len(pair) = 2 /\ \A n \in 1..2 : pair[n].amount = amount
        /\ pair[1].account = from /\ pair[2].account = to
        /\ pair[1].purpose = p /\ pair[2].purpose = p
        /\ pair[1].direction = "out" /\ pair[2].direction = "in"
    BY PairFields DEF Leg
  <2>3. Signed(pair[1]) = -amount /\ Signed(pair[2]) = amount
    <3> HIDE DEF pair
    <3> QED
      BY <2>2 DEF Signed
  <2> QED
    BY <2>1, <2>2, <2>3
<1>2. amount \in Int /\ amount \in Nat
  BY CeilingAssumption
<1> HIDE DEF pair
<1>3. /\ Net(pair, 1..Len(pair)) = 0
      /\ \A x : AccountBalance(pair, x) = (IF from = x THEN -amount ELSE 0)
                                            + (IF to = x THEN amount ELSE 0)
      /\ \A x : PurposeBalance(pair, x) = (IF p = x THEN -amount ELSE 0)
                                            + (IF p = x THEN amount ELSE 0)
  BY <1>1, <1>2, PairWeighs
<1>4. /\ Whole' = Whole + Net(pair, 1..Len(pair))
      /\ Holdings' = [x \in Account |-> Holdings[x] + AccountBalance(pair, x)]
      /\ Earmarks' = [x \in Purpose |-> Earmarks[x] + PurposeBalance(pair, x)]
  BY <1>1, FiguresGrow DEF pair
<1>5. /\ Whole \in Int
      /\ Holdings = [x \in Account |-> Holdings[x]] /\ Earmarks = [x \in Purpose |-> Earmarks[x]]
      /\ (\A x \in Account : Holdings[x] \in Int) /\ (\A x \in Purpose : Earmarks[x] \in Int)
  BY FiguresType DEF Holdings, Earmarks
<1>6. Whole' = Whole
  BY <1>3, <1>4, <1>5
<1>7. \A x \in Purpose : Earmarks[x] + PurposeBalance(pair, x) = Earmarks[x]
  BY <1>2, <1>3, <1>5
<1>8. Earmarks' = Earmarks
  BY <1>4, <1>5, <1>7
<1>9. \A x \in Account : Holdings[x] + AccountBalance(pair, x) =
        IF x = to THEN Holdings[to] + amount
        ELSE IF x = from THEN Holdings[from] - amount ELSE Holdings[x]
  BY <1>2, <1>3, <1>5
<1>10. Holdings' = [Holdings EXCEPT ![from] = @ - amount, ![to] = @ + amount]
  BY <1>4, <1>5, <1>9
<1>11. Holdings'[to] - Holdings[to] = amount
  BY <1>2, <1>5, <1>10
<1> QED
  BY <1>6, <1>8, <1>10, <1>11

\* A movement between two purposes, at one location.
LEMMA RetagMoves ==
  ASSUME rows \in Seq(Row), NEW a \in Account, NEW from \in Purpose, NEW to \in Purpose,
         from # to, NEW amount \in 1..Ceiling, NEW day \in Nat,
         NEW movement \in Movement, NEW corrects \in Nat,
         rows' = rows \o TransferPair(Leg(a, from), Leg(a, to), amount, day, movement, corrects)
  PROVE  /\ Whole' = Whole /\ Holdings' = Holdings
         /\ Earmarks' = [Earmarks EXCEPT ![from] = @ - amount, ![to] = @ + amount]
         /\ Earmarks'[to] - Earmarks[to] = amount
<1> DEFINE pair == TransferPair(Leg(a, from), Leg(a, to), amount, day, movement, corrects)
<1>1. /\ pair \in Seq(Row) /\ Len(pair) = 2
      /\ pair[1].account = a /\ pair[2].account = a
      /\ pair[1].purpose = from /\ pair[2].purpose = to
      /\ Signed(pair[1]) = -amount /\ Signed(pair[2]) = amount
  <2>1. pair \in Seq(Row)
    BY PairType
  <2>2. /\ Len(pair) = 2 /\ \A n \in 1..2 : pair[n].amount = amount
        /\ pair[1].account = a /\ pair[2].account = a
        /\ pair[1].purpose = from /\ pair[2].purpose = to
        /\ pair[1].direction = "out" /\ pair[2].direction = "in"
    BY PairFields DEF Leg
  <2>3. Signed(pair[1]) = -amount /\ Signed(pair[2]) = amount
    <3> HIDE DEF pair
    <3> QED
      BY <2>2 DEF Signed
  <2> QED
    BY <2>1, <2>2, <2>3
<1>2. amount \in Int /\ amount \in Nat
  BY CeilingAssumption
<1> HIDE DEF pair
<1>3. /\ Net(pair, 1..Len(pair)) = 0
      /\ \A x : AccountBalance(pair, x) = (IF a = x THEN -amount ELSE 0)
                                            + (IF a = x THEN amount ELSE 0)
      /\ \A x : PurposeBalance(pair, x) = (IF from = x THEN -amount ELSE 0)
                                            + (IF to = x THEN amount ELSE 0)
  BY <1>1, <1>2, PairWeighs
<1>4. /\ Whole' = Whole + Net(pair, 1..Len(pair))
      /\ Holdings' = [x \in Account |-> Holdings[x] + AccountBalance(pair, x)]
      /\ Earmarks' = [x \in Purpose |-> Earmarks[x] + PurposeBalance(pair, x)]
  BY <1>1, FiguresGrow DEF pair
<1>5. /\ Whole \in Int
      /\ Holdings = [x \in Account |-> Holdings[x]] /\ Earmarks = [x \in Purpose |-> Earmarks[x]]
      /\ (\A x \in Account : Holdings[x] \in Int) /\ (\A x \in Purpose : Earmarks[x] \in Int)
  BY FiguresType DEF Holdings, Earmarks
<1>6. Whole' = Whole
  BY <1>3, <1>4, <1>5
<1>7. \A x \in Account : Holdings[x] + AccountBalance(pair, x) = Holdings[x]
  <2>1. \A x : AccountBalance(pair, x) = 0
    BY <1>2, <1>3
  <2> QED
    BY <1>5, <2>1
<1>8. Holdings' = Holdings
  BY <1>4, <1>5, <1>7
<1>9. \A x \in Purpose : Earmarks[x] + PurposeBalance(pair, x) =
        IF x = to THEN Earmarks[to] + amount
        ELSE IF x = from THEN Earmarks[from] - amount ELSE Earmarks[x]
  BY <1>2, <1>3, <1>5
<1>10. Earmarks' = [Earmarks EXCEPT ![from] = @ - amount, ![to] = @ + amount]
  BY <1>4, <1>5, <1>9
<1>11. Earmarks'[to] - Earmarks[to] = amount
  BY <1>2, <1>5, <1>10
<1> QED
  BY <1>6, <1>8, <1>10, <1>11

-----------------------------------------------------------------------------
(* The fund.  What the refinement rests on, beyond the figures: a location  *)
(* or an envelope that a row or a claim names is there, a correction's row  *)
(* is one that can be corrected, the months of one payment are dues at one  *)
(* location for the main purpose, and there is nothing before setup.        *)

Founded(p) == p \in Incidental => envelope[p] # Absent

\* What a step posts lands on locations and envelopes that are there after it.
Lands(batch) ==
  \A n \in 1..Len(batch) :
    /\ account'[batch[n].account] # Absent
    /\ batch[n].purpose \in Incidental => envelope'[batch[n].purpose] # Absent
    /\ batch[n].payment # NoRow =>
         /\ \A m \in 1..Len(batch) : batch[m].payment = Len(rows) + 1
         /\ batch[n].account = batch[1].account
         /\ batch[n].occurredOn = batch[1].occurredOn
         /\ batch[n].kind = "dues" /\ batch[n].purpose = Main

OfPayment(row, payment) ==
  payment # NoRow =>
    /\ payment \in Ids /\ rows[payment].account = row.account
    /\ row.kind = "dues" /\ row.purpose = Main

Placed ==
  /\ ~setUp => /\ rows = << >> /\ account = [a \in Account |-> Absent]
               /\ envelope = [e \in Incidental |-> Absent]
  /\ \A i \in Ids : account[rows[i].account] # Absent /\ Founded(rows[i].purpose)
  /\ \A i \in Ids : OfPayment(rows[i], rows[i].payment)
  /\ \A i \in Ids : rows[i].corrects # NoRow =>
       rows[i].corrects \in Ids /\ Correctable(rows[rows[i].corrects])
  /\ \A c \in Claim : claims[c].status # Absent => Founded(claims[c].purpose)

\* New locations: what is posted with them comes in for the main purpose.
LEMMA NewLocationsBegin ==
  ASSUME rows \in Seq(Row), NEW batch \in Seq(Row), rows' = rows \o batch,
         NEW born \in SUBSET Account, born # {},
         \A a \in born : account[a] = Absent /\ Located(rows, a) = {},
         \A n \in 1..Len(batch) : /\ batch[n].direction = "in" /\ batch[n].purpose = Main
                                  /\ batch[n].account \in born,
         account' = [a \in Account |-> IF a \in born THEN "active" ELSE account[a]],
         UNCHANGED <<envelope, counts>>
  PROVE  F!Begin(born)
<1>1. \A a \in born : account[a] = "absent" /\ Holdings[a] = 0
  <2> SUFFICES ASSUME NEW a \in born
               PROVE  account[a] = "absent" /\ Holdings[a] = 0
    OBVIOUS
  <2>1. Net(rows, {}) = 0
    BY NetNothing
  <2>2. Holdings[a] = Net(rows, {})
    BY DEF Holdings, AccountBalance
  <2> QED
    BY <2>1, <2>2 DEF Absent
<1>2. /\ Holdings' = [a \in Account |-> Holdings[a] + AccountBalance(batch, a)]
      /\ F!TwoViews'
  BY FiguresGrow
<1>3. ASSUME NEW a \in Account
      PROVE  IF a \in born THEN Holdings'[a] >= 0 ELSE Holdings'[a] = Holdings[a]
  <2>1. Holdings[a] \in Int /\ Holdings'[a] = Holdings[a] + AccountBalance(batch, a)
    BY <1>2, FiguresType
  <2>2. CASE a \in born
    <3>1. AccountBalance(batch, a) >= 0 /\ AccountBalance(batch, a) \in Int
      BY NetNotNegative, NetInt DEF AccountBalance
    <3> QED
      BY <1>1, <2>1, <2>2, <3>1
  <2>3. CASE a \notin born
    <3>1. AccountBalance(batch, a) = 0
      BY <2>3, NetNothing DEF AccountBalance, Located
    <3> QED
      BY <2>1, <2>3, <3>1
  <2> QED
    BY <2>2, <2>3
<1>4. Earmarks' = [Earmarks EXCEPT ![Main] = @ + Whole' - Whole]
  <2>1. Main \in Purpose
    BY DEF Purpose
  <2>2. \A n \in 1..Len(batch) : batch[n].purpose = Main
    OBVIOUS
  <2> QED
    BY <2>1, <2>2, OnePurposeMoves
<1> QED
  BY <1>1, <1>2, <1>3, <1>4 DEF F!Begin

\* Rows at one location for one purpose that is open.
LEMMA Enters ==
  ASSUME rows \in Seq(Row), NEW batch \in Seq(Row), rows' = rows \o batch,
         NEW a \in Account, NEW p \in Purpose,
         \A n \in 1..Len(batch) : batch[n].account = a,
         \A n \in 1..Len(batch) : batch[n].purpose = p,
         account[a] # Absent, Founded(p), ~Closed(p), TypeOK,
         UNCHANGED <<account, envelope, counts>>
  PROVE  F!Enter(a, p)
<1>1. /\ Holdings' = [Holdings EXCEPT ![a] = @ + Whole' - Whole]
      /\ Earmarks' = [Earmarks EXCEPT ![p] = @ + Whole' - Whole]
  BY OneLocationMoves, OnePurposeMoves
<1>2. F!Open(p)
  BY DEF F!Open, Founded, Closed, TypeOK, Absent
<1> QED
  BY <1>1, <1>2 DEF F!Enter, Absent

\* What every call does: a step of the fund or none, and rows that land on
\* locations and envelopes that are there.
Serves ==
  /\ F!Next \/ UNCHANGED F!vars
  /\ \E batch \in Seq(Row) : rows' = rows \o batch /\ Lands(batch)
  /\ setUp' \/ UNCHANGED <<rows, account, envelope>>

LEMMA LandsNothing ==
  ASSUME rows \in Seq(Row), rows' = rows
  PROVE  \E batch \in Seq(Row) : rows' = rows \o batch /\ Lands(batch)
<1>1. << >> \in Seq(Row) /\ rows \o << >> = rows /\ Len(<< >>) = 0
  BY ConcatEmptySeq
<1>2. Lands(<< >>)
  BY <1>1 DEF Lands
<1> QED
  BY <1>1, <1>2

LEMMA SetUpFundServes ==
  ASSUME TypeOK, Placed, NEW born \in SUBSET Account, NEW opening \in [born -> OpeningBalance],
         SetUpFund(born, opening)
  PROVE  Serves
<1> DEFINE S == {a \in born : opening[a].amount > 0}
<1>1. PICK order \in Orders(S) : Post(Openings(opening, order))
  BY DEF SetUpFund
<1>2. IsFiniteSet(S)
  BY AccountAssumption, FS_Subset
<1>3. /\ Len(order) \in Nat /\ \A n \in 1..Len(order) : order[n] \in S
  <2> HIDE DEF S
  <2> QED
    BY <1>2, OrdersType, ElementOfSeq
<1> DEFINE row(n) == Entry(order[n], Main, "in", opening[order[n]].amount,
                           opening[order[n]].occurredOn, "opening")
           batch == Openings(opening, order)
<1>4. ASSUME NEW n \in 1..Len(order)
      PROVE  /\ row(n) \in Row /\ row(n).purpose = Main /\ row(n).direction = "in"
             /\ row(n).account \in born /\ row(n).payment = NoRow
  <2>1. order[n] \in born /\ order[n] \in Account /\ opening[order[n]] \in OpeningBalance
          /\ opening[order[n]].amount > 0
    BY <1>3
  <2>2. opening[order[n]].amount \in 1..Ceiling /\ opening[order[n]].occurredOn \in Nat
    BY <2>1, OpeningRowType
  <2>3. Main \in Purpose /\ "in" \in Direction /\ "opening" \in Kind
    BY DEF Purpose, Direction, Kind
  <2>4. /\ row(n).purpose = Main /\ row(n).direction = "in"
        /\ row(n).account = order[n] /\ row(n).payment = NoRow
    BY DEF Entry
  <2> QED
    BY <2>1, <2>2, <2>3, <2>4, EntryType
<1>5. batch = [n \in 1..Len(order) |-> row(n)]
  BY DEF Openings
<1> HIDE DEF row
<1>6. batch \in Seq(Row) /\ Len(batch) = Len(order) /\ \A n \in 1..Len(batch) : batch[n] = row(n)
  BY <1>3, <1>4, <1>5, IsASeq, LenProperties
<1>7. rows' = rows \o batch /\ rows \in Seq(Row)
  BY <1>1 DEF Post, TypeOK
<1> HIDE DEF batch, S
<1>8. rows = << >> /\ \A a \in Account : account[a] = Absent
  BY DEF Placed, SetUpFund
<1>9. \A a \in born : account[a] = Absent /\ Located(rows, a) = {}
  BY <1>8 DEF Located
<1>10. /\ account' = [a \in Account |-> IF a \in born THEN "active" ELSE account[a]]
       /\ UNCHANGED <<envelope, counts>> /\ born # {} /\ setUp'
  BY DEF SetUpFund
<1>11. F!Begin(born)
  <2>1. \A n \in 1..Len(batch) : /\ batch[n].direction = "in" /\ batch[n].purpose = Main
                                 /\ batch[n].account \in born
    BY <1>4, <1>6
  <2> QED
    BY <1>6, <1>7, <1>9, <1>10, <2>1, NewLocationsBegin
<1>12. Lands(batch)
  <2>1. Main \notin Incidental
    BY PurposesDistinct
  <2> QED
    BY <1>4, <1>6, <1>10, <2>1 DEF Lands, Absent
<1> QED
  BY <1>6, <1>7, <1>10, <1>11, <1>12 DEF Serves, F!Next

LEMMA CreateAccountServes ==
  ASSUME TypeOK, Placed, NEW a \in Account, NEW opening \in OpeningBalance,
         CreateAccount(a, opening)
  PROVE  Serves
<1>1. \E batch \in Seq(Row) :
        /\ rows' = rows \o batch
        /\ \A n \in 1..Len(batch) : /\ batch[n].direction = "in" /\ batch[n].purpose = Main
                                    /\ batch[n].account = a /\ batch[n].payment = NoRow
  <2>1. CASE opening.amount > 0
    <3> DEFINE row == Entry(a, Main, "in", opening.amount, opening.occurredOn, "opening")
    <3>1. row \in Row
      <4>1. Main \in Purpose /\ "in" \in Direction /\ "opening" \in Kind
        BY DEF Purpose, Direction, Kind
      <4> QED
        BY <2>1, <4>1, OpeningRowType, EntryType
    <3>2. row.direction = "in" /\ row.purpose = Main /\ row.account = a /\ row.payment = NoRow
      BY DEF Entry
    <3>3. Openings([x \in {a} |-> opening], <<a>>) = <<row>>
      <4>1. Len(<<a>>) = 1 /\ <<a>>[1] = a
        OBVIOUS
      <4>2. Openings([x \in {a} |-> opening], <<a>>) = [i \in 1..1 |-> row]
        BY <4>1 DEF Openings
      <4> HIDE DEF row
      <4> QED
        BY <4>2
    <3>4. rows' = rows \o <<row>>
      BY <2>1, <3>3 DEF CreateAccount, Post
    <3> HIDE DEF row
    <3>5. <<row>> \in Seq(Row) /\ \A n \in 1..Len(<<row>>) : <<row>>[n] = row
      BY <3>1
    <3> QED
      BY <3>2, <3>4, <3>5
  <2>2. CASE ~ (opening.amount > 0)
    <3> DEFINE none == << >>
    <3>1. rows' = rows \o none
      BY <2>2 DEF CreateAccount, Post
    <3>2. none \in Seq(Row) /\ \A n \in 1..Len(none) : FALSE
      BY EmptySeq
    <3> HIDE DEF none
    <3> QED
      BY <3>1, <3>2
  <2> QED
    BY <2>1, <2>2
<1>2. PICK batch \in Seq(Row) :
        /\ rows' = rows \o batch
        /\ \A n \in 1..Len(batch) : /\ batch[n].direction = "in" /\ batch[n].purpose = Main
                                    /\ batch[n].account = a /\ batch[n].payment = NoRow
  BY <1>1
<1>3. /\ account[a] = Absent /\ setUp' /\ rows \in Seq(Row)
      /\ account' = [account EXCEPT ![a] = "active"] /\ UNCHANGED <<envelope, counts>>
  BY DEF CreateAccount, TypeOK
<1>4. Located(rows, a) = {}
  BY <1>3 DEF Placed, Ids, Located
<1>5. account' = [x \in Account |-> IF x \in {a} THEN "active" ELSE account[x]]
  BY <1>3 DEF TypeOK
<1>6. F!Begin({a})
  <2>1. {a} \in SUBSET Account /\ {a} # {}
    OBVIOUS
  <2>2. \A x \in {a} : account[x] = Absent /\ Located(rows, x) = {}
    BY <1>3, <1>4
  <2>3. \A n \in 1..Len(batch) : /\ batch[n].direction = "in" /\ batch[n].purpose = Main
                                 /\ batch[n].account \in {a}
    BY <1>2
  <2> QED
    BY <1>2, <1>3, <1>5, <2>1, <2>2, <2>3, NewLocationsBegin
<1>7. Lands(batch)
  <2>1. Main \notin Incidental /\ account'[a] # Absent
    BY <1>5, PurposesDistinct DEF Absent
  <2> QED
    BY <1>2, <2>1 DEF Lands
<1> QED
  BY <1>2, <1>3, <1>6, <1>7 DEF Serves, F!Next

LEMMA AccountCallsServe ==
  ASSUME TypeOK, Placed, NEW a \in Account,
         DeleteAccount(a) \/ RetireAccount(a) \/ ReinstateAccount(a)
  PROVE  Serves
<1>1. rows' = rows /\ rows \in Seq(Row) /\ UNCHANGED <<envelope, counts>>
  BY DEF DeleteAccount, RetireAccount, ReinstateAccount, TypeOK
<1>2. Whole' = Whole /\ Holdings' = Holdings /\ Earmarks' = Earmarks
  BY <1>1, FiguresStay
<1>3. account[a] # Absent
  BY DEF DeleteAccount, RetireAccount, ReinstateAccount, Absent
<1>4. setUp /\ setUp' = setUp
  BY <1>3 DEF Placed, DeleteAccount, RetireAccount, ReinstateAccount
<1>5. F!Leave(a) \/ F!Return(a)
  <2>1. CASE DeleteAccount(a)
    <3>1. Holdings[a] = 0
      <4>1. Net(rows, {}) = 0
        BY <1>1, NetNothing
      <4> QED
        BY <2>1, <4>1 DEF DeleteAccount, Holdings, AccountBalance
    <3> QED
      BY <1>1, <1>2, <1>3, <2>1, <3>1 DEF F!Leave, DeleteAccount, Absent
  <2>2. CASE RetireAccount(a)
    <3>1. Holdings[a] = 0
      BY <2>2 DEF RetireAccount, Holdings
    <3> QED
      BY <1>1, <1>2, <1>3, <2>2, <3>1 DEF F!Leave, RetireAccount, Absent
  <2>3. CASE ReinstateAccount(a)
    BY <1>1, <1>2, <2>3 DEF F!Return, ReinstateAccount
  <2> QED
    BY <2>1, <2>2, <2>3
<1> QED
  BY <1>1, <1>4, <1>5, LandsNothing DEF Serves, F!Next

\* A call that posts nothing and touches no location, envelope or count.
LEMMA QuietServes ==
  ASSUME TypeOK, UNCHANGED <<rows, account, envelope, counts>>
  PROVE  Serves
<1>1. Whole' = Whole /\ Holdings' = Holdings /\ Earmarks' = Earmarks
  BY FiguresStay
<1>2. rows \in Seq(Row)
  BY DEF TypeOK
<1> QED
  BY <1>1, <1>2, LandsNothing DEF Serves, F!vars

\* Rows at one location for one purpose that is open.
LEMMA EntryServes ==
  ASSUME TypeOK, NEW batch \in Seq(Row), rows' = rows \o batch, NEW a \in Account,
         NEW p \in Purpose, \A n \in 1..Len(batch) : batch[n].account = a,
         \A n \in 1..Len(batch) : batch[n].purpose = p,
         \A n \in 1..Len(batch) : batch[n].payment # NoRow =>
           /\ \A m \in 1..Len(batch) : batch[m].payment = Len(rows) + 1
           /\ batch[n].kind = "dues" /\ p = Main
           /\ batch[n].occurredOn = batch[1].occurredOn,
         account[a] # Absent, Founded(p), ~Closed(p),
         UNCHANGED <<account, envelope, counts>>, setUp'
  PROVE  Serves
<1>1. F!Enter(a, p)
  BY Enters DEF TypeOK
<1>2. Lands(batch)
  <2> SUFFICES ASSUME NEW n \in 1..Len(batch)
               PROVE  /\ account'[batch[n].account] # Absent
                      /\ batch[n].purpose \in Incidental => envelope'[batch[n].purpose] # Absent
                      /\ batch[n].payment # NoRow =>
                           /\ \A m \in 1..Len(batch) : batch[m].payment = Len(rows) + 1
                           /\ batch[n].account = batch[1].account
                           /\ batch[n].occurredOn = batch[1].occurredOn
                           /\ batch[n].kind = "dues" /\ batch[n].purpose = Main
    BY DEF Lands
  <2>1. batch[n].account = a /\ batch[n].purpose = p
    OBVIOUS
  <2>2. batch[1].account = a
    <3>1. Len(batch) \in Nat
      BY LenProperties
    <3>2. 1 \in 1..Len(batch)
      BY <3>1
    <3> QED
      BY <3>2
  <2> QED
    BY <2>1, <2>2 DEF Founded
<1> QED
  BY <1>1, <1>2 DEF Serves, F!Next

\* One row.
LEMMA OneEntryServes ==
  ASSUME TypeOK, NEW row \in Row, rows' = rows \o <<row>>,
         account[row.account] # Absent, Founded(row.purpose), ~Closed(row.purpose),
         row.payment = NoRow, UNCHANGED <<account, envelope, counts>>, setUp'
  PROVE  Serves
<1> DEFINE batch == <<row>>
<1>1. batch \in Seq(Row) /\ rows' = rows \o batch
  OBVIOUS
<1>2. \A n \in 1..Len(batch) : batch[n] = row
  OBVIOUS
<1>3. row.account \in Account /\ row.purpose \in Purpose
  BY DEF Row
<1> HIDE DEF batch
<1>4. /\ \A n \in 1..Len(batch) : batch[n].account = row.account
      /\ \A n \in 1..Len(batch) : batch[n].purpose = row.purpose
      /\ \A n \in 1..Len(batch) : batch[n].payment # NoRow =>
           /\ \A m \in 1..Len(batch) : batch[m].payment = Len(rows) + 1
           /\ batch[n].kind = "dues" /\ row.purpose = Main
           /\ batch[n].occurredOn = batch[1].occurredOn
  BY <1>2
<1> QED
  BY <1>1, <1>3, <1>4, EntryServes

LEMMA PostTransactionServes ==
  ASSUME TypeOK, Placed, NEW a \in Account, NEW p \in Purpose, NEW direction \in Direction,
         NEW amount \in Amount, NEW day \in Day, NEW kind \in {"normal", "adjustment"},
         NEW named \in BOOLEAN,
         PostTransaction(a, p, direction, amount, day, kind, named)
  PROVE  Serves
<1> DEFINE base == Entry(a, p, direction, amount, day, kind)
           row == [base EXCEPT !.named = named]
<1>1. amount \in 1..Ceiling /\ day \in Nat /\ kind \in Kind
  BY AmountAssumption, DaysAreNaturals DEF Kind
<1>2. base \in Row /\ base.account = a /\ base.purpose = p /\ base.payment = NoRow
  <2>1. base.account = a /\ base.purpose = p /\ base.payment = NoRow
    BY DEF Entry
  <2> QED
    BY <1>1, <2>1, EntryType
<1> HIDE DEF base
<1>3. row \in Row /\ row.account = a /\ row.purpose = p /\ row.payment = NoRow
  BY <1>2 DEF Row
<1>4. /\ rows' = rows \o <<row>> /\ account[a] # Absent /\ Open(p) /\ setUp'
      /\ UNCHANGED <<account, envelope, counts>>
  BY DEF PostTransaction, Post, Active, Absent, Open, Exists, base
<1>5. Founded(p) /\ ~Closed(p)
  BY <1>4 DEF Open, Exists, Founded
<1> HIDE DEF row
<1> QED
  BY <1>3, <1>4, <1>5, OneEntryServes

LEMMA SettleReimbursementServes ==
  ASSUME TypeOK, Placed, NEW c \in Claim, NEW a \in Account, NEW day \in Day,
         SettleReimbursement(c, a, day)
  PROVE  Serves
<1> DEFINE base == Entry(a, claims[c].purpose, "out", claims[c].amount, day, "reimbursement")
           row == [base EXCEPT !.claim = c]
<1>1. claims[c].purpose \in Purpose /\ claims[c].amount \in 1..Ceiling /\ day \in Nat
  BY DaysAreNaturals DEF TypeOK
<1>2. /\ base \in Row /\ base.account = a /\ base.purpose = claims[c].purpose
      /\ base.payment = NoRow
  <2>1. "out" \in Direction /\ "reimbursement" \in Kind
    BY DEF Direction, Kind
  <2>2. base.account = a /\ base.purpose = claims[c].purpose /\ base.payment = NoRow
    BY DEF Entry
  <2> QED
    BY <1>1, <2>1, <2>2, EntryType
<1>3. /\ rows' = rows \o <<row>> /\ account[a] # Absent /\ ~Closed(claims[c].purpose)
      /\ UNCHANGED <<account, envelope, counts, setUp>> /\ claims[c].status # Absent
  BY DEF SettleReimbursement, Post, Active, Absent, Unsettled
<1> HIDE DEF base
<1>4. /\ row \in Row /\ row.account = a /\ row.purpose = claims[c].purpose
      /\ row.payment = NoRow
  BY <1>2 DEF Row
<1>5. Founded(claims[c].purpose) /\ setUp
  BY <1>3 DEF Placed
<1> HIDE DEF row
<1> QED
  BY <1>3, <1>4, <1>5, OneEntryServes

\* The months of one payment: rows of one kind at one location.
LEMMA PostDuesPaymentsServes ==
  ASSUME TypeOK, Placed, NEW a \in Account, NEW k \in 1..MaxMonths,
         NEW amounts \in [1..k -> Amount], NEW day \in Day, PostDuesPayments(a, amounts, day)
  PROVE  Serves
<1> DEFINE row(n) == [Entry(a, Main, "in", amounts[n], day, "dues")
                        EXCEPT !.named = TRUE, !.payment = Len(rows) + 1]
           batch == [n \in 1..k |-> row(n)]
<1>1. k \in Nat /\ Len(amounts) = k /\ Len(rows) \in Nat
  <2>1. k \in Nat
    BY BoundsAssumption
  <2>2. amounts \in Seq(Amount)
    BY <2>1, IsASeq
  <2>3. rows \in Seq(Row)
    BY DEF TypeOK
  <2> QED
    BY <2>1, <2>2, <2>3, LenProperties
<1>2. /\ rows' = rows \o batch /\ account[a] # Absent /\ setUp'
      /\ UNCHANGED <<account, envelope, counts>>
  BY <1>1 DEF PostDuesPayments, Post, Active, Absent
<1>3. ASSUME NEW n \in 1..k
      PROVE  /\ row(n) \in Row /\ row(n).account = a /\ row(n).purpose = Main
             /\ row(n).payment = Len(rows) + 1 /\ row(n).kind = "dues"
             /\ row(n).occurredOn = day
  <2>1. amounts[n] \in 1..Ceiling /\ day \in Nat
    BY AmountAssumption, DaysAreNaturals
  <2>2. Main \in Purpose /\ "in" \in Direction /\ "dues" \in Kind
    BY DEF Purpose, Direction, Kind
  <2> DEFINE base == Entry(a, Main, "in", amounts[n], day, "dues")
             payment == Len(rows) + 1
  <2>3. base \in Row
    BY <2>1, <2>2, EntryType
  <2>4. base.account = a /\ base.purpose = Main /\ base.kind = "dues" /\ base.occurredOn = day
    BY DEF Entry
  <2>5. row(n) = [base EXCEPT !.named = TRUE, !.payment = payment] /\ payment \in Nat
    BY <1>1
  <2>6. payment = Len(rows) + 1
    OBVIOUS
  <2> HIDE DEF base, payment, row
  <2> QED
    BY <2>3, <2>4, <2>5, <2>6 DEF Row
<1> HIDE DEF row
<1>4. batch \in Seq(Row) /\ Len(batch) = k /\ \A n \in 1..k : batch[n] = row(n)
  BY <1>1, <1>3, IsASeq, LenProperties
<1> HIDE DEF batch
<1>5. /\ \A n \in 1..Len(batch) : batch[n].account = a
      /\ \A n \in 1..Len(batch) : batch[n].purpose = Main
      /\ \A n \in 1..Len(batch) : batch[n].payment # NoRow =>
           /\ \A m \in 1..Len(batch) : batch[m].payment = Len(rows) + 1
           /\ batch[n].kind = "dues" /\ Main = Main
           /\ batch[n].occurredOn = batch[1].occurredOn
  BY <1>1, <1>3, <1>4
<1>6. Main \in Purpose /\ Founded(Main) /\ ~Closed(Main)
  BY PurposesDistinct DEF Purpose, Founded, Closed
<1> QED
  BY <1>2, <1>4, <1>5, <1>6, EntryServes

\* A row is under a purpose that is there, however it was corrected.
LEMMA EffectiveFounded ==
  ASSUME TypeOK, Placed, NEW i \in Ids
  PROVE  Founded(EffectivePurpose(rows, i))
<1>1. \A j \in Ids : Founded(rows[j].purpose)
  BY DEF Placed
<1>2. PathEnds(rows, i) \subseteq {rows[j].purpose : j \in Ids}
  BY DEF PathEnds, CorrectionLegs, Ids
<1>3. EffectivePurpose(rows, i) \in {rows[j].purpose : j \in Ids}
  BY <1>2 DEF EffectivePurpose
<1> QED
  BY <1>1, <1>3

LEMMA ReverseTransactionServes ==
  ASSUME TypeOK, Placed, NEW i \in 1..Len(rows), ReverseTransaction(i)
  PROVE  Serves
<1>1. i \in Ids
  BY DEF Ids
<1>2. /\ rows' = rows \o <<Reversal(i)>> /\ ~Closed(EffectivePurpose(rows, i))
      /\ UNCHANGED <<account, envelope, counts, setUp>>
  BY DEF ReverseTransaction, Reversible, Post
<1>3. /\ Reversal(i) \in Row /\ Reversal(i).account = rows[i].account
      /\ Reversal(i).purpose = EffectivePurpose(rows, i) /\ Reversal(i).payment = NoRow
  BY ReversalType
<1>4. account[rows[i].account] # Absent /\ Founded(EffectivePurpose(rows, i))
  BY <1>1, EffectiveFounded DEF Placed
<1>5. setUp
  <2>1. rows # << >>
    <3>1. Len(<< >>) = 0
      OBVIOUS
    <3> QED
      BY <3>1
  <2> QED
    BY <2>1 DEF Placed
<1> QED
  BY <1>2, <1>3, <1>4, <1>5, OneEntryServes

\* The months of a payment were posted together, so their reversals land together.
LEMMA ReverseDuesPaymentServes ==
  ASSUME TypeOK, Placed, NEW payment \in 1..Len(rows), ReverseDuesPayment(payment)
  PROVE  Serves
<1> DEFINE S == {i \in 1..Len(rows) : rows[i].payment = payment /\ ~Reversed(rows, i)}
<1>1. PICK order \in Orders(S) : Post([n \in 1..Len(order) |-> Reversal(order[n])])
  BY DEF ReverseDuesPayment
<1>2. IsFiniteSet(S) /\ rows \in Seq(Row) /\ payment # NoRow
  <2>1. rows \in Seq(Row) /\ Len(rows) \in Nat
    BY LenProperties DEF TypeOK
  <2>2. IsFiniteSet(1..Len(rows))
    BY <2>1, FS_Interval
  <2> QED
    BY <2>1, <2>2, FS_Subset DEF NoRow
<1>3. ASSUME NEW i \in S
      PROVE  /\ i \in 1..Len(rows) /\ rows[i].account = rows[payment].account
             /\ EffectivePurpose(rows, i) = Main
  <2>1. i \in Ids /\ rows[i].payment = payment
    BY DEF Ids
  <2>2. OfPayment(rows[i], rows[i].payment)
    BY <2>1 DEF Placed
  <2>3. rows[i].account = rows[payment].account /\ rows[i].kind = "dues" /\ rows[i].purpose = Main
    BY <1>2, <2>1, <2>2 DEF OfPayment
  <2>4. ~Correctable(rows[i])
    BY <2>3 DEF Correctable
  <2>5. CorrectionLegs(rows, i) = {}
    <3> SUFFICES ASSUME NEW j \in Ids, rows[j].corrects = i
                 PROVE  FALSE
      BY DEF CorrectionLegs, Ids
    <3>1. rows[j].corrects # NoRow
      BY <2>1 DEF NoRow, Ids
    <3>2. Correctable(rows[rows[j].corrects])
      BY <3>1 DEF Placed
    <3> QED
      BY <2>4, <3>2
  <2>6. EffectivePurpose(rows, i) = Main
    BY <1>2, <2>3, <2>5, NeverCorrected
  <2> QED
    BY <2>1, <2>3, <2>6 DEF Ids
<1> HIDE DEF S
<1>4. Len(order) \in Nat /\ \A n \in 1..Len(order) : order[n] \in S
  BY <1>2, OrdersType, ElementOfSeq
<1> DEFINE batch == [n \in 1..Len(order) |-> Reversal(order[n])]
<1>5. \A n \in 1..Len(order) :
        /\ batch[n] \in Row /\ batch[n].account = rows[payment].account
        /\ batch[n].purpose = Main /\ batch[n].payment = NoRow
  BY <1>3, <1>4, ReversalType
<1>6. batch \in Seq(Row) /\ Len(batch) = Len(order)
  BY <1>4, <1>5, IsASeq, LenProperties
<1>7. rows' = rows \o batch
  BY <1>1 DEF Post
<1> HIDE DEF batch
<1>8. /\ \A n \in 1..Len(batch) : batch[n].account = rows[payment].account
      /\ \A n \in 1..Len(batch) : batch[n].purpose = Main
      /\ \A n \in 1..Len(batch) : batch[n].payment # NoRow =>
           /\ \A m \in 1..Len(batch) : batch[m].payment = Len(rows) + 1
           /\ batch[n].kind = "dues" /\ Main = Main
           /\ batch[n].occurredOn = batch[1].occurredOn
  BY <1>5, <1>6
<1>9. Main \in Purpose /\ Founded(Main) /\ ~Closed(Main)
  BY PurposesDistinct DEF Purpose, Founded, Closed
<1>10. /\ rows[payment].account \in Account /\ account[rows[payment].account] # Absent
       /\ UNCHANGED <<account, envelope, counts, setUp>> /\ setUp
  <2>1. payment \in Ids /\ rows[payment] \in Row
    BY <1>2, ElementOfSeq DEF Ids
  <2>2. rows # << >>
    <3>1. Len(<< >>) = 0
      OBVIOUS
    <3> QED
      BY <3>1
  <2> QED
    BY <2>1, <2>2 DEF Placed, Row, ReverseDuesPayment
<1> QED
  BY <1>6, <1>7, <1>8, <1>9, <1>10, EntryServes

\* The two legs of a movement between places that are there.
LEMMA PairLands ==
  ASSUME NEW a \in Account, NEW b \in Account, NEW p \in Purpose, NEW q \in Purpose,
         NEW amount, NEW day, NEW movement, NEW corrects,
         account'[a] # Absent, account'[b] # Absent,
         p \in Incidental => envelope'[p] # Absent, q \in Incidental => envelope'[q] # Absent
  PROVE  Lands(TransferPair(Leg(a, p), Leg(b, q), amount, day, movement, corrects))
<1> DEFINE pair == TransferPair(Leg(a, p), Leg(b, q), amount, day, movement, corrects)
<1>1. /\ Len(pair) = 2
      /\ pair[1].account = a /\ pair[2].account = b
      /\ pair[1].purpose = p /\ pair[2].purpose = q
      /\ \A n \in 1..2 : pair[n].payment = NoRow
  BY PairFields DEF Leg
<1>2. \A n \in 1..2 : n = 1 \/ n = 2
  OBVIOUS
<1> HIDE DEF pair
<1>3. Lands(pair)
  BY <1>1, <1>2 DEF Lands
<1> QED
  BY <1>3 DEF pair

\* A movement of money between two purposes that are open, at one location.
LEMMA RetagServes ==
  ASSUME TypeOK, NEW a \in Account, NEW from \in Purpose, NEW to \in Purpose, from # to,
         NEW amount \in 1..Ceiling, NEW day \in Nat, NEW movement \in Movement,
         NEW corrects \in Nat,
         rows' = rows \o TransferPair(Leg(a, from), Leg(a, to), amount, day, movement, corrects),
         account[a] # Absent, Founded(from), ~Closed(from), Founded(to), ~Closed(to),
         UNCHANGED <<account, envelope, counts>>, setUp'
  PROVE  Serves
<1>1. rows \in Seq(Row) /\ amount \in Nat /\ amount > 0
  BY CeilingAssumption DEF TypeOK
<1>2. /\ Whole' = Whole /\ Holdings' = Holdings
      /\ Earmarks' = [Earmarks EXCEPT ![from] = @ - amount, ![to] = @ + amount]
      /\ Earmarks'[to] - Earmarks[to] = amount
  BY <1>1, RetagMoves
<1>3. F!Open(from) /\ F!Open(to)
  BY DEF F!Open, Founded, Closed, TypeOK, Absent
<1>4. F!Retag(from, to)
  BY <1>1, <1>2, <1>3 DEF F!Retag
<1>5. Lands(TransferPair(Leg(a, from), Leg(a, to), amount, day, movement, corrects))
  BY PairLands DEF Founded
<1>6. TransferPair(Leg(a, from), Leg(a, to), amount, day, movement, corrects) \in Seq(Row)
  BY PairType
<1> QED
  BY <1>4, <1>5, <1>6 DEF Serves, F!Next

LEMMA PostTransferBetweenAccountsServes ==
  ASSUME TypeOK, Placed, NEW p \in Purpose, NEW from \in Account, NEW to \in Account,
         NEW amount \in Amount, NEW day \in Day,
         PostTransferBetweenAccounts(p, from, to, amount, day)
  PROVE  Serves
<1> DEFINE pair == TransferPair(Leg(from, p), Leg(to, p), amount, day, "between_accounts", NoRow)
<1>1. /\ amount \in 1..Ceiling /\ day \in Nat /\ "between_accounts" \in Movement /\ NoRow \in Nat
      /\ rows \in Seq(Row) /\ amount > 0
  BY AmountAssumption, DaysAreNaturals DEF Movement, NoRow, TypeOK
<1>2. /\ rows' = rows \o pair /\ from # to /\ account[from] = "active" /\ account[to] = "active"
      /\ Founded(p) /\ setUp' /\ UNCHANGED <<account, envelope, counts>>
  BY DEF PostTransferBetweenAccounts, Post, Active, Exists, Founded
<1>3. /\ Whole' = Whole /\ Earmarks' = Earmarks
      /\ Holdings' = [Holdings EXCEPT ![from] = @ - amount, ![to] = @ + amount]
      /\ Holdings'[to] - Holdings[to] = amount
  BY <1>1, <1>2, CarryMoves
<1>4. F!Carry(from, to)
  BY <1>1, <1>2, <1>3 DEF F!Carry
<1>5. Lands(pair)
  BY <1>2, PairLands DEF Founded, Absent
<1>6. pair \in Seq(Row)
  BY <1>1, PairType
<1> HIDE DEF pair
<1> QED
  BY <1>2, <1>4, <1>5, <1>6 DEF Serves, F!Next

LEMMA PostPurposeMoveServes ==
  ASSUME TypeOK, Placed, NEW from \in Purpose, NEW to \in Purpose, NEW a \in Account,
         NEW amount \in Amount, NEW day \in Day,
         PostPurposeMove(from, to, a, amount, day)
  PROVE  Serves
<1>1. amount \in 1..Ceiling /\ day \in Nat /\ "allocation" \in Movement /\ NoRow \in Nat
  BY AmountAssumption, DaysAreNaturals DEF Movement, NoRow
<1>2. /\ rows' = rows \o TransferPair(Leg(a, from), Leg(a, to), amount, day, "allocation", NoRow)
      /\ from # to /\ Open(from) /\ Open(to) /\ account[a] # Absent
      /\ UNCHANGED <<account, envelope, counts, setUp>>
  BY DEF PostPurposeMove, Post, Active, Absent
<1>3. Founded(from) /\ ~Closed(from) /\ Founded(to) /\ ~Closed(to) /\ setUp
  BY <1>2 DEF Open, Exists, Founded
<1> QED
  BY <1>1, <1>2, <1>3, RetagServes

LEMMA PostPurposeCorrectionServes ==
  ASSUME TypeOK, Placed, NEW i \in 1..Len(rows), NEW target \in Purpose,
         PostPurposeCorrection(i, target)
  PROVE  Serves
<1> DEFINE was == EffectivePurpose(rows, i)
           from == IF rows[i].direction = "out" THEN target ELSE was
           to == IF rows[i].direction = "out" THEN was ELSE target
<1>1. rows \in Seq(Row) /\ rows[i] \in Row /\ i \in Nat /\ i \in Ids
  <2>1. rows \in Seq(Row)
    BY DEF TypeOK
  <2> QED
    BY <2>1, ElementOfSeq, LenProperties DEF Ids
<1>2. was \in Purpose /\ Founded(was)
  BY <1>1, EffectivePurposeType, EffectiveFounded
<1>3. /\ rows[i].account \in Account /\ rows[i].amount \in 1..Ceiling
      /\ rows[i].occurredOn \in Nat /\ account[rows[i].account] # Absent
  BY <1>1 DEF Row, Placed
<1>4. /\ rows' = rows \o TransferPair(Leg(rows[i].account, from), Leg(rows[i].account, to),
                                       rows[i].amount, rows[i].occurredOn, "correction", i)
      /\ target # was /\ ~Closed(was) /\ Open(target)
      /\ UNCHANGED <<account, envelope, counts, setUp>>
  BY DEF PostPurposeCorrection, Post, CorrectionPair
<1>5. Founded(target) /\ ~Closed(target) /\ setUp
  BY <1>4 DEF Open, Exists, Founded
<1> HIDE DEF was
<1>6. /\ from \in Purpose /\ to \in Purpose /\ from # to
      /\ Founded(from) /\ ~Closed(from) /\ Founded(to) /\ ~Closed(to)
  BY <1>2, <1>4, <1>5
<1>7. "correction" \in Movement
  BY DEF Movement
<1> HIDE DEF from, to
<1> QED
  BY <1>1, <1>3, <1>4, <1>5, <1>6, <1>7, RetagServes

LEMMA DoorsServe ==
  ASSUME TypeOK, NEW e \in Incidental, OpenIncidental(e) \/ ReopenIncidental(e), Placed
  PROVE  Serves
<1>1. rows' = rows /\ rows \in Seq(Row) /\ UNCHANGED <<account, counts, setUp>>
  BY DEF OpenIncidental, ReopenIncidental, TypeOK
<1>2. Whole' = Whole /\ Holdings' = Holdings /\ Earmarks' = Earmarks
  BY <1>1, FiguresStay
<1>3. F!Unlock(e)
  BY <1>1, <1>2 DEF OpenIncidental, ReopenIncidental, F!Unlock, Absent
<1>4. setUp
  BY DEF OpenIncidental, ReopenIncidental, Placed, Absent
<1> QED
  BY <1>1, <1>3, <1>4, LandsNothing DEF Serves, F!Next

\* What is left, or missing, of an envelope moves between it and the main purpose.
LEMMA CloseIncidentalAndRollServes ==
  ASSUME TypeOK, Placed, NEW e \in Incidental, NEW a \in Account, NEW day \in Day,
         CloseIncidentalAndRoll(e, a, day)
  PROVE  Serves
<1> DEFINE leftover == PurposeBalance(rows, e)
           roll(from, to, amount) == TransferPair(Leg(a, from), Leg(a, to), amount, day, "roll", NoRow)
<1>1. /\ e \in Purpose /\ Main \in Purpose /\ e # Main /\ Main \notin Incidental
      /\ day \in Nat /\ "roll" \in Movement /\ NoRow \in Nat /\ rows \in Seq(Row)
  BY PurposesDistinct, DaysAreNaturals DEF Purpose, Movement, NoRow, TypeOK
<1>2. /\ leftover \in Int /\ Earmarks[e] = leftover
      /\ Earmarks = [p \in Purpose |-> Earmarks[p]] /\ \A p \in Purpose : Earmarks[p] \in Int
  BY <1>1, FiguresType DEF Earmarks
<1>3. /\ envelope[e] = "open" /\ envelope' = [envelope EXCEPT ![e] = "closed"]
      /\ UNCHANGED <<account, counts, setUp>>
      /\ leftover # 0 => account[a] # Absent
  BY DEF CloseIncidentalAndRoll, Active, Absent
<1>4. setUp
  BY <1>3 DEF Placed, Absent
<1>5. \/ leftover > 0 /\ Post(roll(e, Main, leftover))
      \/ leftover < 0 /\ Post(roll(Main, e, -leftover))
      \/ leftover = 0 /\ Post(<< >>)
  BY DEF CloseIncidentalAndRoll
<1>6. envelope'[e] # Absent
  BY <1>3 DEF TypeOK, Absent
<1>7. ASSUME NEW from \in {e, Main}, NEW to \in {e, Main}, from # to, NEW amount,
             Post(roll(from, to, amount)), leftover # 0
      PROVE  /\ amount \in 1..Ceiling /\ Lands(roll(from, to, amount))
             /\ roll(from, to, amount) \in Seq(Row) /\ rows' = rows \o roll(from, to, amount)
             /\ Whole' = Whole /\ Holdings' = Holdings
             /\ Earmarks' = [Earmarks EXCEPT ![from] = @ - amount, ![to] = @ + amount]
  <2>1. amount \in 1..Ceiling
    BY <1>7, RollFits
  <2>2. from \in Purpose /\ to \in Purpose
    BY <1>1
  <2>3. rows' = rows \o roll(from, to, amount)
    BY <1>7 DEF Post
  <2>4. roll(from, to, amount) \in Seq(Row)
    BY <1>1, <2>1, <2>2, PairType
  <2>5. /\ Whole' = Whole /\ Holdings' = Holdings
        /\ Earmarks' = [Earmarks EXCEPT ![from] = @ - amount, ![to] = @ + amount]
    BY <1>1, <1>7, <2>1, <2>2, <2>3, RetagMoves
  <2>6. Lands(roll(from, to, amount))
    <3>1. account'[a] # Absent
      BY <1>3, <1>7
    <3>2. /\ from \in Incidental => envelope'[from] # Absent
          /\ to \in Incidental => envelope'[to] # Absent
      BY <1>1, <1>6
    <3> QED
      BY <2>2, <3>1, <3>2, PairLands
  <2> QED
    BY <2>1, <2>3, <2>4, <2>5, <2>6
<1>8. /\ Whole' = Whole /\ Holdings' = Holdings
      /\ Earmarks' = [Earmarks EXCEPT ![e] = 0, ![Main] = @ + Earmarks[e]]
      /\ \E batch \in Seq(Row) : rows' = rows \o batch /\ Lands(batch)
  <2> HIDE DEF leftover, roll
  <2>1. CASE leftover > 0 /\ Post(roll(e, Main, leftover))
    <3>1. /\ Lands(roll(e, Main, leftover)) /\ roll(e, Main, leftover) \in Seq(Row)
          /\ rows' = rows \o roll(e, Main, leftover)
          /\ Whole' = Whole /\ Holdings' = Holdings
          /\ Earmarks' = [Earmarks EXCEPT ![e] = @ - leftover, ![Main] = @ + leftover]
      BY <1>1, <1>2, <1>7, <2>1
    <3>2. Earmarks' = [Earmarks EXCEPT ![e] = 0, ![Main] = @ + Earmarks[e]]
      <4>1. Earmarks[e] - leftover = 0
        BY <1>2
      <4> QED
        BY <1>1, <1>2, <3>1, <4>1
    <3> QED
      BY <3>1, <3>2
  <2>2. CASE leftover < 0 /\ Post(roll(Main, e, -leftover))
    <3> DEFINE missing == -leftover
    <3>1. missing \in Int /\ missing = -leftover /\ leftover # 0
      BY <1>2, <2>2
    <3>2. Post(roll(Main, e, missing))
      BY <2>2
    <3> HIDE DEF missing
    <3>3. /\ Lands(roll(Main, e, missing)) /\ roll(Main, e, missing) \in Seq(Row)
          /\ rows' = rows \o roll(Main, e, missing)
          /\ Whole' = Whole /\ Holdings' = Holdings
          /\ Earmarks' = [Earmarks EXCEPT ![Main] = @ - missing, ![e] = @ + missing]
      BY <1>1, <1>7, <3>1, <3>2
    <3>4. Earmarks' = [Earmarks EXCEPT ![e] = 0, ![Main] = @ + Earmarks[e]]
      <4>1. Earmarks[e] + missing = 0 /\ Earmarks[Main] - missing = Earmarks[Main] + Earmarks[e]
        BY <1>1, <1>2, <3>1
      <4>2. [Earmarks EXCEPT ![Main] = @ - missing, ![e] = @ + missing]
              = [Earmarks EXCEPT ![e] = @ + missing, ![Main] = @ - missing]
        BY <1>1, <1>2
      <4> QED
        BY <1>1, <1>2, <3>3, <4>1, <4>2
    <3> QED
      BY <3>3, <3>4
  <2>3. CASE leftover = 0 /\ Post(<< >>)
    <3>1. rows' = rows
      BY <1>1, <2>3, ConcatEmptySeq DEF Post
    <3>2. Whole' = Whole /\ Holdings' = Holdings /\ Earmarks' = Earmarks
      BY <3>1, FiguresStay
    <3>3. Earmarks = [Earmarks EXCEPT ![e] = 0, ![Main] = @ + Earmarks[e]]
      BY <1>1, <1>2, <2>3
    <3> QED
      BY <1>1, <3>1, <3>2, <3>3, LandsNothing
  <2> QED
    BY <1>5, <2>1, <2>2, <2>3
<1>9. F!Close(e)
  BY <1>3, <1>8 DEF F!Close
<1> QED
  BY <1>3, <1>4, <1>8, <1>9 DEF Serves, F!Next

\* A count adds one to those taken, and its fixes square active locations on
\* purposes that are open.
LEMMA TakeReconciliationServes ==
  ASSUME TypeOK, Placed, NEW count \in [Active -> LocationCount], TakeReconciliation(count)
  PROVE  Serves
<1> DEFINE fixed == {a \in Active : count[a].fix # << >>}
           row(a) == Entry(a, count[a].fix[1].purpose, count[a].fix[1].direction,
                           count[a].fix[1].amount, count[a].fix[1].occurredOn,
                           IF count[a].resolution = "adjusted" THEN "adjustment" ELSE "normal")
<1>1. PICK order \in Orders(fixed) :
        /\ Post([n \in 1..Len(order) |-> row(order[n])])
        /\ \E c : counts' = Append(counts, c)
  BY DEF TakeReconciliation
<1>2. IsFiniteSet(fixed)
  BY AccountAssumption, FS_Subset DEF Active
<1>3. ASSUME NEW a \in fixed
      PROVE  /\ row(a) \in Row /\ account[row(a).account] = "active"
             /\ row(a).payment = NoRow /\ row(a).purpose \in Purpose
             /\ Founded(row(a).purpose) /\ ~Closed(row(a).purpose)
  <2>1. a \in Account /\ account[a] = "active" /\ count[a] \in LocationCount
          /\ count[a].fix # << >>
    BY DEF Active
  <2>2. (IF count[a].resolution = "adjusted" THEN "adjustment" ELSE "normal") \in Kind
    BY DEF Kind
  <2>3. row(a).purpose = count[a].fix[1].purpose /\ row(a).account = a /\ row(a).payment = NoRow
    BY DEF Entry
  <2>4. Open(count[a].fix[1].purpose)
    BY <2>1 DEF TakeReconciliation, Acceptable
  <2>5. row(a) \in Row
    BY <2>1, <2>2, FixType, EntryType
  <2>6. Founded(count[a].fix[1].purpose) /\ ~Closed(count[a].fix[1].purpose)
    BY <2>4 DEF Open, Exists, Founded
  <2>7. count[a].fix[1].purpose \in Purpose
    BY <2>1, FixType
  <2> HIDE DEF row
  <2> QED
    BY <2>1, <2>3, <2>5, <2>6, <2>7
<1> HIDE DEF fixed, row
<1>4. Len(order) \in Nat /\ \A n \in 1..Len(order) : order[n] \in fixed
  BY <1>2, OrdersType, ElementOfSeq
<1> DEFINE batch == [n \in 1..Len(order) |-> row(order[n])]
<1>5. /\ batch \in Seq(Row) /\ Len(batch) = Len(order)
      /\ \A n \in 1..Len(batch) : batch[n] = row(order[n])
  <2>1. \A n \in 1..Len(order) : batch[n] \in Row
    BY <1>3, <1>4
  <2> QED
    BY <1>4, <2>1, IsASeq, LenProperties
<1>6. \A n \in 1..Len(batch) :
        /\ account[batch[n].account] = "active" /\ batch[n].payment = NoRow
        /\ batch[n].purpose \in Purpose
        /\ Founded(batch[n].purpose) /\ ~Closed(batch[n].purpose)
  BY <1>3, <1>4, <1>5
<1>7. rows' = rows \o batch /\ rows \in Seq(Row)
  BY <1>1 DEF Post, TypeOK
<1> HIDE DEF batch
<1>8. UNCHANGED <<account, envelope, setUp>> /\ setUp
  BY DEF TakeReconciliation
<1>9. /\ Holdings' = [a \in Account |-> Holdings[a] + AccountBalance(batch, a)]
      /\ Earmarks' = [p \in Purpose |-> Earmarks[p] + PurposeBalance(batch, p)]
      /\ F!TwoViews'
  BY <1>5, <1>7, FiguresGrow
<1>10. ASSUME NEW a \in Account, Holdings'[a] # Holdings[a]
       PROVE  account[a] = "active"
  <2>1. Holdings'[a] = Holdings[a] + AccountBalance(batch, a) /\ Holdings[a] \in Int
    BY <1>7, <1>9, FiguresType
  <2>2. AccountBalance(batch, a) # 0
    BY <1>10, <2>1
  <2>3. ~ \A n \in 1..Len(batch) : n \notin Located(batch, a)
    BY <1>5, <2>2, NetNothing DEF AccountBalance
  <2> QED
    BY <1>6, <2>3 DEF Located
<1>11. ASSUME NEW p \in Purpose, Earmarks'[p] # Earmarks[p]
       PROVE  F!Open(p)
  <2>1. Earmarks'[p] = Earmarks[p] + PurposeBalance(batch, p) /\ Earmarks[p] \in Int
    BY <1>7, <1>9, FiguresType
  <2>2. PurposeBalance(batch, p) # 0
    BY <1>11, <2>1
  <2>3. ~ \A n \in 1..Len(batch) : batch[n].purpose # p
    BY <1>5, <2>2, PurposeBalanceNothing
  <2>4. Founded(p) /\ ~Closed(p)
    BY <1>6, <2>3
  <2> QED
    BY <2>4 DEF F!Open, Founded, Closed, TypeOK, Absent
<1>12. Len(counts)' = Len(counts) + 1
  <2> DEFINE Snapshot == [cutoff : Nat, at : Nat,
                          lines : UNION {[S -> Line] : S \in SUBSET Account}]
  <2>1. counts \in Seq(Snapshot)
    BY DEF TypeOK
  <2> HIDE DEF Snapshot
  <2>2. counts' # counts
    <3>1. PICK c : counts' = Append(counts, c)
      BY <1>1
    <3>2. counts \in Seq(Snapshot \cup {c})
      BY <2>1, SeqMonotonic
    <3>3. Len(counts') = Len(counts) + 1 /\ Len(counts) \in Nat
      BY <3>1, <3>2, AppendProperties, LenProperties
    <3> QED
      BY <3>3
  <2>3. PICK c \in Snapshot : counts' = Append(counts, c)
    BY <2>2, TakeReconciliationCounts DEF Counted, Snapshot
  <2> QED
    BY <2>1, <2>3, AppendProperties
<1>13. F!Square
  BY <1>8, <1>9, <1>10, <1>11, <1>12 DEF F!Square
<1>14. Lands(batch)
  BY <1>6, <1>8 DEF Lands, Founded, Absent
<1> QED
  BY <1>5, <1>7, <1>8, <1>13, <1>14 DEF Serves, F!Next

LEMMA StepServes ==
  ASSUME TypeOK, Placed, [Next]_vars
  PROVE  Serves
<1>1. CASE FundStep
  <2>1. ASSUME NEW born \in SUBSET Account, NEW opening \in [born -> OpeningBalance],
               SetUpFund(born, opening)
        PROVE  Serves
    BY <2>1, SetUpFundServes
  <2>2. ASSUME NEW a \in Account, NEW opening \in OpeningBalance, CreateAccount(a, opening)
        PROVE  Serves
    BY <2>2, CreateAccountServes
  <2>3. ASSUME NEW a \in Account, DeleteAccount(a) \/ RetireAccount(a) \/ ReinstateAccount(a)
        PROVE  Serves
    BY <2>3, AccountCallsServe
  <2>4. ASSUME NEW z \in Zones, UpdateTimeZone(z)
        PROVE  Serves
    BY <2>4, QuietServes DEF UpdateTimeZone
  <2> QED
    BY <1>1, <2>1, <2>2, <2>3, <2>4
    DEF FundStep, SetupRequest, FundRequest, NewAccountRequest, AccountRequest,
        DeleteAccountRequest
<1>2. CASE PostingStep
  <2>1. ASSUME NEW a \in Account, NEW p \in Purpose, NEW direction \in Direction,
               NEW amount \in Amount, NEW day \in Day, NEW kind \in {"normal", "adjustment"},
               NEW named \in BOOLEAN,
               PostTransaction(a, p, direction, amount, day, kind, named)
        PROVE  Serves
    BY <2>1, PostTransactionServes
  <2>2. ASSUME NEW p \in Purpose, NEW from \in Account, NEW to \in Account,
               NEW amount \in Amount, NEW day \in Day,
               PostTransferBetweenAccounts(p, from, to, amount, day)
        PROVE  Serves
    BY <2>2, PostTransferBetweenAccountsServes
  <2>3. ASSUME NEW i \in 1..Len(rows), NEW target \in Purpose, PostPurposeCorrection(i, target)
        PROVE  Serves
    BY <2>3, PostPurposeCorrectionServes
  <2>4. ASSUME NEW from \in Purpose, NEW to \in Purpose, NEW a \in Account,
               NEW amount \in Amount, NEW day \in Day,
               PostPurposeMove(from, to, a, amount, day)
        PROVE  Serves
    BY <2>4, PostPurposeMoveServes
  <2>5. ASSUME NEW a \in Account, NEW n \in 1..MaxMonths, NEW day \in Day,
               NEW amounts \in [1..n -> Amount], PostDuesPayments(a, amounts, day)
        PROVE  Serves
    BY <2>5, PostDuesPaymentsServes
  <2>6. ASSUME NEW i \in 1..Len(rows), ReverseTransaction(i) \/ ReverseDuesPayment(i)
        PROVE  Serves
    BY <2>6, ReverseTransactionServes, ReverseDuesPaymentServes
  <2> QED
    BY <1>2, <2>1, <2>2, <2>3, <2>4, <2>5, <2>6
    DEF PostingStep, TransactionRequest, TransferRequest, CorrectionRequest, MoveRequest,
        DuesRequest, ReversalRequest
<1>3. CASE EnvelopeStep
  <2>1. ASSUME NEW e \in Incidental, OpenIncidental(e) \/ ReopenIncidental(e)
        PROVE  Serves
    BY <2>1, DoorsServe
  <2>2. ASSUME NEW e \in Incidental, NEW a \in Account, NEW day \in Day,
               CloseIncidentalAndRoll(e, a, day)
        PROVE  Serves
    BY <2>2, CloseIncidentalAndRollServes
  <2> QED
    BY <1>3, <2>1, <2>2 DEF EnvelopeStep, OpenRequest, CloseRequest, ReopenRequest
<1>4. CASE CountRequest
  BY <1>4, TakeReconciliationServes DEF CountRequest
<1>5. CASE ClaimStep
  <2>1. CASE \E c \in Claim, a \in Account, day \in Day : SettleReimbursement(c, a, day)
    BY <2>1, SettleReimbursementServes
  <2>2. CASE ~ \E c \in Claim, a \in Account, day \in Day : SettleReimbursement(c, a, day)
    <3>1. UNCHANGED <<rows, account, envelope, counts>>
      BY <1>5, <2>2
      DEF ClaimStep, NewClaimRequest, ClaimRequest, SettleRequest, DeleteClaimRequest,
          CreateReimbursement, UpdateReimbursement, DeleteReimbursement
    <3> QED
      BY <3>1, QuietServes
  <2> QED
    BY <2>1, <2>2
<1>6. CASE Tick
  BY <1>6, QuietServes DEF Tick
<1>7. CASE UNCHANGED vars
  BY <1>7, QuietServes DEF vars
<1> QED
  BY <1>1, <1>2, <1>3, <1>4, <1>5, <1>6, <1>7 DEF Next

\* What no call takes away: the fund, an envelope, a location that rows name;
\* and a claim's purpose is there when the claim is.
LEMMA StepLeaves ==
  ASSUME TypeOK, [Next]_vars
  PROVE  /\ setUp => setUp'
         /\ \A a \in Account : account[a] # Absent /\ Located(rows, a) # {} => account'[a] # Absent
         /\ \A e \in Incidental : envelope[e] # Absent => envelope'[e] # Absent
<1> DEFINE Leaves ==
      /\ setUp => setUp'
      /\ \A a \in Account : account[a] # Absent /\ Located(rows, a) # {} => account'[a] # Absent
      /\ \A e \in Incidental : envelope[e] # Absent => envelope'[e] # Absent
    Same == UNCHANGED <<setUp, envelope, account>>
<1>0. Same => Leaves
  OBVIOUS
<1>1. CASE FundStep
  <2>1. ASSUME NEW born \in SUBSET Account, NEW opening \in [born -> OpeningBalance],
               SetUpFund(born, opening)
        PROVE  Leaves
    BY <2>1 DEF SetUpFund, Absent
  <2>2. ASSUME NEW a \in Account, NEW opening \in OpeningBalance, CreateAccount(a, opening)
        PROVE  Leaves
    BY <2>2 DEF CreateAccount, Absent, TypeOK
  <2>3. ASSUME NEW a \in Account, DeleteAccount(a) PROVE Leaves
    BY <2>3 DEF DeleteAccount, Absent, TypeOK
  <2>4. ASSUME NEW a \in Account, RetireAccount(a) PROVE Leaves
    BY <2>4 DEF RetireAccount, Absent, TypeOK
  <2>5. ASSUME NEW a \in Account, ReinstateAccount(a) PROVE Leaves
    BY <2>5 DEF ReinstateAccount, Absent, TypeOK
  <2>6. ASSUME NEW z \in Zones, UpdateTimeZone(z) PROVE Leaves
    BY <2>6 DEF UpdateTimeZone
  <2>7. SetupRequest => Leaves
    BY <2>1 DEF SetupRequest
  <2>8. NewAccountRequest => Leaves
    BY <2>2 DEF NewAccountRequest
  <2>9. AccountRequest => Leaves
    BY <2>4, <2>5 DEF AccountRequest
  <2>10. DeleteAccountRequest => Leaves
    BY <2>3 DEF DeleteAccountRequest
  <2>11. FundRequest => Leaves
    BY <2>6 DEF FundRequest
  <2>12. Leaves
    <3> HIDE DEF Leaves
    <3> QED
      BY <1>1, <2>7, <2>8, <2>9, <2>10, <2>11 DEF FundStep
  <2> QED
    BY <2>12
<1>2. CASE PostingStep
  <2>1. TransactionRequest => Same
    BY DEF TransactionRequest, PostTransaction
  <2>2. TransferRequest => Same
    BY DEF TransferRequest, PostTransferBetweenAccounts
  <2>3. CorrectionRequest \/ MoveRequest => Same
    BY DEF CorrectionRequest, MoveRequest, PostPurposeCorrection, PostPurposeMove
  <2>4. DuesRequest => Same
    BY DEF DuesRequest, PostDuesPayments
  <2>5. ReversalRequest => Same
    BY DEF ReversalRequest, ReverseTransaction, ReverseDuesPayment
  <2> QED
    BY <1>0, <1>2, <2>1, <2>2, <2>3, <2>4, <2>5 DEF PostingStep
<1>3. CASE EnvelopeStep
  <2>1. UNCHANGED <<setUp, account>>
    BY <1>3
    DEF EnvelopeStep, OpenRequest, CloseRequest, ReopenRequest, OpenIncidental,
        ReopenIncidental, CloseIncidentalAndRoll
  <2>2. \E e \in Incidental, state \in {"open", "closed"} :
          envelope' = [envelope EXCEPT ![e] = state]
    BY <1>3
    DEF EnvelopeStep, OpenRequest, CloseRequest, ReopenRequest, OpenIncidental,
        ReopenIncidental, CloseIncidentalAndRoll
  <2>3. \A e \in Incidental : envelope[e] # Absent => envelope'[e] # Absent
    BY <2>2 DEF TypeOK, Absent
  <2> QED
    BY <2>1, <2>3
<1>4. CASE CountRequest
  BY <1>4 DEF CountRequest, TakeReconciliation
<1>5. CASE ClaimStep
  <2>1. ASSUME NEW c \in Claim, NEW p \in Purpose, NEW amount \in Amount,
               CreateReimbursement(c, p, amount)
        PROVE  Same
    BY <2>1 DEF CreateReimbursement
  <2>2. ASSUME NEW c \in Claim, NEW p \in Purpose, NEW amount \in Amount,
               NEW status \in {"pending", "waived"}, UpdateReimbursement(c, p, amount, status)
        PROVE  Same
    BY <2>2 DEF UpdateReimbursement
  <2>3. ASSUME NEW c \in Claim, NEW a \in Account, NEW day \in Day,
               SettleReimbursement(c, a, day)
        PROVE  Same
    BY <2>3 DEF SettleReimbursement
  <2>4. ASSUME NEW c \in Claim, DeleteReimbursement(c) PROVE Same
    BY <2>4 DEF DeleteReimbursement
  <2>5. Same
    <3> HIDE DEF Same
    <3> QED
      BY <1>5, <2>1, <2>2, <2>3, <2>4
      DEF ClaimStep, NewClaimRequest, ClaimRequest, SettleRequest, DeleteClaimRequest
  <2> QED
    BY <1>0, <2>5
<1>6. CASE Tick
  BY <1>6 DEF Tick
<1>7. CASE UNCHANGED vars
  BY <1>7 DEF vars
<1> QED
  BY <1>1, <1>2, <1>3, <1>4, <1>5, <1>6, <1>7 DEF Next

LEMMA StepClaimsFounded ==
  ASSUME TypeOK, Placed, [Next]_vars, NEW c \in Claim, claims'[c].status # Absent
  PROVE  claims'[c].purpose \in Incidental => envelope'[claims'[c].purpose] # Absent
<1>1. CASE claims' = claims
  BY <1>1, StepLeaves DEF Placed, Founded
<1>2. CASE claims' # claims
  <2>1. /\ envelope' = envelope
        /\ \/ \E d \in Claim, p \in Purpose, amount \in Amount : CreateReimbursement(d, p, amount)
           \/ \E d \in Claim, p \in Purpose, amount \in Amount, status \in {"pending", "waived"} :
                UpdateReimbursement(d, p, amount, status)
           \/ \E d \in Claim : DeleteReimbursement(d)
    BY <1>2
    DEF Next, vars, FundStep, SetupRequest, FundRequest, NewAccountRequest, AccountRequest,
        DeleteAccountRequest, PostingStep, TransactionRequest, TransferRequest,
        CorrectionRequest, MoveRequest, DuesRequest, ReversalRequest, CountRequest,
        EnvelopeStep, OpenRequest, CloseRequest, ReopenRequest, ClaimStep, NewClaimRequest,
        ClaimRequest, SettleRequest, DeleteClaimRequest, Tick, SetUpFund, CreateAccount,
        DeleteAccount, RetireAccount, ReinstateAccount, UpdateTimeZone, PostTransaction,
        PostTransferBetweenAccounts, PostPurposeCorrection, PostPurposeMove,
        PostDuesPayments, ReverseTransaction, ReverseDuesPayment, OpenIncidental,
        ReopenIncidental, CloseIncidentalAndRoll, TakeReconciliation, CreateReimbursement,
        UpdateReimbursement, SettleReimbursement, DeleteReimbursement
  <2>2. Founded(claims'[c].purpose)
    <3>1. claims[c].status # Absent => Founded(claims[c].purpose)
      BY DEF Placed
    <3>2. ASSUME NEW d \in Claim, NEW p \in Purpose, NEW amount \in Amount,
                 CreateReimbursement(d, p, amount)
          PROVE  Founded(claims'[c].purpose)
      BY <3>1, <3>2 DEF CreateReimbursement, Open, Exists, Founded, TypeOK
    <3>3. ASSUME NEW d \in Claim, NEW p \in Purpose, NEW amount \in Amount,
                 NEW status \in {"pending", "waived"}, UpdateReimbursement(d, p, amount, status)
          PROVE  Founded(claims'[c].purpose)
      <4>1. claims[d].status # Absent => Founded(claims[d].purpose)
        BY DEF Placed
      <4>2. Founded(p)
        BY <3>3, <4>1 DEF UpdateReimbursement, Unsettled, Open, Exists, Founded
      <4> QED
        BY <3>1, <3>3, <4>2 DEF UpdateReimbursement, TypeOK
    <3>4. ASSUME NEW d \in Claim, DeleteReimbursement(d)
          PROVE  Founded(claims'[c].purpose)
      BY <3>1, <3>4 DEF DeleteReimbursement, NoReimbursement, TypeOK
    <3> QED
      BY <2>1, <3>2, <3>3, <3>4
  <2> QED
    BY <2>1, <2>2 DEF Founded
<1> QED
  BY <1>1, <1>2

\* A step corrects a row of the book that can be corrected.
LEMMA StepCorrects ==
  ASSUME TypeOK, NEW batch \in Seq(Row), Grounded(batch), NEW n \in 1..Len(batch),
         batch[n].corrects # NoRow
  PROVE  batch[n].corrects \in Ids /\ Correctable(rows[batch[n].corrects])
<1>1. CASE \A m \in 1..Len(batch) : Fresh(batch[m])
  BY <1>1 DEF Fresh
<1>2. CASE Moves(batch)
  BY <1>2, MovesRows
<1>3. CASE Corrects(batch)
  <2>1. PICK i \in Ids : /\ Correctable(rows[i]) /\ Len(batch) = 2
                         /\ IsCorrection(batch[1], i) /\ IsCorrection(batch[2], i)
    BY <1>3, CorrectsRows
  <2>2. n = 1 \/ n = 2
    BY <2>1
  <2>3. batch[n].corrects = i
    BY <2>1, <2>2 DEF IsCorrection
  <2> QED
    BY <2>1, <2>3
<1>4. CASE Undoes(batch)
  BY <1>4, UndoesRows DEF IsReversal
<1>5. CASE Pays(batch)
  <2>1. n = 1
    BY <1>5, PaysRows
  <2> QED
    BY <1>5, <2>1, PaysRows
<1> QED
  BY <1>1, <1>2, <1>3, <1>4, <1>5 DEF Grounded

LEMMA StepPlaced == TypeOK /\ Placed /\ [Next]_vars => Placed'
<1> SUFFICES ASSUME TypeOK, Placed, [Next]_vars PROVE Placed'
  OBVIOUS
<1>0. rows \in Seq(Row)
  BY DEF TypeOK
<1>1. /\ setUp => setUp'
      /\ \A a \in Account : account[a] # Absent /\ Located(rows, a) # {} => account'[a] # Absent
      /\ \A e \in Incidental : envelope[e] # Absent => envelope'[e] # Absent
  BY StepLeaves
<1>2. ~setUp' => /\ rows' = << >> /\ account' = [a \in Account |-> Absent]
                 /\ envelope' = [e \in Incidental |-> Absent]
  <2>1. setUp' \/ UNCHANGED <<rows, account, envelope>>
    BY StepServes DEF Serves
  <2> QED
    BY <1>1, <2>1 DEF Placed
<1>3. PICK batch \in Seq(Row) : Grown(rows, batch, rows') /\ Lands(batch)
  BY StepServes DEF Serves, Grown
<1>9. \A i \in 1..Len(rows') :
        i \in 1..Len(rows) \/ \E n \in 1..Len(batch) : i = Len(rows) + n
  BY <1>0, <1>3, BatchRows
<1>4. \A i \in 1..Len(rows') :
        /\ account'[rows'[i].account] # Absent
        /\ rows'[i].purpose \in Incidental => envelope'[rows'[i].purpose] # Absent
  <2> SUFFICES ASSUME NEW i \in 1..Len(rows')
               PROVE  /\ account'[rows'[i].account] # Absent
                      /\ rows'[i].purpose \in Incidental => envelope'[rows'[i].purpose] # Absent
    OBVIOUS
  <2>1. CASE i \in 1..Len(rows)
    <3>1. rows'[i] = rows[i] /\ rows[i] \in Row
      BY <1>0, <1>3, <2>1, BatchRows
    <3>2. account[rows[i].account] # Absent /\ Founded(rows[i].purpose)
      BY <2>1 DEF Placed, Ids
    <3>3. i \in Located(rows, rows[i].account) /\ rows[i].account \in Account
      BY <2>1, <3>1 DEF Located, Row
    <3> QED
      BY <1>1, <3>1, <3>2, <3>3 DEF Founded
  <2>2. CASE i \notin 1..Len(rows)
    <3>1. PICK n \in 1..Len(batch) : i = Len(rows) + n
      BY <1>9, <2>2
    <3>2. rows'[i] = batch[n]
      BY <1>0, <1>3, <3>1, GrownAt
    <3> QED
      BY <1>3, <3>2 DEF Lands
  <2> QED
    BY <2>1, <2>2
<1>5. \A i \in 1..Len(rows') :
        rows'[i].payment # NoRow =>
          /\ rows'[i].payment \in 1..Len(rows')
          /\ rows'[rows'[i].payment].account = rows'[i].account
          /\ rows'[i].kind = "dues" /\ rows'[i].purpose = Main
  <2> SUFFICES ASSUME NEW i \in 1..Len(rows'), rows'[i].payment # NoRow
               PROVE  /\ rows'[i].payment \in 1..Len(rows')
                      /\ rows'[rows'[i].payment].account = rows'[i].account
                      /\ rows'[i].kind = "dues" /\ rows'[i].purpose = Main
    OBVIOUS
  <2>1. CASE i \in 1..Len(rows)
    <3>1. rows'[i] = rows[i]
      BY <1>0, <1>3, <2>1, BatchRows
    <3>2. /\ rows[i].payment \in 1..Len(rows)
          /\ rows[rows[i].payment].account = rows[i].account
          /\ rows[i].kind = "dues" /\ rows[i].purpose = Main
      <4>1. OfPayment(rows[i], rows[i].payment)
        BY <2>1 DEF Placed, Ids
      <4> QED
        BY <3>1, <4>1 DEF OfPayment, Ids
    <3>3. \A j \in 1..Len(rows) : rows'[j] = rows[j] /\ j \in 1..Len(rows')
      BY <1>0, <1>3, BatchRows
    <3> QED
      BY <3>1, <3>2, <3>3
  <2>2. CASE i \notin 1..Len(rows)
    <3>1. PICK n \in 1..Len(batch) : i = Len(rows) + n
      BY <1>9, <2>2
    <3>2. rows'[i] = batch[n]
      BY <1>0, <1>3, <3>1, GrownAt
    <3>3. 1 \in 1..Len(batch)
      BY <1>0, <1>3, BatchRows
    <3>4. rows'[Len(rows) + 1] = batch[1] /\ Len(rows) + 1 \in 1..Len(rows')
      BY <1>0, <1>3, <3>3, GrownAt
    <3> QED
      BY <1>3, <3>2, <3>4 DEF Lands
  <2> QED
    BY <2>1, <2>2
<1>6. \A i \in 1..Len(rows') :
        rows'[i].corrects # NoRow =>
          rows'[i].corrects \in 1..Len(rows') /\ Correctable(rows'[rows'[i].corrects])
  <2>1. PICK lot \in Seq(Row) : Grown(rows, lot, rows') /\ Grounded(lot)
    BY StepGrounded
  <2> SUFFICES ASSUME NEW i \in 1..Len(rows'), rows'[i].corrects # NoRow
               PROVE  rows'[i].corrects \in 1..Len(rows')
                        /\ Correctable(rows'[rows'[i].corrects])
    OBVIOUS
  <2>2. rows'[i].corrects \in Ids /\ Correctable(rows[rows'[i].corrects])
    <3>1. CASE i \in 1..Len(rows)
      <4>1. rows'[i] = rows[i]
        BY <1>0, <2>1, <3>1, BatchRows
      <4> QED
        BY <3>1, <4>1 DEF Placed, Ids
    <3>2. CASE i \notin 1..Len(rows)
      <4>1. PICK n \in 1..Len(lot) : i = Len(rows) + n
        BY <1>0, <2>1, <3>2, BatchRows
      <4>2. rows'[i] = lot[n]
        BY <1>0, <2>1, <4>1, GrownAt
      <4> QED
        BY <2>1, <4>2, StepCorrects
    <3> QED
      BY <3>1, <3>2
  <2>3. \A j \in Ids : rows'[j] = rows[j] /\ j \in 1..Len(rows')
    BY <1>0, <2>1, BatchRows DEF Ids
  <2> QED
    BY <2>2, <2>3
<1>7. \A c \in Claim : claims'[c].status # Absent =>
        (claims'[c].purpose \in Incidental => envelope'[claims'[c].purpose] # Absent)
  BY StepClaimsFounded
<1>8. /\ \A i \in 1..Len(rows') :
           account'[rows'[i].account] # Absent
             /\ (rows'[i].purpose \in Incidental => envelope'[rows'[i].purpose] # Absent)
      /\ \A i \in 1..Len(rows') :
           (rows'[i].payment # NoRow =>
             /\ rows'[i].payment \in 1..Len(rows')
             /\ rows'[rows'[i].payment].account = rows'[i].account
             /\ rows'[i].kind = "dues" /\ rows'[i].purpose = Main)
  BY <1>4, <1>5
<1> QED
  BY <1>2, <1>6, <1>7, <1>8 DEF Placed, Ids, Founded, OfPayment

\* The book keeps a fund: every history of calls is, in the figures the treasurer
\* sees, a history of the fund.  Money moves between locations or between open
\* purposes without changing the other view, comes in and goes out at one
\* location for one open purpose, an envelope closes empty, and only a count
\* moves several figures at a time.
THEOREM KeepsAFund == Spec => ImplementsFund
<1>1. Init => Placed
  BY DEF Init, Placed, Ids, NoReimbursement
<1>2. Init => F!Init
  <2> SUFFICES ASSUME Init PROVE F!Init
    OBVIOUS
  <2>1. rows \in Seq(Row) /\ Len(rows) = 0 /\ Len(counts) = 0
    BY EmptySeq DEF Init
  <2>2. ASSUME NEW ids PROVE Net(rows, ids) = 0
    <3>1. \A i \in ids : i \notin 1..Len(rows)
      BY <2>1
    <3> QED
      BY <3>1, <2>1, NetNothing
  <2>3. Whole = 0 /\ Holdings = [a \in Account |-> 0] /\ Earmarks = [p \in Purpose |-> 0]
    BY <2>2 DEF Whole, Holdings, Earmarks, AccountBalance, PurposeBalance
  <2> QED
    BY <2>1, <2>3 DEF F!Init, Init, Absent
<1>3. TypeOK /\ Placed /\ [Next]_vars => [F!Next]_F!vars
  BY StepServes DEF Serves
<1> QED
  BY <1>1, <1>2, <1>3, StepPlaced, TypeCorrect, PTL DEF Spec, ImplementsFund, F!Spec

-----------------------------------------------------------------------------
(* The report.  That its walk foots needs more than its own arithmetic: the *)
(* legs the walk never reads have to cancel, which is a fact about every    *)
(* operation that ever posted a pair.                                       *)

-----------------------------------------------------------------------------
(* What the walk never reads.  Both legs of a pair carry one amount and one *)
(* date, and a pair between locations one purpose, so over any days the     *)
(* transfers of the whole fund cancel, and so do those between locations    *)
(* under any one purpose.                                                   *)

TransfersOn(rs, days) ==
  {i \in 1..Len(rs) : rs[i].kind = "transfer" /\ rs[i].occurredOn \in days}
CarriedOn(rs, days, p) ==
  {i \in TransfersOn(rs, days) : rs[i].movement = "between_accounts" /\ rs[i].purpose = p}

Cancelling(rs) ==
  \A days \in SUBSET Nat :
    /\ Net(rs, TransfersOn(rs, days)) = 0
    /\ \A p \in Purpose : Net(rs, CarriedOn(rs, days, p)) = 0

\* A row that points at an original is a reversal's adjustment.
OnlyAdjustmentsReverse ==
  \A i \in 1..Len(rows) :
    rows[i].kind # "transfer" => (rows[i].reverses # NoRow => rows[i].kind = "adjustment")

Walkable == TypeOK /\ OnlyAdjustmentsReverse /\ Cancelling(rows)

\* The two legs of a pair cancel wherever both are summed.
LEMMA PairCancels ==
  ASSUME NEW batch \in Seq(Row), Paired(batch), NEW ids, 1 \in ids <=> 2 \in ids
  PROVE  Net(batch, ids) = 0
<1>1. Len(batch) = 2 /\ batch[1] \in Row /\ batch[2] \in Row
  <2>1. Len(batch) = 2 /\ 1 \in 1..Len(batch) /\ 2 \in 1..Len(batch)
    BY DEF Paired
  <2> QED
    BY <2>1, ElementOfSeq
<1>2. Signed(batch[1]) \in Int /\ Signed(batch[2]) \in Int
  BY <1>1, SignedInt
<1>3. batch[1].amount \in Int /\ batch[2].amount \in Int
  BY <1>1, CeilingAssumption DEF Row
<1>4. Signed(batch[1]) + Signed(batch[2]) = 0
  BY <1>3 DEF Signed, Paired
<1>5. Net(batch, ids) = (IF 1 \in ids THEN Signed(batch[1]) ELSE 0)
                          + (IF 2 \in ids THEN Signed(batch[2]) ELSE 0)
  BY <1>1, NetPair
<1> QED
  BY <1>2, <1>4, <1>5

\* What one call posts cancels.
LEMMA ShapedCancels ==
  ASSUME NEW batch \in Seq(Row), Shaped(batch)
  PROVE  Cancelling(batch)
<1>1. CASE \A n \in 1..Len(batch) : Plain(batch[n])
  <2>1. \A days : \A i \in 1..Len(batch) : i \notin TransfersOn(batch, days)
    BY <1>1 DEF TransfersOn, Plain
  <2>2. \A days, p : \A i \in 1..Len(batch) : i \notin CarriedOn(batch, days, p)
    BY <2>1 DEF CarriedOn
  <2> QED
    BY <2>1, <2>2, NetNothing DEF Cancelling
<1>2. CASE Paired(batch)
  <2>1. 1 \in 1..Len(batch) /\ 2 \in 1..Len(batch)
    BY <1>2 DEF Paired
  <2>2. \A days : 1 \in TransfersOn(batch, days) <=> 2 \in TransfersOn(batch, days)
    BY <1>2, <2>1 DEF TransfersOn, Paired
  <2>3. \A days, p : 1 \in CarriedOn(batch, days, p) <=> 2 \in CarriedOn(batch, days, p)
    BY <1>2, <2>2 DEF CarriedOn, Paired
  <2> QED
    BY <1>2, <2>2, <2>3, PairCancels DEF Cancelling
<1> QED
  BY <1>1, <1>2 DEF Shaped

\* A book that cancels still does when a batch that cancels is posted to it.
LEMMA CancellingConcat ==
  ASSUME NEW rs \in Seq(Row), NEW batch \in Seq(Row), Cancelling(rs), Cancelling(batch)
  PROVE  Cancelling(rs \o batch)
<1> DEFINE all == rs \o batch
<1>1. /\ Len(all) = Len(rs) + Len(batch)
      /\ \A i \in 1..Len(rs) : all[i] = rs[i]
      /\ \A n \in 1..Len(batch) : all[Len(rs) + n] = batch[n]
      /\ Len(rs) \in Nat /\ Len(batch) \in Nat
  BY ConcatProperties, LenProperties
<1>2. /\ \A i \in 1..Len(rs) : i \in 1..Len(all)
      /\ \A n \in 1..Len(batch) : Len(rs) + n \in 1..Len(all)
  BY <1>1
<1> HIDE DEF all
<1>3. ASSUME NEW days \in SUBSET Nat
      PROVE  Net(all, TransfersOn(all, days)) = 0
  <2>1. \A i \in 1..Len(rs) : i \in TransfersOn(all, days) <=> i \in TransfersOn(rs, days)
    BY <1>1, <1>2 DEF TransfersOn
  <2>2. \A n \in 1..Len(batch) :
          Len(rs) + n \in TransfersOn(all, days) <=> n \in TransfersOn(batch, days)
    BY <1>1, <1>2 DEF TransfersOn
  <2>3. Net(all, TransfersOn(all, days))
          = Net(rs, TransfersOn(rs, days)) + Net(batch, TransfersOn(batch, days))
    BY <2>1, <2>2, NetConcat DEF all
  <2>4. Net(rs, TransfersOn(rs, days)) = 0 /\ Net(batch, TransfersOn(batch, days)) = 0
    BY DEF Cancelling
  <2> QED
    BY <2>3, <2>4
<1>4. ASSUME NEW days \in SUBSET Nat, NEW p \in Purpose
      PROVE  Net(all, CarriedOn(all, days, p)) = 0
  <2>1. \A i \in 1..Len(rs) : i \in CarriedOn(all, days, p) <=> i \in CarriedOn(rs, days, p)
    BY <1>1, <1>2 DEF CarriedOn, TransfersOn
  <2>2. \A n \in 1..Len(batch) :
          Len(rs) + n \in CarriedOn(all, days, p) <=> n \in CarriedOn(batch, days, p)
    BY <1>1, <1>2 DEF CarriedOn, TransfersOn
  <2>3. Net(all, CarriedOn(all, days, p))
          = Net(rs, CarriedOn(rs, days, p)) + Net(batch, CarriedOn(batch, days, p))
    BY <2>1, <2>2, NetConcat DEF all
  <2>4. Net(rs, CarriedOn(rs, days, p)) = 0 /\ Net(batch, CarriedOn(batch, days, p)) = 0
    BY DEF Cancelling
  <2> QED
    BY <2>3, <2>4
<1> QED
  BY <1>3, <1>4 DEF Cancelling, all

LEMMA InitWalkable == Init => Walkable
<1> SUFFICES ASSUME Init PROVE Walkable
  OBVIOUS
<1>1. TypeOK
  BY InitTypeOK
<1>2. rows = << >> /\ rows \in Seq(Row) /\ Len(rows) = 0
  BY DEF Init
<1>3. ASSUME NEW ids
      PROVE  Net(rows, ids) = 0
  <2>1. \A i \in 1..Len(rows) : i \notin ids
    BY <1>2
  <2> QED
    BY <1>2, <2>1, NetNothing
<1> QED
  BY <1>1, <1>2, <1>3 DEF Walkable, OnlyAdjustmentsReverse, Cancelling

LEMMA NextWalkable == Walkable /\ [Next]_vars => Walkable'
<1> SUFFICES ASSUME Walkable, [Next]_vars PROVE Walkable'
  OBVIOUS
<1>1. TypeOK /\ TypeOK' /\ rows \in Seq(Row)
  <2>1. TypeOK /\ TypeOK'
    BY NextTypeOK DEF Walkable
  <2> QED
    BY <2>1 DEF TypeOK
<1>2. PICK batch \in Seq(Row) : rows' = rows \o batch /\ Shaped(batch)
  BY <1>1, StepPosts DEF Posts
<1>3. Cancelling(rows')
  <2>1. Cancelling(rows \o batch)
    BY <1>1, <1>2, ShapedCancels, CancellingConcat DEF Walkable
  <2> QED
    BY <1>2, <2>1
<1>4. OnlyAdjustmentsReverse'
  <2> SUFFICES ASSUME NEW i \in 1..Len(rows'), rows'[i].kind # "transfer",
                      rows'[i].reverses # NoRow
               PROVE  rows'[i].kind = "adjustment"
    BY DEF OnlyAdjustmentsReverse
  <2>1. /\ Len(rows') = Len(rows) + Len(batch)
        /\ \A j \in 1..Len(rows) : rows'[j] = rows[j]
        /\ \A n \in 1..Len(batch) : rows'[Len(rows) + n] = batch[n]
        /\ Len(rows) \in Nat /\ Len(batch) \in Nat
    BY <1>1, <1>2, ConcatProperties, LenProperties
  <2>2. CASE i <= Len(rows)
    <3>1. i \in 1..Len(rows) /\ rows'[i] = rows[i]
      BY <2>1, <2>2
    <3> QED
      BY <3>1 DEF Walkable, OnlyAdjustmentsReverse
  <2>3. CASE i > Len(rows)
    <3>1. i - Len(rows) \in 1..Len(batch) /\ i = Len(rows) + (i - Len(rows))
      BY <2>1, <2>3
    <3>2. PICK n \in 1..Len(batch) : i = Len(rows) + n
      BY <3>1
    <3>3. rows'[i] = batch[n]
      BY <2>1, <3>2
    <3>4. ~Paired(batch)
      <4>1. ASSUME Paired(batch) PROVE FALSE
        <5>1. n = 1 \/ n = 2
          BY <4>1 DEF Paired
        <5> QED
          BY <3>3, <4>1, <5>1 DEF Paired
      <4> QED
        BY <4>1
    <3> QED
      BY <1>2, <3>3, <3>4 DEF Shaped, Plain
  <2> QED
    BY <2>1, <2>2, <2>3
<1> QED
  BY <1>1, <1>3, <1>4 DEF Walkable

-----------------------------------------------------------------------------
(* The walk.                                                                *)

\* "Keluar" is the signed sum of its rows with the sign turned: spending is an
\* outgoing row, and the reversal of spending an incoming one.
LEMMA OutLineIsNet ==
  ASSUME Walkable, NEW ids \in SUBSET (1..Len(rows)),
         \A i \in ids : rows[i].kind # "transfer" /\ LineOf(rows[i]) = "out"
  PROVE  OutLine(ids) \in Int /\ Net(rows, ids) + OutLine(ids) = 0
<1> DEFINE magnitude(i) == IF rows[i].reverses = NoRow THEN rows[i].amount
                           ELSE -rows[i].amount
           out == [i \in 1..Len(rows) |-> IF i \in ids THEN magnitude(i) ELSE 0]
           zero == [i \in 1..Len(rows) |-> 0]
           net == Effects(rows, ids)
<1>1. rows \in Seq(Row) /\ Len(rows) \in Nat
  <2>1. rows \in Seq(Row)
    BY DEF Walkable, TypeOK
  <2> QED
    BY <2>1, LenProperties
<1>2. ASSUME NEW i \in 1..Len(rows)
      PROVE  /\ magnitude(i) \in Int /\ Signed(rows[i]) \in Int
             /\ i \in ids => Signed(rows[i]) + magnitude(i) = 0
  <2>1. rows[i] \in Row
    BY <1>1, ElementOfSeq
  <2>2. /\ rows[i].amount \in Int /\ rows[i].direction \in {"in", "out"}
    BY <2>1, CeilingAssumption DEF Row, Direction
  <2>3. i \in ids /\ rows[i].reverses # NoRow => rows[i].direction = "in"
    <3>1. SUFFICES ASSUME i \in ids, rows[i].reverses # NoRow
                   PROVE  rows[i].direction = "in"
      OBVIOUS
    <3>2. rows[i].kind = "adjustment" /\ LineOf(rows[i]) = "out"
      BY <3>1 DEF Walkable, OnlyAdjustmentsReverse
    <3> QED
      BY <2>2, <3>1, <3>2 DEF LineOf, Opposite
  <2>4. i \in ids /\ rows[i].reverses = NoRow => rows[i].direction = "out"
    <3>1. SUFFICES ASSUME i \in ids, rows[i].reverses = NoRow
                   PROVE  rows[i].direction = "out"
      OBVIOUS
    <3>2. LineOf(rows[i]) = "out"
      BY <3>1
    <3>3. rows[i].kind # "opening"
      BY <3>2 DEF LineOf
    <3>4. rows[i].kind # "adjustment"
      BY <3>1, <3>2, <3>3 DEF LineOf
    <3> QED
      BY <3>2, <3>3, <3>4 DEF LineOf
  <2> QED
    BY <2>2, <2>3, <2>4 DEF Signed
<1>3. /\ out \in Seq(Int) /\ Len(out) = Len(rows)
      /\ \A i \in 1..Len(rows) : out[i] = IF i \in ids THEN magnitude(i) ELSE 0
  <2>1. \A i \in 1..Len(rows) : (IF i \in ids THEN magnitude(i) ELSE 0) \in Int
    BY <1>2
  <2> HIDE DEF magnitude
  <2>2. out \in [1..Len(rows) -> Int]
    BY <2>1
  <2>3. out \in Seq(Int)
    BY <1>1, <2>1, IsASeq
  <2> QED
    BY <1>1, <2>2, <2>3, LenProperties
<1>4. zero \in Seq(Int) /\ Len(zero) = Len(rows) /\ \A i \in 1..Len(rows) : zero[i] = 0
  BY <1>1, IsASeq
<1>5. /\ net \in Seq(Int) /\ Len(net) = Len(rows)
      /\ \A i \in 1..Len(rows) : net[i] = IF i \in ids THEN Signed(rows[i]) ELSE 0
  BY <1>1, EffectsSeq
<1>6. OutLine(ids) = Total(out)
  BY DEF OutLine
<1> HIDE DEF magnitude, out, zero, net
<1>7. ASSUME NEW i \in 1..Len(rows)
      PROVE  zero[i] = net[i] + out[i]
  <2>1. CASE i \in ids
    BY <1>2, <1>3, <1>4, <1>5, <2>1
  <2>2. CASE i \notin ids
    BY <1>3, <1>4, <1>5, <2>2
  <2> QED
    BY <2>1, <2>2
<1>8. Total(zero) = 0
  BY <1>4, TotalZeros
<1>9. Total(zero) = Total(net) + Total(out)
  BY <1>3, <1>4, <1>5, <1>7, TotalSum
<1> QED
  BY <1>3, <1>5, <1>6, <1>8, <1>9, TotalInt DEF Net, net

\* The transfers the filter lets through and the walk does not read cancel.
LEMMA MissingCancels ==
  ASSUME Walkable, NEW filter \in Filter, NEW period \in Period,
         NEW missing,
         missing = {i \in Within(period) : rows[i].kind = "transfer" /\ Passes(filter, rows[i])}
                     \ MovedLegs(filter, period)
  PROVE  Net(rows, missing) = 0
<1> DEFINE days == {d \in Nat : d >= period.from /\ (period.running \/ d <= period.to)}
<1>1. rows \in Seq(Row) /\ Len(rows) \in Nat /\ \A i \in 1..Len(rows) : rows[i] \in Row
  <2>1. rows \in Seq(Row)
    BY DEF Walkable, TypeOK
  <2> QED
    BY <2>1, LenProperties, ElementOfSeq
<1>2. \A i \in 1..Len(rows) : i \in Within(period) <=> rows[i].occurredOn \in days
  <2>1. period.from \in Int
    BY DEF Period
  <2>2. \A i \in 1..Len(rows) : rows[i].occurredOn \in Nat
    BY <1>1 DEF Row
  <2> QED
    BY <2>1, <2>2 DEF Within, Upto, Earlier
<1>3. Within(period) \subseteq 1..Len(rows)
  BY DEF Within, Upto
<1>4. days \in SUBSET Nat
  OBVIOUS
<1> HIDE DEF days
<1>5. CASE filter.account # {}
  <2>1. filter # Everything
    BY <1>5 DEF Everything
  <2>2. missing = {}
    BY <1>5, <2>1 DEF MovedLegs
  <2> QED
    BY <1>1, <2>2, NetNothing
<1>6. CASE filter.account = {} /\ filter.purpose # {}
  <2>1. filter # Everything
    BY <1>6 DEF Everything
  <2>2. PICK p \in Purpose : filter.purpose = {p}
    BY <1>6 DEF Filter, Optional
  <2>3. \A i \in 1..Len(rows) : Passes(filter, rows[i]) <=> rows[i].purpose = p
    BY <1>6, <2>2 DEF Passes
  <2>4. \A i \in 1..Len(rows) : i \in missing <=> i \in CarriedOn(rows, days, p)
    BY <1>2, <1>3, <1>6, <2>1, <2>3 DEF MovedLegs, CarriedOn, TransfersOn
  <2>5. Net(rows, CarriedOn(rows, days, p)) = 0
    BY <1>4 DEF Walkable, Cancelling
  <2> QED
    BY <1>1, <2>4, <2>5, NetSame
<1>7. CASE filter.account = {} /\ filter.purpose = {}
  <2>1. filter = Everything
    BY <1>7 DEF Everything, Filter
  <2>2. \A i \in 1..Len(rows) : Passes(filter, rows[i])
    BY <1>7 DEF Passes
  <2>3. \A i \in 1..Len(rows) : i \in missing <=> i \in TransfersOn(rows, days)
    BY <1>2, <1>3, <1>7, <2>1, <2>2 DEF MovedLegs, TransfersOn
  <2>4. Net(rows, TransfersOn(rows, days)) = 0
    BY <1>4 DEF Walkable, Cancelling
  <2> QED
    BY <1>1, <2>3, <2>4, NetSame
<1> QED
  BY <1>5, <1>6, <1>7

LEMMA WalkableFoots == Walkable => WalkFoots
<1> SUFFICES ASSUME Walkable, NEW filter \in Filter, NEW period \in Period
             PROVE  LET walk == Walk(filter, period)
                        ends == WalkEnds(filter, period)
                    IN  ends.start + walk.openings + walk.in - walk.out
                          + walk.adjustments + walk.moved = ends.end
  BY DEF WalkFoots
<1> DEFINE passing(ids) == {i \in ids : Passes(filter, rows[i])}
           entries == EntriesOf(filter, period)
           on(line) == {i \in entries : LineOf(rows[i]) = line}
           spent == on("in") \cup on("out")
           posted == spent \cup on("adjustment")
           moves == {i \in Within(period) : rows[i].kind = "transfer" /\ Passes(filter, rows[i])}
           moved == MovedLegs(filter, period)
           missing == moves \ moved
<1>1. rows \in Seq(Row) /\ Len(rows) \in Nat /\ \A i \in 1..Len(rows) : rows[i] \in Row
  <2>1. rows \in Seq(Row)
    BY DEF Walkable, TypeOK
  <2> QED
    BY <2>1, LenProperties, ElementOfSeq
<1>2. Net(rows, passing(Upto(period)))
        = Net(rows, passing(Earlier(period))) + Net(rows, passing(Within(period)))
  <2>1. period.from \in Int /\ period.to \in Int /\ period.from <= period.to
    BY DEF Period
  <2>2. \A i \in 1..Len(rows) : rows[i].occurredOn \in Nat
    BY <1>1 DEF Row
  <2>3. \A i \in 1..Len(rows) : i \in Earlier(period) => i \in Upto(period)
    BY <2>1, <2>2 DEF Earlier, Upto
  <2>4. \A i \in 1..Len(rows) :
          /\ i \in passing(Upto(period))
               <=> i \in passing(Earlier(period)) \/ i \in passing(Within(period))
          /\ ~(i \in passing(Earlier(period)) /\ i \in passing(Within(period)))
    BY <2>3 DEF Within
  <2> HIDE DEF passing
  <2> QED
    BY <1>1, <2>4, NetSplit
<1>3. Net(rows, passing(Within(period))) = Net(rows, entries) + Net(rows, moves)
  <2>1. \A i \in 1..Len(rows) :
          /\ i \in passing(Within(period)) <=> i \in entries \/ i \in moves
          /\ ~(i \in entries /\ i \in moves)
    BY DEF EntriesOf
  <2> HIDE DEF passing, entries, moves
  <2> QED
    BY <1>1, <2>1, NetSplit
<1>4. Net(rows, moves) = Net(rows, moved)
  <2>1. \A i \in 1..Len(rows) : /\ i \in moves <=> i \in moved \/ i \in missing
                                /\ ~(i \in moved /\ i \in missing)
    BY DEF MovedLegs
  <2>2. Net(rows, missing) = 0
    BY MissingCancels
  <2> HIDE DEF moves, moved, missing
  <2>3. Net(rows, moves) = Net(rows, moved) + Net(rows, missing)
    BY <1>1, <2>1, NetSplit
  <2> QED
    BY <1>1, <2>2, <2>3, NetInt
<1>5. Net(rows, entries) = Net(rows, on("opening")) + Net(rows, posted)
  <2>1. \A i \in entries : LineOf(rows[i]) \in {"opening", "in", "out", "adjustment"}
    <3>1. \A i \in entries : i \in 1..Len(rows)
      BY DEF EntriesOf, Within, Upto
    <3>2. \A i \in entries : rows[i].direction \in {"in", "out"}
      BY <1>1, <3>1 DEF Row, Direction
    <3> QED
      BY <3>2 DEF LineOf, Opposite
  <2> HIDE DEF entries
  <2>2. \A i \in 1..Len(rows) : /\ i \in entries <=> i \in on("opening") \/ i \in posted
                                /\ ~(i \in on("opening") /\ i \in posted)
    BY <2>1
  <2> HIDE DEF on, posted
  <2> QED
    BY <1>1, <2>2, NetSplit
<1>6. Net(rows, posted) = Net(rows, spent) + Net(rows, on("adjustment"))
  <2> HIDE DEF entries
  <2>1. \A i \in 1..Len(rows) : /\ i \in posted <=> i \in spent \/ i \in on("adjustment")
                                /\ ~(i \in spent /\ i \in on("adjustment"))
    OBVIOUS
  <2> HIDE DEF on, posted, spent
  <2> QED
    BY <1>1, <2>1, NetSplit
<1>7. Net(rows, spent) = Net(rows, on("in")) + Net(rows, on("out"))
  <2> HIDE DEF entries
  <2>1. \A i \in 1..Len(rows) : /\ i \in spent <=> i \in on("in") \/ i \in on("out")
                                /\ ~(i \in on("in") /\ i \in on("out"))
    OBVIOUS
  <2> HIDE DEF on, spent
  <2> QED
    BY <1>1, <2>1, NetSplit
<1>8. OutLine(on("out")) \in Int /\ Net(rows, on("out")) + OutLine(on("out")) = 0
  <2>1. on("out") \in SUBSET (1..Len(rows))
    BY DEF EntriesOf, Within, Upto
  <2>2. \A i \in on("out") : rows[i].kind # "transfer" /\ LineOf(rows[i]) = "out"
    BY DEF EntriesOf
  <2> HIDE DEF on
  <2> QED
    BY <2>1, <2>2, OutLineIsNet
<1>9. /\ Walk(filter, period).openings = Net(rows, on("opening"))
      /\ Walk(filter, period).in = Net(rows, on("in"))
      /\ Walk(filter, period).out = OutLine(on("out"))
      /\ Walk(filter, period).adjustments = Net(rows, on("adjustment"))
      /\ Walk(filter, period).moved = Net(rows, moved)
  BY DEF Walk
<1>10. /\ WalkEnds(filter, period).start = Net(rows, passing(Earlier(period)))
       /\ WalkEnds(filter, period).end = Net(rows, passing(Upto(period)))
  BY DEF WalkEnds, WalkEnd
<1> HIDE DEF passing, entries, on, spent, posted, moves, moved, missing
<1>11. \A ids : Net(rows, ids) \in Int
  BY <1>1, NetInt
<1> QED
  BY <1>2, <1>3, <1>4, <1>5, <1>6, <1>7, <1>8, <1>9, <1>10, <1>11

\* The report's walk foots in every reachable state: whatever was posted,
\* reversed, corrected, moved or rolled, and however the rows are filtered, its
\* lines account for the whole change of a balance the ledger sums by itself.
THEOREM WalkAlwaysFoots == Spec => []WalkFoots
<1>1. Spec => []Walkable
  BY InitWalkable, NextWalkable, PTL DEF Spec
<1> QED
  BY <1>1, WalkableFoots, PTL

-----------------------------------------------------------------------------
(* The one move a corrected row is listed with.                             *)

Purposes(i) == {rows[j].purpose : j \in CorrectionLegs(rows, i)}
Times(i, p, direction) ==
  Cardinality({j \in CorrectionLegs(rows, i) : rows[j].purpose = p
                                                 /\ rows[j].direction = direction})

\* How often the corrections of a row entered a purpose, less how often they left
\* it: once more for where its money is than for where it was posted, and the
\* other way about for money that went out.
LEMMA TimesOfAPath ==
  ASSUME TypeOK, Paths, NEW i \in Ids, NEW p \in Purpose
  PROVE  LET net == Times(i, p, "in") - Times(i, p, "out")
             moved == (IF p = EffectivePurpose(rows, i) THEN 1 ELSE 0)
                        - (IF p = rows[i].purpose THEN 1 ELSE 0)
         IN  /\ rows[i].direction = "in" => net = moved
             /\ rows[i].direction = "out" => net = -moved
             /\ p \notin Purposes(i) => net = 0
<1> DEFINE into == Cardinality(Into(rows, i, p))
           outOf == Cardinality(OutOf(rows, i, p))
           now == IF p = EffectivePurpose(rows, i) THEN 1 ELSE 0
           own == IF p = rows[i].purpose THEN 1 ELSE 0
           ins == Times(i, p, "in")
           outs == Times(i, p, "out")
<1>1. rows \in Seq(Row) /\ OnePath(rows, i)
  BY DEF TypeOK, Paths
<1>2. \A j \in 1..Len(rows) : rows[j].direction \in {"in", "out"}
  <2>1. \A j \in 1..Len(rows) : rows[j] \in Row
    BY <1>1, ElementOfSeq
  <2> QED
    BY <2>1 DEF Row, Direction
<1>3. /\ rows[i].direction = "in" => ins = into /\ outs = outOf
      /\ rows[i].direction = "out" => outs = into /\ ins = outOf
  <2>1. \A j \in CorrectionLegs(rows, i) : rows[j].direction \in {"in", "out"}
    BY <1>2 DEF CorrectionLegs
  <2>2. ASSUME rows[i].direction = "in"
        PROVE  ins = into /\ outs = outOf
    <3>1. {j \in CorrectionLegs(rows, i) : rows[j].purpose = p /\ rows[j].direction = "in"}
            = Into(rows, i, p)
      BY <2>2 DEF Into
    <3>2. {j \in CorrectionLegs(rows, i) : rows[j].purpose = p /\ rows[j].direction = "out"}
            = OutOf(rows, i, p)
      BY <2>1, <2>2 DEF OutOf
    <3> QED
      BY <3>1, <3>2 DEF Times
  <2>3. ASSUME rows[i].direction = "out"
        PROVE  outs = into /\ ins = outOf
    <3>1. {j \in CorrectionLegs(rows, i) : rows[j].purpose = p /\ rows[j].direction = "out"}
            = Into(rows, i, p)
      BY <2>3 DEF Into
    <3>2. {j \in CorrectionLegs(rows, i) : rows[j].purpose = p /\ rows[j].direction = "in"}
            = OutOf(rows, i, p)
      BY <2>1, <2>3 DEF OutOf
    <3> QED
      BY <3>1, <3>2 DEF Times
  <2> QED
    BY <2>2, <2>3
<1>4. into \in Nat /\ outOf \in Nat /\ now \in Int /\ own \in Int
  BY <1>1, LegsFinite
<1>5. into - outOf + own = now
  <2>1. Arrivals(rows, i, p) = into - outOf + own
    BY <1>1, ArrivalsCount
  <2>2. Arrivals(rows, i, p) = now
    BY <1>1 DEF OnePath
  <2> QED
    BY <2>1, <2>2
<1>6. p \notin Purposes(i) => ins = 0 /\ outs = 0
  <2> SUFFICES ASSUME p \notin Purposes(i) PROVE ins = 0 /\ outs = 0
    OBVIOUS
  <2>1. /\ {j \in CorrectionLegs(rows, i) : rows[j].purpose = p /\ rows[j].direction = "in"} = {}
        /\ {j \in CorrectionLegs(rows, i) : rows[j].purpose = p /\ rows[j].direction = "out"} = {}
    BY DEF Purposes
  <2> QED
    BY <2>1, FS_EmptySet DEF Times
<1> HIDE DEF into, outOf, now, own, ins, outs
<1>7. /\ rows[i].direction = "in" => ins - outs = now - own
      /\ rows[i].direction = "out" => ins - outs = -(now - own)
      /\ p \notin Purposes(i) => ins - outs = 0
  BY <1>3, <1>4, <1>5, <1>6
<1> QED
  BY <1>7 DEF now, own, ins, outs

\* The move says where a corrected row's money went, and the report never fails
\* on a row whose corrections form no path: they always form one.
THEOREM MovesSayWhere == Spec => []MoveSaysWhereItWent
<1>1. TypeOK /\ Paths => MoveSaysWhereItWent
  <2> SUFFICES ASSUME TypeOK, Paths, NEW i \in 1..Len(rows), CorrectionLegs(rows, i) # {}
               PROVE  LET fold == FoldCorrections(i)
                          now == EffectivePurpose(rows, i)
                      IN  /\ fold.path
                          /\ IF now = rows[i].purpose THEN fold.from = {} /\ fold.to = {}
                             ELSE fold.from = {rows[i].purpose} /\ fold.to = {now}
    BY DEF MoveSaysWhereItWent
  <2> DEFINE now == EffectivePurpose(rows, i)
             own == rows[i].purpose
             left == Entered(i, -1)
             entered == Entered(i, 1)
  <2>1. i \in Ids /\ rows \in Seq(Row) /\ rows[i] \in Row
    <3>1. rows \in Seq(Row)
      BY DEF TypeOK
    <3> QED
      BY <3>1, ElementOfSeq DEF Ids
  <2>2. now \in Purpose /\ own \in Purpose /\ rows[i].direction \in {"in", "out"}
    BY <2>1, EffectivePurposeType DEF Row, Direction
  <2>3. Purposes(i) \subseteq Purpose
    <3>1. \A j \in 1..Len(rows) : rows[j] \in Row
      BY <2>1, ElementOfSeq
    <3> QED
      BY <3>1 DEF Purposes, CorrectionLegs, Row
  <2>4. \A n : Entered(i, n) = {p \in Purposes(i) : Times(i, p, "in") - Times(i, p, "out") = n}
    BY DEF Entered, Times, Purposes
  <2> DEFINE net(p) == Times(i, p, "in") - Times(i, p, "out")
  <2>5. \A p \in Purpose :
          /\ rows[i].direction = "in" =>
               net(p) = (IF p = now THEN 1 ELSE 0) - (IF p = own THEN 1 ELSE 0)
          /\ rows[i].direction = "out" =>
               net(p) = -((IF p = now THEN 1 ELSE 0) - (IF p = own THEN 1 ELSE 0))
          /\ p \notin Purposes(i) => net(p) = 0
    BY <2>1, TimesOfAPath
  <2>6. FoldCorrections(i) =
          [path |-> /\ Purposes(i) \subseteq left \cup entered \cup Entered(i, 0)
                    /\ Cardinality(left) = Cardinality(entered) /\ Cardinality(left) <= 1,
           from |-> IF rows[i].direction = "out" THEN entered ELSE left,
           to |-> IF rows[i].direction = "out" THEN left ELSE entered]
    BY DEF FoldCorrections, Purposes
  <2> HIDE DEF net, now, own
  <2>7. /\ left = {p \in Purposes(i) : net(p) = -1}
        /\ entered = {p \in Purposes(i) : net(p) = 1}
        /\ Entered(i, 0) = {p \in Purposes(i) : net(p) = 0}
    BY <2>4 DEF net
  <2> HIDE DEF left, entered
  <2>8. Purposes(i) \subseteq left \cup entered \cup Entered(i, 0)
    BY <2>2, <2>3, <2>5, <2>7
  <2>9. /\ now = own => left = {} /\ entered = {}
        /\ now # own /\ rows[i].direction = "in" => left = {own} /\ entered = {now}
        /\ now # own /\ rows[i].direction = "out" => left = {now} /\ entered = {own}
    <3>1. CASE now = own
      BY <2>2, <2>3, <2>5, <2>7, <3>1
    <3>2. CASE now # own /\ rows[i].direction = "in"
      <4>1. net(now) = 1 /\ net(own) = -1
        BY <2>2, <2>5, <3>2
      <4>2. \A p \in Purpose : net(p) = 1 => p = now
        BY <2>5, <3>2
      <4>3. \A p \in Purpose : net(p) = -1 => p = own
        BY <2>5, <3>2
      <4>4. now \in Purposes(i) /\ own \in Purposes(i)
        BY <2>2, <2>5, <4>1
      <4> QED
        BY <2>3, <2>7, <3>2, <4>1, <4>2, <4>3, <4>4
    <3>3. CASE now # own /\ rows[i].direction = "out"
      <4>1. net(now) = -1 /\ net(own) = 1
        BY <2>2, <2>5, <3>3
      <4>2. \A p \in Purpose : net(p) = -1 => p = now
        BY <2>5, <3>3
      <4>3. \A p \in Purpose : net(p) = 1 => p = own
        BY <2>5, <3>3
      <4>4. now \in Purposes(i) /\ own \in Purposes(i)
        BY <2>2, <2>5, <4>1
      <4> QED
        BY <2>3, <2>7, <3>3, <4>1, <4>2, <4>3, <4>4
    <3> QED
      BY <2>2, <3>1, <3>2, <3>3
  <2>10. Cardinality(left) = Cardinality(entered) /\ Cardinality(left) <= 1
    <3>1. Cardinality({}) = 0 /\ Cardinality({now}) = 1 /\ Cardinality({own}) = 1
      BY FS_EmptySet, FS_Singleton
    <3>2. CASE now = own
      <4>1. left = {} /\ entered = {}
        BY <2>9, <3>2
      <4>2. Cardinality(left) = 0 /\ Cardinality(entered) = 0
        BY <3>1, <4>1
      <4> QED
        BY <4>2
    <3>3. CASE now # own
      <4>1. \/ left = {own} /\ entered = {now}
            \/ left = {now} /\ entered = {own}
        BY <2>2, <2>9, <3>3
      <4>2. Cardinality(left) = 1 /\ Cardinality(entered) = 1
        BY <3>1, <4>1
      <4> QED
        BY <4>2
    <3> QED
      BY <3>2, <3>3
  <2> DEFINE fold == FoldCorrections(i)
  <2>11. /\ fold.path
         /\ fold.from = IF rows[i].direction = "out" THEN entered ELSE left
         /\ fold.to = IF rows[i].direction = "out" THEN left ELSE entered
    BY <2>6, <2>8, <2>10
  <2> HIDE DEF fold
  <2>12. fold.path /\ IF now = own THEN fold.from = {} /\ fold.to = {}
                      ELSE fold.from = {own} /\ fold.to = {now}
    BY <2>2, <2>9, <2>11
  <2> QED
    BY <2>12 DEF fold, now, own
<1> QED
  BY <1>1, PathsHold, PTL

-----------------------------------------------------------------------------
(* The banner.                                                              *)

LEMMA CountTypes ==
  ASSUME TypeOK, NEW c \in 1..Len(counts)
  PROVE  /\ counts[c].cutoff \in Nat
         /\ \A a \in DOMAIN counts[c].lines : a \in Account /\ counts[c].lines[a] \in Line
<1> DEFINE Snapshot == [cutoff : Nat, at : Nat,
                        lines : UNION {[S -> Line] : S \in SUBSET Account}]
<1>1. counts \in Seq(Snapshot)
  BY DEF TypeOK
<1>2. \A count \in Snapshot :
        /\ count.cutoff \in Nat
        /\ \A a \in DOMAIN count.lines : a \in Account /\ count.lines[a] \in Line
  OBVIOUS
<1> HIDE DEF Snapshot
<1> QED
  BY <1>1, <1>2, ElementOfSeq

LEMMA LatestIsLast ==
  ASSUME NEW period, Taken(period) # {}, Len(counts) \in Nat
  PROVE  Latest(period) \in Taken(period) /\ \A d \in Taken(period) : d <= Latest(period)
<1>1. Taken(period) \in SUBSET (1..Len(counts))
  BY DEF Taken
<1>2. \E c \in Taken(period) : \A d \in Taken(period) : d <= c
  BY <1>1, LastOf
<1> QED
  BY <1>2 DEF Latest

\* A line with nothing left to explain was counted as its figure and its fix say.
LEMMA NothingRemains ==
  ASSUME TypeOK, NEW line \in Line, Says(line), Remainder(line) = 0,
         line.fix # NoRow => line.fix \in 1..Len(rows)
  PROVE  line.actual = line.recorded
                         + (IF line.fix = NoRow THEN 0 ELSE Signed(rows[line.fix]))
<1>1. /\ line.recorded \in Int /\ line.actual \in Int /\ line.resolution \in Resolution
      /\ line.fix # NoRow => Signed(rows[line.fix]) \in Int
  <2>1. line.fix # NoRow => rows[line.fix] \in Row
    BY ElementOfSeq DEF TypeOK
  <2> QED
    BY <2>1, SignedInt DEF Line
<1> DEFINE sign == Signed(rows[line.fix])
<1>2. Remainder(line) = CASE line.resolution = "matched" -> 0
                          [] line.resolution = "left_open" -> line.actual - line.recorded
                          [] OTHER -> line.actual - line.recorded - sign
  BY DEF Remainder
<1>3. line.fix # NoRow => sign \in Int
  BY <1>1
<1> HIDE DEF sign
<1>4. CASE line.resolution \in {"matched", "left_open"}
  BY <1>1, <1>2, <1>4 DEF Says
<1>5. CASE line.resolution \notin {"matched", "left_open"}
  <2>1. line.fix # NoRow /\ line.actual - line.recorded - sign = 0
    BY <1>2, <1>5 DEF Says
  <2>2. line.actual = line.recorded + sign
    BY <1>1, <1>3, <2>1
  <2> QED
    BY <2>1, <2>2 DEF sign
<1> QED
  BY <1>4, <1>5

\* A row up to the period's end is one the last count counted or its own fix.
LEMMA CountedOrFix ==
  ASSUME TypeOK, Kept, NEW period, NewEntries(period) = {},
         Latest(period) \in 1..Len(counts),
         NEW a \in DOMAIN counts[Latest(period)].lines,
         NEW i \in Located(rows, a), i \in Upto(period),
         ~(i <= counts[Latest(period)].cutoff)
  PROVE  i = counts[Latest(period)].lines[a].fix /\ i # NoRow
<1> DEFINE c == Latest(period)
<1>0. i > counts[c].cutoff
  BY CountTypes DEF Located
<1>1. PICK b \in DOMAIN counts[c].lines : counts[c].lines[b].fix = i
  BY <1>0 DEF NewEntries
<1>2. i # NoRow /\ rows[i].account = a
  BY DEF Located, NoRow
<1>3. rows[i].account = b
  BY <1>1, <1>2 DEF Kept, Fixes
<1> QED
  BY <1>1, <1>2, <1>3

LEMMA BannerHolds ==
  ASSUME TypeOK, Kept, SnapshotReproducible
  PROVE  BannerIsTrue
<1> SUFFICES ASSUME NEW period \in Period, Taken(period) # {}, Matched(period),
                    NewEntries(period) = {},
                    1..counts[Latest(period)].cutoff \subseteq Upto(period),
                    \A b \in DOMAIN counts[Latest(period)].lines :
                      LET fix == counts[Latest(period)].lines[b].fix
                      IN  fix # NoRow => fix \in Upto(period),
                    NEW a \in DOMAIN counts[Latest(period)].lines
             PROVE  Net(rows, Located(rows, a) \cap Upto(period))
                      = counts[Latest(period)].lines[a].actual
  BY DEF BannerIsTrue
<1> DEFINE c == Latest(period)
           line == counts[c].lines[a]
           counted == Located(rows, a) \cap 1..counts[c].cutoff
           there == Located(rows, a) \cap Upto(period)
<1>0. rows \in Seq(Row) /\ Len(rows) \in Nat /\ Len(counts) \in Nat
  <2>1. rows \in Seq(Row) /\ counts \in Seq([cutoff : Nat, at : Nat,
                               lines : UNION {[S -> Line] : S \in SUBSET Account}])
    BY DEF TypeOK
  <2> QED
    BY <2>1, LenProperties
<1>1. c \in Taken(period) /\ \A d \in Taken(period) : d <= c
  BY <1>0, LatestIsLast
<1>2. c \in 1..Len(counts)
  BY <1>1 DEF Taken
<1>3. counts[c].cutoff \in Nat /\ a \in Account /\ line \in Line
  BY <1>2, CountTypes
<1>4. /\ Says(line)
      /\ line.fix # NoRow => /\ line.fix \in 1..Len(rows) /\ line.fix > counts[c].cutoff
                             /\ rows[line.fix].account = a
  BY <1>2 DEF Kept, Fixes, Ids
<1>5. Remainder(line) = 0
  <2> DEFINE x == [account |-> a, count |-> c]
  <2>1. x \in [account : Account, count : Taken(period)]
    BY <1>1, <1>3
  <2>2. c \in {k \in Taken(period) : /\ a \in DOMAIN counts[k].lines
                 /\ \A d \in Taken(period) : a \in DOMAIN counts[d].lines => d <= k}
    BY <1>1
  <2>3. x \notin OpenLines(period) /\ x.account = a /\ x.count = c
    BY DEF Matched
  <2> HIDE DEF c, x
  <2> QED
    BY <2>1, <2>2, <2>3 DEF OpenLines, c, x
<1>6. line.actual = line.recorded + (IF line.fix = NoRow THEN 0 ELSE Signed(rows[line.fix]))
  BY <1>3, <1>4, <1>5, NothingRemains
<1>7. Net(rows, counted) = line.recorded
  BY <1>2 DEF SnapshotReproducible, AccountBalanceThrough
<1>8. \A i \in 1..Len(rows) :
        i \in there <=> i \in counted \/ (line.fix # NoRow /\ i = line.fix)
  <2>1. ASSUME NEW i \in 1..Len(rows), i \in there
        PROVE  i \in counted \/ (line.fix # NoRow /\ i = line.fix)
    <3>1. CASE i <= counts[c].cutoff
      BY <1>3, <2>1, <3>1
    <3>2. CASE ~(i <= counts[c].cutoff)
      <4>1. i \in Located(rows, a) /\ i \in Upto(period)
        BY <2>1
      <4> QED
        BY <1>2, <3>2, <4>1, CountedOrFix
    <3> QED
      BY <3>1, <3>2
  <2>2. ASSUME line.fix # NoRow
        PROVE  line.fix \in there
    BY <1>4, <2>2 DEF Located
  <2> QED
    BY <2>1, <2>2
<1>9. CASE line.fix = NoRow
  <2>1. Net(rows, there) = Net(rows, counted)
    BY <1>0, <1>8, <1>9, NetSame
  <2>2. line.actual = line.recorded
    BY <1>3, <1>6, <1>9 DEF Line
  <2> QED
    BY <1>7, <2>1, <2>2
<1>10. CASE line.fix # NoRow
  <2> DEFINE own == {line.fix}
  <2>1. Net(rows, own) = Signed(rows[line.fix])
    BY <1>0, <1>4, <1>10, NetOne
  <2>2. \A i \in 1..Len(rows) : /\ i \in there <=> i \in counted \/ i \in own
                                /\ ~(i \in counted /\ i \in own)
    BY <1>3, <1>4, <1>8, <1>10
  <2> HIDE DEF own
  <2>3. Net(rows, there) = Net(rows, counted) + Net(rows, own)
    BY <1>0, <2>2, NetSplit
  <2> QED
    BY <1>6, <1>7, <1>10, <2>1, <2>3
<1> QED
  BY <1>9, <1>10

\* The banner never says that book and cash agree of a period whose book does not
\* hold what the last count found, whatever fixes, later rows, uncounted locations
\* and changes of zone came between.
THEOREM BannersAreTrue == Spec => []BannerIsTrue
<1>1. TypeOK /\ Kept /\ SnapshotReproducible => BannerIsTrue
  BY BannerHolds
<1> QED
  BY <1>1, TypeCorrect, FixesStayKept, SnapshotsReproducible, PTL

-----------------------------------------------------------------------------
(* Payments.  The months of one payment are dated, counted and undone      *)
(* together, and what undoes them is dated together too.                   *)

SamePayment(rs, i, k) == rs[i].payment # NoRow /\ rs[k].payment = rs[i].payment

Bound(rs, cs, i, k) ==
  /\ rs[i].occurredOn = rs[k].occurredOn
  /\ Reversed(rs, i) <=> Reversed(rs, k)
  /\ \A c \in 1..Len(cs) : cs[c].cutoff >= i <=> cs[c].cutoff >= k

Together == \A i, k \in Ids : SamePayment(rows, i, k) => Bound(rows, counts, i, k)

UndoneTogether ==
  \A j, l \in Ids :
    /\ rows[j].reverses # NoRow /\ rows[l].reverses # NoRow
    /\ SamePayment(rows, rows[j].reverses, rows[l].reverses)
    => rows[j].occurredOn = rows[l].occurredOn

\* What a step does to the payments: its own months are of a payment of its own.
LEMMA StepPayments ==
  ASSUME TypeOK, Placed, [Next]_vars
  PROVE  /\ \A i \in 1..Len(rows) : rows'[i] = rows[i] /\ i \in 1..Len(rows')
         /\ \A i \in 1..Len(rows) : rows[i].payment # NoRow => rows[i].payment <= Len(rows)
         /\ \A i \in 1..Len(rows') : i \notin 1..Len(rows) =>
              /\ i > Len(rows)
              /\ rows'[i].payment # NoRow =>
                   /\ rows'[i].payment = Len(rows) + 1
                   /\ rows'[i].occurredOn = rows'[Len(rows) + 1].occurredOn
<1>0. rows \in Seq(Row) /\ Len(rows) \in Nat
  BY LenProperties DEF TypeOK
<1>1. PICK batch \in Seq(Row) : Grown(rows, batch, rows') /\ Lands(batch)
  BY StepServes DEF Serves, Grown
<1>2. \A i \in 1..Len(rows) : rows'[i] = rows[i] /\ i \in 1..Len(rows')
  BY <1>0, <1>1, BatchRows
<1>3. ASSUME NEW i \in 1..Len(rows), rows[i].payment # NoRow
      PROVE  rows[i].payment <= Len(rows)
  <2>1. OfPayment(rows[i], rows[i].payment)
    BY DEF Placed, Ids
  <2>2. rows[i].payment \in 1..Len(rows)
    BY <1>3, <2>1 DEF OfPayment, Ids
  <2> QED
    BY <1>0, <2>2
<1>4. ASSUME NEW i \in 1..Len(rows'), i \notin 1..Len(rows)
      PROVE  /\ i > Len(rows)
             /\ rows'[i].payment # NoRow =>
                  /\ rows'[i].payment = Len(rows) + 1
                  /\ rows'[i].occurredOn = rows'[Len(rows) + 1].occurredOn
  <2>1. PICK n \in 1..Len(batch) : i = Len(rows) + n
    BY <1>0, <1>1, <1>4, BatchRows
  <2>2. Len(batch) \in Nat
    BY <1>0, <1>1, BatchRows
  <2>3. n >= 1 /\ 1 \in 1..Len(batch)
    BY <2>2
  <2>4. rows'[Len(rows) + n] = batch[n] /\ rows'[Len(rows) + 1] = batch[1]
    BY <1>0, <1>1, <2>3, GrownAt
  <2>5. batch[n].payment # NoRow =>
          batch[n].payment = Len(rows) + 1 /\ batch[n].occurredOn = batch[1].occurredOn
    BY <1>1 DEF Lands
  <2>6. i > Len(rows)
    BY <1>0, <2>1, <2>3
  <2> QED
    BY <2>1, <2>4, <2>5, <2>6
<1> QED
  BY <1>2, <1>3, <1>4

\* A row that a step undoes was standing, it is undone on one date, and with it
\* are all the months of its payment that stand.
LEMMA StepUndoes ==
  ASSUME TypeOK, NEW batch \in Seq(Row), Grounded(batch), NEW n \in 1..Len(batch),
         batch[n].reverses # NoRow
  PROVE  /\ batch[n].reverses \in Ids /\ ~Reversed(rows, batch[n].reverses)
         /\ batch[n].occurredOn = ReversalDate(batch[n].reverses)
         /\ \A k \in Ids :
              SamePayment(rows, batch[n].reverses, k) /\ ~Reversed(rows, k)
                => \E m \in 1..Len(batch) : batch[m].reverses = k
<1>1. CASE \A m \in 1..Len(batch) : Fresh(batch[m])
  BY <1>1 DEF Fresh
<1>2. CASE Moves(batch)
  BY <1>2, MovesRows
<1>3. CASE Corrects(batch)
  <2>1. PICK i \in Ids : /\ Len(batch) = 2
                         /\ IsCorrection(batch[1], i) /\ IsCorrection(batch[2], i)
    BY <1>3, CorrectsRows
  <2>2. n = 1 \/ n = 2
    BY <2>1
  <2> QED
    BY <2>1, <2>2 DEF IsCorrection
<1>4. CASE Undoes(batch)
  <2>1. PICK i \in Ids : Reversible(i) /\ IsReversal(batch[n], i)
    BY <1>4, UndoesRows
  <2>2. /\ batch[n].reverses = i /\ ~Reversed(rows, i)
        /\ batch[n].occurredOn = ReversalDate(i)
    BY <2>1 DEF IsReversal, Reversible, Undoable
  <2>3. ASSUME NEW k \in Ids, SamePayment(rows, batch[n].reverses, k), ~Reversed(rows, k)
        PROVE  \E m \in 1..Len(batch) : batch[m].reverses = k
    BY <1>4, <2>3, UndoesRows DEF SamePayment
  <2> QED
    BY <2>2, <2>3
<1>5. CASE Pays(batch)
  <2>1. Len(batch) = 1
    BY <1>5, PaysRows
  <2>2. n = 1
    BY <2>1
  <2> QED
    BY <1>5, <2>2, PaysRows
<1> QED
  BY <1>1, <1>2, <1>3, <1>4, <1>5 DEF Grounded

\* The rows that are undone after a step.
LEMMA StepReversed ==
  ASSUME TypeOK, PointsBack(rows), NEW batch \in Seq(Row), Grown(rows, batch, rows'),
         Grounded(batch)
  PROVE  /\ \A i \in 1..Len(rows) :
              Reversed(rows', i) <=>
                Reversed(rows, i) \/ \E n \in 1..Len(batch) : batch[n].reverses = i
         /\ \A i \in 1..Len(rows') : i \notin 1..Len(rows) => ~Reversed(rows', i)
<1>0. rows \in Seq(Row)
  BY DEF TypeOK
<1>1. \A j \in 1..Len(rows) : rows'[j] = rows[j] /\ j \in 1..Len(rows')
  BY <1>0, BatchRows
<1>2. \A n \in 1..Len(batch) : rows'[Len(rows) + n] = batch[n] /\ Len(rows) + n \in 1..Len(rows')
  BY <1>0, GrownAt
<1>3. \A j \in 1..Len(rows') :
        j \in 1..Len(rows) \/ \E n \in 1..Len(batch) : j = Len(rows) + n
  BY <1>0, BatchRows
<1>4. ASSUME NEW i \in 1..Len(rows)
      PROVE  Reversed(rows', i) <=>
               Reversed(rows, i) \/ \E n \in 1..Len(batch) : batch[n].reverses = i
  <2>1. ASSUME Reversed(rows', i)
        PROVE  Reversed(rows, i) \/ \E n \in 1..Len(batch) : batch[n].reverses = i
    <3>1. PICK j \in 1..Len(rows') : rows'[j].reverses = i
      BY <2>1 DEF Reversed
    <3>2. CASE j \in 1..Len(rows)
      BY <1>1, <3>1, <3>2 DEF Reversed
    <3>3. CASE j \notin 1..Len(rows)
      <4>1. PICK n \in 1..Len(batch) : j = Len(rows) + n
        BY <1>3, <3>3
      <4> QED
        BY <1>2, <3>1, <4>1
    <3> QED
      BY <3>2, <3>3
  <2>2. ASSUME Reversed(rows, i) \/ \E n \in 1..Len(batch) : batch[n].reverses = i
        PROVE  Reversed(rows', i)
    BY <1>1, <1>2, <2>2 DEF Reversed
  <2> QED
    BY <2>1, <2>2
<1>5. \A n \in 1..Len(batch) : /\ batch[n].corrects \in 0..Len(rows)
                               /\ batch[n].reverses \in 0..Len(rows)
  BY BatchPointsBack
<1>6. ASSUME NEW i \in 1..Len(rows'), i \notin 1..Len(rows)
      PROVE  ~Reversed(rows', i)
  BY <1>0, <1>5, <1>6, NewRowHasNoLegs
<1> QED
  BY <1>4, <1>6

\* Which rows the counts have counted, after a step: a new count has counted
\* every row there was and none of the step's own.
LEMMA StepCutoffs ==
  ASSUME TypeOK, CutoffsInBook, [Next]_vars
  PROVE  /\ \A c \in 1..Len(counts) : counts[c].cutoff \in Nat /\ counts[c].cutoff <= Len(rows)
         /\ \A c \in 1..Len(counts') :
              \/ c \in 1..Len(counts) /\ counts'[c] = counts[c]
              \/ counts'[c].cutoff = Len(rows)
<1>1. \A c \in 1..Len(counts) : counts[c].cutoff \in Nat /\ counts[c].cutoff <= Len(rows)
  BY CountTypes DEF CutoffsInBook
<1>2. CASE counts' = counts
  BY <1>1, <1>2
<1>3. ASSUME NEW count, counts' = Append(counts, count), count.cutoff = Len(rows)
      PROVE  \A c \in 1..Len(counts') :
               \/ c \in 1..Len(counts) /\ counts'[c] = counts[c]
               \/ counts'[c].cutoff = Len(rows)
  <2>1. counts \in Seq([cutoff : Nat, at : Nat,
                        lines : UNION {[S -> Line] : S \in SUBSET Account}])
    BY DEF TypeOK
  <2>2. /\ Len(counts') = Len(counts) + 1 /\ Len(counts) \in Nat
        /\ \A c \in 1..Len(counts) : counts'[c] = counts[c]
        /\ counts'[Len(counts) + 1] = count
    BY <2>1, <1>3, LenProperties
  <2>3. \A c \in 1..Len(counts') : c \in 1..Len(counts) \/ c = Len(counts) + 1
    BY <2>2
  <2> QED
    BY <1>3, <2>2, <2>3
<1> QED
  BY <1>1, <1>2, <1>3, StepCounts DEF Counted

LEMMA StepTogether ==
  ASSUME TypeOK, Placed, PointsBack(rows), CutoffsInBook, Together, [Next]_vars
  PROVE  Together'
<1>0. rows \in Seq(Row) /\ Len(rows) \in Nat
  BY LenProperties DEF TypeOK
<1>1. PICK batch \in Seq(Row) : Grown(rows, batch, rows') /\ Grounded(batch)
  BY StepGrounded
<1> SUFFICES ASSUME NEW i \in 1..Len(rows'), NEW k \in 1..Len(rows'), SamePayment(rows', i, k)
             PROVE  Bound(rows', counts', i, k)
  BY DEF Together, Ids
<1>2. i \in Nat /\ k \in Nat
  OBVIOUS
<1>3. CASE i \in 1..Len(rows) /\ k \in 1..Len(rows)
  <2>1. rows'[i] = rows[i] /\ rows'[k] = rows[k]
    BY <1>3, StepPayments
  <2>2. SamePayment(rows, i, k) /\ SamePayment(rows, k, i)
    BY <2>1 DEF SamePayment
  <2>3. Bound(rows, counts, i, k)
    BY <1>3, <2>2 DEF Together, Ids
  <2>4. \A j, l \in 1..Len(rows) :
          SamePayment(rows, j, l) /\ (Reversed(rows, j) <=> Reversed(rows, l)) /\ Reversed(rows', j)
            => Reversed(rows', l)
    <3> SUFFICES ASSUME NEW j \in 1..Len(rows), NEW l \in 1..Len(rows), SamePayment(rows, j, l),
                        Reversed(rows, j) <=> Reversed(rows, l), Reversed(rows', j)
                 PROVE  Reversed(rows', l)
      OBVIOUS
    <3>1. CASE Reversed(rows, l)
      BY <1>1, <3>1, StepReversed
    <3>2. CASE ~Reversed(rows, l)
      <4>1. PICK n \in 1..Len(batch) : batch[n].reverses = j
        BY <1>1, <3>2, StepReversed
      <4>2. batch[n].reverses # NoRow /\ l \in Ids
        BY <4>1 DEF NoRow, Ids
      <4>3. \E m \in 1..Len(batch) : batch[m].reverses = l
        BY <1>1, <3>2, <4>1, <4>2, StepUndoes
      <4> QED
        BY <1>1, <4>3, StepReversed
    <3> QED
      BY <3>1, <3>2
  <2>5. Reversed(rows', i) <=> Reversed(rows', k)
    BY <1>3, <2>2, <2>3, <2>4 DEF Bound
  <2>6. ASSUME NEW c \in 1..Len(counts')
        PROVE  counts'[c].cutoff >= i <=> counts'[c].cutoff >= k
    <3>1. CASE c \in 1..Len(counts) /\ counts'[c] = counts[c]
      BY <2>3, <3>1 DEF Bound
    <3>2. CASE counts'[c].cutoff = Len(rows)
      BY <1>0, <1>3, <3>2
    <3> QED
      BY <3>1, <3>2, StepCutoffs
  <2> QED
    BY <2>1, <2>3, <2>5, <2>6 DEF Bound
<1>4. CASE i \notin 1..Len(rows) /\ k \notin 1..Len(rows)
  <2>1. rows'[i].occurredOn = rows'[k].occurredOn
    BY <1>4, StepPayments DEF SamePayment
  <2>2. ~Reversed(rows', i) /\ ~Reversed(rows', k)
    BY <1>1, <1>4, StepReversed
  <2>3. ASSUME NEW c \in 1..Len(counts')
        PROVE  ~(counts'[c].cutoff >= i) /\ ~(counts'[c].cutoff >= k)
    <3>1. i > Len(rows) /\ k > Len(rows)
      BY <1>4, StepPayments
    <3>2. counts'[c].cutoff \in Nat /\ counts'[c].cutoff <= Len(rows)
      BY <1>0, StepCutoffs
    <3> QED
      BY <1>0, <1>2, <3>1, <3>2
  <2> QED
    BY <2>1, <2>2, <2>3 DEF Bound
<1>5. ASSUME NEW old \in 1..Len(rows), NEW new \in 1..Len(rows'), new \notin 1..Len(rows),
             rows'[old].payment # NoRow, rows'[new].payment = rows'[old].payment
      PROVE  FALSE
  <2>1. rows'[old].payment <= Len(rows)
    BY <1>5, StepPayments
  <2>2. rows'[new].payment = Len(rows) + 1
    BY <1>5, StepPayments
  <2> QED
    BY <1>0, <1>5, <2>1, <2>2
<1> QED
  BY <1>3, <1>4, <1>5 DEF SamePayment

LEMMA StepUndoneTogether ==
  ASSUME TypeOK, PointsBack(rows), AllBelong(rows), Together, UndoneTogether, [Next]_vars
  PROVE  UndoneTogether'
<1>0. rows \in Seq(Row) /\ Len(rows) \in Nat
  BY LenProperties DEF TypeOK
<1>1. PICK batch \in Seq(Row) : Grown(rows, batch, rows') /\ Grounded(batch)
  BY StepGrounded
<1>2. \A i \in 1..Len(rows) : rows'[i] = rows[i] /\ i \in 1..Len(rows')
  BY <1>0, <1>1, BatchRows
\* A row already undone, and one that the step undoes.
<1>3. ASSUME NEW j \in 1..Len(rows), rows[j].reverses # NoRow
      PROVE  rows[j].reverses \in 1..Len(rows) /\ Reversed(rows, rows[j].reverses)
  BY <1>3 DEF AllBelong, Belongs, Reversed
<1>4. ASSUME NEW j \in 1..Len(rows'), j \notin 1..Len(rows), rows'[j].reverses # NoRow
      PROVE  /\ rows'[j].reverses \in 1..Len(rows) /\ ~Reversed(rows, rows'[j].reverses)
             /\ rows'[j].occurredOn = ReversalDate(rows'[j].reverses)
  <2>1. PICK n \in 1..Len(batch) : j = Len(rows) + n
    BY <1>0, <1>1, <1>4, BatchRows
  <2>2. rows'[j] = batch[n]
    BY <1>0, <1>1, <2>1, GrownAt
  <2> QED
    BY <1>1, <1>4, <2>2, StepUndoes DEF Ids
<1>5. ASSUME NEW i \in 1..Len(rows), NEW k \in 1..Len(rows), SamePayment(rows, i, k)
      PROVE  /\ ReversalDate(i) = ReversalDate(k)
             /\ Reversed(rows, i) <=> Reversed(rows, k)
  <2>1. Bound(rows, counts, i, k)
    BY <1>5 DEF Together, Ids
  <2>2. HasCounted(i) <=> HasCounted(k)
    BY <2>1 DEF Bound, HasCounted
  <2> QED
    BY <2>1, <2>2 DEF Bound, ReversalDate
<1> SUFFICES ASSUME NEW j \in 1..Len(rows'), NEW l \in 1..Len(rows'),
                    rows'[j].reverses # NoRow, rows'[l].reverses # NoRow,
                    SamePayment(rows', rows'[j].reverses, rows'[l].reverses)
             PROVE  rows'[j].occurredOn = rows'[l].occurredOn
  BY DEF UndoneTogether, Ids
<1>6. rows'[j].reverses \in 1..Len(rows) /\ rows'[l].reverses \in 1..Len(rows)
  BY <1>2, <1>3, <1>4
<1>7. SamePayment(rows, rows'[j].reverses, rows'[l].reverses)
  BY <1>2, <1>6 DEF SamePayment
<1>8. CASE j \in 1..Len(rows) /\ l \in 1..Len(rows)
  <2>1. rows'[j] = rows[j] /\ rows'[l] = rows[l]
    BY <1>2, <1>8
  <2> QED
    BY <1>7, <1>8, <2>1 DEF UndoneTogether, Ids
<1>9. CASE j \notin 1..Len(rows) /\ l \notin 1..Len(rows)
  BY <1>4, <1>5, <1>6, <1>7, <1>9
<1>10. CASE j \in 1..Len(rows) /\ l \notin 1..Len(rows)
  BY <1>2, <1>3, <1>4, <1>5, <1>6, <1>7, <1>10
<1>11. CASE j \notin 1..Len(rows) /\ l \in 1..Len(rows)
  BY <1>2, <1>3, <1>4, <1>5, <1>6, <1>7, <1>11
<1> QED
  BY <1>8, <1>9, <1>10, <1>11

Paid == CutoffsInBook /\ Placed /\ Together /\ UndoneTogether

LEMMA AlwaysPaid == Spec => []Paid
<1>1. Init => Paid
  BY DEF Init, Paid, CutoffsInBook, Placed, Together, UndoneTogether, Ids, NoReimbursement
<1>2. TypeOK /\ Paths /\ Belonging /\ Paid /\ [Next]_vars => Paid'
  <2> SUFFICES ASSUME TypeOK, PointsBack(rows), AllBelong(rows), Paid, [Next]_vars
               PROVE  Paid'
    BY DEF Paths, Belonging
  <2>1. CutoffsInBook'
    <3>1. rows \in Seq(Row) /\ Len(rows) \in Nat
      BY LenProperties DEF TypeOK
    <3>2. PICK batch \in Seq(Row) : Grown(rows, batch, rows')
      BY StepGrounded
    <3>3. Len(rows') \in Nat /\ Len(rows) <= Len(rows')
      BY <3>1, <3>2, BatchRows
    <3>4. ASSUME NEW c \in 1..Len(counts')
          PROVE  counts'[c].cutoff <= Len(rows')
      <4>1. counts'[c].cutoff \in Nat /\ counts'[c].cutoff <= Len(rows)
        BY <3>1, StepCutoffs DEF Paid
      <4> QED
        BY <3>1, <3>3, <4>1
    <3> QED
      BY <3>4 DEF CutoffsInBook
  <2> QED
    BY <2>1, StepPlaced, StepTogether, StepUndoneTogether DEF Paid
<1> QED
  BY <1>1, <1>2, PathsHold, AlwaysBelong, TypeCorrect, PTL DEF Spec

\* The rows that undo the rows in G come to what those came to, the other way.
Undoers(rs, G) == {j \in 1..Len(rs) : rs[j].reverses \in G}

LEMMA UndoersWeigh ==
  ASSUME NEW rs \in Seq(Row), AllBelong(rs), NEW G \in SUBSET (1..Len(rs)),
         \A i \in G : Reversed(rs, i),
         \A j, k \in 1..Len(rs) :
           rs[j].reverses \in G /\ rs[j].reverses = rs[k].reverses => j = k
  PROVE  Net(rs, Undoers(rs, G)) = -Net(rs, G)
<1> DEFINE mine(n) == G \cap 1..n
           S == {n \in Nat : Net(rs, Undoers(rs, mine(n))) = -Net(rs, mine(n))}
<1>0. Len(rs) \in Nat
  BY LenProperties
<1>1. 0 \in S
  <2>1. mine(0) = {}
    OBVIOUS
  <2>2. \A j \in 1..Len(rs) : j \notin Undoers(rs, mine(0)) /\ j \notin mine(0)
    BY <2>1 DEF Undoers
  <2>3. Net(rs, Undoers(rs, mine(0))) = 0 /\ Net(rs, mine(0)) = 0
    BY <2>2, NetNothing
  <2> QED
    BY <2>3
<1>2. ASSUME NEW n \in Nat, n \in S
      PROVE  n + 1 \in S
  <2>0. Net(rs, Undoers(rs, mine(n))) = -Net(rs, mine(n)) /\ n + 1 \in Nat
    BY <1>2
  <2> SUFFICES Net(rs, Undoers(rs, mine(n + 1))) = -Net(rs, mine(n + 1))
    BY <2>0
  <2> HIDE DEF S
  <2>1. CASE n + 1 \notin G
    <3>1. mine(n + 1) = mine(n)
      BY <2>1
    <3> QED
      BY <2>0, <3>1
  <2>2. CASE n + 1 \in G
    <3>1. PICK k \in 1..Len(rs) : rs[k].reverses = n + 1
      BY <2>2 DEF Reversed
    <3>2. \A j \in 1..Len(rs) : rs[j].reverses = n + 1 => j = k
      BY <2>2, <3>1
    <3>3. /\ n + 1 \in 1..Len(rs)
          /\ rs[k].amount = rs[n + 1].amount
          /\ rs[k].direction = Opposite(rs[n + 1].direction)
      <4>1. Belongs(rs, rs[k]) /\ rs[k].reverses # NoRow
        BY <3>1 DEF AllBelong, NoRow
      <4> QED
        BY <2>2, <3>1, <4>1 DEF Belongs
    <3>4. Signed(rs[k]) = -Signed(rs[n + 1])
      <4>1. rs[n + 1] \in Row
        BY <3>3, ElementOfSeq
      <4>2. \A row \in Row : row.amount \in Int /\ row.direction \in {"in", "out"}
        BY CeilingAssumption DEF Row, Direction
      <4>3. rs[n + 1].amount \in Int /\ rs[n + 1].direction \in {"in", "out"}
        BY <4>1, <4>2
      <4> QED
        BY <3>3, <4>3 DEF Signed, Opposite
    <3>5. /\ \A i : i \in mine(n + 1) <=> i \in mine(n) \/ i = n + 1
          /\ n + 1 \notin mine(n)
      BY <2>2
    <3> HIDE DEF mine
    <3>6. Net(rs, mine(n + 1)) = Net(rs, mine(n)) + Net(rs, {n + 1})
      BY <3>5, NetSplit
    <3>7. Net(rs, Undoers(rs, mine(n + 1))) = Net(rs, Undoers(rs, mine(n))) + Net(rs, {k})
      <4>1. ASSUME NEW j \in 1..Len(rs)
            PROVE  /\ j \in Undoers(rs, mine(n + 1)) <=> j \in Undoers(rs, mine(n)) \/ j \in {k}
                   /\ ~(j \in Undoers(rs, mine(n)) /\ j \in {k})
        BY <3>1, <3>2, <3>5 DEF Undoers
      <4> QED
        BY <4>1, NetSplit
    <3>8. Net(rs, {n + 1}) = Signed(rs[n + 1]) /\ Net(rs, {k}) = Signed(rs[k])
      BY <3>3, NetOne
    <3>9. Net(rs, mine(n)) \in Int /\ Signed(rs[n + 1]) \in Int
      BY <3>3, NetInt, SignedInt, ElementOfSeq
    <3> QED
      BY <2>0, <3>4, <3>6, <3>7, <3>8, <3>9
  <2> QED
    BY <2>1, <2>2
<1>3. Len(rs) \in S
  <2> HIDE DEF S
  <2>1. Nat \subseteq S
    BY <1>1, <1>2, SetInduction
  <2> QED
    BY <1>0, <2>1
<1>4. mine(Len(rs)) = G
  OBVIOUS
<1> QED
  BY <1>3, <1>4

\* The whole book, as the report of a running period lists it.
AllOfIt == [from |-> 0, to |-> Today, running |-> TRUE]

LEMMA ListsAllOfIt ==
  ASSUME TypeOK
  PROVE  \A j : j \in EntriesOf(Everything, AllOfIt) <=> j \in Ids /\ rows[j].kind # "transfer"
<1>1. ASSUME NEW j \in 1..Len(rows)
      PROVE  rows[j].occurredOn \in Nat
  <2>1. rows[j] \in Row
    BY ElementOfSeq DEF TypeOK
  <2> QED
    BY <2>1 DEF Row
<1>2. \A j \in 1..Len(rows) : ~(rows[j].occurredOn < 0)
  BY <1>1
<1>3. Within(AllOfIt) = 1..Len(rows)
  BY <1>2 DEF Within, Upto, Earlier, AllOfIt
<1>4. \A row : Passes(Everything, row)
  BY DEF Passes, Everything
<1> QED
  BY <1>3, <1>4 DEF EntriesOf, Ids

\* The keys of a payment: its months have one, and so has each row that undoes
\* one of them.
LEMMA PaymentKeys ==
  ASSUME TypeOK, Placed, AllBelong(rows), NEW payment, payment # NoRow, NEW j \in Ids
  PROVE  /\ rows[j].payment = payment =>
              rows[j].kind # "transfer" /\ DuesGroupKey(j) = <<"payment", payment, NoRow>>
         /\ DuesGroupKey(j)[1] = "payment" /\ DuesGroupKey(j)[2] = payment =>
              rows[j].payment = payment
         /\ rows[j].reverses \in Ids /\ rows[rows[j].reverses].payment = payment =>
              /\ rows[j].kind # "transfer"
              /\ DuesGroupKey(j) = <<"reversal", payment, rows[j].occurredOn>>
         /\ DuesGroupKey(j)[1] = "reversal" /\ DuesGroupKey(j)[2] = payment =>
              rows[j].reverses \in Ids /\ rows[rows[j].reverses].payment = payment
<1>1. rows[j].payment = payment => rows[j].kind = "dues"
  <2>1. OfPayment(rows[j], rows[j].payment)
    BY DEF Placed
  <2> QED
    BY <2>1 DEF OfPayment
<1>2. rows[j].reverses # NoRow => rows[j].kind = "adjustment" /\ rows[j].reverses \in Ids
  BY DEF AllBelong, Belongs, Ids
<1>3. \A k \in Ids : k # NoRow
  BY DEF Ids, NoRow
<1>4. CASE rows[j].kind = "dues"
  <2>1. DuesGroupKey(j) = <<"payment", rows[j].payment, NoRow>>
    BY <1>2, <1>4 DEF DuesGroupKey
  <2> QED
    BY <1>2, <1>3, <1>4, <2>1
<1>5. CASE rows[j].kind # "dues" /\ rows[j].reverses # NoRow
             /\ rows[rows[j].reverses].payment # NoRow
  <2>1. DuesGroupKey(j) = <<"reversal", rows[rows[j].reverses].payment, rows[j].occurredOn>>
    BY <1>5 DEF DuesGroupKey
  <2> QED
    BY <1>1, <1>2, <1>5, <2>1
<1>6. CASE rows[j].kind # "dues" /\ ~(rows[j].reverses # NoRow
             /\ rows[rows[j].reverses].payment # NoRow)
  <2>1. DuesGroupKey(j) = <<"row", j, NoRow>>
    BY <1>6 DEF DuesGroupKey
  <2> QED
    BY <1>1, <1>3, <1>6, <2>1
<1> QED
  BY <1>4, <1>5, <1>6

LEMMA PaymentReads ==
  ASSUME TypeOK, AllSquared, AllBelong(rows), Paid, NEW i \in Ids, rows[i].payment # NoRow
  PROVE  LET listed == Listed(Everything, AllOfIt)
             of(word) == {x \in listed : x.key[1] = word /\ x.key[2] = rows[i].payment}
         IN  \E p \in of("payment") :
               /\ of("payment") = {p} /\ ~p.partly
               /\ IF p.reversed THEN \E r \in of("reversal") :
                                       of("reversal") = {r} /\ r.signed = -p.signed
                  ELSE of("reversal") = {}
<1> DEFINE payment == rows[i].payment
           G == {k \in Ids : rows[k].payment = payment}
           shown == EntriesOf(Everything, AllOfIt)
           group(k) == {j \in shown : DuesGroupKey(j) = k}
           undone(g) == {j \in g : Reversed(rows, j)}
           entry(k) == [key |-> k, signed |-> Net(rows, group(k)),
                        reversed |-> undone(group(k)) = group(k),
                        partly |-> undone(group(k)) \notin {{}, group(k)}]
           listed == {entry(k) : k \in {DuesGroupKey(j) : j \in shown}}
           of(word) == {x \in listed : x.key[1] = word /\ x.key[2] = payment}
           P == <<"payment", payment, NoRow>>
<1>1. \A k : /\ entry(k).key = k /\ entry(k).signed = Net(rows, group(k))
             /\ entry(k).reversed <=> undone(group(k)) = group(k)
             /\ entry(k).partly <=> undone(group(k)) \notin {{}, group(k)}
  OBVIOUS
<1>2. Listed(Everything, AllOfIt) = listed
  BY DEF Listed
<1>3. \A j : j \in shown <=> j \in Ids /\ rows[j].kind # "transfer"
  BY ListsAllOfIt
<1>4. rows \in Seq(Row) /\ Placed /\ payment # NoRow
  BY DEF TypeOK, Paid
<1> HIDE DEF shown, entry, payment
\* The months: they are listed as one, and undone all of them or none.
<1>5. group(P) = G
  <2>1. \A j \in Ids : rows[j].payment = payment =>
          rows[j].kind # "transfer" /\ DuesGroupKey(j) = P
    BY <1>4, PaymentKeys
  <2>2. \A j \in Ids : DuesGroupKey(j) = P => rows[j].payment = payment
    <3>1. P[1] = "payment" /\ P[2] = payment
      OBVIOUS
    <3> HIDE DEF P
    <3> QED
      BY <1>4, <3>1, PaymentKeys
  <2> QED
    BY <1>3, <2>1, <2>2
<1>6. of("payment") = {entry(P)}
  <2>1. i \in shown /\ DuesGroupKey(i) = P
    BY <1>3, <1>4, PaymentKeys DEF payment
  <2>2. entry(P) \in of("payment")
    BY <1>1, <2>1
  <2>3. ASSUME NEW x \in of("payment") PROVE x = entry(P)
    <3>1. PICK j \in shown : x = entry(DuesGroupKey(j))
      OBVIOUS
    <3>2. DuesGroupKey(j)[1] = "payment" /\ DuesGroupKey(j)[2] = payment
      BY <1>1, <3>1
    <3>3. DuesGroupKey(j) = P
      BY <1>3, <1>4, <3>2, PaymentKeys
    <3> QED
      BY <3>1, <3>3
  <2> QED
    BY <2>2, <2>3
<1>7. i \in G /\ \A j \in G : Reversed(rows, j) <=> Reversed(rows, i)
  BY <1>4 DEF Paid, Together, SamePayment, Bound, payment
<1>8. undone(G) = IF Reversed(rows, i) THEN G ELSE {}
  BY <1>7
<1>9. ~entry(P).partly /\ (entry(P).reversed <=> Reversed(rows, i))
  BY <1>1, <1>5, <1>7, <1>8
\* What undoes them.
<1>10. \A j \in Ids : j \in Undoers(rows, G) =>
         rows[j].kind # "transfer" /\ DuesGroupKey(j) = <<"reversal", payment, rows[j].occurredOn>>
  BY <1>4, PaymentKeys DEF Undoers
<1>11. \A j \in Ids : DuesGroupKey(j)[1] = "reversal" /\ DuesGroupKey(j)[2] = payment =>
         j \in Undoers(rows, G)
  BY <1>4, PaymentKeys DEF Undoers, Ids
<1>12. CASE ~Reversed(rows, i)
  <2>1. \A j \in Ids : j \notin Undoers(rows, G)
    BY <1>7, <1>12 DEF Undoers, Reversed, Ids
  <2>2. ASSUME NEW x \in of("reversal") PROVE FALSE
    <3>1. PICK j \in shown : x = entry(DuesGroupKey(j))
      OBVIOUS
    <3>2. DuesGroupKey(j)[1] = "reversal" /\ DuesGroupKey(j)[2] = payment
      BY <1>1, <3>1
    <3> QED
      BY <1>3, <1>11, <2>1, <3>2
  <2>3. of("reversal") = {}
    BY <2>2
  <2> QED
    BY <1>2, <1>6, <1>9, <1>12, <2>3 DEF payment
<1>13. CASE Reversed(rows, i)
  <2>1. PICK o \in Ids : rows[o].reverses = i
    BY <1>13 DEF Reversed, Ids
  <2> DEFINE R == <<"reversal", payment, rows[o].occurredOn>>
  <2>2. o \in Undoers(rows, G) /\ DuesGroupKey(o) = R /\ o \in shown
    BY <1>3, <1>7, <1>10, <2>1 DEF Undoers, Ids
  <2>3. \A j \in Ids : j \in Undoers(rows, G) => rows[j].occurredOn = rows[o].occurredOn
    <3> SUFFICES ASSUME NEW j \in Ids, j \in Undoers(rows, G)
                 PROVE  rows[j].occurredOn = rows[o].occurredOn
      OBVIOUS
    <3>1. rows[j].reverses \in G /\ rows[o].reverses \in G
      BY <1>7, <2>1 DEF Undoers
    <3>2. rows[j].reverses # NoRow /\ rows[o].reverses # NoRow
      BY <3>1 DEF Ids, NoRow
    <3>3. SamePayment(rows, rows[j].reverses, rows[o].reverses)
      BY <1>4, <3>1 DEF SamePayment
    <3> QED
      BY <3>2, <3>3 DEF Paid, UndoneTogether
  <2>4. group(R) = Undoers(rows, G)
    <3>1. \A j : j \in group(R) => j \in Undoers(rows, G)
      BY <1>3, <1>11
    <3>2. \A j : j \in Undoers(rows, G) => j \in group(R)
      <4>1. \A j : j \in Undoers(rows, G) => j \in Ids
        BY DEF Undoers, Ids
      <4> QED
        BY <1>3, <1>10, <2>3, <4>1
    <3> QED
      BY <3>1, <3>2
  <2>5. of("reversal") = {entry(R)}
    <3>1. entry(R) \in of("reversal")
      BY <1>1, <2>2
    <3>2. ASSUME NEW x \in of("reversal") PROVE x = entry(R)
      <4>1. PICK j \in shown : x = entry(DuesGroupKey(j))
        OBVIOUS
      <4>2. DuesGroupKey(j)[1] = "reversal" /\ DuesGroupKey(j)[2] = payment
        BY <1>1, <4>1
      <4>3. DuesGroupKey(j) = R
        BY <1>3, <1>10, <1>11, <2>3, <4>2
      <4> QED
        BY <4>1, <4>3
    <3> QED
      BY <3>1, <3>2
  <2>6. Net(rows, Undoers(rows, G)) = -Net(rows, G)
    <3>1. G \in SUBSET (1..Len(rows)) /\ \A j \in G : Reversed(rows, j) /\ Squared(rows, j)
      BY <1>7, <1>13 DEF AllSquared, Ids
    <3>2. \A j, k \in 1..Len(rows) :
            rows[j].reverses \in G /\ rows[j].reverses = rows[k].reverses => j = k
      BY <3>1 DEF Squared
    <3> HIDE DEF G
    <3> QED
      BY <1>4, <3>1, <3>2, UndoersWeigh
  <2>7. entry(R).signed = -entry(P).signed
    BY <1>1, <1>5, <2>4, <2>6
  <2> QED
    BY <1>2, <1>6, <1>9, <1>13, <2>5, <2>7 DEF payment
<1> QED
  BY <1>12, <1>13

\* A dues payment is listed as one entry, never half undone, and so is its
\* reversal, of the same amount: whatever was counted between the two, a month is
\* dated, counted and undone with the rest of its payment.
THEOREM PaymentsReadAsOne == Spec => []PaymentReadsAsOne
<1>1. TypeOK /\ AllSquared /\ Belonging /\ Paid => PaymentReadsAsOne
  BY PaymentReads DEF PaymentReadsAsOne, Belonging, AllOfIt, Ids
<1> QED
  BY <1>1, TypeCorrect, AlwaysSquared, AlwaysBelong, AlwaysPaid, PTL

-----------------------------------------------------------------------------
(* Backups of the book.  What the schema asks of a row when it is put back  *)
(* is what the ledger already kept when it was posted.                      *)

\* The shape of any row, and of the row it undoes.
Accepted(rs, row) ==
  /\ row.kind = "dues" <=> row.payment # NoRow
  /\ row.kind = "dues" => row.named /\ row.direction = "in"
  /\ row.named =>
       \/ row.kind = "dues"
       \/ row.kind = "normal" /\ row.direction = "in" /\ row.purpose \in Incidental
       \/ row.kind = "adjustment" /\ row.direction = "out" /\ row.reverses # NoRow
  /\ row.kind = "reimbursement" => row.claim # NoClaim /\ row.direction = "out"
  /\ row.kind = "transfer" => row.movement # "none"
  /\ row.reverses # NoRow =>
       /\ row.kind = "adjustment" /\ row.reverses \in 1..Len(rs)
       /\ rs[row.reverses].kind \in {"dues", "normal"}
       /\ rs[row.reverses].direction = Opposite(row.direction)
       /\ rs[row.reverses].amount = row.amount /\ rs[row.reverses].account = row.account
       /\ rs[row.reverses].named = row.named

AllAccepted == \A i \in Ids : Accepted(rows, rows[i])

LEMMA BatchAccepted ==
  ASSUME TypeOK, AllAccepted, NEW batch \in Seq(Row), Grounded(batch), NEW n \in 1..Len(batch)
  PROVE  Accepted(rows, batch[n])
<1>1. CASE \A k \in 1..Len(batch) : Fresh(batch[k])
  BY <1>1 DEF Fresh, Shapely, Accepted
<1>2. CASE Moves(batch)
  <2>0. Len(batch) = 2
    BY <1>2, MovesRows
  <2>1. n = 1 \/ n = 2
    BY <2>0
  <2> QED
    BY <1>2, <2>1, MovesRows DEF Accepted
<1>3. CASE Corrects(batch)
  <2>1. PICK i \in Ids : /\ Len(batch) = 2
                         /\ IsCorrection(batch[1], i) /\ IsCorrection(batch[2], i)
    BY <1>3, CorrectsRows
  <2>2. n = 1 \/ n = 2
    BY <2>1
  <2>3. IsCorrection(batch[n], i)
    BY <2>1, <2>2
  <2> QED
    BY <2>3 DEF Accepted, IsCorrection
<1>4. CASE Undoes(batch)
  <2>1. PICK i \in Ids : Reversible(i) /\ IsReversal(batch[n], i)
    BY <1>4, UndoesRows
  <2>2. rows[i].kind \in {"dues", "normal"} /\ Accepted(rows, rows[i]) /\ i \in 1..Len(rows)
    BY <2>1 DEF Reversible, Undoable, AllAccepted, Ids
  <2>3. rows[i].direction \in {"in", "out"}
    <3>1. rows[i] \in Row
      BY <2>2, ElementOfSeq DEF TypeOK
    <3> QED
      BY <3>1 DEF Row, Direction
  <2>4. i # NoRow
    BY DEF Ids, NoRow
  <2>5. rows[i].direction = Opposite(batch[n].direction)
    BY <2>1, <2>3 DEF IsReversal, Opposite
  <2>6. rows[i].named => batch[n].direction = "out"
    BY <2>1, <2>2 DEF IsReversal, Opposite, Accepted
  <2> QED
    BY <2>1, <2>2, <2>4, <2>5, <2>6 DEF IsReversal, Accepted
<1>5. CASE Pays(batch)
  <2>0. Len(batch) = 1
    BY <1>5, PaysRows
  <2>1. n = 1
    BY <2>0
  <2> QED
    BY <1>5, <2>1, PaysRows, NoClaimAssumption DEF Accepted
<1> QED
  BY <1>1, <1>2, <1>3, <1>4, <1>5 DEF Grounded

\* One opening balance of a location.
OpenedOnce ==
  \A i, j \in Ids :
    rows[i].kind = "opening" /\ rows[j].kind = "opening" /\ rows[i].account = rows[j].account
      => i = j

\* The months of a payment are the rows from its first on.
Unbroken ==
  \A i \in Ids : rows[i].payment # NoRow =>
    /\ rows[i].payment <= i
    /\ \A k \in rows[i].payment..i : rows[k].payment = rows[i].payment

LEMMA StepAccepted == TypeOK /\ AllAccepted /\ [Next]_vars => AllAccepted'
<1> SUFFICES ASSUME TypeOK, AllAccepted, [Next]_vars PROVE AllAccepted'
  OBVIOUS
<1>0. rows \in Seq(Row)
  BY DEF TypeOK
<1>1. PICK batch \in Seq(Row) : Grown(rows, batch, rows') /\ Grounded(batch)
  BY StepGrounded
<1>2. \A i \in 1..Len(rows) : rows'[i] = rows[i] /\ i \in 1..Len(rows')
  BY <1>0, <1>1, BatchRows
<1>3. ASSUME NEW row, Accepted(rows, row)
      PROVE  Accepted(rows', row)
  BY <1>2, <1>3 DEF Accepted
<1>5. \A i \in 1..Len(rows') :
        i \in 1..Len(rows) \/ \E n \in 1..Len(batch) : i = Len(rows) + n
  BY <1>0, <1>1, BatchRows
<1>4. ASSUME NEW i \in 1..Len(rows')
      PROVE  Accepted(rows', rows'[i])
  <2>1. CASE i \in 1..Len(rows)
    BY <1>2, <1>3, <2>1 DEF AllAccepted, Ids
  <2>2. CASE i \notin 1..Len(rows)
    <3>1. PICK n \in 1..Len(batch) : i = Len(rows) + n
      BY <1>5, <2>2
    <3>2. rows'[i] = batch[n]
      BY <1>0, <1>1, <3>1, GrownAt
    <3> QED
      BY <1>1, <1>3, <3>2, BatchAccepted
  <2> QED
    BY <2>1, <2>2
<1> QED
  BY <1>4 DEF AllAccepted, Ids

LEMMA StepOpenedOnce == TypeOK /\ Placed /\ OpenedOnce /\ [Next]_vars => OpenedOnce'
<1> SUFFICES ASSUME TypeOK, Placed, OpenedOnce, [Next]_vars PROVE OpenedOnce'
  OBVIOUS
<1>0. rows \in Seq(Row) /\ Len(rows) \in Nat
  BY LenProperties DEF TypeOK
<1>1. PICK batch \in Seq(Row) : Grown(rows, batch, rows') /\ Opens(batch)
  BY StepPosts DEF Posts, Grown
<1>2. \A i \in 1..Len(rows) : rows'[i] = rows[i] /\ i \in 1..Len(rows')
  BY <1>0, <1>1, BatchRows
<1>9. \A i \in 1..Len(rows') :
        i \in 1..Len(rows) \/ \E n \in 1..Len(batch) : i = Len(rows) + n
  BY <1>0, <1>1, BatchRows
<1>3. \A i \in 1..Len(rows') : i \notin 1..Len(rows) =>
        \E n \in 1..Len(batch) : i = Len(rows) + n /\ rows'[i] = batch[n]
  <2> SUFFICES ASSUME NEW i \in 1..Len(rows'), i \notin 1..Len(rows)
               PROVE  \E n \in 1..Len(batch) : i = Len(rows) + n /\ rows'[i] = batch[n]
    OBVIOUS
  <2>1. PICK n \in 1..Len(batch) : i = Len(rows) + n
    BY <1>9
  <2>2. rows'[Len(rows) + n] = batch[n]
    BY <1>0, <1>1, GrownAt
  <2> QED
    BY <2>1, <2>2
\* A location that has rows is not new.
<1>4. \A i \in 1..Len(rows), n \in 1..Len(batch) :
        batch[n].kind = "opening" => batch[n].account # rows[i].account
  <2> SUFFICES ASSUME NEW i \in 1..Len(rows), NEW n \in 1..Len(batch),
                      batch[n].kind = "opening", batch[n].account = rows[i].account
               PROVE  FALSE
    OBVIOUS
  <2>1. account[rows[i].account] # Absent
    BY DEF Placed, Ids
  <2>2. setUp
    <3>1. rows # << >>
      <4>1. Len(<< >>) = 0
        OBVIOUS
      <4> QED
        BY <4>1
    <3> QED
      BY <3>1 DEF Placed
  <2> QED
    BY <1>1, <2>1, <2>2 DEF Opens
<1> SUFFICES ASSUME NEW i \in 1..Len(rows'), NEW j \in 1..Len(rows'),
                    rows'[i].kind = "opening", rows'[j].kind = "opening",
                    rows'[i].account = rows'[j].account
             PROVE  i = j
  BY DEF OpenedOnce, Ids
<1>5. CASE i \in 1..Len(rows) /\ j \in 1..Len(rows)
  BY <1>2, <1>5 DEF OpenedOnce, Ids
<1>6. CASE i \notin 1..Len(rows) /\ j \notin 1..Len(rows)
  <2>1. PICK n \in 1..Len(batch) : i = Len(rows) + n /\ rows'[i] = batch[n]
    BY <1>3, <1>6
  <2>2. PICK m \in 1..Len(batch) : j = Len(rows) + m /\ rows'[j] = batch[m]
    BY <1>3, <1>6
  <2>3. m = n
    BY <1>1, <2>1, <2>2 DEF Opens
  <2> QED
    BY <2>1, <2>2, <2>3
<1>7. CASE i \in 1..Len(rows) /\ j \notin 1..Len(rows)
  BY <1>2, <1>3, <1>4, <1>7
<1>8. CASE i \notin 1..Len(rows) /\ j \in 1..Len(rows)
  BY <1>2, <1>3, <1>4, <1>8
<1> QED
  BY <1>5, <1>6, <1>7, <1>8

LEMMA StepUnbroken == TypeOK /\ Placed /\ Unbroken /\ [Next]_vars => Unbroken'
<1> SUFFICES ASSUME TypeOK, Placed, Unbroken, [Next]_vars PROVE Unbroken'
  OBVIOUS
<1>0. rows \in Seq(Row) /\ Len(rows) \in Nat
  BY LenProperties DEF TypeOK
<1>1. PICK batch \in Seq(Row) : Grown(rows, batch, rows') /\ Lands(batch)
  BY StepServes DEF Serves, Grown
<1>2. \A i \in 1..Len(rows) : rows'[i] = rows[i] /\ i \in 1..Len(rows')
  BY <1>0, <1>1, BatchRows
<1>3. \A n \in 1..Len(batch) : rows'[Len(rows) + n] = batch[n]
  BY <1>0, <1>1, GrownAt
<1>4. Len(batch) \in Nat
  BY <1>0, <1>1, BatchRows
<1>9. \A i \in 1..Len(rows') :
        i \in 1..Len(rows) \/ \E n \in 1..Len(batch) : i = Len(rows) + n
  BY <1>0, <1>1, BatchRows
<1> SUFFICES ASSUME NEW i \in 1..Len(rows'), rows'[i].payment # NoRow
             PROVE  /\ rows'[i].payment <= i
                    /\ \A k \in rows'[i].payment..i : rows'[k].payment = rows'[i].payment
  BY DEF Unbroken, Ids
<1>5. CASE i \in 1..Len(rows)
  <2>1. rows'[i] = rows[i] /\ i \in Ids
    BY <1>2, <1>5 DEF Ids
  <2>2. /\ rows[i].payment <= i
        /\ \A k \in rows[i].payment..i : rows[k].payment = rows[i].payment
    BY <2>1 DEF Unbroken
  <2>3. rows[i].payment \in 1..Len(rows)
    <3>1. OfPayment(rows[i], rows[i].payment)
      BY <2>1 DEF Placed
    <3> QED
      BY <2>1, <3>1 DEF OfPayment, Ids
  <2>4. \A k \in rows[i].payment..i : k \in 1..Len(rows)
    BY <1>0, <1>5, <2>3
  <2> QED
    BY <1>2, <2>1, <2>2, <2>4
<1>6. CASE i \notin 1..Len(rows)
  <2>1. PICK n \in 1..Len(batch) : i = Len(rows) + n
    BY <1>6, <1>9
  <2>2. \A m \in 1..Len(batch) : batch[m].payment = Len(rows) + 1
    BY <1>1, <1>3, <2>1 DEF Lands
  <2>3. rows'[i].payment = Len(rows) + 1 /\ Len(rows) + 1 <= i
    BY <1>0, <1>3, <1>4, <2>1, <2>2
  <2>4. ASSUME NEW k \in (Len(rows) + 1)..i
        PROVE  rows'[k].payment = Len(rows) + 1
    <3>1. k - Len(rows) \in 1..Len(batch) /\ k = Len(rows) + (k - Len(rows))
      BY <1>0, <1>4, <2>1
    <3>2. rows'[Len(rows) + (k - Len(rows))] = batch[k - Len(rows)]
      BY <1>3, <3>1
    <3> QED
      BY <2>2, <3>1, <3>2
  <2> QED
    BY <2>3, <2>4
<1> QED
  BY <1>5, <1>6

Keepable == AllAccepted /\ OpenedOnce /\ Unbroken

LEMMA AlwaysKeepable == Spec => []Keepable
<1>1. Init => Keepable
  BY DEF Init, Keepable, AllAccepted, OpenedOnce, Unbroken, Ids
<1>2. TypeOK /\ Paid /\ Keepable /\ [Next]_vars => Keepable'
  BY StepAccepted, StepOpenedOnce, StepUnbroken DEF Paid, Keepable
<1> QED
  BY <1>1, <1>2, TypeCorrect, AlwaysPaid, PTL DEF Spec

-----------------------------------------------------------------------------
(* Putting the rows back, in whatever order a file lists them.              *)

\* A reversal undoes a row that undoes none.
OneDeep ==
  \A i \in Ids : rows[i].reverses # NoRow =>
    rows[i].reverses \in Ids /\ rows[rows[i].reverses].reverses = NoRow

\* A second member joins a first.
LEMMA AppendToOne ==
  ASSUME NEW S, NEW i \in S, NEW r \in S
  PROVE  Append(<< >>, i) = <<i>> /\ Append(<<r>>, i) = <<r, i>>
<1>1. <<r>> \in Seq(S) /\ <<r, i>> \in Seq(S) /\ Len(<<r>>) = 1 /\ Len(<<r, i>>) = 2
  OBVIOUS
<1>2. /\ Append(<<r>>, i) \in Seq(S) /\ Len(Append(<<r>>, i)) = 2
      /\ Append(<<r>>, i)[1] = r /\ Append(<<r>>, i)[2] = i
  BY <1>1, AppendProperties
<1>3. <<r, i>>[1] = r /\ <<r, i>>[2] = i /\ \A n \in 1..2 : n = 1 \/ n = 2
  OBVIOUS
<1>4. \A n \in 1..2 : Append(<<r>>, i)[n] = <<r, i>>[n]
  BY <1>2, <1>3
<1>5. Append(<< >>, i) = <<i>>
  OBVIOUS
<1> QED
  BY <1>1, <1>2, <1>4, <1>5, SeqEqual

\* What is inserted for a row: itself, and before it what it undoes.
LEMMA InsertedForIs ==
  ASSUME OneDeep, NEW there
  PROVE  \A i \in Ids :
           InsertedFor(there)[i] =
             IF i \in there THEN << >>
             ELSE IF rows[i].reverses = NoRow \/ rows[i].reverses \in there THEN <<i>>
             ELSE <<rows[i].reverses, i>>
<1> DEFINE Solves(f) ==
             f = [i \in 1..Len(rows) |->
                    IF i \in there THEN << >>
                    ELSE IF rows[i].reverses = NoRow THEN <<i>>
                    ELSE Append(f[rows[i].reverses], i)]
           g == [i \in 1..Len(rows) |->
                   IF i \in there THEN << >>
                   ELSE IF rows[i].reverses = NoRow \/ rows[i].reverses \in there THEN <<i>>
                   ELSE <<rows[i].reverses, i>>]
<1>1. \A i, r \in 1..Len(rows) : Append(<< >>, i) = <<i>> /\ Append(<<r>>, i) = <<r, i>>
  BY AppendToOne
<1>2. Solves(g)
  <2>1. ASSUME NEW i \in 1..Len(rows)
        PROVE  g[i] = IF i \in there THEN << >>
                      ELSE IF rows[i].reverses = NoRow THEN <<i>>
                      ELSE Append(g[rows[i].reverses], i)
    <3>1. CASE i \in there \/ rows[i].reverses = NoRow
      BY <3>1
    <3>2. CASE i \notin there /\ rows[i].reverses # NoRow
      <4> DEFINE r == rows[i].reverses
      <4>1. r \in 1..Len(rows) /\ rows[r].reverses = NoRow
        BY <3>2 DEF OneDeep, Ids
      <4>2. g[r] = IF r \in there THEN << >> ELSE <<r>>
        BY <4>1
      <4>3. g[i] = IF r \in there THEN <<i>> ELSE <<r, i>>
        BY <3>2
      <4> HIDE DEF g, r
      <4>4. g[i] = Append(g[r], i)
        BY <1>1, <4>1, <4>2, <4>3
      <4> QED
        BY <3>2, <4>4 DEF r
    <3> QED
      BY <3>1, <3>2
  <2>2. g = [i \in 1..Len(rows) |-> g[i]]
    OBVIOUS
  <2> HIDE DEF g
  <2> QED
    BY <2>1, <2>2
<1>3. Solves(InsertedFor(there))
  <2>1. \E f : Solves(f)
    <3> HIDE DEF g, Solves
    <3> QED
      BY <1>2
  <2> QED
    BY <2>1 DEF InsertedFor
<1> DEFINE h == InsertedFor(there)
<1>4. ASSUME NEW i \in 1..Len(rows)
      PROVE  h[i] = IF i \in there THEN << >>
                    ELSE IF rows[i].reverses = NoRow THEN <<i>>
                    ELSE Append(h[rows[i].reverses], i)
  <2>1. \A f : Solves(f) => f[i] = IF i \in there THEN << >>
                    ELSE IF rows[i].reverses = NoRow THEN <<i>>
                    ELSE Append(f[rows[i].reverses], i)
    OBVIOUS
  <2> HIDE DEF Solves
  <2> QED
    BY <1>3, <2>1
<1>5. ASSUME NEW i \in Ids
      PROVE  h[i] = IF i \in there THEN << >>
             ELSE IF rows[i].reverses = NoRow \/ rows[i].reverses \in there THEN <<i>>
             ELSE <<rows[i].reverses, i>>
  <2> HIDE DEF h
  <2>1. CASE i \in there \/ rows[i].reverses = NoRow
    BY <1>4, <2>1 DEF Ids
  <2>2. CASE i \notin there /\ rows[i].reverses # NoRow
    <3> DEFINE r == rows[i].reverses
    <3>1. r \in 1..Len(rows) /\ rows[r].reverses = NoRow
      BY <2>2 DEF OneDeep, Ids
    <3>2. h[r] = IF r \in there THEN << >> ELSE <<r>>
      BY <1>4, <3>1
    <3>3. h[i] = Append(h[r], i)
      BY <1>4, <2>2 DEF Ids
    <3>4. i \in 1..Len(rows)
      BY DEF Ids
    <3> QED
      BY <1>1, <2>2, <3>1, <3>2, <3>3, <3>4
  <2> QED
    BY <2>1, <2>2
<1> QED
  BY <1>5

\* Orders in which rows can be inserted: none twice, each after what it undoes.
Sound(order) ==
  /\ order \in Seq(Ids)
  /\ \A m, n \in 1..Len(order) : order[m] = order[n] => m = n
  /\ \A n \in 1..Len(order) : rows[order[n]].reverses # NoRow =>
       \E m \in 1..(n - 1) : order[m] = rows[order[n]].reverses

LEMMA RangeIs ==
  ASSUME NEW S, NEW s \in Seq(S)
  PROVE  Range(s) = {s[n] : n \in 1..Len(s)}
BY LenProperties DEF Range

LEMMA SoundGrows ==
  ASSUME NEW order, Sound(order), NEW i \in Ids, i \notin Range(order),
         rows[i].reverses = NoRow \/ rows[i].reverses \in Range(order)
  PROVE  /\ Sound(Append(order, i))
         /\ Range(Append(order, i)) = Range(order) \cup {i}
<1> DEFINE all == Append(order, i)
<1>0. order \in Seq(Ids) /\ Len(order) \in Nat
  BY LenProperties DEF Sound
<1>1. /\ all \in Seq(Ids) /\ Len(all) = Len(order) + 1
      /\ \A n \in 1..Len(order) : all[n] = order[n]
      /\ all[Len(order) + 1] = i
  BY <1>0, AppendProperties
<1> HIDE DEF all
<1>2. Range(order) = {order[n] : n \in 1..Len(order)} /\ Range(all) = {all[n] : n \in 1..Len(all)}
  BY <1>0, <1>1, RangeIs
<1>3. \A n \in 1..Len(all) : n \in 1..Len(order) \/ n = Len(order) + 1
  BY <1>0, <1>1
<1>4. \A n \in 1..Len(order) : n \in 1..Len(all)
  BY <1>0, <1>1
<1>5. Len(order) + 1 \in 1..Len(all)
  BY <1>0, <1>1
<1>6. Range(all) = Range(order) \cup {i}
  BY <1>1, <1>2, <1>3, <1>4, <1>5
<1>7. ASSUME NEW m \in 1..Len(all), NEW n \in 1..Len(all), all[m] = all[n]
      PROVE  m = n
  BY <1>1, <1>2, <1>3, <1>7 DEF Sound
<1>8. ASSUME NEW n \in 1..Len(all), rows[all[n]].reverses # NoRow
      PROVE  \E m \in 1..(n - 1) : all[m] = rows[all[n]].reverses
  <2>1. CASE n \in 1..Len(order)
    <3>1. PICK m \in 1..(n - 1) : order[m] = rows[order[n]].reverses
      BY <1>1, <1>8, <2>1 DEF Sound
    <3>2. m \in 1..Len(order)
      BY <1>0, <2>1, <3>1
    <3> QED
      BY <1>1, <2>1, <3>1, <3>2
  <2>2. CASE n = Len(order) + 1
    <3>1. rows[i].reverses \in Range(order)
      BY <1>1, <1>8, <2>2
    <3>2. PICK m \in 1..Len(order) : order[m] = rows[i].reverses
      BY <1>2, <3>1
    <3>3. m \in 1..(n - 1) /\ all[m] = order[m] /\ all[n] = i
      BY <1>0, <1>1, <2>2, <3>2
    <3> QED
      BY <3>2, <3>3
  <2> QED
    BY <1>3, <2>1, <2>2
<1>9. Sound(all)
  BY <1>1, <1>7, <1>8 DEF Sound
<1> QED
  BY <1>6, <1>9 DEF all

\* Inserting one more of a file's rows.
Insertion(before, i) == before \o InsertedFor(Range(before))[i]

LEMMA InsertionSound ==
  ASSUME OneDeep, NEW before, Sound(before), NEW i \in Ids
  PROVE  /\ Sound(Insertion(before, i))
         /\ Range(before) \cup {i} \subseteq Range(Insertion(before, i))
<1> DEFINE r == rows[i].reverses
           there == Range(before)
<1>0. before \in Seq(Ids)
  BY DEF Sound
<1>1. InsertedFor(there)[i] =
        IF i \in there THEN << >> ELSE IF r = NoRow \/ r \in there THEN <<i>> ELSE <<r, i>>
  BY InsertedForIs
<1>2. r # NoRow => r \in Ids /\ rows[r].reverses = NoRow
  BY DEF OneDeep
<1> HIDE DEF r, there
<1>3. CASE i \in there
  <2>1. Insertion(before, i) = before \o << >>
    BY <1>1, <1>3 DEF Insertion, there
  <2>2. before \o << >> = before
    BY <1>0, ConcatEmptySeq
  <2> QED
    BY <1>3, <2>1, <2>2 DEF there
<1>4. CASE i \notin there /\ (r = NoRow \/ r \in there)
  <2>1. Insertion(before, i) = before \o <<i>>
    BY <1>1, <1>4 DEF Insertion, there
  <2>2. before \o <<i>> = Append(before, i)
    BY <1>0, AppendIsConcat
  <2> DEFINE next == Append(before, i)
  <2>3. Sound(next) /\ Range(next) = Range(before) \cup {i}
    BY <1>4, SoundGrows DEF there, r
  <2>4. Insertion(before, i) = next
    BY <2>1, <2>2
  <2> HIDE DEF next
  <2> QED
    BY <2>3, <2>4
<1>5. CASE i \notin there /\ r # NoRow /\ r \notin there
  <2>1. Insertion(before, i) = before \o <<r, i>>
    BY <1>1, <1>5 DEF Insertion, there
  <2>2. before \o <<r, i>> = Append(Append(before, r), i)
    BY <1>0, <1>2, <1>5
  <2>3. /\ Sound(Append(before, r))
        /\ Range(Append(before, r)) = Range(before) \cup {r}
    BY <1>2, <1>5, SoundGrows DEF there
  <2>4. r # i
    BY <1>2, <1>5 DEF r
  <2> DEFINE next == Append(before, r)
  <2> HIDE DEF next
  <2>5. Sound(next) /\ Range(next) = Range(before) \cup {r}
    BY <2>3 DEF next
  <2>6. Sound(Append(next, i)) /\ Range(Append(next, i)) = Range(next) \cup {i}
    BY <1>5, <2>4, <2>5, SoundGrows DEF there, r
  <2>7. Insertion(before, i) = Append(next, i)
    BY <2>1, <2>2 DEF next
  <2> QED
    BY <2>5, <2>6, <2>7
<1> QED
  BY <1>3, <1>4, <1>5

LEMMA InsertedEquation ==
  ASSUME NEW file \in Seq(Ids)
  PROVE  \E after : /\ Inserted(file) = after[Len(file)]
                    /\ after[0] = << >>
                    /\ \A n \in 1..Len(file) : after[n] = Insertion(after[n - 1], file[n])
<1> DEFINE Solves(f, k) == f = [n \in 0..k |-> IF n = 0 THEN << >> ELSE Insertion(f[n - 1], file[n])]
           S == {k \in Nat : \E f : Solves(f, k)}
<1>1. 0 \in S
  <2> DEFINE f == [n \in 0..0 |-> << >>]
  <2>1. Solves(f, 0)
    OBVIOUS
  <2> QED
    BY <2>1
<1>2. ASSUME NEW k \in Nat, k \in S
      PROVE  k + 1 \in S
  <2>1. PICK f : Solves(f, k)
    BY <1>2
  <2> DEFINE g == [n \in 0..(k + 1) |-> IF n = k + 1 THEN Insertion(f[k], file[k + 1]) ELSE f[n]]
  <2>2. Solves(g, k + 1)
    <3>1. ASSUME NEW n \in 0..(k + 1)
          PROVE  g[n] = IF n = 0 THEN << >> ELSE Insertion(g[n - 1], file[n])
      <4>1. CASE n = 0
        BY <2>1, <4>1
      <4>2. CASE n \in 1..k
        <5>1. n - 1 \in 0..(k + 1) /\ n - 1 # k + 1 /\ n # k + 1 /\ n \in 0..k /\ n # 0
          BY <4>2
        <5>2. f[n] = Insertion(f[n - 1], file[n])
          BY <2>1, <5>1
        <5> QED
          BY <5>1, <5>2
      <4>3. CASE n = k + 1
        <5>1. n - 1 = k /\ k # k + 1 /\ k \in 0..(k + 1) /\ n # 0
          BY <4>3
        <5> QED
          BY <5>1, <4>3
      <4> QED
        BY <4>1, <4>2, <4>3
    <3>2. g = [n \in 0..(k + 1) |-> g[n]]
      OBVIOUS
    <3> HIDE DEF g
    <3> QED
      BY <3>1, <3>2
  <2>3. \E h : Solves(h, k + 1)
    <3> HIDE DEF g, Solves
    <3> QED
      BY <2>2
  <2> HIDE DEF Solves
  <2> QED
    BY <2>3
<1>3. Len(file) \in S
  <2> HIDE DEF S
  <2> QED
    BY <1>1, <1>2, SetInduction, LenProperties
<1> DEFINE after == CHOOSE f : Solves(f, Len(file))
<1>4. Solves(after, Len(file))
  BY <1>3
<1>5. Inserted(file) = after[Len(file)]
  BY DEF Inserted, Insertion
<1>6. ASSUME NEW n \in 0..Len(file)
      PROVE  after[n] = IF n = 0 THEN << >> ELSE Insertion(after[n - 1], file[n])
  <2> HIDE DEF after
  <2> QED
    BY <1>4
<1>7. Len(file) \in Nat
  BY LenProperties
<1>8. 0 \in 0..Len(file) /\ \A n \in 1..Len(file) : n \in 0..Len(file) /\ n # 0
  BY <1>7
<1> HIDE DEF after
<1> QED
  BY <1>5, <1>6, <1>8

\* Whatever order a file lists the rows in, they all go in, each once.
LEMMA InsertedSound ==
  ASSUME rows \in Seq(Row), OneDeep, NEW file \in Orders(Ids)
  PROVE  Sound(Inserted(file)) /\ Range(Inserted(file)) = Ids
<1>0. Len(rows) \in Nat /\ IsFiniteSet(Ids)
  BY LenProperties, FS_Interval DEF Ids
<1>1. /\ file \in Seq(Ids) /\ Len(file) \in Nat
      /\ \A i \in Ids : \E n \in 1..Len(file) : file[n] = i
  BY <1>0, OrdersType
<1>2. PICK after : /\ Inserted(file) = after[Len(file)]
                   /\ after[0] = << >>
                   /\ \A n \in 1..Len(file) : after[n] = Insertion(after[n - 1], file[n])
  BY <1>1, InsertedEquation
<1> DEFINE P == {n \in Nat : n <= Len(file) =>
                   /\ Sound(after[n])
                   /\ \A m \in 1..n : file[m] \in Range(after[n])}
<1>3. 0 \in P
  <2>1. Sound(<< >>)
    <3>1. << >> \in Seq(Ids) /\ Len(<< >>) = 0
      OBVIOUS
    <3> QED
      BY <3>1 DEF Sound
  <2> QED
    BY <1>2, <2>1
<1>4. ASSUME NEW n \in Nat, n \in P
      PROVE  n + 1 \in P
  <2> SUFFICES ASSUME n + 1 <= Len(file)
               PROVE  /\ Sound(after[n + 1])
                      /\ \A m \in 1..(n + 1) : file[m] \in Range(after[n + 1])
    OBVIOUS
  <2>1. n + 1 \in 1..Len(file) /\ n <= Len(file) /\ (n + 1) - 1 = n
    BY <1>1
  <2>2. Sound(after[n]) /\ \A m \in 1..n : file[m] \in Range(after[n])
    BY <1>4, <2>1
  <2>3. after[n + 1] = Insertion(after[n], file[n + 1]) /\ file[n + 1] \in Ids
    BY <1>1, <1>2, <2>1, ElementOfSeq
  <2>4. /\ Sound(after[n + 1])
        /\ Range(after[n]) \cup {file[n + 1]} \subseteq Range(after[n + 1])
    BY <2>2, <2>3, InsertionSound
  <2>5. \A m \in 1..(n + 1) : m \in 1..n \/ m = n + 1
    OBVIOUS
  <2> QED
    BY <2>2, <2>4, <2>5
<1> HIDE DEF P
<1>5. Len(file) \in P
  BY <1>1, <1>3, <1>4, SetInduction
<1>6. Sound(Inserted(file)) /\ \A m \in 1..Len(file) : file[m] \in Range(Inserted(file))
  BY <1>1, <1>2, <1>5 DEF P
<1>7. Range(Inserted(file)) \subseteq Ids
  <2> DEFINE order == Inserted(file)
  <2>1. order \in Seq(Ids)
    BY <1>6 DEF Sound
  <2> HIDE DEF order
  <2>2. \A n \in 1..Len(order) : order[n] \in Ids
    BY <2>1, ElementOfSeq
  <2>3. Range(order) \subseteq Ids
    BY <2>1, <2>2, RangeIs
  <2> QED
    BY <2>3 DEF order
<1> QED
  BY <1>1, <1>6, <1>7

\* A row meets the schema once what it undoes is in and it is not.
LEMMA RowsInsert ==
  ASSUME TypeOK, AllSquared, PaidOnce, Keepable, NEW there \in SUBSET Ids,
         NEW i \in Ids, i \notin there, rows[i].reverses # NoRow => rows[i].reverses \in there
  PROVE  Insertable(there, i)
<1>1. rows[i] \in Row /\ Accepted(rows, rows[i])
  BY ElementOfSeq DEF TypeOK, Ids, Keepable, AllAccepted
<1>2. ChecksHold(rows[i])
  <2>1. rows[i].amount \in 1..Ceiling
    BY <1>1 DEF Row
  <2>2. (rows[i].kind = "dues") = (rows[i].payment # NoRow)
    BY <1>1 DEF Accepted
  <2> QED
    BY <1>1, <2>1, <2>2 DEF Accepted, ChecksHold
<1>3. ShapeHolds(there, rows[i])
  <2>1. rows[i].kind = "normal" /\ rows[i].named => rows[i].purpose \in Incidental
    BY <1>1 DEF Accepted
  <2>2. ASSUME rows[i].reverses # NoRow
        PROVE  \E o \in there \cap {rows[i].reverses} :
                 /\ rows[o].kind \in {"dues", "normal"}
                 /\ rows[o].direction = Opposite(rows[i].direction)
                 /\ rows[o].amount = rows[i].amount /\ rows[o].account = rows[i].account
                 /\ rows[o].named = rows[i].named
    <3>1. rows[i].reverses \in there \cap {rows[i].reverses}
      BY <2>2
    <3> QED
      BY <1>1, <2>2, <3>1 DEF Accepted
  <2> QED
    BY <2>1, <2>2 DEF ShapeHolds
<1>4. ASSUME NEW o \in there
      PROVE  /\ rows[i].kind = "reimbursement" =>
                  rows[o].kind # "reimbursement" \/ rows[o].claim # rows[i].claim
             /\ rows[i].reverses # NoRow => rows[o].reverses # rows[i].reverses
             /\ rows[i].kind = "opening" =>
                  rows[o].kind # "opening" \/ rows[o].account # rows[i].account
  <2>0. o \in Ids /\ o # i
    OBVIOUS
  <2>1. rows[i].kind = "reimbursement" => rows[o].claim # rows[i].claim
    BY <1>1, <2>0 DEF Accepted, PaidOnce
  <2>2. ASSUME rows[i].reverses # NoRow
        PROVE  rows[o].reverses # rows[i].reverses
    <3>1. rows[i].reverses \in Ids
      BY <2>2
    <3>2. \A j, k \in 1..Len(rows) :
            rows[j].reverses = rows[i].reverses /\ rows[k].reverses = rows[i].reverses => j = k
      BY <3>1 DEF AllSquared, Squared
    <3> QED
      BY <2>0, <3>2 DEF Ids
  <2>3. rows[i].kind = "opening" =>
          rows[o].kind # "opening" \/ rows[o].account # rows[i].account
    BY <2>0 DEF Keepable, OpenedOnce
  <2> QED
    BY <2>1, <2>2, <2>3
<1>5. UniqueAmong(there, rows[i])
  BY <1>4 DEF UniqueAmong
<1> QED
  BY <1>2, <1>3, <1>5 DEF Insertable

\* All a row refers to is in the file.
LEMMA AllResolves ==
  ASSUME TypeOK, Placed, PaidOnce, Keepable
  PROVE  ReferencesResolve(Ids)
<1> SUFFICES ASSUME NEW i \in Ids
             PROVE  /\ rows[i].account \in ListedAccounts /\ rows[i].purpose \in ListedPurposes
                    /\ rows[i].claim \in ListedClaims \cup {NoClaim}
                    /\ {rows[i].reverses, rows[i].corrects, rows[i].payment}
                         \subseteq Ids \cup {NoRow}
  BY DEF ReferencesResolve
<1>1. rows[i] \in Row /\ Accepted(rows, rows[i])
  BY ElementOfSeq DEF TypeOK, Ids, Keepable, AllAccepted
<1>2. /\ rows[i].account \in Account /\ rows[i].purpose \in Purpose
      /\ rows[i].claim \in Claim \cup {NoClaim}
  BY <1>1 DEF Row
<1>3. setUp
  <2>1. rows # << >>
    <3>1. Len(<< >>) = 0
      OBVIOUS
    <3> QED
      BY <3>1 DEF Ids
  <2> QED
    BY <2>1 DEF Placed
<1>4. account[rows[i].account] # Absent /\ Founded(rows[i].purpose)
  BY DEF Placed
<1>5. Exists(rows[i].purpose)
  BY <1>3, <1>4 DEF Exists, Founded
<1>6. rows[i].claim # NoClaim => claims[rows[i].claim].status # Absent
  BY DEF PaidOnce, Absent
<1>7. rows[i].reverses \in Ids \cup {NoRow}
  BY <1>1 DEF Accepted, Ids
<1>8. rows[i].corrects \in Ids \cup {NoRow}
  BY DEF Placed
<1>9. rows[i].payment \in Ids \cup {NoRow}
  BY DEF Placed, OfPayment
<1> QED
  BY <1>2, <1>4, <1>5, <1>6, <1>7, <1>8, <1>9 DEF ListedAccounts, ListedPurposes, ListedClaims

-----------------------------------------------------------------------------
(* The numbers a restore proves.                                            *)

\* A sum over a file's own rows is the sum over the book, in whatever order.
Summed(file, S) == [n \in 1..Len(file) |-> IF file[n] \in S THEN Signed(rows[file[n]]) ELSE 0]

LEMMA OrderDoesNotMatter ==
  ASSUME rows \in Seq(Row), NEW file \in Orders(Ids), NEW S \in SUBSET Ids
  PROVE  Total(Summed(file, S)) = Net(rows, S)
<1>0. Len(rows) \in Nat /\ IsFiniteSet(Ids)
  BY LenProperties, FS_Interval DEF Ids
<1>1. /\ file \in Seq(Ids) /\ Len(file) \in Nat
      /\ \A i \in Ids : \E n \in 1..Len(file) : file[n] = i
      /\ \A m, n \in 1..Len(file) : file[m] = file[n] => m = n
  BY <1>0, OrdersType
<1>2. \A n \in 1..Len(file) : file[n] \in Ids /\ Signed(rows[file[n]]) \in Int
  <2>1. \A n \in 1..Len(file) : file[n] \in Ids
    BY <1>1, ElementOfSeq
  <2>2. \A i \in Ids : Signed(rows[i]) \in Int
    BY ElementOfSeq, SignedInt DEF Ids
  <2> QED
    BY <2>1, <2>2
<1>3. ASSUME NEW T
      PROVE  /\ Summed(file, T) \in Seq(Int) /\ Len(Summed(file, T)) = Len(file)
             /\ \A n \in 1..Len(file) :
                  Summed(file, T)[n] = IF file[n] \in T THEN Signed(rows[file[n]]) ELSE 0
  <2>1. \A n \in 1..Len(file) : (IF file[n] \in T THEN Signed(rows[file[n]]) ELSE 0) \in Int
    BY <1>2
  <2> QED
    BY <1>1, <2>1, IsASeq DEF Summed
<1> DEFINE P == {k \in Nat : \A T \in SUBSET Ids :
                   T \subseteq 1..k => Total(Summed(file, T)) = Net(rows, T)}
<1>4. 0 \in P
  <2> SUFFICES ASSUME NEW T \in SUBSET Ids, T \subseteq 1..0
               PROVE  Total(Summed(file, T)) = Net(rows, T)
    OBVIOUS
  <2>1. T = {}
    <3>1. 1..0 = {}
      OBVIOUS
    <3> QED
      BY <3>1
  <2>2. Net(rows, T) = 0
    BY <2>1, NetNothing
  <2> DEFINE v == Summed(file, T)
  <2>3. v \in Seq(Int) /\ \A n \in 1..Len(v) : v[n] = 0
    BY <1>3, <2>1
  <2> HIDE DEF v
  <2>4. Total(v) = 0
    BY <2>3, TotalZeros
  <2> QED
    BY <2>2, <2>4 DEF v
<1>5. ASSUME NEW k \in Nat, k \in P
      PROVE  k + 1 \in P
  <2> SUFFICES ASSUME NEW T \in SUBSET Ids, T \subseteq 1..(k + 1)
               PROVE  Total(Summed(file, T)) = Net(rows, T)
    OBVIOUS
  <2>1. CASE k + 1 \notin T
    <3>1. T \subseteq 1..k
      BY <2>1
    <3> QED
      BY <1>5, <3>1
  <2>2. CASE k + 1 \in T
    <3> DEFINE one == T \ {k + 1}
               u == Summed(file, one)
               v == Summed(file, {k + 1})
               w == Summed(file, T)
    <3>1. one \in SUBSET Ids /\ one \subseteq 1..k /\ k + 1 \in Ids
      BY <2>2
    <3>2. Total(u) = Net(rows, one)
      BY <1>5, <3>1
    <3>3. /\ u \in Seq(Int) /\ v \in Seq(Int) /\ w \in Seq(Int)
          /\ Len(u) = Len(file) /\ Len(v) = Len(file) /\ Len(w) = Len(file)
      BY <1>3
    <3>4. \A n \in 1..Len(file) :
            /\ u[n] = IF file[n] \in one THEN Signed(rows[file[n]]) ELSE 0
            /\ v[n] = IF file[n] \in {k + 1} THEN Signed(rows[file[n]]) ELSE 0
            /\ w[n] = IF file[n] \in T THEN Signed(rows[file[n]]) ELSE 0
      BY <1>3
    <3> HIDE DEF u, v, w
    <3>5. \A n \in 1..Len(file) : w[n] = u[n] + v[n]
      <4> SUFFICES ASSUME NEW n \in 1..Len(file) PROVE w[n] = u[n] + v[n]
        OBVIOUS
      <4>1. Signed(rows[file[n]]) \in Int
        BY <1>2
      <4>2. file[n] \in T <=> (file[n] \in one \/ file[n] = k + 1)
        BY <2>2
      <4>3. ~(file[n] \in one /\ file[n] = k + 1)
        OBVIOUS
      <4> QED
        BY <3>4, <4>1, <4>2, <4>3
    <3>6. Total(w) = Total(u) + Total(v)
      BY <3>3, <3>5, TotalSum
    <3>7. PICK m \in 1..Len(file) : file[m] = k + 1
      BY <1>1, <3>1
    <3>8. Total(v) = Signed(rows[k + 1])
      <4>1. \A n \in 1..Len(v) : n # m => v[n] = 0
        BY <1>1, <3>3, <3>4, <3>7
      <4>2. v[m] = Signed(rows[k + 1]) /\ m \in 1..Len(v)
        BY <3>3, <3>4, <3>7
      <4> QED
        BY <3>3, <4>1, <4>2, TotalOne
    <3>9. Net(rows, {k + 1}) = Signed(rows[k + 1])
      BY <3>1, NetOne DEF Ids
    <3>10. Net(rows, T) = Net(rows, one) + Net(rows, {k + 1})
      BY <2>2, NetSplit
    <3> QED
      BY <3>2, <3>6, <3>8, <3>9, <3>10 DEF w
  <2> QED
    BY <2>1, <2>2
<1>6. Len(rows) \in P
  <2> HIDE DEF P
  <2> QED
    BY <1>0, <1>4, <1>5, SetInduction
<1>7. S \subseteq 1..Len(rows)
  BY DEF Ids
<1> QED
  BY <1>6, <1>7

LEMMA NumbersProve ==
  ASSUME rows \in Seq(Row), NEW file \in Orders(Ids)
  PROVE  ProvesItsNumbers(file, ClaimedTotals)
<1>1. \A S \in SUBSET Ids : Total(Summed(file, S)) = Net(rows, S)
  BY OrderDoesNotMatter
<1>2. Total(Summed(file, 1..Len(rows))) = Net(rows, 1..Len(rows))
  BY <1>1 DEF Ids
<1>3. \A a : Total(Summed(file, Located(rows, a))) = AccountBalance(rows, a)
  BY <1>1 DEF Ids, Located, AccountBalance
<1>4. \A p : Total(Summed(file, Tagged(rows, p))) = PurposeBalance(rows, p)
  BY <1>1 DEF Ids, Tagged, PurposeBalance
<1>5. TotalsFromRows(file) =
        [fund |-> Total(Summed(file, 1..Len(rows))),
         accounts |-> [a \in ListedAccounts |-> Total(Summed(file, Located(rows, a)))],
         purposes |-> [p \in ListedPurposes |-> Total(Summed(file, Tagged(rows, p)))]]
  BY DEF TotalsFromRows, Summed
<1> QED
  BY <1>2, <1>3, <1>4, <1>5 DEF ProvesItsNumbers, ClaimedTotals

LEMMA AnyOrderRestores ==
  ASSUME TypeOK, AllSquared, AllBelong(rows), Placed, PaidOnce, Keepable,
         NEW file \in Orders(Ids)
  PROVE  Restorable(file, ClaimedTotals)
<1>0. rows \in Seq(Row)
  BY DEF TypeOK
<1>1. OneDeep
  BY DEF AllBelong, Belongs, Original, OneDeep, Ids
<1> DEFINE order == Inserted(file)
           before(n) == {order[m] : m \in 1..(n - 1)}
<1>2. Sound(order) /\ Range(order) = Ids
  BY <1>0, <1>1, InsertedSound
<1> HIDE DEF order
<1>3. Len(order) \in Nat /\ \A n \in 1..Len(order) : order[n] \in Ids
  BY <1>2, LenProperties, ElementOfSeq DEF Sound
<1>4. ASSUME NEW n \in 1..Len(order)
      PROVE  Insertable(before(n), order[n])
  <2>1. \A m \in 1..(n - 1) : m \in 1..Len(order) /\ m # n
    BY <1>3
  <2>2. before(n) \in SUBSET Ids /\ order[n] \in Ids
    BY <1>3, <2>1
  <2>3. order[n] \notin before(n)
    BY <1>2, <2>1 DEF Sound
  <2>4. rows[order[n]].reverses # NoRow => rows[order[n]].reverses \in before(n)
    BY <1>2 DEF Sound
  <2> HIDE DEF before
  <2> QED
    BY <2>2, <2>3, <2>4, RowsInsert
<1>5. ReferencesResolve(Range(order)) /\ Range(order) = 1..Len(rows)
  BY <1>2, AllResolves DEF Ids
<1>6. ProvesItsNumbers(file, ClaimedTotals)
  BY <1>0, NumbersProve
<1> QED
  BY <1>4, <1>5, <1>6 DEF Restorable, order

-----------------------------------------------------------------------------
(* Format 2.                                                                *)

\* The months of a payment follow on one another, and so read as one.
LEMMA UpgradesWhole ==
  ASSUME TypeOK, Placed, Together, Keepable, NEW pause \in Pauses,
         NEW i \in DuesRows, NEW j \in DuesRows, i < j, rows[i].payment = rows[j].payment
  PROVE  UpgradedPayment(Running(pause), i) = UpgradedPayment(Running(pause), j)
<1> DEFINE at == Running(pause)
           q == rows[i].payment
<1>0. Len(rows) \in Nat /\ i \in Ids /\ j \in Ids
  BY LenProperties DEF TypeOK, DuesRows, Ids
<1>1. q # NoRow
  BY <1>0 DEF Keepable, AllAccepted, Accepted, DuesRows
<1>2. q <= i /\ \A k \in q..j : rows[k].payment = q
  BY <1>0, <1>1 DEF Keepable, Unbroken
<1>3. q \in Ids
  BY <1>0, <1>1 DEF Placed, OfPayment
<1>4. ASSUME NEW k \in i..j
      PROVE  k \in DuesRows /\ SamePayer(i, k)
  <2>1. k \in q..j /\ k \in Ids
    BY <1>0, <1>2, <1>3 DEF Ids
  <2>2. rows[k].payment = q
    BY <1>2, <2>1
  <2>3. rows[k].kind = "dues" /\ rows[k].account = rows[q].account
    BY <1>1, <2>1, <2>2 DEF Placed, OfPayment
  <2>4. rows[i].account = rows[q].account
    BY <1>0, <1>1 DEF Placed, OfPayment
  <2>5. rows[i].occurredOn = rows[k].occurredOn
    BY <1>0, <1>1, <2>1, <2>2 DEF Together, SamePayment, Bound
  <2> QED
    BY <2>1, <2>3, <2>4, <2>5 DEF DuesRows, SamePayer, Ids
<1>5. SamePayer(i, j)
  BY <1>0, <1>4 DEF Ids
<1>6. ASSUME NEW k \in (i + 1)..j
      PROVE  ~Begins(at, k)
  <2>1. k \in i..j /\ k - 1 \in i..j /\ k \in 1..Len(rows) /\ k - 1 \in q..j /\ k \in q..j /\ k > 1
        /\ k - 1 < k /\ k - 1 \in 0..Len(rows)
    BY <1>0, <1>2, <1>3 DEF Ids
  <2>2. k \in DuesRows /\ k - 1 \in DuesRows /\ SamePayer(k, k - 1)
    BY <1>4, <2>1 DEF SamePayer
  <2>3. rows[k].payment = rows[k - 1].payment
    BY <1>2, <2>1
  <2>4. pause[k] < 2 /\ pause[k] \in 0..2
    BY <2>1, <2>2, <2>3 DEF Pauses
  <2>5. pause \in Seq(Int) /\ Len(pause) = Len(rows)
    <3>1. pause \in [1..Len(rows) -> Int]
      BY DEF Pauses
    <3> QED
      BY <1>0, <3>1, IsASeq
  <2>6. at[k] = at[k - 1] + pause[k]
    BY <2>1, <2>5, RunningStep
  <2>7. at[k - 1] \in Int
    BY <2>1, <2>5, RunningInt
  <2> HIDE DEF at
  <2>8. ~(at[k] - at[k - 1] > 1)
    BY <2>4, <2>6, <2>7
  <2> QED
    BY <2>1, <2>2, <2>8 DEF Begins, DuesPaymentChainGap
<1> HIDE DEF at
<1>7. Begun(at, i) = Begun(at, j)
  <2>1. ASSUME NEW k \in DuesRows
        PROVE  k <= i /\ SamePayer(i, k) /\ Begins(at, k)
                 <=> k <= j /\ SamePayer(j, k) /\ Begins(at, k)
    <3>1. SamePayer(i, k) <=> SamePayer(j, k)
      BY <1>5 DEF SamePayer
    <3>2. k \in Int /\ i \in Int /\ j \in Int
      BY DEF DuesRows
    <3>3. k <= j /\ ~(k <= i) => k \in (i + 1)..j
      BY <3>2
    <3> QED
      BY <1>6, <3>1, <3>2, <3>3
  <2> QED
    BY <2>1 DEF Begun
<1> QED
  BY <1>7 DEF UpgradedPayment, at

\* A backup of any book can be put back, and gives back every row and every
\* balance, whatever order it lists the rows in; one of format 2 gives back every
\* dues payment whole, however the clock ran.
THEOREM BackupsBringItBack == Spec => []BackupBringsItBack
<1>1. TypeOK /\ AllSquared /\ Belonging /\ Paid /\ PaidOnce /\ Keepable => BackupBringsItBack
  <2> SUFFICES ASSUME TypeOK, AllSquared, AllBelong(rows), Placed, Together, PaidOnce, Keepable
               PROVE  BackupBringsItBack
    BY DEF Belonging, Paid
  <2>1. \A file \in Orders(1..Len(rows)) : Restorable(file, ClaimedTotals)
    BY AnyOrderRestores DEF Ids
  <2>2. \A pause \in Pauses : \A i, j \in DuesRows :
          i < j /\ rows[i].payment = rows[j].payment =>
            UpgradedPayment(Running(pause), i) = UpgradedPayment(Running(pause), j)
    BY UpgradesWhole
  <2> QED
    BY <2>1, <2>2 DEF BackupBringsItBack
<1> QED
  BY <1>1, TypeCorrect, AlwaysSquared, AlwaysBelong, AlwaysPaid, AlwaysPaidOnce, AlwaysKeepable, PTL
=============================================================================
