------------------------------- MODULE Report -------------------------------
(***************************************************************************)
(* internal/ledger/report.go: the report every member can open.  It is     *)
(* read, never stored: a period and the filters select rows of the book,   *)
(* each row lands on one line of the walk, a row's corrections fold into   *)
(* one move, a dues payment's months into one entry, and the banner says   *)
(* what the last count found.                                              *)
(*                                                                         *)
(* A month is a period like any other.  Left out: the member and direction *)
(* filters (they have no walk), the envelopes' cards, the dues table (see  *)
(* Dues), names and notes.                                                 *)
(***************************************************************************)
EXTENDS Ledger

\* A filter names at most one location and at most one purpose.
Optional(S) == {{}} \cup {{x} : x \in S}
Filter == [account : Optional(Account), purpose : Optional(Purpose)]
Everything == [account |-> {}, purpose |-> {}]

Passes(filter, row) ==
  /\ filter.account # {} => row.account \in filter.account
  /\ filter.purpose # {} => row.purpose \in filter.purpose

\* A period reaching today is running: it ends today and reads no upper bound.
Period == {p \in [from : 0..Today, to : 0..Today, running : BOOLEAN] :
             p.from <= p.to /\ p.running = (p.to = Today)}

\* The rows dated by the period's end, before it began, and within it.
Upto(period) ==
  {i \in 1..Len(rows) : period.running \/ rows[i].occurredOn <= period.to}
Earlier(period) == {i \in 1..Len(rows) : rows[i].occurredOn < period.from}
Within(period) == Upto(period) \ Earlier(period)

-----------------------------------------------------------------------------
(* The walk: start + openings + in - out + adjustments + moved = end.       *)

LineOf(row) ==
  CASE row.kind = "opening" -> "opening"
    [] row.kind = "adjustment" /\ row.reverses = NoRow -> "adjustment"
    [] row.kind = "adjustment" /\ row.reverses # NoRow -> Opposite(row.direction)
    [] OTHER -> row.direction

EntriesOf(filter, period) ==
  {i \in Within(period) : rows[i].kind # "transfer" /\ Passes(filter, rows[i])}

\* The raw legs on the Moved line: a transfer between locations only when a
\* location is walked, a change of purpose under either filter.
\* Mutant: the legs between locations are never read.
MovedByPurpose(filter, period) ==
  {i \in Within(period) :
     /\ rows[i].kind = "transfer" /\ Passes(filter, rows[i])
     /\ rows[i].movement # "between_accounts" /\ filter # Everything}
MovedLegs(filter, period) ==
  {i \in Within(period) :
     /\ rows[i].kind = "transfer" /\ Passes(filter, rows[i])
     /\ IF rows[i].movement = "between_accounts" THEN filter.account # {}
        ELSE filter # Everything}

\* Out is a magnitude: spending adds to it and the reversal of spending takes
\* its amount back off.
OutLine(ids) ==
  LET magnitude(i) == IF rows[i].reverses = NoRow THEN rows[i].amount
                      ELSE -rows[i].amount
  IN  Total([i \in 1..Len(rows) |-> IF i \in ids THEN magnitude(i) ELSE 0])

Walk(filter, period) ==
  LET entries == EntriesOf(filter, period)
      on(line) == {i \in entries : LineOf(rows[i]) = line}
  IN  [openings |-> Net(rows, on("opening")), in |-> Net(rows, on("in")),
       out |-> OutLine(on("out")), adjustments |-> Net(rows, on("adjustment")),
       moved |-> Net(rows, MovedLegs(filter, period))]

\* The ends are sums of the ledger, never computed from the lines.
WalkEnd(filter, ids) == Net(rows, {i \in ids : Passes(filter, rows[i])})
WalkEnds(filter, period) ==
  [start |-> WalkEnd(filter, Earlier(period)), end |-> WalkEnd(filter, Upto(period))]

-----------------------------------------------------------------------------
(* What is listed.                                                          *)

\* The purposes that the corrections of row i entered n times more than left.
Entered(i, n) ==
  LET legs == CorrectionLegs(rows, i)
      times(p, direction) ==
        Cardinality({j \in legs : rows[j].purpose = p /\ rows[j].direction = direction})
  IN  {p \in {rows[j].purpose : j \in legs} : times(p, "in") - times(p, "out") = n}

\* The corrections of row i folded into one move, from where its money was to
\* where it is: the two ends of a path, swapped for an outgoing row.  Corrections
\* that form no path are an error, and the whole report fails.
\* Mutant: the ends are not swapped.
FoldUnswapped(i) ==
  [path |-> TRUE, from |-> Entered(i, -1), to |-> Entered(i, 1)]
FoldCorrections(i) ==
  LET left == Entered(i, -1)
      entered == Entered(i, 1)
      outgoing == rows[i].direction = "out"
  IN  [path |-> /\ {rows[j].purpose : j \in CorrectionLegs(rows, i)}
                      \subseteq left \cup entered \cup Entered(i, 0)
                /\ Cardinality(left) = Cardinality(entered) /\ Cardinality(left) <= 1,
       from |-> IF outgoing THEN entered ELSE left,
       to |-> IF outgoing THEN left ELSE entered]

\* The key a dues row is listed under: its payment, or the payment its original
\* belongs to and its own date.  Every other row stands alone.
DuesGroupKey(i) ==
  LET row == rows[i]
  IN  CASE row.kind = "dues" -> <<"payment", row.payment, NoRow>>
        [] row.reverses # NoRow /\ rows[row.reverses].payment # NoRow ->
             <<"reversal", rows[row.reverses].payment, row.occurredOn>>
        [] OTHER -> <<"row", i, NoRow>>

\* One listed entry for each group: its amount, and how much of it is undone.
Listed(filter, period) ==
  LET shown == EntriesOf(filter, period)
      group(k) == {i \in shown : DuesGroupKey(i) = k}
      undone(g) == {i \in g : Reversed(rows, i)}
  IN  {[key |-> k, signed |-> Net(rows, group(k)),
        reversed |-> undone(group(k)) = group(k),
        partly |-> undone(group(k)) \notin {{}, group(k)}] :
         k \in {DuesGroupKey(i) : i \in shown}}

-----------------------------------------------------------------------------
(* The banner: the last count by the period's end, the money still unexplained *)
(* at each location by then, and whether anything was posted since.         *)

Taken(period) ==
  {c \in 1..Len(counts) : period.running \/ DayAt(counts[c].at, zone) <= period.to}

\* What is left of a line's gap once its fix is taken off.
\* Mutant: a posted fix closes the whole gap.
RemainderIfOpen(line) ==
  IF line.resolution = "left_open" THEN line.actual - line.recorded ELSE 0
Remainder(line) ==
  CASE line.resolution = "matched" -> 0
    [] line.resolution = "left_open" -> line.actual - line.recorded
    [] OTHER -> line.actual - line.recorded - Signed(rows[line.fix])

\* The locations whose last counted line by then still has a remainder.
OpenLines(period) ==
  LET last(a) == {c \in Taken(period) : /\ a \in DOMAIN counts[c].lines
                    /\ \A d \in Taken(period) : a \in DOMAIN counts[d].lines => d <= c}
  IN  {x \in [account : Account, count : Taken(period)] :
         /\ x.count \in last(x.account)
         /\ Remainder(counts[x.count].lines[x.account]) # 0}

Latest(period) == CHOOSE c \in Taken(period) : \A d \in Taken(period) : d <= c

\* Rows after the count's cutoff that are not its own fixes.
NewEntries(period) ==
  LET c == counts[Latest(period)]
  IN  {i \in Upto(period) : i > c.cutoff /\ \A a \in DOMAIN c.lines : c.lines[a].fix # i}

Matched(period) == OpenLines(period) = {}

-----------------------------------------------------------------------------
(* What a reader of the report may rely on.                                 *)

\* The walk foots (ADR-038): for the whole fund, one pos, one location or both,
\* and for every period, the lines account for the whole change of a balance
\* that is summed separately.
WalkFoots ==
  \A filter \in Filter : \A period \in Period :
    LET walk == Walk(filter, period)
        ends == WalkEnds(filter, period)
    IN  ends.start + walk.openings + walk.in - walk.out + walk.adjustments
          + walk.moved = ends.end

\* The one move a corrected row is listed with says where its money went: from
\* the purpose it was posted to, to the one it is under now, whichever way the
\* money went; none when it is back; and the report never fails on a path.
MoveSaysWhereItWent ==
  \A i \in 1..Len(rows) : CorrectionLegs(rows, i) # {} =>
    LET fold == FoldCorrections(i)
        now == EffectivePurpose(rows, i)
    IN  /\ fold.path
        /\ IF now = rows[i].purpose THEN fold.from = {} /\ fold.to = {}
           ELSE fold.from = {rows[i].purpose} /\ fold.to = {now}

\* A dues payment reads as one entry, and so does its reversal (ADR-048), of the
\* same amount: never half undone, whatever was counted between the two.
PaymentReadsAsOne ==
  \A i \in 1..Len(rows) : rows[i].payment # NoRow =>
    LET listed == Listed(Everything, [from |-> 0, to |-> Today, running |-> TRUE])
        of(word) == {x \in listed : x.key[1] = word /\ x.key[2] = rows[i].payment}
    IN  \E p \in of("payment") :
          /\ of("payment") = {p} /\ ~p.partly
          /\ IF p.reversed THEN \E r \in of("reversal") :
                                  of("reversal") = {r} /\ r.signed = -p.signed
             ELSE of("reversal") = {}

\* "Cocok" with nothing new since means what it says: every location the last
\* count found holds, by the book as of then, what was counted there.  Asked of
\* the periods whose end does not cut off a row that the count relied on: one it
\* counted, or one of its own fixes (with the zone moved back, a count can fall
\* on a day before the one its fix is dated).
BannerIsTrue ==
  \A period \in Period :
    Taken(period) # {} /\ Matched(period) /\ NewEntries(period) = {} =>
      LET c == counts[Latest(period)]
          fixes == {c.lines[a].fix : a \in DOMAIN c.lines} \ {NoRow}
      IN  (1..c.cutoff) \cup fixes \subseteq Upto(period) =>
            \A a \in DOMAIN c.lines :
              Net(rows, Located(rows, a) \cap Upto(period)) = c.lines[a].actual
=============================================================================
