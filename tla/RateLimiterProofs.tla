-------------------------- MODULE RateLimiterProofs --------------------------
(***************************************************************************)
(* Every counter holds exactly its attempts, never more than its limit, and *)
(* lockouts climb their ladder, for any number of requests, keys and rules. *)
(***************************************************************************)
EXTENDS RateLimiter, FiniteSetTheorems, SequenceTheorems, TLAPS

-----------------------------------------------------------------------------
(* The inductive invariant.                                                 *)

Counter == [count : Nat, resetAt : Nat, lockedUntil : Nat, strikes : Nat, strikesUntil : Nat]
Flight == [source : Source \cup {Idle}, holds : SUBSET Key, since : Nat]
Holders(f, k) == {r \in Request : k \in f[r].holds}

\* A counter without a lockout has room for another attempt; one with a lockout
\* of an escalating key has its strike.
Tuned(k, c) ==
  /\ c.lockedUntil = Never => c.count < Rule[k].limit
  /\ c.lockedUntil # Never /\ Escalates(k) => c.strikes # 0
  /\ c.count <= Rule[k].limit

Counters ==
  \A k \in Key : /\ counters[k].count = Cardinality(Holders(flight, k)) + kept[k]
                 /\ Tuned(k, counters[k])

Inv ==
  /\ TypeOK
  /\ Counters
  /\ clock # Never
  /\ \A r \in Request : flight[r].source = Idle => flight[r] = NotInFlight

\* What the assumptions say of a key's rule.
LEMMA RuleOf ==
  ASSUME NEW k \in Key
  PROVE  /\ Rule[k].limit \in Nat \ {0} /\ Rule[k].window \in Nat \ {0}
         /\ Rule[k].decay \in Nat /\ Rule[k].ladder \in Seq(Nat \ {0})
BY RuleAssumption

-----------------------------------------------------------------------------
(* One counter.                                                             *)

LEMMA SweptIs ==
  ASSUME Inv, NEW k \in Key
  PROVE  /\ counters[k] \in Counter /\ Swept(k) \in Counter /\ Tuned(k, Swept(k))
         /\ clock \in Nat /\ clock # 0
         /\ Swept(k) = counters[k] \/ Swept(k) = NoCounter
<1>1. counters[k] \in Counter /\ Tuned(k, counters[k]) /\ clock \in Nat /\ clock # 0
  BY DEF Inv, TypeOK, Counters, Counter, Never
<1>2. NoCounter \in Counter
  BY DEF NoCounter, Counter, Never
<1>3. Tuned(k, NoCounter)
  BY RuleOf DEF Tuned, NoCounter, Never
<1> QED
  BY <1>1, <1>2, <1>3 DEF Swept

\* A fresh sweep and the start of a window keep the counter well formed, with
\* no lockout and a window that is still open.
LEMMA StartedIs ==
  ASSUME Inv, NEW k \in Key, ~Locked(k)
  PROVE  /\ Started(k) \in Counter /\ Started(k).lockedUntil = Never
         /\ Started(k).count < Rule[k].limit /\ clock < Started(k).resetAt
         /\ Restarts(k) => Started(k).count = 0
         /\ ~Restarts(k) => Started(k) = counters[k] /\ Swept(k) = counters[k]
<1>1. /\ Swept(k) \in Counter /\ Tuned(k, Swept(k)) /\ clock \in Nat /\ clock # 0
      /\ Swept(k) = counters[k] \/ Swept(k) = NoCounter
  BY SweptIs
<1>2. CASE Restarts(k)
  <2>1. clock + Rule[k].window \in Nat /\ clock < clock + Rule[k].window
        /\ 0 < Rule[k].limit
    BY <1>1, RuleOf
  <2> QED
    BY <1>1, <1>2, <2>1 DEF Started, Counter, Never
<1>3. CASE ~Restarts(k)
  <2>1. Swept(k) # NoCounter
    BY <1>1, <1>3 DEF Restarts, NoCounter, Never
  <2>2. Started(k) = Swept(k) /\ Swept(k) = counters[k]
    BY <1>1, <1>3, <2>1 DEF Started
  <2> QED
    BY <1>1, <1>3, <2>2 DEF Restarts, Tuned, Counter
<1> QED
  BY <1>2, <1>3

LEMMA CountedIs ==
  ASSUME Inv, NEW k \in Key, ~Locked(k)
  PROVE  /\ Counted(k) \in Counter /\ Tuned(k, Counted(k))
         /\ Counted(k).count = Started(k).count + 1
         /\ Counted(k).lockedUntil # Never => Counted(k).lockedUntil - clock \in Nat
<1> DEFINE c == [Started(k) EXCEPT !.count = @ + 1]
           length == LockLength(k, c)
           ends == clock + length
<1>1. /\ Started(k) \in Counter /\ Started(k).lockedUntil = Never
      /\ Started(k).count < Rule[k].limit /\ clock < Started(k).resetAt
      /\ clock \in Nat /\ clock # 0
  BY StartedIs, SweptIs
<1>2. /\ c \in Counter /\ c.count = Started(k).count + 1 /\ c.lockedUntil = Never
      /\ c.resetAt = Started(k).resetAt /\ c.strikes = Started(k).strikes
      /\ c.count <= Rule[k].limit
  BY <1>1, RuleOf DEF Counter
<1> HIDE DEF c
<1>3. length \in Nat
  <2>1. CASE ~Escalates(k)
    BY <1>1, <1>2, <2>1 DEF LockLength, Counter
  <2>2. CASE Escalates(k)
    <3>1. Rule[k].ladder \in Seq(Nat \ {0}) /\ Len(Rule[k].ladder) \in Nat
      BY RuleOf, LenProperties
    <3>2. Len(Rule[k].ladder) # 0
      BY <2>2, <3>1, EmptySeq DEF Escalates
    <3>3. (IF c.strikes < Len(Rule[k].ladder) THEN c.strikes + 1 ELSE Len(Rule[k].ladder))
            \in 1..Len(Rule[k].ladder)
      BY <1>2, <3>1, <3>2 DEF Counter
    <3> QED
      BY <2>2, <3>1, <3>3, ElementOfSeq DEF LockLength
  <2> QED
    BY <2>1, <2>2
<1> HIDE DEF length
<1>4. ends \in Nat /\ ends # 0 /\ ends + Rule[k].decay \in Nat /\ ends - clock \in Nat
  BY <1>1, <1>3, RuleOf
<1>5. Counted(k) = IF c.count < Rule[k].limit THEN c
                   ELSE IF ~Escalates(k) THEN [c EXCEPT !.lockedUntil = ends]
                   ELSE [c EXCEPT !.lockedUntil = ends, !.strikes = @ + 1,
                                  !.strikesUntil = ends + Rule[k].decay]
  BY DEF Counted, c, length
<1> HIDE DEF ends
<1>6. CASE c.count < Rule[k].limit
  BY <1>2, <1>5, <1>6 DEF Tuned
<1>7. CASE ~(c.count < Rule[k].limit) /\ ~Escalates(k)
  BY <1>2, <1>4, <1>5, <1>7 DEF Tuned, Counter, Never
<1>8. CASE ~(c.count < Rule[k].limit) /\ Escalates(k)
  <2> DEFINE d == [c EXCEPT !.lockedUntil = ends, !.strikes = @ + 1,
                            !.strikesUntil = ends + Rule[k].decay]
  <2>1. d \in Counter /\ d.lockedUntil = ends /\ d.count = c.count /\ d.strikes # 0
    <3>1. c.strikes \in Nat /\ c.strikes + 1 \in Nat /\ c.strikes + 1 # 0
      BY <1>2 DEF Counter
    <3> QED
      BY <1>2, <1>4, <3>1 DEF Counter
  <2>2. Counted(k) = d
    BY <1>5, <1>8
  <2> HIDE DEF d
  <2> QED
    BY <1>2, <1>4, <2>1, <2>2 DEF Tuned, Never
<1> QED
  BY <1>6, <1>7, <1>8

\* Taking an attempt back, with the lockout it caused.
LEMMA UncountedIs ==
  ASSUME Inv, NEW k \in Key, counters[k].count # 0
  PROVE  /\ Uncounted(k) \in Counter /\ Tuned(k, Uncounted(k))
         /\ Uncounted(k).count = counters[k].count - 1
<1> DEFINE c == counters[k]
           strikes == IF Undoes(k) /\ Escalates(k) THEN c.strikes - 1 ELSE c.strikes
           until == IF Undoes(k) THEN Never ELSE c.lockedUntil
           back == [c EXCEPT !.count = @ - 1, !.lockedUntil = until, !.strikes = strikes,
                             !.strikesUntil = IF strikes = 0 THEN Never ELSE @]
<1>1. /\ c \in Counter /\ Tuned(k, c) /\ clock \in Nat /\ c.count - 1 \in Nat
      /\ Rule[k].limit \in Nat
  BY SweptIs, RuleOf DEF Inv, Counters, Counter
<1>2. Undoes(k) => c.lockedUntil # Never
  BY <1>1 DEF Undoes, Locked, Never, Counter
<1>3. strikes \in Nat /\ until \in Nat
  BY <1>1, <1>2 DEF Tuned, Counter, Never
<1>4. /\ until # Never => until = c.lockedUntil /\ ~Undoes(k)
      /\ until # Never => strikes = c.strikes
  OBVIOUS
<1>5. Uncounted(k) = IF back.count = 0 /\ back.strikes = 0 THEN NoCounter ELSE back
  BY DEF Uncounted
<1> HIDE DEF strikes, until
<1>6. /\ back \in Counter /\ back.count = c.count - 1 /\ back.lockedUntil = until
      /\ back.strikes = strikes
  BY <1>1, <1>3 DEF Counter, Never
<1> HIDE DEF back
<1>7. Tuned(k, back)
  BY <1>1, <1>4, <1>6 DEF Tuned, Counter
<1>8. NoCounter \in Counter /\ Tuned(k, NoCounter) /\ NoCounter.count = 0
  BY RuleOf DEF NoCounter, Counter, Tuned, Never
<1> QED
  BY <1>5, <1>6, <1>7, <1>8

-----------------------------------------------------------------------------
(* Those that hold a key.                                                   *)

LEMMA HoldersAreFinite ==
  ASSUME NEW f, NEW k
  PROVE  IsFiniteSet(Holders(f, k)) /\ Cardinality(Holders(f, k)) \in Nat
BY RequestsAreFinite, FS_Subset, FS_CardinalityType DEF Holders

\* One request more, or one less.
LEMMA OneHolds ==
  ASSUME NEW f, NEW g, NEW k, NEW r \in Request,
         Holders(g, k) = Holders(f, k) \cup {r}, r \notin Holders(f, k)
  PROVE  Cardinality(Holders(g, k)) = Cardinality(Holders(f, k)) + 1
BY HoldersAreFinite, FS_AddElement

LEMMA OneLetsGo ==
  ASSUME NEW f, NEW g, NEW k, NEW r \in Request,
         Holders(g, k) = Holders(f, k) \ {r}, r \in Holders(f, k)
  PROVE  /\ Cardinality(Holders(g, k)) = Cardinality(Holders(f, k)) - 1
         /\ Cardinality(Holders(f, k)) # 0
<1>1. Cardinality(Holders(f, k) \ {r}) = Cardinality(Holders(f, k)) - 1
  BY HoldersAreFinite, FS_RemoveElement
<1>2. Cardinality(Holders(f, k)) # 0
  BY HoldersAreFinite, FS_EmptySet
<1> QED
  BY <1>1, <1>2

LEMMA NobodyHolds ==
  ASSUME NEW f, NEW k, Holders(f, k) = {}
  PROVE  Cardinality(Holders(f, k)) = 0
BY FS_EmptySet

-----------------------------------------------------------------------------
(* The methods of the limiter.                                              *)

\* What the invariant says of the requests.
LEMMA Known ==
  ASSUME Inv
  PROVE  /\ counters \in [Key -> Counter] /\ flight \in [Request -> Flight]
         /\ kept \in [Key -> Nat] /\ clock \in Nat /\ clock # Never
         /\ lockouts \in [Key -> Seq([length : Nat, ends : Nat])]
         /\ \A r \in Request : /\ flight[r].holds \subseteq Key
                               /\ flight[r].source \in Source \/ flight[r] = NotInFlight
         /\ NotInFlight \in Flight /\ NotInFlight.holds = {} /\ NotInFlight.source = Idle
BY DEF Inv, TypeOK, Counter, Flight, NotInFlight, Never

\* Reservations given up leave a request well formed.
Less(q, gone) == [flight[q] EXCEPT !.holds = StillHolds(@, gone)]

LEMMA GivenUp ==
  ASSUME Inv, NEW q \in Request, NEW gone
  PROVE  /\ Less(q, gone) \in Flight /\ Less(q, gone).holds = flight[q].holds \ gone
         /\ Less(q, gone).source = Idle => Less(q, gone) = NotInFlight
<1> DEFINE y == Less(q, gone)
<1>1. flight[q] \in Flight /\ y = [flight[q] EXCEPT !.holds = @ \ gone]
  BY Known DEF StillHolds, Less
<1> HIDE DEF y
<1>2. y \in Flight /\ y.holds = flight[q].holds \ gone /\ y.source = flight[q].source
  BY <1>1 DEF Flight
<1>3. ASSUME flight[q].source = Idle
      PROVE  y = NotInFlight
  <2>1. flight[q] = NotInFlight /\ NotInFlight.holds \ gone = {}
    BY <1>3, Known DEF Inv
  <2>2. y = [NotInFlight EXCEPT !.holds = {}]
    BY <1>1, <2>1
  <2> QED
    BY <2>2 DEF NotInFlight
<1> QED
  BY <1>2, <1>3 DEF y

LEMMA FlightAfter ==
  ASSUME Inv, NEW r \in Request, NEW x \in Flight, x.source = Idle => x = NotInFlight,
         NEW gone,
         flight' = [q \in Request |-> IF q = r THEN x
                                      ELSE [flight[q] EXCEPT !.holds = StillHolds(@, gone)]]
  PROVE  /\ flight' \in [Request -> Flight] /\ flight'[r] = x
         /\ \A q \in Request : q # r => flight'[q].holds = flight[q].holds \ gone
         /\ \A q \in Request : flight'[q].source = Idle => flight'[q] = NotInFlight
<1>1. ASSUME NEW q \in Request, q # r
      PROVE  /\ flight'[q] \in Flight /\ flight'[q].holds = flight[q].holds \ gone
             /\ flight'[q].source = Idle => flight'[q] = NotInFlight
  <2>1. flight'[q] = Less(q, gone)
    BY <1>1 DEF Less
  <2> QED
    BY <2>1, GivenUp
<1> QED
  BY <1>1

\* A key that nobody took or gave up.
LEMMA HoldersStand ==
  ASSUME NEW f, NEW g, NEW k,
         \A q \in Request : k \in g[q].holds <=> k \in f[q].holds
  PROVE  Holders(g, k) = Holders(f, k)
BY DEF Holders

LEMMA ReserveKeeps ==
  ASSUME Inv, NEW r \in Request, NEW s \in Source, Reserve(r, s)
  PROVE  Inv'
<1> DEFINE replaced == {k \in Key : Swept(k) # counters[k]} \cup {k \in KeysOf[s] : Restarts(k)}
           x == [source |-> s, holds |-> KeysOf[s], since |-> clock]
<1>1. /\ flight[r] = NotInFlight
      /\ \A k \in KeysOf[s] : ~Locked(k)
      /\ counters' = [k \in Key |-> IF k \in KeysOf[s] THEN Counted(k) ELSE Swept(k)]
      /\ flight' = [q \in Request |->
           IF q = r THEN x ELSE [flight[q] EXCEPT !.holds = StillHolds(@, replaced)]]
      /\ kept' = [k \in Key |-> IF k \in replaced THEN 0 ELSE kept[k]]
      /\ clock' = clock
  BY DEF Reserve, Admitted
<1>2. KeysOf[s] \subseteq Key /\ s # Idle
  BY SourcesAssumption
<1>3. x \in Flight /\ x.source # Idle /\ x.holds = KeysOf[s]
  BY <1>2, Known DEF Flight
<1>9. /\ replaced \subseteq Key
      /\ \A k \in Key : k \in replaced <=>
           Swept(k) # counters[k] \/ (k \in KeysOf[s] /\ Restarts(k))
  BY <1>2
<1> HIDE DEF x, replaced
<1>4. /\ flight' \in [Request -> Flight] /\ flight'[r].holds = KeysOf[s]
      /\ \A q \in Request : q # r => flight'[q].holds = flight[q].holds \ replaced
      /\ \A q \in Request : flight'[q].source = Idle => flight'[q] = NotInFlight
  <2>1. x.source = Idle => x = NotInFlight
    BY <1>3
  <2>2. flight' = [q \in Request |->
          IF q = r THEN x ELSE [flight[q] EXCEPT !.holds = StillHolds(@, replaced)]]
    BY <1>1
  <2>3. /\ flight' \in [Request -> Flight] /\ flight'[r] = x
        /\ \A q \in Request : q # r => flight'[q].holds = flight[q].holds \ replaced
        /\ \A q \in Request : flight'[q].source = Idle => flight'[q] = NotInFlight
    BY <1>3, <2>1, <2>2, FlightAfter
  <2> QED
    BY <1>3, <2>3
<1>5. ASSUME NEW k \in Key
      PROVE  /\ counters'[k] \in Counter /\ Tuned(k, counters'[k])
             /\ counters'[k].count = Cardinality(Holders(flight', k)) + kept'[k]
  <2>1. counters[k].count = Cardinality(Holders(flight, k)) + kept[k]
        /\ kept[k] \in Nat /\ Cardinality(Holders(flight, k)) \in Nat
    BY Known, HoldersAreFinite DEF Inv, Counters
  <2>2. CASE k \in KeysOf[s]
    <3>1. /\ counters'[k] = Counted(k) /\ Counted(k) \in Counter /\ Tuned(k, Counted(k))
          /\ Counted(k).count = Started(k).count + 1
      BY <1>1, <2>2, CountedIs
    <3>2. CASE Restarts(k)
      <4>1. k \in replaced /\ kept'[k] = 0 /\ Started(k).count = 0
        BY <1>1, <1>9, <2>2, <3>2, StartedIs
      <4>2. Holders(flight', k) = {r}
        BY <1>4, <2>2, <4>1 DEF Holders
      <4>3. Cardinality(Holders(flight', k)) = 1
        BY <4>2, FS_Singleton
      <4> QED
        BY <3>1, <4>1, <4>3
    <3>3. CASE ~Restarts(k)
      <4>1. Started(k) = counters[k] /\ k \notin replaced /\ kept'[k] = kept[k]
        BY <1>1, <1>9, <2>2, <3>3, StartedIs
      <4>2. \A q \in Request : q # r => (k \in flight'[q].holds <=> k \in flight[q].holds)
        BY <1>4, <4>1
      <4>3. k \in flight'[r].holds /\ k \notin flight[r].holds
        BY <1>1, <1>4, <2>2, Known
      <4>4. Holders(flight', k) = Holders(flight, k) \cup {r} /\ r \notin Holders(flight, k)
        BY <4>2, <4>3 DEF Holders
      <4>5. Cardinality(Holders(flight', k)) = Cardinality(Holders(flight, k)) + 1
        BY <4>4, OneHolds
      <4> QED
        BY <2>1, <3>1, <4>1, <4>5
    <3> QED
      BY <3>2, <3>3
  <2>3. CASE k \notin KeysOf[s]
    <3>1. /\ counters'[k] = Swept(k) /\ Swept(k) \in Counter /\ Tuned(k, Swept(k))
          /\ Swept(k) = counters[k] \/ Swept(k) = NoCounter
      BY <1>1, <2>3, SweptIs
    <3>2. CASE Swept(k) = counters[k]
      <4>1. k \notin replaced /\ kept'[k] = kept[k]
        BY <1>1, <1>9, <2>3, <3>2
      <4>3. \A q \in Request : q # r => (k \in flight'[q].holds <=> k \in flight[q].holds)
        BY <1>4, <4>1
      <4>4. k \notin flight'[r].holds /\ k \notin flight[r].holds
        BY <1>1, <1>4, <2>3, Known
      <4>2. Holders(flight', k) = Holders(flight, k)
        BY <4>3, <4>4 DEF Holders
      <4> QED
        BY <2>1, <3>1, <3>2, <4>1, <4>2
    <3>3. CASE Swept(k) # counters[k]
      <4>1. k \in replaced /\ kept'[k] = 0 /\ counters'[k].count = 0
        BY <1>1, <1>9, <3>1, <3>3 DEF NoCounter
      <4>2. Holders(flight', k) = {}
        BY <1>4, <2>3, <4>1 DEF Holders
      <4> QED
        BY <3>1, <4>1, <4>2, NobodyHolds
    <3> QED
      BY <3>2, <3>3
  <2> QED
    BY <2>2, <2>3
<1>6. kept' \in [Key -> Nat]
  BY <1>1, Known
<1>7. lockouts' \in [Key -> Seq([length : Nat, ends : Nat])]
  <2> DEFINE locks == {k \in KeysOf[s] : Counted(k).lockedUntil # Never}
             lock(k) == [length |-> Counted(k).lockedUntil - clock,
                         ends |-> Counted(k).lockedUntil]
  <2>1. lockouts' = [k \in Key |-> IF k \in locks THEN Append(lockouts[k], lock(k))
                                   ELSE lockouts[k]]
    BY DEF Reserve
  <2>2. ASSUME NEW k \in Key, k \in locks
        PROVE  Append(lockouts[k], lock(k)) \in Seq([length : Nat, ends : Nat])
    <3>1. Counted(k) \in Counter /\ Counted(k).lockedUntil - clock \in Nat
      BY <1>1, <2>2, CountedIs
    <3>2. lock(k) \in [length : Nat, ends : Nat]
      BY <3>1 DEF Counter
    <3> QED
      BY <3>2, Known, AppendProperties
  <2> HIDE DEF locks, lock
  <2> QED
    BY <2>1, <2>2, Known
<1>8. counters' \in [Key -> Counter]
  BY <1>1, <1>5
<1> QED
  BY <1>1, <1>4, <1>5, <1>6, <1>7, <1>8, Known DEF Inv, TypeOK, Counters, Counter, Flight

LEMMA RefuseKeeps ==
  ASSUME Inv, NEW s \in Source, Refuse(s)
  PROVE  Inv'
<1> DEFINE swept == {k \in Key : Swept(k) # counters[k]}
<1>1. /\ counters' = [k \in Key |-> Swept(k)]
      /\ flight' = [q \in Request |-> [flight[q] EXCEPT !.holds = StillHolds(@, swept)]]
      /\ kept' = [k \in Key |-> IF k \in swept THEN 0 ELSE kept[k]]
      /\ clock' = clock /\ lockouts' = lockouts
  BY DEF Refuse
<1>2. \A k \in Key : k \in swept <=> Swept(k) # counters[k]
  OBVIOUS
<1> HIDE DEF swept
<1>3. ASSUME NEW q \in Request
      PROVE  /\ flight'[q] \in Flight /\ flight'[q].holds = flight[q].holds \ swept
             /\ flight'[q].source = Idle => flight'[q] = NotInFlight
  <2>1. flight'[q] = Less(q, swept)
    BY <1>1 DEF Less
  <2> QED
    BY <2>1, GivenUp
<1>4. ASSUME NEW k \in Key
      PROVE  /\ counters'[k] \in Counter /\ Tuned(k, counters'[k])
             /\ counters'[k].count = Cardinality(Holders(flight', k)) + kept'[k]
  <2>1. /\ counters'[k] = Swept(k) /\ Swept(k) \in Counter /\ Tuned(k, Swept(k))
        /\ Swept(k) = counters[k] \/ Swept(k) = NoCounter
    BY <1>1, SweptIs
  <2>2. CASE Swept(k) = counters[k]
    <3>1. kept'[k] = kept[k] /\ \A q \in Request : k \in flight'[q].holds <=> k \in flight[q].holds
      BY <1>1, <1>2, <1>3, <2>2
    <3>2. Holders(flight', k) = Holders(flight, k)
      BY <3>1, HoldersStand
    <3> QED
      BY <2>1, <2>2, <3>1, <3>2 DEF Inv, Counters
  <2>3. CASE Swept(k) # counters[k]
    <3>1. kept'[k] = 0 /\ counters'[k].count = 0 /\ \A q \in Request : k \notin flight'[q].holds
      BY <1>1, <1>2, <1>3, <2>1, <2>3 DEF NoCounter
    <3>2. Holders(flight', k) = {}
      BY <3>1 DEF Holders
    <3>3. Cardinality(Holders(flight', k)) = 0
      BY <3>2, NobodyHolds
    <3> QED
      BY <2>1, <3>1, <3>3
  <2> QED
    BY <2>2, <2>3
<1>5. kept' \in [Key -> Nat] /\ flight' \in [Request -> Flight] /\ counters' \in [Key -> Counter]
  BY <1>1, <1>3, <1>4, Known
<1> QED
  BY <1>1, <1>3, <1>4, <1>5, Known DEF Inv, TypeOK, Counters, Counter, Flight

\* A request that leaves takes its reservation with it.
LEMMA LeavesAlone ==
  ASSUME Inv, NEW r \in Request, NEW k \in Key,
         flight'[r] = NotInFlight,
         \A q \in Request : q # r => (k \in flight'[q].holds <=> k \in flight[q].holds)
  PROVE  /\ Cardinality(Holders(flight', k)) \in Nat /\ Cardinality(Holders(flight, k)) \in Nat
         /\ Cardinality(Holders(flight', k)) = IF k \in flight[r].holds
                                               THEN Cardinality(Holders(flight, k)) - 1
                                               ELSE Cardinality(Holders(flight, k))
<1>1. k \notin flight'[r].holds
  BY Known
<1>2. CASE k \in flight[r].holds
  <2>1. Holders(flight', k) = Holders(flight, k) \ {r} /\ r \in Holders(flight, k)
    BY <1>1, <1>2 DEF Holders
  <2>2. Cardinality(Holders(flight', k)) = Cardinality(Holders(flight, k)) - 1
    BY <2>1, OneLetsGo
  <2> QED
    BY <1>2, <2>2, HoldersAreFinite
<1>3. CASE k \notin flight[r].holds
  <2>1. Holders(flight', k) = Holders(flight, k)
    BY <1>1, <1>3 DEF Holders
  <2> QED
    BY <1>3, <2>1, HoldersAreFinite
<1> QED
  BY <1>2, <1>3

LEMMA KeepKeeps ==
  ASSUME Inv, NEW r \in Request, Keep(r)
  PROVE  Inv'
<1>1. /\ flight' = [flight EXCEPT ![r] = NotInFlight]
      /\ kept' = [k \in Key |-> IF k \in flight[r].holds THEN kept[k] + 1 ELSE kept[k]]
      /\ UNCHANGED <<counters, clock, lockouts>>
  BY DEF Keep
<1>2. flight' \in [Request -> Flight] /\ flight'[r] = NotInFlight
      /\ \A q \in Request : q # r => flight'[q] = flight[q]
  BY <1>1, Known
<1>3. ASSUME NEW k \in Key
      PROVE  /\ counters'[k] \in Counter /\ Tuned(k, counters'[k]) /\ kept'[k] \in Nat
             /\ counters'[k].count = Cardinality(Holders(flight', k)) + kept'[k]
  <2>1. /\ Cardinality(Holders(flight', k)) \in Nat /\ Cardinality(Holders(flight, k)) \in Nat
        /\ Cardinality(Holders(flight', k)) = IF k \in flight[r].holds
                                              THEN Cardinality(Holders(flight, k)) - 1
                                              ELSE Cardinality(Holders(flight, k))
    BY <1>2, LeavesAlone
  <2>2. kept[k] \in Nat /\ counters'[k] = counters[k]
        /\ kept'[k] = IF k \in flight[r].holds THEN kept[k] + 1 ELSE kept[k]
    BY <1>1, Known
  <2>3. counters[k] \in Counter /\ Tuned(k, counters[k])
        /\ counters[k].count = Cardinality(Holders(flight, k)) + kept[k]
    BY Known DEF Inv, Counters
  <2> QED
    BY <2>1, <2>2, <2>3
<1>4. kept' \in [Key -> Nat]
  <2>1. ASSUME NEW k \in Key
        PROVE  (IF k \in flight[r].holds THEN kept[k] + 1 ELSE kept[k]) \in Nat
    BY Known
  <2> QED
    BY <1>1, <2>1
<1>5. \A q \in Request : flight'[q].source = Idle => flight'[q] = NotInFlight
  BY <1>2 DEF Inv
<1> QED
  BY <1>1, <1>2, <1>3, <1>4, <1>5, Known DEF Inv, TypeOK, Counters, Counter, Flight

LEMMA ReleaseKeeps ==
  ASSUME Inv, NEW r \in Request, Release(r)
  PROVE  Inv'
<1>1. /\ counters' = [k \in Key |-> IF k \in flight[r].holds THEN Uncounted(k) ELSE counters[k]]
      /\ flight' = [flight EXCEPT ![r] = NotInFlight]
      /\ UNCHANGED <<clock, kept>>
  BY DEF Release
<1>2. flight' \in [Request -> Flight] /\ flight'[r] = NotInFlight
      /\ \A q \in Request : q # r => flight'[q] = flight[q]
  BY <1>1, Known
<1>3. ASSUME NEW k \in Key
      PROVE  /\ counters'[k] \in Counter /\ Tuned(k, counters'[k])
             /\ counters'[k].count = Cardinality(Holders(flight', k)) + kept'[k]
  <2>1. /\ Cardinality(Holders(flight', k)) \in Nat /\ Cardinality(Holders(flight, k)) \in Nat
        /\ Cardinality(Holders(flight', k)) = IF k \in flight[r].holds
                                              THEN Cardinality(Holders(flight, k)) - 1
                                              ELSE Cardinality(Holders(flight, k))
    BY <1>2, LeavesAlone
  <2>2. kept[k] \in Nat /\ kept'[k] = kept[k]
    BY <1>1, Known
  <2>3. counters[k] \in Counter /\ Tuned(k, counters[k])
        /\ counters[k].count = Cardinality(Holders(flight, k)) + kept[k]
    BY Known DEF Inv, Counters
  <2>4. CASE k \in flight[r].holds
    <3>1. counters[k].count # 0
      BY <2>1, <2>2, <2>3, <2>4
    <3>2. /\ Uncounted(k) \in Counter /\ Tuned(k, Uncounted(k))
          /\ Uncounted(k).count = counters[k].count - 1
      BY <3>1, UncountedIs
    <3>3. counters'[k] = Uncounted(k)
      BY <1>1, <2>4
    <3> QED
      BY <2>1, <2>2, <2>3, <2>4, <3>2, <3>3
  <2>5. CASE k \notin flight[r].holds
    <3>1. counters'[k] = counters[k]
      BY <1>1, <2>5
    <3> QED
      BY <2>1, <2>2, <2>3, <2>5, <3>1
  <2> QED
    BY <2>4, <2>5
<1>4. counters' \in [Key -> Counter]
  BY <1>1, <1>3
<1>5. \A q \in Request : flight'[q].source = Idle => flight'[q] = NotInFlight
  BY <1>2 DEF Inv
<1>6. lockouts' \in [Key -> Seq([length : Nat, ends : Nat])]
  <2>1. ASSUME NEW k \in Key
        PROVE  SubSeq(lockouts[k], 1, Len(lockouts[k]) - 1) \in Seq([length : Nat, ends : Nat])
    <3>1. lockouts[k] \in Seq([length : Nat, ends : Nat]) /\ Len(lockouts[k]) \in Nat
      BY Known, LenProperties
    <3>2. Len(lockouts[k]) - 1 \in Int
          /\ \A i \in 1..(Len(lockouts[k]) - 1) : lockouts[k][i] \in [length : Nat, ends : Nat]
      <4>1. ASSUME NEW i \in 1..(Len(lockouts[k]) - 1)
            PROVE  lockouts[k][i] \in [length : Nat, ends : Nat]
        <5>1. i \in 1..Len(lockouts[k])
          BY <3>1
        <5> QED
          BY <3>1, <5>1, ElementOfSeq
      <4>2. Len(lockouts[k]) - 1 \in Int
        BY <3>1
      <4> QED
        BY <4>1, <4>2
    <3> QED
      BY <3>2, SubSeqProperties
  <2> QED
    BY <2>1, Known DEF Release
<1> QED
  BY <1>1, <1>2, <1>3, <1>4, <1>5, <1>6, Known DEF Inv, TypeOK, Counters, Counter, Flight

LEMMA SucceedKeeps ==
  ASSUME Inv, NEW r \in Request, Succeed(r)
  PROVE  Inv'
<1> DEFINE wiped == Forgives[flight[r].source]
<1>1. /\ flight[r] # NotInFlight
      /\ counters' = [k \in Key |-> IF k \in wiped THEN NoCounter ELSE counters[k]]
      /\ flight' = [q \in Request |->
           IF q = r THEN NotInFlight ELSE [flight[q] EXCEPT !.holds = StillHolds(@, wiped)]]
      /\ kept' = [k \in Key |-> IF k \in wiped THEN 0
                                ELSE IF k \in flight[r].holds THEN kept[k] + 1 ELSE kept[k]]
      /\ lockouts' = [k \in Key |-> IF k \in wiped THEN << >> ELSE lockouts[k]]
      /\ clock' = clock
  BY DEF Succeed, Wiped
<1> HIDE DEF wiped
<1>2. /\ flight' \in [Request -> Flight] /\ flight'[r] = NotInFlight
      /\ \A q \in Request : q # r => flight'[q].holds = flight[q].holds \ wiped
      /\ \A q \in Request : flight'[q].source = Idle => flight'[q] = NotInFlight
  <2>1. NotInFlight \in Flight /\ (NotInFlight.source = Idle => NotInFlight = NotInFlight)
    BY Known
  <2>2. flight' = [q \in Request |->
          IF q = r THEN NotInFlight ELSE [flight[q] EXCEPT !.holds = StillHolds(@, wiped)]]
    BY <1>1
  <2> QED
    BY <2>1, <2>2, FlightAfter
<1>3. ASSUME NEW k \in Key
      PROVE  /\ counters'[k] \in Counter /\ Tuned(k, counters'[k]) /\ kept'[k] \in Nat
             /\ counters'[k].count = Cardinality(Holders(flight', k)) + kept'[k]
  <2>1. CASE k \in wiped
    <3>1. counters'[k] = NoCounter /\ kept'[k] = 0
      BY <1>1, <2>1
    <3>2. \A q \in Request : k \notin flight'[q].holds
      BY <1>2, <2>1, Known
    <3>3. Holders(flight', k) = {}
      BY <3>2 DEF Holders
    <3>4. Cardinality(Holders(flight', k)) = 0
      BY <3>3, NobodyHolds
    <3>5. NoCounter \in Counter /\ Tuned(k, NoCounter) /\ NoCounter.count = 0
      BY RuleOf DEF NoCounter, Counter, Tuned, Never
    <3> QED
      BY <3>1, <3>4, <3>5
  <2>2. CASE k \notin wiped
    <3>1. \A q \in Request : q # r => (k \in flight'[q].holds <=> k \in flight[q].holds)
      BY <1>2, <2>2
    <3>2. /\ Cardinality(Holders(flight', k)) \in Nat /\ Cardinality(Holders(flight, k)) \in Nat
          /\ Cardinality(Holders(flight', k)) = IF k \in flight[r].holds
                                                THEN Cardinality(Holders(flight, k)) - 1
                                                ELSE Cardinality(Holders(flight, k))
      BY <1>2, <3>1, LeavesAlone
    <3>3. kept[k] \in Nat /\ counters'[k] = counters[k]
          /\ kept'[k] = IF k \in flight[r].holds THEN kept[k] + 1 ELSE kept[k]
      BY <1>1, <2>2, Known
    <3>4. counters[k] \in Counter /\ Tuned(k, counters[k])
          /\ counters[k].count = Cardinality(Holders(flight, k)) + kept[k]
      BY Known DEF Inv, Counters
    <3> QED
      BY <3>2, <3>3, <3>4
  <2> QED
    BY <2>1, <2>2
<1>4. counters' \in [Key -> Counter]
  BY <1>1, <1>3
<1>5. kept' \in [Key -> Nat]
  <2>1. \A k \in Key : kept'[k] \in Nat
    BY <1>3
  <2> QED
    BY <1>1, <2>1
<1>6. lockouts' \in [Key -> Seq([length : Nat, ends : Nat])]
  <2>1. << >> \in Seq([length : Nat, ends : Nat])
    OBVIOUS
  <2> QED
    BY <1>1, <2>1, Known
<1> QED
  BY <1>1, <1>2, <1>3, <1>4, <1>5, <1>6, Known DEF Inv, TypeOK, Counters, Counter, Flight

LEMMA TickKeeps ==
  ASSUME Inv, Tick
  PROVE  Inv'
BY Known DEF Tick, Inv, TypeOK, Counters, Never

-----------------------------------------------------------------------------
(* The specification.                                                       *)

LEMMA InvInit ==
  ASSUME Init
  PROVE  Inv
<1>1. ASSUME NEW k \in Key
      PROVE  /\ counters[k].count = Cardinality(Holders(flight, k)) + kept[k]
             /\ Tuned(k, counters[k])
  <2>1. counters[k] = NoCounter /\ kept[k] = 0 /\ \A r \in Request : flight[r] = NotInFlight
    BY DEF Init
  <2>2. Holders(flight, k) = {}
    BY <2>1 DEF Holders, NotInFlight
  <2>3. Cardinality(Holders(flight, k)) = 0
    BY <2>2, NobodyHolds
  <2>4. NoCounter.count = 0 /\ Tuned(k, NoCounter)
    BY RuleOf DEF NoCounter, Tuned, Never
  <2> QED
    BY <2>1, <2>3, <2>4
<1>2. TypeOK
  BY DEF Init, TypeOK, NoCounter, NotInFlight, Never
<1> QED
  BY <1>1, <1>2 DEF Init, Inv, Counters, Never

LEMMA InvStep ==
  ASSUME Inv, [Next]_vars
  PROVE  Inv'
<1>1. CASE UNCHANGED vars
  BY <1>1 DEF vars, Inv, TypeOK, Counters
<1>2. ASSUME NEW r \in Request, NEW s \in Source, Reserve(r, s)
      PROVE  Inv'
  BY <1>2, ReserveKeeps
<1>3. ASSUME NEW s \in Source, Refuse(s)
      PROVE  Inv'
  BY <1>3, RefuseKeeps
<1>4. ASSUME NEW r \in Request, Keep(r) \/ Release(r) \/ Succeed(r)
      PROVE  Inv'
  BY <1>4, KeepKeeps, ReleaseKeeps, SucceedKeeps
<1> QED
  BY <1>1, <1>2, <1>3, <1>4, TickKeeps DEF Next

\* The invariant holds in every reachable state.
THEOREM InvHolds == Spec => []Inv
<1>1. Init => Inv
  BY InvInit
<1>2. Inv /\ [Next]_vars => Inv'
  BY InvStep
<1> QED
  BY <1>1, <1>2, PTL DEF Spec

\* Every variable keeps its type: no release takes a counter or a key's strikes
\* below zero.
THEOREM TypeCorrect == Spec => []TypeOK
<1>1. Inv => TypeOK
  BY DEF Inv
<1> QED
  BY <1>1, InvHolds, PTL

\* A counter holds exactly the attempts in flight on it and those it kept, never
\* more than its limit, for any number of concurrent requests.
THEOREM NoAttemptIsLost == Spec => []CountIsItsAttempts
<1>1. Inv => CountIsItsAttempts
  BY DEF Inv, Counters, Tuned, CountIsItsAttempts, Holders
<1> QED
  BY <1>1, InvHolds, PTL

-----------------------------------------------------------------------------
(* The ladder.  A counter's strikes are the rung that the last lockout took, *)
(* and each lockout before it took the rung below, as far back as the decay  *)
(* of one has not run out.                                                   *)

Lockout == [length : Nat, ends : Nat]

Rung(k, n) == LET ladder == Rule[k].ladder
              IN  ladder[IF n < Len(ladder) THEN n ELSE Len(ladder)]

\* What counter c says at an instant of the lockouts "past" of its key.
Remembers(k, c, past, instant) ==
  LET n == Len(past)
  IN  /\ c.lockedUntil # Never => n # 0 /\ past[n].ends = c.lockedUntil
      /\ \A i \in 1..n :
           /\ past[i].ends > instant => i = n /\ past[i].ends = c.lockedUntil
           /\ instant < past[i].ends + Rule[k].decay =>
                /\ past[i].ends + Rule[k].decay <= c.strikesUntil
                /\ n - i < c.strikes
                /\ past[i].length = Rung(k, c.strikes - (n - i))

\* One lockout follows another within the decay, and takes the next rung.
Follows(k, before, after) ==
  LET steps == 1..Len(Rule[k].ladder)
  IN  after.ends - after.length < before.ends + Rule[k].decay =>
        \E n \in steps :
          /\ before.length = Rule[k].ladder[n]
          /\ after.length = Rule[k].ladder[IF n + 1 \in steps THEN n + 1 ELSE n]
Climbs(k, past) == \A i \in 1..(Len(past) - 1) : Follows(k, past[i], past[i + 1])

Climbing == \A k \in Key : Escalates(k) => /\ Remembers(k, counters[k], lockouts[k], clock)
                                           /\ Climbs(k, lockouts[k])

LEMMA LockoutFields ==
  ASSUME NEW past \in Seq(Lockout), NEW i \in 1..Len(past)
  PROVE  past[i].ends \in Nat /\ past[i].length \in Nat
<1>1. past[i] \in Lockout
  BY ElementOfSeq
<1> QED
  BY <1>1 DEF Lockout

\* A counter whose lockout and strikes are over may forget them.
LEMMA NothingToRemember ==
  ASSUME NEW k \in Key, NEW c \in Counter, NEW d \in Counter, NEW past \in Seq(Lockout),
         NEW instant \in Nat, Remembers(k, c, past, instant),
         instant >= c.lockedUntil, instant >= c.strikesUntil, d.lockedUntil = Never
  PROVE  Remembers(k, d, past, instant)
<1>1. ASSUME NEW i \in 1..Len(past)
      PROVE  ~(past[i].ends > instant) /\ ~(instant < past[i].ends + Rule[k].decay)
  <2>1. past[i].ends \in Nat /\ Rule[k].decay \in Nat
    BY RuleOf, LockoutFields
  <2>2. c.lockedUntil \in Nat /\ c.strikesUntil \in Nat
    BY DEF Counter
  <2>3. past[i].ends > instant => past[i].ends = c.lockedUntil
    BY DEF Remembers
  <2>4. instant < past[i].ends + Rule[k].decay => past[i].ends + Rule[k].decay <= c.strikesUntil
    BY DEF Remembers
  <2> QED
    BY <2>1, <2>2, <2>3, <2>4
<1> QED
  BY <1>1 DEF Remembers

\* A counter with the same strikes, and the same lockout while it lasts,
\* remembers the same.
LEMMA StillRemembers ==
  ASSUME NEW k \in Key, NEW c \in Counter, NEW d \in Counter, NEW past \in Seq(Lockout),
         NEW instant \in Nat, Remembers(k, c, past, instant),
         d.strikes = c.strikes, d.strikes # 0 => d.strikesUntil = c.strikesUntil,
         \/ d.lockedUntil = c.lockedUntil
         \/ d.lockedUntil = Never /\ c.lockedUntil <= instant
  PROVE  Remembers(k, d, past, instant)
<1>1. Len(past) \in Nat /\ c.lockedUntil \in Nat /\ d.strikes \in Nat
  BY LenProperties DEF Counter
<1>2. ASSUME NEW i \in 1..Len(past)
      PROVE  /\ past[i].ends > instant => i = Len(past) /\ past[i].ends = d.lockedUntil
             /\ instant < past[i].ends + Rule[k].decay =>
                  /\ past[i].ends + Rule[k].decay <= d.strikesUntil
                  /\ Len(past) - i < d.strikes
                  /\ past[i].length = Rung(k, d.strikes - (Len(past) - i))
  <2>1. past[i].ends \in Nat
    BY LockoutFields
  <2>2. past[i].ends > instant => i = Len(past) /\ past[i].ends = c.lockedUntil
    BY DEF Remembers
  <2>3. instant < past[i].ends + Rule[k].decay =>
          /\ past[i].ends + Rule[k].decay <= c.strikesUntil
          /\ Len(past) - i < c.strikes
          /\ past[i].length = Rung(k, c.strikes - (Len(past) - i))
    BY DEF Remembers
  <2>4. Len(past) - i < d.strikes => d.strikes # 0
    BY <1>1
  <2> QED
    BY <1>1, <2>1, <2>2, <2>3, <2>4
<1>3. d.lockedUntil # Never => Len(past) # 0 /\ past[Len(past)].ends = d.lockedUntil
  BY DEF Remembers
<1> QED
  BY <1>2, <1>3 DEF Remembers

\* Time only lets lockouts be forgotten.
LEMMA RemembersLater ==
  ASSUME NEW k \in Key, NEW c \in Counter, NEW past \in Seq(Lockout),
         NEW instant \in Nat, Remembers(k, c, past, instant)
  PROVE  Remembers(k, c, past, instant + 1)
<1>1. ASSUME NEW i \in 1..Len(past)
      PROVE  /\ past[i].ends > instant + 1 => past[i].ends > instant
             /\ instant + 1 < past[i].ends + Rule[k].decay => instant < past[i].ends + Rule[k].decay
  BY RuleOf, LockoutFields
<1> QED
  BY <1>1 DEF Remembers

LEMMA LadderStep ==
  ASSUME NEW k \in Key, Escalates(k), NEW n \in Nat
  PROVE  LET ladder == Rule[k].ladder
         IN  /\ Len(ladder) \in Nat \ {0}
             /\ Rung(k, n + 1) = ladder[IF n < Len(ladder) THEN n + 1 ELSE Len(ladder)]
             /\ Rung(k, n + 1) \in Nat \ {0}
<1> DEFINE ladder == Rule[k].ladder
<1>1. ladder \in Seq(Nat \ {0}) /\ Len(ladder) \in Nat /\ Len(ladder) # 0
  <2>1. ladder \in Seq(Nat \ {0}) /\ ladder # << >>
    BY RuleOf DEF Escalates
  <2> QED
    BY <2>1, LenProperties, EmptySeq
<1> HIDE DEF ladder
<1>2. (IF n + 1 < Len(ladder) THEN n + 1 ELSE Len(ladder)) =
        (IF n < Len(ladder) THEN n + 1 ELSE Len(ladder))
  BY <1>1
<1>3. (IF n < Len(ladder) THEN n + 1 ELSE Len(ladder)) \in 1..Len(ladder)
  BY <1>1
<1>4. Rung(k, n + 1) = ladder[IF n < Len(ladder) THEN n + 1 ELSE Len(ladder)]
  BY <1>2 DEF Rung, ladder
<1>5. Rung(k, n + 1) \in Nat \ {0}
  BY <1>1, <1>3, <1>4, ElementOfSeq
<1> QED
  BY <1>1, <1>4, <1>5 DEF ladder

\* A lockout takes the rung above the strikes, whatever is still remembered.
LEMMA LockoutClimbs ==
  ASSUME NEW k \in Key, Escalates(k), NEW c \in Counter, NEW d \in Counter,
         NEW past \in Seq(Lockout), NEW instant \in Nat, NEW lock \in Lockout,
         Remembers(k, c, past, instant), c.lockedUntil = Never, Climbs(k, past),
         lock.length = Rung(k, c.strikes + 1), lock.ends = instant + lock.length,
         d.lockedUntil = lock.ends, d.strikes = c.strikes + 1,
         d.strikesUntil = lock.ends + Rule[k].decay
  PROVE  Remembers(k, d, Append(past, lock), instant) /\ Climbs(k, Append(past, lock))
<1> DEFINE all == Append(past, lock)
           n == Len(past)
<1>0. /\ n \in Nat /\ c.strikes \in Nat /\ Rule[k].decay \in Nat
      /\ lock.length \in Nat /\ lock.ends \in Nat
      /\ \A i \in 1..n : past[i].ends \in Nat /\ past[i].length \in Nat
  BY RuleOf, LenProperties, LockoutFields DEF Lockout, Counter
<1>1. /\ Len(all) = n + 1 /\ all[n + 1] = lock
      /\ \A i \in 1..n : all[i] = past[i]
  BY AppendProperties
<1> HIDE DEF all
<1>2. ASSUME NEW i \in 1..n
      PROVE  /\ past[i].ends <= instant
             /\ instant < past[i].ends + Rule[k].decay =>
                  /\ n - i < c.strikes
                  /\ past[i].length = Rung(k, c.strikes - (n - i))
  <2>1. past[i].ends > instant => past[i].ends = Never
    BY DEF Remembers
  <2> QED
    BY <1>0, <2>1 DEF Remembers, Never
<1>3. Remembers(k, d, all, instant)
  <2>1. ASSUME NEW i \in 1..n
        PROVE  /\ ~(all[i].ends > instant)
               /\ instant < all[i].ends + Rule[k].decay =>
                    /\ all[i].ends + Rule[k].decay <= d.strikesUntil
                    /\ (n + 1) - i < d.strikes
                    /\ all[i].length = Rung(k, d.strikes - ((n + 1) - i))
    <3>1. /\ d.strikes - ((n + 1) - i) = c.strikes - (n - i)
          /\ n - i < c.strikes => (n + 1) - i < d.strikes
      <4>1. i \in Int /\ n \in Int /\ c.strikes \in Int /\ d.strikes = c.strikes + 1
        BY <1>0
      <4> HIDE DEF n
      <4> QED
        BY <4>1
    <3>2. past[i].ends <= lock.ends
      BY <1>0, <1>2
    <3>3. all[i] = past[i]
      BY <1>1
    <3>4. past[i].ends + Rule[k].decay <= d.strikesUntil
      BY <1>0, <3>2
    <3>5. past[i].ends \in Nat /\ past[i].ends <= instant
      BY <1>0, <1>2
    <3>6. ~(past[i].ends > instant)
      BY <3>5
    <3> HIDE DEF n
    <3> QED
      BY <1>2, <3>1, <3>3, <3>4, <3>6
  <2>2. /\ all[n + 1].ends = d.lockedUntil
        /\ all[n + 1].ends + Rule[k].decay <= d.strikesUntil
        /\ (n + 1) - (n + 1) < d.strikes
        /\ all[n + 1].length = Rung(k, d.strikes - ((n + 1) - (n + 1)))
    <3>1. d.strikes - ((n + 1) - (n + 1)) = c.strikes + 1 /\ (n + 1) - (n + 1) = 0
      BY <1>0
    <3> QED
      BY <1>0, <1>1, <3>1
  <2>3. \A i \in 1..(n + 1) : i \in 1..n \/ i = n + 1
    BY <1>0
  <2>4. n + 1 # 0
    BY <1>0
  <2> HIDE DEF n
  <2>5. \A i \in 1..(n + 1) :
          /\ all[i].ends > instant => i = n + 1 /\ all[i].ends = d.lockedUntil
          /\ instant < all[i].ends + Rule[k].decay =>
               /\ all[i].ends + Rule[k].decay <= d.strikesUntil
               /\ (n + 1) - i < d.strikes
               /\ all[i].length = Rung(k, d.strikes - ((n + 1) - i))
    BY <2>1, <2>2, <2>3
  <2> QED
    BY <1>1, <2>2, <2>4, <2>5 DEF Remembers
<1>4. Climbs(k, all)
  <2>1. ASSUME NEW i \in 1..(Len(all) - 1)
        PROVE  Follows(k, all[i], all[i + 1])
    <3>1. i \in 1..n
      BY <1>0, <1>1
    <3>2. CASE i # n
      <4>1. i \in 1..(n - 1) /\ i + 1 \in 1..n
        BY <1>0, <3>1, <3>2
      <4> QED
        BY <1>1, <3>1, <4>1 DEF Climbs
    <3>3. CASE i = n
      <4> DEFINE ladder == Rule[k].ladder
                 m == IF c.strikes < Len(ladder) THEN c.strikes ELSE Len(ladder)
      <4>1. all[i] = past[n] /\ all[i + 1] = lock /\ n \in 1..n
        BY <1>1, <3>1, <3>3
      <4>2. SUFFICES ASSUME lock.ends - lock.length < past[n].ends + Rule[k].decay
                     PROVE  \E j \in 1..Len(ladder) :
                              /\ past[n].length = ladder[j]
                              /\ lock.length = ladder[IF j + 1 \in 1..Len(ladder) THEN j + 1
                                                      ELSE j]
        BY <4>1 DEF Follows
      <4>3. lock.ends - lock.length = instant
        BY <1>0
      <4>4. n - n < c.strikes /\ past[n].length = Rung(k, c.strikes - (n - n))
        BY <1>2, <4>1, <4>2, <4>3
      <4>5. c.strikes # 0 /\ c.strikes - (n - n) = c.strikes
        BY <1>0, <4>4
      <4>6. past[n].length = ladder[m]
        BY <4>4, <4>5 DEF Rung
      <4>7. /\ Len(ladder) \in Nat \ {0}
            /\ lock.length = ladder[IF c.strikes < Len(ladder) THEN c.strikes + 1
                                    ELSE Len(ladder)]
        BY <1>0, LadderStep
      <4> HIDE DEF ladder
      <4>8. m \in 1..Len(ladder)
              /\ (IF m + 1 \in 1..Len(ladder) THEN m + 1 ELSE m)
                   = (IF c.strikes < Len(ladder) THEN c.strikes + 1 ELSE Len(ladder))
        BY <1>0, <4>5, <4>7
      <4> HIDE DEF m
      <4> QED
        BY <4>6, <4>7, <4>8
    <3> QED
      BY <3>2, <3>3
  <2> QED
    BY <2>1 DEF Climbs
<1> QED
  BY <1>3, <1>4 DEF all

\* A lockout that is taken back takes its strike along.
LEMMA LockoutUndone ==
  ASSUME NEW k \in Key, NEW c \in Counter, NEW d \in Counter, NEW past \in Seq(Lockout),
         NEW instant \in Nat, Remembers(k, c, past, instant), Climbs(k, past),
         c.lockedUntil > instant, d.lockedUntil = Never, d.strikes = c.strikes - 1,
         d.strikes # 0 => d.strikesUntil = c.strikesUntil
  PROVE  LET left == SubSeq(past, 1, Len(past) - 1)
         IN  Remembers(k, d, left, instant) /\ Climbs(k, left)
<1> DEFINE n == Len(past)
           left == SubSeq(past, 1, n - 1)
<1>0. /\ n \in Nat /\ c.strikes \in Nat /\ d.strikes \in Nat /\ Rule[k].decay \in Nat
      /\ \A i \in 1..n : past[i] \in Lockout
  BY RuleOf, LenProperties, ElementOfSeq DEF Counter
<1>1. n # 0
  BY DEF Remembers, Never, Counter
<1>2. Len(left) = n - 1 /\ \A i \in 1..(n - 1) : left[i] = past[i]
  <2>1. \A i \in 1..(n - 1) : past[i] \in Lockout
    BY <1>0
  <2>2. 1 \in Int /\ n - 1 \in Int /\ \A i \in 1..(n - 1) : past[i] \in Lockout
    BY <1>0, <2>1
  <2> HIDE DEF n
  <2>3. /\ Len(SubSeq(past, 1, n - 1)) = IF 1 <= n - 1 THEN (n - 1) - 1 + 1 ELSE 0
        /\ \A i \in 1..((n - 1) - 1 + 1) : SubSeq(past, 1, n - 1)[i] = past[1 + i - 1]
    BY <2>2, SubSeqProperties
  <2>4. (n - 1) - 1 + 1 = n - 1 /\ \A i \in 1..(n - 1) : 1 + i - 1 = i
    BY <1>0
  <2> QED
    BY <1>0, <1>1, <2>3, <2>4
<1> HIDE DEF left
<1>3. ASSUME NEW i \in 1..(n - 1)
      PROVE  /\ ~(left[i].ends > instant)
             /\ instant < left[i].ends + Rule[k].decay =>
                  /\ left[i].ends + Rule[k].decay <= d.strikesUntil
                  /\ (n - 1) - i < d.strikes
                  /\ left[i].length = Rung(k, d.strikes - ((n - 1) - i))
  <2>1. i \in 1..n /\ i # n /\ left[i] = past[i]
    BY <1>0, <1>2
  <2>2. d.strikes - ((n - 1) - i) = c.strikes - (n - i)
    BY <1>0
  <2>3. n - i < c.strikes => (n - 1) - i < d.strikes /\ d.strikes # 0
    BY <1>0
  <2> QED
    BY <2>1, <2>2, <2>3 DEF Remembers
<1>4. Remembers(k, d, left, instant)
  BY <1>2, <1>3 DEF Remembers
<1>5. Climbs(k, left)
  <2>1. \A i \in 1..((n - 1) - 1) : i \in 1..(n - 1) /\ i + 1 \in 1..(n - 1)
    BY <1>0
  <2> QED
    BY <1>2, <2>1 DEF Climbs
<1> QED
  BY <1>4, <1>5 DEF left

\* The counter of a key, through a sweep, the start of a window and an attempt.
LEMMA SweptRemembers ==
  ASSUME Inv, NEW k \in Key, NEW past \in Seq(Lockout), Remembers(k, counters[k], past, clock)
  PROVE  Remembers(k, Swept(k), past, clock)
<1>1. CASE Forgotten(counters[k])
  <2>1. /\ counters[k] \in Counter /\ NoCounter \in Counter /\ NoCounter.lockedUntil = Never
        /\ clock >= counters[k].lockedUntil /\ clock >= counters[k].strikesUntil /\ clock \in Nat
    BY <1>1, SweptIs DEF Forgotten, NoCounter, Counter, Never
  <2> QED
    BY <1>1, <2>1, NothingToRemember DEF Swept
<1>2. CASE ~Forgotten(counters[k])
  BY <1>2 DEF Swept
<1> QED
  BY <1>1, <1>2

LEMMA StartedRemembers ==
  ASSUME Inv, NEW k \in Key, ~Locked(k), NEW past \in Seq(Lockout),
         Remembers(k, counters[k], past, clock)
  PROVE  Remembers(k, Started(k), past, clock)
<1> DEFINE c == Swept(k)
<1>1. Remembers(k, c, past, clock) /\ c \in Counter /\ Started(k) \in Counter /\ clock \in Nat
        /\ Started(k).lockedUntil = Never
  BY SweptRemembers, SweptIs, StartedIs
<1>2. c.lockedUntil <= clock /\ clock >= c.lockedUntil
  <2>1. counters[k] \in Counter /\ clock \in Nat /\ (c = counters[k] \/ c = NoCounter)
    BY SweptIs
  <2> QED
    BY <2>1 DEF Locked, Counter, NoCounter, Never
<1>3. CASE ~Restarts(k)
  BY <1>1, <1>3 DEF Started
<1>4. CASE Restarts(k) /\ clock < c.strikesUntil
  <2>1. Started(k).strikes = c.strikes /\ Started(k).strikesUntil = c.strikesUntil
    BY <1>4 DEF Started
  <2> HIDE DEF c
  <2> QED
    BY <1>1, <1>2, <2>1, StillRemembers
<1>5. CASE Restarts(k) /\ ~(clock < c.strikesUntil)
  <2>1. clock >= c.strikesUntil
    BY <1>1, <1>5 DEF Counter
  <2> HIDE DEF c
  <2> QED
    BY <1>1, <1>2, <2>1, NothingToRemember
<1> QED
  BY <1>3, <1>4, <1>5

\* An attempt locks the key for the rung above its strikes, or leaves them.
LEMMA CountedLocks ==
  ASSUME Inv, NEW k \in Key, ~Locked(k), Escalates(k)
  PROVE  \/ /\ Counted(k).lockedUntil = Never /\ Counted(k).strikes = Started(k).strikes
            /\ Counted(k).strikesUntil = Started(k).strikesUntil
         \/ /\ Counted(k).lockedUntil = clock + Rung(k, Started(k).strikes + 1)
            /\ Counted(k).lockedUntil # Never
            /\ Counted(k).strikes = Started(k).strikes + 1
            /\ Counted(k).strikesUntil = Counted(k).lockedUntil + Rule[k].decay
<1> DEFINE c == [Started(k) EXCEPT !.count = @ + 1]
           ends == clock + LockLength(k, c)
<1>1. Started(k) \in Counter /\ Started(k).lockedUntil = Never /\ clock \in Nat /\ clock # 0
  BY StartedIs, SweptIs
<1>2. /\ c \in Counter /\ c.lockedUntil = Never /\ c.strikes = Started(k).strikes
      /\ c.strikesUntil = Started(k).strikesUntil
  BY <1>1 DEF Counter
<1> HIDE DEF c
<1>3. LockLength(k, c) = Rung(k, Started(k).strikes + 1) /\ LockLength(k, c) \in Nat
  <2>1. Started(k).strikes \in Nat
    BY <1>1 DEF Counter
  <2> QED
    BY <1>2, <2>1, LadderStep DEF LockLength
<1>4. Counted(k) = IF c.count < Rule[k].limit THEN c
                   ELSE [c EXCEPT !.lockedUntil = ends, !.strikes = @ + 1,
                                  !.strikesUntil = ends + Rule[k].decay]
  BY DEF Counted, c
<1>5. ends # Never /\ ends = clock + Rung(k, Started(k).strikes + 1)
  BY <1>1, <1>3 DEF Never
<1> HIDE DEF ends
<1>6. CASE c.count < Rule[k].limit
  BY <1>2, <1>4, <1>6
<1>7. CASE ~(c.count < Rule[k].limit)
  <2>1. Counted(k) = [c EXCEPT !.lockedUntil = ends, !.strikes = @ + 1,
                               !.strikesUntil = ends + Rule[k].decay]
    BY <1>4, <1>7
  <2>2. /\ Counted(k).lockedUntil = ends /\ Counted(k).strikes = c.strikes + 1
        /\ Counted(k).strikesUntil = ends + Rule[k].decay
    BY <1>2, <2>1 DEF Counter
  <2> QED
    BY <1>2, <1>5, <2>2
<1> QED
  BY <1>6, <1>7

LEMMA ReserveClimbs ==
  ASSUME Inv, Climbing, NEW r \in Request, NEW s \in Source, Reserve(r, s)
  PROVE  Climbing'
<1> DEFINE locks == {k \in KeysOf[s] : Counted(k).lockedUntil # Never}
           lock(k) == [length |-> Counted(k).lockedUntil - clock,
                       ends |-> Counted(k).lockedUntil]
<1>1. /\ \A k \in KeysOf[s] : ~Locked(k)
      /\ counters' = [k \in Key |-> IF k \in KeysOf[s] THEN Counted(k) ELSE Swept(k)]
      /\ lockouts' = [k \in Key |-> IF k \in locks THEN Append(lockouts[k], lock(k))
                                    ELSE lockouts[k]]
      /\ clock' = clock
  BY DEF Reserve, Admitted
<1>2. ASSUME NEW k \in Key, Escalates(k)
      PROVE  Remembers(k, counters'[k], lockouts'[k], clock) /\ Climbs(k, lockouts'[k])
  <2>1. /\ lockouts[k] \in Seq(Lockout) /\ clock \in Nat
        /\ Remembers(k, counters[k], lockouts[k], clock) /\ Climbs(k, lockouts[k])
    BY <1>2, Known DEF Climbing, Lockout
  <2>2. CASE k \notin KeysOf[s]
    <3>1. counters'[k] = Swept(k) /\ lockouts'[k] = lockouts[k]
      BY <1>1, <2>2
    <3> QED
      BY <2>1, <3>1, SweptRemembers
  <2>3. CASE k \in KeysOf[s]
    <3>1. ~Locked(k) /\ counters'[k] = Counted(k)
      BY <1>1, <2>3
    <3>2. /\ Counted(k) \in Counter /\ Started(k) \in Counter /\ Started(k).lockedUntil = Never
          /\ Remembers(k, Started(k), lockouts[k], clock)
      BY <2>1, <3>1, CountedIs, StartedIs, StartedRemembers
    <3>3. CASE /\ Counted(k).lockedUntil = Never /\ Counted(k).strikes = Started(k).strikes
               /\ Counted(k).strikesUntil = Started(k).strikesUntil
      <4>1. lockouts'[k] = lockouts[k]
        BY <1>1, <3>3
      <4> QED
        BY <2>1, <3>1, <3>2, <3>3, <4>1, StillRemembers
    <3>4. CASE /\ Counted(k).lockedUntil = clock + Rung(k, Started(k).strikes + 1)
               /\ Counted(k).lockedUntil # Never
               /\ Counted(k).strikes = Started(k).strikes + 1
               /\ Counted(k).strikesUntil = Counted(k).lockedUntil + Rule[k].decay
      <4>1. lockouts'[k] = Append(lockouts[k], lock(k))
        BY <1>1, <2>3, <3>4
      <4>2. Started(k).strikes \in Nat /\ Rung(k, Started(k).strikes + 1) \in Nat
        BY <1>2, <3>2, LadderStep DEF Counter
      <4>3. /\ lock(k) \in Lockout /\ lock(k).length = Rung(k, Started(k).strikes + 1)
            /\ lock(k).ends = clock + lock(k).length /\ lock(k).ends = Counted(k).lockedUntil
        BY <2>1, <3>4, <4>2 DEF Lockout
      <4> HIDE DEF lock
      <4> QED
        BY <1>2, <2>1, <3>1, <3>2, <3>4, <4>1, <4>3, LockoutClimbs
    <3> QED
      BY <1>2, <3>1, <3>3, <3>4, CountedLocks
  <2> QED
    BY <2>2, <2>3
<1> QED
  BY <1>1, <1>2 DEF Climbing

LEMMA RefuseClimbs ==
  ASSUME Inv, Climbing, NEW s \in Source, Refuse(s)
  PROVE  Climbing'
<1>1. counters' = [k \in Key |-> Swept(k)] /\ lockouts' = lockouts /\ clock' = clock
  BY DEF Refuse
<1>2. ASSUME NEW k \in Key, Escalates(k)
      PROVE  Remembers(k, counters'[k], lockouts[k], clock)
  <2>1. counters'[k] = Swept(k) /\ lockouts[k] \in Seq(Lockout)
        /\ Remembers(k, counters[k], lockouts[k], clock)
    BY <1>1, <1>2, Known DEF Climbing, Lockout
  <2> QED
    BY <2>1, SweptRemembers
<1> QED
  BY <1>1, <1>2 DEF Climbing

\* What an attempt that is taken back leaves of its counter's memory.
LEMMA UncountedLeaves ==
  ASSUME Inv, NEW k \in Key, counters[k].count # 0, Escalates(k)
  PROVE  LET c == counters[k]
             d == Uncounted(k)
         IN  /\ d.strikes # 0 => d.strikesUntil = c.strikesUntil
             /\ Undoes(k) => d.lockedUntil = Never /\ d.strikes = c.strikes - 1
             /\ ~Undoes(k) => d.lockedUntil = c.lockedUntil /\ d.strikes = c.strikes
<1> DEFINE c == counters[k]
           strikes == IF Undoes(k) THEN c.strikes - 1 ELSE c.strikes
           until == IF Undoes(k) THEN Never ELSE c.lockedUntil
           memory == IF strikes = 0 THEN Never ELSE c.strikesUntil
           back == [c EXCEPT !.count = @ - 1, !.lockedUntil = until, !.strikes = strikes,
                             !.strikesUntil = memory]
<1>1. c \in Counter /\ Tuned(k, c)
  BY SweptIs DEF Inv, Counters
<1>2. Uncounted(k) = IF back.count = 0 /\ back.strikes = 0 THEN NoCounter ELSE back
  BY DEF Uncounted
<1>3. ~Undoes(k) /\ c.strikes = 0 => c.lockedUntil = Never
  BY <1>1 DEF Tuned
<1>4. /\ Undoes(k) => strikes = c.strikes - 1 /\ until = Never
      /\ ~Undoes(k) => strikes = c.strikes /\ until = c.lockedUntil
      /\ strikes # 0 => memory = c.strikesUntil
  OBVIOUS
<1> HIDE DEF c, strikes, until, memory
<1>5. back.strikes = strikes /\ back.lockedUntil = until /\ back.strikesUntil = memory
  BY <1>1 DEF Counter
<1> HIDE DEF back
<1>6. CASE back.count = 0 /\ back.strikes = 0
  <2>1. Uncounted(k) = NoCounter /\ strikes = 0
    BY <1>2, <1>5, <1>6
  <2>2. NoCounter.strikes = 0 /\ NoCounter.lockedUntil = Never
    BY DEF NoCounter
  <2> QED
    BY <1>3, <1>4, <2>1, <2>2 DEF c
<1>7. CASE ~(back.count = 0 /\ back.strikes = 0)
  <2>1. Uncounted(k) = back
    BY <1>2, <1>7
  <2> QED
    BY <1>4, <1>5, <2>1 DEF c
<1> QED
  BY <1>6, <1>7

LEMMA ReleaseClimbs ==
  ASSUME Inv, Climbing, NEW r \in Request, Release(r)
  PROVE  Climbing'
<1> DEFINE undone == {k \in flight[r].holds : Undoes(k)}
<1>1. /\ counters' = [k \in Key |-> IF k \in flight[r].holds THEN Uncounted(k) ELSE counters[k]]
      /\ lockouts' = [k \in Key |-> IF k \in undone
                                    THEN SubSeq(lockouts[k], 1, Len(lockouts[k]) - 1)
                                    ELSE lockouts[k]]
      /\ clock' = clock
  BY DEF Release
<1>2. ASSUME NEW k \in Key, Escalates(k)
      PROVE  Remembers(k, counters'[k], lockouts'[k], clock) /\ Climbs(k, lockouts'[k])
  <2>1. /\ lockouts[k] \in Seq(Lockout) /\ clock \in Nat /\ counters[k] \in Counter
        /\ Remembers(k, counters[k], lockouts[k], clock) /\ Climbs(k, lockouts[k])
    BY <1>2, Known DEF Climbing, Lockout
  <2>2. CASE k \notin flight[r].holds
    <3>1. counters'[k] = counters[k] /\ lockouts'[k] = lockouts[k]
      BY <1>1, <2>2
    <3> QED
      BY <2>1, <3>1
  <2>3. CASE k \in flight[r].holds
    <3>1. counters[k].count # 0
      <4>1. counters[k].count = Cardinality(Holders(flight, k)) + kept[k] /\ kept[k] \in Nat
        BY Known DEF Inv, Counters
      <4>2. r \in Holders(flight, k)
        BY <2>3 DEF Holders
      <4>3. Cardinality(Holders(flight, k)) \in Nat /\ Cardinality(Holders(flight, k)) # 0
        BY <4>2, HoldersAreFinite, FS_EmptySet
      <4> QED
        BY <4>1, <4>3
    <3>2. Uncounted(k) \in Counter /\ counters'[k] = Uncounted(k)
      BY <1>1, <2>3, <3>1, UncountedIs
    <3>3. LET c == counters[k]
              d == Uncounted(k)
          IN  /\ d.strikes # 0 => d.strikesUntil = c.strikesUntil
              /\ Undoes(k) => d.lockedUntil = Never /\ d.strikes = c.strikes - 1
              /\ ~Undoes(k) => d.lockedUntil = c.lockedUntil /\ d.strikes = c.strikes
      BY <1>2, <3>1, UncountedLeaves
    <3>4. CASE Undoes(k)
      <4>1. lockouts'[k] = SubSeq(lockouts[k], 1, Len(lockouts[k]) - 1)
        BY <1>1, <2>3, <3>4
      <4>2. counters[k].lockedUntil > clock
        BY <2>1, <3>4 DEF Undoes, Locked, Counter
      <4> QED
        BY <2>1, <3>2, <3>3, <3>4, <4>1, <4>2, LockoutUndone
    <3>5. CASE ~Undoes(k)
      <4>1. lockouts'[k] = lockouts[k]
        BY <1>1, <3>5
      <4> QED
        BY <2>1, <3>2, <3>3, <3>5, <4>1, StillRemembers
    <3> QED
      BY <3>4, <3>5
  <2> QED
    BY <2>2, <2>3
<1> QED
  BY <1>1, <1>2 DEF Climbing

LEMMA SucceedClimbs ==
  ASSUME Inv, Climbing, NEW r \in Request, Succeed(r)
  PROVE  Climbing'
<1> DEFINE wiped == Wiped(flight[r].source)
<1>1. /\ counters' = [k \in Key |-> IF k \in wiped THEN NoCounter ELSE counters[k]]
      /\ lockouts' = [k \in Key |-> IF k \in wiped THEN << >> ELSE lockouts[k]]
      /\ clock' = clock
  BY DEF Succeed
<1> HIDE DEF wiped
<1>2. ASSUME NEW k \in Key
      PROVE  Remembers(k, NoCounter, << >>, clock) /\ Climbs(k, << >>)
  <2>1. Len(<< >>) = 0 /\ NoCounter.lockedUntil = Never
    BY DEF NoCounter
  <2> QED
    BY <2>1 DEF Remembers, Climbs
<1>3. ASSUME NEW k \in Key, Escalates(k)
      PROVE  Remembers(k, counters'[k], lockouts'[k], clock) /\ Climbs(k, lockouts'[k])
  <2>1. CASE k \in wiped
    <3>1. counters'[k] = NoCounter /\ lockouts'[k] = << >>
      BY <1>1, <2>1
    <3> QED
      BY <1>2, <3>1
  <2>2. CASE k \notin wiped
    <3>1. counters'[k] = counters[k] /\ lockouts'[k] = lockouts[k]
      BY <1>1, <2>2
    <3> QED
      BY <1>3, <3>1 DEF Climbing
  <2> QED
    BY <2>1, <2>2
<1> QED
  BY <1>1, <1>3 DEF Climbing

LEMMA StepClimbs == Inv /\ Climbing /\ [Next]_vars => Climbing'
<1> SUFFICES ASSUME Inv, Climbing, [Next]_vars
             PROVE  Climbing'
  OBVIOUS
<1>1. CASE UNCHANGED vars
  BY <1>1 DEF vars, Climbing
<1>2. ASSUME NEW r \in Request, Keep(r)
      PROVE  Climbing'
  BY <1>2 DEF Keep, Climbing
<1>3. CASE Tick
  <2>1. clock' = clock + 1 /\ counters' = counters /\ lockouts' = lockouts
    BY <1>3 DEF Tick
  <2>2. ASSUME NEW k \in Key, Escalates(k)
        PROVE  Remembers(k, counters[k], lockouts[k], clock + 1)
    <3>1. /\ lockouts[k] \in Seq(Lockout) /\ clock \in Nat /\ counters[k] \in Counter
          /\ Remembers(k, counters[k], lockouts[k], clock)
      BY <2>2, Known DEF Climbing, Lockout
    <3> QED
      BY <3>1, RemembersLater
  <2> QED
    BY <2>1, <2>2 DEF Climbing
<1> QED
  BY <1>1, <1>2, <1>3, ReserveClimbs, RefuseClimbs, ReleaseClimbs, SucceedClimbs DEF Next

\* A lockout that follows another within the decay takes the next rung of the
\* ladder, for any ladder, whatever was swept, restarted or taken back between
\* the two.
THEOREM LockoutsAlwaysClimb == Spec => []LockoutsClimb
<1>1. Init => Climbing
  <2> SUFFICES ASSUME Init, NEW k \in Key
               PROVE  Remembers(k, counters[k], lockouts[k], clock) /\ Climbs(k, lockouts[k])
    BY DEF Climbing
  <2>1. counters[k] = NoCounter /\ lockouts[k] = << >> /\ NoCounter.lockedUntil = Never
    BY DEF Init, NoCounter
  <2>2. Len(<< >>) = 0
    OBVIOUS
  <2> QED
    BY <2>1, <2>2 DEF Remembers, Climbs
<1>2. Climbing => LockoutsClimb
  BY DEF Climbing, Climbs, Follows, LockoutsClimb
<1> QED
  BY <1>1, <1>2, StepClimbs, InvHolds, PTL DEF Spec
=============================================================================
