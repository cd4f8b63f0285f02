---------------------------- MODULE RateLimiter ----------------------------
(***************************************************************************)
(* internal/http/rate_limiter.go and the handlers around it: an attempt is *)
(* counted against all its keys before the password work starts, and what  *)
(* it was is decided when that work ends: kept (a wrong guess), released   *)
(* (nothing was tried) or, on success, its keys' counters are wiped.       *)
(* Attempts run concurrently; the limiter's methods hold one mutex, so     *)
(* each is one step.                                                       *)
(***************************************************************************)
EXTENDS Integers, Sequences, FiniteSets

CONSTANTS
  Request,    \* the requests that can be in flight at once
  Source,     \* kinds of attempts: a login from one network, from a device, ...
  Idle,       \* not a source: the request is not in flight
  Key,        \* the limiter's keys
  KeysOf,     \* the keys a source reserves together
  Forgives,   \* those that its success resets
  Rule,       \* each key's limitRule
  Patience,   \* bound: how long an attempt can be in flight
  MaxClock    \* bound: how far the clock runs

ASSUME SourcesAssumption ==
  /\ Idle \notin Source
  /\ KeysOf \in [Source -> SUBSET Key] /\ Forgives \in [Source -> SUBSET Key]
  /\ \A s \in Source : Forgives[s] \subseteq KeysOf[s]
ASSUME RuleAssumption ==
  \A k \in Key :
    /\ Rule[k].limit \in Nat \ {0} /\ Rule[k].window \in Nat \ {0} /\ Rule[k].decay \in Nat
    /\ Rule[k].ladder \in Seq(Nat \ {0})
ASSUME RequestsAreFinite == IsFiniteSet(Request)
ASSUME BoundsAssumption == Patience \in Nat /\ MaxClock \in Nat

VARIABLES
  counters,  \* rateLimiter.counters
  flight,    \* each request's source, its reservation and when it began
  clock,
  kept,      \* history: the kept attempts in each key's live counter
  lockouts   \* history: each key's lockouts since its last success, undone ones out

vars == <<counters, flight, clock, kept, lockouts>>

Never == 0        \* the zero time; the clock starts after it
NoCounter == [count |-> 0, resetAt |-> Never, lockedUntil |-> Never,
              strikes |-> 0, strikesUntil |-> Never]

\* A reservation holds a key as long as the counter it counted on is the key's
\* live one.
NotInFlight == [source |-> Idle, holds |-> {}, since |-> Never]

TypeOK ==
  /\ counters \in [Key -> [count : Nat, resetAt : Nat, lockedUntil : Nat,
                           strikes : Nat, strikesUntil : Nat]]
  /\ flight \in [Request -> [source : Source \cup {Idle}, holds : SUBSET Key, since : Nat]]
  /\ clock \in Nat
  /\ kept \in [Key -> Nat]
  /\ lockouts \in [Key -> Seq([length : Nat, ends : Nat])]

-----------------------------------------------------------------------------
Locked(k) == clock < counters[k].lockedUntil
Escalates(k) == Rule[k].ladder # << >>

\* Nothing left to remember: the window, the lockout and the strikes are over.
\* Mutant: the strikes' memory does not keep a counter.
ForgottenEarly(c) == clock >= c.resetAt /\ clock >= c.lockedUntil
Forgotten(c) ==
  /\ clock >= c.resetAt /\ clock >= c.lockedUntil
  /\ clock >= c.strikesUntil

\* The counter of k after the sweep that begins every reserve.
Swept(k) == IF Forgotten(counters[k]) THEN NoCounter ELSE counters[k]

\* A window that has run out, or a lockout that has ended, starts a new counter.
Restarts(k) == clock >= Swept(k).resetAt \/ Swept(k).lockedUntil # Never

Started(k) ==
  LET c == Swept(k)
      remembered == clock < c.strikesUntil
  IN  IF ~Restarts(k) THEN c
      ELSE [count |-> 0, resetAt |-> clock + Rule[k].window, lockedUntil |-> Never,
            strikes |-> IF remembered THEN c.strikes ELSE 0,
            strikesUntil |-> IF remembered THEN c.strikesUntil ELSE Never]

LockLength(k, c) ==
  LET ladder == Rule[k].ladder
  IN  IF ~Escalates(k) THEN c.resetAt - clock
      ELSE ladder[IF c.strikes < Len(ladder) THEN c.strikes + 1 ELSE Len(ladder)]

\* The attempt that fills the window locks the key.
Counted(k) ==
  LET c == [Started(k) EXCEPT !.count = @ + 1]
      ends == clock + LockLength(k, c)
  IN  IF c.count < Rule[k].limit THEN c
      ELSE IF ~Escalates(k) THEN [c EXCEPT !.lockedUntil = ends]
      ELSE [c EXCEPT !.lockedUntil = ends, !.strikes = @ + 1,
                     !.strikesUntil = ends + Rule[k].decay]

Admitted(s) == \A k \in KeysOf[s] : ~Locked(k)

\* A release touches a key only while the counter it counted on is live.
\* Mutant: it goes by the key.
HoldsAnyway(holds, gone) == holds
StillHolds(holds, gone) == holds \ gone

\* Counted against every key at once.
Reserve(r, s) ==
  LET replaced == {k \in Key : Swept(k) # counters[k]} \cup {k \in KeysOf[s] : Restarts(k)}
      locks == {k \in KeysOf[s] : Counted(k).lockedUntil # Never}
  IN  /\ flight[r] = NotInFlight
      /\ Admitted(s)
      /\ counters' = [k \in Key |-> IF k \in KeysOf[s] THEN Counted(k) ELSE Swept(k)]
      /\ flight' = [q \in Request |->
           IF q = r THEN [source |-> s, holds |-> KeysOf[s], since |-> clock]
           ELSE [flight[q] EXCEPT !.holds = StillHolds(@, replaced)]]
      /\ kept' = [k \in Key |-> IF k \in replaced THEN 0 ELSE kept[k]]
      /\ lockouts' = [k \in Key |->
           IF k \in locks
           THEN Append(lockouts[k], [length |-> Counted(k).lockedUntil - clock,
                                     ends |-> Counted(k).lockedUntil])
           ELSE lockouts[k]]
      /\ UNCHANGED clock

\* A locked key refuses the attempt and no key is charged; the sweep has run.
Refuse(s) ==
  LET swept == {k \in Key : Swept(k) # counters[k]}
  IN  /\ ~Admitted(s)
      /\ counters' = [k \in Key |-> Swept(k)]
      /\ flight' = [q \in Request |-> [flight[q] EXCEPT !.holds = StillHolds(@, swept)]]
      /\ kept' = [k \in Key |-> IF k \in swept THEN 0 ELSE kept[k]]
      /\ UNCHANGED <<clock, lockouts>>

\* A wrong guess: the reservation stands.
Keep(r) ==
  /\ flight[r] # NotInFlight
  /\ flight' = [flight EXCEPT ![r] = NotInFlight]
  /\ kept' = [k \in Key |-> IF k \in flight[r].holds THEN kept[k] + 1 ELSE kept[k]]
  /\ UNCHANGED <<counters, clock, lockouts>>

\* Nothing was attempted: the attempt is taken back, and with it the lockout it
\* caused, if the key is still locked.
Undoes(k) == counters[k].count - 1 < Rule[k].limit /\ Locked(k)

Uncounted(k) ==
  LET c == counters[k]
      strikes == IF Undoes(k) /\ Escalates(k) THEN c.strikes - 1 ELSE c.strikes
      back == [c EXCEPT !.count = @ - 1,
                        !.lockedUntil = IF Undoes(k) THEN Never ELSE @,
                        !.strikes = strikes,
                        !.strikesUntil = IF strikes = 0 THEN Never ELSE @]
  IN  IF back.count = 0 /\ back.strikes = 0 THEN NoCounter ELSE back

Release(r) ==
  LET undone == {k \in flight[r].holds : Undoes(k)}
  IN  /\ flight[r] # NotInFlight
      /\ counters' = [k \in Key |-> IF k \in flight[r].holds THEN Uncounted(k) ELSE counters[k]]
      /\ flight' = [flight EXCEPT ![r] = NotInFlight]
      /\ lockouts' = [k \in Key |-> IF k \in undone
                                    THEN SubSeq(lockouts[k], 1, Len(lockouts[k]) - 1)
                                    ELSE lockouts[k]]
      /\ UNCHANGED <<clock, kept>>

Wiped(s) == Forgives[s]

\* A success: some keys' counters are dropped, strikes included; the attempt
\* stays counted on the others.
Succeed(r) ==
  LET wiped == Wiped(flight[r].source)
  IN  /\ flight[r] # NotInFlight
      /\ counters' = [k \in Key |-> IF k \in wiped THEN NoCounter ELSE counters[k]]
      /\ flight' = [q \in Request |->
           IF q = r THEN NotInFlight ELSE [flight[q] EXCEPT !.holds = StillHolds(@, wiped)]]
      /\ kept' = [k \in Key |-> IF k \in wiped THEN 0
                                ELSE IF k \in flight[r].holds THEN kept[k] + 1 ELSE kept[k]]
      /\ lockouts' = [k \in Key |-> IF k \in wiped THEN << >> ELSE lockouts[k]]
      /\ UNCHANGED clock

\* Time passes; an attempt stays in flight for any time up to Patience.
Tick ==
  /\ clock < MaxClock
  /\ \A r \in Request : flight[r] # NotInFlight => clock - flight[r].since < Patience
  /\ clock' = clock + 1
  /\ UNCHANGED <<counters, flight, kept, lockouts>>

Init ==
  /\ counters = [k \in Key |-> NoCounter]
  /\ flight = [r \in Request |-> NotInFlight]
  /\ clock = 1
  /\ kept = [k \in Key |-> 0]
  /\ lockouts = [k \in Key |-> << >>]

Next ==
  \/ \E r \in Request, s \in Source : Reserve(r, s)
  \/ \E s \in Source : Refuse(s)
  \/ \E r \in Request : Keep(r) \/ Release(r) \/ Succeed(r)
  \/ Tick

Spec == Init /\ [][Next]_vars

-----------------------------------------------------------------------------
(* What the limiter promises.                                               *)

\* A counter holds exactly the attempts in flight on it and those it kept, never
\* more than its limit: no burst, release, restart or success of another request
\* loses one or counts one twice (#495).
CountIsItsAttempts ==
  \A k \in Key :
    /\ counters[k].count = Cardinality({r \in Request : k \in flight[r].holds}) + kept[k]
    /\ counters[k].count <= Rule[k].limit

\* Each lockout that follows another within the decay is the next step of the
\* ladder, whatever was swept, restarted or released in between (#500).
LockoutsClimb ==
  \A k \in Key : Escalates(k) =>
    LET ladder == Rule[k].ladder
        steps == 1..Len(ladder)
    IN  \A i \in 1..(Len(lockouts[k]) - 1) :
          LET before == lockouts[k][i]
              after == lockouts[k][i + 1]
              began == after.ends - after.length
          IN  began < before.ends + Rule[k].decay =>
                \E n \in steps :
                  /\ before.length = ladder[n]
                  /\ after.length = ladder[IF n + 1 \in steps THEN n + 1 ELSE n]
=============================================================================
