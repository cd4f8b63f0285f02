---------------------------- MODULE AccessProofs ----------------------------
(***************************************************************************)
(* What holds of the sessions and the password gate however many requests  *)
(* are in flight, for any number of slots, windows and passwords set.      *)
(***************************************************************************)
EXTENDS Access, FiniteSetTheorems, TLAPS

-----------------------------------------------------------------------------
(* What a request may rely on.                                              *)

\* A session of a login is bound to the password that the login proved.
Proven(row) == row.by = "login" => row.proved = row.bound[1]

\* What is true of a request, by its step, with the login as it is.
Sound(x, u) ==
  /\ x.row # NoRow => Proven(x.row)
  /\ x.step = "insert" => x.row \in Row /\ Proven(x.row)
  /\ x.step = "renew" => /\ x.seen # NoUser /\ x.proved # 0
                         /\ x.op = "login" => x.proved = x.seen.hash
  /\ x.step = "transact" /\ x.op # "register" => x.proved # 0
  /\ x.op \in {"password", "email"} /\ x.step \notin {"gate", "idle"} => u # NoUser

Hashing(q) == {r \in Request : q[r].step = "hashing"}

SessionsProven == \A k \in DOMAIN sessions : Proven(sessions[k])
RequestsSound == \A r \in Request : Sound(req[r], user)

Inv == TypeOK /\ SessionsProven /\ RequestsSound /\ SlotsAreHeld

\* The requests after one of them moved on.
LEMMA OneMoves ==
  ASSUME Inv, NEW r \in Request, NEW x \in InFlight,
         req' = [req EXCEPT ![r] = x], Sound(x, user'), user # NoUser => user' # NoUser
  PROVE  /\ req' \in [Request -> InFlight]
         /\ RequestsSound'
<1>1. req \in [Request -> InFlight]
  BY DEF Inv, TypeOK
<1>2. req' \in [Request -> InFlight]
  BY <1>1
<1>3. ASSUME NEW q \in Request
      PROVE  Sound(req'[q], user')
  <2>1. CASE q = r
    BY <2>1, <1>1
  <2>2. CASE q # r
    <3>1. req'[q] = req[q] /\ Sound(req[q], user)
      BY <2>2, <1>1 DEF Inv, RequestsSound
    <3> QED
      BY <3>1 DEF Sound
  <2> QED
    BY <2>1, <2>2
<1> QED
  BY <1>2, <1>3 DEF RequestsSound

\* The slots while nobody takes one or gives one back.
LEMMA SlotsStand ==
  ASSUME Inv, NEW r \in Request, NEW x \in InFlight,
         req' = [req EXCEPT ![r] = x],
         req[r].step # "hashing", x.step # "hashing", slots' = slots
  PROVE  SlotsAreHeld' /\ slots' \in Nat
<1>1. req \in [Request -> InFlight] /\ slots \in Nat /\ SlotsAreHeld
  BY DEF Inv, TypeOK
<1>2. Hashing(req') = Hashing(req)
  BY <1>1 DEF Hashing
<1> QED
  BY <1>1, <1>2 DEF SlotsAreHeld, Hashing

\* A request that has answered asks nothing.
LEMMA RestingIsSound ==
  ASSUME NEW u
  PROVE  Resting \in InFlight /\ Sound(Resting, u)
BY BoundsAreNatural DEF Resting, InFlight, Sound, Op, Gated
-----------------------------------------------------------------------------
(* A request and its session.                                               *)

LEMMA ArriveKeeps ==
  ASSUME Inv, NEW r \in Request, NEW op \in Op, NEW k \in 0..drawn, Arrive(r, op, k)
  PROVE  Inv'
<1> DEFINE x == [Resting EXCEPT
                   !.op = op,
                   !.step = IF op \in Gated THEN "gate"
                            ELSE IF op = "logout" THEN "logout" ELSE "check",
                   !.token = IF Live(k) THEN k ELSE 0,
                   !.row = IF Live(k) THEN sessions[k] ELSE NoRow]
<1>1. req' = [req EXCEPT ![r] = x] /\ UNCHANGED <<login, table, slots, now>>
  BY DEF Arrive
<1>2. /\ drawn \in Nat /\ k \in Nat
      /\ Live(k) => sessions[k] \in Row /\ Proven(sessions[k])
  BY BoundsAreNatural DEF Inv, TypeOK, SessionsProven, Live
<1>3. x \in InFlight
  BY <1>2, RestingIsSound DEF Resting, InFlight
<1>4. x.step \in {"gate", "logout", "check"} /\ x.op = op /\ (op \in Gated => x.step = "gate")
      /\ x.row = IF Live(k) THEN sessions[k] ELSE NoRow
  BY DEF Resting
<1>5. Sound(x, user')
  BY <1>2, <1>4 DEF Sound, Gated
<1>6. req[r].step # "hashing" /\ x.step # "hashing"
  BY <1>4 DEF Arrive
<1> HIDE DEF x
<1>7. req' \in [Request -> InFlight] /\ RequestsSound' /\ SlotsAreHeld' /\ slots' \in Nat
  BY <1>1, <1>3, <1>5, <1>6, OneMoves, SlotsStand DEF login
<1> QED
  BY <1>1, <1>7 DEF Inv, TypeOK, SessionsProven, login, table

\* A request that only steps, or that answers, with the login and the slots as
\* they are.
LEMMA StepsOn ==
  ASSUME Inv, NEW r \in Request, NEW x \in InFlight, req' = [req EXCEPT ![r] = x],
         Sound(x, user), req[r].step # "hashing", x.step # "hashing",
         UNCHANGED <<login, drawn, slots, now>>,
         DOMAIN sessions' \subseteq 1..drawn,
         \A k \in DOMAIN sessions' : sessions'[k] \in Row /\ Proven(sessions'[k]),
         swept' \in 0..now
  PROVE  Inv'
<1>1. req' \in [Request -> InFlight] /\ RequestsSound' /\ SlotsAreHeld' /\ slots' \in Nat
  BY OneMoves, SlotsStand DEF login
<1> QED
  BY <1>1 DEF Inv, TypeOK, SessionsProven, login

\* What an end leaves of a request.
Ended(x) == [x EXCEPT !.op = "use", !.step = "commit", !.seen = NoUser, !.proved = 0]

LEMMA EndedIsSound ==
  ASSUME NEW x \in InFlight, NEW u, NEW v, Sound(x, u)
  PROVE  Ended(x) \in InFlight /\ Sound(Ended(x), v) /\ Ended(x).step = "commit"
<1>1. Ended(x) \in InFlight
  <2>1. "use" \in Op /\ 0 \in 0..MaxSets
    BY BoundsAreNatural DEF Op, Gated
  <2> QED
    BY <2>1 DEF Ended, InFlight
<1>2. Ended(x).step = "commit" /\ Ended(x).op = "use" /\ Ended(x).row = x.row
  BY DEF Ended, InFlight
<1> QED
  BY <1>1, <1>2 DEF Sound

\* Deleted rows leave the others as they were.
LEMMA WithoutKeeps ==
  ASSUME Inv, NEW gone
  PROVE  /\ DOMAIN Without(gone) \subseteq DOMAIN sessions
         /\ DOMAIN Without(gone) \subseteq 1..drawn
         /\ \A k \in DOMAIN Without(gone) :
              Without(gone)[k] \in Row /\ Proven(Without(gone)[k])
BY DEF Inv, TypeOK, SessionsProven, Without

\* What the invariant says of one request and of the rows.
LEMMA Known ==
  ASSUME Inv
  PROVE  /\ \A r \in Request : req[r] \in InFlight /\ Sound(req[r], user)
         /\ DOMAIN sessions \subseteq 1..drawn
         /\ \A k \in DOMAIN sessions : sessions[k] \in Row /\ Proven(sessions[k])
         /\ swept \in 0..now /\ now \in Nat /\ drawn \in Nat /\ sets \in 0..MaxSets
BY BoundsAreNatural DEF Inv, TypeOK, SessionsProven, RequestsSound

LEMMA GateKeeps ==
  ASSUME Inv, NEW r \in Request, Gate(r)
  PROVE  Inv'
<1> DEFINE checked == [req[r] EXCEPT !.step = "check"]
<1>1. req[r] \in InFlight /\ Sound(req[r], user) /\ req[r].step = "gate"
  BY Known DEF Gate
<1>2. CASE Accepted(req[r].row) /\ req[r].op = "use"
  BY <1>1, <1>2, Known, EndedIsSound, StepsOn DEF Gate, Ends, Ended
<1>3. CASE Accepted(req[r].row) /\ req[r].op # "use"
  <2>1. checked \in InFlight /\ checked.step = "check"
    BY <1>1 DEF InFlight
  <2>2. Sound(checked, user)
    BY <1>1, <1>3 DEF Sound, Accepted, InFlight
  <2>3. req' = [req EXCEPT ![r] = checked] /\ UNCHANGED <<login, table, slots, now>>
    BY <1>3 DEF Gate, Goes, table
  <2> QED
    BY <1>1, <2>1, <2>2, <2>3, Known, StepsOn DEF table
<1>4. CASE ~Accepted(req[r].row)
  BY <1>1, <1>4, Known, WithoutKeeps, RestingIsSound, StepsOn DEF Gate, Answers, Resting
<1> QED
  BY <1>2, <1>3, <1>4

LEMMA LogoutKeeps ==
  ASSUME Inv, NEW r \in Request, Logout(r)
  PROVE  Inv'
BY Known, WithoutKeeps, RestingIsSound, StepsOn DEF Logout, Answers, Resting

LEMMA CommitKeeps ==
  ASSUME Inv, NEW r \in Request, Commit(r)
  PROVE  Inv'
<1> DEFINE row == req[r].row
           k == req[r].token
           tokens == DOMAIN sessions \cup {u \in {k} : ~OnlyRefreshed(row) /\ FindsItsRow(r)}
           rows == [t \in tokens |-> IF t = k THEN Written(k, row) ELSE sessions[t]]
<1>1. req[r] \in InFlight /\ Sound(req[r], user) /\ req[r].step = "commit"
  BY Known DEF Commit
<1>2. req' = [req EXCEPT ![r] = Resting] /\ UNCHANGED <<login, drawn, slots, now>>
  BY DEF Commit, Answers, table
<1>3. CASE row = NoRow
  BY <1>1, <1>2, <1>3, Known, RestingIsSound, StepsOn DEF Commit, table, Resting
<1>4. CASE row # NoRow
  <2>1. sessions' = Kept(rows) /\ swept' = Swept
    BY <1>4 DEF Commit
  <2>2. swept' \in 0..now
    BY <2>1, Known DEF Swept
  <2>3. tokens \subseteq 1..drawn
    BY Known DEF FindsItsRow
  <2>4. ASSUME NEW t \in tokens
        PROVE  rows[t] \in Row /\ Proven(rows[t])
    <3>1. row \in Row /\ Proven(row)
      BY <1>1, <1>4 DEF InFlight, Sound
    <3>2. CASE t = k /\ ~OnlyRefreshed(row)
      <4>1. rows[t] = [row EXCEPT !.expires = now + Idle] /\ now + Idle \in Nat
        BY <3>2, Known, WindowsAreOrdered DEF Written
      <4> HIDE DEF row, rows
      <4>2. rows[t] \in Row /\ rows[t].by = row.by /\ rows[t].proved = row.proved
            /\ rows[t].bound = row.bound
        BY <3>1, <4>1 DEF Row
      <4> QED
        BY <3>1, <4>2 DEF Proven
    <3>3. CASE ~(t = k /\ ~OnlyRefreshed(row))
      <4>1. t \in DOMAIN sessions /\ rows[t] = sessions[t]
        BY <3>3, <2>4 DEF Written, FindsItsRow
      <4> QED
        BY <4>1, Known
    <3> QED
      BY <3>2, <3>3
  <2>5. /\ DOMAIN Kept(rows) \subseteq tokens
        /\ \A t \in DOMAIN Kept(rows) : Kept(rows)[t] = rows[t]
    BY DEF Kept
  <2>6. /\ DOMAIN sessions' \subseteq 1..drawn
        /\ \A t \in DOMAIN sessions' : sessions'[t] \in Row /\ Proven(sessions'[t])
    <3> HIDE DEF rows, tokens
    <3> QED
      BY <2>1, <2>3, <2>4, <2>5
  <2> QED
    BY <1>1, <1>2, <2>2, <2>6, RestingIsSound, StepsOn DEF Resting
<1> QED
  BY <1>3, <1>4

-----------------------------------------------------------------------------
(* The password gate.                                                       *)

LEMMA CheckKeeps ==
  ASSUME Inv, NEW r \in Request, Check(r)
  PROVE  Inv'
<1> DEFINE waits == [req[r] EXCEPT !.step = "waiting", !.seen = user]
<1>1. req[r] \in InFlight /\ Sound(req[r], user) /\ req[r].step = "check"
  BY Known DEF Check
<1>2. UNCHANGED <<login, table, slots, now>>
  BY DEF Check
<1>3. CASE req[r].op = "register" /\ user # NoUser
  BY <1>1, <1>2, <1>3, Known, EndedIsSound, StepsOn DEF Check, Ends, Ended, table
<1>4. CASE ~(req[r].op = "register" /\ user # NoUser)
  <2>1. user \in User \cup {NoUser}
    BY DEF Inv, TypeOK
  <2>2. waits \in InFlight /\ waits.step = "waiting" /\ waits.op = req[r].op
        /\ waits.row = req[r].row
    BY <1>1, <2>1 DEF InFlight
  <2>3. Sound(waits, user)
    BY <1>1, <2>2 DEF Sound
  <2>4. req' = [req EXCEPT ![r] = waits]
    BY <1>4 DEF Check
  <2> HIDE DEF waits
  <2> QED
    BY <1>1, <1>2, <2>2, <2>3, <2>4, Known, StepsOn DEF table
<1> QED
  BY <1>3, <1>4

LEMMA BusyKeeps ==
  ASSUME Inv, NEW r \in Request, Busy(r)
  PROVE  Inv'
<1>1. req[r] \in InFlight /\ Sound(req[r], user) /\ req[r].step = "waiting"
  BY Known DEF Busy, GivesUp
<1> QED
  BY <1>1, Known, EndedIsSound, StepsOn DEF Busy, Ends, Ended, table

\* A step that takes a slot or gives one back.
LEMMA SlotMoves ==
  ASSUME Inv, NEW r \in Request, NEW x \in InFlight, req' = [req EXCEPT ![r] = x],
         \/ req[r].step = "hashing" /\ x.step # "hashing" /\ slots' = slots - 1
         \/ /\ req[r].step # "hashing" /\ x.step = "hashing"
            /\ slots < Slots /\ slots' = slots + 1
  PROVE  SlotsAreHeld' /\ slots' \in Nat
<1>1. req \in [Request -> InFlight] /\ slots \in Nat /\ slots <= Slots /\ Slots \in Nat
      /\ slots = Cardinality(Hashing(req))
  BY SlotsArePositive DEF Inv, TypeOK, SlotsAreHeld, Hashing
<1>2. IsFiniteSet(Hashing(req))
  BY RequestsAreFinite, FS_Subset DEF Hashing
<1>3. CASE req[r].step = "hashing" /\ x.step # "hashing" /\ slots' = slots - 1
  <2>1. Hashing(req') = Hashing(req) \ {r} /\ r \in Hashing(req)
    BY <1>1, <1>3 DEF Hashing
  <2>2. Cardinality(Hashing(req) \ {r}) = Cardinality(Hashing(req)) - 1
    BY <1>2, <2>1, FS_RemoveElement
  <2>3. Cardinality(Hashing(req)) # 0
    BY <1>2, <2>1, FS_EmptySet
  <2>4. Cardinality(Hashing(req')) = slots - 1 /\ slots # 0
    BY <1>1, <2>1, <2>2, <2>3
  <2> QED
    BY <1>1, <1>3, <2>4 DEF SlotsAreHeld, Hashing
<1>4. CASE req[r].step # "hashing" /\ x.step = "hashing" /\ slots < Slots /\ slots' = slots + 1
  <2>1. Hashing(req') = Hashing(req) \cup {r} /\ r \notin Hashing(req)
    BY <1>1, <1>4 DEF Hashing
  <2>2. Cardinality(Hashing(req) \cup {r}) = Cardinality(Hashing(req)) + 1
    BY <1>2, <2>1, FS_AddElement
  <2>3. Cardinality(Hashing(req')) = slots + 1
    BY <1>1, <2>1, <2>2
  <2> QED
    BY <1>1, <1>4, <2>3 DEF SlotsAreHeld, Hashing
<1> QED
  BY <1>3, <1>4

LEMMA SlotStepKeeps ==
  ASSUME Inv, NEW r \in Request, NEW x \in InFlight, req' = [req EXCEPT ![r] = x],
         Sound(x, user), UNCHANGED <<login, table, now>>,
         \/ req[r].step = "hashing" /\ x.step # "hashing" /\ slots' = slots - 1
         \/ /\ req[r].step # "hashing" /\ x.step = "hashing"
            /\ slots < Slots /\ slots' = slots + 1
  PROVE  Inv'
<1>1. req' \in [Request -> InFlight] /\ RequestsSound'
  BY OneMoves DEF login
<1>2. SlotsAreHeld' /\ slots' \in Nat
  BY SlotMoves
<1> QED
  BY <1>1, <1>2 DEF Inv, TypeOK, SessionsProven, login, table

LEMMA AcquireKeeps ==
  ASSUME Inv, NEW r \in Request, Acquire(r)
  PROVE  Inv'
<1> DEFINE x == [req[r] EXCEPT !.step = "hashing"]
<1>1. req[r] \in InFlight /\ Sound(req[r], user) /\ req[r].step = "waiting"
  BY Known DEF Acquire
<1>2. x \in InFlight /\ x.step = "hashing" /\ x.op = req[r].op /\ x.row = req[r].row
  BY <1>1 DEF InFlight
<1>3. Sound(x, user)
  BY <1>1, <1>2 DEF Sound
<1>4. req' = [req EXCEPT ![r] = x] /\ slots < Slots /\ slots' = slots + 1
      /\ UNCHANGED <<login, table, now>>
  BY DEF Acquire, Goes
<1> HIDE DEF x
<1> QED
  BY <1>1, <1>2, <1>3, <1>4, SlotStepKeeps

LEMMA ComputedKeeps ==
  ASSUME Inv, NEW r \in Request, Computed(r)
  PROVE  Inv'
<1>1. req[r] \in InFlight /\ Sound(req[r], user) /\ req[r].step = "hashing"
      /\ UNCHANGED <<login, table, now>>
  BY Known DEF Computed
<1>2. PICK right \in BOOLEAN :
        /\ right => req[r].seen # NoUser \/ req[r].op = "register"
        /\ slots' = slots - 1
        /\ IF right
             THEN req' = [req EXCEPT ![r].step = After(r),
                                     ![r].proved = IF req[r].seen = NoUser THEN 0
                                                   ELSE req[r].seen.hash]
             ELSE Ends(r)
  BY DEF Computed, Releases
<1>3. CASE ~right
  BY <1>1, <1>2, <1>3, EndedIsSound, SlotStepKeeps DEF Ends, Ended
<1>4. CASE right
  <2> DEFINE known == IF req[r].seen = NoUser THEN 0 ELSE req[r].seen.hash
             x == [req[r] EXCEPT !.step = After(r), !.proved = known]
  <2>1. known \in 0..MaxSets /\ (req[r].seen # NoUser => known # 0)
    BY <1>1, BoundsAreNatural DEF InFlight, User
  <2>2. /\ After(r) \in {"renew", "waiting", "transact"}
        /\ req[r].op = "login" => After(r) = "renew"
        /\ After(r) = "renew" => req[r].op = "login"
    BY DEF After
  <2>3. /\ x \in InFlight /\ x.step = After(r) /\ x.op = req[r].op /\ x.row = req[r].row
        /\ x.seen = req[r].seen /\ x.proved = known
    <3> HIDE DEF known
    <3> QED
      BY <1>1, <2>1, <2>2 DEF InFlight
  <2>4. req' = [req EXCEPT ![r] = x]
    BY <1>2, <1>4
  <2>5. Sound(x, user)
    <3>1. req[r].op # "register" => req[r].seen # NoUser /\ known # 0
      BY <1>2, <1>4, <2>1
    <3>2. req[r].seen # NoUser => known = req[r].seen.hash
      OBVIOUS
    <3> HIDE DEF x, known
    <3> QED
      BY <1>1, <2>2, <2>3, <3>1, <3>2 DEF Sound
  <2> HIDE DEF x
  <2> QED
    BY <1>1, <1>2, <2>2, <2>3, <2>4, <2>5, SlotStepKeeps
<1> QED
  BY <1>3, <1>4

-----------------------------------------------------------------------------
(* What a right password does.                                              *)

\* The next number of a password or an email.
LEMMA NextSet ==
  ASSUME Inv, sets < MaxSets
  PROVE  sets + 1 \in 1..MaxSets /\ sets + 1 \in 0..MaxSets /\ sets + 1 # 0
BY BoundsAreNatural DEF Inv, TypeOK

LEMMA LoginIsSomeone ==
  ASSUME NEW u \in User
  PROVE  u # NoUser
BY NoUserIsNoLogin, BoundsAreNatural DEF User

LEMMA RegisterKeeps ==
  ASSUME Inv, NEW r \in Request, Register(r)
  PROVE  Inv'
<1>1. req[r] \in InFlight /\ Sound(req[r], user) /\ req[r].step = "transact"
      /\ req[r].op = "register" /\ UNCHANGED <<table, slots, now>>
  BY Known DEF Register
<1>2. CASE NoLoginYet
  <2> DEFINE x == [req[r] EXCEPT !.step = "renew", !.seen = user', !.proved = user'.hash]
  <2>1. sets < MaxSets /\ sets' = sets + 1 /\ user' = [hash |-> sets + 1, email |-> sets + 1]
        /\ req' = [req EXCEPT ![r] = x]
    BY <1>2 DEF Register
  <2>2. user' \in User /\ user' # NoUser /\ user'.hash # 0 /\ user'.hash \in 0..MaxSets
        /\ sets' \in 0..MaxSets
    BY <2>1, NextSet, LoginIsSomeone DEF User
  <2>3. x \in InFlight /\ x.step = "renew" /\ x.op = "register" /\ x.row = req[r].row
        /\ x.seen = user' /\ x.proved = user'.hash
    BY <1>1, <2>2 DEF InFlight
  <2>4. Sound(x, user')
    BY <1>1, <2>2, <2>3 DEF Sound
  <2> HIDE DEF x
  <2>5. req' \in [Request -> InFlight] /\ RequestsSound' /\ SlotsAreHeld' /\ slots' \in Nat
    BY <1>1, <2>1, <2>2, <2>3, <2>4, OneMoves, SlotsStand
  <2> QED
    BY <1>1, <2>2, <2>5 DEF Inv, TypeOK, SessionsProven, table
<1>3. CASE ~NoLoginYet
  BY <1>1, <1>3, Known, EndedIsSound, StepsOn DEF Register, Ends, Ended, table
<1> QED
  BY <1>2, <1>3

LEMMA ChangeCredentialKeeps ==
  ASSUME Inv, NEW r \in Request, ChangeCredential(r)
  PROVE  Inv'
<1> DEFINE x == [req[r] EXCEPT !.step = "renew", !.seen = user',
                               !.proved = IF req[r].op = "password" THEN user'.hash
                                         ELSE req[r].proved]
<1>1. /\ req[r] \in InFlight /\ Sound(req[r], user) /\ req[r].step = "transact"
      /\ req[r].op \in {"password", "email"}
      /\ sets < MaxSets /\ sets' = sets + 1
      /\ user' = IF req[r].op = "password" THEN [user EXCEPT !.hash = sets + 1]
                 ELSE [user EXCEPT !.email = sets + 1]
      /\ UNCHANGED <<drawn, swept, slots, now>>
  BY Known DEF ChangeCredential
<1>2. user \in User /\ req[r].proved # 0
  BY <1>1 DEF Sound, Inv, TypeOK
<1>3. user' \in User /\ user' # NoUser /\ user'.hash # 0 /\ user'.hash \in 0..MaxSets
      /\ sets' \in 0..MaxSets
  <2>1. user' \in User
    BY <1>1, <1>2, NextSet DEF User
  <2>2. user'.hash \in 1..MaxSets
    BY <2>1 DEF User
  <2> QED
    BY <1>1, <2>1, <2>2, NextSet, LoginIsSomeone, BoundsAreNatural
<1>4. x \in InFlight /\ x.step = "renew" /\ x.op = req[r].op /\ x.row = req[r].row
      /\ x.seen = user' /\ x.proved # 0
  BY <1>1, <1>2, <1>3 DEF InFlight
<1>5. Sound(x, user')
  BY <1>1, <1>3, <1>4 DEF Sound
<1>6. req' = [req EXCEPT ![r] = x]
  <2> DEFINE known == IF req[r].op = "password" THEN user'.hash ELSE req[r].proved
  <2>1. req' = [req EXCEPT ![r].step = "renew", ![r].seen = user', ![r].proved = known]
    BY DEF ChangeCredential
  <2> HIDE DEF known
  <2>2. [req EXCEPT ![r].step = "renew", ![r].seen = user', ![r].proved = known]
          = [req EXCEPT ![r] = [req[r] EXCEPT !.step = "renew", !.seen = user',
                                              !.proved = known]]
    OBVIOUS
  <2> QED
    BY <2>1, <2>2 DEF known
<1>7. sessions' = Without(DOMAIN sessions \ {req[r].token})
  BY DEF ChangeCredential
<1> HIDE DEF x
<1>8. req' \in [Request -> InFlight] /\ RequestsSound' /\ SlotsAreHeld' /\ slots' \in Nat
  BY <1>1, <1>3, <1>4, <1>5, <1>6, OneMoves, SlotsStand
<1> QED
  BY <1>1, <1>3, <1>7, <1>8, WithoutKeeps DEF Inv, TypeOK, SessionsProven

LEMMA RestoreKeeps ==
  ASSUME Inv, NEW r \in Request, Restore(r)
  PROVE  Inv'
<1>1. DOMAIN sessions' = {}
  BY DEF Restore
<1> QED
  BY <1>1, Known, RestingIsSound, StepsOn DEF Restore, Answers, Resting

LEMMA FailKeeps ==
  ASSUME Inv, NEW r \in Request, Fail(r)
  PROVE  Inv'
<1>1. req[r] \in InFlight /\ Sound(req[r], user) /\ req[r].step = "transact"
  BY Known DEF Fail
<1> QED
  BY <1>1, Known, EndedIsSound, StepsOn DEF Fail, Ends, Ended, table

LEMMA RenewKeeps ==
  ASSUME Inv, NEW r \in Request, Renew(r)
  PROVE  Inv'
<1> DEFINE row == [bound |-> Binds(r), expires |-> 0, by |-> req[r].op,
                   proved |-> req[r].proved]
           x == [req[r] EXCEPT !.step = "insert", !.seen = NoUser, !.token = 0,
                               !.proved = 0, !.row = row]
<1>1. /\ req[r] \in InFlight /\ Sound(req[r], user) /\ req[r].step = "renew"
      /\ sessions' = Without({req[r].token}) /\ req' = [req EXCEPT ![r] = x]
      /\ UNCHANGED <<login, drawn, swept, slots, now>>
  BY Known DEF Renew
<1>2. req[r].seen \in User /\ req[r].proved \in 1..MaxSets
      /\ (req[r].op = "login" => req[r].proved = req[r].seen.hash)
  BY <1>1, BoundsAreNatural DEF Sound, InFlight
<1>3. Binds(r) = <<req[r].seen.hash, req[r].seen.email>>
      /\ Binds(r) \in (1..MaxSets) \X (1..MaxSets) /\ Binds(r)[1] = req[r].seen.hash
  BY <1>2 DEF Binds, Fingerprint, User
<1>4. row \in Row /\ Proven(row)
  <2>1. req[r].op \in Op
    BY <1>1 DEF InFlight
  <2> QED
    BY <1>2, <1>3, <2>1 DEF Row, Proven
<1> HIDE DEF row
<1>5. x \in InFlight /\ x.step = "insert" /\ x.op = req[r].op /\ x.row = row
  <2>1. 0 \in 0..MaxSets
    BY BoundsAreNatural
  <2> QED
    BY <1>1, <1>4, <2>1 DEF InFlight
<1> HIDE DEF x
<1>6. Sound(x, user)
  BY <1>1, <1>4, <1>5 DEF Sound
<1> QED
  BY <1>1, <1>5, <1>6, Known, WithoutKeeps, StepsOn

LEMMA InsertKeeps ==
  ASSUME Inv, NEW r \in Request, Insert(r)
  PROVE  Inv'
<1> DEFINE row == [req[r].row EXCEPT !.expires = now + Idle]
           tokens == DOMAIN sessions \cup {drawn'}
           rows == [k \in tokens |-> IF k = drawn' THEN row ELSE sessions[k]]
<1>1. /\ req[r] \in InFlight /\ Sound(req[r], user) /\ req[r].step = "insert"
      /\ drawn < MaxTokens /\ drawn' = drawn + 1
      /\ sessions' = Kept(rows) /\ swept' = Swept
      /\ req' = [req EXCEPT ![r] = Resting] /\ UNCHANGED <<login, slots, now>>
  BY Known DEF Insert, Answers
<1>2. drawn' \in 0..MaxTokens /\ tokens \subseteq 1..drawn'
  BY <1>1, Known, BoundsAreNatural
<1>3. row \in Row /\ Proven(row)
  <2>1. req[r].row \in Row /\ Proven(req[r].row) /\ now + Idle \in Nat
    BY <1>1, Known, WindowsAreOrdered DEF Sound
  <2>2. row \in Row /\ row.by = req[r].row.by /\ row.proved = req[r].row.proved
        /\ row.bound = req[r].row.bound
    BY <2>1 DEF Row
  <2> QED
    BY <2>1, <2>2 DEF Proven
<1>4. ASSUME NEW k \in tokens
      PROVE  rows[k] \in Row /\ Proven(rows[k])
  <2>1. CASE k = drawn'
    BY <1>3, <2>1
  <2>2. CASE k # drawn'
    BY <2>2, Known
  <2> QED
    BY <2>1, <2>2
<1>5. /\ DOMAIN Kept(rows) \subseteq tokens
      /\ \A k \in DOMAIN Kept(rows) : Kept(rows)[k] = rows[k]
  BY DEF Kept
<1>6. /\ DOMAIN sessions' \subseteq 1..drawn'
      /\ \A k \in DOMAIN sessions' : sessions'[k] \in Row /\ Proven(sessions'[k])
  <2> HIDE DEF rows, tokens
  <2> QED
    BY <1>1, <1>2, <1>4, <1>5
<1>7. swept' \in 0..now
  BY <1>1, Known DEF Swept
<1>8. req' \in [Request -> InFlight] /\ RequestsSound' /\ SlotsAreHeld' /\ slots' \in Nat
  BY <1>1, RestingIsSound, OneMoves, SlotsStand DEF Resting, login
<1> QED
  BY <1>1, <1>2, <1>6, <1>7, <1>8 DEF Inv, TypeOK, SessionsProven, login

-----------------------------------------------------------------------------
(* The operator, the process and the clock.                                 *)

LEMMA SetLoginKeeps ==
  ASSUME Inv, SetLogin
  PROVE  Inv'
<1>1. /\ sets < MaxSets /\ sets' = sets + 1 /\ UNCHANGED <<drawn, swept, slots, req, now>>
      /\ user \in User \cup {NoUser}
  BY DEF SetLogin, Inv, TypeOK
<1>2. user' \in User
  <2>1. CASE user = NoUser
    BY <1>1, <2>1, NextSet DEF SetLogin, User
  <2>2. CASE user # NoUser
    BY <1>1, <2>2, NextSet DEF SetLogin, User
  <2> QED
    BY <2>1, <2>2
<1>3. user' # NoUser
  BY <1>2, LoginIsSomeone
<1>4. /\ DOMAIN sessions' \subseteq 1..drawn
      /\ \A k \in DOMAIN sessions' : sessions'[k] \in Row /\ Proven(sessions'[k])
  <2>1. DOMAIN sessions' = {} \/ sessions' = sessions
    BY DEF SetLogin
  <2> QED
    BY <2>1, Known
<1>5. RequestsSound'
  BY <1>1, <1>3, Known DEF RequestsSound, Sound
<1>6. SlotsAreHeld'
  BY <1>1 DEF Inv, SlotsAreHeld
<1> QED
  BY <1>1, <1>2, <1>4, <1>5, <1>6, NextSet DEF Inv, TypeOK, SessionsProven

LEMMA RestartKeeps ==
  ASSUME Inv, Restart
  PROVE  Inv'
<1>1. req' = [r \in Request |-> Resting] /\ slots' = 0 /\ swept' = 0
      /\ UNCHANGED <<login, sessions, drawn, now>>
  BY DEF Restart
<1>2. req' \in [Request -> InFlight] /\ RequestsSound'
  BY <1>1, RestingIsSound DEF RequestsSound
<1>3. Hashing(req') = {}
  BY <1>1 DEF Hashing, Resting
<1>4. SlotsAreHeld'
  BY <1>1, <1>3, FS_EmptySet, SlotsArePositive DEF SlotsAreHeld, Hashing
<1> QED
  BY <1>1, <1>2, <1>4, Known DEF Inv, TypeOK, SessionsProven, login

LEMMA TickKeeps ==
  ASSUME Inv, Tick
  PROVE  Inv'
<1>1. now' = now + 1 /\ now' \in 0..MaxClock /\ swept \in 0..now'
      /\ UNCHANGED <<login, table, slots, req>>
  BY BoundsAreNatural DEF Tick, Inv, TypeOK
<1> QED
  BY <1>1 DEF Inv, TypeOK, SessionsProven, RequestsSound, SlotsAreHeld, login, table

-----------------------------------------------------------------------------
(* The specification.                                                       *)

LEMMA InvInit ==
  ASSUME Init
  PROVE  Inv
<1>1. req \in [Request -> InFlight] /\ RequestsSound
  BY RestingIsSound DEF Init, RequestsSound
<1>2. Hashing(req) = {}
  BY DEF Init, Hashing, Resting
<1>3. SlotsAreHeld
  <2>1. slots = 0
    BY DEF Init
  <2> QED
    BY <1>2, <2>1, FS_EmptySet, SlotsArePositive DEF SlotsAreHeld, Hashing
<1>4. DOMAIN sessions = {}
  BY DEF Init
<1> QED
  BY <1>1, <1>3, <1>4, BoundsAreNatural DEF Init, Inv, TypeOK, SessionsProven

LEMMA InvStep ==
  ASSUME Inv, [Next]_vars
  PROVE  Inv'
<1>1. CASE UNCHANGED vars
  BY <1>1 DEF vars, Inv, TypeOK, SessionsProven, RequestsSound, SlotsAreHeld
<1>2. ASSUME NEW r \in Request, NEW op \in Op, NEW k \in 0..drawn, Arrive(r, op, k)
      PROVE  Inv'
  BY <1>2, ArriveKeeps
<1>3. ASSUME NEW r \in Request, Work(r)
      PROVE  Inv'
  BY <1>3, GateKeeps, LogoutKeeps, CommitKeeps, CheckKeeps, ComputedKeeps, RegisterKeeps,
     ChangeCredentialKeeps, RestoreKeeps, FailKeeps, RenewKeeps, InsertKeeps DEF Work
<1>4. ASSUME NEW r \in Request, Acquire(r) \/ Busy(r)
      PROVE  Inv'
  BY <1>4, AcquireKeeps, BusyKeeps
<1>5. CASE SetLogin \/ Restart \/ Tick
  BY <1>5, SetLoginKeeps, RestartKeeps, TickKeeps
<1> QED
  BY <1>1, <1>2, <1>3, <1>4, <1>5 DEF Next

\* The invariant holds in every reachable state.
THEOREM InvHolds == Spec => []Inv
<1>1. Init => Inv
  BY InvInit
<1>2. Inv /\ [Next]_vars => Inv'
  BY InvStep
<1> QED
  BY <1>1, <1>2, PTL DEF Spec

\* Every variable keeps its type: the login, the rows of the sessions table and
\* what each request carries.
THEOREM TypeCorrect == Spec => []TypeOK
<1>1. Inv => TypeOK
  BY DEF Inv
<1> QED
  BY <1>1, InvHolds, PTL

\* The slots taken are the computations that run, never more than there are, on
\* every path out of the gate: a wait given up, a wrong password, a restart.
THEOREM NoSlotLeaks == Spec => []SlotsAreHeld
<1>1. Inv => SlotsAreHeld
  BY DEF Inv
<1> QED
  BY <1>1, InvHolds, PTL

\* A session of a login that the gate accepts proved the password of today,
\* however many changes, resets and logins were in flight together.
THEOREM LoginsProve == Spec => []LoginProvedThePassword
<1>1. Inv => LoginProvedThePassword
  <2>1. SUFFICES ASSUME Inv, NEW k \in DOMAIN sessions, Accepted(sessions[k]),
                        sessions[k].by = "login"
                 PROVE  sessions[k].proved = user.hash
    BY DEF LoginProvedThePassword
  <2>2. sessions[k].proved = sessions[k].bound[1]
    BY <2>1, Known DEF Proven
  <2>3. sessions[k].bound = <<user.hash, user.email>>
    BY <2>1 DEF Accepted, Fingerprint
  <2> QED
    BY <2>2, <2>3
<1> QED
  BY <1>1, InvHolds, PTL

\* Only an insert of a token that is drawn there adds a row to the table.
LEMMA OnlyInsertAdds ==
  ASSUME Inv, [Next]_vars
  PROVE  \A k \in 1..drawn : k \notin DOMAIN sessions => k \notin DOMAIN sessions'
<1>1. CASE UNCHANGED sessions
  BY <1>1
<1>2. ASSUME NEW gone, sessions' = Without(gone)
      PROVE  DOMAIN sessions' \subseteq DOMAIN sessions
  BY <1>2 DEF Without
<1>3. CASE DOMAIN sessions' \subseteq DOMAIN sessions
  BY <1>3
<1>4. ASSUME NEW r \in Request, Commit(r)
      PROVE  DOMAIN sessions' \subseteq DOMAIN sessions
  <2>1. CASE req[r].row = NoRow
    BY <1>4, <2>1 DEF Commit, table
  <2>2. CASE req[r].row # NoRow
    <3> DEFINE k == req[r].token
               tokens == DOMAIN sessions
                           \cup {u \in {k} : ~OnlyRefreshed(req[r].row) /\ FindsItsRow(r)}
               rows == [t \in tokens |-> IF t = k THEN Written(k, req[r].row)
                                         ELSE sessions[t]]
    <3>1. sessions' = Kept(rows) /\ tokens \subseteq DOMAIN sessions
      BY <1>4, <2>2 DEF Commit, FindsItsRow
    <3>2. DOMAIN Kept(rows) \subseteq tokens
      BY DEF Kept
    <3> QED
      BY <3>1, <3>2
  <2> QED
    BY <2>1, <2>2
<1>5. ASSUME NEW r \in Request, Insert(r), NEW k \in 1..drawn, k \notin DOMAIN sessions
      PROVE  k \notin DOMAIN sessions'
  <2>1. k # drawn' /\ DOMAIN sessions' \subseteq DOMAIN sessions \cup {drawn'}
    BY <1>5, Known DEF Insert, Kept
  <2> QED
    BY <1>5, <2>1
<1>6. ASSUME NEW r \in Request,
             Gate(r) \/ Logout(r) \/ ChangeCredential(r) \/ Restore(r) \/ Renew(r)
      PROVE  DOMAIN sessions' \subseteq DOMAIN sessions
  BY <1>2, <1>6 DEF Gate, Logout, ChangeCredential, Restore, Renew
<1>7. ASSUME NEW r \in Request,
             \/ Check(r) \/ Computed(r) \/ Register(r) \/ Fail(r) \/ Acquire(r) \/ Busy(r)
             \/ \E op \in Op, k \in 0..drawn : Arrive(r, op, k)
      PROVE  UNCHANGED sessions
  BY <1>7 DEF Check, Computed, Register, Fail, Acquire, Busy, Arrive, table
<1>8. CASE SetLogin \/ Restart \/ Tick
  <2>1. DOMAIN sessions' \subseteq DOMAIN sessions
    BY <1>8 DEF SetLogin, Restart, Tick, table
  <2> QED
    BY <2>1
<1>9. ASSUME NEW r \in Request, Work(r), ~Insert(r)
      PROVE  DOMAIN sessions' \subseteq DOMAIN sessions
  <2>1. \/ Commit(r)
        \/ Gate(r) \/ Logout(r) \/ ChangeCredential(r) \/ Restore(r) \/ Renew(r)
        \/ Check(r) \/ Computed(r) \/ Register(r) \/ Fail(r)
    BY <1>9 DEF Work
  <2>2. CASE Commit(r)
    BY <2>2, <1>4
  <2>3. CASE Gate(r) \/ Logout(r) \/ ChangeCredential(r) \/ Restore(r) \/ Renew(r)
    BY <2>3, <1>6
  <2>4. CASE Check(r) \/ Computed(r) \/ Register(r) \/ Fail(r)
    <3>1. UNCHANGED sessions
      BY <2>4, <1>7
    <3> QED
      BY <3>1
  <2> QED
    BY <2>1, <2>2, <2>3, <2>4
<1> QED
  BY <1>1, <1>3, <1>5, <1>7, <1>8, <1>9 DEF Next, vars

\* A session whose row was deleted never comes back, whatever request that had
\* loaded it is still in flight.
THEOREM RevokedSessionsStayAway == Spec => RevokedStaysRevoked
<1>1. Inv /\ [Next]_vars =>
        [\A k \in 1..drawn : k \notin DOMAIN sessions => k \notin DOMAIN sessions']_vars
  BY OnlyInsertAdds
<1> QED
  BY <1>1, InvHolds, PTL DEF Spec, RevokedStaysRevoked
=============================================================================
