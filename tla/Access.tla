------------------------------- MODULE Access -------------------------------
(***************************************************************************)
(* The one login of an instance, and its sessions.                         *)
(*                                                                         *)
(* A request loads the session its cookie names, works, and writes the     *)
(* session back when it answers.  Meanwhile other requests sign in, sign   *)
(* out, change the password or the email, or restore a backup, each of     *)
(* which deletes session rows; and every password that is computed takes   *)
(* one of a few slots.  Each read, transaction and write of a request is a *)
(* step of its own.                                                        *)
(*                                                                         *)
(* A password and an email are the number of times they were set; a        *)
(* credential fingerprint is the pair.  Session tokens are numbered as they *)
(* are drawn.  Whether a typed password is the right one, and whether a    *)
(* wait for a slot is given up, are choices.                               *)
(***************************************************************************)
EXTENDS Naturals, FiniteSets

CONSTANTS
  Request,        \* the requests that may be in flight at once
  NoUser,         \* no login yet
  NoRow,          \* no session row was loaded
  Slots,          \* password computations that run at once
  Idle,           \* a session's idle window
  Refresh,        \* a slide of the expiry shorter than this is not written
  MaxTokens,      \* sessions opened
  MaxSets,        \* passwords and emails set
  MaxClock

ASSUME SlotsArePositive == Slots \in Nat \ {0}
ASSUME WindowsAreOrdered == Idle \in Nat /\ Refresh \in 1..Idle
ASSUME RequestsAreFinite == IsFiniteSet(Request)
ASSUME NoUserIsNoLogin == NoUser \notin [hash : Nat, email : Nat]
ASSUME BoundsAreNatural == MaxTokens \in Nat /\ MaxSets \in Nat /\ MaxClock \in Nat

VARIABLES
  user,       \* the one row of table user
  sets,       \* how many passwords and emails were set
  sessions,   \* table session; by and proved are history
  drawn,      \* session tokens drawn
  swept,      \* when expired rows were last swept
  slots,      \* slots taken
  req,        \* the requests
  now

vars == <<user, sets, sessions, drawn, swept, slots, req, now>>
login == <<user, sets>>
table == <<sessions, drawn, swept>>

Gated == {"use", "password", "email", "restore"}
Op == Gated \cup {"login", "register", "logout"}
Resting == [op |-> "use", step |-> "idle", token |-> 0, row |-> NoRow, seen |-> NoUser,
            proved |-> 0]

Fingerprint(u) == <<u.hash, u.email>>
Without(tokens) == [k \in DOMAIN sessions \ tokens |-> sessions[k]]
Live(k) == k \in DOMAIN sessions /\ sessions[k].expires > now
\* What the session gate asks of a row.
Accepted(row) == user # NoUser /\ row # NoRow /\ row.bound = Fingerprint(user)

Init ==
  /\ user = NoUser /\ sets = 0
  /\ sessions = <<>> /\ drawn = 0 /\ swept = 0
  /\ slots = 0
  /\ req = [r \in Request |-> Resting]
  /\ now = 0

Goes(r, step) == req' = [req EXCEPT ![r].step = step]
Answers(r) == req' = [req EXCEPT ![r] = Resting]
\* Nothing is left to do but to answer.
Ends(r) == req' = [req EXCEPT ![r] = [@ EXCEPT !.op = "use", !.step = "commit",
                                               !.seen = NoUser, !.proved = 0]]

----------------------------------------------------------------------------
(* A request and its session. *)

\* scs loads the row the cookie names, if it is still inside its window.
Arrive(r, op, k) ==
  /\ req[r].step = "idle"
  /\ req' = [req EXCEPT ![r] =
               [Resting EXCEPT !.op = op,
                               !.step = IF op \in Gated THEN "gate"
                                        ELSE IF op = "logout" THEN "logout" ELSE "check",
                               !.token = IF Live(k) THEN k ELSE 0,
                               !.row = IF Live(k) THEN sessions[k] ELSE NoRow]]
  /\ UNCHANGED <<login, table, slots, now>>

\* signedIn: a session that is not bound to the login as it is now is destroyed.
Gate(r) ==
  /\ req[r].step = "gate"
  /\ IF Accepted(req[r].row)
       THEN /\ IF req[r].op = "use" THEN Ends(r) ELSE Goes(r, "check")
            /\ UNCHANGED sessions
       ELSE /\ Answers(r)
            /\ sessions' = Without({req[r].token})
  /\ UNCHANGED <<login, drawn, swept, slots, now>>

Logout(r) ==
  /\ req[r].step = "logout"
  /\ sessions' = Without({req[r].token})
  /\ Answers(r)
  /\ UNCHANGED <<login, drawn, swept, slots, now>>

\* The expiry moves too little to be worth a write.
OnlyRefreshed(row) == now + Idle < row.expires + Refresh

\* Mutant: an UPSERT.
WritesAnyway(r) == TRUE
\* A loaded session is written back by an UPDATE, which may find no row.
FindsItsRow(r) == req[r].token \in DOMAIN sessions

\* The sweep of expired rows that rides on a commit.
Sweeps == now >= swept + Refresh
Kept(rows) == [k \in {t \in DOMAIN rows : Sweeps => rows[t].expires > now} |-> rows[k]]
\* When the last sweep was.
Swept == IF Sweeps THEN now ELSE swept

\* What a commit leaves in the row: the contents it loaded and a new expiry, or
\* the row as it is when that would only slide it a little.
Written(k, row) ==
  IF OnlyRefreshed(row) THEN sessions[k] ELSE [row EXCEPT !.expires = now + Idle]

\* The answer is written: scs commits the loaded session.
Commit(r) ==
  LET row == req[r].row
      k == req[r].token
  IN  /\ req[r].step = "commit"
      /\ IF row = NoRow
           THEN UNCHANGED table
           ELSE /\ sessions' =
                     Kept([t \in DOMAIN sessions \cup {u \in {k} : ~OnlyRefreshed(row)
                                                                 /\ FindsItsRow(r)} |->
                             IF t = k THEN Written(k, row) ELSE sessions[t]])
                /\ swept' = Swept
                /\ UNCHANGED drawn
      /\ Answers(r)
      /\ UNCHANGED <<login, slots, now>>

----------------------------------------------------------------------------
(* The password gate. *)

\* The login as it is, read before the password is looked at.  A register on an
\* instance that has its login is refused before it costs a computation.
Check(r) ==
  /\ req[r].step = "check"
  /\ IF req[r].op = "register" /\ user # NoUser
       THEN Ends(r)
       ELSE req' = [req EXCEPT ![r].step = "waiting", ![r].seen = user]
  /\ UNCHANGED <<login, table, slots, now>>

Acquire(r) ==
  /\ req[r].step = "waiting"
  /\ slots < Slots
  /\ slots' = slots + 1
  /\ Goes(r, "hashing")
  /\ UNCHANGED <<login, table, now>>

\* Mutant: a wait has no end but a slot.
WaitsOn(r) == FALSE
\* The timer fires, or the client leaves.
GivesUp(r) == req[r].step = "waiting"

Busy(r) ==
  /\ GivesUp(r)
  /\ Ends(r)
  /\ UNCHANGED <<login, table, slots, now>>

\* Mutant: a wrong password keeps the slot.
ReleasesIf(right) == IF right THEN 1 ELSE 0
\* The slot a computation gives back, whatever it found.
Releases(right) == 1

\* What follows a computation: a new password is hashed after the old one was
\* verified, a register only hashes.
After(r) ==
  CASE req[r].op = "login" -> "renew"
    [] req[r].op = "password" /\ req[r].proved = 0 -> "waiting"
    [] OTHER -> "transact"

Computed(r) ==
  /\ req[r].step = "hashing"
  /\ \E right \in BOOLEAN :
       /\ right => req[r].seen # NoUser \/ req[r].op = "register"
       /\ ~right => req[r].op # "register" /\ req[r].proved = 0
       /\ slots' = slots - Releases(right)
       /\ IF right
            THEN req' = [req EXCEPT ![r].step = After(r),
                                    ![r].proved = IF req[r].seen = NoUser THEN 0
                                                  ELSE req[r].seen.hash]
            ELSE Ends(r)
  /\ UNCHANGED <<login, table, now>>

----------------------------------------------------------------------------
(* What a right password does. *)

\* Counted in the transaction of the insert.
NoLoginYet == user = NoUser

Register(r) ==
  /\ req[r].step = "transact" /\ req[r].op = "register"
  /\ IF NoLoginYet
       THEN /\ sets < MaxSets
            /\ sets' = sets + 1
            /\ user' = [hash |-> sets + 1, email |-> sets + 1]
            /\ req' = [req EXCEPT ![r].step = "renew", ![r].seen = user',
                                  ![r].proved = user'.hash]
       ELSE /\ Ends(r)
            /\ UNCHANGED login
  /\ UNCHANGED <<table, slots, now>>

\* The new credential, and every other session's row deleted, in one transaction.
ChangeCredential(r) ==
  /\ req[r].step = "transact" /\ req[r].op \in {"password", "email"}
  /\ sets < MaxSets
  /\ sets' = sets + 1
  /\ user' = IF req[r].op = "password" THEN [user EXCEPT !.hash = sets + 1]
             ELSE [user EXCEPT !.email = sets + 1]
  /\ sessions' = Without(DOMAIN sessions \ {req[r].token})
  /\ req' = [req EXCEPT ![r].step = "renew", ![r].seen = user',
                        ![r].proved = IF req[r].op = "password" THEN user'.hash
                                      ELSE req[r].proved]
  /\ UNCHANGED <<drawn, swept, slots, now>>

\* The restore's transaction deletes every session; then its own is destroyed.
Restore(r) ==
  /\ req[r].step = "transact" /\ req[r].op = "restore"
  /\ sessions' = <<>>
  /\ Answers(r)
  /\ UNCHANGED <<login, drawn, swept, slots, now>>

\* The transaction fails and is rolled back.
Fail(r) ==
  /\ req[r].step = "transact"
  /\ Ends(r)
  /\ UNCHANGED <<login, table, slots, now>>

\* Mutant: a login binds its session to the login as it is by then.
BindsToLatest(r) == Fingerprint(user)
\* The credential a new session is bound to: the row that was verified, or the
\* one the change returned.
Binds(r) == Fingerprint(req[r].seen)

\* RenewToken deletes the old row ...
Renew(r) ==
  /\ req[r].step = "renew"
  /\ drawn < MaxTokens
  /\ sessions' = Without({req[r].token})
  /\ req' = [req EXCEPT ![r].step = "insert", ![r].seen = NoUser, ![r].token = 0,
                        ![r].proved = 0,
                        ![r].row = [bound |-> Binds(r), expires |-> 0, by |-> req[r].op,
                                    proved |-> req[r].proved]]
  /\ UNCHANGED <<login, drawn, swept, slots, now>>

\* ... and the answer inserts the new one.
Insert(r) ==
  /\ req[r].step = "insert"
  /\ drawn < MaxTokens
  /\ drawn' = drawn + 1
  /\ sessions' = Kept([k \in DOMAIN sessions \cup {drawn'} |->
                         IF k = drawn' THEN [req[r].row EXCEPT !.expires = now + Idle]
                         ELSE sessions[k]])
  /\ swept' = Swept
  /\ Answers(r)
  /\ UNCHANGED <<login, slots, now>>

----------------------------------------------------------------------------
(* The operator's create-user, the process and the clock. *)

\* In another process: the login is created, or its password is reset and every
\* session deleted.
SetLogin ==
  /\ sets < MaxSets
  /\ sets' = sets + 1
  /\ IF user = NoUser
       THEN /\ user' = [hash |-> sets + 1, email |-> sets + 1]
            /\ UNCHANGED sessions
       ELSE /\ user' = [user EXCEPT !.hash = sets + 1]
            /\ sessions' = <<>>
  /\ UNCHANGED <<drawn, swept, slots, req, now>>

\* Requests, slots and the sweep's memory are the process's; rows are not.
Restart ==
  /\ req' = [r \in Request |-> Resting]
  /\ slots' = 0 /\ swept' = 0
  /\ UNCHANGED <<login, sessions, drawn, now>>

Tick ==
  /\ now < MaxClock
  /\ now' = now + 1
  /\ UNCHANGED <<login, table, slots, req>>

Work(r) ==
  \/ Gate(r) \/ Logout(r) \/ Commit(r) \/ Check(r) \/ Computed(r)
  \/ Register(r) \/ ChangeCredential(r) \/ Restore(r) \/ Fail(r) \/ Renew(r) \/ Insert(r)

Next ==
  \/ \E r \in Request :
       \/ \E op \in Op, k \in 0..drawn : Arrive(r, op, k)
       \/ Work(r) \/ Acquire(r) \/ Busy(r)
  \/ SetLogin \/ Restart \/ Tick

\* A handler that runs goes on, a computation ends, and the timer of a wait fires.
Fairness == \A r \in Request : WF_vars(Work(r)) /\ WF_vars(Busy(r))

Spec == Init /\ [][Next]_vars /\ Fairness

----------------------------------------------------------------------------
User == [hash : 1..MaxSets, email : 1..MaxSets]
Row == [bound : (1..MaxSets) \X (1..MaxSets), expires : Nat, by : Op, proved : 1..MaxSets]
InFlight ==
  [op : Op,
   step : {"idle", "gate", "logout", "check", "waiting", "hashing", "transact", "renew",
           "insert", "commit"},
   token : Nat, row : Row \cup {NoRow}, seen : User \cup {NoUser}, proved : 0..MaxSets]

TypeOK ==
  /\ user \in User \cup {NoUser} /\ sets \in 0..MaxSets
  /\ drawn \in 0..MaxTokens /\ DOMAIN sessions \subseteq 1..drawn
  /\ \A k \in DOMAIN sessions : sessions[k] \in Row
  /\ swept \in 0..now /\ now \in 0..MaxClock /\ slots \in Nat
  /\ req \in [Request -> InFlight]

\* A session whose row was deleted (a logout, a change of the password or email,
\* a restore, an expiry) never comes back, whatever request that loaded it
\* before was still in flight.
RevokedStaysRevoked ==
  [][\A k \in 1..drawn : k \notin DOMAIN sessions => k \notin DOMAIN sessions']_vars

\* A login that verified a password which was changed before the login answered
\* opens no session: one that the gate accepts proved the password of today.
LoginProvedThePassword ==
  \A k \in DOMAIN sessions :
    Accepted(sessions[k]) /\ sessions[k].by = "login" => sessions[k].proved = user.hash

\* The slots taken are the computations that run, never more than there are:
\* no error path, wait given up or restart leaks or doubles one.
SlotsAreHeld ==
  /\ slots = Cardinality({r \in Request : req[r].step = "hashing"})
  /\ slots <= Slots

\* Nobody waits for a slot for good, however many guesses keep the slots busy.
EveryWaitEnds == \A r \in Request : req[r].step = "waiting" ~> req[r].step # "waiting"

=============================================================================
