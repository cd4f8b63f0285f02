------------------------- MODULE IdempotencyProofs -------------------------
(***************************************************************************)
(* What ADR-043 promises, for any number of pages, keys, requests and      *)
(* delays.  A key writes once per retention: while less than that has      *)
(* passed since a row was written, the record of its key is in the table   *)
(* and outlives it; a write finds no live record at its own stamp, which   *)
(* is never ahead of the clock, so the row it could repeat is older.  The  *)
(* second part is what a page remembers, the third what a success names.   *)
(***************************************************************************)
EXTENDS Idempotency, TLAPS

Post == [key : Key \cup {NoKey}, body : Body, stamp : Nat, at : Nat]

Entry == {Forgotten} \cup [key : Minted, at : Nat]

\* The part of the types that the argument uses.
Shapes ==
  /\ held \in [Page -> [Body -> Entry]]
  /\ attempts \in Seq(Attempt)
  /\ posts \in Seq(Post)
  /\ clock \in Nat

\* No request is stamped ahead of the clock.
StampsPast == \A n \in 1..Len(attempts) : attempts[n].stamp <= clock

\* A row younger than the retention has the record of its key to guard it, and
\* records are not short-lived.
RowsGuarded ==
  \A i \in 1..Len(posts) : posts[i].key # NoKey =>
    \/ clock >= posts[i].stamp + Retention
    \/ /\ posts[i].key \in DOMAIN records
       /\ records[posts[i].key].expiresAt >= posts[i].stamp + Retention

TimesNat ==
  \A k \in DOMAIN records : records[k].expiresAt \in Nat /\ records[k].result \in Nat

Inv == Shapes /\ StampsPast /\ TimesNat /\ RowsGuarded /\ OncePerRetention

-----------------------------------------------------------------------------
\* The elements of the two sequences.
LEMMA RequestsTyped ==
  ASSUME Shapes, NEW n \in 1..Len(attempts)
  PROVE  /\ attempts[n] \in Attempt
         /\ attempts[n].stamp \in Nat /\ attempts[n].key \in Key /\ attempts[n].body \in Body
<1>1. attempts[n] \in Attempt
  BY DEF Shapes
<1> QED
  BY <1>1 DEF Attempt

LEMMA PostsTyped ==
  ASSUME Shapes, NEW i \in 1..Len(posts)
  PROVE  posts[i] \in Post /\ posts[i].stamp \in Nat
<1>1. posts[i] \in Post
  BY DEF Shapes
<1> QED
  BY <1>1 DEF Post

\* A request changed in place stays a request, and its stamp can only be kept,
\* cleared or set to the clock: what every step but a send does to attempts.
LEMMA AttemptChanged ==
  ASSUME Shapes, StampsPast, NEW n \in 1..Len(attempts), NEW a \in Attempt,
         a.stamp <= clock,
         attempts' = [attempts EXCEPT ![n] = a], clock' = clock
  PROVE  attempts' \in Seq(Attempt) /\ StampsPast'
BY DEF Shapes, StampsPast

\* Appending a request that carries no stamp yet.
LEMMA AttemptSent ==
  ASSUME Shapes, StampsPast, NEW a \in Attempt, a.stamp = 0,
         attempts' = Append(attempts, a), clock' = clock
  PROVE  attempts' \in Seq(Attempt) /\ StampsPast'
BY DEF Shapes, StampsPast

\* A request that is over is a request without a stamp.
LEMMA OverIsAttempt ==
  ASSUME NEW a \in Attempt
  PROVE  Over(a) \in Attempt /\ Over(a).stamp = 0
BY DEF Over, Attempt

LEMMA SentIsAttempt ==
  ASSUME clock \in Nat, NEW page \in Page \cup {Nobody}, NEW body \in Body, NEW k \in Key
  PROVE  Sent(page, body, k) \in Attempt /\ Sent(page, body, k).stamp = 0
BY DEF Sent, Attempt

\* What an answer leaves of an entry is an entry.
LEMMA EntryKept ==
  ASSUME clock \in Nat, NEW e \in Entry, NEW k \in Key
  PROVE  Dropped(e, k) \in Entry /\ Kept(e, k) \in Entry
BY NamesDistinct DEF Dropped, Kept, Entry, Forgotten, Key

\* A step that leaves the table, the rows and the clock alone keeps what is
\* said of them.
LEMMA BookUntouched ==
  ASSUME TimesNat, RowsGuarded, OncePerRetention, UNCHANGED <<records, posts, clock>>
  PROVE  TimesNat' /\ RowsGuarded' /\ OncePerRetention'
BY DEF TimesNat, RowsGuarded, OncePerRetention

\* The server's answer to an arrived request.
LEMMA AnsweredIsAttempt ==
  ASSUME Shapes, StampsPast, NEW n \in 1..Len(attempts),
         NEW status \in {"created", "refused", "failed"}, NEW row \in Nat,
         Answered(n, status, row), clock' = clock
  PROVE  attempts' \in Seq(Attempt) /\ StampsPast'
<1> DEFINE a == [attempts[n] EXCEPT !.place = "answered", !.stamp = 0, !.status = status,
                                    !.result = IF status = "created" THEN row ELSE 0]
<1>1. attempts[n] \in Attempt
  BY DEF Shapes
<1>2. a \in Attempt /\ a.stamp = 0
  BY <1>1 DEF Attempt
<1>3. attempts' = [attempts EXCEPT ![n] = a]
  BY DEF Answered
<1>4. a.stamp <= clock
  BY <1>2 DEF Shapes
<1> HIDE DEF a
<1> QED
  BY <1>2, <1>3, <1>4, AttemptChanged

\* A write finds only rows older than the retention under its key: the heart of
\* the argument.
LEMMA WriteFindsOldRows ==
  ASSUME Inv, NEW n \in 1..Len(attempts), ~Live(attempts[n].key, attempts[n].stamp),
         NEW i \in 1..Len(posts), posts[i].key = attempts[n].key, posts[i].key # NoKey
  PROVE  clock >= posts[i].stamp + Retention
<1>1. attempts[n].stamp \in Nat /\ attempts[n].stamp <= clock
  BY RequestsTyped DEF Inv, StampsPast
<1>2. posts[i].stamp \in Nat /\ clock \in Nat
  BY PostsTyped DEF Inv, Shapes
<1>3. CASE posts[i].key \in DOMAIN records
  <2>1. records[posts[i].key].expiresAt \in Nat
    BY <1>3 DEF Inv, TimesNat
  <2>2. records[posts[i].key].expiresAt <= attempts[n].stamp
    BY <1>1, <1>3, <2>1 DEF Live
  <2> QED
    BY <1>1, <1>2, <2>1, <2>2, TimesAssumption DEF Inv, RowsGuarded
<1>4. CASE posts[i].key \notin DOMAIN records
  BY <1>4 DEF Inv, RowsGuarded
<1> QED
  BY <1>3, <1>4

-----------------------------------------------------------------------------
\* The inductive invariant is kept by a write.
LEMMA WriteKeeps ==
  ASSUME Inv, NEW n \in 1..Len(attempts), Write(n)
  PROVE  Inv'
<1> DEFINE a == attempts[n]
           p == [key |-> a.key, body |-> a.body, stamp |-> a.stamp, at |-> clock]
           recorded == [body |-> a.body, result |-> Len(posts) + 1, createdAt |-> a.stamp,
                        expiresAt |-> Expiry(a.stamp)]
<1>1. /\ a \in Attempt /\ a.stamp \in Nat /\ a.stamp <= clock
      /\ a.key \in Key /\ a.key # NoKey /\ a.body \in Body
  BY RequestsTyped, NamesDistinct DEF Inv, StampsPast, Key
<1>2. Len(posts) + 1 \in Nat /\ clock \in Nat /\ posts \in Seq(Post)
  BY DEF Inv, Shapes
<1>3. /\ ~Live(a.key, a.stamp) /\ UNCHANGED <<held, clock>>
      /\ posts' = Append(posts, p)
      /\ records' = [k \in Unexpired(a.stamp) \cup {a.key} |->
                       IF k = a.key THEN recorded ELSE records[k]]
  BY DEF Write
<1>4. /\ recorded.expiresAt = a.stamp + Retention
      /\ recorded.expiresAt \in Nat /\ recorded.result \in Nat
  BY <1>1, <1>2, TimesAssumption DEF Expiry
<1>5. p \in Post
  BY <1>1, <1>2 DEF Post
<1>6. /\ posts' \in Seq(Post) /\ Len(posts') = Len(posts) + 1
      /\ posts'[Len(posts) + 1] = p
      /\ \A i \in 1..Len(posts) : posts'[i] = posts[i]
  BY <1>2, <1>3, <1>5
<1>7. PICK status \in {"created", "failed"} : Answered(n, status, Len(posts) + 1)
  BY DEF Write
<1>8. attempts' \in Seq(Attempt) /\ StampsPast'
  BY <1>2, <1>3, <1>7, AnsweredIsAttempt DEF Inv
<1>9. /\ DOMAIN records' = Unexpired(a.stamp) \cup {a.key}
      /\ records'[a.key] = recorded
      /\ \A k \in Unexpired(a.stamp) : k # a.key => records'[k] = records[k]
  BY <1>3
<1> HIDE DEF recorded
<1>10. TimesNat'
  BY <1>4, <1>9 DEF Inv, TimesNat, Unexpired
<1>11. RowsGuarded'
  <2> SUFFICES ASSUME NEW i \in 1..Len(posts'), posts'[i].key # NoKey
               PROVE  \/ clock' >= posts'[i].stamp + Retention
                      \/ /\ posts'[i].key \in DOMAIN records'
                         /\ records'[posts'[i].key].expiresAt >= posts'[i].stamp + Retention
    BY DEF RowsGuarded
  <2>1. CASE i = Len(posts) + 1
    BY <1>1, <1>4, <1>6, <1>9, <2>1, TimesAssumption
  <2>2. CASE i # Len(posts) + 1
    <3>1. i \in 1..Len(posts) /\ posts'[i] = posts[i] /\ posts[i].stamp \in Nat
      BY <1>2, <1>6, <2>2, PostsTyped DEF Inv
    <3>2. CASE posts[i].key = a.key
      BY <1>3, <3>1, <3>2, WriteFindsOldRows
    <3>3. CASE posts[i].key \in Unexpired(a.stamp) /\ posts[i].key # a.key
      BY <1>3, <1>9, <3>1, <3>3 DEF Inv, RowsGuarded
    <3>4. CASE posts[i].key \notin Unexpired(a.stamp)
      <4>1. CASE posts[i].key \in DOMAIN records
        <5>1. records[posts[i].key].expiresAt \in Nat
          BY <4>1 DEF Inv, TimesNat
        <5>2. records[posts[i].key].expiresAt <= a.stamp
          BY <1>1, <3>4, <4>1, <5>1 DEF Unexpired
        <5> QED
          BY <1>1, <1>2, <1>3, <3>1, <5>1, <5>2, TimesAssumption DEF Inv, RowsGuarded
      <4>2. CASE posts[i].key \notin DOMAIN records
        BY <1>3, <3>1, <4>2 DEF Inv, RowsGuarded
      <4> QED
        BY <4>1, <4>2
    <3> QED
      BY <3>2, <3>3, <3>4
  <2> QED
    BY <2>1, <2>2
<1>12. OncePerRetention'
  <2> SUFFICES ASSUME NEW i \in 1..Len(posts'), NEW j \in 1..Len(posts'), i < j,
                      posts'[i].key = posts'[j].key, posts'[i].key # NoKey
               PROVE  posts'[j].at >= posts'[i].stamp + Retention
    BY DEF OncePerRetention
  <2>1. i \in 1..Len(posts) /\ posts'[i] = posts[i]
    BY <1>2, <1>6
  <2>2. CASE j = Len(posts) + 1
    BY <1>3, <1>6, <2>1, <2>2, WriteFindsOldRows
  <2>3. CASE j # Len(posts) + 1
    <3>1. j \in 1..Len(posts) /\ posts'[j] = posts[j]
      BY <1>2, <1>6, <2>3
    <3> QED
      BY <2>1, <3>1 DEF Inv, OncePerRetention
  <2> QED
    BY <2>2, <2>3
<1> QED
  BY <1>2, <1>3, <1>6, <1>8, <1>10, <1>11, <1>12 DEF Inv, Shapes

-----------------------------------------------------------------------------
\* The inductive invariant is kept by what the app and its pages do.
LEMMA AppKeeps ==
  ASSUME Inv, AppStep
  PROVE  Inv'
<1>1. UNCHANGED <<records, posts, clock>>
  BY DEF AppStep, Send, SendOwn, Tell, GiveUp, Reload
<1>2. TimesNat' /\ RowsGuarded' /\ OncePerRetention'
  BY <1>1, BookUntouched DEF Inv
<1>3. attempts' \in Seq(Attempt) /\ StampsPast'
  <2>1. ASSUME NEW page \in Page, NEW body \in Body, Send(page, body)
        PROVE  attempts' \in Seq(Attempt) /\ StampsPast'
    <3> DEFINE remembered == Remembered(page)
    <3>1. PICK k : attempts' = Append(attempts, Sent(page, body, k)) /\ k \in Key
      <4>1. CASE remembered[body] = Forgotten
        BY <2>1, <4>1 DEF Send, Key
      <4>2. CASE remembered[body] # Forgotten
        <5>1. remembered[body] \in Entry
          BY DEF Inv, Shapes, Remembered, Entry
        <5>2. remembered[body].key \in Key
          BY <4>2, <5>1 DEF Entry, Key
        <5> QED
          BY <2>1, <4>2, <5>2 DEF Send
      <4> QED
        BY <4>1, <4>2
    <3>2. Sent(page, body, k) \in Attempt /\ Sent(page, body, k).stamp = 0
      BY <3>1, SentIsAttempt DEF Inv, Shapes
    <3> QED
      BY <1>1, <3>1, <3>2, AttemptSent DEF Inv
  <2>2. ASSUME NEW body \in Body, NEW k \in OwnKey, SendOwn(body, k)
        PROVE  attempts' \in Seq(Attempt) /\ StampsPast'
    <3>1. k \in Key /\ Nobody \in Page \cup {Nobody}
      BY DEF Key
    <3>2. attempts' = Append(attempts, Sent(Nobody, body, k))
      BY <2>2 DEF SendOwn
    <3>3. Sent(Nobody, body, k) \in Attempt /\ Sent(Nobody, body, k).stamp = 0
      BY <3>1, SentIsAttempt DEF Inv, Shapes
    <3> QED
      BY <1>1, <3>2, <3>3, AttemptSent DEF Inv
  <2>3. ASSUME NEW n \in 1..Len(attempts), Tell(n)
        PROVE  attempts' \in Seq(Attempt) /\ StampsPast'
    <3> DEFINE definite == attempts[n].status # "failed"
               a == IF definite THEN [attempts[n] EXCEPT !.seen = "definite"]
                    ELSE [attempts[n] EXCEPT !.seen = "unknown", !.ended = clock]
    <3>1. attempts' = [attempts EXCEPT ![n] = Over(a)]
      BY <2>3 DEF Tell
    <3>2. attempts[n] \in Attempt /\ clock \in Nat
      BY RequestsTyped DEF Inv, Shapes
    <3>3. a \in Attempt
      BY <3>2 DEF Attempt
    <3> HIDE DEF a
    <3>4. Over(a) \in Attempt /\ Over(a).stamp <= clock
      BY <3>2, <3>3, OverIsAttempt
    <3> QED
      BY <1>1, <3>1, <3>4, AttemptChanged DEF Inv
  <2>4. ASSUME NEW n \in 1..Len(attempts), GiveUp(n)
        PROVE  attempts' \in Seq(Attempt) /\ StampsPast'
    <3> DEFINE left == [attempts[n] EXCEPT !.seen = "unknown", !.ended = clock]
    <3>1. left \in Attempt /\ clock \in Nat /\ left.stamp = attempts[n].stamp
      BY RequestsTyped DEF Inv, Shapes, Attempt
    <3>2. left.stamp <= clock
      BY <3>1 DEF Inv, StampsPast
    <3>3. \/ attempts' = [attempts EXCEPT ![n] = Over(left)]
          \/ attempts' = [attempts EXCEPT ![n] = left]
      BY <2>4 DEF GiveUp
    <3> HIDE DEF left
    <3>4. CASE attempts' = [attempts EXCEPT ![n] = Over(left)]
      <4>1. Over(left) \in Attempt /\ Over(left).stamp <= clock
        BY <3>1, OverIsAttempt
      <4> QED
        BY <1>1, <3>4, <4>1, AttemptChanged DEF Inv
    <3>5. CASE attempts' = [attempts EXCEPT ![n] = left]
      BY <1>1, <3>1, <3>2, <3>5, AttemptChanged DEF Inv
    <3> QED
      BY <3>3, <3>4, <3>5
  <2>5. ASSUME NEW page \in Page, Reload(page)
        PROVE  attempts' \in Seq(Attempt) /\ StampsPast'
    <3> DEFINE left(n) == IF attempts[n].page = page
                          THEN Orphaned(attempts[n]) ELSE attempts[n]
    <3>1. attempts' = [n \in 1..Len(attempts) |-> left(n)] /\ Len(attempts) \in Nat
      BY <2>5 DEF Reload, Inv, Shapes
    <3>2. ASSUME NEW n \in 1..Len(attempts)
          PROVE  left(n) \in Attempt /\ left(n).stamp = attempts[n].stamp
      BY RequestsTyped DEF Inv, Attempt, Orphaned
    <3> HIDE DEF left
    <3>3. attempts' \in Seq(Attempt) /\ Len(attempts') = Len(attempts)
      BY <3>1, <3>2
    <3> QED
      BY <1>1, <3>1, <3>2, <3>3 DEF Inv, StampsPast
  <2> QED
    BY <2>1, <2>2, <2>3, <2>4, <2>5 DEF AppStep
<1>4. held' \in [Page -> [Body -> Entry]]
  <2>1. /\ held \in [Page -> [Body -> Entry]] /\ clock \in Nat /\ Forgotten \in Entry
        /\ \A page \in Page : Remembered(page) \in [Body -> Entry]
    BY DEF Inv, Shapes, Remembered, Entry
  <2>2. ASSUME NEW page \in Page, NEW body \in Body, Send(page, body)
        PROVE  held' \in [Page -> [Body -> Entry]]
    <3> DEFINE remembered == Remembered(page)
    <3>1. CASE remembered[body] # Forgotten
      <4>1. held' = [held EXCEPT ![page] = remembered]
        BY <2>2, <3>1 DEF Send
      <4> QED
        BY <2>1, <4>1
    <3>2. CASE remembered[body] = Forgotten
      <4>1. PICK k \in Minted :
              held' = [held EXCEPT
                         ![page] = [remembered EXCEPT ![body] = [key |-> k, at |-> clock]]]
        BY <2>2, <3>2 DEF Send
      <4>2. [key |-> k, at |-> clock] \in Entry
        BY <2>1 DEF Entry
      <4> QED
        BY <2>1, <4>1, <4>2
    <3> QED
      BY <3>1, <3>2
  <2>3. ASSUME NEW n \in 1..Len(attempts), Tell(n) \/ GiveUp(n)
        PROVE  held' \in [Page -> [Body -> Entry]]
    <3> DEFINE a == attempts[n]
    <3>1. a.page \in Page /\ a.body \in Body /\ a.key \in Key
      <4>1. a.page \in Page \cup {Nobody} /\ a.page # Nobody
        BY <2>3, RequestsTyped DEF Tell, GiveUp, Open, Inv, Attempt
      <4> QED
        BY <4>1, RequestsTyped DEF Inv
    <3>2. held[a.page][a.body] \in Entry
      BY <2>1, <3>1
    <3>3. PICK e \in {Dropped(held[a.page][a.body], a.key), Kept(held[a.page][a.body], a.key)} :
            held' = [held EXCEPT ![a.page][a.body] = e]
      BY <2>3 DEF Tell, GiveUp
    <3>4. e \in Entry
      BY <2>1, <3>1, <3>2, <3>3, EntryKept
    <3> QED
      BY <2>1, <3>1, <3>3, <3>4
  <2>4. ASSUME NEW page \in Page, Reload(page)
        PROVE  held' \in [Page -> [Body -> Entry]]
    BY <2>1, <2>4 DEF Reload
  <2>5. ASSUME NEW body \in Body, NEW k \in OwnKey, SendOwn(body, k)
        PROVE  held' \in [Page -> [Body -> Entry]]
    BY <2>1, <2>5 DEF SendOwn
  <2> QED
    BY <2>2, <2>3, <2>4, <2>5 DEF AppStep
<1> QED
  BY <1>1, <1>2, <1>3, <1>4 DEF Inv, Shapes

\* And by what the network and the server do.
LEMMA ServerKeeps ==
  ASSUME Inv, ServerStep
  PROVE  Inv'
<1>1. ASSUME NEW n \in 1..Len(attempts), Vanish(n)
      PROVE  Inv'
  <2>1. attempts' = [attempts EXCEPT ![n] = Over(attempts[n])]
        /\ UNCHANGED <<held, records, posts, clock>>
    BY <1>1 DEF Vanish
  <2>2. Over(attempts[n]) \in Attempt /\ Over(attempts[n]).stamp <= clock
    BY RequestsTyped, OverIsAttempt DEF Inv, Shapes
  <2> QED
    BY <2>1, <2>2, AttemptChanged, BookUntouched DEF Inv, Shapes
<1>2. ASSUME NEW n \in 1..Len(attempts), Arrive(n)
      PROVE  Inv'
  <2> DEFINE a == [attempts[n] EXCEPT !.place = "arrived", !.stamp = clock]
  <2>1. attempts' = [attempts EXCEPT ![n] = a] /\ UNCHANGED <<held, records, posts, clock>>
    BY <1>2 DEF Arrive
  <2>2. attempts[n] \in Attempt /\ clock \in Nat
    BY RequestsTyped DEF Inv, Shapes
  <2>3. a \in Attempt /\ a.stamp <= clock
    <3>1. a.stamp = clock
      BY <2>2 DEF Attempt
    <3>2. a \in Attempt
      BY <2>2 DEF Attempt
    <3> HIDE DEF a
    <3> QED
      BY <2>2, <3>1, <3>2
  <2> HIDE DEF a
  <2> QED
    BY <2>1, <2>3, AttemptChanged, BookUntouched DEF Inv, Shapes
<1>3. ASSUME NEW n \in 1..Len(attempts), Replay(n)
      PROVE  Inv'
  <2>1. PICK status \in {"created", "failed"} :
          Answered(n, status, records[attempts[n].key].result)
    BY <1>3 DEF Replay
  <2>2. UNCHANGED <<held, records, posts, clock>> /\ attempts[n].key \in DOMAIN records
    BY <1>3 DEF Replay, Live
  <2>3. records[attempts[n].key].result \in Nat
    BY <2>2 DEF Inv, TimesNat
  <2> QED
    BY <2>1, <2>2, <2>3, AnsweredIsAttempt, BookUntouched DEF Inv, Shapes
<1>4. ASSUME NEW n \in 1..Len(attempts), Write(n)
      PROVE  Inv'
  BY <1>4, WriteKeeps
<1>5. ASSUME NEW n \in 1..Len(attempts), Decline(n)
      PROVE  Inv'
  <2>1. PICK status \in {"refused", "failed"} : Answered(n, status, 0)
    BY <1>5 DEF Decline
  <2>2. UNCHANGED <<held, records, posts, clock>>
    BY <1>5 DEF Decline
  <2> QED
    BY <2>1, <2>2, AnsweredIsAttempt, BookUntouched DEF Inv, Shapes
<1>6. ASSUME Restore
      PROVE  Inv'
  <2>1. PICK length \in 0..Len(posts) :
          posts' = [i \in 1..length |-> [posts[i] EXCEPT !.key = NoKey]]
    BY <1>6 DEF Restore
  <2>2. UNCHANGED <<held, attempts, clock>> /\ DOMAIN records' = {}
    BY <1>6 DEF Restore, NoRecord
  <2>3. ASSUME NEW i \in 1..length
        PROVE  /\ [posts[i] EXCEPT !.key = NoKey] \in Post
               /\ [posts[i] EXCEPT !.key = NoKey].key = NoKey
    <3>1. posts[i] \in Post
      BY PostsTyped DEF Inv, Shapes
    <3> QED
      BY <3>1 DEF Post
  <2>4. length \in Nat
    BY DEF Inv, Shapes
  <2>5. posts' \in Seq(Post) /\ Len(posts') = length
    BY <2>1, <2>3, <2>4
  <2>6. \A i \in 1..Len(posts') : posts'[i].key = NoKey
    <3>1. ASSUME NEW i \in 1..length
          PROVE  posts'[i] = [posts[i] EXCEPT !.key = NoKey]
      BY <2>1
    <3> QED
      BY <2>3, <2>5, <3>1
  <2>7. RowsGuarded' /\ OncePerRetention' /\ TimesNat'
    BY <2>2, <2>6 DEF RowsGuarded, OncePerRetention, TimesNat
  <2> QED
    BY <2>2, <2>5, <2>7 DEF Inv, Shapes, StampsPast
<1> QED
  BY <1>1, <1>2, <1>3, <1>4, <1>5, <1>6 DEF ServerStep

\* Time only loosens what is said of stamps and guarded rows.
LEMMA TickKeeps ==
  ASSUME Inv, Tick
  PROVE  Inv'
<1>1. clock \in Nat /\ clock' = clock + 1 /\ UNCHANGED <<held, attempts, records, posts>>
  BY DEF Tick, Inv, Shapes
<1>2. StampsPast'
  BY <1>1, RequestsTyped DEF Inv, StampsPast
<1>3. RowsGuarded'
  BY <1>1, PostsTyped, TimesAssumption DEF Inv, RowsGuarded
<1> QED
  BY <1>1, <1>2, <1>3 DEF Inv, Shapes, TimesNat, OncePerRetention

LEMMA InvInit == Init => Inv
BY DEF Init, Inv, Shapes, Entry, StampsPast, TimesNat, RowsGuarded, OncePerRetention, NoRecord

LEMMA InvKept == Inv /\ [Next]_vars => Inv'
<1>1. ASSUME Inv, UNCHANGED vars PROVE Inv'
  BY <1>1 DEF vars, Inv, Shapes, StampsPast, TimesNat, RowsGuarded, OncePerRetention
<1> QED
  BY <1>1, AppKeeps, ServerKeeps, TickKeeps DEF Next

\* ADR-043: a key writes again only when the retention has passed since the row
\* it wrote before was stamped (withIdempotency's check, purge and record).
THEOREM WritesOncePerRetention == Spec => []OncePerRetention
<1>1. Inv => OncePerRetention
  BY DEF Inv
<1> QED
  BY <1>1, InvInit, InvKept, PTL DEF Spec
-----------------------------------------------------------------------------
(* What a page remembers.  A key that a page holds was sent by it alone, for *)
(* one body; no request under it has had a definite answer, the entry's time *)
(* is not before any failure, and no request went out when the entry was    *)
(* already too old.  A request whose page still waits or has seen a failure *)
(* has its key held, unless an answer was definite or the window ran out.   *)

Twins(k) == {n \in 1..Len(attempts) : attempts[n].key = k}

\* Held by page p for body b.
HeldFor(p, b) ==
  LET entry == held[p][b]
  IN  /\ Twins(entry.key) # {} /\ entry.at <= clock
      /\ \A n \in Twins(entry.key) :
           /\ attempts[n].page = p /\ attempts[n].body = b
           /\ attempts[n].seen # "definite" /\ attempts[n].sent < entry.at + Forget
      /\ \A e \in Touched(entry.key) : e <= entry.at

Holding == \A p \in Page, b \in Body : held[p][b] # Forgotten => HeldFor(p, b)

\* One page and one body to a key that a page has sent.
OnePage ==
  \A m \in 1..Len(attempts) : attempts[m].page # Nobody =>
    /\ attempts[m].key \in Minted
    /\ \A n \in Twins(attempts[m].key) :
         attempts[n].page = attempts[m].page /\ attempts[n].body = attempts[m].body

\* A moment before which the window had gone by without a failure.
Lapsed(k, sent) ==
  \E t \in (sent + 1)..clock : \A e \in Touched(k) : ~(e < t /\ t - e < Forget)

Decided(k) == \E n \in Twins(k) : attempts[n].seen = "definite"

Traced ==
  \A m \in 1..Len(attempts) : attempts[m].page # Nobody =>
    \/ Decided(attempts[m].key)
    \/ held[attempts[m].page][attempts[m].body].key = attempts[m].key
    \/ Lapsed(attempts[m].key, attempts[m].sent)

Memory == Holding /\ OnePage /\ Traced

LEMMA RequestFields ==
  ASSUME Shapes, NEW n \in 1..Len(attempts)
  PROVE  /\ attempts[n].page \in Page \cup {Nobody} /\ attempts[n].body \in Body
         /\ attempts[n].key \in Key /\ attempts[n].sent \in Nat /\ attempts[n].ended \in Nat
         /\ attempts[n].seen \in {"nothing", "definite", "unknown"}
         /\ Len(attempts) \in Nat
BY RequestsTyped DEF Shapes, Attempt

LEMMA EntryFields ==
  ASSUME Shapes, NEW p \in Page, NEW b \in Body
  PROVE  /\ held[p][b] \in Entry /\ held[p][b].at \in Nat /\ clock \in Nat
         /\ held[p][b] # Forgotten <=> held[p][b].key \in Minted
BY NamesDistinct DEF Shapes, Entry, Forgotten

LEMMA TouchedNat ==
  ASSUME Shapes, NEW k, NEW e \in Touched(k)
  PROVE  e \in Nat
BY RequestFields DEF Touched

\* The moments that count for a key: a step adds at most those of the failures
\* it reports.
LEMMA TouchedGrows ==
  ASSUME NEW k, NEW late, Len(attempts) \in Nat, Len(attempts') \in Nat,
         Len(attempts) <= Len(attempts'), Twins(k) # {},
         \A n \in 1..Len(attempts) : attempts'[n].key = attempts[n].key,
         \A n \in Twins(k) : attempts'[n].sent = attempts[n].sent,
         \A n \in Twins(k) : attempts'[n].seen = "unknown" =>
           \/ attempts'[n].ended \in late
           \/ attempts[n].seen = "unknown" /\ attempts'[n].ended = attempts[n].ended,
         \A n \in 1..Len(attempts') : n \notin 1..Len(attempts) => attempts'[n].seen # "unknown"
  PROVE  Touched(k)' \subseteq Touched(k) \cup late
<1> SUFFICES ASSUME NEW e \in Touched(k)' PROVE e \in Touched(k) \cup late
  OBVIOUS
<1> DEFINE twins == {n \in 1..Len(attempts) : attempts[n].key = k}
           now == {n \in 1..Len(attempts') : attempts'[n].key = k}
<1>1. twins # {} /\ \A n \in 1..Len(attempts) : n \in now <=> n \in twins
  BY DEF Twins
<1>2. CASE \E n \in now : attempts'[n].seen = "unknown" /\ e = attempts'[n].ended
  <2>1. PICK n \in now : attempts'[n].seen = "unknown" /\ e = attempts'[n].ended
    BY <1>2
  <2>2. n \in twins
    BY <1>1, <2>1
  <2>3. e \in late \/ (attempts[n].seen = "unknown" /\ e = attempts[n].ended)
    BY <2>1, <2>2 DEF Twins
  <2> QED
    BY <2>2, <2>3 DEF Touched
<1>3. CASE \E n \in now : (\A j \in now : n <= j) /\ e = attempts'[n].sent
  <2>1. PICK n \in now : (\A j \in now : n <= j) /\ e = attempts'[n].sent
    BY <1>3
  <2>2. PICK j \in twins : TRUE
    BY <1>1
  <2>3. n <= j
    BY <1>1, <2>1, <2>2
  <2>4. n \in twins
    BY <1>1, <2>1, <2>2, <2>3
  <2>5. (\A i \in twins : n <= i) /\ e = attempts[n].sent
    BY <1>1, <2>1, <2>4 DEF Twins
  <2> QED
    BY <2>4, <2>5 DEF Touched
<1> QED
  BY <1>2, <1>3 DEF Touched

-----------------------------------------------------------------------------
\* What the server, the network and the clock do is nothing to a page yet.
Unseen ==
  /\ Len(attempts') = Len(attempts) /\ held' = held
  /\ clock' \in Nat /\ clock' >= clock
  /\ \A n \in 1..Len(attempts) :
       /\ attempts'[n].page = attempts[n].page /\ attempts'[n].body = attempts[n].body
       /\ attempts'[n].key = attempts[n].key /\ attempts'[n].sent = attempts[n].sent
       /\ attempts'[n].seen = attempts[n].seen /\ attempts'[n].ended = attempts[n].ended

LEMMA ServerUnseen ==
  ASSUME Inv, ServerStep \/ Tick \/ UNCHANGED vars
  PROVE  Unseen
<1>0. clock \in Nat /\ \A n \in 1..Len(attempts) : attempts[n] \in Attempt
  BY RequestsTyped DEF Inv, Shapes
<1>1. ASSUME NEW n \in 1..Len(attempts), Vanish(n) PROVE Unseen
  BY <1>0, <1>1 DEF Vanish, Over, Unseen, Attempt
<1>2. ASSUME NEW n \in 1..Len(attempts), Arrive(n) PROVE Unseen
  BY <1>0, <1>2 DEF Arrive, Unseen, Attempt
<1>3. ASSUME NEW n \in 1..Len(attempts), NEW status, NEW row, Answered(n, status, row),
             UNCHANGED <<held, clock>>
      PROVE  Unseen
  BY <1>0, <1>3 DEF Answered, Unseen, Attempt
<1>4. ASSUME NEW n \in 1..Len(attempts), Replay(n) \/ Write(n) \/ Decline(n) PROVE Unseen
  BY <1>3, <1>4 DEF Replay, Write, Decline
<1>5. ASSUME Restore \/ Tick \/ UNCHANGED vars PROVE Unseen
  BY <1>0, <1>5 DEF Restore, Tick, vars, Unseen
<1> QED
  BY <1>1, <1>2, <1>4, <1>5 DEF ServerStep

LEMMA UnseenRemembers ==
  ASSUME Inv, Memory, Unseen
  PROVE  Memory'
<1>0. Shapes /\ clock \in Nat /\ Len(attempts) \in Nat
  BY DEF Inv, Shapes
<1>1. \A k : Twins(k)' = Twins(k)
  BY DEF Unseen, Twins
<1>2. ASSUME NEW k, Twins(k) # {} PROVE Touched(k)' \subseteq Touched(k)
  <2>1. Touched(k)' \subseteq Touched(k) \cup {}
    BY <1>0, <1>2, TouchedGrows DEF Unseen, Twins
  <2> QED
    BY <2>1
<1>3. Holding'
  <2> SUFFICES ASSUME NEW p \in Page, NEW b \in Body, held'[p][b] # Forgotten
               PROVE  HeldFor(p, b)'
    BY DEF Holding
  <2>1. HeldFor(p, b)
    BY DEF Memory, Holding, Unseen
  <2>2. held[p][b].at <= clock'
    <3>1. held[p][b].at \in Nat /\ held[p][b].at <= clock /\ clock' \in Nat /\ clock' >= clock
      BY <1>0, <2>1, EntryFields DEF HeldFor, Unseen
    <3> QED
      BY <1>0, <3>1
  <2>3. \A n \in Twins(held[p][b].key) : n \in 1..Len(attempts)
    BY DEF Twins
  <2> QED
    BY <1>1, <1>2, <2>1, <2>2, <2>3 DEF HeldFor, Unseen
<1>4. OnePage'
  BY <1>1 DEF Memory, OnePage, Unseen, Twins
<1>5. Traced'
  <2> SUFFICES ASSUME NEW m \in 1..Len(attempts), attempts[m].page # Nobody,
                      NEW k, k = attempts[m].key, NEW sent, sent = attempts[m].sent
               PROVE  \/ Decided(k)'
                      \/ held[attempts[m].page][attempts[m].body].key = k
                      \/ Lapsed(k, sent)'
    BY DEF Traced, Unseen
  <2>1. Touched(k)' \subseteq Touched(k)
    BY <1>2 DEF Twins
  <2>2. CASE Lapsed(k, sent)
    <3>1. PICK t \in (sent + 1)..clock : \A e \in Touched(k) : ~(e < t /\ t - e < Forget)
      BY <2>2 DEF Lapsed
    <3>2. sent \in Nat /\ clock' \in Nat /\ clock' >= clock
      BY <1>0, RequestFields DEF Unseen
    <3>3. t \in (sent + 1)..clock'
      BY <1>0, <3>1, <3>2
    <3> QED
      BY <2>1, <3>1, <3>3 DEF Lapsed
  <2>3. Decided(k) => Decided(k)'
    BY <1>1 DEF Decided, Unseen, Twins
  <2> QED
    BY <2>2, <2>3 DEF Memory, Traced
<1> QED
  BY <1>3, <1>4, <1>5 DEF Memory

\* An answer, or a wait that ends: one request's, and its page's entry for it.
Heard(n, a) ==
  /\ attempts' = [attempts EXCEPT ![n] = a]
  /\ a.page = attempts[n].page /\ a.body = attempts[n].body
  /\ a.key = attempts[n].key /\ a.sent = attempts[n].sent
  /\ \/ /\ a.seen = "definite"
        /\ held' = [held EXCEPT ![a.page][a.body] = Dropped(@, a.key)]
     \/ /\ a.seen = "unknown" /\ a.ended = clock
        /\ held' = [held EXCEPT ![a.page][a.body] = Kept(@, a.key)]

LEMMA AnswerHeard ==
  ASSUME Shapes, NEW n \in 1..Len(attempts), Tell(n) \/ GiveUp(n)
  PROVE  /\ Open(n) /\ clock' = clock
         /\ \E a \in Attempt : Heard(n, a)
<1>0. attempts[n] \in Attempt /\ clock \in Nat
  BY RequestsTyped DEF Shapes
<1>1. CASE Tell(n)
  <2> DEFINE definite == attempts[n].status # "failed"
             left == IF definite THEN [attempts[n] EXCEPT !.seen = "definite"]
                     ELSE [attempts[n] EXCEPT !.seen = "unknown", !.ended = clock]
  <2>1. /\ attempts' = [attempts EXCEPT ![n] = Over(left)]
        /\ held' = [held EXCEPT ![attempts[n].page][attempts[n].body] =
             IF definite THEN Dropped(@, attempts[n].key) ELSE Kept(@, attempts[n].key)]
    BY <1>1 DEF Tell
  <2>2. left \in Attempt
    BY <1>0 DEF Attempt
  <2>3. /\ left.page = attempts[n].page /\ left.body = attempts[n].body
        /\ left.key = attempts[n].key /\ left.sent = attempts[n].sent
        /\ IF definite THEN left.seen = "definite"
           ELSE left.seen = "unknown" /\ left.ended = clock
    BY <1>0 DEF Attempt
  <2> HIDE DEF left
  <2>4. Over(left) \in Attempt
    BY <2>2, OverIsAttempt
  <2>5. /\ Over(left).page = left.page /\ Over(left).body = left.body
        /\ Over(left).key = left.key /\ Over(left).sent = left.sent
        /\ Over(left).seen = left.seen /\ Over(left).ended = left.ended
    BY <2>2 DEF Over, Attempt
  <2>6. Heard(n, Over(left))
    BY <2>1, <2>3, <2>5 DEF Heard
  <2> QED
    BY <1>1, <2>4, <2>6 DEF Tell
<1>2. CASE GiveUp(n)
  <2> DEFINE left == [attempts[n] EXCEPT !.seen = "unknown", !.ended = clock]
  <2>1. /\ attempts' = [attempts EXCEPT ![n] = left]
             \/ attempts' = [attempts EXCEPT ![n] = Over(left)]
        /\ held' = [held EXCEPT ![attempts[n].page][attempts[n].body] =
                      Kept(@, attempts[n].key)]
    BY <1>2 DEF GiveUp
  <2>2. left \in Attempt
    BY <1>0 DEF Attempt
  <2>3. /\ left.page = attempts[n].page /\ left.body = attempts[n].body
        /\ left.key = attempts[n].key /\ left.sent = attempts[n].sent
        /\ left.seen = "unknown" /\ left.ended = clock
    BY <1>0 DEF Attempt
  <2> HIDE DEF left
  <2>4. Over(left) \in Attempt
    BY <2>2, OverIsAttempt
  <2>5. /\ Over(left).page = left.page /\ Over(left).body = left.body
        /\ Over(left).key = left.key /\ Over(left).sent = left.sent
        /\ Over(left).seen = left.seen /\ Over(left).ended = left.ended
    BY <2>2 DEF Over, Attempt
  <2>6. Heard(n, left) \/ Heard(n, Over(left))
    BY <2>1, <2>3, <2>5 DEF Heard
  <2> QED
    BY <1>2, <2>2, <2>4, <2>6 DEF GiveUp
<1> QED
  BY <1>1, <1>2

\* What a page makes of an answer: its own entry only, and only if it still
\* holds the request's key.
LEMMA HeardEntries ==
  ASSUME Shapes, NEW n \in 1..Len(attempts), Open(n), NEW a \in Attempt, Heard(n, a),
         NEW p \in Page, NEW b \in Body
  PROVE  \/ held'[p][b] = held[p][b] /\ (p # a.page \/ b # a.body \/ held[p][b].key # a.key)
         \/ /\ p = a.page /\ b = a.body /\ held[p][b].key = a.key
            /\ a.seen = "definite" /\ held'[p][b] = Forgotten
         \/ /\ p = a.page /\ b = a.body /\ held[p][b].key = a.key
            /\ a.seen = "unknown" /\ held'[p][b] = [key |-> a.key, at |-> clock]
<1>1. a.page \in Page /\ a.body \in Body /\ held \in [Page -> [Body -> Entry]]
  BY RequestFields DEF Heard, Open, Shapes
<1> QED
  BY <1>1 DEF Heard, Dropped, Kept

LEMMA HeardRemembers ==
  ASSUME Inv, Memory, NEW n \in 1..Len(attempts), Open(n), NEW a \in Attempt, Heard(n, a),
         clock' = clock
  PROVE  Memory'
<1>0. /\ Shapes /\ clock \in Nat /\ Len(attempts) \in Nat /\ Len(attempts') = Len(attempts)
      /\ attempts'[n] = a /\ \A i \in 1..Len(attempts) : i # n => attempts'[i] = attempts[i]
  BY DEF Inv, Shapes, Heard
<1>1. \A i \in 1..Len(attempts) :
        /\ attempts'[i].page = attempts[i].page /\ attempts'[i].body = attempts[i].body
        /\ attempts'[i].key = attempts[i].key /\ attempts'[i].sent = attempts[i].sent
  BY <1>0 DEF Heard
<1>2. /\ a.page \in Page /\ a.page # Nobody /\ a.body \in Body /\ a.key \in Minted /\ a.key # NoKey
      /\ n \in Twins(a.key)
      /\ a.page = attempts[n].page /\ a.body = attempts[n].body /\ a.key = attempts[n].key
  BY <1>0, RequestFields, NamesDistinct DEF Heard, Open, Memory, OnePage, Twins
<1>3. \A k : Twins(k)' = Twins(k)
  BY <1>0, <1>1 DEF Twins
<1>4. ASSUME NEW k, Twins(k) # {} PROVE Touched(k)' \subseteq Touched(k) \cup {clock}
  <2>1. \A i \in Twins(k) : attempts'[i].seen = "unknown" =>
          \/ attempts'[i].ended \in {clock}
          \/ attempts[i].seen = "unknown" /\ attempts'[i].ended = attempts[i].ended
    BY <1>0 DEF Heard, Twins
  <2>2. \A i \in Twins(k) : attempts'[i].sent = attempts[i].sent
    BY <1>1 DEF Twins
  <2>3. \A i \in 1..Len(attempts) : attempts'[i].key = attempts[i].key
    BY <1>1
  <2>4. \A i \in 1..Len(attempts') : i \notin 1..Len(attempts) => attempts'[i].seen # "unknown"
    BY <1>0
  <2>5. Len(attempts) \in Nat /\ Len(attempts') \in Nat /\ Len(attempts) <= Len(attempts')
    BY <1>0
  <2> QED
    BY ONLY <1>4, <2>1, <2>2, <2>3, <2>4, <2>5, TouchedGrows
<1>5. ASSUME NEW k, Twins(k) # {}, k # a.key PROVE Touched(k)' \subseteq Touched(k)
  <2>1. n \notin Twins(k)
    BY <1>2, <1>5 DEF Twins
  <2>2. Touched(k)' \subseteq Touched(k) \cup {}
    BY <1>0, <1>1, <1>5, <2>1, TouchedGrows DEF Twins
  <2> QED
    BY <2>2
<1>6. Holding'
  <2> SUFFICES ASSUME NEW p \in Page, NEW b \in Body, held'[p][b] # Forgotten
               PROVE  HeldFor(p, b)'
    BY DEF Holding
  <2>1. CASE held'[p][b] = held[p][b] /\ held[p][b].key # a.key
    <3>1. HeldFor(p, b)
      BY <2>1 DEF Memory, Holding
    <3>2. \A i \in Twins(held[p][b].key) : i \in 1..Len(attempts) /\ i # n
      BY <1>2, <2>1 DEF Twins
    <3> QED
      BY <1>0, <1>3, <1>5, <2>1, <3>1, <3>2 DEF HeldFor
  <2>2. CASE held'[p][b] = held[p][b] /\ (p # a.page \/ b # a.body) /\ held[p][b].key = a.key
    <3>1. HeldFor(p, b)
      BY <2>2 DEF Memory, Holding
    <3> QED
      BY <1>2, <2>2, <3>1 DEF HeldFor
  <2>3. CASE /\ p = a.page /\ b = a.body /\ held[p][b].key = a.key
             /\ a.seen = "unknown" /\ held'[p][b] = [key |-> a.key, at |-> clock]
    <3>1. held[p][b] # Forgotten /\ held[p][b].at \in Nat
      BY <1>0, <1>2, <2>3, EntryFields
    <3>2. HeldFor(p, b)
      BY <3>1 DEF Memory, Holding
    <3>3. \A i \in Twins(a.key) :
            /\ i \in 1..Len(attempts)
            /\ attempts'[i].page = p /\ attempts'[i].body = b
            /\ attempts'[i].seen # "definite"
      BY <1>0, <1>1, <2>3, <3>2 DEF HeldFor, Twins
    <3>4. \A i \in Twins(a.key) : attempts'[i].sent < clock + Forget
      <4> SUFFICES ASSUME NEW i \in Twins(a.key) PROVE attempts'[i].sent < clock + Forget
        OBVIOUS
      <4>1. /\ attempts'[i].sent = attempts[i].sent /\ attempts[i].sent \in Nat
            /\ attempts[i].sent < held[p][b].at + Forget /\ held[p][b].at <= clock
        BY <1>0, <1>1, <2>3, <3>2, RequestFields DEF HeldFor, Twins
      <4> QED
        BY <1>0, <3>1, <4>1, TimesAssumption
    <3>5. \A e \in Touched(a.key)' : e <= clock
      <4> SUFFICES ASSUME NEW e, e \in Touched(a.key) \/ e = clock PROVE e <= clock
        BY <1>0, <1>2, <1>4
      <4>1. e \in Touched(a.key) => e \in Nat /\ e <= held[p][b].at /\ held[p][b].at <= clock
        BY <1>0, <2>3, <3>2, TouchedNat DEF HeldFor
      <4> QED
        BY <1>0, <3>1, <4>1
    <3>6. held'[p][b].key = a.key /\ held'[p][b].at = clock
      BY <2>3
    <3> QED
      BY <1>0, <1>2, <1>3, <3>3, <3>4, <3>5, <3>6 DEF HeldFor
  <2> QED
    BY <1>0, <2>1, <2>2, <2>3, HeardEntries
<1>7. OnePage'
  BY <1>0, <1>1, <1>3 DEF Memory, OnePage, Twins
<1>8. Traced'
  <2> SUFFICES ASSUME NEW m \in 1..Len(attempts), attempts[m].page # Nobody,
                      NEW k, k = attempts[m].key, NEW sent, sent = attempts[m].sent
               PROVE  \/ Decided(k)'
                      \/ held'[attempts[m].page][attempts[m].body].key = k
                      \/ Lapsed(k, sent)'
    BY <1>0, <1>1 DEF Traced
  <2>0. /\ m \in Twins(k) /\ attempts[m].page \in Page /\ attempts[m].body \in Body
        /\ sent \in Nat
    BY <1>0, RequestFields DEF Twins
  <2>1. CASE Lapsed(k, sent)
    <3>1. PICK t \in (sent + 1)..clock : \A e \in Touched(k) : ~(e < t /\ t - e < Forget)
      BY <2>1 DEF Lapsed
    <3>2. \A e \in Touched(k)' : ~(e < t /\ t - e < Forget)
      BY <1>0, <1>4, <2>0, <3>1
    <3> QED
      BY <1>0, <3>1, <3>2 DEF Lapsed
  <2>2. CASE Decided(k)
    <3>1. PICK i \in Twins(k) : attempts[i].seen = "definite"
      BY <2>2 DEF Decided
    <3>2. i \in Twins(k)' /\ attempts'[i].seen = "definite"
      BY <1>0, <1>3, <3>1 DEF Twins, Open
    <3> QED
      BY <3>2 DEF Decided
  <2>3. CASE held[attempts[m].page][attempts[m].body].key = k
    <3>1. CASE a.seen = "definite" /\ k = a.key
      <4>1. n \in Twins(k)' /\ attempts'[n].seen = "definite"
        BY <1>0, <1>2, <1>3, <3>1
      <4> QED
        BY <4>1 DEF Decided
    <3>2. CASE ~(a.seen = "definite" /\ k = a.key)
      <4>1. ASSUME NEW p \in Page, NEW b \in Body, held[p][b].key = k
            PROVE  held'[p][b].key = k
        <5>1. CASE held'[p][b] = held[p][b]
          BY <4>1, <5>1
        <5>2. CASE held[p][b].key = a.key /\ held'[p][b] = [key |-> a.key, at |-> clock]
          BY <4>1, <5>2
        <5> QED
          BY <1>0, <3>2, <4>1, <5>1, <5>2, HeardEntries
      <4> QED
        BY <2>0, <2>3, <4>1
    <3> QED
      BY <3>1, <3>2
  <2> QED
    BY <2>1, <2>2, <2>3 DEF Memory, Traced
<1> QED
  BY <1>6, <1>7, <1>8 DEF Memory

\* A reload is the end of one page's keys, and of nobody else's.
LEMMA ReloadRemembers ==
  ASSUME Inv, Memory, NEW page \in Page, Reload(page)
  PROVE  Memory'
<1>0. /\ Shapes /\ clock \in Nat /\ Len(attempts) \in Nat /\ Len(attempts') = Len(attempts)
      /\ clock' = clock
  BY DEF Inv, Shapes, Reload
<1>1. \A i \in 1..Len(attempts) :
        /\ attempts'[i].key = attempts[i].key
        /\ attempts[i].page = page => attempts'[i].page = Nobody /\ attempts'[i].seen = "nothing"
        /\ attempts[i].page # page => attempts'[i] = attempts[i]
  <2> SUFFICES ASSUME NEW i \in 1..Len(attempts)
               PROVE  /\ attempts'[i].key = attempts[i].key
                      /\ attempts[i].page = page =>
                           attempts'[i].page = Nobody /\ attempts'[i].seen = "nothing"
                      /\ attempts[i].page # page => attempts'[i] = attempts[i]
    OBVIOUS
  <2>1. attempts[i] \in Attempt
    BY <1>0, RequestsTyped
  <2>2. attempts'[i] = IF attempts[i].page = page THEN Orphaned(attempts[i]) ELSE attempts[i]
    BY DEF Reload
  <2> QED
    BY <2>1, <2>2 DEF Orphaned, Attempt
<1>2. \A k : Twins(k)' = Twins(k)
  BY <1>0, <1>1 DEF Twins
<1>3. \A p \in Page, b \in Body : held'[p][b] = IF p = page THEN Forgotten ELSE held[p][b]
  BY DEF Reload, Inv, Shapes
<1>4. ASSUME NEW k, Twins(k) # {}, \A i \in Twins(k) : attempts[i].page # page
      PROVE  Touched(k)' \subseteq Touched(k)
  <2>1. Touched(k)' \subseteq Touched(k) \cup {}
    BY <1>0, <1>1, <1>4, TouchedGrows DEF Twins
  <2> QED
    BY <2>1
<1>5. Holding'
  <2> SUFFICES ASSUME NEW p \in Page, NEW b \in Body, held'[p][b] # Forgotten
               PROVE  HeldFor(p, b)'
    BY DEF Holding
  <2>1. p # page /\ held'[p][b] = held[p][b] /\ HeldFor(p, b)
    BY <1>3 DEF Memory, Holding
  <2>2. \A i \in Twins(held[p][b].key) :
          i \in 1..Len(attempts) /\ attempts[i].page # page /\ attempts'[i] = attempts[i]
    BY <1>1, <2>1 DEF HeldFor, Twins
  <2> QED
    BY <1>0, <1>2, <1>4, <2>1, <2>2 DEF HeldFor
<1>6. ASSUME NEW m \in 1..Len(attempts), attempts'[m].page # Nobody
      PROVE  /\ attempts'[m] = attempts[m] /\ attempts[m].page # page
             /\ \A i \in Twins(attempts[m].key) :
                  i \in 1..Len(attempts) /\ attempts[i].page # page /\ attempts'[i] = attempts[i]
  BY <1>1, <1>6 DEF Memory, OnePage, Twins
<1>7. OnePage'
  BY <1>0, <1>2, <1>6 DEF Memory, OnePage
<1>8. Traced'
  <2> SUFFICES ASSUME NEW m \in 1..Len(attempts), attempts'[m].page # Nobody,
                      NEW k, k = attempts[m].key, NEW sent, sent = attempts[m].sent
               PROVE  \/ Decided(k)'
                      \/ held'[attempts[m].page][attempts[m].body].key = k
                      \/ Lapsed(k, sent)'
    BY <1>0, <1>6 DEF Traced
  <2>0. /\ m \in Twins(k) /\ attempts[m].page \in Page /\ attempts[m].body \in Body
        /\ attempts[m].page # page /\ attempts[m].page # Nobody
    BY <1>0, <1>6, RequestFields DEF Twins
  <2>1. Touched(k)' \subseteq Touched(k)
    BY <1>4, <1>6, <2>0
  <2>2. Lapsed(k, sent) => Lapsed(k, sent)'
    BY <1>0, <2>1 DEF Lapsed
  <2>3. Decided(k) => Decided(k)'
    BY <1>2, <1>6 DEF Decided
  <2> QED
    BY <1>3, <2>0, <2>2, <2>3 DEF Memory, Traced
<1> QED
  BY <1>5, <1>7, <1>8 DEF Memory

\* A request that goes out under key k, after those that did before.
Goes(s, k) ==
  /\ attempts' = Append(attempts, s) /\ clock' = clock
  /\ s.key = k /\ s.sent = clock /\ s.seen = "nothing"

LEMMA SendGoes ==
  ASSUME Shapes, NEW s \in Attempt, NEW k, Goes(s, k)
  PROVE  /\ Len(attempts) \in Nat /\ Len(attempts') = Len(attempts) + 1
         /\ attempts'[Len(attempts) + 1] = s
         /\ \A i \in 1..Len(attempts) : attempts'[i] = attempts[i] /\ i \in 1..Len(attempts')
         /\ \A i \in 1..Len(attempts') : i \in 1..Len(attempts) \/ i = Len(attempts) + 1
         /\ \A x : Twins(x)' = Twins(x) \cup IF x = k THEN {Len(attempts) + 1} ELSE {}
         /\ \A x : Twins(x) # {} => Touched(x)' \subseteq Touched(x)
<1>1. attempts \in Seq(Attempt) /\ Len(attempts) \in Nat
  BY DEF Shapes
<1>2. /\ Len(attempts') = Len(attempts) + 1 /\ attempts'[Len(attempts) + 1] = s
      /\ \A i \in 1..Len(attempts) : attempts'[i] = attempts[i] /\ i \in 1..Len(attempts')
      /\ \A i \in 1..Len(attempts') : i \in 1..Len(attempts) \/ i = Len(attempts) + 1
      /\ Len(attempts) + 1 \in 1..Len(attempts')
  BY <1>1 DEF Goes
<1>3. ASSUME NEW x
      PROVE  Twins(x)' = Twins(x) \cup IF x = k THEN {Len(attempts) + 1} ELSE {}
  <2>1. \A i : i \in Twins(x)' <=> i \in 1..Len(attempts') /\ attempts'[i].key = x
    BY DEF Twins
  <2>2. \A i : i \in Twins(x) <=> i \in 1..Len(attempts) /\ attempts[i].key = x
    BY DEF Twins
  <2>3. \A i : i \in Twins(x)' <=> i \in Twins(x) \/ (x = k /\ i = Len(attempts) + 1)
    BY <1>2, <2>1, <2>2 DEF Goes
  <2> QED
    BY <2>3
<1>4. ASSUME NEW x, Twins(x) # {} PROVE Touched(x)' \subseteq Touched(x)
  <2>1. \A i \in 1..Len(attempts) : attempts'[i].key = attempts[i].key
    BY <1>2
  <2>2. \A i \in Twins(x) : attempts'[i].sent = attempts[i].sent
    BY <1>2 DEF Twins
  <2>3. \A i \in Twins(x) : attempts'[i].seen = "unknown" =>
          \/ attempts'[i].ended \in {}
          \/ attempts[i].seen = "unknown" /\ attempts'[i].ended = attempts[i].ended
    BY <1>2 DEF Twins
  <2>4. \A i \in 1..Len(attempts') : i \notin 1..Len(attempts) => attempts'[i].seen # "unknown"
    BY <1>2 DEF Goes
  <2>5. Len(attempts') \in Nat /\ Len(attempts) <= Len(attempts')
    BY <1>1, <1>2
  <2>6. Touched(x)' \subseteq Touched(x) \cup {}
    BY ONLY <1>1, <1>4, <2>1, <2>2, <2>3, <2>4, <2>5, TouchedGrows
  <2> QED
    BY <2>6
<1> QED
  BY <1>1, <1>2, <1>3, <1>4

\* A caller's own key is no page's.
LEMMA SendOwnRemembers ==
  ASSUME Inv, Memory, NEW body \in Body, NEW k \in OwnKey, SendOwn(body, k)
  PROVE  Memory'
<1> DEFINE s == Sent(Nobody, body, k)
<1>1. s \in Attempt /\ Goes(s, k) /\ s.page = Nobody /\ held' = held /\ clock' = clock
  BY SentIsAttempt DEF SendOwn, Goes, Sent, Inv, Shapes, Key
<1> HIDE DEF s
<1>2. /\ Shapes /\ clock \in Nat
      /\ k \notin Minted
  BY NamesDistinct DEF Inv, Shapes
<1>3. /\ Len(attempts) \in Nat /\ Len(attempts') = Len(attempts) + 1
      /\ attempts'[Len(attempts) + 1] = s
      /\ \A i \in 1..Len(attempts) : attempts'[i] = attempts[i] /\ i \in 1..Len(attempts')
      /\ \A i \in 1..Len(attempts') : i \in 1..Len(attempts) \/ i = Len(attempts) + 1
      /\ \A x \in Minted : Twins(x)' = Twins(x)
      /\ \A x : Twins(x) # {} => Touched(x)' \subseteq Touched(x)
  <2>1. \A x : Twins(x)' = Twins(x) \cup IF x = k THEN {Len(attempts) + 1} ELSE {}
    BY <1>1, <1>2, SendGoes
  <2>2. \A x \in Minted : Twins(x)' = Twins(x)
    BY <1>2, <2>1
  <2> QED
    BY <1>1, <1>2, <2>2, SendGoes
<1>4. Holding'
  <2> SUFFICES ASSUME NEW p \in Page, NEW b \in Body, held[p][b] # Forgotten
               PROVE  HeldFor(p, b)'
    BY <1>1 DEF Holding
  <2>1. HeldFor(p, b) /\ held[p][b].key \in Minted
    BY <1>2, EntryFields DEF Memory, Holding
  <2>2. \A i \in Twins(held[p][b].key) : attempts'[i] = attempts[i]
    BY <1>3 DEF Twins
  <2> QED
    BY <1>1, <1>3, <2>1, <2>2 DEF HeldFor
<1>5. \A m \in 1..Len(attempts') : attempts'[m].page # Nobody =>
        /\ m \in 1..Len(attempts) /\ attempts'[m] = attempts[m] /\ attempts[m].key \in Minted
  BY <1>1, <1>3 DEF Memory, OnePage
<1>6. OnePage'
  <2> SUFFICES ASSUME NEW m \in 1..Len(attempts'), attempts'[m].page # Nobody
               PROVE  /\ attempts'[m].key \in Minted
                      /\ \A n \in Twins(attempts[m].key) :
                           attempts'[n].page = attempts'[m].page
                             /\ attempts'[n].body = attempts'[m].body
    BY <1>3, <1>5 DEF OnePage
  <2>1. \A n \in Twins(attempts[m].key) : attempts'[n] = attempts[n]
    BY <1>3 DEF Twins
  <2> QED
    BY <1>5, <2>1 DEF Memory, OnePage
<1>7. Traced'
  <2> SUFFICES ASSUME NEW m \in 1..Len(attempts), attempts[m].page # Nobody,
                      attempts[m].key \in Minted,
                      NEW x, x = attempts[m].key, NEW sent, sent = attempts[m].sent
               PROVE  \/ Decided(x)'
                      \/ held'[attempts[m].page][attempts[m].body].key = x
                      \/ Lapsed(x, sent)'
    BY <1>5 DEF Traced
  <2>1. m \in Twins(x)
    BY DEF Twins
  <2>2. Touched(x)' \subseteq Touched(x)
    BY <1>3, <2>1
  <2>3. Lapsed(x, sent) => Lapsed(x, sent)'
    BY <1>1, <2>2 DEF Lapsed
  <2>4. Decided(x) => Decided(x)'
    BY <1>3 DEF Decided, Twins
  <2> QED
    BY <1>1, <2>3, <2>4 DEF Memory, Traced
<1> QED
  BY <1>4, <1>6, <1>7 DEF Memory

\* What a send finds and leaves: the key it goes out with is the one held for
\* its body, if that is not too old, or one never sent.
Young(entry) == clock - entry.at < Forget
Sends(page, body, k) ==
  /\ Sent(page, body, k) \in Attempt /\ Goes(Sent(page, body, k), k)
  /\ Sent(page, body, k).page = page /\ Sent(page, body, k).body = body
  /\ IF Young(held[page][body]) /\ held[page][body] # Forgotten
     THEN k = held[page][body].key /\ held'[page][body] = held[page][body]
     ELSE Twins(k) = {} /\ held'[page][body] = [key |-> k, at |-> clock]
  /\ \A p \in Page, b \in Body : p # page => held'[p][b] = held[p][b]
  /\ \A b \in Body : b # body =>
       held'[page][b] = IF Young(held[page][b]) THEN held[page][b] ELSE Forgotten

LEMMA SendEntries ==
  ASSUME Shapes, NEW page \in Page, NEW body \in Body, Send(page, body)
  PROVE  \E k \in Minted : Sends(page, body, k)
<1> DEFINE remembered == Remembered(page)
           known == remembered[body] # Forgotten
           unused == Minted \ {attempts[n].key : n \in 1..Len(attempts)}
<1>0. held \in [Page -> [Body -> Entry]] /\ clock \in Nat
  BY DEF Shapes
<1>1. \A b \in Body : remembered[b] = IF Young(held[page][b]) THEN held[page][b]
                                      ELSE Forgotten
  <2> SUFFICES ASSUME NEW b \in Body
               PROVE  remembered[b] = IF Young(held[page][b]) THEN held[page][b]
                                      ELSE Forgotten
    OBVIOUS
  <2>1. held[page][b].at \in Nat
    BY EntryFields
  <2>2. remembered[b] = IF clock - held[page][b].at >= Forget THEN Forgotten ELSE held[page][b]
    BY DEF Remembered
  <2>3. clock - held[page][b].at >= Forget <=> ~Young(held[page][b])
    BY <1>0, <2>1, TimesAssumption DEF Young
  <2> QED
    BY <2>2, <2>3
<1>2. remembered \in [Body -> Entry]
  BY <1>0 DEF Remembered, Entry
<1>3. known <=> Young(held[page][body]) /\ held[page][body] # Forgotten
  BY <1>1
<1>4. PICK k \in (IF known THEN {remembered[body].key} ELSE unused) :
        /\ attempts' = Append(attempts, Sent(page, body, k))
        /\ held' = [held EXCEPT ![page] =
             IF known THEN remembered
             ELSE [remembered EXCEPT ![body] = [key |-> k, at |-> clock]]]
        /\ UNCHANGED <<records, posts, clock>>
  BY DEF Send
<1>5. k \in Minted
  <2>1. known => remembered[body] \in Entry /\ remembered[body].key \in Minted
    BY <1>2 DEF Entry
  <2> QED
    BY <1>4, <2>1
<1>6. ~known => Twins(k) = {}
  BY <1>4 DEF Twins
<1>7. Sent(page, body, k) \in Attempt
  BY <1>0, <1>5, SentIsAttempt DEF Key
<1>8. /\ Goes(Sent(page, body, k), k)
      /\ Sent(page, body, k).page = page /\ Sent(page, body, k).body = body
  BY <1>4 DEF Goes, Sent
<1> HIDE DEF remembered
<1>9. \A p \in Page : p # page => held'[p] = held[p]
  BY <1>0, <1>4
<1>10. held'[page] = IF known THEN remembered
                     ELSE [remembered EXCEPT ![body] = [key |-> k, at |-> clock]]
  BY <1>0, <1>4
<1>11. CASE known
  BY <1>1, <1>3, <1>4, <1>5, <1>7, <1>8, <1>9, <1>10, <1>11 DEF Sends
<1>12. CASE ~known
  <2>1. /\ held'[page][body] = [key |-> k, at |-> clock]
        /\ \A b \in Body : b # body => held'[page][b] = remembered[b]
    BY <1>2, <1>10, <1>12
  <2> QED
    BY <1>1, <1>3, <1>5, <1>6, <1>7, <1>8, <1>9, <1>12, <2>1 DEF Sends
<1> QED
  BY <1>11, <1>12

LEMMA SendRemembers ==
  ASSUME Inv, Memory, NEW page \in Page, NEW body \in Body, Send(page, body)
  PROVE  Memory'
<1>0. Shapes /\ clock \in Nat
  BY DEF Inv, Shapes
<1>00. PICK k \in Minted : Sends(page, body, k)
  BY <1>0, SendEntries
<1> DEFINE s == Sent(page, body, k)
           last == Len(attempts) + 1
           known == Young(held[page][body]) /\ held[page][body] # Forgotten
<1>1. /\ known => k = held[page][body].key /\ held'[page][body] = held[page][body]
      /\ ~known => Twins(k) = {} /\ held'[page][body] = [key |-> k, at |-> clock]
      /\ \A p \in Page, b \in Body : p # page => held'[p][b] = held[p][b]
      /\ \A b \in Body : b # body =>
           held'[page][b] = IF Young(held[page][b]) THEN held[page][b] ELSE Forgotten
  BY <1>00 DEF Sends
<1>2. s \in Attempt /\ Goes(s, k) /\ s.page = page /\ s.body = body
  BY <1>00 DEF Sends
<1> HIDE DEF s
<1>3. /\ Len(attempts) \in Nat /\ Len(attempts') = last /\ attempts'[last] = s
      /\ \A i \in 1..Len(attempts) : attempts'[i] = attempts[i] /\ i \in 1..Len(attempts')
      /\ \A i \in 1..Len(attempts') : i \in 1..Len(attempts) \/ i = last
      /\ \A x : Twins(x)' = Twins(x) \cup IF x = k THEN {last} ELSE {}
      /\ \A x : Twins(x) # {} => Touched(x)' \subseteq Touched(x)
  BY <1>0, <1>2, SendGoes
<1>4. /\ s.key = k /\ s.sent = clock /\ s.seen = "nothing" /\ clock' = clock
      /\ page # Nobody /\ k # NoKey
  BY <1>2, NamesDistinct DEF Goes
<1>5. known => HeldFor(page, body) /\ k = held[page][body].key
  BY <1>1 DEF Memory, Holding
\* Every entry is an old one that is young enough, or the one just made.
<1>6. ASSUME NEW p \in Page, NEW b \in Body, held'[p][b] # Forgotten
      PROVE  \/ /\ held'[p][b] = held[p][b]
                /\ held[p][b].key = k => p = page /\ b = body /\ known
             \/ /\ p = page /\ b = body /\ ~known
                /\ Twins(k) = {} /\ held'[p][b] = [key |-> k, at |-> clock]
  <2>1. CASE p = page /\ b = body
    <3>1. CASE known
      BY <1>1, <2>1, <3>1
    <3>2. CASE ~known
      BY <1>1, <2>1, <3>2
    <3> QED
      BY <3>1, <3>2
  <2>2. CASE p # page \/ b # body
    <3>1. held'[p][b] = held[p][b] /\ HeldFor(p, b)
      BY <1>1, <1>6, <2>2 DEF Memory, Holding
    <3>2. held[p][b].key # k
      <4> SUFFICES ASSUME held[p][b].key = k PROVE FALSE
        OBVIOUS
      <4>1. Twins(k) # {} /\ \A n \in Twins(k) : attempts[n].page = p /\ attempts[n].body = b
        BY <3>1 DEF HeldFor
      <4>2. known
        BY <1>1, <4>1
      <4>3. \A n \in Twins(k) : attempts[n].page = page /\ attempts[n].body = body
        BY <1>5, <4>2 DEF HeldFor
      <4> QED
        BY <2>2, <4>1, <4>3
    <3> QED
      BY <3>1, <3>2
  <2> QED
    BY <2>1, <2>2
<1>7. Holding'
  <2> SUFFICES ASSUME NEW p \in Page, NEW b \in Body, held'[p][b] # Forgotten
               PROVE  HeldFor(p, b)'
    BY DEF Holding
  <2>1. CASE held'[p][b] = held[p][b] /\ held[p][b].key # k
    <3>1. HeldFor(p, b)
      BY <2>1 DEF Memory, Holding
    <3>2. Twins(held[p][b].key)' = Twins(held'[p][b].key) /\ held'[p][b].key = held[p][b].key
          /\ \A i \in Twins(held[p][b].key) : attempts'[i] = attempts[i]
      BY <1>3, <2>1 DEF Twins
    <3>3. \A x : x # k => Twins(x)' = Twins(x)
      BY <1>3
    <3> QED
      BY <1>3, <1>4, <2>1, <3>1, <3>2, <3>3 DEF HeldFor
  <2>2. CASE held'[p][b] = held[p][b] /\ held[p][b].key = k /\ p = page /\ b = body /\ known
    <3>1. HeldFor(page, body)
      BY <1>5, <2>2
    <3>2. /\ Twins(k)' = Twins(k) \cup {last} /\ Touched(k)' \subseteq Touched(k)
          /\ \A i \in Twins(k) : attempts'[i] = attempts[i]
      BY <1>3, <2>2, <3>1 DEF HeldFor, Twins
    <3>3. clock < held[page][body].at + Forget
      BY <1>0, <2>2, EntryFields, TimesAssumption DEF Young
    <3>4. \A i \in Twins(k)' :
            /\ attempts'[i].page = page /\ attempts'[i].body = body
            /\ attempts'[i].seen # "definite"
            /\ attempts'[i].sent < held[page][body].at + Forget
      BY <1>2, <1>3, <1>4, <2>2, <3>1, <3>2, <3>3 DEF HeldFor
    <3> QED
      BY <1>4, <2>2, <3>1, <3>2, <3>4 DEF HeldFor
  <2>3. CASE /\ p = page /\ b = body /\ ~known
             /\ Twins(k) = {} /\ held'[p][b] = [key |-> k, at |-> clock]
    <3>1. Twins(k)' = {last} /\ held'[p][b].key = k /\ held'[p][b].at = clock
      BY <1>3, <2>3
    <3>2. clock < clock + Forget /\ clock <= clock
      BY <1>0, TimesAssumption
    <3>3. \A e \in Touched(k)' : e = clock
      BY <1>3, <1>4, <3>1 DEF Touched, Twins
    <3> QED
      BY <1>2, <1>3, <1>4, <2>3, <3>1, <3>2, <3>3 DEF HeldFor
  <2> QED
    BY <1>6, <2>1, <2>2, <2>3
<1>8. OnePage'
  <2>1. ASSUME NEW n \in Twins(k)
        PROVE  n \in 1..Len(attempts) /\ attempts[n].page = page /\ attempts[n].body = body
    BY <1>1, <1>5, <2>1 DEF HeldFor, Twins
  <2> SUFFICES ASSUME NEW m \in 1..Len(attempts'), attempts'[m].page # Nobody,
                      NEW x, x = attempts'[m].key, NEW n \in Twins(x)'
               PROVE  /\ x \in Minted
                      /\ attempts'[n].page = attempts'[m].page
                      /\ attempts'[n].body = attempts'[m].body
    <3>1. \A m \in 1..Len(attempts') : attempts'[m].page # Nobody =>
            /\ last \in Nat
            /\ attempts'[m].key \in Minted
      BY <1>1, <1>2, <1>3, <1>4 DEF Memory, OnePage
    <3> QED
      BY <3>1 DEF OnePage
  <2>2. \/ n \in 1..Len(attempts) /\ attempts[n].key = x
        \/ n = last /\ x = k
    BY <1>3 DEF Twins
  <2>3. CASE m = last
    <3>1. x = k /\ attempts'[m].page = page /\ attempts'[m].body = body
      BY <1>2, <1>3, <1>4, <2>3
    <3>2. attempts'[n].page = page /\ attempts'[n].body = body
      BY <1>2, <1>3, <2>1, <2>2, <3>1 DEF Twins
    <3> QED
      BY <1>1, <3>1, <3>2
  <2>4. CASE m \in 1..Len(attempts)
    <3>1. /\ attempts'[m] = attempts[m] /\ x = attempts[m].key /\ x \in Minted
          /\ \A i \in Twins(x) : attempts[i].page = attempts[m].page
                                   /\ attempts[i].body = attempts[m].body
      BY <1>3, <2>4 DEF Memory, OnePage
    <3>2. CASE n \in 1..Len(attempts) /\ attempts[n].key = x
      BY <1>3, <3>1, <3>2 DEF Twins
    <3>3. CASE n = last /\ x = k
      <4>1. m \in Twins(k)
        BY <2>4, <3>1, <3>3 DEF Twins
      <4> QED
        BY <1>2, <1>3, <2>1, <3>1, <3>3, <4>1
    <3> QED
      BY <2>2, <3>2, <3>3
  <2> QED
    BY <1>3, <2>3, <2>4
<1>9. Traced'
  <2> SUFFICES ASSUME NEW m \in 1..Len(attempts'), attempts'[m].page # Nobody,
                      NEW x, x = attempts'[m].key, NEW sent, sent = attempts'[m].sent
               PROVE  \/ Decided(x)'
                      \/ held'[attempts'[m].page][attempts'[m].body].key = x
                      \/ Lapsed(x, sent)'
    BY DEF Traced
  <2>1. CASE m = last
    <3>1. held'[page][body].key = k
      BY <1>1
    <3> QED
      BY <1>2, <1>3, <1>4, <2>1, <3>1
  <2>2. CASE m \in 1..Len(attempts)
    <3>0. /\ attempts'[m] = attempts[m] /\ m \in Twins(x) /\ sent = attempts[m].sent /\ sent \in Nat
          /\ attempts[m].page \in Page /\ attempts[m].body \in Body /\ x \in Minted
      BY <1>0, <1>3, <2>2, RequestFields DEF Memory, OnePage, Twins
    <3>1. Touched(x)' \subseteq Touched(x)
      BY <1>3, <3>0
    <3>2. Lapsed(x, sent) => Lapsed(x, sent)'
      BY <1>4, <3>1 DEF Lapsed
    <3>3. Decided(x) => Decided(x)'
      BY <1>3 DEF Decided, Twins
    <3>4. CASE held[attempts[m].page][attempts[m].body].key = x
      <4> DEFINE p == attempts[m].page
                 b == attempts[m].body
      <4>1. p \in Page /\ b \in Body /\ held[p][b].key = x
        BY <3>0, <3>4
      <4> HIDE DEF p, b
      <4>2. held[p][b] # Forgotten /\ held[p][b].at \in Nat /\ HeldFor(p, b)
        BY <1>0, <3>0, <4>1, EntryFields DEF Memory, Holding
      <4>3. CASE Young(held[p][b])
        <5>1. held'[p][b].key = x
          BY <1>1, <4>1, <4>2, <4>3
        <5> QED
          BY <3>0, <5>1 DEF p, b
      <4>4. CASE ~Young(held[p][b])
        <5>1. sent < held[p][b].at + Forget
          BY <3>0, <4>1, <4>2 DEF HeldFor
        <5>2. clock \in (sent + 1)..clock
          BY <1>0, <3>0, <4>2, <4>4, <5>1, TimesAssumption DEF Young
        <5>3. ASSUME NEW e \in Touched(x)' PROVE ~(e < clock /\ clock - e < Forget)
          <6>1. e \in Nat /\ e <= held[p][b].at
            BY <1>0, <3>1, <4>1, <4>2, TouchedNat DEF HeldFor
          <6> QED
            BY <1>0, <4>2, <4>4, <6>1, TimesAssumption DEF Young
        <5> QED
          BY <1>4, <5>2, <5>3 DEF Lapsed
      <4> QED
        BY <4>3, <4>4
    <3> QED
      BY <2>2, <3>0, <3>2, <3>3, <3>4 DEF Memory, Traced
  <2> QED
    BY <1>3, <2>1, <2>2
<1> QED
  BY <1>7, <1>8, <1>9 DEF Memory

LEMMA MemoryKept == Inv /\ Memory /\ [Next]_vars => Memory'
<1> SUFFICES ASSUME Inv, Memory, [Next]_vars PROVE Memory'
  OBVIOUS
<1>1. CASE ServerStep \/ Tick \/ UNCHANGED vars
  BY <1>1, ServerUnseen, UnseenRemembers
<1>2. ASSUME NEW n \in 1..Len(attempts), Tell(n) \/ GiveUp(n) PROVE Memory'
  <2>1. /\ Open(n) /\ clock' = clock
        /\ \E a \in Attempt : Heard(n, a)
    BY <1>2, AnswerHeard DEF Inv
  <2> QED
    BY <2>1, HeardRemembers
<1>3. CASE AppStep
  BY <1>2, <1>3, SendRemembers, SendOwnRemembers, ReloadRemembers DEF AppStep
<1> QED
  BY <1>1, <1>3 DEF Next

LEMMA ReloadKeepsAll ==
  ASSUME Inv, NEW page \in Page, Reload(page)
  PROVE  Len(attempts') = Len(attempts)
BY DEF Inv, Shapes, Reload

\* Only a save adds a request that somebody waits for, and nothing else of the
\* requests changes with it.
LEMMA OnlySendsAdd ==
  ASSUME Inv, [Next]_vars, NEW n \in (Len(attempts) + 1)..Len(attempts'),
         attempts'[n].page # Nobody
  PROVE  \E page \in Page, body \in Body, k \in Minted :
           Sends(page, body, k) /\ attempts'[n] = Sent(page, body, k)
<1>0. Shapes /\ Len(attempts) \in Nat
  BY DEF Inv, Shapes
<1>1. CASE \E page \in Page, body \in Body : Send(page, body)
  <2>1. PICK page \in Page, body \in Body : Send(page, body)
    BY <1>1
  <2>2. PICK k \in Minted : Sends(page, body, k)
    BY <1>0, <2>1, SendEntries
  <2>3. Sent(page, body, k) \in Attempt /\ Goes(Sent(page, body, k), k)
    BY <2>2 DEF Sends
  <2> DEFINE s == Sent(page, body, k)
  <2> HIDE DEF s
  <2>4. Len(attempts') = Len(attempts) + 1 /\ attempts'[Len(attempts) + 1] = s
    BY <1>0, <2>3, SendGoes DEF s
  <2>5. n = Len(attempts) + 1
    BY <1>0, <2>4
  <2> QED
    BY <2>2, <2>4, <2>5 DEF s
<1>2. CASE \E body \in Body, k \in OwnKey : SendOwn(body, k)
  <2>1. PICK body \in Body, k \in OwnKey : SendOwn(body, k)
    BY <1>2
  <2>2. attempts' = Append(attempts, Sent(Nobody, body, k)) /\ attempts \in Seq(Attempt)
    BY <1>0, <2>1 DEF SendOwn, Shapes
  <2> DEFINE s == Sent(Nobody, body, k)
  <2>3. s.page = Nobody
    BY DEF Sent
  <2> HIDE DEF s
  <2>4. attempts' = Append(attempts, s)
    BY <2>2 DEF s
  <2>5. attempts'[n] = s
    BY <1>0, <2>2, <2>4
  <2> QED
    BY <2>3, <2>5
<1>3. CASE /\ ~\E page \in Page, body \in Body : Send(page, body)
           /\ ~\E body \in Body, k \in OwnKey : SendOwn(body, k)
  <2>1. Len(attempts') = Len(attempts)
    <3>1. CASE ServerStep \/ Tick \/ UNCHANGED vars
      BY <3>1, ServerUnseen DEF Unseen
    <3>2. CASE \E i \in 1..Len(attempts) : Tell(i) \/ GiveUp(i)
      <4>1. PICK i \in 1..Len(attempts) : Tell(i) \/ GiveUp(i)
        BY <3>2
      <4>2. PICK a \in Attempt : Heard(i, a)
        BY <1>0, <4>1, AnswerHeard
      <4> QED
        BY <1>0, <4>2 DEF Heard, Shapes
    <3>3. CASE \E page \in Page : Reload(page)
      <4>1. PICK page \in Page : Reload(page)
        BY <3>3
      <4> QED
        BY <4>1, ReloadKeepsAll
    <3> QED
      BY <1>3, <3>1, <3>2, <3>3 DEF Next, AppStep
  <2> QED
    BY <1>0, <2>1
<1> QED
  BY <1>1, <1>2, <1>3

\* A key that had its answer is held by nobody, and one that was never sent is
\* no spent one.
LEMMA SendNotSpent ==
  ASSUME Inv, Memory, NEW page \in Page, NEW body \in Body, NEW k \in Minted,
         Sends(page, body, k), NEW m \in 1..Len(attempts), attempts[m].key = k
  PROVE  attempts[m].seen # "definite"
<1>1. m \in Twins(k)
  BY DEF Twins
<1>2. held[page][body] # Forgotten /\ k = held[page][body].key
  BY <1>1 DEF Sends
<1> QED
  BY <1>1, <1>2 DEF Memory, Holding, HeldFor

\* A page that is in doubt still holds the key, unless its window ran out.
LEMMA SendInDoubt ==
  ASSUME Inv, Memory, NEW page \in Page, NEW body \in Body, NEW k \in Minted,
         Sends(page, body, k), NEW m \in 1..Len(attempts),
         attempts[m].page = page, attempts[m].body = body, ~Decided(attempts[m].key),
         ~Lapsed(attempts[m].key, attempts[m].sent)
  PROVE  k = attempts[m].key
<1>0. Shapes /\ page # Nobody /\ clock \in Nat /\ attempts[m].sent \in Nat
  BY RequestFields, NamesDistinct DEF Inv, Shapes
<1>1. held[page][body].key = attempts[m].key /\ attempts[m].key \in Minted
  BY <1>0 DEF Memory, Traced, OnePage
<1>2. held[page][body] # Forgotten /\ held[page][body].at \in Nat
  BY <1>0, <1>1, EntryFields
<1>3. CASE Young(held[page][body])
  BY <1>1, <1>2, <1>3 DEF Sends
<1>4. CASE ~Young(held[page][body])
  <2>1. HeldFor(page, body) /\ m \in Twins(held[page][body].key)
    BY <1>1, <1>2 DEF Memory, Holding, Twins
  <2>2. attempts[m].sent < held[page][body].at + Forget
    BY <2>1 DEF HeldFor
  <2>3. clock \in (attempts[m].sent + 1)..clock
    BY <1>0, <1>2, <1>4, <2>2, TimesAssumption DEF Young
  <2>4. ASSUME NEW e \in Touched(attempts[m].key) PROVE ~(e < clock /\ clock - e < Forget)
    <3>1. e \in Nat /\ e <= held[page][body].at
      BY <1>0, <1>1, <2>1, TouchedNat DEF HeldFor
    <3> QED
      BY <1>0, <1>2, <1>4, <3>1, TimesAssumption DEF Young
  <2> QED
    BY <2>3, <2>4 DEF Lapsed
<1> QED
  BY <1>3, <1>4

LEMMA Remembers == Spec => [](Inv /\ Memory)
<1>1. Init => Memory
  BY DEF Init, Memory, Holding, OnePage, Traced
<1> QED
  BY <1>1, InvInit, InvKept, MemoryKept, PTL DEF Spec

\* A key that had its definite answer is never sent by a page again: writeKey
\* and the outcomes of apiFetch, whatever twins were still on their way.
THEOREM SpentKeysAreGone == Spec => SpentKeyStaysSpent
<1>1. Inv /\ Memory /\ [Next]_vars =>
        \A n \in (Len(attempts) + 1)..Len(attempts') : \A m \in 1..Len(attempts) :
          attempts'[n].page # Nobody /\ attempts[m].seen = "definite" =>
            attempts'[n].key # attempts[m].key
  <2> SUFFICES ASSUME Inv, Memory, [Next]_vars,
                      NEW n \in (Len(attempts) + 1)..Len(attempts'),
                      NEW m \in 1..Len(attempts),
                      attempts'[n].page # Nobody, attempts'[n].key = attempts[m].key
               PROVE  attempts[m].seen # "definite"
    OBVIOUS
  <2>1. PICK page \in Page, body \in Body, k \in Minted :
          Sends(page, body, k) /\ attempts'[n] = Sent(page, body, k)
    BY OnlySendsAdd
  <2>2. attempts[m].key = k
    BY <2>1 DEF Sent
  <2> QED
    BY <2>1, <2>2, SendNotSpent
<1> QED
  BY <1>1, Remembers, PTL DEF Spec, SpentKeyStaysSpent

\* Saving the same again in doubt carries the same key (writeKey's 15 minutes,
\* counted from the first send and from every failure).
THEOREM DoubtsKeepKeys == Spec => DoubtKeepsTheKey
<1> DEFINE Doubtful(a, n) ==
             /\ a.page = attempts'[n].page /\ a.page # Nobody
             /\ a.body = attempts'[n].body
             /\ \A l \in 1..Len(attempts) : attempts[l].key = a.key => attempts[l].seen # "definite"
             /\ \A t \in (a.sent + 1)..clock : \E e \in Touched(a.key) : e < t /\ t - e < Forget
<1>1. Inv /\ Memory /\ [Next]_vars =>
        \A n \in (Len(attempts) + 1)..Len(attempts') : \A m \in 1..Len(attempts) :
          Doubtful(attempts[m], n) => attempts'[n].key = attempts[m].key
  <2> SUFFICES ASSUME Inv, Memory, [Next]_vars,
                      NEW n \in (Len(attempts) + 1)..Len(attempts'),
                      NEW m \in 1..Len(attempts), Doubtful(attempts[m], n)
               PROVE  attempts'[n].key = attempts[m].key
    OBVIOUS
  <2>1. PICK page \in Page, body \in Body, k \in Minted :
          Sends(page, body, k) /\ attempts'[n] = Sent(page, body, k)
    BY OnlySendsAdd
  <2>2. /\ attempts'[n].page = page /\ attempts'[n].body = body /\ attempts'[n].key = k
    BY <2>1 DEF Sent
  <2>3. ~Decided(attempts[m].key)
    BY DEF Decided, Twins
  <2>4. ~Lapsed(attempts[m].key, attempts[m].sent)
    BY DEF Lapsed
  <2> QED
    BY <2>1, <2>2, <2>3, <2>4, SendInDoubt
<1> QED
  BY <1>1, Remembers, PTL DEF Spec, DoubtKeepsTheKey

-----------------------------------------------------------------------------
(* A success names the caller's own row.  A record points at the row that   *)
(* its key wrote for its body; a request has no status before its answer.   *)

RecordsPoint ==
  \A k \in DOMAIN records :
    LET row == records[k].result
    IN  row \in 1..Len(posts) /\ posts[row].key = k /\ posts[row].body = records[k].body

Unanswered ==
  \A n \in 1..Len(attempts) :
    attempts[n].place # "answered" => attempts[n].status = "none"

LEMMA SuccessInit == Init => RecordsPoint /\ Unanswered
BY DEF Init, RecordsPoint, Unanswered, NoRecord

\* An answer leaves every other request as it was.
LEMMA AnsweredStatus ==
  ASSUME Inv, Unanswered, NEW n \in 1..Len(attempts), NEW status, NEW row,
         Answered(n, status, row)
  PROVE  /\ Unanswered'
         /\ \A i \in 1..Len(attempts) : i # n => attempts'[i] = attempts[i]
         /\ attempts'[n].status = status
         /\ status = "created" => attempts'[n].result = row
<1>1. attempts \in Seq(Attempt) /\ attempts[n] \in Attempt
  BY RequestsTyped DEF Inv, Shapes
<1> DEFINE a == [attempts[n] EXCEPT !.place = "answered", !.stamp = 0, !.status = status,
                                    !.result = IF status = "created" THEN row ELSE 0]
<1>2. a.place = "answered" /\ a.status = status /\ (status = "created" => a.result = row)
  BY <1>1 DEF Attempt
<1>3. attempts' = [attempts EXCEPT ![n] = a]
  BY DEF Answered
<1> HIDE DEF a
<1> QED
  BY <1>1, <1>2, <1>3 DEF Unanswered

\* Every other step leaves records, rows and what was answered.
LEMMA AppStaysUnanswered ==
  ASSUME Inv, Unanswered, AppStep
  PROVE  Unanswered' /\ \A i \in 1..Len(attempts) :
           attempts[i].place = "arrived" => attempts'[i].status = "none"
<1>0. Shapes /\ attempts \in Seq(Attempt) /\ Len(attempts) \in Nat
  BY DEF Inv, Shapes
<1> DEFINE Silent == Unanswered' /\ \A i \in 1..Len(attempts) :
                       attempts[i].place = "arrived" => attempts'[i].status = "none"
<1>1. ASSUME NEW s, s.status = "none", s.place = "travelling", attempts' = Append(attempts, s)
      PROVE  Silent
  BY <1>0, <1>1 DEF Unanswered
<1>2. ASSUME NEW page, NEW body, NEW k, attempts' = Append(attempts, Sent(page, body, k))
      PROVE  Silent
  <2> DEFINE s == Sent(page, body, k)
  <2>1. s.status = "none" /\ s.place = "travelling"
    BY DEF Sent
  <2>2. attempts' = Append(attempts, s)
    BY <1>2
  <2> HIDE DEF s
  <2> QED
    BY <1>1, <2>1, <2>2
<1>3. ASSUME NEW n \in 1..Len(attempts), NEW a, attempts' = [attempts EXCEPT ![n] = a],
             a.place # "answered", a.status = "none"
      PROVE  Silent
  BY <1>0, <1>3 DEF Unanswered
<1>4. ASSUME NEW a \in Attempt PROVE Over(a).place = "over" /\ Over(a).status = "none"
  BY <1>4 DEF Over, Attempt
<1>5. \A n \in 1..Len(attempts) : attempts[n] \in Attempt
  BY <1>0, RequestsTyped
<1>6. clock \in Nat
  BY <1>0 DEF Shapes
<1>7. ASSUME NEW n \in 1..Len(attempts), Tell(n) PROVE Silent
  <2>1. PICK a \in Attempt : attempts' = [attempts EXCEPT ![n] = Over(a)]
    <3>1. [attempts[n] EXCEPT !.seen = "definite"] \in Attempt
      BY <1>5 DEF Attempt
    <3>2. [attempts[n] EXCEPT !.seen = "unknown", !.ended = clock] \in Attempt
      BY <1>5, <1>6 DEF Attempt
    <3>3. \/ attempts' = [attempts EXCEPT ![n] = Over([attempts[n] EXCEPT !.seen = "definite"])]
          \/ attempts' = [attempts EXCEPT ![n] =
               Over([attempts[n] EXCEPT !.seen = "unknown", !.ended = clock])]
      BY <1>7 DEF Tell
    <3> QED
      BY <3>1, <3>2, <3>3
  <2>2. Over(a).place # "answered" /\ Over(a).status = "none"
    BY <1>4
  <2> HIDE DEF Silent
  <2> QED
    BY <1>3, <2>1, <2>2
<1>8. ASSUME NEW n \in 1..Len(attempts), GiveUp(n) PROVE Silent
  <2> DEFINE left == [attempts[n] EXCEPT !.seen = "unknown", !.ended = clock]
  <2>1. /\ left \in Attempt /\ left.place = attempts[n].place /\ left.status = attempts[n].status
    BY <1>5, <1>6 DEF Attempt
  <2>2. attempts' = [attempts EXCEPT ![n] =
          IF attempts[n].place = "answered" THEN Over(left) ELSE left]
    BY <1>8 DEF GiveUp
  <2> HIDE DEF left
  <2> DEFINE a == IF attempts[n].place = "answered" THEN Over(left) ELSE left
  <2>3. a.place # "answered" /\ a.status = "none"
    BY <1>4, <2>1 DEF Unanswered
  <2>4. attempts' = [attempts EXCEPT ![n] = a]
    BY <2>2
  <2> HIDE DEF a, Silent
  <2> QED
    BY <1>3, <2>3, <2>4
<1>9. ASSUME NEW page \in Page, Reload(page) PROVE Silent
  <2>1. Len(attempts') = Len(attempts)
    BY <1>0, <1>9 DEF Reload
  <2>2. ASSUME NEW i \in 1..Len(attempts)
        PROVE  attempts'[i].place = attempts[i].place /\ attempts'[i].status = attempts[i].status
    <3>1. attempts'[i] = IF attempts[i].page = page THEN Orphaned(attempts[i]) ELSE attempts[i]
      BY <1>9 DEF Reload
    <3>2. attempts[i] \in Attempt
      BY <1>5
    <3> QED
      BY <3>1, <3>2 DEF Orphaned, Attempt
  <2> QED
    BY <1>0, <2>1, <2>2 DEF Unanswered
<1>10. ASSUME NEW page \in Page, NEW body \in Body, Send(page, body) PROVE Silent
  <2>1. PICK k \in Minted : Sends(page, body, k)
    BY <1>0, <1>10, SendEntries
  <2> HIDE DEF Silent
  <2> QED
    BY <1>2, <2>1 DEF Sends, Goes
<1>11. ASSUME NEW body \in Body, NEW k \in OwnKey, SendOwn(body, k) PROVE Silent
  <2> HIDE DEF Silent
  <2> QED
    BY <1>2, <1>11 DEF SendOwn
<1> HIDE DEF Silent
<1>12. Silent
  BY <1>7, <1>8, <1>9, <1>10, <1>11 DEF AppStep
<1> QED
  BY <1>12 DEF Silent

\* A write points its key's record at the row it adds; a replay answers with the
\* row its record points at; a restore leaves no record to point anywhere.
LEMMA ServerNames ==
  ASSUME Inv, RecordsPoint, Unanswered, ServerStep
  PROVE  /\ RecordsPoint' /\ Unanswered'
         /\ \A i \in 1..Len(attempts) :
              attempts[i].place = "arrived" /\ attempts'[i].status = "created" =>
                LET row == attempts'[i].result
                IN  /\ row \in 1..Len(posts') /\ posts'[row].key = attempts[i].key
                    /\ posts'[row].body = attempts[i].body
<1> DEFINE Named(i) ==
      attempts[i].place = "arrived" /\ attempts'[i].status = "created" =>
        /\ attempts'[i].result \in 1..Len(posts')
        /\ posts'[attempts'[i].result].key = attempts[i].key
        /\ posts'[attempts'[i].result].body = attempts[i].body
    Right == RecordsPoint' /\ Unanswered' /\ \A i \in 1..Len(attempts) : Named(i)
<1>0. /\ Shapes /\ attempts \in Seq(Attempt) /\ posts \in Seq(Post) /\ Len(posts) \in Nat
      /\ \A i \in 1..Len(attempts) : attempts[i] \in Attempt
  BY RequestsTyped DEF Inv, Shapes
<1>1. ASSUME NEW n \in 1..Len(attempts), Vanish(n) \/ Arrive(n) PROVE Right
  <2> DEFINE a == IF Vanish(n) THEN Over(attempts[n])
                  ELSE [attempts[n] EXCEPT !.place = "arrived", !.stamp = clock]
  <2>1. attempts' = [attempts EXCEPT ![n] = a] /\ UNCHANGED <<records, posts>>
    BY <1>1 DEF Vanish, Arrive
  <2>2. a.place # "answered" /\ a.status = "none"
    BY <1>0, <1>1 DEF Vanish, Arrive, Over, Unanswered, Attempt
  <2> HIDE DEF a
  <2> QED
    BY <1>0, <2>1, <2>2 DEF Unanswered, RecordsPoint
<1>2. ASSUME NEW n \in 1..Len(attempts), Replay(n) PROVE Right
  <2>1. PICK status \in {"created", "failed"} :
          Answered(n, status, records[attempts[n].key].result)
    BY <1>2 DEF Replay
  <2>2. /\ attempts[n].key \in DOMAIN records /\ records[attempts[n].key].body = attempts[n].body
        /\ UNCHANGED <<records, posts>>
    BY <1>2 DEF Replay, Live, SameRequest
  <2>3. /\ Unanswered' /\ \A i \in 1..Len(attempts) : i # n => attempts'[i] = attempts[i]
        /\ status = "created" => attempts'[n].result = records[attempts[n].key].result
        /\ attempts'[n].status = status
    BY <2>1, AnsweredStatus
  <2>4. ASSUME NEW i \in 1..Len(attempts) PROVE Named(i)
    BY <2>2, <2>3 DEF RecordsPoint, Unanswered
  <2> QED
    BY <2>2, <2>3, <2>4 DEF RecordsPoint
<1>3. ASSUME NEW n \in 1..Len(attempts), Write(n) PROVE Right
  <2> DEFINE a == attempts[n]
             p == [key |-> a.key, body |-> a.body, stamp |-> a.stamp, at |-> clock]
             recorded == [body |-> a.body, result |-> Len(posts) + 1, createdAt |-> a.stamp,
                          expiresAt |-> Expiry(a.stamp)]
  <2>1. PICK status \in {"created", "failed"} : Answered(n, status, Len(posts) + 1)
    BY <1>3 DEF Write
  <2>2. /\ posts' = Append(posts, p)
        /\ records' = [k \in Unexpired(a.stamp) \cup {a.key} |->
                         IF k = a.key THEN recorded ELSE records[k]]
    BY <1>3 DEF Write
  <2>3. /\ Unanswered' /\ \A i \in 1..Len(attempts) : i # n => attempts'[i] = attempts[i]
        /\ attempts'[n].status = status
        /\ status = "created" => attempts'[n].result = Len(posts) + 1
    BY <2>1, AnsweredStatus
  <2>4. p.key = a.key /\ p.body = a.body /\ recorded.result = Len(posts) + 1
        /\ recorded.body = a.body
    OBVIOUS
  <2> HIDE DEF p, recorded
  <2>5. /\ Len(posts') = Len(posts) + 1 /\ posts'[Len(posts) + 1] = p
        /\ \A i \in 1..Len(posts) : posts'[i] = posts[i] /\ i \in 1..Len(posts')
        /\ Len(posts) + 1 \in 1..Len(posts')
    BY <1>0, <2>2
  <2>6. /\ DOMAIN records' = Unexpired(a.stamp) \cup {a.key} /\ records'[a.key] = recorded
        /\ \A k \in Unexpired(a.stamp) :
             k # a.key => records'[k] = records[k] /\ k \in DOMAIN records
    BY <2>2 DEF Unexpired
  <2>7. RecordsPoint'
    BY <2>4, <2>5, <2>6 DEF RecordsPoint
  <2>8. ASSUME NEW i \in 1..Len(attempts) PROVE Named(i)
    <3>1. CASE i = n
      BY <2>3, <2>4, <2>5, <3>1
    <3>2. CASE i # n
      BY <2>3, <3>2 DEF Unanswered
    <3> QED
      BY <3>1, <3>2
  <2> QED
    BY <2>3, <2>7, <2>8
<1>4. ASSUME NEW n \in 1..Len(attempts), Decline(n) PROVE Right
  <2>1. PICK status \in {"refused", "failed"} : Answered(n, status, 0)
    BY <1>4 DEF Decline
  <2>2. /\ Unanswered' /\ attempts'[n].status = status
        /\ \A i \in 1..Len(attempts) : i # n => attempts'[i] = attempts[i]
    BY <2>1, AnsweredStatus
  <2>3. UNCHANGED <<records, posts>>
    BY <1>4 DEF Decline
  <2> QED
    BY <2>2, <2>3 DEF RecordsPoint, Unanswered
<1>5. ASSUME Restore PROVE Right
  BY <1>5 DEF Restore, NoRecord, RecordsPoint, Unanswered
<1> HIDE DEF Right
<1>6. Right
  BY <1>1, <1>2, <1>3, <1>4, <1>5 DEF ServerStep
<1> QED
  BY <1>6 DEF Right

\* A success names the row that is in the book for the caller's own key and body
\* (withIdempotency answers with what it wrote or what its record points at).
THEOREM SuccessesNameTheirRows == Spec => SuccessNamesOwnRow
<1> DEFINE Names ==
      \A n \in 1..Len(attempts) :
        attempts[n].place = "arrived" /\ attempts'[n].status = "created" =>
          LET row == attempts'[n].result
          IN  /\ row \in 1..Len(posts')
              /\ posts'[row].key = attempts[n].key
              /\ posts'[row].body = attempts[n].body
<1>1. Inv /\ RecordsPoint /\ Unanswered /\ [Next]_vars => RecordsPoint' /\ Unanswered' /\ Names
  <2> SUFFICES ASSUME Inv, RecordsPoint, Unanswered, [Next]_vars
               PROVE  RecordsPoint' /\ Unanswered' /\ Names
    OBVIOUS
  <2>1. CASE ServerStep
    BY <2>1, ServerNames
  <2>2. CASE AppStep
    <3>1. UNCHANGED <<records, posts>>
      BY <2>2 DEF AppStep, Send, SendOwn, Tell, GiveUp, Reload
    <3> QED
      BY <2>2, <3>1, AppStaysUnanswered DEF RecordsPoint
  <2>3. CASE Tick \/ UNCHANGED vars
    BY <2>3 DEF Tick, vars, RecordsPoint, Unanswered
  <2> QED
    BY <2>1, <2>2, <2>3 DEF Next
<1>2. Spec => [](Inv /\ RecordsPoint /\ Unanswered)
  <2>1. Inv /\ RecordsPoint /\ Unanswered /\ [Next]_vars => RecordsPoint' /\ Unanswered'
    BY <1>1
  <2> QED
    BY <2>1, InvInit, InvKept, SuccessInit, PTL DEF Spec
<1>3. Inv /\ RecordsPoint /\ Unanswered /\ [Next]_vars => Names
  BY <1>1
<1> QED
  BY <1>2, <1>3, PTL DEF Spec, SuccessNamesOwnRow
=============================================================================
