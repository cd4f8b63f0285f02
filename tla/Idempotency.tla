---------------------------- MODULE Idempotency ----------------------------
(***************************************************************************)
(* Writes that are safe to repeat (ADR-043), end to end: the app's fetch   *)
(* wrapper, which gives a save a key and keeps it while the outcome is in  *)
(* doubt; the network, which loses, delays and reorders; and the server,   *)
(* which checks the key, writes and records in one transaction.            *)
(*                                                                         *)
(* A save is identified by its method, path and body, a "body" here.  The  *)
(* row it writes stands for whatever its route posts.                      *)
(***************************************************************************)
EXTENDS Integers, Sequences

CONSTANTS
  Page,       \* open pages of the app, each with a map of its own
  Nobody,     \* not a page: nobody waits for the answer
  Body,       \* what can be saved
  Minted,     \* the keys that the app's random source can give
  OwnKey,     \* keys a caller outside the app chooses itself
  NoKey,      \* no key: an unused entry, or a row that a restore brought back
  Forget,     \* IDEMPOTENCY_FORGET_MS
  Retention,  \* idempotencyRetention
  Restores,   \* bound: whether a backup is ever restored
  MaxSends,   \* bound: how many requests are sent
  MaxClock    \* bound: how far the clock runs

ASSUME NamesDistinct ==
  /\ Nobody \notin Page
  /\ Minted \cap OwnKey = {} /\ NoKey \notin Minted \cup OwnKey
ASSUME TimesAssumption == Forget \in Nat \ {0} /\ Retention \in Nat \ {0}
ASSUME BoundsAssumption == Restores \in BOOLEAN /\ MaxSends \in Nat /\ MaxClock \in Nat

VARIABLES
  held,      \* pendingKeys: per page and body, the key and when it last failed
  attempts,  \* every request sent, in order
  records,   \* the idempotency_key table
  posts,     \* the rows written, in id order
  clock

vars == <<held, attempts, records, posts, clock>>

Key == Minted \cup OwnKey
Forgotten == [key |-> NoKey, at |-> 0]

\* One request: who waits for it, what it carries, what its sender has seen of
\* it and when it failed, how far it got, the server's clock when it arrived, its answer.
Attempt == [page : Page \cup {Nobody}, body : Body, key : Key, sent : Nat,
            seen : {"nothing", "definite", "unknown"}, ended : Nat,
            place : {"travelling", "arrived", "answered", "over"}, stamp : Nat,
            status : {"none", "created", "refused", "failed"}, result : Nat]

Record == [body : Body, result : Nat, createdAt : Nat, expiresAt : Nat]

TypeOK ==
  /\ held \in [Page -> [Body -> [key : Minted \cup {NoKey}, at : Nat]]]
  /\ attempts \in Seq(Attempt)
  /\ DOMAIN records \subseteq Key
  /\ \A k \in DOMAIN records :
       records[k] \in Record /\ records[k].expiresAt > records[k].createdAt
  /\ posts \in Seq([key : Key \cup {NoKey}, body : Body, stamp : Nat, at : Nat])
  /\ clock \in Nat

\* Nothing more comes of a request: what it carried on the way is dropped.
Over(a) == [a EXCEPT !.place = "over", !.stamp = 0, !.status = "none", !.result = 0]

Open(n) == attempts[n].page # Nobody /\ attempts[n].seen = "nothing"
Sent(page, body, k) ==
  [page |-> page, body |-> body, key |-> k, sent |-> clock, seen |-> "nothing",
   ended |-> 0, place |-> "travelling", stamp |-> 0, status |-> "none", result |-> 0]

-----------------------------------------------------------------------------
(* The app: writeKey and the outcomes of apiFetch.                          *)

\* What is left of a page's entries: those past the window are forgotten.
Remembered(page) ==
  [b \in Body |-> IF clock - held[page][b].at >= Forget THEN Forgotten ELSE held[page][b]]

\* A definite answer drops the entry, and an indefinite one moves its time, only
\* if the entry still holds the request's own key.
\* Mutants: the key is not compared.
DroppedAnyway(entry, k) == Forgotten
Dropped(entry, k) == IF entry.key = k THEN Forgotten ELSE entry
KeptAnyway(entry, k) == [key |-> k, at |-> clock]
Kept(entry, k) == IF entry.key = k THEN [key |-> k, at |-> clock] ELSE entry

\* A save goes out with the key that is remembered for it, or with a fresh one.
Send(page, body) ==
  LET remembered == Remembered(page)
      known == remembered[body] # Forgotten
      unused == Minted \ {attempts[n].key : n \in 1..Len(attempts)}
  IN  /\ Len(attempts) < MaxSends
      /\ \E k \in (IF known THEN {remembered[body].key} ELSE unused) :
           /\ attempts' = Append(attempts, Sent(page, body, k))
           /\ held' = [held EXCEPT ![page] =
                IF known THEN remembered
                ELSE [remembered EXCEPT ![body] = [key |-> k, at |-> clock]]]
      /\ UNCHANGED <<records, posts, clock>>

\* A caller that sets the header itself keeps its own key, untracked.
SendOwn(body, k) ==
  /\ Len(attempts) < MaxSends
  /\ attempts' = Append(attempts, Sent(Nobody, body, k))
  /\ UNCHANGED <<held, records, posts, clock>>

\* The answer reaches the page: a 2xx or a 4xx is definite, a 5xx is not.
Tell(n) ==
  LET a == attempts[n]
      definite == a.status # "failed"
  IN  /\ Open(n)
      /\ a.place = "answered"
      /\ attempts' = [attempts EXCEPT ![n] =
           Over(IF definite THEN [a EXCEPT !.seen = "definite"]
                ELSE [a EXCEPT !.seen = "unknown", !.ended = clock])]
      /\ held' = [held EXCEPT ![a.page][a.body] =
           IF definite THEN Dropped(@, a.key) ELSE Kept(@, a.key)]
      /\ UNCHANGED <<records, posts, clock>>

\* The connection is lost, the wait runs out or the caller aborts, wherever the
\* request is by then: it may still arrive and be served.
GiveUp(n) ==
  LET a == attempts[n]
  IN  /\ Open(n)
      /\ LET left == [a EXCEPT !.seen = "unknown", !.ended = clock]
         IN  attempts' = [attempts EXCEPT ![n] =
               IF a.place = "answered" THEN Over(left) ELSE left]
      /\ held' = [held EXCEPT ![a.page][a.body] = Kept(@, a.key)]
      /\ UNCHANGED <<records, posts, clock>>

\* A reload forgets the keys and what became of each request; nobody waits for
\* what was sent.
Orphaned(a) == [a EXCEPT !.page = Nobody, !.sent = 0, !.seen = "nothing", !.ended = 0]
Reload(page) ==
  /\ held' = [held EXCEPT ![page] = [b \in Body |-> Forgotten]]
  /\ attempts' = [n \in 1..Len(attempts) |->
       IF attempts[n].page = page THEN Orphaned(attempts[n]) ELSE attempts[n]]
  /\ UNCHANGED <<records, posts, clock>>

-----------------------------------------------------------------------------
(* The network and the server's process.                                    *)

\* The request, or an answer that is waited for, is lost on the way or with the
\* server's process.
Vanish(n) ==
  /\ \/ attempts[n].place \in {"travelling", "arrived"}
     \/ attempts[n].place = "answered" /\ Open(n)
  /\ attempts' = [attempts EXCEPT ![n] = Over(@)]
  /\ UNCHANGED <<held, records, posts, clock>>

\* keyed stamps the request before anything waits for the connection.
Arrive(n) ==
  /\ attempts[n].place = "travelling"
  /\ attempts' = [attempts EXCEPT ![n].place = "arrived", ![n].stamp = clock]
  /\ UNCHANGED <<held, records, posts, clock>>

Answered(n, status, row) ==
  attempts' = [attempts EXCEPT ![n] =
    [@ EXCEPT !.place = "answered", !.stamp = 0, !.status = status,
              !.result = IF status = "created" THEN row ELSE 0]]

-----------------------------------------------------------------------------
(* withIdempotency: one transaction on the single connection.               *)

Expiry(stamp) == stamp + Retention

Live(k, now) == k \in DOMAIN records /\ records[k].expiresAt > now

\* Mutants: the record's request is not compared; every record is purged.
SameKey(k, body) == TRUE
SameRequest(k, body) == records[k].body = body

KeepsNothing(now) == {}
Unexpired(now) == {k \in DOMAIN records : records[k].expiresAt > now}

\* A live record of the same request answers and nothing is written; a handler
\* may still fail after it.
Replay(n) ==
  LET a == attempts[n]
  IN  /\ a.place = "arrived"
      /\ Live(a.key, a.stamp) /\ SameRequest(a.key, a.body)
      /\ \E status \in {"created", "failed"} : Answered(n, status, records[a.key].result)
      /\ UNCHANGED <<held, records, posts, clock>>

\* Expired records are purged, the row is written and its key recorded, all in
\* one transaction; a handler may fail after the commit.
Write(n) ==
  LET a == attempts[n]
      kept == Unexpired(a.stamp)
      recorded == [body |-> a.body, result |-> Len(posts) + 1, createdAt |-> a.stamp,
                   expiresAt |-> Expiry(a.stamp)]
  IN  /\ a.place = "arrived"
      /\ ~Live(a.key, a.stamp)
      /\ records' = [k \in kept \cup {a.key} |-> IF k = a.key THEN recorded ELSE records[k]]
      /\ posts' = Append(posts, [key |-> a.key, body |-> a.body, stamp |-> a.stamp, at |-> clock])
      /\ \E status \in {"created", "failed"} : Answered(n, status, Len(posts) + 1)
      /\ UNCHANGED <<held, clock>>

\* The request is refused (a check before or in the transaction, a key of
\* another request) or breaks; nothing is written and nothing recorded.
Decline(n) ==
  /\ attempts[n].place = "arrived"
  /\ \E status \in {"refused", "failed"} : Answered(n, status, 0)
  /\ UNCHANGED <<held, records, posts, clock>>

\* A restore puts the book back to an earlier state and forgets every key in the
\* same transaction.
NoRecord == [k \in {} |-> 0]
Restore ==
  /\ Restores
  /\ \E length \in 0..Len(posts) :
       posts' = [i \in 1..length |-> [posts[i] EXCEPT !.key = NoKey]]
  /\ records' = NoRecord
  /\ UNCHANGED <<held, attempts, clock>>

-----------------------------------------------------------------------------
Tick ==
  /\ clock < MaxClock
  /\ clock' = clock + 1
  /\ UNCHANGED <<held, attempts, records, posts>>

Init ==
  /\ held = [page \in Page |-> [b \in Body |-> Forgotten]]
  /\ attempts = << >>
  /\ records = NoRecord
  /\ posts = << >>
  /\ clock = 0

AppStep ==
  \/ \E page \in Page, body \in Body : Send(page, body)
  \/ \E body \in Body, k \in OwnKey : SendOwn(body, k)
  \/ \E n \in 1..Len(attempts) : Tell(n) \/ GiveUp(n)
  \/ \E page \in Page : Reload(page)

ServerStep ==
  \/ \E n \in 1..Len(attempts) :
       Vanish(n) \/ Arrive(n) \/ Replay(n) \/ Write(n) \/ Decline(n)
  \/ Restore

Next == AppStep \/ ServerStep \/ Tick

Spec == Init /\ [][Next]_vars

-----------------------------------------------------------------------------
(* What ADR-043 promises.                                                   *)

\* One key writes once: a second row under it comes only when the first one's
\* record has been kept for its 24 hours, however the requests that carry the
\* key were delayed, reordered or purged past each other.
OncePerRetention ==
  \A i, j \in 1..Len(posts) : i < j /\ posts[i].key = posts[j].key /\ posts[i].key # NoKey =>
    posts[j].at >= posts[i].stamp + Retention

\* A success is always about the caller's own request: the row it names is in
\* the book when the answer is given, written under that key for that body;
\* never another request's row, nor one that a restore took away or renumbered.
SuccessNamesOwnRow ==
  [][\A n \in 1..Len(attempts) :
       attempts[n].place = "arrived" /\ attempts'[n].status = "created" =>
         LET row == attempts'[n].result
         IN  /\ row \in 1..Len(posts')
             /\ posts'[row].key = attempts[n].key
             /\ posts'[row].body = attempts[n].body]_vars

\* When key k's entry was made or moved: its first send and its failures.
Touched(k) ==
  LET twins == {n \in 1..Len(attempts) : attempts[n].key = k}
  IN  {attempts[n].ended : n \in {l \in twins : attempts[l].seen = "unknown"}}
        \cup {attempts[n].sent : n \in {l \in twins : \A j \in twins : l <= j}}

\* As long as no answer has come and no 15 minutes went by without a failure,
\* saving the same again carries the same key, so that it cannot write twice.
DoubtKeepsTheKey ==
  [][\A n \in (Len(attempts) + 1)..Len(attempts') : \A m \in 1..Len(attempts) :
       LET a == attempts[m]
       IN  /\ a.page = attempts'[n].page /\ a.page # Nobody
           /\ a.body = attempts'[n].body
           /\ \A l \in 1..Len(attempts) : attempts[l].key = a.key => attempts[l].seen # "definite"
           /\ \A t \in (a.sent + 1)..clock : \E e \in Touched(a.key) : e < t /\ t - e < Forget
           => attempts'[n].key = a.key]_vars

\* Once a definite answer was seen, the same save is a new one: no late failure
\* of an older twin brings the spent key back, so a deliberate second entry is
\* never swallowed.
SpentKeyStaysSpent ==
  [][\A n \in (Len(attempts) + 1)..Len(attempts') : \A m \in 1..Len(attempts) :
       attempts'[n].page # Nobody /\ attempts[m].seen = "definite" =>
         attempts'[n].key # attempts[m].key]_vars
=============================================================================
