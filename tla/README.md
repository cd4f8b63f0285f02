# Uruni in TLA+

Uruni keeps the cash book of a small community fund: one treasurer, one process,
one SQLite file. This directory specifies the parts of it where a mistake would
cost money, trust or the book itself and where an ordinary test would hardly look,
checks them with TLC on small instances and proves the most important results with
TLAPS.

Contents: [the system](#the-system) · [the modules](#the-modules) ·
[the runs](#the-runs) · [bounds](#bounds) · [fairness](#fairness) ·
[what is proved](#what-is-proved) · [where code and words differ](#where-code-and-words-differ) ·
[what is not modelled](#what-is-not-modelled) · [the plan](#the-plan)

To check a run: `tlc -workers 2 -config MCCorrections.cfg MCLedger`; to check the
proofs of a module: `tlapm LedgerProofs.tla`. `PROJECT.json` lists every run, the
mutant that shows each property can fail, the source lines of every definition,
the hazards, the findings and the theorems.

## The system

| component | state | operations | hard because |
|---|---|---|---|
| **Ledger: book** (`internal/ledger`: transaction, transfer, purpose_move, purpose_correction, reversal, balance) | the append-only `transaction` table with its `transfer` and `dues_payment` headers | post, transfer between locations, move between purposes, correct a purpose, reverse | nothing is ever updated or deleted, so where money is now is derived from a history of corrections and reversals |
| **Ledger: envelopes** (`incidental.go`) | open or closed | open, close-and-roll, reopen | a closed envelope is out of sight; anything left in it is lost to the treasurer |
| **Ledger: counts** (`reconciliation.go`) | `reconciliation` and its lines | take a count, with fixes | a frozen figure has to be derivable for ever from a book that still takes backdated rows |
| **Ledger: claims** (`reimbursement.go`) | `reimbursement` | file, change, waive, settle, delete | paid at most once, and never changed after |
| **Ledger: locations, fund** (`setup.go`, `reference_data.go`) | `account`, `fund` | set up, create, retire, reinstate, delete, change time zone | a retired location is asked for in nine places |
| **Report** (`ledger/report.go`) | none: read from the book | walk, listed entries, banner | lines and ends are computed apart and have to foot for every filter |
| **Dues** (`dues*.go`, `pricing.go`, `member.go`) | members, tiers, rates, waivers, payments by month | set, correct and withdraw rates; join, leave, change tier; pay, reverse, waive | corrections by superseding rows; four pieces of code say what is owed |
| **Idempotent writes** (`web/src/lib/api.ts`, `internal/http/idempotency.go`, `internal/ledger/idempotency.go`) | the page's pending keys; the `idempotency_key` table | send, answer, give up, reload; replay, write, refuse, purge | lost, late and duplicated requests; clocks at both ends; a restore underneath |
| **Rate limiter** (`internal/http/rate_limiter.go`) | counters per key, in memory | reserve, release, reset, sweep | attempts in flight across windows, lockouts and other requests' successes |
| **Login, sessions, passwords** (`internal/http`, `internal/auth`) | the one `user` row, session rows, hashing slots | register, log in, log out, change credentials, load and commit a session | a session committed after it was deleted; a password changed while it is verified; slots and waits |
| **Receipts** (`internal/receipt`, `http/receipts.go`) | files and rows | upload, delete | two stores without a common transaction |
| **Restore** (`internal/backup/restore.go`, `http/restore.go`) | one staged upload | inspect, confirm, expire | two tabs and a timer on one slot; files around one transaction |
| **Backups** (`internal/backup/dumps.go`, `scheduler.go`) | dump files | boot dump, daily dump, safety net, retention | two writers; days and zones that move; photos that vanish while they are copied |
| **Upgrades and rebuild** (`preupgrade.go`, `rebuild.go`, `cmd/uruni`) | database file, its `-wal`, snapshots, boot marker | guard, snapshot, migrate, mark; build a scratch file, keep the old one, swap | kills and power cuts between any two steps |
| **Connection, process lock** (`internal/txguard`, `internal/lock`, `internal/db`) | one connection, one process | begin, commit | nested use waits for itself |
| **HTTP API, web app, demo, CLI** | none of their own | decoding, encoding, layout, screens | - |

How they interact. Every write reaches the ledger as one method call, which runs
in one transaction (`withTx`) on the single connection the process has (ADR-004),
so whole calls interleave and never their insides. What does run concurrently is
around the ledger: requests in flight with their clocks, rows and sessions already
read, password work under a reservation, timers, the scheduler, files. A restore
replaces the book under all of them, and ends every session. The idempotency table
is written in the ledger's own transaction; the rate limiter stands in front of the
password work and knows nothing of the database. The lock makes commands that write
the database exclude one another; what a command leaves behind when it is killed is
the next one's to find.

What makes each part correct: the book - balances follow from rows and every
undo is complete; envelopes - closed means empty and stays so; counts -
reproducible and squared; claims - paid once, as agreed; report - it foots, and its
banner is true; dues - a month is paid or waived, and every screen says the same;
idempotency - one row per key while its record lives, and the app keeps the key
while it is in doubt; limiter - a counter holds exactly its attempts; sessions -
deleted is deleted, and a login proved the password of today; receipts - no row
without a file; restore - what was previewed, all or nothing; backups - the last
good copy is never removed and the last change gets into one; upgrades - what the
last server left can always be had back.

## The modules

| module | stands for |
|---|---|
| `Book`, `Ledger`, `LedgerProperties` | the book, every method that posts to it, what they promise |
| `Fund`, `LedgerFund` | the abstract fund, and the map of the book to it |
| `Report` | the public report, computed from the book |
| `Document` | what a backup says of the book, and putting it back under the schema |
| `Dues` | what members owe, and its four derivations |
| `Idempotency` | an app, a network and a server around one write |
| `RateLimiter` | counters and attempts in flight |
| `Access` | the login, its sessions and the password slots |
| `Restore` | photos, staging and the confirm of a restore |
| `Backups` | dumps, their two writers and retention |
| `Upgrade` | one database file through versions, crashes and rebuilds |
| `MC...` | the instances TLC checks |
| `LedgerProofs`, `DuesProofs`, `IdempotencyProofs`, `AccessProofs`, `RestoreProofs`, `RateLimiterProofs`, `BackupsProofs`, `UpgradeProofs` | the theorems; `LedgerProofs` has those of the book, the fund, the report and the document |

In all of them an action is a whole transaction, or a whole critical section, that
succeeds. A refused call rolls back and is a step that is not taken, so each early
return of a method is a conjunct of the guard; where a refusal does change something
(a sweep, a file removed) it is an action of its own.

### Book, Ledger, LedgerProperties

`Book` is what one row holds and what queries and the `ledger_entry` view derive
from a sequence of rows: balances (a sum, there is no stored total), the purpose
a row's money is under now (`EffectivePurpose`, the view's counting of arrivals)
and an envelope's collected and disbursed totals. `Ledger` has the state and one
action per method of `internal/ledger`, grouped in its next-state relation by the
HTTP route that calls it.

| variable | code |
|---|---|
| `rows` | the `transaction` table in id order; a row's id is its position. The headers `transfer` and `dues_payment` are kept on their rows (`movement`, `corrects`, `payment`) |
| `account`, `envelope` | `account.retired_at`, `incidental.closed_at`, or not there yet |
| `counts` | `reconciliation` and its lines: cutoff (0 for NULL), when, and per location the frozen figure, what was found and its fix |
| `claims` | `reimbursement`; paid is derived, as in the code: a row names the claim |
| `setUp`, `zone`, `clock` | the fund row exists, `fund.time_zone`, the server's clock |

`Post` is the insert with the table's own check on the amount: a batch with one row
over the ceiling fails as a whole. Days are half-day instants plus a zone of 0 or 1,
halved: the least that lets a change of zone move today back by a day. Rows may be
dated from the floor up to today, as the date window has it. Two orders are the
caller's or the database's choice and are left open: that of the opening balances,
and that of a dues payment's months and a count's fixes.

Abstractions: notes, names, who typed it, participation and tags are labels no rule
here reads. Purposes of kind pass_through exist from the start and have no rule of
their own except that a purpose move refuses them. Which months a payment covers is
in `Dues`; here it is that it covers several. A claim's date is left out. The date
window is read before the transaction in the code; the model reads it inside. Rows
that predate ADR-048 (a payment's months without a common header) are not reachable.
Amounts are small; the ceiling is a constant, so that reaching it is a step away.

### Fund, LedgerFund

`Fund` is the abstract specification: the fund as the treasurer sees it. It has
no rows, only a total, what lies at each location, what is meant for each
purpose, which locations and envelopes are in use, and how often the money was
counted. Its steps say what one call may do to those figures: money comes in at
one place for one open purpose (`Enter`), changes place and keeps its purpose
(`Carry`), changes purpose and keeps its place (`Retag`), an envelope closes
empty (`Close`), a location is left only when nothing is there (`Leave`), and only
a count (`Square`) moves several balances at a time, of active locations and open
purposes. `LedgerFund` maps the book to it by the sums the code's queries make (`Whole`,
`Holdings` and `Earmarks` are three sums over the same rows, as a screen shows them):
`ImplementsFund` says each call of `Ledger` is one such step, or one that leaves
every figure alone (a claim, a change of zone).

It is what makes the corrections and reversals answer for more than themselves:
a reversal posted to the purpose a row was stored with, and not to the one its
money is under now, is no step of the fund once that envelope is closed.

### Report

`Report` extends `Ledger` with `ledger/report.go`: operators only, no state. A
period and the filters (one location, one purpose, both, none) select rows. `Walk`
puts each row on one line (`LineOf`: a reversal goes on the line of what it undoes;
`OutLine` is a magnitude) and reads the raw legs the Moved line shows under that
filter; `WalkEnds` are the two sums. `FoldCorrections` is the one move a corrected
row is listed with, `Listed` the entries with a dues payment's months and its
reversal each folded into one, and `OpenLines`, `Remainder`, `NewEntries` are what
the banner is made from. A month is a period like any other. A count's instant is
compared by the day it falls on, which is what the code's bound (the instant the
next day begins in the fund's zone) comes to. `BannerIsTrue` asks only for banners
whose counted rows, and the count's own fixes, are all dated by the bound: a row
dated after it was in the drawer and is not in the period's book.

### Document

`Document` extends `Ledger` with what `internal/backup` writes of the book and takes
back: operators only. A file lists accounts, purposes, claims and rows with their ids,
in an order the restore may not rely on, and the balances the screens' queries give
(`ClaimedTotals`). Putting it back meets what the ledger's own methods never show
to be enough: the table's checks (`ChecksHold`), the one trigger that stays on
(`ShapeHolds`), the unique indexes and, at the commit, the foreign keys. A reversal
goes in after what it reverses wherever the file lists it (`InsertedFor`, `Inserted`);
the proof of the numbers (`ProvesItsNumbers`) is a second sum over the file's own rows,
in the file's order. A file of format 2 has no dues payments, and they are read from the
seconds its rows were stamped with (`UpgradedPayment`, the last row that begins a
payment up to this one): `Pauses` is every way the clock can have run, with
no whole second inside one payment. `BackupBringsItBack` takes every reachable
book and every order of its rows. Counts, incidentals and the dues tables
are inserted as they are listed and left out; so are format 1's missing zone, joining
dates and tiers.

### Dues

| variable | code |
|---|---|
| `tiers`, `rates` | `dues_tier`; `dues_rate` by tier and month, superseded rows kept, the highest correction last |
| `member`, `spans` | `member` with its joining and leaving month; `member_tier` by month, in the same way |
| `payments`, `waived` | what each payment brought toward each month and whether it stands; `dues_waiver` |
| `now` | the current month in the fund's zone |

The derivations are kept apart as the code has them: `PriceAt`, `PaidThrough`,
`Outstanding` and `StatusOf` (pricing.go, dues_status.go), `RosterRate` (the
roster's SQL, a join with a NOT EXISTS) and `DuesGrid` (dues_grid.go). A month is a
number and a date is the month it falls in. `TurnMonth` also goes back by one, which
a change of zone within hours of a month's end can do. `UpdateMember` is one PATCH
with every field, and also stops at the bound on rows. `PaidThroughIsUnbroken` says of a
month without a price what the code does: the walk steps over it, waived or not.

### Idempotency

End to end: the fetch wrapper of the app, the network, and the server. A save is
a *body* (method, path and body); its row stands for whatever its route posts.

| variable | code |
|---|---|
| `held` | `pendingKeys` of each open page |
| `attempts` | every request sent: its key, how far it got, what its page has seen of it, the clock it was stamped with on arrival (`keyed` reads it before it waits for the connection) and the answer on its way back |
| `records`, `posts` | the `idempotency_key` table, and the rows written |

`Send`, `Tell`, `GiveUp` and `Reload` are the page; `Vanish` is the network and a
crash of the server; `Arrive` reads the clock; `Replay`, `Write` and `Decline`
are `withIdempotency`, one transaction each; `Restore` brings back a prefix of
the rows and forgets every key. A page waits for any time at all (a phone sleeps),
so nothing bounds how long a request is in flight. Random keys are never drawn
twice. A caller outside the app may choose its key and use it for two bodies.
Rows a restore brings back carry no key: a save that is in the backup and is
retried after the restore posts again, which ADR-043 accepts.

### RateLimiter

`counters` is the map; each method holds its one mutex, so `Reserve`, `Refuse`,
`Release` and `Succeed` (`reset`) are single steps with the sweep inside the
first two. `flight` is the handlers: a request between its reservation and what
it turned out to be. A reservation's counters are pointers in the code; `holds`
is the set of keys whose live counter is still the one this reservation counted
on. The zero time is 0 and the clock starts at 1. `kept` and `lockouts` are
history, read by properties only. Which keys a source reserves and which of them
its success resets is a constant, so that one module covers login (network,
network with identifier, identifier; the identifier's ceiling is not reset), a
login with a device cookie, a restore's confirmation and a change of credentials.

### Access

| variable | code |
|---|---|
| `user`, `sets` | the one row of table `user`; a password and an email are the number of times they were set, their pair is the credential fingerprint |
| `sessions`, `drawn`, `swept` | table `session` by token; tokens drawn; when the store last swept |
| `slots` | the semaphore of `password_gate.go` |
| `req` | each request: its operation, how far it got, the session row it loaded, the user row it read before the password work |

A request is walked through its reads, transactions and writes one at a time:
`Arrive` loads, `Gate` accepts or destroys, `Check` reads the user, `Acquire`,
`Busy` and `Computed` are the slot and its wait, then the transaction of its
operation, `Renew` and `Insert` (RenewToken is a deletion and, with the answer, an
insert), or `Commit` for a session that was only used. `SetLogin` is `create-user`,
in another process. Whether a password is right and whether a wait is given up
(the timer, or the client leaves) are choices. `by` and `proved` on a session row
are history. A restart loses requests, slots and the sweep's memory.

### Restore

| variable | code |
|---|---|
| `book`, `uploads` | the rows, and the files of the uploads directory |
| `storing`, `deleting` | uploads and deletions of a photo between their two steps |
| `staged`, `slot`, `tab` | staging files; `restoreStage`; each tab's request |
| `zips`, `dumps` | the backups she may inspect, and the safety net's own |
| `drawn`, `restored` | names ever drawn; photos whose rows a restore put there (history) |

A confirm is walked through `Take`, `PlanNet`, `WriteNet`, `Extract` and `Commit`,
and may be refused before each of them, which takes back the photos it created. The
book is its entries and receipt rows; a row's id is the largest plus one, so the id
of a deleted last row is given again. A crash ends requests and the slot but not
files; `Boot` sweeps the temp files. A row of a restored backup may lack its file
(the backup could not have it): `restored` excuses those and no other.

### Backups

`dumps` is the directory, newest first; `writer` the two writers, the boot or the
scheduler ("job") and a restore's safety net ("net"), each through reading the
document, stat'ing the photos, writing the zip and pruning, where a crash or a
failed step may separate any two. The order of the dumps stands for the times in
their names, and the flag `today` for what those times say of the day in the fund's
zone: `NextDay` clears it, `ChangeZone` gives it to fewer or more of the newest. The
clock only goes forward, and no two dumps of one kind are written in one second. `Name`
are the names a dump can have; one is drawn when a dump is written and free again when
that dump is gone and on no list of dumps to remove. One
restore runs at a time. A photo can be deleted, put back by a restore, or lost by
the volume at any moment.

### Upgrade

One database file under `serve`, `migrate up`, `create-user` and `rebuild` of several
versions. `dir` and `synced` are the data directory as seen and as durable: a power
cut keeps any mix of the two. The backup directory's files are written atomically
and synced before the call returns; one that fails may have left its file behind.
`marker` is the boot marker, `snaps` the pre-upgrade snapshots, `proc` the command
that runs and its next step, `last` (history) what the last server left. The lock is
held from start to end, so one command runs at a time; it can be killed, or lose
power, between any two steps. Assumed of SQLite: with `synchronous = NORMAL` a commit
to the `-wal` is not synced, a checkpoint is, and the last close folds the `-wal`
away. A marker that cannot be written is removed, and that removal is assumed to
work. `migrate down` refuses the baseline, the only migration there is, and so does
nothing.

## The runs

| run | properties | what it shows |
|---|---|---|
| MCCorrections | ClosedEnvelopeIsZero, EffectivePurposeIsLastTarget, ReversalUndoes, ActivityCountsWhatStands, MoveSaysWhereItWent, ClosedTakesOnlyTransfers | rows are corrected along paths that revisit purposes and reversed, while two envelopes are allocated to, closed with a leftover of either sign and reopened: nothing is left behind a closed door, the view's unordered counting and the report's fold both find where the last correction went, reversals undo all a row did, and an occasion's totals are those of the rows that stand |
| MCLocations | TypeOK, PayoutMatchesClaim, WalkFoots, BackupBringsItBack, ImplementsFund | every call but a count, over two locations, an envelope, a claim and payments of up to two months, is one step of the abstract fund or none; a claim is paid at most once and as agreed; amounts stay under the ceiling; the walk foots for every location, purpose and period; a backup of any of these books is taken back whole, in whatever order it lists its rows |
| MCCounts | SnapshotReproducible, FixSquaresItsLine, PaymentReadsAsOne, BannerIsTrue | two counts of a location with fixes, payments of two months and reversals before, between and after them, a clock and a zone that moves today back: frozen figures can be summed again, a fix stays and squares its line, a payment and its reversal each read as one entry, the banner says no more than is true |
| MCClosedPosting | ClosedRefusesEveryPosting | *violation*: see below |
| MCDues | WithdrawnRateFallsBack, PaidThroughIsUnbroken, ScreensAgree, WaivedTakesNoMoney | a member through every change of tier, rate, window, payment and waiver over three months |
| MCTwins | DoubtKeepsTheKey, SpentKeyStaysSpent | one page sends one save up to three times, twins in flight, every way an answer can end, the window running out |
| MCKeys | OncePerRetention, SuccessNamesOwnRow | two keys shared by two bodies, arrival and service in any order around expiry, purge and restore |
| MCLimiter | CountIsItsAttempts, LockoutsClimb | two concurrent logins of one identifier from two networks, through windows, sweeps, up to four lockouts in a row, releases and successes |
| MCAccess | LoginProvedThePassword, SlotsAreHeld, RevokedStaysRevoked, EveryWaitEnds | two requests of any kind with one password slot, the operator's reset, restarts and idle windows |
| MCRestore | UploadedPhotoIsKept, RestoresWhatWasPreviewed, StagesAreRemoved | photos come and go while two tabs inspect, confirm, are refused, expire and are cut off |
| MCBackups | FormatIsThere, TornDumpIsSeen, NewestKept, LastChangeIsDumped | two formats boot, tick and restore over one directory, with retention cut short, days and zones moving |
| MCUpgrade | Recoverable, NoStaleWal, SwapKeepsTheOldFile, EntriesSurvive | three versions start, fail, retry and go back; a rebuild; failed writes, kills, power cuts, a damaged file |

Every property of a passing run has a mutant in `PROJECT.json`: the operator next
to the definition it changes, marked `Mutant` in the module, is a plausible bug
(a dropped guard, a swapped order, the wrong purpose), and TLC finds the property
violated with it.

No run checks for deadlock: the fund may simply stop being used, and every
instance stops at its bounds.

## Bounds

All bounds are constants with `Max` in their name, `LastMonth`, `Restores`,
`Patience`, or the sizes of the sets; all of them only ever disable a step.

- *Ledger.* `MaxRows` 4 to 6 rows. The shortest interesting histories are: a row,
  its correction and the correction back (5 rows), a row corrected and reversed
  (4), a roll after a posting and a transfer (6), a count, a fix and a reversal
  (3), a payment of two months and its reversal (4). Two locations, two
  envelopes and one further purpose are enough to tell "this one" from "another
  one". A ceiling of 1 or 2 puts the sum of two rows above it, so the roll that
  cannot be posted happens. `MaxEntries` limits plain postings only, so the rows
  left are spent on what follows them. `MaxClock` 1 half-day with a zone that moves
  is a day there and back, and MCCounts has 2. What each run shuts out (no envelopes, no counts, ...)
  another run opens. MCLocations has payments of two months, so that format 2 has something to cut apart.
  MCCounts has one location: a count that fixes two locations in
  either order, and one that leaves a location out, are not reached.
- *Dues.* One member, one tier, three months, a window of one month ahead, three
  rows of rates, tiers and payments together: a rate corrected and withdrawn, a
  tier taken away and given back, two months paid with one waived between. With one
  tier a change of tier is one to none and back; with two the proof covers it
  (`ScreensNeverDiffer`).
- *Idempotency.* Three sends: an original, a twin and the next save. Three keys,
  so that a fresh one is always left. In MCTwins the record never expires and the
  app's window (2) does; in MCKeys the record does (1).
- *RateLimiter.* Two requests in flight, limits 2 and 3, a window of 1 (3 for the
  ceiling), a ladder of two steps, 1 and 2, and a decay of 2, on a clock that runs
  to 6: room for four lockouts in a row, so that the ladder's last step repeats,
  or for a first one, its decay and a new first one. An attempt stays in flight
  for up to 2 units, longer than a window and as long as a lockout.
- *Access.* Two requests and one slot, so that one waits; two settings of the
  credentials, so that one is verified while the other is set; one session, an idle
  window of 2 refreshed after 1, on a clock to 2.
- *Restore.* Two tabs, two staging files, two photos, one entry, one upload or
  deletion in flight, two backups, a safety net of one: two stages replace one
  another, a confirm meets the other tab's, an id is given again.
- *Backups.* One photo, nine names (so that one is always free), two formats, two daily dumps and one safety net kept, three
  changes, one crash or failed step.
- *Upgrade.* Three versions over two schemas, one snapshot kept of two, one entry,
  one rebuild: an upgrade that fails and is retried, one that is taken back after
  entries, and a rebuild with a power cut at any of its steps.

Sets of interchangeable values are declared symmetric where no liveness is checked;
no action or property tells their members apart.

## Fairness

- *Access.* `WF(Work(r))`: a handler that runs goes on, a computation ends.
  `WF(Busy(r))`: the timer of a wait fires (`password_gate.go` selects on it). Not
  fair: getting a slot. So `EveryWaitEnds` is due to the timer alone.
- *Restore.* `WF(Serve(t))`: a request goes on until it returns. `WF(Expire)`: the
  stage's timer fires. `WF(Boot)`: the platform restarts a process that died. Not
  fair: the treasurer, who may never confirm or close a dialog.
- *Backups.* `WF(Boot)`, `WF(EnsureBootDump)`; `WF(Tick)` and `WF(Work("job"))`: the
  scheduler's hourly loop, which outlives a tick that panics; `WF(NextDay)`: days
  pass. Not fair: a restore, failures, crashes - of which there are finitely many.
- *Elsewhere* none is assumed and no liveness is stated: the ledger is driven by a
  person, a page gives up when it likes, and the limiter forgets only when somebody
  tries again (the sweep runs in `reserve`, there is no timer).

## What is proved

| theorem | says |
|---|---|
| `LedgerProofs!TypeCorrect` | `Spec => []TypeOK`; in particular no posted amount exceeds the ceiling |
| `LedgerProofs!OnlyTransfersReachClosed` | `Spec => ClosedTakesOnlyTransfers` |
| `LedgerProofs!ClosedHoldsNothing` | `Spec => []ClosedEnvelopeIsZero` |
| `LedgerProofs!SnapshotsReproducible` | `Spec => []SnapshotReproducible` |
| `LedgerProofs!LastTargetCounts` | `Spec => []EffectivePurposeIsLastTarget` |
| `LedgerProofs!ReversalsUndo` | `Spec => []ReversalUndoes` |
| `LedgerProofs!ActivityAlwaysCounts` | `Spec => []ActivityCountsWhatStands` |
| `LedgerProofs!PayoutsMatchClaims` | `Spec => []PayoutMatchesClaim` |
| `LedgerProofs!FixesSquareTheirLines` | `Spec => []FixSquaresItsLine` |
| `LedgerProofs!KeepsAFund` | `Spec => ImplementsFund`: the book refines the abstract fund |
| `LedgerProofs!WalkAlwaysFoots` | `Spec => []WalkFoots` |
| `LedgerProofs!MovesSayWhere` | `Spec => []MoveSaysWhereItWent` |
| `LedgerProofs!PaymentsReadAsOne` | `Spec => []PaymentReadsAsOne` |
| `LedgerProofs!BannersAreTrue` | `Spec => []BannerIsTrue` |
| `LedgerProofs!BackupsBringItBack` | `Spec => []BackupBringsItBack` |
| `DuesProofs!TypeCorrect` | `Spec => []TypeOK` |
| `DuesProofs!WithdrawnRatesFallBack` | `Spec => []WithdrawnRateFallsBack` |
| `DuesProofs!WaivedMonthsTakeNoMoney` | `Spec => WaivedTakesNoMoney` |
| `DuesProofs!ScreensNeverDiffer` | `Spec => []ScreensAgree` |
| `DuesProofs!PaidThroughIsTrue` | `Spec => []PaidThroughIsUnbroken` |
| `IdempotencyProofs!WritesOncePerRetention` | `Spec => []OncePerRetention` |
| `IdempotencyProofs!SpentKeysAreGone` | `Spec => SpentKeyStaysSpent` |
| `IdempotencyProofs!DoubtsKeepKeys` | `Spec => DoubtKeepsTheKey` |
| `IdempotencyProofs!SuccessesNameTheirRows` | `Spec => SuccessNamesOwnRow` |
| `AccessProofs!TypeCorrect` | `Spec => []TypeOK` |
| `AccessProofs!NoSlotLeaks` | `Spec => []SlotsAreHeld` |
| `AccessProofs!LoginsProve` | `Spec => []LoginProvedThePassword` |
| `AccessProofs!RevokedSessionsStayAway` | `Spec => RevokedStaysRevoked` |
| `RestoreProofs!TypeCorrect` | `Spec => []TypeOK` |
| `RestoreProofs!PhotosAreKept` | `Spec => []UploadedPhotoIsKept` |
| `RestoreProofs!PreviewedIsRestored` | `Spec => RestoresWhatWasPreviewed` |
| `RateLimiterProofs!TypeCorrect` | `Spec => []TypeOK` |
| `RateLimiterProofs!NoAttemptIsLost` | `Spec => []CountIsItsAttempts` |
| `RateLimiterProofs!LockoutsAlwaysClimb` | `Spec => []LockoutsClimb` |
| `BackupsProofs!BackupsTypes` | `Spec => []TypeOK` |
| `BackupsProofs!TornDumpsAreSeen` | `Spec => []TornDumpIsSeen` |
| `BackupsProofs!NewestAreKept` | `Spec => NewestKept` |
| `BackupsProofs!RunningFormatIsThere` | `Spec => []FormatIsThere` |
| `UpgradeProofs!UpgradeTypes` | `Spec => []TypeOK` |
| `UpgradeProofs!TailsBelong` | `Spec => []NoStaleWal` |
| `UpgradeProofs!WayBack` | `Spec => []Recoverable` |
| `UpgradeProofs!OldFileIsKept` | `Spec => SwapKeepsTheOldFile` |
| `UpgradeProofs!EntriesAreSafe` | `Spec => EntriesSurvive` |

for every number of locations, envelopes, claims, rows, counts, members, tiers,
months, pages, keys, tabs, photos and requests, and all amounts, rates and times. The
assumptions are named in the modules: purposes and ids are distinct; the sets of
locations, purposes and requests in flight are finite; a backup quota is positive; amounts are within 1..Ceiling; zones
are half-days 0 or 1; windows, limits and the lengths on a ladder are positive;
bounds are natural numbers; "no user", "no file", "no tier", "no version" are none of the things
they stand for the absence of.

*Sums.* Balances are recursive functions over the rows, and induction over data
is outside the prover. `LedgerProofs` gets it from sets instead: a set of naturals
that holds 0 and is closed under successor is Nat (`SetInduction`). From it come
the facts everything else uses: a running total is an integer and has its
recursion equation, the total of a concatenation is the sum of the totals, and
so a balance after posting is the balance before plus the net of what was posted.

*The ledger.* One lemma per action says what it posts (`...Posts`), summarised by
`StepPosts`: every step appends a sequence of rows that is well typed and whose
rows on a closed envelope are the two legs of a transfer. `TypeCorrect` follows.
`ClosedHoldsNothing` is not inductive alone: it rests on typing, on the pair's
two legs cancelling in the one purpose they share (`ClosedBalanceStays`) and on
the roll squaring the purpose to zero in the step that closes it
(`ClosingSquares`, `OnlyRollCloses`); the inductive invariant is typing with
closed-is-zero. `SnapshotsReproducible` adds that a cutoff never exceeds the
number of rows: posting then never touches the prefix the figure was summed over.

*What became of a row.* `StepPosts` also says what a batch rests on (`Grounded`): entries
that point at nothing, a movement, the correction of one row from the purpose it is
under now, the reversals of rows that stand, or the payout of a claim nobody has paid.
Rows then point back (`PointsBack`), and the corrections of a row are one path: in each
purpose its money has arrived as often as it has left, in one of them once more
(`OnePath`), which is what the view counts. So `LastTargetCounts`, and `MovesSayWhere`
by the same path (`TimesOfAPath`). A row, its corrections and its reversal add up, in
every purpose and location, to what the row stands for and no more (`Squared`): this
invariant gives `ReversalsUndo`, and, summed original by original over an envelope's rows
(`TotalsCountWhatStands`), `ActivityAlwaysCounts`; `Belongs` says which rows are
originals and that a reversal has its original's amount the other way. `PaidOnce`
binds a payout to its claim (`PayoutsMatchClaims`). `Kept` says a fix is a row at its
counted location that no other line names and no reversal undoes
(`FixesSquareTheirLines`).

*The fund.* `KeepsAFund` is the refinement. One lemma per action (`...Serves`) says that its
step is one of the fund's or leaves every figure alone (`StepServes`). Two facts carry it: the two views, by location and
by purpose, are sums over finite sets of headings and come to the same whole
(`TwoViewsOfBook`); and no row lies at a location or in an envelope that is not there
(`Placed`), so that a new one starts empty and a deleted one takes nothing away.

*The report.* `Walkable` is the inductive invariant: typing, a row that
points at an original is a transfer's leg or an adjustment, and pairs are posted
whole (`Cancelling`). A row on the Out line is a magnitude, so its sign is lost and has to
be won back from its direction (`OutLineIsNet`). The legs that the Moved line never
reads under a filter are whole pairs, which sum to zero (`MissingCancels`); what it
reads and the other lines together are then the net of the rows, which is the
difference of the two ends. `BannersAreTrue` rests on the counts' invariants: what was
counted or has fixed the count comes to what was found (`BannerHolds`). For
`PaymentsReadAsOne` the months of a payment are dated, counted and undone together
(`Together`, `Entire` of the batch that undoes them), and what undoes them is dated
together too (`UndoneTogether`); the reversals of a set of rows then sum to its negative
(`UndoersWeigh`).

*Backups of the book.* What the schema asks of a row when it is put back is what the
ledger kept when it was posted: the shape of a row and of the row it undoes (`Accepted`),
one opening balance of a location (`OpenedOnce`), and of what is above `PaidOnce`,
`Squared` and `Placed`. A reversal undoes a row that undoes none, which solves the recursion of
the restore's insertion (`InsertedForIs`): induction over the file then says that every
row goes in once, after what it undoes (`InsertedSound`). Sums do not depend on the order
of the file (`OrderDoesNotMatter`). Of format 2, the months of a payment are
consecutive rows of one payer and date (`Unbroken`), so no row between two of them begins
a payment (`UpgradesWhole`).

*Dues.* Withdrawal and waiver need typing only, and what the current row of a month
is after one more was written. `ScreensNeverDiffer` follows from typing alone: the
grid's two quantities of a month are the status's, its first unpaid month is where
the roster's walk stops, and the roster's join picks the row the pricing code picks
(`RosterShowsWhatIsCharged`). `PaidThroughIsTrue` describes the months the walk's
recursion returns by what holds of every month it passed (`RunFrom`).

*Idempotency.* The inductive invariant `Inv` adds to the property that a row
younger than the retention has the record of its key in the table, expiring no
earlier than the retention after the row's stamp (`RowsGuarded`), and that no
request is stamped ahead of the clock (`StampsPast`). A write finds no live
record at its own stamp, hence none that outlives the clock: `WriteFindsOldRows`.
A purge removes only what is expired at a stamp that is past, however old; a
restore leaves no row with a key to guard. What a page remembers is the invariant `Memory`:
a key it holds has been sent by it, for that body only, with no definite answer yet
(`Holding`, `OnePage`), and a key it no longer holds was decided, or its window went by
without a failure (`Traced`); `DoubtsKeepKeys` and `SpentKeysAreGone` look at a send
from there. `SuccessesNameTheirRows` needs that a record points at the row its key
wrote for its body (`RecordsPoint`).

*Access.* That a session of a login is bound to the password the login proved
(`SessionsProven`) is not inductive: the row is made from what the request read
steps earlier. `RequestsSound` says what each step of a request may rely on - before
`renew`, a login has proved the password it then read; before `insert`, its row is
proven - and the inductive invariant is typing, both of these and `SlotsAreHeld`. A
slot is counted by the set of requests that hash; `SlotMoves` has the cases of one
request entering or leaving it. `RevokedSessionsStayAway` needs no more than that
only `Insert` adds a row to the table, with a token drawn for it (`OnlyInsertAdds`).

*Restore.* The inductive invariant has three parts. `Typed` says that rows, backups and
deletions name only photos whose upload is done with them (`Settled`), and that a
book's ids are distinct; that the next id is new comes from the least bound on the
ids in it (`LeastBound`, `NextIdIsNew`). `PhotoInv`: an upload's file is on disk
until its row is written, no two uploads share a file and no two rows either, a
deletion removes only its own file, and what a restore created is no uploaded row's -
so taking it back, after a refusal, takes nothing from anyone; rows that a restore put
there are excepted, as in the property. `FileInv`: no two requests have
a staging file in common, a file holds the backup its tab was shown, and the slot's
document is that of its tab's file. `PreviewedIsRestored` then looks at the
one step that restores.

*Rate limiter.* The inductive invariant is typing, that a counter's count is the number of
requests that hold it plus the attempts kept (`Counters`), and how count, lockout and
strikes go together (`Tuned`): a counter that is not locked has room left - otherwise
the next attempt would go over the limit before it locks - and a lockout of an
escalating key has its strike, which a release takes back. The rest is the
cardinality of a set that one request joins or leaves. For the ladder, `Climbing` relates
the history of a key's lockouts to its counter: as far back as the decay of one has not
run out, the counter's strikes are the rung of the last lockout, each earlier one took
the rung below, and the strikes' memory outlasts that decay (`Remembers`).

*Backups.* Typing comes with what a writer's step has in hand (`Ready`) and that no fund,
dump or hand names a photo that was never stored (`Named`). A torn dump: what a dump
counts as present and does not hold is gone for good unless a restore brings it back
(`Whole`). Retention: a dump on a writer's list has a full quota of newer ones of its
kind (`Covered`), whatever the two writers removed since the list was drawn; dumps are
counted by their names, one to one (`NamesCount`). A dump in the running format: once
the boot is through, the newest of all is one (`Current`), and the newest is never on a list.

*Upgrade.* A power cut leaves any mix of files seen and files synced, so the invariants
speak of every mix at once (`Either`). `TailsFit`: a `-wal` lies beside the file that wrote
it and has at least its entries. `OpenedFits` and `SwapFits` are what a command knows of the
file it has open and of the one it is to replace; `AsidesFit`, that a rebuild's names for
the old file are its own. `Kept`: what the server left stands in the file until a
snapshot is taken and on top of the snapshots from then on until a server has booted;
`Marked` ties the marker to the command's step. Each of the five theorems reads off some
of these.

Only model-checked: liveness under fairness (`StagesAreRemoved`, `EveryWaitEnds`,
`LastChangeIsDumped`), which is out of the prover's reach, as is ENABLED; and the
violation of MCClosedPosting, which is a counterexample. Every safety property of the
passing runs is also a theorem. The type invariants of Dues, Access, Restore,
RateLimiter, Backups and Upgrade are theorems that no run lists: their properties say
more.

## Where code and words differ

- **Closed envelopes** (MCClosedPosting). ADR-031 says a closed envelope refuses
  every posting; `PostTransferBetweenAccounts` asks no envelope. Both rows land
  under the closed purpose: its balance stays zero (`ClosedHoldsNothing` holds
  with such transfers allowed), its collected and disbursed totals grow by the
  amount.

Seen while modelling, and stated in the models as the code has it, without a run:

- **The last attempt** (`api.ts:131` against its comments at 50 and 64). A key is
  said to be forgotten 15 minutes after its last attempt; the entry's time is that
  of its first send and moves only when an attempt *fails*. A retry still in flight
  when the window runs out does not hold the key, and the next save goes out with a
  fresh one. `DoubtKeepsTheKey` states what does hold.
- **Strikes** (`rate_limiter.go:265` against 42 and 239). A release takes back the
  lockout its attempt caused with its strike, but not the extension of the strikes'
  memory, unless no strike is left. A later lockout can then be a step higher than
  "counted from the end of the last lockout" would have it. `LockoutsClimb` states
  what does hold.
- **A changed password and the email** (`change_login.go:39` against
  `middleware.go:24`). The current password is verified before the transaction that
  changes the email, so a change of the email may rest on a password that was reset
  in between. `LoginProvedThePassword` is stated of logins.
- **Overlapping restores** (`backup/restore.go:1046` against the comment at 640). A
  restore that fails removes the photos it created, also when a second restore, under
  way at the same time, committed rows that name them. `UploadedPhotoIsKept` excuses
  the rows a restore put there.
- **A waived month without a price** (`dues_status.go:585` against ADR-050, line 19,
  "It ends a *Sudah dibayar sampai* chain"). The walk behind "paid through" asks for the
  price first, so a waived month whose rate or tier was taken away later is stepped over
  and ends nothing. `PaidThroughIsUnbroken` states it so; the bounds of MCDues do not
  reach a case where it shows, the theorem covers it.
- **A photo put back under a dump.** A newest daily dump that was written while a
  photo was missing passes for current once a restore puts that photo back.
  `TornDumpIsSeen` excuses those photos (`back`).

## What is not modelled

- *Of modelled parts:* names, dates and recipients of an envelope and who takes part
  in it; tags; the report's member and direction filters, envelope cards, owed-to
  sums, dues table, text and PDF; the device cookie's signing and age; format 1 of a
  backup (its zone, joining dates and tiers are pure functions of the file); the lists and projections of the
  generated queries.
- *Left out for good:* encoding and status codes of the HTTP API, the screens, demo
  data, command line and deployment (no state of their own); the hashing of
  passwords, the image library, SQLite and the file system below what Upgrade assumes.
- *The guard against nested use of the connection* (`txguard`) turns a deadlock into
  an error. Whether a call is made on the pool or on the transaction is fixed where
  it is written: there is no state whose runs a model could explore, and every
  module takes the guard as given.

## The plan

What is left, in the order of what it would add:

1. MCCounts with two locations, if a smaller model of its dates makes room; the
   theorems about counts already hold for any number.
2. The device cookie as a module between RateLimiter and Access.
3. The parts of a backup that `Document` leaves out: counts, incidentals and the dues
   tables, with the checks they meet.
