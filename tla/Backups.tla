------------------------------ MODULE Backups ------------------------------
(***************************************************************************)
(* internal/backup/dumps.go and scheduler.go: the dump a boot may write,   *)
(* the hourly tick that writes the day's when the fund changed, the safety *)
(* net a restore writes, and the retention each of them ends with, while   *)
(* receipts come and go.  The scheduler and a restore run side by side.    *)
(*                                                                         *)
(* The order of "dumps" stands for the times in their names, newest first, *)
(* and "today" for what those times say of the day in the fund's zone.     *)
(* Each kind has one writer at a time, so that dumps of a kind are ordered *)
(* as they are written.                                                    *)
(***************************************************************************)
EXTENDS Naturals, FiniteSets, SequencesExt

CONSTANTS
  Photo,       \* the receipt files ever stored
  Version,     \* the format versions of the binaries that run
  None,        \* no process
  Name,        \* the names of dumps; one is free again when its dump is gone
  Keep,        \* DailyRetention and PreRestoreRetention, by kind
  MaxChanges,  \* bound: changes of the fund, its photos or its zone
  MaxTroubles  \* bound: crashes and failed steps

Kind == {"daily", "pre-restore"}

ASSUME NoneAssumption == None \notin Version
ASSUME KeepAssumption == Keep \in [Kind -> Nat \ {0}]
ASSUME BoundsAssumption == MaxChanges \in Nat /\ MaxTroubles \in Nat

VARIABLES
  fund,     \* the rows: the photos they name, and all else
  uploads,  \* the photos in the uploads directory
  drawn,    \* the photos ever stored: a path is random and never drawn again
  deleting, \* photos whose row is gone and whose file is still to go
  dumps,    \* the dumps in the backup directory, newest first
  running,  \* the format version of the server that runs
  writer,   \* what the boot or the scheduler, and a restore, are doing
  unbacked, \* the boot dump failed, and no tick has written one since
  back,     \* photos that a restore put back
  changes, troubles

vars == <<fund, uploads, drawn, deleting, dumps, running, writer, unbacked, back, changes,
          troubles>>
files == <<fund, uploads, drawn, deleting, back, changes>>

Fund == [photos : SUBSET Photo, rest : {0, 1}]
Hash == [fund : Fund, missing : SUBSET Photo]
Dump == [name : Name, kind : Kind, fv : Version, hash : Hash, photos : SUBSET Photo,
         today : BOOLEAN]

Writer == {"job", "net"}
KindOf == [job |-> "daily", net |-> "pre-restore"]

\* What a writer has in hand: whether it is the boot's, whether its name says
\* today, the rows it read, what its dump is compared by, the dumps it is to
\* remove and, for a restore, what is to be put back.
Step == {"idle", "booting", "reading", "deciding", "writing", "listing", "pruning", "restoring"}
Source == [fund : Fund, photos : SUBSET Photo]
Hand == [at : Step, boot : BOOLEAN, today : BOOLEAN, doc : Fund, hash : Hash,
         old : SUBSET Name, from : Source]
NoRows == [photos |-> {}, rest |-> 0]
Idle == [at |-> "idle", boot |-> FALSE, today |-> FALSE, doc |-> NoRows,
         hash |-> [fund |-> NoRows, missing |-> {}], old |-> {},
         from |-> [fund |-> NoRows, photos |-> {}]]

TypeOK ==
  /\ fund \in Fund /\ uploads \in SUBSET Photo /\ back \in SUBSET Photo
  /\ drawn \in SUBSET Photo /\ deleting \subseteq drawn
  /\ dumps \in Seq(Dump)
  /\ \A i, j \in DOMAIN dumps : dumps[i].name = dumps[j].name => i = j
  /\ running \in Version \cup {None} /\ unbacked \in BOOLEAN
  /\ writer \in [Writer -> Hand]
  /\ changes \in 0..MaxChanges /\ troubles \in 0..MaxTroubles

-----------------------------------------------------------------------------
(* What a dump is compared by.                                              *)

\* ChangeHash over the document and the photos missing at the plan's stat.
\* Mutant: the hash of the document alone.
HashOfDocument(doc, missing) == [fund |-> doc, missing |-> {}]
ChangeHash(doc, missing) == [fund |-> doc, missing |-> missing]
Missing(doc) == doc.photos \ uploads

\* Where the newest daily dump is, if there is one, and what it is compared by.
\* Mutant: the newest of any kind is taken for it.
NewestDaily == {i \in DOMAIN dumps : /\ dumps[i].kind = "daily"
                                    /\ \A j \in 1..(i - 1) : dumps[j].kind # "daily"}
NewestOfAny == {dumps[i].hash : i \in {j \in DOMAIN dumps : j = 1}}
NewestHash == {dumps[i].hash : i \in NewestDaily}
HasToday == \E i \in DOMAIN dumps : dumps[i].kind = "daily" /\ dumps[i].today

\* NeedsFormatVersionDump.  Mutant: only a first boot writes one.
NeedsFirstDump == dumps = <<>>
NeedsFormatVersionDump == dumps = <<>> \/ dumps[1].fv # running

\* Beyond its kind's quota.  Mutant: the quota counts dumps of every kind.
OldOfAny(i) == i > Keep[dumps[i].kind]
Old(i) == Cardinality({j \in 1..i : dumps[j].kind = dumps[i].kind}) > Keep[dumps[i].kind]

-----------------------------------------------------------------------------
(* The writers.                                                             *)

To(w, hand) == writer' = [writer EXCEPT ![w] = hand]
Active(w) == writer[w].at \notin {"idle", "booting"}

\* serve calls EnsureBootDump before it listens or starts the scheduler.
Boot ==
  /\ running = None
  /\ running' \in Version
  /\ To("job", [Idle EXCEPT !.at = "booting", !.boot = TRUE])
  /\ unbacked' = FALSE
  /\ UNCHANGED <<files, dumps, troubles>>

EnsureBootDump ==
  /\ writer["job"].at = "booting"
  /\ To("job", IF NeedsFormatVersionDump
               THEN [Idle EXCEPT !.at = "reading", !.boot = TRUE, !.today = TRUE]
               ELSE Idle)
  /\ UNCHANGED <<files, dumps, running, unbacked, troubles>>

\* A tick on a day without a daily dump.
Tick ==
  /\ running # None /\ writer["job"] = Idle /\ ~HasToday
  /\ To("job", [Idle EXCEPT !.at = "reading", !.today = TRUE])
  /\ UNCHANGED <<files, dumps, running, unbacked, troubles>>

\* A restore, of a dump that is there; the boot is over.
StartRestore ==
  /\ running # None /\ writer["net"] = Idle /\ changes < MaxChanges
  /\ ~writer["job"].boot
  /\ \E i \in DOMAIN dumps :
       To("net", [Idle EXCEPT !.at = "reading", !.today = TRUE,
                              !.from = [fund |-> dumps[i].hash.fund,
                                        photos |-> dumps[i].photos]])
  /\ changes' = changes + 1
  /\ UNCHANGED <<fund, uploads, drawn, deleting, back, dumps, running, unbacked, troubles>>

\* BuildDocument, in one transaction.
ReadDocument(w) ==
  /\ writer[w].at = "reading"
  /\ To(w, [writer[w] EXCEPT !.at = "deciding", !.doc = fund])
  /\ UNCHANGED <<files, dumps, running, unbacked, troubles>>

\* The photos are stat'ed; a tick goes on when the hash is a new one.
Decide(w) ==
  LET doc == writer[w].doc
      hash == ChangeHash(doc, Missing(doc))
  IN  /\ writer[w].at = "deciding"
      /\ IF w = "job" /\ ~writer[w].boot /\ hash \in NewestHash
         THEN To(w, Idle)
         ELSE To(w, [writer[w] EXCEPT !.at = "writing", !.hash = hash])
      /\ UNCHANGED <<files, dumps, running, unbacked, troubles>>

\* Not in use, and not on a list of dumps to remove.
Free == {n \in Name : /\ \A i \in DOMAIN dumps : dumps[i].name # n
                      /\ \A w \in Writer : n \notin writer[w].old}

\* The zip, with the photos still there, under its name.
WriteDump(w) ==
  LET dump == [name |-> CHOOSE n \in Free : TRUE, kind |-> KindOf[w], fv |-> running, hash |-> writer[w].hash,
               photos |-> writer[w].doc.photos \cap uploads, today |-> writer[w].today]
  IN  /\ writer[w].at = "writing" /\ Free # {}
      /\ dumps' = <<dump>> \o dumps
      /\ To(w, [writer[w] EXCEPT !.at = "listing"])
      /\ unbacked' = FALSE
      /\ UNCHANGED <<files, running, troubles>>

\* ApplyRetention lists, then removes one after the other.
ListOld(w) ==
  /\ writer[w].at = "listing"
  /\ To(w, [writer[w] EXCEPT !.at = "pruning",
                             !.old = {dumps[i].name : i \in {j \in DOMAIN dumps : Old(j)}}])
  /\ UNCHANGED <<files, dumps, running, unbacked, troubles>>

\* One that is gone already is no error.
RemoveOld(w) ==
  /\ writer[w].at = "pruning"
  /\ \E n \in writer[w].old :
       /\ \/ \E i \in DOMAIN dumps : dumps[i].name = n /\ dumps' = RemoveAt(dumps, i)
          \/ n \notin {dumps[i].name : i \in DOMAIN dumps} /\ dumps' = dumps
       /\ To(w, [writer[w] EXCEPT !.old = @ \ {n}])
  /\ UNCHANGED <<files, running, unbacked, troubles>>

EndPruning(w) ==
  /\ writer[w].at = "pruning" /\ writer[w].old = {}
  /\ To(w, IF w = "net" THEN [writer[w] EXCEPT !.at = "restoring"] ELSE Idle)
  /\ UNCHANGED <<files, dumps, running, unbacked, troubles>>

\* Its photos are put back and its rows replace the fund's.
CommitRestore ==
  LET from == writer["net"].from
  IN  /\ writer["net"].at = "restoring"
      /\ fund' = from.fund
      /\ uploads' = uploads \cup from.photos
      /\ back' = back \cup (from.photos \ uploads)
      /\ To("net", Idle)
      /\ UNCHANGED <<drawn, deleting, changes, dumps, running, unbacked, troubles>>

\* A boot that has not written its dump.
OfBoot(w) ==
  writer[w].boot /\ writer[w].at \in {"booting", "reading", "deciding", "writing"}

\* A step fails: a damaged file, a full disk, a dump that could not be removed.
\* The error is logged, or refuses the restore; the server runs on.
Fail(w) ==
  /\ troubles < MaxTroubles /\ writer[w] # Idle
  /\ troubles' = troubles + 1
  /\ unbacked' = (unbacked \/ OfBoot(w))
  /\ To(w, Idle)
  /\ UNCHANGED <<files, dumps, running>>

Crash ==
  /\ troubles < MaxTroubles /\ running # None
  /\ troubles' = troubles + 1
  /\ running' = None
  /\ deleting' = {}
  /\ writer' = [w \in Writer |-> Idle]
  /\ unbacked' = FALSE
  /\ UNCHANGED <<fund, uploads, drawn, back, changes, dumps>>

-----------------------------------------------------------------------------
(* What happens around them.                                                *)

Change == running # None /\ changes < MaxChanges /\ changes' = changes + 1

Edit ==
  /\ Change
  /\ fund' = [fund EXCEPT !.rest = 1 - @]
  /\ UNCHANGED <<uploads, drawn, deleting, back, dumps, running, writer, unbacked, troubles>>

\* The file is stored before its row.
CreateReceipt(p) ==
  /\ Change /\ p \notin drawn
  /\ fund' = [fund EXCEPT !.photos = @ \cup {p}]
  /\ uploads' = uploads \cup {p} /\ drawn' = drawn \cup {p}
  /\ UNCHANGED <<deleting, back, dumps, running, writer, unbacked, troubles>>

DeleteReceipt(p) ==
  /\ Change /\ p \in fund.photos
  /\ fund' = [fund EXCEPT !.photos = @ \ {p}]
  /\ deleting' = deleting \cup {p}
  /\ UNCHANGED <<uploads, drawn, back, dumps, running, writer, unbacked, troubles>>

RemovePhoto(p) ==
  /\ p \in deleting
  /\ deleting' = deleting \ {p} /\ uploads' = uploads \ {p}
  /\ UNCHANGED <<fund, drawn, back, changes, dumps, running, writer, unbacked, troubles>>

\* The uploads volume loses a file.
LosePhoto(p) ==
  /\ Change /\ p \in uploads
  /\ uploads' = uploads \ {p}
  /\ UNCHANGED <<fund, drawn, deleting, back, dumps, running, writer, unbacked, troubles>>

\* The stamps of the dumps, and of a dump being written, as the day goes on.
Stamped(todays, own) ==
  /\ dumps' = [i \in DOMAIN dumps |-> [dumps[i] EXCEPT !.today = i \in todays]]
  /\ writer' = [w \in Writer |->
                  IF Active(w) THEN [writer[w] EXCEPT !.today = own] ELSE writer[w]]

NextDay ==
  /\ \/ \E i \in DOMAIN dumps : dumps[i].today
     \/ \E w \in Writer : writer[w].today
  /\ Stamped({}, FALSE)
  /\ UNCHANGED <<files, running, unbacked, troubles>>

\* A zone that is west or east of the old one makes fewer or more of the newest
\* dumps today's; the zone is part of the document.
ChangeZone ==
  /\ Change
  /\ \E n \in 0..Len(dumps), own \in BOOLEAN :
       /\ n > 0 => own
       /\ Stamped(1..n, own)
  /\ fund' = [fund EXCEPT !.rest = 1 - @]
  /\ UNCHANGED <<uploads, drawn, deleting, back, running, unbacked, troubles>>

Init ==
  /\ fund = NoRows
  /\ uploads = {} /\ drawn = {} /\ deleting = {} /\ back = {}
  /\ dumps = <<>> /\ running = None /\ unbacked = FALSE
  /\ writer = [w \in Writer |-> Idle]
  /\ changes = 0 /\ troubles = 0

Work(w) == \/ ReadDocument(w) \/ Decide(w) \/ WriteDump(w)
           \/ ListOld(w) \/ RemoveOld(w) \/ EndPruning(w)
Next ==
  \/ Boot \/ EnsureBootDump \/ Tick \/ StartRestore \/ CommitRestore
  \/ \E w \in Writer : Work(w) \/ Fail(w)
  \/ Crash \/ Edit \/ NextDay \/ ChangeZone
  \/ \E p \in Photo : CreateReceipt(p) \/ DeleteReceipt(p) \/ RemovePhoto(p) \/ LosePhoto(p)

\* The process is restarted, the loop ticks every hour, and days pass.
Fairness ==
  /\ WF_vars(Boot) /\ WF_vars(EnsureBootDump) /\ WF_vars(Tick) /\ WF_vars(NextDay)
  /\ WF_vars(Work("job"))
Spec == Init /\ [][Next]_vars /\ Fairness

-----------------------------------------------------------------------------
(* What the backups promise.                                                *)

\* A dump that is removed always leaves a full quota of newer ones of its kind,
\* with two retentions under way and dumps written between a listing and its
\* removals.
NewestKept ==
  [][\A i \in DOMAIN dumps :
       (\A j \in DOMAIN dumps' : dumps'[j].name # dumps[i].name) =>
         Cardinality({k \in 1..(i - 1) :
                        /\ dumps[k].kind = dumps[i].kind
                        /\ \E j \in DOMAIN dumps' : dumps'[j].name = dumps[k].name})
           >= Keep[dumps[i].kind]]_vars

\* Once serve has booted, "a restorable backup in the running binary's format
\* exists" (serveContext), and no retention takes the last one, unless the boot
\* dump failed.
FormatIsThere ==
  running # None /\ ~unbacked =>
    \/ \E i \in DOMAIN dumps : dumps[i].fv = running
    \/ OfBoot("job")

\* The newest daily dump does not pass for the fund as it is while its zip lacks
\* a photo that its hash counts as present (writeTo: a photo that vanished "shows
\* as a changed hash on the next tick"), unless a restore put that photo back.
TornDumpIsSeen ==
  \A i \in NewestDaily : dumps[i].hash = ChangeHash(fund, Missing(fund)) =>
    fund.photos \ dumps[i].hash.missing \subseteq dumps[i].photos \cup back

\* However crashes, failures, restores and changes of the zone fall, the last
\* change of the fund is in a daily dump in the end.
LastChangeIsDumped ==
  <>[](\E i \in NewestDaily : dumps[i].hash = ChangeHash(fund, Missing(fund)))
=============================================================================
