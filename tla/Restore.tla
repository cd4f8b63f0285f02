------------------------------ MODULE Restore ------------------------------
(***************************************************************************)
(* Receipt photos and the in-app restore.                                  *)
(*                                                                         *)
(* A photo is a file in the uploads directory and a row that names it, and *)
(* no transaction spans the two: an upload stores the file and then inserts *)
(* the row, a deletion deletes the row and then removes the file.  A        *)
(* restore is inspected in one request, which leaves a staged copy of the   *)
(* zip in the one slot, and confirmed in another, which takes the copy,     *)
(* writes a safety-net dump, extracts the photos and replaces every row in  *)
(* one transaction.  Any of these requests may interleave, fail or be cut   *)
(* off by a crash; a boot sweeps the temp files.                            *)
(*                                                                         *)
(* A book is its entries and its receipt rows; ids, dates and amounts are   *)
(* the ledger's.  A token is named by the staged file it was issued for,    *)
(* one of each per inspection.  Two things the code decides outside this    *)
(* module are choices here: whether a request fails, and when ten minutes   *)
(* have passed.                                                             *)
(***************************************************************************)
EXTENDS Naturals, Sequences, FiniteSets, FiniteSetsExt

CONSTANTS
  Entry,          \* what the treasurer may record: a photo hangs from one
  Photo,          \* names of photo files, drawn at random and never twice
  Tab,            \* the browser tabs she confirms a restore in
  File,           \* names of staging files, drawn at random
  Nothing,        \* no file, no zip, no slot
  Quota,          \* how many safety-net dumps retention keeps
  MaxZips,        \* how many different backups she has
  MaxInspects,    \* how many she inspects
  MaxPhotoRequests \* how many uploads and deletions of a photo are in flight

ASSUME NothingIsNoFile == Nothing \notin File
ASSUME QuotaIsPositive == Quota \in Nat \ {0}
ASSUME BoundsAreNatural == MaxZips \in Nat /\ MaxInspects \in Nat /\ MaxPhotoRequests \in Nat

VARIABLES
  book,       \* the rows of the database
  uploads,    \* the files of the uploads directory
  drawn,      \* names drawn so far: a random name never comes twice
  restored,   \* photos whose rows a restore put there (history)
  storing,    \* uploads between storing the file and inserting the row
  deleting,   \* deletions between reading the row and removing the file
  zips,       \* backups she has: the first boot's dump and what she downloaded
  dumps,      \* the safety-net dumps in the backup directory, oldest first
  staged,     \* the staging files in the backup directory, with what they hold
  slot,       \* restoreStage: the token and the document it was parsed into
  tab,        \* each tab's request
  inspects,   \* how many backups were inspected
  up          \* the process runs

vars == <<book, uploads, drawn, restored, storing, deleting, zips, dumps, staged, slot, tab,
          inspects, up>>
photos == <<storing, deleting, drawn>>
backups == <<zips, dumps>>
inspection == <<staged, slot, tab, inspects>>

Receipt == [id : Nat, parent : Entry, path : Photo]
Paths(b) == {r.path : r \in b.receipts}
\* The largest id plus one: the id of a deleted last row is given again.
NextId(b) == 1 + Max({0} \cup {r.id : r \in b.receipts})

NoRows == [entries |-> {}, receipts |-> {}]
\* The document's rows join those that are there.
InsertDocument(b, doc) ==
  [entries |-> b.entries \cup doc.entries, receipts |-> b.receipts \cup doc.receipts]

\* A backup zip: the document, and the images that were on disk when it was
\* assembled.  A missing image never blocks a backup.
Zip(b) == [book |-> b, images |-> Paths(b) \cap uploads]

Resting == [step |-> "idle", file |-> Nothing, zip |-> Nothing, doc |-> Nothing,
            plan |-> Nothing, created |-> {}]
\* The steps of a tab's request that run on the server.
Serving == {"copied", "taken", "planned", "kept", "extracted"}
Confirming == Serving \ {"copied"}

Init ==
  /\ book = NoRows
  /\ uploads = {} /\ drawn = {} /\ restored = {} /\ storing = {} /\ deleting = {}
  /\ zips = {Zip(NoRows)} /\ dumps = <<>> /\ staged = <<>> /\ slot = Nothing
  /\ tab = [t \in Tab |-> Resting]
  /\ inspects = 0 /\ up = TRUE

----------------------------------------------------------------------------
(* Recording, and the photos of what is recorded. *)

Post(e) ==
  /\ up
  /\ e \notin book.entries
  /\ book' = [book EXCEPT !.entries = @ \cup {e}]
  /\ UNCHANGED <<uploads, restored, photos, backups, inspection, up>>

InFlight == Cardinality(storing) + Cardinality(deleting)

\* The upload has read its parent and stores the file under a fresh name.
StorePhoto(e) ==
  /\ up
  /\ InFlight < MaxPhotoRequests
  /\ e \in book.entries
  /\ Photo \ drawn # {}
  /\ LET p == CHOOSE p \in Photo \ drawn : TRUE
     IN  /\ uploads' = uploads \cup {p}
         /\ drawn' = drawn \cup {p}
         /\ storing' = storing \cup {[parent |-> e, path |-> p]}
  /\ UNCHANGED <<book, restored, deleting, backups, inspection, up>>

\* The row is inserted if its parent is still there.
CreateReceipt(s) ==
  /\ up
  /\ s.parent \in book.entries
  /\ book' = [book EXCEPT !.receipts =
                @ \cup {[id |-> NextId(book), parent |-> s.parent, path |-> s.path]}]
  /\ storing' = storing \ {s}
  /\ UNCHANGED <<uploads, restored, deleting, drawn, backups, inspection, up>>

\* No row, no file: the parent is gone, or the insert failed.
DropPhoto(s) ==
  /\ up
  /\ uploads' = uploads \ {s.path}
  /\ storing' = storing \ {s}
  /\ UNCHANGED <<book, restored, deleting, drawn, backups, inspection, up>>

\* A deletion reads the row its id names ...
ResolveReceipt(r) ==
  /\ up
  /\ InFlight < MaxPhotoRequests
  /\ deleting' = deleting \cup {[id |-> r.id, path |-> r.path, gone |-> FALSE]}
  /\ UNCHANGED <<book, uploads, restored, storing, drawn, backups, inspection, up>>

\* ... deletes the row that has this id by then, if there is one ...
DeleteReceipt(d) ==
  /\ up
  /\ ~d.gone
  /\ LET named == {r \in book.receipts : r.id = d.id}
     IN  /\ book' = [book EXCEPT !.receipts = @ \ named]
         /\ deleting' = (deleting \ {d})
              \cup IF named = {} THEN {} ELSE {[d EXCEPT !.gone = TRUE]}
  /\ UNCHANGED <<uploads, restored, storing, drawn, backups, inspection, up>>

\* ... and removes the file it read the name of.
RemovePhoto(d) ==
  /\ up
  /\ d.gone
  /\ uploads' = uploads \ {d.path}
  /\ deleting' = deleting \ {d}
  /\ UNCHANGED <<book, restored, storing, drawn, backups, inspection, up>>

Download ==
  /\ up
  /\ Cardinality(zips) < MaxZips
  /\ zips' = zips \cup {Zip(book)}
  /\ UNCHANGED <<book, uploads, restored, dumps, photos, inspection, up>>

----------------------------------------------------------------------------
(* Inspecting a backup. *)

Without(files, gone) == [f \in DOMAIN files \ gone |-> files[f]]
InSlot == IF slot = Nothing THEN {} ELSE {slot.token}
\* The file a new stage makes useless.
Replaced == InSlot

\* A fresh staging file holds a copy of an upload or of a stored dump.
Inspect(t, z) ==
  LET free == File \ (DOMAIN staged \cup InSlot \cup {tab[s].file : s \in Tab})
      f == CHOOSE f \in free : TRUE
  IN  /\ up
      /\ tab[t].step = "idle" /\ free # {}
      /\ inspects < MaxInspects
      /\ inspects' = inspects + 1
      /\ staged' = [g \in DOMAIN staged \cup {f} |-> IF g = f THEN z ELSE staged[g]]
      /\ tab' = [tab EXCEPT ![t] = [Resting EXCEPT !.step = "copied", !.file = f, !.zip = z]]
      /\ UNCHANGED <<book, uploads, restored, slot, photos, backups, up>>

\* What a staging file parses to.
ParseUpload(f) == staged[f].book

\* The parsed copy takes the slot, and the one it replaces loses its file.
Stage(t) ==
  /\ up
  /\ tab[t].step = "copied"
  /\ slot' = [token |-> tab[t].file, doc |-> ParseUpload(tab[t].file)]
  /\ staged' = Without(staged, Replaced)
  /\ tab' = [tab EXCEPT ![t].step = "shown"]
  /\ UNCHANGED <<book, uploads, restored, inspects, photos, backups, up>>

\* The sweep timer.
Expire ==
  /\ up
  /\ slot # Nothing
  /\ staged' = Without(staged, InSlot)
  /\ slot' = Nothing
  /\ UNCHANGED <<book, uploads, restored, tab, inspects, photos, backups, up>>

----------------------------------------------------------------------------
(* Confirming it. *)

\* Mutant: whatever is staged is taken.
AnyStage(t) == slot # Nothing
\* The password was right.  The token must still be the slot's: taking it
\* empties the slot and makes the request the owner of the file.
Matches(t) == slot # Nothing /\ slot.token = tab[t].file

Take(t) ==
  /\ up
  /\ tab[t].step = "shown"
  /\ IF Matches(t)
       THEN /\ tab' = [tab EXCEPT ![t].step = "taken", ![t].file = slot.token,
                                  ![t].doc = slot.doc]
            /\ slot' = Nothing
       ELSE /\ tab' = [tab EXCEPT ![t] = Resting]
            /\ UNCHANGED slot
  /\ UNCHANGED <<book, uploads, restored, staged, inspects, photos, backups, up>>

\* She closes the dialog.
Abandon(t) ==
  /\ tab[t].step = "shown"
  /\ tab' = [tab EXCEPT ![t] = Resting]
  /\ UNCHANGED <<book, uploads, restored, staged, slot, inspects, photos, backups, up>>

\* The newest dumps, as many as the quota.
Retained(ds) == SubSeq(ds, 1 + Len(ds) - Min({Quota, Len(ds)}), Len(ds))

\* The safety net: the rows in a read transaction, then the zip with what
\* photos are there, then retention.
PlanNet(t) ==
  /\ up
  /\ tab[t].step = "taken"
  /\ tab' = [tab EXCEPT ![t].step = "planned", ![t].plan = book]
  /\ UNCHANGED <<book, uploads, restored, staged, slot, inspects, photos, backups, up>>

WriteNet(t) ==
  /\ up
  /\ tab[t].step = "planned"
  /\ dumps' = Retained(Append(dumps, Zip(tab[t].plan)))
  /\ tab' = [tab EXCEPT ![t].step = "kept"]
  /\ UNCHANGED <<book, uploads, restored, zips, staged, slot, inspects, photos, up>>

\* Mutant: a photo that was there counts as created.
CreatesAll(images) == images
\* The photos an extraction creates: those that are not there.
Creates(images) == images \ uploads

\* Photos are added and the ones it creates are noted.
Extract(t) ==
  /\ up
  /\ tab[t].step = "kept" /\ tab[t].file \in DOMAIN staged
  /\ LET images == staged[tab[t].file].images
     IN  /\ uploads' = uploads \cup images
         /\ tab' = [tab EXCEPT ![t].step = "extracted", ![t].created = Creates(images)]
  /\ UNCHANGED <<book, restored, staged, slot, inspects, photos, backups, up>>

\* One transaction replaces every row; then the handler removes its file.
Commit(t) ==
  /\ up
  /\ tab[t].step = "extracted"
  /\ book' = InsertDocument(NoRows, tab[t].doc)
  /\ restored' = Paths(book')
  /\ staged' = Without(staged, {tab[t].file})
  /\ tab' = [tab EXCEPT ![t] = Resting]
  /\ UNCHANGED <<uploads, slot, inspects, photos, backups, up>>

\* The request fails before its commit: it takes back the photos it created,
\* and its staging file.
Refuse(t) ==
  /\ up
  /\ tab[t].step \in Serving
  /\ uploads' = uploads \ tab[t].created
  /\ staged' = Without(staged, {tab[t].file})
  /\ tab' = [tab EXCEPT ![t] = Resting]
  /\ UNCHANGED <<book, restored, slot, inspects, photos, backups, up>>

----------------------------------------------------------------------------
(* The process. *)

\* Requests and the slot die with it; files and rows, and the dialog a browser
\* shows, do not.
Crash ==
  /\ up
  /\ up' = FALSE
  /\ slot' = Nothing /\ storing' = {} /\ deleting' = {}
  /\ tab' = [t \in Tab |-> IF tab[t].step \in Serving THEN Resting ELSE tab[t]]
  /\ UNCHANGED <<book, uploads, restored, drawn, staged, inspects, backups>>

\* Mutant: the staging files are none of the boot's business.
NoTemps == {}
\* What an interrupted write left in the backup directory.
StaleTemps == DOMAIN staged

\* Before it listens, serve removes every temp file from the backup directory.
Boot ==
  /\ ~up
  /\ up' = TRUE
  /\ staged' = Without(staged, StaleTemps)
  /\ UNCHANGED <<book, uploads, restored, slot, tab, inspects, photos, backups>>

Next ==
  \/ \E e \in Entry : Post(e) \/ StorePhoto(e)
  \/ \E s \in storing : CreateReceipt(s) \/ DropPhoto(s)
  \/ \E r \in book.receipts : ResolveReceipt(r)
  \/ \E d \in deleting : DeleteReceipt(d) \/ RemovePhoto(d)
  \/ Download
  \/ \E t \in Tab :
       \/ \E z \in zips \cup {dumps[i] : i \in DOMAIN dumps} : Inspect(t, z)
       \/ Stage(t) \/ Take(t) \/ Abandon(t) \/ PlanNet(t) \/ WriteNet(t)
       \/ Extract(t) \/ Commit(t) \/ Refuse(t)
  \/ Expire \/ Crash \/ Boot

\* What a request does once it has its staging file.
Serve(t) ==
  Stage(t) \/ PlanNet(t) \/ WriteNet(t) \/ Extract(t) \/ Commit(t) \/ Refuse(t)

\* A handler that runs goes on until it returns, the timer of a stage fires, and
\* a process that died is started again.
Fairness == WF_vars(Expire) /\ WF_vars(Boot) /\ \A t \in Tab : WF_vars(Serve(t))

Spec == Init /\ [][Next]_vars /\ Fairness

----------------------------------------------------------------------------
Book == [entries : SUBSET Entry, receipts : SUBSET Receipt]
Backup == [book : Book, images : SUBSET Photo]
ASSUME NothingIsNoBook == Nothing \notin Book \cup Backup

Request ==
  [step : Serving \cup {"idle", "shown"}, file : File \cup {Nothing},
   zip : Backup \cup {Nothing}, doc : Book \cup {Nothing}, plan : Book \cup {Nothing},
   created : SUBSET Photo]

TypeOK ==
  /\ book \in Book
  /\ \A r, s \in book.receipts : r.id = s.id => r = s
  /\ uploads \subseteq Photo /\ drawn \subseteq Photo /\ restored \subseteq Photo
  /\ storing \subseteq [parent : Entry, path : Photo]
  /\ deleting \subseteq [id : Nat, path : Photo, gone : BOOLEAN]
  /\ zips \subseteq Backup /\ dumps \in Seq(Backup) /\ Len(dumps) <= Quota
  /\ DOMAIN staged \subseteq File /\ \A f \in DOMAIN staged : staged[f] \in Backup
  /\ slot \in [token : File, doc : Book] \cup {Nothing}
  /\ tab \in [Tab -> Request]
  /\ inspects \in 0..MaxInspects /\ up \in BOOLEAN

\* A photo that was uploaded is on disk for as long as its row is in the book,
\* through any interleaving of uploads, deletions, restores that fail and
\* crashes; only a row that a restore put there may lack its file.
UploadedPhotoIsKept ==
  \A r \in book.receipts : r.path \in uploads \cup restored

\* What a confirm puts in the book is what its own dialog showed, not what
\* another tab staged in the meantime.
RestoresWhatWasPreviewed ==
  [][\A t \in Tab : tab[t].step \in Confirming /\ book' # book
        /\ tab'[t].step = "idle" => book' = tab[t].zip.book]_vars

\* No staging file stays for good: confirmed, refused, replaced, expired or left
\* by a crash, each is removed (a zip of up to 256 MB on the backup volume).
StagesAreRemoved ==
  \A f \in File : f \in DOMAIN staged ~> f \notin DOMAIN staged

============================================================================
