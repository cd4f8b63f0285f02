---------------------------- MODULE RestoreProofs ----------------------------
(***************************************************************************)
(* No uploaded photo is lost and no tab restores what another one showed,  *)
(* for any number of photos, tabs, staging files and requests.             *)
(***************************************************************************)
EXTENDS Restore, SequenceTheorems, WellFoundedInduction, NaturalsInduction, TLAPS

-----------------------------------------------------------------------------
(* The inductive invariant.                                                 *)

\* The names an upload still holds, and those it is done with: a row, a backup
\* or a deletion only ever names one of these.
Held == {s.path : s \in storing}
Settled == drawn \ Held

\* A book whose photos are in names, and whose ids are distinct and bounded.
Numbered(b) ==
  /\ \A r, s \in b.receipts : r.id = s.id => r = s
  /\ \E n \in Nat : \A r \in b.receipts : r.id <= n
Books(names) == {b \in Book : Paths(b) \subseteq names /\ Numbered(b)}
Backups(names) == {z \in Backup : z.book \in Books(names) /\ z.images \subseteq names}

\* The requests and the slot carry books and backups of these, and what they
\* have created is in names.
Requests(names) ==
  [step : Serving \cup {"idle", "shown"}, file : File \cup {Nothing},
   zip : Backups(names) \cup {Nothing}, doc : Books(names) \cup {Nothing},
   plan : Books(names) \cup {Nothing}, created : SUBSET names]
Slots(names) == [token : File, doc : Books(names)] \cup {Nothing}

Typed ==
  /\ book \in Books(Settled)
  /\ uploads \subseteq Photo /\ drawn \subseteq Photo /\ restored \subseteq Photo
  /\ storing \subseteq [parent : Entry, path : Photo]
  /\ deleting \subseteq [id : Nat, path : Settled, gone : BOOLEAN]
  /\ zips \subseteq Backups(Settled)
  /\ dumps \in Seq(Backups(Settled)) /\ Len(dumps) <= Quota
  /\ DOMAIN staged \subseteq File
  /\ \A f \in DOMAIN staged : staged[f] \in Backups(Settled)
  /\ slot \in Slots(Settled)
  /\ tab \in [Tab -> Requests(Settled)]
  /\ inspects \in 0..MaxInspects /\ up \in BOOLEAN

\* What an upload holds is on disk, and its own.
HeldIsOnDisk ==
  /\ Held \subseteq uploads \cap drawn
  /\ \A s, u \in storing : s.path = u.path => s = u

\* Two rows name one photo, or a row the photo of a deletion, only after a
\* restore, unless it is the very row the deletion is about to delete.
RowsApart ==
  \A r, s \in book.receipts : r.path = s.path => r = s \/ r.path \in restored
DeletesItsOwn ==
  \A d \in deleting, r \in book.receipts :
    r.path = d.path => r.path \in restored \/ (~d.gone /\ r.id = d.id)
\* A photo that an extraction created is no uploaded row's.
CreatesForNobody ==
  \A t \in Tab : tab[t].created \cap Paths(book) \subseteq restored

\* A staging file belongs to one tab, and holds what that tab shows.
FilesApart ==
  \A s, t \in Tab : tab[s].file = tab[t].file => s = t \/ tab[s].file = Nothing
Sound(x, files, slotted, on) ==
  /\ x.step # "idle" => x.file # Nothing /\ x.zip # Nothing
  /\ x.step = "copied" => /\ x.file \in DOMAIN files /\ files[x.file] = x.zip
                          /\ x.file \notin slotted
  /\ x.step \in Confirming => x.doc = x.zip.book
  /\ x.step = "planned" => x.plan # Nothing
  /\ x.step \in Serving => on
Carries == \A t \in Tab : Sound(tab[t], staged, InSlot, up)
SlotShowsItsTab ==
  slot # Nothing =>
    \A t \in Tab : tab[t].file = slot.token => slot.doc = tab[t].zip.book

PhotoInv ==
  HeldIsOnDisk /\ RowsApart /\ DeletesItsOwn /\ CreatesForNobody /\ UploadedPhotoIsKept
FileInv == FilesApart /\ Carries /\ SlotShowsItsTab
Inv == Typed /\ PhotoInv /\ FileInv

-----------------------------------------------------------------------------
(* Books and their ids.                                                     *)

\* Of the numbers that bound the ids, the least is an id or 0.
LEMMA LeastBound ==
  ASSUME NEW ids \in SUBSET Nat, \E n \in Nat : \A i \in ids : i <= n
  PROVE  \E n \in {0} \cup ids : \A i \in ids : i <= n
<1> DEFINE R == OpToRel(<, Nat)
           bounds == {n \in Nat : \A i \in ids : i <= n}
<1>1. bounds # {} /\ bounds \subseteq Nat /\ \A n \in bounds : \A i \in ids : i <= n
  OBVIOUS
<1>2. \A m \in Nat : (\A i \in ids : i <= m) => m \in bounds
  OBVIOUS
<1>3. IsWellFoundedOn(R, Nat)
  BY NatLessThanWellFounded
<1>4. \A m, n \in Nat : m < n => <<m, n>> \in R
  BY DEF OpToRel
<1> HIDE DEF R, bounds
<1>5. PICK n \in bounds : \A m \in bounds : ~ (<<m, n>> \in R)
  BY <1>1, <1>3, WFMin
<1>6. n \in Nat /\ \A i \in ids : i \in Nat /\ i <= n
  BY <1>1, <1>5
<1>7. CASE n = 0
  BY <1>6, <1>7
<1>8. CASE n # 0
  <2>1. n - 1 \in Nat /\ n - 1 < n
    BY <1>6, <1>8
  <2>2. n - 1 \notin bounds
    BY <1>4, <1>5, <1>6, <2>1
  <2>3. PICK i \in ids : ~(i <= n - 1)
    BY <1>2, <2>1, <2>2
  <2>4. i = n
    BY <1>6, <2>3
  <2> QED
    BY <1>6, <2>4
<1> QED
  BY <1>7, <1>8

\* The next id is a number no row has, and the largest if it is given.
LEMMA NextIdIsNew ==
  ASSUME NEW b \in Book, Numbered(b)
  PROVE  /\ NextId(b) \in Nat
         /\ \A r \in b.receipts : r.id < NextId(b)
<1> DEFINE ids == {r.id : r \in b.receipts}
<1>1. b.receipts \subseteq Receipt /\ ids \subseteq Nat
  BY DEF Book, Receipt
<1>2. PICK n \in {0} \cup ids : \A i \in ids : i <= n
  <2>1. \E n \in Nat : \A i \in ids : i <= n
    BY DEF Numbered
  <2> HIDE DEF ids
  <2> QED
    BY <1>1, <2>1, LeastBound
<1>3. \A m \in {0} \cup ids : n >= m /\ m \in Nat
  <2> HIDE DEF ids
  <2> QED
    BY <1>1, <1>2
<1>4. Max({0} \cup ids) \in {0} \cup ids /\ \A m \in {0} \cup ids : Max({0} \cup ids) >= m
  <2> HIDE DEF ids
  <2> QED
    BY <1>2, <1>3 DEF Max
<1>5. NextId(b) = 1 + Max({0} \cup ids)
  BY DEF NextId
<1>6. \A r \in b.receipts : r.id \in ids
  OBVIOUS
<1> HIDE DEF ids
<1>7. Max({0} \cup ids) \in Nat
  BY <1>3, <1>4
<1>8. ASSUME NEW r \in b.receipts
      PROVE  r.id < NextId(b)
  <2>1. r.id \in Nat /\ Max({0} \cup ids) >= r.id
    BY <1>3, <1>4, <1>6
  <2> QED
    BY <1>5, <1>7, <2>1
<1>9. NextId(b) \in Nat
  <2> DEFINE m == Max({0} \cup ids)
  <2>1. NextId(b) = 1 + m /\ m \in Nat
    BY <1>5, <1>7
  <2> HIDE DEF m
  <2> QED
    BY <2>1
<1> QED
  BY <1>8, <1>9

\* What a book, a backup and a request may name only grows.
LEMMA NamesGrow ==
  ASSUME NEW M, NEW N, M \subseteq N
  PROVE  /\ Books(M) \subseteq Books(N) /\ Backups(M) \subseteq Backups(N)
         /\ Requests(M) \subseteq Requests(N) /\ Slots(M) \subseteq Slots(N)
<1>1. Books(M) \subseteq Books(N)
  BY DEF Books
<1>2. Backups(M) \subseteq Backups(N)
  BY <1>1 DEF Backups
<1>3. Requests(M) \subseteq Requests(N)
  BY <1>1, <1>2 DEF Requests
<1> QED
  BY <1>1, <1>2, <1>3 DEF Slots

\* A backup of a book.
LEMMA ZipIsBackup ==
  ASSUME NEW N, N \subseteq Photo, NEW b \in Books(N)
  PROVE  Zip(b) \in Backups(N)
<1>1. Paths(b) \subseteq N /\ b \in Book
  BY DEF Books
<1> QED
  BY <1>1 DEF Zip, Backups, Backup

\* A book with rows left out.
LEMMA FewerRows ==
  ASSUME NEW N, NEW b \in Books(N), NEW fewer \in SUBSET b.receipts
  PROVE  [b EXCEPT !.receipts = fewer] \in Books(N)
<1> DEFINE c == [b EXCEPT !.receipts = fewer]
<1>1. c \in Book /\ c.receipts = fewer
  BY DEF Books, Book
<1> HIDE DEF c
<1>2. Paths(c) \subseteq N
  BY <1>1 DEF Books, Paths
<1>3. Numbered(c)
  BY <1>1 DEF Books, Numbered
<1> QED
  BY <1>1, <1>2, <1>3 DEF Books, c

\* A book restored into an empty one is that book.
LEMMA InsertedIsDocument ==
  ASSUME NEW doc \in Book
  PROVE  InsertDocument(NoRows, doc) = doc
BY DEF InsertDocument, NoRows, Book

-----------------------------------------------------------------------------
(* What a step leaves alone.                                                *)

\* A step of the photos leaves the backups and the requests as they are.
LEMMA CarriedStays ==
  ASSUME Typed, Settled \subseteq Settled',
         UNCHANGED <<zips, dumps, staged, slot, tab, inspects, up>>
  PROVE  /\ zips' \subseteq Backups(Settled')
         /\ dumps' \in Seq(Backups(Settled')) /\ Len(dumps') <= Quota
         /\ DOMAIN staged' \subseteq File
         /\ \A f \in DOMAIN staged' : staged'[f] \in Backups(Settled')
         /\ slot' \in Slots(Settled')
         /\ tab' \in [Tab -> Requests(Settled')]
         /\ inspects' \in 0..MaxInspects /\ up' \in BOOLEAN
<1>1. /\ Backups(Settled) \subseteq Backups(Settled')
      /\ Requests(Settled) \subseteq Requests(Settled') /\ Slots(Settled) \subseteq Slots(Settled')
  BY NamesGrow
<1>2. dumps \in Seq(Backups(Settled')) /\ Len(dumps) <= Quota
  <2>1. dumps \in Seq(Backups(Settled)) /\ Len(dumps) <= Quota
    BY DEF Typed
  <2>2. \A i \in 1..Len(dumps) : dumps[i] \in Backups(Settled')
    BY <1>1, <2>1, ElementOfSeq
  <2> QED
    BY <2>1, <2>2, SeqDef, LenProperties
<1> QED
  BY <1>1, <1>2 DEF Typed

\* A step of the photos that leaves the files and requests as they are.
LEMMA FilesStand ==
  ASSUME FileInv, UNCHANGED <<staged, slot, tab, up>>
  PROVE  FileInv'
BY DEF FileInv, FilesApart, Carries, SlotShowsItsTab, InSlot

\* A step of one request, or of the slot, that leaves the book and the photos
\* as they are.
LEMMA PhotosStand ==
  ASSUME PhotoInv, UNCHANGED <<book, uploads, restored, photos>>,
         \A t \in Tab : tab'[t].created \subseteq tab[t].created
  PROVE  PhotoInv'
BY DEF PhotoInv, HeldIsOnDisk, Held, RowsApart, DeletesItsOwn, CreatesForNobody,
       UploadedPhotoIsKept, photos

\* The photos' part of the types, while the photos stand.
LEMMA NamesStand ==
  ASSUME Typed, UNCHANGED <<book, restored, photos>>
  PROVE  /\ Settled' = Settled
         /\ book' \in Books(Settled') /\ drawn' \subseteq Photo /\ restored' \subseteq Photo
         /\ storing' \subseteq [parent : Entry, path : Photo]
         /\ deleting' \subseteq [id : Nat, path : Settled', gone : BOOLEAN]
BY DEF Typed, photos, Settled, Held

\* The tabs after one of them stepped to x.
LEMMA TabsAfter ==
  ASSUME Typed, FileInv, NEW t \in Tab, NEW x \in Requests(Settled),
         tab' = [tab EXCEPT ![t] = x], x.file = tab[t].file \/ x.file = Nothing,
         Sound(x, staged', InSlot', up'), up' = up,
         \A s \in Tab : s # t /\ tab[s].step = "copied" =>
           /\ tab[s].file \in DOMAIN staged' /\ staged'[tab[s].file] = staged[tab[s].file]
           /\ tab[s].file \notin InSlot'
  PROVE  tab' \in [Tab -> Requests(Settled)] /\ FilesApart' /\ Carries'
<1>1. tab \in [Tab -> Requests(Settled)]
  BY DEF Typed
<1>2. tab' \in [Tab -> Requests(Settled)] /\ tab'[t] = x
      /\ \A s \in Tab : s # t => tab'[s] = tab[s]
  BY <1>1
<1>3. FilesApart'
  <2>1. SUFFICES ASSUME NEW s \in Tab, NEW u \in Tab, tab'[s].file = tab'[u].file, s # u
                 PROVE  tab'[s].file = Nothing
    BY DEF FilesApart
  <2>2. \A q, v \in Tab : tab[q].file = tab[v].file => q = v \/ tab[q].file = Nothing
    BY DEF FileInv, FilesApart
  <2>3. \A q \in Tab : tab'[q].file = tab[q].file \/ tab'[q].file = Nothing
    BY <1>2
  <2> QED
    BY <2>1, <2>2, <2>3
<1>4. ASSUME NEW s \in Tab
      PROVE  Sound(tab'[s], staged', InSlot', up')
  <2>1. CASE s = t
    BY <1>2, <2>1
  <2>2. CASE s # t
    <3>1. tab'[s] = tab[s] /\ Sound(tab[s], staged, InSlot, up)
      BY <1>2, <2>2 DEF FileInv, Carries
    <3> QED
      BY <2>2, <3>1 DEF Sound
  <2> QED
    BY <2>1, <2>2
<1> QED
  BY <1>2, <1>3, <1>4 DEF Carries

-----------------------------------------------------------------------------
(* Recording, and the photos of what is recorded.                           *)

\* What the invariant says of the book, the names and the photos.
LEMMA Known ==
  ASSUME Inv
  PROVE  /\ book \in Book /\ Numbered(book) /\ Paths(book) \subseteq Settled
         /\ book.receipts \subseteq Receipt
         /\ \A r \in book.receipts : /\ r.path \in Settled /\ r.path \in drawn
                                     /\ r.path \in uploads \cup restored
         /\ \A s \in storing : s \in [parent : Entry, path : Photo] /\ s.path \notin Settled
                               /\ s.path \in uploads /\ s.path \in drawn /\ s.path \in Held
         /\ Settled \subseteq drawn /\ drawn \subseteq Photo
         /\ \A d \in deleting : d \in [id : Nat, path : Settled, gone : BOOLEAN]
BY DEF Inv, Typed, Books, Book, Paths, Settled, Held, PhotoInv, UploadedPhotoIsKept,
       HeldIsOnDisk

LEMMA PostKeeps ==
  ASSUME Inv, NEW e \in Entry, Post(e)
  PROVE  Inv'
<1>1. /\ book' = [book EXCEPT !.entries = @ \cup {e}]
      /\ UNCHANGED <<uploads, restored, photos, backups, inspection, up>>
  BY DEF Post
<1>2. book' \in Book /\ book'.receipts = book.receipts
  BY <1>1, Known DEF Book
<1>3. book' \in Books(Settled) /\ Paths(book') = Paths(book)
  BY <1>2, Known DEF Books, Numbered, Paths
<1>4. Settled' = Settled
  BY <1>1 DEF photos, Settled, Held
<1>5. Typed'
  BY <1>1, <1>3, <1>4, CarriedStays DEF Inv, Typed, photos, backups, inspection
<1>6. PhotoInv'
  BY <1>1, <1>2, <1>3 DEF Inv, PhotoInv, HeldIsOnDisk, Held, RowsApart, DeletesItsOwn,
     CreatesForNobody, UploadedPhotoIsKept, photos, inspection
<1>7. FileInv'
  BY <1>1, FilesStand DEF Inv, inspection
<1> QED
  BY <1>5, <1>6, <1>7 DEF Inv

LEMMA StorePhotoKeeps ==
  ASSUME Inv, NEW e \in Entry, StorePhoto(e)
  PROVE  Inv'
<1>1. PICK p \in Photo \ drawn :
        /\ uploads' = uploads \cup {p} /\ drawn' = drawn \cup {p}
        /\ storing' = storing \cup {[parent |-> e, path |-> p]}
  BY DEF StorePhoto
<1>2. UNCHANGED <<book, restored, deleting, backups, inspection, up>>
  BY DEF StorePhoto
<1>3. Held' = Held \cup {p}
  <2>1. [parent |-> e, path |-> p].path = p
    OBVIOUS
  <2> QED
    BY <1>1, <2>1 DEF Held
<1>4. Settled' = Settled
  BY <1>1, <1>3 DEF Settled
<1>5. Typed'
  <2>1. /\ uploads' \subseteq Photo /\ drawn' \subseteq Photo
        /\ storing' \subseteq [parent : Entry, path : Photo]
    BY <1>1 DEF Inv, Typed
  <2> QED
    BY <1>2, <1>4, <2>1, CarriedStays DEF Inv, Typed, backups, inspection
<1>6. HeldIsOnDisk'
  <2>1. Held \subseteq uploads \cap drawn
    BY DEF Inv, PhotoInv, HeldIsOnDisk
  <2>2. \A s \in storing : s.path # p
    BY <1>1, Known
  <2>3. \A s, u \in storing' : s.path = u.path => s = u
    BY <1>1, <2>2 DEF Inv, PhotoInv, HeldIsOnDisk
  <2> QED
    BY <1>1, <1>3, <2>1, <2>3 DEF HeldIsOnDisk
<1>7. PhotoInv'
  BY <1>1, <1>2, <1>6 DEF Inv, PhotoInv, RowsApart, DeletesItsOwn, CreatesForNobody,
     UploadedPhotoIsKept, inspection
<1>8. FileInv'
  BY <1>2, FilesStand DEF Inv, inspection
<1> QED
  BY <1>5, <1>7, <1>8 DEF Inv

\* An upload that ends gives its name to the settled ones.
LEMMA UploadEnds ==
  ASSUME Inv, NEW s \in storing, storing' = storing \ {s}, drawn' = drawn
  PROVE  /\ Held' = Held \ {s.path} /\ Settled' = Settled \cup {s.path}
         /\ \A u, v \in storing' : u.path = v.path => u = v
         /\ Settled' \subseteq Photo
<1>1. \A u \in storing : u.path = s.path => u = s
  BY DEF Inv, PhotoInv, HeldIsOnDisk
<1>2. Held' = Held \ {s.path}
  BY <1>1 DEF Held
<1>3. s.path \in Held /\ s.path \in drawn /\ Held \subseteq drawn
  BY Known DEF Inv, PhotoInv, HeldIsOnDisk
<1> QED
  BY <1>2, <1>3, Known DEF Settled, Inv, PhotoInv, HeldIsOnDisk

LEMMA CreateReceiptKeeps ==
  ASSUME Inv, NEW s \in storing, CreateReceipt(s)
  PROVE  Inv'
<1> DEFINE row == [id |-> NextId(book), parent |-> s.parent, path |-> s.path]
<1>1. /\ book' = [book EXCEPT !.receipts = @ \cup {row}] /\ storing' = storing \ {s}
      /\ UNCHANGED <<uploads, restored, deleting, drawn, backups, inspection, up>>
  BY DEF CreateReceipt
<1>2. /\ Held' = Held \ {s.path} /\ Settled' = Settled \cup {s.path}
      /\ \A u, v \in storing' : u.path = v.path => u = v
  BY <1>1, UploadEnds
<1>3. NextId(book) \in Nat /\ \A r \in book.receipts : r.id < NextId(book)
  BY Known, NextIdIsNew
<1>4. /\ row \in Receipt /\ row.id = NextId(book) /\ row.path = s.path
  BY <1>3, Known DEF Receipt
<1> HIDE DEF row
<1>5. book' \in Book /\ book'.receipts = book.receipts \cup {row}
  BY <1>1, <1>4, Known DEF Book
<1>6. book' \in Books(Settled')
  <2>1. Paths(book') \subseteq Settled'
    BY <1>2, <1>4, <1>5, Known DEF Paths
  <2>2. \A r, u \in book'.receipts : r.id = u.id => r = u
    <3>1. \A r, u \in book.receipts : r.id = u.id => r = u
      BY Known DEF Numbered
    <3>2. \A r \in book.receipts : r.id # row.id
      BY <1>3, <1>4, Known DEF Receipt
    <3> QED
      BY <1>5, <3>1, <3>2
  <2>3. \A r \in book'.receipts : r.id <= NextId(book)
    <3>1. \A r \in book.receipts : r.id \in Nat
      BY Known DEF Receipt
    <3> QED
      BY <1>3, <1>4, <1>5, <3>1
  <2> QED
    BY <1>3, <1>5, <2>1, <2>2, <2>3 DEF Books, Numbered
<1>7. Typed'
  BY <1>1, <1>2, <1>6, CarriedStays DEF Inv, Typed, backups, inspection
<1>8. row.path \notin Settled /\ row.path \in uploads
  BY <1>4, Known
<1>9. PhotoInv'
  <2>1. HeldIsOnDisk'
    BY <1>1, <1>2 DEF Inv, PhotoInv, HeldIsOnDisk
  <2>2. RowsApart'
    BY <1>1, <1>5, <1>8, Known DEF Inv, PhotoInv, RowsApart
  <2>3. DeletesItsOwn'
    BY <1>1, <1>5, <1>8, Known DEF Inv, PhotoInv, DeletesItsOwn
  <2>4. CreatesForNobody'
    <3>1. \A t \in Tab : tab[t].created \subseteq Settled
      BY DEF Inv, Typed, Requests
    <3>2. Paths(book') = Paths(book) \cup {row.path}
      BY <1>5 DEF Paths
    <3> QED
      BY <1>1, <1>8, <3>1, <3>2 DEF Inv, PhotoInv, CreatesForNobody, inspection
  <2>5. UploadedPhotoIsKept'
    BY <1>1, <1>5, <1>8, Known DEF UploadedPhotoIsKept
  <2> QED
    BY <2>1, <2>2, <2>3, <2>4, <2>5 DEF PhotoInv
<1>10. FileInv'
  BY <1>1, FilesStand DEF Inv, inspection
<1> QED
  BY <1>7, <1>9, <1>10 DEF Inv

LEMMA DropPhotoKeeps ==
  ASSUME Inv, NEW s \in storing, DropPhoto(s)
  PROVE  Inv'
<1>1. /\ uploads' = uploads \ {s.path} /\ storing' = storing \ {s}
      /\ UNCHANGED <<book, restored, deleting, drawn, backups, inspection, up>>
  BY DEF DropPhoto
<1>2. /\ Held' = Held \ {s.path} /\ Settled' = Settled \cup {s.path}
      /\ \A u, v \in storing' : u.path = v.path => u = v
  BY <1>1, UploadEnds
<1>3. book' \in Books(Settled')
  BY <1>1, <1>2, NamesGrow DEF Inv, Typed
<1>4. Typed'
  BY <1>1, <1>2, <1>3, CarriedStays DEF Inv, Typed, backups, inspection
<1>5. UploadedPhotoIsKept'
  BY <1>1, Known DEF UploadedPhotoIsKept
<1>6. PhotoInv'
  BY <1>1, <1>2, <1>5 DEF Inv, PhotoInv, HeldIsOnDisk, RowsApart, DeletesItsOwn,
     CreatesForNobody, inspection
<1>7. FileInv'
  BY <1>1, FilesStand DEF Inv, inspection
<1> QED
  BY <1>4, <1>6, <1>7 DEF Inv

LEMMA ResolveReceiptKeeps ==
  ASSUME Inv, NEW r \in book.receipts, ResolveReceipt(r)
  PROVE  Inv'
<1> DEFINE d == [id |-> r.id, path |-> r.path, gone |-> FALSE]
<1>1. /\ deleting' = deleting \cup {d}
      /\ UNCHANGED <<book, uploads, restored, storing, drawn, backups, inspection, up>>
  BY DEF ResolveReceipt
<1>2. d \in [id : Nat, path : Settled, gone : BOOLEAN] /\ d.path = r.path /\ d.id = r.id
      /\ ~d.gone
  BY Known DEF Receipt
<1> HIDE DEF d
<1>3. Settled' = Settled /\ Held' = Held
  BY <1>1 DEF Settled, Held
<1>4. Typed'
  BY <1>1, <1>2, <1>3, CarriedStays DEF Inv, Typed, backups, inspection
<1>5. DeletesItsOwn'
  BY <1>1, <1>2 DEF Inv, PhotoInv, DeletesItsOwn, RowsApart
<1>6. PhotoInv'
  BY <1>1, <1>3, <1>5 DEF Inv, PhotoInv, HeldIsOnDisk, RowsApart, CreatesForNobody,
     UploadedPhotoIsKept, inspection
<1>7. FileInv'
  BY <1>1, FilesStand DEF Inv, inspection
<1> QED
  BY <1>4, <1>6, <1>7 DEF Inv

LEMMA DeleteReceiptKeeps ==
  ASSUME Inv, NEW d \in deleting, DeleteReceipt(d)
  PROVE  Inv'
<1> DEFINE left == {r \in book.receipts : r.id # d.id}
           gone == [d EXCEPT !.gone = TRUE]
<1>1. /\ book' = [book EXCEPT !.receipts = left] /\ ~d.gone
      /\ deleting' \subseteq deleting \cup {gone}
      /\ UNCHANGED <<uploads, restored, storing, drawn, backups, inspection, up>>
  <2>1. book.receipts \ {r \in book.receipts : r.id = d.id} = left
    OBVIOUS
  <2> QED
    BY <2>1 DEF DeleteReceipt
<1>2. /\ gone \in [id : Nat, path : Settled, gone : BOOLEAN]
      /\ gone.id = d.id /\ gone.path = d.path /\ gone.gone
  BY Known
<1> HIDE DEF gone
<1>3. Settled' = Settled /\ Held' = Held
  BY <1>1 DEF Settled, Held
<1>4. book' \in Books(Settled')
  BY <1>1, <1>3, FewerRows DEF Inv, Typed
<1>5. book'.receipts = left
  BY <1>1, Known DEF Book
<1>6. Typed'
  BY <1>1, <1>2, <1>3, <1>4, CarriedStays DEF Inv, Typed, backups, inspection
<1>7. DeletesItsOwn'
  <2>1. ASSUME NEW e \in deleting', NEW r \in left, r.path = e.path
        PROVE  r.path \in restored \/ (~e.gone /\ r.id = e.id)
    <3>1. CASE e = gone
      BY <1>2, <2>1, <3>1 DEF Inv, PhotoInv, DeletesItsOwn
    <3>2. CASE e # gone
      BY <1>1, <2>1, <3>2 DEF Inv, PhotoInv, DeletesItsOwn
    <3> QED
      BY <3>1, <3>2
  <2> HIDE DEF left
  <2> QED
    BY <1>1, <1>5, <2>1 DEF DeletesItsOwn
<1>8. Paths(book') \subseteq Paths(book)
  BY <1>5 DEF Paths
<1>9. PhotoInv'
  BY <1>1, <1>3, <1>5, <1>7, <1>8 DEF Inv, PhotoInv, HeldIsOnDisk, RowsApart,
     CreatesForNobody, UploadedPhotoIsKept, inspection
<1>10. FileInv'
  BY <1>1, FilesStand DEF Inv, inspection
<1> QED
  BY <1>6, <1>9, <1>10 DEF Inv

LEMMA RemovePhotoKeeps ==
  ASSUME Inv, NEW d \in deleting, RemovePhoto(d)
  PROVE  Inv'
<1>1. /\ uploads' = uploads \ {d.path} /\ deleting' = deleting \ {d} /\ d.gone
      /\ UNCHANGED <<book, restored, storing, drawn, backups, inspection, up>>
  BY DEF RemovePhoto
<1>2. Settled' = Settled /\ Held' = Held
  BY <1>1 DEF Settled, Held
<1>3. Typed'
  BY <1>1, <1>2, CarriedStays DEF Inv, Typed, backups, inspection
<1>4. HeldIsOnDisk'
  <2>1. d.path \notin Held
    BY Known DEF Settled
  <2> QED
    BY <1>1, <1>2, <2>1 DEF Inv, PhotoInv, HeldIsOnDisk
<1>5. UploadedPhotoIsKept'
  BY <1>1 DEF Inv, PhotoInv, DeletesItsOwn, UploadedPhotoIsKept
<1>6. PhotoInv'
  BY <1>1, <1>4, <1>5 DEF Inv, PhotoInv, RowsApart, DeletesItsOwn, CreatesForNobody,
     inspection
<1>7. FileInv'
  BY <1>1, FilesStand DEF Inv, inspection
<1> QED
  BY <1>3, <1>6, <1>7 DEF Inv

LEMMA DownloadKeeps ==
  ASSUME Inv, Download
  PROVE  Inv'
<1>1. /\ zips' = zips \cup {Zip(book)}
      /\ UNCHANGED <<book, uploads, restored, dumps, photos, inspection, up>>
  BY DEF Download
<1>2. Zip(book) \in Backups(Settled)
  BY Known, ZipIsBackup DEF Inv, Typed
<1>3. Typed'
  BY <1>1, <1>2, NamesStand DEF Inv, Typed, inspection
<1>4. PhotoInv'
  BY <1>1, PhotosStand DEF Inv, inspection
<1>5. FileInv'
  BY <1>1, FilesStand DEF Inv, inspection
<1> QED
  BY <1>3, <1>4, <1>5 DEF Inv

-----------------------------------------------------------------------------
(* Inspecting a backup.                                                     *)

\* What the invariant says of one request.
LEMMA KnownTab ==
  ASSUME Inv, NEW t \in Tab
  PROVE  /\ tab[t] \in Requests(Settled) /\ Sound(tab[t], staged, InSlot, up)
         /\ tab[t].step # "idle" => /\ tab[t].file \in File
                                    /\ tab[t].zip \in Backups(Settled)
                                    /\ tab[t].zip.book \in Books(Settled)
         /\ tab[t].created \subseteq Settled
         /\ \A s \in Tab : s # t /\ tab[t].file # Nothing => tab[s].file # tab[t].file
<1>1. tab[t] \in Requests(Settled)
  BY DEF Inv, Typed
<1>2. Sound(tab[t], staged, InSlot, up)
  BY DEF Inv, FileInv, Carries
<1>3. \A s \in Tab : s # t /\ tab[t].file # Nothing => tab[s].file # tab[t].file
  BY DEF Inv, FileInv, FilesApart
<1> QED
  BY <1>1, <1>2, <1>3 DEF Requests, Sound, Backups

LEMMA RestingIsSound ==
  ASSUME NEW N, NEW files, NEW slotted, NEW on
  PROVE  /\ Resting \in Requests(N) /\ Sound(Resting, files, slotted, on)
         /\ Resting.created = {} /\ Resting.file = Nothing
BY DEF Resting, Requests, Sound, Serving, Confirming

LEMMA DumpIsBackup ==
  ASSUME Inv, NEW z \in zips \cup {dumps[i] : i \in DOMAIN dumps}
  PROVE  z \in Backups(Settled)
<1>1. dumps \in Seq(Backups(Settled)) /\ zips \subseteq Backups(Settled)
  BY DEF Inv, Typed
<1>2. \A i \in DOMAIN dumps : dumps[i] \in Backups(Settled)
  BY <1>1, ElementOfSeq, LenProperties
<1> QED
  BY <1>1, <1>2

LEMMA InspectKeeps ==
  ASSUME Inv, NEW t \in Tab, NEW z \in zips \cup {dumps[i] : i \in DOMAIN dumps},
         Inspect(t, z)
  PROVE  Inv'
<1>1. PICK f \in File \ (DOMAIN staged \cup InSlot \cup {tab[s].file : s \in Tab}) :
        /\ staged' = [g \in DOMAIN staged \cup {f} |-> IF g = f THEN z ELSE staged[g]]
        /\ tab' = [tab EXCEPT ![t] = [Resting EXCEPT !.step = "copied", !.file = f,
                                                      !.zip = z]]
  BY DEF Inspect
<1>2. /\ up /\ tab[t].step = "idle" /\ inspects' = inspects + 1 /\ inspects < MaxInspects
      /\ UNCHANGED <<book, uploads, restored, slot, photos, backups, up>>
  BY DEF Inspect
<1> DEFINE x == [Resting EXCEPT !.step = "copied", !.file = f, !.zip = z]
<1>3. z \in Backups(Settled)
  BY DumpIsBackup
<1>4. x \in Requests(Settled)
  BY <1>1, <1>3 DEF Resting, Requests, Serving
<1>5. x.step = "copied" /\ x.file = f /\ x.zip = z /\ x.created = {}
  BY DEF Resting
<1>6. DOMAIN staged' = DOMAIN staged \cup {f} /\ staged'[f] = z
      /\ \A g \in DOMAIN staged : staged'[g] = staged[g]
  BY <1>1
<1>7. InSlot' = InSlot /\ f \notin InSlot /\ f \in File /\ f # Nothing
  BY <1>1, <1>2, NothingIsNoFile DEF InSlot
<1>8. z # Nothing
  BY <1>3, NothingIsNoBook DEF Backups
<1> HIDE DEF x
<1>9. Sound(x, staged', InSlot', up')
  BY <1>5, <1>6, <1>7, <1>8, <1>2 DEF Sound, Confirming
<1>10. \A s \in Tab : tab[s].file # f
  BY <1>1
<1>11. tab' \in [Tab -> Requests(Settled)] /\ tab'[t] = x
       /\ \A s \in Tab : s # t => tab'[s] = tab[s]
  BY <1>1, <1>4 DEF Inv, Typed, x
<1>12. FilesApart'
  BY <1>5, <1>10, <1>11 DEF Inv, FileInv, FilesApart
<1>13. Carries'
  <2>1. ASSUME NEW s \in Tab, s # t
        PROVE  Sound(tab'[s], staged', InSlot', up')
    BY <1>2, <1>6, <1>7, <1>11, <2>1, KnownTab DEF Sound
  <2> QED
    BY <1>9, <1>11, <2>1 DEF Carries
<1>14. SlotShowsItsTab'
  BY <1>2, <1>5, <1>7, <1>11 DEF Inv, FileInv, SlotShowsItsTab, InSlot
<1>15. FileInv'
  BY <1>12, <1>13, <1>14 DEF FileInv
<1>16. PhotoInv'
  <2>1. \A s \in Tab : tab'[s].created \subseteq tab[s].created
    BY <1>5, <1>11
  <2> QED
    BY <1>2, <2>1, PhotosStand DEF Inv
<1>17. Typed'
  <2>1. inspects' \in 0..MaxInspects
    BY <1>2, BoundsAreNatural DEF Inv, Typed
  <2>2. DOMAIN staged' \subseteq File /\ \A g \in DOMAIN staged' : staged'[g] \in Backups(Settled)
    BY <1>3, <1>6, <1>7 DEF Inv, Typed
  <2> QED
    BY <1>2, <1>11, <2>1, <2>2, NamesStand DEF Inv, Typed, backups
<1> QED
  BY <1>15, <1>16, <1>17 DEF Inv

\* Files removed leave the others as they were.
LEMMA WithoutFiles ==
  ASSUME NEW gone, staged' = Without(staged, gone)
  PROVE  /\ DOMAIN staged' = DOMAIN staged \ gone /\ DOMAIN staged' \subseteq DOMAIN staged
         /\ \A f \in DOMAIN staged' : staged'[f] = staged[f]
BY DEF Without

\* A request steps to x: what it needs to know of the files and of the slot.
LEMMA RequestSteps ==
  ASSUME Inv, NEW t \in Tab, NEW x \in Requests(Settled), tab' = [tab EXCEPT ![t] = x],
         x.file = tab[t].file \/ x.file = Nothing,
         Sound(x, staged', InSlot', up),
         UNCHANGED <<storing, drawn, zips, inspects, up>>,
         DOMAIN staged' \subseteq DOMAIN staged,
         \A f \in DOMAIN staged' : staged'[f] = staged[f],
         slot' \in Slots(Settled), SlotShowsItsTab',
         dumps' \in Seq(Backups(Settled)), Len(dumps') <= Quota,
         \A s \in Tab : s # t /\ tab[s].step = "copied" =>
           tab[s].file \in DOMAIN staged' /\ tab[s].file \notin InSlot'
  PROVE  /\ FileInv' /\ Settled' = Settled
         /\ tab' \in [Tab -> Requests(Settled)] /\ tab'[t] = x
         /\ \A s \in Tab : s # t => tab'[s] = tab[s]
         /\ book' \in Books(Settled) /\ uploads' \subseteq Photo /\ restored' \subseteq Photo
            /\ deleting' = deleting => Typed'
<1>1. tab' \in [Tab -> Requests(Settled)] /\ FilesApart' /\ Carries'
  <2>1. \A s \in Tab : s # t /\ tab[s].step = "copied" =>
          /\ tab[s].file \in DOMAIN staged' /\ staged'[tab[s].file] = staged[tab[s].file]
          /\ tab[s].file \notin InSlot'
    OBVIOUS
  <2>2. Sound(x, staged', InSlot', up')
    OBVIOUS
  <2> QED
    BY <2>1, <2>2, TabsAfter DEF Inv
<1>2. FileInv'
  BY <1>1 DEF FileInv
<1>3. Settled' = Settled
  BY DEF Settled, Held
<1>4. tab'[t] = x /\ \A s \in Tab : s # t => tab'[s] = tab[s]
  BY DEF Inv, Typed
<1>5. DOMAIN staged' \subseteq File /\ \A f \in DOMAIN staged' : staged'[f] \in Backups(Settled)
  BY DEF Inv, Typed
<1>6. ASSUME book' \in Books(Settled), uploads' \subseteq Photo, restored' \subseteq Photo,
             deleting' = deleting
      PROVE  Typed'
  BY <1>1, <1>3, <1>5, <1>6 DEF Inv, Typed
<1> QED
  BY <1>1, <1>2, <1>3, <1>4, <1>6

\* Such a step that leaves the book and the photos as they are.
LEMMA QuietSteps ==
  ASSUME Inv, NEW t \in Tab, NEW x \in Requests(Settled), tab' = [tab EXCEPT ![t] = x],
         x.file = tab[t].file \/ x.file = Nothing, x.created \subseteq tab[t].created,
         Sound(x, staged', InSlot', up),
         UNCHANGED <<book, uploads, restored, photos, zips, inspects, up>>,
         DOMAIN staged' \subseteq DOMAIN staged,
         \A f \in DOMAIN staged' : staged'[f] = staged[f],
         slot' \in Slots(Settled), SlotShowsItsTab',
         dumps' \in Seq(Backups(Settled)), Len(dumps') <= Quota,
         \A s \in Tab : s # t /\ tab[s].step = "copied" =>
           tab[s].file \in DOMAIN staged' /\ tab[s].file \notin InSlot'
  PROVE  Inv'
<1>1. UNCHANGED <<storing, drawn, deleting>>
  BY DEF photos
<1>2. book' \in Books(Settled) /\ uploads' \subseteq Photo /\ restored' \subseteq Photo
  BY DEF Inv, Typed
<1>3. /\ FileInv' /\ Typed' /\ tab'[t] = x
      /\ \A s \in Tab : s # t => tab'[s] = tab[s]
  BY <1>1, <1>2, RequestSteps
<1>4. PhotoInv'
  <2>1. \A s \in Tab : tab'[s].created \subseteq tab[s].created
    BY <1>3
  <2> QED
    BY <2>1, PhotosStand DEF Inv
<1> QED
  BY <1>3, <1>4 DEF Inv

\* A slot that still shows what it showed, or nothing.
LEMMA SlotStands ==
  ASSUME Inv, slot' \in {slot, Nothing}, NEW t \in Tab, NEW x,
         tab' = [tab EXCEPT ![t] = x],
         (x.zip = tab[t].zip /\ x.file = tab[t].file) \/ x.file = Nothing
  PROVE  /\ slot' \in Slots(Settled) /\ SlotShowsItsTab' /\ InSlot' \subseteq InSlot
         /\ dumps \in Seq(Backups(Settled)) /\ Len(dumps) <= Quota
<1>1. tab \in [Tab -> Requests(Settled)] /\ slot \in Slots(Settled)
      /\ dumps \in Seq(Backups(Settled)) /\ Len(dumps) <= Quota
  BY DEF Inv, Typed
<1>2. tab'[t] = x /\ \A s \in Tab : s # t => tab'[s] = tab[s]
  BY <1>1
<1>3. slot # Nothing => slot.token # Nothing
  BY <1>1, NothingIsNoFile DEF Slots
<1>4. SlotShowsItsTab'
  <2>1. SUFFICES ASSUME slot' # Nothing, NEW s \in Tab, tab'[s].file = slot.token
                 PROVE  slot.doc = tab'[s].zip.book
    BY DEF SlotShowsItsTab
  <2>2. tab'[s].file = tab[s].file /\ tab'[s].zip = tab[s].zip
    BY <1>2, <1>3, <2>1
  <2> QED
    BY <2>1, <2>2 DEF Inv, FileInv, SlotShowsItsTab
<1> QED
  BY <1>1, <1>4 DEF Slots, InSlot

LEMMA StageKeeps ==
  ASSUME Inv, NEW t \in Tab, Stage(t)
  PROVE  Inv'
<1> DEFINE x == [tab[t] EXCEPT !.step = "shown"]
<1>1. /\ tab[t].step = "copied" /\ tab' = [tab EXCEPT ![t] = x]
      /\ slot' = [token |-> tab[t].file, doc |-> staged[tab[t].file].book]
      /\ staged' = Without(staged, InSlot)
      /\ UNCHANGED <<book, uploads, restored, inspects, photos, backups, up>>
  BY DEF Stage, ParseUpload, Replaced
<1>2. /\ tab[t] \in Requests(Settled) /\ Sound(tab[t], staged, InSlot, up)
      /\ tab[t].file \in File /\ tab[t].zip.book \in Books(Settled)
      /\ \A s \in Tab : s # t => tab[s].file # tab[t].file
  BY <1>1, KnownTab, NothingIsNoFile
<1>3. /\ x \in Requests(Settled) /\ x.step = "shown" /\ x.file = tab[t].file
      /\ x.zip = tab[t].zip /\ x.created = tab[t].created
  BY <1>2 DEF Requests
<1> HIDE DEF x
<1>4. Sound(x, staged', InSlot', up)
  BY <1>1, <1>2, <1>3 DEF Sound, Confirming, Serving
<1>5. slot' = [token |-> tab[t].file, doc |-> tab[t].zip.book]
  BY <1>1, <1>2 DEF Sound
<1>6. slot' \in Slots(Settled)
  BY <1>2, <1>5 DEF Slots
<1>7. InSlot' \subseteq {tab[t].file}
  BY <1>5 DEF InSlot
<1>8. \A s \in Tab : s # t /\ tab[s].step = "copied" =>
        tab[s].file \in DOMAIN staged' /\ tab[s].file \notin InSlot'
  <2>1. DOMAIN staged' = DOMAIN staged \ InSlot
    BY <1>1, WithoutFiles
  <2>2. \A s \in Tab : Sound(tab[s], staged, InSlot, up)
    BY KnownTab
  <2> QED
    BY <1>2, <1>7, <2>1, <2>2 DEF Sound
<1>9. SlotShowsItsTab'
  <2>1. tab'[t] = x /\ \A s \in Tab : s # t => tab'[s] = tab[s]
    BY <1>1 DEF Inv, Typed
  <2> QED
    BY <1>2, <1>3, <1>5, <2>1 DEF SlotShowsItsTab
<1>10. DOMAIN staged' \subseteq DOMAIN staged /\ \A f \in DOMAIN staged' : staged'[f] = staged[f]
  BY <1>1, WithoutFiles
<1>11. dumps' \in Seq(Backups(Settled)) /\ Len(dumps') <= Quota
  BY <1>1 DEF Inv, Typed, backups
<1> QED
  BY <1>1, <1>3, <1>4, <1>6, <1>8, <1>9, <1>10, <1>11, QuietSteps DEF backups

LEMMA ExpireKeeps ==
  ASSUME Inv, Expire
  PROVE  Inv'
<1>1. /\ slot' = Nothing /\ staged' = Without(staged, InSlot)
      /\ UNCHANGED <<book, uploads, restored, tab, inspects, photos, backups, up>>
  BY DEF Expire
<1>2. DOMAIN staged' = DOMAIN staged \ InSlot /\ InSlot' = {}
      /\ \A f \in DOMAIN staged' : staged'[f] = staged[f]
  BY <1>1, WithoutFiles DEF InSlot
<1>3. FileInv'
  <2>1. Carries'
    BY <1>1, <1>2 DEF Inv, FileInv, Carries, Sound
  <2> QED
    BY <1>1, <2>1 DEF Inv, FileInv, FilesApart, SlotShowsItsTab
<1>4. PhotoInv'
  BY <1>1, PhotosStand DEF Inv
<1>5. Typed'
  BY <1>1, <1>2, NamesStand DEF Inv, Typed, Slots, backups
<1> QED
  BY <1>3, <1>4, <1>5 DEF Inv

-----------------------------------------------------------------------------
(* Confirming it.                                                           *)

LEMMA TakeKeeps ==
  ASSUME Inv, NEW t \in Tab, Take(t)
  PROVE  Inv'
<1>1. /\ tab[t].step = "shown" /\ up
      /\ UNCHANGED <<book, uploads, restored, staged, inspects, photos, backups, up>>
  BY DEF Take
<1>2. /\ tab[t] \in Requests(Settled) /\ Sound(tab[t], staged, InSlot, up)
      /\ tab[t].zip \in Backups(Settled)
  BY <1>1, KnownTab
<1>3. CASE Matches(t)
  <2> DEFINE x == [tab[t] EXCEPT !.step = "taken", !.file = slot.token, !.doc = slot.doc]
  <2>1. /\ slot # Nothing /\ slot.token = tab[t].file /\ slot' = Nothing
        /\ tab' = [tab EXCEPT ![t] = x]
    BY <1>3 DEF Take, Matches
  <2>2. slot.doc \in Books(Settled) /\ slot.token \in File /\ slot.doc = tab[t].zip.book
    BY <2>1 DEF Inv, Typed, Slots, FileInv, SlotShowsItsTab
  <2>3. /\ x \in Requests(Settled) /\ x.step = "taken" /\ x.file = tab[t].file
        /\ x.doc = slot.doc /\ x.zip = tab[t].zip /\ x.created = tab[t].created
    BY <1>2, <2>1, <2>2 DEF Requests, Serving
  <2> HIDE DEF x
  <2>4. Sound(x, staged', InSlot', up)
    BY <1>1, <1>2, <2>2, <2>3 DEF Sound
  <2>5. /\ slot' \in Slots(Settled) /\ SlotShowsItsTab' /\ InSlot' \subseteq InSlot
        /\ dumps' \in Seq(Backups(Settled)) /\ Len(dumps') <= Quota
    BY <1>1, <2>1, <2>3, SlotStands DEF backups
  <2>6. \A s \in Tab : s # t /\ tab[s].step = "copied" =>
          tab[s].file \in DOMAIN staged' /\ tab[s].file \notin InSlot'
    BY <1>1, <2>5, KnownTab DEF Sound
  <2> QED
    BY <1>1, <2>1, <2>3, <2>4, <2>5, <2>6, QuietSteps DEF backups
<1>4. CASE ~Matches(t)
  <2>1. tab' = [tab EXCEPT ![t] = Resting] /\ slot' = slot
    BY <1>4 DEF Take
  <2>2. /\ slot' \in Slots(Settled) /\ SlotShowsItsTab' /\ InSlot' \subseteq InSlot
        /\ dumps' \in Seq(Backups(Settled)) /\ Len(dumps') <= Quota
    BY <1>1, <2>1, RestingIsSound, SlotStands DEF backups
  <2>3. \A s \in Tab : s # t /\ tab[s].step = "copied" =>
          tab[s].file \in DOMAIN staged' /\ tab[s].file \notin InSlot'
    BY <1>1, <2>2, KnownTab DEF Sound
  <2>4. Resting \in Requests(Settled) /\ Sound(Resting, staged', InSlot', up)
        /\ Resting.created \subseteq tab[t].created /\ Resting.file = Nothing
    BY RestingIsSound
  <2> QED
    BY <1>1, <2>1, <2>2, <2>3, <2>4, QuietSteps DEF backups
<1> QED
  BY <1>3, <1>4

\* A request steps to x while the slot and the files stand.
LEMMA InnerSteps ==
  ASSUME Inv, NEW t \in Tab, NEW x \in Requests(Settled), tab' = [tab EXCEPT ![t] = x],
         (x.zip = tab[t].zip /\ x.file = tab[t].file) \/ x.file = Nothing,
         x.created \subseteq tab[t].created, Sound(x, staged, InSlot, up),
         UNCHANGED <<book, uploads, restored, photos, zips, inspects, up, staged, slot>>,
         dumps' \in Seq(Backups(Settled)), Len(dumps') <= Quota
  PROVE  Inv'
<1>1. slot' \in Slots(Settled) /\ SlotShowsItsTab'
  BY SlotStands
<1>2. InSlot' = InSlot
  BY DEF InSlot
<1>3. \A s \in Tab : s # t /\ tab[s].step = "copied" =>
        tab[s].file \in DOMAIN staged' /\ tab[s].file \notin InSlot'
  BY <1>2, KnownTab DEF Sound
<1>4. Sound(x, staged', InSlot', up)
  BY <1>2
<1> QED
  BY <1>1, <1>3, <1>4, QuietSteps

LEMMA AbandonKeeps ==
  ASSUME Inv, NEW t \in Tab, Abandon(t)
  PROVE  Inv'
<1>1. dumps \in Seq(Backups(Settled)) /\ Len(dumps) <= Quota
  BY DEF Inv, Typed
<1>2. Resting.created \subseteq tab[t].created
  BY RestingIsSound
<1> QED
  BY <1>1, <1>2, RestingIsSound, InnerSteps DEF Abandon, backups

LEMMA PlanNetKeeps ==
  ASSUME Inv, NEW t \in Tab, PlanNet(t)
  PROVE  Inv'
<1> DEFINE x == [tab[t] EXCEPT !.step = "planned", !.plan = book]
<1>1. /\ tab[t].step = "taken" /\ tab' = [tab EXCEPT ![t] = x]
      /\ UNCHANGED <<book, uploads, restored, staged, slot, inspects, photos, backups, up>>
  BY DEF PlanNet
<1>2. tab[t] \in Requests(Settled) /\ Sound(tab[t], staged, InSlot, up)
  BY KnownTab
<1>3. book \in Books(Settled) /\ book # Nothing
  BY NothingIsNoBook DEF Inv, Typed, Books
<1>4. /\ x \in Requests(Settled) /\ x.step = "planned" /\ x.file = tab[t].file
      /\ x.doc = tab[t].doc /\ x.zip = tab[t].zip /\ x.plan = book
      /\ x.created = tab[t].created
  BY <1>2, <1>3 DEF Requests, Serving
<1> HIDE DEF x
<1>5. Sound(x, staged, InSlot, up)
  BY <1>1, <1>2, <1>3, <1>4 DEF Sound, Confirming, Serving
<1>6. dumps \in Seq(Backups(Settled)) /\ Len(dumps) <= Quota
  BY DEF Inv, Typed
<1> QED
  BY <1>1, <1>4, <1>5, <1>6, InnerSteps DEF backups

\* Retention keeps backups, no more than the quota.
LEMMA RetainedFits ==
  ASSUME NEW S, NEW ds \in Seq(S)
  PROVE  Retained(ds) \in Seq(S) /\ Len(Retained(ds)) <= Quota
<1> DEFINE n == Min({Quota, Len(ds)})
<1>1. Len(ds) \in Nat /\ Quota \in Nat
  BY QuotaIsPositive, LenProperties
<1>2. \E m \in {Quota, Len(ds)} : \A i \in {Quota, Len(ds)} : m <= i
  BY <1>1
<1>3. n \in {Quota, Len(ds)} /\ n <= Quota /\ n <= Len(ds)
  BY <1>2 DEF Min
<1>4. n \in Nat
  BY <1>1, <1>3
<1> HIDE DEF n
<1>5. Retained(ds) = SubSeq(ds, 1 + Len(ds) - n, Len(ds))
  BY DEF Retained, n
<1>6. /\ SubSeq(ds, 1 + Len(ds) - n, Len(ds)) \in Seq(S)
      /\ Len(SubSeq(ds, 1 + Len(ds) - n, Len(ds))) = n
  BY <1>1, <1>3, <1>4, SubSeqProperties
<1> QED
  BY <1>3, <1>5, <1>6

LEMMA WriteNetKeeps ==
  ASSUME Inv, NEW t \in Tab, WriteNet(t)
  PROVE  Inv'
<1> DEFINE x == [tab[t] EXCEPT !.step = "kept"]
<1>1. /\ tab[t].step = "planned" /\ tab' = [tab EXCEPT ![t] = x]
      /\ dumps' = Retained(Append(dumps, Zip(tab[t].plan)))
      /\ UNCHANGED <<book, uploads, restored, zips, staged, slot, inspects, photos, up>>
  BY DEF WriteNet
<1>2. tab[t] \in Requests(Settled) /\ Sound(tab[t], staged, InSlot, up)
  BY KnownTab
<1>3. tab[t].plan \in Books(Settled)
  BY <1>1, <1>2 DEF Requests, Sound
<1>4. Append(dumps, Zip(tab[t].plan)) \in Seq(Backups(Settled))
  <2>1. Zip(tab[t].plan) \in Backups(Settled)
    BY <1>3, Known, ZipIsBackup
  <2> QED
    BY <2>1, AppendProperties DEF Inv, Typed
<1>5. dumps' \in Seq(Backups(Settled)) /\ Len(dumps') <= Quota
  BY <1>1, <1>4, RetainedFits
<1>6. /\ x \in Requests(Settled) /\ x.step = "kept" /\ x.file = tab[t].file
      /\ x.doc = tab[t].doc /\ x.zip = tab[t].zip /\ x.created = tab[t].created
  BY <1>2 DEF Requests, Serving
<1> HIDE DEF x
<1>7. Sound(x, staged, InSlot, up)
  BY <1>1, <1>2, <1>6 DEF Sound, Confirming, Serving
<1> QED
  BY <1>1, <1>5, <1>6, <1>7, InnerSteps

\* A request that owns its staging file: what removing that file, or nothing,
\* leaves to the others.
LEMMA OwnFileOnly ==
  ASSUME Inv, NEW t \in Tab, tab[t].step # "idle", slot' = slot,
         staged' = Without(staged, {tab[t].file}) \/ staged' = staged
  PROVE  /\ DOMAIN staged' \subseteq DOMAIN staged
         /\ \A f \in DOMAIN staged' : staged'[f] = staged[f]
         /\ InSlot' = InSlot
         /\ \A s \in Tab : s # t /\ tab[s].step = "copied" =>
              tab[s].file \in DOMAIN staged' /\ tab[s].file \notin InSlot'
<1>1. /\ DOMAIN staged' \subseteq DOMAIN staged
      /\ DOMAIN staged \ {tab[t].file} \subseteq DOMAIN staged'
      /\ \A f \in DOMAIN staged' : staged'[f] = staged[f]
  BY WithoutFiles
<1>2. InSlot' = InSlot
  BY DEF InSlot
<1>3. \A s \in Tab : s # t => tab[s].file # tab[t].file
  BY KnownTab, NothingIsNoFile
<1>4. \A s \in Tab : Sound(tab[s], staged, InSlot, up)
  BY KnownTab
<1> QED
  BY <1>1, <1>2, <1>3, <1>4 DEF Sound

LEMMA ExtractKeeps ==
  ASSUME Inv, NEW t \in Tab, Extract(t)
  PROVE  Inv'
<1> DEFINE images == staged[tab[t].file].images
           x == [tab[t] EXCEPT !.step = "extracted", !.created = images \ uploads]
<1>1. /\ tab[t].step = "kept" /\ tab[t].file \in DOMAIN staged
      /\ tab' = [tab EXCEPT ![t] = x] /\ uploads' = uploads \cup images
      /\ UNCHANGED <<book, restored, staged, slot, inspects, photos, backups, up>>
  BY DEF Extract, Creates
<1>2. tab[t] \in Requests(Settled) /\ Sound(tab[t], staged, InSlot, up)
  BY KnownTab
<1>3. images \subseteq Settled
  BY <1>1 DEF Inv, Typed, Backups
<1>4. /\ x \in Requests(Settled) /\ x.step = "extracted" /\ x.file = tab[t].file
      /\ x.doc = tab[t].doc /\ x.zip = tab[t].zip /\ x.created = images \ uploads
  BY <1>2, <1>3 DEF Requests, Serving
<1> HIDE DEF x, images
<1>5. Sound(x, staged, InSlot, up)
  BY <1>1, <1>2, <1>4 DEF Sound, Confirming, Serving
<1>6. /\ slot' \in Slots(Settled) /\ SlotShowsItsTab'
      /\ dumps' \in Seq(Backups(Settled)) /\ Len(dumps') <= Quota
  BY <1>1, <1>4, SlotStands DEF backups
<1>7. /\ InSlot' = InSlot
      /\ \A s \in Tab : s # t /\ tab[s].step = "copied" =>
           tab[s].file \in DOMAIN staged' /\ tab[s].file \notin InSlot'
  BY <1>1, OwnFileOnly
<1>8. book' \in Books(Settled) /\ uploads' \subseteq Photo /\ restored' \subseteq Photo
  BY <1>1, <1>3, Known DEF Inv, Typed
<1>9. /\ FileInv' /\ Typed' /\ tab'[t] = x
      /\ \A s \in Tab : s # t => tab'[s] = tab[s]
  <2>1. Sound(x, staged', InSlot', up)
    BY <1>1, <1>5, <1>7
  <2> QED
    BY <1>1, <1>4, <1>6, <1>7, <1>8, <2>1, RequestSteps DEF photos, backups
<1>10. CreatesForNobody'
  <2>1. x.created \cap Paths(book) \subseteq restored
    BY <1>4, Known DEF Paths
  <2> QED
    BY <1>1, <1>9, <2>1 DEF Inv, PhotoInv, CreatesForNobody
<1>11. PhotoInv'
  BY <1>1, <1>10 DEF Inv, PhotoInv, HeldIsOnDisk, Held, RowsApart, DeletesItsOwn,
     UploadedPhotoIsKept, photos
<1> QED
  BY <1>9, <1>11 DEF Inv

LEMMA CommitKeeps ==
  ASSUME Inv, NEW t \in Tab, Commit(t)
  PROVE  Inv'
<1>1. /\ tab[t].step = "extracted" /\ book' = InsertDocument(NoRows, tab[t].doc)
      /\ restored' = Paths(book') /\ staged' = Without(staged, {tab[t].file})
      /\ tab' = [tab EXCEPT ![t] = Resting]
      /\ UNCHANGED <<uploads, slot, inspects, photos, backups, up>>
  BY DEF Commit
<1>2. tab[t].doc \in Books(Settled)
  BY <1>1, KnownTab DEF Sound, Confirming, Serving
<1>3. book' \in Books(Settled)
  BY <1>1, <1>2, InsertedIsDocument DEF Books
<1>4. restored' \subseteq Photo
  BY <1>1, <1>3, Known DEF Books
<1>5. /\ slot' \in Slots(Settled) /\ SlotShowsItsTab'
      /\ dumps' \in Seq(Backups(Settled)) /\ Len(dumps') <= Quota
  BY <1>1, RestingIsSound, SlotStands DEF backups
<1>6. /\ DOMAIN staged' \subseteq DOMAIN staged
      /\ \A f \in DOMAIN staged' : staged'[f] = staged[f]
      /\ \A s \in Tab : s # t /\ tab[s].step = "copied" =>
           tab[s].file \in DOMAIN staged' /\ tab[s].file \notin InSlot'
  BY <1>1, OwnFileOnly
<1>7. Resting \in Requests(Settled) /\ Sound(Resting, staged', InSlot', up)
      /\ Resting.file = Nothing
  BY RestingIsSound
<1>8. FileInv' /\ Typed'
  BY <1>1, <1>3, <1>4, <1>5, <1>6, <1>7, RequestSteps DEF Inv, Typed, photos, backups
<1>9. \A r \in book'.receipts : r.path \in restored'
  BY <1>1 DEF Paths
<1>10. PhotoInv'
  BY <1>1, <1>9 DEF Inv, PhotoInv, HeldIsOnDisk, Held, RowsApart, DeletesItsOwn,
     CreatesForNobody, UploadedPhotoIsKept, photos
<1> QED
  BY <1>8, <1>10 DEF Inv

LEMMA RefuseKeeps ==
  ASSUME Inv, NEW t \in Tab, Refuse(t)
  PROVE  Inv'
<1>1. /\ tab[t].step \in Serving /\ tab[t].step # "idle"
      /\ uploads' = uploads \ tab[t].created /\ staged' = Without(staged, {tab[t].file})
      /\ tab' = [tab EXCEPT ![t] = Resting]
      /\ UNCHANGED <<book, restored, slot, inspects, photos, backups, up>>
  BY DEF Refuse, Serving
<1>2. /\ slot' \in Slots(Settled) /\ SlotShowsItsTab'
      /\ dumps' \in Seq(Backups(Settled)) /\ Len(dumps') <= Quota
  BY <1>1, RestingIsSound, SlotStands DEF backups
<1>3. /\ DOMAIN staged' \subseteq DOMAIN staged
      /\ \A f \in DOMAIN staged' : staged'[f] = staged[f]
      /\ \A s \in Tab : s # t /\ tab[s].step = "copied" =>
           tab[s].file \in DOMAIN staged' /\ tab[s].file \notin InSlot'
  BY <1>1, OwnFileOnly
<1>4. Resting \in Requests(Settled) /\ Sound(Resting, staged', InSlot', up)
      /\ Resting.created = {} /\ Resting.file = Nothing
  BY RestingIsSound
<1>5. book' \in Books(Settled) /\ uploads' \subseteq Photo /\ restored' \subseteq Photo
  BY <1>1 DEF Inv, Typed
<1>6. /\ FileInv' /\ Typed' /\ tab'[t] = Resting
      /\ \A s \in Tab : s # t => tab'[s] = tab[s]
  BY <1>1, <1>2, <1>3, <1>4, <1>5, RequestSteps DEF photos, backups
<1>7. HeldIsOnDisk'
  <2>1. tab[t].created \cap Held = {}
    BY KnownTab DEF Settled
  <2> QED
    BY <1>1, <2>1 DEF Inv, PhotoInv, HeldIsOnDisk, Held, photos
<1>8. UploadedPhotoIsKept'
  <2>1. tab[t].created \cap Paths(book) \subseteq restored
    BY DEF Inv, PhotoInv, CreatesForNobody
  <2> QED
    BY <1>1, <2>1, Known DEF UploadedPhotoIsKept, Paths
<1>9. PhotoInv'
  BY <1>1, <1>4, <1>6, <1>7, <1>8 DEF Inv, PhotoInv, RowsApart, DeletesItsOwn,
     CreatesForNobody, photos
<1> QED
  BY <1>6, <1>9 DEF Inv

-----------------------------------------------------------------------------
(* The process.                                                             *)

LEMMA CrashKeeps ==
  ASSUME Inv, Crash
  PROVE  Inv'
<1>1. /\ ~up' /\ up' \in BOOLEAN /\ slot' = Nothing /\ storing' = {} /\ deleting' = {}
      /\ tab' = [t \in Tab |-> IF tab[t].step \in Serving THEN Resting ELSE tab[t]]
      /\ UNCHANGED <<book, uploads, restored, drawn, staged, inspects, backups>>
  BY DEF Crash
<1>2. Held' = {} /\ Settled' = drawn /\ Settled \subseteq drawn /\ InSlot' = {}
  BY <1>1 DEF Held, Settled, InSlot
<1>3. /\ Books(Settled) \subseteq Books(Settled') /\ Backups(Settled) \subseteq Backups(Settled')
      /\ Requests(Settled) \subseteq Requests(Settled')
  BY <1>2, NamesGrow
<1>4. tab' \in [Tab -> Requests(Settled')]
  BY <1>1, <1>3, RestingIsSound, KnownTab
<1>5. dumps \in Seq(Backups(Settled')) /\ Len(dumps) <= Quota
  <2>1. dumps \in Seq(Backups(Settled)) /\ Len(dumps) <= Quota
    BY DEF Inv, Typed
  <2>2. \A i \in 1..Len(dumps) : dumps[i] \in Backups(Settled')
    BY <1>3, <2>1, ElementOfSeq
  <2> QED
    BY <2>1, <2>2, SeqDef, LenProperties
<1>6. Typed'
  BY <1>1, <1>2, <1>3, <1>4, <1>5 DEF Inv, Typed, Slots, backups
<1>7. PhotoInv'
  BY <1>1, <1>2, RestingIsSound DEF Inv, PhotoInv, HeldIsOnDisk, RowsApart, DeletesItsOwn,
     CreatesForNobody, UploadedPhotoIsKept
<1>8. FilesApart'
  BY <1>1, RestingIsSound DEF Inv, FileInv, FilesApart
<1>9. Carries'
  <2>1. ASSUME NEW t \in Tab
        PROVE  Sound(tab'[t], staged', InSlot', up')
    <3>1. CASE tab[t].step \in Serving
      BY <1>1, <3>1, RestingIsSound
    <3>2. CASE tab[t].step \notin Serving
      BY <1>1, <3>2, KnownTab DEF Sound, Confirming, Serving
    <3> QED
      BY <3>1, <3>2
  <2> QED
    BY <2>1 DEF Carries
<1> QED
  BY <1>1, <1>6, <1>7, <1>8, <1>9 DEF Inv, FileInv, SlotShowsItsTab

LEMMA BootKeeps ==
  ASSUME Inv, Boot
  PROVE  Inv'
<1>1. /\ ~up /\ up' /\ up' \in BOOLEAN /\ staged' = Without(staged, StaleTemps)
      /\ UNCHANGED <<book, uploads, restored, slot, tab, inspects, photos, backups>>
  BY DEF Boot
<1>2. /\ DOMAIN staged' \subseteq DOMAIN staged
      /\ \A f \in DOMAIN staged' : staged'[f] = staged[f]
  BY <1>1, WithoutFiles
<1>3. Typed'
  BY <1>1, <1>2, NamesStand DEF Inv, Typed, backups
<1>4. PhotoInv'
  BY <1>1, PhotosStand DEF Inv
<1>5. Carries'
  BY <1>1, KnownTab DEF Carries, Sound, Serving
<1> QED
  BY <1>1, <1>3, <1>4, <1>5 DEF Inv, FileInv, FilesApart, SlotShowsItsTab

-----------------------------------------------------------------------------
(* The specification.                                                       *)

LEMMA InvInit ==
  ASSUME Init
  PROVE  Inv
<1>1. NoRows \in Books(Settled) /\ NoRows.receipts = {}
  BY DEF NoRows, Books, Book, Paths, Numbered
<1>2. Settled = {} /\ Held = {}
  BY DEF Init, Settled, Held
<1>3. zips \subseteq Backups(Settled)
  BY <1>1, <1>2, ZipIsBackup DEF Init
<1>4. dumps \in Seq(Backups(Settled)) /\ Len(dumps) <= Quota
  BY QuotaIsPositive DEF Init
<1>5. tab \in [Tab -> Requests(Settled)] /\ \A t \in Tab : tab[t] = Resting
  BY RestingIsSound DEF Init
<1>6. DOMAIN staged = {}
  BY DEF Init
<1>7. Typed
  BY <1>1, <1>3, <1>4, <1>5, <1>6, BoundsAreNatural DEF Init, Typed, Slots
<1>8. PhotoInv
  BY <1>1, <1>2, <1>5, RestingIsSound DEF Init, PhotoInv, HeldIsOnDisk, RowsApart,
     DeletesItsOwn, CreatesForNobody, UploadedPhotoIsKept
<1>9. FileInv
  BY <1>5, RestingIsSound DEF Init, FileInv, FilesApart, Carries, SlotShowsItsTab
<1> QED
  BY <1>7, <1>8, <1>9 DEF Inv

LEMMA InvStep ==
  ASSUME Inv, [Next]_vars
  PROVE  Inv'
<1>1. CASE UNCHANGED vars
  <2>1. Typed'
    BY <1>1 DEF vars, Inv, Typed, Settled, Held
  <2>2. PhotoInv'
    BY <1>1, PhotosStand DEF vars, Inv, photos
  <2>3. FileInv'
    BY <1>1, FilesStand DEF vars, Inv
  <2> QED
    BY <2>1, <2>2, <2>3 DEF Inv
<1>2. ASSUME NEW e \in Entry, Post(e) \/ StorePhoto(e)
      PROVE  Inv'
  BY <1>2, PostKeeps, StorePhotoKeeps
<1>3. ASSUME NEW s \in storing, CreateReceipt(s) \/ DropPhoto(s)
      PROVE  Inv'
  BY <1>3, CreateReceiptKeeps, DropPhotoKeeps
<1>4. ASSUME NEW r \in book.receipts, ResolveReceipt(r)
      PROVE  Inv'
  BY <1>4, ResolveReceiptKeeps
<1>5. ASSUME NEW d \in deleting, DeleteReceipt(d) \/ RemovePhoto(d)
      PROVE  Inv'
  BY <1>5, DeleteReceiptKeeps, RemovePhotoKeeps
<1>6. ASSUME NEW t \in Tab, NEW z \in zips \cup {dumps[i] : i \in DOMAIN dumps}, Inspect(t, z)
      PROVE  Inv'
  BY <1>6, InspectKeeps
<1>7. ASSUME NEW t \in Tab,
             \/ Stage(t) \/ Take(t) \/ Abandon(t) \/ PlanNet(t) \/ WriteNet(t)
             \/ Extract(t) \/ Commit(t) \/ Refuse(t)
      PROVE  Inv'
  BY <1>7, StageKeeps, TakeKeeps, AbandonKeeps, PlanNetKeeps, WriteNetKeeps, ExtractKeeps,
     CommitKeeps, RefuseKeeps
<1>8. CASE Download \/ Expire \/ Crash \/ Boot
  BY <1>8, DownloadKeeps, ExpireKeeps, CrashKeeps, BootKeeps
<1> QED
  BY <1>1, <1>2, <1>3, <1>4, <1>5, <1>6, <1>7, <1>8 DEF Next

\* The invariant holds in every reachable state.
THEOREM InvHolds == Spec => []Inv
<1>1. Init => Inv
  BY InvInit
<1>2. Inv /\ [Next]_vars => Inv'
  BY InvStep
<1> QED
  BY <1>1, <1>2, PTL DEF Spec

\* Every variable keeps its type: the rows, the files, the backups and what each
\* tab's request carries; and the safety-net dumps never exceed their quota.
THEOREM TypeCorrect == Spec => []TypeOK
<1>1. Inv => TypeOK
  <2> SUFFICES ASSUME Inv PROVE TypeOK
    OBVIOUS
  <2>1. Settled \subseteq Photo /\ Books(Settled) \subseteq Book /\ Backups(Settled) \subseteq Backup
    BY Known DEF Books, Backups
  <2>2. dumps \in Seq(Backup)
    <3>1. dumps \in Seq(Backups(Settled))
      BY DEF Inv, Typed
    <3>2. \A i \in 1..Len(dumps) : dumps[i] \in Backup
      BY <2>1, <3>1, ElementOfSeq
    <3> QED
      BY <3>1, <3>2, SeqDef, LenProperties
  <2>3. Requests(Settled) \subseteq Request
    BY <2>1 DEF Requests, Request
  <2>4. Slots(Settled) \subseteq [token : File, doc : Book] \cup {Nothing}
    BY <2>1 DEF Slots
  <2> QED
    BY <2>1, <2>2, <2>3, <2>4, Known DEF Inv, Typed, TypeOK, Numbered
<1> QED
  BY <1>1, InvHolds, PTL

\* An uploaded photo is on disk for as long as its row is in the book, through
\* any interleaving of uploads, deletions, restores and crashes.
THEOREM PhotosAreKept == Spec => []UploadedPhotoIsKept
<1>1. Inv => UploadedPhotoIsKept
  BY DEF Inv, PhotoInv
<1> QED
  BY <1>1, InvHolds, PTL

\* Only the commit of a tab ends its confirm with another book.
LEMMA CommitsWhatItShowed ==
  ASSUME Inv, [Next]_vars, NEW t \in Tab, tab[t].step \in Confirming, book' # book,
         tab'[t].step = "idle"
  PROVE  book' = tab[t].zip.book
<1>1. Sound(tab[t], staged, InSlot, up) /\ tab[t].step # "idle"
  BY KnownTab DEF Confirming, Serving
<1>2. ASSUME NEW s \in Tab, Commit(s)
      PROVE  book' = tab[t].zip.book
  <2>1. s = t
    <3>1. s # t => tab'[t] = tab[t]
      BY <1>2 DEF Commit, Inv, Typed
    <3> QED
      BY <1>1, <3>1
  <2>2. tab[t].doc \in Book /\ tab[t].doc = tab[t].zip.book
    BY <1>1, KnownTab DEF Sound, Books
  <2> QED
    BY <1>2, <2>1, <2>2, InsertedIsDocument DEF Commit
<1>3. ASSUME NEW s \in Tab, NEW z, Inspect(s, z)
      PROVE  FALSE
  BY <1>3 DEF Inspect
<1>4. ASSUME NEW s \in Tab,
             Stage(s) \/ Take(s) \/ Abandon(s) \/ PlanNet(s) \/ WriteNet(s) \/ Extract(s)
               \/ Refuse(s)
      PROVE  FALSE
  BY <1>4 DEF Stage, Take, Abandon, PlanNet, WriteNet, Extract, Refuse
<1>5. CASE Download \/ Expire \/ Crash \/ Boot \/ UNCHANGED vars
  BY <1>5 DEF Download, Expire, Crash, Boot, vars
<1>6. CASE tab' = tab
  BY <1>1, <1>6
<1>7. ASSUME NEW e \in Entry, Post(e) \/ StorePhoto(e)
      PROVE  tab' = tab
  BY <1>7 DEF Post, StorePhoto, inspection
<1>8. ASSUME NEW s \in storing, CreateReceipt(s) \/ DropPhoto(s)
      PROVE  tab' = tab
  BY <1>8 DEF CreateReceipt, DropPhoto, inspection
<1>9. ASSUME NEW r \in book.receipts, ResolveReceipt(r)
      PROVE  tab' = tab
  BY <1>9 DEF ResolveReceipt, inspection
<1>10. ASSUME NEW d \in deleting, DeleteReceipt(d) \/ RemovePhoto(d)
       PROVE  tab' = tab
  BY <1>10 DEF DeleteReceipt, RemovePhoto, inspection
<1> QED
  BY <1>2, <1>3, <1>4, <1>5, <1>6, <1>7, <1>8, <1>9, <1>10 DEF Next

\* What a confirm puts in the book is what its own dialog showed, whatever other
\* tabs inspected, confirmed or let expire in the meantime.
THEOREM PreviewedIsRestored == Spec => RestoresWhatWasPreviewed
<1>1. Inv /\ [Next]_vars =>
        [\A t \in Tab : tab[t].step \in Confirming /\ book' # book
           /\ tab'[t].step = "idle" => book' = tab[t].zip.book]_vars
  BY CommitsWhatItShowed
<1> QED
  BY <1>1, InvHolds, PTL DEF Spec, RestoresWhatWasPreviewed
=============================================================================
