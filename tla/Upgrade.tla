------------------------------ MODULE Upgrade ------------------------------
(***************************************************************************)
(* cmd/uruni and internal/backup around one database file: what serve,     *)
(* migrate up, create-user and rebuild do to it when the version changes.  *)
(* A command holds the instance lock from its start to its end, so one     *)
(* runs at a time; it can be killed, or lose power, between any two steps. *)
(*                                                                         *)
(* A directory's entries are durable only once the directory is synced: a  *)
(* power cut keeps any mix of the synced and the unsynced ones.  What the  *)
(* data directory holds is kept twice here, as seen and as synced.  The    *)
(* backup directory's files are written by WriteFileAtomic, which returns  *)
(* only after its sync; a write that fails may have left its file behind.  *)
(***************************************************************************)
EXTENDS Naturals, Sequences, SequencesExt

CONSTANTS
  Version, Schema,  \* the releases, and the schemas their binaries create
  Empty,            \* the schema of a file without tables
  None,             \* an absent file, and a version the marker does not name
  SchemaOf,         \* the schema each version creates and serves
  Migration,        \* the schemas each version's files migrate, and to what
  Keep,             \* PreUpgradeRetention
  MaxEntries,       \* bound: entries ever made
  MaxRebuilds,      \* bound: rebuilds started
  MaxSnaps          \* bound: snapshots held before one is pruned

ASSUME NamesAssumption == Empty \notin Schema /\ None \notin Version
ASSUME SchemasAssumption ==
  /\ SchemaOf \in [Version -> Schema]
  /\ \A v \in Version :
       /\ Migration[v] \in [DOMAIN Migration[v] -> Schema]
       /\ Migration[v][Empty] = SchemaOf[v]
       /\ SchemaOf[v] \notin DOMAIN Migration[v]
ASSUME BoundsAssumption ==
  /\ Keep \in Nat \ {0} /\ MaxSnaps \in Nat /\ MaxSnaps > Keep
  /\ MaxEntries \in Nat /\ MaxRebuilds \in Nat

VARIABLES
  dir,      \* the data directory: the file each name holds
  synced,   \* what of it survives a power cut
  snaps,    \* the pre-upgrade snapshots, newest first
  marker,   \* the boot marker
  proc,     \* the command that runs
  rebuilds, \* how many rebuilds were started
  last      \* what the last server to run left in the database

vars == <<dir, synced, snaps, marker, proc, rebuilds, last>>

\* The names in the data directory; each rebuild keeps what it replaces under
\* names of its own, stamped with its second.
Db == <<"db", 0>>
Wal == <<"wal", 0>>
Aside(n) == <<"db", n>>
AsideWal(n) == <<"wal", n>>
Name == {"db", "wal"} \X (0..MaxRebuilds)
Content == [schema : Schema \cup {Empty}, data : 0..MaxEntries]
\* "of" tells the database files apart: how many rebuilds made it.
File == [schema : Schema \cup {Empty}, data : 0..MaxEntries, ok : BOOLEAN, of : 0..MaxRebuilds]
ASSUME AbsentAssumption == None \notin File \cup Content
NoFile == [name \in Name |-> None]
NoMarker == [booted |-> None, snapshotted |-> None]

Command == {"serve", "migrate up", "create-user", "rebuild"}
Step == {"guarding", "copying", "marking", "pruning", "migrating", "verified", "serving",
         "building", "asiding", "asidingwal", "clearing", "syncing", "renaming", "finishing"}
\* "found" is the file a rebuild is to replace, and its -wal.
Process == [at : Step, cmd : Command, version : Version, doc : 0..MaxEntries,
            found : [db : File \cup {None}, wal : File \cup {None}]]
Down == [at |-> "down"]

\* What SQLite reads: the file, with what was committed to its -wal since.
Read(d) ==
  IF d[Wal] = None THEN d[Db]
  ELSE [d[Db] EXCEPT !.schema = d[Wal].schema, !.data = d[Wal].data]
Live == Read(dir)
ContentOf(file) == [schema |-> file.schema, data |-> file.data]

TypeOK ==
  /\ dir \in [Name -> File \cup {None}] /\ synced \in [Name -> File \cup {None}]
  /\ snaps \in Seq(Content) /\ Len(snaps) <= MaxSnaps
  /\ marker \in [booted : Version \cup {None}, snapshotted : Version \cup {None}]
  /\ proc \in Process \cup {Down}
  /\ rebuilds \in 0..MaxRebuilds
  /\ last \in Content \cup {None}

-----------------------------------------------------------------------------
(* Steps shared by the commands.                                            *)

\* SQLite syncs what it folds into the file, and the atomic writer its directory;
\* a commit to the -wal is not synced (PRAGMA synchronous = NORMAL), though the
\* directory is when the -wal is new.
Write(d) == dir' = d /\ synced' = d
Commit(file) ==
  /\ dir' = [dir EXCEPT ![Wal] = file]
  /\ synced' = IF dir[Wal] = None THEN dir ELSE synced
At(step) == proc' = [proc EXCEPT !.at = step]
\* Closing the last connection folds the -wal into the file.
Folded == [dir EXCEPT ![Db] = Live, ![Wal] = None]
Close == Write(Folded) /\ proc' = Down
Healthy(d) == d[Db] # None /\ Read(d).ok /\ Read(d).schema # Empty

Launch(cmd, v, doc) ==
  [at |-> "guarding", cmd |-> cmd, version |-> v, doc |-> doc,
   found |-> [db |-> None, wal |-> None]]

\* A version has a migration for what it finds.
Pending(d, v) == Read(d).schema \in DOMAIN Migration[v]

\* Takes the lock and opens the file, which creates an empty one when there is
\* none; a file without a -wal is put in WAL mode, through a journal whose
\* creation syncs the directory.  create-user takes the lock only when a
\* migration is pending.
Start(cmd, v) ==
  LET opened == IF dir[Db] = None
                THEN [dir EXCEPT ![Db] = [schema |-> Empty, data |-> 0, ok |-> TRUE, of |-> 0]]
                ELSE dir
  IN  /\ proc = Down
      /\ cmd = "create-user" => Pending(opened, v)
      /\ proc' = Launch(cmd, v, 0)
      /\ IF dir[Wal] = None THEN Write(opened) ELSE UNCHANGED <<dir, synced>>
      /\ UNCHANGED <<snaps, marker, rebuilds, last>>

\* Where a command goes once the guard lets it on.
Guarded == IF proc.cmd = "rebuild" THEN "building" ELSE "migrating"

\* A marker is written whole or not at all; a sync that fails after the rename
\* leaves it in place, but the command ends.
MarkSnapshotted(next) ==
  LET marked == [marker EXCEPT !.snapshotted = proc.version]
  IN  \/ marker' = marked /\ At(next) /\ UNCHANGED <<dir, synced>>
      \/ marker' \in {marker, marked} /\ Close

\* guardBeforeMigrating: a damaged file is refused, and a version that differs
\* from the last one booted takes its copy first, unless one was taken since.
\* Mutant: a file whose marker is missing is taken for one that needs none.
Handled == proc.version \in {marker.booted, marker.snapshotted}
NeedsCopy == ~Handled /\ marker.snapshotted = None /\ Live.schema # Empty
Guard ==
  /\ proc.at = "guarding"
  /\ \/ ~Live.ok /\ Close /\ UNCHANGED marker
     \/ /\ Live.ok
        /\ \/ Handled /\ At(Guarded) /\ UNCHANGED <<dir, synced, marker>>
           \/ ~Handled /\ ~NeedsCopy /\ MarkSnapshotted(Guarded)
           \/ NeedsCopy /\ At("copying") /\ UNCHANGED <<dir, synced, marker>>
  /\ UNCHANGED <<snaps, rebuilds, last>>

WritePreUpgradeSnapshot ==
  LET copied == <<ContentOf(Live)>> \o snaps
  IN  /\ proc.at = "copying" /\ Len(snaps) < MaxSnaps
      /\ \/ snaps' = copied /\ At("marking") /\ UNCHANGED <<dir, synced>>
         \/ snaps' \in {snaps, copied} /\ Close
      /\ UNCHANGED <<marker, rebuilds, last>>

MarkCopied ==
  /\ proc.at = "marking"
  /\ MarkSnapshotted("pruning")
  /\ UNCHANGED <<snaps, rebuilds, last>>

\* A prune that fails is only logged.
ApplyPreUpgradeRetention ==
  /\ proc.at = "pruning"
  /\ snaps' \in {snaps, SubSeq(snaps, 1, IF Len(snaps) < Keep THEN Len(snaps) ELSE Keep)}
  /\ At(Guarded)
  /\ UNCHANGED <<dir, synced, marker, rebuilds, last>>

-----------------------------------------------------------------------------
(* serve, migrate up and create-user.                                       *)

\* One migration at a time, each in its own transaction; it may fail.
Up ==
  /\ proc.at = "migrating" /\ Pending(dir, proc.version)
  /\ \/ Commit([Live EXCEPT !.schema = Migration[proc.version][@]]) /\ UNCHANGED proc
     \/ Close
  /\ UNCHANGED <<snaps, marker, rebuilds, last>>

\* serve refuses a schema that is not its own; the other commands end here.
VerifySchema ==
  /\ proc.at = "migrating" /\ ~Pending(dir, proc.version)
  /\ IF proc.cmd = "serve" /\ Live.schema = SchemaOf[proc.version]
     THEN At("verified") /\ UNCHANGED <<dir, synced>> ELSE Close
  /\ UNCHANGED <<snaps, marker, rebuilds, last>>

\* A marker that cannot be written is removed, and the server runs all the same.
\* Mutant: the snapshot a failed version took stays on the marker.
BootedStillSnapshotted(v) == [marker EXCEPT !.booted = v]
Booted(v) == [booted |-> v, snapshotted |-> None]
MarkBooted ==
  /\ proc.at = "verified"
  /\ marker' \in {Booted(proc.version)} \cup
                 (IF marker = Booted(proc.version) THEN {} ELSE {NoMarker})
  /\ At("serving")
  /\ last' = ContentOf(Live)
  /\ UNCHANGED <<dir, synced, snaps, rebuilds>>

\* The server commits an entry.
MakeEntry ==
  /\ proc.at = "serving" /\ Live.data < MaxEntries
  /\ Commit([Live EXCEPT !.data = @ + 1])
  /\ last' = ContentOf([Live EXCEPT !.data = @ + 1])
  /\ UNCHANGED <<snaps, marker, proc, rebuilds>>

Stop ==
  /\ proc.at = "serving"
  /\ Close
  /\ UNCHANGED <<snaps, marker, rebuilds, last>>

-----------------------------------------------------------------------------
(* rebuild: a new file from a backup, swapped for the old one.              *)

\* The checks, of which none writes: the file must not have this schema already,
\* and a healthy one must hold as many rows as the backup.
\* Mutant: the rows are not counted.
BelongsToAny(doc) == TRUE
Belongs(doc) == Healthy(dir) => doc = Live.data
StartRebuild(v, doc) ==
  /\ proc = Down /\ rebuilds < MaxRebuilds
  /\ Healthy(dir) => Live.schema # SchemaOf[v]
  /\ Belongs(doc)
  /\ rebuilds' = rebuilds + 1
  /\ proc' = [Launch("rebuild", v, doc) EXCEPT !.at = IF Healthy(dir) THEN @ ELSE "building"]
  /\ UNCHANGED <<dir, synced, snaps, marker, last>>

\* The handle on a healthy file is closed before the swap.
BuildScratch ==
  LET closed == IF Healthy(dir) THEN Folded ELSE dir
  IN  /\ proc.at = "building"
      /\ IF closed = dir THEN UNCHANGED <<dir, synced>> ELSE Write(closed)
      /\ \/ proc' = [proc EXCEPT !.at = IF closed[Db] = None THEN "renaming" ELSE "asiding",
                                 !.found = [db |-> closed[Db], wal |-> closed[Wal]]]
         \/ proc' = Down
      /\ UNCHANGED <<snaps, marker, rebuilds, last>>

\* A file copied atomically is synced with all the directory holds.
CopyAside(from, to, next) ==
  /\ \/ Write([dir EXCEPT ![to] = dir[from]]) /\ At(next)
     \/ dir' \in {dir, [dir EXCEPT ![to] = dir[from]]} /\ UNCHANGED synced /\ proc' = Down
  /\ UNCHANGED <<snaps, marker, rebuilds, last>>
KeepFile == proc.at = "asiding" /\ CopyAside(Db, Aside(rebuilds), "asidingwal")
\* Mutant: the copy of the file alone is thought to be enough.
NoTail == FALSE
HasTail == dir[Wal] # None
KeepWal ==
  /\ proc.at = "asidingwal"
  /\ IF HasTail THEN CopyAside(Wal, AsideWal(rebuilds), "clearing")
     ELSE At("clearing") /\ UNCHANGED <<dir, synced, snaps, marker, rebuilds, last>>

RemoveSideFiles ==
  /\ proc.at = "clearing"
  /\ dir' = [dir EXCEPT ![Wal] = None]
  /\ At("syncing")
  /\ UNCHANGED <<synced, snaps, marker, rebuilds, last>>

\* Mutant: the directory is not synced between the removal and the rename.
Unsynced == synced
SyncedDir == dir
SyncDir(step, next) ==
  /\ proc.at = step
  /\ \/ synced' = SyncedDir /\ proc' = next
     \/ UNCHANGED synced /\ proc' = Down
  /\ UNCHANGED <<dir, snaps, marker, rebuilds, last>>
SyncRemoval == SyncDir("syncing", [proc EXCEPT !.at = "renaming"])

RenameInPlace ==
  /\ proc.at = "renaming"
  /\ \/ /\ dir' = [dir EXCEPT ![Db] = [schema |-> SchemaOf[proc.version], data |-> proc.doc,
                                         ok |-> TRUE, of |-> rebuilds]]
        /\ At("finishing")
     \/ UNCHANGED dir /\ proc' = Down
  /\ UNCHANGED <<synced, snaps, marker, rebuilds, last>>

SyncSwap == SyncDir("finishing", Down)

-----------------------------------------------------------------------------
(* What happens to the machine.                                             *)

Kill ==
  /\ proc # Down
  /\ proc' = Down
  /\ UNCHANGED <<dir, synced, snaps, marker, rebuilds, last>>

\* What the server left is then what of it is found again: db.go accepts "at
\* worst losing the last commit to a full OS crash".
PowerCut ==
  /\ dir' \in {d \in [Name -> {dir[n] : n \in Name} \cup {synced[n] : n \in Name}] :
                 \A n \in Name : d[n] \in {dir[n], synced[n]}}
  /\ synced' = dir'
  /\ proc' = Down
  /\ last' = IF last # None /\ dir[Db] # None /\ last = ContentOf(Live) /\ dir'[Db] = dir[Db]
             THEN IF Read(dir').schema = last.schema THEN ContentOf(Read(dir')) ELSE None
             ELSE last
  /\ UNCHANGED <<snaps, marker, rebuilds>>

\* The disk damages the database of a stopped server.
Damage ==
  /\ proc = Down /\ Healthy(dir)
  /\ dir' = [dir EXCEPT ![Db].ok = FALSE]
  /\ synced' = [synced EXCEPT ![Db] = dir'[Db]]
  /\ last' = None
  /\ UNCHANGED <<snaps, marker, proc, rebuilds>>

Init ==
  /\ dir = NoFile /\ synced = NoFile
  /\ snaps = << >> /\ marker = NoMarker
  /\ proc = Down /\ rebuilds = 0 /\ last = None

Next ==
  \/ \E cmd \in {"serve", "migrate up", "create-user"}, v \in Version : Start(cmd, v)
  \/ Guard \/ WritePreUpgradeSnapshot \/ MarkCopied \/ ApplyPreUpgradeRetention
  \/ Up \/ VerifySchema \/ MarkBooted \/ MakeEntry \/ Stop
  \/ \E v \in Version, doc \in 0..MaxEntries : StartRebuild(v, doc)
  \/ BuildScratch \/ KeepFile \/ KeepWal \/ RemoveSideFiles
  \/ SyncRemoval \/ RenameInPlace \/ SyncSwap
  \/ Kill \/ PowerCut \/ Damage

Spec == Init /\ [][Next]_vars

-----------------------------------------------------------------------------
(* What an upgrade must keep.                                               *)

\* A snapshot holds what the server left; it may hold more, when a power cut took
\* the last commits after they were copied.
InSnapshot == \E c \in Range(snaps) : c.schema = last.schema /\ c.data >= last.data

\* Whatever a newer version did to the database, what the last server left is
\* still in it or in a snapshot that retention has not taken: the way back
\* EnsurePreUpgradeSnapshot promises, across failed boots and crashes.
Recoverable == last # None => ContentOf(Live) = last \/ InSnapshot

\* At no time, after a power cut included, does a -wal lie beside a database
\* that did not write it (ReplaceDatabase: "no stale one can come back after a
\* power cut beside the new file and be replayed into it").
NoStaleWal == dir[Wal] # None => dir[Db] # None /\ dir[Wal].of = dir[Db].of

\* The file a rebuild replaces is on disk under its other name, with the -wal it
\* was found with, before its own name is given away.
SwapKeepsTheOldFile ==
  [][proc.at = "renaming" /\ proc.found.db # None /\ dir'[Db] # dir[Db] =>
       /\ synced[Aside(rebuilds)] = proc.found.db
       /\ synced[AsideWal(rebuilds)] = proc.found.wal]_vars

\* The entries of a healthy database change only by an entry a server makes: no
\* restart, migration, rebuild or kill loses or invents one, and no power cut one
\* that was synced.
EntriesSurvive ==
  [][dir[Db] # None /\ dir'[Db] # None /\ synced[Db] = dir[Db] /\ synced[Wal] = dir[Wal] =>
       LET before == Read(dir)
           after == Read(dir')
       IN  before.ok /\ before.schema # Empty /\ after.ok /\ after.data # before.data =>
             /\ proc.at = "serving" /\ proc' = proc
             /\ after.data = before.data + 1]_vars
=============================================================================
