---------------------------- MODULE UpgradeProofs ----------------------------
(***************************************************************************)
(* What an upgrade keeps, proved for any versions, schemas, migrations and *)
(* number of rebuilds.  The files a power cut can leave are a mix of those *)
(* seen and those synced, so the invariants speak of every mix at once.    *)
(***************************************************************************)
EXTENDS Upgrade, SequenceTheorems, TLAPS

-----------------------------------------------------------------------------
(* The invariants.                                                          *)

\* A command that has the file open, and a rebuild on its way to the swap.
Opened == {"guarding", "copying", "marking", "pruning", "migrating", "verified", "serving"}
Swapping == {"building", "asiding", "asidingwal", "clearing", "syncing", "renaming", "finishing"}

\* What a power cut can leave under a name.
Either(n) == {dir[n], synced[n]}

\* Whatever mix is left, a -wal lies beside the file that wrote it; it has tables
\* and at least the file's entries; and one that is gone but may come back was a
\* damaged file's.
TailsFit ==
  /\ \A w \in Either(Wal), f \in Either(Db) : w # None =>
       f # None /\ w.of = f.of /\ f.data <= w.data
  /\ \A w \in Either(Wal) : w # None => w.schema # Empty
  /\ dir[Wal] # None => /\ synced[Db] = dir[Db]
                        /\ synced[Wal] # None => synced[Wal].data <= dir[Wal].data
  /\ dir[Wal] = None /\ synced[Wal] # None => ~dir[Db].ok

\* What a command knows of the file it has open.
OpenedFits ==
  proc.at \in Opened =>
    /\ dir[Db] # None
    /\ proc.at # "guarding" => dir[Db].ok
    /\ proc.at \in {"verified", "serving"} => Live.schema = SchemaOf[proc.version]
    /\ IF proc.cmd = "rebuild"
       THEN /\ proc.at \in {"guarding", "copying", "marking", "pruning"}
            /\ Healthy(dir) /\ Live.schema # SchemaOf[proc.version] /\ Live.data = proc.doc
       ELSE synced[Db] = dir[Db]

\* What a rebuild knows of the file it is to replace.
SwapFits ==
  proc.at \in Swapping =>
    /\ proc.cmd = "rebuild"
    /\ proc.at # "finishing" => (Healthy(dir) => Live.data = proc.doc)
    /\ proc.at \in {"asiding", "asidingwal", "clearing"} =>
         dir[Db] # None /\ (dir[Wal] # None => ~dir[Db].ok)
    /\ proc.at \in {"syncing", "renaming", "finishing"} => dir[Wal] = None
    /\ proc.at \in {"renaming", "finishing"} => synced[Wal] = None

\* The names a rebuild keeps the old file under are its own, and hold it in the end.
AsidesFit ==
  /\ \A n \in Name : n[2] > rebuilds => dir[n] = None /\ synced[n] = None
  /\ proc # Down /\ proc.cmd = "rebuild" =>
       /\ rebuilds > 0
       /\ proc.at \in Opened \cup {"building", "asiding"} =>
            \A x \in Either(Aside(rebuilds)) : x = None
       /\ proc.at \in Opened \cup {"building", "asiding", "asidingwal"} =>
            \A x \in Either(AsideWal(rebuilds)) : x = None
       /\ proc.at \in {"asiding", "asidingwal"} =>
            proc.found = [db |-> dir[Db], wal |-> dir[Wal]]
       /\ proc.at \in {"asidingwal", "clearing", "syncing", "renaming"} =>
            (proc.found.db # None => \A x \in Either(Aside(rebuilds)) : x = proc.found.db)
       /\ proc.at \in {"clearing", "syncing", "renaming"} =>
            (proc.found.db # None => \A x \in Either(AsideWal(rebuilds)) : x = proc.found.wal)

\* The newest snapshot holds what the server left.
OnTop == snaps # << >> /\ snaps[1].schema = last.schema /\ snaps[1].data >= last.data

\* What the server left stands in the file until a snapshot is taken, and on top
\* of the snapshots from then on until a server has booted.
Kept ==
  last # None =>
    /\ last.schema # Empty
    /\ \A f \in Either(Db) : f # None /\ f.ok
    /\ marker.snapshotted # None => OnTop
    /\ marker.snapshotted = None =>
         /\ synced[Db] = dir[Db] /\ ContentOf(Live) = last
         /\ marker.booted # None => last.schema = SchemaOf[marker.booted]
    /\ proc.at = "marking" => OnTop
    /\ proc.at \in Swapping => marker.snapshotted # None
Marked ==
  /\ proc.at \in {"copying", "marking"} => marker.snapshotted = None
  /\ proc.at = "pruning" => marker.snapshotted # None
  /\ proc.at = "migrating" => marker.snapshotted # None \/ proc.version = marker.booted
  /\ proc.at = "serving" => marker.snapshotted = None /\ last = ContentOf(Live)

IInv == TypeOK /\ TailsFit /\ OpenedFits /\ SwapFits /\ AsidesFit /\ Kept /\ Marked

-----------------------------------------------------------------------------
(* Names, files and steps.                                                  *)

LEMMA Names ==
  /\ Db \in Name /\ Wal \in Name /\ Db # Wal
  /\ \A n \in 1..MaxRebuilds :
       /\ Aside(n) \in Name \ {Db, Wal} /\ AsideWal(n) \in Name \ {Db, Wal}
       /\ Aside(n) # AsideWal(n) /\ Aside(n)[2] = n /\ AsideWal(n)[2] = n
  /\ Db[2] = 0 /\ Wal[2] = 0
BY BoundsAssumption DEF Db, Wal, Aside, AsideWal, Name

\* What a file is, and that it is not the absence of one.
LEMMA FileFields ==
  ASSUME NEW f \in File
  PROVE  /\ f # None /\ f.schema \in Schema \cup {Empty} /\ f.data \in 0..MaxEntries
         /\ f.ok \in BOOLEAN /\ f.of \in 0..MaxRebuilds
         /\ f.data \in Nat
         /\ ContentOf(f) \in Content /\ ContentOf(f) # None
         /\ ContentOf(f).schema = f.schema /\ ContentOf(f).data = f.data
<1>1. f.schema \in Schema \cup {Empty} /\ f.data \in 0..MaxEntries /\ f.ok \in BOOLEAN /\ f.of \in 0..MaxRebuilds
  BY DEF File
<1>2. ContentOf(f) \in Content
  BY <1>1 DEF ContentOf, Content
<1> QED
  BY <1>1, <1>2, AbsentAssumption, BoundsAssumption DEF ContentOf

\* The file read through its -wal.
LEMMA ReadFields ==
  ASSUME NEW d \in [Name -> File \cup {None}], d[Db] # None
  PROVE  /\ Read(d) \in File /\ Read(d).ok = d[Db].ok /\ Read(d).of = d[Db].of
         /\ d[Wal] = None => Read(d) = d[Db]
         /\ d[Wal] # None => Read(d).schema = d[Wal].schema /\ Read(d).data = d[Wal].data
<1>1. d[Db] \in File /\ d[Wal] \in File \cup {None}
  BY Names
<1>2. CASE d[Wal] = None
  BY <1>1, <1>2 DEF Read
<1>3. CASE d[Wal] # None
  <2>1. d[Wal] \in File
    BY <1>1, <1>3
  <2>2. Read(d) = [d[Db] EXCEPT !.schema = d[Wal].schema, !.data = d[Wal].data]
    BY <1>3 DEF Read
  <2> QED
    BY <1>1, <1>3, <2>1, <2>2 DEF File
<1> QED
  BY <1>2, <1>3

LEMMA Running ==
  ASSUME TypeOK, proc.at \in Step
  PROVE  /\ proc \in Process /\ proc # Down /\ proc.version \in Version /\ proc.cmd \in Command
         /\ proc.doc \in 0..MaxEntries
BY DEF TypeOK, Process, Down, Step

LEMMA AtStep ==
  ASSUME proc \in Process, NEW step \in Step, At(step)
  PROVE  /\ proc' \in Process /\ proc'.at = step /\ proc'.cmd = proc.cmd
         /\ proc'.version = proc.version /\ proc'.doc = proc.doc /\ proc'.found = proc.found
BY DEF At, Process
\* What each kind of step leaves of the files.
LEMMA CloseFiles ==
  ASSUME TypeOK, TailsFit, Close
  PROVE  /\ proc' = Down /\ dir' \in [Name -> File \cup {None}] /\ synced' = dir'
         /\ dir'[Wal] = None /\ dir'[Db] = Live /\ Live' = Live
         /\ dir[Db] # None => dir'[Db] # None /\ dir'[Db] = [dir[Db] EXCEPT !.schema = Live.schema, !.data = Live.data]
         /\ dir[Db] = None => dir'[Db] = None
         /\ \A n \in Name \ {Db, Wal} : dir'[n] = dir[n]
<1>1. /\ dir \in [Name -> File \cup {None}] /\ synced \in [Name -> File \cup {None}]
      /\ dir[Db] = None => dir[Wal] = None
  BY DEF TypeOK, TailsFit, Either
<1>2. dir[Db] = None => Live = None
  BY <1>1 DEF Live, Read
<1>3. /\ Live \in File \cup {None}
      /\ dir[Db] # None => Live # None /\ Live.ok = dir[Db].ok /\ Live.of = dir[Db].of
  BY <1>1, <1>2, ReadFields, FileFields DEF Live
<1>4. /\ dir' = [dir EXCEPT ![Db] = Live, ![Wal] = None] /\ synced' = dir' /\ proc' = Down
  BY DEF Close, Write, Folded
<1>5. /\ dir' \in [Name -> File \cup {None}] /\ dir'[Wal] = None /\ dir'[Db] = Live
      /\ \A n \in Name \ {Db, Wal} : dir'[n] = dir[n]
  BY <1>1, <1>3, <1>4, Names
<1>6. Live' = Live
  BY <1>5 DEF Live, Read
<1>7. dir[Db] # None => Live = [dir[Db] EXCEPT !.schema = Live.schema, !.data = Live.data]
  <2>1. SUFFICES ASSUME dir[Db] # None PROVE Live = [dir[Db] EXCEPT !.schema = Live.schema, !.data = Live.data]
    OBVIOUS
  <2>2. dir[Db] \in File /\ Live \in File
    BY <1>1, <1>3, <2>1, Names
  <2> QED
    BY <1>3, <2>1, <2>2 DEF File
<1> QED
  BY <1>1, <1>2, <1>3, <1>4, <1>5, <1>6, <1>7

LEMMA CommitFiles ==
  ASSUME TypeOK, dir[Db] # None, NEW file \in File, file.of = dir[Db].of, file.ok = dir[Db].ok,
         Commit(file)
  PROVE  /\ dir' \in [Name -> File \cup {None}] /\ synced' \in [Name -> File \cup {None}]
         /\ dir'[Wal] = file /\ dir'[Wal] # None /\ Live' = file /\ Read(dir') = file
         /\ \A n \in Name \ {Wal} : dir'[n] = dir[n]
         /\ dir[Wal] = None => synced' = dir
         /\ dir[Wal] # None => synced' = synced
<1>1. dir \in [Name -> File \cup {None}] /\ synced \in [Name -> File \cup {None}]
  BY DEF TypeOK
<1>2. dir' = [dir EXCEPT ![Wal] = file] /\ synced' = IF dir[Wal] = None THEN dir ELSE synced
  BY DEF Commit
<1>3. /\ dir' \in [Name -> File \cup {None}] /\ dir'[Wal] = file
      /\ \A n \in Name \ {Wal} : dir'[n] = dir[n]
  BY <1>1, <1>2, Names
<1>4. dir'[Wal] # None /\ dir'[Db] = dir[Db] /\ dir'[Db] # None
  BY <1>3, FileFields, Names
<1>5. Read(dir') \in File /\ Read(dir').ok = file.ok /\ Read(dir').of = file.of
      /\ Read(dir').schema = file.schema /\ Read(dir').data = file.data
  BY <1>3, <1>4, ReadFields
<1>6. Read(dir') = file
  BY <1>5 DEF File
<1>7. Live' = Read(dir')
  BY DEF Live
<1> QED
  BY <1>1, <1>2, <1>3, <1>4, <1>6, <1>7
-----------------------------------------------------------------------------
(* Type correctness.                                                        *)

LEMMA TypeInit ==
  Init => TypeOK
<1> SUFFICES ASSUME Init PROVE TypeOK
  OBVIOUS
<1>1. NoFile \in [Name -> File \cup {None}]
  BY DEF NoFile
<1>2. << >> \in Seq(Content) /\ Len(<< >>) <= MaxSnaps /\ Len(<< >>) \in Nat
  BY BoundsAssumption
<1> QED
  BY <1>1, <1>2, BoundsAssumption DEF Init, TypeOK, NoMarker

LEMMA MarkerTypes ==
  ASSUME TypeOK, proc \in Process, NEW next \in Step, MarkSnapshotted(next), TailsFit
  PROVE  /\ marker' \in [booted : Version \cup {None}, snapshotted : Version \cup {None}]
         /\ proc' \in Process \cup {Down}
         /\ dir' \in [Name -> File \cup {None}] /\ synced' \in [Name -> File \cup {None}]
<1>1. proc.version \in Version
  BY DEF Process
<1>2. [marker EXCEPT !.snapshotted = proc.version]
        \in [booted : Version \cup {None}, snapshotted : Version \cup {None}]
  BY <1>1 DEF TypeOK
<1>3. CASE At(next) /\ marker' = [marker EXCEPT !.snapshotted = proc.version] /\ UNCHANGED <<dir, synced>>
  BY <1>2, <1>3, AtStep DEF TypeOK
<1>4. CASE marker' \in {marker, [marker EXCEPT !.snapshotted = proc.version]} /\ Close
  BY <1>2, <1>4, CloseFiles DEF TypeOK
<1> QED
  BY <1>3, <1>4 DEF MarkSnapshotted

LEMMA SnapTypes ==
  ASSUME TypeOK, proc.at = "copying", WritePreUpgradeSnapshot, dir[Db] # None
  PROVE  /\ snaps' \in Seq(Content) /\ Len(snaps') <= MaxSnaps
         /\ \/ snaps' = snaps /\ proc' = Down
            \/ snaps' = <<ContentOf(Live)>> \o snaps /\ snaps'[1] = ContentOf(Live) /\ snaps' # << >>
<1>1. Live \in File /\ ContentOf(Live) \in Content
  BY ReadFields, FileFields DEF TypeOK, Live
<1> DEFINE copied == <<ContentOf(Live)>> \o snaps
<1>2. /\ snaps \in Seq(Content) /\ Len(snaps) < MaxSnaps /\ Len(snaps) \in Nat
  BY DEF TypeOK, WritePreUpgradeSnapshot
<1>3. /\ copied \in Seq(Content) /\ Len(copied) = Len(snaps) + 1 /\ copied[1] = ContentOf(Live)
      /\ copied # << >>
  BY <1>1, <1>2
<1>4. \/ snaps' = copied
      \/ snaps' = snaps /\ proc' = Down
  BY DEF WritePreUpgradeSnapshot, Close
<1>5. Len(snaps) + 1 <= MaxSnaps /\ Len(snaps) <= MaxSnaps
  BY <1>2, BoundsAssumption
<1>6. copied = <<ContentOf(Live)>> \o snaps
  OBVIOUS
<1> HIDE DEF copied
<1>7. CASE snaps' = copied
  BY <1>3, <1>5, <1>6, <1>7
<1>8. CASE snaps' = snaps /\ proc' = Down
  BY <1>2, <1>5, <1>8
<1> QED
  BY <1>4, <1>7, <1>8

LEMMA PruneTypes ==
  ASSUME TypeOK, ApplyPreUpgradeRetention
  PROVE  /\ snaps' \in Seq(Content) /\ Len(snaps') <= MaxSnaps
         /\ snaps # << >> => snaps' # << >> /\ snaps'[1] = snaps[1]
<1> DEFINE kept == IF Len(snaps) < Keep THEN Len(snaps) ELSE Keep
<1>1. /\ snaps \in Seq(Content) /\ Len(snaps) <= MaxSnaps /\ Len(snaps) \in Nat
      /\ kept \in 0..Len(snaps)
      /\ snaps # << >> => kept >= 1
  BY BoundsAssumption DEF TypeOK
<1>2. snaps' = snaps \/ snaps' = SubSeq(snaps, 1, kept)
  BY DEF ApplyPreUpgradeRetention
<1> HIDE DEF kept
<1> DEFINE sub == SubSeq(snaps, 1, kept)
<1>3. snaps # << >> => sub \in Seq(Content) /\ Len(sub) = kept /\ sub[1] = snaps[1]
  <2>1. SUFFICES ASSUME snaps # << >> PROVE sub \in Seq(Content) /\ Len(sub) = kept /\ sub[1] = snaps[1]
    OBVIOUS
  <2>2. \A i \in 1..kept : snaps[i] \in Content
    BY <1>1
  <2>3. kept \in Int /\ 1 \in Int /\ 1 <= kept
    BY <1>1, <2>1
  <2>4. /\ sub \in Seq(Content) /\ Len(sub) = kept - 1 + 1
        /\ \A i \in 1..kept - 1 + 1 : sub[i] = snaps[1 + i - 1]
    BY <2>2, <2>3, SubSeqProperties
  <2> QED
    BY <2>3, <2>4
<1>4. snaps = << >> => sub = << >>
  <2>1. snaps = << >> => kept = 0
    BY <1>1
  <2> QED
    BY <2>1, SubSeqEmpty
<1>5. snaps' = snaps \/ snaps' = sub
  BY <1>2
<1> HIDE DEF sub
<1>6. CASE snaps' = snaps
  BY <1>1, <1>6
<1>7. CASE snaps' = sub /\ snaps # << >>
  <2>1. Len(sub) >= 1 /\ Len(sub) <= MaxSnaps /\ sub # << >>
    BY <1>1, <1>3, <1>7, BoundsAssumption
  <2> QED
    BY <1>3, <1>7, <2>1
<1> QED
  BY <1>4, <1>5, <1>6, <1>7
LEMMA TypeStep ==
  ASSUME IInv, [Next]_vars
  PROVE  TypeOK'
<1>1. /\ dir \in [Name -> File \cup {None}] /\ synced \in [Name -> File \cup {None}]
      /\ dir[Db] \in File \cup {None} /\ dir[Wal] \in File \cup {None}
      /\ snaps \in Seq(Content) /\ Len(snaps) <= MaxSnaps
      /\ marker \in [booted : Version \cup {None}, snapshotted : Version \cup {None}]
      /\ proc \in Process \cup {Down} /\ rebuilds \in 0..MaxRebuilds
      /\ last \in Content \cup {None}
      /\ TypeOK /\ TailsFit
  BY Names DEF IInv, TypeOK
<1>2. proc.at \in Step => proc \in Process /\ proc.version \in Version
  BY <1>1, Running
<1>3. proc.at \in Opened => dir[Db] # None /\ Live \in File
  BY <1>1, ReadFields DEF IInv, OpenedFits, Live
<1>4. /\ "guarding" \in Step /\ "copying" \in Step /\ "marking" \in Step /\ "pruning" \in Step
      /\ "migrating" \in Step /\ "verified" \in Step /\ "serving" \in Step /\ "building" \in Step
      /\ "asiding" \in Step /\ "asidingwal" \in Step /\ "clearing" \in Step
      /\ "syncing" \in Step /\ "renaming" \in Step /\ "finishing" \in Step
      /\ Opened \subseteq Step
  BY DEF Step, Opened
<1>5. Guarded \in Step
  BY <1>4 DEF Guarded
<1>6. ASSUME Close, UNCHANGED <<snaps, marker, rebuilds, last>> PROVE TypeOK'
  BY <1>1, <1>6, CloseFiles DEF TypeOK
<1>7. ASSUME NEW step \in Step, proc.at \in Step, At(step),
             UNCHANGED <<dir, synced, snaps, marker, rebuilds, last>>
      PROVE  TypeOK'
  BY <1>1, <1>2, <1>7, AtStep DEF TypeOK
<1>8. ASSUME NEW cmd \in Command, NEW v \in Version, Start(cmd, v) PROVE TypeOK'
  <2> DEFINE blank == [schema |-> Empty, data |-> 0, ok |-> TRUE, of |-> 0]
             opened == IF dir[Db] = None THEN [dir EXCEPT ![Db] = blank] ELSE dir
  <2>1. blank \in File
    BY BoundsAssumption DEF File
  <2>2. opened \in [Name -> File \cup {None}]
    BY <1>1, <2>1, Names
  <2>3. /\ proc' = Launch(cmd, v, 0) /\ UNCHANGED <<snaps, marker, rebuilds, last>>
        /\ IF dir[Wal] = None THEN Write(opened) ELSE UNCHANGED <<dir, synced>>
    BY <1>8 DEF Start
  <2>4. Launch(cmd, v, 0) \in Process
    BY <1>4, BoundsAssumption DEF Launch, Process
  <2> HIDE DEF opened
  <2> QED
    BY <1>1, <2>2, <2>3, <2>4 DEF TypeOK, Write
<1>9. ASSUME Guard PROVE TypeOK'
  <2>1. proc.at = "guarding" /\ proc \in Process /\ UNCHANGED <<snaps, rebuilds, last>>
    BY <1>2, <1>4, <1>9 DEF Guard
  <2>2. CASE Close /\ UNCHANGED marker
    BY <1>6, <2>1, <2>2
  <2>3. CASE At(Guarded) /\ UNCHANGED <<dir, synced, marker>>
    BY <1>4, <1>5, <1>7, <2>1, <2>3
  <2>4. CASE MarkSnapshotted(Guarded)
    BY <1>1, <1>5, <2>1, <2>4, MarkerTypes DEF TypeOK
  <2>5. CASE At("copying") /\ UNCHANGED <<dir, synced, marker>>
    BY <1>4, <1>7, <2>1, <2>5
  <2> QED
    BY <1>9, <2>2, <2>3, <2>4, <2>5 DEF Guard
<1>10. ASSUME WritePreUpgradeSnapshot PROVE TypeOK'
  <2>1. proc.at = "copying" /\ proc \in Process /\ dir[Db] # None /\ UNCHANGED <<marker, rebuilds, last>>
    BY <1>2, <1>3, <1>4, <1>10 DEF WritePreUpgradeSnapshot, Opened
  <2>2. snaps' \in Seq(Content) /\ Len(snaps') <= MaxSnaps
    BY <1>1, <1>10, <2>1, SnapTypes
  <2>3. \/ At("marking") /\ UNCHANGED <<dir, synced>>
        \/ Close
    BY <1>10 DEF WritePreUpgradeSnapshot
  <2>4. CASE At("marking") /\ UNCHANGED <<dir, synced>>
    BY <1>1, <1>4, <2>1, <2>2, <2>4, AtStep DEF TypeOK
  <2>5. CASE Close
    BY <1>1, <2>1, <2>2, <2>5, CloseFiles DEF TypeOK
  <2> QED
    BY <2>3, <2>4, <2>5
<1>11. ASSUME MarkCopied PROVE TypeOK'
  <2>1. proc.at = "marking" /\ proc \in Process /\ UNCHANGED <<snaps, rebuilds, last>>
        /\ MarkSnapshotted("pruning")
    BY <1>2, <1>4, <1>11 DEF MarkCopied
  <2> QED
    BY <1>1, <1>4, <2>1, MarkerTypes DEF TypeOK
<1>12. ASSUME ApplyPreUpgradeRetention PROVE TypeOK'
  <2>1. proc.at = "pruning" /\ proc \in Process /\ At(Guarded)
        /\ UNCHANGED <<dir, synced, marker, rebuilds, last>>
    BY <1>2, <1>4, <1>12 DEF ApplyPreUpgradeRetention
  <2>2. snaps' \in Seq(Content) /\ Len(snaps') <= MaxSnaps
    BY <1>1, <1>12, PruneTypes
  <2> QED
    BY <1>1, <1>5, <2>1, <2>2, AtStep DEF TypeOK
<1>13. ASSUME Up PROVE TypeOK'
  <2>1. /\ proc.at = "migrating" /\ proc.version \in Version /\ dir[Db] # None /\ Live \in File
        /\ UNCHANGED <<snaps, marker, rebuilds, last>> /\ Pending(dir, proc.version)
    BY <1>2, <1>3, <1>4, <1>13 DEF Up, Opened
  <2> DEFINE file == [Live EXCEPT !.schema = Migration[proc.version][@]]
  <2>2. file \in File /\ file.of = dir[Db].of /\ file.ok = dir[Db].ok
    <3>1. Migration[proc.version][Live.schema] \in Schema
      BY <2>1, SchemasAssumption DEF Pending, Live
    <3>2. Live.of = dir[Db].of /\ Live.ok = dir[Db].ok
      BY <1>1, <2>1, ReadFields DEF Live
    <3> QED
      BY <2>1, <3>1, <3>2 DEF File
  <2>3. \/ Commit(file) /\ UNCHANGED proc
        \/ Close
    BY <1>13 DEF Up
  <2> HIDE DEF file
  <2>4. CASE Commit(file) /\ UNCHANGED proc
    BY <1>1, <2>1, <2>2, <2>4, CommitFiles DEF TypeOK
  <2>5. CASE Close
    BY <1>6, <2>1, <2>5
  <2> QED
    BY <2>3, <2>4, <2>5
<1>14. ASSUME VerifySchema PROVE TypeOK'
  <2>1. proc.at = "migrating" /\ UNCHANGED <<snaps, marker, rebuilds, last>>
        /\ (Close \/ (At("verified") /\ UNCHANGED <<dir, synced>>))
    BY <1>14 DEF VerifySchema
  <2> QED
    BY <1>4, <1>6, <1>7, <2>1
<1>15. ASSUME MarkBooted PROVE TypeOK'
  <2>1. /\ proc.at = "verified" /\ proc \in Process /\ proc.version \in Version /\ Live \in File
        /\ At("serving") /\ last' = ContentOf(Live) /\ UNCHANGED <<dir, synced, snaps, rebuilds>>
        /\ marker' \in {Booted(proc.version), NoMarker}
    BY <1>2, <1>3, <1>4, <1>15 DEF MarkBooted, Opened
  <2>2. marker' \in [booted : Version \cup {None}, snapshotted : Version \cup {None}]
    BY <2>1 DEF Booted, NoMarker
  <2>3. last' \in Content \cup {None}
    BY <2>1, FileFields
  <2> QED
    BY <1>1, <1>4, <2>1, <2>2, <2>3, AtStep DEF TypeOK
<1>16. ASSUME MakeEntry PROVE TypeOK'
  <2> DEFINE file == [Live EXCEPT !.data = @ + 1]
  <2>1. /\ proc.at = "serving" /\ dir[Db] # None /\ Live \in File /\ Live.data < MaxEntries
        /\ UNCHANGED <<snaps, marker, proc, rebuilds>>
        /\ Commit(file) /\ last' = ContentOf(file)
    BY <1>3, <1>16 DEF MakeEntry, Opened
  <2>2. file \in File /\ file.of = dir[Db].of /\ file.ok = dir[Db].ok
    <3>1. Live.data + 1 \in 0..MaxEntries
      BY <2>1, BoundsAssumption, FileFields
    <3>2. Live.of = dir[Db].of /\ Live.ok = dir[Db].ok
      BY <1>1, <2>1, ReadFields DEF Live
    <3> QED
      BY <2>1, <3>1, <3>2 DEF File
  <2> HIDE DEF file
  <2>3. last' \in Content \cup {None}
    BY <2>1, <2>2, FileFields
  <2> QED
    BY <1>1, <2>1, <2>2, <2>3, CommitFiles DEF TypeOK
<1>17. ASSUME Stop PROVE TypeOK'
  BY <1>6, <1>17 DEF Stop
<1>18. ASSUME NEW v \in Version, NEW doc \in 0..MaxEntries, StartRebuild(v, doc) PROVE TypeOK'
  <2>1. /\ rebuilds' = rebuilds + 1 /\ rebuilds < MaxRebuilds
        /\ UNCHANGED <<dir, synced, snaps, marker, last>>
        /\ proc' = [Launch("rebuild", v, doc) EXCEPT !.at = IF Healthy(dir) THEN @ ELSE "building"]
    BY <1>18 DEF StartRebuild
  <2>2. Launch("rebuild", v, doc) \in Process
    BY <1>4 DEF Launch, Process, Command
  <2>3. proc' \in Process
    BY <1>4, <2>1, <2>2 DEF Process
  <2>4. rebuilds' \in 0..MaxRebuilds
    BY <1>1, <2>1, BoundsAssumption
  <2> QED
    BY <1>1, <2>1, <2>3, <2>4 DEF TypeOK
<1>19. ASSUME BuildScratch PROVE TypeOK'
  <2> DEFINE closed == IF Healthy(dir) THEN Folded ELSE dir
  <2>1. /\ proc.at = "building" /\ proc \in Process
        /\ IF closed = dir THEN UNCHANGED <<dir, synced>> ELSE Write(closed)
        /\ \/ proc' = [proc EXCEPT !.at = IF closed[Db] = None THEN "renaming" ELSE "asiding",
                                   !.found = [db |-> closed[Db], wal |-> closed[Wal]]]
           \/ proc' = Down
        /\ UNCHANGED <<snaps, marker, rebuilds, last>>
    BY <1>2, <1>4, <1>19 DEF BuildScratch
  <2>2. closed \in [Name -> File \cup {None}]
    <3>1. Healthy(dir) => Live \in File
      BY <1>1, ReadFields DEF Healthy, Live
    <3> QED
      BY <1>1, <3>1, Names DEF Folded
  <2> HIDE DEF closed
  <2>3. dir' \in [Name -> File \cup {None}] /\ synced' \in [Name -> File \cup {None}]
    BY <1>1, <2>1, <2>2 DEF Write
  <2>4. proc' \in Process \cup {Down}
    <3>1. [db |-> closed[Db], wal |-> closed[Wal]] \in [db : File \cup {None}, wal : File \cup {None}]
      BY <2>2, Names
    <3> QED
      BY <1>4, <2>1, <3>1 DEF Process
  <2> QED
    BY <1>1, <2>1, <2>3, <2>4 DEF TypeOK
<1>20. ASSUME NEW from \in Name, NEW to \in Name, NEW next \in Step, proc.at \in Step,
              CopyAside(from, to, next)
       PROVE  TypeOK'
  <2>1. [dir EXCEPT ![to] = dir[from]] \in [Name -> File \cup {None}]
    BY <1>1
  <2>2. /\ dir' \in {dir, [dir EXCEPT ![to] = dir[from]]} /\ synced' \in {synced, dir'}
        /\ At(next) \/ proc' = Down
        /\ UNCHANGED <<snaps, marker, rebuilds, last>>
    BY <1>20 DEF CopyAside, Write
  <2>3. dir' \in [Name -> File \cup {None}] /\ synced' \in [Name -> File \cup {None}]
    BY <1>1, <2>1, <2>2
  <2> QED
    BY <1>1, <1>2, <1>20, <2>2, <2>3, AtStep DEF TypeOK
<1>21. proc # Down /\ proc.cmd = "rebuild" => rebuilds \in 1..MaxRebuilds
  BY <1>1 DEF IInv, AsidesFit
<1>22. proc.at \in Swapping => rebuilds \in 1..MaxRebuilds /\ proc.at \in Step
  BY <1>21 DEF IInv, SwapFits, Swapping, Step, Down
<1>23. ASSUME KeepFile PROVE TypeOK'
  <2>1. proc.at = "asiding" /\ CopyAside(Db, Aside(rebuilds), "asidingwal")
    BY <1>23 DEF KeepFile
  <2>2. rebuilds \in 1..MaxRebuilds
    BY <1>22, <2>1 DEF Swapping
  <2> QED
    BY <1>4, <1>20, <2>1, <2>2, Names
<1>24. ASSUME KeepWal PROVE TypeOK'
  <2>1. proc.at = "asidingwal"
    BY <1>24 DEF KeepWal
  <2>2. rebuilds \in 1..MaxRebuilds
    BY <1>22, <2>1 DEF Swapping
  <2>3. CASE CopyAside(Wal, AsideWal(rebuilds), "clearing")
    BY <1>4, <1>20, <2>1, <2>2, <2>3, Names
  <2>4. CASE At("clearing") /\ UNCHANGED <<dir, synced, snaps, marker, rebuilds, last>>
    BY <1>4, <1>7, <2>1, <2>4
  <2> QED
    BY <1>24, <2>3, <2>4 DEF KeepWal
<1>25. ASSUME RemoveSideFiles PROVE TypeOK'
  <2>1. /\ proc.at = "clearing" /\ dir' = [dir EXCEPT ![Wal] = None] /\ At("syncing")
        /\ UNCHANGED <<synced, snaps, marker, rebuilds, last>>
    BY <1>25 DEF RemoveSideFiles
  <2> QED
    BY <1>1, <1>2, <1>4, <2>1, AtStep DEF TypeOK
<1>26. ASSUME SyncRemoval PROVE TypeOK'
  <2>1. /\ proc.at = "syncing" /\ (At("renaming") \/ proc' = Down) /\ synced' \in {dir, synced}
        /\ UNCHANGED <<dir, snaps, marker, rebuilds, last>>
    BY <1>26 DEF SyncRemoval, SyncDir, SyncedDir, At
  <2> QED
    BY <1>1, <1>2, <1>4, <2>1, AtStep DEF TypeOK
<1>27. ASSUME RenameInPlace PROVE TypeOK'
  <2> DEFINE file == [schema |-> SchemaOf[proc.version], data |-> proc.doc, ok |-> TRUE, of |-> rebuilds]
  <2>1. /\ proc.at = "renaming" /\ UNCHANGED <<synced, snaps, marker, rebuilds, last>>
        /\ \/ dir' = [dir EXCEPT ![Db] = file] /\ At("finishing")
           \/ UNCHANGED dir /\ proc' = Down
    BY <1>27 DEF RenameInPlace
  <2>2. file \in File
    <3>1. proc \in Process /\ proc.version \in Version /\ proc.doc \in 0..MaxEntries
      BY <1>1, <1>4, <2>1, Running
    <3> QED
      BY <1>1, <3>1, SchemasAssumption DEF File
  <2> HIDE DEF file
  <2>3. dir' \in [Name -> File \cup {None}]
    BY <1>1, <2>1, <2>2, Names
  <2> QED
    BY <1>1, <1>2, <1>4, <2>1, <2>3, AtStep DEF TypeOK
<1>28. ASSUME SyncSwap PROVE TypeOK'
  <2>1. /\ proc' = Down /\ synced' \in {dir, synced}
        /\ UNCHANGED <<dir, snaps, marker, rebuilds, last>>
    BY <1>28 DEF SyncSwap, SyncDir, SyncedDir
  <2> QED
    BY <1>1, <2>1 DEF TypeOK
<1>29. ASSUME Kill PROVE TypeOK'
  BY <1>1, <1>29 DEF Kill, TypeOK
<1>30. ASSUME PowerCut PROVE TypeOK'
  <2>1. /\ dir' \in [Name -> {dir[n] : n \in Name} \cup {synced[n] : n \in Name}]
        /\ synced' = dir' /\ proc' = Down /\ UNCHANGED <<snaps, marker, rebuilds>>
    BY <1>30 DEF PowerCut
  <2>2. dir' \in [Name -> File \cup {None}]
    BY <1>1, <2>1
  <2>3. last' \in {last, None} \/ (dir'[Db] # None /\ last' = ContentOf(Read(dir')))
    BY <1>30 DEF PowerCut
  <2>4. last' \in Content \cup {None}
    <3>1. dir'[Db] # None => Read(dir') \in File
      BY <2>2, ReadFields
    <3> QED
      BY <1>1, <2>3, <3>1, FileFields
  <2> QED
    BY <1>1, <2>1, <2>2, <2>4 DEF TypeOK
<1>31. ASSUME Damage PROVE TypeOK'
  <2>1. /\ dir[Db] # None /\ dir' = [dir EXCEPT ![Db].ok = FALSE]
        /\ synced' = [synced EXCEPT ![Db] = dir'[Db]] /\ last' = None
        /\ UNCHANGED <<snaps, marker, proc, rebuilds>>
    BY <1>31 DEF Damage, Healthy
  <2>2. [dir[Db] EXCEPT !.ok = FALSE] \in File
    BY <1>1, <2>1 DEF File
  <2>3. dir' \in [Name -> File \cup {None}] /\ synced' \in [Name -> File \cup {None}]
    BY <1>1, <2>1, <2>2, Names
  <2> QED
    BY <1>1, <2>1, <2>3 DEF TypeOK
<1>32. ASSUME UNCHANGED vars PROVE TypeOK'
  BY <1>1, <1>32 DEF TypeOK, vars
<1> QED
  BY <1>8, <1>9, <1>10, <1>11, <1>12, <1>13, <1>14, <1>15, <1>16, <1>17, <1>18, <1>19, <1>23,
     <1>24, <1>25, <1>26, <1>27, <1>28, <1>29, <1>30, <1>31, <1>32 DEF Next, Command
-----------------------------------------------------------------------------
(* What each action does to the files, name by name.                        *)

LEMMA StartSteps ==
  ASSUME IInv, NEW cmd \in Command \ {"rebuild"}, NEW v \in Version, Start(cmd, v)
  PROVE  /\ proc = Down /\ proc' = Launch(cmd, v, 0) /\ proc'.at = "guarding" /\ proc'.cmd = cmd
         /\ dir'[Db] # None /\ (dir[Db] # None => dir' = dir)
         /\ dir[Db] = None => dir'[Db].ok
         /\ \A n \in Name \ {Db} : dir'[n] = dir[n]
         /\ \/ dir[Wal] = None /\ synced' = dir'
            \/ dir[Wal] # None /\ dir' = dir /\ synced' = synced
         /\ UNCHANGED <<snaps, marker, rebuilds, last>>
<1> DEFINE blank == [schema |-> Empty, data |-> 0, ok |-> TRUE, of |-> 0]
           opened == IF dir[Db] = None THEN [dir EXCEPT ![Db] = blank] ELSE dir
<1>1. dir \in [Name -> File \cup {None}] /\ (dir[Wal] # None => dir[Db] # None)
  BY DEF IInv, TypeOK, TailsFit, Either
<1>2. blank # None /\ blank.ok
  <2>1. blank \in File
    BY BoundsAssumption DEF File
  <2> QED
    BY <2>1, FileFields
<1>3. /\ proc = Down /\ proc' = Launch(cmd, v, 0) /\ UNCHANGED <<snaps, marker, rebuilds, last>>
      /\ IF dir[Wal] = None THEN Write(opened) ELSE UNCHANGED <<dir, synced>>
  BY DEF Start
<1>4. /\ opened[Db] # None /\ (dir[Db] # None => opened = dir) /\ (dir[Db] = None => opened[Db].ok)
      /\ \A n \in Name \ {Db} : opened[n] = dir[n]
  BY <1>1, <1>2, Names
<1> HIDE DEF opened
<1>5. proc'.at = "guarding" /\ proc'.cmd = cmd
  BY <1>3 DEF Launch
<1> QED
  BY <1>1, <1>3, <1>4, <1>5 DEF Write

LEMMA UpSteps ==
  ASSUME IInv, Up
  PROVE  /\ proc.at = "migrating" /\ dir[Db] # None /\ UNCHANGED <<snaps, marker, rebuilds, last>>
         /\ Pending(dir, proc.version)
         /\ \/ Close
            \/ \E file \in File :
                 /\ Commit(file) /\ UNCHANGED proc /\ file.of = dir[Db].of /\ file.ok = dir[Db].ok
                 /\ file.data = Live.data /\ file.schema \in Schema
<1>1. /\ proc.at = "migrating" /\ dir[Db] # None /\ proc.version \in Version
      /\ UNCHANGED <<snaps, marker, rebuilds, last>> /\ Pending(dir, proc.version)
  BY Running DEF Up, IInv, OpenedFits, Opened, Step
<1>2. Live \in File /\ Live.of = dir[Db].of /\ Live.ok = dir[Db].ok
  BY <1>1, ReadFields DEF IInv, TypeOK, Live
<1> DEFINE file == [Live EXCEPT !.schema = Migration[proc.version][@]]
<1>3. Migration[proc.version][Live.schema] \in Schema
  BY <1>1, SchemasAssumption DEF Pending, Live
<1>4. /\ file \in File /\ file.of = dir[Db].of /\ file.ok = dir[Db].ok
      /\ file.data = Live.data /\ file.schema \in Schema
  BY <1>2, <1>3 DEF File
<1>5. \/ Commit(file) /\ UNCHANGED proc
      \/ Close
  BY DEF Up
<1> HIDE DEF file
<1> QED
  BY <1>1, <1>4, <1>5

LEMMA EntrySteps ==
  ASSUME IInv, MakeEntry
  PROVE  /\ proc.at = "serving" /\ dir[Db] # None /\ UNCHANGED <<snaps, marker, proc, rebuilds>>
         /\ \E file \in File :
              /\ Commit(file) /\ file.of = dir[Db].of /\ file.ok = dir[Db].ok
              /\ file.data = Live.data + 1 /\ file.schema = Live.schema
              /\ last' = ContentOf(file)
<1>1. /\ proc.at = "serving" /\ dir[Db] # None /\ UNCHANGED <<snaps, marker, proc, rebuilds>>
      /\ Live.data < MaxEntries
  BY DEF MakeEntry, IInv, OpenedFits, Opened
<1>2. Live \in File /\ Live.of = dir[Db].of /\ Live.ok = dir[Db].ok
  BY <1>1, ReadFields DEF IInv, TypeOK, Live
<1> DEFINE file == [Live EXCEPT !.data = @ + 1]
<1>3. Live.data + 1 \in 0..MaxEntries
  BY <1>1, <1>2, BoundsAssumption, FileFields
<1>4. /\ file \in File /\ file.of = dir[Db].of /\ file.ok = dir[Db].ok
      /\ file.data = Live.data + 1 /\ file.schema = Live.schema
  BY <1>2, <1>3 DEF File
<1>5. Commit(file) /\ last' = ContentOf(file)
  BY DEF MakeEntry
<1> HIDE DEF file
<1> QED
  BY <1>1, <1>4, <1>5

\* The handle is closed, so that a -wal left belongs to a file that was not healthy.
LEMMA BuildSteps ==
  ASSUME IInv, BuildScratch
  PROVE  /\ proc.at = "building" /\ proc.cmd = "rebuild" /\ UNCHANGED <<snaps, marker, rebuilds, last>>
         /\ \/ UNCHANGED <<dir, synced>>
            \/ Healthy(dir) /\ synced' = dir' /\ dir'[Wal] = None
         /\ Live' = Live /\ (dir'[Db] = None <=> dir[Db] = None)
         /\ dir[Db] # None => dir'[Db].ok = dir[Db].ok /\ dir'[Db].of = dir[Db].of
         /\ dir'[Wal] # None => dir'[Db] # None /\ ~dir'[Db].ok
         /\ \A n \in Name \ {Db, Wal} : dir'[n] = dir[n]
         /\ \/ /\ proc' \in Process /\ proc'.cmd = "rebuild" /\ proc'.doc = proc.doc
               /\ proc'.at = IF dir'[Db] = None THEN "renaming" ELSE "asiding"
               /\ proc'.found = [db |-> dir'[Db], wal |-> dir'[Wal]]
            \/ proc' = Down
<1> DEFINE closed == IF Healthy(dir) THEN Folded ELSE dir
<1>1. /\ proc.at = "building" /\ UNCHANGED <<snaps, marker, rebuilds, last>>
      /\ IF closed = dir THEN UNCHANGED <<dir, synced>> ELSE Write(closed)
      /\ \/ proc' = [proc EXCEPT !.at = IF closed[Db] = None THEN "renaming" ELSE "asiding",
                                 !.found = [db |-> closed[Db], wal |-> closed[Wal]]]
         \/ proc' = Down
  BY DEF BuildScratch
<1>2. /\ proc \in Process /\ proc.cmd = "rebuild" /\ TypeOK
      /\ dir \in [Name -> File \cup {None}]
      /\ dir[Wal] # None => dir[Db] # None /\ dir[Wal].schema # Empty
  BY <1>1, Running DEF IInv, SwapFits, Swapping, Step, TypeOK, TailsFit, Either
<1>3. CASE Healthy(dir)
  <2>1. closed = Folded
    BY <1>3
  <2>2. dir[Db] # None /\ Live \in File /\ Live # None /\ Live.ok = dir[Db].ok /\ Live.of = dir[Db].of
    BY <1>2, <1>3, ReadFields, FileFields DEF Healthy, Live
  <2>3. /\ closed \in [Name -> File \cup {None}] /\ closed[Db] = Live /\ closed[Wal] = None
        /\ \A n \in Name \ {Db, Wal} : closed[n] = dir[n]
    BY <1>2, <2>1, <2>2, Names DEF Folded
  <2>4. Read(closed) = Live
    BY <2>3 DEF Read
  <2> HIDE DEF closed
  <2>5. dir' = closed /\ (UNCHANGED <<dir, synced>> \/ synced' = dir')
    BY <1>1 DEF Write
  <2>6. Live' = Live
    BY <2>4, <2>5 DEF Live
  <2>7. \/ /\ proc' \in Process /\ proc'.cmd = "rebuild" /\ proc'.doc = proc.doc
           /\ proc'.at = IF dir'[Db] = None THEN "renaming" ELSE "asiding"
           /\ proc'.found = [db |-> dir'[Db], wal |-> dir'[Wal]]
        \/ proc' = Down
    <3>1. [db |-> closed[Db], wal |-> closed[Wal]] \in [db : File \cup {None}, wal : File \cup {None}]
      BY <2>3, Names
    <3> QED
      BY <1>1, <1>2, <2>5, <3>1 DEF Process, Step
  <2> QED
    BY <1>1, <1>2, <1>3, <2>2, <2>3, <2>5, <2>6, <2>7
<1>4. CASE ~Healthy(dir)
  <2>1. closed = dir
    BY <1>4
  <2> HIDE DEF closed
  <2>2. UNCHANGED <<dir, synced>> /\ closed = dir'
    BY <1>1, <2>1
  <2>3. dir[Wal] # None => ~dir[Db].ok
    BY <1>2, <1>4, ReadFields DEF Healthy
  <2>4. Live' = Live
    BY <2>2 DEF Live
  <2>5. \/ /\ proc' \in Process /\ proc'.cmd = "rebuild" /\ proc'.doc = proc.doc
           /\ proc'.at = IF dir'[Db] = None THEN "renaming" ELSE "asiding"
           /\ proc'.found = [db |-> dir'[Db], wal |-> dir'[Wal]]
        \/ proc' = Down
    <3>1. [db |-> closed[Db], wal |-> closed[Wal]] \in [db : File \cup {None}, wal : File \cup {None}]
      BY <1>2, <2>1, Names
    <3> QED
      BY <1>1, <1>2, <2>2, <3>1 DEF Process, Step
  <2> QED
    BY <1>1, <1>2, <2>2, <2>3, <2>4, <2>5
<1> QED
  BY <1>3, <1>4

LEMMA CopySteps ==
  ASSUME IInv, NEW from \in Name, NEW to \in Name, NEW next \in Step, CopyAside(from, to, next)
  PROVE  /\ \A n \in Name \ {to} : dir'[n] = dir[n]
         /\ dir'[to] \in {dir[to], dir[from]}
         /\ \/ synced' = dir' /\ dir'[to] = dir[from] /\ At(next)
            \/ synced' = synced /\ proc' = Down
         /\ UNCHANGED <<snaps, marker, rebuilds, last>>
<1>1. dir \in [Name -> File \cup {None}]
  BY DEF IInv, TypeOK
<1> QED
  BY <1>1 DEF CopyAside, Write

\* The names a rebuild keeps the file under are not the file's own.
LEMMA AsideNames ==
  ASSUME IInv, proc.at \in Swapping
  PROVE  /\ rebuilds \in 1..MaxRebuilds /\ proc \in Process /\ proc.cmd = "rebuild"
         /\ Aside(rebuilds) \in Name \ {Db, Wal} /\ AsideWal(rebuilds) \in Name \ {Db, Wal}
         /\ Aside(rebuilds) # AsideWal(rebuilds)
         /\ Aside(rebuilds)[2] = rebuilds /\ AsideWal(rebuilds)[2] = rebuilds
<1>1. proc \in Process /\ proc # Down /\ proc.cmd = "rebuild" /\ rebuilds \in 0..MaxRebuilds
  BY Running DEF IInv, SwapFits, Swapping, Step, TypeOK
<1>2. rebuilds \in 1..MaxRebuilds
  BY <1>1, BoundsAssumption DEF IInv, AsidesFit
<1> QED
  BY <1>1, <1>2, Names

LEMMA DamageSteps ==
  ASSUME IInv, Damage
  PROVE  /\ proc = Down /\ Healthy(dir) /\ dir[Db] # None
         /\ dir'[Db] # None /\ ~dir'[Db].ok /\ dir'[Db].of = dir[Db].of
         /\ dir'[Db].data = dir[Db].data
         /\ synced'[Db] = dir'[Db]
         /\ \A n \in Name \ {Db} : dir'[n] = dir[n] /\ synced'[n] = synced[n]
         /\ last' = None /\ UNCHANGED <<snaps, marker, proc, rebuilds>>
<1>1. /\ dir \in [Name -> File \cup {None}] /\ synced \in [Name -> File \cup {None}]
  BY DEF IInv, TypeOK
<1> DEFINE file == [dir[Db] EXCEPT !.ok = FALSE]
<1>2. /\ proc = Down /\ Healthy(dir) /\ dir[Db] # None /\ dir' = [dir EXCEPT ![Db] = file]
      /\ synced' = [synced EXCEPT ![Db] = dir'[Db]] /\ last' = None
      /\ UNCHANGED <<snaps, marker, proc, rebuilds>>
  BY DEF Damage, Healthy
<1>3. dir[Db] \in File
  BY <1>1, <1>2, Names
<1>4. file \in File /\ ~file.ok /\ file.of = dir[Db].of /\ file.data = dir[Db].data
  BY <1>3 DEF File
<1> HIDE DEF file
<1>5. file # None
  BY <1>4, FileFields
<1> QED
  BY <1>1, <1>2, <1>4, <1>5, Names
-----------------------------------------------------------------------------
(* A -wal lies beside the file that wrote it.                               *)

LEMMA TailsStep ==
  ASSUME IInv, [Next]_vars
  PROVE  TailsFit'
<1>1. /\ TypeOK /\ TailsFit /\ Db \in Name /\ Wal \in Name /\ Db # Wal
      /\ dir \in [Name -> File \cup {None}] /\ synced \in [Name -> File \cup {None}]
  BY Names DEF IInv, TypeOK
<1>2. ASSUME UNCHANGED <<dir, synced>> PROVE TailsFit'
  BY <1>1, <1>2 DEF TailsFit, Either
<1>3. ASSUME synced' = dir', dir'[Wal] = None PROVE TailsFit'
  BY <1>3 DEF TailsFit, Either
<1>4. ASSUME Close PROVE TailsFit'
  BY <1>1, <1>3, <1>4, CloseFiles
<1>5. ASSUME dir[Db] # None, NEW file \in File, file.of = dir[Db].of, file.ok = dir[Db].ok,
             file.schema # Empty, file.data >= Live.data, dir[Db].ok, Commit(file)
      PROVE  TailsFit'
  <2>1. /\ dir'[Wal] = file /\ dir'[Wal] # None /\ dir'[Db] = dir[Db]
        /\ dir[Wal] = None => synced'[Wal] = None /\ synced'[Db] = dir[Db]
        /\ dir[Wal] # None => synced' = synced
    BY <1>1, <1>5, CommitFiles
  <2>2. /\ dir[Wal] = None => Live = dir[Db]
        /\ dir[Wal] # None => Live.data = dir[Wal].data /\ dir[Wal] \in File
    BY <1>1, <1>5, ReadFields DEF Live
  <2>3. /\ file.data \in Nat /\ dir[Db].data \in Nat /\ dir[Db] \in File
        /\ dir[Wal] # None => dir[Wal].data \in Nat
        /\ synced[Wal] # None => synced[Wal].data \in Nat
    BY <1>1, <1>5, FileFields
  <2>4. CASE dir[Wal] = None
    BY <1>5, <2>1, <2>2, <2>3, <2>4 DEF TailsFit, Either
  <2>5. CASE dir[Wal] # None
    <3>1. synced[Db] = dir[Db] /\ dir[Db].data <= file.data
          /\ (synced[Wal] # None => synced[Wal].data <= file.data)
      BY <1>1, <1>5, <2>2, <2>3, <2>5 DEF TailsFit, Either
    <3> QED
      BY <1>1, <1>5, <2>1, <2>5, <3>1 DEF TailsFit, Either
  <2> QED
    BY <2>4, <2>5
<1>6. ASSUME NEW cmd \in Command \ {"rebuild"}, NEW v \in Version, Start(cmd, v) PROVE TailsFit'
  <2>1. /\ dir'[Wal] = dir[Wal]
        /\ \/ dir[Wal] = None /\ synced' = dir'
           \/ dir' = dir /\ synced' = synced
    BY <1>1, <1>6, StartSteps
  <2> QED
    BY <1>2, <1>3, <2>1
<1>7. ASSUME Guard PROVE TailsFit'
  <2>1. Close \/ UNCHANGED <<dir, synced>>
    BY <1>7 DEF Guard, MarkSnapshotted
  <2> QED
    BY <1>2, <1>4, <2>1
<1>8. ASSUME WritePreUpgradeSnapshot PROVE TailsFit'
  BY <1>2, <1>4, <1>8 DEF WritePreUpgradeSnapshot
<1>9. ASSUME MarkCopied PROVE TailsFit'
  <2>1. Close \/ UNCHANGED <<dir, synced>>
    BY <1>9 DEF MarkCopied, MarkSnapshotted
  <2> QED
    BY <1>2, <1>4, <2>1
<1>10. ASSUME ApplyPreUpgradeRetention PROVE TailsFit'
  BY <1>2, <1>10 DEF ApplyPreUpgradeRetention
<1>11. ASSUME Up PROVE TailsFit'
  <2>1. dir[Db].ok /\ Live \in File
    BY <1>1, <1>11, UpSteps, ReadFields DEF IInv, OpenedFits, Opened, Live
  <2>2. Live.data \in Nat
    BY <2>1, FileFields
  <2>3. CASE Close
    BY <1>4, <2>3
  <2>4. CASE ~Close
    <3>1. PICK file \in File : /\ Commit(file) /\ file.of = dir[Db].of /\ file.ok = dir[Db].ok
                               /\ file.data = Live.data /\ file.schema \in Schema
      BY <1>11, <2>4, UpSteps
    <3>2. dir[Db] # None /\ file.schema # Empty /\ file.data >= Live.data
      BY <1>11, <2>2, <3>1, UpSteps, NamesAssumption
    <3> QED
      BY <1>5, <2>1, <3>1, <3>2
  <2> QED
    BY <2>3, <2>4
<1>12. ASSUME VerifySchema PROVE TailsFit'
  BY <1>2, <1>4, <1>12 DEF VerifySchema
<1>13. ASSUME MarkBooted PROVE TailsFit'
  BY <1>2, <1>13 DEF MarkBooted
<1>14. ASSUME MakeEntry PROVE TailsFit'
  <2>1. /\ dir[Db].ok /\ dir[Db] # None /\ Live \in File /\ Live.schema = SchemaOf[proc.version]
        /\ proc.version \in Version
    BY <1>1, <1>14, EntrySteps, ReadFields, Running DEF IInv, OpenedFits, Opened, Live, Step
  <2>2. Live.data \in Nat /\ Live.schema # Empty
    BY <2>1, FileFields, SchemasAssumption, NamesAssumption
  <2>3. PICK file \in File : /\ Commit(file) /\ file.of = dir[Db].of /\ file.ok = dir[Db].ok
                             /\ file.data = Live.data + 1 /\ file.schema = Live.schema
    BY <1>14, EntrySteps
  <2>4. file.data >= Live.data /\ file.schema # Empty
    BY <2>2, <2>3
  <2> QED
    BY <1>5, <2>1, <2>3, <2>4
<1>15. ASSUME Stop PROVE TailsFit'
  BY <1>4, <1>15 DEF Stop
<1>16. ASSUME NEW v \in Version, NEW doc \in 0..MaxEntries, StartRebuild(v, doc) PROVE TailsFit'
  BY <1>2, <1>16 DEF StartRebuild
<1>17. ASSUME BuildScratch PROVE TailsFit'
  BY <1>2, <1>3, <1>17, BuildSteps
<1>18. ASSUME NEW from \in Name, NEW to \in Name \ {Db, Wal}, NEW next \in Step,
              CopyAside(from, to, next), proc.at \in {"asiding", "asidingwal"}
       PROVE  TailsFit'
  <2>1. /\ dir'[Db] = dir[Db] /\ dir'[Wal] = dir[Wal] /\ synced' \in {dir', synced}
    BY <1>1, <1>18, CopySteps
  <2>2. dir[Wal] # None => dir[Wal] \in File
    BY <1>1
  <2>3. dir[Wal] # None => dir[Wal].data \in Nat
    BY <2>2, FileFields
  <2>4. CASE synced' = synced
    BY <1>1, <2>1, <2>4 DEF TailsFit, Either
  <2>5. CASE synced' = dir'
    BY <1>1, <2>1, <2>3, <2>5 DEF TailsFit, Either
  <2> QED
    BY <2>1, <2>4, <2>5
<1>19. ASSUME KeepFile PROVE TailsFit'
  <2>1. proc.at = "asiding" /\ CopyAside(Db, Aside(rebuilds), "asidingwal")
    BY <1>19 DEF KeepFile
  <2> QED
    BY <1>1, <1>18, <2>1, AsideNames DEF Swapping, Step
<1>20. ASSUME KeepWal PROVE TailsFit'
  <2>1. /\ proc.at = "asidingwal"
        /\ CopyAside(Wal, AsideWal(rebuilds), "clearing") \/ UNCHANGED <<dir, synced>>
    BY <1>20 DEF KeepWal
  <2> QED
    BY <1>1, <1>2, <1>18, <2>1, AsideNames DEF Swapping, Step
<1>21. ASSUME RemoveSideFiles PROVE TailsFit'
  <2>1. /\ proc.at = "clearing" /\ dir'[Wal] = None /\ dir'[Db] = dir[Db] /\ synced' = synced
    BY <1>1, <1>21 DEF RemoveSideFiles
  <2>2. dir[Wal] # None => ~dir[Db].ok
    BY <2>1 DEF IInv, SwapFits, Swapping
  <2> QED
    BY <1>1, <2>1, <2>2 DEF TailsFit, Either
<1>22. ASSUME SyncRemoval PROVE TailsFit'
  <2>1. proc.at = "syncing" /\ synced' \in {dir, synced} /\ dir' = dir
    BY <1>22 DEF SyncRemoval, SyncDir, SyncedDir
  <2>2. dir[Wal] = None
    BY <2>1 DEF IInv, SwapFits, Swapping
  <2> QED
    BY <1>2, <1>3, <2>1, <2>2
<1>23. ASSUME RenameInPlace PROVE TailsFit'
  <2>1. proc.at = "renaming" /\ dir'[Wal] = dir[Wal] /\ synced' = synced
    BY <1>1, <1>23 DEF RenameInPlace
  <2>2. dir[Wal] = None /\ synced[Wal] = None
    BY <2>1 DEF IInv, SwapFits, Swapping
  <2> QED
    BY <2>1, <2>2 DEF TailsFit, Either
<1>24. ASSUME SyncSwap PROVE TailsFit'
  <2>1. proc.at = "finishing" /\ synced' \in {dir, synced} /\ dir' = dir
    BY <1>24 DEF SyncSwap, SyncDir, SyncedDir
  <2>2. dir[Wal] = None
    BY <2>1 DEF IInv, SwapFits, Swapping
  <2> QED
    BY <1>2, <1>3, <2>1, <2>2
<1>25. ASSUME Kill PROVE TailsFit'
  BY <1>2, <1>25 DEF Kill
<1>26. ASSUME PowerCut PROVE TailsFit'
  <2>1. dir'[Db] \in Either(Db) /\ dir'[Wal] \in Either(Wal) /\ synced' = dir'
    BY <1>1, <1>26 DEF PowerCut, Either
  <2>2. dir'[Wal] # None => dir'[Wal] \in File /\ dir'[Db] \in File
    BY <1>1, <2>1 DEF TailsFit, Either
  <2>3. dir'[Wal] # None => dir'[Wal].data \in Nat /\ dir'[Db].data \in Nat
    BY <2>2, FileFields
  <2> QED
    BY <1>1, <2>1, <2>3 DEF TailsFit, Either
<1>27. ASSUME Damage PROVE TailsFit'
  BY <1>1, <1>27, DamageSteps DEF TailsFit, Either
<1>28. ASSUME UNCHANGED vars PROVE TailsFit'
  BY <1>2, <1>28 DEF vars
<1> QED
  BY <1>6, <1>7, <1>8, <1>9, <1>10, <1>11, <1>12, <1>13, <1>14, <1>15, <1>16, <1>17, <1>19, <1>20,
     <1>21, <1>22, <1>23, <1>24, <1>25, <1>26, <1>27, <1>28 DEF Next, Command
-----------------------------------------------------------------------------
(* What a command knows of the file.                                        *)

LEMMA StepNames ==
  /\ Opened \cup Swapping = Step /\ Opened \cap Swapping = {} /\ Down.at \notin Step
  /\ "down" \notin Opened /\ "down" \notin Swapping
BY DEF Opened, Swapping, Step, Down

LEMMA RunningHere ==
  ASSUME IInv, proc.at \in Step
  PROVE  proc \in Process /\ proc # Down /\ proc.version \in Version /\ proc.cmd \in Command
BY Running DEF IInv

LEMMA OpenedStep ==
  ASSUME IInv, [Next]_vars
  PROVE  OpenedFits'
<1>1. /\ TypeOK /\ TailsFit /\ OpenedFits /\ Db \in Name /\ Wal \in Name /\ Db # Wal
      /\ dir \in [Name -> File \cup {None}]
  BY Names DEF IInv, TypeOK
<1>2. ASSUME proc'.at \notin Opened PROVE OpenedFits'
  BY <1>2 DEF OpenedFits
<1>3. ASSUME proc' = Down PROVE OpenedFits'
  BY <1>2, <1>3, StepNames DEF Down
<1>4. ASSUME Close PROVE OpenedFits'
  BY <1>3, <1>4 DEF Close
<1>5. ASSUME UNCHANGED <<dir, synced>> PROVE Live' = Live /\ Healthy(dir)' = Healthy(dir)
  BY <1>5 DEF Live, Healthy, Read
<1>6. ASSUME UNCHANGED <<dir, synced>>, proc.at \in {"guarding", "copying", "marking"}, dir[Db].ok,
             At("copying") \/ At("marking") \/ At("pruning")
      PROVE  OpenedFits'
  <2>1. proc \in Process /\ proc'.at \in {"copying", "marking", "pruning"} /\ proc'.cmd = proc.cmd
        /\ proc'.version = proc.version /\ proc'.doc = proc.doc
    BY <1>6, RunningHere, AtStep DEF Step
  <2>2. proc.at \in Opened
    BY <1>6 DEF Opened
  <2> QED
    BY <1>1, <1>5, <1>6, <2>1, <2>2 DEF OpenedFits
<1>7. ASSUME UNCHANGED <<dir, synced>>, proc.at \in {"guarding", "pruning"}, dir[Db].ok, At(Guarded)
      PROVE  OpenedFits'
  <2>1. /\ proc'.at = Guarded /\ proc'.cmd = proc.cmd
        /\ Guarded = IF proc.cmd = "rebuild" THEN "building" ELSE "migrating"
    BY <1>7, RunningHere, AtStep DEF Step, Guarded
  <2>2. proc.at \in Opened
    BY <1>7 DEF Opened
  <2>3. CASE proc.cmd = "rebuild"
    BY <1>2, <2>1, <2>3 DEF Opened
  <2>4. CASE proc.cmd # "rebuild"
    BY <1>1, <1>7, <2>1, <2>2, <2>4 DEF OpenedFits
  <2> QED
    BY <2>3, <2>4
<1>8. ASSUME NEW file \in File, proc.at \in {"migrating", "serving"}, Commit(file), file.ok = dir[Db].ok,
             file.of = dir[Db].of, proc.at = "serving" => file.schema = Live.schema, UNCHANGED proc
      PROVE  OpenedFits'
  <2>1. /\ proc.at \in Opened /\ dir[Db] # None /\ dir[Db].ok /\ proc.cmd # "rebuild"
        /\ synced[Db] = dir[Db]
        /\ proc.at = "serving" => Live.schema = SchemaOf[proc.version]
    BY <1>1, <1>8 DEF OpenedFits, Opened
  <2>2. dir'[Db] = dir[Db] /\ synced'[Db] = dir[Db] /\ Live' = file
    BY <1>1, <1>8, <2>1, CommitFiles
  <2> QED
    BY <1>8, <2>1, <2>2 DEF OpenedFits
<1>9. ASSUME NEW cmd \in Command \ {"rebuild"}, NEW v \in Version, Start(cmd, v) PROVE OpenedFits'
  <2>1. /\ proc'.at = "guarding" /\ proc'.cmd = cmd /\ dir'[Db] # None
        /\ \/ synced' = dir'
           \/ dir[Wal] # None /\ dir' = dir /\ synced' = synced
    BY <1>9, StartSteps
  <2>2. synced'[Db] = dir'[Db]
    BY <1>1, <2>1 DEF TailsFit
  <2> QED
    BY <1>9, <2>1, <2>2 DEF OpenedFits
<1>10. ASSUME Guard PROVE OpenedFits'
  <2>1. proc.at = "guarding" /\ dir[Db] # None
    BY <1>1, <1>10 DEF Guard, OpenedFits, Opened
  <2>2. Live.ok => dir[Db].ok
    BY <1>1, <2>1, ReadFields DEF Live
  <2>3. CASE Close
    BY <1>4, <2>3
  <2>4. CASE ~Close
    <3>1. /\ Live.ok /\ UNCHANGED <<dir, synced>>
          /\ At(Guarded) \/ At("copying")
      BY <1>10, <2>4 DEF Guard, MarkSnapshotted
    <3> QED
      BY <1>6, <1>7, <2>1, <2>2, <3>1
  <2> QED
    BY <2>3, <2>4
<1>11. ASSUME WritePreUpgradeSnapshot PROVE OpenedFits'
  <2>1. proc.at = "copying" /\ dir[Db].ok
    BY <1>1, <1>11 DEF WritePreUpgradeSnapshot, OpenedFits, Opened
  <2>2. (At("marking") /\ UNCHANGED <<dir, synced>>) \/ Close
    BY <1>11 DEF WritePreUpgradeSnapshot
  <2> QED
    BY <1>4, <1>6, <2>1, <2>2
<1>12. ASSUME MarkCopied PROVE OpenedFits'
  <2>1. proc.at = "marking" /\ dir[Db].ok
    BY <1>1, <1>12 DEF MarkCopied, OpenedFits, Opened
  <2>2. (At("pruning") /\ UNCHANGED <<dir, synced>>) \/ Close
    BY <1>12 DEF MarkCopied, MarkSnapshotted
  <2> QED
    BY <1>4, <1>6, <2>1, <2>2
<1>13. ASSUME ApplyPreUpgradeRetention PROVE OpenedFits'
  <2>1. proc.at = "pruning" /\ dir[Db].ok /\ At(Guarded) /\ UNCHANGED <<dir, synced>>
    BY <1>1, <1>13 DEF ApplyPreUpgradeRetention, OpenedFits, Opened
  <2> QED
    BY <1>7, <2>1
<1>14. ASSUME Up PROVE OpenedFits'
  <2>1. CASE Close
    BY <1>4, <2>1
  <2>2. CASE ~Close
    <3>1. PICK file \in File : /\ Commit(file) /\ UNCHANGED proc /\ file.of = dir[Db].of
                               /\ file.ok = dir[Db].ok
      BY <1>14, <2>2, UpSteps
    <3>2. proc.at = "migrating"
      BY <1>14, UpSteps
    <3> QED
      BY <1>8, <3>1, <3>2
  <2> QED
    BY <2>1, <2>2
<1>15. ASSUME VerifySchema PROVE OpenedFits'
  <2>1. /\ proc.at = "migrating"
        /\ \/ Close
           \/ /\ At("verified") /\ UNCHANGED <<dir, synced>>
              /\ Live.schema = SchemaOf[proc.version] /\ proc.cmd = "serve"
    BY <1>15 DEF VerifySchema
  <2>2. \/ dir[Db] # None /\ dir[Db].ok /\ synced[Db] = dir[Db]
        \/ Close
    BY <1>1, <2>1 DEF OpenedFits, Opened
  <2>3. At("verified") => proc'.at = "verified" /\ proc'.cmd = proc.cmd /\ proc'.version = proc.version
    BY <2>1, RunningHere, AtStep DEF Step
  <2> QED
    BY <1>4, <1>5, <2>1, <2>2, <2>3 DEF OpenedFits
<1>16. ASSUME MarkBooted PROVE OpenedFits'
  <2>1. proc.at = "verified" /\ At("serving") /\ UNCHANGED <<dir, synced>>
    BY <1>16 DEF MarkBooted
  <2>2. /\ dir[Db] # None /\ dir[Db].ok /\ synced[Db] = dir[Db] /\ proc.cmd # "rebuild"
        /\ Live.schema = SchemaOf[proc.version]
    BY <1>1, <2>1 DEF OpenedFits, Opened
  <2>3. proc'.at = "serving" /\ proc'.cmd = proc.cmd /\ proc'.version = proc.version
    BY <2>1, RunningHere, AtStep DEF Step
  <2> QED
    BY <1>5, <2>1, <2>2, <2>3 DEF OpenedFits
<1>17. ASSUME MakeEntry PROVE OpenedFits'
  <2>1. PICK file \in File : /\ Commit(file) /\ file.of = dir[Db].of /\ file.ok = dir[Db].ok
                             /\ file.schema = Live.schema
    BY <1>17, EntrySteps
  <2>2. proc.at = "serving" /\ UNCHANGED proc
    BY <1>17, EntrySteps
  <2> QED
    BY <1>8, <2>1, <2>2
<1>18. ASSUME Stop PROVE OpenedFits'
  BY <1>4, <1>18 DEF Stop
<1>19. ASSUME NEW v \in Version, NEW doc \in 0..MaxEntries, StartRebuild(v, doc) PROVE OpenedFits'
  <2>1. /\ UNCHANGED <<dir, synced>> /\ (Healthy(dir) => Live.schema # SchemaOf[v] /\ doc = Live.data)
        /\ proc' = [Launch("rebuild", v, doc) EXCEPT !.at = IF Healthy(dir) THEN @ ELSE "building"]
    BY <1>19 DEF StartRebuild, Belongs
  <2>2. /\ proc'.at = IF Healthy(dir) THEN "guarding" ELSE "building"
        /\ proc'.cmd = "rebuild" /\ proc'.version = v /\ proc'.doc = doc
    BY <2>1 DEF Launch
  <2>3. CASE Healthy(dir)
    <3>1. dir[Db] # None
      BY <2>3 DEF Healthy
    <3> QED
      BY <1>5, <2>1, <2>2, <2>3, <3>1 DEF OpenedFits
  <2>4. CASE ~Healthy(dir)
    BY <1>2, <2>2, <2>4 DEF Opened
  <2> QED
    BY <2>3, <2>4
<1>20. ASSUME BuildScratch PROVE OpenedFits'
  <2>1. proc' = Down \/ proc'.at \in {"renaming", "asiding"}
    BY <1>20, BuildSteps
  <2> QED
    BY <1>2, <1>3, <2>1 DEF Opened
<1>21. ASSUME NEW step \in Swapping, proc.at \in Swapping, At(step) PROVE OpenedFits'
  <2>1. proc'.at = step
    BY <1>21, RunningHere, AtStep, StepNames
  <2> QED
    BY <1>2, <1>21, <2>1, StepNames
<1>22. ASSUME KeepFile \/ KeepWal PROVE OpenedFits'
  <2>1. /\ proc.at \in {"asiding", "asidingwal"}
        /\ At("asidingwal") \/ At("clearing") \/ proc' = Down
    BY <1>22 DEF KeepFile, KeepWal, CopyAside
  <2> QED
    BY <1>3, <1>21, <2>1 DEF Swapping
<1>23. ASSUME RemoveSideFiles \/ SyncRemoval \/ RenameInPlace \/ SyncSwap PROVE OpenedFits'
  <2>1. /\ proc.at \in {"clearing", "syncing", "renaming", "finishing"}
        /\ At("syncing") \/ At("renaming") \/ At("finishing") \/ proc' = Down
    BY <1>23 DEF RemoveSideFiles, SyncRemoval, RenameInPlace, SyncSwap, SyncDir, At
  <2> QED
    BY <1>3, <1>21, <2>1 DEF Swapping
<1>24. ASSUME Kill \/ PowerCut PROVE OpenedFits'
  BY <1>3, <1>24 DEF Kill, PowerCut
<1>25. ASSUME Damage PROVE OpenedFits'
  BY <1>3, <1>25 DEF Damage
<1>26. ASSUME UNCHANGED vars PROVE OpenedFits'
  BY <1>1, <1>5, <1>26 DEF OpenedFits, vars
<1> QED
  BY <1>9, <1>10, <1>11, <1>12, <1>13, <1>14, <1>15, <1>16, <1>17, <1>18, <1>19, <1>20, <1>22,
     <1>23, <1>24, <1>25, <1>26 DEF Next, Command
-----------------------------------------------------------------------------
(* What a rebuild knows of the file.                                        *)

LEMMA SwapStep ==
  ASSUME IInv, [Next]_vars
  PROVE  SwapFits'
<1>1. /\ TypeOK /\ TailsFit /\ OpenedFits /\ SwapFits /\ Db \in Name /\ Wal \in Name /\ Db # Wal
      /\ dir \in [Name -> File \cup {None}]
      /\ dir[Wal] # None => dir[Db] # None
      /\ synced[Wal] # None => dir[Db] # None
  BY Names DEF IInv, TypeOK, TailsFit, Either
<1>2. ASSUME proc'.at \notin Swapping PROVE SwapFits'
  BY <1>2 DEF SwapFits
<1>3. ASSUME proc' = Down PROVE SwapFits'
  BY <1>2, <1>3, StepNames DEF Down
<1>4. ASSUME Close PROVE SwapFits'
  BY <1>3, <1>4 DEF Close
<1>5. ASSUME UNCHANGED <<dir, synced>> PROVE Live' = Live /\ Healthy(dir)' = Healthy(dir)
  BY <1>5 DEF Live, Healthy, Read
<1>6. ASSUME NEW step \in Opened, proc.at \in Step, At(step) PROVE SwapFits'
  <2>1. proc'.at = step
    BY <1>6, RunningHere, AtStep, StepNames
  <2> QED
    BY <1>2, <1>6, <2>1, StepNames
<1>7. ASSUME UNCHANGED <<dir, synced>>, proc.at \in {"guarding", "pruning"}, At(Guarded)
      PROVE  SwapFits'
  <2>1. /\ proc'.at = Guarded /\ proc'.cmd = proc.cmd /\ proc'.doc = proc.doc
        /\ Guarded = IF proc.cmd = "rebuild" THEN "building" ELSE "migrating"
    BY <1>7, RunningHere, AtStep DEF Step, Guarded
  <2>2. CASE proc.cmd = "rebuild"
    <3>1. Live.data = proc.doc
      BY <1>1, <1>7, <2>2 DEF OpenedFits, Opened
    <3> QED
      BY <1>5, <1>7, <2>1, <2>2, <3>1 DEF SwapFits
  <2>3. CASE proc.cmd # "rebuild"
    BY <1>2, <2>1, <2>3 DEF Swapping
  <2> QED
    BY <2>2, <2>3
<1>8. ASSUME NEW cmd \in Command \ {"rebuild"}, NEW v \in Version, Start(cmd, v) PROVE SwapFits'
  BY <1>2, <1>8, StartSteps DEF Swapping
<1>9. ASSUME Guard PROVE SwapFits'
  <2>1. /\ proc.at = "guarding"
        /\ \/ Close
           \/ At(Guarded) /\ UNCHANGED <<dir, synced>>
           \/ At("copying")
    BY <1>9 DEF Guard, MarkSnapshotted
  <2> QED
    BY <1>4, <1>6, <1>7, <2>1 DEF Opened, Step
<1>10. ASSUME WritePreUpgradeSnapshot PROVE SwapFits'
  BY <1>4, <1>6, <1>10 DEF WritePreUpgradeSnapshot, Opened, Step
<1>11. ASSUME MarkCopied PROVE SwapFits'
  BY <1>4, <1>6, <1>11 DEF MarkCopied, MarkSnapshotted, Opened, Step
<1>12. ASSUME ApplyPreUpgradeRetention PROVE SwapFits'
  BY <1>7, <1>12 DEF ApplyPreUpgradeRetention
<1>13. ASSUME Up PROVE SwapFits'
  <2>1. proc.at = "migrating" /\ (Close \/ UNCHANGED proc)
    BY <1>13 DEF Up
  <2> QED
    BY <1>2, <1>4, <2>1 DEF Swapping
<1>14. ASSUME VerifySchema \/ MarkBooted PROVE SwapFits'
  <2>1. proc.at \in {"migrating", "verified"} /\ (Close \/ At("verified") \/ At("serving"))
    BY <1>14 DEF VerifySchema, MarkBooted
  <2> QED
    BY <1>4, <1>6, <2>1 DEF Opened, Step
<1>15. ASSUME MakeEntry \/ Stop PROVE SwapFits'
  <2>1. proc.at = "serving" /\ (UNCHANGED proc \/ Close)
    BY <1>15 DEF MakeEntry, Stop
  <2> QED
    BY <1>2, <1>4, <2>1 DEF Swapping
<1>16. ASSUME NEW v \in Version, NEW doc \in 0..MaxEntries, StartRebuild(v, doc) PROVE SwapFits'
  <2>1. /\ UNCHANGED <<dir, synced>>
        /\ proc' = [Launch("rebuild", v, doc) EXCEPT !.at = IF Healthy(dir) THEN @ ELSE "building"]
    BY <1>16 DEF StartRebuild
  <2>2. /\ proc'.at = IF Healthy(dir) THEN "guarding" ELSE "building"
        /\ proc'.cmd = "rebuild" /\ proc'.version = v /\ proc'.doc = doc
    BY <2>1 DEF Launch
  <2>3. CASE Healthy(dir)
    BY <1>2, <2>2, <2>3 DEF Swapping
  <2>4. CASE ~Healthy(dir)
    BY <1>5, <2>1, <2>2, <2>4 DEF SwapFits
  <2> QED
    BY <2>3, <2>4
<1>17. ASSUME BuildScratch PROVE SwapFits'
  <2>1. CASE proc' = Down
    BY <1>3, <2>1
  <2>2. CASE proc' # Down
    <3>1. /\ proc.at = "building" /\ Live' = Live /\ (dir'[Db] = None <=> dir[Db] = None)
          /\ dir[Db] # None => dir'[Db].ok = dir[Db].ok
          /\ dir'[Wal] # None => dir'[Db] # None /\ ~dir'[Db].ok
          /\ proc'.cmd = "rebuild" /\ proc'.doc = proc.doc
          /\ proc'.at = IF dir'[Db] = None THEN "renaming" ELSE "asiding"
      BY <1>17, <2>2, BuildSteps
    <3>2. Healthy(dir)' => Healthy(dir)
      BY <1>1, <3>1 DEF Healthy, Live
    <3>3. Healthy(dir)' => Live'.data = proc'.doc
      BY <1>1, <3>1, <3>2 DEF SwapFits, Swapping
    <3>4. dir'[Db] = None => dir'[Wal] = None /\ synced'[Wal] = None
      BY <1>1, <1>17, <3>1, BuildSteps DEF Healthy
    <3> QED
      BY <3>1, <3>3, <3>4 DEF SwapFits
  <2> QED
    BY <2>1, <2>2
<1>18. ASSUME NEW from \in Name, NEW to \in Name \ {Db, Wal}, NEW next \in {"asidingwal", "clearing"},
              CopyAside(from, to, next), proc.at \in {"asiding", "asidingwal"}
       PROVE  SwapFits'
  <2>1. /\ dir'[Db] = dir[Db] /\ dir'[Wal] = dir[Wal] /\ (At(next) \/ proc' = Down)
    BY <1>1, <1>18, CopySteps DEF Step
  <2>2. Live' = Live /\ Healthy(dir)' = Healthy(dir)
    BY <2>1 DEF Live, Healthy, Read
  <2>3. CASE At(next)
    <3>1. proc'.at = next /\ proc'.cmd = proc.cmd /\ proc'.doc = proc.doc
      BY <1>18, <2>3, RunningHere, AtStep DEF Step
    <3> QED
      BY <1>1, <1>18, <2>1, <2>2, <3>1 DEF SwapFits, Swapping
  <2> QED
    BY <1>3, <2>1, <2>3
<1>19. ASSUME KeepFile PROVE SwapFits'
  <2>1. proc.at = "asiding" /\ CopyAside(Db, Aside(rebuilds), "asidingwal")
    BY <1>19 DEF KeepFile
  <2> QED
    BY <1>1, <1>18, <2>1, AsideNames DEF Swapping
<1>20. ASSUME KeepWal PROVE SwapFits'
  <2>1. proc.at = "asidingwal"
    BY <1>20 DEF KeepWal
  <2>2. CASE CopyAside(Wal, AsideWal(rebuilds), "clearing")
    BY <1>1, <1>18, <2>1, <2>2, AsideNames DEF Swapping
  <2>3. CASE At("clearing") /\ UNCHANGED <<dir, synced>>
    <3>1. proc'.at = "clearing" /\ proc'.cmd = proc.cmd /\ proc'.doc = proc.doc
      BY <2>1, <2>3, RunningHere, AtStep DEF Step
    <3> QED
      BY <1>1, <1>5, <2>1, <2>3, <3>1 DEF SwapFits, Swapping
  <2> QED
    BY <1>20, <2>2, <2>3 DEF KeepWal
<1>21. ASSUME RemoveSideFiles PROVE SwapFits'
  <2>1. /\ proc.at = "clearing" /\ dir'[Wal] = None /\ dir'[Db] = dir[Db] /\ At("syncing")
    BY <1>1, <1>21 DEF RemoveSideFiles
  <2>2. proc'.at = "syncing" /\ proc'.cmd = proc.cmd /\ proc'.doc = proc.doc
    BY <2>1, RunningHere, AtStep DEF Step
  <2>3. dir[Wal] # None => ~dir[Db].ok
    BY <1>1, <2>1 DEF SwapFits, Swapping
  <2>4. Healthy(dir)' => Healthy(dir) /\ Live' = Live
    <3>1. Healthy(dir)' => dir[Db] # None /\ dir[Db].ok /\ Read(dir)' = dir[Db]
      BY <2>1 DEF Healthy, Read
    <3>2. Healthy(dir)' => dir[Wal] = None /\ Read(dir) = dir[Db]
      BY <2>3, <3>1 DEF Read
    <3> QED
      BY <2>1, <3>1, <3>2 DEF Healthy, Live
  <2> QED
    BY <1>1, <2>1, <2>2, <2>4 DEF SwapFits, Swapping
<1>22. ASSUME SyncRemoval PROVE SwapFits'
  <2>1. proc.at = "syncing" /\ dir' = dir /\ ((At("renaming") /\ synced' = dir) \/ proc' = Down)
    BY <1>22 DEF SyncRemoval, SyncDir, SyncedDir, At
  <2>2. CASE At("renaming") /\ synced' = dir
    <3>1. proc'.at = "renaming" /\ proc'.cmd = proc.cmd /\ proc'.doc = proc.doc
      BY <2>1, <2>2, RunningHere, AtStep DEF Step
    <3>2. Live' = Live /\ Healthy(dir)' = Healthy(dir)
      BY <2>1 DEF Live, Healthy, Read
    <3> QED
      BY <1>1, <2>1, <2>2, <3>1, <3>2 DEF SwapFits, Swapping
  <2> QED
    BY <1>3, <2>1, <2>2
<1>23. ASSUME RenameInPlace PROVE SwapFits'
  <2>1. /\ proc.at = "renaming" /\ dir'[Wal] = dir[Wal] /\ synced' = synced
        /\ At("finishing") \/ proc' = Down
    BY <1>1, <1>23 DEF RenameInPlace
  <2>2. CASE At("finishing")
    <3>1. proc'.at = "finishing" /\ proc'.cmd = proc.cmd
      BY <2>1, <2>2, RunningHere, AtStep DEF Step
    <3> QED
      BY <1>1, <2>1, <3>1 DEF SwapFits, Swapping
  <2> QED
    BY <1>3, <2>1, <2>2
<1>24. ASSUME SyncSwap \/ Kill \/ PowerCut \/ Damage PROVE SwapFits'
  <2>1. proc' = Down
    BY <1>24 DEF SyncSwap, SyncDir, Kill, PowerCut, Damage
  <2> QED
    BY <1>3, <2>1
<1>25. ASSUME UNCHANGED vars PROVE SwapFits'
  BY <1>1, <1>5, <1>25 DEF SwapFits, vars
<1> QED
  BY <1>8, <1>9, <1>10, <1>11, <1>12, <1>13, <1>14, <1>15, <1>16, <1>17, <1>19, <1>20, <1>21,
     <1>22, <1>23, <1>24, <1>25 DEF Next, Command
-----------------------------------------------------------------------------
(* The names a rebuild keeps the old file under.                            *)

LEMMA AsidesStep ==
  ASSUME IInv, [Next]_vars
  PROVE  AsidesFit'
<1> DEFINE Settled == \A n \in Name \ {Db, Wal} : dir'[n] \in Either(n) /\ synced'[n] \in Either(n)
           Mine == rebuilds > 0 /\ Aside(rebuilds) \in Name \ {Db, Wal}
                                /\ AsideWal(rebuilds) \in Name \ {Db, Wal}
<1>1. /\ TypeOK /\ TailsFit /\ AsidesFit /\ SwapFits /\ Db \in Name /\ Wal \in Name /\ Db # Wal
      /\ dir \in [Name -> File \cup {None}] /\ synced \in [Name -> File \cup {None}]
      /\ rebuilds \in Nat /\ rebuilds \in 0..MaxRebuilds
  BY Names, BoundsAssumption DEF IInv, TypeOK
<1>2. \A n \in Name : n[2] > rebuilds => n \in Name \ {Db, Wal}
  BY <1>1, Names
<1>3. proc # Down /\ proc.cmd = "rebuild" => Mine
  <2>1. SUFFICES ASSUME proc # Down, proc.cmd = "rebuild" PROVE Mine
    OBVIOUS
  <2>2. rebuilds \in 1..MaxRebuilds /\ rebuilds > 0
    BY <1>1, <2>1, BoundsAssumption DEF AsidesFit
  <2> QED
    BY <2>2, Names
<1>4. ASSUME UNCHANGED <<dir, synced>> \/ (\A n \in Name \ {Db, Wal} : dir'[n] = dir[n] /\ synced'[n] \in Either(n))
      PROVE  Settled
  BY <1>1, <1>4 DEF Either
<1>5. ASSUME Settled, UNCHANGED rebuilds PROVE \A n \in Name : n[2] > rebuilds' => dir'[n] = None /\ synced'[n] = None
  BY <1>1, <1>2, <1>5 DEF AsidesFit, Either
<1>6. ASSUME Settled, UNCHANGED rebuilds, proc' = Down \/ proc'.cmd # "rebuild" PROVE AsidesFit'
  BY <1>5, <1>6 DEF AsidesFit
<1>7. ASSUME Close, UNCHANGED rebuilds PROVE AsidesFit'
  <2>1. Settled /\ proc' = Down
    BY <1>1, <1>7, CloseFiles DEF Either
  <2> QED
    BY <1>6, <1>7, <2>1
<1>8. Aside(rebuilds)' = Aside(rebuilds') /\ AsideWal(rebuilds)' = AsideWal(rebuilds')
  BY DEF Aside, AsideWal
<1>9. ASSUME UNCHANGED <<dir, synced>>, UNCHANGED rebuilds, proc.at \in Opened,
             NEW step \in Opened \cup {"building"}, At(step)
      PROVE  AsidesFit'
  <2>1. /\ proc'.at = step /\ proc'.cmd = proc.cmd /\ proc # Down
    BY <1>9, RunningHere, AtStep, StepNames DEF Swapping
  <2>2. CASE proc.cmd = "rebuild"
    <3>1. step \notin {"asiding", "asidingwal", "clearing", "syncing", "renaming"}
      BY <1>9 DEF Opened
    <3>2. /\ Mine /\ \A x \in Either(Aside(rebuilds)) : x = None
          /\ \A x \in Either(AsideWal(rebuilds)) : x = None
      BY <1>1, <1>3, <1>9, <2>1, <2>2 DEF AsidesFit
    <3>3. Either(Aside(rebuilds))' = Either(Aside(rebuilds)) /\ Either(AsideWal(rebuilds))' = Either(AsideWal(rebuilds))
      BY <1>8, <1>9 DEF Either
    <3> QED
      BY <1>4, <1>5, <1>9, <2>1, <2>2, <3>1, <3>2, <3>3 DEF AsidesFit
  <2>3. CASE proc.cmd # "rebuild"
    BY <1>4, <1>6, <1>9, <2>1, <2>3
  <2> QED
    BY <2>2, <2>3
<1>10. Guarded \in Opened \cup {"building"}
  BY DEF Guarded, Opened
<1>11. ASSUME NEW cmd \in Command \ {"rebuild"}, NEW v \in Version, Start(cmd, v) PROVE AsidesFit'
  <2>1. /\ \A n \in Name \ {Db} : dir'[n] = dir[n]
        /\ synced' = dir' \/ synced' = synced
        /\ proc'.cmd # "rebuild" /\ UNCHANGED rebuilds
    BY <1>11, StartSteps
  <2>2. Settled
    BY <1>4, <2>1 DEF Either
  <2> QED
    BY <1>6, <2>1, <2>2
<1>12. ASSUME Guard PROVE AsidesFit'
  <2>1. /\ proc.at = "guarding" /\ UNCHANGED rebuilds
        /\ \/ Close
           \/ (At(Guarded) \/ At("copying")) /\ UNCHANGED <<dir, synced>>
    BY <1>12 DEF Guard, MarkSnapshotted
  <2>2. proc.at \in Opened /\ "copying" \in Opened
    BY <2>1 DEF Opened
  <2> QED
    BY <1>7, <1>9, <1>10, <2>1, <2>2
<1>13. ASSUME WritePreUpgradeSnapshot PROVE AsidesFit'
  <2>1. /\ proc.at = "copying" /\ UNCHANGED rebuilds
        /\ Close \/ (At("marking") /\ UNCHANGED <<dir, synced>>)
    BY <1>13 DEF WritePreUpgradeSnapshot
  <2> QED
    BY <1>7, <1>9, <2>1 DEF Opened
<1>14. ASSUME MarkCopied PROVE AsidesFit'
  <2>1. /\ proc.at = "marking" /\ UNCHANGED rebuilds
        /\ Close \/ (At("pruning") /\ UNCHANGED <<dir, synced>>)
    BY <1>14 DEF MarkCopied, MarkSnapshotted
  <2> QED
    BY <1>7, <1>9, <2>1 DEF Opened
<1>15. ASSUME ApplyPreUpgradeRetention PROVE AsidesFit'
  <2>1. proc.at = "pruning" /\ UNCHANGED rebuilds /\ At(Guarded) /\ UNCHANGED <<dir, synced>>
    BY <1>15 DEF ApplyPreUpgradeRetention
  <2>2. proc.at \in Opened
    BY <2>1 DEF Opened
  <2> QED
    BY <1>9, <1>10, <2>1, <2>2
<1>16. ASSUME NEW file \in File, dir[Db] # None, Commit(file), file.of = dir[Db].of, file.ok = dir[Db].ok,
              proc.cmd # "rebuild", UNCHANGED <<proc, rebuilds>>
       PROVE  AsidesFit'
  <2>1. Settled
    BY <1>1, <1>16, CommitFiles DEF Either
  <2> QED
    BY <1>6, <1>16, <2>1
<1>17. ASSUME Up PROVE AsidesFit'
  <2>1. CASE Close
    BY <1>7, <1>17, <2>1 DEF Up
  <2>2. CASE ~Close
    <3>1. PICK file \in File : /\ Commit(file) /\ UNCHANGED proc /\ file.of = dir[Db].of
                               /\ file.ok = dir[Db].ok
      BY <1>17, <2>2, UpSteps
    <3>2. dir[Db] # None /\ proc.cmd # "rebuild" /\ UNCHANGED rebuilds
      BY <1>17, UpSteps DEF IInv, OpenedFits, Opened
    <3> QED
      BY <1>16, <3>1, <3>2
  <2> QED
    BY <2>1, <2>2
<1>18. ASSUME VerifySchema PROVE AsidesFit'
  <2>1. /\ proc.at = "migrating" /\ UNCHANGED rebuilds
        /\ Close \/ (At("verified") /\ UNCHANGED <<dir, synced>>)
    BY <1>18 DEF VerifySchema
  <2> QED
    BY <1>7, <1>9, <2>1 DEF Opened
<1>19. ASSUME MarkBooted PROVE AsidesFit'
  <2>1. proc.at = "verified" /\ UNCHANGED rebuilds /\ At("serving") /\ UNCHANGED <<dir, synced>>
    BY <1>19 DEF MarkBooted
  <2> QED
    BY <1>9, <2>1 DEF Opened
<1>20. ASSUME MakeEntry PROVE AsidesFit'
  <2>1. PICK file \in File : Commit(file) /\ file.of = dir[Db].of /\ file.ok = dir[Db].ok
    BY <1>20, EntrySteps
  <2>2. dir[Db] # None /\ proc.cmd # "rebuild" /\ UNCHANGED <<proc, rebuilds>>
    BY <1>20, EntrySteps DEF IInv, OpenedFits, Opened
  <2> QED
    BY <1>16, <2>1, <2>2
<1>21. ASSUME Stop PROVE AsidesFit'
  BY <1>7, <1>21 DEF Stop
<1>22. ASSUME NEW v \in Version, NEW doc \in 0..MaxEntries, StartRebuild(v, doc) PROVE AsidesFit'
  <2>1. /\ UNCHANGED <<dir, synced>> /\ rebuilds' = rebuilds + 1 /\ rebuilds < MaxRebuilds
        /\ proc' = [Launch("rebuild", v, doc) EXCEPT !.at = IF Healthy(dir) THEN @ ELSE "building"]
    BY <1>22 DEF StartRebuild
  <2>2. proc'.at \in {"guarding", "building"} /\ proc'.cmd = "rebuild"
    BY <2>1 DEF Launch
  <2>3. rebuilds' \in 1..MaxRebuilds /\ rebuilds' > rebuilds /\ rebuilds' > 0
    BY <1>1, <2>1, BoundsAssumption
  <2>4. /\ Aside(rebuilds') \in Name /\ AsideWal(rebuilds') \in Name
        /\ Aside(rebuilds')[2] = rebuilds' /\ AsideWal(rebuilds')[2] = rebuilds'
    BY <2>3, Names
  <2>5. \A x \in Either(Aside(rebuilds))' \cup Either(AsideWal(rebuilds))' : x = None
    BY <1>1, <1>8, <2>1, <2>3, <2>4 DEF AsidesFit, Either
  <2>6. \A n \in Name : n[2] > rebuilds' => dir'[n] = None /\ synced'[n] = None
    <3>1. \A n \in Name : n[2] \in Nat
      BY BoundsAssumption DEF Name
    <3>2. \A n \in Name : n[2] > rebuilds' => n[2] > rebuilds
      BY <1>1, <2>1, <3>1
    <3> QED
      BY <1>1, <2>1, <3>2 DEF AsidesFit
  <2> QED
    BY <2>2, <2>3, <2>5, <2>6 DEF AsidesFit
<1>23. ASSUME BuildScratch PROVE AsidesFit'
  <2>1. /\ Settled /\ UNCHANGED rebuilds
    <3>1. /\ \A n \in Name \ {Db, Wal} : dir'[n] = dir[n]
          /\ UNCHANGED <<dir, synced>> \/ synced' = dir'
          /\ UNCHANGED rebuilds
      BY <1>23, BuildSteps
    <3> QED
      BY <1>1, <3>1 DEF Either
  <2>2. CASE proc' = Down
    BY <1>6, <2>1, <2>2
  <2>3. CASE proc' # Down
    <3>1. /\ proc.at = "building" /\ proc.cmd = "rebuild" /\ proc'.cmd = "rebuild"
          /\ proc'.at = IF dir'[Db] = None THEN "renaming" ELSE "asiding"
          /\ proc'.found = [db |-> dir'[Db], wal |-> dir'[Wal]]
      BY <1>23, <2>3, BuildSteps
    <3>2. proc # Down
      BY <3>1, StepNames DEF Swapping
    <3>3. /\ Mine
          /\ \A x \in Either(Aside(rebuilds)) : x = None
          /\ \A x \in Either(AsideWal(rebuilds)) : x = None
      BY <1>1, <1>3, <3>1, <3>2 DEF AsidesFit
    <3>4. \A x \in Either(Aside(rebuilds))' \cup Either(AsideWal(rebuilds))' : x = None
      BY <1>8, <2>1, <3>3 DEF Either
    <3>5. proc'.at = "renaming" => proc'.found.db = None
      BY <3>1
    <3> QED
      BY <1>5, <2>1, <3>1, <3>3, <3>4, <3>5 DEF AsidesFit
  <2> QED
    BY <2>2, <2>3
<1>24. ASSUME KeepFile PROVE AsidesFit'
  <2>1. proc.at = "asiding" /\ CopyAside(Db, Aside(rebuilds), "asidingwal")
    BY <1>24 DEF KeepFile
  <2>2. /\ Mine /\ proc \in Process /\ proc # Down /\ proc.cmd = "rebuild"
        /\ Aside(rebuilds) # AsideWal(rebuilds) /\ Aside(rebuilds)[2] = rebuilds
    BY <1>3, <2>1, AsideNames, StepNames DEF Swapping
  <2>3. /\ \A n \in Name \ {Aside(rebuilds)} : dir'[n] = dir[n]
        /\ \/ synced' = dir' /\ dir'[Aside(rebuilds)] = dir[Db] /\ At("asidingwal")
           \/ synced' = synced /\ proc' = Down
        /\ UNCHANGED rebuilds
    BY <1>1, <2>1, <2>2, CopySteps DEF Step
  <2>4. \A n \in Name : n[2] > rebuilds' => dir'[n] = None /\ synced'[n] = None
    BY <1>1, <2>2, <2>3 DEF AsidesFit
  <2>5. CASE proc' = Down
    BY <2>4, <2>5 DEF AsidesFit
  <2>6. CASE At("asidingwal") /\ synced' = dir' /\ dir'[Aside(rebuilds)] = dir[Db]
    <3>1. proc'.at = "asidingwal" /\ proc'.cmd = "rebuild" /\ proc'.found = proc.found
      BY <2>2, <2>6, AtStep DEF Step
    <3>2. /\ proc.found = [db |-> dir[Db], wal |-> dir[Wal]]
          /\ \A x \in Either(AsideWal(rebuilds)) : x = None
      BY <1>1, <2>1, <2>2 DEF AsidesFit
    <3>3. dir'[Db] = dir[Db] /\ dir'[Wal] = dir[Wal] /\ dir'[AsideWal(rebuilds)] = dir[AsideWal(rebuilds)]
      BY <1>1, <2>2, <2>3
    <3>4. /\ proc'.found = [db |-> dir'[Db], wal |-> dir'[Wal]]
          /\ \A x \in Either(AsideWal(rebuilds))' : x = None
          /\ \A x \in Either(Aside(rebuilds))' : x = proc'.found.db
      BY <1>8, <2>3, <2>6, <3>1, <3>2, <3>3 DEF Either
    <3> QED
      BY <2>2, <2>3, <2>4, <3>1, <3>4 DEF AsidesFit, Opened
  <2> QED
    BY <2>3, <2>5, <2>6
<1>25. ASSUME KeepWal PROVE AsidesFit'
  <2>1. proc.at = "asidingwal"
    BY <1>25 DEF KeepWal
  <2>2. /\ Mine /\ proc \in Process /\ proc # Down /\ proc.cmd = "rebuild"
        /\ Aside(rebuilds) # AsideWal(rebuilds) /\ AsideWal(rebuilds)[2] = rebuilds
    BY <1>3, <2>1, AsideNames, StepNames DEF Swapping
  <2>3. /\ proc.found = [db |-> dir[Db], wal |-> dir[Wal]]
        /\ \A x \in Either(AsideWal(rebuilds)) : x = None
        /\ proc.found.db # None => \A x \in Either(Aside(rebuilds)) : x = proc.found.db
    BY <1>1, <2>1, <2>2 DEF AsidesFit
  <2>4. CASE CopyAside(Wal, AsideWal(rebuilds), "clearing")
    <3>1. /\ \A n \in Name \ {AsideWal(rebuilds)} : dir'[n] = dir[n]
          /\ \/ synced' = dir' /\ dir'[AsideWal(rebuilds)] = dir[Wal] /\ At("clearing")
             \/ synced' = synced /\ proc' = Down
          /\ UNCHANGED rebuilds
      BY <1>1, <2>2, <2>4, CopySteps DEF Step
    <3>2. \A n \in Name : n[2] > rebuilds' => dir'[n] = None /\ synced'[n] = None
      BY <1>1, <2>2, <3>1 DEF AsidesFit
    <3>3. CASE proc' = Down
      BY <3>2, <3>3 DEF AsidesFit
    <3>4. CASE At("clearing") /\ synced' = dir' /\ dir'[AsideWal(rebuilds)] = dir[Wal]
      <4>1. proc'.at = "clearing" /\ proc'.cmd = "rebuild" /\ proc'.found = proc.found
        BY <2>2, <3>4, AtStep DEF Step
      <4>2. dir'[Aside(rebuilds)] = dir[Aside(rebuilds)]
        BY <2>2, <3>1
      <4>3. /\ \A x \in Either(AsideWal(rebuilds))' : x = proc'.found.wal
            /\ proc'.found.db # None => \A x \in Either(Aside(rebuilds))' : x = proc'.found.db
        BY <1>8, <2>3, <3>1, <3>4, <4>1, <4>2 DEF Either
      <4> QED
        BY <2>2, <3>1, <3>2, <4>1, <4>3 DEF AsidesFit, Opened
    <3> QED
      BY <3>1, <3>3, <3>4
  <2>5. CASE ~HasTail /\ At("clearing") /\ UNCHANGED <<dir, synced, rebuilds>>
    <3>1. proc'.at = "clearing" /\ proc'.cmd = "rebuild" /\ proc'.found = proc.found
      BY <2>2, <2>5, AtStep DEF Step
    <3>2. proc.found.wal = None
      BY <2>3, <2>5 DEF HasTail
    <3>3. /\ \A x \in Either(AsideWal(rebuilds))' : x = proc'.found.wal
          /\ proc'.found.db # None => \A x \in Either(Aside(rebuilds))' : x = proc'.found.db
      BY <1>8, <2>3, <2>5, <3>1, <3>2 DEF Either
    <3> QED
      BY <1>4, <1>5, <2>2, <2>5, <3>1, <3>3 DEF AsidesFit, Opened
  <2> QED
    BY <1>25, <2>4, <2>5 DEF KeepWal
<1>26. ASSUME Settled, UNCHANGED rebuilds,
              \/ proc.at = "clearing" /\ At("syncing")
              \/ proc.at = "syncing" /\ At("renaming")
       PROVE  AsidesFit'
  <2>1. proc.at \in Swapping /\ proc.at \in Step /\ proc.at \in {"clearing", "syncing"}
    BY <1>26 DEF Swapping, Step
  <2>2. /\ Mine /\ proc \in Process /\ proc # Down /\ proc.cmd = "rebuild"
    BY <1>3, <2>1, AsideNames, StepNames
  <2>3. proc'.at \in {"syncing", "renaming"} /\ proc'.cmd = "rebuild" /\ proc'.found = proc.found
    BY <1>26, <2>2, AtStep DEF Step
  <2>4. proc.found.db # None => /\ \A x \in Either(Aside(rebuilds)) : x = proc.found.db
                                /\ \A x \in Either(AsideWal(rebuilds)) : x = proc.found.wal
    BY <1>1, <2>1, <2>2 DEF AsidesFit
  <2>5. proc.found.db # None => /\ \A x \in Either(Aside(rebuilds))' : x = proc.found.db
                                /\ \A x \in Either(AsideWal(rebuilds))' : x = proc.found.wal
    BY <1>8, <1>26, <2>2, <2>4 DEF Either
  <2> QED
    BY <1>5, <1>26, <2>2, <2>3, <2>5 DEF AsidesFit, Opened
<1>27. ASSUME RemoveSideFiles PROVE AsidesFit'
  <2>1. proc.at = "clearing" /\ At("syncing") /\ UNCHANGED rebuilds /\ Settled
    BY <1>1, <1>27 DEF RemoveSideFiles, Either
  <2> QED
    BY <1>26, <2>1
<1>28. ASSUME SyncRemoval PROVE AsidesFit'
  <2>1. /\ proc.at = "syncing" /\ (At("renaming") \/ proc' = Down) /\ UNCHANGED rebuilds
        /\ synced' \in {dir, synced} /\ dir' = dir
    BY <1>28 DEF SyncRemoval, SyncDir, SyncedDir, At
  <2>2. Settled
    BY <2>1 DEF Either
  <2> QED
    BY <1>6, <1>26, <2>1, <2>2
<1>29. ASSUME RenameInPlace PROVE AsidesFit'
  <2>1. /\ proc.at = "renaming" /\ (At("finishing") \/ proc' = Down) /\ UNCHANGED rebuilds
        /\ Settled
    BY <1>1, <1>29 DEF RenameInPlace, Either
  <2>2. CASE At("finishing")
    <3>1. /\ Mine /\ proc'.at = "finishing"
      BY <1>3, <2>1, <2>2, AsideNames, StepNames, AtStep DEF Swapping, Step
    <3> QED
      BY <1>5, <2>1, <3>1 DEF AsidesFit, Opened
  <2> QED
    BY <1>6, <2>1, <2>2
<1>30. ASSUME SyncSwap \/ Kill PROVE AsidesFit'
  <2>1. /\ proc' = Down /\ UNCHANGED rebuilds /\ synced' \in {dir, synced} /\ dir' = dir
    BY <1>30 DEF SyncSwap, SyncDir, SyncedDir, Kill
  <2>2. Settled
    BY <2>1 DEF Either
  <2> QED
    BY <1>6, <2>1, <2>2
<1>31. ASSUME PowerCut PROVE AsidesFit'
  <2>1. proc' = Down /\ UNCHANGED rebuilds /\ Settled
    BY <1>31 DEF PowerCut, Either
  <2> QED
    BY <1>6, <2>1
<1>32. ASSUME Damage PROVE AsidesFit'
  <2>1. proc' = Down /\ UNCHANGED rebuilds /\ Settled
    BY <1>1, <1>32, DamageSteps DEF Either
  <2> QED
    BY <1>6, <2>1
<1>33. ASSUME UNCHANGED vars PROVE AsidesFit'
  BY <1>1, <1>8, <1>33 DEF AsidesFit, Either, vars
<1> QED
  BY <1>11, <1>12, <1>13, <1>14, <1>15, <1>17, <1>18, <1>19, <1>20, <1>21, <1>22, <1>23, <1>24,
     <1>25, <1>27, <1>28, <1>29, <1>30, <1>31, <1>32, <1>33 DEF Next, Command
-----------------------------------------------------------------------------
(* The marker, and what the server left.                                    *)

LEMMA MarkedStep ==
  ASSUME IInv, [Next]_vars
  PROVE  Marked'
<1>1. TypeOK /\ Marked /\ OpenedFits
  BY DEF IInv
<1>2. ASSUME proc'.at \notin {"copying", "marking", "pruning", "migrating", "serving"} PROVE Marked'
  BY <1>2 DEF Marked
<1>3. ASSUME proc' = Down PROVE Marked'
  BY <1>2, <1>3 DEF Down
<1>4. ASSUME Close PROVE Marked'
  BY <1>3, <1>4 DEF Close
<1>5. ASSUME NEW step \in Step, proc.at \in Step, At(step) PROVE proc'.at = step /\ proc'.version = proc.version
                                               /\ proc.version \in Version /\ proc.version # None
  BY <1>5, RunningHere, AtStep, NamesAssumption
<1>6. Guarded \in {"building", "migrating"} /\ Guarded \in Step
  BY DEF Guarded, Step
<1>7. marker \in [booted : Version \cup {None}, snapshotted : Version \cup {None}]
  BY <1>1 DEF TypeOK
<1>8. ASSUME NEW cmd \in Command \ {"rebuild"}, NEW v \in Version, Start(cmd, v) PROVE Marked'
  BY <1>2, <1>8, StartSteps
<1>9. ASSUME Guard PROVE Marked'
  <2>1. proc.at = "guarding" /\ proc.at \in Step /\ "copying" \in Step
    BY <1>9 DEF Guard, Step
  <2>2. CASE Close
    BY <1>4, <2>2
  <2>3. CASE Handled /\ At(Guarded) /\ UNCHANGED marker
    BY <1>2, <1>5, <1>6, <2>1, <2>3 DEF Marked, Handled
  <2>4. CASE At(Guarded) /\ marker' = [marker EXCEPT !.snapshotted = proc.version]
    <3>1. marker'.snapshotted # None
      BY <1>5, <1>6, <1>7, <2>1, <2>4
    <3> QED
      BY <1>2, <1>5, <1>6, <2>1, <2>4, <3>1 DEF Marked
  <2>5. CASE NeedsCopy /\ At("copying") /\ UNCHANGED marker
    BY <1>5, <2>1, <2>5 DEF Marked, NeedsCopy
  <2> QED
    BY <1>9, <2>2, <2>3, <2>4, <2>5 DEF Guard, MarkSnapshotted
<1>10. ASSUME WritePreUpgradeSnapshot PROVE Marked'
  <2>1. /\ proc.at = "copying" /\ proc.at \in Step /\ "marking" \in Step /\ UNCHANGED marker
        /\ At("marking") \/ Close
    BY <1>10 DEF WritePreUpgradeSnapshot, Step
  <2> QED
    BY <1>1, <1>4, <1>5, <2>1 DEF Marked
<1>11. ASSUME MarkCopied PROVE Marked'
  <2>1. /\ proc.at = "marking" /\ proc.at \in Step /\ "pruning" \in Step
        /\ \/ Close
           \/ At("pruning") /\ marker' = [marker EXCEPT !.snapshotted = proc.version]
    BY <1>11 DEF MarkCopied, MarkSnapshotted, Step
  <2>2. CASE ~Close
    <3>1. marker'.snapshotted # None
      BY <1>5, <1>7, <2>1, <2>2
    <3> QED
      BY <1>5, <2>1, <2>2, <3>1 DEF Marked
  <2> QED
    BY <1>4, <2>2
<1>12. ASSUME ApplyPreUpgradeRetention PROVE Marked'
  <2>1. proc.at = "pruning" /\ proc.at \in Step /\ At(Guarded) /\ UNCHANGED marker
    BY <1>12 DEF ApplyPreUpgradeRetention, Step
  <2> QED
    BY <1>1, <1>2, <1>5, <1>6, <2>1 DEF Marked
<1>13. ASSUME Up PROVE Marked'
  <2>1. proc.at = "migrating" /\ UNCHANGED marker /\ (Close \/ UNCHANGED proc)
    BY <1>13 DEF Up
  <2> QED
    BY <1>1, <1>4, <2>1 DEF Marked
<1>14. ASSUME VerifySchema PROVE Marked'
  <2>1. proc.at = "migrating" /\ proc.at \in Step /\ "verified" \in Step /\ (Close \/ At("verified"))
    BY <1>14 DEF VerifySchema, Step
  <2> QED
    BY <1>2, <1>4, <1>5, <2>1
<1>15. ASSUME MarkBooted PROVE Marked'
  <2>1. /\ proc.at = "verified" /\ proc.at \in Step /\ "serving" \in Step /\ At("serving")
        /\ last' = ContentOf(Live) /\ UNCHANGED dir
        /\ marker' \in {Booted(proc.version), NoMarker}
    BY <1>15 DEF MarkBooted, Step
  <2>2. Live' = Live /\ marker'.snapshotted = None
    BY <2>1 DEF Live, Booted, NoMarker
  <2> QED
    BY <1>5, <2>1, <2>2 DEF Marked, ContentOf
<1>16. ASSUME MakeEntry PROVE Marked'
  <2>1. PICK file \in File : /\ Commit(file) /\ file.of = dir[Db].of /\ file.ok = dir[Db].ok
                             /\ last' = ContentOf(file)
    BY <1>16, EntrySteps
  <2>2. dir[Db] # None /\ proc.at = "serving" /\ UNCHANGED <<proc, marker>>
    BY <1>16, EntrySteps
  <2>3. Live' = file
    BY <1>1, <2>1, <2>2, CommitFiles DEF IInv
  <2> QED
    BY <1>1, <2>1, <2>2, <2>3 DEF Marked, ContentOf
<1>17. ASSUME Stop PROVE Marked'
  BY <1>4, <1>17 DEF Stop
<1>18. ASSUME NEW v \in Version, NEW doc \in 0..MaxEntries, StartRebuild(v, doc) PROVE Marked'
  <2>1. proc' = [Launch("rebuild", v, doc) EXCEPT !.at = IF Healthy(dir) THEN @ ELSE "building"]
    BY <1>18 DEF StartRebuild
  <2>2. proc'.at \in {"guarding", "building"}
    BY <2>1 DEF Launch
  <2> QED
    BY <1>2, <2>2
<1>19. ASSUME BuildScratch PROVE Marked'
  BY <1>2, <1>3, <1>19, BuildSteps
<1>20. ASSUME KeepFile \/ KeepWal \/ RemoveSideFiles \/ SyncRemoval \/ RenameInPlace \/ SyncSwap
       PROVE  Marked'
  <2>1. /\ proc.at \in Step
        /\ \/ proc' = Down
           \/ \E step \in {"asidingwal", "clearing", "syncing", "renaming", "finishing"} : At(step)
    BY <1>20 DEF KeepFile, KeepWal, CopyAside, RemoveSideFiles, SyncRemoval, RenameInPlace, SyncSwap,
                 SyncDir, At, Step
  <2>2. {"asidingwal", "clearing", "syncing", "renaming", "finishing"} \subseteq Step
    BY DEF Step
  <2> QED
    BY <1>2, <1>3, <1>5, <2>1, <2>2
<1>21. ASSUME Kill \/ PowerCut \/ Damage PROVE Marked'
  BY <1>3, <1>21 DEF Kill, PowerCut, Damage
<1>22. ASSUME UNCHANGED vars PROVE Marked'
  <2>1. Live' = Live
    BY <1>22 DEF vars, Live
  <2> QED
    BY <1>1, <1>22, <2>1 DEF Marked, vars, ContentOf
<1> QED
  BY <1>8, <1>9, <1>10, <1>11, <1>12, <1>13, <1>14, <1>15, <1>16, <1>17, <1>18, <1>19, <1>20,
     <1>21, <1>22 DEF Next, Command

\* Nothing a power cut leaves of the -wal has entries that were not read before.
LEMMA CutLoses ==
  ASSUME IInv, PowerCut, dir[Db] # None, dir[Db].ok, dir'[Db] = dir[Db]
  PROVE  Read(dir') \in File /\ Read(dir').data \in Nat /\ Read(dir').data <= Live.data
<1>1. /\ TypeOK /\ TailsFit /\ Db \in Name /\ Wal \in Name /\ Db # Wal
      /\ dir \in [Name -> File \cup {None}] /\ synced \in [Name -> File \cup {None}]
  BY Names DEF IInv, TypeOK
<1>2. dir' \in [Name -> File \cup {None}] /\ dir'[Wal] \in {dir[Wal], synced[Wal]}
  BY <1>1 DEF PowerCut
<1>3. /\ Read(dir') \in File /\ Live \in File
      /\ dir'[Wal] = None => Read(dir') = dir'[Db]
      /\ dir'[Wal] # None => Read(dir').data = dir'[Wal].data
      /\ dir[Wal] = None => Live = dir[Db]
      /\ dir[Wal] # None => Live.data = dir[Wal].data
  BY <1>1, <1>2, ReadFields DEF Live
<1>4. /\ dir[Wal] = None => synced[Wal] = None
      /\ dir[Wal] # None => dir[Db].data <= dir[Wal].data
                            /\ (synced[Wal] # None => synced[Wal].data <= dir[Wal].data)
  BY <1>1 DEF TailsFit, Either
<1>5. Read(dir').data \in Nat /\ Live.data \in Nat
  BY <1>3, FileFields
<1> QED
  BY <1>2, <1>3, <1>4, <1>5
LEMMA KeptStep ==
  ASSUME IInv, [Next]_vars
  PROVE  Kept'
<1> DEFINE FilesOk == \A f \in Either(Db) : f # None /\ f.ok
           Stands == synced[Db] = dir[Db] /\ ContentOf(Live) = last
<1>1. /\ TypeOK /\ TailsFit /\ OpenedFits /\ Kept /\ Marked
      /\ Db \in Name /\ Wal \in Name /\ Db # Wal
      /\ dir \in [Name -> File \cup {None}] /\ synced \in [Name -> File \cup {None}]
      /\ marker \in [booted : Version \cup {None}, snapshotted : Version \cup {None}]
  BY Names DEF IInv, TypeOK
<1>2. ASSUME UNCHANGED <<dir, synced>> PROVE FilesOk' = FilesOk /\ Live' = Live
  BY <1>2 DEF Either, Live
<1>3. last # None => FilesOk /\ dir[Db] # None /\ dir[Db].ok /\ synced[Db] # None /\ synced[Db].ok
                     /\ Live \in File /\ Live.ok = dir[Db].ok
  BY <1>1, ReadFields DEF Kept, Either, Live
<1>4. ASSUME UNCHANGED <<last, marker, snaps>>, last # None => FilesOk',
             last # None /\ marker.snapshotted = None => Stands',
             proc'.at # "marking", proc'.at \in Swapping => (last # None => marker.snapshotted # None)
      PROVE  Kept'
  BY <1>1, <1>4 DEF Kept, OnTop
<1>5. ASSUME UNCHANGED <<dir, synced, last>> PROVE (last # None => FilesOk')
                                                /\ (last # None /\ marker.snapshotted = None => Stands')
  BY <1>1, <1>2, <1>3, <1>5 DEF Kept, ContentOf
<1>6. ASSUME Close, UNCHANGED last PROVE /\ last # None => FilesOk'
                                         /\ last # None /\ marker.snapshotted = None => Stands'
                                         /\ proc'.at \notin Swapping /\ proc'.at # "marking"
  <2>1. /\ proc' = Down /\ synced' = dir' /\ dir'[Db] = Live /\ Live' = Live
        /\ dir[Db] # None => dir'[Db] # None
    BY <1>1, <1>6, CloseFiles
  <2>2. last # None => FilesOk'
    BY <1>3, <2>1 DEF Either
  <2>3. last # None /\ marker.snapshotted = None => Stands'
    BY <1>1, <1>6, <2>1 DEF Kept, ContentOf
  <2> QED
    BY <2>1, <2>2, <2>3, StepNames DEF Down
<1>7. ASSUME Close, UNCHANGED <<last, marker, snaps>> PROVE Kept'
  BY <1>4, <1>6, <1>7
<1> HIDE DEF FilesOk, Stands
<1>8. last # None /\ marker.snapshotted = None =>
        /\ Live.schema = last.schema /\ Live.schema # Empty /\ ContentOf(Live) = last
        /\ marker.booted # None => Live.schema = SchemaOf[marker.booted]
  BY <1>1, <1>3, FileFields DEF Kept
<1>9. ASSUME NEW step \in Step, proc.at \in Step, At(step) PROVE proc'.at = step /\ proc.version # None
  BY <1>9, RunningHere, AtStep, NamesAssumption
<1>10. /\ Guarded = IF proc.cmd = "rebuild" THEN "building" ELSE "migrating"
       /\ Guarded \in Step /\ Guarded # "marking"
       /\ "migrating" \notin Swapping /\ "copying" \notin Swapping /\ "marking" \notin Swapping
       /\ "pruning" \notin Swapping /\ "verified" \notin Swapping /\ "serving" \notin Swapping
       /\ "guarding" \notin Swapping
  BY DEF Guarded, Step, Swapping
<1>11. ASSUME NEW cmd \in Command \ {"rebuild"}, NEW v \in Version, Start(cmd, v) PROVE Kept'
  <2>1. /\ proc'.at = "guarding" /\ (dir[Db] # None => dir' = dir)
        /\ synced' = dir' \/ synced' = synced
        /\ UNCHANGED <<snaps, marker, last>>
    BY <1>11, StartSteps
  <2>2. last # None => FilesOk'
    BY <1>3, <2>1 DEF FilesOk, Either
  <2>3. last # None /\ marker.snapshotted = None => Stands'
    <3>1. SUFFICES ASSUME last # None, marker.snapshotted = None PROVE Stands'
      OBVIOUS
    <3>2. dir' = dir /\ synced'[Db] = dir'[Db] /\ last' = last
      BY <1>1, <1>3, <2>1, <3>1 DEF Kept
    <3>3. Live' = Live
      BY <3>2 DEF Live
    <3> QED
      BY <1>8, <3>1, <3>2, <3>3 DEF Stands, ContentOf
  <2> QED
    BY <1>4, <1>10, <2>1, <2>2, <2>3
<1>12. ASSUME MarkSnapshotted(Guarded) \/ MarkSnapshotted("pruning"), proc.at \in Step, UNCHANGED <<last, snaps>>,
              last # None => OnTop, last # None => marker.snapshotted # None \/ proc.at = "marking"
       PROVE  Kept'
  <2>1. proc.version # None /\ proc.version \in Version /\ "pruning" \in Step
    BY <1>12, RunningHere, NamesAssumption DEF Step
  <2>2. last # None => OnTop'
    BY <1>12 DEF OnTop
  <2>3. CASE ~Close
    <3>1. /\ marker' = [marker EXCEPT !.snapshotted = proc.version] /\ UNCHANGED <<dir, synced>>
          /\ At(Guarded) \/ At("pruning")
      BY <1>12, <2>3 DEF MarkSnapshotted
    <3>2. marker'.snapshotted # None
      BY <1>1, <2>1, <3>1
    <3>3. proc'.at # "marking"
      BY <1>9, <1>10, <1>12, <2>1, <3>1
    <3> QED
      BY <1>1, <1>2, <1>3, <1>12, <2>2, <3>1, <3>2, <3>3 DEF Kept, FilesOk
  <2>4. CASE Close
    <3>1. /\ marker' = marker \/ marker' = [marker EXCEPT !.snapshotted = proc.version]
      BY <1>12, <2>4 DEF MarkSnapshotted
    <3>2. marker'.booted = marker.booted /\ (marker'.snapshotted = None => marker.snapshotted = None)
      BY <1>1, <2>1, <3>1
    <3>3. (last # None => FilesOk') /\ (last # None /\ marker.snapshotted = None => Stands')
          /\ proc'.at \notin Swapping /\ proc'.at # "marking"
      BY <1>6, <1>12, <2>4
    <3> QED
      BY <1>1, <1>12, <2>2, <3>2, <3>3 DEF Kept, FilesOk, Stands
  <2> QED
    BY <2>3, <2>4
<1>13. ASSUME Guard PROVE Kept'
  <2>1. /\ proc.at = "guarding" /\ proc.at \in Step /\ "copying" \in Step /\ proc.at \in Opened
        /\ UNCHANGED <<snaps, last>>
    BY <1>13 DEF Guard, Step, Opened
  <2>2. CASE Close /\ UNCHANGED marker
    BY <1>7, <2>1, <2>2
  <2>3. CASE Handled /\ At(Guarded) /\ UNCHANGED <<dir, synced, marker>>
    <3>1. proc'.at = Guarded /\ proc.version # None
      BY <1>9, <1>10, <2>1, <2>3
    <3>2. ASSUME proc.cmd = "rebuild", last # None PROVE marker.snapshotted # None
      <4>1. Live.schema # SchemaOf[proc.version]
        BY <1>1, <2>1, <3>2 DEF OpenedFits
      <4> QED
        BY <1>8, <2>3, <3>1, <3>2, <4>1 DEF Handled
    <3> QED
      BY <1>4, <1>5, <1>10, <2>1, <2>3, <3>1, <3>2
  <2>4. CASE ~Handled /\ ~NeedsCopy /\ MarkSnapshotted(Guarded)
    <3>1. last # None => marker.snapshotted # None
      BY <1>8, <2>4 DEF NeedsCopy
    <3> QED
      BY <1>1, <1>12, <2>1, <2>4, <3>1 DEF Kept
  <2>5. CASE At("copying") /\ UNCHANGED <<dir, synced, marker>>
    BY <1>4, <1>5, <1>9, <1>10, <2>1, <2>5
  <2> QED
    BY <1>13, <2>2, <2>3, <2>4, <2>5 DEF Guard
<1>14. ASSUME WritePreUpgradeSnapshot PROVE Kept'
  <2>1. /\ proc.at = "copying" /\ proc.at \in Step /\ "marking" \in Step /\ dir[Db] # None
        /\ UNCHANGED <<marker, last>> /\ marker.snapshotted = None
    BY <1>1, <1>14 DEF WritePreUpgradeSnapshot, Step, OpenedFits, Opened, Marked
  <2>2. CASE ~Close
    <3>1. /\ At("marking") /\ UNCHANGED <<dir, synced>> /\ snaps' = <<ContentOf(Live)>> \o snaps
      BY <1>14, <2>2 DEF WritePreUpgradeSnapshot
    <3>2. proc'.at = "marking" /\ proc' # Down
      BY <1>9, <2>1, <3>1 DEF Down
    <3>3. snaps'[1] = ContentOf(Live) /\ snaps' # << >>
      BY <1>1, <1>14, <2>1, <3>1, <3>2, SnapTypes
    <3>4. last # None => OnTop'
      <4>1. SUFFICES ASSUME last # None PROVE OnTop'
        OBVIOUS
      <4>2. snaps'[1] = last /\ last' = last /\ last.data \in Nat
        BY <1>3, <1>8, <2>1, <3>3, <4>1, FileFields
      <4> QED
        BY <3>3, <4>2 DEF OnTop
    <3>5. (last # None => FilesOk') /\ (last # None /\ marker.snapshotted = None => Stands')
      BY <1>5, <2>1, <3>1
    <3> QED
      BY <1>1, <1>10, <2>1, <3>2, <3>4, <3>5 DEF Kept, FilesOk, Stands
  <2>3. CASE Close
    BY <1>1, <1>6, <2>1, <2>3 DEF Kept, FilesOk, Stands
  <2> QED
    BY <2>2, <2>3
<1>15. ASSUME MarkCopied PROVE Kept'
  <2>1. proc.at = "marking" /\ proc.at \in Step /\ MarkSnapshotted("pruning") /\ UNCHANGED <<last, snaps>>
    BY <1>15 DEF MarkCopied, Step
  <2> QED
    BY <1>1, <1>12, <2>1 DEF Kept
<1>16. ASSUME ApplyPreUpgradeRetention PROVE Kept'
  <2>1. /\ proc.at = "pruning" /\ proc.at \in Step /\ At(Guarded)
        /\ UNCHANGED <<dir, synced, marker, last>>
    BY <1>16 DEF ApplyPreUpgradeRetention, Step
  <2>2. marker.snapshotted # None /\ proc'.at # "marking"
    BY <1>1, <1>9, <1>10, <2>1 DEF Marked
  <2>3. last # None => OnTop'
    BY <1>1, <1>16, <2>1, <2>2, PruneTypes DEF Kept, OnTop
  <2> QED
    BY <1>1, <1>5, <2>1, <2>2, <2>3 DEF Kept, FilesOk
<1>17. ASSUME Up PROVE Kept'
  <2>1. /\ proc.at = "migrating" /\ dir[Db] # None /\ UNCHANGED <<snaps, marker, last>>
        /\ Pending(dir, proc.version) /\ proc.version \in Version
    BY <1>17, UpSteps, RunningHere DEF Step
  <2>2. CASE Close
    BY <1>7, <2>1, <2>2
  <2>3. CASE ~Close
    <3>1. PICK file \in File : Commit(file) /\ UNCHANGED proc
      BY <1>17, <2>3, UpSteps
    <3>2. dir'[Db] = dir[Db] /\ (synced' = synced \/ synced' = dir)
      BY <1>1, <3>1 DEF Commit
    <3>3. last # None => FilesOk'
      BY <1>3, <3>2 DEF FilesOk, Either
    <3>4. last # None => marker.snapshotted # None
      <4>1. SUFFICES ASSUME last # None, marker.snapshotted = None PROVE FALSE
        OBVIOUS
      <4>2. proc.version = marker.booted /\ marker.booted # None
        BY <1>1, <2>1, <4>1, NamesAssumption DEF Marked
      <4>3. Live.schema = SchemaOf[proc.version]
        BY <1>8, <4>1, <4>2
      <4> QED
        BY <2>1, <4>3, SchemasAssumption DEF Pending, Live
    <3> QED
      BY <1>4, <1>10, <2>1, <3>1, <3>3, <3>4
  <2> QED
    BY <2>2, <2>3
<1>18. ASSUME VerifySchema PROVE Kept'
  <2>1. /\ proc.at = "migrating" /\ proc.at \in Step /\ "verified" \in Step
        /\ UNCHANGED <<snaps, marker, last>>
        /\ Close \/ (At("verified") /\ UNCHANGED <<dir, synced>>)
    BY <1>18 DEF VerifySchema, Step
  <2> QED
    BY <1>4, <1>5, <1>7, <1>9, <1>10, <2>1
<1>19. ASSUME MarkBooted PROVE Kept'
  <2>1. /\ proc.at = "verified" /\ proc.at \in Step /\ "serving" \in Step /\ At("serving")
        /\ last' = ContentOf(Live) /\ UNCHANGED <<dir, synced>>
        /\ marker' \in {Booted(proc.version), NoMarker}
    BY <1>19 DEF MarkBooted, Step
  <2>2. /\ dir[Db] # None /\ dir[Db].ok /\ synced[Db] = dir[Db] /\ proc.version \in Version
        /\ Live.schema = SchemaOf[proc.version]
    BY <1>1, <2>1, RunningHere DEF OpenedFits, Opened
  <2>3. Live' = Live /\ Live \in File /\ proc'.at = "serving"
    BY <1>1, <1>2, <1>9, <2>1, <2>2, ReadFields DEF Live
  <2>4. last'.schema = SchemaOf[proc.version] /\ last'.schema # Empty
    BY <2>1, <2>2, <2>3, FileFields, SchemasAssumption, NamesAssumption
  <2>5. marker'.snapshotted = None /\ (marker'.booted = proc.version \/ marker'.booted = None)
    BY <2>1 DEF Booted, NoMarker
  <2>6. \A f \in Either(Db)' : f # None /\ f.ok
    BY <2>1, <2>2 DEF Either
  <2> QED
    BY <1>10, <2>1, <2>2, <2>3, <2>4, <2>5, <2>6 DEF Kept, ContentOf
<1>20. ASSUME MakeEntry PROVE Kept'
  <2>1. /\ proc.at = "serving" /\ dir[Db] # None /\ UNCHANGED <<proc, marker>>
        /\ marker.snapshotted = None /\ last = ContentOf(Live)
    BY <1>1, <1>20, EntrySteps DEF Marked
  <2>2. PICK file \in File : /\ Commit(file) /\ file.of = dir[Db].of /\ file.ok = dir[Db].ok
                             /\ file.schema = Live.schema /\ last' = ContentOf(file)
    BY <1>20, EntrySteps
  <2>3. last # None
    BY <1>1, <2>1, ReadFields, FileFields DEF Live
  <2>4. /\ Live' = file /\ dir'[Db] = dir[Db] /\ synced'[Db] = dir[Db]
    BY <1>1, <2>1, <2>2, <2>3, CommitFiles DEF Kept
  <2>5. last'.schema = last.schema
    BY <1>8, <2>1, <2>2, <2>3, FileFields
  <2>6. \A f \in Either(Db)' : f # None /\ f.ok
    BY <1>3, <2>3, <2>4 DEF Either
  <2> QED
    BY <1>1, <1>10, <2>1, <2>2, <2>3, <2>4, <2>5, <2>6 DEF Kept, ContentOf
<1>21. ASSUME Stop PROVE Kept'
  BY <1>7, <1>21 DEF Stop
<1>22. ASSUME NEW v \in Version, NEW doc \in 0..MaxEntries, StartRebuild(v, doc) PROVE Kept'
  <2>1. /\ UNCHANGED <<dir, synced, snaps, marker, last>>
        /\ proc' = [Launch("rebuild", v, doc) EXCEPT !.at = IF Healthy(dir) THEN @ ELSE "building"]
    BY <1>22 DEF StartRebuild
  <2>2. proc'.at = IF Healthy(dir) THEN "guarding" ELSE "building"
    BY <2>1 DEF Launch
  <2>3. last # None /\ marker.snapshotted = None => Healthy(dir)
    BY <1>3, <1>8 DEF Healthy, Live
  <2> QED
    BY <1>4, <1>5, <1>10, <2>1, <2>2, <2>3
<1>23. ASSUME proc.at \in Swapping, UNCHANGED <<snaps, marker, last>>, last # None => FilesOk',
              proc'.at # "marking"
       PROVE  Kept'
  BY <1>1, <1>4, <1>23 DEF Kept
<1>24. ASSUME BuildScratch PROVE Kept'
  <2>1. /\ proc.at \in Swapping /\ UNCHANGED <<snaps, marker, last>>
        /\ UNCHANGED <<dir, synced>> \/ synced' = dir'
        /\ (dir'[Db] = None <=> dir[Db] = None)
        /\ dir[Db] # None => dir'[Db].ok = dir[Db].ok
        /\ proc' = Down \/ proc'.at \in {"renaming", "asiding"}
    BY <1>24, BuildSteps DEF Swapping
  <2>2. last # None => FilesOk'
    BY <1>3, <2>1 DEF FilesOk, Either
  <2> QED
    BY <1>23, <2>1, <2>2 DEF Down
<1>25. ASSUME proc.at \in Swapping, UNCHANGED <<snaps, marker, last>>, dir'[Db] = dir[Db],
              synced'[Db] \in {dir[Db], synced[Db]}, proc' = Down \/ \E step \in Swapping : At(step)
       PROVE  Kept'
  <2>1. last # None => FilesOk'
    BY <1>3, <1>25 DEF FilesOk, Either
  <2>2. proc'.at # "marking"
    <3>1. proc.at \in Step /\ Swapping \subseteq Step
      BY <1>25, StepNames
    <3>2. ASSUME NEW step \in Swapping, At(step) PROVE proc'.at # "marking"
      BY <1>9, <1>10, <3>1, <3>2
    <3> QED
      BY <1>25, <3>2 DEF Down
  <2> QED
    BY <1>23, <1>25, <2>1, <2>2
<1>26. ASSUME KeepFile \/ KeepWal PROVE Kept'
  <2>1. /\ proc.at \in Swapping /\ UNCHANGED <<snaps, marker, last>>
        /\ proc' = Down \/ At("asidingwal") \/ At("clearing")
    BY <1>26 DEF KeepFile, KeepWal, CopyAside, Swapping
  <2>2. dir'[Db] = dir[Db] /\ (synced' = synced \/ synced' = dir')
    <3>1. /\ Aside(rebuilds) \in Name \ {Db, Wal} /\ AsideWal(rebuilds) \in Name \ {Db, Wal}
      BY <2>1, AsideNames
    <3> QED
      BY <1>1, <1>26, <3>1 DEF KeepFile, KeepWal, CopyAside, Write
  <2> QED
    BY <1>25, <2>1, <2>2 DEF Swapping
<1>27. ASSUME RemoveSideFiles \/ SyncRemoval \/ SyncSwap PROVE Kept'
  <2>1. /\ proc.at \in Swapping /\ UNCHANGED <<snaps, marker, last>>
        /\ proc' = Down \/ At("syncing") \/ At("renaming")
        /\ dir'[Db] = dir[Db] /\ synced' \in {dir, synced}
    BY <1>1, <1>27 DEF RemoveSideFiles, SyncRemoval, SyncSwap, SyncDir, SyncedDir, At, Swapping
  <2> QED
    BY <1>25, <2>1 DEF Swapping
<1>28. ASSUME RenameInPlace PROVE Kept'
  <2> DEFINE file == [schema |-> SchemaOf[proc.version], data |-> proc.doc, ok |-> TRUE, of |-> rebuilds]
  <2>1. /\ proc.at = "renaming" /\ proc.at \in Swapping /\ UNCHANGED <<synced, snaps, marker, last>>
        /\ \/ dir' = [dir EXCEPT ![Db] = file] /\ At("finishing")
           \/ UNCHANGED dir /\ proc' = Down
    BY <1>28 DEF RenameInPlace, Swapping
  <2>2. file # None /\ file.ok
    <3>1. proc \in Process /\ proc.version \in Version /\ proc.doc \in 0..MaxEntries
      BY <2>1, Running, StepNames DEF IInv
    <3>2. file \in File
      BY <1>1, <3>1, SchemasAssumption DEF File, TypeOK
    <3> QED
      BY <3>2, FileFields
  <2> HIDE DEF file
  <2>3. last # None => FilesOk'
    BY <1>1, <1>3, <2>1, <2>2 DEF FilesOk, Either
  <2>4. proc'.at # "marking"
    <3>1. proc.at \in Step /\ "finishing" \in Step
      BY <2>1 DEF Step
    <3> QED
      BY <1>9, <2>1, <3>1 DEF Down
  <2> QED
    BY <1>23, <2>1, <2>3, <2>4
<1>29. ASSUME Kill PROVE Kept'
  BY <1>4, <1>5, <1>29, StepNames DEF Kill, Down
<1>30. ASSUME PowerCut PROVE Kept'
  <2>1. /\ dir'[Db] \in Either(Db) /\ synced' = dir' /\ proc' = Down /\ UNCHANGED <<snaps, marker>>
        /\ last' = IF last # None /\ dir[Db] # None /\ last = ContentOf(Live) /\ dir'[Db] = dir[Db]
                   THEN IF Read(dir').schema = last.schema THEN ContentOf(Read(dir')) ELSE None
                   ELSE last
    BY <1>1, <1>30 DEF PowerCut, Either
  <2>2. SUFFICES ASSUME last' # None PROVE Kept'
    BY DEF Kept
  <2>3. last # None
    BY <2>1, <2>2
  <2>4. \A f \in Either(Db)' : f # None /\ f.ok
    BY <1>3, <2>1, <2>3 DEF Either, FilesOk
  <2>5. proc'.at \notin Swapping /\ proc'.at # "marking"
    BY <2>1, StepNames DEF Down
  <2>6. CASE dir'[Db] = dir[Db] /\ last = ContentOf(Live)
    <3>1. /\ Read(dir') \in File /\ Read(dir').data \in Nat /\ Read(dir').data <= Live.data
          /\ Live.data \in Nat /\ Live \in File
      BY <1>3, <1>30, <2>3, <2>6, CutLoses, FileFields
    <3>2. Read(dir').schema = last.schema /\ last' = ContentOf(Read(dir'))
      BY <1>3, <2>1, <2>2, <2>3, <2>6
    <3>3. last'.schema = last.schema /\ last'.data <= last.data /\ last'.data \in Nat /\ last.data \in Nat
      BY <2>6, <3>1, <3>2, FileFields
    <3>4. marker.snapshotted # None => OnTop'
      <4>1. SUFFICES ASSUME marker.snapshotted # None PROVE OnTop'
        OBVIOUS
      <4>2. OnTop /\ snaps \in Seq(Content)
        BY <1>1, <2>3, <4>1 DEF Kept, TypeOK
      <4>3. snaps[1] \in Content
        BY <4>2 DEF OnTop
      <4>4. snaps[1].data \in Nat
        BY <4>3, BoundsAssumption DEF Content
      <4> QED
        BY <2>1, <3>3, <4>2, <4>4 DEF OnTop
    <3>5. marker.snapshotted = None => synced'[Db] = dir'[Db] /\ ContentOf(Live)' = last'
      BY <2>1, <3>2 DEF Live, ContentOf
    <3> QED
      BY <1>1, <2>1, <2>3, <2>4, <2>5, <3>3, <3>4, <3>5 DEF Kept
  <2>7. CASE ~(dir'[Db] = dir[Db] /\ last = ContentOf(Live))
    <3>1. last' = last
      BY <2>1, <2>7
    <3>2. marker.snapshotted # None
      BY <1>1, <2>1, <2>3, <2>7 DEF Kept, Either
    <3>3. OnTop'
      BY <1>1, <2>1, <2>3, <3>1, <3>2 DEF Kept, OnTop
    <3> QED
      BY <1>1, <2>1, <2>3, <2>4, <2>5, <3>1, <3>2, <3>3 DEF Kept
  <2> QED
    BY <2>6, <2>7
<1>31. ASSUME Damage PROVE Kept'
  BY <1>31, DamageSteps DEF Kept
<1>32. ASSUME UNCHANGED vars PROVE Kept'
  <2>1. (last # None => FilesOk') /\ (last # None /\ marker.snapshotted = None => Stands')
    BY <1>5, <1>32 DEF vars
  <2> QED
    BY <1>1, <1>32, <2>1 DEF Kept, vars, OnTop, FilesOk, Stands
<1> QED
  BY <1>11, <1>13, <1>14, <1>15, <1>16, <1>17, <1>18, <1>19, <1>20, <1>21, <1>22, <1>24, <1>26,
     <1>27, <1>28, <1>29, <1>30, <1>31, <1>32 DEF Next, Command
-----------------------------------------------------------------------------
(* The theorems.                                                            *)

LEMMA UpgradeInit ==
  Init => IInv
<1> SUFFICES ASSUME Init PROVE IInv
  OBVIOUS
<1>1. TypeOK
  BY TypeInit
<1>2. /\ \A n \in Name : dir[n] = None /\ synced[n] = None
      /\ proc = Down /\ last = None
  BY DEF Init, NoFile
<1>3. TailsFit
  BY <1>2, Names DEF TailsFit, Either
<1>4. OpenedFits /\ SwapFits
  BY <1>2, StepNames DEF OpenedFits, SwapFits, Down
<1>5. AsidesFit
  BY <1>2 DEF AsidesFit
<1>6. Kept /\ Marked
  BY <1>2 DEF Kept, Marked, Down
<1> QED
  BY <1>1, <1>3, <1>4, <1>5, <1>6 DEF IInv

\* The invariant holds of every state: whatever commands start, fail, are killed
\* or lose power.
LEMMA UpgradeInvariant ==
  Spec => []IInv
<1>1. IInv /\ [Next]_vars => IInv'
  BY TypeStep, TailsStep, OpenedStep, SwapStep, AsidesStep, KeptStep, MarkedStep DEF IInv
<1> QED
  BY <1>1, UpgradeInit, PTL DEF Spec

\* Every state is of its type.
THEOREM UpgradeTypes ==
  Spec => []TypeOK
<1>1. IInv => TypeOK
  BY DEF IInv
<1> QED
  BY <1>1, UpgradeInvariant, PTL

\* After any power cut too, no -wal lies beside a database that did not write it
\* (ReplaceDatabase): the removal is synced before the new file takes the name.
THEOREM TailsBelong ==
  Spec => []NoStaleWal
<1>1. IInv => NoStaleWal
  BY DEF IInv, TailsFit, Either, NoStaleWal
<1> QED
  BY <1>1, UpgradeInvariant, PTL

\* What the last server left is in the database or in a snapshot retention has
\* kept, across any number of failed boots, versions tried and crashes
\* (EnsurePreUpgradeSnapshot).
THEOREM WayBack ==
  Spec => []Recoverable
<1>1. ASSUME IInv PROVE Recoverable
  <2>1. SUFFICES ASSUME last # None PROVE ContentOf(Live) = last \/ InSnapshot
    BY DEF Recoverable
  <2>2. Kept /\ snaps \in Seq(Content)
    BY <1>1 DEF IInv, TypeOK
  <2>3. CASE marker.snapshotted = None
    BY <2>1, <2>2, <2>3 DEF Kept
  <2>4. CASE marker.snapshotted # None
    <3>1. OnTop
      BY <2>1, <2>2, <2>4 DEF Kept
    <3>2. 1 \in DOMAIN snaps
      BY <2>2, <3>1 DEF OnTop
    <3>3. snaps[1] \in Range(snaps)
      BY <3>2 DEF Range
    <3> QED
      BY <3>1, <3>3 DEF OnTop, InSnapshot
  <2> QED
    BY <2>3, <2>4
<1> QED
  BY <1>1, UpgradeInvariant, PTL

\* Before a rebuild gives the database's name away, what had that name is durable
\* under another, with its -wal (ReplaceDatabase).
THEOREM OldFileIsKept ==
  Spec => SwapKeepsTheOldFile
<1>1. ASSUME IInv, [Next]_vars
      PROVE  proc.at = "renaming" /\ proc.found.db # None /\ dir'[Db] # dir[Db] =>
               /\ synced[Aside(rebuilds)] = proc.found.db
               /\ synced[AsideWal(rebuilds)] = proc.found.wal
  <2>1. SUFFICES ASSUME proc.at = "renaming", proc.found.db # None
                 PROVE  /\ synced[Aside(rebuilds)] = proc.found.db
                        /\ synced[AsideWal(rebuilds)] = proc.found.wal
    OBVIOUS
  <2>2. proc # Down /\ proc.cmd = "rebuild"
    BY <1>1, <2>1, AsideNames, StepNames DEF Swapping
  <2> QED
    BY <1>1, <2>1, <2>2 DEF IInv, AsidesFit, Either
<1> QED
  BY <1>1, UpgradeInvariant, PTL DEF Spec, SwapKeepsTheOldFile

\* A healthy database gains one entry when a server makes it, and none is gained
\* or lost by a start, a migration, a rebuild, a kill, or a power cut that finds
\* the file synced.
THEOREM EntriesAreSafe ==
  Spec => EntriesSurvive
<1>1. ASSUME IInv, [Next]_vars, dir[Db] # None, dir'[Db] # None,
             synced[Db] = dir[Db], synced[Wal] = dir[Wal],
             Read(dir).ok, Read(dir).schema # Empty, Read(dir').ok, Read(dir').data # Read(dir).data
      PROVE  /\ proc.at = "serving" /\ proc' = proc
             /\ Read(dir').data = Read(dir).data + 1
  <2>1. /\ TypeOK /\ TypeOK' /\ TailsFit /\ SwapFits /\ Db \in Name /\ Wal \in Name /\ Db # Wal
        /\ dir \in [Name -> File \cup {None}] /\ dir' \in [Name -> File \cup {None}]
        /\ Healthy(dir) /\ Live = Read(dir) /\ Live' = Read(dir')
    BY <1>1, TypeStep, Names DEF IInv, TypeOK, Healthy, Live
  <2>2. Live' # Live
    BY <1>1, <2>1
  <2>3. ~(dir'[Db] = dir[Db] /\ dir'[Wal] = dir[Wal])
    BY <2>1, <2>2 DEF Read
  <2>4. ~Close
    BY <1>1, <2>1, <2>2, CloseFiles
  <2>5. CASE MakeEntry
    <3>1. PICK file \in File : /\ Commit(file) /\ file.of = dir[Db].of /\ file.ok = dir[Db].ok
                               /\ file.data = Live.data + 1
      BY <1>1, <2>5, EntrySteps
    <3>2. Live' = file
      BY <1>1, <2>1, <3>1, CommitFiles
    <3> QED
      BY <1>1, <2>1, <2>5, <3>1, <3>2, EntrySteps
  <2>6. ASSUME NEW cmd \in Command \ {"rebuild"}, NEW v \in Version, Start(cmd, v) PROVE FALSE
    BY <1>1, <2>3, <2>6, StartSteps
  <2>7. ~Up
    <3>1. SUFFICES ASSUME Up PROVE FALSE
      OBVIOUS
    <3>2. PICK file \in File : /\ Commit(file) /\ file.of = dir[Db].of /\ file.ok = dir[Db].ok
                               /\ file.data = Live.data
      BY <1>1, <2>4, <3>1, UpSteps
    <3>3. Live' = file
      BY <1>1, <2>1, <3>2, CommitFiles
    <3> QED
      BY <1>1, <2>1, <3>2, <3>3
  <2>8. ~(Guard \/ WritePreUpgradeSnapshot \/ MarkCopied \/ ApplyPreUpgradeRetention \/ VerifySchema
            \/ MarkBooted \/ Stop \/ SyncRemoval \/ SyncSwap \/ Kill \/ UNCHANGED vars)
    BY <2>3, <2>4 DEF Guard, MarkSnapshotted, WritePreUpgradeSnapshot, MarkCopied,
                      ApplyPreUpgradeRetention, VerifySchema, MarkBooted, Stop, SyncRemoval,
                      SyncSwap, SyncDir, Kill, vars
  <2>9. ASSUME NEW v \in Version, NEW doc \in 0..MaxEntries, StartRebuild(v, doc) PROVE FALSE
    BY <2>3, <2>9 DEF StartRebuild
  <2>10. ~BuildScratch
    BY <1>1, <2>2, BuildSteps
  <2>11. ~(KeepFile \/ KeepWal)
    <3>1. SUFFICES ASSUME KeepFile \/ KeepWal PROVE FALSE
      OBVIOUS
    <3>2. proc.at \in Swapping
      BY <3>1 DEF KeepFile, KeepWal, Swapping
    <3>3. Aside(rebuilds) \in Name \ {Db, Wal} /\ AsideWal(rebuilds) \in Name \ {Db, Wal}
      BY <1>1, <3>2, AsideNames
    <3> QED
      BY <2>1, <2>3, <3>1, <3>3 DEF KeepFile, KeepWal, CopyAside, Write
  <2>12. ~RemoveSideFiles
    <3>1. SUFFICES ASSUME RemoveSideFiles PROVE FALSE
      OBVIOUS
    <3>2. proc.at = "clearing" /\ dir'[Wal] = None /\ dir'[Db] = dir[Db]
      BY <2>1, <3>1 DEF RemoveSideFiles
    <3>3. dir[Db].ok
      BY <1>1, <2>1, ReadFields
    <3>4. dir[Wal] = None
      BY <2>1, <3>2, <3>3 DEF SwapFits, Swapping
    <3> QED
      BY <2>3, <3>2, <3>4
  <2>13. ~RenameInPlace
    <3>1. SUFFICES ASSUME RenameInPlace PROVE FALSE
      OBVIOUS
    <3>2. proc.at = "renaming" /\ dir'[Wal] = dir[Wal]
      BY <2>1, <3>1 DEF RenameInPlace
    <3>3. Live.data = proc.doc /\ dir[Wal] = None
      BY <2>1, <3>2 DEF SwapFits, Swapping
    <3>4. dir'[Db].data = proc.doc
      BY <2>1, <2>3, <3>1, <3>2 DEF RenameInPlace
    <3>5. Live' = dir'[Db]
      BY <1>1, <2>1, <3>2, <3>3, ReadFields
    <3> QED
      BY <1>1, <2>1, <3>3, <3>4, <3>5
  <2>14. ~PowerCut
    BY <1>1, <2>1, <2>3 DEF PowerCut
  <2>15. ~Damage
    <3>1. SUFFICES ASSUME Damage PROVE FALSE
      OBVIOUS
    <3>2. ~dir'[Db].ok
      BY <1>1, <3>1, DamageSteps
    <3> QED
      BY <1>1, <2>1, <3>2, ReadFields
  <2> QED
    BY <1>1, <2>5, <2>6, <2>7, <2>8, <2>9, <2>10, <2>11, <2>12, <2>13, <2>14, <2>15 DEF Next, Command
<1>2. IInv /\ [Next]_vars =>
        (dir[Db] # None /\ dir'[Db] # None /\ synced[Db] = dir[Db] /\ synced[Wal] = dir[Wal] =>
           LET before == Read(dir)
               after == Read(dir')
           IN  before.ok /\ before.schema # Empty /\ after.ok /\ after.data # before.data =>
                 /\ proc.at = "serving" /\ proc' = proc
                 /\ after.data = before.data + 1)
  BY <1>1
<1> QED
  BY <1>2, UpgradeInvariant, PTL DEF Spec, EntriesSurvive
=============================================================================
