---------------------------- MODULE BackupsProofs ----------------------------
(***************************************************************************)
(* What the backups promise of the directory of dumps, proved for any      *)
(* photos, versions, quotas, names, changes, failures and crashes.         *)
(***************************************************************************)
EXTENDS Backups, FiniteSetTheorems, SequenceTheorems, TLAPS

-----------------------------------------------------------------------------
(* Types.                                                                   *)

LEMMA IdleHand == Idle \in Hand
BY DEF Idle, Hand, Step, Fund, Hash, Source, NoRows

\* One writer's hand changes.
LEMMA OneHand ==
  ASSUME writer \in [Writer -> Hand], NEW w \in Writer, NEW hand \in Hand, To(w, hand)
  PROVE  /\ writer' \in [Writer -> Hand] /\ writer'[w] = hand
         /\ \A v \in Writer : v # w => writer'[v] = writer[v]
BY DEF To

\* A sequence without its i-th element.
LEMMA WithoutOne ==
  ASSUME NEW S, NEW s \in Seq(S), NEW i \in 1..Len(s)
  PROVE  /\ RemoveAt(s, i) \in Seq(S) /\ Len(RemoveAt(s, i)) = Len(s) - 1
         /\ \A k \in 1..(Len(s) - 1) : RemoveAt(s, i)[k] = s[IF k < i THEN k ELSE k + 1]
<1> DEFINE front == SubSeq(s, 1, i - 1)
           rest == SubSeq(s, i + 1, Len(s))
<1>1. Len(s) \in Nat /\ i \in Nat /\ 1 <= i /\ i <= Len(s)
  BY LenProperties
<1>2. /\ front \in Seq(S) /\ Len(front) = i - 1
      /\ \A k \in 1..(i - 1) : front[k] = s[k]
  <2>1. \A k \in 1..(i - 1) : k \in 1..Len(s)
    BY <1>1
  <2>2. \A k \in 1..(i - 1) : s[k] \in S
    BY <2>1, ElementOfSeq
  <2> QED
    BY <1>1, <2>1, <2>2, SubSeqProperties
<1>3. /\ rest \in Seq(S) /\ Len(rest) = Len(s) - i
      /\ \A k \in 1..(Len(s) - i) : rest[k] = s[i + k]
  <2>1. \A k \in (i + 1)..Len(s) : k \in 1..Len(s)
    BY <1>1
  <2>2. \A k \in (i + 1)..Len(s) : s[k] \in S
    BY <2>1, ElementOfSeq
  <2> QED
    BY <1>1, <2>1, <2>2, SubSeqProperties
<1> HIDE DEF front, rest
<1>4. /\ front \o rest \in Seq(S) /\ Len(front \o rest) = Len(s) - 1
      /\ \A k \in 1..(Len(s) - 1) :
           (front \o rest)[k] = IF k <= i - 1 THEN front[k] ELSE rest[k - (i - 1)]
  <2>1. /\ front \o rest \in Seq(S)
        /\ Len(front \o rest) = Len(front) + Len(rest)
        /\ \A k \in 1..(Len(front) + Len(rest)) :
             (front \o rest)[k] = IF k <= Len(front) THEN front[k] ELSE rest[k - Len(front)]
    BY <1>2, <1>3, ConcatProperties
  <2>2. Len(front) + Len(rest) = Len(s) - 1
    BY <1>1, <1>2, <1>3
  <2> QED
    BY <1>2, <2>1, <2>2
<1>5. \A k \in 1..(Len(s) - 1) : (front \o rest)[k] = s[IF k < i THEN k ELSE k + 1]
  <2>1. ASSUME NEW k \in 1..(Len(s) - 1), k < i
        PROVE  (front \o rest)[k] = s[k]
    BY <2>1, <1>1, <1>2, <1>4
  <2>2. ASSUME NEW k \in 1..(Len(s) - 1), ~ (k < i)
        PROVE  (front \o rest)[k] = s[k + 1]
    <3>1. k - (i - 1) \in 1..(Len(s) - i) /\ i + (k - (i - 1)) = k + 1 /\ ~ (k <= i - 1)
      BY <2>2, <1>1
    <3> QED
      BY <3>1, <1>3, <1>4
  <2> QED
    BY <2>1, <2>2
<1> QED
  BY <1>4, <1>5 DEF RemoveAt, front, rest
\* The directory after a dump was written, and after one was removed.
LEMMA Added ==
  ASSUME NEW S, NEW s \in Seq(S), NEW d \in S
  PROVE  /\ <<d>> \o s \in Seq(S) /\ Len(<<d>> \o s) = Len(s) + 1
         /\ (<<d>> \o s)[1] = d
         /\ \A k \in 1..Len(s) : (<<d>> \o s)[k + 1] = s[k]
<1> DEFINE one == <<d>>
<1>1. one \in Seq(S) /\ Len(one) = 1 /\ one[1] = d /\ Len(s) \in Nat
  BY LenProperties
<1> HIDE DEF one
<1>2. /\ one \o s \in Seq(S)
      /\ Len(one \o s) = Len(one) + Len(s)
      /\ \A k \in 1..(Len(one) + Len(s)) :
           (one \o s)[k] = IF k <= Len(one) THEN one[k] ELSE s[k - Len(one)]
  BY <1>1, ConcatProperties
<1>3. \A k \in 1..Len(s) : k + 1 \in 1..(1 + Len(s)) /\ ~ (k + 1 <= 1) /\ (k + 1) - 1 = k
  BY <1>1
<1>4. 1 \in 1..(1 + Len(s)) /\ 1 <= 1
  BY <1>1
<1>5. (one \o s)[1] = d
  BY <1>1, <1>2, <1>4
<1>6. \A k \in 1..Len(s) : (one \o s)[k + 1] = s[k]
  BY <1>1, <1>2, <1>3
<1>7. Len(one \o s) = Len(s) + 1
  BY <1>1, <1>2
<1> QED
  BY <1>2, <1>5, <1>6, <1>7 DEF one

\* What is in a writer's hand after each of its steps is well typed.
LEMMA Hands ==
  ASSUME TypeOK, NEW w \in Writer
  PROVE  /\ writer[w] \in Hand
         /\ [Idle EXCEPT !.at = "booting", !.boot = TRUE] \in Hand
         /\ [Idle EXCEPT !.at = "reading", !.boot = TRUE, !.today = TRUE] \in Hand
         /\ [Idle EXCEPT !.at = "reading", !.today = TRUE] \in Hand
         /\ \A f \in Source : [Idle EXCEPT !.at = "reading", !.today = TRUE, !.from = f] \in Hand
         /\ [writer[w] EXCEPT !.at = "deciding", !.doc = fund] \in Hand
         /\ \A h \in Hash : [writer[w] EXCEPT !.at = "writing", !.hash = h] \in Hand
         /\ [writer[w] EXCEPT !.at = "listing"] \in Hand
         /\ \A S \in SUBSET Name : [writer[w] EXCEPT !.at = "pruning", !.old = S] \in Hand
         /\ \A n : [writer[w] EXCEPT !.old = @ \ {n}] \in Hand
         /\ [writer[w] EXCEPT !.at = "restoring"] \in Hand
         /\ \A b \in BOOLEAN : [writer[w] EXCEPT !.today = b] \in Hand
<1>1. writer[w] \in Hand /\ fund \in Fund
  BY DEF TypeOK
<1> QED
  BY <1>1, IdleHand DEF Hand, Step

\* The dump a writer writes.
DumpOf(w) == [name |-> CHOOSE n \in Free : TRUE, kind |-> KindOf[w], fv |-> running,
              hash |-> writer[w].hash, photos |-> writer[w].doc.photos \cap uploads,
              today |-> writer[w].today]

LEMMA Writing ==
  ASSUME TypeOK, NEW w \in Writer, WriteDump(w), running # None
  PROVE  /\ DumpOf(w) \in Dump /\ DumpOf(w).name \in Free
         /\ dumps' = <<DumpOf(w)>> \o dumps
<1>1. Free # {} /\ dumps' = <<DumpOf(w)>> \o dumps
  BY DEF WriteDump, DumpOf
<1>2. DumpOf(w).name \in Free
  BY <1>1 DEF DumpOf
<1>3. writer[w] \in Hand /\ running \in Version /\ uploads \in SUBSET Photo
  BY DEF TypeOK
<1>4. KindOf[w] \in Kind
  BY DEF KindOf, Writer, Kind
<1>5. DumpOf(w).name \in Name
  BY <1>2 DEF Free
<1>6. /\ writer[w].hash \in Hash /\ writer[w].doc \in Fund /\ writer[w].today \in BOOLEAN
  BY <1>3 DEF Hand
<1>7. writer[w].doc.photos \cap uploads \in SUBSET Photo
  BY <1>3, <1>6 DEF Fund
<1> QED
  BY <1>1, <1>2, <1>3, <1>4, <1>5, <1>6, <1>7 DEF DumpOf, Dump
\* A writer only works while the server runs.
Ready == \A w \in Writer : writer[w].at # "idle" => running # None

\* Dumps are told apart by their names.
Distinct == \A i, j \in DOMAIN dumps : dumps[i].name = dumps[j].name => i = j

LEMMA InitTyped == Init => TypeOK /\ Ready
<1> SUFFICES ASSUME Init PROVE TypeOK /\ Ready
  OBVIOUS
<1>1. writer \in [Writer -> Hand] /\ \A w \in Writer : writer[w].at = "idle"
  BY IdleHand DEF Init, Idle
<1>2. dumps \in Seq(Dump) /\ DOMAIN dumps = {}
  BY DEF Init
<1>3. fund \in Fund /\ 0 \in 0..MaxChanges /\ 0 \in 0..MaxTroubles
  BY BoundsAssumption DEF Init, Fund, NoRows
<1> QED
  BY <1>1, <1>2, <1>3 DEF Init, TypeOK, Ready

\* The stamps change, and nothing else of a dump or a hand.
LEMMA Stamping ==
  ASSUME TypeOK, NEW todays, NEW own \in BOOLEAN, Stamped(todays, own)
  PROVE  /\ dumps' \in Seq(Dump) /\ Len(dumps') = Len(dumps)
         /\ \A i \in 1..Len(dumps) :
              /\ dumps'[i].name = dumps[i].name /\ dumps'[i].kind = dumps[i].kind
              /\ dumps'[i].fv = dumps[i].fv /\ dumps'[i].hash = dumps[i].hash
              /\ dumps'[i].photos = dumps[i].photos
         /\ writer' \in [Writer -> Hand]
         /\ \A w \in Writer :
              /\ writer'[w].at = writer[w].at /\ writer'[w].boot = writer[w].boot
              /\ writer'[w].doc = writer[w].doc /\ writer'[w].hash = writer[w].hash
              /\ writer'[w].old = writer[w].old /\ writer'[w].from = writer[w].from
<1>1. dumps \in Seq(Dump) /\ Len(dumps) \in Nat /\ DOMAIN dumps = 1..Len(dumps)
  BY LenProperties DEF TypeOK
<1>2. dumps' = [i \in 1..Len(dumps) |-> [dumps[i] EXCEPT !.today = i \in todays]]
  BY <1>1 DEF Stamped
<1>3. \A i \in 1..Len(dumps) : dumps[i] \in Dump
  BY <1>1, ElementOfSeq
<1>4. \A i \in 1..Len(dumps) : [dumps[i] EXCEPT !.today = i \in todays] \in Dump
  <2>1. \A b \in BOOLEAN : \A d \in Dump : [d EXCEPT !.today = b] \in Dump
    BY DEF Dump
  <2>2. \A i : (i \in todays) \in BOOLEAN
    OBVIOUS
  <2> QED
    BY <1>3, <2>1, <2>2
<1>5. dumps' \in Seq(Dump) /\ Len(dumps') = Len(dumps)
  BY <1>1, <1>2, <1>4
<1>6. \A i \in 1..Len(dumps) :
        /\ dumps'[i].name = dumps[i].name /\ dumps'[i].kind = dumps[i].kind
        /\ dumps'[i].fv = dumps[i].fv /\ dumps'[i].hash = dumps[i].hash
        /\ dumps'[i].photos = dumps[i].photos
  BY <1>2, <1>3 DEF Dump
<1>7. \A w \in Writer : writer[w] \in Hand
  BY DEF TypeOK
<1>8. \A w \in Writer : [writer[w] EXCEPT !.today = own] \in Hand
  BY Hands
<1>9. writer' \in [Writer -> Hand]
  BY <1>7, <1>8 DEF Stamped
<1>10. \A w \in Writer :
         /\ writer'[w].at = writer[w].at /\ writer'[w].boot = writer[w].boot
         /\ writer'[w].doc = writer[w].doc /\ writer'[w].hash = writer[w].hash
         /\ writer'[w].old = writer[w].old /\ writer'[w].from = writer[w].from
  BY <1>7 DEF Stamped, Hand
<1> QED
  BY <1>5, <1>6, <1>9, <1>10

\* What a step does to the directory: nothing, a stamping, a dump more, or one
\* that was listed less.
Stays == /\ Len(dumps') = Len(dumps) /\ dumps' \in Seq(Dump)
         /\ \A i \in 1..Len(dumps) :
              /\ dumps'[i].name = dumps[i].name /\ dumps'[i].kind = dumps[i].kind
              /\ dumps'[i].fv = dumps[i].fv /\ dumps'[i].hash = dumps[i].hash
              /\ dumps'[i].photos = dumps[i].photos
Grows(w) == /\ running \in Version /\ DumpOf(w) \in Dump /\ DumpOf(w).name \in Free
            /\ dumps' = <<DumpOf(w)>> \o dumps
Listed == {n \in Name : \E w \in Writer : n \in writer[w].old}
Shrinks(i) == dumps[i].name \in Listed /\ dumps' = RemoveAt(dumps, i)

LEMMA SameStays ==
  ASSUME dumps' = dumps, dumps \in Seq(Dump)
  PROVE  Stays
BY DEF Stays

LEMMA Removing ==
  ASSUME TypeOK, NEW w \in Writer, RemoveOld(w)
  PROVE  Stays \/ \E i \in 1..Len(dumps) : Shrinks(i)
<1>1. dumps \in Seq(Dump) /\ DOMAIN dumps = 1..Len(dumps)
  BY LenProperties DEF TypeOK
<1>2. PICK n \in writer[w].old :
         \/ \E i \in DOMAIN dumps : dumps[i].name = n /\ dumps' = RemoveAt(dumps, i)
         \/ dumps' = dumps
  BY DEF RemoveOld
<1>3. n \in Listed
  <2>1. writer[w].old \in SUBSET Name
    BY DEF TypeOK, Hand
  <2> QED
    BY <2>1 DEF Listed
<1> QED
  BY <1>1, <1>2, <1>3, SameStays DEF Shrinks

\* No name is used twice as the directory changes.
LEMMA NamesStayDistinct ==
  ASSUME dumps \in Seq(Dump), Distinct,
         Stays \/ (\E w \in Writer : Grows(w)) \/ (\E i \in 1..Len(dumps) : Shrinks(i))
  PROVE  dumps' \in Seq(Dump) /\ Distinct'
<1>1. Len(dumps) \in Nat /\ DOMAIN dumps = 1..Len(dumps)
  BY LenProperties
<1>2. CASE Stays
  <2>1. DOMAIN dumps' = 1..Len(dumps)
    BY <1>2, LenProperties DEF Stays
  <2> QED
    BY <1>1, <1>2, <2>1 DEF Stays, Distinct
<1>3. ASSUME NEW w \in Writer, Grows(w) PROVE dumps' \in Seq(Dump) /\ Distinct'
  <2>1. /\ dumps' \in Seq(Dump) /\ Len(dumps') = Len(dumps) + 1
        /\ dumps'[1] = DumpOf(w) /\ \A k \in 1..Len(dumps) : dumps'[k + 1] = dumps[k]
    BY <1>3, Added DEF Grows
  <2>2. \A k \in 1..Len(dumps) : dumps[k].name # DumpOf(w).name
    BY <1>1, <1>3 DEF Grows, Free
  <2>3. DOMAIN dumps' = 1..(Len(dumps) + 1)
    BY <2>1, LenProperties
  <2>4. \A i \in 1..(Len(dumps) + 1) : i = 1 \/ (i - 1 \in 1..Len(dumps) /\ i = (i - 1) + 1)
    BY <1>1
  <2>5. \A i \in 1..(Len(dumps) + 1) : i = 1 \/ dumps'[i] = dumps[i - 1]
    BY <2>1, <2>4
  <2>6. ASSUME NEW i \in 1..(Len(dumps) + 1), NEW j \in 1..(Len(dumps) + 1),
               dumps'[i].name = dumps'[j].name
        PROVE  i = j
    <3>1. CASE i = 1 /\ j # 1
      BY <2>1, <2>2, <2>4, <2>5, <2>6, <3>1
    <3>2. CASE i # 1 /\ j = 1
      BY <2>1, <2>2, <2>4, <2>5, <2>6, <3>2
    <3>3. CASE i # 1 /\ j # 1
      <4>1. i - 1 \in 1..Len(dumps) /\ j - 1 \in 1..Len(dumps)
        BY <2>4, <3>3
      <4>2. dumps[i - 1].name = dumps[j - 1].name
        BY <2>5, <2>6, <3>3
      <4>3. i - 1 = j - 1
        BY <1>1, <4>1, <4>2 DEF Distinct
      <4> QED
        BY <4>3
    <3> QED
      BY <3>1, <3>2, <3>3
  <2> QED
    BY <2>1, <2>3, <2>6 DEF Distinct
<1>4. ASSUME NEW i \in 1..Len(dumps), Shrinks(i) PROVE dumps' \in Seq(Dump) /\ Distinct'
  <2>1. /\ dumps' \in Seq(Dump) /\ Len(dumps') = Len(dumps) - 1
        /\ \A k \in 1..(Len(dumps) - 1) : dumps'[k] = dumps[IF k < i THEN k ELSE k + 1]
    BY <1>4, WithoutOne DEF Shrinks
  <2>2. DOMAIN dumps' = 1..(Len(dumps) - 1)
    BY <2>1, LenProperties
  <2> DEFINE was(k) == IF k < i THEN k ELSE k + 1
  <2>3. /\ \A k \in 1..(Len(dumps) - 1) : was(k) \in 1..Len(dumps)
        /\ \A k, l \in 1..(Len(dumps) - 1) : was(k) = was(l) => k = l
    BY <1>1
  <2>4. \A k \in 1..(Len(dumps) - 1) : dumps'[k] = dumps[was(k)]
    BY <2>1
  <2> HIDE DEF was
  <2>5. \A k, l \in 1..(Len(dumps) - 1) : dumps'[k].name = dumps'[l].name => k = l
    BY <1>1, <2>3, <2>4 DEF Distinct
  <2> QED
    BY <2>1, <2>2, <2>5 DEF Distinct
<1> QED
  BY <1>2, <1>3, <1>4
\* The steps, by what they do to the directory.
LEMMA Directory ==
  ASSUME TypeOK, Ready, [Next]_vars
  PROVE  \/ Stays
         \/ \E w \in Writer : WriteDump(w) /\ Grows(w)
         \/ \E i \in 1..Len(dumps) : Shrinks(i)
<1>1. dumps \in Seq(Dump)
  BY DEF TypeOK
<1>2. CASE dumps' = dumps
  BY <1>1, <1>2, SameStays
<1>3. ASSUME NEW w \in Writer, WriteDump(w) PROVE Grows(w)
  <2>1. running # None
    BY <1>3 DEF WriteDump, Ready
  <2>2. running \in Version
    BY <2>1 DEF TypeOK
  <2> QED
    BY <1>3, <2>1, <2>2, Writing DEF Grows
<1>4. CASE \E todays : \E own \in BOOLEAN : Stamped(todays, own)
  BY <1>4, Stamping DEF Stays
<1>5. CASE \E w \in Writer : RemoveOld(w)
  BY <1>5, Removing
<1>6. NextDay => \E todays : \E own \in BOOLEAN : Stamped(todays, own)
  BY DEF NextDay
<1>7. ChangeZone => \E todays : \E own \in BOOLEAN : Stamped(todays, own)
  BY DEF ChangeZone
<1>8. ASSUME NEW w \in Writer, Work(w)
      PROVE  dumps' = dumps \/ WriteDump(w) \/ RemoveOld(w)
  BY <1>8 DEF Work, ReadDocument, Decide, ListOld, EndPruning
<1>9. ASSUME NEW w \in Writer, Fail(w) PROVE dumps' = dumps
  BY <1>9 DEF Fail
<1>10. ASSUME Boot \/ EnsureBootDump \/ Tick \/ StartRestore \/ CommitRestore \/ Crash \/ Edit
       PROVE  dumps' = dumps
  BY <1>10 DEF Boot, EnsureBootDump, Tick, StartRestore, CommitRestore, Crash, Edit
<1>11. ASSUME NEW p \in Photo,
              CreateReceipt(p) \/ DeleteReceipt(p) \/ RemovePhoto(p) \/ LosePhoto(p)
       PROVE  dumps' = dumps
  BY <1>11 DEF CreateReceipt, DeleteReceipt, RemovePhoto, LosePhoto
<1>12. UNCHANGED vars => dumps' = dumps
  BY DEF vars
<1> QED
  BY <1>2, <1>3, <1>4, <1>5, <1>6, <1>7, <1>8, <1>9, <1>10, <1>11, <1>12 DEF Next

\* A step that changes one writer's hand.
LEMMA HandMoves ==
  ASSUME TypeOK, Ready, NEW w \in Writer, NEW hand \in Hand, To(w, hand),
         hand.at # "idle" => running' # None, running' = running
  PROVE  writer' \in [Writer -> Hand] /\ Ready'
BY OneHand DEF TypeOK, Ready

LEMMA HandsKept ==
  ASSUME TypeOK, Ready, [Next]_vars
  PROVE  writer' \in [Writer -> Hand] /\ Ready'
<1>1. /\ writer \in [Writer -> Hand] /\ "job" \in Writer /\ "net" \in Writer
      /\ fund \in Fund /\ uploads \in SUBSET Photo
  BY DEF TypeOK, Writer
<1>2. CASE UNCHANGED <<writer, running>>
  BY <1>1, <1>2 DEF Ready
<1>3. CASE Boot
  <2>1. \A v \in Writer : writer[v].at = "idle"
    BY <1>3 DEF Boot, Ready
  <2>2. running' # None
    BY <1>3, NoneAssumption DEF Boot
  <2>3. writer' \in [Writer -> Hand]
    BY <1>1, <1>3, Hands, OneHand DEF Boot
  <2> QED
    BY <2>2, <2>3 DEF Ready
<1>4. CASE EnsureBootDump
  <2>1. PICK hand \in Hand : To("job", hand)
    BY <1>1, <1>4, Hands, IdleHand DEF EnsureBootDump
  <2>2. running # None /\ running' = running
    BY <1>1, <1>4 DEF EnsureBootDump, Ready
  <2> QED
    BY <1>1, <2>1, <2>2, HandMoves
<1>5. CASE Tick
  <2>1. PICK hand \in Hand : To("job", hand)
    BY <1>1, <1>5, Hands DEF Tick
  <2>2. running # None /\ running' = running
    BY <1>5 DEF Tick
  <2> QED
    BY <1>1, <2>1, <2>2, HandMoves
<1>6. CASE StartRestore
  <2>1. PICK i \in DOMAIN dumps :
          To("net", [Idle EXCEPT !.at = "reading", !.today = TRUE,
                                 !.from = [fund |-> dumps[i].hash.fund,
                                           photos |-> dumps[i].photos]])
    BY <1>6 DEF StartRestore
  <2>2. dumps[i] \in Dump
    BY DEF TypeOK
  <2>3. [fund |-> dumps[i].hash.fund, photos |-> dumps[i].photos] \in Source
    BY <2>2 DEF Dump, Hash, Source
  <2>4. PICK hand \in Hand : To("net", hand)
    BY <1>1, <2>1, <2>3, Hands
  <2>5. running # None /\ running' = running
    BY <1>6 DEF StartRestore
  <2> QED
    BY <1>1, <2>4, <2>5, HandMoves
<1>7. CASE CommitRestore
  <2>1. To("net", Idle) /\ running' = running
    BY <1>7 DEF CommitRestore
  <2> QED
    BY <1>1, <2>1, HandMoves, IdleHand DEF Idle
<1>8. ASSUME NEW w \in Writer, Work(w)
      PROVE  writer' \in [Writer -> Hand] /\ Ready'
  <2>1. running # None /\ running' = running
    BY <1>8 DEF Work, ReadDocument, Decide, WriteDump, ListOld, RemoveOld, EndPruning, Ready
  <2>2. CASE ReadDocument(w)
    BY <2>1, <2>2, Hands, HandMoves DEF ReadDocument
  <2>3. CASE Decide(w)
    <3>1. ChangeHash(writer[w].doc, Missing(writer[w].doc)) \in Hash
      <4>1. writer[w].doc \in Fund
        BY <1>1 DEF Hand
      <4> QED
        BY <4>1 DEF ChangeHash, Missing, Hash, Fund
    <3>2. PICK hand \in Hand : To(w, hand)
      BY <2>3, <3>1, Hands, IdleHand DEF Decide
    <3> QED
      BY <2>1, <3>2, HandMoves
  <2>4. CASE WriteDump(w)
    BY <2>1, <2>4, Hands, HandMoves DEF WriteDump
  <2>5. CASE ListOld(w)
    <3> DEFINE S == {dumps[i].name : i \in {j \in DOMAIN dumps : Old(j)}}
    <3>1. S \in SUBSET Name
      <4>1. \A j \in DOMAIN dumps : dumps[j] \in Dump
        BY ElementOfSeq, LenProperties DEF TypeOK
      <4> QED
        BY <4>1 DEF Dump
    <3>2. To(w, [writer[w] EXCEPT !.at = "pruning", !.old = S])
      BY <2>5 DEF ListOld
    <3> HIDE DEF S
    <3> QED
      BY <2>1, <3>1, <3>2, Hands, HandMoves
  <2>6. CASE RemoveOld(w)
    <3>1. PICK n : To(w, [writer[w] EXCEPT !.old = @ \ {n}])
      BY <2>6 DEF RemoveOld
    <3> QED
      BY <2>1, <3>1, Hands, HandMoves
  <2>7. CASE EndPruning(w)
    <3>1. PICK hand \in Hand : To(w, hand)
      BY <2>7, Hands, IdleHand DEF EndPruning
    <3> QED
      BY <2>1, <3>1, HandMoves
  <2> QED
    BY <1>8, <2>2, <2>3, <2>4, <2>5, <2>6, <2>7 DEF Work
<1>9. ASSUME NEW w \in Writer, Fail(w)
      PROVE  writer' \in [Writer -> Hand] /\ Ready'
  <2>1. To(w, Idle) /\ running' = running
    BY <1>9 DEF Fail
  <2> QED
    BY <2>1, HandMoves, IdleHand DEF Idle
<1>10. CASE Crash
  <2>1. writer' = [w \in Writer |-> Idle]
    BY <1>10 DEF Crash
  <2> QED
    BY <2>1, IdleHand DEF Ready, Idle
<1>11. ASSUME NextDay \/ ChangeZone
       PROVE  writer' \in [Writer -> Hand] /\ Ready'
  <2>1. PICK todays : \E own \in BOOLEAN : Stamped(todays, own)
    BY <1>11 DEF NextDay, ChangeZone
  <2>2. running' = running
    BY <1>11 DEF NextDay, ChangeZone
  <2>3. PICK own \in BOOLEAN : Stamped(todays, own)
    BY <2>1
  <2> QED
    BY <2>2, <2>3, Stamping DEF Ready
<1>12. CASE Edit
  BY <1>2, <1>12 DEF Edit
<1>13. ASSUME NEW p \in Photo,
              CreateReceipt(p) \/ DeleteReceipt(p) \/ RemovePhoto(p) \/ LosePhoto(p)
       PROVE  UNCHANGED <<writer, running>>
  BY <1>13 DEF CreateReceipt, DeleteReceipt, RemovePhoto, LosePhoto
<1>14. CASE UNCHANGED vars
  BY <1>2, <1>14 DEF vars
<1> QED
  BY <1>2, <1>3, <1>4, <1>5, <1>6, <1>7, <1>8, <1>9, <1>10, <1>11, <1>12, <1>13, <1>14 DEF Next
-----------------------------------------------------------------------------
(* What a writer has in hand.                                               *)

\* What one step may make of a writer's hand.
Moves(v) ==
  /\ writer'[v].doc \in {NoRows, fund, writer[v].doc}
  /\ writer'[v].hash.fund \in {NoRows, writer[v].doc, writer[v].hash.fund}
  /\ writer'[v].from.fund \in {NoRows, writer[v].from.fund}
                                \cup {dumps[i].hash.fund : i \in DOMAIN dumps}
  /\ writer'[v].at = "writing" =>
       \/ /\ writer[v].at = "writing"
          /\ writer'[v].hash = writer[v].hash /\ writer'[v].doc = writer[v].doc
       \/ writer'[v].hash.fund = writer'[v].doc
  /\ writer'[v].old \subseteq writer[v].old \/ ListOld(v)

\* A hand that is laid down, or taken up.
Fresh(v) == /\ writer'[v].at # "writing" /\ writer'[v].doc = NoRows
            /\ writer'[v].hash.fund = NoRows /\ writer'[v].old = {}
            /\ writer'[v].from.fund \in {NoRows} \cup {dumps[i].hash.fund : i \in DOMAIN dumps}

LEMMA FreshMoves ==
  ASSUME NEW v \in Writer, Fresh(v)
  PROVE  Moves(v)
BY DEF Fresh, Moves

LEMMA StillMoves ==
  ASSUME NEW v \in Writer, writer'[v].doc = writer[v].doc, writer'[v].hash = writer[v].hash,
         writer'[v].from = writer[v].from, writer'[v].old \subseteq writer[v].old,
         writer'[v].at = "writing" => writer[v].at = "writing"
  PROVE  Moves(v)
BY DEF Moves

LEMMA HandsMove ==
  ASSUME TypeOK, Ready, [Next]_vars, NEW v \in Writer
  PROVE  Moves(v)
<1>1. /\ writer \in [Writer -> Hand] /\ "job" \in Writer /\ "net" \in Writer
  BY DEF TypeOK, Writer
<1>2. CASE writer'[v] = writer[v]
  BY <1>2, StillMoves
<1>3. CASE writer'[v] = Idle
  <2>1. Fresh(v)
    BY <1>3 DEF Fresh, Idle
  <2> QED
    BY <2>1, FreshMoves
<1>4. ASSUME NEW w, NEW hand, To(w, hand), w \in Writer
      PROVE  writer'[v] = writer[v] \/ (v = w /\ writer'[v] = hand)
  BY <1>1, <1>4 DEF To
<1>5. CASE Boot
  <2>1. writer'[v] = writer[v] \/ writer'[v] = [Idle EXCEPT !.at = "booting", !.boot = TRUE]
    BY <1>1, <1>4, <1>5 DEF Boot
  <2>2. CASE writer'[v] = [Idle EXCEPT !.at = "booting", !.boot = TRUE]
    <3>1. Fresh(v)
      BY <2>2 DEF Fresh, Idle
    <3> QED
      BY <3>1, FreshMoves
  <2> QED
    BY <1>2, <2>1, <2>2
<1>6. CASE EnsureBootDump
  <2>1. \/ writer'[v] = writer[v] \/ writer'[v] = Idle
        \/ writer'[v] = [Idle EXCEPT !.at = "reading", !.boot = TRUE, !.today = TRUE]
    BY <1>1, <1>4, <1>6 DEF EnsureBootDump
  <2>2. CASE writer'[v] = [Idle EXCEPT !.at = "reading", !.boot = TRUE, !.today = TRUE]
    <3>1. Fresh(v)
      BY <2>2 DEF Fresh, Idle
    <3> QED
      BY <3>1, FreshMoves
  <2> QED
    BY <1>2, <1>3, <2>1, <2>2
<1>7. CASE Tick
  <2>1. \/ writer'[v] = writer[v]
        \/ writer'[v] = [Idle EXCEPT !.at = "reading", !.today = TRUE]
    BY <1>1, <1>4, <1>7 DEF Tick
  <2>2. CASE writer'[v] = [Idle EXCEPT !.at = "reading", !.today = TRUE]
    <3>1. Fresh(v)
      BY <2>2 DEF Fresh, Idle
    <3> QED
      BY <3>1, FreshMoves
  <2> QED
    BY <1>2, <2>1, <2>2
<1>8. CASE StartRestore
  <2>1. PICK i \in DOMAIN dumps :
          To("net", [Idle EXCEPT !.at = "reading", !.today = TRUE,
                                 !.from = [fund |-> dumps[i].hash.fund,
                                           photos |-> dumps[i].photos]])
    BY <1>8 DEF StartRestore
  <2>2. \/ writer'[v] = writer[v]
        \/ writer'[v] = [Idle EXCEPT !.at = "reading", !.today = TRUE,
                                     !.from = [fund |-> dumps[i].hash.fund,
                                               photos |-> dumps[i].photos]]
    BY <1>1, <1>4, <2>1
  <2>3. CASE writer'[v] = [Idle EXCEPT !.at = "reading", !.today = TRUE,
                                       !.from = [fund |-> dumps[i].hash.fund,
                                                 photos |-> dumps[i].photos]]
    <3>1. Fresh(v)
      BY <2>3 DEF Fresh, Idle
    <3> QED
      BY <3>1, FreshMoves
  <2> QED
    BY <1>2, <2>2, <2>3
<1>9. CASE CommitRestore
  BY <1>1, <1>2, <1>3, <1>4, <1>9 DEF CommitRestore
<1>10. ASSUME NEW w \in Writer, Work(w) PROVE Moves(v)
  <2>1. CASE ReadDocument(w)
    <3>1. writer'[v] = writer[v] \/ writer'[v] = [writer[v] EXCEPT !.at = "deciding", !.doc = fund]
      BY <1>4, <2>1 DEF ReadDocument
    <3>2. CASE writer'[v] = [writer[v] EXCEPT !.at = "deciding", !.doc = fund]
      BY <1>1, <3>2 DEF Moves, Hand
    <3> QED
      BY <1>2, <3>1, <3>2
  <2>2. CASE Decide(w)
    <3> DEFINE hash == ChangeHash(writer[w].doc, Missing(writer[w].doc))
    <3>1. \/ writer'[v] = writer[v] \/ writer'[v] = Idle
          \/ v = w /\ writer'[v] = [writer[v] EXCEPT !.at = "writing", !.hash = hash]
      BY <1>4, <2>2 DEF Decide
    <3>2. hash.fund = writer[w].doc
      BY DEF ChangeHash
    <3> HIDE DEF hash
    <3>3. CASE v = w /\ writer'[v] = [writer[v] EXCEPT !.at = "writing", !.hash = hash]
      BY <1>1, <3>2, <3>3 DEF Moves, Hand
    <3> QED
      BY <1>2, <1>3, <3>1, <3>3
  <2>3. CASE WriteDump(w)
    <3>1. writer'[v] = writer[v] \/ writer'[v] = [writer[v] EXCEPT !.at = "listing"]
      BY <1>4, <2>3 DEF WriteDump
    <3> QED
      BY <1>1, <1>2, <3>1, StillMoves DEF Hand
  <2>4. CASE ListOld(w)
    <3> DEFINE S == {dumps[i].name : i \in {j \in DOMAIN dumps : Old(j)}}
    <3>1. \/ writer'[v] = writer[v]
          \/ v = w /\ writer'[v] = [writer[v] EXCEPT !.at = "pruning", !.old = S]
      BY <1>4, <2>4 DEF ListOld
    <3> HIDE DEF S
    <3>2. CASE v = w /\ writer'[v] = [writer[v] EXCEPT !.at = "pruning", !.old = S]
      BY <1>1, <2>4, <3>2 DEF Moves, Hand
    <3> QED
      BY <1>2, <3>1, <3>2
  <2>5. CASE RemoveOld(w)
    <3>1. PICK n : To(w, [writer[w] EXCEPT !.old = @ \ {n}])
      BY <2>5 DEF RemoveOld
    <3>2. \/ writer'[v] = writer[v]
          \/ writer'[v] = [writer[v] EXCEPT !.old = @ \ {n}]
      BY <1>4, <3>1
    <3> QED
      BY <1>1, <1>2, <3>2, StillMoves DEF Hand
  <2>6. CASE EndPruning(w)
    <3>1. \/ writer'[v] = writer[v] \/ writer'[v] = Idle
          \/ writer'[v] = [writer[v] EXCEPT !.at = "restoring"]
      BY <1>4, <2>6 DEF EndPruning
    <3>2. CASE writer'[v] = [writer[v] EXCEPT !.at = "restoring"]
      BY <1>1, <3>2, StillMoves DEF Hand
    <3> QED
      BY <1>2, <1>3, <3>1, <3>2
  <2> QED
    BY <1>10, <2>1, <2>2, <2>3, <2>4, <2>5, <2>6 DEF Work
<1>11. ASSUME NEW w \in Writer, Fail(w) PROVE Moves(v)
  BY <1>2, <1>3, <1>4, <1>11 DEF Fail
<1>12. CASE Crash
  BY <1>3, <1>12 DEF Crash
<1>13. ASSUME NextDay \/ ChangeZone PROVE Moves(v)
  <2>1. PICK todays : \E own \in BOOLEAN : Stamped(todays, own)
    BY <1>13 DEF NextDay, ChangeZone
  <2>2. PICK own \in BOOLEAN : Stamped(todays, own)
    BY <2>1
  <2> QED
    BY <2>2, Stamping, StillMoves
<1>14. ASSUME \/ Edit \/ UNCHANGED vars
              \/ \E p \in Photo :
                   CreateReceipt(p) \/ DeleteReceipt(p) \/ RemovePhoto(p) \/ LosePhoto(p)
       PROVE  writer' = writer
  BY <1>14 DEF Edit, vars, CreateReceipt, DeleteReceipt, RemovePhoto, LosePhoto
<1> QED
  BY <1>2, <1>5, <1>6, <1>7, <1>8, <1>9, <1>10, <1>11, <1>12, <1>13, <1>14 DEF Next
-----------------------------------------------------------------------------
(* The files.                                                               *)

\* Every dump there is was there before, or is the one just written.
Alike(d, e) == /\ d.name = e.name /\ d.kind = e.kind /\ d.fv = e.fv
               /\ d.hash = e.hash /\ d.photos = e.photos

LEMMA DumpsFrom ==
  ASSUME TypeOK, Ready, [Next]_vars, NEW i \in DOMAIN dumps'
  PROVE  \/ \E k \in DOMAIN dumps : Alike(dumps'[i], dumps[k])
         \/ \E w \in Writer : WriteDump(w) /\ Grows(w) /\ dumps'[i] = DumpOf(w)
<1>1. dumps \in Seq(Dump) /\ Len(dumps) \in Nat /\ DOMAIN dumps = 1..Len(dumps)
  BY LenProperties DEF TypeOK
<1>2. CASE Stays
  <2>1. DOMAIN dumps' = 1..Len(dumps)
    BY <1>2, LenProperties DEF Stays
  <2> QED
    BY <1>1, <1>2, <2>1 DEF Stays, Alike
<1>3. ASSUME NEW w \in Writer, WriteDump(w), Grows(w)
      PROVE  dumps'[i] = DumpOf(w) \/ \E k \in DOMAIN dumps : Alike(dumps'[i], dumps[k])
  <2>1. /\ dumps' \in Seq(Dump) /\ Len(dumps') = Len(dumps) + 1
        /\ dumps'[1] = DumpOf(w) /\ \A k \in 1..Len(dumps) : dumps'[k + 1] = dumps[k]
    BY <1>1, <1>3, Added DEF Grows
  <2>2. i \in 1..(Len(dumps) + 1)
    BY <2>1, LenProperties
  <2>3. i = 1 \/ (i - 1 \in 1..Len(dumps) /\ (i - 1) + 1 = i)
    BY <1>1, <2>2
  <2> QED
    BY <1>1, <2>1, <2>3 DEF Alike
<1>4. ASSUME NEW j \in 1..Len(dumps), Shrinks(j)
      PROVE  \E k \in DOMAIN dumps : Alike(dumps'[i], dumps[k])
  <2>1. /\ dumps' \in Seq(Dump) /\ Len(dumps') = Len(dumps) - 1
        /\ \A k \in 1..(Len(dumps) - 1) : dumps'[k] = dumps[IF k < j THEN k ELSE k + 1]
    BY <1>1, <1>4, WithoutOne DEF Shrinks
  <2>2. i \in 1..(Len(dumps) - 1)
    BY <2>1, LenProperties
  <2>3. (IF i < j THEN i ELSE i + 1) \in 1..Len(dumps)
    BY <1>1, <2>2
  <2> QED
    BY <1>1, <2>1, <2>2, <2>3 DEF Alike
<1> QED
  BY <1>2, <1>3, <1>4, Directory

\* No fund, dump or hand names a photo that was never stored.
Named ==
  /\ fund.photos \subseteq drawn
  /\ \A i \in DOMAIN dumps : dumps[i].hash.fund.photos \subseteq drawn
  /\ \A w \in Writer : /\ writer[w].doc.photos \subseteq drawn
                       /\ writer[w].hash.fund.photos \subseteq drawn
                       /\ writer[w].from.fund.photos \subseteq drawn

\* What a step does to the fund and its files.
FilesMove ==
  /\ fund' \in Fund /\ uploads' \in SUBSET Photo /\ back' \in SUBSET Photo
  /\ drawn' \in SUBSET Photo /\ deleting' \subseteq drawn'
  /\ changes' \in 0..MaxChanges
  /\ drawn \subseteq drawn' /\ fund'.photos \subseteq drawn' /\ back \subseteq back'
  /\ \A p \in uploads' : p \in uploads \/ p \notin drawn \/ p \in back'

LEMMA FilesStay ==
  ASSUME TypeOK, Named, UNCHANGED <<fund, uploads, drawn, back>>,
         deleting' \subseteq deleting, changes' \in 0..MaxChanges
  PROVE  FilesMove
BY DEF FilesMove, TypeOK, Named

LEMMA FilesKept ==
  ASSUME TypeOK, Ready, Named, [Next]_vars
  PROVE  FilesMove
<1>1. /\ fund \in Fund /\ uploads \in SUBSET Photo /\ back \in SUBSET Photo
      /\ drawn \in SUBSET Photo /\ deleting \subseteq drawn /\ changes \in 0..MaxChanges
      /\ fund.photos \subseteq drawn /\ MaxChanges \in Nat /\ "net" \in Writer
  BY BoundsAssumption DEF TypeOK, Named, Writer
<1>2. CASE UNCHANGED files
  BY <1>1, <1>2, FilesStay DEF files
<1>3. CASE Boot \/ EnsureBootDump \/ Tick
  BY <1>2, <1>3 DEF Boot, EnsureBootDump, Tick
<1>4. CASE StartRestore
  <2>1. changes' \in 0..MaxChanges
    BY <1>1, <1>4 DEF StartRestore
  <2> QED
    BY <1>1, <1>4, <2>1, FilesStay DEF StartRestore
<1>5. CASE CommitRestore
  <2>1. writer["net"].from \in Source /\ writer["net"].from.fund.photos \subseteq drawn
    BY <1>1 DEF TypeOK, Hand, Named
  <2>2. /\ fund' = writer["net"].from.fund
        /\ uploads' = uploads \cup writer["net"].from.photos
        /\ back' = back \cup (writer["net"].from.photos \ uploads)
        /\ UNCHANGED <<drawn, deleting, changes>>
    BY <1>5 DEF CommitRestore
  <2> QED
    BY <1>1, <2>1, <2>2 DEF FilesMove, Source
<1>6. ASSUME NEW w \in Writer, Work(w) PROVE FilesMove
  BY <1>2, <1>6 DEF Work, ReadDocument, Decide, WriteDump, ListOld, RemoveOld, EndPruning
<1>7. ASSUME NEW w \in Writer, Fail(w) PROVE FilesMove
  BY <1>2, <1>7 DEF Fail
<1>8. CASE Crash
  BY <1>1, <1>8, FilesStay DEF Crash
<1>9. ASSUME Change PROVE changes' \in 0..MaxChanges
  BY <1>1, <1>9 DEF Change
<1>10. CASE Edit
  <2>1. fund' \in Fund /\ fund'.photos = fund.photos
    BY <1>1, <1>10 DEF Edit, Fund
  <2> QED
    BY <1>1, <1>9, <1>10, <2>1 DEF Edit, FilesMove
<1>11. CASE NextDay
  BY <1>2, <1>11 DEF NextDay
<1>12. CASE ChangeZone
  <2>1. fund' \in Fund /\ fund'.photos = fund.photos
    BY <1>1, <1>12 DEF ChangeZone, Fund
  <2> QED
    BY <1>1, <1>9, <1>12, <2>1 DEF ChangeZone, FilesMove
<1>13. ASSUME NEW p \in Photo, CreateReceipt(p) PROVE FilesMove
  <2>1. fund' \in Fund /\ fund'.photos = fund.photos \cup {p}
    BY <1>1, <1>13 DEF CreateReceipt, Fund
  <2> QED
    BY <1>1, <1>9, <1>13, <2>1 DEF CreateReceipt, FilesMove
<1>14. ASSUME NEW p \in Photo, DeleteReceipt(p) PROVE FilesMove
  <2>1. fund' \in Fund /\ fund'.photos = fund.photos \ {p} /\ p \in drawn
    BY <1>1, <1>14 DEF DeleteReceipt, Fund
  <2> QED
    BY <1>1, <1>9, <1>14, <2>1 DEF DeleteReceipt, FilesMove
<1>15. ASSUME NEW p \in Photo, RemovePhoto(p) PROVE FilesMove
  BY <1>1, <1>15 DEF RemovePhoto, FilesMove
<1>16. ASSUME NEW p \in Photo, LosePhoto(p) PROVE FilesMove
  BY <1>1, <1>9, <1>16 DEF LosePhoto, FilesMove
<1>17. CASE UNCHANGED vars
  BY <1>2, <1>17 DEF vars, files
<1> QED
  BY <1>3, <1>4, <1>5, <1>6, <1>7, <1>8, <1>10, <1>11, <1>12, <1>13, <1>14, <1>15, <1>16,
     <1>17 DEF Next

LEMMA InitNamed == Init => Named
BY DEF Init, Named, NoRows, Idle

LEMMA NamedKept ==
  ASSUME TypeOK, Ready, Named, [Next]_vars
  PROVE  Named'
<1>1. drawn \subseteq drawn' /\ fund'.photos \subseteq drawn' /\ fund.photos \subseteq drawn
  BY FilesKept DEF FilesMove, Named
<1>2. ASSUME NEW i \in DOMAIN dumps' PROVE dumps'[i].hash.fund.photos \subseteq drawn'
  <2>1. CASE \E k \in DOMAIN dumps : Alike(dumps'[i], dumps[k])
    BY <1>1, <2>1 DEF Alike, Named
  <2>2. ASSUME NEW w \in Writer, dumps'[i] = DumpOf(w)
        PROVE  dumps'[i].hash.fund.photos \subseteq drawn'
    <3>1. dumps'[i].hash = writer[w].hash
      BY <2>2 DEF DumpOf
    <3> QED
      BY <1>1, <3>1 DEF Named
  <2> QED
    BY <2>1, <2>2, DumpsFrom
<1>3. ASSUME NEW w \in Writer
      PROVE  /\ writer'[w].doc.photos \subseteq drawn'
             /\ writer'[w].hash.fund.photos \subseteq drawn'
             /\ writer'[w].from.fund.photos \subseteq drawn'
  <2>1. Moves(w)
    BY HandsMove
  <2>2. NoRows.photos = {}
    BY DEF NoRows
  <2>3. /\ writer[w].doc.photos \subseteq drawn
        /\ writer[w].hash.fund.photos \subseteq drawn
        /\ writer[w].from.fund.photos \subseteq drawn
        /\ \A i \in DOMAIN dumps : dumps[i].hash.fund.photos \subseteq drawn
    BY DEF Named
  <2> QED
    BY <1>1, <2>1, <2>2, <2>3 DEF Moves
<1> QED
  BY <1>1, <1>2, <1>3 DEF Named
LEMMA TypeKept ==
  ASSUME TypeOK, Ready, Named, [Next]_vars
  PROVE  TypeOK'
<1>1. dumps' \in Seq(Dump) /\ Distinct'
  <2>1. dumps \in Seq(Dump) /\ Distinct
    BY DEF TypeOK, Distinct
  <2> QED
    BY <2>1, Directory, NamesStayDistinct
<1>2. writer' \in [Writer -> Hand]
  BY HandsKept
<1>3. /\ fund' \in Fund /\ uploads' \in SUBSET Photo /\ back' \in SUBSET Photo
      /\ drawn' \in SUBSET Photo /\ deleting' \subseteq drawn' /\ changes' \in 0..MaxChanges
  BY FilesKept DEF FilesMove
<1>4. running' \in Version \cup {None}
  <2>1. running \in Version \cup {None}
    BY DEF TypeOK
  <2> QED
    BY <2>1 DEF Next, vars, Boot, EnsureBootDump, Tick, StartRestore, CommitRestore, Work,
       ReadDocument, Decide, WriteDump, ListOld, RemoveOld, EndPruning, Fail, Crash, Edit,
       NextDay, ChangeZone, CreateReceipt, DeleteReceipt, RemovePhoto, LosePhoto
<1>5. unbacked' \in BOOLEAN
  <2>1. unbacked \in BOOLEAN
    BY DEF TypeOK
  <2>2. ASSUME NEW w \in Writer, Fail(w) PROVE unbacked' \in BOOLEAN
    BY <2>2 DEF Fail
  <2> QED
    BY <2>1, <2>2 DEF Next, vars, Boot, EnsureBootDump, Tick, StartRestore, CommitRestore, Work,
       ReadDocument, Decide, WriteDump, ListOld, RemoveOld, EndPruning, Crash, Edit,
       NextDay, ChangeZone, CreateReceipt, DeleteReceipt, RemovePhoto, LosePhoto
<1>6. troubles' \in 0..MaxTroubles
  <2>1. troubles \in 0..MaxTroubles /\ MaxTroubles \in Nat
    BY BoundsAssumption DEF TypeOK
  <2>2. ASSUME Crash \/ \E w \in Writer : Fail(w) PROVE troubles' \in 0..MaxTroubles
    <3>1. troubles < MaxTroubles /\ troubles' = troubles + 1
      BY <2>2 DEF Crash, Fail
    <3> QED
      BY <2>1, <3>1
  <2> QED
    BY <2>1, <2>2 DEF Next, vars, Boot, EnsureBootDump, Tick, StartRestore, CommitRestore, Work,
       ReadDocument, Decide, WriteDump, ListOld, RemoveOld, EndPruning, Edit,
       NextDay, ChangeZone, CreateReceipt, DeleteReceipt, RemovePhoto, LosePhoto
<1> QED
  BY <1>1, <1>2, <1>3, <1>4, <1>5, <1>6 DEF TypeOK, Distinct

Base == TypeOK /\ Ready /\ Named

LEMMA BaseKept == Base /\ [Next]_vars => Base'
BY TypeKept, HandsKept, NamedKept DEF Base

\* Every reachable state of the directory, the writers and the files is well
\* typed, and no two dumps have one name.
THEOREM BackupsTypes == Spec => []TypeOK
<1>1. Init => Base
  BY InitTyped, InitNamed DEF Base
<1>2. Base => TypeOK
  BY DEF Base
<1> QED
  BY <1>1, <1>2, BaseKept, PTL DEF Spec

-----------------------------------------------------------------------------
(* A torn dump.                                                             *)

\* A dump that is written is compared by the rows it holds; and what it counts
\* as present and does not hold is gone for good, unless a restore brings it.
InHand == \A w \in Writer : writer[w].at = "writing" => writer[w].hash.fund = writer[w].doc
Whole ==
  \A i \in DOMAIN dumps :
    (dumps[i].hash.fund.photos \ dumps[i].hash.missing) \cap uploads \subseteq dumps[i].photos \cup back

LEMMA InHandKept ==
  ASSUME TypeOK, Ready, [Next]_vars, InHand
  PROVE  InHand'
<1>1. ASSUME NEW w \in Writer, writer'[w].at = "writing"
      PROVE  writer'[w].hash.fund = writer'[w].doc
  BY <1>1, HandsMove DEF Moves, InHand
<1> QED
  BY <1>1 DEF InHand

LEMMA WholeKept ==
  ASSUME Base, [Next]_vars, InHand, Whole
  PROVE  Whole'
<1>1. TypeOK /\ Ready /\ Named
  BY DEF Base
<1>2. back \subseteq back' /\ \A p \in uploads' : p \in uploads \/ p \notin drawn \/ p \in back'
  BY <1>1, FilesKept DEF FilesMove
<1>3. ASSUME NEW i \in DOMAIN dumps'
      PROVE  (dumps'[i].hash.fund.photos \ dumps'[i].hash.missing) \cap uploads'
               \subseteq dumps'[i].photos \cup back'
  <2>1. ASSUME NEW k \in DOMAIN dumps, Alike(dumps'[i], dumps[k])
        PROVE  (dumps'[i].hash.fund.photos \ dumps'[i].hash.missing) \cap uploads'
                 \subseteq dumps'[i].photos \cup back'
    <3>1. dumps[k].hash.fund.photos \subseteq drawn
      BY <1>1 DEF Named
    <3>2. (dumps[k].hash.fund.photos \ dumps[k].hash.missing) \cap uploads
            \subseteq dumps[k].photos \cup back
      BY DEF Whole
    <3>3. dumps'[i].hash = dumps[k].hash /\ dumps'[i].photos = dumps[k].photos
      BY <2>1 DEF Alike
    <3> QED
      BY <1>2, <3>1, <3>2, <3>3
  <2>2. ASSUME NEW w \in Writer, WriteDump(w), dumps'[i] = DumpOf(w)
        PROVE  (dumps'[i].hash.fund.photos \ dumps'[i].hash.missing) \cap uploads'
                 \subseteq dumps'[i].photos \cup back'
    <3>1. writer[w].hash.fund = writer[w].doc /\ uploads' = uploads
      BY <2>2 DEF WriteDump, InHand, files
    <3>2. dumps'[i].hash = writer[w].hash /\ dumps'[i].photos = writer[w].doc.photos \cap uploads
      BY <2>2 DEF DumpOf
    <3> QED
      BY <3>1, <3>2
  <2> QED
    BY <1>1, <2>1, <2>2, DumpsFrom
<1> QED
  BY <1>3 DEF Whole

\* A daily dump that lost a photo between the plan and the copy never passes for
\* the fund as it is, unless a restore put that photo back.
THEOREM TornDumpsAreSeen == Spec => []TornDumpIsSeen
<1> DEFINE Inv == Base /\ InHand /\ Whole
<1>1. Init => Inv
  <2>1. Init => InHand /\ Whole
    BY DEF Init, InHand, Whole, Idle
  <2> QED
    BY <2>1, InitTyped, InitNamed DEF Base
<1>2. Inv /\ [Next]_vars => Inv'
  BY BaseKept, InHandKept, WholeKept DEF Base
<1>3. Inv => TornDumpIsSeen
  <2> SUFFICES ASSUME Whole, TypeOK, NEW i \in NewestDaily,
                      dumps[i].hash = ChangeHash(fund, Missing(fund))
               PROVE  fund.photos \ dumps[i].hash.missing \subseteq dumps[i].photos \cup back
    BY DEF TornDumpIsSeen, Base
  <2>1. dumps[i].hash.fund = fund /\ dumps[i].hash.missing = fund.photos \ uploads
    BY DEF ChangeHash, Missing
  <2>2. i \in DOMAIN dumps
    BY DEF NewestDaily
  <2>3. (fund.photos \ dumps[i].hash.missing) \cap uploads \subseteq dumps[i].photos \cup back
    BY <2>1, <2>2 DEF Whole
  <2> QED
    BY <2>1, <2>3
<1> QED
  BY <1>1, <1>2, <1>3, PTL DEF Spec
-----------------------------------------------------------------------------
(* Retention.                                                               *)

\* The names of the newer dumps of the i-th dump's kind.
NamesAt(ds, S) == {ds[k].name : k \in S}
NewerAt(ds, i) == {k \in 1..(i - 1) : ds[k].kind = ds[i].kind}
Newer(ds, i) == NamesAt(ds, NewerAt(ds, i))
Unlike(ds) == \A i, j \in DOMAIN ds : ds[i].name = ds[j].name => i = j

\* A dump that is to be removed has a full quota of newer ones of its kind.
Covered ==
  \A i \in DOMAIN dumps :
    dumps[i].name \in Listed => Cardinality(Newer(dumps, i)) >= Keep[dumps[i].kind]

\* As many dumps as names.
LEMMA NamesCount ==
  ASSUME NEW ds \in Seq(Dump), Unlike(ds), NEW S \in SUBSET DOMAIN ds
  PROVE  /\ IsFiniteSet(S) /\ Cardinality(S) \in Nat
         /\ IsFiniteSet(NamesAt(ds, S)) /\ Cardinality(NamesAt(ds, S)) = Cardinality(S)
<1>1. DOMAIN ds = 1..Len(ds) /\ Len(ds) \in Nat
  BY LenProperties
<1>2. IsFiniteSet(S) /\ Cardinality(S) \in Nat
  <2>1. IsFiniteSet(1..Len(ds))
    BY <1>1, FS_Interval
  <2> QED
    BY <1>1, <2>1, FS_Subset, FS_CardinalityType
<1> DEFINE f == [k \in S |-> ds[k].name]
<1>3. \A k, l \in S : ds[k].name = ds[l].name => k = l
  BY DEF Unlike
<1>4. f \in Bijection(S, NamesAt(ds, S))
  BY <1>3 DEF Bijection, Injection, Surjection, IsInjective, NamesAt
<1>5. ExistsBijection(S, NamesAt(ds, S))
  BY <1>4 DEF ExistsBijection
<1> QED
  BY <1>2, <1>5, FS_Bijection

LEMMA NewerCount ==
  ASSUME NEW ds \in Seq(Dump), Unlike(ds), NEW i \in 1..Len(ds)
  PROVE  /\ IsFiniteSet(Newer(ds, i)) /\ Cardinality(Newer(ds, i)) = Cardinality(NewerAt(ds, i))
         /\ IsFiniteSet(NewerAt(ds, i)) /\ Cardinality(NewerAt(ds, i)) \in Nat
         /\ NewerAt(ds, i) \subseteq 1..Len(ds)
<1>1. DOMAIN ds = 1..Len(ds) /\ Len(ds) \in Nat
  BY LenProperties
<1>2. NewerAt(ds, i) \in SUBSET DOMAIN ds
  BY <1>1 DEF NewerAt
<1> QED
  BY <1>1, <1>2, NamesCount DEF Newer

\* More newer dumps are at least as many.
LEMMA NewerGrows ==
  ASSUME NEW ds \in Seq(Dump), Unlike(ds), NEW i \in 1..Len(ds),
         NEW T \in SUBSET Newer(ds, i), NEW q \in Nat, Cardinality(T) >= q
  PROVE  Cardinality(Newer(ds, i)) >= q
<1>1. IsFiniteSet(Newer(ds, i)) /\ Cardinality(Newer(ds, i)) \in Nat
  BY NewerCount
<1>2. Cardinality(T) <= Cardinality(Newer(ds, i)) /\ Cardinality(T) \in Nat
  BY <1>1, FS_Subset, FS_CardinalityType
<1> QED
  BY <1>1, <1>2

\* Taking one dump away takes its name alone away from those that are newer.
LEMMA NewerShrinks ==
  ASSUME NEW ds \in Seq(Dump), NEW j \in 1..Len(ds), NEW i \in 1..(Len(ds) - 1)
  PROVE  LET r == RemoveAt(ds, j)
             k == IF i < j THEN i ELSE i + 1
         IN  Newer(ds, k) \ {ds[j].name} \subseteq Newer(r, i)
<1> DEFINE r == RemoveAt(ds, j)
           was(l) == IF l < j THEN l ELSE l + 1
<1>1. Len(ds) \in Nat
  BY LenProperties
<1>2. \A l \in 1..(Len(ds) - 1) : r[l] = ds[was(l)]
  BY WithoutOne
<1> HIDE DEF r
<1>3. ASSUME NEW l \in NewerAt(ds, was(i)), ds[l].name # ds[j].name
      PROVE  ds[l].name \in Newer(r, i)
  <2> DEFINE m == IF l < j THEN l ELSE l - 1
  <2>1. l \in 1..(was(i) - 1) /\ ds[l].kind = ds[was(i)].kind /\ l # j
    BY <1>3 DEF NewerAt
  <2>2. m \in 1..(i - 1) /\ was(m) = l /\ m \in 1..(Len(ds) - 1)
    BY <1>1, <2>1
  <2>3. r[m] = ds[l] /\ r[i] = ds[was(i)]
    BY <1>2, <2>2
  <2> HIDE DEF m
  <2>4. m \in NewerAt(r, i)
    BY <2>1, <2>2, <2>3 DEF NewerAt
  <2> QED
    BY <2>3, <2>4 DEF Newer, NamesAt
<1>4. Newer(ds, was(i)) \ {ds[j].name} \subseteq Newer(r, i)
  BY <1>3 DEF Newer, NamesAt
<1> QED
  BY <1>4 DEF r

\* Only a listing lists.
LEMMA ListingsAlone ==
  ASSUME TypeOK, Ready, [Next]_vars
  PROVE  Listed' \subseteq Listed \/ \E w \in Writer : ListOld(w)
<1>1. ASSUME NEW v \in Writer PROVE writer'[v].old \subseteq writer[v].old \/ ListOld(v)
  BY HandsMove DEF Moves
<1> QED
  BY <1>1 DEF Listed

LEMMA CoveredWhenListed ==
  ASSUME TypeOK, Ready, [Next]_vars, Covered, NEW w \in Writer, ListOld(w)
  PROVE  Covered'
<1>1. /\ dumps \in Seq(Dump) /\ Unlike(dumps) /\ DOMAIN dumps = 1..Len(dumps) /\ Len(dumps) \in Nat
  BY LenProperties DEF TypeOK, Unlike
<1>2. dumps' = dumps
  BY DEF ListOld
<1>3. writer'[w].old = {dumps[i].name : i \in {j \in DOMAIN dumps : Old(j)}}
  BY DEF ListOld, To, TypeOK, Hand
<1>4. \A v \in Writer : v # w => writer'[v].old = writer[v].old
  BY DEF ListOld, To, TypeOK
<1>5. ASSUME NEW i \in DOMAIN dumps, dumps[i].name \in Listed'
      PROVE  Cardinality(Newer(dumps, i)) >= Keep[dumps[i].kind]
  <2>1. CASE dumps[i].name \in Listed
    BY <2>1 DEF Covered
  <2>2. CASE dumps[i].name \notin Listed
    <3>1. dumps[i].name \in writer'[w].old
      BY <1>4, <1>5, <2>2 DEF Listed
    <3>2. PICK j \in DOMAIN dumps : Old(j) /\ dumps[j].name = dumps[i].name
      BY <1>3, <3>1
    <3>3. Old(i)
      BY <1>1, <3>2 DEF Unlike
    <3> DEFINE S == {k \in 1..i : dumps[k].kind = dumps[i].kind}
    <3>4. Cardinality(S) > Keep[dumps[i].kind]
      BY <3>3 DEF Old
    <3>5. i \in S /\ S \in SUBSET DOMAIN dumps /\ NewerAt(dumps, i) = S \ {i}
      BY <1>1 DEF NewerAt
    <3>6. dumps[i].kind \in Kind
      <4>1. dumps[i] \in Dump
        BY <1>1, ElementOfSeq
      <4> QED
        BY <4>1 DEF Dump
    <3>7. Keep[dumps[i].kind] \in Nat
      BY <3>6, KeepAssumption
    <3> HIDE DEF S
    <3>8. IsFiniteSet(S) /\ Cardinality(S) \in Nat
      BY <1>1, <3>5, NamesCount
    <3>9. Cardinality(S \ {i}) = Cardinality(S) - 1
      BY <3>5, <3>8, FS_RemoveElement
    <3>10. Cardinality(Newer(dumps, i)) = Cardinality(NewerAt(dumps, i))
      BY <1>1, NewerCount
    <3>11. Cardinality(S) - 1 >= Keep[dumps[i].kind]
      BY <3>4, <3>7, <3>8
    <3> QED
      BY <3>5, <3>9, <3>10, <3>11
  <2> QED
    BY <2>1, <2>2
<1> QED
  BY <1>2, <1>5 DEF Covered

LEMMA CoveredKept ==
  ASSUME Base, [Next]_vars, Covered
  PROVE  Covered'
<1>0. TypeOK /\ Ready /\ TypeOK'
  BY TypeKept DEF Base
<1>1. /\ dumps \in Seq(Dump) /\ Unlike(dumps) /\ DOMAIN dumps = 1..Len(dumps) /\ Len(dumps) \in Nat
      /\ dumps' \in Seq(Dump) /\ Unlike(dumps') /\ DOMAIN dumps' = 1..Len(dumps')
  BY <1>0, LenProperties DEF TypeOK, Unlike
<1>2. \A i \in DOMAIN dumps : Keep[dumps[i].kind] \in Nat
  <2>1. \A i \in DOMAIN dumps : dumps[i] \in Dump
    BY <1>1, ElementOfSeq
  <2>2. \A i \in DOMAIN dumps : dumps[i].kind \in Kind
    BY <2>1 DEF Dump
  <2> QED
    BY <2>2, KeepAssumption
<1>3. CASE \E w \in Writer : ListOld(w)
  BY <1>0, <1>3, CoveredWhenListed
<1> SUFFICES ASSUME Listed' \subseteq Listed
             PROVE  Covered'
  BY <1>0, <1>3, ListingsAlone
<1>4. CASE Stays
  <2>1. \A i \in 1..Len(dumps) : Newer(dumps', i) = Newer(dumps, i)
    <3>1. ASSUME NEW i \in 1..Len(dumps) PROVE NewerAt(dumps', i) = NewerAt(dumps, i)
      BY <1>1, <1>4 DEF Stays, NewerAt
    <3>2. \A i \in 1..Len(dumps) : NewerAt(dumps, i) \subseteq 1..Len(dumps)
      BY <1>1, NewerCount
    <3> QED
      BY <1>4, <3>1, <3>2 DEF Stays, Newer, NamesAt
  <2> QED
    BY <1>1, <1>4, <2>1 DEF Stays, Covered
<1>5. ASSUME NEW w \in Writer, Grows(w) PROVE Covered'
  <2>1. /\ Len(dumps') = Len(dumps) + 1 /\ dumps'[1] = DumpOf(w)
        /\ \A k \in 1..Len(dumps) : dumps'[k + 1] = dumps[k]
    BY <1>1, <1>5, Added DEF Grows
  <2>2. dumps'[1].name \notin Listed
    BY <1>5, <2>1 DEF Grows, Free, Listed
  <2>3. ASSUME NEW k \in 1..Len(dumps), dumps[k].name \in Listed
        PROVE  Cardinality(Newer(dumps', k + 1)) >= Keep[dumps[k].kind]
    <3>1. ASSUME NEW l \in NewerAt(dumps, k) PROVE dumps[l].name \in Newer(dumps', k + 1)
      <4>1. l \in 1..(k - 1) /\ l \in 1..Len(dumps) /\ dumps[l].kind = dumps[k].kind
        BY <1>1 DEF NewerAt
      <4>2. dumps'[l + 1] = dumps[l] /\ dumps'[k + 1] = dumps[k]
        BY <2>1, <4>1
      <4>3. l + 1 \in 1..((k + 1) - 1)
        BY <1>1, <4>1
      <4>4. l + 1 \in NewerAt(dumps', k + 1)
        BY <4>1, <4>2, <4>3 DEF NewerAt
      <4> QED
        BY <4>2, <4>4 DEF Newer, NamesAt
    <3>2. Newer(dumps, k) \subseteq Newer(dumps', k + 1)
      BY <3>1 DEF Newer, NamesAt
    <3>3. Cardinality(Newer(dumps, k)) >= Keep[dumps[k].kind] /\ Keep[dumps[k].kind] \in Nat
      BY <1>1, <1>2, <2>3 DEF Covered
    <3>4. k + 1 \in 1..Len(dumps')
      BY <1>1, <2>1
    <3> QED
      BY <1>1, <3>2, <3>3, <3>4, NewerGrows
  <2>4. \A i \in 1..Len(dumps') : i = 1 \/ (i - 1 \in 1..Len(dumps) /\ (i - 1) + 1 = i)
    BY <1>1, <2>1
  <2>5. ASSUME NEW i \in 1..Len(dumps'), dumps'[i].name \in Listed
        PROVE  Cardinality(Newer(dumps', i)) >= Keep[dumps'[i].kind]
    <3>1. i - 1 \in 1..Len(dumps) /\ (i - 1) + 1 = i
      BY <2>2, <2>4, <2>5
    <3>2. dumps'[i] = dumps[i - 1]
      BY <2>1, <3>1
    <3> QED
      BY <2>3, <2>5, <3>1, <3>2
  <2> QED
    BY <1>1, <2>5 DEF Covered
<1>6. ASSUME NEW j \in 1..Len(dumps), Shrinks(j) PROVE Covered'
  <2> DEFINE was(i) == IF i < j THEN i ELSE i + 1
  <2>1. /\ dumps' = RemoveAt(dumps, j) /\ Len(dumps') = Len(dumps) - 1
        /\ \A i \in 1..(Len(dumps) - 1) : dumps'[i] = dumps[was(i)]
        /\ dumps[j].name \in Listed
    BY <1>1, <1>6, WithoutOne DEF Shrinks
  <2>2. ASSUME NEW i \in 1..Len(dumps'), dumps'[i].name \in Listed
        PROVE  Cardinality(Newer(dumps', i)) >= Keep[dumps'[i].kind]
    <3>1. i \in 1..(Len(dumps) - 1) /\ was(i) \in 1..Len(dumps) /\ dumps'[i] = dumps[was(i)]
      BY <1>1, <2>1
    <3>2. Newer(dumps, was(i)) \ {dumps[j].name} \subseteq Newer(dumps', i)
      BY <1>1, <2>1, <3>1, NewerShrinks
    <3> DEFINE n == dumps[j].name
               u == was(i)
    <3>3. u \in 1..Len(dumps) /\ dumps'[i] = dumps[u] /\ Newer(dumps, u) \ {n} \subseteq Newer(dumps', i)
      BY <3>1, <3>2
    <3> HIDE DEF u, was
    <3>4. Cardinality(Newer(dumps, u)) >= Keep[dumps[u].kind] /\ Keep[dumps[u].kind] \in Nat
      BY <1>1, <1>2, <2>2, <3>3 DEF Covered
    <3>5. CASE n \notin Newer(dumps, u)
      <4>1. Newer(dumps, u) \subseteq Newer(dumps', i)
        BY <3>3, <3>5
      <4> QED
        BY <1>1, <3>3, <3>4, <4>1, NewerGrows
    <3>6. CASE n \in Newer(dumps, u)
      <4>1. PICK l \in NewerAt(dumps, u) : dumps[l].name = n
        BY <3>6 DEF Newer, NamesAt
      <4>2. l \in 1..Len(dumps) /\ l \in 1..(u - 1) /\ dumps[l].kind = dumps[u].kind
        BY <1>1, <3>3, <4>1, NewerCount DEF NewerAt
      <4>3. j = l
        BY <1>1, <4>1, <4>2 DEF Unlike
      <4>4. j \in 1..(u - 1) /\ dumps[j].kind = dumps[u].kind
        BY <4>2, <4>3
      <4>5. NewerAt(dumps, j) \subseteq NewerAt(dumps, u) /\ NewerAt(dumps, j) \subseteq 1..Len(dumps)
        BY <1>1, <3>3, <4>4 DEF NewerAt
      <4>6. \A k \in NewerAt(dumps, j) : dumps[k].name # n
        <5>1. \A k \in NewerAt(dumps, j) : k # j
          BY <1>1 DEF NewerAt
        <5> QED
          BY <1>1, <4>5, <5>1 DEF Unlike
      <4>7. Newer(dumps, j) \subseteq Newer(dumps', i)
        <5>1. Newer(dumps, j) \subseteq Newer(dumps, u) \ {n}
          BY <4>5, <4>6 DEF Newer, NamesAt
        <5> QED
          BY <3>3, <5>1
      <4>8. Cardinality(Newer(dumps, j)) >= Keep[dumps[j].kind]
        BY <1>1, <2>1 DEF Covered
      <4>9. Cardinality(Newer(dumps, j)) >= Keep[dumps[u].kind]
        BY <4>4, <4>8
      <4> QED
        BY <1>1, <3>3, <3>4, <4>7, <4>9, NewerGrows
    <3> QED
      BY <3>5, <3>6
  <2> QED
    BY <1>1, <2>2 DEF Covered
<1> QED
  BY <1>0, <1>4, <1>5, <1>6, Directory
LEMMA InitCovered == Init => Covered
BY DEF Init, Covered

\* A step that takes a dump away leaves a full quota of newer ones of its kind.
LEMMA RemovalIsCovered ==
  ASSUME TypeOK, TypeOK', Ready, Covered, [Next]_vars, NEW i \in DOMAIN dumps,
         \A j \in DOMAIN dumps' : dumps'[j].name # dumps[i].name
  PROVE  LET left == {k \in 1..(i - 1) : /\ dumps[k].kind = dumps[i].kind
                                         /\ \E j \in DOMAIN dumps' : dumps'[j].name = dumps[k].name}
         IN  Cardinality(left) >= Keep[dumps[i].kind]
<1>1. /\ dumps \in Seq(Dump) /\ Unlike(dumps) /\ DOMAIN dumps = 1..Len(dumps) /\ Len(dumps) \in Nat
      /\ dumps' \in Seq(Dump) /\ DOMAIN dumps' = 1..Len(dumps')
  BY LenProperties DEF TypeOK, Unlike
<1>2. CASE Stays
  BY <1>1, <1>2 DEF Stays
<1>3. ASSUME NEW w \in Writer, Grows(w) PROVE FALSE
  <2>1. Len(dumps') = Len(dumps) + 1 /\ dumps'[i + 1] = dumps[i]
    BY <1>1, <1>3, Added DEF Grows
  <2>2. i + 1 \in DOMAIN dumps'
    BY <1>1, <2>1
  <2> QED
    BY <2>1, <2>2
<1>4. ASSUME NEW j \in 1..Len(dumps), Shrinks(j)
      PROVE  LET left == {k \in 1..(i - 1) :
                            /\ dumps[k].kind = dumps[i].kind
                            /\ \E l \in DOMAIN dumps' : dumps'[l].name = dumps[k].name}
             IN  Cardinality(left) >= Keep[dumps[i].kind]
  <2>1. /\ Len(dumps') = Len(dumps) - 1
        /\ \A l \in 1..(Len(dumps) - 1) : dumps'[l] = dumps[IF l < j THEN l ELSE l + 1]
        /\ dumps[j].name \in Listed
    BY <1>1, <1>4, WithoutOne DEF Shrinks
  <2>2. ASSUME NEW k \in 1..Len(dumps), k # j
        PROVE  \E l \in DOMAIN dumps' : dumps'[l] = dumps[k]
    <3> DEFINE l == IF k < j THEN k ELSE k - 1
    <3>1. l \in 1..(Len(dumps) - 1) /\ (IF l < j THEN l ELSE l + 1) = k
      BY <1>1, <2>2
    <3> HIDE DEF l
    <3>2. dumps'[l] = dumps[k] /\ l \in DOMAIN dumps'
      BY <1>1, <2>1, <3>1
    <3> QED
      BY <3>2
  <2>3. i = j
    BY <1>1, <2>2
  <2>4. \A k \in 1..(i - 1) : k \in 1..Len(dumps) /\ k # j
    BY <1>1, <2>3
  <2>5. {k \in 1..(i - 1) : /\ dumps[k].kind = dumps[i].kind
                            /\ \E l \in DOMAIN dumps' : dumps'[l].name = dumps[k].name}
          = NewerAt(dumps, i)
    BY <2>2, <2>4 DEF NewerAt
  <2>6. Cardinality(Newer(dumps, i)) >= Keep[dumps[i].kind]
    BY <2>1, <2>3 DEF Covered
  <2>7. Cardinality(Newer(dumps, i)) = Cardinality(NewerAt(dumps, i))
    BY <1>1, NewerCount
  <2> QED
    BY <2>5, <2>6, <2>7
<1> QED
  BY <1>2, <1>3, <1>4, Directory

LEMMA AlwaysCovered == Spec => [](Base /\ Covered)
<1>1. Init => Base /\ Covered
  BY InitTyped, InitNamed, InitCovered DEF Base
<1>2. Base /\ Covered /\ [Next]_vars => Base' /\ Covered'
  BY BaseKept, CoveredKept
<1> QED
  BY <1>1, <1>2, PTL DEF Spec

\* Retention never takes a dump that its quota covers, with two retentions under
\* way and dumps written between a listing and its removals.
THEOREM NewestAreKept == Spec => NewestKept
<1>1. Base /\ Covered /\ [Next]_vars =>
        [\A i \in DOMAIN dumps :
           (\A j \in DOMAIN dumps' : dumps'[j].name # dumps[i].name) =>
             Cardinality({k \in 1..(i - 1) :
                            /\ dumps[k].kind = dumps[i].kind
                            /\ \E j \in DOMAIN dumps' : dumps'[j].name = dumps[k].name})
               >= Keep[dumps[i].kind]]_vars
  <2> SUFFICES ASSUME Base, Covered, [Next]_vars, NEW i \in DOMAIN dumps,
                      \A j \in DOMAIN dumps' : dumps'[j].name # dumps[i].name
               PROVE  Cardinality({k \in 1..(i - 1) :
                                     /\ dumps[k].kind = dumps[i].kind
                                     /\ \E j \in DOMAIN dumps' : dumps'[j].name = dumps[k].name})
                        >= Keep[dumps[i].kind]
    OBVIOUS
  <2>1. TypeOK /\ TypeOK' /\ Ready
    BY TypeKept DEF Base
  <2> QED
    BY <2>1, RemovalIsCovered
<1> QED
  BY <1>1, AlwaysCovered, PTL DEF Spec, NewestKept

-----------------------------------------------------------------------------
(* A dump in the running format.                                            *)

\* Once the boot is through, the newest dump of all is in the running format:
\* every writer writes in it, and the newest is never on a list.
Current ==
  running # None /\ ~unbacked /\ ~OfBoot("job") =>
    1 \in DOMAIN dumps /\ dumps[1].fv = running

\* Taking away what is covered never takes the first.
LEMMA FirstStays ==
  ASSUME Base, Covered, NEW j \in 1..Len(dumps), Shrinks(j), 1 \in DOMAIN dumps
  PROVE  1 \in DOMAIN dumps' /\ dumps'[1] = dumps[1]
<1>1. /\ dumps \in Seq(Dump) /\ Unlike(dumps) /\ DOMAIN dumps = 1..Len(dumps) /\ Len(dumps) \in Nat
  BY LenProperties DEF Base, TypeOK, Unlike
<1>2. /\ dumps' \in Seq(Dump) /\ Len(dumps') = Len(dumps) - 1 /\ dumps[j].name \in Listed
      /\ \A l \in 1..(Len(dumps) - 1) : dumps'[l] = dumps[IF l < j THEN l ELSE l + 1]
  BY <1>1, WithoutOne DEF Shrinks
<1>3. j # 1
  <2>1. SUFFICES ASSUME j = 1 PROVE FALSE
    OBVIOUS
  <2>2. Newer(dumps, 1) = {}
    BY DEF Newer, NewerAt, NamesAt
  <2>3. Cardinality(Newer(dumps, 1)) = 0
    BY <2>2, FS_EmptySet
  <2>4. Cardinality(Newer(dumps, 1)) >= Keep[dumps[1].kind]
    BY <1>1, <1>2, <2>1 DEF Covered
  <2>5. dumps[1] \in Dump
    BY <1>1, ElementOfSeq
  <2>6. Keep[dumps[1].kind] \in Nat \ {0}
    BY <2>5, KeepAssumption DEF Dump
  <2> QED
    BY <2>3, <2>4, <2>6
<1>4. 1 \in 1..(Len(dumps) - 1) /\ 1 < j
  BY <1>1, <1>3
<1>5. DOMAIN dumps' = 1..(Len(dumps) - 1)
  BY <1>2, LenProperties
<1> QED
  BY <1>2, <1>4, <1>5

\* A step that leaves the newest dump there, the running version and what there
\* is left to do of the boot.
LEMMA CurrentStays ==
  ASSUME Base, Covered, Current, [Next]_vars, \A w \in Writer : ~WriteDump(w),
         running' = running,
         running # None /\ ~unbacked' /\ ~OfBoot("job")' => ~unbacked /\ ~OfBoot("job")
  PROVE  Current'
<1>1. SUFFICES ASSUME running' # None, ~unbacked', ~OfBoot("job")'
               PROVE  1 \in DOMAIN dumps' /\ dumps'[1].fv = running'
  BY DEF Current
<1>2. 1 \in DOMAIN dumps /\ dumps[1].fv = running
  BY <1>1 DEF Current
<1>3. CASE Stays
  <2>1. /\ DOMAIN dumps = 1..Len(dumps) /\ DOMAIN dumps' = 1..Len(dumps)
    BY <1>3, LenProperties DEF Stays, Base, TypeOK
  <2> QED
    BY <1>2, <1>3, <2>1 DEF Stays
<1>4. CASE \E j \in 1..Len(dumps) : Shrinks(j)
  BY <1>2, <1>4, FirstStays
<1>5. TypeOK /\ Ready
  BY DEF Base
<1> QED
  BY <1>3, <1>4, <1>5, Directory

LEMMA CurrentKept ==
  ASSUME Base, Covered, Current, [Next]_vars
  PROVE  Current'
<1>1. /\ TypeOK /\ Ready /\ writer \in [Writer -> Hand] /\ "job" \in Writer /\ "net" \in Writer
      /\ "job" # "net" /\ dumps \in Seq(Dump)
  BY DEF Base, TypeOK, Writer
<1> DEFINE Still == \/ writer'["job"] = writer["job"]
                    \/ /\ writer'["job"].at = writer["job"].at
                       /\ writer'["job"].boot = writer["job"].boot
<1>2. ASSUME Still, running' = running, unbacked' = unbacked, \A w \in Writer : ~WriteDump(w)
      PROVE  Current'
  <2>1. OfBoot("job")' = OfBoot("job")
    BY <1>2 DEF OfBoot
  <2> QED
    BY <1>2, <2>1, CurrentStays
<1>3. ASSUME NEW w \in Writer, WriteDump(w)
      PROVE  Current'
  <2>1. Grows(w)
    <3>1. running # None
      BY <1>1, <1>3 DEF WriteDump, Ready
    <3>2. running \in Version
      BY <1>1, <3>1 DEF TypeOK
    <3> QED
      BY <1>1, <1>3, <3>1, <3>2, Writing DEF Grows
  <2>2. /\ dumps' \in Seq(Dump) /\ dumps'[1] = DumpOf(w) /\ Len(dumps') = Len(dumps) + 1
        /\ Len(dumps) \in Nat
    BY <1>1, <2>1, Added, LenProperties DEF Grows
  <2>3. 1 \in DOMAIN dumps'
    BY <2>2, LenProperties
  <2>4. dumps'[1].fv = running /\ running' = running
    BY <1>3, <2>2 DEF DumpOf, WriteDump
  <2> QED
    BY <2>3, <2>4 DEF Current
<1> SUFFICES ASSUME \A w \in Writer : ~WriteDump(w)
             PROVE  Current'
  BY <1>3
<1>4. CASE Boot
  <2>1. OfBoot("job")'
    <3>1. writer'["job"] = [Idle EXCEPT !.at = "booting", !.boot = TRUE]
      BY <1>1, <1>4 DEF Boot, To
    <3> QED
      BY <3>1 DEF OfBoot, Idle
  <2> QED
    BY <2>1 DEF Current
<1>5. CASE EnsureBootDump
  <2>1. CASE NeedsFormatVersionDump
    <3>1. writer'["job"] = [Idle EXCEPT !.at = "reading", !.boot = TRUE, !.today = TRUE]
      BY <1>1, <1>5, <2>1 DEF EnsureBootDump, To
    <3>2. OfBoot("job")'
      BY <3>1 DEF OfBoot, Idle
    <3> QED
      BY <3>2 DEF Current
  <2>2. CASE ~NeedsFormatVersionDump
    <3>1. dumps # <<>> /\ dumps[1].fv = running /\ dumps' = dumps /\ running' = running
      BY <1>5, <2>2 DEF EnsureBootDump, NeedsFormatVersionDump
    <3>2. 1 \in DOMAIN dumps
      BY <1>1, <3>1, EmptySeq, LenProperties
    <3> QED
      BY <3>1, <3>2 DEF Current
  <2> QED
    BY <2>1, <2>2
<1>6. CASE Tick
  <2>1. writer["job"] = Idle /\ writer'["job"] = [Idle EXCEPT !.at = "reading", !.today = TRUE]
    BY <1>1, <1>6 DEF Tick, To
  <2>2. ~OfBoot("job")
    BY <2>1 DEF OfBoot, Idle
  <2>3. running' = running /\ unbacked' = unbacked
    BY <1>6 DEF Tick
  <2> QED
    BY <2>2, <2>3, CurrentStays
<1>7. CASE StartRestore \/ CommitRestore
  <2>1. PICK hand : To("net", hand)
    BY <1>7 DEF StartRestore, CommitRestore
  <2>2. writer'["job"] = writer["job"]
    BY <1>1, <2>1 DEF To
  <2> QED
    BY <1>2, <1>7, <2>2 DEF StartRestore, CommitRestore
<1>8. ASSUME NEW w \in Writer, Work(w)
      PROVE  Current'
  <2>1. running' = running /\ unbacked' = unbacked
    BY <1>8 DEF Work, ReadDocument, Decide, ListOld, RemoveOld, EndPruning
  <2>2. CASE w # "job"
    <3>1. PICK hand : To(w, hand)
      BY <1>8 DEF Work, ReadDocument, Decide, ListOld, RemoveOld, EndPruning
    <3>2. writer'["job"] = writer["job"]
      BY <1>1, <2>2, <3>1 DEF To
    <3> QED
      BY <1>2, <2>1, <3>2
  <2>3. CASE w = "job"
    <3> DEFINE h == writer["job"]
    <3>1. h \in Hand
      BY <1>1
    <3>2. ASSUME ~OfBoot("job")' PROVE ~OfBoot("job")
      <4>1. CASE ReadDocument("job")
        <5>1. writer'["job"] = [h EXCEPT !.at = "deciding", !.doc = fund] /\ h.at = "reading"
          BY <1>1, <4>1 DEF ReadDocument, To
        <5> QED
          BY <3>1, <3>2, <5>1 DEF OfBoot, Hand
      <4>2. CASE Decide("job")
        <5> DEFINE hash == ChangeHash(h.doc, Missing(h.doc))
        <5>1. h.boot => writer'["job"] = [h EXCEPT !.at = "writing", !.hash = hash]
          BY <1>1, <4>2 DEF Decide, To
        <5> HIDE DEF hash
        <5> QED
          BY <3>1, <3>2, <5>1 DEF OfBoot, Hand
      <4>3. CASE ListOld("job") \/ RemoveOld("job") \/ EndPruning("job")
        BY <4>3 DEF OfBoot, ListOld, RemoveOld, EndPruning
      <4> QED
        BY <1>8, <2>3, <4>1, <4>2, <4>3 DEF Work
    <3> QED
      BY <2>1, <3>2, CurrentStays
  <2> QED
    BY <2>2, <2>3
<1>9. ASSUME NEW w \in Writer, Fail(w)
      PROVE  Current'
  <2>1. running' = running /\ unbacked' = (unbacked \/ OfBoot(w))
    BY <1>9 DEF Fail
  <2>2. w = "job" \/ writer'["job"] = writer["job"]
    BY <1>1, <1>9 DEF Fail, To
  <2>3. OfBoot("job")' = OfBoot("job") \/ w = "job"
    BY <2>2 DEF OfBoot
  <2>4. ~unbacked' /\ ~OfBoot("job")' => ~unbacked /\ ~OfBoot("job")
    BY <2>1, <2>3
  <2> QED
    BY <2>1, <2>4, CurrentStays
<1>10. CASE Crash
  BY <1>10 DEF Crash, Current
<1>11. ASSUME NextDay \/ ChangeZone PROVE Current'
  <2>1. PICK todays : \E own \in BOOLEAN : Stamped(todays, own)
    BY <1>11 DEF NextDay, ChangeZone
  <2>2. PICK own \in BOOLEAN : Stamped(todays, own)
    BY <2>1
  <2>3. Still /\ running' = running /\ unbacked' = unbacked
    BY <1>1, <1>11, <2>2, Stamping DEF NextDay, ChangeZone
  <2> QED
    BY <1>2, <2>3
<1>12. ASSUME \/ Edit \/ UNCHANGED vars
              \/ \E p \in Photo :
                   CreateReceipt(p) \/ DeleteReceipt(p) \/ RemovePhoto(p) \/ LosePhoto(p)
       PROVE  Current'
  BY <1>2, <1>12 DEF Edit, vars, CreateReceipt, DeleteReceipt, RemovePhoto, LosePhoto
<1> QED
  BY <1>4, <1>5, <1>6, <1>7, <1>8, <1>9, <1>10, <1>11, <1>12 DEF Next

\* After every boot that could write its dump a backup in the running format
\* exists, and no retention, crash, restore or other version takes the last one.
THEOREM RunningFormatIsThere == Spec => []FormatIsThere
<1>1. Init => Current
  BY DEF Init, Current
<1>2. Base /\ Covered /\ Current /\ [Next]_vars => Current'
  BY CurrentKept
<1>3. Current => FormatIsThere
  BY DEF Current, FormatIsThere
<1> QED
  BY <1>1, <1>2, <1>3, AlwaysCovered, PTL DEF Spec
=============================================================================
