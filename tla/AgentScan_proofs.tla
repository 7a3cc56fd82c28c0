--------------------------- MODULE AgentScan_proofs ---------------------------
(***************************************************************************)
(* The agent's scan, for any files, roots, sizes and limits: the catalog   *)
(* stays sound, a manifest is of its run, snapshots stay stored, repairs   *)
(* converge, and a refusal has one reason.                                 *)
(*                                                                         *)
(* All of it rests on ScanInv.  RecordsInv says what every record of a     *)
(* file stands for; WalkInv that a file is in one place of the scan;       *)
(* StaleInv counts what the agent takes for stored and is not.             *)
(***************************************************************************)
EXTENDS AgentScan, DataTheorems

-----------------------------------------------------------------------------
(* Types.                                                                  *)

Updates == [file : File, record : Records]

\* A walk of a root meets a file once.
LEMMA FilesBelow ==
  ASSUME NEW r \in Root
  PROVE  FilesOf[r] \in Seq(File) /\ IsInjective(FilesOf[r])
BY ScanOK DEF ScanOK

\* No file has been met.
LEMMA NoFileIs == NoFile \in [file : File, meta : Nat] /\ NoFile.meta = 0
BY ScanOK DEF ScanOK, NoFile

\* Of the records of a file the last is written, and without any it keeps its own.
LEMMA WrittenIs ==
  ASSUME NEW us \in Seq(Updates), NEW f \in File
  PROVE  \/ Written(us, f) = catalog[f]
         \/ \E i \in DOMAIN us : us[i].file = f /\ Written(us, f) = us[i].record
<1> DEFINE mine == {i \in DOMAIN us : us[i].file = f}
<1>1. CASE mine = {}
  BY <1>1 DEF Written
<1>2. CASE mine # {}
  <2>1. Len(us) \in Nat /\ mine \in SUBSET (0..Len(us))
    OBVIOUS
  <2> DEFINE last == CHOOSE i \in mine : \A j \in mine : j <= i
  <2>2. \E i \in mine : \A j \in mine : j <= i
    <3> HIDE DEF mine
    <3> QED BY <1>2, <2>1, Largest
  <2>3. last \in mine
    BY <2>2
  <2>4. Written(us, f) = us[last].record
    BY <1>2 DEF Written
  <2> QED
    BY <2>3, <2>4
<1> QED
  BY <1>1, <1>2

\* Every step keeps the types.
LEMMA TypeStep == ASSUME TypeOK, run # "none" => roots.all \in RootSets, [Next]_vars PROVE TypeOK'
<1>20. NoRoots \in [all : Seq(Root), left : Seq(Root)] /\ NoTime \in [File -> Nat] /\ 0 \in 0..MaxRepair
  BY ScanOK DEF ScanOK, NoRoots, NoTime
<1>0. MaxRepair \in Nat
  BY ScanOK DEF ScanOK
<1>1. ASSUME NEW f \in File, Modify(f) PROVE TypeOK'
  <2>1. disk[f] \in Nat /\ Len(SizeOf[f]) \in Nat /\ DOMAIN SizeOf[f] = 1..Len(SizeOf[f]) /\ disk[f] < Len(SizeOf[f])
    BY <1>1, ScanOK DEF ScanOK, TypeOK, Modify
  <2>2. disk[f] + 1 \in Nat /\ disk[f] + 1 \in DOMAIN SizeOf[f]
    BY <2>1
  <2>3. disk' = [disk EXCEPT ![f] = disk[f] + 1] /\ disk \in [File -> Nat]
    BY <1>1 DEF TypeOK, Modify
  <2>4. \A g \in File : disk'[g] = IF g = f THEN disk[f] + 1 ELSE disk[g]
    BY <2>3
  <2>5. \A g \in File : disk'[g] \in DOMAIN SizeOf[g]
    BY <2>2, <2>4 DEF TypeOK
  <2>6. disk' \in [File -> Nat]
    BY <2>2, <2>3
  <2> QED
    BY <1>1, <2>5, <2>6 DEF TypeOK, Modify, scanVars
<1>2. ASSUME NEW d \in server, ServerDrops(d) PROVE TypeOK'
  <2>1. server' \subseteq Contents /\ confirmed' \subseteq Contents /\ drops' \in Nat
    BY <1>2 DEF TypeOK, ServerDrops
  <2> QED
    BY <1>2, <2>1 DEF TypeOK, ServerDrops, scanVars
<1>21. ASSUME NEW rs \in RootSets, Rewind(rs)
       PROVE  /\ roots' \in [all : Seq(Root), left : Seq(Root)] /\ todo' \in Seq(File)
              /\ cur' \in [file : File, meta : Nat] /\ pack' \in Seq([file : File, meta : Nat, ver : Nat])
              /\ manifest' \subseteq Entries /\ updates' \in Seq([file : File, record : Records])
  <2>1. rs \in Seq(Root) /\ Head(rs) \in Root
    BY ScanOK DEF ScanOK
  <2> QED
    BY <1>21, <2>1, FilesBelow, NoFileIs DEF Rewind
<1>3. ASSUME NEW rs \in RootSets, StartRun(rs) PROVE TypeOK'
  <2>1. disk \in [File -> Nat] /\ since' = disk
    BY <1>3 DEF StartRun, TypeOK
  <2> QED
    BY <1>3, <1>20, <1>21, <2>1 DEF TypeOK, StartRun
<1>4. ASSUME Meet PROVE TypeOK'
  <2>1. Head(todo) \in File /\ Tail(todo) \in Seq(File)
    BY <1>4, TailOf DEF Meet, TypeOK
  <2> QED
    BY <1>4, <2>1 DEF TypeOK, Meet
<1>5. ASSUME Reuse PROVE TypeOK'
  <2>1. catalog[cur.file] \in Records /\ cur.file \in File /\ cur.meta \in Nat
    BY DEF TypeOK
  <2>2. Entry(cur.file, cur.meta, catalog[cur.file].packed, catalog[cur.file].data) \in Entries
    BY <2>1 DEF Entry, Entries, Form, Records
  <2>3. confirmed' \subseteq Contents
    BY <1>5, <2>1 DEF TypeOK, Reuse, Answers, Records
  <2> QED
    BY <1>5, <2>2, <2>3, NoFileIs DEF TypeOK, Reuse
<1>6. ASSUME ReadLarge PROVE TypeOK'
  <2> DEFINE f == cur.file  v == disk[f]  d == {<<f, "plain", v>>}
  <2>1. f \in File /\ v \in Nat
    BY DEF TypeOK
  <2>2. d \in Contents
    BY <2>1 DEF Contents, Pieces
  <2>3. Entry(f, v, FALSE, d) \in Entries /\ Update(f, v, FALSE, d) \in Updates
    BY <2>1, <2>2 DEF Entry, Update, Record, Updates, Entries, Records, Form
  <2>4. Append(updates, Update(f, v, FALSE, d)) \in Seq(Updates)
    BY <2>3, AppendOf DEF TypeOK, Updates
  <2> QED
    BY <1>6, <2>2, <2>3, <2>4, NoFileIs DEF TypeOK, ReadLarge, Updates
<1>7. ASSUME MustRead, NotesMissing PROVE confirmed' \subseteq Contents
  BY <1>7 DEF TypeOK, MustRead, NotesMissing, Answers, Records
<1>8. ASSUME ReadSmall PROVE TypeOK'
  <2>1. [file |-> cur.file, meta |-> cur.meta, ver |-> disk[cur.file]] \in [file : File, meta : Nat, ver : Nat]
    BY DEF TypeOK
  <2>2. pack' \in Seq([file : File, meta : Nat, ver : Nat])
    BY <1>8, <2>1, AppendOf DEF ReadSmall, TypeOK
  <2> QED
    BY <1>7, <1>8, <2>2, NoFileIs DEF TypeOK, ReadSmall
<1>9. ASSUME SkipFile PROVE TypeOK'
  BY <1>7, <1>9, NoFileIs DEF TypeOK, SkipFile
<1>10. ASSUME FlushPack PROVE TypeOK'
  <2> DEFINE d == {<<p.file, Form, p.ver>> : p \in ToSet(pack)}
             more == [i \in DOMAIN pack |-> Update(pack[i].file, pack[i].meta, TRUE, d)]
  <2>1. \A p \in ToSet(pack) : p \in [file : File, meta : Nat, ver : Nat]
    <3>1. pack \in Seq([file : File, meta : Nat, ver : Nat])
      BY DEF TypeOK
    <3> QED
      BY <3>1, ElementsOf
  <2>2. d \in Contents
    BY <2>1 DEF Contents, Pieces, Form
  <2>3. {Entry(p.file, p.meta, TRUE, d) : p \in ToSet(pack)} \subseteq Entries
    <3>1. \A p \in ToSet(pack) : Entry(p.file, p.meta, TRUE, d) \in Entries
      BY <2>1, <2>2 DEF Entry, Entries, Form
    <3> HIDE DEF d
    <3> QED
      BY <3>1
  <2>4. more \in Seq(Updates)
    <3>0. pack \in Seq([file : File, meta : Nat, ver : Nat])
      BY DEF TypeOK
    <3>1. \A i \in DOMAIN pack : pack[i] \in [file : File, meta : Nat, ver : Nat]
      BY <3>0, ElementsOf
    <3>2. \A i \in DOMAIN pack : Update(pack[i].file, pack[i].meta, TRUE, d) \in Updates
      BY <2>2, <3>1 DEF Update, Record, Updates, Records
    <3>3. DOMAIN pack = 1..Len(pack) /\ Len(pack) \in Nat
      BY DEF TypeOK
    <3> HIDE DEF d
    <3>4. more \in [1..Len(pack) -> Updates]
      BY <3>2, <3>3
    <3> HIDE DEF more
    <3> QED
      BY <3>3, <3>4, SequenceOf
  <2>5. updates \in Seq(Updates)
    BY DEF TypeOK, Updates
  <2>6. updates \o more \in Seq(Updates)
    BY <2>4, <2>5
  <2>7. server' \subseteq Contents /\ confirmed' \subseteq Contents /\ manifest' \subseteq Entries
    BY <1>10, <2>2, <2>3 DEF FlushPack, TypeOK
  <2>8. updates' \in Seq(Updates) /\ pack' \in Seq([file : File, meta : Nat, ver : Nat])
    BY <1>10, <2>6 DEF FlushPack
  <2> QED
    BY <1>10, <2>7, <2>8 DEF TypeOK, FlushPack, Updates
<1>11. ASSUME NextRoot PROVE TypeOK'
  <2>1. roots.left \in Seq(Root) /\ Len(roots.left) > 1
    BY <1>11 DEF TypeOK, NextRoot
  <2>2. Tail(roots.left) \in Seq(Root) /\ roots.left[2] \in Root
    BY <2>1
  <2>3. roots' \in [all : Seq(Root), left : Seq(Root)]
    BY <1>11, <2>2 DEF NextRoot, TypeOK
  <2> QED
    BY <1>11, <2>2, <2>3, FilesBelow DEF TypeOK, NextRoot
<1>12. ASSUME NEW us \in Seq(Updates), catalog' = [f \in File |-> Written(us, f)] PROVE catalog' \in [File -> Records]
  <2>1. \A i \in DOMAIN us : us[i].record \in Records
    <3>1. \A i \in DOMAIN us : us[i] \in Updates
      OBVIOUS
    <3> QED
      BY <3>1 DEF Updates
  <2>2. \A f \in File : catalog[f] \in Records
    BY DEF TypeOK
  <2>3. \A f \in File : Written(us, f) \in Records
    BY <2>1, <2>2, WrittenIs
  <2> QED
    BY <1>12, <2>3
<1>13. ASSUME ScanEnds PROVE TypeOK'
  <2>1. updates \in Seq(Updates)
    BY DEF TypeOK, Updates
  <2>2. catalog' \in [File -> Records]
    BY <1>12, <1>13, <2>1 DEF ScanEnds
  <2> QED
    BY <1>13, <2>2 DEF TypeOK, ScanEnds
<1>14. ASSUME ScanFails PROVE TypeOK'
  <2>1. updates \in Seq(Updates)
    BY DEF TypeOK, Updates
  <2>2. PICK n \in 0..Len(updates) : catalog' = [f \in File |-> Written(SubSeq(updates, 1, n), f)]
    BY <1>14 DEF ScanFails
  <2>3. SubSeq(updates, 1, n) \in Seq(Updates)
    BY <2>1, <2>2
  <2>4. catalog' \in [File -> Records]
    BY <1>12, <2>2, <2>3
  <2>5. /\ run' \in {"none", "walk", "post"} /\ todo' \in Seq(File) /\ cur' \in [file : File, meta : Nat]
        /\ pack' \in Seq([file : File, meta : Nat, ver : Nat]) /\ manifest' \subseteq Entries
        /\ updates' \in Seq([file : File, record : Records])
    BY <1>14, NoFileIs DEF ScanFails
  <2>6. /\ attempt' \in 0..MaxRepair /\ roots' \in [all : Seq(Root), left : Seq(Root)]
        /\ since' \in [File -> Nat]
    BY <1>14, <1>20 DEF ScanFails
  <2>7. UNCHANGED <<disk, server, confirmed, drops, snapshot>>
    BY <1>14 DEF ScanFails
  <2> QED
    BY <2>4, <2>5, <2>6, <2>7 DEF TypeOK
<1>15. ASSUME EndRun, UNCHANGED confirmed, snapshot' \in {snapshot, manifest} PROVE TypeOK'
  BY <1>15, <1>20 DEF TypeOK, EndRun
<1>16. ASSUME Repair, roots.all \in RootSets PROVE TypeOK'
  <2>1. attempt' \in 0..MaxRepair /\ confirmed' \subseteq Contents
    BY <1>0, <1>16 DEF TypeOK, Repair
  <2> QED
    BY <1>16, <1>21, <2>1 DEF TypeOK, Repair
<1>17. CASE UNCHANGED vars
  BY <1>17 DEF TypeOK, vars, scanVars
<1> QED
  BY <1>1, <1>2, <1>3, <1>4, <1>5, <1>6, <1>8, <1>9, <1>10, <1>11, <1>13, <1>14, <1>15, <1>16, <1>17
  DEF Next, Step, Accepted, Refused, GiveUp, Repair

-----------------------------------------------------------------------------
(* A file has one entry.                                                   *)

Packs == [file : File, meta : Nat, ver : Nat]

\* The files of the root being walked are below none of the later ones.
LEMMA RootsApart ==
  ASSUME TypeOK, roots.left # <<>>, Apart(roots.left)
  PROVE  ToSet(FilesOf[Head(roots.left)]) \cap Later = {}
<1>1. roots.left \in Seq(Root) /\ Len(roots.left) \in Nat \ {0} /\ Head(roots.left) = roots.left[1]
  BY DEF TypeOK
<1>2. 1 \in DOMAIN roots.left /\ DOMAIN roots.left = 1..Len(roots.left)
  BY <1>1
<1>3. \A i \in 2..Len(roots.left) : i \in DOMAIN roots.left /\ i # 1
  BY <1>2
<1>4. \A i \in 2..Len(roots.left) : ToSet(FilesOf[roots.left[1]]) \cap ToSet(FilesOf[roots.left[i]]) = {}
  BY <1>2, <1>3 DEF Apart
<1> QED
  BY <1>1, <1>4 DEF Later

\* A scan starts with all the files of its roots ahead.
LEMMA RewindWalk ==
  ASSUME NEW rs \in RootSets, Rewind(rs), run' = "walk" PROVE WalkInv'
<1>1. rs \in Seq(Root) /\ rs # <<>> /\ Apart(rs) /\ Head(rs) \in Root
  BY ScanOK DEF ScanOK
<1>2. roots'.left = rs /\ roots'.all = rs /\ todo' = FilesOf[Head(rs)]
  BY DEF Rewind
<1>3. cur' = NoFile /\ pack' = <<>> /\ manifest' = {}
  BY DEF Rewind
<1>4. Met' = {} /\ InPacks' = {} /\ Entered' = {}
  BY <1>3, EmptyOf DEF Met, InPacks, Entered
<1>5. IsInjective(todo')
  BY <1>1, <1>2, FilesBelow
<1>6. roots'.left # <<>> /\ Apart(roots'.left) /\ ToSet(todo') \subseteq ToSet(FilesOf[Head(roots'.left)])
  BY <1>1, <1>2
<1> QED
  BY <1>2, <1>3, <1>4, <1>5, <1>6 DEF WalkInv

\* Every step of a walk takes a file from one place to another.
LEMMA WalkStep == ASSUME TypeOK, WalkInv, [Next]_vars PROVE WalkInv'
<1> DEFINE Walk == UNCHANGED <<run, roots>> /\ run = "walk"
<1>0. ASSUME run = "walk"
      PROVE  /\ roots.left # <<>> /\ Apart(roots.left) /\ ToSet(todo) \subseteq ToSet(FilesOf[Head(roots.left)])
             /\ Met \cap Ahead = {} /\ InPacks \cap (Ahead \cup Met) = {}
             /\ Entered \cap (Ahead \cup Met \cup InPacks) = {}
             /\ roots.left \in Seq(Root)
  BY <1>0 DEF WalkInv, TypeOK
<1>1. ASSUME UNCHANGED <<run, roots, scanVars>> PROVE WalkInv'
  <2>1. UNCHANGED <<run, roots, todo, cur, pack, manifest>>
    BY <1>1 DEF scanVars
  <2>2. Met' = Met /\ Ahead' = Ahead /\ InPacks' = InPacks /\ Entered' = Entered
    BY <2>1 DEF Met, Ahead, Later, InPacks, Entered
  <2> QED
    BY <2>1, <2>2 DEF WalkInv
<1>2. ASSUME NEW rs \in RootSets, StartRun(rs) PROVE WalkInv'
  BY <1>2, RewindWalk DEF StartRun
<1>3. ASSUME Repair PROVE WalkInv'
  BY <1>3, RewindWalk DEF Repair, WalkInv
<1>4. ASSUME Meet PROVE WalkInv'
  <2>1. todo \in Seq(File) /\ todo # <<>> /\ IsInjective(todo) /\ todo' = Tail(todo)
        /\ cur'.file = Head(todo) /\ Met = {}
    BY <1>4 DEF Meet, TypeOK, WalkInv, Met
  <2>2. IsInjective(todo') /\ ToSet(todo') = ToSet(todo) \ {Head(todo)} /\ Head(todo) \in ToSet(todo)
    BY <2>1, TailOf
  <2>3. Walk /\ UNCHANGED <<pack, manifest>>
    BY <1>4 DEF Meet
  <2>4. Later' = Later /\ InPacks' = InPacks /\ Entered' = Entered /\ Met' \subseteq {Head(todo)}
    BY <2>1, <2>3 DEF Later, InPacks, Entered, Met
  <2>5. Head(todo) \notin Later /\ Head(todo) \in Ahead
    BY <1>0, <2>2, <2>3, RootsApart DEF Ahead
  <2>6. Ahead' = Ahead \ {Head(todo)}
    BY <2>2, <2>4, <2>5 DEF Ahead
  <2>7. /\ Met' \cap Ahead' = {} /\ InPacks' \cap (Ahead' \cup Met') = {}
        /\ Entered' \cap (Ahead' \cup Met' \cup InPacks') = {}
    BY <1>0, <2>3, <2>4, <2>5, <2>6
  <2>8. roots'.left # <<>> /\ Apart(roots'.left) /\ ToSet(todo') \subseteq ToSet(FilesOf[Head(roots'.left)])
    BY <1>0, <2>2, <2>3
  <2> QED
    BY <2>2, <2>3, <2>7, <2>8 DEF WalkInv
<1>5. ASSUME Walk, cur # NoFile, cur' = NoFile, UNCHANGED todo,
             Entered' \subseteq Entered \cup {cur.file}, InPacks' = InPacks,
             UNCHANGED pack, \A e1, e2 \in manifest' : e1.file = e2.file => e1 = e2
      PROVE  WalkInv'
  <2>1. Met = {cur.file} /\ Met' = {} /\ Later' = Later /\ Ahead' = Ahead
    BY <1>5 DEF Met, Ahead, Later
  <2>2. /\ Met' \cap Ahead' = {} /\ InPacks' \cap (Ahead' \cup Met') = {}
        /\ Entered' \cap (Ahead' \cup Met' \cup InPacks') = {}
    BY <1>0, <1>5, <2>1
  <2> QED
    BY <1>5, <2>2 DEF WalkInv
<1>6. ASSUME Walk, cur # NoFile, cur' = NoFile, UNCHANGED <<todo, pack>>,
             NEW e, manifest' = manifest \cup {e}, e.file = cur.file
      PROVE  WalkInv'
  <2>1. cur.file \notin Entered
    BY <1>0, <1>6 DEF Met
  <2>2. \A e1, e2 \in manifest' : e1.file = e2.file => e1 = e2
    BY <1>6, <2>1 DEF WalkInv, Entered
  <2>3. Entered' \subseteq Entered \cup {cur.file} /\ InPacks' = InPacks
    BY <1>6 DEF Entered, InPacks
  <2> QED
    BY <1>5, <1>6, <2>2, <2>3
<1>7. ASSUME Reuse PROVE WalkInv'
  BY <1>6, <1>7 DEF Reuse, Walking, Entry
<1>8. ASSUME ReadLarge PROVE WalkInv'
  BY <1>6, <1>8 DEF ReadLarge, MustRead, Walking, Entry
<1>9. ASSUME SkipFile PROVE WalkInv'
  <2>1. Walk /\ cur # NoFile /\ cur' = NoFile /\ UNCHANGED <<todo, pack, manifest>>
    BY <1>9 DEF SkipFile, MustRead, Walking
  <2>2. Entered' = Entered /\ InPacks' = InPacks /\ \A e1, e2 \in manifest' : e1.file = e2.file => e1 = e2
    BY <2>1 DEF Entered, InPacks, WalkInv
  <2> QED
    BY <1>5, <2>1, <2>2
<1>10. ASSUME ReadSmall PROVE WalkInv'
  <2> DEFINE p == [file |-> cur.file, meta |-> cur.meta, ver |-> disk[cur.file]]
  <2>1. /\ Walk /\ cur # NoFile /\ cur' = NoFile /\ UNCHANGED <<todo, manifest>>
        /\ pack' = Append(pack, p)
    BY <1>10 DEF ReadSmall, MustRead, Walking
  <2>2. pack \in Seq(Packs) /\ p \in Packs
    BY DEF TypeOK, Packs
  <2>3. ToSet(pack') = ToSet(pack) \cup {p}
    BY <2>1, <2>2, AppendOf
  <2>4. Met = {cur.file} /\ Met' = {} /\ Later' = Later /\ Ahead' = Ahead /\ Entered' = Entered
    BY <2>1 DEF Met, Ahead, Later, Entered
  <2>5. InPacks' = InPacks \cup {cur.file} /\ cur.file \notin InPacks
    BY <1>0, <2>1, <2>3, <2>4 DEF InPacks
  <2>6. /\ Met' \cap Ahead' = {} /\ InPacks' \cap (Ahead' \cup Met') = {}
        /\ Entered' \cap (Ahead' \cup Met' \cup InPacks') = {}
    BY <1>0, <2>1, <2>4, <2>5
  <2>7. \A i, j \in DOMAIN pack' : pack'[i].file = pack'[j].file => i = j
    <3>1. /\ Len(pack) \in Nat /\ DOMAIN pack = 1..Len(pack) /\ DOMAIN pack' = 1..(Len(pack) + 1)
          /\ pack'[Len(pack) + 1] = p /\ \A i \in 1..Len(pack) : pack'[i] = pack[i]
      BY <2>1, <2>2
    <3>2. \A i \in 1..Len(pack) : pack[i].file \in InPacks
      BY <3>1 DEF InPacks, ToSet
    <3>3. p.file = cur.file
      OBVIOUS
    <3> HIDE DEF p
    <3>4. \A i \in 1..Len(pack) : pack'[i].file # pack'[Len(pack) + 1].file
      BY <2>5, <3>1, <3>2, <3>3
    <3>5. \A i, j \in 1..Len(pack) : pack'[i].file = pack'[j].file => i = j
      BY <3>1 DEF WalkInv
    <3> QED
      BY <3>1, <3>4, <3>5
  <2> QED
    BY <2>1, <2>6, <2>7 DEF WalkInv
<1>11. ASSUME FlushPack PROVE WalkInv'
  <2> DEFINE d == {<<q.file, Form, q.ver>> : q \in ToSet(pack)}
             more == {Entry(q.file, q.meta, TRUE, d) : q \in ToSet(pack)}
  <2>1. /\ Walk /\ UNCHANGED <<todo, cur>> /\ pack' = <<>>
        /\ manifest' = manifest \cup more
    BY <1>11 DEF FlushPack
  <2>2. \A e \in more : \E i \in DOMAIN pack : e = Entry(pack[i].file, pack[i].meta, TRUE, d) /\ e.file = pack[i].file
    BY DEF ToSet, Entry
  <2>3. \A i \in DOMAIN pack : pack[i].file \in InPacks
    BY DEF InPacks, ToSet
  <2> HIDE DEF d, more
  <2>4. \A e1, e2 \in more : e1.file = e2.file => e1 = e2
    <3> SUFFICES ASSUME NEW e1 \in more, NEW e2 \in more, e1.file = e2.file PROVE e1 = e2
      OBVIOUS
    <3>1. PICK i \in DOMAIN pack : e1 = Entry(pack[i].file, pack[i].meta, TRUE, d) /\ e1.file = pack[i].file
      BY <2>2
    <3>2. PICK j \in DOMAIN pack : e2 = Entry(pack[j].file, pack[j].meta, TRUE, d) /\ e2.file = pack[j].file
      BY <2>2
    <3>3. i = j
      BY <3>1, <3>2 DEF WalkInv
    <3> QED
      BY <3>1, <3>2, <3>3
  <2>5. \A e \in more : e.file \in InPacks
    BY <2>2, <2>3
  <2>6. \A e1 \in more, e2 \in manifest : e1.file # e2.file
    BY <1>0, <2>1, <2>5 DEF Entered
  <2>7. \A e1, e2 \in manifest' : e1.file = e2.file => e1 = e2
    BY <2>1, <2>4, <2>6 DEF WalkInv
  <2>8. Met' = Met /\ Later' = Later /\ Ahead' = Ahead /\ InPacks' = {} /\ Entered' \subseteq Entered \cup InPacks
    BY <2>1, <2>5, EmptyOf DEF Met, Ahead, Later, Entered, InPacks
  <2>9. /\ Met' \cap Ahead' = {} /\ InPacks' \cap (Ahead' \cup Met') = {}
        /\ Entered' \cap (Ahead' \cup Met' \cup InPacks') = {}
    BY <1>0, <2>1, <2>8
  <2> QED
    BY <2>1, <2>7, <2>9 DEF WalkInv
<1>12. ASSUME NextRoot PROVE WalkInv'
  <2> DEFINE left == roots.left
  <2>1. /\ run = "walk" /\ run' = run /\ UNCHANGED <<cur, pack, manifest>>
        /\ todo' = FilesOf[left[2]] /\ Len(left) > 1
        /\ roots'.left = Tail(left) /\ roots'.all = roots.all
    BY <1>12 DEF NextRoot, TypeOK
  <2>2. left \in Seq(Root) /\ left # <<>> /\ Len(left) \in Nat /\ DOMAIN left = 1..Len(left) /\ left[2] \in Root
    BY <2>1 DEF TypeOK
  <2>3. /\ DOMAIN Tail(left) = 1..(Len(left) - 1) /\ Len(Tail(left)) = Len(left) - 1
        /\ Head(Tail(left)) = left[2] /\ Tail(left) # <<>>
        /\ \A i \in 1..(Len(left) - 1) : Tail(left)[i] = left[i + 1]
    <3> HIDE DEF left
    <3>1. Len(left) - 1 \in Nat /\ Len(left) - 1 >= 1 /\ 1 \in 1..(Len(left) - 1)
      BY <2>1, <2>2
    <3>2. /\ Tail(left) \in Seq(Root) /\ Len(Tail(left)) = Len(left) - 1
          /\ \A i \in 1..(Len(left) - 1) : Tail(left)[i] = left[i + 1]
      BY <2>2
    <3>3. Tail(left)[1] = left[2] /\ DOMAIN Tail(left) = 1..(Len(left) - 1) /\ Tail(left) # <<>>
      BY <3>1, <3>2
    <3> QED
      BY <3>2, <3>3
  <2>4. Apart(left)
    BY <1>0, <2>1
  <2>5. Apart(Tail(left))
    <3> SUFFICES ASSUME NEW i \in DOMAIN Tail(left), NEW j \in DOMAIN Tail(left), i # j
                 PROVE  ToSet(FilesOf[Tail(left)[i]]) \cap ToSet(FilesOf[Tail(left)[j]]) = {}
      BY DEF Apart
    <3>1. i + 1 \in DOMAIN left /\ j + 1 \in DOMAIN left /\ i + 1 # j + 1
          /\ Tail(left)[i] = left[i + 1] /\ Tail(left)[j] = left[j + 1]
      BY <2>2, <2>3
    <3> QED
      BY <2>4, <3>1 DEF Apart
  <2>6. Later' \subseteq Later /\ ToSet(todo') \subseteq Later
    <3>1. \A i \in 2..Len(Tail(left)) : Tail(left)[i] = left[i + 1] /\ i + 1 \in 2..Len(left)
      BY <2>2, <2>3
    <3>2. 2 \in 2..Len(left)
      BY <2>1, <2>2
    <3> QED
      BY <2>1, <3>1, <3>2 DEF Later
  <2>7. Ahead' \subseteq Ahead /\ Met' = Met /\ InPacks' = InPacks /\ Entered' = Entered
    BY <2>1, <2>6 DEF Ahead, Met, InPacks, Entered
  <2>8. /\ Met' \cap Ahead' = {} /\ InPacks' \cap (Ahead' \cup Met') = {}
        /\ Entered' \cap (Ahead' \cup Met' \cup InPacks') = {}
    BY <1>0, <2>1, <2>7
  <2>9. IsInjective(todo') /\ ToSet(todo') \subseteq ToSet(FilesOf[Head(roots'.left)])
    BY <2>1, <2>2, <2>3, FilesBelow
  <2> QED
    BY <2>1, <2>3, <2>5, <2>8, <2>9 DEF WalkInv
<1>13. ASSUME ScanEnds PROVE WalkInv'
  BY <1>13 DEF ScanEnds, WalkInv
<1>14. ASSUME ScanFails PROVE WalkInv'
  BY <1>14, EmptyOf DEF ScanFails, WalkInv
<1>15. ASSUME EndRun, run # "walk" PROVE WalkInv'
  BY <1>15 DEF EndRun, WalkInv
<1>16. CASE UNCHANGED vars
  BY <1>1, <1>16 DEF vars
<1> QED
  BY <1>1, <1>2, <1>3, <1>4, <1>7, <1>8, <1>9, <1>10, <1>11, <1>12, <1>13, <1>14, <1>15, <1>16
  DEF Next, Step, Accepted, Refused, GiveUp, Modify, ServerDrops

-----------------------------------------------------------------------------
(* What the records say.                                                   *)

\* A record stays true when the files are written to.
LEMMA DescribesLater ==
  ASSUME NEW now \in [File -> Nat], NEW then \in [File -> Nat], NEW f \in File, now[f] <= then[f],
         NEW r, r.meta \in Nat, Describes(now, f, r)
  PROVE  Describes(then, f, r)
<1>1. r.meta \in 1..then[f]
  BY DEF Describes
<1>2. \A n \in r.meta..now[f] : n \in r.meta..then[f]
  OBVIOUS
<1> QED
  BY <1>1, <1>2 DEF Describes

\* The scan writes its paths in a form of the configuration.
LEMMA FormIs == ASSUME roots.all \in RootSets PROVE Form \in Forms
BY DEF Form, Multi, Forms

\* Every record a step makes is one of what was on the disk.
LEMMA RecordsStep == ASSUME TypeOK, WalkInv, RecordsInv, [Next]_vars PROVE RecordsInv'
<1> USE DEF TypeOK
<1>a. /\ disk \in [File -> Nat] /\ since \in [File -> Nat] /\ \A f \in File : disk[f] >= 1
      /\ updates \in Seq(Updates) /\ pack \in Seq(Packs)
  <2>1. ASSUME NEW f \in File PROVE disk[f] \in 1..Len(SizeOf[f]) /\ Len(SizeOf[f]) \in Nat
    <3>1. SizeOf[f] \in Seq(Nat \ {0}) /\ disk[f] \in DOMAIN SizeOf[f]
      BY ScanOK DEF ScanOK
    <3> HIDE DEF TypeOK
    <3> QED
      BY <3>1
  <2> QED
    BY <2>1 DEF Updates, Packs
<1>b. /\ \A i \in DOMAIN updates : updates[i].file \in File /\ updates[i].record.meta \in Nat
      /\ \A i \in DOMAIN pack : pack[i].file \in File /\ pack[i].meta \in Nat /\ pack[i].ver \in Nat
  <2>1. (\A i \in DOMAIN updates : updates[i] \in Updates) /\ (\A i \in DOMAIN pack : pack[i] \in Packs)
    BY <1>a, ElementsOf
  <2> QED
    BY <2>1 DEF Updates, Packs, Records
<1>c. /\ \A f \in File : catalog[f].meta \in Nat
      /\ \A e \in manifest : e.file \in File /\ e.meta \in Nat
  BY DEF Records, Entries
<1> USE DEF RecordsInv
<1>1. ASSUME NEW f \in File, Modify(f) PROVE RecordsInv'
  <2>1. disk' \in [File -> Nat] /\ (\A g \in File : disk[g] <= disk'[g])
        /\ UNCHANGED <<catalog, updates, manifest, pack, cur, since>>
    <3> HIDE DEF TypeOK, RecordsInv
    <3>1. /\ disk' = [disk EXCEPT ![f] = disk[f] + 1]
          /\ UNCHANGED <<catalog, updates, manifest, pack, cur, since>>
      BY <1>1 DEF Modify, scanVars
    <3> QED
      BY <1>a, <3>1
  <2>2. \A g \in File : since'[g] \in 1..disk'[g]
    BY <1>a, <2>1
  <2>3. \A g \in File : catalog'[g].data # {} => Describes(disk', g, catalog'[g])
    BY <1>a, <1>c, <2>1, DescribesLater
  <2>4. \A i \in DOMAIN updates' : Describes(disk', updates'[i].file, updates'[i].record)
    BY <1>a, <1>b, <2>1, DescribesLater
  <2>5. \A e \in manifest' : Describes(disk', e.file, e) /\ e.meta >= since'[e.file] /\ e.form \in Forms
    BY <1>a, <1>c, <2>1, DescribesLater
  <2>6. cur' # NoFile => cur'.meta \in since'[cur'.file]..disk'[cur'.file]
    <3>1. cur.file \in File
      OBVIOUS
    <3> QED
      BY <1>a, <2>1, <3>1
  <2>7. \A i \in DOMAIN pack' :
          /\ pack'[i].meta \in since'[pack'[i].file]..pack'[i].ver
          /\ pack'[i].ver <= disk'[pack'[i].file] /\ Small(pack'[i].file, pack'[i].meta)
    <3> SUFFICES ASSUME NEW i \in DOMAIN pack
                 PROVE  /\ pack[i].meta \in since[pack[i].file]..pack[i].ver
                        /\ pack[i].ver <= disk'[pack[i].file] /\ Small(pack[i].file, pack[i].meta)
      BY <2>1
    <3>1. /\ pack[i].file \in File /\ pack[i].ver \in Nat /\ pack[i].ver <= disk[pack[i].file]
          /\ pack[i].meta \in since[pack[i].file]..pack[i].ver /\ Small(pack[i].file, pack[i].meta)
      BY <1>b
    <3>2. disk[pack[i].file] \in Nat /\ disk'[pack[i].file] \in Nat /\ disk[pack[i].file] <= disk'[pack[i].file]
      BY <1>a, <2>1, <3>1
    <3> HIDE DEF TypeOK, RecordsInv
    <3> QED
      BY <3>1, <3>2
  <2> HIDE DEF TypeOK
  <2> QED
    BY <2>2, <2>3, <2>4, <2>5, <2>6, <2>7
<1>2. ASSUME NEW d \in server, ServerDrops(d) PROVE RecordsInv'
  BY <1>2 DEF ServerDrops, scanVars
<1>3. ASSUME NEW rs \in RootSets, StartRun(rs) PROVE RecordsInv'
  <2>1. /\ since' = disk /\ cur' = NoFile /\ pack' = <<>> /\ manifest' = {} /\ updates' = <<>>
        /\ UNCHANGED <<disk, catalog>>
    BY <1>3 DEF StartRun, Rewind
  <2>2. \A f \in File : since'[f] \in 1..disk'[f]
    BY <1>a, <2>1
  <2> HIDE DEF TypeOK
  <2> QED
    BY <2>1, <2>2
<1>4. ASSUME Repair PROVE RecordsInv'
  <2>1. /\ cur' = NoFile /\ pack' = <<>> /\ manifest' = {} /\ updates' = <<>>
        /\ UNCHANGED <<disk, catalog, since>>
    BY <1>4 DEF Repair, Rewind
  <2> HIDE DEF TypeOK
  <2> QED
    BY <2>1
<1>5. ASSUME Meet PROVE RecordsInv'
  <2>1. /\ cur' = [file |-> Head(todo), meta |-> disk[Head(todo)]] /\ Head(todo) \in File
        /\ UNCHANGED <<disk, catalog, since, updates, manifest, pack>>
    BY <1>5, TailOf DEF Meet
  <2>2. cur'.meta \in since'[cur'.file]..disk'[cur'.file]
    BY <1>a, <2>1
  <2> HIDE DEF TypeOK
  <2> QED
    BY <2>1, <2>2
<1>6. ASSUME run = "walk" PROVE Form \in Forms
  BY <1>6, FormIs DEF WalkInv
<1>7. ASSUME Walking
      PROVE  cur.file \in File /\ cur.meta \in since[cur.file]..disk[cur.file] /\ run = "walk"
  BY <1>7 DEF Walking
<1>8. ASSUME Reuse PROVE RecordsInv'
  <2> DEFINE r == catalog[cur.file]
             e == Entry(cur.file, cur.meta, r.packed, r.data)
  <2>1. /\ cur' = NoFile /\ manifest' = manifest \cup {e} /\ Reusable /\ Walking
        /\ UNCHANGED <<disk, catalog, since, updates, pack>>
    BY <1>8 DEF Reuse
  <2>2. Describes(disk, cur.file, r) /\ r.meta = cur.meta
    BY <1>7, <2>1 DEF Reusable
  <2>3. e.file = cur.file /\ e.meta = r.meta /\ e.packed = r.packed /\ e.data = r.data /\ e.form = Form
    BY <2>2 DEF Entry
  <2> HIDE DEF e, r, TypeOK
  <2>4. Describes(disk, e.file, e)
    BY <2>2, <2>3 DEF Describes
  <2>5. e.meta >= since[e.file] /\ e.form \in Forms
    BY <1>6, <1>7, <1>a, <2>1, <2>2, <2>3
  <2> QED
    BY <2>1, <2>4, <2>5
<1>9. ASSUME ReadLarge PROVE RecordsInv'
  <2> DEFINE f == cur.file  v == disk[f]  d == {<<f, "plain", v>>}
             e == Entry(f, v, FALSE, d)  u == Update(f, v, FALSE, d)
  <2>1. /\ cur' = NoFile /\ manifest' = manifest \cup {e} /\ updates' = Append(updates, u) /\ Walking
        /\ UNCHANGED <<disk, catalog, since, pack>>
    BY <1>9 DEF ReadLarge, MustRead
  <2>2. f \in File /\ v \in since[f]..disk[f] /\ v \in 1..disk[f] /\ Form \in Forms
    BY <1>6, <1>7, <1>a, <2>1
  <2>3. /\ e.file = f /\ e.meta = v /\ e.packed = FALSE /\ e.data = d /\ e.form = Form
        /\ u.file = f /\ u.record.meta = v /\ u.record.packed = FALSE /\ u.record.data = d
    BY DEF Entry, Update, Record
  <2>u. u \in Updates
    <3>1. d \in Contents
      BY <2>2, <1>a DEF Contents, Pieces
    <3> QED
      BY <3>1, <2>2, <1>a DEF Update, Record, Updates, Records
  <2> HIDE DEF e, u, TypeOK
  <2>4. Describes(disk, e.file, e) /\ Describes(disk, u.file, u.record)
    BY <2>2, <2>3 DEF Describes
  <2>5. e.meta >= since[e.file] /\ e.form \in Forms
    BY <1>a, <2>2, <2>3
  <2>6. \A i \in DOMAIN updates' : Describes(disk, updates'[i].file, updates'[i].record)
    <3>1. /\ DOMAIN updates' = DOMAIN updates \cup {Len(updates) + 1} /\ updates'[Len(updates) + 1] = u
          /\ \A i \in DOMAIN updates : updates'[i] = updates[i]
      BY <1>a, <2>1, <2>u
    <3> QED
      BY <2>4, <3>1
  <2> QED
    BY <2>1, <2>4, <2>5, <2>6
<1>10. ASSUME SkipFile PROVE RecordsInv'
  BY <1>10 DEF SkipFile
<1>11. ASSUME ReadSmall PROVE RecordsInv'
  <2> DEFINE p == [file |-> cur.file, meta |-> cur.meta, ver |-> disk[cur.file]]
  <2>1. /\ cur' = NoFile /\ pack' = Append(pack, p) /\ Walking /\ Small(cur.file, cur.meta)
        /\ UNCHANGED <<disk, catalog, since, updates, manifest>>
    BY <1>11 DEF ReadSmall, MustRead
  <2>2. p \in Packs
    BY DEF Packs
  <2>3. /\ p.meta \in since[p.file]..p.ver
        /\ p.ver <= disk[p.file] /\ Small(p.file, p.meta)
    BY <1>7, <1>a, <2>1
  <2> HIDE DEF p, TypeOK
  <2>4. /\ DOMAIN pack' = DOMAIN pack \cup {Len(pack) + 1} /\ pack'[Len(pack) + 1] = p
        /\ \A i \in DOMAIN pack : pack'[i] = pack[i]
    BY <1>a, <2>1, <2>2
  <2>5. \A i \in DOMAIN pack' :
          /\ pack'[i].meta \in since[pack'[i].file]..pack'[i].ver
          /\ pack'[i].ver <= disk[pack'[i].file] /\ Small(pack'[i].file, pack'[i].meta)
    BY <2>3, <2>4
  <2> QED
    BY <2>1, <2>5
<1>12. ASSUME FlushPack PROVE RecordsInv'
  <2> DEFINE d == {<<q.file, Form, q.ver>> : q \in ToSet(pack)}
             more == {Entry(q.file, q.meta, TRUE, d) : q \in ToSet(pack)}
             us == [i \in DOMAIN pack |-> Update(pack[i].file, pack[i].meta, TRUE, d)]
  <2>1. /\ pack' = <<>> /\ manifest' = manifest \cup more /\ updates' = updates \o us /\ run = "walk"
        /\ UNCHANGED <<disk, catalog, since, cur>>
    BY <1>12 DEF FlushPack
  <2>2. Form \in Forms
    BY <1>6, <2>1
  <2>3. \A i \in DOMAIN pack : <<pack[i].file, Form, pack[i].ver>> \in d
    BY DEF ToSet
  <2>4. \A e \in more : \E i \in DOMAIN pack : e = Entry(pack[i].file, pack[i].meta, TRUE, d)
    <3> HIDE DEF d, TypeOK, RecordsInv
    <3> QED
      BY DEF ToSet
  <2>5. DOMAIN us = DOMAIN pack /\ \A i \in DOMAIN pack : us[i] = Update(pack[i].file, pack[i].meta, TRUE, d)
    OBVIOUS
  <2>w. /\ DOMAIN updates' = 1..(Len(updates) + Len(pack)) /\ Len(updates) \in Nat /\ Len(pack) \in Nat
        /\ \A i \in DOMAIN updates' : \/ i \in DOMAIN updates /\ updates'[i] = updates[i]
                                   \/ \E j \in DOMAIN pack : updates'[i] = us[j]
    <3>1. DOMAIN pack = 1..Len(pack) /\ Len(pack) \in Nat
      BY <1>a
    <3>2. us \in Seq({us[j] : j \in DOMAIN pack}) /\ Len(us) = Len(pack)
      <4>1. us \in [1..Len(pack) -> {us[j] : j \in DOMAIN pack}]
        BY <2>5, <3>1
      <4> HIDE DEF us
      <4> QED
        BY <3>1, <4>1, SequenceOf
    <3> HIDE DEF us, TypeOK
    <3>3. updates \in Seq(Updates) /\ DOMAIN us = DOMAIN pack
      BY <1>a, <2>5
    <3>4. /\ DOMAIN (updates \o us) = 1..(Len(updates) + Len(us)) /\ Len(updates) \in Nat
          /\ \A i \in DOMAIN (updates \o us) :
               \/ i \in DOMAIN updates /\ (updates \o us)[i] = updates[i]
               \/ i - Len(updates) \in DOMAIN us /\ (updates \o us)[i] = us[i - Len(updates)]
      BY <3>2, <3>3, JoinOf
    <3> QED
      BY <2>1, <3>1, <3>2, <3>3, <3>4
  <2> HIDE DEF d, more, us, TypeOK
  <2>6. ASSUME NEW i \in DOMAIN pack, NEW r, r.meta = pack[i].meta, r.packed = TRUE, r.data = d
        PROVE  Describes(disk, pack[i].file, r)
    <3>1. /\ since[pack[i].file] \in Nat /\ since[pack[i].file] >= 1
          /\ pack[i].ver <= disk[pack[i].file] /\ disk[pack[i].file] \in Nat
          /\ pack[i].meta \in since[pack[i].file]..pack[i].ver /\ pack[i].ver \in Nat
          /\ Small(pack[i].file, pack[i].meta)
      BY <1>a, <1>b
    <3>2. pack[i].meta \in 1..disk[pack[i].file] /\ pack[i].ver \in pack[i].meta..disk[pack[i].file]
      BY <3>1
    <3>3. \E p \in d : p[1] = pack[i].file /\ p[2] \in Forms /\ p[3] \in pack[i].meta..disk[pack[i].file]
      <4>1. <<pack[i].file, Form, pack[i].ver>> \in d
        BY <2>3
      <4> QED
        BY <2>2, <3>2, <4>1
    <3> QED
      BY <2>6, <3>1, <3>2, <3>3 DEF Describes
  <2>7. \A e \in more : Describes(disk, e.file, e) /\ e.meta >= since[e.file] /\ e.form \in Forms
    <3> SUFFICES ASSUME NEW e \in more
                 PROVE  Describes(disk, e.file, e) /\ e.meta >= since[e.file] /\ e.form \in Forms
      OBVIOUS
    <3>1. PICK i \in DOMAIN pack : e = Entry(pack[i].file, pack[i].meta, TRUE, d)
      BY <2>4
    <3>2. e.file = pack[i].file /\ e.meta = pack[i].meta /\ e.packed = TRUE /\ e.data = d /\ e.form = Form
      BY <3>1 DEF Entry
    <3>3. Describes(disk, pack[i].file, e)
      BY <2>6, <3>2
    <3>4. pack[i].meta >= since[pack[i].file]
      BY <1>a, <1>b
    <3> QED
      BY <2>2, <3>2, <3>3, <3>4
  <2>8. \A j \in DOMAIN pack : Describes(disk, us[j].file, us[j].record)
    <3> SUFFICES ASSUME NEW j \in DOMAIN pack PROVE Describes(disk, us[j].file, us[j].record)
      OBVIOUS
    <3>1. /\ us[j].file = pack[j].file /\ us[j].record.meta = pack[j].meta
          /\ us[j].record.packed = TRUE /\ us[j].record.data = d
      BY <2>5 DEF Update, Record
    <3>2. Describes(disk, pack[j].file, us[j].record)
      BY <2>6, <3>1
    <3> QED
      BY <3>1, <3>2
  <2>9. \A i \in DOMAIN updates' : Describes(disk, updates'[i].file, updates'[i].record)
    BY <2>8, <2>w
  <2> QED
    BY <2>1, <2>7, <2>9
<1>13. ASSUME NextRoot PROVE RecordsInv'
  BY <1>13 DEF NextRoot
<1>14. ASSUME NEW us \in Seq(Updates), \A i \in DOMAIN us : Describes(disk, us[i].file, us[i].record),
              catalog' = [f \in File |-> Written(us, f)], UNCHANGED disk
       PROVE  \A f \in File : catalog'[f].data # {} => Describes(disk', f, catalog'[f])
  <2> HIDE DEF TypeOK
  <2>1. \A f \in File : catalog'[f] = Written(us, f)
    BY <1>14
  <2> QED
    BY <1>14, <2>1, WrittenIs
<1>15. ASSUME ScanEnds PROVE RecordsInv'
  <2>1. \A f \in File : catalog'[f].data # {} => Describes(disk', f, catalog'[f])
    BY <1>14, <1>15, <1>a DEF ScanEnds
  <2>2. updates' = <<>> /\ UNCHANGED <<disk, since, cur, pack, manifest>>
    BY <1>15 DEF ScanEnds
  <2> HIDE DEF TypeOK
  <2> QED
    BY <2>1, <2>2
<1>16. ASSUME since' = NoTime, UNCHANGED disk PROVE \A f \in File : since'[f] \in 1..disk'[f]
  BY <1>16, <1>a DEF NoTime
<1>17. ASSUME ScanFails PROVE RecordsInv'
  <2>1. PICK n \in 0..Len(updates) : catalog' = [f \in File |-> Written(SubSeq(updates, 1, n), f)]
    BY <1>17 DEF ScanFails
  <2>2. /\ SubSeq(updates, 1, n) \in Seq(Updates)
        /\ \A i \in DOMAIN SubSeq(updates, 1, n) : i \in DOMAIN updates /\ SubSeq(updates, 1, n)[i] = updates[i]
    BY <1>a, <2>1, FirstOf
  <2>3. since' = NoTime /\ UNCHANGED disk /\ cur' = NoFile /\ pack' = <<>> /\ manifest' = {} /\ updates' = <<>>
    BY <1>17 DEF ScanFails
  <2> HIDE DEF TypeOK
  <2>4. \A f \in File : catalog'[f].data # {} => Describes(disk', f, catalog'[f])
    BY <1>14, <2>1, <2>2, <2>3
  <2> QED
    BY <1>16, <2>3, <2>4
<1>18. ASSUME EndRun, run # "walk" PROVE RecordsInv'
  <2>1. since' = NoTime /\ manifest' = {} /\ cur = NoFile /\ pack = <<>> /\ UNCHANGED <<disk, catalog, cur, pack, updates>>
    BY <1>18 DEF EndRun, WalkInv
  <2> HIDE DEF TypeOK
  <2> QED
    BY <1>16, <2>1
<1>19. CASE UNCHANGED vars
  BY <1>19 DEF vars, scanVars
<1> QED
  BY <1>1, <1>2, <1>3, <1>4, <1>5, <1>8, <1>9, <1>10, <1>11, <1>12, <1>13, <1>15, <1>17, <1>18, <1>19
  DEF Next, Step, Accepted, Refused, GiveUp

-----------------------------------------------------------------------------
(* Repairs and drops.                                                      *)

\* What is stale stays so, at most, while nothing is dropped.
LEMMA StaleShrinks ==
  ASSUME StaleInv, TypeOK, Stale' \subseteq Stale, drops' = drops, attempt' \in {attempt, 0}
  PROVE  StaleInv'
<1>1. IsFiniteSet(Stale') /\ Cardinality(Stale') <= Cardinality(Stale) /\ Cardinality(Stale') \in Nat /\ Cardinality(Stale) \in Nat
  BY FS_Subset, FS_CardinalityType DEF StaleInv
<1>2. attempt \in Nat /\ drops \in Nat /\ attempt + Cardinality(Stale) <= drops
  BY ScanOK DEF ScanOK, TypeOK, StaleInv
<1> QED
  BY <1>1, <1>2 DEF StaleInv

\* A drop makes one content stale, a repair takes one off, and whatever else is
\* said to be stored is.
LEMMA StaleStep == ASSUME TypeOK, StaleInv, [Next]_vars PROVE StaleInv'
<1> DEFINE Held == {e.data : e \in manifest}
<1>1. ASSUME NEW d \in server, ServerDrops(d) PROVE StaleInv'
  <2>1. Stale' \subseteq Stale \cup {d} /\ attempt' = attempt /\ drops' = drops + 1
    BY <1>1 DEF ServerDrops, Stale, scanVars
  <2>2. IsFiniteSet(Stale) /\ attempt + Cardinality(Stale) <= drops
    BY DEF StaleInv
  <2>3. /\ IsFiniteSet(Stale \cup {d}) /\ Cardinality(Stale \cup {d}) <= Cardinality(Stale) + 1
        /\ Cardinality(Stale) \in Nat /\ Cardinality(Stale \cup {d}) \in Nat
    <3>1. /\ IsFiniteSet(Stale \cup {d})
          /\ Cardinality(Stale \cup {d}) = IF d \in Stale THEN Cardinality(Stale) ELSE Cardinality(Stale) + 1
      BY <2>2, FS_AddElement
    <3>2. Cardinality(Stale) \in Nat
      BY <2>2, FS_CardinalityType
    <3> QED
      BY <3>1, <3>2
  <2>4. IsFiniteSet(Stale') /\ Cardinality(Stale') <= Cardinality(Stale \cup {d}) /\ Cardinality(Stale') \in Nat
    BY <2>1, <2>3, FS_Subset, FS_CardinalityType
  <2>5. attempt \in Nat /\ drops \in Nat
    BY ScanOK DEF ScanOK, TypeOK
  <2> QED
    BY <2>1, <2>2, <2>3, <2>4, <2>5 DEF StaleInv
<1>2. ASSUME Repair PROVE StaleInv'
  <2>1. /\ Missing # {} /\ Missing \subseteq Stale /\ Stale' \subseteq Stale \ Missing
        /\ attempt' = attempt + 1 /\ drops' = drops
    BY <1>2 DEF Repair, Rewind, Short, Missing, Stale
  <2>2. PICK d \in Missing : TRUE
    BY <2>1
  <2>3. d \in Stale /\ Stale' \subseteq Stale \ {d}
    BY <2>1, <2>2
  <2>4. IsFiniteSet(Stale) /\ attempt + Cardinality(Stale) <= drops
    BY DEF StaleInv
  <2>5. /\ IsFiniteSet(Stale \ {d}) /\ Cardinality(Stale \ {d}) = Cardinality(Stale) - 1
        /\ Cardinality(Stale) \in Nat /\ Cardinality(Stale \ {d}) \in Nat
    BY <2>3, <2>4, FS_RemoveElement, FS_CardinalityType
  <2>6. IsFiniteSet(Stale') /\ Cardinality(Stale') <= Cardinality(Stale \ {d}) /\ Cardinality(Stale') \in Nat
    BY <2>3, <2>5, FS_Subset, FS_CardinalityType
  <2>7. attempt \in Nat /\ drops \in Nat
    BY ScanOK DEF ScanOK, TypeOK
  <2> QED
    BY <2>1, <2>4, <2>5, <2>6, <2>7 DEF StaleInv
<1>3. ASSUME NEW rs \in RootSets, StartRun(rs) PROVE StaleInv'
  <2>1. Stale' \subseteq Stale /\ drops' = drops /\ attempt' = 0
    BY <1>3 DEF StartRun, Rewind, Stale
  <2> QED
    BY <2>1, StaleShrinks
<1>4. ASSUME Reuse PROVE StaleInv'
  <2> DEFINE d == catalog[cur.file].data
  <2>1. /\ d \in confirmed \/ d \in server
        /\ confirmed' \subseteq confirmed \cup server /\ server' = server
        /\ Held' \subseteq Held \cup {d}
    BY <1>4 DEF Reuse, Answers, Entry
  <2>2. Stale' \subseteq Stale
    BY <2>1 DEF Stale
  <2> QED
    BY <1>4, <2>2, StaleShrinks DEF Reuse
<1>5. ASSUME ReadLarge PROVE StaleInv'
  <2> DEFINE d == {<<cur.file, "plain", disk[cur.file]>>}
  <2>1. /\ confirmed' = confirmed \cup {d} /\ server' = server \cup {d}
        /\ Held' \subseteq Held \cup {d}
    BY <1>5 DEF ReadLarge, Entry
  <2>2. Stale' \subseteq Stale
    BY <2>1 DEF Stale
  <2> QED
    BY <1>5, <2>2, StaleShrinks DEF ReadLarge
<1>6. ASSUME FlushPack PROVE StaleInv'
  <2> DEFINE d == {<<q.file, Form, q.ver>> : q \in ToSet(pack)}
             more == {Entry(q.file, q.meta, TRUE, d) : q \in ToSet(pack)}
  <2>1. \A e \in more : e.data = d
    BY DEF Entry
  <2>2. /\ confirmed' = confirmed \cup {d} /\ server' = server \cup {d}
        /\ manifest' = manifest \cup more
    BY <1>6 DEF FlushPack
  <2> HIDE DEF d, more
  <2>3. Held' \subseteq Held \cup {d}
    BY <2>1, <2>2
  <2>4. Stale' \subseteq Stale
    BY <2>2, <2>3 DEF Stale
  <2> QED
    BY <1>6, <2>4, StaleShrinks DEF FlushPack
<1>7. ASSUME NotesMissing, UNCHANGED <<server, manifest, drops, attempt>> PROVE StaleInv'
  <2>1. confirmed' \subseteq confirmed \cup server
    BY <1>7 DEF NotesMissing, Answers
  <2>2. Stale' \subseteq Stale
    BY <1>7, <2>1 DEF Stale
  <2> QED
    BY <1>7, <2>2, StaleShrinks
<1>8. ASSUME UNCHANGED <<server, confirmed, drops>>, manifest' \subseteq manifest, attempt' \in {attempt, 0}
      PROVE  StaleInv'
  <2>1. Stale' \subseteq Stale
    BY <1>8 DEF Stale
  <2> QED
    BY <1>8, <2>1, StaleShrinks
<1>9. ASSUME EndRun, UNCHANGED confirmed PROVE StaleInv'
  BY <1>8, <1>9 DEF EndRun
<1>10. ASSUME ReadSmall \/ SkipFile PROVE StaleInv'
  BY <1>7, <1>10 DEF ReadSmall, SkipFile
<1>11. ASSUME Meet \/ NextRoot \/ ScanEnds \/ ScanFails \/ (\E f \in File : Modify(f)) PROVE StaleInv'
  BY <1>8, <1>11 DEF Meet, NextRoot, ScanEnds, ScanFails, Modify, scanVars
<1>12. CASE UNCHANGED vars
  BY <1>8, <1>12 DEF vars, scanVars
<1> QED
  BY <1>1, <1>2, <1>3, <1>4, <1>5, <1>6, <1>9, <1>10, <1>11, <1>12
  DEF Next, Step, Accepted, Refused, GiveUp

\* A snapshot is what the server had in full, and a drop spares it.
LEMMA SnapshotStep == ASSUME WalkInv, SnapshotStored, [Next]_vars PROVE SnapshotStored'
<1>1. ASSUME Accepted PROVE SnapshotStored'
  <2>1. /\ snapshot' = manifest /\ server' = server /\ Missing = {}
        /\ \A e1, e2 \in manifest : e1.file = e2.file => e1 = e2
    BY <1>1 DEF Accepted, EndRun, WalkInv
  <2>2. \A e \in manifest : e.data \in server
    BY <2>1 DEF Missing
  <2> QED
    BY <2>1, <2>2 DEF SnapshotStored
<1>2. ASSUME NEW d \in server, ServerDrops(d) PROVE SnapshotStored'
  BY <1>2 DEF ServerDrops, SnapshotStored
<1>3. ASSUME snapshot' = snapshot, server \subseteq server' PROVE SnapshotStored'
  BY <1>3 DEF SnapshotStored
<1>4. ASSUME ReadLarge \/ FlushPack PROVE snapshot' = snapshot /\ server \subseteq server'
  BY <1>4 DEF ReadLarge, FlushPack
<1>5. [Next]_vars => \/ Accepted \/ ReadLarge \/ FlushPack \/ (\E d \in server : ServerDrops(d))
                     \/ UNCHANGED <<snapshot, server>>
  BY DEF Next, Step, vars, Meet, Reuse, ReadSmall, NextRoot, ScanEnds, Refused, EndRun, Repair, GiveUp,
         StartRun, SkipFile, ScanFails, Modify
<1> QED
  BY <1>1, <1>2, <1>3, <1>4, <1>5

-----------------------------------------------------------------------------
(* The theorems.                                                           *)

\* The scan begins in the invariant, ...
LEMMA ScanInvInit == Init => ScanInv
<1> SUFFICES ASSUME Init PROVE ScanInv
  OBVIOUS
<1>1. /\ MaxRepair \in Nat /\ NoFile \in [file : File, meta : Nat]
      /\ \A f \in File : 1 \in DOMAIN SizeOf[f]
  <2>1. ASSUME NEW f \in File PROVE 1 \in DOMAIN SizeOf[f]
    <3>1. SizeOf[f] \in Seq(Nat \ {0}) /\ SizeOf[f] # <<>>
      BY ScanOK DEF ScanOK
    <3> QED
      BY <3>1
  <2> QED
    BY <2>1, ScanOK, NoFileIs DEF ScanOK
<1>2. NoRecord \in Records /\ NoRecord.data = {}
  BY DEF NoRecord, Records, Contents
<1>3. NoTime \in [File -> Nat] /\ NoRoots \in [all : Seq(Root), left : Seq(Root)]
  BY DEF NoTime, NoRoots
<1>4. TypeOK
  <2>1. /\ disk \in [File -> Nat] /\ (\A f \in File : disk[f] \in DOMAIN SizeOf[f])
        /\ catalog \in [File -> Records]
    BY <1>1, <1>2 DEF Init
  <2> QED
    BY <1>1, <1>3, <2>1 DEF Init, TypeOK
<1>5. RecordsInv
  BY <1>2 DEF Init, RecordsInv, NoTime
<1>6. WalkInv
  BY EmptyOf DEF Init, WalkInv
<1>7. StaleInv
  <2>1. Stale = {}
    BY DEF Init, Stale
  <2> QED
    BY <2>1, FS_EmptySet DEF Init, StaleInv
<1>8. SnapshotStored
  BY DEF Init, SnapshotStored
<1> QED
  BY <1>4, <1>5, <1>6, <1>7, <1>8 DEF ScanInv

\* ... every step keeps it, ...
LEMMA ScanInvStep == ScanInv /\ [Next]_vars => ScanInv'
<1> SUFFICES ASSUME ScanInv, [Next]_vars PROVE ScanInv'
  OBVIOUS
<1>1. TypeOK /\ RecordsInv /\ WalkInv /\ StaleInv /\ SnapshotStored
  BY DEF ScanInv
<1>2. TypeOK'
  BY <1>1, TypeStep DEF WalkInv
<1> QED
  BY <1>1, <1>2, RecordsStep, WalkStep, StaleStep, SnapshotStep DEF ScanInv

\* ... so it always holds.
LEMMA ScanAlways == Spec => []ScanInv
BY ScanInvInit, ScanInvStep, PTL DEF Spec

\* A record of a file names content of the version whose metadata it has, for
\* as long as that metadata is the file's: what tryReuseCatalogFile relies on.
THEOREM CatalogStaysSound == Spec => []CatalogSound
<1>1. ScanInv => CatalogSound
  <2> SUFFICES ASSUME ScanInv, NEW f \in File, catalog[f].data # {}, catalog[f].meta = disk[f]
               PROVE  \E p \in catalog[f].data : p[1] = f /\ p[3] = catalog[f].meta
    BY DEF ScanInv, CatalogSound, RecordsNameTheirContent
  <2> DEFINE r == catalog[f]
  <2>1. Describes(disk, f, r) /\ disk[f] \in Nat
    BY DEF ScanInv, RecordsInv, TypeOK
  <2> HIDE DEF r
  <2>2. CASE r.packed
    BY <2>1, <2>2 DEF Describes, r
  <2>3. CASE ~r.packed
    <3>1. <<f, "plain", r.meta>> \in r.data
      BY <2>1, <2>3 DEF Describes
    <3> QED
      BY <3>1 DEF r
  <2> QED
    BY <2>2, <2>3
<1> QED
  BY <1>1, ScanAlways, PTL

\* The pieces of a manifest's entry: its version, or in a pack one the disk
\* had from then on.
LEMMA EntryDescribed ==
  ASSUME ScanInv, NEW e \in manifest
  PROVE  /\ e.file \in File /\ e.form \in Forms
         /\ e.meta \in Nat /\ e.meta \in since[e.file]..disk[e.file] /\ since[e.file] \in Nat /\ disk[e.file] \in Nat
         /\ ~e.packed => e.data = {<<e.file, "plain", e.meta>>}
         /\ e.packed =>
              /\ Small(e.file, e.meta)
              /\ \E p \in e.data : p[1] = e.file /\ p[2] \in Forms /\ p[3] \in e.meta..disk[e.file]
<1>1. Describes(disk, e.file, e) /\ e.meta >= since[e.file] /\ e.form \in Forms
  BY DEF ScanInv, RecordsInv
<1>2. e.file \in File /\ e.meta \in Nat /\ since[e.file] \in Nat /\ disk[e.file] \in Nat
  BY DEF ScanInv, TypeOK, Entries
<1> QED
  BY <1>1, <1>2 DEF Describes

\* What is submitted of a file was on the disk while the run was under way:
\* read, retried, packed or reused from the catalog.
THEOREM SubmittedIsOfTheRun == Spec => []SnapshotIsOfTheRun
<1>1. ScanInv => SnapshotIsOfTheRun
  <2> SUFFICES ASSUME ScanInv, NEW e \in manifest
               PROVE  /\ \E p \in e.data : p[1] = e.file /\ p[3] \in since[e.file]..disk[e.file]
                      /\ e.meta \in since[e.file]..disk[e.file]
    BY DEF SnapshotIsOfTheRun
  <2>1. /\ e.meta \in since[e.file]..disk[e.file] /\ e.meta \in Nat /\ since[e.file] \in Nat /\ disk[e.file] \in Nat
    BY EntryDescribed
  <2>2. CASE e.packed
    <3>1. PICK p \in e.data : p[1] = e.file /\ p[3] \in e.meta..disk[e.file]
      BY <2>2, EntryDescribed
    <3>2. p[3] \in since[e.file]..disk[e.file]
      BY <2>1, <3>1
    <3> QED
      BY <2>1, <3>1, <3>2
  <2>3. CASE ~e.packed
    <3>1. <<e.file, "plain", e.meta>> \in e.data
      BY <2>3, EntryDescribed
    <3> QED
      BY <2>1, <3>1
  <2> QED
    BY <2>2, <2>3
<1> QED
  BY <1>1, ScanAlways, PTL

\* A file has one entry in a snapshot, and its content stays in the repository.
THEOREM SnapshotsStayStored == Spec => []SnapshotStored
BY ScanAlways, PTL DEF ScanInv

\* The repair of a manifest converges: a further attempt takes a further drop.
THEOREM RepairsConverge == Spec => []RepairsAnswerDrops
<1>1. ScanInv => RepairsAnswerDrops
  <2> SUFFICES ASSUME ScanInv PROVE RepairsAnswerDrops
    OBVIOUS
  <2>1. IsFiniteSet(Stale) /\ attempt + Cardinality(Stale) <= drops /\ attempt \in Nat /\ drops \in Nat
    BY ScanOK DEF ScanOK, ScanInv, StaleInv, TypeOK
  <2>2. Cardinality(Stale) \in Nat /\ (Cardinality(Stale) = 0 <=> Stale = {})
    BY <2>1, FS_CardinalityType, FS_EmptySet
  <2>3. Short => Stale # {}
    BY DEF Short, Missing, Stale
  <2> QED
    BY <2>1, <2>2, <2>3 DEF RepairsAnswerDrops
<1> QED
  BY <1>1, ScanAlways, PTL

\* The entry of a large file names its own content.
LEMMA NoMisfit == ASSUME ScanInv PROVE ~Misfit
<1>1. ASSUME NEW e \in manifest, ~e.packed PROVE Adds(e)
  <2>1. \A p \in e.data : p[3] = e.meta
    BY <1>1, EntryDescribed
  <2> QED
    BY <2>1 DEF Adds
<1> QED
  BY <1>1 DEF Misfit

\* A packed file that its pack does not have is there under another form of its
\* path, or was written to before it was read.
LEMMA NotInPack ==
  ASSUME ScanInv, NEW e \in manifest, e.packed, ~InPack(e)
  PROVE  /\ e.form \in Forms /\ e.file \in File /\ Small(e.file, e.meta)
         /\ \E p \in e.data :
              /\ p[1] = e.file /\ p[2] \in Forms
              /\ e.meta \in DOMAIN SizeOf[e.file] /\ p[3] \in DOMAIN SizeOf[e.file] /\ e.meta <= p[3]
              /\ p[2] # e.form \/ (p[3] > e.meta /\ Size(e.file, p[3]) # Size(e.file, e.meta))
<1>1. PICK p \in e.data : p[1] = e.file /\ p[2] \in Forms /\ p[3] \in e.meta..disk[e.file]
  BY EntryDescribed
<1>2. e.meta \in DOMAIN SizeOf[e.file] /\ p[3] \in DOMAIN SizeOf[e.file] /\ e.meta <= p[3]
  <2>1. SizeOf[e.file] \in Seq(Nat \ {0}) /\ disk[e.file] \in DOMAIN SizeOf[e.file]
    BY ScanOK, EntryDescribed DEF ScanOK, ScanInv, TypeOK
  <2>2. e.meta \in 1..disk[e.file] /\ disk[e.file] \in Nat
    BY EntryDescribed DEF ScanInv, RecordsInv, Describes
  <2>3. DOMAIN SizeOf[e.file] = 1..Len(SizeOf[e.file]) /\ Len(SizeOf[e.file]) \in Nat
    BY <2>1
  <2> QED
    BY <1>1, <2>1, <2>2, <2>3
<1>3. p[2] # e.form \/ Size(e.file, p[3]) # Size(e.file, e.meta)
  BY <1>1 DEF InPack
<1>4. p[2] # e.form \/ (p[3] > e.meta /\ Size(e.file, p[3]) # Size(e.file, e.meta))
  <2>1. p[3] # e.meta => p[3] > e.meta
    BY <1>1, EntryDescribed
  <2> QED
    BY <1>3, <2>1
<1> QED
  BY <1>1, <1>2, <1>4, EntryDescribed

\* canonicalizeManifestChunks refuses a manifest only for a packed file reused
\* from a run that wrote its path another way, or written to between the walk
\* and the reading of its pack.
THEOREM RefusalsExplained == Spec => []RefusedKnowingly
<1>1. ASSUME ScanInv, NEW e \in manifest, e.packed, ~InPack(e)
      PROVE  \E p \in e.data : /\ p[1] = e.file
                               /\ p[2] # e.form \/ (p[3] > e.meta /\ Size(e.file, p[3]) # Size(e.file, e.meta))
  BY <1>1, NotInPack
<1>2. ScanInv => RefusedKnowingly
  BY <1>1, NoMisfit DEF RefusedKnowingly
<1> QED
  BY <1>2, ScanAlways, PTL

\* While small files keep their size, only the form of the path is left.
LEMMA OtherForm ==
  ASSUME ScanInv, SizesKept, NEW e \in manifest, e.packed, ~InPack(e)
  PROVE  /\ e.form \in Forms
         /\ \E p \in e.data : p[1] = e.file /\ p[2] \in Forms /\ p[2] # e.form
<1>1. PICK p \in e.data :
        /\ p[1] = e.file /\ p[2] \in Forms
        /\ e.meta \in DOMAIN SizeOf[e.file] /\ p[3] \in DOMAIN SizeOf[e.file] /\ e.meta <= p[3]
        /\ p[2] # e.form \/ (p[3] > e.meta /\ Size(e.file, p[3]) # Size(e.file, e.meta))
  BY NotInPack
<1>2. e.form \in Forms /\ e.file \in File /\ Small(e.file, e.meta)
  BY NotInPack
<1>3. Size(e.file, p[3]) = Size(e.file, e.meta)
  BY <1>1, <1>2 DEF SizesKept
<1> QED
  BY <1>1, <1>2, <1>3

\* Where small files keep their size, canonicalizeManifestChunks refuses a
\* manifest only for a file reused from a run that wrote its path another way.
THEOREM RefusalsAreOfRoots == ASSUME SizesKept PROVE Spec => []RefusedForRootsOnly
<1>1. ScanInv => RefusedForRootsOnly
  BY NoMisfit, OtherForm DEF RefusedForRootsOnly
<1> QED
  BY <1>1, ScanAlways, PTL

\* And where all configurations write paths one way it refuses none.
THEOREM NothingRefused == ASSUME SizesKept, OneForm PROVE Spec => []NeverRefused
<1>1. \A g, h \in Forms : g = h
  BY DEF Forms, OneForm
<1>2. ScanInv => NeverRefused
  BY <1>1, NoMisfit, OtherForm DEF NeverRefused, Mispacked
<1> QED
  BY <1>2, ScanAlways, PTL

===============================================================================
