------------------------------ MODULE AgentScan -----------------------------
(***************************************************************************)
(* What an agent's scan makes of the files over several runs                *)
(* (cmd/turbk-agent/scan.go, small_pack.go, backup.go): files the catalog   *)
(* knows are reused, others read and uploaded, small ones together as a     *)
(* pack; the manifest is checked by the server (canonicalizeManifestChunks) *)
(* and repaired when chunks are missing.  Meanwhile files are written to,   *)
(* the server drops chunks, and the configured roots change.                *)
(*                                                                         *)
(* A version of a file stands for its metadata and its content; its mtime   *)
(* never comes back.  Content that was stored is a set of pieces <<f, form, *)
(* v>>: the chunks of a large file are the one piece of form "plain", a     *)
(* pack has a piece per file, of the form its path was written in.          *)
(* Directories and symbolic links have no content, and are left out.        *)
(***************************************************************************)
EXTENDS Integers, Sequences, FiniteSets, SequencesExt, Functions

CONSTANTS
  File, Root,
  FilesOf,       \* the files below a root, in the order of a walk
  SizeOf,        \* SizeOf[f][v]: bytes of version v of f, for each version
  MaxPackFile,   \* small_file_pack_max_file_size
  PackTarget,    \* small_file_pack_target_size
  RootSets,      \* the sequences of roots the agent may be configured with
  Unreadable,    \* files whose reading may fail
  MaxRepair,     \* MaxManifestRepairAttempts
  MaxDrop        \* bound on drops of chunks by the server

\* No file is below two roots of a sequence.
Apart(rs) == \A i, j \in DOMAIN rs : i # j => ToSet(FilesOf[rs[i]]) \cap ToSet(FilesOf[rs[j]]) = {}

ASSUME ScanOK ==
  /\ FilesOf \in [Root -> Seq(File)] /\ \A r \in Root : IsInjective(FilesOf[r])
  /\ SizeOf \in [File -> Seq(Nat \ {0})] /\ \A f \in File : SizeOf[f] # <<>>
  /\ File # {} /\ MaxRepair \in Nat
  \* rootset.Normalize: no root twice, none below another.
  /\ \A rs \in RootSets : rs \in Seq(Root) /\ rs # <<>> /\ Apart(rs)

VARIABLES
  disk,      \* disk[f]: the version on the disk
  server,    \* contents the server has
  confirmed, \* contents the catalog has as confirmed
  catalog,   \* catalog[f]: the file record, of a version and its content
  drops,
  run,       \* what the run is doing
  roots,     \* its roots; the first one is being walked
  todo,      \* files of that root the walk has yet to meet, in order
  cur,       \* the file met last: its version then
  pack,      \* the files collected for a pack, in order: metadata and version read
  manifest,  \* the entries so far
  updates,   \* catalog records to be written
  attempt,
  since,     \* the disk when the run began, while there is one
  snapshot   \* the entries of the last accepted manifest

scanVars == <<todo, cur, pack, manifest, updates>>
vars == <<disk, server, confirmed, catalog, drops, run, roots, scanVars, attempt, since, snapshot>>

NoFile   == [file |-> CHOOSE f \in File : TRUE, meta |-> 0]
NoRoots  == [all |-> <<>>, left |-> <<>>]
NoTime   == [f \in File |-> 1]
NoRecord == [meta |-> 0, packed |-> FALSE, data |-> {}]
Multi    == Len(roots.all) > 1
\* manifestEntryPath: relative to the only root, or absolute.
Form     == IF Multi THEN "absolute" ELSE "relative"
Size(f, v)  == SizeOf[f][v]
\* agentSmallFilePackBatcher.Eligible.
Small(f, v) == Size(f, v) <= MaxPackFile
PackBytes   == SumFunction([i \in DOMAIN pack |-> Size(pack[i].file, pack[i].ver)])

Init ==
  /\ disk = [f \in File |-> 1]
  /\ server = {} /\ confirmed = {} /\ drops = 0
  /\ catalog = [f \in File |-> NoRecord]
  /\ run = "none" /\ attempt = 0
  /\ roots = NoRoots
  /\ todo = <<>> /\ cur = NoFile /\ pack = <<>> /\ manifest = {}
  /\ updates = <<>> /\ since = NoTime /\ snapshot = {}

-----------------------------------------------------------------------------
(* The world around the agent.                                             *)

Modify(f) ==
  /\ disk[f] < Len(SizeOf[f])
  /\ disk' = [disk EXCEPT ![f] = @ + 1]
  /\ UNCHANGED <<server, confirmed, catalog, drops, run, roots, scanVars, attempt, since, snapshot>>

\* The server drops what its snapshot does not name; the agent hears of it
\* when its next heartbeat is in time, or does not.
ServerDrops(d) ==
  /\ drops < MaxDrop /\ d \in server /\ \A e \in snapshot : e.data # d
  /\ drops' = drops + 1
  /\ server' = server \ {d}
  /\ confirmed' \in {confirmed, confirmed \ {d}}
  /\ UNCHANGED <<disk, catalog, run, roots, scanVars, attempt, since, snapshot>>

-----------------------------------------------------------------------------
(* The scan.                                                               *)

\* newBackupScanner: the walk begins, with nothing from an earlier attempt.
Rewind(rs) ==
  /\ roots' = [all |-> rs, left |-> rs]
  /\ todo' = FilesOf[Head(rs)]
  /\ cur' = NoFile /\ pack' = <<>> /\ manifest' = {} /\ updates' = <<>>

\* runBackupWithOptions.
StartRun(rs) ==
  /\ run = "none"
  /\ run' = "walk" /\ attempt' = 0 /\ since' = disk
  /\ Rewind(rs)
  /\ UNCHANGED <<disk, server, confirmed, catalog, drops, snapshot>>

\* walkPath: the metadata of the next file.
Meet ==
  /\ run = "walk" /\ cur = NoFile /\ todo # <<>>
  /\ cur' = [file |-> Head(todo), meta |-> disk[Head(todo)]]
  /\ todo' = Tail(todo)
  /\ UNCHANGED <<disk, server, confirmed, catalog, drops, run, roots, pack, manifest, updates,
                 attempt, since, snapshot>>

Walking == run = "walk" /\ cur # NoFile
Entry(f, meta, packed, data) == [file |-> f, form |-> Form, meta |-> meta, packed |-> packed, data |-> data]
Record(meta, packed, data)   == [meta |-> meta, packed |-> packed, data |-> data]
Update(f, meta, packed, data) == [file |-> f, record |-> Record(meta, packed, data)]

\* Mutated: the metadata of the record is not compared.
ReusableAny ==
  LET r == catalog[cur.file] IN
  /\ r.data # {} /\ r.packed = Small(cur.file, cur.meta)

\* tryReuseCatalogFile, tryReuseCatalogPackedFile: the record is of this very
\* metadata, and says how the file would be stored now.
Reusable ==
  LET r == catalog[cur.file] IN
  /\ r.meta = cur.meta /\ r.data # {} /\ r.packed = Small(cur.file, cur.meta)

\* ensureCatalogChunksConfirmed: the server is asked, its answer noted.
Answers(d) == confirmed' = IF d \in server THEN confirmed \cup {d} ELSE confirmed \ {d}

\* A file the catalog knows, and chunks it trusts or the server confirms.
Reuse ==
  LET d == catalog[cur.file].data IN
  /\ Walking /\ Reusable
  /\ IF d \in confirmed THEN UNCHANGED confirmed ELSE d \in server /\ Answers(d)
  /\ manifest' = manifest \cup {Entry(cur.file, cur.meta, catalog[cur.file].packed, d)}
  /\ cur' = NoFile
  /\ UNCHANGED <<disk, server, catalog, drops, run, roots, todo, pack, updates,
                 attempt, since, snapshot>>

\* Otherwise it is read.  The catalog may have learned that chunks are missing.
MustRead == Walking /\ ~(Reusable /\ catalog[cur.file].data \in confirmed \cup server)
NotesMissing ==
  IF Reusable THEN Answers(catalog[cur.file].data) ELSE UNCHANGED confirmed

\* Mutated: a retry takes the metadata anew, and keeps the chunks it had.
ReadLargeKeeping ==
  LET f == cur.file  v == disk[f]  d == {<<f, "plain", cur.meta>>} IN
  /\ MustRead /\ ~Small(f, cur.meta)
  /\ server' = server \cup {d} /\ confirmed' = confirmed \cup {d}
  /\ manifest' = manifest \cup {Entry(f, v, FALSE, d)}
  /\ updates' = Append(updates, Update(f, v, FALSE, d))
  /\ cur' = NoFile
  /\ UNCHANGED <<disk, catalog, drops, run, roots, todo, pack, attempt, since, snapshot>>

\* uploadRegularFile: what is on the disk, under its own metadata, which was
\* taken anew if the file had changed.
ReadLarge ==
  LET f == cur.file  v == disk[f]  d == {<<f, "plain", v>>} IN
  /\ MustRead /\ ~Small(f, cur.meta)
  /\ server' = server \cup {d} /\ confirmed' = confirmed \cup {d}
  /\ manifest' = manifest \cup {Entry(f, v, FALSE, d)}
  /\ updates' = Append(updates, Update(f, v, FALSE, d))
  /\ cur' = NoFile
  /\ UNCHANGED <<disk, catalog, drops, run, roots, todo, pack, attempt, since, snapshot>>

\* agentSmallFilePackBatcher.Add: the pack has its size, or would exceed it.
PackFull ==
  \/ PackBytes >= PackTarget
  \/ Walking /\ pack # <<>> /\ PackBytes + Size(cur.file, disk[cur.file]) > PackTarget

\* handlePackFile: the payload of what is on the disk, after a retry under
\* new metadata; entry and record keep the metadata of the walk.
ReadSmall ==
  /\ MustRead /\ Small(cur.file, cur.meta) /\ ~PackFull
  /\ NotesMissing
  /\ pack' = Append(pack, [file |-> cur.file, meta |-> cur.meta, ver |-> disk[cur.file]])
  /\ cur' = NoFile
  /\ UNCHANGED <<disk, server, catalog, drops, run, roots, todo, manifest, updates,
                 attempt, since, snapshot>>

\* The file cannot be read, or keeps changing: it is skipped.
SkipFile ==
  /\ MustRead /\ cur.file \in Unreadable
  /\ NotesMissing
  /\ cur' = NoFile
  /\ UNCHANGED <<disk, server, catalog, drops, run, roots, todo, pack, manifest, updates,
                 attempt, since, snapshot>>

\* flushPackFiles: when the pack is full, and at the end of a root.
FlushPack ==
  LET d == {<<p.file, Form, p.ver>> : p \in ToSet(pack)} IN
  /\ run = "walk" /\ pack # <<>> /\ (PackFull \/ (cur = NoFile /\ todo = <<>>))
  /\ server' = server \cup {d} /\ confirmed' = confirmed \cup {d}
  /\ manifest' = manifest \cup {Entry(p.file, p.meta, TRUE, d) : p \in ToSet(pack)}
  /\ updates' = updates \o [i \in DOMAIN pack |-> Update(pack[i].file, pack[i].meta, TRUE, d)]
  /\ pack' = <<>>
  /\ UNCHANGED <<disk, catalog, drops, run, roots, todo, cur, attempt, since, snapshot>>

\* The walk goes on to the next root.
NextRoot ==
  /\ run = "walk" /\ cur = NoFile /\ todo = <<>> /\ pack = <<>> /\ Len(roots.left) > 1
  /\ roots' = [roots EXCEPT !.left = Tail(@)]
  /\ todo' = FilesOf[roots.left[2]]
  /\ UNCHANGED <<disk, server, confirmed, catalog, drops, run, cur, pack, manifest, updates,
                 attempt, since, snapshot>>

\* replaceFiles: of several records of a file the last one stays.
Written(us, f) ==
  LET mine == {i \in DOMAIN us : us[i].file = f} IN
  IF mine = {} THEN catalog[f] ELSE us[CHOOSE i \in mine : \A j \in mine : j <= i].record

\* The end of the scan: fileCatalogBatcher.Flush.
ScanEnds ==
  /\ run = "walk" /\ cur = NoFile /\ todo = <<>> /\ pack = <<>> /\ Len(roots.left) = 1
  /\ catalog' = [f \in File |-> Written(updates, f)]
  /\ run' = "post"
  /\ updates' = <<>>
  /\ UNCHANGED <<disk, server, confirmed, drops, roots, todo, cur, pack, manifest,
                 attempt, since, snapshot>>

\* A request fails: the run fails, and the batcher has written some records.
ScanFails ==
  /\ run = "walk"
  /\ \E n \in 0..Len(updates) : catalog' = [f \in File |-> Written(SubSeq(updates, 1, n), f)]
  /\ run' = "none"
  /\ todo' = <<>> /\ cur' = NoFile /\ pack' = <<>> /\ manifest' = {} /\ updates' = <<>>
  /\ attempt' = 0 /\ roots' = NoRoots /\ since' = NoTime
  /\ UNCHANGED <<disk, server, confirmed, drops, snapshot>>

-----------------------------------------------------------------------------
(* canonicalizeManifestChunks, and the agent's answer to it.               *)

\* Mutated: the chunks of packs are not looked up.
MissingPlain == {e.data : e \in {x \in manifest : ~x.packed}} \ server

Missing == {e.data : e \in manifest} \ server

\* A packed file is in its pack, under its path, with its size.
InPack(e) ==
  \E p \in e.data : p[1] = e.file /\ p[2] = e.form /\ Size(e.file, p[3]) = Size(e.file, e.meta)

\* The chunks of a large file add up to its size.
Adds(e) == \A p \in e.data : Size(e.file, p[3]) = Size(e.file, e.meta)

Misfit    == \E e \in manifest : ~e.packed /\ e.data \in server /\ ~Adds(e)
Mispacked ==
  /\ \A e \in manifest : e.packed => e.data \in server
  /\ \E e \in manifest : e.packed /\ ~InPack(e)
Short     == Missing # {} /\ ~Misfit

EndRun ==
  /\ run' = "none"
  /\ manifest' = {} /\ attempt' = 0 /\ roots' = NoRoots /\ since' = NoTime
  /\ UNCHANGED <<disk, server, catalog, drops, todo, cur, pack, updates>>

Accepted ==
  /\ run = "post" /\ Missing = {} /\ ~Misfit /\ ~Mispacked
  /\ snapshot' = manifest
  /\ EndRun /\ UNCHANGED confirmed

\* 400: the run is failed.  Once a chunk of a large file was found missing,
\* packed files are not compared with their packs.
Refused ==
  /\ run = "post" /\ (Misfit \/ Mispacked)
  /\ EndRun /\ UNCHANGED <<confirmed, snapshot>>

\* Mutated: the chunks reported missing stay confirmed.
RepairBlind ==
  /\ run = "post" /\ Short /\ attempt < MaxRepair
  /\ attempt' = attempt + 1
  /\ run' = "walk" /\ Rewind(roots.all)
  /\ UNCHANGED <<disk, server, confirmed, catalog, drops, since, snapshot>>

\* Mutated: there is no end to the attempts.
RepairAlways ==
  /\ run = "post" /\ Short
  /\ confirmed' = confirmed \ Missing
  /\ attempt' = attempt + 1
  /\ run' = "walk" /\ Rewind(roots.all)
  /\ UNCHANGED <<disk, server, catalog, drops, since, snapshot>>

\* 409: what is missing is noted, and the scan done again.
Repair ==
  /\ run = "post" /\ Short /\ attempt < MaxRepair
  /\ confirmed' = confirmed \ Missing
  /\ attempt' = attempt + 1
  /\ run' = "walk" /\ Rewind(roots.all)
  /\ UNCHANGED <<disk, server, catalog, drops, since, snapshot>>

GiveUp ==
  /\ run = "post" /\ Short /\ attempt >= MaxRepair
  /\ EndRun /\ UNCHANGED <<confirmed, snapshot>>

Step ==
  \/ Meet \/ Reuse \/ ReadLarge \/ ReadSmall \/ FlushPack \/ NextRoot \/ ScanEnds
  \/ Accepted \/ Refused \/ Repair \/ GiveUp
  \/ \E rs \in RootSets : StartRun(rs)

Next ==
  \/ Step
  \/ SkipFile \/ ScanFails
  \/ \E f \in File : Modify(f)
  \/ \E d \in server : ServerDrops(d)

Spec == Init /\ [][Next]_vars

-----------------------------------------------------------------------------
(* Properties.                                                             *)

\* Type invariant.
Pieces   == File \X {"plain", "relative", "absolute"} \X Nat
Contents == SUBSET Pieces
Records  == [meta : Nat, packed : BOOLEAN, data : Contents]
Entries  == [file : File, form : {"relative", "absolute"}, meta : Nat, packed : BOOLEAN, data : Contents]
TypeOK ==
  /\ \A f \in File : disk[f] \in DOMAIN SizeOf[f]
  /\ disk \in [File -> Nat] /\ since \in [File -> Nat]
  /\ server \subseteq Contents /\ confirmed \subseteq Contents
  /\ catalog \in [File -> Records] /\ updates \in Seq([file : File, record : Records])
  /\ drops \in Nat /\ run \in {"none", "walk", "post"}
  /\ roots \in [all : Seq(Root), left : Seq(Root)]
  /\ attempt \in 0..MaxRepair /\ todo \in Seq(File)
  /\ cur \in [file : File, meta : Nat] /\ pack \in Seq([file : File, meta : Nat, ver : Nat])
  /\ manifest \subseteq Entries /\ snapshot \subseteq Entries

\* What the manifest a run submits says of a file is content that was on the disk
\* while the run was under way, whether it was read, retried or reused from
\* the catalog.
SnapshotIsOfTheRun ==
  run = "post" =>
    \A e \in manifest : \E p \in e.data :
      p[1] = e.file /\ p[3] \in since[e.file]..disk[e.file] /\ e.meta \in since[e.file]..disk[e.file]

\* A file has one entry at most, and its content is in the repository, for as
\* long as the snapshot is there.
SnapshotStored ==
  /\ \A e1, e2 \in snapshot : e1.file = e2.file => e1 = e2
  /\ \A e \in snapshot : e.data \in server

\* A file record names content of the very version whose metadata it has,
\* unless the file was written to between the walk and the reading of a pack:
\* then that metadata has gone from the disk for good, and the record is
\* never used.
RecordsNameTheirContent ==
  \A f \in File : LET r == catalog[f] IN
    r.data # {} /\ r.meta = disk[f] => \E p \in r.data : p[1] = f /\ p[3] = r.meta

\* Well typed, with a catalog that names the content it says.
CatalogSound == TypeOK /\ RecordsNameTheirContent

\* canonicalizeManifestChunks refuses a manifest for one reason only: a packed
\* file was reused from a run over another number of roots, and its pack has it
\* under the path it had then (small files keep their size here).
RefusedForRootsOnly ==
  run = "post" =>
    /\ ~Misfit
    /\ \A e \in manifest : e.packed /\ ~InPack(e) =>
         \E p \in e.data : p[1] = e.file /\ p[2] # e.form

\* And if they do not, for one more: it was written to between the walk and the
\* reading of its pack.
RefusedKnowingly ==
  run = "post" =>
    /\ ~Misfit
    /\ \A e \in manifest : e.packed /\ ~InPack(e) =>
         \E p \in e.data : /\ p[1] = e.file
                           /\ p[2] # e.form \/ (p[3] > e.meta /\ Size(e.file, p[3]) # Size(e.file, e.meta))

\* What the agent relies on: no backup is refused with 400.
NeverRefused == run = "post" => ~Misfit /\ ~Mispacked

\* The repair converges: each attempt after the first answers a drop.
RepairsAnswerDrops == attempt <= drops /\ (run = "post" /\ Short => attempt < drops)

-----------------------------------------------------------------------------
(* Why they hold.                                                          *)

\* The forms a path can have been written in.
Forms == {IF Len(rs) > 1 THEN "absolute" ELSE "relative" : rs \in RootSets}

\* A record, of the catalog or of a manifest: the very content of its version
\* if the file was stored alone, and what was on the disk then or later if it
\* went into a pack.
Describes(now, f, r) ==
  /\ r.meta \in 1..now[f]
  /\ ~r.packed => r.data = {<<f, "plain", r.meta>>}
  /\ r.packed =>
       /\ Small(f, r.meta)
       /\ \E p \in r.data : p[1] = f /\ p[2] \in Forms /\ p[3] \in r.meta..now[f]

RecordsInv ==
  /\ \A f \in File : since[f] \in 1..disk[f]
  /\ \A f \in File : catalog[f].data # {} => Describes(disk, f, catalog[f])
  /\ \A i \in DOMAIN updates : Describes(disk, updates[i].file, updates[i].record)
  /\ \A e \in manifest : Describes(disk, e.file, e) /\ e.meta >= since[e.file] /\ e.form \in Forms
  /\ cur # NoFile => cur.meta \in since[cur.file]..disk[cur.file]
  /\ \A i \in DOMAIN pack :
       /\ pack[i].meta \in since[pack[i].file]..pack[i].ver
       /\ pack[i].ver <= disk[pack[i].file] /\ Small(pack[i].file, pack[i].meta)

\* A file is ahead of the walk, met, in the pack or in the manifest, in one of
\* these places and once.
Later    == UNION {ToSet(FilesOf[roots.left[i]]) : i \in 2..Len(roots.left)}
Ahead    == ToSet(todo) \cup Later
Met      == IF cur = NoFile THEN {} ELSE {cur.file}
InPacks  == {p.file : p \in ToSet(pack)}
Entered  == {e.file : e \in manifest}
WalkInv ==
  /\ run = "walk" => roots.left # <<>> /\ Apart(roots.left) /\ ToSet(todo) \subseteq ToSet(FilesOf[Head(roots.left)])
  /\ run # "walk" => todo = <<>> /\ cur = NoFile /\ pack = <<>>
  /\ run # "none" => roots.all \in RootSets
  /\ IsInjective(todo)
  /\ \A i, j \in DOMAIN pack : pack[i].file = pack[j].file => i = j
  /\ \A e1, e2 \in manifest : e1.file = e2.file => e1 = e2
  /\ run = "walk" =>
       /\ Met \cap Ahead = {} /\ InPacks \cap (Ahead \cup Met) = {}
       /\ Entered \cap (Ahead \cup Met \cup InPacks) = {}

\* What the agent takes for stored and the server has dropped: every drop adds
\* one content to it, and every repair takes one off.
Stale == (confirmed \cup {e.data : e \in manifest}) \ server
StaleInv == IsFiniteSet(Stale) /\ attempt + Cardinality(Stale) <= drops

ScanInv == TypeOK /\ RecordsInv /\ WalkInv /\ StaleInv /\ SnapshotStored

\* What the two properties that are about refusals ask of the files and of the
\* configuration: a file that goes into a pack keeps its size, and all
\* configurations write their paths in one form.
SizesKept == \A f \in File : \A v, w \in DOMAIN SizeOf[f] : v <= w /\ Small(f, v) => Size(f, w) = Size(f, v)
OneForm   == \A rs, qs \in RootSets : Len(rs) > 1 <=> Len(qs) > 1
=============================================================================
