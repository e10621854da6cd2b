------------------------------ MODULE ZipSave ------------------------------
(***************************************************************************)
(* ZipDriver::saveArchive (src/drivers/zipdriver.cpp) run by ~FileSystem   *)
(* on the tree FileTree leaves at unmount, and the libzip archive it       *)
(* edits.                                                                   *)
(*                                                                         *)
(* A libzip archive is a sequence of entries, indexed from 1 here as the   *)
(* FileNode data of FileTree are: a name (the path and whether it is a     *)
(* directory, whose name ends in "/"), a content (an entry of the source   *)
(* archive, or the buffer of a node that a zip_source_function reads when  *)
(* the archive is closed) and a deleted mark.  libzip refuses zip_add,     *)
(* zip_add_dir and zip_rename to a name that a non-deleted entry has.      *)
(* The archive file changes only when zip_close writes it, in              *)
(* ~ZipDriver.                                                             *)
(***************************************************************************)
EXTENDS FileTree

CONSTANTS
  KeepOriginal,  \* the --keep-original option
  NameOrder      \* Names in the byte order strcmp gives their one-letter spellings

ASSUME KeepOriginal \in BOOLEAN
ASSUME NameOrder \in Seq(Names) /\ Range(NameOrder) = Names

VARIABLES
  zipOld,   \* the entries of zip_file, the archive opened at mount
  zipNew,   \* the entries of zip_file_new, the "_edit" archive of keep_original
  saved     \* ~FileSystem has run the save

saveVars == <<zipOld, zipNew, saved>>

ZipName(p, isDir) == [path |-> p, dir |-> isDir]
Orig(i) == [src |-> "entry", id |-> i]
Buf(n) == [src |-> "buffer", id |-> n]

\* The archive as zip_open finds it.
SourceZip ==
  [i \in Entries |-> [name |-> ZipName(Archive[i].path, Archive[i].type = "dir"),
                      content |-> Orig(i), deleted |-> FALSE]]

-----------------------------------------------------------------------------
(* libzip, as far as the save uses it.                                      *)

NameTaken(z, name, self) ==
  \E j \in DOMAIN z : j # self /\ ~z[j].deleted /\ z[j].name = name
ZipAdd(z, name, c) ==
  IF NameTaken(z, name, 0) THEN z
  ELSE Append(z, [name |-> name, content |-> c, deleted |-> FALSE])
ZipRename(z, i, name) ==
  IF NameTaken(z, name, i) THEN z ELSE [z EXCEPT ![i].name = name]
ZipReplace(z, i, c) == [z EXCEPT ![i].content = c]
ZipDelete(z, i) == [z EXCEPT ![i].deleted = TRUE]

\* What zip_close leaves in the file: the entries that are not deleted.
Written(z) == {[name |-> z[i].name, content |-> z[i].content] : i \in {j \in DOMAIN z : ~z[j].deleted}}

-----------------------------------------------------------------------------
(* The walk.                                                                *)

\* The ltstr order of file_map: strcmp on the pathnames, which for paths of
\* one-letter names is the lexicographic order of the name sequences, a
\* prefix first.
NameRank(x) == CHOOSE k \in DOMAIN NameOrder : NameOrder[k] = x
RECURSIVE PathLess(_, _)
PathLess(p, q) ==
  IF p = <<>> THEN q # <<>>
  ELSE IF q = <<>> THEN FALSE
  ELSE IF Head(p) = Head(q) THEN PathLess(Tail(p), Tail(q))
  ELSE NameRank(Head(p)) < NameRank(Head(q))

\* file_map iterated from begin() to end().
MapOrder == SetToSortSeq({q \in Paths : fmap[q] # NoNode}, PathLess)

\* A faulty skip test that also skips changed entries that were not renamed.
SkippedUnlessRenamed(n) == orig[n] = NULL

\* "If the file did not change and was not renamed" it is left alone.
Skipped(n) == ~changed[n] /\ orig[n] = NULL

\* One node of the in-place walk: a node without archive data is added (a
\* directory with zip_add_dir), an archived one is renamed if it has an
\* original_pathname and its content replaced if it changed.
SaveNode(z, n) ==
  LET name == ZipName(path[n], ntype[n] = "dir") IN
  IF Skipped(n) THEN z
  ELSE IF data[n] = NoEntry
  THEN ZipAdd(z, name, IF ntype[n] = "dir" THEN Orig(0) ELSE Buf(n))
  ELSE LET z1 == IF orig[n] # NULL THEN ZipRename(z, data[n], name) ELSE z
       IN IF changed[n] THEN ZipReplace(z1, data[n], Buf(n)) ELSE z1

RECURSIVE SaveWalk(_, _)
SaveWalk(z, keys) ==
  IF keys = <<>> THEN z ELSE SaveWalk(SaveNode(z, fmap[Head(keys)]), Tail(keys))

\* A faulty save that leaves the tombstones in the archive.
DeleteTombsNone(z, tombs) == z

\* The tombstones are deleted by index before the walk.
RECURSIVE DeleteTombs(_, _)
DeleteTombs(z, tombs) ==
  IF tombs = {} THEN z
  ELSE LET t == CHOOSE t \in tombs : TRUE
       IN DeleteTombs(ZipDelete(z, data[t]), tombs \ {t})

\* keep_original: every node goes to zip_file_new (a directory by name, an
\* archived entry as a copy of its source entry under its current name),
\* except a node without archive data, which is added to zip_file.
RECURSIVE KeepWalk(_, _, _)
KeepWalk(zo, zn, keys) ==
  IF keys = <<>> THEN <<zo, zn>>
  ELSE LET n == fmap[Head(keys)]
           name == ZipName(path[n], ntype[n] = "dir")
       IN IF ntype[n] = "dir" THEN KeepWalk(zo, ZipAdd(zn, name, Orig(0)), Tail(keys))
          ELSE IF data[n] # NoEntry THEN KeepWalk(zo, ZipAdd(zn, name, Orig(data[n])), Tail(keys))
          ELSE KeepWalk(ZipAdd(zo, name, Buf(n)), zn, Tail(keys))

\* ~FileSystem: a changed tree is handed to saveArchive; the archives are
\* written by zip_close, zip_file_new at the end of saveArchive and
\* zip_file in ~ZipDriver.
Save ==
  /\ phase = "unmounted" /\ ~saved
  /\ saved' = TRUE
  /\ IF ~fsChanged THEN UNCHANGED <<zipOld, zipNew>>
     ELSE IF KeepOriginal
     THEN LET r == KeepWalk(zipOld, <<>>, MapOrder) IN
          /\ zipOld' = r[1]
          /\ zipNew' = r[2]
     ELSE /\ zipOld' = SaveWalk(DeleteTombs(zipOld, removed), MapOrder)
          /\ UNCHANGED zipNew
  /\ UNCHANGED vars

ZInit == Init /\ zipOld = SourceZip /\ zipNew = <<>> /\ saved = FALSE

ZNext == (Next /\ UNCHANGED saveVars) \/ Save

ZSpec == ZInit /\ [][ZNext]_<<vars, saveVars>>

-----------------------------------------------------------------------------
(* Properties of the save.                                                  *)

\* The archive the save produces: zip_file_new with keep_original, else
\* zip_file.
Output == IF KeepOriginal THEN zipNew ELSE zipOld

\* A zip_source_function reading a node without a buffer: zip_close calls
\* buffer->length() on NULL and the process dies before the file is
\* written.
Crashed ==
  \E z \in {zipOld, zipNew} : \E i \in DOMAIN z :
     ~z[i].deleted /\ z[i].content.src = "buffer" /\ buf[z[i].content.id] = "none"

Done == saved /\ fsChanged /\ ~Crashed

\* The content the tree gives a live file: its buffer once changed or when
\* it never had an archive entry, else its source entry.
Content(n) == IF changed[n] \/ data[n] = NoEntry THEN Buf(n) ELSE Orig(data[n])

FileEntries(z) == {e \in Written(z) : ~e.name.dir}
TreeFiles == {[name |-> ZipName(path[n], FALSE), content |-> Content(n)] : n \in {m \in Live : ntype[m] = "file"}}

\* After saveArchive and zip_close, the files of the written archive are
\* exactly the live files of the tree, each at its pathname with its
\* content (the save protocol of the spec, section 4.6): renames, adds,
\* replacements and tombstone deletions applied in key order must not
\* collide with names the archive still has.
SaveMatchesTree == Done => FileEntries(Output) = TreeFiles

\* Every file entry the in-place save leaves in the archive belongs to a
\* live node: a tombstone's entry is deleted, whatever renames and adds
\* the walk makes afterwards.
SaveNoOrphanEntries ==
  Done /\ ~KeepOriginal =>
    \A i \in Entries : ~zipOld[i].deleted => \E n \in Live : data[n] = i

\* Every changed file that has an archive entry has its buffer as that
\* entry's content after the save, whether or not its rename succeeded:
\* the skip test of the walk must not pass over changed nodes.
SaveStoresChanges ==
  Done /\ ~KeepOriginal =>
    \A n \in Live : ntype[n] = "file" /\ changed[n] /\ data[n] # NoEntry =>
      zipOld[data[n]].content = Buf(n) /\ ~zipOld[data[n]].deleted

\* With keep_original the source archive is left as it was: the save
\* writes only to the "_edit" archive (spec, section 4.6 step 5).
KeepOriginalUntouched == saved /\ KeepOriginal => Written(zipOld) = Written(SourceZip)

=============================================================================
