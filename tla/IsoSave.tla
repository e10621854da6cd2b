------------------------------ MODULE IsoSave ------------------------------
(***************************************************************************)
(* IsoDriver::saveArchive (src/drivers/isodriver.cpp) run by ~FileSystem   *)
(* on the tree FileTree leaves at unmount.                                 *)
(*                                                                         *)
(* The save imports the source image into a libisofs IsoImage, removes the *)
(* tombstones, walks file_map in key order applying renames and changes,   *)
(* and writes the image out.  The image is a tree addressed by path: a     *)
(* function from Paths to an entry that is absent, a directory, or a file  *)
(* with a content (a source entry, or the buffer of a node that a          *)
(* BufferStream reads when the image is burnt).  Removing an IsoNode       *)
(* removes its subtree; iso_node_set_name renames a node inside its        *)
(* parent and fails if the parent has a node of that name; adding a node   *)
(* fails if the parent is missing or already has that name.                *)
(***************************************************************************)
EXTENDS FileTree

CONSTANT NameOrder  \* Names in the byte order strcmp gives their one-letter spellings

ASSUME NameOrder \in Seq(Names) /\ Range(NameOrder) = Names

VARIABLES
  image,  \* the IsoImage written by the save
  saved   \* ~FileSystem has run the save

saveVars == <<image, saved>>

Absent == [kind |-> "none", content |-> [src |-> "none", id |-> 0]]
DirEntry == [kind |-> "dir", content |-> [src |-> "none", id |-> 0]]
FileEntry(c) == [kind |-> "file", content |-> c]
Orig(i) == [src |-> "entry", id |-> i]
Buf(n) == [src |-> "buffer", id |-> n]

\* iso_image_import of the source image: every entry at its path.
Imported ==
  [q \in Paths |->
     IF \E i \in Entries : Archive[i].path = q
     THEN LET i == CHOOSE i \in Entries : Archive[i].path = q
          IN IF Archive[i].type = "dir" THEN DirEntry ELSE FileEntry(Orig(i))
     ELSE Absent]

-----------------------------------------------------------------------------
(* libisofs, as far as the save uses it.                                    *)

\* iso_node_remove: the node and everything below it leave the image.
IsoRemove(img, p) == [q \in Paths |-> IF IsPrefix(p, q) THEN Absent ELSE img[q]]

\* The parent iso_tree_path_to_node finds for p: the root or a directory.
ParentFound(img, p) == Len(p) = 1 \/ img[Front(p)].kind = "dir"

\* iso_tree_add_new_dir and iso_tree_add_new_file.
IsoAdd(img, p, e) ==
  IF ParentFound(img, p) /\ img[p].kind = "none" THEN [img EXCEPT ![p] = e] ELSE img

\* iso_node_set_name of the node at p: it keeps its parent and takes the
\* name x, with its subtree, unless a sibling is called x.
IsoSetName(img, p, x) ==
  LET np == Append(Front(p), x) IN
  IF img[np].kind # "none" THEN img
  ELSE [q \in Paths |->
          IF IsPrefix(np, q) THEN img[p \o SubSeq(q, Len(np) + 1, Len(q))]
          ELSE IF IsPrefix(p, q) THEN Absent
          ELSE img[q]]

-----------------------------------------------------------------------------
(* The save.                                                                *)

NameRank(x) == CHOOSE k \in DOMAIN NameOrder : NameOrder[k] = x
RECURSIVE PathLess(_, _)
PathLess(p, q) ==
  IF p = <<>> THEN q # <<>>
  ELSE IF q = <<>> THEN FALSE
  ELSE IF Head(p) = Head(q) THEN PathLess(Tail(p), Tail(q))
  ELSE NameRank(Head(p)) < NameRank(Head(q))

MapOrder == SetToSortSeq({q \in Paths : fmap[q] # NoNode}, PathLess)

\* A faulty tombstone lookup that cuts the last name off a nested pathname,
\* finding the parent directory.
TombPathParent(t) == IF Len(path[t]) > 1 THEN Front(path[t]) ELSE path[t]

\* The path a tombstone is looked up by: its pathname, the name it had
\* when it was removed.
TombPath(t) == path[t]

\* The tombstones are removed by path, each if the lookup finds a node.
RECURSIVE RemoveTombNodes(_, _)
RemoveTombNodes(img, tombs) ==
  IF tombs = {} THEN img
  ELSE LET t == CHOOSE t \in tombs : TRUE
       IN RemoveTombNodes(IF img[TombPath(t)].kind # "none" THEN IsoRemove(img, TombPath(t)) ELSE img,
                          tombs \ {t})

\* One node of the walk.  A renamed archived node is looked up by its
\* original_pathname and given its new name; if the lookup fails the node
\* is done.  A changed directory is added; a changed file replaces the
\* node at its pathname (removed first if the node has archive data) with
\* a file reading its buffer.
SaveNode(img, n) ==
  LET renamed == orig[n] # NULL /\ data[n] # NoEntry
      img1 == IF renamed THEN IsoSetName(img, orig[n], Last(path[n])) ELSE img
      img2 == IF data[n] # NoEntry THEN IsoRemove(img1, path[n]) ELSE img1
  IN IF ~changed[n] /\ orig[n] = NULL THEN img
     ELSE IF renamed /\ img[orig[n]].kind = "none" THEN img
     ELSE IF ~changed[n] THEN img1
     ELSE IF ntype[n] = "dir" THEN IsoAdd(img1, path[n], DirEntry)
     ELSE IsoAdd(img2, path[n], FileEntry(Buf(n)))

RECURSIVE SaveWalk(_, _)
SaveWalk(img, keys) ==
  IF keys = <<>> THEN img ELSE SaveWalk(SaveNode(img, fmap[Head(keys)]), Tail(keys))

\* ~FileSystem: a changed tree is saved; the image is written to a new
\* file that replaces the archive unless keep_original.  An unchanged tree
\* leaves the archive as it is.
Save ==
  /\ phase = "unmounted" /\ ~saved
  /\ saved' = TRUE
  /\ image' = IF fsChanged THEN SaveWalk(RemoveTombNodes(Imported, removed), MapOrder)
              ELSE Imported
  /\ UNCHANGED vars

IInit == Init /\ image = Imported /\ saved = FALSE

INext == (Next /\ UNCHANGED saveVars) \/ Save

ISpec == IInit /\ [][INext]_<<vars, saveVars>>

-----------------------------------------------------------------------------
(* Properties of the save.                                                  *)

\* An archived node the session neither changed nor renamed (nor moved with
\* a renamed directory) is in the written image at its pathname with its
\* source content: removing tombstones by path and replacing changed files
\* by path must never hit it.
IsoKeepsUntouched ==
  saved =>
    \A n \in Live :
      data[n] # NoEntry /\ ~changed[n] /\ orig[n] = NULL =>
        image[path[n]] = IF ntype[n] = "dir" THEN DirEntry ELSE FileEntry(Orig(data[n]))

\* No file removed in the session is in the written image, under any name
\* (spec, section 4.6 step 3: each tombstone's entry is deleted).
IsoTombsRemoved ==
  saved /\ fsChanged =>
    \A t \in removed : ntype[t] = "file" =>
      \A q \in Paths : image[q] # FileEntry(Orig(data[t]))

\* A renamed archived file, changed or not, is in the written image at its
\* new pathname (spec, section 4.6 step 4: the output entry is renamed from
\* original_path to full_path).
IsoRenamesApplied ==
  saved =>
    \A n \in Live :
      ntype[n] = "file" /\ data[n] # NoEntry /\ orig[n] # NULL =>
        image[path[n]] \in {FileEntry(Orig(data[n])), FileEntry(Buf(n))}

=============================================================================
