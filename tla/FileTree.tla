------------------------------ MODULE FileTree ------------------------------
(***************************************************************************)
(* The namespace of one mounted archive: class FileSystem                  *)
(* (src/src/filesystem.cpp) and the FileNode bookkeeping it drives         *)
(* (src/src/filenode.cpp), as the FUSE handlers of src/src/archivefs.cpp   *)
(* call it, with the per-entry open/read/close behaviour of the archive    *)
(* driver behind it (src/drivers/*.cpp).                                   *)
(*                                                                         *)
(* A FileNode is an element of Nodes; the root node is Root.  A path is a  *)
(* sequence of Names (the C string "a/b" is <<a, b>>).  file_map, the      *)
(* ordered map from path to node, is fmap.  Each host call is one atomic   *)
(* step: this module is the single-threaded semantics of the handlers;     *)
(* the interleavings of FUSE worker threads are in NodeOpenRace.          *)
(***************************************************************************)
EXTENDS Naturals, Sequences, FiniteSets, FiniteSetsExt, SequencesExt

CONSTANTS
  Names,     \* path components
  MaxDepth,  \* the longest in-archive path the model enumerates
  Nodes,     \* the FileNode objects that can ever be allocated: 1..N
  Archive,   \* the source archive: a sequence of [path |-> .., type |-> ..]
  Driver,    \* the backend: "zip", "tgz", "tar" or "iso"
  MaxOpen,   \* bound on the open handles the host keeps on one node
  MaxNlink,  \* bound on st_nlink, which renames of directories only increase
  TrashNames, \* the Names that begin with ".Trash"
  KeepTrash, \* the --keep-trash option
  Forms,     \* the forms a new Buffer can take: "mem" below MEM_LIMIT, "file" above
  Root,      \* the root FileNode (model value)
  NoNode,    \* a NULL FileNode* (model value)
  NULL       \* a NULL original_pathname (model value)

ASSUME Nodes \subseteq Nat /\ Root \notin Nodes /\ NoNode \notin Nodes
ASSUME Driver \in {"zip", "tgz", "tar", "iso"}
ASSUME MaxOpen \in Nat
ASSUME TrashNames \subseteq Names /\ KeepTrash \in BOOLEAN

Paths == UNION {[1..k -> Names] : k \in 1..MaxDepth}
Entries == 1..Len(Archive)
NoEntry == 0
ASSUME Forms # {} /\ Forms \subseteq {"mem", "file"}

VARIABLES
  phase,     \* "build" while the driver enumerates the archive, then "mounted"
  built,     \* archive entries enumerated so far
  status,    \* "free" (never allocated), "live", "tomb" (in removed_nodes), "deleted"
  ntype,     \* FileNode::type
  path,      \* FileNode::pathname
  fmap,      \* FileSystem::file_map
  parent,    \* FileNode::parent
  children,  \* FileNode::children
  nlink,     \* FileNode::file_info.st_nlink
  data,      \* FileNode::data: the archive entry the node was read from
  orig,      \* FileNode::original_pathname
  changed,   \* FileNode::changed
  fsChanged, \* FileSystem::changed
  refcnt,    \* FileNode::ref_cnt
  buf,       \* FileNode::buffer: "none", or the form of the Buffer
  drvOpen,   \* the driver holds the entry open (iso_file_source_open)
  removed,   \* FileSystem::removed_nodes
  rdH, wrH,  \* FileHandles the host holds, opened for reading / writing
  dirH,      \* FileHandles of opendir the host holds
  acked      \* a write through a handle of the node returned a byte count

vars == <<phase, built, status, ntype, path, fmap, parent, children, nlink,
          data, orig, changed, fsChanged, refcnt, buf, drvOpen, removed,
          rdH, wrH, dirH, acked>>

-----------------------------------------------------------------------------
(* Helpers translated from the code.                                        *)

\* ArchiveType::write_support of the backend's registration.
WriteSupport == Driver \in {"zip", "iso"}

ParentPath(p) == SubSeq(p, 1, Len(p) - 1)

\* FileSystem::find: a NULL path is the root, otherwise a map lookup.
Lookup(fm, p) == IF p = <<>> THEN Root ELSE fm[p]

Free == {n \in Nodes : status[n] = "free"}
Live == {n \in Nodes : status[n] = "live"}
IsDir(x) == IF x = Root THEN TRUE ELSE ntype[x] = "dir"

\* A faulty walk that stops at the node and leaves its children alone.
SubtreeShallow(ch, n) == {n}

\* The nodes FileSystem::remove walks: the node and, through children,
\* everything below it.
RECURSIVE Subtree(_, _)
Subtree(ch, n) == {n} \cup UNION {Subtree(ch, c) : c \in ch[n]}

\* The path FileSystem::repath gives a descendant m of a node renamed to p:
\* its parent's new path, "/", and its own name.
RECURSIVE NewPath(_, _, _)
NewPath(m, n, p) ==
  IF parent[m] = n THEN p \o <<Last(path[m])>>
  ELSE NewPath(parent[m], n, p) \o <<Last(path[m])>>

\* A faulty variant that overwrites original_pathname on every rename.
KeepOrigAlways(m) == IF data[m] # NoEntry THEN path[m] ELSE orig[m]

\* rename/repath keep the first name of a node that came from the archive.
KeepOrig(m) == IF data[m] # NoEntry /\ orig[m] = NULL THEN path[m] ELSE orig[m]

\* FileSystem::append of the freshly allocated nodes alloc (path -> node)
\* of the types given by types: insert each path into file_map, resolve its parent (one
\* of the new nodes, or a find()), set parent, and addChild, which counts a
\* directory child in the parent's st_nlink.  A new node starts with the
\* st_nlink of the FileNode constructor.
\* The st_nlink the FileNode constructor gives a node of type t.
NodeNlink(t) == IF t = "dir" THEN 2 ELSE 1
\* FileNode::addChild of new children (a function from each to its type)
\* to a directory: each directory child adds one to st_nlink.
AddChildNlink(kidTypes) == Cardinality({c \in DOMAIN kidTypes : kidTypes[c] = "dir"})
AllocParent(alloc, q) ==
  IF ParentPath(q) \in DOMAIN alloc THEN alloc[ParentPath(q)]
  ELSE Lookup(fmap, ParentPath(q))
Owner(alloc, n) == CHOOSE q \in DOMAIN alloc : alloc[q] = n
AppendNodes(alloc, types) ==
  LET new == Range(alloc)
      kids(x) == {alloc[q] : q \in {r \in DOMAIN alloc : AllocParent(alloc, r) = x}}
  IN /\ status' = [n \in Nodes |-> IF n \in new THEN "live" ELSE status[n]]
     /\ ntype' = [n \in Nodes |-> IF n \in new THEN types[Owner(alloc, n)] ELSE ntype[n]]
     /\ path' = [n \in Nodes |-> IF n \in new THEN Owner(alloc, n) ELSE path[n]]
     /\ parent' = [n \in Nodes |-> IF n \in new THEN AllocParent(alloc, Owner(alloc, n))
                                   ELSE parent[n]]
     /\ fmap' = [q \in Paths |-> IF q \in DOMAIN alloc THEN alloc[q] ELSE fmap[q]]
     /\ children' = [x \in DOMAIN children |-> children[x] \cup kids(x)]
     /\ nlink' = [x \in DOMAIN nlink |->
                    (IF x \in new THEN NodeNlink(types[Owner(alloc, x)]) ELSE nlink[x])
                    + AddChildNlink([c \in kids(x) |-> types[Owner(alloc, c)]])]

\* FileSystem::remove of the subtree dead: take() erases every key and
\* unlinks every node from its parent's children (st_nlink is left as it
\* is); a node with archive data goes to removed_nodes, the rest are deleted.
RemoveMap(fm, dead) == [q \in Paths |-> IF \E m \in dead : path[m] = q THEN NoNode ELSE fm[q]]
RemoveChildren(ch, dead) == [x \in DOMAIN ch |-> ch[x] \ dead]
RemoveStatus(dead) ==
  [m \in Nodes |-> IF m \notin dead THEN status[m]
                   ELSE IF data[m] # NoEntry THEN "tomb" ELSE "deleted"]
RemoveTombs(dead) == removed \cup {m \in dead : data[m] # NoEntry}

\* ZipDriver::open: a new node->buffer of the entry's size (form is the
\* form Buffer(size) takes), filled by zip_fread.
ZipOpen(b, form) == form
\* TarDriver::open: with compression, a new node->buffer filled by the
\* gzip read function; a plain tar reads the archive file directly.
TarOpen(b, form) == IF Driver = "tgz" THEN form ELSE b
\* IsoDriver::open: iso_file_source_open (ISO_FILE_ALREADY_OPENED is success).
IsoOpen(o) == TRUE

\* ArchiveDriver::open of an entry, dispatched on the backend.
DriverOpenBuf(b, form) ==
  CASE Driver = "zip" -> ZipOpen(b, form)
    [] Driver \in {"tar", "tgz"} -> TarOpen(b, form)
    [] OTHER -> b
DriverOpenSrc(o) == IF Driver = "iso" THEN IsoOpen(o) ELSE o

\* ZipDriver::close: node->buffer->release() drops a memory buffer, which
\* sets node->buffer to NULL; a file buffer stays.
ZipClose(b) == IF b = "mem" THEN "none" ELSE b
\* TarDriver::close: the same release, with compression only.
TarClose(b) == IF Driver = "tgz" THEN ZipClose(b) ELSE b
\* IsoDriver::close: iso_file_source_close.
IsoClose(o) == FALSE

\* A faulty close that drops a memory buffer whatever the backend.
DriverCloseBufAll(b) == IF b = "mem" THEN "none" ELSE b

\* ArchiveDriver::close, dispatched on the backend.
DriverCloseBuf(b) ==
  CASE Driver = "zip" -> ZipClose(b)
    [] Driver \in {"tar", "tgz"} -> TarClose(b)
    [] OTHER -> b
DriverCloseSrc(o) == IF Driver = "iso" THEN IsoClose(o) ELSE o
\* FileSystem::fillInBuffer: driver->open, read the entry into node->buffer
\* through driver->read, driver->close.
FillBuf(b, form) == DriverCloseBuf(DriverOpenBuf(b, form))
FillSrc(o) == DriverCloseSrc(DriverOpenSrc(o))

-----------------------------------------------------------------------------
Init ==
  /\ phase = "build"
  /\ built = 0
  /\ status = [n \in Nodes |-> "free"]
  /\ ntype = [n \in Nodes |-> "file"]
  /\ path = [n \in Nodes |-> <<>>]
  /\ fmap = [q \in Paths |-> NoNode]
  /\ parent = [n \in Nodes |-> NoNode]
  /\ children = [x \in Nodes \cup {Root} |-> {}]
  /\ nlink = [x \in Nodes \cup {Root} |-> 2]
  /\ data = [n \in Nodes |-> NoEntry]
  /\ orig = [n \in Nodes |-> NULL]
  /\ changed = [n \in Nodes |-> FALSE]
  /\ fsChanged = FALSE
  /\ refcnt = [n \in Nodes |-> 0]
  /\ buf = [n \in Nodes |-> "none"]
  /\ drvOpen = [n \in Nodes |-> FALSE]
  /\ removed = {}
  /\ rdH = [n \in Nodes |-> 0]
  /\ wrH = [n \in Nodes |-> 0]
  /\ dirH = [n \in Nodes |-> 0]
  /\ acked = [n \in Nodes |-> FALSE]

\* The order in which IsoDriver::buildFileSystem hands the entries of an
\* image (a set of [path, type] records) to find and append: buildDir of
\* the directory d reads its children; a child directory not yet in the
\* tree is built (its subtree appended, which creates it as an implicit
\* directory) before the child itself is appended, which then finds it
\* and gives it its data.
RECURSIVE IsoBuildDir(_, _)
IsoBuildDir(img, d) ==
  LET kids == {e \in img : Len(e.path) = Len(d) + 1 /\ IsPrefix(d, e.path)}
      visit(e) == (IF e.type = "dir" THEN IsoBuildDir(img, e.path) ELSE <<>>) \o <<e>>
  IN FoldSet(LAMBDA e, acc : acc \o visit(e), <<>>, kids)

(***************************************************************************)
(* One iteration of the driver's buildFileSystem loop: an entry whose path *)
(* is already a node gives that node its locator; otherwise a new node is *)
(* appended, and append creates every missing ancestor as a plain          *)
(* directory without archive data.                                         *)
(***************************************************************************)
BuildEntry ==
  /\ phase = "build"
  /\ built < Len(Archive)
  /\ LET i == built + 1
         pe == Archive[i].path
     IN IF fmap[pe] # NoNode
        THEN /\ data' = [data EXCEPT ![fmap[pe]] = i]
             /\ built' = i
             /\ UNCHANGED <<status, ntype, path, fmap, parent, children, nlink>>
        ELSE LET missing == {SubSeq(pe, 1, k) : k \in
                               {k \in 1..(Len(pe) - 1) : fmap[SubSeq(pe, 1, k)] = NoNode}}
                 new == {pe} \cup missing
                 fresh == SetToSortSeq(Free, <)
                 alloc == [q \in new |-> fresh[1 + Len(pe) - Len(q)]]
                 typeOf(q) == IF q = pe THEN Archive[i].type ELSE "dir"
             IN /\ Cardinality(Free) >= Cardinality(new)
                /\ AppendNodes(alloc, [q \in new |-> typeOf(q)])
                /\ data' = [data EXCEPT ![alloc[pe]] = i]
                /\ built' = i
  /\ phase' = IF built' = Len(Archive) THEN "mounted" ELSE "build"
  /\ UNCHANGED <<orig, changed, fsChanged, refcnt, buf, drvOpen, removed, rdH, wrH, dirH, acked>>

-----------------------------------------------------------------------------
(* The FUSE handlers of a mounted archive (archivefs.cpp) and the          *)
(* FileSystem methods they call.  Access checks that fail return EACCES    *)
-----------------------------------------------------------------------------
(* The FileSystem methods that change the tree.  Each is one atomic step   *)
(* of the handler that calls it; the Fs prefix keeps them apart from the   *)
(* handlers of the same name below.                                        *)

\* FileSystem::create marks the node open: ref_cnt = 1.
CreatedRefCntZero == 0
CreatedRefCnt == 1

\* FileSystem::mknod: a FILE node with an empty Buffer, changed, appended
\* at p; the tree is changed.  Buffer() takes the memory form unless
\* MEM_LIMIT is 0.
FsMknod(p) ==
  /\ WriteSupport /\ Free # {}
  /\ \E form \in Forms :
       LET n == Min(Free) IN
       /\ AppendNodes([q \in {p} |-> n], [q \in {p} |-> "file"])
       /\ buf' = [buf EXCEPT ![n] = form]
       /\ changed' = [changed EXCEPT ![n] = TRUE]
  /\ fsChanged' = TRUE
  /\ UNCHANGED <<phase, built, data, orig, removed, drvOpen, refcnt>>

\* FileSystem::create: as mknod, and the node is born open.
FsCreate(p) ==
  /\ WriteSupport /\ Free # {}
  /\ \E form \in Forms :
       LET n == Min(Free) IN
       /\ AppendNodes([q \in {p} |-> n], [q \in {p} |-> "file"])
       /\ buf' = [buf EXCEPT ![n] = form]
       /\ changed' = [changed EXCEPT ![n] = TRUE]
       /\ refcnt' = [refcnt EXCEPT ![n] = CreatedRefCnt]
  /\ fsChanged' = TRUE
  /\ UNCHANGED <<phase, built, data, orig, removed, drvOpen>>

\* FileSystem::mkdir: a changed DIR node appended at p.
FsMkdir(p) ==
  /\ WriteSupport /\ Free # {}
  /\ LET n == Min(Free) IN
       /\ AppendNodes([q \in {p} |-> n], [q \in {p} |-> "dir"])
       /\ changed' = [changed EXCEPT ![n] = TRUE]
  /\ fsChanged' = TRUE
  /\ UNCHANGED <<phase, built, data, orig, removed, drvOpen, refcnt, buf>>

\* FileSystem::remove of n: its children first, recursively, then take(),
\* then removed_nodes or delete, and "changed = true".
FsRemove(n) ==
  LET dead == Subtree(children, n) IN
  /\ WriteSupport
  /\ fmap' = RemoveMap(fmap, dead)
  /\ children' = RemoveChildren(children, dead)
  /\ status' = RemoveStatus(dead)
  /\ removed' = RemoveTombs(dead)
  /\ fsChanged' = TRUE
  /\ UNCHANGED <<phase, built, ntype, path, parent, nlink, data, orig, changed,
                 refcnt, buf, drvOpen>>

\* A faulty repath that moves only the renamed node itself.
MovedShallow(n, p) == [m \in Nodes |-> IF m = n THEN p ELSE path[m]]

\* The paths FileSystem::rename and repath give the node n renamed to p and
\* every node below it.
Moved(n, p) ==
  LET desc == Subtree(children, n) \ {n}
  IN [m \in Nodes |-> IF m = n THEN p
                      ELSE IF m \in desc THEN NewPath(m, n, p) ELSE path[m]]

\* FileSystem::rename of n to p: take the node, remove the node at p with
\* everything below it, keep original_pathname, append the node under p,
\* repath its descendants, and mark the tree changed.  take() leaves the
\* old parent's st_nlink as it is.
FsRename(n, p) ==
  LET t == fmap[p]
      dead == IF t = NoNode THEN {} ELSE Subtree(children, t)
      moved == Subtree(children, n)
      np == Moved(n, p)
      dst == Lookup(fmap, ParentPath(p))
  IN /\ WriteSupport
     /\ \A m \in moved : Len(np[m]) <= MaxDepth
     /\ ntype[n] = "dir" => nlink[dst] < MaxNlink
     /\ path' = np
     /\ orig' = [m \in Nodes |-> IF m \in moved THEN KeepOrig(m) ELSE orig[m]]
     /\ fmap' = [q \in Paths |->
                   IF \E m \in moved : np[m] = q THEN CHOOSE m \in moved : np[m] = q
                   ELSE IF \E m \in moved \cup dead : path[m] = q THEN NoNode
                   ELSE fmap[q]]
     /\ parent' = [parent EXCEPT ![n] = dst]
     /\ children' = [x \in DOMAIN children |->
                       (children[x] \ ({n} \cup dead)) \cup (IF x = dst THEN {n} ELSE {})]
     /\ nlink' = [nlink EXCEPT ![dst] = @ + (IF ntype[n] = "dir" THEN 1 ELSE 0)]
     /\ status' = RemoveStatus(dead)
     /\ removed' = RemoveTombs(dead)
     /\ fsChanged' = TRUE
     /\ UNCHANGED <<phase, built, ntype, data, changed, refcnt, buf, drvOpen>>

\* A faulty first-open test that compares ref_cnt before incrementing it.
FirstOpenAfterIncrement(n) == refcnt[n] = 1 /\ buf[n] = "none"

\* The open that makes ref_cnt 1 on a node without a buffer.
FirstOpen(n) == refcnt[n] = 0 /\ buf[n] = "none"

\* FileSystem::open: increment ref_cnt; on the first open of a node
\* without a buffer the driver opens the entry; a write open returns
\* ENOTSUP on a backend without write support, and otherwise gets a
\* Buffer sized to the file, filled by fillInBuffer, if it has none yet.
FsOpen(n, w) ==
  /\ \E form \in Forms :
       LET b1 == IF FirstOpen(n) THEN DriverOpenBuf(buf[n], form) ELSE buf[n]
           o1 == IF FirstOpen(n) THEN DriverOpenSrc(drvOpen[n]) ELSE drvOpen[n]
           fill == w /\ WriteSupport /\ b1 = "none"
       IN /\ buf' = [buf EXCEPT ![n] = IF fill THEN FillBuf(form, form) ELSE b1]
          /\ drvOpen' = [drvOpen EXCEPT ![n] = IF fill THEN FillSrc(o1) ELSE o1]
  /\ refcnt' = [refcnt EXCEPT ![n] = @ + 1]

\* FileSystem::close: decrement ref_cnt; a changed node keeps its buffer,
\* an unchanged one is closed by the driver when its last reference goes.
FsClose(n) ==
  /\ refcnt' = [refcnt EXCEPT ![n] = @ - 1]
  /\ IF ~changed[n] /\ refcnt'[n] = 0
     THEN /\ buf' = [buf EXCEPT ![n] = DriverCloseBuf(@)]
          /\ drvOpen' = [drvOpen EXCEPT ![n] = DriverCloseSrc(@)]
     ELSE UNCHANGED <<buf, drvOpen>>

\* FileSystem::write: without a buffer it returns EBADF (a positive code);
\* otherwise Buffer::write, which moves a memory buffer past MEM_LIMIT to
\* a file buffer, and the node and the tree are changed.
FsWrite(n) ==
  IF buf[n] = "none"
  THEN UNCHANGED <<buf, changed, fsChanged>>
  ELSE /\ buf' \in {[buf EXCEPT ![n] = f] : f \in {buf[n]} \cup (Forms \cap {"file"})}
       /\ changed' = [changed EXCEPT ![n] = TRUE]
       /\ fsChanged' = TRUE

\* FileSystem::truncate to an empty (grow = FALSE) or a non-empty size: a
\* node without a buffer gets a new Buffer(size), filled by fillInBuffer
\* when the size is not zero; an existing buffer is truncated in its form.
\* The node and the tree are changed.
FsTruncate(n, grow) ==
  /\ WriteSupport
  /\ IF buf[n] = "none"
     THEN \E form \in Forms :
            /\ buf' = [buf EXCEPT ![n] = IF grow THEN FillBuf(form, form) ELSE form]
            /\ drvOpen' = [drvOpen EXCEPT ![n] = IF grow THEN FillSrc(@) ELSE @]
     ELSE UNCHANGED <<buf, drvOpen>>
  /\ changed' = [changed EXCEPT ![n] = TRUE]
  /\ fsChanged' = TRUE

-----------------------------------------------------------------------------
(* The FUSE handlers of archivefs.cpp for a path inside the mounted        *)
(* archive.  An access check that fails returns EACCES before anything     *)
(* changes and is not a step.  The kernel's own checks (the parent exists  *)
(* and is a directory; the name is new for mknod, create and mkdir) are    *)
(* guards.                                                                  *)

Mounted == phase = "mounted"

\* The path names a free slot in an existing directory.
CanAdd(p) ==
  /\ fmap[p] = NoNode
  /\ Lookup(fmap, ParentPath(p)) # NoNode
  /\ IsDir(Lookup(fmap, ParentPath(p)))

LiveFile(n) == status[n] = "live" /\ ntype[n] = "file"

HostUnchanged == UNCHANGED <<rdH, wrH, dirH, acked>>

\* archivefs_mknod: parentAccess, then fs->mknod.
Mknod(p) == Mounted /\ CanAdd(p) /\ FsMknod(p) /\ HostUnchanged

\* archivefs_create: parentAccess, fs->create, and a FileHandle for the
\* caller's access mode.
Create(p) ==
  /\ Mounted /\ CanAdd(p) /\ MaxOpen > 0
  /\ FsCreate(p)
  /\ \E w \in BOOLEAN :
       LET n == Min(Free) IN
       /\ rdH' = [rdH EXCEPT ![n] = IF w THEN 0 ELSE 1]
       /\ wrH' = [wrH EXCEPT ![n] = IF w THEN 1 ELSE 0]
  /\ UNCHANGED <<dirH, acked>>

\* archivefs_mkdir for a path inside an archive: parentAccess, fs->mkdir.
Mkdir(p) == Mounted /\ CanAdd(p) /\ FsMkdir(p) /\ HostUnchanged

\* archivefs_unlink -> fs->remove.  libfuse renames a file that is still
\* open to a hidden name instead, so the call comes only for a file
\* without open handles.
Unlink(n) ==
  /\ Mounted /\ LiveFile(n) /\ rdH[n] + wrH[n] = 0
  /\ FsRemove(n) /\ HostUnchanged

\* archivefs_rmdir of a directory inside the archive -> fs->remove:
\* neither the kernel nor the handler checks that it is empty.
Rmdir(n) ==
  /\ Mounted /\ status[n] = "live" /\ ntype[n] = "dir"
  /\ FsRemove(n) /\ HostUnchanged

\* archivefs_rename of a node inside the archive -> fs->rename.  The kernel
\* refuses a move into the node's own subtree (EINVAL), onto one of its
\* ancestors (ENOTEMPTY) and between a file and a directory
\* (EISDIR/ENOTDIR); libfuse hides a target that is still open.
Rename(n, p) ==
  /\ Mounted /\ status[n] = "live"
  /\ ~IsPrefix(path[n], p) /\ ~IsPrefix(p, path[n])
  /\ Lookup(fmap, ParentPath(p)) # NoNode
  /\ IsDir(Lookup(fmap, ParentPath(p)))
  /\ fmap[p] # NoNode => /\ ntype[fmap[p]] = ntype[n]
                         /\ rdH[fmap[p]] + wrH[fmap[p]] = 0
  /\ FsRename(n, p) /\ HostUnchanged

\* archivefs_open of a file: fs->open, whose positive codes (ENOTSUP,
\* ENOMEM) pass the "< 0" test, and a new FileHandle.
Open(n, w) ==
  /\ Mounted /\ LiveFile(n) /\ rdH[n] + wrH[n] < MaxOpen
  /\ FsOpen(n, w)
  /\ rdH' = IF w THEN rdH ELSE [rdH EXCEPT ![n] = @ + 1]
  /\ wrH' = IF w THEN [wrH EXCEPT ![n] = @ + 1] ELSE wrH
  /\ UNCHANGED <<phase, built, status, ntype, path, fmap, parent, children, nlink,
                 data, orig, changed, fsChanged, removed, dirH, acked>>

\* archivefs_release: fs->close, then the FileHandle is deleted.
Release(n, w) ==
  /\ IF w THEN wrH[n] > 0 ELSE rdH[n] > 0
  /\ FsClose(n)
  /\ rdH' = IF w THEN rdH ELSE [rdH EXCEPT ![n] = @ - 1]
  /\ wrH' = IF w THEN [wrH EXCEPT ![n] = @ - 1] ELSE wrH
  /\ UNCHANGED <<phase, built, status, ntype, path, fmap, parent, children, nlink,
                 data, orig, changed, fsChanged, removed, dirH, acked>>

\* archivefs_write through a handle opened for writing: fs->write, whose
\* result goes to the host as it is, so EBADF reads as 9 bytes written.
Write(n) ==
  /\ wrH[n] > 0
  /\ FsWrite(n)
  /\ acked' = [acked EXCEPT ![n] = TRUE]
  /\ UNCHANGED <<phase, built, status, ntype, path, fmap, parent, children, nlink,
                 data, orig, refcnt, drvOpen, removed, rdH, wrH, dirH>>

\* archivefs_truncate of a file inside the archive: access, fs->truncate.
Truncate(n, grow) ==
  /\ Mounted /\ LiveFile(n)
  /\ FsTruncate(n, grow)
  /\ UNCHANGED <<phase, built, status, ntype, path, fmap, parent, children, nlink,
                 data, orig, refcnt, removed, rdH, wrH, dirH, acked>>

\* archivefs_opendir of a directory inside the archive: getFile, an access
\* check, and a new FileHandle (fs, node) for readdir.
Opendir(n) ==
  /\ Mounted /\ status[n] = "live" /\ ntype[n] = "dir" /\ dirH[n] < MaxOpen
  /\ dirH' = [dirH EXCEPT ![n] = @ + 1]
  /\ UNCHANGED <<phase, built, status, ntype, path, fmap, parent, children, nlink,
                 data, orig, changed, fsChanged, refcnt, buf, drvOpen, removed,
                 rdH, wrH, acked>>

\* archivefs_releasedir of an archive mount: the FileHandle is deleted.
Releasedir(n) ==
  /\ dirH[n] > 0
  /\ dirH' = [dirH EXCEPT ![n] = @ - 1]
  /\ UNCHANGED <<phase, built, status, ntype, path, fmap, parent, children, nlink,
                 data, orig, changed, fsChanged, refcnt, buf, drvOpen, removed,
                 rdH, wrH, acked>>

\* FileSystem::removeTrash: every child of the root whose name begins with
\* ".Trash" is removed as remove() does, with its subtree.
TrashDead ==
  UNION {Subtree(children, c) : c \in {c \in children[Root] : Last(path[c]) \in TrashNames}}

\* archivefs_destroy -> ~FileSystem once the host has released every
\* handle (umount refuses a busy mount): a changed tree first loses its
\* trash directories unless keep_trash, then is handed to the driver's
\* saveArchive, then the driver and every node are deleted.  What
\* saveArchive writes is the subject of the driver save modules.
Unmount ==
  /\ Mounted
  /\ \A n \in Nodes : rdH[n] + wrH[n] + dirH[n] = 0
  /\ phase' = "unmounted"
  /\ IF fsChanged /\ ~KeepTrash /\ WriteSupport
     THEN /\ fmap' = RemoveMap(fmap, TrashDead)
          /\ children' = RemoveChildren(children, TrashDead)
          /\ status' = RemoveStatus(TrashDead)
          /\ removed' = RemoveTombs(TrashDead)
     ELSE UNCHANGED <<fmap, children, status, removed>>
  /\ UNCHANGED <<built, ntype, path, parent, nlink, data, orig, changed, fsChanged,
                 refcnt, buf, drvOpen, rdH, wrH, dirH, acked>>

\* The process has exited: nothing happens any more.
Exited == phase = "unmounted" /\ UNCHANGED vars

Next ==
  \/ BuildEntry
  \/ Unmount
  \/ Exited
  \/ \E p \in Paths : Mknod(p) \/ Create(p) \/ Mkdir(p)
  \/ \E n \in Nodes : Unlink(n) \/ Rmdir(n) \/ Write(n) \/ Opendir(n) \/ Releasedir(n)
  \/ \E n \in Nodes, p \in Paths : Rename(n, p)
  \/ \E n \in Nodes, w \in BOOLEAN : Open(n, w) \/ Release(n, w) \/ Truncate(n, w)

Spec == Init /\ [][Next]_vars

TypeOK ==
  /\ phase \in {"build", "mounted", "unmounted"}
  /\ built \in 0..Len(Archive)
  /\ status \in [Nodes -> {"free", "live", "tomb", "deleted"}]
  /\ ntype \in [Nodes -> {"file", "dir"}]
  /\ path \in [Nodes -> Paths \cup {<<>>}]
  /\ fmap \in [Paths -> Nodes \cup {NoNode}]
  /\ parent \in [Nodes -> Nodes \cup {Root, NoNode}]
  /\ children \in [Nodes \cup {Root} -> SUBSET Nodes]
  /\ nlink \in [Nodes \cup {Root} -> Nat]
  /\ data \in [Nodes -> Entries \cup {NoEntry}]
  /\ orig \in [Nodes -> Paths \cup {NULL}]
  /\ changed \in [Nodes -> BOOLEAN]
  /\ fsChanged \in BOOLEAN
  /\ refcnt \in [Nodes -> Nat]
  /\ buf \in [Nodes -> {"mem", "file", "none"}]
  /\ drvOpen \in [Nodes -> BOOLEAN]
  /\ removed \subseteq Nodes
  /\ rdH \in [Nodes -> 0..MaxOpen] /\ wrH \in [Nodes -> 0..MaxOpen]
  /\ dirH \in [Nodes -> 0..MaxOpen]
  /\ acked \in [Nodes -> BOOLEAN]

(* file_map, pathname, parent and children describe one tree after any     *)
(* sequence of appends, removes, renames and repaths: a key maps to a live *)
(* node with that pathname, every live node is found under its pathname,   *)
(* its parent is the directory found under the parent path and lists it    *)
(* among its children, and only live nodes are listed as children.         *)
TreeConsistent ==
  /\ \A q \in Paths : fmap[q] # NoNode =>
        status[fmap[q]] = "live" /\ path[fmap[q]] = q
  /\ \A n \in Live :
        /\ fmap[path[n]] = n
        /\ parent[n] = Lookup(fmap, ParentPath(path[n]))
        /\ IsDir(parent[n])
        /\ n \in children[parent[n]]
  /\ \A x \in Live \cup {Root} : \A c \in children[x] : c \in Live /\ parent[c] = x

(* Every entry of the source archive is accounted for exactly once, by a   *)
(* node of the tree or by a tombstone in removed_nodes, and a live node    *)
(* still knows the name the entry has in the archive: original_pathname    *)
(* once rename or repath moved it, its pathname otherwise.  The save walk  *)
(* of every driver relies on both.                                          *)
EntriesAccounted ==
  phase # "build" =>
    \A i \in Entries :
      /\ Cardinality({n \in Nodes : data[n] = i /\ status[n] \in {"live", "tomb"}}) = 1
      /\ \A n \in Live : data[n] = i =>
            Archive[i].path = IF orig[n] = NULL THEN path[n] ELSE orig[n]
      /\ \A n \in Nodes : data[n] = i /\ status[n] = "tomb" => n \in removed

(* A file node that is changed holds a buffer: its content exists only    *)
(* there until the driver's saveArchive reads it (the spec's dirty(buf)    *)
(* state).  Truncate and the fill through driver open/close must not drop  *)
(* it.                                                                      *)
ChangedHasBuffer ==
  \A n \in Live : ntype[n] = "file" /\ changed[n] => buf[n] # "none"

(* A file the host holds open and that has no buffer is read through       *)
(* driver->read, which needs the entry open at the driver: an uncompressed *)
(* tar reads the container directly, an iso needs its file source open,    *)
(* and zip and compressed tar read node->buffer, so they must never be in  *)
(* this state.                                                              *)
ReadPathReady ==
  \A n \in Live :
    rdH[n] + wrH[n] > 0 /\ buf[n] = "none" =>
      \/ Driver = "tar"
      \/ Driver = "iso" /\ drvOpen[n]

(* A write through a handle that reported bytes written to the host has    *)
(* reached the node's buffer: the node is changed and will be saved.        *)
AckedWritesKept ==
  \A n \in Nodes : acked[n] => changed[n]

(* st_nlink of every directory is 2 plus the number of its subdirectories *)
(* (spec, NodeTree invariants), after removes and renames as well.         *)
NlinkCount ==
  \A d \in {x \in Live \cup {Root} : IsDir(x)} :
    nlink[d] = 2 + Cardinality({c \in children[d] : ntype[c] = "dir"})

(* No FileHandle the host holds points to a FileNode that remove has       *)
(* deleted: release would call close, and readdir readDir, on freed memory. *)
NoDanglingHandle ==
  \A n \in Nodes : rdH[n] + wrH[n] + dirH[n] > 0 => status[n] # "deleted"

(* The names the mount shows: getFile finds a path through file_map, and   *)
(* getattr reports the type of the node it finds.                           *)
NsView == [q \in Paths |-> IF fmap[q] = NoNode THEN "none" ELSE ntype[fmap[q]]]

NS == INSTANCE Namespace WITH ns <- NsView

(* Every step of the tree, build, the handlers and unmount alike, changes  *)
(* the names it shows only as Namespace allows: append adds a path and its  *)
(* implicit directories, remove takes a whole subtree, rename with repath   *)
(* moves a whole subtree and drops the one it replaces, and opens, writes  *)
(* and truncates leave the names alone.                                     *)
NamespaceRefined == NS!NSpec

=============================================================================
