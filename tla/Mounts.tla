------------------------------- MODULE Mounts -------------------------------
(***************************************************************************)
(* The mount map of folder mode: FileSystemS (archivefs.hpp), the map      *)
(* from the host path of an archive to its FileSystem, and the handlers of *)
(* archivefs.cpp that add to it, look in it and take from it.              *)
(*                                                                         *)
(* initialize makes a FileSystem for every archive in the mounted folder;  *)
(* getFile makes one lazily for an archive that appeared later.  mkdir of  *)
(* a name with a known extension creates an archive, rename and rmdir of   *)
(* an archive's root move or remove the whole archive, open hands the host *)
(* a FileHandle (a FileSystem and a FileNode pointer), and destroy     *)
(* deletes every FileSystem of the map, which saves its changes.         *)
(*                                                                         *)
(* Each handler is one step: libfuse runs rename and rmdir under its tree  *)
(* lock for writing and the other path operations under it for reading,   *)
(* and the kernel serialises lookups of one name, so no two handlers that  *)
(* change the map interleave.  An archive is a name from Names; the tree   *)
(* inside it is abstracted to whether it changed (FileTree models it).     *)
(***************************************************************************)
EXTENDS Naturals, FiniteSets

CONSTANTS
  Names,      \* archive file names in the mounted folder
  TypeOf,     \* [Names -> BOOLEAN]: GET_TYPE and TYPE_BY_EXT find a driver
  MaxFs,      \* bound on FileSystem objects made in one mount
  MaxOpen     \* bound on FileHandles the host holds per FileSystem

FsIds == 1..MaxFs
NoFs == 0
NoName == "none"   \* no file written

VARIABLES
  phase,     \* "init" before initialize, "serve", "destroyed" after destroy
  disk,      \* the names present as files in the mounted folder
  fsmap,     \* FileSystemS::map: [Names -> FsIds \cup {NoFs}]
  fsobj,     \* the FileSystem objects: state, archive_name, the driver's
             \* archive_path, changed, the file its destructor wrote
  nfs,       \* FileSystem objects made so far
  handles,   \* [FsIds -> 0..MaxOpen]: FileHandles the host holds
  orphan,    \* FileSystems whose root libfuse unhashed (rmdir, rename over)
  crashed    \* "none", or the undefined behaviour that ended the daemon

vars == <<phase, disk, fsmap, fsobj, nfs, handles, orphan, crashed>>

\* FileSystemS::insert: map[fs->archive_name] = fs, which overwrites.
Insert(map, k, f) == [map EXCEPT ![k] = f]

\* FileSystemS::erase: map.erase(map.find(key)).
Erase(map, k) == [map EXCEPT ![k] = NoFs]

\* new FileSystem(fpath): archive_name and the driver's archive_path are
\* both the path it was made for (zip_open, iso_read_image).
NewFs(n) == [st |-> "live", name |-> n, path |-> n, changed |-> FALSE,
             savedTo |-> NoName]

\* The file ~FileSystem writes: saveArchive and zip_close (or the ISO
\* ofstream) write to the driver's archive_path, only when changed.
SaveTarget(o) == IF o.changed THEN {o.path} ELSE {}

\* ~FileSystem: saveArchive when changed; the object is gone afterwards.
Deleted(o) == [o EXCEPT !.st = "deleted",
                        !.savedTo = IF o.changed THEN o.path ELSE NoName]

\* getFile(fpath): parsePathName stats the archive file, find looks it up,
\* and a miss makes new FileSystem(fpath) and inserts it.  Its result is
\* the FileSystem and the map and objects after the call.
GetFileOk(n) ==
  /\ n \in disk
  /\ fsmap[n] = NoFs => TypeOf[n] /\ nfs < MaxFs

GetFile(n) ==
  IF fsmap[n] # NoFs
  THEN [fs |-> fsmap[n], map |-> fsmap, obj |-> fsobj, n |-> nfs]
  ELSE [fs |-> nfs + 1, map |-> Insert(fsmap, n, nfs + 1),
        obj |-> [fsobj EXCEPT ![nfs + 1] = NewFs(n)], n |-> nfs + 1]

\* A rename that leaves archive_name at the old path.
RenamedKeep(o, m) == o

\* free(fs->archive_name); fs->archive_name = strdup(new path).
Renamed(o, m) == [o EXCEPT !.name = m]

Serving == phase = "serve" /\ crashed = "none"

Init ==
  /\ phase = "init"
  /\ disk \in SUBSET Names
  /\ fsmap = [n \in Names |-> NoFs]
  /\ fsobj = [f \in FsIds |-> [NewFs(CHOOSE n \in Names : TRUE) EXCEPT !.st = "free"]]
  /\ nfs = 0
  /\ handles = [f \in FsIds |-> 0]
  /\ orphan = {}
  /\ crashed = "none"

\* initialize, folder mode: every file of the folder GET_TYPE knows gets a
\* FileSystem, inserted in readdir order.
Initialize ==
  /\ phase = "init"
  /\ LET S == {n \in disk : TypeOf[n]}
     IN \E id \in [S -> 1..Cardinality(S)] :
          /\ \A x, y \in S : x # y => id[x] # id[y]
          /\ Cardinality(S) <= MaxFs
          /\ fsmap' = [n \in Names |-> IF n \in S THEN id[n] ELSE NoFs]
          /\ fsobj' = [f \in FsIds |->
                         IF \E n \in S : id[n] = f
                         THEN NewFs(CHOOSE n \in S : id[n] = f) ELSE fsobj[f]]
          /\ nfs' = Cardinality(S)
  /\ phase' = "serve"
  /\ UNCHANGED <<disk, handles, orphan, crashed>>

\* archivefs_open of a file inside archive n: getFile, fs->open, and a new
\* FileHandle for the host.
Open(n) ==
  /\ Serving
  /\ GetFileOk(n)
  /\ LET g == GetFile(n) IN
       /\ handles[g.fs] < MaxOpen
       /\ handles' = [handles EXCEPT ![g.fs] = @ + 1]
       /\ fsmap' = g.map /\ fsobj' = g.obj /\ nfs' = g.n
  /\ UNCHANGED <<phase, disk, orphan, crashed>>

\* A handler that changes the tree inside archive n through getFile
\* (mknod, mkdir, unlink, truncate, rename inside it): changed = true.
Edit(n) ==
  /\ Serving
  /\ GetFileOk(n)
  /\ LET g == GetFile(n) IN
       /\ fsobj' = [g.obj EXCEPT ![g.fs].changed = TRUE]
       /\ fsmap' = g.map /\ nfs' = g.n
  /\ UNCHANGED <<phase, disk, handles, orphan, crashed>>

\* archivefs_write through a FileHandle.  libfuse finds no path for a node
\* whose archive root it unhashed and answers ENOENT itself.
Write(f) ==
  /\ Serving
  /\ handles[f] > 0
  /\ f \notin orphan
  /\ fsobj' = [fsobj EXCEPT ![f].changed = TRUE]
  /\ UNCHANGED <<phase, disk, fsmap, nfs, handles, orphan, crashed>>

\* archivefs_release: fh->first->close(fh->second), then delete fh.
\* libfuse calls it even for an unhashed node (with the path "-").
Release(f) ==
  /\ Serving
  /\ handles[f] > 0
  /\ IF fsobj[f].st = "deleted"
     THEN crashed' = "use_after_free" /\ UNCHANGED handles
     ELSE handles' = [handles EXCEPT ![f] = @ - 1] /\ UNCHANGED crashed
  /\ UNCHANGED <<phase, disk, fsmap, fsobj, nfs, orphan>>

\* archivefs_rmdir of an archive root: erase(fs->archive_name), delete fs
\* (its save), unlink the file.  Nobody checks that the archive is empty.
Rmdir(n) ==
  /\ Serving
  /\ GetFileOk(n)
  /\ LET g == GetFile(n) IN
       /\ fsmap' = Erase(g.map, g.obj[g.fs].name)
       /\ fsobj' = [g.obj EXCEPT ![g.fs] = Deleted(@)]
       /\ nfs' = g.n
       /\ orphan' = orphan \cup {g.fs}
       /\ disk' = (disk \cup SaveTarget(g.obj[g.fs])) \ {n}
  /\ UNCHANGED <<phase, handles, crashed>>

\* archivefs_rename of an archive root n to m: the kernel's lookup of m
\* (getFile through getattr, when m is a file), rename(2), erase(old path),
\* archive_name = strdup(new path), insert, which overwrites map[m].
Rename(n, m) ==
  /\ Serving
  /\ n # m
  /\ GetFileOk(n)
  /\ m \in disk => GetFileOk(m)
  /\ nfs + Cardinality({x \in {n, m} : x \in disk /\ fsmap[x] = NoFs}) <= MaxFs
  /\ LET gm == IF m \in disk THEN GetFile(m)
               ELSE [fs |-> NoFs, map |-> fsmap, obj |-> fsobj, n |-> nfs]
         old == gm.fs
         g == IF gm.map[n] # NoFs
              THEN [fs |-> gm.map[n], map |-> gm.map, obj |-> gm.obj, n |-> gm.n]
              ELSE [fs |-> gm.n + 1, map |-> Insert(gm.map, n, gm.n + 1),
                    obj |-> [gm.obj EXCEPT ![gm.n + 1] = NewFs(n)], n |-> gm.n + 1]
     IN /\ fsmap' = Insert(Erase(g.map, n), m, g.fs)
        /\ fsobj' = [g.obj EXCEPT ![g.fs] = Renamed(@, m)]
        /\ nfs' = g.n
        /\ orphan' = IF old # NoFs THEN orphan \cup {old} ELSE orphan
  /\ disk' = (disk \ {n}) \cup {m}
  /\ UNCHANGED <<phase, handles, crashed>>

\* archivefs_mkdir of a name no file has: getFile fails, TYPE_BY_EXT knows
\* the extension, new FileSystem(fpath, true) creates the file, insert.
Mkdir(n) ==
  /\ Serving
  /\ n \notin disk
  /\ TypeOf[n]
  /\ nfs < MaxFs
  /\ disk' = disk \cup {n}
  /\ fsmap' = Insert(fsmap, n, nfs + 1)
  /\ fsobj' = [fsobj EXCEPT ![nfs + 1] = NewFs(n)]
  /\ nfs' = nfs + 1
  /\ UNCHANGED <<phase, handles, orphan, crashed>>

\* Another process puts an archive into the mounted folder.
ExternalAdd(n) ==
  /\ Serving
  /\ n \notin disk
  /\ disk' = disk \cup {n}
  /\ UNCHANGED <<phase, fsmap, fsobj, nfs, handles, orphan, crashed>>

\* archivefs_destroy -> ~FusePrivate -> ~FileSystemS: delete every
\* FileSystem of the map.  Unmounting waits for the host's handles.
Destroy ==
  /\ Serving
  /\ \A f \in FsIds : handles[f] = 0
  /\ LET mapped == {fsmap[n] : n \in Names} \ {NoFs}
     IN /\ fsobj' = [f \in FsIds |-> IF f \in mapped THEN Deleted(fsobj[f]) ELSE fsobj[f]]
        /\ disk' = disk \cup UNION {SaveTarget(fsobj[f]) : f \in mapped}
  /\ phase' = "destroyed"
  /\ UNCHANGED <<fsmap, nfs, handles, orphan, crashed>>

Next ==
  \/ Initialize
  \/ Destroy
  \/ \E n \in Names : Open(n) \/ Edit(n) \/ Rmdir(n) \/ Mkdir(n) \/ ExternalAdd(n)
  \/ \E n, m \in Names : Rename(n, m)
  \/ \E f \in FsIds : Write(f) \/ Release(f)

Spec == Init /\ [][Next]_vars

-----------------------------------------------------------------------------
\* While the daemon serves, every entry of FileSystemS holds a live
\* FileSystem whose archive_name is the entry's key and whose file is on
\* disk: rmdir's erase(fs->archive_name) and rename's erase(old path) then
\* find their entry, and ~FileSystemS deletes each object once.
MapMatchesNames ==
  phase = "serve" =>
    \A n \in Names : fsmap[n] # NoFs =>
      /\ fsobj[fsmap[n]].st = "live"
      /\ fsobj[fsmap[n]].name = n
      /\ n \in disk

\* After destroy, the edits of every archive the mount shows were written
\* to the file of that name: what the host saw as c.zip is saved as c.zip.
\* Renaming an archive root changes archive_name and the map's key, but the
\* driver keeps the archive_path it opened.
EditsSavedUnderName ==
  phase = "destroyed" =>
    \A n \in Names : fsmap[n] # NoFs /\ fsobj[fsmap[n]].changed =>
      fsobj[fsmap[n]].savedTo = n

\* No handler runs on a FileSystem that was deleted: a FileHandle never
\* outlives the FileSystem it points to.
NoUseAfterDelete == crashed = "none"

=============================================================================
