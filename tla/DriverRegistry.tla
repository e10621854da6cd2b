--------------------------- MODULE DriverRegistry ---------------------------
(***************************************************************************)
(* The driver registry of drivers.cpp and the places archivefs.cpp asks    *)
(* it for the type of a host file.                                         *)
(*                                                                         *)
(* LOAD_STANDARD_DRIVERS pushes one DriverHandle per plugin that dlopen    *)
(* and dlsym accept, in readdir order; initialize gives up when none was   *)
(* loaded.  GET_TYPE (the archive of archive mode, every entry of the      *)
(* folder scan, every lookup in getFile) asks libmagic first when the      *)
(* build has it, then copies the suffix after the last '.' of the path     *)
(* into char ext_low[10], lowercases it and scans the registry, and if     *)
(* that fails does the same with the suffix after the dot before it.       *)
(* archivefs_mkdir of a host path looks the raw suffix up with             *)
(* TYPE_BY_EXT to decide whether to create an archive.  The ISO save, and  *)
(* the ZIP save with --keep-original, write to generateNewArchiveName.     *)
(*                                                                         *)
(* A path is a sequence of atoms: "/", "." and words, a word being a run   *)
(* of characters without '/' and '.' (WordLen gives its length), so the    *)
(* dot searches see exactly what the C code sees.  last records the most   *)
(* recent lookup or save; crashed records how the daemon died, if it did.  *)
(***************************************************************************)
EXTENDS Naturals, Sequences, SequencesExt, FiniteSets, FiniteSetsExt

CONSTANTS
  WordLen,       \* [word -> characters]; its domain is the set of words
  LowerOf,       \* [word -> word]: the word after tolower
  DriverFiles,   \* entries of the drivers directory named afs_*driver.so
  PluginOf,      \* [DriverFiles -> {"zip", "iso", "tar"}]: whose REGISTER_DRIVER
  Paths,         \* absolute host paths handed to type detection
  Mimes,         \* what magic_file reports for a file; NoMime when it fails
  NoMime,
  HaveLibmagic,  \* the build defines HAVE_LIBMAGIC
  KeepOriginal,  \* --keep-original
  EditTag        \* the word "_edit (YYYY-MM-DD HH:MM)"

Sep == {"/", "."}

\* ArchiveType(_ext, _mime, _factory, w_sup = false)
ArchiveType(ext, mime, factory, w) ==
  [ext |-> ext, mime |-> mime, factory |-> factory, write |-> w]

\* What REGISTER_DRIVER of each plugin pushes into archive_types.
ZipTypes == << ArchiveType(<<"zip">>, "application/zip", "zip", TRUE) >>

IsoTypes == << ArchiveType(<<"iso">>, "application/x-iso9660-image", "iso", TRUE) >>

TarTypes == << ArchiveType(<<"tar">>, "application/x-tar", "tar", FALSE),
               ArchiveType(<<"tgz">>, "application/x-gzip", "targz", FALSE),
               ArchiveType(<<"tar", ".", "gz">>, "application/x-gzip", "targz", FALSE) >>

Registration == [zip |-> ZipTypes, iso |-> IsoTypes, tar |-> TarTypes]

NoType == ArchiveType(<<>>, "none", "none", FALSE)

CharLen(a) == IF a \in Sep THEN 1 ELSE WordLen[a]

StrLen(s) == FoldLeft(LAMBDA n, a : n + CharLen(a), 0, s)

\* strToLower: tolower of every character; '/' and '.' stay.
StrToLower(s) == [i \in DOMAIN s |-> IF s[i] \in Sep THEN s[i] ELSE LowerOf[s[i]]]

\* The loop of findFileExt: from position i back to the nearest '.', never
\* testing the first character (ext == path means NULL).  0 is NULL.
RECURSIVE DotBefore(_, _)
DotBefore(path, i) ==
  IF i <= 1 THEN 0
  ELSE IF path[i] = "." THEN i ELSE DotBefore(path, i - 1)

\* findFileExt(path, ext): the position after the dot found, 0 for NULL.
\* From NULL the search starts at the terminating NUL, which is no dot, so
\* at Len(path); ext < path is NULL.
FindFileExt(path, from) ==
  LET d == DotBefore(path, from) IN IF d = 0 THEN 0 ELSE d + 1

\* The C string that starts at position e.
Suffix(path, e) == SubSeq(path, e, Len(path))

\* TYPE_BY_EXT and TYPE_BY_MIME: the first archive type, drivers in load
\* order and each driver's types in push order, whose field is equal.
TypeByExt(drv, ext) ==
  LET ts == FlattenSeq(drv)
      i == SelectInSeq(ts, LAMBDA t : t.ext = ext)
  IN IF i = 0 THEN NoType ELSE ts[i]

TypeByMime(drv, mime) ==
  LET ts == FlattenSeq(drv)
      i == SelectInSeq(ts, LAMBDA t : t.mime = mime)
  IN IF i = 0 THEN NoType ELSE ts[i]

\* strcpy(ext_low, ext) stays inside char ext_low[10] with the NUL.
ExtLowSize == 10
Fits(s) == StrLen(s) + 1 <= ExtLowSize

\* A second search started at ext-1, on the dot itself: it finds the same
\* suffix again.
GetTypeSameDot(drv, path, mime) ==
  LET byMime == IF HaveLibmagic /\ mime # NoMime
                THEN TypeByMime(drv, mime) ELSE NoType
      e1 == FindFileExt(path, Len(path))
      t1 == TypeByExt(drv, StrToLower(Suffix(path, e1)))
      e2 == FindFileExt(path, e1 - 1)
      over1 == ~Fits(Suffix(path, e1))
  IN CASE byMime # NoType -> [type |-> byMime, overflow |-> FALSE]
       [] e1 = 0 -> [type |-> NoType, overflow |-> FALSE]
       [] t1 # NoType -> [type |-> t1, overflow |-> over1]
       [] e2 = 0 -> [type |-> NoType, overflow |-> over1]
       [] OTHER -> [type |-> TypeByExt(drv, StrToLower(Suffix(path, e2))),
                    overflow |-> over1 \/ ~Fits(Suffix(path, e2))]

\* GET_TYPE(path): the type found and whether a strcpy ran past ext_low.
\* A magic_file failure (NoMime) or an unknown MIME falls through to the
\* extensions; the second search starts at ext-2, before the first dot.
GetType(drv, path, mime) ==
  LET byMime == IF HaveLibmagic /\ mime # NoMime
                THEN TypeByMime(drv, mime) ELSE NoType
      e1 == FindFileExt(path, Len(path))
      t1 == TypeByExt(drv, StrToLower(Suffix(path, e1)))
      e2 == FindFileExt(path, e1 - 2)
      over1 == ~Fits(Suffix(path, e1))
  IN CASE byMime # NoType -> [type |-> byMime, overflow |-> FALSE]
       [] e1 = 0 -> [type |-> NoType, overflow |-> FALSE]
       [] t1 # NoType -> [type |-> t1, overflow |-> over1]
       [] e2 = 0 -> [type |-> NoType, overflow |-> over1]
       [] OTHER -> [type |-> TypeByExt(drv, StrToLower(Suffix(path, e2))),
                    overflow |-> over1 \/ ~Fits(Suffix(path, e2))]

\* generateNewArchiveName: the tag goes in before find_last_of('.') of the
\* whole path; the caller checks for npos (0) first.
LastDot(path) == SelectLastInSeq(path, LAMBDA a : a = ".")

NewArchiveName(path) ==
  SubSeq(path, 1, LastDot(path) - 1) \o <<EditTag>> \o Suffix(path, LastDot(path))

-----------------------------------------------------------------------------
VARIABLES
  file,     \* the host file this run of the daemon is asked about
  content,  \* what magic_file reports for it
  phase,    \* "load", "serve", or "stopped" when initialize gave up
  drivers,  \* the DriversVector: each DriverHandle's archive_types
  last,     \* the latest lookup or save
  crashed   \* "none", or where the daemon died

vars == <<file, content, phase, drivers, last, crashed>>

NoOp == [op |-> "none", path |-> <<>>, mime |-> NoMime, type |-> NoType,
         overflow |-> FALSE, name |-> <<>>]

Init ==
  /\ file \in Paths
  /\ content \in Mimes
  /\ phase = "load"
  /\ drivers = <<>>
  /\ last = NoOp
  /\ crashed = "none"

\* initialize -> LOAD_STANDARD_DRIVERS: the entries come in readdir order,
\* and LOAD_DRIVER skips one whose dlopen or dlsym fails; with no driver
\* loaded initialize returns false and the daemon exits.
LoadStandardDrivers ==
  /\ phase = "load"
  /\ \E ok \in SUBSET DriverFiles :
       \E order \in SetToSeqs(ok) :
         /\ drivers' = [i \in DOMAIN order |-> Registration[PluginOf[order[i]]]]
         /\ phase' = IF order = <<>> THEN "stopped" ELSE "serve"
  /\ UNCHANGED <<file, content, last, crashed>>

\* A GET_TYPE call.  A strcpy past ext_low is undefined: a fortified
\* build aborts, otherwise the call goes on with what it computed.
GetTypeCall ==
  /\ phase = "serve"
  /\ crashed = "none"
  /\ LET r == GetType(drivers, file, content) IN
       /\ last' = [NoOp EXCEPT !.op = "get_type", !.path = file, !.mime = content,
                               !.type = r.type, !.overflow = r.overflow]
       /\ crashed' \in IF r.overflow THEN {"none", "ext_low"} ELSE {"none"}
  /\ UNCHANGED <<file, content, phase, drivers>>

\* archivefs_mkdir of a path outside every archive: TYPE_BY_EXT of the raw
\* findFileExt suffix; a known one makes a new FileSystem, else a real
\* directory is made.  With no dot in the path it is TYPE_BY_EXT(NULL), a
\* strcmp on NULL.
MkdirCall ==
  /\ phase = "serve"
  /\ crashed = "none"
  /\ LET e == FindFileExt(file, Len(file)) IN
       /\ last' = [NoOp EXCEPT !.op = "mkdir", !.path = file,
                     !.type = IF e = 0 THEN NoType ELSE TypeByExt(drivers, Suffix(file, e))]
       /\ crashed' = IF e = 0 THEN "null_ext" ELSE "none"
  /\ UNCHANGED <<file, content, phase, drivers>>

\* ~FileSystem of the archive just typed, with changes: IsoDriver's save
\* always writes generateNewArchiveName (an imported image), ZipDriver's
\* with --keep-original.  substr(npos) throws out_of_range inside the
\* destructor, which terminates the daemon.
SaveCall ==
  /\ phase = "serve"
  /\ crashed = "none"
  /\ last.op = "get_type"
  /\ \/ last.type.factory = "iso"
     \/ KeepOriginal /\ last.type.factory = "zip"
  /\ IF LastDot(last.path) = 0
     THEN crashed' = "out_of_range" /\ UNCHANGED last
     ELSE /\ last' = [last EXCEPT !.op = "save", !.name = NewArchiveName(last.path)]
          /\ UNCHANGED crashed
  /\ UNCHANGED <<file, content, phase, drivers>>

\* archivefs_destroy -> ~FusePrivate: after the FileSystems are deleted,
\* UNLOAD_DRIVERS pops and deletes every DriverHandle.
UnloadDrivers ==
  /\ phase = "serve"
  /\ crashed = "none"
  /\ phase' = "stopped"
  /\ drivers' = <<>>
  /\ UNCHANGED <<file, content, last, crashed>>

Next ==
  \/ LoadStandardDrivers
  \/ UnloadDrivers
  \/ GetTypeCall
  \/ MkdirCall
  \/ SaveCall

Spec == Init /\ [][Next]_vars

-----------------------------------------------------------------------------
(* The rule the spec gives: MIME first, then the lowercased suffix after   *)
(* the last dot of the file's name, then the one after the dot before it.  *)
(* mkdir takes the raw suffix after the last dot of the new name.          *)

BaseName(path) == Suffix(path, SelectLastInSeq(path, LAMBDA a : a = "/") + 1)

\* Factories of the loaded types whose extension is the part of name after
\* its k-th dot from the end.
ByDot(drv, name, k) ==
  LET D == {i \in DOMAIN name : name[i] = "."}
      Nth[j \in 1..k, E \in SUBSET D] ==
        IF j = 1 THEN Max(E) ELSE Nth[j - 1, E \ {Max(E)}]
  IN IF Cardinality(D) < k THEN {}
     ELSE {t.factory : t \in {t \in ToSet(FlattenSeq(drv)) :
                               t.ext = Suffix(name, Nth[k, D] + 1)}}

RefFactory(drv, path, mime) ==
  LET name == StrToLower(BaseName(path))
      byMime == {t.factory : t \in {t \in ToSet(FlattenSeq(drv)) :
                                     HaveLibmagic /\ t.mime = mime}}
  IN CASE byMime # {} -> byMime
       [] ByDot(drv, name, 1) # {} -> ByDot(drv, name, 1)
       [] ByDot(drv, name, 2) # {} -> ByDot(drv, name, 2)
       [] OTHER -> {"none"}

RefMkdirFactory(drv, path) ==
  IF ByDot(drv, BaseName(path), 1) # {} THEN ByDot(drv, BaseName(path), 1)
  ELSE {"none"}

\* While the drivers are loaded, GET_TYPE and the mkdir lookup agree with
\* the rule whenever the daemon survived them and GET_TYPE wrote inside ext_low: a search of the whole
\* path that runs past the file's name into its directories, or a second
\* search that starts in the wrong place, would show as a disagreement.
TypeMatchesReference ==
  /\ phase = "serve" /\ crashed = "none" /\ last.op = "get_type" /\ ~last.overflow
       => last.type.factory \in RefFactory(drivers, last.path, last.mime)
  /\ phase = "serve" /\ crashed = "none" /\ last.op = "mkdir"
       => last.type.factory \in RefMkdirFactory(drivers, last.path)

\* The daemon never dies in type detection or archive naming: no strcpy
\* past ext_low, no strcmp on a NULL suffix, no uncaught out_of_range.
ProcessAlive == crashed = "none"

=============================================================================
