---------------------------- MODULE MC_FileTree ----------------------------
(* The namespace of one mounted archive instantiated for TLC: two names,   *)
(* paths of depth two, four FileNodes, one open handle per node, and an   *)
(* archive holding a file under a directory that has no entry of its own   *)
(* (so append creates it) and a file at the top level; or, for the runs    *)
(* about handles, an archive of one file.                                  *)
EXTENDS FileTree

CONSTANTS a, b

MC_Names == {a, b}
MC_Archive == << [path |-> <<a, b>>, type |-> "file"],
                 [path |-> <<b>>, type |-> "file"] >>
\* One file at the top level, for the runs about buffers and handles.
MC_ArchiveFlat == << [path |-> <<b>>, type |-> "file"] >>
\* An ISO image names every directory: a with a/b under it, and b, handed
\* to the tree in the order buildDir appends them.
MC_IsoImage == {[path |-> <<a>>, type |-> "dir"],
                [path |-> <<a, b>>, type |-> "file"],
                [path |-> <<b>>, type |-> "file"]}
MC_ArchiveIso == IsoBuildDir(MC_IsoImage, <<>>)
=============================================================================
