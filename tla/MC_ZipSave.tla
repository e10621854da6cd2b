----------------------------- MODULE MC_ZipSave -----------------------------
(* ZipSave over the archives of MC_FileTree; a sorts before b, as the      *)
(* bytes of their one-letter names do.                                      *)
EXTENDS MC_FileTree, ZipSave

MC_NameOrder == <<a, b>>
=============================================================================
