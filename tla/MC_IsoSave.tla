----------------------------- MODULE MC_IsoSave -----------------------------
(* IsoSave over the archives of MC_FileTree; a sorts before b.             *)
EXTENDS MC_FileTree, IsoSave

MC_NameOrder == <<a, b>>
=============================================================================
