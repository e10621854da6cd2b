--------------------------- MODULE MC_NodeOpenRace ---------------------------
(* Two worker threads on one archived file.                                 *)
EXTENDS NodeOpenRace

CONSTANTS t1, t2

MC_Threads == {t1, t2}

==============================================================================
