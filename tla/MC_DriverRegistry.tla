-------------------------- MODULE MC_DriverRegistry --------------------------
(* Host paths under three mounted folders, /m, /m.m and /m.archives, whose  *)
(* file names join up to three parts with dots: empty (a leading, doubled  *)
(* or trailing dot), a plain word, or a suffix in either case.             *)
EXTENDS DriverRegistry

MC_WordLen == [w \in {"m", "a", "archives", "zip", "ZIP", "tar", "gz", "iso",
                      "tgz", "_edit (2026-11-09 10:00)"} |->
                 CASE w = "archives" -> 8
                   [] w = "_edit (2026-11-09 10:00)" -> 24
                   [] w \in {"m", "a"} -> 1
                   [] w = "gz" -> 2
                   [] OTHER -> 3]

MC_LowerOf == [w \in DOMAIN MC_WordLen |-> IF w = "ZIP" THEN "zip" ELSE w]

MC_PluginOf == [f \in {"afs_zipdriver.so", "afs_isodriver.so", "afs_tardriver.so"} |->
                  CASE f = "afs_zipdriver.so" -> "zip"
                    [] f = "afs_isodriver.so" -> "iso"
                    [] OTHER -> "tar"]

Part(w) == IF w = "" THEN <<>> ELSE <<w>>

Names ==
  LET P == {"", "a", "ZIP", "tar", "gz", "iso"}
      joined == {Part(x) : x \in P}
                \cup {Part(x) \o <<".">> \o Part(y) : x, y \in P}
                \cup {Part(x) \o <<".">> \o Part(y) \o <<".">> \o Part(z) : x, y, z \in P}
  IN joined \ {<<>>, <<".">>, <<".", ".">>}

Folders == {<<"/", "m">>, <<"/", "m", ".", "m">>, <<"/", "m", ".", "archives">>}

MC_Paths == {d \o <<"/">> \o n : d \in Folders, n \in Names}

==============================================================================
