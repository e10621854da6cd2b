\* Folder mode over a.zip, b.zip and notes.txt: any session of opens, edits,
\* writes, releases, archive renames (over each other too), rmdirs of
\* archives (with files open in them too), mkdirs of new archives and archives
\* copied in from outside, then destroy.
CONSTANTS
  Names = {"a.zip", "b.zip", "notes.txt"}
  TypeOf <- MC_TypeOf
  MaxFs = 3
  MaxOpen = 1
SPECIFICATION Spec
\* destroy is the last step of a mount: nothing follows it.
CHECK_DEADLOCK FALSE
INVARIANT
  MapMatchesNames
