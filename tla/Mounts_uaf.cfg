\* rmdir of an archive whose file the host holds open: the release that
\* follows runs FileSystem::close on the deleted FileSystem.
CONSTANTS
  Names = {"a.zip", "b.zip", "notes.txt"}
  TypeOf <- MC_TypeOf
  MaxFs = 3
  MaxOpen = 1
SPECIFICATION Spec
\* destroy is the last step of a mount: nothing follows it.
CHECK_DEADLOCK FALSE
INVARIANT
  NoUseAfterDelete
