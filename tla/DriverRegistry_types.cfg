\* The build without libmagic, all three plugins in the drivers directory,
\* any of them failing to load, --keep-original: every lookup the daemon
\* survives agrees with the rule.
\* A daemon that crashed, or whose initialize found no driver, takes no
\* more steps.
CONSTANTS
  WordLen <- MC_WordLen
  LowerOf <- MC_LowerOf
  DriverFiles = {"afs_zipdriver.so", "afs_isodriver.so", "afs_tardriver.so"}
  PluginOf <- MC_PluginOf
  Paths <- MC_Paths
  NoMime = NoMime
  Mimes = {NoMime}
  HaveLibmagic = FALSE
  KeepOriginal = TRUE
  EditTag = "_edit (2026-11-09 10:00)"
SPECIFICATION Spec
CHECK_DEADLOCK FALSE
INVARIANT
  TypeMatchesReference
