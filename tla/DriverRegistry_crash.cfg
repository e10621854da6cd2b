\* The build with libmagic: a file's MIME type comes first.  Some lookup,
\* mkdir or save of an ordinary host path kills the daemon.
CONSTANTS
  WordLen <- MC_WordLen
  LowerOf <- MC_LowerOf
  DriverFiles = {"afs_zipdriver.so", "afs_isodriver.so", "afs_tardriver.so"}
  PluginOf <- MC_PluginOf
  Paths <- MC_Paths
  NoMime = NoMime
  Mimes = {"application/zip", "application/x-iso9660-image", "text/plain", NoMime}
  HaveLibmagic = TRUE
  KeepOriginal = TRUE
  EditTag = "_edit (2026-11-09 10:00)"
SPECIFICATION Spec
CHECK_DEADLOCK FALSE
INVARIANT
  ProcessAlive
