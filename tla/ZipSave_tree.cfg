CONSTANTS
  a = a
  b = b
  Names <- MC_Names
  Archive <- MC_Archive
  MaxDepth = 2
  Nodes = {1, 2, 3, 4}
  MaxOpen = 0
  MaxNlink = 4
  TrashNames = {}
  KeepTrash = FALSE
  Driver = "zip"
  KeepOriginal = FALSE
  NameOrder <- MC_NameOrder
  Forms = {"mem"}
  Root = Root
  NoNode = NoNode
  NULL = NULL
SPECIFICATION ZSpec
INVARIANTS
  TreeConsistent
  EntriesAccounted
  SaveNoOrphanEntries
  SaveStoresChanges
PROPERTY
  NamespaceRefined
