CONSTANTS
  a = a
  b = b
  Names <- MC_Names
  Archive <- MC_ArchiveFlat
  MaxDepth = 2
  Nodes = {1, 2, 3}
  MaxOpen = 2
  MaxNlink = 4
  TrashNames = {b}
  KeepTrash = FALSE
  Driver = "iso"
  Forms = {"mem"}
  Root = Root
  NoNode = NoNode
  NULL = NULL
SPECIFICATION Spec
INVARIANTS
  TypeOK
  ChangedHasBuffer
  ReadPathReady
