CONSTANTS
  CHUNK_SIZE = 2
  MEM_LIMIT = 3
  MaxLen = 5
  MaxInit = 2
  Bytes <- MC_Bytes
SPECIFICATION Spec
INVARIANTS
  ContentMatchesRef
