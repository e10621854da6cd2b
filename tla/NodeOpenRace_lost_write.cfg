\* A write to an ISO entry is lost when a second write open replaces the buffer.
CONSTANTS
  t1 = t1
  t2 = t2
  NoThread = NoThread
  Threads <- MC_Threads
  Driver = "iso"
  MaxCalls = 2
  RefMod = 8
SPECIFICATION Spec
INVARIANT
  AckedWritesKept
