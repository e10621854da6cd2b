\* A read of an ISO entry finds its file source closed.
CONSTANTS
  t1 = t1
  t2 = t2
  NoThread = NoThread
  Threads <- MC_Threads
  Driver = "iso"
  MaxCalls = 2
  RefMod = 8
SPECIFICATION Spec
INVARIANT
  DataReachable
