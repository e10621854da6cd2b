\* Two threads, two calls each, on an ISO entry: the rwlock keeps readers
\* off a buffer being filled and every call returns.
CONSTANTS
  t1 = t1
  t2 = t2
  NoThread = NoThread
  Threads <- MC_Threads
  Driver = "iso"
  MaxCalls = 2
  RefMod = 8
SPECIFICATION Spec
INVARIANT
  FilledBeforeRead
  UnlockByHolder

  
