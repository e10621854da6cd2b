\* truncate of a ZIP entry unlocks the node's rwlock it no longer holds.
CONSTANTS
  t1 = t1
  t2 = t2
  NoThread = NoThread
  Threads <- MC_Threads
  Driver = "zip"
  MaxCalls = 2
  RefMod = 8
SPECIFICATION Spec
INVARIANT
  UnlockByHolder
