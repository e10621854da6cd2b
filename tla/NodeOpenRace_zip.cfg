\* Two threads, two calls each, on a ZIP entry, with the nested driver locking
\* inside fillInBuffer, zip_fread errors and glibc's unlock by a non-holder:
\* ref_cnt wraps as the unsigned counter it is, and every return stack stays
\* within the two calls deep that fillInBuffer and the driver make.
CONSTANTS
  t1 = t1
  t2 = t2
  NoThread = NoThread
  Threads <- MC_Threads
  Driver = "zip"
  MaxCalls = 2
  RefMod = 8
SPECIFICATION Spec
\* On ZIP a thread can block forever on the node's rwlock: a zip_fread error
\* returns with it write-held, and an unlock by a non-holder leaves the
\* reader count below zero (CallsReturn fails on ZIP, see README).
CHECK_DEADLOCK FALSE
INVARIANT
  TypeOK
