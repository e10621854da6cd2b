---------------------------- MODULE NodeOpenRace ----------------------------
(***************************************************************************)
(* One archived file of a mounted archive under the multithreaded FUSE    *)
(* loop that fuse_main runs by default: every worker thread runs           *)
(* archivefs_open, _read, _write, _truncate and _release, and the          *)
(* FileSystem and driver code they call, one statement that touches shared *)
(* state per step.                                                          *)
(*                                                                         *)
(* Shared state is the node's ref_cnt, whether it has a buffer, changed,   *)
(* the ISO file source's open state and the node's pthread rwlock.  The    *)
(* rwlock behaves as glibc's default one: wrlock by the thread that holds  *)
(* it for writing and rdlock by the writer fail at once with EDEADLK (the  *)
(* code ignores the result); unlock by the writer frees the lock, by a     *)
(* reader drops that reader, and by anyone else takes the reader path and  *)
(* lowers the reader count below the readers there are (glibc 2.25 on).   *)
(* ++ref_cnt and --ref_cnt are a load and a store: a data race with no     *)
(* lock.  Each thread holds at most one FileHandle of the node (mode) and  *)
(* makes at most MaxCalls calls besides its releases.  Driver and         *)
(* fillInBuffer calls are subroutines with a return stack.  Buffers stay   *)
(* in memory (below MEM_LIMIT), so release() frees them.                   *)
(***************************************************************************)
EXTENDS Naturals, Sequences, FiniteSets

CONSTANTS
  Threads,   \* the FUSE worker threads
  Driver,    \* "zip" or "iso", the backends with write support
  MaxCalls,  \* calls each thread makes
  NoThread,  \* no writer holds the lock
  RefMod     \* values of the unsigned FileNode::ref_cnt: 2^32 in the build

\* TLC's integers stop below 2^31; any RefMod above the number of threads
\* keeps what matters of the wrap: 0 - 1 is a large count that is not 0.
ASSUME Driver \in {"zip", "iso"} /\ MaxCalls \in Nat /\ NoThread \notin Threads
ASSUME RefMod \in Nat /\ RefMod > Cardinality(Threads)


VARIABLES
  pc,      \* the statement each thread is at; "idle" between calls
  stack,   \* return labels of the driver and fillInBuffer calls in progress
  tmp,     \* the value of ref_cnt a thread loaded for ++ or --
  mode,    \* the FileHandle a thread holds: "none", "r" or "w"
  calls,   \* calls a thread has started
  refcnt,  \* FileNode::ref_cnt
  hasBuf,  \* FileNode::buffer # NULL
  filled,  \* the buffer holds the entry's data (fillInBuffer has written it)
  changed, \* FileNode::changed
  dirty,   \* the buffer holds what writes and truncates put there
  acked,   \* a write has returned success to the host
  src,     \* the ISO file source is open
  wr,      \* the thread holding the rwlock for writing, or NoThread
  rd,      \* the threads holding it for reading
  under    \* readers the lock's count lost to unlocks by non-holders

thread == <<tmp, mode, calls>>
buf == <<hasBuf, filled, changed, dirty, acked>>
lock == <<wr, rd, under>>
vars == <<pc, stack, thread, refcnt, buf, src, lock>>

-----------------------------------------------------------------------------
(* Control flow and the rwlock.                                             *)

At(t, l) == pc[t] = l
Goto(t, l) == pc' = [pc EXCEPT ![t] = l] /\ UNCHANGED stack
Call(t, entry, back) ==
  /\ pc' = [pc EXCEPT ![t] = entry]
  /\ stack' = [stack EXCEPT ![t] = <<back>> \o @]
Return(t) ==
  /\ pc' = [pc EXCEPT ![t] = Head(stack[t])]
  /\ stack' = [stack EXCEPT ![t] = Tail(@)]

\* pthread_rwlock_wrlock: waits for a free lock; EDEADLK (and no change)
\* for the thread that already writes.
\* The reader count is Cardinality(rd) - under, unsigned: once it is below
\* zero it is huge and no writer gets in; once unlocks by non-holders
\* brought it to 0, a writer gets in beside readers.
WrLock(t) ==
  /\ wr = t \/ (wr = NoThread /\ Cardinality(rd) = under)
  /\ wr' = t /\ UNCHANGED <<rd, under>>
\* pthread_rwlock_rdlock: waits while another thread writes; EDEADLK for
\* the writer.
RdLock(t) ==
  /\ wr \in {t, NoThread}
  /\ rd' = IF wr = t THEN rd ELSE rd \cup {t}
  /\ UNCHANGED <<wr, under>>
\* pthread_rwlock_unlock: frees the lock if the caller is the writer, else
\* takes the reader path and decrements the reader count.  By a thread that
\* holds neither, that decrement is one reader too many.
Holds(t) == wr = t \/ t \in rd
Unlock(t) ==
  \/ wr = t /\ wr' = NoThread /\ UNCHANGED <<rd, under>>
  \/ wr # t /\ t \in rd /\ rd' = rd \ {t} /\ UNCHANGED <<wr, under>>
  \/ ~Holds(t) /\ under' = under + 1 /\ UNCHANGED <<wr, rd>>

-----------------------------------------------------------------------------
(* The drivers' open, read and close of the entry.                          *)

DrvOpen == IF Driver = "zip" THEN "zo_lock" ELSE "io"
DrvRead == IF Driver = "zip" THEN "zr_lock" ELSE "ir"
DrvClose == IF Driver = "zip" THEN "zc_lock" ELSE "ic"

\* ZipDriver::open: wrlock, node->buffer = new Buffer, zip_fread it in,
\* unlock.
ZipOpenLock(t) == At(t, "zo_lock") /\ WrLock(t) /\ Goto(t, "zo_new")
  /\ UNCHANGED <<thread, refcnt, buf, src>>
ZipOpenNew(t) == At(t, "zo_new") /\ Goto(t, "zo_fill")
  /\ hasBuf' = TRUE /\ filled' = FALSE /\ dirty' = FALSE
  /\ UNCHANGED <<thread, refcnt, changed, acked, src, lock>>
\* The zip_fread loop: it fills the buffer, or on a read error returns
\* false at once, with the lock still held (read_bytes < 0).
ZipOpenFill(t) == At(t, "zo_fill")
  /\ \/ filled' = TRUE /\ Goto(t, "zo_unlock")
     \/ Return(t) /\ UNCHANGED filled
  /\ UNCHANGED <<thread, refcnt, hasBuf, changed, dirty, acked, src, lock>>
ZipOpenUnlock(t) == At(t, "zo_unlock") /\ Unlock(t) /\ Return(t)
  /\ UNCHANGED <<thread, refcnt, buf, src>>

\* ZipDriver::read: rdlock, node->buffer->read, unlock.
ZipReadLock(t) == At(t, "zr_lock") /\ RdLock(t) /\ Goto(t, "zr_read")
  /\ UNCHANGED <<thread, refcnt, buf, src>>
ZipReadBuf(t) == At(t, "zr_read") /\ Goto(t, "zr_unlock")
  /\ UNCHANGED <<thread, refcnt, buf, src, lock>>
ZipReadUnlock(t) == At(t, "zr_unlock") /\ Unlock(t) /\ Return(t)
  /\ UNCHANGED <<thread, refcnt, buf, src>>

\* ZipDriver::close: wrlock, node->buffer->release() frees the memory
\* buffer and node->buffer becomes NULL, unlock.
ZipCloseLock(t) == At(t, "zc_lock") /\ WrLock(t) /\ Goto(t, "zc_release")
  /\ UNCHANGED <<thread, refcnt, buf, src>>
ZipCloseRelease(t) == At(t, "zc_release") /\ Goto(t, "zc_unlock")
  /\ hasBuf' = FALSE /\ filled' = FALSE /\ dirty' = FALSE
  /\ UNCHANGED <<thread, refcnt, changed, acked, src, lock>>
ZipCloseUnlock(t) == At(t, "zc_unlock") /\ Unlock(t) /\ Return(t)
  /\ UNCHANGED <<thread, refcnt, buf, src>>

\* IsoDriver::open (ISO_FILE_ALREADY_OPENED counts as success), ::read
\* (seek and read under the driver's mutex, one step) and ::close of the
\* node's file source.
IsoOpenSrc(t) == At(t, "io") /\ src' = TRUE /\ Return(t)
  /\ UNCHANGED <<thread, refcnt, buf, lock>>
IsoReadSrc(t) == At(t, "ir") /\ Return(t)
  /\ UNCHANGED <<thread, refcnt, buf, src, lock>>
IsoCloseSrc(t) == At(t, "ic") /\ src' = FALSE /\ Return(t)
  /\ UNCHANGED <<thread, refcnt, buf, lock>>

\* FileSystem::fillInBuffer: driver->open, the loop of driver->read and
\* node->buffer->write (one round), driver->close, then back to the caller.
FillOpen(t) == At(t, "f_open") /\ Call(t, DrvOpen, "f_read")
  /\ UNCHANGED <<thread, refcnt, buf, src, lock>>
FillRead(t) == At(t, "f_read") /\ Call(t, DrvRead, "f_write")
  /\ UNCHANGED <<thread, refcnt, buf, src, lock>>
FillWrite(t) == At(t, "f_write") /\ Goto(t, "f_close")
  /\ filled' = hasBuf
  /\ UNCHANGED <<thread, refcnt, hasBuf, changed, dirty, acked, src, lock>>
FillClose(t) == At(t, "f_close") /\ pc' = [pc EXCEPT ![t] = DrvClose]
  /\ UNCHANGED <<stack, thread, refcnt, buf, src, lock>>

-----------------------------------------------------------------------------
(* FileSystem::open, called by archivefs_open with the handle's flags.     *)

\* ++node->ref_cnt, a load and a store.
OpenLoad(t) == At(t, "o_load") /\ Goto(t, "o_store") /\ tmp' = [tmp EXCEPT ![t] = refcnt]
  /\ UNCHANGED <<mode, calls, refcnt, buf, src, lock>>
OpenStore(t) == At(t, "o_store") /\ Goto(t, "o_test")
  /\ refcnt' = (tmp[t] + 1) % RefMod
  /\ UNCHANGED <<thread, buf, src, lock>>
\* if (ref_cnt == 1 && buffer == NULL) driver->open(node);
OpenTest(t) == At(t, "o_test")
  /\ (IF refcnt = 1 /\ ~hasBuf THEN Call(t, DrvOpen, "o_write") ELSE Goto(t, "o_write"))
  /\ UNCHANGED <<thread, refcnt, buf, src, lock>>
\* A write open without a buffer makes one under the write lock; then
\* archivefs_open hands out the FileHandle.
OpenWrite(t) == At(t, "o_write")
  /\ Goto(t, IF mode[t] = "w" /\ ~hasBuf THEN "o_lock" ELSE "idle")
  /\ UNCHANGED <<thread, refcnt, buf, src, lock>>
\* A faulty write open that makes the buffer without taking the lock.
OpenLockSkipped(t) == At(t, "o_lock") /\ Goto(t, "o_new")
  /\ UNCHANGED <<thread, refcnt, buf, src, lock>>
OpenLock(t) == At(t, "o_lock") /\ WrLock(t) /\ Goto(t, "o_new")
  /\ UNCHANGED <<thread, refcnt, buf, src>>
\* node->buffer = new Buffer(size); fillInBuffer(node);
OpenNew(t) == At(t, "o_new") /\ Call(t, "f_open", "o_unlock")
  /\ hasBuf' = TRUE /\ filled' = FALSE /\ dirty' = FALSE
  /\ UNCHANGED <<thread, refcnt, changed, acked, src, lock>>
OpenUnlock(t) == At(t, "o_unlock") /\ Unlock(t) /\ Goto(t, "idle")
  /\ UNCHANGED <<thread, refcnt, buf, src>>

(* FileSystem::read: through the buffer under the read lock if the node     *)
(* has one, else straight from the driver.                                 *)
ReadTest(t) == At(t, "r_test")
  /\ (IF hasBuf THEN Goto(t, "r_lock") ELSE Call(t, DrvRead, "idle"))
  /\ UNCHANGED <<thread, refcnt, buf, src, lock>>
\* A faulty read that copies from the buffer without the read lock.
ReadLockSkipped(t) == At(t, "r_lock") /\ Goto(t, "r_read")
  /\ UNCHANGED <<thread, refcnt, buf, src, lock>>
ReadLock(t) == At(t, "r_lock") /\ RdLock(t) /\ Goto(t, "r_read")
  /\ UNCHANGED <<thread, refcnt, buf, src>>
ReadBuf(t) == At(t, "r_read") /\ Goto(t, "r_unlock")
  /\ UNCHANGED <<thread, refcnt, buf, src, lock>>
ReadUnlock(t) == At(t, "r_unlock") /\ Unlock(t) /\ Goto(t, "idle")
  /\ UNCHANGED <<thread, refcnt, buf, src>>

(* FileSystem::write: EBADF without a buffer, else buffer->write and       *)
(* node->changed = true under the write lock.                              *)
WriteTest(t) == At(t, "w_test") /\ Goto(t, IF hasBuf THEN "w_lock" ELSE "idle")
  /\ UNCHANGED <<thread, refcnt, buf, src, lock>>
WriteLock(t) == At(t, "w_lock") /\ WrLock(t) /\ Goto(t, "w_body")
  /\ UNCHANGED <<thread, refcnt, buf, src>>
WriteBody(t) == At(t, "w_body") /\ Goto(t, "w_unlock") /\ changed' = TRUE
  /\ dirty' = TRUE
  /\ UNCHANGED <<thread, refcnt, hasBuf, filled, acked, src, lock>>
WriteUnlock(t) == At(t, "w_unlock") /\ Unlock(t) /\ Goto(t, "idle")
  /\ acked' = TRUE
  /\ UNCHANGED <<thread, refcnt, hasBuf, filled, changed, dirty, src>>

(* FileSystem::truncate, called by archivefs_truncate on a path: under the *)
(* write lock, truncate the buffer, or make one of the new size and fill   *)
(* it from the archive when the size is not 0; then node->changed = true.  *)
(* A truncated buffer holds what it held, cut or extended to the new size: *)
(* what writes put there stays (dirty), and archive data stays what a      *)
(* refill of getSize() bytes would read again.                              *)
TruncLock(t) == At(t, "t_lock") /\ WrLock(t) /\ Goto(t, "t_body")
  /\ UNCHANGED <<thread, refcnt, buf, src>>
TruncBody(t) == At(t, "t_body")
  /\ \/ hasBuf /\ Goto(t, "t_set") /\ UNCHANGED <<hasBuf, filled, dirty>>
     \/ ~hasBuf /\ hasBuf' = TRUE /\ dirty' = FALSE
        /\ \/ filled' = TRUE /\ Goto(t, "t_set")
           \/ filled' = FALSE /\ Call(t, "f_open", "t_set")
  /\ UNCHANGED <<thread, refcnt, changed, acked, src, lock>>
\* node->setSize(size); node->changed = true; still under the lock.
TruncSet(t) == At(t, "t_set") /\ Goto(t, "t_unlock") /\ changed' = TRUE
  /\ UNCHANGED <<thread, refcnt, hasBuf, filled, dirty, acked, src, lock>>
TruncUnlock(t) == At(t, "t_unlock") /\ Unlock(t) /\ Goto(t, "idle")
  /\ UNCHANGED <<thread, refcnt, buf, src>>

(* FileSystem::close, called by archivefs_release: --ref_cnt (a load and a *)
(* store); a changed node keeps everything; the last close closes the      *)
(* entry in the driver.                                                     *)
CloseLoad(t) == At(t, "c_load") /\ Goto(t, "c_store") /\ tmp' = [tmp EXCEPT ![t] = refcnt]
  /\ UNCHANGED <<mode, calls, refcnt, buf, src, lock>>
\* A faulty close that counts ref_cnt as a signed int, without the wrap.
CloseStoreSigned(t) == At(t, "c_store") /\ Goto(t, "c_test")
  /\ refcnt' = tmp[t] - 1
  /\ UNCHANGED <<thread, buf, src, lock>>
CloseStore(t) == At(t, "c_store") /\ Goto(t, "c_test")
  /\ refcnt' = (tmp[t] + RefMod - 1) % RefMod
  /\ UNCHANGED <<thread, buf, src, lock>>
CloseTest(t) == At(t, "c_test")
  /\ (IF ~changed /\ refcnt = 0 THEN Call(t, DrvClose, "idle") ELSE Goto(t, "idle"))
  /\ UNCHANGED <<thread, refcnt, buf, src, lock>>

-----------------------------------------------------------------------------
(* The host: a thread between calls takes the next FUSE request.  open     *)
(* takes read-only or writable flags; read and write need a handle (write  *)
(* a writable one); release ends the handle and is not counted.            *)

Start(t, l) ==
  /\ At(t, "idle") /\ calls[t] < MaxCalls
  /\ calls' = [calls EXCEPT ![t] = @ + 1]
  /\ Goto(t, l)

HostOpen(t) == mode[t] = "none" /\ Start(t, "o_load")
  /\ \E m \in {"r", "w"} : mode' = [mode EXCEPT ![t] = m]
  /\ UNCHANGED <<tmp, refcnt, buf, src, lock>>
HostRead(t) == mode[t] # "none" /\ Start(t, "r_test")
  /\ UNCHANGED <<tmp, mode, refcnt, buf, src, lock>>
HostWrite(t) == mode[t] = "w" /\ Start(t, "w_test")
  /\ UNCHANGED <<tmp, mode, refcnt, buf, src, lock>>
HostTruncate(t) == Start(t, "t_lock")
  /\ UNCHANGED <<tmp, mode, refcnt, buf, src, lock>>
HostRelease(t) == At(t, "idle") /\ mode[t] # "none" /\ Goto(t, "c_load")
  /\ mode' = [mode EXCEPT ![t] = "none"]
  /\ UNCHANGED <<tmp, calls, refcnt, buf, src, lock>>

-----------------------------------------------------------------------------

Init ==
  /\ pc = [t \in Threads |-> "idle"]
  /\ stack = [t \in Threads |-> <<>>]
  /\ tmp = [t \in Threads |-> 0]
  /\ mode = [t \in Threads |-> "none"]
  /\ calls = [t \in Threads |-> 0]
  /\ refcnt = 0 /\ hasBuf = FALSE /\ filled = FALSE /\ changed = FALSE
  /\ dirty = FALSE /\ acked = FALSE
  /\ src = FALSE /\ wr = NoThread /\ rd = {} /\ under = 0

Step(t) ==
  \/ HostOpen(t) \/ HostRead(t) \/ HostWrite(t) \/ HostTruncate(t) \/ HostRelease(t)
  \/ OpenLoad(t) \/ OpenStore(t) \/ OpenTest(t) \/ OpenWrite(t) \/ OpenLock(t)
  \/ OpenNew(t) \/ OpenUnlock(t)
  \/ ReadTest(t) \/ ReadLock(t) \/ ReadBuf(t) \/ ReadUnlock(t)
  \/ WriteTest(t) \/ WriteLock(t) \/ WriteBody(t) \/ WriteUnlock(t)
  \/ TruncLock(t) \/ TruncBody(t) \/ TruncSet(t) \/ TruncUnlock(t)
  \/ CloseLoad(t) \/ CloseStore(t) \/ CloseTest(t)
  \/ FillOpen(t) \/ FillRead(t) \/ FillWrite(t) \/ FillClose(t)
  \/ ZipOpenLock(t) \/ ZipOpenNew(t) \/ ZipOpenFill(t) \/ ZipOpenUnlock(t)
  \/ ZipReadLock(t) \/ ZipReadBuf(t) \/ ZipReadUnlock(t)
  \/ ZipCloseLock(t) \/ ZipCloseRelease(t) \/ ZipCloseUnlock(t)
  \/ IsoOpenSrc(t) \/ IsoReadSrc(t) \/ IsoCloseSrc(t)

\* Every thread has used its calls and released its handle.
Done ==
  /\ \A t \in Threads : At(t, "idle") /\ mode[t] = "none" /\ calls[t] = MaxCalls
  /\ UNCHANGED vars

Next == (\E t \in Threads : Step(t)) \/ Done

\* The kernel schedules every runnable worker thread inside a call; nothing
\* obliges the host to send requests.
Fairness == \A t \in Threads : WF_vars(~At(t, "idle") /\ Step(t))

Spec == Init /\ [][Next]_vars /\ Fairness

-----------------------------------------------------------------------------
(* Properties.                                                              *)

Labels == {"idle", "o_load", "o_store", "o_test", "o_write", "o_lock", "o_new",
           "o_unlock", "r_test", "r_lock", "r_read", "r_unlock", "w_test",
           "w_lock", "w_body", "w_unlock", "t_lock", "t_body", "t_set", "t_unlock",
           "c_load", "c_store", "c_test", "f_open", "f_read", "f_write",
           "f_close", "zo_lock", "zo_new", "zo_fill", "zo_unlock", "zr_lock",
           "zr_read", "zr_unlock", "zc_lock", "zc_release", "zc_unlock",
           "io", "ir", "ic"}

TypeOK ==
  /\ pc \in [Threads -> Labels]
  /\ \A t \in Threads : stack[t] \in Seq(Labels) /\ Len(stack[t]) <= 2
  /\ tmp \in [Threads -> 0..(RefMod - 1)]
  /\ mode \in [Threads -> {"none", "r", "w"}]
  /\ calls \in [Threads -> 0..MaxCalls]
  /\ refcnt \in 0..(RefMod - 1)
  /\ {hasBuf, filled, changed, dirty, acked, src} \subseteq BOOLEAN
  /\ wr \in Threads \cup {NoThread} /\ rd \subseteq Threads /\ under \in Nat

\* The statements that dereference node->buffer, and the unlocks.
BufferUses == {"r_read", "zr_read", "zc_release", "w_body", "f_write"}
UnlockSites == {"o_unlock", "r_unlock", "w_unlock", "t_unlock", "zo_unlock",
                "zr_unlock", "zc_unlock"}

(* Every read of the entry finds its data: a thread in IsoDriver::read      *)
(* reads an open file source, and a thread at a statement that uses         *)
(* node->buffer finds one.  FileSystem::read tests node->buffer without the *)
(* lock, fillInBuffer closes the ISO source another handle reads, and the   *)
(* ref_cnt races let the last close come early.                             *)
DataReachable ==
  \A t \in Threads : (At(t, "ir") => src) /\ (pc[t] \in BufferUses => hasBuf)

(* Every pthread_rwlock_unlock of the node's lock is made by a thread that  *)
(* holds it.  The nested ZipDriver::open/close inside fillInBuffer, called  *)
(* with the lock write-held by FileSystem::open or ::truncate, breaks this. *)
UnlockByHolder == \A t \in Threads : pc[t] \in UnlockSites => Holds(t)

(* A read through the buffer never sees one that is being filled:           *)
(* FileSystem::open and ::truncate allocate and fill under the write lock   *)
(* and FileSystem::read copies under the read lock.                         *)
FilledBeforeRead ==
  \A t \in Threads : pc[t] \in {"r_read", "zr_read"} /\ hasBuf => filled

(* A write that returned success stays in the node's buffer: no later      *)
(* open, truncate or close replaces or frees a buffer that holds it.        *)
(* FileSystem::open tests node->buffer before taking the lock.              *)
AckedWritesKept == acked => hasBuf /\ dirty

=============================================================================
