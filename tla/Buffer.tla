------------------------------- MODULE Buffer -------------------------------
(***************************************************************************)
(* The content buffer of one FileNode (src/src/buffer.hpp, membuffer.cpp, *)
(* membuffer.hpp, filebuffer.hpp) at byte level, beside a reference: the   *)
(* byte array of a file that the same writes and truncates give under      *)
(* POSIX semantics.                                                         *)
(*                                                                         *)
(* A MemBuffer is a vector of chunks of CHUNK_SIZE bytes and a _length; a  *)
(* FileBuffer an unlinked scratch file (its bytes, whose size is the       *)
(* file's size) and a _length.  Buffer::write moves a MemBuffer whose      *)
(* write would end past MEM_LIMIT to a FileBuffer.  Sizes are scaled down: *)
(* CHUNK_SIZE and MEM_LIMIT are a few bytes, and Buffer::BLOCK_SIZE, the   *)
(* block of fillInBuffer, equals CHUNK_SIZE as in the code.  A byte is 0   *)
(* or a member of Bytes.                                                    *)
(***************************************************************************)
EXTENDS Integers, Sequences, FiniteSets

CONSTANTS
  CHUNK_SIZE,  \* MemBuffer::CHUNK_SIZE
  MEM_LIMIT,   \* Buffer::MEM_LIMIT, positive: buffers start in memory
  MaxLen,      \* the largest offset + length of a write or a truncate
  MaxInit,     \* the largest size of the entry a buffer is filled from
  Bytes        \* byte values other than 0

ASSUME CHUNK_SIZE \in Nat \ {0} /\ MEM_LIMIT \in Nat \ {0}
ASSUME MaxLen \in Nat /\ MaxInit \in 0..MaxLen /\ 0 \notin Bytes

ByteVal == Bytes \cup {0}
Cells == 0..(CHUNK_SIZE - 1)
Data == UNION {[1..k -> Bytes] : k \in 1..MaxLen}

VARIABLES
  form,     \* "mem" or "file": Buffer::_type
  chunks,   \* MemBuffer::chunks, each a function Cells -> ByteVal
  len,      \* MemBuffer::_length
  fbytes,   \* the bytes of the FileBuffer's scratch file
  flen,     \* FileBuffer::_length
  crashed,  \* the process died on an invalid memory access
  ref       \* the reference file

vars == <<form, chunks, len, fbytes, flen, crashed, ref>>

-----------------------------------------------------------------------------
(* MemBuffer.                                                               *)

ChunksCount(l) == (l + CHUNK_SIZE - 1) \div CHUNK_SIZE
ChunkNumber(off) == off \div CHUNK_SIZE
ChunkOffset(off) == off % CHUNK_SIZE
Zeroed == [k \in Cells |-> 0]
MinOf(x, y) == IF x < y THEN x ELSE y

\* The bytes Chunk::write and Chunk::read move: up to the end of the chunk.
ChunkCount(l, coff) == IF l + coff > CHUNK_SIZE THEN CHUNK_SIZE - coff ELSE l

\* Chunk::write of the first n bytes of src at coff.
ChunkWrite(c, src, n, coff) ==
  [k \in Cells |-> IF coff <= k /\ k < coff + n THEN src[k - coff + 1] ELSE c[k]]

\* The loop of MemBuffer::write from chunk i (0-based) to end: src is data
\* + written and the length data_len - written, where written is the count
\* of the previous chunk only; offset and _length advance by each count.
RECURSIVE WriteLoop(_, _, _, _, _, _, _)
WriteLoop(ch, data, i, end, off, written, l) ==
  IF i >= end THEN [chunks |-> ch, len |-> l, ret |-> written]
  ELSE LET w == ChunkCount(Len(data) - written, ChunkOffset(off))
           src == SubSeq(data, written + 1, Len(data))
       IN WriteLoop([ch EXCEPT ![i + 1] = ChunkWrite(@, src, w, ChunkOffset(off))],
                    data, i + 1, end, off + w, w, l + w)

\* MemBuffer::write of data at off, the new chunks holding junk: chunks
\* are added up to ChunksCount(off + data_len), _length is set to off, and
\* chunk_end is the chunk of off plus ChunksCount(data_len).
MemWrite(ch, data, off, junk) ==
  LET need == ChunksCount(Len(data) + off)
      ch1 == IF Len(ch) < need THEN ch \o junk ELSE ch
      start == ChunkNumber(off)
  IN WriteLoop(ch1, data, start, start + ChunksCount(Len(data)), off, 0, off)

\* The junk a write may find in `need' - Len(ch) chunks made by new Chunk,
\* which leaves its bytes uninitialised.
Junk(ch, data, off) ==
  LET k == ChunksCount(Len(data) + off) - Len(ch)
  IN IF k > 0 THEN [1..k -> [Cells -> ByteVal]] ELSE {<<>>}

\* The loop of MemBuffer::read: Chunk::read from chunk_start for
\* ChunksCount(bytes) chunks; it returns the bytes it copied.
RECURSIVE ReadLoop(_, _, _, _, _)
ReadLoop(ch, i, end, off, left) ==
  IF i >= end THEN <<>>
  ELSE LET r == ChunkCount(left, ChunkOffset(off))
       IN [k \in 1..r |-> ch[i + 1][ChunkOffset(off) + k - 1]]
            \o ReadLoop(ch, i + 1, end, off + r, left - r)

\* MemBuffer::read: the count it returns (-EINVAL as -1) and the bytes it
\* puts into the host's buffer.
MemRead(ch, l, bytes, off) ==
  IF off > l THEN [ret |-> -1, got |-> <<>>]
  ELSE LET b == IF bytes + off > l THEN l - off ELSE bytes
           start == ChunkNumber(off)
       IN [ret |-> b, got |-> ReadLoop(ch, start, start + ChunksCount(b), off, b)]

\* The chunk count MemBuffer::truncate keeps when it shrinks.
KeptChunksFloor(size) == ChunkNumber(size)
KeptChunks(size) == ChunksCount(size)

\* MemBuffer::truncate to a smaller size memsets CHUNK_SIZE - size bytes
\* from the size's place in its chunk: past the chunk, a huge size_t, once
\* size exceeds CHUNK_SIZE.
TruncateOverruns(size) == size < len /\ size > CHUNK_SIZE

MemTruncated(size) ==
  IF size < len
  THEN LET zeroed == [chunks EXCEPT ![ChunkNumber(size) + 1] =
                        [k \in Cells |-> IF k >= ChunkOffset(size) THEN 0 ELSE @[k]]]
       IN SubSeq(zeroed, 1, KeptChunks(size))
  ELSE chunks \o [k \in 1..(ChunksCount(size) - Len(chunks)) |-> Zeroed]

\* The bytes MemBuffer::flushToFile writes: min(left, CHUNK_SIZE) of each
\* of the ChunksCount(_length) chunks.
RECURSIVE FlushBytes(_, _, _)
FlushBytes(ch, i, left) ==
  IF i >= ChunksCount(len) THEN <<>>
  ELSE [k \in 1..MinOf(left, CHUNK_SIZE) |-> ch[i + 1][k - 1]]
         \o FlushBytes(ch, i + 1, left - MinOf(left, CHUNK_SIZE))

-----------------------------------------------------------------------------
(* FileBuffer: pread, pwrite and ftruncate on the scratch file.            *)

Zeros(k) == [j \in 1..k |-> 0]
\* pwrite and ftruncate fill a hole with zeros.
PWrite(f, data, off) ==
  LET g == IF Len(f) < off THEN f \o Zeros(off - Len(f)) ELSE f
  IN SubSeq(g, 1, off) \o data \o SubSeq(g, off + Len(data) + 1, Len(g))
FTruncate(f, size) == IF size <= Len(f) THEN SubSeq(f, 1, size) ELSE f \o Zeros(size - Len(f))
PRead(f, bytes, off) ==
  LET n == IF off >= Len(f) THEN 0 ELSE MinOf(bytes, Len(f) - off)
  IN [ret |-> n, got |-> SubSeq(f, off + 1, off + n)]

-----------------------------------------------------------------------------
(* Buffer.                                                                  *)

BufLength == IF form = "mem" THEN len ELSE flen
BufRead(bytes, off) == IF form = "mem" THEN MemRead(chunks, len, bytes, off) ELSE PRead(fbytes, bytes, off)

\* fillInBuffer into a new MemBuffer(size): blocks of BLOCK_SIZE bytes as
\* the driver's read returns them, each written with MemBuffer::write.
RECURSIVE FillMem(_, _, _)
FillMem(st, content, off) ==
  IF off >= Len(content) THEN st
  ELSE LET blk == SubSeq(content, off + 1, MinOf(off + CHUNK_SIZE, Len(content)))
           r == MemWrite(st.chunks, blk, off, <<>>)
       IN FillMem([chunks |-> r.chunks, len |-> r.len], content, off + Len(blk))

\* FileSystem::open or truncate makes Buffer(size) for an entry of that
\* size and fills it: a MemBuffer of zeroed chunks, or past MEM_LIMIT a
\* FileBuffer whose scratch file is empty and whose _length is the size.
\* mknod makes Buffer(0).
Init ==
  \E s \in 0..MaxInit : \E content \in [1..s -> Bytes] :
    /\ crashed = FALSE
    /\ ref = content
    /\ IF s > MEM_LIMIT
       THEN /\ form = "file" /\ fbytes = content /\ flen = s
            /\ chunks = <<>> /\ len = 0
       ELSE LET st == FillMem([chunks |-> [k \in 1..ChunksCount(s) |-> Zeroed], len |-> s],
                              content, 0)
            IN /\ form = "mem" /\ chunks = st.chunks /\ len = st.len
               /\ fbytes = <<>> /\ flen = 0

\* What the host's file holds after a write that reports n bytes written.
RefWrite(f, data, off, n) == IF n = 0 THEN f ELSE PWrite(f, SubSeq(data, 1, n), off)

\* Buffer::write of data at off, through FileSystem::write: a MemBuffer
\* whose write would end past MEM_LIMIT is flushed to a new FileBuffer of
\* its _length first; the host is told the count the write returns.
Write(off, data) ==
  /\ ~crashed
  /\ off + Len(data) <= MaxLen
  /\ IF form = "mem" /\ off + Len(data) <= MEM_LIMIT
     THEN \E junk \in Junk(chunks, data, off) :
            LET r == MemWrite(chunks, data, off, junk) IN
            /\ chunks' = r.chunks /\ len' = r.len
            /\ ref' = RefWrite(ref, data, off, r.ret)
            /\ UNCHANGED <<form, fbytes, flen>>
     ELSE LET f0 == IF form = "mem" THEN FlushBytes(chunks, 0, len) ELSE fbytes
              l0 == IF form = "mem" THEN len ELSE flen
          IN /\ form' = "file"
             /\ fbytes' = PWrite(f0, data, off)
             /\ flen' = IF off + Len(data) > l0 THEN off + Len(data) ELSE l0
             /\ chunks' = <<>> /\ len' = 0
             /\ ref' = RefWrite(ref, data, off, Len(data))
  /\ UNCHANGED crashed

\* Buffer::truncate, through FileSystem::truncate of a node with a buffer:
\* MemBuffer::truncate, which dies on the overrunning memset, or ftruncate
\* of the scratch file, which leaves FileBuffer::_length as it was.
Truncate(size) ==
  /\ ~crashed
  /\ size <= MaxLen
  /\ IF form = "mem"
     THEN IF TruncateOverruns(size)
          THEN /\ crashed' = TRUE
               /\ UNCHANGED <<chunks, len, ref>>
          ELSE /\ chunks' = MemTruncated(size) /\ len' = size
               /\ ref' = FTruncate(ref, size)
               /\ UNCHANGED crashed
     ELSE /\ fbytes' = FTruncate(fbytes, size)
          /\ ref' = FTruncate(ref, size)
          /\ UNCHANGED <<chunks, len, crashed>>
  /\ UNCHANGED <<form, flen>> /\ (form = "mem" => UNCHANGED fbytes)

\* The process is gone.
Halted == crashed /\ UNCHANGED vars

Next ==
  \/ \E off \in 0..MaxLen, data \in Data : Write(off, data)
  \/ \E size \in 0..MaxLen : Truncate(size)
  \/ Halted

Spec == Init /\ [][Next]_vars

-----------------------------------------------------------------------------
(* Properties.                                                              *)

\* Every chunk MemBuffer::read, write and flushToFile index for the bytes
\* below _length exists: writes add the chunks they need, truncate keeps
\* the ones the new size needs.
ChunksCover == form = "mem" => Len(chunks) >= ChunksCount(len)

\* The buffer behaves as the file the host wrote: its length() (which the
\* save's callbacks report) is the file's size, and every read FileSystem
\* hands to the host returns the file's bytes, whatever the writes,
\* truncates and the move to a FileBuffer did before; the process does not
\* die on the way.
ContentMatchesRef ==
  /\ ~crashed
  /\ BufLength = Len(ref)
  /\ \A off \in 0..Len(ref), n \in 1..MaxLen : BufRead(n, off) = PRead(ref, n, off)

=============================================================================
