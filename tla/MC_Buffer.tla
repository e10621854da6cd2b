------------------------------ MODULE MC_Buffer ------------------------------
(* Buffer with two-byte chunks, promotion past three bytes, and writes and *)
(* truncates up to five bytes: enough for a write spanning three chunks,   *)
(* an unaligned write or read across a chunk boundary, a shrink past one   *)
(* chunk, and a move to a FileBuffer.                                       *)
EXTENDS Buffer

MC_Bytes == {1, 2}
=============================================================================
