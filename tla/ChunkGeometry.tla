--------------------------- MODULE ChunkGeometry ----------------------------
(***************************************************************************)
(* How a file is cut into chunks: how many there are, how long each is,    *)
(* and from which chunk a stream resumes.  Every chunk but the last has    *)
(* ChunkBytes bytes; sizes and offsets are whole numbers of bytes, far     *)
(* below the width the code stores them in (25600 chunks at 100 GiB).      *)
(***************************************************************************)
EXTENDS Integers

CONSTANT ChunkBytes    \* TRANSFER_CHUNK_BYTES, 4 MiB in the code

ASSUME ChunkBytesAssumption == ChunkBytes \in Nat \ {0}

\* expected_chunk_count
ChunkCount(size) == IF size = 0 THEN 0 ELSE (size - 1) \div ChunkBytes + 1

\* expected_chunk_length, for the index of a chunk of the file
ChunkLength(size, index) ==
    IF index + 1 < ChunkCount(size) THEN ChunkBytes ELSE size - index * ChunkBytes

\* The offsets a stream may start from and an acknowledgement may name.
IsResumeOffset(size, offset) ==
    /\ offset \in 0..size
    /\ offset = size \/ offset % ChunkBytes = 0

\* validate_resume_offset: the index of the next chunk
ResumeIndex(size, offset) ==
    IF offset = size THEN ChunkCount(size) ELSE offset \div ChunkBytes

\* validate_frame_header: the header is that of this chunk, and stays in the file
IsFrameOf(index, length, expected, size) ==
    /\ index = expected /\ expected < ChunkCount(size)
    /\ length \in 1..ChunkBytes
    /\ length = ChunkLength(size, expected)
    /\ expected * ChunkBytes + length <= size
=============================================================================
