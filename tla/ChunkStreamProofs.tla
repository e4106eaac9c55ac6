------------------------- MODULE ChunkStreamProofs -------------------------
(***************************************************************************)
(* The arithmetic of chunks, for every size of a chunk and of a file, and  *)
(* then the stream: what the receiver has committed is, byte by byte, what *)
(* the manifest was built from.                                            *)
(*                                                                         *)
(* StreamInv, at the end of ChunkStream, says where the two tasks are with *)
(* respect to each other; here it is shown to hold at first and to be kept *)
(* by every action.                                                        *)
(***************************************************************************)
EXTENDS ChunkStream, SequenceTheorems, TLAPS

-----------------------------------------------------------------------------
\* Division with remainder, the only fact about \div and % the rest needs.
LEMMA Division ==
    ASSUME NEW n \in Nat
    PROVE  /\ n \div ChunkBytes \in Nat
           /\ n % ChunkBytes \in 0..(ChunkBytes - 1)
           /\ n = (n \div ChunkBytes) * ChunkBytes + (n % ChunkBytes)
BY ChunkBytesAssumption, SMTT(30)

\* The chunks of a file that is not empty cover it, and all but the last leave something
\* (expected_chunk_count).
LEMMA CountBounds ==
    ASSUME NEW size \in Nat \ {0}
    PROVE  /\ ChunkCount(size) \in Nat \ {0}
           /\ (ChunkCount(size) - 1) * ChunkBytes < size
           /\ size <= ChunkCount(size) * ChunkBytes
BY ChunkBytesAssumption, Division, SMTT(30) DEF ChunkCount

\* There is a whole number of chunks (expected_chunk_count).
LEMMA CountType == ASSUME NEW size \in Nat PROVE ChunkCount(size) \in Nat
<1>1. CASE size = 0
  BY <1>1 DEF ChunkCount
<1>2. CASE size # 0
  BY <1>2, CountBounds
<1> QED BY <1>1, <1>2

\* A product grows with each factor.
LEMMA Monotone ==
    ASSUME NEW i \in Nat, NEW j \in Nat, i <= j
    PROVE  i * ChunkBytes <= j * ChunkBytes
BY ChunkBytesAssumption, SMTT(30)

\* A multiple of the chunk size is no remainder over it.
LEMMA Multiple ==
    ASSUME NEW i \in Nat
    PROVE  /\ i * ChunkBytes \in Nat
           /\ (i * ChunkBytes) % ChunkBytes = 0
           /\ (i * ChunkBytes) \div ChunkBytes = i
BY ChunkBytesAssumption, SMTT(30)

\* Every chunk of a file has between one byte and a full chunk, the chunks follow each
\* other without a gap, and the last one ends with the file (expected_chunk_count,
\* expected_chunk_length).
THEOREM ChunksTile ==
    ASSUME NEW size \in Nat, NEW index \in 0..(ChunkCount(size) - 1)
    PROVE  /\ ChunkLength(size, index) \in 1..ChunkBytes
           /\ index * ChunkBytes + ChunkLength(size, index) =
                 IF index + 1 < ChunkCount(size) THEN (index + 1) * ChunkBytes ELSE size
           /\ index * ChunkBytes + ChunkLength(size, index) <= size
<1>1. size \in Nat \ {0} /\ ChunkCount(size) \in Nat \ {0}
  BY CountType, CountBounds DEF ChunkCount
<1>2. /\ (ChunkCount(size) - 1) * ChunkBytes < size
      /\ size <= ChunkCount(size) * ChunkBytes
  BY <1>1, CountBounds
<1>3. CASE index + 1 < ChunkCount(size)
  <2>1. (index + 1) * ChunkBytes <= (ChunkCount(size) - 1) * ChunkBytes
    BY <1>1, <1>3, Monotone
  <2>2. index * ChunkBytes + ChunkBytes = (index + 1) * ChunkBytes
    BY ChunkBytesAssumption
  <2> QED
    BY <1>1, <1>2, <1>3, <2>1, <2>2, ChunkBytesAssumption DEF ChunkLength
<1>4. CASE index + 1 = ChunkCount(size)
  <2>1. index = ChunkCount(size) - 1
    BY <1>1, <1>4
  <2>2. ChunkCount(size) * ChunkBytes = (ChunkCount(size) - 1) * ChunkBytes + ChunkBytes
    BY <1>1, ChunkBytesAssumption
  <2>3. index * ChunkBytes \in Nat
    BY Multiple
  <2> QED
    BY <1>1, <1>2, <1>4, <2>1, <2>2, <2>3, ChunkBytesAssumption DEF ChunkLength
<1> QED BY <1>1, <1>3, <1>4

\* A resume offset that is not the end is the first byte of the chunk whose index the
\* stream resumes from (validate_resume_offset).
THEOREM ResumeIsAligned ==
    ASSUME NEW size \in Nat, NEW offset, IsResumeOffset(size, offset), offset # size
    PROVE  /\ ResumeIndex(size, offset) \in 0..(ChunkCount(size) - 1)
           /\ ResumeIndex(size, offset) * ChunkBytes = offset
<1>1. offset \in Nat /\ offset < size /\ size \in Nat \ {0}
  BY DEF IsResumeOffset
<1>2. offset % ChunkBytes = 0 /\ ResumeIndex(size, offset) = offset \div ChunkBytes
  BY DEF IsResumeOffset, ResumeIndex
<1> DEFINE index == ResumeIndex(size, offset)
<1>3. index \in Nat /\ index * ChunkBytes = offset
  <2>1. /\ offset \div ChunkBytes \in Nat
        /\ offset = (offset \div ChunkBytes) * ChunkBytes + (offset % ChunkBytes)
    BY <1>1, Division
  <2> QED BY <1>1, <1>2, <2>1, ChunkBytesAssumption
<1>4. ChunkCount(size) \in Nat \ {0} /\ size <= ChunkCount(size) * ChunkBytes
  BY <1>1, CountBounds
<1>5. index < ChunkCount(size)
  <2>1. SUFFICES ASSUME ChunkCount(size) <= index PROVE FALSE
    BY <1>3, <1>4
  <2>2. ChunkCount(size) * ChunkBytes <= index * ChunkBytes
    BY <1>3, <1>4, <2>1, Monotone
  <2>3. ChunkCount(size) * ChunkBytes \in Nat
    BY <1>4, Multiple
  <2> HIDE DEF index
  <2> QED BY <1>1, <1>3, <1>4, <2>2, <2>3
<1> QED BY <1>3, <1>4, <1>5

\* After the chunk a stream resumes from, the next one may be resumed from, and its index
\* is one more: acknowledged progress never falls between two chunks
\* (receive_acknowledged_chunks, validate_acknowledgement).
THEOREM NextIsResumable ==
    ASSUME NEW size \in Nat, NEW offset, IsResumeOffset(size, offset), offset # size
    PROVE  LET index == ResumeIndex(size, offset)
               next == offset + ChunkLength(size, index)
           IN  /\ IsResumeOffset(size, next)
               /\ next > offset
               /\ ResumeIndex(size, next) = index + 1
<1> DEFINE index == ResumeIndex(size, offset)
           length == ChunkLength(size, index)
<1>1. offset \in Nat /\ offset < size
  BY DEF IsResumeOffset
<1>2. index \in 0..(ChunkCount(size) - 1) /\ index * ChunkBytes = offset
  BY ResumeIsAligned
<1>3. ChunkCount(size) \in Nat
  BY CountType
<1>4. /\ length \in 1..ChunkBytes
      /\ offset + length = IF index + 1 < ChunkCount(size) THEN (index + 1) * ChunkBytes ELSE size
      /\ offset + length <= size
  BY <1>2, ChunksTile
<1> HIDE DEF index, length
<1>5. CASE index + 1 < ChunkCount(size)
  <2>1. offset + length = (index + 1) * ChunkBytes
    BY <1>4, <1>5
  <2>2. /\ (index + 1) * ChunkBytes \in Nat
        /\ ((index + 1) * ChunkBytes) % ChunkBytes = 0
        /\ ((index + 1) * ChunkBytes) \div ChunkBytes = index + 1
    BY <1>2, <1>3, Multiple
  <2>3. (index + 1) * ChunkBytes # size
    <3>1. size \in Nat \ {0}
      BY <1>1
    <3>2. (ChunkCount(size) - 1) * ChunkBytes < size
      BY <3>1, CountBounds
    <3>3. (index + 1) * ChunkBytes <= (ChunkCount(size) - 1) * ChunkBytes
      BY <1>2, <1>3, <1>5, Monotone
    <3>4. (ChunkCount(size) - 1) * ChunkBytes \in Nat
      BY <1>2, <1>3, <1>5, Multiple
    <3> QED BY <2>2, <3>1, <3>2, <3>3, <3>4
  <2>4. IsResumeOffset(size, offset + length)
    BY <1>1, <1>4, <2>1, <2>2 DEF IsResumeOffset
  <2>5. ResumeIndex(size, offset + length) = index + 1
    BY <2>1, <2>2, <2>3 DEF ResumeIndex
  <2> QED BY <1>1, <1>4, <2>4, <2>5, ChunkBytesAssumption DEF index, length
<1>6. CASE index + 1 = ChunkCount(size)
  <2>1. offset + length = size
    BY <1>2, <1>3, <1>4, <1>6
  <2>2. IsResumeOffset(size, size) /\ ResumeIndex(size, size) = index + 1
    BY <1>6 DEF IsResumeOffset, ResumeIndex
  <2>3. length > 0
    BY <1>4
  <2> QED BY <1>1, <2>1, <2>2, <2>3 DEF index, length
<1> QED BY <1>2, <1>3, <1>5, <1>6

\* The frame an honest sender builds for a chunk of the file is never refused
\* (validate_frame_header).
THEOREM HonestFrameFits ==
    ASSUME NEW size \in Nat, NEW index \in 0..(ChunkCount(size) - 1)
    PROVE  IsFrameOf(index, ChunkLength(size, index), index, size)
BY ChunksTile, CountType DEF IsFrameOf

-----------------------------------------------------------------------------
\* The size the manifest is built for, and the number of its chunks, are numbers.
LEMMA SizeType == ASSUME TypeOK PROVE Size \in Nat /\ ChunkCount(Size) \in Nat
BY CountType DEF TypeOK, Size

\* Which chunk a byte of the file is in, and where in it (Original).
LEMMA ByteOfChunk ==
  ASSUME NEW i \in Nat, NEW j \in 1..ChunkBytes
  PROVE  /\ (i * ChunkBytes + j - 1) \div ChunkBytes = i
         /\ (i * ChunkBytes + j - 1) % ChunkBytes = j - 1
<1> DEFINE p == i * ChunkBytes
<1>1. p \in Nat /\ p % ChunkBytes = 0 /\ p \div ChunkBytes = i
  BY Multiple
<1>2. ChunkBytes \in Nat \ {0}
  BY ChunkBytesAssumption
<1> DEFINE q == (p + j - 1) \div ChunkBytes
           r == (p + j - 1) % ChunkBytes
<1>3. q \in Nat /\ r \in 0..(ChunkBytes - 1) /\ p + j - 1 = q * ChunkBytes + r
  BY <1>1, <1>2, Division
<1>4. q * ChunkBytes + r = i * ChunkBytes + (j - 1)
  BY <1>3, <1>1, <1>2
<1>5. CASE q < i
  <2>1. (q + 1) * ChunkBytes <= i * ChunkBytes
    BY <1>3, <1>5, Monotone
  <2>2. (q + 1) * ChunkBytes = q * ChunkBytes + ChunkBytes
    BY <1>2, <1>3
  <2> QED
    BY <1>1, <1>2, <1>3, <1>4, <2>1, <2>2, Multiple
<1>6. CASE i < q
  <2>1. (i + 1) * ChunkBytes <= q * ChunkBytes
    BY <1>3, <1>6, Monotone
  <2>2. (i + 1) * ChunkBytes = i * ChunkBytes + ChunkBytes
    BY <1>2
  <2> QED
    BY <1>1, <1>2, <1>3, <1>4, <2>1, <2>2, Multiple
<1>7. q = i
  BY <1>3, <1>5, <1>6
<1> QED
  BY <1>3, <1>4, <1>7, <1>1, <1>2

\* Where an offset that is not the end lies, and what comes next.
LEMMA AtOffset ==
  ASSUME TypeOK, NEW o, IsResumeOffset(Size, o), o # Size
  PROVE  /\ o \in Nat /\ o < Size
         /\ ResumeIndex(Size, o) \in 0..(ChunkCount(Size) - 1)
         /\ ResumeIndex(Size, o) * ChunkBytes = o
         /\ ChunkLength(Size, ResumeIndex(Size, o)) \in 1..ChunkBytes
         /\ o + ChunkLength(Size, ResumeIndex(Size, o)) <= Size
         /\ IsResumeOffset(Size, o + ChunkLength(Size, ResumeIndex(Size, o)))
         /\ ResumeIndex(Size, o + ChunkLength(Size, ResumeIndex(Size, o)))
               = ResumeIndex(Size, o) + 1
<1>1. Size \in Nat
  BY SizeType
<1>2. o \in Nat /\ o < Size
  BY <1>1 DEF IsResumeOffset
<1>3. /\ ResumeIndex(Size, o) \in 0..(ChunkCount(Size) - 1)
      /\ ResumeIndex(Size, o) * ChunkBytes = o
  BY <1>1, ResumeIsAligned
<1>4. /\ ChunkLength(Size, ResumeIndex(Size, o)) \in 1..ChunkBytes
      /\ ResumeIndex(Size, o) * ChunkBytes + ChunkLength(Size, ResumeIndex(Size, o)) <= Size
  BY <1>1, <1>3, ChunksTile
<1>5. /\ IsResumeOffset(Size, o + ChunkLength(Size, ResumeIndex(Size, o)))
      /\ ResumeIndex(Size, o + ChunkLength(Size, ResumeIndex(Size, o)))
            = ResumeIndex(Size, o) + 1
  BY <1>1, NextIsResumable
<1> QED
  BY <1>2, <1>3, <1>4, <1>5

\* A list of chunks with the right lengths passes the test: the sums are the chunks' ends.
LEMMA RightLengthsFit ==
  ASSUME TypeOK, NEW list \in Seq(Seq(Bytes)), Len(list) = ChunkCount(Size),
         \A i \in DOMAIN list : Len(list[i]) = ChunkLength(Size, i - 1)
  PROVE  GeometryIsValid(list)
<1> DEFINE n == Len(list)
           total == [i \in 0..n |-> IF i = n THEN Size ELSE i * ChunkBytes]
<1>1. Size \in Nat /\ n \in Nat /\ n = ChunkCount(Size) /\ DOMAIN list = 1..n
  BY SizeType
<1>2. ASSUME NEW i \in 1..n
      PROVE  /\ i - 1 \in 0..(ChunkCount(Size) - 1)
             /\ (i - 1) * ChunkBytes + Len(list[i]) = total[i]
             /\ total[i - 1] = (i - 1) * ChunkBytes
             /\ total[i] \in 0..Size /\ (i - 1) * ChunkBytes \in 0..Size
  <2>1. i - 1 \in 0..(ChunkCount(Size) - 1) /\ i - 1 \in Nat /\ i - 1 # n
    BY <1>1
  <2>2. /\ ChunkLength(Size, i - 1) \in 1..ChunkBytes
        /\ (i - 1) * ChunkBytes + ChunkLength(Size, i - 1) =
              IF (i - 1) + 1 < ChunkCount(Size) THEN ((i - 1) + 1) * ChunkBytes ELSE Size
        /\ (i - 1) * ChunkBytes + ChunkLength(Size, i - 1) <= Size
    BY <1>1, <2>1, ChunksTile
  <2>3. (i - 1) * ChunkBytes \in Nat /\ ChunkLength(Size, i - 1) \in Nat
    BY <2>1, <2>2, Multiple, ChunkBytesAssumption
  <2>4. Len(list[i]) = ChunkLength(Size, i - 1)
    BY <1>1
  <2>7. (i - 1) + 1 = i
    BY <1>1
  <2>5. total[i] = (i - 1) * ChunkBytes + Len(list[i])
    BY <1>1, <2>2, <2>4, <2>7
  <2>6. total[i - 1] = (i - 1) * ChunkBytes
    BY <1>1, <2>1
  <2> QED
    BY <1>1, <2>1, <2>2, <2>3, <2>4, <2>5, <2>6
<1>3. total[0] = 0
  <2>1. CASE n = 0
    <3>1. Size = 0
      BY <1>1, <2>1, CountBounds
    <3> QED
      BY <2>1, <3>1
  <2>2. CASE n # 0
    BY <1>1, <2>2, ChunkBytesAssumption
  <2> QED
    BY <2>1, <2>2
<1>4. total \in [0..n -> 0..Size]
  <2>1. ASSUME NEW i \in 0..n PROVE total[i] \in 0..Size
    <3>1. CASE i = 0
      BY <1>1, <1>3, <3>1
    <3>2. CASE i # 0
      <4>1. i \in 1..n
        BY <1>1, <3>2
      <4> QED
        BY <1>2, <4>1
    <3> QED
      BY <3>1, <3>2
  <2> QED
    BY <2>1
<1>5. total[n] = Size
  BY <1>1
<1>6. \A i \in DOMAIN list : total[i] = total[i - 1] + Len(list[i])
  BY <1>1, <1>2
<1> HIDE DEF total
<1> QED
  BY <1>3, <1>4, <1>5, <1>6 DEF GeometryIsValid

\* The chunk at a place that is not the end: its length, the next place, and its bytes.
LEMMA ChunkAt ==
  ASSUME TypeOK, ManifestFits, prepared = "saved",
         NEW o, IsResumeOffset(Size, o), o # Size,
         NEW c, c = chunks[ResumeIndex(Size, o) + 1]
  PROVE  /\ ResumeIndex(Size, o) \in Nat /\ ResumeIndex(Size, o) < Len(chunks)
         /\ ResumeIndex(Size, o) * ChunkBytes = o
         /\ c \in Seq(Bytes) /\ Len(c) = ChunkLength(Size, ResumeIndex(Size, o))
         /\ Len(c) \in 1..ChunkBytes /\ o \in Nat /\ o + Len(c) <= Size
         /\ IsResumeOffset(Size, o + Len(c))
         /\ ResumeIndex(Size, o + Len(c)) = ResumeIndex(Size, o) + 1
         /\ \A k \in (o + 1)..(o + Len(c)) : Original(k) = c[k - o]
<1> DEFINE i == ResumeIndex(Size, o)
<1>1. /\ o \in Nat /\ i \in 0..(ChunkCount(Size) - 1) /\ i * ChunkBytes = o
      /\ ChunkLength(Size, i) \in 1..ChunkBytes /\ o + ChunkLength(Size, i) <= Size
      /\ IsResumeOffset(Size, o + ChunkLength(Size, i))
      /\ ResumeIndex(Size, o + ChunkLength(Size, i)) = i + 1
  BY AtOffset
<1>2. Len(chunks) = ChunkCount(Size) /\ DOMAIN chunks = 1..Len(chunks) /\ ChunkCount(Size) \in Nat
  BY SizeType DEF ManifestFits, TypeOK
<1>3. i \in Nat /\ i < Len(chunks) /\ i + 1 \in DOMAIN chunks /\ (i + 1) - 1 = i
  BY <1>1, <1>2
<1> HIDE DEF i
<1>4. c \in Seq(Bytes)
  BY <1>3 DEF TypeOK, i
<1>5. Len(c) = ChunkLength(Size, (i + 1) - 1)
  BY <1>3 DEF ManifestFits, i
<1>6. Len(c) = ChunkLength(Size, i)
  BY <1>3, <1>5
<1>7. ASSUME NEW k \in (o + 1)..(o + Len(c)) PROVE Original(k) = c[k - o]
  <2> DEFINE j == k - o
  <2> DEFINE p == i * ChunkBytes
  <2>5. Len(c) \in 1..ChunkBytes /\ p = o /\ o \in Nat /\ ChunkBytes \in Nat
    BY <1>1, <1>6, ChunkBytesAssumption DEF i
  <2> HIDE DEF p
  <2>6. j \in 1..ChunkBytes /\ k - 1 = p + j - 1
    BY <2>5
  <2>1. j \in 1..ChunkBytes /\ k - 1 = i * ChunkBytes + j - 1
    BY <2>6 DEF p
  <2>2. (k - 1) \div ChunkBytes = i /\ (k - 1) % ChunkBytes = j - 1
    BY <2>1, <1>3, ByteOfChunk
  <2>3. Original(k) = chunks[i + 1][(j - 1) + 1]
    BY <2>2 DEF Original
  <2>4. (j - 1) + 1 = k - o
    BY <2>1
  <2> QED
    BY <2>3, <2>4 DEF i
<1> QED
  BY <1>1, <1>3, <1>4, <1>6, <1>7 DEF i

\* The end is the place past the last chunk, and no other place is.
LEMMA EndIsPast ==
  ASSUME TypeOK, ManifestFits, prepared = "saved", IsResumeOffset(Size, position)
  PROVE  LastSent <=> position = Size
<1>1. Len(chunks) = ChunkCount(Size) /\ ChunkCount(Size) \in Nat
  BY SizeType DEF ManifestFits
<1>2. CASE position = Size
  BY <1>1, <1>2 DEF LastSent, NextChunk, ResumeIndex
<1>3. CASE position # Size
  <2>1. NextChunk \in 0..(ChunkCount(Size) - 1)
    BY <1>3, AtOffset DEF NextChunk
  <2> QED
    BY <1>1, <1>3, <2>1 DEF LastSent
<1> QED
  BY <1>2, <1>3

\* The start of a file is a place, and no chunk comes before it.
LEMMA NothingCommitted ==
  ASSUME NEW size \in Nat PROVE ResumeIndex(size, 0) = 0 /\ IsResumeOffset(size, 0)
BY ChunkBytesAssumption, Multiple, SMTT(30) DEF ResumeIndex, IsResumeOffset, ChunkCount

\* At first nothing is read, sent or stored (Init).
LEMMA StreamStarts == ASSUME Sizes \subseteq Nat, Init PROVE StreamInv
<1> PICK n \in Sizes : source = [bytes |-> [k \in 1..n |-> Byte(k, 0)], stamp |-> 0]
  BY DEF Init
<1>1. n \in Nat /\ source.bytes \in Seq(Bytes) /\ Len(source.bytes) = n /\ source.stamp = 0
  BY DEF Byte, Bytes
<1>2. source \in [bytes : Seq(Bytes), stamp : Nat]
  BY <1>1
<1>3. snapshot = [size |-> n, stamp |-> 0] /\ Size = n
  BY <1>1 DEF Init, Size
<1>4. chunks = <<>> /\ frame = <<>> /\ partial = <<>> /\ recorded = <<>> /\ committed = 0
  BY DEF Init
<1>5. TypeOK
  BY <1>1, <1>2, <1>3, <1>4 DEF Init, TypeOK
<1>6. ManifestFits
  BY <1>1, <1>3, <1>4, <1>5, SizeType DEF Init, ManifestFits
<1>7. ManifestIsSource
  BY <1>1, <1>3, <1>4 DEF Init, ManifestIsSource, SourceIsSnapshot, Size
<1>8. ReceiverAt /\ SenderAt
  BY <1>4 DEF Init, ReceiverAt, SenderAt, NoAnswer
<1>9. ResumeIndex(Size, 0) = 0 /\ IsResumeOffset(Size, 0)
  BY <1>1, <1>3, NothingCommitted
<1>10. StoredIsOriginal
  BY <1>4, <1>9 DEF Init, StoredIsOriginal
<1> QED
  BY <1>5, <1>6, <1>7, <1>8, <1>10 DEF StreamInv

\* A piece of a sequence.
LEMMA Piece ==
  ASSUME NEW S, NEW s \in Seq(S), NEW a \in Nat, NEW n \in Nat, a + n <= Len(s)
  PROVE  /\ SubSeq(s, a + 1, a + n) \in Seq(S)
         /\ Len(SubSeq(s, a + 1, a + n)) = n
         /\ \A i \in 1..n : SubSeq(s, a + 1, a + n)[i] = s[a + i]
<1>1. a + 1 \in Int /\ a + n \in Int /\ \A i \in (a + 1)..(a + n) : s[i] \in S
  OBVIOUS
<1>2. /\ SubSeq(s, a + 1, a + n) \in Seq(S)
      /\ Len(SubSeq(s, a + 1, a + n)) =
            IF a + 1 <= a + n THEN (a + n) - (a + 1) + 1 ELSE 0
      /\ \A i \in 1..((a + n) - (a + 1) + 1) :
            SubSeq(s, a + 1, a + n)[i] = s[(a + 1) + i - 1]
  BY <1>1, SubSeqProperties
<1>3. (a + n) - (a + 1) + 1 = n /\ \A i \in 1..n : (a + 1) + i - 1 = a + i
  OBVIOUS
<1>4. Len(SubSeq(s, a + 1, a + n)) = n
  BY <1>2
<1> QED
  BY <1>2, <1>3, <1>4

\* The source changes (EditSource).
LEMMA EditSourceKept == ASSUME StreamInv, EditSource PROVE StreamInv'
<1> USE DEF StreamInv, EditSource, file, manifest, sender, wire, receiver
<1>1. source' \in [bytes : Seq(Bytes), stamp : Nat]
  <2> PICK b \in {Append(source.bytes, Byte(Len(source.bytes) + 1, edits'))}
                    \cup {Front(source.bytes) : k \in DOMAIN source.bytes}
                    \cup {[source.bytes EXCEPT ![k] = Byte(k, edits')] :
                             k \in DOMAIN source.bytes},
           t \in {source.stamp, source.stamp + 1} :
           source' = [bytes |-> b, stamp |-> t]
    OBVIOUS
  <2>1. /\ source.bytes \in Seq(Bytes) /\ source.stamp \in Nat /\ edits' \in Nat
        /\ Len(source.bytes) \in Nat /\ DOMAIN source.bytes = 1..Len(source.bytes)
    BY DEF TypeOK
  <2>2. Append(source.bytes, Byte(Len(source.bytes) + 1, edits')) \in Seq(Bytes)
    BY <2>1 DEF Byte, Bytes
  <2>3. ASSUME NEW k \in DOMAIN source.bytes
        PROVE  /\ Front(source.bytes) \in Seq(Bytes)
               /\ [source.bytes EXCEPT ![k] = Byte(k, edits')] \in Seq(Bytes)
    <3>1. Byte(k, edits') \in Bytes
      BY <2>1 DEF Byte, Bytes
    <3>2. 1 \in Int /\ Len(source.bytes) - 1 \in Int /\ 1 <= Len(source.bytes)
      BY <2>1
    <3>3. SubSeq(source.bytes, 1, Len(source.bytes) - 1) \in Seq(Bytes)
      BY <2>1, <3>2, SubSeqProperties
    <3> QED
      BY <2>1, <3>1, <3>3, ExceptSeq DEF Front
  <2>4. b \in Seq(Bytes)
    BY <2>2, <2>3
  <2>5. t \in Nat
    BY <2>1
  <2> QED
    BY <2>4, <2>5
<1>2. TypeOK' /\ edits' # 0
  BY <1>1 DEF TypeOK
<1>3. ManifestFits'
  BY DEF ManifestFits, Size
<1>4. ManifestIsSource'
  BY <1>2 DEF ManifestIsSource
<1>5. ReceiverAt'
  BY DEF ReceiverAt, NextChunk, Original, Size
<1>6. SenderAt'
  BY DEF SenderAt, NextChunk, Original, Size, Expected, LastSent
<1>7. StoredIsOriginal'
  BY <1>2 DEF StoredIsOriginal, Original, Size
<1> QED
  BY <1>2, <1>3, <1>4, <1>5, <1>6, <1>7

\* A piece from the first element on, and the next one.
LEMMA OneMore ==
  ASSUME NEW S, NEW s \in Seq(S), NEW n \in Nat, n < Len(s)
  PROVE  SubSeq(s, 1, n + 1) = Append(SubSeq(s, 1, n), s[n + 1])
<1>1. n + 1 \in 1..Len(s) /\ 1 \in 1..Len(s) /\ n + 1 \in 1..Len(s) /\ (n + 1) - 1 = n
  OBVIOUS
<1>2. SubSeq(s, 1, n + 1) = SubSeq(s, 1, (n + 1) - 1) \o <<s[n + 1]>>
  BY <1>1, SubSeqRecursiveSecond
<1>3. SubSeq(s, 1, n) \in Seq(S) /\ s[n + 1] \in S
  BY <1>1, SubSeqProperties
<1> QED
  BY <1>1, <1>2, <1>3, AppendIsConcat

\* What is read of the source is as long as asked for.
LEMMA SourcePiece ==
  ASSUME TypeOK, NEW o \in Nat, NEW n \in Nat, CanRead(o, n)
  PROVE  SourceChunk(o, n) \in Seq(Bytes) /\ Len(SourceChunk(o, n)) = n
<1>1. source.bytes \in Seq(Bytes) /\ o + n <= Len(source.bytes)
  BY DEF TypeOK, CanRead
<1> QED
  BY <1>1, Piece DEF SourceChunk

\* Where the manifest is not saved yet, nothing is under way and nothing is stored.
LEMMA Unstarted ==
  ASSUME StreamInv, prepared # "saved"
  PROVE  /\ sending = "idle" /\ receiving = "idle" /\ outcome = "open" /\ committed = 0
         /\ frame = <<>> /\ answer = NoAnswer /\ recorded = <<>> /\ acked = 0
         /\ ResumeIndex(Size, 0) = 0
<1> USE DEF StreamInv
<1>1. sending = "idle" /\ receiving = "idle" /\ outcome = "open" /\ committed = 0
      /\ frame = <<>> /\ answer = NoAnswer
  BY DEF ManifestFits
<1>2. ResumeIndex(Size, 0) = 0
  BY SizeType, NothingCommitted
<1>3. SubSeq(chunks, 1, 0) = <<>>
  BY SubSeqEmpty
<1>4. recorded = <<>> /\ acked = 0
  BY <1>1, <1>2, <1>3 DEF StoredIsOriginal, TypeOK
<1> QED
  BY <1>1, <1>2, <1>4

\* And it stays so, while the manifest is read and saved.
LEMMA StillUnstarted ==
  ASSUME StreamInv, prepared # "saved", UNCHANGED <<snapshot, file, sender, wire, receiver, losses>>,
         ManifestIsSource'
  PROVE  ReceiverAt' /\ SenderAt' /\ StoredIsOriginal'
<1> USE DEF StreamInv, file, sender, wire, receiver
<1>1. SubSeq(chunks', 1, 0) = <<>>
  BY SubSeqEmpty
<1>2. ReceiverAt'
  BY Unstarted DEF ReceiverAt
<1>3. SenderAt'
  BY Unstarted DEF SenderAt
<1>4. Size' = Size /\ ResumeIndex(Size', committed') = 0 /\ IsResumeOffset(Size', committed')
  BY Unstarted DEF Size, StoredIsOriginal
<1>5. StoredIsOriginal'
  BY <1>1, <1>4, Unstarted DEF StoredIsOriginal, ManifestIsSource
<1> QED
  BY <1>2, <1>3, <1>5

\* One more chunk of the source is read for the manifest (ReadForManifest).
LEMMA ReadForManifestKept == ASSUME StreamInv, ReadForManifest PROVE StreamInv'
<1> DEFINE i == Len(chunks)
           l == ChunkLength(Size, i)
<1> USE DEF StreamInv
<1>1. /\ prepared = "reading" /\ i \in Nat /\ i \in 0..(ChunkCount(Size) - 1)
      /\ UNCHANGED <<snapshot, file, sender, wire, receiver, losses>> /\ Size' = Size
      /\ Size \in Nat /\ source.bytes \in Seq(Bytes) /\ DOMAIN chunks = 1..i
      /\ ChunkCount(Size) \in Nat
  BY SizeType DEF ReadForManifest, TypeOK, Size
<1>2. l \in 1..ChunkBytes /\ i * ChunkBytes + l <= Size /\ i * ChunkBytes \in Nat /\ l \in Nat
  <2>1. l \in 1..ChunkBytes /\ i * ChunkBytes + l <= Size
    BY <1>1, ChunksTile
  <2>2. i * ChunkBytes \in Nat
    BY <1>1, Multiple
  <2>3. l \in Nat
    BY <2>1, ChunkBytesAssumption
  <2> QED
    BY <2>1, <2>2, <2>3
<1>3. CASE /\ CanRead(i * ChunkBytes, l) /\ prepared' = prepared
           /\ chunks' = Append(chunks, SourceChunk(i * ChunkBytes, l))
  <2>1. /\ SourceChunk(i * ChunkBytes, l) \in Seq(Bytes)
        /\ Len(SourceChunk(i * ChunkBytes, l)) = l
    BY <1>2, <1>3, SourcePiece
  <2>2. /\ chunks' \in Seq(Seq(Bytes)) /\ Len(chunks') = i + 1 /\ DOMAIN chunks' = 1..(i + 1)
        /\ chunks'[i + 1] = SourceChunk(i * ChunkBytes, l)
        /\ \A k \in 1..i : chunks'[k] = chunks[k]
    BY <1>1, <1>3, <2>1 DEF TypeOK
  <2>3. TypeOK'
    BY <1>1, <1>3, <2>2 DEF TypeOK, file, sender, wire, receiver
  <2>4. \A k \in 1..(i + 1) : k \in 1..i \/ k = i + 1
    BY <1>1
  <2>5. (i + 1) - 1 = i
    BY <1>1
  <2>6. ManifestFits'
    <3>1. Len(chunks') <= ChunkCount(Size)
      BY <1>1, <2>2
    <3>2. ASSUME NEW k \in 1..(i + 1) PROVE Len(chunks'[k]) = ChunkLength(Size, k - 1)
      <4>1. CASE k \in 1..i
        BY <1>1, <2>2, <4>1 DEF ManifestFits
      <4>2. CASE k = i + 1
        BY <2>1, <2>2, <2>5, <4>2
      <4> QED
        BY <2>4, <4>1, <4>2
    <3> QED
      BY <1>1, <1>3, <2>2, <3>1, <3>2, Unstarted DEF ManifestFits, sender, wire, receiver
  <2>7. ManifestIsSource'
    <3>1. ASSUME edits = 0, NEW k \in 1..(i + 1)
          PROVE  chunks'[k] = SourceChunk((k - 1) * ChunkBytes, ChunkLength(Size, k - 1))
      <4>1. CASE k \in 1..i
        BY <1>1, <2>2, <3>1, <4>1 DEF ManifestIsSource
      <4>2. CASE k = i + 1
        BY <2>2, <2>5, <4>2
      <4> QED
        BY <2>4, <4>1, <4>2
    <3>2. (\A o, n : SourceChunk(o, n)' = SourceChunk(o, n)) /\ SourceIsSnapshot' = SourceIsSnapshot
      BY <1>1 DEF SourceChunk, SourceIsSnapshot, file
    <3> QED
      BY <1>1, <1>3, <2>2, <3>1, <3>2 DEF ManifestIsSource, file, sender
  <2> QED
    BY <1>1, <2>3, <2>6, <2>7, StillUnstarted
<1>4. CASE ~CanRead(i * ChunkBytes, l) /\ prepared' = "refused" /\ chunks' = chunks
  <2>1. edits # 0
    BY <1>1, <1>2, <1>4 DEF ManifestIsSource, SourceIsSnapshot, CanRead
  <2>2. TypeOK'
    BY <1>1, <1>4 DEF TypeOK, file, sender, wire, receiver
  <2>3. ManifestFits'
    BY <1>1, <1>4, Unstarted DEF ManifestFits, sender, wire, receiver
  <2>4. ManifestIsSource'
    BY <1>1, <2>1 DEF ManifestIsSource, file
  <2> QED
    BY <1>1, <2>2, <2>3, <2>4, StillUnstarted
<1> QED
  BY <1>3, <1>4 DEF ReadForManifest

\* The manifest is saved, or refused (SaveManifest).
LEMMA SaveManifestKept == ASSUME StreamInv, SaveManifest PROVE StreamInv'
<1> USE DEF StreamInv
<1>1. /\ prepared = "reading" /\ Len(chunks) = ChunkCount(Size)
      /\ prepared' = IF SourceIsSnapshot /\ GeometryIsValid(chunks) THEN "saved" ELSE "refused"
      /\ UNCHANGED <<snapshot, chunks, file, sender, wire, receiver, losses>> /\ Size' = Size
  BY DEF SaveManifest, Size
<1>2. TypeOK'
  BY <1>1 DEF TypeOK, file, sender, wire, receiver
<1>3. ManifestFits'
  BY <1>1, Unstarted DEF ManifestFits, sender, wire, receiver
<1>4. GeometryIsValid(chunks)
  BY <1>1, RightLengthsFit DEF TypeOK, ManifestFits
<1>5. (\A o, n : SourceChunk(o, n)' = SourceChunk(o, n)) /\ SourceIsSnapshot' = SourceIsSnapshot
  BY <1>1 DEF SourceChunk, SourceIsSnapshot, file
<1>6. ManifestIsSource'
  BY <1>1, <1>4, <1>5 DEF ManifestIsSource, file, sender
<1> QED
  BY <1>1, <1>2, <1>3, <1>6, StillUnstarted

-----------------------------------------------------------------------------
\* Nothing happens on a stream before the manifest is saved (SaveManifest).
LEMMA Saved ==
  ASSUME StreamInv, sending # "idle" \/ receiving # "idle" \/ frame # <<>> \/ answer # NoAnswer
  PROVE  prepared = "saved"
BY DEF StreamInv, ManifestFits

\* What leaves source and manifest alone leaves their agreement alone.
LEMMA SourceKept ==
  ASSUME StreamInv, UNCHANGED <<manifest, file>>
  PROVE  /\ Size' = Size /\ source' = source /\ edits' = edits /\ prepared' = prepared
         /\ snapshot' = snapshot /\ chunks' = chunks
         /\ \A k : Original(k)' = Original(k)
         /\ SourceIsSnapshot' = SourceIsSnapshot
         /\ \A o, n : SourceChunk(o, n)' = SourceChunk(o, n)
         /\ (edits = 0 => sending' # "failed") => ManifestIsSource'
<1>1. /\ Size' = Size /\ source' = source /\ edits' = edits /\ prepared' = prepared
      /\ snapshot' = snapshot /\ chunks' = chunks
  BY DEF manifest, file, Size
<1>2. \A k : Original(k)' = Original(k)
  BY <1>1 DEF Original
<1>3. SourceIsSnapshot' = SourceIsSnapshot /\ \A o, n : SourceChunk(o, n)' = SourceChunk(o, n)
  BY <1>1 DEF SourceIsSnapshot, SourceChunk
<1>4. (edits = 0 => sending' # "failed") => ManifestIsSource'
  BY <1>1, <1>3 DEF ManifestIsSource, StreamInv
<1> QED
  BY <1>1, <1>2, <1>3, <1>4

\* A stream is opened where the receiver has committed (OpenStream).
LEMMA OpenStreamKept == ASSUME StreamInv, OpenStream PROVE StreamInv'
<1> USE DEF StreamInv
<1>1. /\ prepared = "saved" /\ sending = "idle" /\ receiving = "idle" /\ outcome = "open"
      /\ frame' = <<>> /\ answer' = NoAnswer
      /\ UNCHANGED <<acked, recorded, committed, manifest, file, losses>>
      /\ partial \in Seq(Bytes) /\ committed \in Nat /\ committed <= Len(partial)
      /\ Len(partial) \in Nat
  BY DEF OpenStream, TypeOK, StoredIsOriginal
<1>2. ManifestFits'
  BY <1>1, SourceKept DEF ManifestFits
<1>3. CASE SenderMayStart /\ sending' = "sending" /\ position' = committed /\ OpenPartial
  <2>1. /\ partial' = SubSeq(partial, 1, committed) /\ synced' = committed
        /\ receiving' = "waiting" /\ outcome' = outcome
    BY <1>1, <1>3 DEF OpenPartial
  <2>2. /\ partial' \in Seq(Bytes) /\ Len(partial') = committed
        /\ \A k \in 1..committed : partial'[k] = partial[k]
    <3>1. SubSeq(partial, 1, committed) = SubSeq(partial, 0 + 1, 0 + committed)
      BY <1>1
    <3>2. 0 \in Nat /\ 0 + committed <= Len(partial) /\ \A k \in 1..committed : 0 + k = k
      BY <1>1
    <3> QED
      BY <1>1, <2>1, <3>1, <3>2, Piece
  <2>3. TypeOK'
    BY <1>1, <1>3, <2>1, <2>2 DEF TypeOK, manifest, file
  <2>4. ReceiverAt'
    BY <1>1, <2>1, <2>2 DEF ReceiverAt
  <2>5. SenderAt'
    BY <1>1, <1>3, <2>1 DEF SenderAt
  <2>6. StoredIsOriginal'
    <3>1. committed' = committed /\ acked' = acked /\ recorded' = recorded
      BY <1>1
    <3>2. \A k \in 1..committed' : partial'[k] = Original(k)'
      BY <2>2, <3>1, <1>1, SourceKept DEF StoredIsOriginal
    <3>3. committed' <= synced' /\ synced' <= Len(partial')
      BY <1>1, <2>1, <2>2, <3>1
    <3>4. outcome' = "open" /\ sending' = "sending"
      BY <1>1, <1>3, <2>1
    <3> QED
      BY <1>1, <3>1, <3>2, <3>3, <3>4, SourceKept DEF StoredIsOriginal
  <2> QED
    BY <1>1, <1>2, <1>3, <2>3, <2>4, <2>5, <2>6, SourceKept
<1>4. CASE ~SenderMayStart /\ sending' = "failed"
           /\ UNCHANGED <<position, partial, synced, receiving, outcome>>
  <2>1. GeometryIsValid(chunks) /\ IsResumeOffset(Size, committed)
    BY <1>1, RightLengthsFit DEF TypeOK, ManifestFits, StoredIsOriginal
  <2>2. edits # 0
    BY <1>4, <2>1 DEF SenderMayStart, ManifestIsSource
  <2>3. TypeOK'
    BY <1>1, <1>4 DEF TypeOK, manifest, file
  <2>4. ReceiverAt' /\ SenderAt'
    BY <1>1, <1>4 DEF ReceiverAt, SenderAt
  <2>5. StoredIsOriginal'
    BY <1>1, <1>4, <2>2, SourceKept DEF StoredIsOriginal
  <2> QED
    BY <1>1, <1>2, <2>2, <2>3, <2>4, <2>5, SourceKept
<1> QED
  BY <1>3, <1>4 DEF OpenStream

\* The sender reads a chunk and writes its frame, or fails (SendChunk).
LEMMA SendChunkKept == ASSUME StreamInv, SendChunk PROVE StreamInv'
<1> USE DEF StreamInv
<1> DEFINE c == chunks[NextChunk + 1]
<1>1. /\ sending = "sending" /\ ~LastSent /\ prepared = "saved"
      /\ UNCHANGED <<position, acked, answer, manifest, file, receiver, losses>>
      /\ position = committed /\ position # Size /\ IsResumeOffset(Size, position)
  BY Saved, EndIsPast DEF SendChunk, SenderAt, StoredIsOriginal
<1>2. /\ NextChunk \in Nat /\ NextChunk < Len(chunks) /\ NextChunk * ChunkBytes = position
      /\ c \in Seq(Bytes) /\ Len(c) = ChunkLength(Size, NextChunk)
      /\ Len(c) \in 1..ChunkBytes /\ position \in Nat /\ position + Len(c) <= Size
  BY <1>1, ChunkAt DEF NextChunk
<1>3. /\ committed < Size /\ receiving = "waiting" /\ answer = NoAnswer /\ Size \in Nat
      /\ frame = <<>>
  BY <1>1, <1>2, SizeType DEF SenderAt
<1>4. ManifestFits'
  BY <1>1, SourceKept DEF ManifestFits
<1>5. NextChunk' = NextChunk
  BY <1>1, SourceKept DEF NextChunk
<1>6. CASE frame' = <<[index |-> NextChunk, payload |-> c]>> /\ sending' = "waiting"
  <2>1. TypeOK'
    BY <1>1, <1>2, <1>6 DEF TypeOK, manifest, file, receiver
  <2>2. ReceiverAt'
    BY <1>1, <1>3 DEF ReceiverAt, receiver
  <2>3. SenderAt'
    BY <1>1, <1>3, <1>5, <1>6, SourceKept DEF SenderAt, receiver
  <2>4. StoredIsOriginal'
    BY <1>1, <1>6, SourceKept DEF StoredIsOriginal, receiver
  <2> QED
    BY <1>1, <1>4, <1>6, <2>1, <2>2, <2>3, <2>4, SourceKept
<1>7. CASE /\ frame' = <<>> /\ sending' = "failed"
           /\ ~(/\ CanRead(position, Len(c)) /\ SourceChunk(position, Len(c)) = c
                /\ IsFrameOf(NextChunk, Len(c), NextChunk, Size))
  <2>1. IsFrameOf(NextChunk, Len(c), NextChunk, Size)
    <3>1. NextChunk \in 0..(ChunkCount(Size) - 1)
      BY <1>1, <1>2, SizeType DEF ManifestFits
    <3> QED
      BY <1>2, <1>3, <3>1, HonestFrameFits
  <2>2. ASSUME edits = 0 PROVE FALSE
    <3>1. CanRead(position, Len(c))
      BY <1>2, <2>2 DEF CanRead, ManifestIsSource, SourceIsSnapshot
    <3>2. NextChunk + 1 \in DOMAIN chunks /\ (NextChunk + 1) - 1 = NextChunk
      BY <1>2 DEF TypeOK
    <3>3. c = SourceChunk(NextChunk * ChunkBytes, ChunkLength(Size, NextChunk))
      BY <2>2, <3>2 DEF ManifestIsSource
    <3> QED
      BY <1>2, <1>7, <2>1, <3>1, <3>3
  <2>3. TypeOK'
    BY <1>1, <1>7 DEF TypeOK, manifest, file, receiver
  <2>4. ReceiverAt' /\ SenderAt'
    BY <1>1, <1>3, <1>7 DEF ReceiverAt, SenderAt, receiver
  <2>5. StoredIsOriginal'
    BY <1>1, <1>7, <2>2, SourceKept DEF StoredIsOriginal, receiver
  <2> QED
    BY <1>1, <1>4, <2>2, <2>3, <2>4, <2>5, SourceKept
<1> QED
  BY <1>6, <1>7 DEF SendChunk

\* Nothing is left to send (AwaitEnd).
LEMMA AwaitEndKept == ASSUME StreamInv, AwaitEnd PROVE StreamInv'
<1> USE DEF StreamInv
<1>1. /\ sending = "sending" /\ LastSent /\ prepared = "saved" /\ sending' = "waiting"
      /\ UNCHANGED <<position, acked, wire, manifest, file, receiver, losses>>
      /\ position = committed /\ position = Size /\ IsResumeOffset(Size, position)
  BY Saved, EndIsPast DEF AwaitEnd, SenderAt, StoredIsOriginal
<1>2. /\ Expected' = position /\ Size \in Nat
  BY <1>1, SourceKept, SizeType DEF Expected, LastSent, NextChunk
<1>3. TypeOK'
  BY <1>1 DEF TypeOK, manifest, file, receiver, wire
<1>4. ManifestFits'
  BY <1>1, SourceKept DEF ManifestFits
<1>5. ReceiverAt'
  BY <1>1, <1>2 DEF ReceiverAt, receiver, wire
<1>6. SenderAt'
  BY <1>1, <1>2, SourceKept DEF SenderAt, receiver, wire
<1>7. StoredIsOriginal'
  BY <1>1, SourceKept DEF StoredIsOriginal, receiver
<1> QED
  BY <1>1, <1>3, <1>4, <1>5, <1>6, <1>7, SourceKept

\* The sender takes the acknowledgement it waits for (TakeAnswer).
LEMMA TakeAnswerKept == ASSUME StreamInv, TakeAnswer PROVE StreamInv'
<1> USE DEF StreamInv
<1>1. /\ sending = "waiting" /\ answer # NoAnswer /\ answer' = NoAnswer /\ prepared = "saved"
      /\ UNCHANGED <<frame, manifest, file, receiver, losses>>
      /\ answer = committed /\ answer = Expected /\ IsResumeOffset(Size, answer)
  BY Saved DEF TakeAnswer, SenderAt, StoredIsOriginal
<1>2. /\ position' = committed /\ acked' = committed
      /\ sending' = IF committed = Size THEN "done" ELSE "sending"
  BY <1>1 DEF TakeAnswer
<1>3. /\ committed \in Nat /\ Size \in Nat /\ committed <= Size /\ frame = <<>>
      /\ receiving \notin {"written", "synced"}
      /\ IF committed < Size THEN receiving = "waiting" ELSE outcome = "completed"
  BY <1>1, SizeType DEF SenderAt, ReceiverAt, IsResumeOffset, TypeOK
<1>4. TypeOK'
  BY <1>1, <1>2, <1>3 DEF TypeOK, manifest, file, receiver
<1>5. ManifestFits'
  BY <1>1, SourceKept DEF ManifestFits
<1>6. ReceiverAt'
  BY <1>1, <1>3 DEF ReceiverAt, receiver
<1>7. SenderAt'
  <2>1. /\ frame' = <<>> /\ answer' = NoAnswer /\ position' = committed'
        /\ committed' = committed /\ receiving' = receiving /\ Size' = Size
    BY <1>1, <1>2, <1>3, SourceKept DEF receiver
  <2>2. CASE committed = Size
    BY <1>2, <2>1, <2>2 DEF SenderAt
  <2>3. CASE committed # Size
    <3>1. committed < Size /\ receiving = "waiting"
      BY <1>3, <2>3
    <3> QED
      BY <1>2, <2>1, <2>3, <3>1 DEF SenderAt
  <2> QED
    BY <2>2, <2>3
<1>8. StoredIsOriginal'
  <2>1. acked' <= committed'
    <3>1. committed' = committed
      BY <1>1 DEF receiver
    <3> QED
      BY <1>2, <1>3, <3>1
  <2>3. "failed" # sending'
    BY <1>2
  <2>2. sending' = "done" => outcome' = "completed"
    BY <1>1, <1>2, <1>3 DEF receiver
  <2> QED
    BY <1>1, <2>1, <2>2, <2>3, SourceKept DEF StoredIsOriginal, receiver
<1> QED
  BY <1>1, <1>2, <1>4, <1>5, <1>6, <1>7, <1>8, SourceKept

\* The receiver writes the chunk of the frame behind what is committed (ReceiveChunk).
LEMMA ReceiveChunkKept == ASSUME StreamInv, ReceiveChunk PROVE StreamInv'
<1> USE DEF StreamInv
<1> DEFINE c == chunks[NextChunk + 1]
<1>1. /\ receiving = "waiting" /\ committed < Size /\ frame # <<>> /\ prepared = "saved"
      /\ frame = <<[index |-> NextChunk, payload |-> c]>> /\ frame' = <<>>
      /\ sending = "waiting" /\ position = committed /\ answer = NoAnswer
      /\ UNCHANGED <<synced, recorded, committed, answer, manifest, file, sender, losses>>
      /\ IsResumeOffset(Size, committed) /\ outcome = "open" /\ Len(partial) = committed
  BY Saved DEF ReceiveChunk, SenderAt, ReceiverAt, StoredIsOriginal
<1>2. /\ NextChunk \in Nat /\ NextChunk < Len(chunks) /\ NextChunk * ChunkBytes = committed
      /\ c \in Seq(Bytes) /\ Len(c) = ChunkLength(Size, NextChunk)
      /\ Len(c) \in 1..ChunkBytes /\ committed \in Nat /\ committed + Len(c) <= Size
      /\ \A k \in (committed + 1)..(committed + Len(c)) : Original(k) = c[k - committed]
      /\ Size \in Nat
  BY <1>1, ChunkAt, SizeType DEF NextChunk
<1>3. /\ Head(frame).index = NextChunk /\ Head(frame).payload = c
      /\ ResumeIndex(Size, committed) = NextChunk
  BY <1>1 DEF NextChunk
<1>4. IsFrameOf(NextChunk, Len(c), NextChunk, Size)
  <2>1. NextChunk \in 0..(ChunkCount(Size) - 1)
    BY <1>1, <1>2, SizeType DEF ManifestFits
  <2> QED
    BY <1>2, <2>1, HonestFrameFits
<1>5. /\ partial' = SubSeq(partial, 1, committed) \o c
      /\ receiving' = "written" /\ outcome' = outcome
  BY <1>3, <1>4 DEF ReceiveChunk
<1>6. /\ partial \in Seq(Bytes) /\ SubSeq(partial, 1, committed) = partial
      /\ partial' = partial \o c
  BY <1>1, <1>5, SubSeqFull DEF TypeOK
<1>7. /\ partial' \in Seq(Bytes) /\ Len(partial') = committed + Len(c)
      /\ \A k \in 1..committed : partial'[k] = partial[k]
      /\ \A k \in (committed + 1)..(committed + Len(c)) : partial'[k] = c[k - committed]
  <2>1. /\ partial' \in Seq(Bytes) /\ Len(partial') = Len(partial) + Len(c)
        /\ \A k \in 1..(Len(partial) + Len(c)) :
              partial'[k] = IF k <= Len(partial) THEN partial[k] ELSE c[k - Len(partial)]
    BY <1>2, <1>6, ConcatProperties
  <2>2. Len(partial) = committed /\ committed \in Nat /\ Len(c) \in Nat
    BY <1>1, <1>2
  <2> HIDE DEF c
  <2> QED
    BY <2>1, <2>2
<1>8. \A k \in 1..(committed + Len(c)) : partial'[k] = Original(k)
  <2> SUFFICES ASSUME NEW k \in 1..(committed + Len(c)) PROVE partial'[k] = Original(k)
    OBVIOUS
  <2>1. CASE k \in 1..committed
    BY <1>7, <2>1 DEF StoredIsOriginal
  <2>2. CASE k \in (committed + 1)..(committed + Len(c))
    BY <1>2, <1>7, <2>2
  <2> QED
    BY <1>2, <2>1, <2>2
<1>9. NextChunk' = NextChunk /\ chunks' = chunks /\ Size' = Size /\ sending' = sending
      /\ position' = position
  BY <1>1, SourceKept DEF NextChunk, sender
<1>10. TypeOK'
  BY <1>1, <1>5, <1>7 DEF TypeOK, manifest, file, sender
<1>11. ManifestFits'
  BY <1>1, SourceKept DEF ManifestFits
<1>12. ReceiverAt'
  BY <1>1, <1>5, <1>7, <1>8, <1>9, SourceKept DEF ReceiverAt
<1>13. SenderAt'
  BY <1>1, <1>9, SourceKept DEF SenderAt, Expected, LastSent
<1>14. StoredIsOriginal'
  <2>1. committed' <= synced' /\ synced' <= Len(partial')
    BY <1>1, <1>2, <1>7 DEF StoredIsOriginal, TypeOK
  <2>2. \A k \in 1..committed' : partial'[k] = Original(k)'
    BY <1>1, <1>2, <1>8, SourceKept
  <2> QED
    BY <1>1, <1>5, <1>9, <2>1, <2>2, SourceKept DEF StoredIsOriginal, sender
<1> QED
  BY <1>1, <1>9, <1>10, <1>11, <1>12, <1>13, <1>14, SourceKept DEF ManifestIsSource

\* What was written is put on the medium (SyncChunk).
LEMMA SyncChunkKept == ASSUME StreamInv, SyncChunk PROVE StreamInv'
<1> USE DEF StreamInv
<1>1. /\ receiving = "written" /\ receiving' = "synced" /\ synced' = Len(partial)
      /\ UNCHANGED <<partial, recorded, committed, outcome, wire, manifest, file, sender, losses>>
      /\ Len(partial) \in Nat /\ committed <= Len(partial)
  BY DEF SyncChunk, StoredIsOriginal, TypeOK
<1>2. NextChunk' = NextChunk /\ chunks' = chunks /\ Size' = Size /\ sending' = sending
      /\ position' = position
  BY <1>1, SourceKept DEF NextChunk, sender
<1>3. TypeOK'
  BY <1>1 DEF TypeOK, manifest, file, sender, wire
<1>4. ManifestFits'
  BY <1>1, Saved, SourceKept DEF ManifestFits
<1>5. ReceiverAt'
  BY <1>1, <1>2, SourceKept DEF ReceiverAt, wire
<1>6. SenderAt'
  BY <1>1, <1>2, SourceKept DEF SenderAt, ReceiverAt, Expected, LastSent, wire
<1>7. StoredIsOriginal'
  <2>1. committed' <= synced' /\ synced' <= Len(partial')
    BY <1>1
  <2>2. \A k \in 1..committed' : partial'[k] = Original(k)'
    BY <1>1, SourceKept DEF StoredIsOriginal
  <2>3. acked' = acked /\ committed' = committed /\ recorded' = recorded /\ outcome' = outcome
        /\ partial' = partial
    BY <1>1 DEF sender
  <2> QED
    BY <1>1, <1>2, <2>1, <2>2, <2>3, SourceKept DEF StoredIsOriginal
<1> QED
  BY <1>1, <1>2, <1>3, <1>4, <1>5, <1>6, <1>7, SourceKept DEF ManifestIsSource

\* The chunk is recorded, and the offset behind it committed (CommitChunk).
LEMMA CommitChunkKept == ASSUME StreamInv, CommitChunk PROVE StreamInv'
<1> USE DEF StreamInv
<1> DEFINE c == chunks[NextChunk + 1]
           next == committed + Len(c)
<1>1. /\ receiving = "synced" /\ receiving' = "waiting" /\ prepared = "saved"
      /\ sending = "waiting" /\ position = committed /\ committed < Size
      /\ outcome = "open" /\ frame = <<>> /\ synced = Len(partial) /\ Len(partial) = next
      /\ \A k \in 1..Len(partial) : partial[k] = Original(k)
      /\ recorded' = Append(recorded, SubSeq(partial, committed + 1, Len(partial)))
      /\ committed' = Len(partial) /\ answer' = IF committed' < Size THEN committed' ELSE NoAnswer
      /\ UNCHANGED <<partial, synced, outcome, frame, manifest, file, sender, losses>>
      /\ IsResumeOffset(Size, committed)
  BY Saved DEF CommitChunk, ReceiverAt, StoredIsOriginal
<1>2. /\ NextChunk \in Nat /\ NextChunk < Len(chunks) /\ c \in Seq(Bytes) /\ Len(c) \in Nat
      /\ Len(c) >= 1 /\ committed \in Nat /\ next <= Size /\ IsResumeOffset(Size, next)
      /\ ResumeIndex(Size, next) = NextChunk + 1 /\ ResumeIndex(Size, committed) = NextChunk
      /\ \A k \in (committed + 1)..next : Original(k) = c[k - committed]
      /\ Size \in Nat
  BY <1>1, ChunkAt, SizeType DEF NextChunk
<1>3. SubSeq(partial, committed + 1, Len(partial)) = c
  <2> DEFINE p == SubSeq(partial, committed + 1, committed + Len(c))
  <2>1. /\ p \in Seq(Bytes) /\ Len(p) = Len(c)
        /\ \A i \in 1..Len(c) : p[i] = partial[committed + i]
    <3>1. partial \in Seq(Bytes) /\ committed + Len(c) <= Len(partial)
      BY <1>1, <1>2 DEF TypeOK
    <3>2. committed \in Nat /\ Len(c) \in Nat
      BY <1>2
    <3> HIDE DEF c
    <3> QED
      BY <3>1, <3>2, Piece
  <2>2. ASSUME NEW i \in 1..Len(c) PROVE p[i] = c[i]
    <3>1. /\ committed + i \in 1..next /\ committed + i \in (committed + 1)..next
          /\ (committed + i) - committed = i
      BY <1>2
    <3> QED
      BY <1>1, <1>2, <2>1, <3>1
  <2> HIDE DEF p
  <2>3. p = c
    BY <1>2, <2>1, <2>2, SeqEqual
  <2> QED
    BY <1>1, <2>3 DEF p
<1>4. recorded' = SubSeq(chunks, 1, NextChunk + 1)
  <2>1. recorded' = Append(SubSeq(chunks, 1, NextChunk), chunks[NextChunk + 1])
    BY <1>1, <1>2, <1>3 DEF StoredIsOriginal
  <2>2. SubSeq(chunks, 1, NextChunk + 1) = Append(SubSeq(chunks, 1, NextChunk), chunks[NextChunk + 1])
    BY <1>2, OneMore DEF TypeOK
  <2> QED
    BY <2>1, <2>2
<1>5. NextChunk' = NextChunk /\ chunks' = chunks /\ Size' = Size /\ sending' = sending
      /\ position' = position /\ acked' = acked
  BY <1>1, SourceKept DEF NextChunk, sender
<1>6. committed' = next /\ next \in Nat /\ committed < next
  BY <1>1, <1>2
<1>7. recorded' \in Seq(Seq(Bytes))
  BY <1>1, <1>2, <1>3, AppendProperties DEF TypeOK
<1>8. TypeOK'
  BY <1>1, <1>6, <1>7 DEF TypeOK, manifest, file, sender
<1>9. ManifestFits'
  BY <1>1, SourceKept DEF ManifestFits
<1>10. ReceiverAt'
  BY <1>1, SourceKept DEF ReceiverAt
<1>11. SenderAt'
  <2>1. Expected' = next /\ Expected = next
    BY <1>1, <1>2, <1>5 DEF Expected, LastSent
  <2>2. IsResumeOffset(Size', position')
    BY <1>1, <1>5
  <2>3. answer' # NoAnswer => answer' = committed' /\ committed' < Size'
    BY <1>1, <1>5
  <2> QED
    BY <1>1, <1>5, <1>6, <2>1, <2>2, <2>3 DEF SenderAt
<1>12. StoredIsOriginal'
  <2>1. acked' <= committed'
    <3>1. acked \in Nat /\ acked <= committed
      BY DEF StoredIsOriginal, TypeOK
    <3> HIDE DEF next
    <3> QED
      BY <1>2, <1>5, <1>6, <3>1
  <2>2. \A k \in 1..committed' : partial'[k] = Original(k)'
    BY <1>1, SourceKept
  <2>3. committed' <= synced' /\ synced' <= Len(partial')
    BY <1>1, <1>6
  <2>4. recorded' = SubSeq(chunks', 1, ResumeIndex(Size', committed'))
        /\ IsResumeOffset(Size', committed')
    BY <1>2, <1>4, <1>5, <1>6
  <2> QED
    BY <1>1, <1>5, <2>1, <2>2, <2>3, <2>4, SourceKept DEF StoredIsOriginal
<1> QED
  BY <1>1, <1>5, <1>8, <1>9, <1>10, <1>11, <1>12, SourceKept DEF ManifestIsSource

\* The manifest is compared, the file published and the end acknowledged (FinishReceive).
LEMMA FinishReceiveKept == ASSUME StreamInv, FinishReceive PROVE StreamInv'
<1> USE DEF StreamInv
<1>1. /\ receiving = "waiting" /\ committed = Size /\ receiving' = "idle" /\ prepared = "saved"
      /\ UNCHANGED <<partial, synced, recorded, committed, frame, manifest, file, sender, losses>>
      /\ Len(partial) = committed
  BY Saved DEF FinishReceive, ReceiverAt
<1>2. /\ Size \in Nat /\ Len(chunks) = ChunkCount(Size) /\ chunks \in Seq(Seq(Bytes))
  BY <1>1, SizeType DEF ManifestFits, TypeOK
<1>3. recorded = chunks
  <2>1. recorded = SubSeq(chunks, 1, Len(chunks))
    BY <1>1, <1>2 DEF StoredIsOriginal, ResumeIndex
  <2> QED
    BY <1>2, <2>1, SubSeqFull
<1>4. GeometryIsValid(recorded)
  BY <1>2, <1>3, RightLengthsFit DEF ManifestFits
<1>5. outcome' = "completed" /\ answer' = Size
  BY <1>3, <1>4 DEF FinishReceive
<1>6. NextChunk' = NextChunk /\ chunks' = chunks /\ Size' = Size /\ sending' = sending
      /\ position' = position
  BY <1>1, SourceKept DEF NextChunk, sender
<1>7. frame = <<>> /\ (sending = "waiting" => Expected = Size)
  <2>1. frame = <<>>
    BY <1>1, <1>2 DEF SenderAt
  <2>2. ASSUME sending = "waiting", position = committed PROVE Expected = Size
    <3>1. LastSent
      BY <1>1, <2>2, EndIsPast DEF SenderAt
    <3> QED
      BY <1>1, <2>2, <3>1 DEF Expected
  <2> QED
    BY <1>1, <2>1, <2>2 DEF SenderAt
<1>8. TypeOK'
  BY <1>1, <1>2, <1>5 DEF TypeOK, manifest, file, sender
<1>9. ManifestFits'
  BY <1>1, SourceKept DEF ManifestFits
<1>10. ReceiverAt'
  BY <1>1, <1>5 DEF ReceiverAt
<1>11. Expected' = Expected
  BY <1>1, <1>6 DEF Expected, LastSent
<1>12. SenderAt'
  BY <1>1, <1>2, <1>5, <1>6, <1>7, <1>11 DEF SenderAt
<1>13. StoredIsOriginal'
  BY <1>1, <1>5, <1>6, SourceKept DEF StoredIsOriginal, sender
<1> QED
  BY <1>1, <1>6, <1>8, <1>9, <1>10, <1>12, <1>13, SourceKept DEF ManifestIsSource

\* Both tasks end, whatever they were at; the file stays, or is torn behind what was
\* synchronised (LoseStream, StopReceiver).
LEMMA EndedKept ==
  ASSUME StreamInv, Ended, UNCHANGED <<position, acked, synced, recorded, committed, outcome,
                                       manifest, file>>,
         partial' \in Seq(Bytes), synced <= Len(partial'),
         \A k \in 1..synced : partial'[k] = partial[k],
         outcome = "completed" => partial' = partial,
         prepared # "saved" => sending' = "idle"
  PROVE  StreamInv'
<1> USE DEF StreamInv
<1>1. /\ sending' \in {"idle", "failed", "done"} /\ receiving' = "idle" /\ frame' = <<>>
      /\ answer' = NoAnswer /\ losses' \in Nat
      /\ (sending' # "idle" => sending' = sending)
  BY DEF Ended, TypeOK
<1>2. TypeOK'
  BY <1>1 DEF TypeOK, manifest, file
<1>3. ManifestFits'
  BY <1>1, SourceKept DEF ManifestFits
<1>4. ReceiverAt'
  BY <1>1 DEF ReceiverAt
<1>5. SenderAt'
  BY <1>1 DEF SenderAt
<1>6. StoredIsOriginal'
  <2>1. /\ committed \in Nat /\ synced \in Nat /\ committed <= synced
        /\ synced' = synced /\ committed' = committed
    BY DEF StoredIsOriginal, TypeOK
  <2>2. \A k \in 1..committed' : partial'[k] = Original(k)'
    <3>1. \A k \in 1..committed : k \in 1..synced /\ partial[k] = Original(k)
      BY <2>1 DEF StoredIsOriginal
    <3> QED
      BY <2>1, <3>1, SourceKept
  <2>3. outcome' = outcome /\ acked' = acked /\ recorded' = recorded
    OBVIOUS
  <2> QED
    BY <1>1, <2>1, <2>2, <2>3, SourceKept DEF StoredIsOriginal
<1> QED
  BY <1>1, <1>2, <1>3, <1>4, <1>5, <1>6, SourceKept DEF ManifestIsSource

\* The stream is lost (LoseStream).
LEMMA LoseStreamKept == ASSUME StreamInv, LoseStream PROVE StreamInv'
<1>1. partial' = partial /\ partial \in Seq(Bytes) /\ synced <= Len(partial)
      /\ (prepared # "saved" => sending = "idle")
  BY DEF StreamInv, LoseStream, TypeOK, StoredIsOriginal, ManifestFits
<1>2. prepared # "saved" => sending' = "idle"
  BY <1>1 DEF LoseStream, Ended
<1> QED
  BY <1>1, <1>2, EndedKept DEF LoseStream

\* The receiver stops, and what it had not synchronised is torn (StopReceiver).
LEMMA StopReceiverKept == ASSUME StreamInv, StopReceiver PROVE StreamInv'
<1> PICK kept \in 0..(Len(partial) - synced) :
            partial' = SubSeq(partial, 1, synced) \o [k \in 1..kept |-> Torn]
  BY DEF StopReceiver
<1>1. /\ partial \in Seq(Bytes) /\ synced \in Nat /\ synced <= Len(partial)
      /\ Len(partial) \in Nat /\ kept \in Nat /\ outcome = "open"
      /\ (prepared # "saved" => sending = "idle")
  BY DEF StreamInv, StopReceiver, TypeOK, StoredIsOriginal, ManifestFits
<1>2. prepared # "saved" => sending' = "idle"
  BY <1>1 DEF StopReceiver, Ended
<1> DEFINE head == SubSeq(partial, 1, synced)
           tail == [k \in 1..kept |-> Torn]
<1>3. /\ head \in Seq(Bytes) /\ Len(head) = synced
      /\ \A k \in 1..synced : head[k] = partial[k]
  <2>1. head = SubSeq(partial, 0 + 1, 0 + synced) /\ 0 + synced <= Len(partial)
        /\ \A k \in 1..synced : 0 + k = k
    BY <1>1
  <2> HIDE DEF head
  <2> QED
    BY <1>1, <2>1, Piece
<1>4. tail \in Seq(Bytes) /\ Len(tail) = kept
  BY <1>1 DEF Torn, Bytes
<1>5. partial' = head \o tail
  OBVIOUS
<1> HIDE DEF head, tail
<1>6. /\ partial' \in Seq(Bytes) /\ Len(partial') = synced + kept
      /\ \A k \in 1..(synced + kept) : k <= synced => partial'[k] = head[k]
  <2>1. /\ head \o tail \in Seq(Bytes) /\ Len(head \o tail) = synced + kept
        /\ \A k \in 1..(synced + kept) :
              (head \o tail)[k] = IF k <= synced THEN head[k] ELSE tail[k - synced]
    BY <1>3, <1>4, ConcatProperties
  <2> QED
    BY <1>5, <2>1
<1>7. \A k \in 1..synced : partial'[k] = partial[k]
  BY <1>1, <1>3, <1>6
<1>8. synced <= Len(partial')
  BY <1>1, <1>6
<1> QED
  BY <1>1, <1>2, <1>6, <1>7, <1>8, EndedKept DEF StopReceiver

\* Every step keeps StreamInv (Next).
LEMMA StreamKept == ASSUME StreamInv, Next \/ UNCHANGED vars PROVE StreamInv'
<1>1. CASE Next
  BY <1>1, EditSourceKept, ReadForManifestKept, SaveManifestKept, OpenStreamKept,
     SendChunkKept, AwaitEndKept, TakeAnswerKept, ReceiveChunkKept, SyncChunkKept,
     CommitChunkKept, FinishReceiveKept, LoseStreamKept, StopReceiverKept
     DEF Next
<1>2. CASE UNCHANGED vars
  <2> USE <1>2 DEF StreamInv, vars, file, manifest, sender, wire, receiver
  <2>1. TypeOK' /\ ManifestFits'
    BY DEF TypeOK, ManifestFits, Size
  <2>2. ManifestIsSource'
    BY SourceKept DEF ManifestIsSource
  <2>3. ReceiverAt'
    BY DEF ReceiverAt, NextChunk, Original, Size
  <2>4. SenderAt'
    BY DEF SenderAt, NextChunk, Original, Size, Expected, LastSent
  <2>5. StoredIsOriginal'
    BY DEF StoredIsOriginal, Original, Size
  <2> QED
    BY <2>1, <2>2, <2>3, <2>4, <2>5
<1> QED
  BY <1>1, <1>2

-----------------------------------------------------------------------------
\* What the receiver committed is, byte by byte, what the sender's manifest was built from, it
\* is on the medium, the sender never believes more is stored, and a source nobody touched is
\* never refused: for every size of a file and of a chunk, any number of edits of the source,
\* of lost streams and of stops of the receiver (send_acknowledged_chunks,
\* receive_acknowledged_chunks).
THEOREM StoredWhole == ASSUME Sizes \subseteq Nat PROVE Spec => []StoredIsOriginal
<1>1. Init => StreamInv
  BY StreamStarts
<1>2. StreamInv /\ [Next]_vars => StreamInv'
  BY StreamKept
<1>3. StreamInv => StoredIsOriginal
  BY DEF StreamInv
<1> QED
  BY <1>1, <1>2, <1>3, PTL DEF Spec
=============================================================================
