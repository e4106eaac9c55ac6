----------------------------- MODULE ChunkStream ----------------------------
(***************************************************************************)
(* The bytes of one resumable transfer: the source file, the manifest the  *)
(* sender builds from it, the frames of a stream, and the partial file at  *)
(* the receiver.  ResumableTransfer counts chunks; this module says what   *)
(* is in them, with a source that changes while it is read, a stream that  *)
(* is lost, and a receiver that stops between a write and its commit.      *)
(*                                                                         *)
(* A hash is modelled by the bytes it is taken of: two chunks have the     *)
(* same hash only if they are the same.                                    *)
(***************************************************************************)
EXTENDS ChunkGeometry, FiniteSets, SequencesExt

CONSTANTS
    Sizes,       \* sizes of the file the user picks
    MaxEdits,    \* bound: changes of the source file
    MaxLosses    \* bound: lost streams and stops of the receiver

VARIABLES
    source,     \* the file at the sender: its bytes and its modification time
    edits,      \* changes of it so far
    prepared,   \* "reading", "saved" or "refused"
    snapshot,   \* size and modification time the manifest is built for
    chunks,     \* the manifest: the bytes each chunk was built from
    sending,    \* "idle", "sending", "waiting" for an answer, "failed" or "done"
    position,   \* committed_offset of the sender's loop
    acked,      \* transferred_bytes of the sender's row
    frame,      \* the frame on the stream, if there is one
    answer,     \* the acknowledgement on the stream, or NoAnswer
    partial,    \* the partial file, as the receiver's process sees it
    synced,     \* how much of it is on the medium
    recorded,   \* the chunks in the receiver's database
    committed,  \* transferred_bytes of the receiver's row
    receiving,  \* "idle", "waiting", "written" or "synced"
    outcome,    \* of the receiver's row: "open", "failed" or "completed"
    losses

vars == <<source, edits, prepared, snapshot, chunks, sending, position, acked, frame, answer,
          partial, synced, recorded, committed, receiving, outcome, losses>>

file == <<source, edits>>
manifest == <<prepared, snapshot, chunks>>
sender == <<sending, position, acked>>
wire == <<frame, answer>>
receiver == <<partial, synced, recorded, committed, receiving, outcome>>

NoAnswer == -1
Size == snapshot.size

\* Byte k of version v of the file; what a torn write leaves is no byte of any version.
Byte(k, v) == <<k, v>>
Torn == <<0, 0>>

Init ==
    /\ \E n \in Sizes : source = [bytes |-> [k \in 1..n |-> Byte(k, 0)], stamp |-> 0]
    /\ edits = 0
    /\ prepared = "reading" /\ snapshot = [size |-> Len(source.bytes), stamp |-> 0]
    /\ chunks = <<>>
    /\ sending = "idle" /\ position = 0 /\ acked = 0
    /\ frame = <<>> /\ answer = NoAnswer
    /\ partial = <<>> /\ synced = 0 /\ recorded = <<>> /\ committed = 0
    /\ receiving = "idle" /\ outcome = "open" /\ losses = 0

-----------------------------------------------------------------------------
(***************************************************************************)
(* The source file may change at any time, with or without a new           *)
(* modification time: one byte of it, its last byte, or one byte more.     *)
(***************************************************************************)
EditSource ==
    /\ edits < MaxEdits /\ edits' = edits + 1
    /\ \E bytes \in {Append(source.bytes, Byte(Len(source.bytes) + 1, edits'))}
                    \cup {Front(source.bytes) : k \in DOMAIN source.bytes}
                    \cup {[source.bytes EXCEPT ![k] = Byte(k, edits')] :
                             k \in DOMAIN source.bytes},
          stamp \in {source.stamp, source.stamp + 1} :
          source' = [bytes |-> bytes, stamp |-> stamp]
    /\ UNCHANGED <<manifest, sender, wire, receiver, losses>>

\* What the file's metadata say, and the bytes of one chunk of it.
SourceIsSnapshot == Len(source.bytes) = Size /\ source.stamp = snapshot.stamp
SourceChunk(offset, length) == SubSeq(source.bytes, offset + 1, offset + length)
CanRead(offset, length) == offset + length <= Len(source.bytes)

-----------------------------------------------------------------------------
(***************************************************************************)
(* The manifest is read chunk by chunk, between two looks at the metadata. *)
(***************************************************************************)
ReadForManifest ==
    /\ prepared = "reading" /\ Len(chunks) < ChunkCount(Size)
    /\ LET index == Len(chunks)
           length == ChunkLength(Size, index)
       IN  \/ /\ CanRead(index * ChunkBytes, length)
              /\ chunks' = Append(chunks, SourceChunk(index * ChunkBytes, length))
              /\ prepared' = prepared
           \/ /\ ~CanRead(index * ChunkBytes, length)
              /\ prepared' = "refused" /\ chunks' = chunks
    /\ UNCHANGED <<snapshot, file, sender, wire, receiver, losses>>

\* The geometry both databases and both tasks test before they use a manifest: the number
\* of the chunks, the length of each, and the running sum of the lengths.
GeometryIsValid(list) ==
    /\ Len(list) = ChunkCount(Size)
    /\ \A i \in DOMAIN list : Len(list[i]) = ChunkLength(Size, i - 1)
    /\ \E total \in [0..Len(list) -> 0..Size] :
        /\ total[0] = 0 /\ total[Len(list)] = Size
        /\ \A i \in DOMAIN list : total[i] = total[i - 1] + Len(list[i])

SaveManifest ==
    /\ prepared = "reading" /\ Len(chunks) = ChunkCount(Size)
    /\ prepared' = IF SourceIsSnapshot /\ GeometryIsValid(chunks) THEN "saved" ELSE "refused"
    /\ UNCHANGED <<snapshot, chunks, file, sender, wire, receiver, losses>>

-----------------------------------------------------------------------------
(***************************************************************************)
(* A stream starts from what the receiver has committed.                   *)
(***************************************************************************)
SenderMayStart == GeometryIsValid(chunks) /\ IsResumeOffset(Size, committed) /\ SourceIsSnapshot

\* The partial file is cut back to what is committed; a shorter one ends the transfer.
OpenPartial ==
    \/ /\ Len(partial) >= committed
       /\ partial' = SubSeq(partial, 1, committed) /\ synced' = committed
       /\ receiving' = "waiting" /\ outcome' = outcome
    \/ /\ Len(partial) < committed
       /\ outcome' = "failed" /\ UNCHANGED <<partial, synced, receiving>>

OpenStream ==
    /\ prepared = "saved" /\ sending = "idle" /\ receiving = "idle" /\ outcome = "open"
    /\ \/ SenderMayStart /\ sending' = "sending" /\ position' = committed /\ OpenPartial
       \/ /\ ~SenderMayStart
          /\ sending' = "failed"
          /\ UNCHANGED <<position, partial, synced, receiving, outcome>>
    /\ frame' = <<>> /\ answer' = NoAnswer
    /\ UNCHANGED <<acked, recorded, committed, manifest, file, losses>>

-----------------------------------------------------------------------------
(***************************************************************************)
(* The sender reads, compares and writes one chunk, then waits.            *)
(***************************************************************************)
NextChunk == ResumeIndex(Size, position)
LastSent == NextChunk >= Len(chunks)

SendChunk ==
    /\ sending = "sending" /\ ~LastSent
    /\ LET chunk == chunks[NextChunk + 1]
           same == /\ CanRead(position, Len(chunk))
                   /\ SourceChunk(position, Len(chunk)) = chunk
       IN  \/ /\ same /\ IsFrameOf(NextChunk, Len(chunk), NextChunk, Size)
              /\ frame' = <<[index |-> NextChunk, payload |-> chunk]>>
              /\ sending' = "waiting"
           \/ /\ ~(same /\ IsFrameOf(NextChunk, Len(chunk), NextChunk, Size))
              /\ sending' = "failed" /\ frame' = <<>>
    /\ UNCHANGED <<position, acked, answer, manifest, file, receiver, losses>>

\* Nothing is left to send: only the last acknowledgement is waited for.
AwaitEnd ==
    /\ sending = "sending" /\ LastSent
    /\ sending' = "waiting"
    /\ UNCHANGED <<position, acked, wire, manifest, file, receiver, losses>>

Expected ==
    IF LastSent THEN position ELSE position + Len(chunks[NextChunk + 1])

TakeAnswer ==
    /\ sending = "waiting" /\ answer # NoAnswer
    /\ answer' = NoAnswer
    /\ \/ /\ answer = Expected /\ IsResumeOffset(Size, answer)
          /\ position' = answer /\ acked' = answer
          /\ sending' = IF answer = Size THEN "done" ELSE "sending"
       \/ /\ ~(answer = Expected /\ IsResumeOffset(Size, answer))
          /\ sending' = "failed" /\ UNCHANGED <<position, acked>>
    /\ UNCHANGED <<frame, manifest, file, receiver, losses>>

-----------------------------------------------------------------------------
(***************************************************************************)
(* The receiver writes a chunk, synchronises it, commits it, answers.      *)
(***************************************************************************)
ReceiveChunk ==
    /\ receiving = "waiting" /\ committed < Size /\ frame # <<>>
    /\ frame' = <<>>
    /\ LET payload == Head(frame).payload
           fits == IsFrameOf(Head(frame).index, Len(payload), ResumeIndex(Size, committed), Size)
       IN  \/ /\ fits
              /\ partial' = SubSeq(partial, 1, committed) \o payload
              /\ receiving' = "written" /\ outcome' = outcome
           \/ ~fits /\ outcome' = "failed" /\ receiving' = "idle" /\ partial' = partial
    /\ UNCHANGED <<synced, recorded, committed, answer, manifest, file, sender, losses>>

SyncChunk ==
    /\ receiving = "written"
    /\ receiving' = "synced" /\ synced' = Len(partial)
    /\ UNCHANGED <<partial, recorded, committed, outcome, wire, manifest, file, sender, losses>>

\* Mutant: the chunk is committed before it is synchronised.
CommitUnsynced ==
    /\ receiving \in {"written", "synced"}
    /\ recorded' = Append(recorded, SubSeq(partial, committed + 1, Len(partial)))
    /\ committed' = Len(partial)
    /\ answer' = IF committed' < Size THEN committed' ELSE NoAnswer
    /\ receiving' = "waiting"
    /\ UNCHANGED <<partial, synced, outcome, frame, manifest, file, sender, losses>>

CommitChunk ==
    /\ receiving = "synced"
    /\ recorded' = Append(recorded, SubSeq(partial, committed + 1, Len(partial)))
    /\ committed' = Len(partial)
    /\ answer' = IF committed' < Size THEN committed' ELSE NoAnswer
    /\ receiving' = "waiting"
    /\ UNCHANGED <<partial, synced, outcome, frame, manifest, file, sender, losses>>

\* verify_committed_manifest, then the file is published and the end acknowledged.
FinishReceive ==
    /\ receiving = "waiting" /\ committed = Size
    /\ receiving' = "idle"
    /\ \/ recorded = chunks /\ GeometryIsValid(recorded) /\ outcome' = "completed" /\ answer' = Size
       \/ recorded # chunks /\ outcome' = "failed" /\ answer' = NoAnswer
    /\ UNCHANGED <<partial, synced, recorded, committed, frame, manifest, file, sender, losses>>

-----------------------------------------------------------------------------
Ended == /\ sending' = (IF sending \in {"sending", "waiting"} THEN "idle" ELSE sending)
         /\ receiving' = "idle" /\ frame' = <<>> /\ answer' = NoAnswer
         /\ losses < MaxLosses /\ losses' = losses + 1

\* The stream ends and both tasks with it; what was written stays in the file.
LoseStream ==
    /\ sending \in {"sending", "waiting"} \/ receiving # "idle"
    /\ Ended
    /\ UNCHANGED <<position, acked, partial, synced, recorded, committed, outcome, manifest, file>>

\* The receiver stops: of what was not synchronised any part may be there, torn.
StopReceiver ==
    /\ outcome = "open" /\ Ended
    /\ \E kept \in 0..(Len(partial) - synced) :
          partial' = SubSeq(partial, 1, synced) \o [k \in 1..kept |-> Torn]
    /\ UNCHANGED <<position, acked, synced, recorded, committed, outcome, manifest, file>>

Next ==
    \/ EditSource \/ ReadForManifest \/ SaveManifest \/ OpenStream
    \/ SendChunk \/ AwaitEnd \/ TakeAnswer
    \/ ReceiveChunk \/ SyncChunk \/ CommitChunk \/ FinishReceive
    \/ LoseStream \/ StopReceiver

Spec == Init /\ [][Next]_vars

-----------------------------------------------------------------------------
\* Byte k of the file, as it was when the manifest was built.
Original(k) == chunks[(k - 1) \div ChunkBytes + 1][((k - 1) % ChunkBytes) + 1]

\* What is committed is what the manifest was built from, byte by byte and on the medium, up
\* to a chunk boundary or the end, and so are the recorded hashes; the sender never believes
\* more is stored than is; a completed file is the whole of it; and as long as the source is
\* not touched no test of the geometry, of a frame or of an acknowledgement refuses
\* anything, whatever the size of the file and wherever the stream was lost
\* (send_acknowledged_chunks, receive_acknowledged_chunks, open_owned_resumable_partial).
StoredIsOriginal ==
    /\ committed <= synced /\ synced <= Len(partial)
    /\ \A k \in 1..committed : partial[k] = Original(k)
    /\ recorded = SubSeq(chunks, 1, ResumeIndex(Size, committed))
    /\ IsResumeOffset(Size, committed)
    /\ acked <= committed
    /\ outcome = "completed" => committed = Size /\ Len(partial) = Size
    /\ sending = "done" => outcome = "completed"
    /\ edits = 0 => "refused" # prepared /\ "failed" \notin {sending, outcome}

-----------------------------------------------------------------------------
(***************************************************************************)
(* Why StoredIsOriginal holds: where the two tasks of a stream are with    *)
(* respect to each other.                                                  *)
(***************************************************************************)
Bytes == Nat \X Nat
TypeOK ==
    /\ source \in [bytes : Seq(Bytes), stamp : Nat] /\ edits \in Nat
    /\ prepared \in {"reading", "saved", "refused"}
    /\ snapshot \in [size : Nat, stamp : Nat] /\ chunks \in Seq(Seq(Bytes))
    /\ sending \in {"idle", "sending", "waiting", "failed", "done"}
    /\ position \in Nat /\ acked \in Nat
    /\ frame \in Seq([index : Nat, payload : Seq(Bytes)]) /\ answer \in Nat \cup {NoAnswer}
    /\ partial \in Seq(Bytes) /\ synced \in Nat /\ recorded \in Seq(Seq(Bytes))
    /\ committed \in Nat /\ losses \in Nat
    /\ receiving \in {"idle", "waiting", "written", "synced"}
    /\ outcome \in {"open", "failed", "completed"}

\* The manifest has a chunk's length at each of its places, and nothing starts without it.
ManifestFits ==
    /\ Len(chunks) <= ChunkCount(Size)
    /\ \A i \in DOMAIN chunks : Len(chunks[i]) = ChunkLength(Size, i - 1)
    /\ prepared = "saved" => Len(chunks) = ChunkCount(Size)
    /\ prepared # "saved" => /\ sending = "idle" /\ receiving = "idle" /\ outcome = "open"
                             /\ committed = 0 /\ frame = <<>> /\ answer = NoAnswer

\* While the source is as it was, the manifest is its chunks.
ManifestIsSource == edits = 0 =>
    /\ SourceIsSnapshot /\ prepared # "refused" /\ sending # "failed"
    /\ \A i \in DOMAIN chunks :
          chunks[i] = SourceChunk((i - 1) * ChunkBytes, ChunkLength(Size, i - 1))

\* The receiver has written what is committed and at most the chunk it commits next.
ReceiverAt ==
    /\ outcome # "failed"
    /\ receiving # "idle" => outcome = "open"
    /\ receiving = "waiting" => Len(partial) = committed
    /\ receiving \in {"written", "synced"} =>
        /\ sending = "waiting" /\ position = committed /\ committed < Size
        /\ frame = <<>> /\ answer = NoAnswer
        /\ Len(partial) = committed + Len(chunks[NextChunk + 1])
        /\ \A k \in 1..Len(partial) : partial[k] = Original(k)
    /\ receiving = "synced" => synced = Len(partial)

\* The sender is where the receiver is, or one chunk behind, and what is on the stream is the
\* chunk it is at, or the offset it waits for.
SenderAt ==
    /\ frame # <<>> =>
        /\ sending = "waiting" /\ position = committed /\ committed < Size
        /\ receiving = "waiting" /\ answer = NoAnswer
        /\ frame = <<[index |-> NextChunk, payload |-> chunks[NextChunk + 1]]>>
    /\ answer # NoAnswer =>
        /\ answer = committed
        /\ IF committed < Size THEN receiving = "waiting" ELSE outcome = "completed"
    /\ sending = "sending" =>
        /\ position = committed
        /\ IF committed < Size THEN receiving = "waiting" /\ answer = NoAnswer
                               ELSE receiving \in {"waiting", "idle"}
    /\ sending = "waiting" =>
        /\ IsResumeOffset(Size, position) /\ committed \in {position, Expected}
        /\ answer # NoAnswer => answer = Expected

StreamInv ==
    TypeOK /\ ManifestFits /\ ManifestIsSource /\ ReceiverAt /\ SenderAt /\ StoredIsOriginal
=============================================================================
