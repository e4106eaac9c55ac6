------------------------- MODULE TransferParameters -------------------------
(***************************************************************************)
(* The parameters and the status vocabulary shared by the two ends of one  *)
(* resumable (protocol 2) transfer.                                        *)
(*                                                                         *)
(* Bytes are counted in chunks: an offset is always a chunk boundary.      *)
(***************************************************************************)
EXTENDS Integers

CONSTANTS
    Chunks,        \* number of chunks of the file
    MessageKind,   \* kind of the chat message send_file creates: "file" or "image"
    AutoReceive,   \* has the receiver turned automatic receiving on?
    Faults         \* what may go wrong besides lost connections and crashes

FaultKinds ==
    { "acceptError",    \* the automatic acceptance fails, and the user is asked
      "cancel",         \* a user cancels or rejects
      "lateTimeout",    \* a timer expires although the answer is under way
      "sourceChange",   \* the sender's file changes
      "corruption",     \* a received chunk or the manifest does not match
      "preflight",      \* the destination has no room for a resumed transfer
      "diskError",      \* the receiver's file cannot be finalised or cleaned up
      "diskDamage" }    \* received data is lost while the receiver is down

ASSUME ChunksAssumption == Chunks \in Nat \ {0}
ASSUME KindAssumption == MessageKind \in {"file", "image"}
ASSUME FaultsAssumption == AutoReceive \in BOOLEAN /\ Faults \subseteq FaultKinds

Open == {"awaitingAcceptance", "transferring", "paused"}
Aborted == {"cancelled", "failed"}
Terminal == Aborted \union {"completed"}

\* A terminal notification only ever announces an abort.
Notices == {"none"} \union Aborted

=============================================================================
