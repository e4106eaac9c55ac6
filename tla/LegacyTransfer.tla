--------------------------- MODULE LegacyTransfer ---------------------------
(***************************************************************************)
(* One transfer of the first protocol, used with friends that cannot       *)
(* resume: one stream, no chunks, no claims at the sender.  The sender     *)
(* hashes the file when it is offered and reads it again when it is sent;  *)
(* the receiver compares the hash and publishes the file under the first   *)
(* name nobody uses.                                                       *)
(*                                                                         *)
(* The file is two blocks; a block is known by the version of the file it  *)
(* was read from.  Names are tried in order, and a name is never left by   *)
(* the foreign file the user put there.                                    *)
(***************************************************************************)
EXTENDS Naturals, Sequences

CONSTANTS
    Names,        \* file names in the order they are tried
    MaxForeign,   \* bound: the last name the user may take for a file of his own
    MaxRestarts   \* bound: restarts of either device

VARIABLES
    source,      \* the file at the sender, block by block
    hashed,      \* what hash_file has read of it
    outStatus,   \* transfers.status at the sender, or "none" before the offer
    outMessage,  \* messages.status of the transfer at the sender
    offer,       \* the offer: "none", "sent" (waits for an answer) or "over"
    inStatus,    \* transfers.status at the receiver
    claimed,     \* receive_claimed
    pending,     \* a row of incoming_transfer_decisions
    wire,        \* the decision or the cancellation under way to the other side
    sending,     \* the sender's task: "none", "sending", "waiting"
    sent,        \* blocks the sender's task has written to the stream
    receiving,   \* the receiver's task: "none", "reading", "publishing", "copying"
    got,         \* the hidden partial file, block by block
    ack,         \* the receiver's verdict on the stream: "none", "yes", "no"
    directory,   \* what each name of the receive directory holds
    held,        \* the name the receiver has reserved, 0 for none
    savedAs,     \* the name in the receiver's row, 0 for none
    restarts

vars == <<source, hashed, outStatus, outMessage, offer, inStatus, claimed, pending, wire,
          sending, sent, receiving, got, ack, directory, held, savedAs, restarts>>

fileVars == <<source, hashed>>
outVars == <<outStatus, outMessage, offer>>
inVars == <<inStatus, claimed, pending>>
streamVars == <<sending, sent, receiving, got, ack>>
diskVars == <<directory, held, savedAs>>

FileSize == 2
Free == <<>>
Foreign == <<"foreign">>

Init ==
    /\ source = <<"old", "old">> /\ hashed = <<>>
    /\ outStatus = "none" /\ outMessage = "none" /\ offer = "none"
    /\ inStatus = "none" /\ claimed = FALSE /\ pending = FALSE
    /\ wire = "none"
    /\ sending = "none" /\ sent = 0 /\ receiving = "none" /\ got = <<>> /\ ack = "none"
    /\ directory = [n \in Names |-> Free] /\ held = 0 /\ savedAs = 0
    /\ restarts = 0

\* No stream: the task at the other side sees its end.
NoStream == sending' = "none" /\ sent' = 0 /\ receiving' = "none" /\ got' = <<>> /\ ack' = "none"

-----------------------------------------------------------------------------
(***************************************************************************)
(* The sender's file, its offer, and what answers it.                      *)
(***************************************************************************)
\* Another program writes the file anew, or cuts it, at any time.
EditSource ==
    /\ source = <<"old", "old">>
    /\ source' \in {<<"new", "new">>, <<"old">>}
    /\ UNCHANGED <<hashed, outVars, inVars, wire, streamVars, diskVars, restarts>>

\* hash_file reads to the end of the file; the size was taken before.
HashBlock ==
    /\ outStatus = "none" /\ Len(hashed) < Len(source)
    /\ hashed' = Append(hashed, source[Len(hashed) + 1])
    /\ UNCHANGED <<source, outVars, inVars, wire, streamVars, diskVars, restarts>>

\* send_file: the row, its message, and the offer.
SendFile ==
    /\ outStatus = "none" /\ Len(hashed) >= Len(source)
    /\ outStatus' = "awaitingAcceptance" /\ outMessage' = "sending" /\ offer' = "sent"
    /\ UNCHANGED <<fileVars, inVars, wire, streamVars, diskVars, restarts>>

\* set_transfer_failed writes a row of this protocol whatever it says by now.
OfferFails ==
    /\ offer = "sent" /\ offer' = "over"
    /\ outStatus' = "failed" /\ outMessage' = "failed"
    /\ UNCHANGED <<fileVars, inVars, wire, streamVars, diskVars, restarts>>

\* The receiver stores the offer; its answer may still be lost.
ReceiveOffer ==
    /\ offer # "none" /\ inStatus = "none"
    /\ inStatus' = "awaitingAcceptance"
    /\ offer' \in {offer, "over"}
    /\ UNCHANGED <<outStatus, outMessage, claimed, pending, fileVars, wire, streamVars,
                   diskVars, restarts>>

-----------------------------------------------------------------------------
(***************************************************************************)
(* The receiver's user, or the preference to accept, decides.              *)
(***************************************************************************)
Available(n) == directory[n] = Free
FirstAvailable(n) == Available(n) /\ \A m \in Names : m < n => ~Available(m)

Accept ==
    /\ inStatus = "awaitingAcceptance" /\ ~claimed /\ ~pending
    /\ \E n \in Names : FirstAvailable(n) /\ held' = n /\ savedAs' = n
    /\ inStatus' = "transferring" /\ pending' = TRUE
    /\ wire' = "accept"
    /\ UNCHANGED <<claimed, fileVars, outVars, streamVars, directory, restarts>>

\* The decision fails or nothing starts in time: while no stream has claimed the row it
\* awaits its user again.
ReturnToManual ==
    /\ inStatus = "transferring" /\ pending /\ ~claimed
    /\ inStatus' = "awaitingAcceptance" /\ pending' = FALSE
    /\ held' = 0 /\ savedAs' = 0
    /\ UNCHANGED <<claimed, wire, fileVars, outVars, streamVars, directory, restarts>>

OpenStatus == {"awaitingAcceptance", "transferring"}

\* resolve_transfer, to decline; only an unclaimed row.
Decline ==
    /\ inStatus = "awaitingAcceptance" /\ ~claimed
    /\ inStatus' = "cancelled" /\ pending' = FALSE /\ held' = 0
    /\ wire' = "decline"
    /\ UNCHANGED <<claimed, fileVars, outVars, streamVars, directory, savedAs, restarts>>

\* The sender takes a decision only while its row awaits one.
TakeDecision ==
    /\ wire \in {"accept", "decline"}
    /\ wire' = "none"
    /\ \/ /\ outStatus = "awaitingAcceptance" /\ wire = "accept"
          /\ outStatus' = "transferring" /\ outMessage' = outMessage
          /\ sending' = "sending"
       \/ /\ outStatus = "awaitingAcceptance" /\ wire = "decline"
          /\ outStatus' = "cancelled" /\ outMessage' = "failed" /\ sending' = sending
       \/ outStatus # "awaitingAcceptance" /\ UNCHANGED <<outStatus, outMessage, sending>>
    /\ UNCHANGED <<offer, sent, receiving, got, ack, fileVars, inVars, diskVars, restarts>>

\* cancel_transfer: the sender's user, before a decision; TransferCancel follows.
CancelBySender ==
    /\ outStatus = "awaitingAcceptance"
    /\ outStatus' = "cancelled" /\ outMessage' = "failed"
    /\ wire' = "cancel"
    /\ UNCHANGED <<offer, fileVars, inVars, streamVars, diskVars, restarts>>

TakeCancel ==
    /\ wire = "cancel" /\ wire' = "none"
    /\ \/ /\ inStatus \in OpenStatus /\ ~claimed
          /\ inStatus' = "cancelled" /\ pending' = FALSE /\ held' = 0
       \/ ~(inStatus \in OpenStatus /\ ~claimed) /\ UNCHANGED <<inStatus, pending, held>>
    /\ UNCHANGED <<claimed, fileVars, outVars, streamVars, directory, savedAs, restarts>>

\* A decision or a cancellation that does not arrive is not sent again.
LoseMessage ==
    /\ wire # "none" /\ wire' = "none"
    /\ UNCHANGED <<fileVars, outVars, inVars, streamVars, diskVars, restarts>>

-----------------------------------------------------------------------------
(***************************************************************************)
(* The sender's task.                                                      *)
(***************************************************************************)
\* fail_transfer, and the end of the task.
SendFails ==
    /\ sending # "none"
    /\ outStatus' = "failed" /\ outMessage' = "failed"
    /\ sending' = "none" /\ sent' = 0
    /\ UNCHANGED <<offer, receiving, got, ack, fileVars, inVars, wire, diskVars, restarts>>

\* One block is read and written; a file that became shorter ends the task (SendFails).
\* The progress it stores is the row it started with, the status included.
SendBlock ==
    /\ sending = "sending" /\ sent < FileSize /\ sent < Len(source)
    /\ receiving = "reading" /\ Len(got) = sent
    /\ sent' = sent + 1
    /\ got' = Append(got, source[sent + 1])
    /\ outStatus' \in {outStatus, "transferring"}
    /\ UNCHANGED <<outMessage, offer, sending, receiving, ack, fileVars, inVars, wire, diskVars,
                   restarts>>

AwaitVerdict ==
    /\ sending = "sending" /\ sent = FileSize
    /\ sending' = "waiting"
    /\ UNCHANGED <<outVars, sent, receiving, got, ack, fileVars, inVars, wire, diskVars, restarts>>

\* complete_outgoing
CompleteSend ==
    /\ sending = "waiting" /\ ack = "yes"
    /\ outStatus' = "completed" /\ outMessage' = "delivered"
    /\ sending' = "none" /\ sent' = 0 /\ ack' = "none"
    /\ UNCHANGED <<offer, receiving, got, fileVars, inVars, wire, diskVars, restarts>>

-----------------------------------------------------------------------------
(***************************************************************************)
(* The receiver's task.                                                    *)
(***************************************************************************)
\* claim_legacy_incoming: one stream, of a row that was accepted.
ClaimStream ==
    /\ sending = "sending" /\ sent = 0 /\ receiving = "none"
    /\ inStatus = "transferring" /\ ~claimed
    /\ claimed' = TRUE /\ pending' = FALSE
    /\ receiving' = "reading" /\ got' = <<>> /\ ack' = "none"
    /\ UNCHANGED <<inStatus, sending, sent, fileVars, outVars, wire, diskVars, restarts>>

\* Mutant: the file is published without comparing its hash.
VerifyNothing ==
    /\ receiving = "reading" /\ Len(got) = FileSize
    /\ receiving' = "publishing"
    /\ UNCHANGED <<sending, sent, got, ack, fileVars, outVars, inVars, wire, diskVars, restarts>>

Verify ==
    /\ receiving = "reading" /\ Len(got) = FileSize /\ got = hashed
    /\ receiving' = "publishing"
    /\ UNCHANGED <<sending, sent, got, ack, fileVars, outVars, inVars, wire, diskVars, restarts>>

\* The name that is reserved has been taken: another one is reserved.
TakeOtherName ==
    /\ receiving = "publishing"
    /\ held # 0 => directory[held] # Free
    /\ \E n \in Names : FirstAvailable(n) /\ held' = n
    /\ UNCHANGED <<directory, savedAs, fileVars, outVars, inVars, wire, streamVars, restarts>>

\* complete_incoming, the release of the claim and of the reservation, the verdict.
Completed(name) ==
    /\ inStatus' = "completed" /\ savedAs' = name
    /\ claimed' = FALSE /\ held' = 0
    /\ receiving' = "none" /\ got' = <<>> /\ ack' = "yes"

\* commit_without_overwrite: a link to the hidden file under the reserved name.
Publish ==
    /\ receiving = "publishing" /\ held # 0 /\ directory[held] = Free
    /\ directory' = [directory EXCEPT ![held] = got]
    /\ Completed(held)
    /\ UNCHANGED <<pending, sending, sent, fileVars, outVars, wire, restarts>>

\* Where links fail, the name is created exclusively and the bytes are copied.
StartCopy ==
    /\ receiving = "publishing" /\ held # 0 /\ directory[held] = Free
    /\ directory' = [directory EXCEPT ![held] = <<got[1]>>]
    /\ receiving' = "copying"
    /\ UNCHANGED <<sending, sent, got, ack, held, savedAs, fileVars, outVars, inVars, wire,
                   restarts>>

EndCopy ==
    /\ receiving = "copying"
    /\ directory' = [directory EXCEPT ![held] = got]
    /\ Completed(held)
    /\ UNCHANGED <<pending, sending, sent, fileVars, outVars, wire, restarts>>

\* Any error, the sender's end included: the copy, the hidden file and the reservation go,
\* the row fails, the claim is given back and the verdict is no.
ReceiveFails ==
    /\ receiving # "none"
    /\ directory' = IF receiving = "copying" THEN [directory EXCEPT ![held] = Free] ELSE directory
    /\ held' = 0
    /\ inStatus' = "failed" /\ claimed' = FALSE
    /\ receiving' = "none" /\ got' = <<>> /\ ack' = "no"
    /\ UNCHANGED <<pending, savedAs, sending, sent, fileVars, outVars, wire, restarts>>

-----------------------------------------------------------------------------
(***************************************************************************)
(* The user's own files, and restarts.                                     *)
(***************************************************************************)
AddForeign ==
    /\ \E n \in Names \cap 1..MaxForeign :
          directory[n] = Free /\ directory' = [directory EXCEPT ![n] = Foreign]
    /\ UNCHANGED <<held, savedAs, fileVars, outVars, inVars, wire, streamVars, restarts>>

Failed(status) == IF status = "transferring" THEN "failed" ELSE status

RestartSender ==
    /\ restarts < MaxRestarts /\ restarts' = restarts + 1
    /\ outStatus # "none"
    /\ outStatus' = Failed(outStatus)
    /\ outMessage' = IF outMessage = "sending" THEN "failed" ELSE outMessage
    /\ offer' = "over"
    /\ sending' = "none" /\ sent' = 0
    /\ UNCHANGED <<receiving, got, ack, fileVars, inVars, wire, diskVars>>

\* Claims are cleared; a reservation that no accepted row needs is removed.
RestartReceiver ==
    /\ restarts < MaxRestarts /\ restarts' = restarts + 1
    /\ inStatus' = Failed(inStatus)
    /\ claimed' = FALSE /\ pending' = FALSE
    /\ held' = 0
    /\ receiving' = "none" /\ got' = <<>> /\ ack' = "none"
    /\ UNCHANGED <<sending, sent, directory, savedAs, fileVars, outVars, wire>>

Next ==
    \/ EditSource \/ HashBlock \/ SendFile \/ OfferFails \/ ReceiveOffer
    \/ Accept \/ ReturnToManual \/ Decline \/ TakeDecision \/ CancelBySender \/ TakeCancel
    \/ LoseMessage
    \/ SendFails \/ SendBlock \/ AwaitVerdict \/ CompleteSend
    \/ ClaimStream \/ Verify \/ TakeOtherName \/ Publish \/ StartCopy \/ EndCopy \/ ReceiveFails
    \/ AddForeign \/ RestartSender \/ RestartReceiver

Spec == Init /\ [][Next]_vars

-----------------------------------------------------------------------------
\* A completed receive holds what the sender hashed when it offered the file, under a name
\* that was nobody else's; the sender says completed only of such a file; and a row that is
\* claimed has its task (receive_body, send_legacy_transfer, claim_legacy_incoming).
FileIsWhole ==
    /\ inStatus = "completed" => directory[savedAs] = hashed /\ Len(hashed) = FileSize
    /\ sending = "waiting" /\ ack = "yes" => inStatus = "completed"
    /\ outMessage = "delivered" => inStatus = "completed"
    /\ claimed <=> receiving # "none"

\* Why it is: only a claimed row has a task, the task compares what it got with a hash that
\* cannot change any more, and only the task completes the row, once, and answers yes.
Blocks == Seq({"old", "new", "foreign"})

LegacyInv ==
    /\ source \in Blocks /\ got \in Blocks
    /\ directory \in [Names -> Blocks] /\ held \in Names \cup {0}
    /\ inStatus # "none" \/ offer # "none" => outStatus # "none"
    /\ claimed => inStatus = "transferring"
    /\ receiving \in {"publishing", "copying"} => got = hashed /\ Len(got) = FileSize
    /\ receiving = "copying" => held # 0
    /\ inStatus = "completed" => savedAs \in Names
    /\ ack = "yes" \/ outMessage = "delivered" => inStatus = "completed"
    /\ FileIsWhole
=============================================================================
