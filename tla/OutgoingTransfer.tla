-------------------------- MODULE OutgoingTransfer --------------------------
(***************************************************************************)
(* The sender's durable record of one resumable (protocol 2) transfer: the *)
(* row of `transfers` with direction 'outgoing', its chat message and its  *)
(* row of `transfer_terminal_notifications`.  Every operator below is one  *)
(* compare-and-set statement of storage.rs: CanX is the WHERE clause, X    *)
(* the SET list.  The statement that matches no row changes nothing.       *)
(***************************************************************************)
EXTENDS TransferParameters

VARIABLES
    outStatus,    \* transfers.status
    sendClaimed,  \* transfers.send_claimed
    queryToken,   \* transfers.resume_query_token, 0 for NULL
    acked,        \* transfers.transferred_bytes
    outMessage,   \* messages.status of the transfer's message
    outNotice     \* queued terminal notification, or "none"

outVars == <<outStatus, sendClaimed, queryToken, acked, outMessage, outNotice>>

-----------------------------------------------------------------------------

OutTypeOK ==
    /\ outStatus \in Open \union Terminal
    /\ sendClaimed \in BOOLEAN
    /\ queryToken \in Nat
    /\ acked \in 0..Chunks
    /\ outMessage \in {"sending", "delivered", "failed"}
    /\ outNotice \in Notices

\* send_file: the row awaits acceptance, its message is being sent.
OutInit ==
    /\ outStatus = "awaitingAcceptance"
    /\ sendClaimed = FALSE
    /\ queryToken = 0
    /\ acked = 0
    /\ outMessage = "sending"
    /\ outNotice = "none"

-----------------------------------------------------------------------------
(* The receiver's decision.                                                *)

CanTransitionAwaiting == outStatus = "awaitingAcceptance"

TransitionAwaiting(status) ==
    /\ outStatus' = status
    /\ outMessage' = IF status = "cancelled" THEN "failed" ELSE outMessage
    /\ UNCHANGED <<sendClaimed, queryToken, acked, outNotice>>

-----------------------------------------------------------------------------
(* The claim of the first stream, which holds no query token.              *)

CanClaimOutgoing ==
    /\ outStatus \in {"paused", "transferring"}
    /\ ~sendClaimed
    /\ queryToken = 0

ClaimOutgoing ==
    /\ outStatus' = "transferring"
    /\ sendClaimed' = TRUE
    /\ UNCHANGED <<queryToken, acked, outMessage, outNotice>>

(* A task keeps its claim while the row is transferring, claimed and, for  *)
(* a resumed stream, still carries the token it was claimed with.  The     *)
(* first stream passes token 0: its statements do not test the token.      *)
HoldsSendClaim(token) ==
    /\ outStatus = "transferring"
    /\ sendClaimed
    /\ token # 0 => queryToken = token

CanCommitProgress(token, previous, next) ==
    /\ HoldsSendClaim(token)
    /\ acked = previous
    /\ next # previous
    /\ next <= Chunks

CommitProgress(next) ==
    /\ acked' = next
    /\ UNCHANGED <<outStatus, sendClaimed, queryToken, outMessage, outNotice>>

CompleteOutgoing ==
    /\ outStatus' = "completed"
    /\ sendClaimed' = FALSE
    /\ acked' = Chunks
    /\ UNCHANGED <<queryToken, outMessage, outNotice>>

(* The claim is given up for a later resume.  The statement of a resumed   *)
(* stream clears the token; the first stream's leaves it, and it is NULL.  *)
PauseClaimedOutgoing(token) ==
    /\ outStatus' = "paused"
    /\ sendClaimed' = FALSE
    /\ queryToken' = IF token = 0 THEN queryToken ELSE 0
    /\ UNCHANGED <<acked, outMessage, outNotice>>

FailClaimedOutgoing(token) ==
    /\ outStatus' = "failed"
    /\ sendClaimed' = FALSE
    /\ queryToken' = IF token = 0 THEN queryToken ELSE 0
    /\ outMessage' = "failed"
    /\ outNotice' = "failed"
    /\ UNCHANGED acked

\* Mutant: the message must still be the one of the first attempt.
MessageStillSending == MessageKind = "file" /\ outMessage = "sending"

\* The message update demands a message of kind 'file', in any status.
MessageMatches == MessageKind = "file"

(* Completion of a resumed stream: one transaction completes the row and   *)
(* the message.  It is rolled back when no message matches, and the caller *)
(* then pauses the row.                                                    *)
CompleteResumeAndMessage(token) ==
    IF MessageMatches
    THEN /\ outStatus' = "completed"
         /\ sendClaimed' = FALSE
         /\ queryToken' = 0
         /\ acked' = Chunks
         /\ outMessage' = "delivered"
         /\ UNCHANGED outNotice
    ELSE PauseClaimedOutgoing(token)

-----------------------------------------------------------------------------
(* The resume query.  Its token identifies one question to the receiver.   *)

CanPrepareQuery(expected) ==
    /\ outStatus = "paused"
    /\ ~sendClaimed
    /\ acked = expected
    /\ queryToken = 0

PrepareQuery(token) ==
    /\ queryToken' = token
    /\ UNCHANGED <<outStatus, sendClaimed, acked, outMessage, outNotice>>

QueryStands(token, expected) ==
    /\ outStatus = "paused"
    /\ ~sendClaimed
    /\ acked = expected
    /\ queryToken = token

\* Mutant: the token of a failed query is left on the row.
LeaveQuery(token, expected) == UNCHANGED outVars

ClearQuery(token, expected) ==
    /\ queryToken' = IF QueryStands(token, expected) THEN 0 ELSE queryToken
    /\ UNCHANGED <<outStatus, sendClaimed, acked, outMessage, outNotice>>

\* The answered query claims the row for a stream that starts where the
\* receiver stands, behind or ahead of what was acknowledged.
ClaimResumed(offset) ==
    /\ outStatus' = "transferring"
    /\ sendClaimed' = TRUE
    /\ acked' = offset
    /\ UNCHANGED <<queryToken, outMessage, outNotice>>

FailPendingQuery ==
    /\ outStatus' = "failed"
    /\ queryToken' = 0
    /\ sendClaimed' = FALSE
    /\ outMessage' = "failed"
    /\ outNotice' = "failed"
    /\ UNCHANGED acked

-----------------------------------------------------------------------------
(* Ends that need no claim.                                                *)

\* Mutant: the status is not tested.
CanEndAnyOutgoing == ~sendClaimed

CanEndUnclaimedOutgoing ==
    /\ outStatus \in Open
    /\ ~sendClaimed

EndUnclaimedOutgoing(status) ==
    /\ outStatus' = status
    /\ sendClaimed' = FALSE
    /\ queryToken' = 0
    /\ outMessage' = "failed"
    /\ outNotice' = status
    /\ UNCHANGED acked

\* apply_remote_terminal_transfer on the sender's row: it clears any claim.
RemoteEndsOutgoing(status) ==
    IF outStatus \in Open
    THEN /\ outStatus' = status
         /\ sendClaimed' = FALSE
         /\ queryToken' = 0
         /\ outMessage' = "failed"
         /\ UNCHANGED <<acked, outNotice>>
    ELSE UNCHANGED outVars

AcknowledgeOutNotice ==
    /\ outNotice' = "none"
    /\ UNCHANGED <<outStatus, sendClaimed, queryToken, acked, outMessage>>

\* Mutant: the claim of the process that ended is kept.
ResetKeepingClaim ==
    /\ outStatus' = IF outStatus = "transferring" THEN "paused" ELSE outStatus
    /\ outMessage' = IF outMessage = "sending" THEN "failed" ELSE outMessage
    /\ UNCHANGED <<sendClaimed, queryToken, acked, outNotice>>

\* reset_ephemeral_state on the sender's row, at every start.
ResetOutgoing ==
    /\ outStatus' = IF outStatus = "transferring" THEN "paused" ELSE outStatus
    /\ sendClaimed' = IF outStatus \in {"transferring", "paused"} THEN FALSE ELSE sendClaimed
    /\ queryToken' = IF outStatus \in {"transferring", "paused"} THEN 0 ELSE queryToken
    /\ outMessage' = IF outMessage = "sending" THEN "failed" ELSE outMessage
    /\ UNCHANGED <<acked, outNotice>>

=============================================================================
