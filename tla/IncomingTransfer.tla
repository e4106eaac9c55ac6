-------------------------- MODULE IncomingTransfer --------------------------
(***************************************************************************)
(* The receiver's durable record of one resumable transfer: the row of     *)
(* `transfers` with direction 'incoming', its `transfer_chunks`, its row   *)
(* of `incoming_transfer_decisions`, its terminal notification, its chat   *)
(* message, and the two files it owns.  As in OutgoingTransfer, CanX is    *)
(* the WHERE clause of a statement and X its SET list.                     *)
(*                                                                         *)
(* The chunk rows are contiguous from 0 and commit_received_chunk writes a *)
(* row and transferred_bytes in one transaction, so `committed` stands for *)
(* both.                                                                   *)
(***************************************************************************)
EXTENDS TransferParameters

VARIABLES
    inStatus,        \* transfers.status, "none" before the offer arrives
    receiveClaimed,  \* transfers.receive_claimed
    committed,       \* transfers.transferred_bytes and number of chunk rows
    decision,        \* token of the pending decision row, 0 for no row
    inNotice,        \* queued terminal notification, or "none"
    chatRecord,      \* is there a chat message for the received file?
    synced,          \* chunks synchronised to the partial file
    published        \* has the partial file been renamed to the destination?

inVars == <<inStatus, receiveClaimed, committed, decision, inNotice,
            chatRecord, synced, published>>

-----------------------------------------------------------------------------

InTypeOK ==
    /\ inStatus \in {"none"} \union Open \union Terminal
    /\ receiveClaimed \in BOOLEAN
    /\ committed \in 0..Chunks
    /\ decision \in Nat
    /\ inNotice \in Notices
    /\ chatRecord \in BOOLEAN
    /\ synced \in 0..Chunks
    /\ published \in BOOLEAN

InInit ==
    /\ inStatus = "none"
    /\ receiveClaimed = FALSE
    /\ committed = 0
    /\ decision = 0
    /\ inNotice = "none"
    /\ chatRecord = FALSE
    /\ synced = 0
    /\ published = FALSE

-----------------------------------------------------------------------------
(* The offer and its acceptance.                                           *)

StoreOffer ==
    /\ inStatus' = IF inStatus = "none" THEN "awaitingAcceptance" ELSE inStatus
    /\ UNCHANGED <<receiveClaimed, committed, decision, inNotice, chatRecord,
                   synced, published>>

\* The automatic acceptance of a new offer: the row is stored, accepted and
\* given its decision by one handler.
StoreAcceptedOffer(token) ==
    /\ inStatus' = "transferring"
    /\ decision' = token
    /\ UNCHANGED <<receiveClaimed, committed, inNotice, chatRecord, synced, published>>

CanAcceptIncoming ==
    /\ inStatus = "awaitingAcceptance"
    /\ ~receiveClaimed
    /\ decision = 0

\* A fresh reservation and an empty partial file.
AcceptIncoming ==
    /\ inStatus' = "transferring"
    /\ committed' = 0
    /\ synced' = 0
    /\ UNCHANGED <<receiveClaimed, decision, inNotice, chatRecord, published>>

CanPrepareDecision ==
    /\ inStatus = "transferring"
    /\ ~receiveClaimed
    /\ committed = 0
    /\ decision = 0

PrepareDecision(token) ==
    /\ decision' = token
    /\ UNCHANGED <<inStatus, receiveClaimed, committed, inNotice, chatRecord,
                   synced, published>>

\* Mutant: neither the decision nor the claim nor the progress is tested.
CanRollbackTransferring(token) == inStatus = "transferring"

CanRollbackDecision(token) ==
    /\ decision = token
    /\ inStatus = "transferring"
    /\ ~receiveClaimed
    /\ committed = 0

\* Back to the user; the files reserved by the acceptance are removed.
ReturnToAwaiting ==
    /\ inStatus' = "awaitingAcceptance"
    /\ receiveClaimed' = FALSE
    /\ committed' = 0
    /\ decision' = 0
    /\ synced' = 0
    /\ UNCHANGED <<inNotice, chatRecord, published>>

-----------------------------------------------------------------------------
(* The claim of one stream.                                                *)

\* Mutant: a claimed row can be claimed again.
CanReclaimIncoming == inStatus \in {"paused", "transferring"}

CanClaimIncoming ==
    /\ inStatus \in {"paused", "transferring"}
    /\ ~receiveClaimed

\* The claim consumes the decision; opening the partial truncates it.
ClaimIncoming ==
    /\ inStatus' = "transferring"
    /\ receiveClaimed' = TRUE
    /\ decision' = 0
    /\ synced' = committed
    /\ UNCHANGED <<committed, inNotice, chatRecord, published>>

\* The claim is taken, the check under it fails, and the row is paused.
ClaimIncomingThenPause ==
    /\ inStatus' = "paused"
    /\ receiveClaimed' = FALSE
    /\ decision' = 0
    /\ UNCHANGED <<committed, inNotice, chatRecord, synced, published>>

\* The claim is taken, the partial file was already renamed by an earlier
\* run and cannot be opened, and the row fails.
ClaimIncomingThenFail ==
    /\ inStatus' = "failed"
    /\ receiveClaimed' = FALSE
    /\ decision' = 0
    /\ inNotice' = "failed"
    /\ UNCHANGED <<committed, chatRecord, synced, published>>

HoldsReceiveClaim ==
    /\ inStatus = "transferring"
    /\ receiveClaimed

\* Mutant: the chunk is written but not synchronised.
WriteUnsynced(k) == UNCHANGED inVars

SyncChunk(k) ==
    /\ synced' = k
    /\ UNCHANGED <<inStatus, receiveClaimed, committed, decision, inNotice,
                   chatRecord, published>>

CanCommitChunk(k) ==
    /\ HoldsReceiveClaim
    /\ k = committed + 1

CommitChunk(k) ==
    /\ committed' = k
    /\ UNCHANGED <<inStatus, receiveClaimed, decision, inNotice, chatRecord,
                   synced, published>>

PublishFile ==
    /\ published' = TRUE
    /\ UNCHANGED <<inStatus, receiveClaimed, committed, decision, inNotice,
                   chatRecord, synced>>

CompleteIncoming ==
    /\ inStatus' = "completed"
    /\ receiveClaimed' = FALSE
    /\ committed' = Chunks
    /\ UNCHANGED <<decision, inNotice, chatRecord, synced, published>>

RecordMessage ==
    /\ chatRecord' = TRUE
    /\ UNCHANGED <<inStatus, receiveClaimed, committed, decision, inNotice,
                   synced, published>>

\* Mutant: the error path forgets the row.
ForgetClaimedIncoming == UNCHANGED inVars

\* The two error ends of a claimed stream; without the claim, no effect.
PauseClaimedIncoming ==
    IF HoldsReceiveClaim
    THEN /\ inStatus' = "paused"
         /\ receiveClaimed' = FALSE
         /\ UNCHANGED <<committed, decision, inNotice, chatRecord, synced, published>>
    ELSE UNCHANGED inVars

FailClaimedIncoming ==
    IF HoldsReceiveClaim
    THEN /\ inStatus' = "failed"
         /\ receiveClaimed' = FALSE
         /\ inNotice' = "failed"
         /\ UNCHANGED <<committed, decision, chatRecord, synced, published>>
    ELSE UNCHANGED inVars

-----------------------------------------------------------------------------
(* Ends that need no claim.                                                *)

CanCancelUnclaimedIncoming ==
    /\ inStatus \in Open
    /\ ~receiveClaimed

\* Mutant: no notice is queued for the sender.
CancelSilently ==
    /\ inStatus' = "cancelled"
    /\ decision' = 0
    /\ UNCHANGED <<receiveClaimed, committed, inNotice, chatRecord, synced, published>>

CancelUnclaimedIncoming ==
    /\ inStatus' = "cancelled"
    /\ decision' = 0
    /\ inNotice' = "cancelled"
    /\ UNCHANGED <<receiveClaimed, committed, chatRecord, synced, published>>

\* Mutant: the end of the peer overrides every status.
RemoteAlwaysEndsIncoming(status) ==
    /\ inStatus' = status
    /\ receiveClaimed' = FALSE
    /\ decision' = 0
    /\ UNCHANGED <<committed, inNotice, chatRecord, synced, published>>

\* apply_remote_terminal_transfer on the receiver's row.
RemoteEndsIncoming(status) ==
    IF inStatus \in Open
    THEN /\ inStatus' = status
         /\ receiveClaimed' = FALSE
         /\ decision' = 0
         /\ UNCHANGED <<committed, inNotice, chatRecord, synced, published>>
    ELSE UNCHANGED inVars

AcknowledgeInNotice ==
    /\ inNotice' = "none"
    /\ UNCHANGED <<inStatus, receiveClaimed, committed, decision, chatRecord,
                   synced, published>>

-----------------------------------------------------------------------------
(* Start-up: reset_ephemeral_state, then reconcile_resumable_partials on   *)
(* every paused row.                                                       *)

Finalised == published /\ committed = Chunks

\* A renamed file with every chunk committed is completed, without message.
ReconcileFinalised ==
    /\ Finalised
    /\ inStatus' = "completed"
    /\ UNCHANGED <<committed, inNotice, synced, published>>

\* The renamed file no longer has the offered size or hash.
ReconcileTampered ==
    /\ Finalised
    /\ "diskDamage" \in Faults
    /\ inStatus' = "failed"
    /\ inNotice' = "failed"
    /\ UNCHANGED <<committed, synced, published>>

\* A partial that is long enough is cut back to the committed offset; a
\* shorter or missing one rolls the offset back to the chunks still held.
ReconcilePartial ==
    /\ Finalised => "diskDamage" \in Faults
    /\ \E trusted \in 0..committed :
        /\ trusted < committed => "diskDamage" \in Faults
        /\ Finalised => trusted = 0
        /\ committed' = trusted
        /\ synced' = trusted
    /\ inStatus' = "paused"
    /\ published' = FALSE
    /\ UNCHANGED inNotice

\* The disk cannot be read: the row stays paused as it is.
ReconcileUnavailable ==
    /\ "diskError" \in Faults
    /\ inStatus' = "paused"
    /\ UNCHANGED <<committed, inNotice, synced, published>>

\* Mutant: ended rows are reconciled as well.
ResetEveryIncoming ==
    /\ \/ ReconcileFinalised
       \/ ReconcileTampered
       \/ ReconcilePartial
       \/ ReconcileUnavailable
    /\ receiveClaimed' = FALSE
    /\ UNCHANGED <<decision, chatRecord>>

ResetIncoming ==
    IF inStatus \in {"transferring", "paused"}
    THEN /\ \/ ReconcileFinalised
            \/ ReconcileTampered
            \/ ReconcilePartial
            \/ ReconcileUnavailable
         /\ receiveClaimed' = FALSE
         /\ UNCHANGED <<decision, chatRecord>>
    ELSE UNCHANGED inVars

=============================================================================
