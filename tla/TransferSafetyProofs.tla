------------------------ MODULE TransferSafetyProofs ------------------------
(***************************************************************************)
(* The other safety properties of ResumableTransfer, for any number of     *)
(* chunks, streams, tokens, lost connections and restarts and any faults:  *)
(* one task owns the receiver's file, progress never falls, no claim and   *)
(* no token is left behind, what was acknowledged is kept, an abort is     *)
(* heard, and the protocol implements its contract.                        *)
(*                                                                         *)
(* The receiver's row and its tasks are looked at first, then the sender's *)
(* row with its task and its query, then what is under way between them.   *)
(***************************************************************************)
EXTENDS ResumableTransferProofs

USE ChunksAssumption, KindAssumption, FaultsAssumption, BoundsAssumption

-----------------------------------------------------------------------------
(* The receiver.  A task in its body has the claim, or the row has ended   *)
(* under it: that is why a second claim finds no task at work.             *)

ClaimRunning == receiveClaimed => inStatus = "transferring"
ClaimHasTask == receiveClaimed => \E s \in Streams : recvPc[s] \in Body
OneOwner ==
    \A s, t \in Streams : recvPc[s] \in Owning /\ recvPc[t] \in Owning => s = t
BodyHasClaim ==
    \A s \in Streams : recvPc[s] \in Body => receiveClaimed \/ inStatus \in Terminal
BodyAtOffset ==
    \A s \in Streams : recvPc[s] \in Body /\ receiveClaimed => recvPos[s] = committed
EndAtLast ==
    \A s \in Streams : recvPc[s] \in {"finalize", "published"} => recvPos[s] = Chunks
UnstartedIsEmpty == inStatus \in {"none", "awaitingAcceptance"} => committed = 0
CompletedIsWhole == Completed => committed = Chunks
CommittedIsSynced == inStatus \in {"transferring", "paused"} => committed <= synced
WrittenIsSynced ==
    \A s \in Streams : recvPc[s] = "written" /\ receiveClaimed => synced = recvPos[s] + 1

ReceiverInv ==
    /\ ClaimRunning /\ ClaimHasTask
    /\ OneOwner /\ BodyHasClaim /\ BodyAtOffset /\ EndAtLast
    /\ UnstartedIsEmpty /\ CompletedIsWhole /\ CommittedIsSynced /\ WrittenIsSynced

\* The statements on the receiver's row that no stream makes, with what is
\* tested before them.
RowStatement ==
    \/ StoreOffer
    \/ inStatus = "none" /\ \E t \in Nat : StoreAcceptedOffer(t)
    \/ CanAcceptIncoming /\ AcceptIncoming
    \/ CanPrepareDecision /\ \E t \in Nat : PrepareDecision(t)
    \/ /\ inStatus = "transferring" /\ ~receiveClaimed /\ committed = 0
       /\ ReturnToAwaiting
    \/ CanCancelUnclaimedIncoming /\ CancelUnclaimedIncoming
    \/ \E status \in Aborted : RemoteEndsIncoming(status)
    \/ AcknowledgeInNotice

\* What a step does at the receiver.
ReceiverSteps ==
    \/ UNCHANGED inVars /\ UNCHANGED bodyVars
    \/ UNCHANGED inVars /\ OpenStream
    \/ UNCHANGED bodyVars /\ RowStatement
    \/ \E s \in Streams : ReceiveTask(s)
    \/ RestartReceiver

\* Every step is one of these (Next).
LEMMA StepsOfReceiver == TypeInv /\ Next => ReceiverSteps
<1> SUFFICES ASSUME TypeInv, Next PROVE ReceiverSteps
  OBVIOUS
<1>0. 1..MaxDecisions \subseteq Nat /\ startTimer \in Nat /\ pendingDecision \in Nat
  BY DEF TypeInv, TypeOK, DecideTypeOK
<1>1. CASE DecisionSteps
  <2>1. UNCHANGED bodyVars
    BY <1>1
    DEF DecisionSteps, ReceiveManualOffer, ReceiveAutomaticOffer, OfferAnswered,
        FailOffer, Accept, SubmitDecision, SubmitFails, Reject, SubmitReject,
        ReceiveAcceptance, ReceiveRejection, DecisionAnswered, FailDecision, StartTimeout
  <2>2. \A t \in Nat : RollBack(t) => UNCHANGED inVars \/ RowStatement
    BY DEF RollBack, CanRollbackDecision, RowStatement
  <2>3. SubmitFails => UNCHANGED inVars \/ RowStatement
    BY DEF SubmitFails, CanClaimIncoming, RowStatement
  <2>4. UNCHANGED inVars \/ RowStatement
    BY <1>0, <1>1, <2>2, <2>3, NewTokens
    DEF DecisionSteps, ReceiveManualOffer, ReceiveAutomaticOffer, OfferAnswered,
        FailOffer, Accept, SubmitDecision, Reject, SubmitReject,
        ReceiveAcceptance, ReceiveRejection, DecisionAnswered, FailDecision,
        StartTimeout, RowStatement
  <2>5. QED
    BY <2>1, <2>4 DEF ReceiverSteps
<1>2. CASE SendTask
  BY <1>2
  DEF SendTask, ClaimFirstStream, OpenFails, OpenStream, SendChunk, SourceChanged, ReceiveAck,
      SendStreamBreaks, FinishFirst, MarkDelivered, FinishResumed, ReceiverSteps
<1>3. CASE \E s \in Streams : ReceiveTask(s)
  BY <1>3 DEF ReceiverSteps
<1>4. CASE ResumeSteps
  BY <1>4
  DEF ResumeSteps, RecordHello, ReceiveQuery, ReceiveResume, ReceiveUnresumable,
      FailQuery, ReceiverSteps
<1>5. CASE NoticeSteps
  BY <1>5
  DEF NoticeSteps, CancelOutgoing, CancelIncoming, SendNotice, ReceiverHearsEnd,
      SenderHearsEnd, OutNoticeAcknowledged, InNoticeAcknowledged, ReceiverSteps,
      RowStatement
<1>6. CASE Environment
  BY <1>6
  DEF Environment, LoseConnection, IdleClose, Reconnect, RestartSender, ReceiverSteps
<1>7. QED
  BY <1>1, <1>2, <1>3, <1>4, <1>5, <1>6 DEF Next

\* Without a claim and before an end, no task works on the file.
LEMMA NoTaskWithoutClaim ==
    ASSUME AgreementInv, ReceiverInv, ~receiveClaimed, inStatus \notin Terminal
    PROVE  \A s \in Streams : recvPc[s] \notin Owning
BY DEF AgreementInv, TaskCompleted, Completed, ReceiverInv, BodyHasClaim, Owning, Terminal

\* A statement no stream makes is made without a claim, or ends the row.
LEMMA RowStatementKeeps ==
    ASSUME AgreementInv, AgreementInv', ReceiverInv, UNCHANGED bodyVars, RowStatement
    PROVE  ReceiverInv' /\ committed <= committed'
<1> USE DEF ReceiverInv, ClaimRunning, ClaimHasTask, OneOwner, BodyHasClaim, BodyAtOffset,
            EndAtLast, UnstartedIsEmpty, CompletedIsWhole, CommittedIsSynced,
            WrittenIsSynced, Completed, bodyVars
<1>0. committed \in 0..Chunks /\ synced \in 0..Chunks
  BY DEF AgreementInv, TypeInv, TypeOK, InTypeOK
<1>1. CASE ~receiveClaimed /\ inStatus \notin Terminal
  <2>1. \A s \in Streams : recvPc[s] \notin Owning
    BY <1>1, NoTaskWithoutClaim
  <2>2. \A s \in Streams : recvPc'[s] \notin Body /\ recvPc'[s] \notin Owning
    BY <2>1 DEF Owning
  <2>3. OneOwner' /\ BodyHasClaim' /\ BodyAtOffset' /\ EndAtLast' /\ WrittenIsSynced'
    BY <2>2 DEF Body
  <2>4. ~receiveClaimed'
    BY <1>1
    DEF RowStatement, StoreOffer, StoreAcceptedOffer, AcceptIncoming, PrepareDecision,
        ReturnToAwaiting, CancelUnclaimedIncoming, RemoteEndsIncoming, AcknowledgeInNotice,
        inVars
  <2>5. UnstartedIsEmpty' /\ CompletedIsWhole' /\ CommittedIsSynced' /\ committed <= committed'
    BY <1>0, <1>1
    DEF RowStatement, StoreOffer, StoreAcceptedOffer, CanAcceptIncoming, AcceptIncoming,
        PrepareDecision, ReturnToAwaiting, CancelUnclaimedIncoming, RemoteEndsIncoming,
        AcknowledgeInNotice, inVars, Aborted, Terminal
  <2>6. QED
    BY <2>3, <2>4, <2>5
<1>2. CASE receiveClaimed \/ inStatus \in Terminal
  <2>1. \/ UNCHANGED <<inStatus, receiveClaimed, committed, synced>>
        \/ inStatus' \in Aborted /\ ~receiveClaimed' /\ UNCHANGED <<committed, synced>>
    BY <1>2
    DEF RowStatement, StoreOffer, StoreAcceptedOffer, CanAcceptIncoming, PrepareDecision,
        CanCancelUnclaimedIncoming, RemoteEndsIncoming, AcknowledgeInNotice, inVars,
        Aborted, Terminal, Open
  <2>2. QED
    BY <1>0, <2>1 DEF Aborted, Terminal
<1>3. QED
  BY <1>1, <1>2

\* The ways a receiving task ends.
TaskEnds(s) ==
    /\ recvPc' = [recvPc EXCEPT ![s] = "none"]
    /\ recvPos' = [recvPos EXCEPT ![s] = 0]
    /\ \/ UNCHANGED inVars /\ (recvPc[s] \in Body => ~receiveClaimed)
       \/ recvPc[s] \in Body /\ (PauseClaimedIncoming \/ FailClaimedIncoming)
       \/ CanClaimIncoming /\ (ClaimIncomingThenPause \/ ClaimIncomingThenFail)

\* A task that ends gives back the claim it has.
LEMMA TaskEndsKeeps ==
    ASSUME AgreementInv, AgreementInv', ReceiverInv, NEW s \in Streams, TaskEnds(s)
    PROVE  ReceiverInv' /\ committed <= committed'
<1> USE DEF ReceiverInv, ClaimRunning, ClaimHasTask, OneOwner, BodyHasClaim, BodyAtOffset,
            EndAtLast, UnstartedIsEmpty, CompletedIsWhole, CommittedIsSynced,
            WrittenIsSynced, Completed
<1>0. /\ committed \in 0..Chunks /\ synced \in 0..Chunks
      /\ recvPc \in [Streams -> RecvPcs] /\ recvPos \in [Streams -> 0..Chunks]
  BY DEF AgreementInv, TypeInv, TypeOK, InTypeOK, BodyTypeOK
<1>1. recvPc'[s] = "none" /\ "none" \notin Owning
  BY <1>0 DEF TaskEnds, Owning, Body
<1>2. \A t \in Streams : t # s => recvPc'[t] = recvPc[t] /\ recvPos'[t] = recvPos[t]
  BY <1>0 DEF TaskEnds
<1>3. OneOwner' /\ EndAtLast'
  BY <1>1, <1>2 DEF Owning, Body
<1>4. CASE UNCHANGED inVars /\ (recvPc[s] \in Body => ~receiveClaimed)
  BY <1>0, <1>1, <1>2, <1>3, <1>4 DEF inVars, Owning, Body
<1>5. CASE recvPc[s] \in Body /\ (PauseClaimedIncoming \/ FailClaimedIncoming)
  <2>1. \A t \in Streams : recvPc'[t] \notin Body
    BY <1>1, <1>2, <1>5 DEF Owning
  <2>2. ~receiveClaimed' /\ UNCHANGED <<committed, synced>>
    BY <1>5 DEF PauseClaimedIncoming, FailClaimedIncoming, HoldsReceiveClaim, inVars
  <2>3. inStatus' \in {inStatus, "paused", "failed"} /\ (inStatus' = "paused" /\ inStatus # "paused" => inStatus = "transferring")
    BY <1>5 DEF PauseClaimedIncoming, FailClaimedIncoming, HoldsReceiveClaim, inVars
  <2>4. QED
    BY <1>0, <1>3, <2>1, <2>2, <2>3 DEF Body
<1>6. CASE CanClaimIncoming /\ (ClaimIncomingThenPause \/ ClaimIncomingThenFail)
  <2>1. \A t \in Streams : recvPc[t] \notin Owning
    BY <1>6, NoTaskWithoutClaim DEF CanClaimIncoming, Terminal, Aborted
  <2>2. \A t \in Streams : recvPc'[t] \notin Body
    BY <1>1, <1>2, <2>1 DEF Owning
  <2>3. ~receiveClaimed' /\ UNCHANGED <<committed, synced>> /\ inStatus' \in {"paused", "failed"}
    BY <1>6 DEF ClaimIncomingThenPause, ClaimIncomingThenFail
  <2>4. QED
    BY <1>0, <1>3, <1>6, <2>2, <2>3 DEF Body, CanClaimIncoming
<1>7. QED
  BY <1>4, <1>5, <1>6 DEF TaskEnds
\* The ways a receiving task goes on: it keeps the claim it has, or it has
\* completed the row.
TaskMoves(s, pc) ==
    /\ recvPc[s] \in Owning
    /\ recvPc' = [recvPc EXCEPT ![s] = pc]
    /\ \A t \in Streams : t # s => recvPos'[t] = recvPos[t]
    /\ inStatus' = inStatus \/ Completed'
    /\ IF pc \in Body
       THEN /\ recvPc[s] \in Body
            /\ UNCHANGED <<inStatus, receiveClaimed>>
            /\ receiveClaimed => recvPos'[s] = committed'
       ELSE ~receiveClaimed'
    /\ pc \in {"finalize", "published"} => recvPos'[s] = Chunks
    /\ pc = "written" /\ receiveClaimed => synced' = recvPos'[s] + 1
    /\ inStatus \in {"transferring", "paused"} => committed' <= synced'
    /\ committed' = committed \/ inStatus = "transferring"
    /\ Completed' => committed' = Chunks
    /\ committed <= committed'

LEMMA TaskMovesKeeps ==
    ASSUME AgreementInv, AgreementInv', ReceiverInv, NEW s \in Streams,
           NEW pc \in Owning, TaskMoves(s, pc)
    PROVE  ReceiverInv' /\ committed <= committed'
<1> USE DEF ReceiverInv, ClaimRunning, ClaimHasTask, OneOwner, BodyHasClaim, BodyAtOffset,
            EndAtLast, UnstartedIsEmpty, CompletedIsWhole, CommittedIsSynced,
            WrittenIsSynced, Completed, TaskMoves
<1>1. recvPc \in [Streams -> RecvPcs]
  BY DEF AgreementInv, TypeInv, TypeOK, BodyTypeOK
<1>2. recvPc'[s] = pc /\ \A t \in Streams : t # s => recvPc'[t] = recvPc[t]
  BY <1>1
<1>3. \A t \in Streams : t # s => recvPc[t] \notin Owning /\ recvPc'[t] \notin Owning
  BY <1>2
<1>4. \A t \in Streams : recvPc'[t] \in Owning => t = s
  BY <1>3
<1>5. OneOwner'
  BY <1>4
<1>6. \A t \in Streams : recvPc'[t] \in Body => t = s /\ pc \in Body
  BY <1>2, <1>4 DEF Owning
<1>7. BodyHasClaim' /\ BodyAtOffset' /\ ClaimHasTask'
  <2>1. CASE pc \in Body
    BY <1>2, <1>6, <2>1
  <2>2. CASE pc \notin Body
    BY <1>6, <2>2
  <2>3. QED
    BY <2>1, <2>2
<1>8. EndAtLast' /\ WrittenIsSynced'
  <2>1. \A t \in Streams : recvPc'[t] \in {"written", "finalize", "published"} => t = s
    BY <1>6 DEF Body
  <2>2. QED
    BY <1>2, <2>1 DEF Body
<1>9. ClaimRunning' /\ UnstartedIsEmpty' /\ CompletedIsWhole' /\ CommittedIsSynced'
  OBVIOUS
<1>10. QED
  BY <1>5, <1>7, <1>8, <1>9

\* The receiving task of a stream, from its authorisation to its end.
LEMMA ReceiveTaskKeeps ==
    ASSUME AgreementInv, AgreementInv', ReceiverInv, NEW s \in Streams, ReceiveTask(s)
    PROVE  ReceiverInv' /\ committed <= committed'
<1> DEFINE Goal == ReceiverInv' /\ committed <= committed'
<1>0. /\ committed \in 0..Chunks /\ synced \in 0..Chunks
      /\ recvPc \in [Streams -> RecvPcs] /\ recvPos \in [Streams -> 0..Chunks]
  BY DEF AgreementInv, TypeInv, TypeOK, InTypeOK, BodyTypeOK
<1>1. receiveClaimed => inStatus = "transferring"
  BY DEF ReceiverInv, ClaimRunning
<1>2. recvPc[s] \in Body /\ ~HoldsReceiveClaim => ~receiveClaimed
  BY <1>1 DEF HoldsReceiveClaim
<1>3. TaskEnds(s) => Goal
  BY TaskEndsKeeps
<1>4. \A pc \in {"fresh", "resuming"} :
          UNCHANGED inVars /\ MoveTo(s, pc) /\ recvPc[s] = "accepted" => Goal
  <2> SUFFICES ASSUME NEW pc \in {"fresh", "resuming"}, UNCHANGED inVars, MoveTo(s, pc),
                      recvPc[s] = "accepted"
               PROVE  Goal
    OBVIOUS
  <2>1. \A t \in Streams : recvPc'[t] = recvPc[t] \/ t = s
    BY <1>0 DEF MoveTo
  <2>2. recvPc[s] \notin Owning /\ recvPc'[s] \notin Owning
    BY <1>0 DEF MoveTo, Owning, Body
  <2>3. UNCHANGED recvPos
    BY DEF MoveTo
  <2>4. QED
    BY <1>0, <2>1, <2>2, <2>3
    DEF inVars, ReceiverInv, ClaimRunning, ClaimHasTask, OneOwner, BodyHasClaim,
        BodyAtOffset, EndAtLast, UnstartedIsEmpty, CompletedIsWhole, CommittedIsSynced,
        WrittenIsSynced, Completed, Owning, Body
<1>5. CASE Authorize(s)
  <2>1. UNCHANGED inVars /\ EndReceiveTask(s) /\ recvPc[s] = "accepted" => TaskEnds(s)
    BY DEF EndReceiveTask, TaskEnds, Body
  <2>2. QED
    BY <1>3, <1>4, <1>5, <2>1 DEF Authorize
<1>6. CASE ClaimRefused(s) \/ CleanupFails(s) \/ FinalAckFails(s) \/ AcknowledgeFile(s)
  <2>1. TaskEnds(s)
    BY <1>6
    DEF ClaimRefused, CleanupFails, FinalAckFails, AcknowledgeFile, EndReceiveTask,
        TaskEnds, Body
  <2>2. QED
    BY <1>3, <2>1
<1>7. CASE ClaimThenPause(s)
  BY <1>3, <1>7 DEF ClaimThenPause, EndReceiveTask, TaskEnds
<1>8. CASE IntegrityFails(s) \/ ReceiveStreamBreaks(s) \/ FinalizeFails(s)
  BY <1>3, <1>8
  DEF IntegrityFails, ReceiveStreamBreaks, FinalizeFails, EndReceiveTask, TaskEnds, Body
<1>9. CASE ClaimStream(s)
  <2>1. CASE published
    BY <1>3, <1>9, <2>1 DEF ClaimStream, EndReceiveTask, TaskEnds
  <2>2. CASE ~published
    <3>1. \A t \in Streams : recvPc[t] \notin Owning
      BY <1>9, NoTaskWithoutClaim DEF ClaimStream, CanClaimIncoming, Terminal, Aborted
    <3>2. /\ inStatus' = "transferring" /\ receiveClaimed' /\ committed' = committed
          /\ synced' = committed /\ UNCHANGED recvPos
      BY <1>9, <2>2 DEF ClaimStream, ClaimIncoming, MoveTo
    <3>3. /\ recvPc'[s] \in {"receiving", "finalize"}
          /\ recvPc'[s] = "finalize" => recvPos[s] = Chunks
          /\ recvPos[s] = committed
          /\ \A t \in Streams : t # s => recvPc'[t] = recvPc[t]
      BY <1>0, <1>9, <2>2 DEF ClaimStream, MoveTo
    <3>4. OneOwner' /\ ClaimHasTask'
      BY <3>1, <3>3 DEF OneOwner, ClaimHasTask, Body, Owning
    <3>5. \A t \in Streams : recvPc'[t] \in Body => t = s
      BY <3>1, <3>3 DEF Owning
    <3>6. ClaimRunning' /\ BodyHasClaim' /\ BodyAtOffset'
      BY <3>2, <3>3, <3>5 DEF ClaimRunning, BodyHasClaim, BodyAtOffset
    <3>7. EndAtLast' /\ WrittenIsSynced'
      BY <3>2, <3>3, <3>5 DEF EndAtLast, WrittenIsSynced, Body
    <3>8. UnstartedIsEmpty' /\ CompletedIsWhole' /\ CommittedIsSynced' /\ committed <= committed'
      BY <1>0, <3>2 DEF UnstartedIsEmpty, CompletedIsWhole, CommittedIsSynced, Completed
    <3>9. QED
      BY <3>4, <3>6, <3>7, <3>8 DEF ReceiverInv
  <2>3. QED
    BY <2>1, <2>2
<1>10. CASE WriteChunk(s)
  <2>1. recvPc[s] = "receiving" /\ receiveClaimed => recvPos[s] = committed
    BY DEF ReceiverInv, BodyAtOffset, Body
  <2>2. inStatus \in {"transferring", "paused"} => receiveClaimed
    BY <1>10 DEF WriteChunk, ReceiverInv, BodyHasClaim, Body, Terminal, Aborted
  <2>3. /\ UNCHANGED <<inStatus, receiveClaimed, committed, recvPos>>
        /\ synced' = recvPos[s] + 1 /\ recvPc[s] = "receiving"
        /\ recvPc' = [recvPc EXCEPT ![s] = "written"]
    BY <1>10 DEF WriteChunk, SyncChunk
  <2>4. Completed' => committed' = Chunks
    BY <2>3 DEF ReceiverInv, CompletedIsWhole, Completed
  <2>5. "written" \in Owning /\ "written" \in Body
        /\ "receiving" \in Owning /\ "receiving" \in Body
    BY DEF Owning, Body
  <2>6. /\ receiveClaimed => recvPos'[s] = committed'
        /\ inStatus \in {"transferring", "paused"} => committed' <= synced'
        /\ synced' = recvPos'[s] + 1 /\ committed <= committed'
    <3>1. committed \in Nat /\ recvPos[s] \in Nat
      BY <1>0
    <3>2. receiveClaimed => recvPos[s] = committed
      BY <2>1, <2>3
    <3>3. inStatus \in {"transferring", "paused"} => committed <= recvPos[s] + 1
      BY <2>2, <3>1, <3>2
    <3>4. QED
      BY <2>3, <3>1, <3>2, <3>3
  <2>7. TaskMoves(s, "written")
    BY <2>3, <2>4, <2>5, <2>6 DEF TaskMoves, Completed
  <2>8. QED
    BY <2>7, <2>5, TaskMovesKeeps
<1>11. CASE CommitReceivedChunk(s)
  <2>1. CASE ~CanCommitChunk(recvPos[s] + 1)
    BY <1>3, <1>11, <2>1 DEF CommitReceivedChunk, EndReceiveTask, TaskEnds, Body
  <2>2. CASE CanCommitChunk(recvPos[s] + 1)
    <3>1. /\ inStatus = "transferring" /\ receiveClaimed /\ recvPos[s] = committed
          /\ recvPc[s] = "written"
      BY <1>0, <1>11, <2>2 DEF CommitReceivedChunk, CanCommitChunk, HoldsReceiveClaim
    <3>2. /\ UNCHANGED <<inStatus, receiveClaimed, synced>>
          /\ committed' = committed + 1 /\ recvPos' = [recvPos EXCEPT ![s] = committed + 1]
          /\ synced = committed + 1
      BY <1>0, <1>11, <2>2, <3>1
      DEF CommitReceivedChunk, CommitChunk, ReceiverInv, WrittenIsSynced
    <3>3. PICK pc \in {"finalize", "receiving"} :
              /\ recvPc' = [recvPc EXCEPT ![s] = pc]
              /\ pc = "finalize" => committed + 1 = Chunks
      BY <1>11, <2>2, <3>1 DEF CommitReceivedChunk
    <3>4. pc \in Owning /\ pc \in Body /\ "written" \in Owning /\ "written" \in Body
      BY DEF Owning, Body
    <3>5. TaskMoves(s, pc)
      BY <1>0, <3>1, <3>2, <3>3, <3>4 DEF TaskMoves, Completed
    <3>6. QED
      BY <3>5, <3>4, TaskMovesKeeps
  <2>3. QED
    BY <2>1, <2>2
<1>12. CASE Publish(s)
  <2>1. /\ UNCHANGED <<inStatus, receiveClaimed, committed, synced, recvPos>>
        /\ recvPc[s] = "finalize" /\ recvPc' = [recvPc EXCEPT ![s] = "published"]
    BY <1>12 DEF Publish, PublishFile, MoveTo
  <2>2. /\ recvPos[s] = Chunks /\ (receiveClaimed => recvPos[s] = committed)
        /\ (Completed' => committed' = Chunks)
        /\ (inStatus \in {"transferring", "paused"} => committed <= synced)
    BY <2>1
    DEF ReceiverInv, EndAtLast, BodyAtOffset, CompletedIsWhole, CommittedIsSynced,
        Completed, Body
  <2>3. "published" \in Owning /\ "published" \in Body /\ "finalize" \in Owning /\ "finalize" \in Body
    BY DEF Owning, Body
  <2>4. TaskMoves(s, "published")
    BY <1>0, <2>1, <2>2, <2>3 DEF TaskMoves
  <2>5. QED
    BY <2>4, <2>3, TaskMovesKeeps
<1>13. CASE Complete(s)
  <2>1. CASE ~HoldsReceiveClaim
    BY <1>2, <1>3, <1>13, <2>1 DEF Complete, EndReceiveTask, TaskEnds, Body
  <2>2. CASE HoldsReceiveClaim
    <3>1. /\ inStatus = "transferring" /\ recvPc[s] = "published"
          /\ recvPos[s] = Chunks /\ committed = Chunks /\ committed <= synced
      BY <1>13, <2>2
      DEF Complete, HoldsReceiveClaim, ReceiverInv, EndAtLast, BodyAtOffset,
          CommittedIsSynced, Body
    <3>2. /\ Completed' /\ ~receiveClaimed' /\ committed' = Chunks
          /\ UNCHANGED <<synced, recvPos>>
          /\ recvPc' = [recvPc EXCEPT ![s] = "record"]
      BY <1>13, <2>2 DEF Complete, CompleteIncoming, MoveTo, Completed
    <3>3. "published" \in Owning /\ "record" \in Owning /\ "record" \notin Body
      BY DEF Owning, Body
    <3>4. TaskMoves(s, "record")
      BY <1>0, <3>1, <3>2, <3>3 DEF TaskMoves
    <3>5. QED
      BY <3>4, <3>3, TaskMovesKeeps
  <2>3. QED
    BY <2>1, <2>2
<1>14. CASE RecordReceived(s)
  <2>1. /\ UNCHANGED <<inStatus, receiveClaimed, committed, synced, recvPos>>
        /\ recvPc[s] = "record" /\ recvPc' = [recvPc EXCEPT ![s] = "ackFinal"]
    BY <1>14 DEF RecordReceived, RecordMessage, MoveTo
  <2>2. inStatus = "completed" /\ committed = Chunks /\ ~receiveClaimed
    BY <1>1, <2>1
    DEF AgreementInv, TaskCompleted, Completed, ReceiverInv, CompletedIsWhole
  <2>3. "ackFinal" \in Owning /\ "record" \in Owning /\ "ackFinal" \notin Body
    BY DEF Owning, Body
  <2>4. TaskMoves(s, "ackFinal")
    BY <1>0, <2>1, <2>2, <2>3 DEF TaskMoves, Completed
  <2>5. QED
    BY <2>4, <2>3, TaskMovesKeeps
<1>15. QED
  BY <1>5, <1>6, <1>7, <1>8, <1>9, <1>10, <1>11, <1>12, <1>13, <1>14 DEF ReceiveTask

\* A restart ends every task and takes the claim; its reconciliation trusts
\* what the file holds.
LEMMA RestartReceiverKeeps ==
    ASSUME AgreementInv, AgreementInv', ReceiverInv, RestartReceiver
    PROVE  ReceiverInv' /\ ("diskDamage" \notin Faults => committed <= committed')
<1>0. committed \in 0..Chunks /\ synced \in 0..Chunks
  BY DEF AgreementInv, TypeInv, TypeOK, InTypeOK
<1>1. \A s \in Streams : recvPc'[s] = "none"
  BY DEF RestartReceiver
<1>2. ~receiveClaimed'
  BY DEF RestartReceiver, ResetIncoming, inVars, ReceiverInv, ClaimRunning
<1>3. OneOwner' /\ BodyHasClaim' /\ BodyAtOffset' /\ EndAtLast' /\ WrittenIsSynced'
  BY <1>1
  DEF OneOwner, BodyHasClaim, BodyAtOffset, EndAtLast, WrittenIsSynced, Owning, Body
<1>4. UnstartedIsEmpty' /\ CompletedIsWhole' /\ CommittedIsSynced'
  BY <1>0
  DEF RestartReceiver, ResetIncoming, ReconcileFinalised, ReconcileTampered,
      ReconcilePartial, ReconcileUnavailable, Finalised, inVars, ReceiverInv,
      UnstartedIsEmpty, CompletedIsWhole, CommittedIsSynced, Completed
<1>5. "diskDamage" \notin Faults => committed <= committed'
  BY <1>0
  DEF RestartReceiver, ResetIncoming, ReconcileFinalised, ReconcileTampered,
      ReconcilePartial, ReconcileUnavailable, inVars
<1>6. QED
  BY <1>2, <1>3, <1>4, <1>5 DEF ReceiverInv, ClaimRunning, ClaimHasTask

\* Every step: the invariant, and progress that only a restart on a damaged
\* disk takes back.
LEMMA ReceiverStep ==
    ASSUME AgreementInv, AgreementInv', ReceiverInv, [Next]_vars
    PROVE  /\ ReceiverInv'
           /\ restarts' = restarts \/ "diskDamage" \notin Faults => committed <= committed'
<1>0. /\ TypeInv /\ committed \in 0..Chunks /\ restarts \in Nat
      /\ recvPc \in [Streams -> RecvPcs] /\ recvPos \in [Streams -> 0..Chunks]
  BY DEF AgreementInv, TypeInv, TypeOK, InTypeOK, BodyTypeOK, LinkTypeOK
<1>1. CASE UNCHANGED inVars /\ UNCHANGED bodyVars
  BY <1>0, <1>1
  DEF inVars, bodyVars, ReceiverInv, ClaimRunning, ClaimHasTask, OneOwner, BodyHasClaim, BodyAtOffset,
      EndAtLast, UnstartedIsEmpty, CompletedIsWhole, CommittedIsSynced,
      WrittenIsSynced, Completed
<1>2. CASE UNCHANGED inVars /\ OpenStream
  <2>1. PICK s \in Streams :
            /\ recvPc[s] = "none" /\ recvPc'[s] = "accepted"
            /\ \A t \in Streams : t # s =>
                   recvPc'[t] = recvPc[t] /\ recvPos'[t] = recvPos[t]
    <3> DEFINE s == CHOOSE s \in FreeStreams : TRUE
    <3>1. s \in Streams /\ recvPc[s] = "none"
      BY <1>2 DEF OpenStream, FreeStreams
    <3>2. /\ \A t \in Streams : t # s => recvPc'[t] = recvPc[t] /\ recvPos'[t] = recvPos[t]
          /\ recvPc'[s] = "accepted"
      BY <1>0, <1>2, <3>1 DEF OpenStream
    <3>3. QED
      BY <3>1, <3>2
  <2>2. "none" \notin Owning /\ "accepted" \notin Owning /\ Body \subseteq Owning
    BY DEF Owning, Body
  <2>3. s \in Streams /\ recvPc[s] \notin Owning /\ recvPc'[s] \notin Owning
    BY <2>1, <2>2
  <2>4. \A t \in Streams : recvPc'[t] \in Owning => recvPc[t] \in Owning
    BY <2>1, <2>3
  <2>5. \A t \in Streams : recvPc[t] \in Body => recvPc'[t] \in Body
    BY <2>1, <2>2, <2>3
  <2>6. ASSUME NEW t \in Streams, recvPc'[t] \in Body
        PROVE  recvPc'[t] = recvPc[t] /\ recvPos'[t] = recvPos[t]
    <3>1. t # s
      BY <2>2, <2>3, <2>6
    <3>2. QED
      BY <2>1, <3>1
  <2>7. {"written", "finalize", "published"} \subseteq Body
    BY DEF Body
  <2>8. OneOwner' /\ ClaimHasTask' /\ BodyHasClaim'
    BY <1>2, <2>4, <2>5, <2>6
    DEF ReceiverInv, OneOwner, ClaimHasTask, BodyHasClaim, inVars
  <2>9. BodyAtOffset' /\ EndAtLast' /\ WrittenIsSynced'
    BY <1>2, <2>6, <2>7
    DEF ReceiverInv, BodyAtOffset, EndAtLast, WrittenIsSynced, inVars
  <2>10. ClaimRunning' /\ UnstartedIsEmpty' /\ CompletedIsWhole' /\ CommittedIsSynced'
    BY <1>2
    DEF inVars, ReceiverInv, ClaimRunning, UnstartedIsEmpty, CompletedIsWhole,
        CommittedIsSynced, Completed
  <2>11. committed <= committed'
    BY <1>0, <1>2 DEF inVars
  <2>12. QED
    BY <2>8, <2>9, <2>10, <2>11 DEF ReceiverInv
<1>3. CASE UNCHANGED bodyVars /\ RowStatement
  BY <1>3, RowStatementKeeps
<1>4. CASE \E s \in Streams : ReceiveTask(s)
  BY <1>4, ReceiveTaskKeeps
<1>5. CASE RestartReceiver
  <2>1. restarts' # restarts
    BY <1>0, <1>5 DEF RestartReceiver
  <2>2. QED
    BY <1>5, <2>1, RestartReceiverKeeps
<1>6. CASE UNCHANGED vars
  BY <1>1, <1>6 DEF vars
<1>7. QED
  BY <1>0, <1>1, <1>2, <1>3, <1>4, <1>5, <1>6, StepsOfReceiver DEF ReceiverSteps

LEMMA ReceiverInvariant == Spec => []ReceiverInv
<1>1. Init => ReceiverInv
  BY DEF Init, InInit, ReceiverInv, ClaimRunning, ClaimHasTask, OneOwner, BodyHasClaim,
         BodyAtOffset, EndAtLast, UnstartedIsEmpty, CompletedIsWhole, CommittedIsSynced,
         WrittenIsSynced, Completed, Owning, Body
<1>2. QED
  BY <1>1, ReceiverStep, AgreementInvariant, PTL DEF Spec

\* Two receiving tasks never work on one file, and a claimed row has a task
\* to release it (claim_incoming_transfer).
THEOREM OneTaskReceives == Spec => []OneReceiver
<1>1. ReceiverInv => OneReceiver
  BY DEF ReceiverInv, OneOwner, ClaimHasTask, OneReceiver
<1>2. QED
  BY <1>1, ReceiverInvariant, PTL

\* While the receiver runs, no committed chunk is taken back: not by a late
\* stream, a decision rolled back, or a start timeout.
THEOREM ProgressStays == Spec => ProgressIsKept
<1>1. ASSUME AgreementInv, AgreementInv', ReceiverInv, [Next]_vars
      PROVE  [restarts' = restarts => committed <= committed']_vars
  BY <1>1, ReceiverStep
<1>2. QED
  BY <1>1, AgreementInvariant, ReceiverInvariant, PTL DEF Spec, ProgressIsKept

-----------------------------------------------------------------------------
(* The sender.  The claim, the token and the query go together: a claimed  *)
(* row has the token of its task, and a row that waits for a query has the *)
(* token of that query, at the offset it was prepared for.                 *)

ClaimRuns ==
    sendClaimed => /\ outStatus = "transferring"
                   /\ sendPc \in {"open", "send", "await", "finish"}
                   /\ queryToken = sendToken
RestIsIdle == outStatus \in {"awaitingAcceptance", "paused"} => sendPc = "idle"
FirstHasNoToken == sendPc \in {"idle", "spawned"} => sendToken = 0
QueryHeld ==
    pendingQuery # 0 => outStatus \in Terminal \/ QueryStands(pendingQuery, pendingExpected)
TokenHasQuery == outStatus = "paused" /\ queryToken # 0 => pendingQuery = queryToken

SenderInv == ClaimRuns /\ RestIsIdle /\ FirstHasNoToken /\ QueryHeld /\ TokenHasQuery

\* A task that ends gives back the claim it has, and its token.
LEMMA SendTaskEndsKeeps ==
    ASSUME TypeInv, SenderInv, UNCHANGED requestVars, sendPc # "idle", EndSendTask,
           \/ UNCHANGED outVars /\ ~HoldsSendClaim(sendToken)
           \/ HoldsSendClaim(sendToken) /\ PauseClaimedOutgoing(sendToken)
           \/ HoldsSendClaim(sendToken) /\ FailClaimedOutgoing(sendToken)
           \/ HoldsSendClaim(sendToken) /\ CompleteResumeAndMessage(sendToken) /\ sendToken # 0
    PROVE  SenderInv'
<1>1. sendPc' = "idle" /\ sendToken' = 0
  BY DEF EndSendTask
<1>2. ~sendClaimed'
  BY DEF SenderInv, ClaimRuns, HoldsSendClaim, PauseClaimedOutgoing, FailClaimedOutgoing,
         CompleteResumeAndMessage, outVars
<1>3. UNCHANGED outVars \/ (outStatus = "transferring" /\ queryToken' = 0)
  BY DEF SenderInv, ClaimRuns, HoldsSendClaim, PauseClaimedOutgoing, FailClaimedOutgoing,
         CompleteResumeAndMessage
<1>4. QueryHeld' /\ TokenHasQuery'
  BY <1>3 DEF SenderInv, QueryHeld, TokenHasQuery, QueryStands, Terminal, Aborted, requestVars, outVars
<1>5. QED
  BY <1>1, <1>2, <1>4 DEF SenderInv, ClaimRuns, RestIsIdle, FirstHasNoToken

\* The sending task.
LEMMA SendTaskKeeps == ASSUME TypeInv, SenderInv, SendTask PROVE SenderInv'
<1> USE DEF SenderInv, ClaimRuns, RestIsIdle, FirstHasNoToken, QueryHeld, TokenHasQuery,
            QueryStands, Terminal, Aborted, requestVars, outVars
<1>1. CASE ClaimFirstStream
  BY <1>1 DEF ClaimFirstStream, CanClaimOutgoing, ClaimOutgoing, EndSendTask
<1>2. CASE OpenStream
  BY <1>2 DEF OpenStream
<1>3. CASE OpenFails \/ SourceChanged \/ SendStreamBreaks
  BY <1>3, SendTaskEndsKeeps
  DEF OpenFails, SourceChanged, SendStreamBreaks, PauseSend, FailSend
<1>4. CASE SendChunk
  BY <1>4 DEF SendChunk
<1>5. CASE ReceiveAck
  <2>1. CASE FailSend
    BY <1>5, <2>1, SendTaskEndsKeeps DEF ReceiveAck, FailSend
  <2>2. CASE ~FailSend
    BY <1>5, <2>2 DEF ReceiveAck, CommitProgress, CanCommitProgress, HoldsSendClaim
  <2>3. QED
    BY <2>1, <2>2
<1>6. CASE FinishFirst
  BY <1>6 DEF FinishFirst, HoldsSendClaim, CompleteOutgoing, EndSendTask
<1>7. CASE MarkDelivered
  BY <1>7 DEF MarkDelivered, EndSendTask
<1>8. CASE FinishResumed
  BY <1>8, SendTaskEndsKeeps DEF FinishResumed
<1>9. QED
  BY <1>1, <1>2, <1>3, <1>4, <1>5, <1>6, <1>7, <1>8 DEF SendTask

\* The answer to the query, or its failure, finds the row as it was.
LEMMA ResumeStepsKeep == ASSUME TypeInv, SenderInv, ResumeSteps PROVE SenderInv'
<1> USE DEF SenderInv, ClaimRuns, RestIsIdle, FirstHasNoToken, QueryHeld, TokenHasQuery,
            QueryStands, Terminal, Aborted, taskVars, requestVars, outVars
<1>0. Tokens \subseteq Nat \ {0}
  BY DEF Tokens
<1>1. CASE RecordHello
  BY <1>1, NewTokens DEF RecordHello, CanPrepareQuery, PrepareQuery
<1>2. CASE \E t \in Tokens : ReceiveQuery(t)
  BY <1>2 DEF ReceiveQuery
<1>3. CASE \E t \in Tokens, state \in {"receiving", "completed"}, offset \in 0..Chunks :
               ReceiveResume(t, state, offset)
  <2>1. PICK t \in Tokens, state \in {"receiving", "completed"}, offset \in 0..Chunks :
            ReceiveResume(t, state, offset)
    BY <1>3
  <2>2. CASE ~QueryStands(t, pendingExpected)
    BY <1>0, <2>1, <2>2 DEF ReceiveResume, QueryOver
  <2>3. CASE QueryStands(t, pendingExpected) /\ state = "completed"
    BY <1>0, <2>1, <2>3
    DEF ReceiveResume, QueryOver, CompleteResumeAndMessage, PauseClaimedOutgoing
  <2>4. CASE QueryStands(t, pendingExpected) /\ state = "receiving"
    BY <1>0, <2>1, <2>4 DEF ReceiveResume, QueryOver, ClaimResumed
  <2>5. QED
    BY <2>2, <2>3, <2>4
<1>4. CASE \E t \in Tokens : ReceiveUnresumable(t)
  BY <1>0, <1>4 DEF ReceiveUnresumable, QueryOver, FailPendingQuery
<1>5. CASE FailQuery
  BY <1>5 DEF FailQuery, ClearQuery, QueryOver
<1>6. QED
  BY <1>1, <1>2, <1>3, <1>4, <1>5 DEF ResumeSteps

\* Every step.
LEMMA SenderStep == ASSUME TypeInv, SenderInv, [Next]_vars PROVE SenderInv'
<1> USE DEF SenderInv, ClaimRuns, RestIsIdle, FirstHasNoToken, QueryHeld, TokenHasQuery,
            QueryStands, Terminal, Aborted, taskVars, requestVars, outVars
<1>1. UNCHANGED outVars /\ UNCHANGED taskVars /\ UNCHANGED requestVars => SenderInv'
  OBVIOUS
<1>2. CASE DecisionSteps
  <2>1. UNCHANGED pendingQuery /\ UNCHANGED pendingExpected
    BY <1>2
    DEF DecisionSteps, ReceiveManualOffer, ReceiveAutomaticOffer, OfferAnswered,
        FailOffer, Accept, SubmitDecision, SubmitFails, Reject, SubmitReject,
        ReceiveAcceptance, ReceiveRejection, DecisionAnswered, FailDecision, StartTimeout
  <2>2. CASE FailOffer
    BY <2>1, <2>2 DEF FailOffer, CanEndUnclaimedOutgoing, EndUnclaimedOutgoing
  <2>3. CASE \E t \in 1..MaxDecisions : ReceiveAcceptance(t)
    BY <2>1, <2>3 DEF ReceiveAcceptance, CanTransitionAwaiting, TransitionAwaiting
  <2>4. CASE ReceiveRejection
    BY <2>1, <2>4 DEF ReceiveRejection, CanTransitionAwaiting, TransitionAwaiting
  <2>5. CASE UNCHANGED outVars /\ UNCHANGED taskVars
    BY <2>1, <2>5
  <2>6. QED
    BY <1>2, <2>2, <2>3, <2>4, <2>5
    DEF DecisionSteps, ReceiveManualOffer, ReceiveAutomaticOffer, OfferAnswered,
        Accept, SubmitDecision, SubmitFails, Reject, SubmitReject,
        DecisionAnswered, FailDecision, StartTimeout
<1>3. CASE SendTask
  BY <1>3, SendTaskKeeps
<1>4. CASE \E s \in Streams : ReceiveTask(s)
  BY <1>1, <1>4
  DEF ReceiveTask, Authorize, ClaimRefused, ClaimThenPause, ClaimStream, WriteChunk,
      CommitReceivedChunk, IntegrityFails, ReceiveStreamBreaks, Publish,
      FinalizeFails, Complete, RecordReceived, CleanupFails, AcknowledgeFile,
      FinalAckFails, SenderSideUnchanged
<1>5. CASE ResumeSteps
  BY <1>5, ResumeStepsKeep
<1>6. CASE NoticeSteps
  <2>1. UNCHANGED taskVars /\ UNCHANGED requestVars
    BY <1>6
    DEF NoticeSteps, CancelOutgoing, CancelIncoming, SendNotice, ReceiverHearsEnd,
        SenderHearsEnd, OutNoticeAcknowledged, InNoticeAcknowledged
  <2>2. \/ UNCHANGED <<outStatus, sendClaimed, queryToken, acked>>
        \/ outStatus' \in Aborted /\ ~sendClaimed'
    BY <1>6
    DEF NoticeSteps, CancelOutgoing, CancelIncoming, SendNotice, ReceiverHearsEnd,
        SenderHearsEnd, OutNoticeAcknowledged, InNoticeAcknowledged,
        EndUnclaimedOutgoing, RemoteEndsOutgoing, AcknowledgeOutNotice
  <2>3. QED
    BY <2>1, <2>2
<1>7. CASE Environment
  <2>1. CASE RestartSender
    BY <2>1 DEF RestartSender, ResetOutgoing
  <2>2. QED
    BY <1>1, <1>7, <2>1
    DEF Environment, LoseConnection, IdleClose, Reconnect, RestartReceiver
<1>8. CASE UNCHANGED vars
  BY <1>1, <1>8 DEF vars
<1>9. QED
  BY <1>2, <1>3, <1>4, <1>5, <1>6, <1>7, <1>8 DEF Next

LEMMA SenderInvariant == Spec => []SenderInv
<1>1. Init => SenderInv
  BY DEF Init, OutInit, SenderInv, ClaimRuns, RestIsIdle, FirstHasNoToken, QueryHeld,
         TokenHasQuery
<1>2. ASSUME AgreementInv, SenderInv, [Next]_vars PROVE SenderInv'
  BY <1>2, SenderStep DEF AgreementInv
<1>3. QED
  BY <1>1, <1>2, AgreementInvariant, PTL DEF Spec

\* Neither a claim nor a query token outlives what it stands for, whatever
\* the query races with (claim_outgoing_transfer, prepare_resume_query).
THEOREM NothingStaysBehind == Spec => []NothingLeftBehind
<1>1. SenderInv => NothingLeftBehind
  BY DEF SenderInv, ClaimRuns, TokenHasQuery, NothingLeftBehind
<1>2. QED
  BY <1>1, SenderInvariant, PTL

\* The answer that the receiver has the file completes the paused row of a
\* file; an image's message does not match (complete_resumed_transfer).
THEOREM CompleteAnswerCounts ==
    ASSUME MessageKind = "file"
    PROVE  Spec => CompleteAnswerCompletes
<1>1. ASSUME SenderInv, [Next]_vars
      PROVE  [\A t \in Tokens :
                 outStatus = "paused" /\ ReceiveResume(t, "completed", Chunks)
                     => outStatus' = "completed"]_vars
  <2> SUFFICES ASSUME NEW t \in Tokens, outStatus = "paused",
                      ReceiveResume(t, "completed", Chunks)
               PROVE  outStatus' = "completed"
    OBVIOUS
  <2>1. pendingQuery = t /\ t # 0
    BY DEF ReceiveResume, Tokens
  <2>2. QueryStands(t, pendingExpected)
    BY <1>1, <2>1 DEF SenderInv, QueryHeld, Terminal, Aborted
  <2>3. QED
    BY <1>1, <2>2 DEF ReceiveResume, CompleteResumeAndMessage, MessageMatches
<1>2. QED
  BY <1>1, SenderInvariant, PTL DEF Spec, CompleteAnswerCompletes

-----------------------------------------------------------------------------
(* What the sender was told.  Every acknowledgement and every offered      *)
(* offset on its way is at most what is committed, and that never falls    *)
(* while no disk is damaged.                                               *)

AckInv ==
    /\ acked <= committed
    /\ \A s \in Streams : wireAck[s] <= committed
    /\ \A m \in net : m.type = "resume" => m.offset <= committed

\* The acknowledgements a step puts on a wire.
LEMMA NewAcks ==
    ASSUME AgreementInv, AgreementInv', ReceiverInv, ReceiverInv', AckInv, Next,
           committed <= committed', NEW s \in Streams
    PROVE  wireAck'[s] <= committed'
<1>0. /\ committed \in 0..Chunks /\ committed' \in 0..Chunks /\ wireAck[s] <= committed
      /\ wireAck \in [Streams -> {NoAck} \union 0..Chunks] /\ NoAck <= committed'
      /\ recvPos \in [Streams -> 0..Chunks]
  BY DEF AgreementInv, TypeInv, TypeOK, InTypeOK, WireTypeOK, BodyTypeOK, AckInv, NoAck
<1>1. wireAck'[s] = wireAck[s] \/ wireAck'[s] = NoAck => wireAck'[s] <= committed'
  <2>1. wireAck[s] \in Int
    BY <1>0 DEF NoAck
  <2>2. QED
    BY <1>0, <2>1
<1>2. UNCHANGED wireAck => wireAck'[s] <= committed'
  BY <1>1
<1>3. CASE SendTask
  <2>1. EndSendTask => wireAck'[s] = wireAck[s] \/ wireAck'[s] = NoAck
    BY DEF EndSendTask
  <2>2. wireAck'[s] = wireAck[s] \/ wireAck'[s] = NoAck
    BY <1>0, <1>3, <2>1
    DEF SendTask, ClaimFirstStream, OpenStream, OpenFails, SendChunk, SourceChanged,
        ReceiveAck, SendStreamBreaks, FinishFirst, MarkDelivered, FinishResumed,
        PauseSend, FailSend, wireVars
  <2>3. QED
    BY <1>1, <2>2
<1>4. CASE \E t \in Streams : ReceiveTask(t)
  <2>1. PICK t \in Streams : ReceiveTask(t)
    BY <1>4
  <2>2. CASE CommitReceivedChunk(t)
    <3>1. CASE CanCommitChunk(recvPos[t] + 1)
      <4>1. committed' = recvPos[t] + 1
        BY <2>2, <3>1 DEF CommitReceivedChunk, CommitChunk
      <4>2. wireAck'[s] = wireAck[s] \/ wireAck'[s] = recvPos[t] + 1
        BY <1>0, <2>2, <3>1 DEF CommitReceivedChunk
      <4>3. QED
        BY <1>0, <1>1, <4>1, <4>2
    <3>2. CASE ~CanCommitChunk(recvPos[t] + 1)
      BY <1>2, <2>2, <3>2 DEF CommitReceivedChunk, EndReceiveTask
    <3>3. QED
      BY <3>1, <3>2
  <2>3. CASE AcknowledgeFile(t)
    <3>1. committed = Chunks
      BY <2>3
      DEF AcknowledgeFile, AgreementInv, TaskCompleted, ReceiverInv, CompletedIsWhole
    <3>2. wireAck'[s] = wireAck[s] \/ wireAck'[s] = Chunks
      BY <1>0, <2>3 DEF AcknowledgeFile
    <3>3. QED
      BY <1>0, <1>1, <3>1, <3>2
  <2>4. CASE ~CommitReceivedChunk(t) /\ ~AcknowledgeFile(t)
    BY <1>2, <2>1, <2>4
    DEF ReceiveTask, Authorize, ClaimRefused, ClaimThenPause, ClaimStream, WriteChunk,
        IntegrityFails, ReceiveStreamBreaks, Publish, FinalizeFails, Complete,
        RecordReceived, CleanupFails, FinalAckFails, EndReceiveTask, MoveTo, wireVars
  <2>5. QED
    BY <2>2, <2>3, <2>4
<1>5. CASE DecisionSteps \/ ResumeSteps \/ NoticeSteps \/ Environment
  <2>1. UNCHANGED wireAck
    BY <1>5
    DEF DecisionSteps, ReceiveManualOffer, ReceiveAutomaticOffer, OfferAnswered,
        FailOffer, Accept, SubmitDecision, SubmitFails, Reject, SubmitReject,
        ReceiveAcceptance, ReceiveRejection, DecisionAnswered, FailDecision, StartTimeout,
        ResumeSteps, RecordHello, ReceiveQuery, ReceiveResume, ReceiveUnresumable, FailQuery,
        NoticeSteps, CancelOutgoing, CancelIncoming, SendNotice, ReceiverHearsEnd,
        SenderHearsEnd, OutNoticeAcknowledged, InNoticeAcknowledged,
        Environment, LoseConnection, IdleClose, Reconnect, RestartSender, RestartReceiver,
        wireVars
  <2>2. QED
    BY <1>2, <2>1
<1>6. QED
  BY <1>3, <1>4, <1>5 DEF Next

\* The offsets a step puts under way: the receiver's own.
LEMMA NewOffsets ==
    ASSUME AgreementInv, Next, NEW m \in net', m \notin net, m.type = "resume"
    PROVE  m.offset = committed /\ UNCHANGED inVars
<1>1. CASE \E t \in Tokens : ReceiveQuery(t)
  <2>1. PICK t \in Tokens : ReceiveQuery(t)
    BY <1>1
  <2>2. m = Answer(t)
    BY <2>1 DEF ReceiveQuery, Sent
  <2>3. m # Unresumable(t)
    BY DEF Unresumable
  <2>4. m.offset = committed
    BY <2>2, <2>3 DEF Answer, Resume
  <2>5. QED
    BY <2>1, <2>4 DEF ReceiveQuery
<1>2. CASE ~(\E t \in Tokens : ReceiveQuery(t))
  <2>1. \A side \in Sides, notice \in Notices : m \notin NoticeOf(side, notice)
    BY DEF NoticeOf, Terminated
  <2>2. \A t \in Nat : m # Query(t) /\ m # Accepted(t)
    BY DEF Query, Accepted
  <2>3. m # Rejected /\ \A side \in Sides : m # TerminalAck(side)
    BY DEF Rejected, TerminalAck
  <2>4. outNotice \in Notices /\ inNotice \in Notices /\ {"sender", "receiver"} \subseteq Sides
    BY DEF AgreementInv, TypeInv, TypeOK, OutTypeOK, InTypeOK, Sides
  <2>5. (FreeDecisions # {} => NewDecision \in Nat) /\ (FreeTokens # {} => NewToken \in Nat)
    BY NewTokens DEF Tokens
  <2>6. CASE DecisionSteps
    BY <2>2, <2>3, <2>5, <2>6
    DEF DecisionSteps, ReceiveManualOffer, ReceiveAutomaticOffer, OfferAnswered,
        FailOffer, Accept, SubmitDecision, SubmitFails, Reject, SubmitReject,
        ReceiveAcceptance, ReceiveRejection, DecisionAnswered, FailDecision,
        StartTimeout, Sent
  <2>7. CASE SendTask
    BY <2>7
    DEF SendTask, ClaimFirstStream, OpenStream, OpenFails, SendChunk, SourceChanged,
        ReceiveAck, SendStreamBreaks, FinishFirst, MarkDelivered, FinishResumed
  <2>8. CASE \E s \in Streams : ReceiveTask(s)
    BY <2>8
    DEF ReceiveTask, Authorize, ClaimRefused, ClaimThenPause, ClaimStream, WriteChunk,
        CommitReceivedChunk, IntegrityFails, ReceiveStreamBreaks, Publish,
        FinalizeFails, Complete, RecordReceived, CleanupFails, AcknowledgeFile,
        FinalAckFails, SenderSideUnchanged
  <2>9. CASE ResumeSteps
    BY <1>2, <2>1, <2>2, <2>4, <2>5, <2>9
    DEF ResumeSteps, RecordHello, ReceiveResume, ReceiveUnresumable, FailQuery
  <2>10. CASE NoticeSteps
    BY <2>1, <2>3, <2>4, <2>10
    DEF NoticeSteps, CancelOutgoing, CancelIncoming, SendNotice, ReceiverHearsEnd,
        SenderHearsEnd, OutNoticeAcknowledged, InNoticeAcknowledged, Sent
  <2>11. CASE Environment
    BY <2>11
    DEF Environment, LoseConnection, IdleClose, Reconnect, RestartSender, RestartReceiver,
        Survivors
  <2>12. QED
    BY <2>6, <2>7, <2>8, <2>9, <2>10, <2>11 DEF Next
<1>3. QED
  BY <1>1, <1>2

\* The progress a step shows at the sender.
LEMMA NewProgress ==
    ASSUME AgreementInv, ReceiverInv, AckInv, Next
    PROVE  acked' <= committed
<1>0. /\ committed \in 0..Chunks /\ acked <= committed
      /\ (Completed => committed = Chunks)
  BY DEF AgreementInv, TypeInv, TypeOK, InTypeOK, AckInv, ReceiverInv, CompletedIsWhole
<1>1. UNCHANGED acked => acked' <= committed
  BY <1>0
<1>2. CASE SendTask
  <2>1. CASE ReceiveAck
    BY <1>0, <2>1
    DEF ReceiveAck, CommitProgress, FailSend, FailClaimedOutgoing, outVars, AckInv,
        AgreementInv, StreamOpened
  <2>2. CASE FinishFirst \/ FinishResumed
    BY <1>0, <2>2
    DEF FinishFirst, FinishResumed, CompleteOutgoing, CompleteResumeAndMessage,
        PauseClaimedOutgoing, AgreementInv, SendTaskCompleted, outVars
  <2>3. CASE ~ReceiveAck /\ ~FinishFirst /\ ~FinishResumed
    BY <1>1, <1>2, <2>3
    DEF SendTask, ClaimFirstStream, OpenStream, OpenFails, SendChunk, SourceChanged,
        SendStreamBreaks, MarkDelivered, PauseSend, FailSend, ClaimOutgoing,
        PauseClaimedOutgoing, FailClaimedOutgoing, outVars
  <2>4. QED
    BY <2>1, <2>2, <2>3
<1>3. CASE \E t \in Tokens, state \in {"receiving", "completed"}, offset \in 0..Chunks :
               ReceiveResume(t, state, offset)
  <2>1. PICK t \in Tokens, state \in {"receiving", "completed"}, offset \in 0..Chunks :
            ReceiveResume(t, state, offset)
    BY <1>3
  <2>2. offset <= committed
    BY <2>1 DEF ReceiveResume, Resume, AckInv
  <2>3. state = "completed" => Completed
    BY <2>1 DEF ReceiveResume, Resume, AgreementInv, AnswerCompleted
  <2>4. acked' \in {acked, offset} \/ (state = "completed" /\ acked' = Chunks)
    BY <2>1
    DEF ReceiveResume, CompleteResumeAndMessage, PauseClaimedOutgoing, ClaimResumed, outVars
  <2>5. QED
    BY <1>0, <2>2, <2>3, <2>4
<1>4. CASE ~SendTask /\ ~(\E t \in Tokens, state \in {"receiving", "completed"},
                             offset \in 0..Chunks : ReceiveResume(t, state, offset))
  <2>1. UNCHANGED acked
    <3>1. CASE DecisionSteps
      BY <3>1
      DEF DecisionSteps, ReceiveManualOffer, ReceiveAutomaticOffer, OfferAnswered,
          FailOffer, Accept, SubmitDecision, SubmitFails, Reject, SubmitReject,
          ReceiveAcceptance, ReceiveRejection, DecisionAnswered, FailDecision, StartTimeout,
          EndUnclaimedOutgoing, TransitionAwaiting, outVars
    <3>2. CASE \E s \in Streams : ReceiveTask(s)
      BY <3>2
      DEF ReceiveTask, Authorize, ClaimRefused, ClaimThenPause, ClaimStream, WriteChunk,
          CommitReceivedChunk, IntegrityFails, ReceiveStreamBreaks, Publish,
          FinalizeFails, Complete, RecordReceived, CleanupFails, AcknowledgeFile,
          FinalAckFails, SenderSideUnchanged, outVars
    <3>3. CASE ResumeSteps
      BY <1>4, <3>3
      DEF ResumeSteps, RecordHello, ReceiveQuery, ReceiveUnresumable, FailQuery,
          PrepareQuery, FailPendingQuery, ClearQuery, outVars
    <3>4. CASE NoticeSteps
      BY <3>4
      DEF NoticeSteps, CancelOutgoing, CancelIncoming, SendNotice, ReceiverHearsEnd,
          SenderHearsEnd, OutNoticeAcknowledged, InNoticeAcknowledged,
          EndUnclaimedOutgoing, RemoteEndsOutgoing, AcknowledgeOutNotice, outVars
    <3>5. CASE Environment
      BY <3>5
      DEF Environment, LoseConnection, IdleClose, Reconnect, RestartSender, RestartReceiver,
          ResetOutgoing, outVars
    <3>6. QED
      BY <1>4, <3>1, <3>2, <3>3, <3>4, <3>5 DEF Next
  <2>2. QED
    BY <1>1, <2>1
<1>5. QED
  BY <1>2, <1>3, <1>4

\* Every step.
LEMMA AckStep ==
    ASSUME AgreementInv, AgreementInv', ReceiverInv, ReceiverInv', AckInv,
           "diskDamage" \notin Faults, [Next]_vars
    PROVE  AckInv'
<1>0. /\ committed \in 0..Chunks /\ committed' \in 0..Chunks
      /\ acked' \in 0..Chunks /\ net \subseteq Messages
  BY DEF AgreementInv, TypeInv, TypeOK, InTypeOK, OutTypeOK
<1>1. committed <= committed'
  BY ReceiverStep
<1>2. CASE Next
  <2>1. acked' <= committed'
    BY <1>0, <1>1, <1>2, NewProgress
  <2>2. \A s \in Streams : wireAck'[s] <= committed'
    BY <1>1, <1>2, NewAcks
  <2>3. ASSUME NEW m \in net', m.type = "resume" PROVE m.offset <= committed'
    <3>1. CASE m \in net
      <4>1. m.offset <= committed
        BY <2>3, <3>1 DEF AckInv
      <4>2. m.offset \in Nat
        BY <1>0, <2>3, <3>1 DEF Messages
      <4>3. QED
        BY <1>0, <1>1, <4>1, <4>2
    <3>2. CASE m \notin net
      BY <1>0, <1>1, <1>2, <2>3, <3>2, NewOffsets
    <3>3. QED
      BY <3>1, <3>2
  <2>4. QED
    BY <2>1, <2>2, <2>3 DEF AckInv
<1>3. CASE UNCHANGED vars
  BY <1>3 DEF vars, outVars, inVars, wireVars, AckInv
<1>4. QED
  BY <1>2, <1>3

LEMMA AckInvariant ==
    ASSUME "diskDamage" \notin Faults
    PROVE  Spec => []AckInv
<1>1. Init => AckInv
  BY DEF Init, OutInit, InInit, AckInv, NoAck, Offer
<1>2. QED
  BY <1>1, AckStep, AgreementInvariant, ReceiverInvariant, PTL DEF Spec

\* What the sender counts the receiver has committed, and what the receiver
\* counts is synchronised (receive_claimed_stream acknowledges last).
THEOREM AcknowledgedIsKept ==
    Spec => []AcknowledgedIsDurable
<1>1. CASE "diskDamage" \in Faults
  <2>1. AcknowledgedIsDurable
    BY <1>1 DEF AcknowledgedIsDurable
  <2>2. QED
    BY <2>1, PTL
<1>2. CASE "diskDamage" \notin Faults
  <2>1. AckInv /\ ReceiverInv => AcknowledgedIsDurable
    BY DEF AckInv, ReceiverInv, CommittedIsSynced, AcknowledgedIsDurable
  <2>2. QED
    BY <1>2, <2>1, AckInvariant, ReceiverInvariant, PTL
<1>3. QED
  BY <1>1, <1>2

-----------------------------------------------------------------------------
(* Aborts.  A notice, an acknowledgement of one, or a rejection is under   *)
(* way only for an abort that has happened; and a sender whose abort is    *)
(* announced no longer has a receiver that has ended, or one without any   *)
(* stream, which no stream can reach any more.                             *)

NoStreams == sendPc = "idle" /\ \A s \in Streams : recvPc[s] = "none"
SenderAborted == outStatus \in Aborted
ReceiverAborted == inStatus \in Aborted

NoticesTrue ==
    /\ outNotice # "none" => SenderAborted
    /\ inNotice # "none" => ReceiverAborted
MessagesTrue ==
    \A m \in net :
        /\ m.type = "terminal" /\ m.from = "sender" => SenderAborted
        /\ m.type = "terminal" /\ m.from = "receiver" => ReceiverAborted
        /\ m.type = "terminalAck" => SenderAborted
        /\ m.type = "reject" => ReceiverAborted
        /\ m.type = "decision" => inStatus # "none"
RejectTrue == resolveQueued = "reject" => ReceiverAborted
NotYetStarted ==
    /\ inStatus = "none" => outStatus = "awaitingAcceptance" \/ SenderAborted
    /\ inStatus = "none" \/ outStatus = "awaitingAcceptance" => NoStreams
AckReached == TerminalAck("sender") \in net => inStatus \in Terminal \/ NoStreams
SenderReached ==
    SenderAborted /\ outNotice = "none" => inStatus \in Terminal \/ NoStreams
ReceiverReached == ReceiverAborted /\ inNotice = "none" => SenderAborted

AbortInv ==
    /\ NoticesTrue /\ MessagesTrue /\ RejectTrue /\ NotYetStarted
    /\ AckReached /\ SenderReached /\ ReceiverReached

\* Where what a step sends comes from, as far as an abort is concerned.
Origin(m) ==
    \/ m.type \notin {"terminal", "terminalAck", "reject", "decision"}
    \/ m.type = "decision" /\ inStatus' # "none"
    \/ m.type = "reject" /\ resolveQueued = "reject"
    \/ m.type = "terminal" /\ m.from = "sender" /\ outNotice # "none"
    \/ m.type = "terminal" /\ m.from = "receiver" /\ inNotice # "none"
    \/ /\ m = TerminalAck("sender") /\ UNCHANGED outVars /\ UNCHANGED taskVars /\ UNCHANGED bodyVars
       /\ \E status \in Aborted : /\ Terminated("sender", status) \in net
                                  /\ RemoteEndsIncoming(status)
    \/ /\ m = TerminalAck("receiver")
       /\ \E status \in Aborted : /\ Terminated("receiver", status) \in net
                                  /\ RemoteEndsOutgoing(status)

LEMMA NewMessages ==
    ASSUME TypeInv, Next, NEW m \in net', m \notin net
    PROVE  Origin(m)
<1>0. /\ \A t \in Nat : Query(t).type = "query" /\ Accepted(t).type = "decision"
      /\ Rejected.type = "reject"
      /\ (FreeDecisions # {} => NewDecision \in Nat) /\ (FreeTokens # {} => NewToken \in Nat)
  BY NewTokens DEF Query, Accepted, Rejected, Tokens
<1>1. \A side \in Sides, notice \in Notices :
          m \in NoticeOf(side, notice) => m.type = "terminal" /\ m.from = side /\ notice # "none"
  BY DEF NoticeOf, Terminated
<1>2. \A t \in Tokens : Answer(t).type \in {"resume", "unresumable"}
  BY DEF Answer, Resume, Unresumable
<1>3. outNotice \in Notices /\ inNotice \in Notices /\ {"sender", "receiver"} \subseteq Sides
  BY DEF TypeInv, TypeOK, OutTypeOK, InTypeOK, Sides
<1>4. CASE DecisionSteps
  <2>1. CASE ReceiveAutomaticOffer
    BY <1>0, <2>1 DEF ReceiveAutomaticOffer, StoreAcceptedOffer, Sent, Origin
  <2>2. CASE SubmitDecision
    BY <1>0, <2>2 DEF SubmitDecision, CanPrepareDecision, PrepareDecision, Origin
  <2>3. CASE SubmitReject
    BY <1>0, <2>3 DEF SubmitReject, Sent, Origin
  <2>4. CASE ~ReceiveAutomaticOffer /\ ~SubmitDecision /\ ~SubmitReject
    BY <1>4, <2>4
    DEF DecisionSteps, ReceiveManualOffer, OfferAnswered,
        FailOffer, Accept, SubmitFails, Reject,
        ReceiveAcceptance, ReceiveRejection, DecisionAnswered, FailDecision, StartTimeout
  <2>5. QED
    BY <2>1, <2>2, <2>3, <2>4
<1>5. CASE SendTask
  BY <1>5
  DEF SendTask, ClaimFirstStream, OpenStream, OpenFails, SendChunk, SourceChanged,
      ReceiveAck, SendStreamBreaks, FinishFirst, MarkDelivered, FinishResumed
<1>6. CASE \E s \in Streams : ReceiveTask(s)
  BY <1>6
  DEF ReceiveTask, Authorize, ClaimRefused, ClaimThenPause, ClaimStream, WriteChunk,
      CommitReceivedChunk, IntegrityFails, ReceiveStreamBreaks, Publish,
      FinalizeFails, Complete, RecordReceived, CleanupFails, AcknowledgeFile,
      FinalAckFails, SenderSideUnchanged
<1>7. CASE ResumeSteps
  <2>1. \/ m \in net
        \/ m = Query(NewToken) /\ FreeTokens # {}
        \/ m \in NoticeOf("sender", outNotice)
        \/ \E t \in Tokens : m = Answer(t)
    BY <1>7
    DEF ResumeSteps, RecordHello, ReceiveQuery, ReceiveResume, ReceiveUnresumable,
        FailQuery, Sent
  <2>2. QED
    BY <1>0, <1>1, <1>2, <1>3, <2>1 DEF Origin
<1>8. CASE NoticeSteps
  <2>1. CASE SendNotice("sender", outNotice) \/ SendNotice("receiver", inNotice)
    BY <1>1, <1>3, <2>1 DEF SendNotice, Origin
  <2>2. CASE \E status \in Aborted : ReceiverHearsEnd(status)
    BY <2>2 DEF ReceiverHearsEnd, Sent, Origin
  <2>3. CASE \E status \in Aborted : SenderHearsEnd(status)
    BY <2>3 DEF SenderHearsEnd, Sent, Origin
  <2>4. QED
    BY <1>8, <2>1, <2>2, <2>3
    DEF NoticeSteps, CancelOutgoing, CancelIncoming, OutNoticeAcknowledged,
        InNoticeAcknowledged
<1>9. CASE Environment
  BY <1>9
  DEF Environment, LoseConnection, IdleClose, Reconnect, RestartSender, RestartReceiver,
      Survivors
<1>10. QED
  BY <1>4, <1>5, <1>6, <1>7, <1>8, <1>9 DEF Next

\* How the sender's row aborts or loses its notice.
SenderMoves ==
    \/ UNCHANGED <<outStatus, outNotice>>
    \/ ~SenderAborted /\ ~SenderAborted' /\ UNCHANGED outNotice
    \/ SenderAborted' /\ outNotice' # "none"
    \/ Rejected \in net /\ outStatus' \in Aborted /\ UNCHANGED outNotice
    \/ /\ UNCHANGED outNotice
       /\ \E status \in Aborted : Terminated("receiver", status) \in net
    \/ TerminalAck("sender") \in net /\ UNCHANGED outStatus /\ outNotice' = "none"

LEMMA SenderMovesSo == ASSUME TypeInv, SenderInv, Next PROVE SenderMoves
<1> USE DEF SenderMoves, SenderAborted, Aborted, outVars
<1>1. CASE DecisionSteps
  BY <1>1
  DEF DecisionSteps, ReceiveManualOffer, ReceiveAutomaticOffer, OfferAnswered,
      FailOffer, Accept, SubmitDecision, SubmitFails, Reject, SubmitReject,
      ReceiveAcceptance, ReceiveRejection, DecisionAnswered, FailDecision, StartTimeout,
      EndUnclaimedOutgoing, CanTransitionAwaiting, TransitionAwaiting
<1>2. CASE SendTask
  <2>1. PauseSend \/ FailSend => SenderMoves
    BY DEF PauseSend, FailSend, HoldsSendClaim, PauseClaimedOutgoing, FailClaimedOutgoing
  <2>2. QED
    BY <1>2, <2>1
    DEF SendTask, ClaimFirstStream, OpenStream, OpenFails, SendChunk, SourceChanged,
        ReceiveAck, SendStreamBreaks, FinishFirst, MarkDelivered, FinishResumed,
        CanClaimOutgoing, ClaimOutgoing, CommitProgress, CompleteOutgoing,
        CompleteResumeAndMessage, PauseClaimedOutgoing, HoldsSendClaim
<1>3. CASE \E s \in Streams : ReceiveTask(s)
  BY <1>3
  DEF ReceiveTask, Authorize, ClaimRefused, ClaimThenPause, ClaimStream, WriteChunk,
      CommitReceivedChunk, IntegrityFails, ReceiveStreamBreaks, Publish,
      FinalizeFails, Complete, RecordReceived, CleanupFails, AcknowledgeFile,
      FinalAckFails, SenderSideUnchanged
<1>4. CASE ResumeSteps
  BY <1>4
  DEF ResumeSteps, RecordHello, ReceiveQuery, ReceiveResume, ReceiveUnresumable, FailQuery,
      PrepareQuery, FailPendingQuery, ClearQuery, ClaimResumed, CompleteResumeAndMessage,
      PauseClaimedOutgoing, QueryStands
<1>5. CASE NoticeSteps
  BY <1>5
  DEF NoticeSteps, CancelOutgoing, CancelIncoming, SendNotice, ReceiverHearsEnd,
      SenderHearsEnd, OutNoticeAcknowledged, InNoticeAcknowledged,
      EndUnclaimedOutgoing, RemoteEndsOutgoing, AcknowledgeOutNotice
<1>6. CASE Environment
  BY <1>6
  DEF Environment, LoseConnection, IdleClose, Reconnect, RestartSender, RestartReceiver,
      ResetOutgoing
<1>7. QED
  BY <1>1, <1>2, <1>3, <1>4, <1>5, <1>6 DEF Next

\* How the receiver's row aborts or loses its notice.
ReceiverMoves ==
    \/ UNCHANGED <<inStatus, inNotice>>
    \/ ~ReceiverAborted /\ ~ReceiverAborted' /\ UNCHANGED inNotice
    \/ ReceiverAborted' /\ inNotice' # "none"
    \/ /\ UNCHANGED inNotice
       /\ \E status \in Aborted : Terminated("sender", status) \in net
    \/ TerminalAck("receiver") \in net /\ UNCHANGED inStatus /\ inNotice' = "none"

LEMMA ReceiverMovesSo == ASSUME TypeInv, Next PROVE ReceiverMoves
<1> USE DEF ReceiverMoves, ReceiverAborted, Aborted, inVars
<1>1. CASE DecisionSteps
  <2>1. \A t : RollBack(t) => ReceiverMoves
    BY DEF RollBack, CanRollbackDecision, ReturnToAwaiting
  <2>2. QED
    BY <1>1, <2>1
    DEF DecisionSteps, ReceiveManualOffer, ReceiveAutomaticOffer, OfferAnswered,
        FailOffer, Accept, SubmitDecision, SubmitFails, Reject, SubmitReject,
        ReceiveAcceptance, ReceiveRejection, DecisionAnswered, FailDecision, StartTimeout,
        StoreOffer, StoreAcceptedOffer, CanAcceptIncoming, AcceptIncoming, PrepareDecision,
        ReturnToAwaiting, CancelUnclaimedIncoming
<1>2. CASE SendTask
  BY <1>2
  DEF SendTask, ClaimFirstStream, OpenStream, OpenFails, SendChunk, SourceChanged,
      ReceiveAck, SendStreamBreaks, FinishFirst, MarkDelivered, FinishResumed
<1>3. CASE \E s \in Streams : ReceiveTask(s)
  <2>1. PauseClaimedIncoming \/ FailClaimedIncoming => ReceiverMoves
    BY DEF PauseClaimedIncoming, FailClaimedIncoming, HoldsReceiveClaim
  <2>2. QED
    BY <1>3, <2>1
    DEF ReceiveTask, Authorize, ClaimRefused, ClaimThenPause, ClaimStream, WriteChunk,
        CommitReceivedChunk, IntegrityFails, ReceiveStreamBreaks, Publish,
        FinalizeFails, Complete, RecordReceived, CleanupFails, AcknowledgeFile,
        FinalAckFails, CanClaimIncoming, ClaimIncoming, ClaimIncomingThenPause,
        ClaimIncomingThenFail, SyncChunk, CommitChunk, PublishFile, CompleteIncoming,
        RecordMessage, HoldsReceiveClaim
<1>4. CASE ResumeSteps
  BY <1>4
  DEF ResumeSteps, RecordHello, ReceiveQuery, ReceiveResume, ReceiveUnresumable, FailQuery
<1>5. CASE NoticeSteps
  BY <1>5
  DEF NoticeSteps, CancelOutgoing, CancelIncoming, SendNotice, ReceiverHearsEnd,
      SenderHearsEnd, OutNoticeAcknowledged, InNoticeAcknowledged,
      CancelUnclaimedIncoming, RemoteEndsIncoming, AcknowledgeInNotice
<1>6. CASE Environment
  BY <1>6
  DEF Environment, LoseConnection, IdleClose, Reconnect, RestartSender, RestartReceiver,
      ResetIncoming, ReconcileFinalised, ReconcileTampered, ReconcilePartial,
      ReconcileUnavailable
<1>7. QED
  BY <1>1, <1>2, <1>3, <1>4, <1>5, <1>6 DEF Next

\* A row the receiver has is never forgotten, a rejection is queued with the
\* end of the row, and the sender's row never awaits acceptance again.
LEMMA RowsStay ==
    ASSUME TypeInv, Next
    PROVE  /\ inStatus' = "none" => inStatus = "none"
           /\ resolveQueued' = "reject" => resolveQueued = "reject" \/ ReceiverAborted'
           /\ outStatus' = "awaitingAcceptance" => outStatus = "awaitingAcceptance"
<1> USE DEF inVars, outVars, decideVars
<1>1. inStatus' = "none" => inStatus = "none"
  <2>1. CASE RowStatement
    BY <2>1
    DEF RowStatement, StoreOffer, StoreAcceptedOffer, AcceptIncoming, PrepareDecision,
        ReturnToAwaiting, CancelUnclaimedIncoming, RemoteEndsIncoming, AcknowledgeInNotice,
        Aborted
  <2>2. CASE \E s \in Streams : ReceiveTask(s)
    <3>1. PauseClaimedIncoming \/ FailClaimedIncoming => (inStatus' = "none" => inStatus = "none")
      BY DEF PauseClaimedIncoming, FailClaimedIncoming
    <3>2. QED
      BY <2>2, <3>1
      DEF ReceiveTask, Authorize, ClaimRefused, ClaimThenPause, ClaimStream, WriteChunk,
          CommitReceivedChunk, IntegrityFails, ReceiveStreamBreaks, Publish,
          FinalizeFails, Complete, RecordReceived, CleanupFails, AcknowledgeFile,
          FinalAckFails, ClaimIncoming, ClaimIncomingThenPause,
          ClaimIncomingThenFail, SyncChunk, CommitChunk, PublishFile, CompleteIncoming,
          RecordMessage
  <2>3. CASE RestartReceiver
    BY <2>3
    DEF RestartReceiver, ResetIncoming, ReconcileFinalised, ReconcileTampered,
        ReconcilePartial, ReconcileUnavailable
  <2>4. QED
    BY <2>1, <2>2, <2>3, StepsOfReceiver DEF ReceiverSteps
<1>2. resolveQueued' = "reject" => resolveQueued = "reject" \/ ReceiverAborted'
  <2>1. CASE DecisionSteps
    BY <2>1
    DEF DecisionSteps, ReceiveManualOffer, ReceiveAutomaticOffer, OfferAnswered,
        FailOffer, Accept, SubmitDecision, SubmitFails, Reject, SubmitReject,
        ReceiveAcceptance, ReceiveRejection, DecisionAnswered, FailDecision, StartTimeout,
        CancelUnclaimedIncoming, ReceiverAborted, Aborted
  <2>2. CASE SendTask
    BY <2>2
    DEF SendTask, ClaimFirstStream, OpenStream, OpenFails, SendChunk, SourceChanged,
        ReceiveAck, SendStreamBreaks, FinishFirst, MarkDelivered, FinishResumed
  <2>3. CASE \E s \in Streams : ReceiveTask(s)
    BY <2>3
    DEF ReceiveTask, Authorize, ClaimRefused, ClaimThenPause, ClaimStream, WriteChunk,
        CommitReceivedChunk, IntegrityFails, ReceiveStreamBreaks, Publish,
        FinalizeFails, Complete, RecordReceived, CleanupFails, AcknowledgeFile,
        FinalAckFails, SenderSideUnchanged
  <2>4. CASE ResumeSteps
    BY <2>4
    DEF ResumeSteps, RecordHello, ReceiveQuery, ReceiveResume, ReceiveUnresumable, FailQuery
  <2>5. CASE NoticeSteps
    BY <2>5
    DEF NoticeSteps, CancelOutgoing, CancelIncoming, SendNotice, ReceiverHearsEnd,
        SenderHearsEnd, OutNoticeAcknowledged, InNoticeAcknowledged
  <2>6. CASE Environment
    BY <2>6
    DEF Environment, LoseConnection, IdleClose, Reconnect, RestartSender, RestartReceiver
  <2>7. QED
    BY <2>1, <2>2, <2>3, <2>4, <2>5, <2>6 DEF Next
<1>3. outStatus' = "awaitingAcceptance" => outStatus = "awaitingAcceptance"
  <2>1. CASE DecisionSteps
    BY <2>1
    DEF DecisionSteps, ReceiveManualOffer, ReceiveAutomaticOffer, OfferAnswered,
        FailOffer, Accept, SubmitDecision, SubmitFails, Reject, SubmitReject,
        ReceiveAcceptance, ReceiveRejection, DecisionAnswered, FailDecision, StartTimeout,
        EndUnclaimedOutgoing, TransitionAwaiting
  <2>2. CASE SendTask
    BY <2>2
    DEF SendTask, ClaimFirstStream, OpenStream, OpenFails, SendChunk, SourceChanged,
        ReceiveAck, SendStreamBreaks, FinishFirst, MarkDelivered, FinishResumed,
        PauseSend, FailSend, PauseClaimedOutgoing, FailClaimedOutgoing,
        ClaimOutgoing, CommitProgress, CompleteOutgoing, CompleteResumeAndMessage
  <2>3. CASE \E s \in Streams : ReceiveTask(s)
    BY <2>3
    DEF ReceiveTask, Authorize, ClaimRefused, ClaimThenPause, ClaimStream, WriteChunk,
        CommitReceivedChunk, IntegrityFails, ReceiveStreamBreaks, Publish,
        FinalizeFails, Complete, RecordReceived, CleanupFails, AcknowledgeFile,
        FinalAckFails, SenderSideUnchanged
  <2>4. CASE ResumeSteps
    BY <2>4
    DEF ResumeSteps, RecordHello, ReceiveQuery, ReceiveResume, ReceiveUnresumable, FailQuery,
        PrepareQuery, FailPendingQuery, ClearQuery, ClaimResumed, CompleteResumeAndMessage,
        PauseClaimedOutgoing
  <2>5. CASE NoticeSteps
    BY <2>5
    DEF NoticeSteps, CancelOutgoing, CancelIncoming, SendNotice, ReceiverHearsEnd,
        SenderHearsEnd, OutNoticeAcknowledged, InNoticeAcknowledged,
        EndUnclaimedOutgoing, RemoteEndsOutgoing, AcknowledgeOutNotice, Aborted
  <2>6. CASE Environment
    BY <2>6
    DEF Environment, LoseConnection, IdleClose, Reconnect, RestartSender, RestartReceiver,
        ResetOutgoing
  <2>7. QED
    BY <2>1, <2>2, <2>3, <2>4, <2>5, <2>6 DEF Next
<1>4. QED
  BY <1>1, <1>2, <1>3

\* Without a stream, only an acceptance under way starts one; and only it
\* takes the sender's row out of its wait without ending it.
LEMMA NoStreamsStay ==
    ASSUME TypeInv, SenderInv, Next, NoStreams,
           outStatus = "awaitingAcceptance" \/ SenderAborted
    PROVE  \/ /\ NoStreams'
              /\ outStatus = "awaitingAcceptance" =>
                     outStatus' = "awaitingAcceptance" \/ SenderAborted'
           \/ /\ outStatus = "awaitingAcceptance" /\ outStatus' = "transferring"
              /\ \E t \in 1..MaxDecisions : Accepted(t) \in net
<1> USE DEF NoStreams, SenderAborted, Aborted, outVars, taskVars, bodyVars
<1>1. CASE \E t \in 1..MaxDecisions : ReceiveAcceptance(t)
  BY <1>1 DEF ReceiveAcceptance, CanTransitionAwaiting, TransitionAwaiting
<1>2. CASE DecisionSteps /\ ~(\E t \in 1..MaxDecisions : ReceiveAcceptance(t))
  BY <1>2
  DEF DecisionSteps, ReceiveManualOffer, ReceiveAutomaticOffer, OfferAnswered,
      FailOffer, Accept, SubmitDecision, SubmitFails, Reject, SubmitReject,
      ReceiveRejection, DecisionAnswered, FailDecision, StartTimeout,
      EndUnclaimedOutgoing, TransitionAwaiting
<1>3. CASE SendTask
  BY <1>3
  DEF SendTask, ClaimFirstStream, OpenStream, OpenFails, SendChunk, SourceChanged,
      ReceiveAck, SendStreamBreaks, FinishFirst, MarkDelivered, FinishResumed
<1>4. ASSUME NEW s \in Streams, ReceiveTask(s) PROVE FALSE
  BY <1>4
  DEF ReceiveTask, Authorize, ClaimRefused, ClaimThenPause, ClaimStream, WriteChunk,
      CommitReceivedChunk, IntegrityFails, ReceiveStreamBreaks, Publish,
      FinalizeFails, Complete, RecordReceived, CleanupFails, AcknowledgeFile,
      FinalAckFails
<1>5. CASE ResumeSteps
  BY <1>5
  DEF ResumeSteps, RecordHello, ReceiveQuery, ReceiveResume, ReceiveUnresumable, FailQuery,
      QueryStands, ClearQuery
<1>6. CASE NoticeSteps
  BY <1>6
  DEF NoticeSteps, CancelOutgoing, CancelIncoming, SendNotice, ReceiverHearsEnd,
      SenderHearsEnd, OutNoticeAcknowledged, InNoticeAcknowledged,
      EndUnclaimedOutgoing, RemoteEndsOutgoing, AcknowledgeOutNotice
<1>7. CASE Environment
  BY <1>7
  DEF Environment, LoseConnection, IdleClose, Reconnect, RestartSender, RestartReceiver,
      ResetOutgoing
<1>8. QED
  BY <1>1, <1>2, <1>3, <1>4, <1>5, <1>6, <1>7 DEF Next

\* Every step.
LEMMA AbortStep ==
    ASSUME AgreementInv, SenderInv, AbortInv, Next
    PROVE  AbortInv'
<1> USE DEF AbortInv
<1>0. /\ TypeInv
      /\ Aborted \subseteq Terminal
      /\ \A status \in Aborted :
             /\ Terminated("sender", status).type = "terminal"
             /\ Terminated("sender", status).from = "sender"
             /\ Terminated("receiver", status).type = "terminal"
             /\ Terminated("receiver", status).from = "receiver"
      /\ \A side : TerminalAck(side).type = "terminalAck"
      /\ \A t : Accepted(t).type = "decision"
      /\ Rejected.type = "reject"
  BY DEF AgreementInv, Terminal, Terminated, TerminalAck, Accepted, Rejected
<1>1. /\ SenderAborted => SenderAborted'
      /\ ReceiverAborted => ReceiverAborted'
      /\ inStatus \in Terminal => inStatus' \in Terminal
  BY <1>0, StatusesStay DEF OutStays, InStays, SenderAborted, ReceiverAborted
<1>2. SenderMoves /\ ReceiverMoves
  BY <1>0, SenderMovesSo, ReceiverMovesSo
<1>3. SenderAborted /\ NoStreams => NoStreams'
  BY <1>0, NoStreamsStay DEF SenderAborted, Aborted
<1>4. /\ Rejected \in net => ReceiverAborted
      /\ \A status \in Aborted : Terminated("receiver", status) \in net => ReceiverAborted
      /\ \A status \in Aborted : Terminated("sender", status) \in net => SenderAborted
      /\ \A side : TerminalAck(side) \in net => SenderAborted
      /\ \A t : Accepted(t) \in net => inStatus # "none"
  BY <1>0 DEF MessagesTrue
<1>5. NoticesTrue'
  BY <1>1, <1>2 DEF NoticesTrue, SenderMoves, ReceiverMoves
<1>6. MessagesTrue'
  <2> SUFFICES ASSUME NEW m \in net'
               PROVE  /\ m.type = "terminal" /\ m.from = "sender" => SenderAborted'
                      /\ m.type = "terminal" /\ m.from = "receiver" => ReceiverAborted'
                      /\ m.type = "terminalAck" => SenderAborted'
                      /\ m.type = "reject" => ReceiverAborted'
                      /\ m.type = "decision" => inStatus' # "none"
    BY DEF MessagesTrue
  <2>1. CASE m \in net
    BY <1>0, <1>1, <2>1, RowsStay DEF MessagesTrue
  <2>2. CASE m \notin net
    <3>1. Origin(m)
      BY <1>0, <2>2, NewMessages
    <3>2. CASE m = TerminalAck("receiver") /\ \E status \in Aborted :
                   Terminated("receiver", status) \in net /\ RemoteEndsOutgoing(status)
      <4>1. ReceiverAborted /\ outStatus # "completed"
        BY <1>4, <3>2
        DEF AgreementInv, SenderCompleted, Completed, ReceiverAborted, Aborted
      <4>2. outStatus \in Open \/ outStatus \in Aborted
        BY <1>0, <4>1 DEF TypeInv, TypeOK, OutTypeOK, Terminal
      <4>3. SenderAborted'
        BY <1>1, <3>2, <4>2 DEF RemoteEndsOutgoing, SenderAborted
      <4>4. QED
        BY <1>0, <3>2, <4>3
    <3>3. CASE m = TerminalAck("sender") /\ \E status \in Aborted :
                   Terminated("sender", status) \in net
      BY <1>0, <1>1, <1>4, <3>3
    <3>4. CASE \/ m.type \notin {"terminal", "terminalAck", "reject", "decision"}
               \/ m.type = "decision" /\ inStatus' # "none"
               \/ m.type = "reject" /\ resolveQueued = "reject"
               \/ m.type = "terminal" /\ m.from = "sender" /\ outNotice # "none"
               \/ m.type = "terminal" /\ m.from = "receiver" /\ inNotice # "none"
      BY <1>1, <3>4 DEF RejectTrue, NoticesTrue
    <3>5. QED
      BY <3>1, <3>2, <3>3, <3>4 DEF Origin
  <2>3. QED
    BY <2>1, <2>2
<1>7. RejectTrue'
  BY <1>0, <1>1, RowsStay DEF RejectTrue
<1>8. NotYetStarted'
  <2>1. ASSUME inStatus' = "none"
        PROVE  (outStatus' = "awaitingAcceptance" \/ SenderAborted') /\ NoStreams'
    <3>1. /\ inStatus = "none" /\ NoStreams
          /\ outStatus = "awaitingAcceptance" \/ SenderAborted
      BY <1>0, <2>1, RowsStay DEF NotYetStarted
    <3>2. QED
      BY <1>0, <1>1, <1>4, <3>1, NoStreamsStay
  <2>2. ASSUME outStatus' = "awaitingAcceptance"
        PROVE  NoStreams'
    <3>1. outStatus = "awaitingAcceptance" /\ NoStreams
      BY <1>0, <2>2, RowsStay DEF NotYetStarted
    <3>2. QED
      BY <1>0, <2>2, <3>1, NoStreamsStay
  <2>3. QED
    BY <2>1, <2>2 DEF NotYetStarted
<1>9. AckReached'
  <2>1. CASE TerminalAck("sender") \in net
    BY <1>1, <1>3, <1>4, <2>1 DEF AckReached
  <2>2. CASE TerminalAck("sender") \in net' /\ TerminalAck("sender") \notin net
    <3>1. Origin(TerminalAck("sender")) /\ TerminalAck("sender") # TerminalAck("receiver")
      BY <1>0, <2>2, NewMessages DEF TerminalAck
    <3>2. PICK status \in Aborted :
              /\ UNCHANGED taskVars /\ UNCHANGED bodyVars
              /\ RemoteEndsIncoming(status)
      BY <1>0, <3>1 DEF Origin
    <3>3. CASE inStatus = "none"
      BY <3>2, <3>3 DEF NotYetStarted, NoStreams, AckReached, taskVars, bodyVars
    <3>4. CASE inStatus \in Open
      BY <1>0, <3>2, <3>4 DEF RemoteEndsIncoming, AckReached
    <3>5. CASE inStatus \in Terminal
      BY <1>1, <3>5 DEF AckReached
    <3>6. QED
      BY <1>0, <3>3, <3>4, <3>5 DEF TypeInv, TypeOK, InTypeOK
  <2>3. QED
    BY <2>1, <2>2 DEF AckReached
<1>10. SenderReached'
  BY <1>0, <1>1, <1>2, <1>3, <1>4
  DEF SenderReached, SenderMoves, AckReached, ReceiverAborted, SenderAborted
<1>11. ReceiverReached'
  BY <1>1, <1>2, <1>4 DEF ReceiverReached, ReceiverMoves, ReceiverAborted
<1>12. QED
  BY <1>5, <1>6, <1>7, <1>8, <1>9, <1>10, <1>11

LEMMA AbortInvariant == Spec => []AbortInv
<1>1. Init => AbortInv
  <2> SUFFICES ASSUME Init PROVE AbortInv
    OBVIOUS
  <2>1. ~SenderAborted /\ ~ReceiverAborted /\ NoStreams
    BY DEF Init, OutInit, InInit, SenderAborted, ReceiverAborted, Aborted, NoStreams
  <2>2. NoticesTrue /\ RejectTrue /\ NotYetStarted /\ SenderReached /\ ReceiverReached
    BY <2>1
    DEF Init, OutInit, InInit, NoticesTrue, RejectTrue, NotYetStarted, SenderReached,
        ReceiverReached
  <2>3. MessagesTrue /\ AckReached
    BY DEF Init, MessagesTrue, AckReached, Offer, TerminalAck
  <2>4. QED
    BY <2>2, <2>3 DEF AbortInv
<1>2. ASSUME AgreementInv, SenderInv, AbortInv, [Next]_vars PROVE AbortInv'
  <2>1. CASE UNCHANGED vars
    BY <1>2, <2>1
    DEF vars, outVars, inVars, taskVars, bodyVars, decideVars, AbortInv, NoticesTrue,
        MessagesTrue, RejectTrue, NotYetStarted, AckReached, SenderReached,
        ReceiverReached, SenderAborted, ReceiverAborted, NoStreams
  <2>2. QED
    BY <1>2, <2>1, AbortStep
<1>3. QED
  BY <1>1, <1>2, AgreementInvariant, SenderInvariant, PTL DEF Spec

\* No abort is lost: once a notice is no longer queued, the peer has ended
\* or will never serve a stream (apply_remote_terminal_transfer).
THEOREM AbortsReachThePeer == Spec => []AbortReachesPeer
<1>1. AbortInv /\ ReceiverInv => AbortReachesPeer
  <2> SUFFICES ASSUME AbortInv, ReceiverInv PROVE AbortReachesPeer
    OBVIOUS
  <2>1. inStatus \in Terminal => ~receiveClaimed
    BY DEF ReceiverInv, ClaimRunning, Terminal, Aborted
  <2>2. NoStreams => ~receiveClaimed
    BY DEF NoStreams, ReceiverInv, ClaimHasTask, Body
  <2>3. QED
    BY <2>1, <2>2
    DEF AbortInv, SenderReached, ReceiverReached, SenderAborted, ReceiverAborted,
        AbortReachesPeer
<1>2. QED
  BY <1>1, AbortInvariant, ReceiverInvariant, PTL

-----------------------------------------------------------------------------
(* The contract.  A step touches at most one of the two rows; on each side *)
(* it is a step of the contract or leaves the verdict and the count alone. *)

SenderPart ==
    \/ UNCHANGED <<Verdict(outStatus), acked>>
    \/ Verdict(outStatus) = "open" /\ Verdict(outStatus)' = "open"
    \/ /\ Verdict(outStatus) = "open" /\ Verdict(outStatus)' = "completed"
       /\ inStatus = "completed" /\ acked' = Chunks
    \/ Verdict(outStatus) = "open" /\ Verdict(outStatus)' = "aborted" /\ UNCHANGED acked

ReceiverPart ==
    \/ UNCHANGED <<Verdict(inStatus), committed>>
    \/ /\ Verdict(inStatus) = "open" /\ Verdict(inStatus)' = "open"
       /\ committed < Chunks /\ committed' = committed + 1
    \/ /\ Verdict(inStatus) = "open" /\ Verdict(inStatus)' = "open"
       /\ "diskDamage" \in Faults /\ committed' \in 0..(committed - 1)
    \/ /\ Verdict(inStatus) = "open" /\ Verdict(inStatus)' = "completed"
       /\ committed = Chunks /\ UNCHANGED committed
    \/ Verdict(inStatus) = "open" /\ Verdict(inStatus)' = "aborted" /\ UNCHANGED committed

LEMMA SenderPartOfStep == ASSUME AgreementInv, Next PROVE SenderPart
<1> USE DEF SenderPart, Verdict, Aborted, outVars
<1>1. CASE DecisionSteps
  BY <1>1
  DEF DecisionSteps, ReceiveManualOffer, ReceiveAutomaticOffer, OfferAnswered,
      FailOffer, Accept, SubmitDecision, SubmitFails, Reject, SubmitReject,
      ReceiveAcceptance, ReceiveRejection, DecisionAnswered, FailDecision, StartTimeout,
      CanEndUnclaimedOutgoing, EndUnclaimedOutgoing, CanTransitionAwaiting,
      TransitionAwaiting, Open
<1>2. CASE SendTask
  <2>1. PauseSend \/ FailSend => SenderPart
    BY DEF PauseSend, FailSend, HoldsSendClaim, PauseClaimedOutgoing, FailClaimedOutgoing
  <2>2. sendPc = "finish" => inStatus = "completed"
    BY DEF AgreementInv, SendTaskCompleted, Completed
  <2>3. QED
    BY <1>2, <2>1, <2>2
    DEF SendTask, ClaimFirstStream, OpenStream, OpenFails, SendChunk, SourceChanged,
        ReceiveAck, SendStreamBreaks, FinishFirst, MarkDelivered, FinishResumed,
        CanClaimOutgoing, ClaimOutgoing, CanCommitProgress, CommitProgress, CompleteOutgoing,
        CompleteResumeAndMessage, PauseClaimedOutgoing, HoldsSendClaim
<1>3. CASE \E s \in Streams : ReceiveTask(s)
  BY <1>3
  DEF ReceiveTask, Authorize, ClaimRefused, ClaimThenPause, ClaimStream, WriteChunk,
      CommitReceivedChunk, IntegrityFails, ReceiveStreamBreaks, Publish,
      FinalizeFails, Complete, RecordReceived, CleanupFails, AcknowledgeFile,
      FinalAckFails, SenderSideUnchanged
<1>4. CASE ResumeSteps
  <2>1. \A t \in Tokens, offset \in 0..Chunks :
            ReceiveResume(t, "completed", offset) => inStatus = "completed"
    BY DEF ReceiveResume, Resume, AgreementInv, AnswerCompleted, Completed
  <2>2. QED
    BY <1>4, <2>1
    DEF ResumeSteps, RecordHello, ReceiveQuery, ReceiveResume, ReceiveUnresumable, FailQuery,
        PrepareQuery, FailPendingQuery, ClearQuery, ClaimResumed, CompleteResumeAndMessage,
        PauseClaimedOutgoing, QueryStands
<1>5. CASE NoticeSteps
  BY <1>5
  DEF NoticeSteps, CancelOutgoing, CancelIncoming, SendNotice, ReceiverHearsEnd,
      SenderHearsEnd, OutNoticeAcknowledged, InNoticeAcknowledged, Open,
      CanEndUnclaimedOutgoing, EndUnclaimedOutgoing, RemoteEndsOutgoing, AcknowledgeOutNotice
<1>6. CASE Environment
  BY <1>6
  DEF Environment, LoseConnection, IdleClose, Reconnect, RestartSender, RestartReceiver,
      ResetOutgoing
<1>7. QED
  BY <1>1, <1>2, <1>3, <1>4, <1>5, <1>6 DEF Next

LEMMA ReceiverPartOfStep == ASSUME AgreementInv, ReceiverInv, Next PROVE ReceiverPart
<1> USE DEF ReceiverPart, Verdict, Aborted, inVars
<1>0. /\ committed \in 0..Chunks /\ TypeInv
      /\ inStatus \in {"none", "awaitingAcceptance"} => committed = 0
  BY DEF AgreementInv, TypeInv, TypeOK, InTypeOK, ReceiverInv, UnstartedIsEmpty
<1>1. CASE UNCHANGED inVars
  BY <1>1
<1>2. CASE RowStatement
  BY <1>0, <1>2
  DEF RowStatement, StoreOffer, StoreAcceptedOffer, CanAcceptIncoming, AcceptIncoming,
      PrepareDecision, ReturnToAwaiting, CanCancelUnclaimedIncoming,
      CancelUnclaimedIncoming, RemoteEndsIncoming, AcknowledgeInNotice, Open
<1>3. ASSUME NEW s \in Streams, ReceiveTask(s)
      PROVE  ReceiverPart
  <2>1. PauseClaimedIncoming \/ FailClaimedIncoming => ReceiverPart
    BY DEF PauseClaimedIncoming, FailClaimedIncoming, HoldsReceiveClaim
  <2>2. CASE CommitReceivedChunk(s)
    <3>1. recvPos[s] \in Nat /\ recvPos[s] < Chunks
      BY <1>0, <2>2 DEF CommitReceivedChunk, WrittenFits, TypeInv, TypeOK, BodyTypeOK
    <3>2. CASE CanCommitChunk(recvPos[s] + 1)
      BY <1>0, <2>2, <3>1, <3>2
      DEF CommitReceivedChunk, CanCommitChunk, CommitChunk, HoldsReceiveClaim
    <3>3. CASE ~CanCommitChunk(recvPos[s] + 1)
      BY <2>1, <2>2, <3>3 DEF CommitReceivedChunk
    <3>4. QED
      BY <3>2, <3>3
  <2>3. CASE Complete(s)
    <3>1. HoldsReceiveClaim => committed = Chunks
      BY <2>3 DEF Complete, HoldsReceiveClaim, ReceiverInv, EndAtLast, BodyAtOffset, Body
    <3>2. QED
      BY <2>3, <3>1 DEF Complete, CompleteIncoming, HoldsReceiveClaim
  <2>4. QED
    BY <1>3, <2>1, <2>2, <2>3
    DEF ReceiveTask, Authorize, ClaimRefused, ClaimThenPause, ClaimStream, WriteChunk,
        IntegrityFails, ReceiveStreamBreaks, Publish, FinalizeFails, RecordReceived,
        CleanupFails, AcknowledgeFile, FinalAckFails, CanClaimIncoming, ClaimIncoming,
        ClaimIncomingThenPause, ClaimIncomingThenFail, SyncChunk, PublishFile, RecordMessage
<1>4. CASE RestartReceiver
  BY <1>0, <1>4
  DEF RestartReceiver, ResetIncoming, ReconcileFinalised, ReconcileTampered,
      ReconcilePartial, ReconcileUnavailable, Finalised
<1>5. QED
  BY <1>0, <1>1, <1>2, <1>3, <1>4, StepsOfReceiver DEF ReceiverSteps

LEMMA OneRowAtATime == Next => UNCHANGED outVars \/ UNCHANGED inVars
BY DEF Next, DecisionSteps, ReceiveManualOffer, ReceiveAutomaticOffer, OfferAnswered,
       FailOffer, Accept, SubmitDecision, SubmitFails, Reject, SubmitReject,
       ReceiveAcceptance, ReceiveRejection, DecisionAnswered, FailDecision, StartTimeout,
       SendTask, ClaimFirstStream, OpenStream, OpenFails, SendChunk, SourceChanged,
       ReceiveAck, SendStreamBreaks, FinishFirst, MarkDelivered, FinishResumed,
       ReceiveTask, Authorize, ClaimRefused, ClaimThenPause, ClaimStream, WriteChunk,
       CommitReceivedChunk, IntegrityFails, ReceiveStreamBreaks, Publish,
       FinalizeFails, Complete, RecordReceived, CleanupFails, AcknowledgeFile,
       FinalAckFails, SenderSideUnchanged,
       ResumeSteps, RecordHello, ReceiveQuery, ReceiveResume, ReceiveUnresumable, FailQuery,
       NoticeSteps, CancelOutgoing, CancelIncoming, SendNotice, ReceiverHearsEnd,
       SenderHearsEnd, OutNoticeAcknowledged, InNoticeAcknowledged,
       Environment, LoseConnection, IdleClose, Reconnect, RestartSender, RestartReceiver

\* Every step of the protocol is a step of the contract or changes nothing
\* the contract speaks of.
LEMMA ContractStep ==
    ASSUME AgreementInv, AgreementInv', ReceiverInv,
           "diskDamage" \notin Faults => AckInv, [Next]_vars
    PROVE  [Contract!Next]_(Contract!contractVars)
<1> USE DEF Contract!Next, Contract!Store, Contract!GiveBack, Contract!Show,
            Contract!ReceiverCompletes, Contract!SenderCompletes, Contract!SenderAborts,
            Contract!ReceiverAborts, Contract!contractVars
<1>0. acked' \in 0..Chunks
  BY DEF AgreementInv, TypeInv, TypeOK, OutTypeOK
<1>1. CASE UNCHANGED vars
  BY <1>1 DEF vars, outVars, inVars
<1>2. CASE Next /\ UNCHANGED inVars
  <2>1. SenderPart
    BY <1>2, SenderPartOfStep
  <2>2. "diskDamage" \notin Faults => acked' <= committed
    BY <1>2, NewProgress
  <2>3. UNCHANGED Verdict(inStatus) /\ UNCHANGED committed
    BY <1>2 DEF inVars
  <2>4. inStatus = "completed" => Verdict(inStatus) = "completed"
    BY DEF Verdict
  <2>5. QED
    BY <1>0, <2>1, <2>2, <2>3, <2>4 DEF SenderPart
<1>3. CASE Next /\ UNCHANGED outVars
  <2>1. ReceiverPart
    BY <1>3, ReceiverPartOfStep
  <2>2. UNCHANGED Verdict(outStatus) /\ UNCHANGED acked
    BY <1>3 DEF outVars
  <2>3. QED
    BY <2>1, <2>2 DEF ReceiverPart
<1>4. QED
  BY <1>1, <1>2, <1>3, OneRowAtATime

\* The protocol, with its tokens, claims, retries, lost connections and
\* restarts, implements what it promises the two users: every run of it is a
\* run of TransferContract.
THEOREM ProtocolImplementsContract == Spec => ImplementsContract
<1>1. Init => Contract!Init
  BY DEF Init, OutInit, InInit, Contract!Init, Verdict, Aborted
<1>2. Spec => []("diskDamage" \notin Faults => AckInv)
  <2>1. CASE "diskDamage" \in Faults
    <3>1. "diskDamage" \notin Faults => AckInv
      BY <2>1
    <3>2. QED
      BY <3>1, PTL
  <2>2. CASE "diskDamage" \notin Faults
    BY <2>2, AckInvariant, PTL
  <2>3. QED
    BY <2>1, <2>2
<1>3. QED
  BY <1>1, <1>2, ContractStep, AgreementInvariant, ReceiverInvariant, PTL
  DEF Spec, ImplementsContract, Contract!Spec

=============================================================================
