---------------------- MODULE ResumableTransferProofs -----------------------
(***************************************************************************)
(* Proofs about ResumableTransfer, for any number of chunks, streams,      *)
(* tokens, lost connections and restarts, any kind of message and any      *)
(* faults: the types, that the sender never reports success before the     *)
(* receiver has completed, and that an end is final on both sides.         *)
(*                                                                         *)
(* CompletionAgreement is not inductive.  What makes it one is the trail   *)
(* the verdict takes from the receiver to the sender: the published file,  *)
(* the receiving task past its completion, the final acknowledgement on    *)
(* the wire or the "completed" answer under way, the sending task past its *)
(* last acknowledgement.  Each link of the trail implies that the          *)
(* receiver's row is completed, and a completed row stays.                 *)
(***************************************************************************)
EXTENDS ResumableTransfer, TLAPS

USE ChunksAssumption, KindAssumption, FaultsAssumption, BoundsAssumption

-----------------------------------------------------------------------------
(* The inductive invariant.                                                *)

Completed == inStatus = "completed"

WrittenFits == \A s \in Streams : recvPc[s] = "written" => recvPos[s] < Chunks
StreamOpened == sendPc \in {"send", "await"} => sendStream \in Streams

FilePublished ==
    Completed \/ (\E s \in Streams : recvPc[s] = "published") => published
TaskCompleted ==
    \A s \in Streams : recvPc[s] \in {"record", "ackFinal"} => Completed
FinalAckCompleted == \A s \in Streams : wireAck[s] = Chunks => Completed
AnswerCompleted ==
    \A m \in net : m.type = "resume" /\ m.state = "completed" => Completed
SendTaskCompleted == sendPc \in {"finish", "message"} => Completed
SenderCompleted == outStatus = "completed" \/ outMessage = "delivered" => Completed

TypeInv == TypeOK /\ WrittenFits

AgreementInv ==
    /\ TypeInv
    /\ StreamOpened
    /\ FilePublished
    /\ TaskCompleted
    /\ FinalAckCompleted
    /\ AnswerCompleted
    /\ SendTaskCompleted
    /\ SenderCompleted

-----------------------------------------------------------------------------
(* Type correctness.  The statements of each row keep its types; then each *)
(* group of actions keeps the types of the variables it touches.           *)

\* Every request and answer the loops send is a known message.
LEMMA MessagesClosed ==
    /\ Offer \in Messages /\ Rejected \in Messages
    /\ \A t \in 1..MaxDecisions : Accepted(t) \in Messages
    /\ \A t \in Tokens : Query(t) \in Messages /\ Unresumable(t) \in Messages
    /\ \A t \in Tokens, state \in {"receiving", "completed"}, offset \in 0..Chunks :
           Resume(t, state, offset) \in Messages
    /\ \A side \in Sides :
           /\ TerminalAck(side) \in Messages
           /\ \A status \in Aborted : Terminated(side, status) \in Messages
BY DEF Messages, Sides, Offer, Rejected, Accepted, Query, Unresumable, Resume,
       TerminalAck, Terminated

\* A token that is free is one of the tokens in use.
LEMMA NewTokens ==
    /\ FreeDecisions # {} => NewDecision \in 1..MaxDecisions
    /\ FreeTokens # {} => NewToken \in Tokens
BY DEF FreeDecisions, NewDecision, FreeTokens, NewToken

\* Every statement on the sender's row keeps its types.
LEMMA OutgoingTypes ==
    ASSUME OutTypeOK
    PROVE  /\ UNCHANGED outVars => OutTypeOK'
           /\ \A status \in {"transferring", "cancelled"} :
                  TransitionAwaiting(status) => OutTypeOK'
           /\ ClaimOutgoing => OutTypeOK'
           /\ \A k \in 0..Chunks : CommitProgress(k) => OutTypeOK'
           /\ CompleteOutgoing => OutTypeOK'
           /\ \A t \in Nat : PauseClaimedOutgoing(t) => OutTypeOK'
           /\ \A t \in Nat : FailClaimedOutgoing(t) => OutTypeOK'
           /\ \A t \in Nat : CompleteResumeAndMessage(t) => OutTypeOK'
           /\ \A t \in Nat : PrepareQuery(t) => OutTypeOK'
           /\ \A t \in Nat, k \in 0..Chunks : ClearQuery(t, k) => OutTypeOK'
           /\ \A k \in 0..Chunks : ClaimResumed(k) => OutTypeOK'
           /\ FailPendingQuery => OutTypeOK'
           /\ \A status \in Aborted : EndUnclaimedOutgoing(status) => OutTypeOK'
           /\ \A status \in Aborted : RemoteEndsOutgoing(status) => OutTypeOK'
           /\ AcknowledgeOutNotice => OutTypeOK'
           /\ ResetOutgoing => OutTypeOK'
<1> USE DEF OutTypeOK, outVars, Open, Aborted, Terminal, Notices
<1>1. UNCHANGED outVars => OutTypeOK'
  OBVIOUS
<1>2. \A status \in {"transferring", "cancelled"} : TransitionAwaiting(status) => OutTypeOK'
  BY DEF TransitionAwaiting
<1>3. ClaimOutgoing => OutTypeOK'
  BY DEF ClaimOutgoing
<1>4. \A k \in 0..Chunks : CommitProgress(k) => OutTypeOK'
  BY DEF CommitProgress
<1>5. CompleteOutgoing => OutTypeOK'
  <2>1. CompleteOutgoing => sendClaimed' \in BOOLEAN
    BY DEF CompleteOutgoing
  <2>2. QED
    BY <2>1 DEF CompleteOutgoing
<1>6. \A t \in Nat : PauseClaimedOutgoing(t) => OutTypeOK'
  <2>1. \A t \in Nat : PauseClaimedOutgoing(t) => sendClaimed' \in BOOLEAN
    BY DEF PauseClaimedOutgoing
  <2>2. QED
    BY <2>1 DEF PauseClaimedOutgoing
<1>7. \A t \in Nat : FailClaimedOutgoing(t) => OutTypeOK'
  <2>1. \A t \in Nat : FailClaimedOutgoing(t) => sendClaimed' \in BOOLEAN
    BY DEF FailClaimedOutgoing
  <2>2. QED
    BY <2>1 DEF FailClaimedOutgoing
<1>8. \A t \in Nat : CompleteResumeAndMessage(t) => OutTypeOK'
  <2>1. \A t \in Nat : CompleteResumeAndMessage(t) => sendClaimed' \in BOOLEAN
    BY DEF CompleteResumeAndMessage, PauseClaimedOutgoing
  <2>2. QED
    BY <1>6, <2>1 DEF CompleteResumeAndMessage
<1>9. \A t \in Nat : PrepareQuery(t) => OutTypeOK'
  BY DEF PrepareQuery
<1>10. \A t \in Nat, k \in 0..Chunks : ClearQuery(t, k) => OutTypeOK'
  BY DEF ClearQuery
<1>11. \A k \in 0..Chunks : ClaimResumed(k) => OutTypeOK'
  BY DEF ClaimResumed
<1>12. FailPendingQuery => OutTypeOK'
  <2>1. FailPendingQuery => sendClaimed' \in BOOLEAN
    BY DEF FailPendingQuery
  <2>2. QED
    BY <2>1 DEF FailPendingQuery
<1>13. \A status \in Aborted : EndUnclaimedOutgoing(status) => OutTypeOK'
  <2>1. \A status \in Aborted : EndUnclaimedOutgoing(status) =>
            sendClaimed' \in BOOLEAN
    BY DEF EndUnclaimedOutgoing
  <2>2. QED
    BY <2>1 DEF EndUnclaimedOutgoing
<1>14. \A status \in Aborted : RemoteEndsOutgoing(status) => OutTypeOK'
  <2>1. \A status \in Aborted : RemoteEndsOutgoing(status) => sendClaimed' \in BOOLEAN
    BY DEF RemoteEndsOutgoing
  <2>2. QED
    BY <2>1 DEF RemoteEndsOutgoing
<1>15. AcknowledgeOutNotice => OutTypeOK'
  BY DEF AcknowledgeOutNotice
<1>16. ResetOutgoing => OutTypeOK'
  <2>1. ResetOutgoing => sendClaimed' \in BOOLEAN
    BY DEF ResetOutgoing
  <2>2. ResetOutgoing => /\ outStatus' \in Open \union Terminal
                         /\ outMessage' \in {"sending", "delivered", "failed"}
    BY DEF ResetOutgoing
  <2>3. ResetOutgoing => queryToken' \in Nat /\ UNCHANGED <<acked, outNotice>>
    BY DEF ResetOutgoing
  <2>4. QED
    BY <2>1, <2>2, <2>3
<1>17. QED
  BY <1>1, <1>2, <1>3, <1>4, <1>5, <1>6, <1>7, <1>8, <1>9, <1>10, <1>11, <1>12,
     <1>13, <1>14, <1>15, <1>16

\* Every statement on the receiver's row keeps its types.
LEMMA IncomingTypes ==
    ASSUME InTypeOK
    PROVE  /\ UNCHANGED inVars => InTypeOK'
           /\ StoreOffer \/ AcceptIncoming \/ ReturnToAwaiting => InTypeOK'
           /\ \A t \in Nat : StoreAcceptedOffer(t) \/ PrepareDecision(t) => InTypeOK'
           /\ ClaimIncoming \/ ClaimIncomingThenPause \/ ClaimIncomingThenFail => InTypeOK'
           /\ \A k \in 0..Chunks : SyncChunk(k) \/ CommitChunk(k) => InTypeOK'
           /\ PublishFile \/ CompleteIncoming \/ RecordMessage => InTypeOK'
           /\ PauseClaimedIncoming \/ FailClaimedIncoming => InTypeOK'
           /\ CancelUnclaimedIncoming => InTypeOK'
           /\ \A status \in Aborted : RemoteEndsIncoming(status) => InTypeOK'
           /\ AcknowledgeInNotice => InTypeOK'
           /\ ResetIncoming => InTypeOK'
<1> USE DEF InTypeOK, inVars, Open, Aborted, Terminal, Notices
<1>1. UNCHANGED inVars => InTypeOK'
  OBVIOUS
<1>2. StoreOffer \/ AcceptIncoming \/ ReturnToAwaiting => InTypeOK'
  <2>1. StoreOffer \/ AcceptIncoming \/ ReturnToAwaiting =>
            receiveClaimed' \in BOOLEAN /\ chatRecord' \in BOOLEAN /\ published' \in BOOLEAN
    BY DEF StoreOffer, AcceptIncoming, ReturnToAwaiting
  <2>2. QED
    BY <2>1 DEF StoreOffer, AcceptIncoming, ReturnToAwaiting
<1>3. \A t \in Nat : StoreAcceptedOffer(t) \/ PrepareDecision(t) => InTypeOK'
  BY DEF StoreAcceptedOffer, PrepareDecision
<1>4. ClaimIncoming \/ ClaimIncomingThenPause \/ ClaimIncomingThenFail => InTypeOK'
  <2>1. ClaimIncoming \/ ClaimIncomingThenPause \/ ClaimIncomingThenFail =>
            receiveClaimed' \in BOOLEAN /\ chatRecord' \in BOOLEAN /\ published' \in BOOLEAN
    BY DEF ClaimIncoming, ClaimIncomingThenPause, ClaimIncomingThenFail
  <2>2. QED
    BY <2>1 DEF ClaimIncoming, ClaimIncomingThenPause, ClaimIncomingThenFail
<1>5. \A k \in 0..Chunks : SyncChunk(k) \/ CommitChunk(k) => InTypeOK'
  BY DEF SyncChunk, CommitChunk
<1>6. PublishFile \/ CompleteIncoming \/ RecordMessage => InTypeOK'
  <2>1. PublishFile \/ CompleteIncoming \/ RecordMessage =>
            receiveClaimed' \in BOOLEAN /\ chatRecord' \in BOOLEAN /\ published' \in BOOLEAN
    BY DEF PublishFile, CompleteIncoming, RecordMessage
  <2>2. QED
    BY <2>1 DEF PublishFile, CompleteIncoming, RecordMessage
<1>7. PauseClaimedIncoming \/ FailClaimedIncoming => InTypeOK'
  BY DEF PauseClaimedIncoming, FailClaimedIncoming
<1>8. CancelUnclaimedIncoming => InTypeOK'
  BY DEF CancelUnclaimedIncoming
<1>9. \A status \in Aborted : RemoteEndsIncoming(status) => InTypeOK'
  <2>1. \A status \in Aborted : RemoteEndsIncoming(status) =>
            receiveClaimed' \in BOOLEAN /\ chatRecord' \in BOOLEAN /\ published' \in BOOLEAN
    BY DEF RemoteEndsIncoming
  <2>2. QED
    BY <2>1 DEF RemoteEndsIncoming
<1>10. AcknowledgeInNotice => InTypeOK'
  BY DEF AcknowledgeInNotice
<1>11. ResetIncoming => InTypeOK'
  <2>1. ResetIncoming =>
            receiveClaimed' \in BOOLEAN /\ chatRecord' \in BOOLEAN /\ published' \in BOOLEAN
    BY DEF ResetIncoming, ReconcileFinalised, ReconcileTampered, ReconcilePartial,
         ReconcileUnavailable
  <2>2. QED
    BY <2>1 DEF ResetIncoming, ReconcileFinalised, ReconcileTampered, ReconcilePartial,
         ReconcileUnavailable
<1>12. QED
  BY <1>1, <1>2, <1>3, <1>4, <1>5, <1>6, <1>7, <1>8, <1>9, <1>10, <1>11

\* The variables of a group that is left alone keep their types.
LEMMA UnchangedTypes ==
    ASSUME TypeInv
    PROVE  /\ UNCHANGED outVars => OutTypeOK'
           /\ UNCHANGED inVars => InTypeOK'
           /\ UNCHANGED linkVars => LinkTypeOK'
           /\ UNCHANGED taskVars => TaskTypeOK'
           /\ UNCHANGED requestVars => RequestTypeOK'
           /\ UNCHANGED wireVars => WireTypeOK'
           /\ UNCHANGED bodyVars => BodyTypeOK' /\ WrittenFits'
           /\ UNCHANGED decideVars => DecideTypeOK'
           /\ net' \subseteq net => net' \subseteq Messages
<1> USE DEF TypeInv, TypeOK
<1>1. UNCHANGED outVars => OutTypeOK'
  BY OutgoingTypes
<1>2. UNCHANGED inVars => InTypeOK'
  BY IncomingTypes
<1>3. UNCHANGED linkVars => LinkTypeOK'
  BY DEF linkVars, LinkTypeOK
<1>4. UNCHANGED taskVars => TaskTypeOK'
  BY DEF taskVars, TaskTypeOK
<1>5. UNCHANGED requestVars => RequestTypeOK'
  BY DEF requestVars, RequestTypeOK
<1>6. UNCHANGED wireVars => WireTypeOK'
  BY DEF wireVars, WireTypeOK
<1>7. UNCHANGED bodyVars => BodyTypeOK' /\ WrittenFits'
  BY DEF bodyVars, BodyTypeOK, WrittenFits
<1>8. UNCHANGED decideVars => DecideTypeOK'
  BY DEF decideVars, DecideTypeOK
<1>9. net' \subseteq net => net' \subseteq Messages
  OBVIOUS
<1>10. QED
  BY <1>1, <1>2, <1>3, <1>4, <1>5, <1>6, <1>7, <1>8, <1>9

\* The offer, its acceptance and the decision.
LEMMA DecisionStepsType == TypeInv /\ DecisionSteps => TypeInv'
<1> SUFFICES ASSUME TypeInv, DecisionSteps PROVE TypeInv'
  OBVIOUS
<1> USE UnchangedTypes, OutgoingTypes, IncomingTypes DEF TypeInv, TypeOK
<1>1. CASE ReceiveManualOffer
  BY <1>1 DEF ReceiveManualOffer
<1>2. CASE ReceiveAutomaticOffer
  <2>1. InTypeOK'
    BY <1>2, NewTokens DEF ReceiveAutomaticOffer
  <2>2. net' \subseteq Messages
    BY <1>2, NewTokens, MessagesClosed DEF ReceiveAutomaticOffer, Sent
  <2>3. DecideTypeOK'
    BY <1>2, NewTokens DEF ReceiveAutomaticOffer, DecideTypeOK
  <2>4. QED
    BY <1>2, <2>1, <2>2, <2>3 DEF ReceiveAutomaticOffer
<1>3. CASE OfferAnswered
  <2>1. RequestTypeOK'
    BY <1>3 DEF OfferAnswered, RequestTypeOK
  <2>2. QED
    BY <1>3, <2>1 DEF OfferAnswered
<1>4. CASE FailOffer
  <2>1. OutTypeOK'
    BY <1>4 DEF FailOffer, Aborted
  <2>2. RequestTypeOK'
    BY <1>4 DEF FailOffer, RequestTypeOK
  <2>3. QED
    BY <1>4, <2>1, <2>2 DEF FailOffer
<1>5. CASE Accept
  <2>1. DecideTypeOK'
    BY <1>5 DEF Accept, DecideTypeOK
  <2>2. QED
    BY <1>5, <2>1 DEF Accept
<1>6. CASE SubmitDecision
  <2>1. InTypeOK'
    BY <1>6, NewTokens DEF SubmitDecision
  <2>2. net' \subseteq Messages
    BY <1>6, NewTokens, MessagesClosed DEF SubmitDecision
  <2>3. DecideTypeOK'
    BY <1>6, NewTokens DEF SubmitDecision, DecideTypeOK
  <2>4. QED
    BY <1>6, <2>1, <2>2, <2>3 DEF SubmitDecision
<1>7. CASE SubmitFails
  <2>1. DecideTypeOK'
    BY <1>7 DEF SubmitFails, DecideTypeOK
  <2>2. QED
    BY <1>7, <2>1 DEF SubmitFails
<1>8. CASE Reject
  <2>1. DecideTypeOK'
    BY <1>8 DEF Reject, DecideTypeOK
  <2>2. QED
    BY <1>8, <2>1 DEF Reject
<1>9. CASE SubmitReject
  <2>1. net' \subseteq Messages
    BY <1>9, MessagesClosed DEF SubmitReject, Sent
  <2>2. DecideTypeOK'
    BY <1>9 DEF SubmitReject, DecideTypeOK
  <2>3. QED
    BY <1>9, <2>1, <2>2 DEF SubmitReject
<1>10. CASE \E t \in 1..MaxDecisions : ReceiveAcceptance(t)
  <2>1. OutTypeOK'
    BY <1>10 DEF ReceiveAcceptance
  <2>2. TaskTypeOK'
    BY <1>10 DEF ReceiveAcceptance, TaskTypeOK, SendPcs
  <2>3. QED
    BY <1>10, <2>1, <2>2 DEF ReceiveAcceptance
<1>11. CASE ReceiveRejection
  BY <1>11 DEF ReceiveRejection
<1>12. CASE DecisionAnswered
  <2>1. DecideTypeOK'
    BY <1>12 DEF DecisionAnswered, DecideTypeOK
  <2>2. QED
    BY <1>12, <2>1 DEF DecisionAnswered
<1>13. CASE FailDecision
  <2>1. DecideTypeOK'
    BY <1>13 DEF FailDecision, DecideTypeOK
  <2>2. QED
    BY <1>13, <2>1 DEF FailDecision, RollBack
<1>14. CASE StartTimeout
  <2>1. DecideTypeOK'
    BY <1>14 DEF StartTimeout, DecideTypeOK
  <2>2. QED
    BY <1>14, <2>1 DEF StartTimeout, RollBack
<1>15. QED
  BY <1>1, <1>2, <1>3, <1>4, <1>5, <1>6, <1>7, <1>8, <1>9, <1>10, <1>11, <1>12,
     <1>13, <1>14 DEF DecisionSteps

\* A sending task that ends, in each of the ways it can.
LEMMA EndSendTaskType ==
    ASSUME TypeInv
    PROVE  /\ EndSendTask => TaskTypeOK' /\ WireTypeOK'
           /\ PauseSend \/ FailSend => OutTypeOK' /\ TaskTypeOK' /\ WireTypeOK'
<1> USE DEF TypeInv, TypeOK
<1>1. EndSendTask => TaskTypeOK'
  BY DEF EndSendTask, TaskTypeOK, SendPcs
<1>2. EndSendTask => WireTypeOK'
  BY DEF EndSendTask, WireTypeOK
<1>3. sendToken \in Nat
  BY DEF TaskTypeOK
<1>4. PauseSend \/ FailSend => OutTypeOK'
  BY <1>3, OutgoingTypes DEF PauseSend, FailSend
<1>5. QED
  BY <1>1, <1>2, <1>4 DEF PauseSend, FailSend

\* The sending task.
LEMMA SendTaskType == TypeInv /\ SendTask => TypeInv'
<1> SUFFICES ASSUME TypeInv, SendTask PROVE TypeInv'
  OBVIOUS
<1> USE UnchangedTypes, OutgoingTypes, EndSendTaskType DEF TypeInv, TypeOK
<1>1. CASE ClaimFirstStream
  <2>1. acked \in 0..Chunks
    BY DEF OutTypeOK
  <2>2. TaskTypeOK'
    BY <1>1, <2>1 DEF ClaimFirstStream, TaskTypeOK, SendPcs
  <2>3. WireTypeOK'
    BY <1>1 DEF ClaimFirstStream
  <2>4. QED
    BY <1>1, <2>2, <2>3 DEF ClaimFirstStream
<1>2. CASE OpenStream
  <2> DEFINE s == CHOOSE s \in FreeStreams : TRUE
  <2>1. s \in Streams
    BY <1>2 DEF OpenStream, FreeStreams
  <2>2. TaskTypeOK'
    BY <1>2, <2>1 DEF OpenStream, TaskTypeOK, SendPcs, Streams
  <2>3. WireTypeOK'
    BY <1>2, <2>1 DEF OpenStream, WireTypeOK, NoAck
  <2>4. BodyTypeOK'
    BY <1>2, <2>1 DEF OpenStream, BodyTypeOK, TaskTypeOK, RecvPcs
  <2>5. WrittenFits'
    BY <1>2, <2>1 DEF OpenStream, BodyTypeOK, WrittenFits
  <2>6. QED
    BY <1>2, <2>2, <2>3, <2>4, <2>5 DEF OpenStream
<1>3. CASE OpenFails
  BY <1>3 DEF OpenFails
<1>4. CASE SendChunk
  <2>1. TaskTypeOK'
    BY <1>4 DEF SendChunk, TaskTypeOK, SendPcs
  <2>2. sendPos < Chunks => sendPos + 1 \in 0..Chunks
    BY DEF TaskTypeOK
  <2>3. WireTypeOK'
    BY <1>4, <2>2 DEF SendChunk, WireTypeOK
  <2>4. QED
    BY <1>4, <2>1, <2>3 DEF SendChunk
<1>5. CASE SourceChanged
  BY <1>5 DEF SourceChanged
<1>6. CASE ReceiveAck
  <2> DEFINE ack == wireAck[sendStream]
  <2>1. CASE FailSend
    BY <1>6, <2>1 DEF ReceiveAck
  <2>2. CASE ~FailSend
    <3>1. ack = ExpectedAck /\ ExpectedAck \in 0..Chunks
      BY <1>6, <2>2 DEF ReceiveAck, ExpectedAck, TaskTypeOK
    <3>2. OutTypeOK'
      BY <1>6, <2>2, <3>1 DEF ReceiveAck
    <3>3. TaskTypeOK'
      BY <1>6, <2>2, <3>1 DEF ReceiveAck, TaskTypeOK, SendPcs
    <3>4. WireTypeOK'
      BY <1>6, <2>2 DEF ReceiveAck, WireTypeOK
    <3>5. QED
      BY <1>6, <3>2, <3>3, <3>4 DEF ReceiveAck
  <2>3. QED
    BY <2>1, <2>2
<1>7. CASE SendStreamBreaks
  BY <1>7 DEF SendStreamBreaks
<1>8. CASE FinishFirst
  <2>1. TaskTypeOK'
    BY <1>8 DEF FinishFirst, TaskTypeOK, SendPcs
  <2>2. WireTypeOK'
    BY <1>8 DEF FinishFirst
  <2>3. QED
    BY <1>8, <2>1, <2>2 DEF FinishFirst
<1>9. CASE MarkDelivered
  <2>1. OutTypeOK'
    BY <1>9 DEF MarkDelivered, OutTypeOK
  <2>2. QED
    BY <1>9, <2>1 DEF MarkDelivered
<1>10. CASE FinishResumed
  <2>1. sendToken \in Nat
    BY DEF TaskTypeOK
  <2>2. QED
    BY <1>10, <2>1 DEF FinishResumed
<1>11. QED
  BY <1>1, <1>2, <1>3, <1>4, <1>5, <1>6, <1>7, <1>8, <1>9, <1>10 DEF SendTask

\* A receiving task that ends or moves on without touching its offset.
LEMMA EndReceiveTaskType ==
    ASSUME TypeInv, NEW s \in Streams
    PROVE  /\ EndReceiveTask(s) => WireTypeOK' /\ BodyTypeOK' /\ WrittenFits'
           /\ \A pc \in RecvPcs \ {"written"} :
                  MoveTo(s, pc) => WireTypeOK' /\ BodyTypeOK' /\ WrittenFits'
<1> USE DEF TypeInv, TypeOK
<1>1. EndReceiveTask(s) => WireTypeOK'
  BY DEF EndReceiveTask, WireTypeOK
<1>2. EndReceiveTask(s) => BodyTypeOK' /\ WrittenFits'
  BY DEF EndReceiveTask, BodyTypeOK, RecvPcs, WrittenFits
<1>3. \A pc \in RecvPcs : MoveTo(s, pc) => WireTypeOK'
  BY UnchangedTypes DEF MoveTo
<1>4. \A pc \in RecvPcs \ {"written"} : MoveTo(s, pc) => BodyTypeOK' /\ WrittenFits'
  BY DEF MoveTo, BodyTypeOK, WrittenFits
<1>5. QED
  BY <1>1, <1>2, <1>3, <1>4

\* The task that serves a stream.
LEMMA ReceiveTaskType ==
    ASSUME TypeInv, NEW s \in Streams, ReceiveTask(s)
    PROVE  TypeInv'
<1> USE UnchangedTypes, IncomingTypes, EndReceiveTaskType
    DEF TypeInv, TypeOK, SenderSideUnchanged
<1>0. /\ {"resuming", "fresh", "finalize", "receiving"} \subseteq RecvPcs \ {"written"}
      /\ {"published", "record", "ackFinal"} \subseteq RecvPcs \ {"written"}
  BY DEF RecvPcs, Body
<1>1. CASE Authorize(s)
  BY <1>0, <1>1 DEF Authorize
<1>2. CASE ClaimRefused(s)
  BY <1>2 DEF ClaimRefused
<1>3. CASE ClaimThenPause(s)
  BY <1>3 DEF ClaimThenPause
<1>4. CASE ClaimStream(s)
  BY <1>0, <1>4 DEF ClaimStream
<1>5. CASE WriteChunk(s)
  <2>1. recvPos[s] + 1 \in 0..Chunks /\ recvPos[s] < Chunks
    BY <1>5 DEF WriteChunk, WireTypeOK, BodyTypeOK
  <2>2. InTypeOK'
    BY <1>5, <2>1 DEF WriteChunk
  <2>3. WireTypeOK'
    BY <1>5 DEF WriteChunk, WireTypeOK
  <2>4. BodyTypeOK'
    BY <1>5 DEF WriteChunk, BodyTypeOK, RecvPcs, Body
  <2>5. WrittenFits'
    BY <1>5, <2>1 DEF WriteChunk, BodyTypeOK, WrittenFits
  <2>6. QED
    BY <1>5, <2>2, <2>3, <2>4, <2>5 DEF WriteChunk
<1>6. CASE CommitReceivedChunk(s)
  <2>1. recvPos[s] + 1 \in 0..Chunks
    BY <1>6 DEF CommitReceivedChunk, WrittenFits, BodyTypeOK
  <2>2. CASE CanCommitChunk(recvPos[s] + 1)
    <3>1. InTypeOK'
      BY <1>6, <2>1, <2>2 DEF CommitReceivedChunk
    <3>2. WireTypeOK'
      BY <1>6, <2>1, <2>2 DEF CommitReceivedChunk, WireTypeOK
    <3>3. BodyTypeOK'
      BY <1>6, <2>1, <2>2 DEF CommitReceivedChunk, BodyTypeOK, RecvPcs, Body
    <3>4. WrittenFits'
      BY <1>6, <2>2 DEF CommitReceivedChunk, BodyTypeOK, WrittenFits
    <3>5. QED
      BY <1>6, <2>2, <3>1, <3>2, <3>3, <3>4 DEF CommitReceivedChunk
  <2>3. CASE ~CanCommitChunk(recvPos[s] + 1)
    BY <1>6, <2>3 DEF CommitReceivedChunk
  <2>4. QED
    BY <2>2, <2>3
<1>7. CASE IntegrityFails(s)
  BY <1>7 DEF IntegrityFails
<1>8. CASE ReceiveStreamBreaks(s)
  BY <1>8 DEF ReceiveStreamBreaks
<1>9. CASE Publish(s)
  BY <1>0, <1>9 DEF Publish
<1>10. CASE FinalizeFails(s)
  BY <1>10 DEF FinalizeFails
<1>11. CASE Complete(s)
  BY <1>0, <1>11 DEF Complete
<1>12. CASE RecordReceived(s)
  BY <1>0, <1>12 DEF RecordReceived
<1>13. CASE CleanupFails(s)
  BY <1>13 DEF CleanupFails
<1>14. CASE AcknowledgeFile(s)
  <2>1. WireTypeOK'
    BY <1>14 DEF AcknowledgeFile, WireTypeOK
  <2>2. BodyTypeOK' /\ WrittenFits'
    BY <1>14 DEF AcknowledgeFile, BodyTypeOK, RecvPcs, WrittenFits
  <2>3. QED
    BY <1>14, <2>1, <2>2 DEF AcknowledgeFile
<1>15. CASE FinalAckFails(s)
  BY <1>15 DEF FinalAckFails
<1>16. QED
  BY <1>1, <1>2, <1>3, <1>4, <1>5, <1>6, <1>7, <1>8, <1>9, <1>10, <1>11, <1>12,
     <1>13, <1>14, <1>15 DEF ReceiveTask

\* The resume query and its answer.
LEMMA ResumeStepsType == TypeInv /\ ResumeSteps => TypeInv'
<1> SUFFICES ASSUME TypeInv, ResumeSteps PROVE TypeInv'
  OBVIOUS
<1> USE UnchangedTypes, OutgoingTypes DEF TypeInv, TypeOK
<1>0. Tokens \subseteq Nat /\ acked \in 0..Chunks
  BY DEF Tokens, OutTypeOK
<1>1. QueryOver => RequestTypeOK'
  BY DEF QueryOver, RequestTypeOK
<1>2. CASE RecordHello
  <2>1. CASE outStatus = "paused" /\ pendingQuery = 0 /\ CanPrepareQuery(acked)
    <3>1. NewToken \in Tokens
      BY <1>2, <2>1, NewTokens DEF RecordHello
    <3>2. OutTypeOK' /\ net' \subseteq Messages
      BY <1>0, <1>2, <2>1, <3>1, MessagesClosed DEF RecordHello
    <3>3. RequestTypeOK'
      BY <1>0, <1>2, <2>1, <3>1 DEF RecordHello, RequestTypeOK, Tokens
    <3>4. LinkTypeOK'
      BY <1>2 DEF RecordHello, LinkTypeOK
    <3>5. QED
      BY <1>2, <3>2, <3>3, <3>4 DEF RecordHello
  <2>2. CASE ~(outStatus = "paused" /\ pendingQuery = 0 /\ CanPrepareQuery(acked))
    <3>1. net' \subseteq Messages
      BY <1>2, <2>2, MessagesClosed
      DEF RecordHello, NoticeOf, OutTypeOK, Notices, Sides
    <3>2. LinkTypeOK'
      BY <1>2 DEF RecordHello, LinkTypeOK
    <3>3. RequestTypeOK'
      BY <1>2, <2>2 DEF RecordHello, RequestTypeOK
    <3>4. QED
      BY <1>2, <2>2, <3>1, <3>2, <3>3 DEF RecordHello
  <2>3. QED
    BY <2>1, <2>2
<1>3. CASE \E t \in Tokens : ReceiveQuery(t)
  <2>1. PICK t \in Tokens : ReceiveQuery(t)
    BY <1>3
  <2>2. Answer(t) \in Messages
    BY MessagesClosed DEF Answer, InTypeOK
  <2>3. net' \subseteq Messages
    BY <2>1, <2>2 DEF ReceiveQuery, Sent
  <2>4. QED
    BY <2>1, <2>3 DEF ReceiveQuery
<1>4. CASE \E t \in Tokens, state \in {"receiving", "completed"}, offset \in 0..Chunks :
               ReceiveResume(t, state, offset)
  <2>1. PICK t \in Tokens, state \in {"receiving", "completed"}, offset \in 0..Chunks :
            ReceiveResume(t, state, offset)
    BY <1>4
  <2>2. OutTypeOK'
    BY <1>0, <2>1 DEF ReceiveResume
  <2>3. TaskTypeOK'
    BY <2>1 DEF ReceiveResume, TaskTypeOK, SendPcs, Tokens
  <2>4. QED
    BY <1>1, <2>1, <2>2, <2>3 DEF ReceiveResume
<1>5. CASE \E t \in Tokens : ReceiveUnresumable(t)
  BY <1>1, <1>5 DEF ReceiveUnresumable
<1>6. CASE FailQuery
  <2>1. pendingQuery \in Nat /\ pendingExpected \in 0..Chunks
    BY DEF RequestTypeOK
  <2>2. QED
    BY <1>1, <1>6, <2>1 DEF FailQuery
<1>7. QED
  BY <1>2, <1>3, <1>4, <1>5, <1>6 DEF ResumeSteps

\* Cancellations and terminal notices.
LEMMA NoticeStepsType == TypeInv /\ NoticeSteps => TypeInv'
<1> SUFFICES ASSUME TypeInv, NoticeSteps PROVE TypeInv'
  OBVIOUS
<1> USE UnchangedTypes, OutgoingTypes, IncomingTypes, MessagesClosed DEF TypeInv, TypeOK
<1>1. CASE CancelOutgoing
  BY <1>1 DEF CancelOutgoing, Aborted
<1>2. CASE CancelIncoming
  BY <1>2 DEF CancelIncoming
<1>3. CASE SendNotice("sender", outNotice) \/ SendNotice("receiver", inNotice)
  <2>1. net' \subseteq Messages
    BY <1>3 DEF SendNotice, NoticeOf, OutTypeOK, InTypeOK, Notices, Sides
  <2>2. QED
    BY <1>3, <2>1 DEF SendNotice
<1>4. CASE \E status \in Aborted : ReceiverHearsEnd(status)
  <2>1. net' \subseteq Messages
    BY <1>4 DEF ReceiverHearsEnd, Sent, Sides
  <2>2. QED
    BY <1>4, <2>1 DEF ReceiverHearsEnd
<1>5. CASE \E status \in Aborted : SenderHearsEnd(status)
  <2>1. net' \subseteq Messages
    BY <1>5 DEF SenderHearsEnd, Sent, Sides
  <2>2. QED
    BY <1>5, <2>1 DEF SenderHearsEnd
<1>6. CASE OutNoticeAcknowledged
  BY <1>6 DEF OutNoticeAcknowledged
<1>7. CASE InNoticeAcknowledged
  BY <1>7 DEF InNoticeAcknowledged
<1>8. QED
  BY <1>1, <1>2, <1>3, <1>4, <1>5, <1>6, <1>7 DEF NoticeSteps

\* The connection and the processes.
LEMMA EnvironmentType == TypeInv /\ Environment => TypeInv'
<1> SUFFICES ASSUME TypeInv, Environment PROVE TypeInv'
  OBVIOUS
<1> USE UnchangedTypes, OutgoingTypes, IncomingTypes DEF TypeInv, TypeOK
<1>0. AllStreamsDown /\ UNCHANGED wireAck
          /\ wireFrame' \in {wireFrame, [s \in Streams |-> 0]} => WireTypeOK'
  BY DEF AllStreamsDown, WireTypeOK
<1>1. CASE LoseConnection
  <2>1. LinkTypeOK'
    <3>1. link' \in BOOLEAN
      BY <1>1 DEF LoseConnection
    <3>2. drops' \in 0..MaxDrops /\ hellos' \in 0..HellosPerLink
      BY <1>1 DEF LoseConnection, LinkTypeOK
    <3>3. QED
      BY <1>1, <3>1, <3>2 DEF LoseConnection, LinkTypeOK
  <2>2. net' \subseteq Messages
    BY <1>1 DEF LoseConnection, Survivors
  <2>3. QED
    BY <1>0, <1>1, <2>1, <2>2 DEF LoseConnection
<1>2. CASE IdleClose
  <2>1. LinkTypeOK'
    BY <1>2 DEF IdleClose, LinkTypeOK
  <2>2. QED
    BY <1>2, <2>1 DEF IdleClose
<1>3. CASE Reconnect
  <2>1. LinkTypeOK'
    BY <1>3 DEF Reconnect, LinkTypeOK
  <2>2. QED
    BY <1>3, <2>1 DEF Reconnect
<1>4. CASE RestartSender
  <2>1. LinkTypeOK'
    <3>1. link' \in BOOLEAN
      BY <1>4 DEF RestartSender
    <3>2. restarts' \in 0..MaxRestarts /\ hellos' \in 0..HellosPerLink
      BY <1>4 DEF RestartSender, LinkTypeOK
    <3>3. QED
      BY <1>4, <3>1, <3>2 DEF RestartSender, LinkTypeOK
  <2>2. net' \subseteq Messages
    BY <1>4 DEF RestartSender, Survivors
  <2>3. TaskTypeOK' /\ RequestTypeOK'
    <3>1. offerPending' \in BOOLEAN
      BY <1>4 DEF RestartSender
    <3>2. QED
      BY <1>4, <3>1 DEF RestartSender, TaskTypeOK, RequestTypeOK, SendPcs
  <2>4. QED
    BY <1>0, <1>4, <2>1, <2>2, <2>3 DEF RestartSender
<1>5. CASE RestartReceiver
  <2>1. LinkTypeOK'
    <3>1. link' \in BOOLEAN
      BY <1>5 DEF RestartReceiver
    <3>2. restarts' \in 0..MaxRestarts /\ hellos' \in 0..HellosPerLink
      BY <1>5 DEF RestartReceiver, LinkTypeOK
    <3>3. QED
      BY <1>5, <3>1, <3>2 DEF RestartReceiver, LinkTypeOK
  <2>2. net' \subseteq Messages
    BY <1>5 DEF RestartReceiver, Survivors
  <2>3. BodyTypeOK' /\ WrittenFits'
    BY <1>5 DEF RestartReceiver, BodyTypeOK, RecvPcs, WrittenFits
  <2>4. DecideTypeOK'
    BY <1>5 DEF RestartReceiver, DecideTypeOK
  <2>5. QED
    BY <1>0, <1>5, <2>1, <2>2, <2>3, <2>4 DEF RestartReceiver
<1>6. QED
  BY <1>1, <1>2, <1>3, <1>4, <1>5 DEF Environment

\* The first state.
LEMMA TypeInit == Init => TypeInv
<1> SUFFICES ASSUME Init PROVE TypeInv
  OBVIOUS
<1>1. OutTypeOK
  <2>1. sendClaimed \in BOOLEAN
    BY DEF Init, OutInit
  <2>2. QED
    BY <2>1 DEF Init, OutInit, OutTypeOK, Open, Notices
<1>2. InTypeOK
  <2>1. receiveClaimed \in BOOLEAN /\ chatRecord \in BOOLEAN /\ published \in BOOLEAN
    BY DEF Init, InInit
  <2>2. QED
    BY <2>1 DEF Init, InInit, InTypeOK, Notices
<1>3. LinkTypeOK
  BY DEF Init, LinkTypeOK
<1>4. TaskTypeOK /\ RequestTypeOK
  BY DEF Init, TaskTypeOK, RequestTypeOK, SendPcs
<1>5. WireTypeOK
  BY DEF Init, WireTypeOK
<1>6. BodyTypeOK /\ WrittenFits
  BY DEF Init, BodyTypeOK, WrittenFits, RecvPcs
<1>7. DecideTypeOK /\ net \subseteq Messages
  BY MessagesClosed DEF Init, DecideTypeOK
<1>8. QED
  BY <1>1, <1>2, <1>3, <1>4, <1>5, <1>6, <1>7 DEF TypeInv, TypeOK

\* Every step.
LEMMA TypeStep == TypeInv /\ [Next]_vars => TypeInv'
<1> SUFFICES ASSUME TypeInv, [Next]_vars PROVE TypeInv'
  OBVIOUS
<1>1. CASE Next
  BY <1>1, DecisionStepsType, SendTaskType, ReceiveTaskType, ResumeStepsType,
     NoticeStepsType, EnvironmentType DEF Next
<1>2. CASE UNCHANGED vars
  BY <1>2, UnchangedTypes DEF vars, TypeInv, TypeOK
<1>3. QED
  BY <1>1, <1>2

\* The types hold in every state of the protocol, whatever the bounds.
THEOREM TypeCorrect == Spec => []TypeOK
<1>1. TypeInv => TypeOK
  BY DEF TypeInv
<1>2. QED
  BY <1>1, TypeInit, TypeStep, PTL DEF Spec

-----------------------------------------------------------------------------
(* Agreement.  Most steps are Steady for the receiver's verdict and Quiet  *)
(* for the sender's; the others are the links of the trail.                *)

Steady == (published => published') /\ (Completed <=> Completed')

Quiet ==
    /\ outStatus' = "completed" => outStatus = "completed"
    /\ outMessage' = "delivered" => outMessage = "delivered"

\* Of the receiver's statements only its completion completes the row, and
\* only the reconciliation after a restart takes the published file back.
LEMMA SteadyStatements ==
    /\ UNCHANGED inVars => Steady
    /\ StoreOffer => Steady
    /\ \A t \in Nat : inStatus = "none" /\ StoreAcceptedOffer(t) => Steady
    /\ CanAcceptIncoming /\ AcceptIncoming => Steady
    /\ \A t \in Nat : PrepareDecision(t) => Steady
    /\ inStatus = "transferring" /\ ReturnToAwaiting => Steady
    /\ \A t \in Nat : RollBack(t) => Steady
    /\ CanClaimIncoming /\ ClaimIncoming => Steady
    /\ CanClaimIncoming /\ ClaimIncomingThenPause => Steady
    /\ CanClaimIncoming /\ ClaimIncomingThenFail => Steady
    /\ \A k \in Nat : SyncChunk(k) => Steady
    /\ \A k \in Nat : CommitChunk(k) => Steady
    /\ PublishFile => Steady /\ published'
    /\ RecordMessage => Steady
    /\ PauseClaimedIncoming => Steady
    /\ FailClaimedIncoming => Steady
    /\ CanCancelUnclaimedIncoming /\ CancelUnclaimedIncoming => Steady
    /\ \A status \in Aborted : RemoteEndsIncoming(status) => Steady
    /\ AcknowledgeInNotice => Steady
<1> USE DEF Steady, Completed, inVars
<1>1. UNCHANGED inVars => Steady
  OBVIOUS
<1>2. StoreOffer => Steady
  BY DEF StoreOffer
<1>3. \A t \in Nat : inStatus = "none" /\ StoreAcceptedOffer(t) => Steady
  BY DEF StoreAcceptedOffer
<1>4. CanAcceptIncoming /\ AcceptIncoming => Steady
  BY DEF CanAcceptIncoming, AcceptIncoming
<1>5. \A t \in Nat : PrepareDecision(t) => Steady
  BY DEF PrepareDecision
<1>6. inStatus = "transferring" /\ ReturnToAwaiting => Steady
  BY DEF ReturnToAwaiting
<1>7. \A t \in Nat : RollBack(t) => Steady
  BY <1>1, <1>6 DEF RollBack, CanRollbackDecision
<1>8. /\ CanClaimIncoming /\ ClaimIncoming => Steady
      /\ CanClaimIncoming /\ ClaimIncomingThenPause => Steady
      /\ CanClaimIncoming /\ ClaimIncomingThenFail => Steady
  BY DEF CanClaimIncoming, ClaimIncoming, ClaimIncomingThenPause, ClaimIncomingThenFail
<1>9. \A k \in Nat : /\ SyncChunk(k) => Steady
                     /\ CommitChunk(k) => Steady
  BY DEF SyncChunk, CommitChunk
<1>10. /\ PublishFile => Steady /\ published'
       /\ RecordMessage => Steady
  BY DEF PublishFile, RecordMessage
<1>11. /\ PauseClaimedIncoming => Steady
       /\ FailClaimedIncoming => Steady
  BY DEF PauseClaimedIncoming, FailClaimedIncoming, HoldsReceiveClaim
<1>12. CanCancelUnclaimedIncoming /\ CancelUnclaimedIncoming => Steady
  BY DEF CanCancelUnclaimedIncoming, CancelUnclaimedIncoming, Open
<1>13. \A status \in Aborted : RemoteEndsIncoming(status) => Steady
  BY DEF RemoteEndsIncoming, Open, Aborted
<1>14. AcknowledgeInNotice => Steady
  BY DEF AcknowledgeInNotice
<1>15. QED
  BY <1>1, <1>2, <1>3, <1>4, <1>5, <1>6, <1>7, <1>8, <1>9, <1>10, <1>11, <1>12,
     <1>13, <1>14

\* Of the sender's statements only its two completions report success.
LEMMA QuietStatements ==
    /\ UNCHANGED outVars => Quiet
    /\ \A status \in {"transferring", "cancelled"} : TransitionAwaiting(status) => Quiet
    /\ ClaimOutgoing => Quiet
    /\ \A k \in Nat : CommitProgress(k) => Quiet
    /\ \A t \in Nat : PauseClaimedOutgoing(t) => Quiet
    /\ \A t \in Nat : FailClaimedOutgoing(t) => Quiet
    /\ \A t \in Nat : PrepareQuery(t) => Quiet
    /\ \A t, k \in Nat : ClearQuery(t, k) => Quiet
    /\ \A k \in Nat : ClaimResumed(k) => Quiet
    /\ FailPendingQuery => Quiet
    /\ \A status \in Aborted : EndUnclaimedOutgoing(status) => Quiet
    /\ \A status \in Aborted : RemoteEndsOutgoing(status) => Quiet
    /\ AcknowledgeOutNotice => Quiet
    /\ ResetOutgoing => Quiet
    /\ PauseSend => Quiet
    /\ FailSend => Quiet
<1> USE DEF Quiet, outVars
<1>1. UNCHANGED outVars => Quiet
  OBVIOUS
<1>2. \A status \in {"transferring", "cancelled"} : TransitionAwaiting(status) => Quiet
  BY DEF TransitionAwaiting
<1>3. ClaimOutgoing => Quiet
  BY DEF ClaimOutgoing
<1>4. \A k \in Nat : CommitProgress(k) => Quiet
  BY DEF CommitProgress
<1>5. \A t \in Nat : /\ PauseClaimedOutgoing(t) => Quiet
                     /\ FailClaimedOutgoing(t) => Quiet
  BY DEF PauseClaimedOutgoing, FailClaimedOutgoing
<1>6. \A t \in Nat : PrepareQuery(t) => Quiet
  BY DEF PrepareQuery
<1>7. \A t, k \in Nat : ClearQuery(t, k) => Quiet
  BY DEF ClearQuery
<1>8. /\ \A k \in Nat : ClaimResumed(k) => Quiet
      /\ FailPendingQuery => Quiet
  BY DEF ClaimResumed, FailPendingQuery
<1>9. \A status \in Aborted : /\ EndUnclaimedOutgoing(status) => Quiet
                              /\ RemoteEndsOutgoing(status) => Quiet
  BY DEF EndUnclaimedOutgoing, RemoteEndsOutgoing, Aborted
<1>10. /\ AcknowledgeOutNotice => Quiet
       /\ ResetOutgoing => Quiet
  BY DEF AcknowledgeOutNotice, ResetOutgoing
<1>11. /\ PauseSend => Quiet
       /\ FailSend => Quiet
  BY DEF PauseSend, FailSend, PauseClaimedOutgoing, FailClaimedOutgoing
<1>12. QED
  BY <1>1, <1>2, <1>3, <1>4, <1>5, <1>6, <1>7, <1>8, <1>9, <1>10, <1>11

\* What a step leaves alone stays true as long as a completed row stays so.
LEMMA Undisturbed ==
    ASSUME AgreementInv, Completed => Completed'
    PROVE  /\ UNCHANGED taskVars => StreamOpened' /\ SendTaskCompleted'
           /\ sendPc' \notin {"finish", "message"} => SendTaskCompleted'
           /\ sendPc' \notin {"send", "await"} => StreamOpened'
           /\ UNCHANGED bodyVars => TaskCompleted'
           /\ UNCHANGED bodyVars /\ Steady => FilePublished'
           /\ UNCHANGED wireVars => FinalAckCompleted'
           /\ UNCHANGED wireAck => FinalAckCompleted'
           /\ (\A m \in net' : m.type = "resume" => m \in net) => AnswerCompleted'
           /\ Quiet => SenderCompleted'
<1> USE DEF AgreementInv
<1>1. UNCHANGED taskVars => StreamOpened' /\ SendTaskCompleted'
  BY DEF taskVars, StreamOpened, SendTaskCompleted, Streams
<1>2. sendPc' \notin {"finish", "message"} => SendTaskCompleted'
  BY DEF SendTaskCompleted
<1>3. sendPc' \notin {"send", "await"} => StreamOpened'
  BY DEF StreamOpened
<1>4. UNCHANGED bodyVars => TaskCompleted'
  BY DEF bodyVars, TaskCompleted
<1>5. UNCHANGED bodyVars /\ Steady => FilePublished'
  BY DEF bodyVars, FilePublished, Steady
<1>6. UNCHANGED wireAck => FinalAckCompleted'
  BY DEF FinalAckCompleted
<1>7. UNCHANGED wireVars => FinalAckCompleted'
  BY <1>6 DEF wireVars
<1>8. (\A m \in net' : m.type = "resume" => m \in net) => AnswerCompleted'
  BY DEF AnswerCompleted
<1>9. Quiet => SenderCompleted'
  BY DEF SenderCompleted, Quiet
<1>10. QED
  BY <1>1, <1>2, <1>3, <1>4, <1>5, <1>6, <1>7, <1>8, <1>9

\* A step of the loops or the users that completes nothing on either side.
LEMMA SteadyStep ==
    ASSUME AgreementInv, TypeInv', Steady, Quiet,
           UNCHANGED bodyVars, UNCHANGED wireAck, UNCHANGED sendStream,
           sendPc' \in {sendPc, "spawned", "open"},
           \A m \in net' : m.type = "resume" => m \in net
    PROVE  AgreementInv'
<1>1. Completed => Completed'
  BY DEF Steady
<1>2. StreamOpened' /\ SendTaskCompleted'
  BY <1>1 DEF AgreementInv, StreamOpened, SendTaskCompleted, Streams
<1>3. QED
  BY <1>1, <1>2, Undisturbed DEF AgreementInv

\* The offer and the decision complete nothing.
LEMMA DecisionStepsAgreement ==
    ASSUME AgreementInv, TypeInv', DecisionSteps
    PROVE  AgreementInv'
<1> USE SteadyStatements, QuietStatements
<1>1. MaxDecisions \in Nat /\ "failed" \in Aborted
  BY DEF Aborted
<1>2. Steady
  <2>1. 1..MaxDecisions \subseteq Nat /\ startTimer \in Nat /\ pendingDecision \in Nat
    BY DEF AgreementInv, TypeInv, TypeOK, DecideTypeOK
  <2>2. QED
    BY <2>1, NewTokens
    DEF DecisionSteps, ReceiveManualOffer, ReceiveAutomaticOffer, OfferAnswered,
        FailOffer, Accept, SubmitDecision, SubmitFails, Reject, SubmitReject,
        ReceiveAcceptance, ReceiveRejection, DecisionAnswered, FailDecision,
        StartTimeout
<1>3. Quiet
  BY <1>1
  DEF DecisionSteps, ReceiveManualOffer, ReceiveAutomaticOffer, OfferAnswered,
      FailOffer, Accept, SubmitDecision, SubmitFails, Reject, SubmitReject,
      ReceiveAcceptance, ReceiveRejection, DecisionAnswered, FailDecision, StartTimeout
<1>4. /\ UNCHANGED bodyVars /\ UNCHANGED wireAck /\ UNCHANGED sendStream
      /\ sendPc' \in {sendPc, "spawned", "open"}
  BY DEF DecisionSteps, ReceiveManualOffer, ReceiveAutomaticOffer, OfferAnswered,
         FailOffer, Accept, SubmitDecision, SubmitFails, Reject, SubmitReject,
         ReceiveAcceptance, ReceiveRejection, DecisionAnswered, FailDecision,
         StartTimeout, wireVars, taskVars
<1>5. \A m \in net' : m.type = "resume" => m \in net
  <2>1. net' \subseteq net \union {Accepted(NewDecision), Rejected}
    BY DEF DecisionSteps, ReceiveManualOffer, ReceiveAutomaticOffer, OfferAnswered,
           FailOffer, Accept, SubmitDecision, SubmitFails, Reject, SubmitReject,
           ReceiveAcceptance, ReceiveRejection, DecisionAnswered, FailDecision,
           StartTimeout, Sent
  <2>2. Accepted(NewDecision).type # "resume" /\ Rejected.type # "resume"
    BY DEF Accepted, Rejected
  <2>3. QED
    BY <2>1, <2>2
<1>6. QED
  BY <1>2, <1>3, <1>4, <1>5, SteadyStep

\* The sending task reports success only at its last acknowledgement, which
\* the receiver writes after its row is completed.
LEMMA SendTaskAgreement ==
    ASSUME AgreementInv, TypeInv', SendTask
    PROVE  AgreementInv'
<1> USE SteadyStatements, QuietStatements
<1>0. acked \in Nat /\ sendPos \in Nat /\ sendToken \in Nat
  BY DEF AgreementInv, TypeInv, TypeOK, OutTypeOK, TaskTypeOK
<1>1. UNCHANGED inVars /\ UNCHANGED net
  BY DEF SendTask, ClaimFirstStream, OpenStream, OpenFails, SendChunk, SourceChanged,
         ReceiveAck, SendStreamBreaks, FinishFirst, MarkDelivered, FinishResumed
<1>2. Steady /\ (Completed => Completed') /\ AnswerCompleted'
  BY <1>1, Undisturbed DEF Steady
<1>3. EndSendTask => StreamOpened' /\ SendTaskCompleted' /\ FinalAckCompleted'
  <2> SUFFICES ASSUME EndSendTask
               PROVE  StreamOpened' /\ SendTaskCompleted' /\ FinalAckCompleted'
    OBVIOUS
  <2>1. StreamOpened' /\ SendTaskCompleted'
    BY DEF EndSendTask, StreamOpened, SendTaskCompleted
  <2>2. \A s \in Streams : wireAck'[s] = Chunks => wireAck[s] = Chunks
    BY DEF EndSendTask, NoAck
  <2>3. QED
    BY <1>2, <2>1, <2>2 DEF AgreementInv, FinalAckCompleted
<1>4. UNCHANGED bodyVars => TaskCompleted' /\ FilePublished'
  BY <1>2, Undisturbed
<1> USE <1>2, <1>3, <1>4
<1>5. CASE ClaimFirstStream
  <2>1. StreamOpened' /\ SendTaskCompleted' /\ FinalAckCompleted'
    BY <1>5, Undisturbed DEF ClaimFirstStream, StreamOpened, SendTaskCompleted
  <2>2. SenderCompleted'
    BY <1>5, Undisturbed DEF ClaimFirstStream
  <2>3. QED
    BY <1>5, <2>1, <2>2 DEF ClaimFirstStream, AgreementInv
<1>6. CASE OpenStream
  <2> DEFINE s == CHOOSE s \in FreeStreams : TRUE
  <2>1. s \in Streams
    BY <1>6 DEF OpenStream, FreeStreams
  <2>2. StreamOpened' /\ SendTaskCompleted'
    BY <1>6, <2>1 DEF OpenStream, StreamOpened, SendTaskCompleted, Streams
  <2>3. \A t \in Streams : /\ wireAck'[t] = Chunks => wireAck[t] = Chunks
                           /\ recvPc'[t] = recvPc[t] \/ recvPc'[t] = "accepted"
    BY <1>6, <2>1 DEF OpenStream, NoAck, AgreementInv, TypeInv, TypeOK, WireTypeOK, BodyTypeOK
  <2>4. TaskCompleted' /\ FilePublished' /\ FinalAckCompleted'
    BY <2>3 DEF AgreementInv, TaskCompleted, FilePublished, FinalAckCompleted, Steady
  <2>5. SenderCompleted'
    BY <1>6, Undisturbed DEF OpenStream
  <2>6. QED
    BY <2>2, <2>4, <2>5 DEF AgreementInv
<1>7. CASE OpenFails \/ SourceChanged \/ SendStreamBreaks
  <2>1. EndSendTask /\ Quiet /\ UNCHANGED bodyVars
    BY <1>7 DEF OpenFails, SourceChanged, SendStreamBreaks, PauseSend, FailSend
  <2>2. QED
    BY <2>1, Undisturbed DEF AgreementInv
<1>8. CASE SendChunk
  <2>1. StreamOpened' /\ SendTaskCompleted'
    BY <1>8 DEF SendChunk, AgreementInv, StreamOpened, SendTaskCompleted, Streams
  <2>2. QED
    BY <1>8, <2>1, Undisturbed DEF SendChunk, AgreementInv
<1>9. CASE ReceiveAck
  <2>1. CASE FailSend
    BY <1>9, <2>1, Undisturbed DEF ReceiveAck, FailSend, AgreementInv
  <2>2. CASE ~FailSend
    <3> DEFINE ack == wireAck[sendStream]
    <3>1. sendStream \in Streams /\ ack \in Nat
      BY <1>9 DEF ReceiveAck, AgreementInv, StreamOpened, TypeInv, TypeOK, WireTypeOK
    <3>2. ack = Chunks => Completed
      BY <3>1 DEF AgreementInv, FinalAckCompleted
    <3>3. StreamOpened' /\ SendTaskCompleted'
      BY <1>9, <2>2, <3>1, <3>2
      DEF ReceiveAck, StreamOpened, SendTaskCompleted, Streams
    <3>4. \A s \in Streams : wireAck'[s] = Chunks => wireAck[s] = Chunks
      BY <1>9, <2>2 DEF ReceiveAck, NoAck, AgreementInv, TypeInv, TypeOK, WireTypeOK
    <3>5. FinalAckCompleted'
      BY <3>4 DEF AgreementInv, FinalAckCompleted
    <3>6. SenderCompleted'
      BY <1>9, <2>2, <3>1, Undisturbed DEF ReceiveAck
    <3>7. QED
      BY <1>9, <3>3, <3>5, <3>6 DEF ReceiveAck, AgreementInv
  <2>3. QED
    BY <2>1, <2>2
<1>10. CASE FinishFirst
  <2>1. Completed
    BY <1>10 DEF FinishFirst, AgreementInv, SendTaskCompleted
  <2>2. SenderCompleted' /\ SendTaskCompleted'
    BY <2>1 DEF SenderCompleted, SendTaskCompleted
  <2>3. StreamOpened' /\ FinalAckCompleted'
    BY <1>10, Undisturbed DEF FinishFirst
  <2>4. QED
    BY <1>10, <2>2, <2>3 DEF FinishFirst, AgreementInv
<1>11. CASE MarkDelivered \/ FinishResumed
  <2>1. Completed /\ EndSendTask /\ UNCHANGED bodyVars
    BY <1>11 DEF MarkDelivered, FinishResumed, AgreementInv, SendTaskCompleted
  <2>2. SenderCompleted'
    BY <2>1 DEF SenderCompleted
  <2>3. QED
    BY <2>1, <2>2 DEF AgreementInv
<1>12. QED
  BY <1>5, <1>6, <1>7, <1>8, <1>9, <1>10, <1>11 DEF SendTask

\* The receiving task writes the last acknowledgement only past its
\* completion of the row, and that only past the rename of the file.
LEMMA ReceiveTaskAgreement ==
    ASSUME AgreementInv, TypeInv', NEW s \in Streams, ReceiveTask(s)
    PROVE  AgreementInv'
<1> USE SteadyStatements
<1>0. TypeInv /\ recvPos[s] + 1 \in Nat
  BY DEF AgreementInv, TypeInv, TypeOK, BodyTypeOK
<1>1. UNCHANGED outVars /\ UNCHANGED taskVars /\ UNCHANGED net
  BY DEF ReceiveTask, Authorize, ClaimRefused, ClaimThenPause, ClaimStream, WriteChunk,
         CommitReceivedChunk, IntegrityFails, ReceiveStreamBreaks, Publish,
         FinalizeFails, Complete, RecordReceived, CleanupFails, AcknowledgeFile,
         FinalAckFails, SenderSideUnchanged
<1>2. (Completed => Completed') => /\ StreamOpened' /\ SendTaskCompleted'
                                   /\ AnswerCompleted' /\ SenderCompleted'
  BY <1>1, Undisturbed, QuietStatements
\* A task that ends or waits, and acknowledges nothing.
<1>3. ASSUME Steady, wireAck' = wireAck,
             \A t \in Streams : recvPc'[t] \in {"published", "record", "ackFinal"}
                                    => recvPc'[t] = recvPc[t]
      PROVE  AgreementInv'
  BY <1>2, <1>3, Undisturbed
  DEF AgreementInv, Steady, TaskCompleted, FilePublished
<1>4. EndReceiveTask(s) /\ Steady => AgreementInv'
  <2> SUFFICES ASSUME EndReceiveTask(s), Steady PROVE AgreementInv'
    OBVIOUS
  <2>1. \A t \in Streams : recvPc'[t] \in {recvPc[t], "none"}
    BY <1>0 DEF EndReceiveTask, TypeInv, TypeOK, BodyTypeOK
  <2>2. QED
    BY <1>3, <2>1 DEF EndReceiveTask
<1>5. \A pc \in {"fresh", "resuming", "receiving", "finalize"} :
          MoveTo(s, pc) /\ Steady => AgreementInv'
  <2> SUFFICES ASSUME NEW pc \in {"fresh", "resuming", "receiving", "finalize"},
                      MoveTo(s, pc), Steady
               PROVE  AgreementInv'
    OBVIOUS
  <2>1. \A t \in Streams : recvPc'[t] \in {recvPc[t], pc}
    BY <1>0 DEF MoveTo, TypeInv, TypeOK, BodyTypeOK
  <2>2. QED
    BY <1>3, <2>1 DEF MoveTo, wireVars
<1>6. CASE Authorize(s)
  BY <1>4, <1>5, <1>6 DEF Authorize
<1>7. CASE ClaimRefused(s) \/ ClaimThenPause(s) \/ IntegrityFails(s)
               \/ ReceiveStreamBreaks(s) \/ FinalizeFails(s) \/ CleanupFails(s)
               \/ FinalAckFails(s)
  BY <1>4, <1>7
  DEF ClaimRefused, ClaimThenPause, IntegrityFails, ReceiveStreamBreaks, FinalizeFails,
      CleanupFails, FinalAckFails
<1>8. CASE ClaimStream(s)
  BY <1>4, <1>5, <1>8 DEF ClaimStream
<1>9. CASE WriteChunk(s)
  <2>1. Steady /\ wireAck' = wireAck
    BY <1>0, <1>9 DEF WriteChunk
  <2>2. \A t \in Streams : recvPc'[t] \in {recvPc[t], "written"}
    BY <1>0, <1>9 DEF WriteChunk, TypeInv, TypeOK, BodyTypeOK
  <2>3. QED
    BY <1>3, <2>1, <2>2
<1>10. CASE CommitReceivedChunk(s)
  <2>1. CASE CanCommitChunk(recvPos[s] + 1)
    <3>1. Steady
      BY <1>0, <1>10, <2>1 DEF CommitReceivedChunk
    <3>2. \A t \in Streams : recvPc'[t] \in {recvPc[t], "finalize", "receiving"}
      BY <1>0, <1>10, <2>1 DEF CommitReceivedChunk, TypeInv, TypeOK, BodyTypeOK
    <3>3. \A t \in Streams : wireAck'[t] = Chunks => wireAck[t] = Chunks
      BY <1>0, <1>10, <2>1 DEF CommitReceivedChunk, TypeInv, TypeOK, WireTypeOK
    <3>4. TaskCompleted' /\ FilePublished' /\ FinalAckCompleted'
      BY <3>1, <3>2, <3>3
      DEF AgreementInv, Steady, TaskCompleted, FilePublished, FinalAckCompleted
    <3>5. QED
      BY <1>2, <3>1, <3>4 DEF AgreementInv, Steady
  <2>2. CASE ~CanCommitChunk(recvPos[s] + 1)
    BY <1>4, <1>10, <2>2 DEF CommitReceivedChunk
  <2>3. QED
    BY <2>1, <2>2
<1>11. CASE Publish(s)
  <2>1. Steady /\ published'
    BY <1>11 DEF Publish
  <2>2. \A t \in Streams : recvPc'[t] \in {recvPc[t], "published"}
    BY <1>0, <1>11 DEF Publish, MoveTo, TypeInv, TypeOK, BodyTypeOK
  <2>3. TaskCompleted' /\ FilePublished' /\ FinalAckCompleted'
    BY <1>11, <2>1, <2>2, Undisturbed
    DEF Publish, MoveTo, AgreementInv, Steady, TaskCompleted, FilePublished
  <2>4. QED
    BY <1>2, <2>1, <2>3 DEF AgreementInv, Steady
<1>12. CASE Complete(s)
  <2>1. CASE HoldsReceiveClaim
    <3>1. Completed' /\ published' /\ wireAck' = wireAck
      BY <1>12, <2>1
      DEF Complete, CompleteIncoming, MoveTo, wireVars, Completed, AgreementInv,
          FilePublished
    <3>2. TaskCompleted' /\ FilePublished' /\ FinalAckCompleted'
      BY <3>1 DEF TaskCompleted, FilePublished, FinalAckCompleted
    <3>3. QED
      BY <1>2, <3>1, <3>2 DEF AgreementInv
  <2>2. CASE ~HoldsReceiveClaim
    BY <1>4, <1>12, <2>2 DEF Complete
  <2>3. QED
    BY <2>1, <2>2
<1>13. CASE RecordReceived(s)
  <2>1. Steady /\ Completed
    BY <1>13 DEF RecordReceived, AgreementInv, TaskCompleted
  <2>2. Completed' /\ published'
    BY <2>1 DEF Steady, AgreementInv, FilePublished
  <2>3. TaskCompleted' /\ FilePublished' /\ FinalAckCompleted'
    BY <2>2 DEF TaskCompleted, FilePublished, FinalAckCompleted
  <2>4. QED
    BY <1>2, <2>2, <2>3 DEF AgreementInv
<1>14. CASE AcknowledgeFile(s)
  <2>1. Steady /\ Completed
    BY <1>14 DEF AcknowledgeFile, AgreementInv, TaskCompleted
  <2>2. Completed' /\ published'
    BY <2>1 DEF Steady, AgreementInv, FilePublished
  <2>3. TaskCompleted' /\ FilePublished' /\ FinalAckCompleted'
    BY <2>2 DEF TaskCompleted, FilePublished, FinalAckCompleted
  <2>4. QED
    BY <1>2, <2>2, <2>3 DEF AgreementInv
<1>15. QED
  BY <1>6, <1>7, <1>8, <1>9, <1>10, <1>11, <1>12, <1>13, <1>14 DEF ReceiveTask

\* The answer "completed" is given by a completed row and is believed.
LEMMA ResumeStepsAgreement ==
    ASSUME AgreementInv, TypeInv', ResumeSteps
    PROVE  AgreementInv'
<1> USE QuietStatements
<1>0. /\ Tokens \subseteq Nat /\ acked \in Nat /\ pendingQuery \in Nat
      /\ pendingExpected \in Nat /\ 0..Chunks \subseteq Nat
  BY DEF Tokens, AgreementInv, TypeInv, TypeOK, OutTypeOK, RequestTypeOK
<1>1. /\ UNCHANGED inVars /\ UNCHANGED bodyVars /\ UNCHANGED wireVars
      /\ UNCHANGED sendStream
  BY DEF ResumeSteps, RecordHello, ReceiveQuery, ReceiveResume, ReceiveUnresumable,
         FailQuery, taskVars
<1>2. Steady /\ wireAck' = wireAck /\ (Completed => Completed')
  BY <1>1, SteadyStatements DEF Steady, wireVars
<1>3. CASE RecordHello
  <2>1. Quiet
    <3>1. FreeTokens # {} => NewToken \in Nat
      BY <1>0, NewTokens
    <3>2. QED
      BY <1>3, <3>1 DEF RecordHello
  <2>2. \A m \in net' : m.type = "resume" => m \in net
    BY <1>3 DEF RecordHello, Query, NoticeOf, Terminated
  <2>3. sendPc' = sendPc
    BY <1>3 DEF RecordHello, taskVars
  <2>4. QED
    BY <1>1, <1>2, <2>1, <2>2, <2>3, SteadyStep
<1>4. CASE \E t \in Tokens : ReceiveQuery(t)
  <2>1. PICK t \in Tokens : ReceiveQuery(t)
    BY <1>4
  <2>2. Answer(t).type = "resume" /\ Answer(t).state = "completed" => Completed
    BY DEF Answer, Resume, Unresumable, Completed
  <2>3. net' \subseteq net \union {Answer(t)}
    BY <2>1 DEF ReceiveQuery, Sent
  <2>4. AnswerCompleted'
    BY <1>2, <2>2, <2>3 DEF AgreementInv, AnswerCompleted
  <2>5. QED
    BY <1>1, <1>2, <2>1, <2>4, Undisturbed DEF ReceiveQuery, AgreementInv
<1>5. CASE \E t \in Tokens, state \in {"receiving", "completed"}, offset \in 0..Chunks :
               ReceiveResume(t, state, offset)
  <2>1. PICK t \in Tokens, state \in {"receiving", "completed"}, offset \in 0..Chunks :
            ReceiveResume(t, state, offset)
    BY <1>5
  <2>2. net' \subseteq net /\ sendPc' \in {sendPc, "open"}
    BY <2>1 DEF ReceiveResume
  <2>3. state = "completed" => Completed
    BY <2>1 DEF ReceiveResume, Resume, AgreementInv, AnswerCompleted
  <2>4. state # "completed" => Quiet
    BY <1>0, <2>1 DEF ReceiveResume
  <2>5. SenderCompleted'
    BY <1>2, <2>3, <2>4, Undisturbed DEF SenderCompleted
  <2>6. StreamOpened' /\ SendTaskCompleted' /\ AnswerCompleted'
    BY <1>1, <1>2, <2>2, Undisturbed
    DEF AgreementInv, StreamOpened, SendTaskCompleted, Streams
  <2>7. QED
    BY <1>1, <1>2, <2>5, <2>6, Undisturbed DEF AgreementInv
<1>6. CASE (\E t \in Tokens : ReceiveUnresumable(t)) \/ FailQuery
  <2>1. Quiet /\ net' \subseteq net /\ sendPc' = sendPc
    BY <1>0, <1>6 DEF ReceiveUnresumable, FailQuery, taskVars
  <2>2. QED
    BY <1>1, <1>2, <2>1, SteadyStep
<1>7. QED
  BY <1>3, <1>4, <1>5, <1>6 DEF ResumeSteps

\* Cancellations and notices complete nothing and end open rows only.
LEMMA NoticeStepsAgreement ==
    ASSUME AgreementInv, TypeInv', NoticeSteps
    PROVE  AgreementInv'
<1>1. Steady
  BY SteadyStatements
  DEF NoticeSteps, CancelOutgoing, CancelIncoming, SendNotice, ReceiverHearsEnd,
      SenderHearsEnd, OutNoticeAcknowledged, InNoticeAcknowledged
<1>2. Quiet
  BY QuietStatements
  DEF NoticeSteps, CancelOutgoing, CancelIncoming, SendNotice, ReceiverHearsEnd,
      SenderHearsEnd, OutNoticeAcknowledged, InNoticeAcknowledged, Aborted
<1>3. UNCHANGED bodyVars /\ UNCHANGED wireAck /\ UNCHANGED sendStream /\ sendPc' = sendPc
  BY DEF NoticeSteps, CancelOutgoing, CancelIncoming, SendNotice, ReceiverHearsEnd,
         SenderHearsEnd, OutNoticeAcknowledged, InNoticeAcknowledged, wireVars, taskVars
<1>4. \A m \in net' : m.type = "resume" => m \in net
  <2>1. CASE CancelOutgoing \/ CancelIncoming \/ OutNoticeAcknowledged
                 \/ InNoticeAcknowledged
    BY <2>1 DEF CancelOutgoing, CancelIncoming, OutNoticeAcknowledged,
                InNoticeAcknowledged
  <2>2. CASE SendNotice("sender", outNotice) \/ SendNotice("receiver", inNotice)
    BY <2>2 DEF SendNotice, NoticeOf, Terminated
  <2>3. CASE \E status \in Aborted : ReceiverHearsEnd(status) \/ SenderHearsEnd(status)
    BY <2>3 DEF ReceiverHearsEnd, SenderHearsEnd, Sent, TerminalAck
  <2>4. QED
    BY <2>1, <2>2, <2>3 DEF NoticeSteps
<1>5. QED
  BY <1>1, <1>2, <1>3, <1>4, SteadyStep

\* A lost connection only takes messages away; a restart reconciles paused
\* rows and leaves a completed one alone.
LEMMA EnvironmentAgreement ==
    ASSUME AgreementInv, TypeInv', Environment
    PROVE  AgreementInv'
<1> USE SteadyStatements, QuietStatements
<1>1. CASE LoseConnection \/ IdleClose \/ Reconnect
  <2>1. Steady /\ Quiet
    BY <1>1 DEF LoseConnection, IdleClose, Reconnect
  <2>2. UNCHANGED bodyVars /\ wireAck' = wireAck /\ sendPc' = sendPc /\ sendStream' = sendStream
    BY <1>1 DEF LoseConnection, IdleClose, Reconnect, taskVars, wireVars
  <2>3. net' \subseteq net
    BY <1>1 DEF LoseConnection, IdleClose, Reconnect, Survivors
  <2>4. QED
    BY <2>1, <2>2, <2>3, SteadyStep
<1>2. CASE RestartSender
  <2>1. Steady /\ Quiet /\ UNCHANGED bodyVars /\ wireAck' = wireAck
    BY <1>2 DEF RestartSender
  <2>2. net' \subseteq net /\ sendPc' = "idle"
    BY <1>2 DEF RestartSender, Survivors
  <2>3. QED
    BY <2>1, <2>2, Undisturbed DEF AgreementInv, Steady
<1>3. CASE RestartReceiver
  <2>1. /\ Completed => Completed' /\ published'
        /\ Completed' => published'
    BY <1>3
    DEF RestartReceiver, ResetIncoming, ReconcileFinalised, ReconcileTampered,
        ReconcilePartial, ReconcileUnavailable, Finalised, Completed, inVars,
        AgreementInv, FilePublished
  <2>2. \A s \in Streams : recvPc'[s] = "none"
    BY <1>3 DEF RestartReceiver
  <2>3. TaskCompleted' /\ FilePublished'
    BY <2>1, <2>2 DEF TaskCompleted, FilePublished
  <2>4. UNCHANGED outVars /\ UNCHANGED taskVars /\ wireAck' = wireAck /\ net' \subseteq net
    BY <1>3 DEF RestartReceiver, Survivors
  <2>5. QED
    BY <2>1, <2>3, <2>4, Undisturbed DEF AgreementInv
<1>4. QED
  BY <1>1, <1>2, <1>3 DEF Environment

\* The trail of the verdict holds in every state of the protocol.
LEMMA AgreementInvariant == Spec => []AgreementInv
<1>1. Init => AgreementInv
  BY TypeInit
  DEF Init, OutInit, InInit, AgreementInv, StreamOpened, FilePublished, TaskCompleted,
      FinalAckCompleted, AnswerCompleted, SendTaskCompleted, SenderCompleted, Completed,
      Offer, NoAck
<1>2. AgreementInv /\ [Next]_vars => AgreementInv'
  <2> SUFFICES ASSUME AgreementInv, [Next]_vars PROVE AgreementInv'
    OBVIOUS
  <2>1. TypeInv'
    BY TypeStep DEF AgreementInv
  <2>2. CASE Next
    BY <2>1, <2>2, DecisionStepsAgreement, SendTaskAgreement, ReceiveTaskAgreement,
       ResumeStepsAgreement, NoticeStepsAgreement, EnvironmentAgreement DEF Next
  <2>3. CASE UNCHANGED vars
    <3>1. Steady /\ Quiet
      BY <2>3, SteadyStatements, QuietStatements DEF vars
    <3>2. UNCHANGED bodyVars /\ wireAck' = wireAck /\ sendPc' = sendPc
            /\ sendStream' = sendStream /\ net' = net
      BY <2>3 DEF vars, wireVars, taskVars
    <3>3. QED
      BY <2>1, <3>1, <3>2, SteadyStep
  <2>4. QED
    BY <2>2, <2>3
<1>3. QED
  BY <1>1, <1>2, PTL DEF Spec

\* The sender reports success only when the receiver has completed and the
\* file is in its place, however many connections and processes are lost.
THEOREM SenderAgrees == Spec => []CompletionAgreement
<1>1. AgreementInv => CompletionAgreement
  BY DEF AgreementInv, SenderCompleted, FilePublished, CompletionAgreement, Completed
<1>2. QED
  BY <1>1, AgreementInvariant, PTL

-----------------------------------------------------------------------------
(* Finality.                                                               *)

OutStays == outStatus \in Terminal => outStatus' = outStatus
InStays == inStatus \in Terminal => inStatus' = inStatus

\* No statement on the sender's row changes a terminal status: each tests
\* the status, or the caller has tested it.
LEMMA OutFinalStatements ==
    /\ UNCHANGED outVars => OutStays
    /\ \A status : CanTransitionAwaiting /\ TransitionAwaiting(status) => OutStays
    /\ CanClaimOutgoing /\ ClaimOutgoing => OutStays
    /\ \A k : CommitProgress(k) => OutStays
    /\ HoldsSendClaim(0) /\ CompleteOutgoing => OutStays
    /\ \A t : HoldsSendClaim(t) /\ CompleteResumeAndMessage(t) => OutStays
    /\ PauseSend \/ FailSend => OutStays
    /\ \A t : PrepareQuery(t) => OutStays
    /\ \A t, k : ClearQuery(t, k) => OutStays
    /\ \A t, k, next : QueryStands(t, k) /\ ClaimResumed(next) => OutStays
    /\ \A t, k : QueryStands(t, k) /\ CompleteResumeAndMessage(t) => OutStays
    /\ \A t, k : QueryStands(t, k) /\ FailPendingQuery => OutStays
    /\ \A status : CanEndUnclaimedOutgoing /\ EndUnclaimedOutgoing(status) => OutStays
    /\ \A status : RemoteEndsOutgoing(status) => OutStays
    /\ AcknowledgeOutNotice => OutStays
    /\ ResetOutgoing => OutStays
<1> USE DEF OutStays, Terminal, Aborted, Open, outVars
<1>1. /\ UNCHANGED outVars => OutStays
      /\ \A status : CanTransitionAwaiting /\ TransitionAwaiting(status) => OutStays
  BY DEF CanTransitionAwaiting
<1>2. /\ CanClaimOutgoing /\ ClaimOutgoing => OutStays
      /\ HoldsSendClaim(0) /\ CompleteOutgoing => OutStays
  BY DEF CanClaimOutgoing, HoldsSendClaim
<1>3. /\ \A k : CommitProgress(k) => OutStays
      /\ \A t : PrepareQuery(t) => OutStays
      /\ \A t, k : ClearQuery(t, k) => OutStays
      /\ AcknowledgeOutNotice => OutStays
  BY DEF CommitProgress, PrepareQuery, ClearQuery, AcknowledgeOutNotice
<1>4. \A t : HoldsSendClaim(t) /\ CompleteResumeAndMessage(t) => OutStays
  BY DEF HoldsSendClaim
<1>5. PauseSend \/ FailSend => OutStays
  BY DEF PauseSend, FailSend, HoldsSendClaim
<1>6. /\ \A t, k, next : QueryStands(t, k) /\ ClaimResumed(next) => OutStays
      /\ \A t, k : QueryStands(t, k) /\ CompleteResumeAndMessage(t) => OutStays
      /\ \A t, k : QueryStands(t, k) /\ FailPendingQuery => OutStays
  BY DEF QueryStands
<1>7. \A status : CanEndUnclaimedOutgoing /\ EndUnclaimedOutgoing(status) => OutStays
  BY DEF CanEndUnclaimedOutgoing
<1>8. \A status : RemoteEndsOutgoing(status) => OutStays
  BY DEF RemoteEndsOutgoing
<1>9. ResetOutgoing => OutStays
  BY DEF ResetOutgoing
<1>10. QED
  BY <1>1, <1>2, <1>3, <1>4, <1>5, <1>6, <1>7, <1>8, <1>9

\* The same for the receiver's row.
LEMMA InFinalStatements ==
    /\ UNCHANGED inVars => InStays
    /\ StoreOffer => InStays
    /\ \A t : inStatus = "none" /\ StoreAcceptedOffer(t) => InStays
    /\ CanAcceptIncoming /\ AcceptIncoming => InStays
    /\ \A t : PrepareDecision(t) => InStays
    /\ inStatus = "transferring" /\ ReturnToAwaiting => InStays
    /\ \A t : RollBack(t) => InStays
    /\ CanClaimIncoming /\ ClaimIncoming => InStays
    /\ CanClaimIncoming /\ ClaimIncomingThenPause => InStays
    /\ CanClaimIncoming /\ ClaimIncomingThenFail => InStays
    /\ \A k : SyncChunk(k) => InStays
    /\ \A k : CommitChunk(k) => InStays
    /\ PublishFile \/ RecordMessage \/ AcknowledgeInNotice => InStays
    /\ HoldsReceiveClaim /\ CompleteIncoming => InStays
    /\ PauseClaimedIncoming => InStays
    /\ FailClaimedIncoming => InStays
    /\ CanCancelUnclaimedIncoming /\ CancelUnclaimedIncoming => InStays
    /\ \A status : RemoteEndsIncoming(status) => InStays
    /\ ResetIncoming => InStays
<1> USE DEF InStays, Terminal, Aborted, Open, inVars
<1>1. /\ UNCHANGED inVars => InStays
      /\ StoreOffer => InStays
      /\ \A t : inStatus = "none" /\ StoreAcceptedOffer(t) => InStays
  BY DEF StoreOffer
<1>2. /\ CanAcceptIncoming /\ AcceptIncoming => InStays
      /\ \A t : PrepareDecision(t) => InStays
  BY DEF CanAcceptIncoming, PrepareDecision
<1>3. inStatus = "transferring" /\ ReturnToAwaiting => InStays
  OBVIOUS
<1>4. \A t : RollBack(t) => InStays
  BY DEF RollBack, CanRollbackDecision
<1>5. /\ CanClaimIncoming /\ ClaimIncoming => InStays
      /\ CanClaimIncoming /\ ClaimIncomingThenPause => InStays
      /\ CanClaimIncoming /\ ClaimIncomingThenFail => InStays
  BY DEF CanClaimIncoming
<1>6. /\ \A k : SyncChunk(k) => InStays
      /\ \A k : CommitChunk(k) => InStays
      /\ PublishFile \/ RecordMessage \/ AcknowledgeInNotice => InStays
  BY DEF SyncChunk, CommitChunk, PublishFile, RecordMessage, AcknowledgeInNotice
<1>7. /\ HoldsReceiveClaim /\ CompleteIncoming => InStays
      /\ PauseClaimedIncoming => InStays
      /\ FailClaimedIncoming => InStays
  BY DEF HoldsReceiveClaim, PauseClaimedIncoming, FailClaimedIncoming
<1>8. /\ CanCancelUnclaimedIncoming /\ CancelUnclaimedIncoming => InStays
      /\ \A status : RemoteEndsIncoming(status) => InStays
  BY DEF CanCancelUnclaimedIncoming, RemoteEndsIncoming
<1>9. ResetIncoming => InStays
  BY DEF ResetIncoming
<1>10. QED
  BY <1>1, <1>2, <1>3, <1>4, <1>5, <1>6, <1>7, <1>8, <1>9

\* Every action changes the rows by those statements alone.
LEMMA StatusesStay == Next => OutStays /\ InStays
<1> SUFFICES ASSUME Next PROVE OutStays /\ InStays
  OBVIOUS
<1> USE OutFinalStatements, InFinalStatements
<1>1. CASE DecisionSteps
  BY <1>1
  DEF DecisionSteps, ReceiveManualOffer, ReceiveAutomaticOffer, OfferAnswered,
      FailOffer, Accept, SubmitDecision, SubmitFails, Reject, SubmitReject,
      ReceiveAcceptance, ReceiveRejection, DecisionAnswered, FailDecision, StartTimeout
<1>2. CASE SendTask
  <2>1. OutStays
    BY <1>2
    DEF SendTask, ClaimFirstStream, OpenStream, OpenFails, SendChunk, SourceChanged,
        ReceiveAck, SendStreamBreaks, FinishFirst, MarkDelivered, FinishResumed, OutStays
  <2>2. UNCHANGED inVars
    BY <1>2
    DEF SendTask, ClaimFirstStream, OpenStream, OpenFails, SendChunk, SourceChanged,
        ReceiveAck, SendStreamBreaks, FinishFirst, MarkDelivered, FinishResumed
  <2>3. QED
    BY <2>1, <2>2
<1>3. CASE \E s \in Streams : ReceiveTask(s)
  BY <1>3
  DEF ReceiveTask, Authorize, ClaimRefused, ClaimThenPause, ClaimStream, WriteChunk,
      CommitReceivedChunk, IntegrityFails, ReceiveStreamBreaks, Publish, FinalizeFails,
      Complete, RecordReceived, CleanupFails, AcknowledgeFile, FinalAckFails,
      SenderSideUnchanged
<1>4. CASE ResumeSteps
  BY <1>4
  DEF ResumeSteps, RecordHello, ReceiveQuery, ReceiveResume, ReceiveUnresumable, FailQuery
<1>5. CASE NoticeSteps
  BY <1>5
  DEF NoticeSteps, CancelOutgoing, CancelIncoming, SendNotice, ReceiverHearsEnd,
      SenderHearsEnd, OutNoticeAcknowledged, InNoticeAcknowledged
<1>6. CASE Environment
  BY <1>6
  DEF Environment, LoseConnection, IdleClose, Reconnect, RestartSender, RestartReceiver
<1>7. QED
  BY <1>1, <1>2, <1>3, <1>4, <1>5, <1>6 DEF Next

\* A terminal status is final on both sides and a completed file stays,
\* whatever stale task, late message or restart follows.
THEOREM EndsAreFinal == Spec => EndIsFinal
<1>1. ASSUME AgreementInv, AgreementInv', [Next]_vars
      PROVE  [/\ outStatus \in Terminal => outStatus' = outStatus
              /\ inStatus \in Terminal => inStatus' = inStatus
              /\ inStatus = "completed" => published']_vars
  <2>1. CASE UNCHANGED vars
    BY <2>1
  <2>2. CASE Next
    <3>1. OutStays /\ InStays
      BY <2>2, StatusesStay
    <3>2. inStatus = "completed" => published'
      BY <1>1, <3>1 DEF InStays, Terminal, AgreementInv, FilePublished, Completed
    <3>3. QED
      BY <3>1, <3>2 DEF OutStays, InStays
  <2>3. QED
    BY <1>1, <2>1, <2>2
<1>2. QED
  BY <1>1, AgreementInvariant, PTL DEF Spec, EndIsFinal

=============================================================================
