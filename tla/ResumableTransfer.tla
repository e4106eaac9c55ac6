------------------------- MODULE ResumableTransfer --------------------------
(***************************************************************************)
(* One resumable transfer between two friends: the sender's row, the       *)
(* receiver's row, the control requests and byte streams between the two   *)
(* processes, the tasks that serve the streams, and what can go wrong in   *)
(* between: the connection is lost, either process restarts, an answer is  *)
(* lost after its request was handled, users cancel, files change.         *)
(*                                                                         *)
(* Each process runs one network loop (runtime.rs), a task per stream      *)
(* (transfer.rs) and the user's commands (commands.rs); they share only    *)
(* the rows.  A control request is in `net` until the other loop takes it, *)
(* in any order.  The answer to an offer or a decision carries no data: it *)
(* arrives, or the request fails, some time after the request was taken.   *)
(***************************************************************************)
EXTENDS OutgoingTransfer, IncomingTransfer

CONSTANTS
    HellosPerLink,   \* Hello messages the sender's loop gets per connection
    MaxStreams,      \* bound: streams served at once
    MaxQueries,      \* bound: query tokens in use at once
    MaxDecisions,    \* bound: decision tokens in use at once
    MaxDrops,        \* bound: lost connections
    MaxRestarts      \* bound: restarts of either process

ASSUME BoundsAssumption ==
    /\ HellosPerLink \in Nat
    /\ MaxStreams \in Nat
    /\ MaxQueries \in Nat
    /\ MaxDecisions \in Nat
    /\ MaxDrops \in Nat
    /\ MaxRestarts \in Nat

VARIABLES
    link,            \* are the two processes connected?
    hellos,          \* Hello messages the sender's loop has still to handle
    net,             \* control requests and resume answers under way
    drops, restarts, \* lost connections and restarts so far

    sendPc,          \* where the sending task is
    sendToken,       \* query token the task claimed with, 0 for the first stream
    sendStream,      \* stream the task has opened
    sendPos,         \* chunks acknowledged to the task
    offerPending,    \* is the offer's answer awaited?
    pendingQuery,    \* token of the resume query whose answer is awaited, or 0
    pendingExpected, \* offset that query was prepared at

    streamUp,        \* does the stream still join two live ends?
    wireFrame,       \* chunk frame on the wire, 0 for none
    wireAck,         \* acknowledgement on the wire, NoAck for none

    recvPc,          \* where the task serving a stream is
    recvPos,         \* the task's offset; at first the one in the stream header
    resolveQueued,   \* the ResolveTransfer command in the loop's channel
    pendingDecision, \* token of the decision whose answer is awaited, or 0
    startTimer       \* token of the decision the last start timer watches, or 0

linkVars == <<link, hellos, drops, restarts>>
taskVars == <<sendPc, sendToken, sendStream, sendPos>>
requestVars == <<offerPending, pendingQuery, pendingExpected>>
wireVars == <<streamUp, wireFrame, wireAck>>
bodyVars == <<recvPc, recvPos>>
decideVars == <<resolveQueued, pendingDecision, startTimer>>

vars == <<outVars, inVars, linkVars, net, taskVars, requestVars, wireVars,
          bodyVars, decideVars>>

Streams == 1..MaxStreams
NoAck == -1

-----------------------------------------------------------------------------
(* Control messages.                                                       *)

Offer == [type |-> "offer"]
Accepted(token) == [type |-> "decision", token |-> token]
Rejected == [type |-> "reject"]
Query(token) == [type |-> "query", token |-> token]
Resume(token, state, offset) ==
    [type |-> "resume", token |-> token, state |-> state, offset |-> offset]
Unresumable(token) == [type |-> "unresumable", token |-> token]
Terminated(from, status) == [type |-> "terminal", from |-> from, status |-> status]
TerminalAck(from) == [type |-> "terminalAck", from |-> from]

Tokens == 1..MaxQueries
Sides == {"sender", "receiver"}
Messages ==
    [type : {"offer", "reject"}]
        \union [type : {"decision"}, token : 1..MaxDecisions]
        \union [type : {"query", "unresumable"}, token : Tokens]
        \union [type : {"resume"}, token : Tokens,
                state : {"receiving", "completed"}, offset : 0..Chunks]
        \union [type : {"terminal"}, from : Sides, status : Aborted]
        \union [type : {"terminalAck"}, from : Sides]

\* What is sent without a connection is lost.
Sent(ms) == IF link THEN ms ELSE {}

\* Everything of one query, which its failure puts beyond reach.
OfQuery(token) ==
    {m \in net : m.type \in {"query", "resume", "unresumable"} /\ m.token = token}

\* A notice is sent again while it is queued, one copy at a time.
NoticeOf(side, notice) ==
    IF \/ notice = "none"
       \/ \E m \in net : m.type \in {"terminal", "terminalAck"} /\ m.from = side
    THEN {}
    ELSE {Terminated(side, notice)}

-----------------------------------------------------------------------------

SendPcs == {"idle", "spawned", "open", "send", "await", "finish", "message"}
Body == {"receiving", "written", "finalize", "published"}
RecvPcs == Body \union
    {"none", "accepted", "fresh", "resuming", "record", "ackFinal"}

LinkTypeOK ==
    /\ link \in BOOLEAN
    /\ hellos \in 0..HellosPerLink
    /\ drops \in 0..MaxDrops
    /\ restarts \in 0..MaxRestarts

TaskTypeOK ==
    /\ sendPc \in SendPcs
    /\ sendToken \in 0..MaxQueries
    /\ sendStream \in 0..MaxStreams
    /\ sendPos \in 0..Chunks

RequestTypeOK ==
    /\ offerPending \in BOOLEAN
    /\ pendingQuery \in 0..MaxQueries
    /\ pendingExpected \in 0..Chunks

WireTypeOK ==
    /\ streamUp \in [Streams -> BOOLEAN]
    /\ wireFrame \in [Streams -> 0..Chunks]
    /\ wireAck \in [Streams -> {NoAck} \union 0..Chunks]

BodyTypeOK ==
    /\ recvPc \in [Streams -> RecvPcs]
    /\ recvPos \in [Streams -> 0..Chunks]

DecideTypeOK ==
    /\ resolveQueued \in {"none", "accept", "reject"}
    /\ pendingDecision \in 0..MaxDecisions
    /\ startTimer \in 0..MaxDecisions

\* Every variable stays in its range: offsets within the file, requests
\* and answers of the known kinds, tasks at a known step.
TypeOK ==
    /\ OutTypeOK
    /\ InTypeOK
    /\ LinkTypeOK
    /\ net \subseteq Messages
    /\ TaskTypeOK
    /\ RequestTypeOK
    /\ WireTypeOK
    /\ BodyTypeOK
    /\ DecideTypeOK

\* send_file has stored the row and the loop has sent the offer.
Init ==
    /\ OutInit
    /\ InInit
    /\ link = TRUE
    /\ hellos = 0
    /\ drops = 0
    /\ restarts = 0
    /\ net = {Offer}
    /\ sendPc = "idle"
    /\ sendToken = 0
    /\ sendStream = 0
    /\ sendPos = 0
    /\ offerPending = TRUE
    /\ pendingQuery = 0
    /\ pendingExpected = 0
    /\ streamUp = [s \in Streams |-> FALSE]
    /\ wireFrame = [s \in Streams |-> 0]
    /\ wireAck = [s \in Streams |-> NoAck]
    /\ recvPc = [s \in Streams |-> "none"]
    /\ recvPos = [s \in Streams |-> 0]
    /\ resolveQueued = "none"
    /\ pendingDecision = 0
    /\ startTimer = 0

-----------------------------------------------------------------------------
(* The offer and the decision.                                             *)

\* Tokens are UUIDs: a new one is unlike every token anything still holds.
FreeDecisions ==
    {t \in 1..MaxDecisions : t \notin {decision, pendingDecision, startTimer}
                              /\ Accepted(t) \notin net}
NewDecision == CHOOSE t \in FreeDecisions : TRUE

\* A new row waits for the user: automatic receiving is off, or it failed and what it
\* reserved was given back.  A repeated offer finds its row.
ReceiveManualOffer ==
    /\ Offer \in net
    /\ ~AutoReceive \/ inStatus # "none" \/ "acceptError" \in Faults
    /\ StoreOffer
    /\ net' = net \ {Offer}
    /\ UNCHANGED <<outVars, linkVars, taskVars, requestVars, wireVars, bodyVars, decideVars>>

ReceiveAutomaticOffer ==
    /\ Offer \in net
    /\ AutoReceive
    /\ inStatus = "none"
    /\ FreeDecisions # {}
    /\ StoreAcceptedOffer(NewDecision)
    /\ net' = (net \ {Offer}) \union Sent({Accepted(NewDecision)})
    /\ pendingDecision' = NewDecision
    /\ startTimer' = NewDecision
    /\ UNCHANGED <<outVars, linkVars, taskVars, requestVars, wireVars, bodyVars,
                   resolveQueued>>

OfferAnswered ==
    /\ offerPending
    /\ link
    /\ Offer \notin net
    /\ offerPending' = FALSE
    /\ UNCHANGED <<outVars, inVars, linkVars, net, taskVars, pendingQuery,
                   pendingExpected, wireVars, bodyVars, decideVars>>

\* A request fails with its connection, or its answer comes too late.
RequestMayFail == ~link \/ "lateTimeout" \in Faults

FailOffer ==
    /\ offerPending
    /\ RequestMayFail
    /\ offerPending' = FALSE
    /\ IF CanEndUnclaimedOutgoing
       THEN EndUnclaimedOutgoing("failed")
       ELSE UNCHANGED outVars
    /\ UNCHANGED <<inVars, linkVars, net, taskVars, pendingQuery, pendingExpected, wireVars, bodyVars, decideVars>>

Accept ==
    /\ link
    /\ resolveQueued = "none"
    /\ CanAcceptIncoming
    /\ AcceptIncoming
    /\ resolveQueued' = "accept"
    /\ UNCHANGED <<outVars, linkVars, net, taskVars, requestVars, wireVars, bodyVars,
                   pendingDecision, startTimer>>

SubmitDecision ==
    /\ resolveQueued = "accept"
    /\ link
    /\ CanPrepareDecision
    /\ FreeDecisions # {}
    /\ PrepareDecision(NewDecision)
    /\ net' = net \union {Accepted(NewDecision)}
    /\ resolveQueued' = "none"
    /\ pendingDecision' = NewDecision
    /\ startTimer' = NewDecision
    /\ UNCHANGED <<outVars, linkVars, taskVars, requestVars, wireVars, bodyVars>>

\* The peer is gone or the row has changed: an acceptance that was not
\* submitted goes back to the user.
SubmitFails ==
    /\ resolveQueued = "accept"
    /\ ~(link /\ CanPrepareDecision)
    /\ IF decision = 0 /\ inStatus = "transferring" /\ committed = 0 /\ CanClaimIncoming
       THEN ReturnToAwaiting
       ELSE UNCHANGED inVars
    /\ resolveQueued' = "none"
    /\ UNCHANGED <<outVars, linkVars, net, taskVars, requestVars, wireVars, bodyVars,
                   pendingDecision, startTimer>>

Reject ==
    /\ "cancel" \in Faults
    /\ link
    /\ resolveQueued = "none"
    /\ inStatus = "awaitingAcceptance"
    /\ CanCancelUnclaimedIncoming
    /\ CancelUnclaimedIncoming
    /\ resolveQueued' = "reject"
    /\ UNCHANGED <<outVars, linkVars, net, taskVars, requestVars, wireVars, bodyVars,
                   pendingDecision, startTimer>>

SubmitReject ==
    /\ resolveQueued = "reject"
    /\ net' = net \union Sent({Rejected})
    /\ resolveQueued' = "none"
    /\ UNCHANGED <<outVars, inVars, linkVars, taskVars, requestVars, wireVars, bodyVars,
                   pendingDecision, startTimer>>

\* The first stream is spawned at once; it claims the row later.
ReceiveAcceptance(token) ==
    /\ Accepted(token) \in net
    /\ net' = net \ {Accepted(token)}
    /\ IF CanTransitionAwaiting
       THEN TransitionAwaiting("transferring") /\ sendPc' = "spawned"
       ELSE UNCHANGED <<outVars, sendPc>>
    /\ UNCHANGED <<inVars, linkVars, sendToken, sendStream, sendPos, requestVars,
                   wireVars, bodyVars, decideVars>>

ReceiveRejection ==
    /\ Rejected \in net
    /\ net' = net \ {Rejected}
    /\ IF CanTransitionAwaiting
       THEN TransitionAwaiting("cancelled")
       ELSE UNCHANGED outVars
    /\ UNCHANGED <<inVars, linkVars, taskVars, requestVars, wireVars, bodyVars, decideVars>>

DecisionAnswered ==
    /\ pendingDecision # 0
    /\ link
    /\ Accepted(pendingDecision) \notin net
    /\ pendingDecision' = 0
    /\ UNCHANGED <<outVars, inVars, linkVars, net, taskVars, requestVars, wireVars,
                   bodyVars, resolveQueued, startTimer>>

RollBack(token) ==
    IF CanRollbackDecision(token) THEN ReturnToAwaiting ELSE UNCHANGED inVars

FailDecision ==
    /\ pendingDecision # 0
    /\ RequestMayFail
    /\ RollBack(pendingDecision)
    /\ pendingDecision' = 0
    /\ UNCHANGED <<outVars, linkVars, net, taskVars, requestVars, wireVars, bodyVars,
                   resolveQueued, startTimer>>

\* 35 seconds after the decision; early only as a fault.
StartTimeout ==
    /\ startTimer # 0
    /\ decision = startTimer => RequestMayFail
    /\ RollBack(startTimer)
    /\ pendingDecision' = IF pendingDecision = startTimer THEN 0 ELSE pendingDecision
    /\ startTimer' = 0
    /\ UNCHANGED <<outVars, linkVars, net, taskVars, requestVars, wireVars, bodyVars,
                   resolveQueued>>

-----------------------------------------------------------------------------
(* The sending task.                                                       *)

\* The task is over and its end of the stream is gone.
EndSendTask ==
    /\ sendPc' = "idle"
    /\ sendToken' = 0
    /\ sendStream' = 0
    /\ sendPos' = 0
    /\ streamUp' = [s \in Streams |-> streamUp[s] /\ s # sendStream]
    /\ wireAck' = [s \in Streams |-> IF s = sendStream THEN NoAck ELSE wireAck[s]]
    /\ UNCHANGED wireFrame

\* A recoverable error leaves the row paused, another one fails it.  The
\* statement tests the claim: a task that lost it changes nothing.
PauseSend ==
    /\ IF HoldsSendClaim(sendToken)
       THEN PauseClaimedOutgoing(sendToken)
       ELSE UNCHANGED outVars
    /\ EndSendTask

FailSend ==
    /\ IF HoldsSendClaim(sendToken)
       THEN FailClaimedOutgoing(sendToken)
       ELSE UNCHANGED outVars
    /\ EndSendTask

ClaimFirstStream ==
    /\ sendPc = "spawned"
    /\ IF CanClaimOutgoing
       THEN /\ ClaimOutgoing
            /\ sendPc' = "open"
            /\ sendPos' = acked
            /\ UNCHANGED <<sendToken, sendStream, wireVars>>
       ELSE UNCHANGED outVars /\ EndSendTask
    /\ UNCHANGED <<inVars, linkVars, net, requestVars, bodyVars, decideVars>>

FreeStreams == {s \in Streams : recvPc[s] = "none"}

\* The stream and its header, which names the offset the task starts at.
OpenStream ==
    /\ sendPc = "open"
    /\ link
    /\ FreeStreams # {}
    /\ LET s == CHOOSE s \in FreeStreams : TRUE IN
        /\ sendStream' = s
        /\ streamUp' = [streamUp EXCEPT ![s] = TRUE]
        /\ wireFrame' = [wireFrame EXCEPT ![s] = 0]
        /\ wireAck' = [wireAck EXCEPT ![s] = NoAck]
        /\ recvPc' = [recvPc EXCEPT ![s] = "accepted"]
        /\ recvPos' = [recvPos EXCEPT ![s] = sendPos]
    /\ sendPc' = "send"
    /\ UNCHANGED <<outVars, inVars, linkVars, net, sendToken, sendPos, requestVars,
                   decideVars>>

OpenFails ==
    /\ sendPc = "open"
    /\ ~link
    /\ PauseSend
    /\ UNCHANGED <<inVars, linkVars, net, requestVars, bodyVars, decideVars>>

\* One frame at a time.  With nothing left to send, the task waits for the
\* acknowledgement of the whole file.
SendChunk ==
    /\ sendPc = "send"
    /\ streamUp[sendStream]
    /\ sendPc' = "await"
    /\ wireFrame' = IF sendPos < Chunks
                    THEN [wireFrame EXCEPT ![sendStream] = sendPos + 1]
                    ELSE wireFrame
    /\ UNCHANGED <<outVars, inVars, linkVars, net, sendToken, sendStream, sendPos,
                   requestVars, streamUp, wireAck, bodyVars, decideVars>>

\* verify_source_snapshot before a resumed stream is opened and before any
\* chunk is sent, and the hash of each chunk.
SourceChanged ==
    /\ "sourceChange" \in Faults
    /\ \/ sendPc = "open" /\ sendToken # 0
       \/ sendPc = "send"
    /\ FailSend
    /\ UNCHANGED <<inVars, linkVars, net, requestVars, bodyVars, decideVars>>

ExpectedAck == IF sendPos < Chunks THEN sendPos + 1 ELSE Chunks

\* An acknowledgement other than the expected one, or a progress statement
\* that matches no row, ends the task for good.
ReceiveAck ==
    /\ sendPc = "await"
    /\ wireAck[sendStream] # NoAck
    /\ LET ack == wireAck[sendStream] IN
       IF /\ ack = ExpectedAck
          /\ \/ sendPos = Chunks
             \/ CanCommitProgress(sendToken, sendPos, ack)
       THEN /\ IF sendPos = Chunks THEN UNCHANGED outVars ELSE CommitProgress(ack)
            /\ sendPos' = ack
            /\ sendPc' = IF ack = Chunks THEN "finish" ELSE "send"
            /\ wireAck' = [wireAck EXCEPT ![sendStream] = NoAck]
            /\ UNCHANGED <<sendToken, sendStream, streamUp, wireFrame>>
       ELSE FailSend
    /\ UNCHANGED <<inVars, linkVars, net, requestVars, bodyVars, decideVars>>

SendStreamBreaks ==
    /\ sendPc \in {"send", "await"}
    /\ ~streamUp[sendStream]
    /\ PauseSend
    /\ UNCHANGED <<inVars, linkVars, net, requestVars, bodyVars, decideVars>>

\* The row of a first stream is completed before its message; a resumed
\* stream completes both in one transaction.
FinishFirst ==
    /\ sendPc = "finish"
    /\ sendToken = 0
    /\ IF HoldsSendClaim(0)
       THEN /\ CompleteOutgoing
            /\ sendPc' = "message"
            /\ UNCHANGED <<sendToken, sendStream, sendPos, wireVars>>
       ELSE UNCHANGED outVars /\ EndSendTask
    /\ UNCHANGED <<inVars, linkVars, net, requestVars, bodyVars, decideVars>>

MarkDelivered ==
    /\ sendPc = "message"
    /\ outMessage' = "delivered"
    /\ EndSendTask
    /\ UNCHANGED <<outStatus, sendClaimed, queryToken, acked, outNotice, inVars,
                   linkVars, net, requestVars, bodyVars, decideVars>>

FinishResumed ==
    /\ sendPc = "finish"
    /\ sendToken # 0
    /\ IF HoldsSendClaim(sendToken)
       THEN CompleteResumeAndMessage(sendToken)
       ELSE UNCHANGED outVars
    /\ EndSendTask
    /\ UNCHANGED <<inVars, linkVars, net, requestVars, bodyVars, decideVars>>

-----------------------------------------------------------------------------
(* The receiving task of stream s.                                         *)

\* Mutant: the task ends and leaves its stream open.
EndLeavingStream(s) ==
    /\ recvPc' = [recvPc EXCEPT ![s] = "none"]
    /\ recvPos' = [recvPos EXCEPT ![s] = 0]
    /\ wireFrame' = [wireFrame EXCEPT ![s] = 0]
    /\ UNCHANGED <<streamUp, wireAck>>

EndReceiveTask(s) ==
    /\ recvPc' = [recvPc EXCEPT ![s] = "none"]
    /\ recvPos' = [recvPos EXCEPT ![s] = 0]
    /\ streamUp' = [streamUp EXCEPT ![s] = FALSE]
    /\ wireFrame' = [wireFrame EXCEPT ![s] = 0]
    /\ UNCHANGED wireAck

MoveTo(s, pc) ==
    /\ recvPc' = [recvPc EXCEPT ![s] = pc]
    /\ UNCHANGED <<recvPos, wireVars>>

SenderSideUnchanged ==
    UNCHANGED <<outVars, linkVars, net, taskVars, requestVars, decideVars>>

\* Authorisation reads the row; the claim comes in a later transaction.  A
\* refused stream is dropped and the row keeps its status.
Authorize(s) ==
    /\ recvPc[s] = "accepted"
    /\ IF inStatus \in {"transferring", "paused"} /\ recvPos[s] = committed
       THEN MoveTo(s, IF inStatus = "paused" THEN "resuming" ELSE "fresh")
       ELSE EndReceiveTask(s)
    /\ UNCHANGED inVars
    /\ SenderSideUnchanged

ClaimRefused(s) ==
    /\ recvPc[s] \in {"fresh", "resuming"}
    /\ ~CanClaimIncoming
    /\ EndReceiveTask(s)
    /\ UNCHANGED inVars
    /\ SenderSideUnchanged

\* The offset is checked again under the claim, and for a resumed transfer
\* the room left at the destination.
ClaimThenPause(s) ==
    /\ recvPc[s] \in {"fresh", "resuming"}
    /\ CanClaimIncoming
    /\ \/ recvPos[s] # committed
       \/ recvPc[s] = "resuming" /\ "preflight" \in Faults
    /\ ClaimIncomingThenPause
    /\ EndReceiveTask(s)
    /\ SenderSideUnchanged

ClaimStream(s) ==
    /\ recvPc[s] \in {"fresh", "resuming"}
    /\ CanClaimIncoming
    /\ recvPos[s] = committed
    /\ IF published
       THEN ClaimIncomingThenFail /\ EndReceiveTask(s)
       ELSE /\ ClaimIncoming
            /\ MoveTo(s, IF recvPos[s] = Chunks THEN "finalize" ELSE "receiving")
    /\ SenderSideUnchanged

\* The frame is written and synchronised before anything is committed.
WriteChunk(s) ==
    /\ recvPc[s] = "receiving"
    /\ wireFrame[s] = recvPos[s] + 1
    /\ SyncChunk(wireFrame[s])
    /\ recvPc' = [recvPc EXCEPT ![s] = "written"]
    /\ wireFrame' = [wireFrame EXCEPT ![s] = 0]
    /\ UNCHANGED <<recvPos, streamUp, wireAck>>
    /\ SenderSideUnchanged

\* The last chunk is acknowledged only after the file is in place.
CommitReceivedChunk(s) ==
    /\ recvPc[s] = "written"
    /\ IF CanCommitChunk(recvPos[s] + 1)
       THEN /\ CommitChunk(recvPos[s] + 1)
            /\ recvPos' = [recvPos EXCEPT ![s] = @ + 1]
            /\ IF recvPos[s] + 1 = Chunks
               THEN /\ recvPc' = [recvPc EXCEPT ![s] = "finalize"]
                    /\ UNCHANGED wireAck
               ELSE /\ recvPc' = [recvPc EXCEPT ![s] = "receiving"]
                    /\ wireAck' = [wireAck EXCEPT ![s] = recvPos[s] + 1]
            /\ UNCHANGED <<streamUp, wireFrame>>
       ELSE FailClaimedIncoming /\ EndReceiveTask(s)
    /\ SenderSideUnchanged

\* A frame does not match its hash, or the chunks do not match the manifest: that is found
\* in the transaction of the last commit, which is rolled back, or at the finalisation.
IntegrityFails(s) ==
    /\ "corruption" \in Faults
    /\ \/ recvPc[s] = "receiving" /\ wireFrame[s] # 0
       \/ recvPc[s] = "written" /\ recvPos[s] + 1 = Chunks
       \/ recvPc[s] = "finalize"
    /\ FailClaimedIncoming
    /\ EndReceiveTask(s)
    /\ SenderSideUnchanged

\* The stream ends, or no frame comes for 30 seconds.
ReceiveStreamBreaks(s) ==
    /\ recvPc[s] = "receiving"
    /\ ~streamUp[s] \/ (wireFrame[s] = 0 /\ "lateTimeout" \in Faults)
    /\ PauseClaimedIncoming
    /\ EndReceiveTask(s)
    /\ SenderSideUnchanged

\* The acknowledgement cannot be written: the header reader and the writer
\* of the final acknowledgement only lose the stream.
FinalAckFails(s) ==
    /\ recvPc[s] = "ackFinal"
    /\ ~streamUp[s]
    /\ EndReceiveTask(s)
    /\ UNCHANGED inVars
    /\ SenderSideUnchanged

Publish(s) ==
    /\ recvPc[s] = "finalize"
    /\ PublishFile
    /\ MoveTo(s, "published")
    /\ SenderSideUnchanged

\* A missing or full volume is recoverable, another error is not.  A task
\* whose row was ended under it may find its files removed.
FinalizeFails(s) ==
    /\ recvPc[s] = "finalize"
    /\ "diskError" \in Faults \/ ~HoldsReceiveClaim
    /\ PauseClaimedIncoming \/ FailClaimedIncoming
    /\ EndReceiveTask(s)
    /\ SenderSideUnchanged

Complete(s) ==
    /\ recvPc[s] = "published"
    /\ IF HoldsReceiveClaim
       THEN CompleteIncoming /\ MoveTo(s, "record")
       ELSE UNCHANGED inVars /\ EndReceiveTask(s)
    /\ SenderSideUnchanged

RecordReceived(s) ==
    /\ recvPc[s] = "record"
    /\ RecordMessage
    /\ MoveTo(s, "ackFinal")
    /\ SenderSideUnchanged

\* cleanup_completed_incoming_artifacts fails after the row was completed.
CleanupFails(s) ==
    /\ "diskError" \in Faults
    /\ recvPc[s] = "record"
    /\ EndReceiveTask(s)
    /\ UNCHANGED inVars
    /\ SenderSideUnchanged

AcknowledgeFile(s) ==
    /\ recvPc[s] = "ackFinal"
    /\ streamUp[s]
    /\ wireAck' = [wireAck EXCEPT ![s] = Chunks]
    /\ recvPc' = [recvPc EXCEPT ![s] = "none"]
    /\ recvPos' = [recvPos EXCEPT ![s] = 0]
    /\ UNCHANGED <<inVars, streamUp, wireFrame>>
    /\ SenderSideUnchanged

-----------------------------------------------------------------------------
(* Resuming.                                                               *)

FreeTokens ==
    {t \in Tokens : t \notin {queryToken, pendingQuery, sendToken} /\ OfQuery(t) = {}}
NewToken == CHOOSE t \in FreeTokens : TRUE

\* record_hello retries the terminal notices and asks about a paused row,
\* once: a query whose answer is awaited is not repeated.
RecordHello ==
    /\ link
    /\ hellos > 0
    /\ hellos' = hellos - 1
    /\ IF outStatus = "paused" /\ pendingQuery = 0 /\ CanPrepareQuery(acked)
       THEN /\ FreeTokens # {}
            /\ PrepareQuery(NewToken)
            /\ pendingQuery' = NewToken
            /\ pendingExpected' = acked
            /\ net' = net \union {Query(NewToken)}
       ELSE /\ net' = net \union NoticeOf("sender", outNotice)
            /\ UNCHANGED <<outVars, pendingQuery, pendingExpected>>
    /\ UNCHANGED <<inVars, link, drops, restarts, taskVars, offerPending, wireVars,
                   bodyVars, decideVars>>

\* Mutant: every committed chunk is taken for a completed transfer.
AnswerByOffset(token) ==
    CASE committed = Chunks -> Resume(token, "completed", committed)
      [] inStatus \in {"paused", "transferring"} -> Resume(token, "receiving", committed)
      [] OTHER -> Unresumable(token)

Answer(token) ==
    CASE inStatus \in {"paused", "transferring"} -> Resume(token, "receiving", committed)
      [] inStatus = "completed" /\ committed = Chunks -> Resume(token, "completed", committed)
      [] OTHER -> Unresumable(token)

ReceiveQuery(token) ==
    /\ Query(token) \in net
    /\ net' = (net \ {Query(token)}) \union Sent({Answer(token)})
    /\ UNCHANGED <<outVars, inVars, linkVars, taskVars, requestVars, wireVars,
                   bodyVars, decideVars>>

QueryOver ==
    /\ pendingQuery' = 0
    /\ pendingExpected' = 0
    /\ UNCHANGED offerPending

\* The row is claimed with the query's token, takes over the receiver's
\* offset, and a new stream is started; or the receiver has everything.
ReceiveResume(token, state, offset) ==
    /\ pendingQuery = token
    /\ Resume(token, state, offset) \in net
    /\ net' = net \ {Resume(token, state, offset)}
    /\ IF ~QueryStands(token, pendingExpected)
       THEN UNCHANGED <<outVars, sendPc, sendToken, sendPos>>
       ELSE IF state = "completed"
       THEN /\ CompleteResumeAndMessage(token)
            /\ UNCHANGED <<sendPc, sendToken, sendPos>>
       ELSE /\ ClaimResumed(offset)
            /\ sendPc' = "open"
            /\ sendToken' = token
            /\ sendPos' = offset
    /\ QueryOver
    /\ UNCHANGED <<inVars, linkVars, sendStream, wireVars, bodyVars, decideVars>>

ReceiveUnresumable(token) ==
    /\ pendingQuery = token
    /\ Unresumable(token) \in net
    /\ net' = net \ {Unresumable(token)}
    /\ IF QueryStands(token, pendingExpected)
       THEN FailPendingQuery
       ELSE UNCHANGED outVars
    /\ QueryOver
    /\ UNCHANGED <<inVars, linkVars, taskVars, wireVars, bodyVars, decideVars>>

FailQuery ==
    /\ pendingQuery # 0
    /\ RequestMayFail
    /\ ClearQuery(pendingQuery, pendingExpected)
    /\ net' = net \ OfQuery(pendingQuery)
    /\ QueryOver
    /\ UNCHANGED <<inVars, linkVars, taskVars, wireVars, bodyVars, decideVars>>

-----------------------------------------------------------------------------
(* Terminal notices, and the cancellations that start most of them.        *)

CancelOutgoing ==
    /\ "cancel" \in Faults
    /\ CanEndUnclaimedOutgoing
    /\ EndUnclaimedOutgoing("cancelled")
    /\ UNCHANGED <<inVars, linkVars, net, taskVars, requestVars, wireVars, bodyVars,
                   decideVars>>

CancelIncoming ==
    /\ "cancel" \in Faults
    /\ CanCancelUnclaimedIncoming
    /\ CancelUnclaimedIncoming
    /\ UNCHANGED <<outVars, linkVars, net, taskVars, requestVars, wireVars, bodyVars,
                   decideVars>>

\* Every second, and on the flush command, while there is a connection.
SendNotice(side, notice) ==
    /\ link
    /\ NoticeOf(side, notice) # {}
    /\ net' = net \union NoticeOf(side, notice)
    /\ UNCHANGED <<outVars, inVars, linkVars, taskVars, requestVars, wireVars, bodyVars,
                   decideVars>>

\* Mutant: a notice that finds nothing to end is not acknowledged.
ReceiverHearsNewEnd(status) ==
    /\ Terminated("sender", status) \in net
    /\ RemoteEndsIncoming(status)
    /\ net' = (net \ {Terminated("sender", status)})
                  \union (IF inStatus \in Open THEN Sent({TerminalAck("sender")}) ELSE {})
    /\ UNCHANGED <<outVars, linkVars, taskVars, requestVars, wireVars, bodyVars, decideVars>>

\* The notice is acknowledged whether or not it found a row to end.
ReceiverHearsEnd(status) ==
    /\ Terminated("sender", status) \in net
    /\ RemoteEndsIncoming(status)
    /\ net' = (net \ {Terminated("sender", status)}) \union Sent({TerminalAck("sender")})
    /\ UNCHANGED <<outVars, linkVars, taskVars, requestVars, wireVars, bodyVars, decideVars>>

SenderHearsEnd(status) ==
    /\ Terminated("receiver", status) \in net
    /\ RemoteEndsOutgoing(status)
    /\ net' = (net \ {Terminated("receiver", status)}) \union Sent({TerminalAck("receiver")})
    /\ UNCHANGED <<inVars, linkVars, taskVars, requestVars, wireVars, bodyVars, decideVars>>

OutNoticeAcknowledged ==
    /\ link
    /\ TerminalAck("sender") \in net
    /\ net' = net \ {TerminalAck("sender")}
    /\ AcknowledgeOutNotice
    /\ UNCHANGED <<inVars, linkVars, taskVars, requestVars, wireVars, bodyVars, decideVars>>

InNoticeAcknowledged ==
    /\ link
    /\ TerminalAck("receiver") \in net
    /\ net' = net \ {TerminalAck("receiver")}
    /\ AcknowledgeInNotice
    /\ UNCHANGED <<outVars, linkVars, taskVars, requestVars, wireVars, bodyVars, decideVars>>

-----------------------------------------------------------------------------
(* The connection and the processes.                                       *)

Answers == {"resume", "unresumable", "terminalAck"}

\* Of the requests under way, some were already read from the connection
\* and will still be handled; no answer is.
Survivors == {ms \in SUBSET net : \A m \in ms : m.type \notin Answers}

AllStreamsDown == streamUp' = [s \in Streams |-> FALSE]

LoseConnection ==
    /\ link
    /\ drops < MaxDrops
    /\ drops' = drops + 1
    /\ link' = FALSE
    /\ hellos' = 0
    /\ net' \in Survivors
    /\ AllStreamsDown
    /\ UNCHANGED <<outVars, inVars, restarts, taskVars, requestVars, wireFrame,
                   wireAck, bodyVars, decideVars>>

\* A connection is closed after 120 seconds without a stream or a request,
\* longer than any command or task takes to its next use of it.
IdleClose ==
    /\ link
    /\ sendPc = "idle"
    /\ resolveQueued = "none"
    /\ hellos = 0
    /\ net = {}
    /\ ~offerPending
    /\ pendingQuery = 0
    /\ pendingDecision = 0
    /\ outNotice = "none"
    /\ inNotice = "none"
    /\ \A s \in Streams : ~streamUp[s]
    /\ link' = FALSE
    /\ UNCHANGED <<outVars, inVars, hellos, drops, restarts, net, taskVars, requestVars,
                   wireVars, bodyVars, decideVars>>

\* The failures of the old connection's requests are reported first.
Reconnect ==
    /\ ~link
    /\ ~offerPending
    /\ pendingQuery = 0
    /\ pendingDecision = 0
    /\ link' = TRUE
    /\ hellos' = HellosPerLink
    /\ net' = {}
    /\ UNCHANGED <<outVars, inVars, drops, restarts, taskVars, requestVars, wireVars,
                   bodyVars, decideVars>>

ToReceiver(m) ==
    \/ m.type \in {"offer", "query"}
    \/ m.type = "terminal" /\ m.from = "sender"

RestartSender ==
    /\ restarts < MaxRestarts
    /\ restarts' = restarts + 1
    /\ ResetOutgoing
    /\ link' = FALSE
    /\ hellos' = 0
    /\ net' \in {ms \in Survivors : \A m \in ms : ToReceiver(m)}
    /\ sendPc' = "idle"
    /\ sendToken' = 0
    /\ sendStream' = 0
    /\ sendPos' = 0
    /\ offerPending' = FALSE
    /\ pendingQuery' = 0
    /\ pendingExpected' = 0
    /\ AllStreamsDown
    /\ UNCHANGED <<inVars, drops, wireFrame, wireAck, bodyVars,
                   decideVars>>

RestartReceiver ==
    /\ restarts < MaxRestarts
    /\ restarts' = restarts + 1
    /\ ResetIncoming
    /\ link' = FALSE
    /\ hellos' = 0
    /\ net' \in {ms \in Survivors : \A m \in ms : ~ToReceiver(m)}
    /\ recvPc' = [s \in Streams |-> "none"]
    /\ recvPos' = [s \in Streams |-> 0]
    /\ resolveQueued' = "none"
    /\ pendingDecision' = 0
    /\ startTimer' = 0
    /\ AllStreamsDown
    /\ wireFrame' = [s \in Streams |-> 0]
    /\ UNCHANGED <<outVars, drops, taskVars, requestVars, wireAck>>

-----------------------------------------------------------------------------

DecisionSteps ==
    \/ ReceiveManualOffer \/ ReceiveAutomaticOffer \/ OfferAnswered \/ FailOffer
    \/ Accept \/ SubmitDecision \/ SubmitFails \/ Reject \/ SubmitReject
    \/ \E t \in 1..MaxDecisions : ReceiveAcceptance(t)
    \/ ReceiveRejection \/ DecisionAnswered \/ FailDecision \/ StartTimeout

SendTask ==
    \/ ClaimFirstStream \/ OpenStream \/ OpenFails \/ SendChunk \/ SourceChanged
    \/ ReceiveAck \/ SendStreamBreaks \/ FinishFirst \/ MarkDelivered \/ FinishResumed

ReceiveTask(s) ==
    \/ Authorize(s) \/ ClaimRefused(s) \/ ClaimThenPause(s) \/ ClaimStream(s)
    \/ WriteChunk(s) \/ CommitReceivedChunk(s) \/ IntegrityFails(s)
    \/ ReceiveStreamBreaks(s) \/ Publish(s) \/ FinalizeFails(s) \/ Complete(s)
    \/ RecordReceived(s) \/ CleanupFails(s) \/ AcknowledgeFile(s) \/ FinalAckFails(s)

ResumeSteps ==
    \/ RecordHello
    \/ \E t \in Tokens : ReceiveQuery(t)
    \/ \E t \in Tokens, state \in {"receiving", "completed"}, offset \in 0..Chunks :
           ReceiveResume(t, state, offset)
    \/ \E t \in Tokens : ReceiveUnresumable(t)
    \/ FailQuery

NoticeSteps ==
    \/ CancelOutgoing \/ CancelIncoming
    \/ SendNotice("sender", outNotice) \/ SendNotice("receiver", inNotice)
    \/ \E status \in Aborted : ReceiverHearsEnd(status) \/ SenderHearsEnd(status)
    \/ OutNoticeAcknowledged \/ InNoticeAcknowledged

Environment == LoseConnection \/ IdleClose \/ Reconnect \/ RestartSender \/ RestartReceiver

Next ==
    \/ DecisionSteps
    \/ SendTask
    \/ \E s \in Streams : ReceiveTask(s)
    \/ ResumeSteps
    \/ NoticeSteps
    \/ Environment

Spec == Init /\ [][Next]_vars

(* Fairness: the loops, the tasks and the timers of both processes keep    *)
(* running, and discovery dials a lost friend again (flush_due_discovery_  *)
(* dials).  Users, faults, lost connections and restarts are never due.    *)
LoopFairness ==
    /\ WF_vars(ReceiveManualOffer)
    /\ WF_vars(ReceiveAutomaticOffer)
    /\ WF_vars(OfferAnswered)
    /\ WF_vars(FailOffer)
    /\ WF_vars(SubmitDecision)
    /\ WF_vars(SubmitFails)
    /\ WF_vars(SubmitReject)
    /\ WF_vars(\E t \in 1..MaxDecisions : ReceiveAcceptance(t))
    /\ WF_vars(ReceiveRejection)
    /\ WF_vars(DecisionAnswered)
    /\ WF_vars(FailDecision)
    /\ WF_vars(StartTimeout)
    /\ WF_vars(RecordHello)
    /\ WF_vars(\E t \in Tokens : ReceiveQuery(t))
    /\ WF_vars(\E t \in Tokens, state \in {"receiving", "completed"}, offset \in 0..Chunks :
                   ReceiveResume(t, state, offset))
    /\ WF_vars(\E t \in Tokens : ReceiveUnresumable(t))
    /\ WF_vars(FailQuery)

NoticeFairness ==
    /\ WF_vars(SendNotice("sender", outNotice))
    /\ WF_vars(SendNotice("receiver", inNotice))
    /\ WF_vars(\E status \in Aborted : ReceiverHearsEnd(status))
    /\ WF_vars(\E status \in Aborted : SenderHearsEnd(status))
    /\ WF_vars(OutNoticeAcknowledged)
    /\ WF_vars(InNoticeAcknowledged)

TaskFairness ==
    /\ WF_vars(SendTask)
    /\ \A s \in Streams : WF_vars(ReceiveTask(s))

FairSpec ==
    /\ Spec
    /\ LoopFairness
    /\ NoticeFairness
    /\ TaskFairness
    /\ WF_vars(IdleClose)
    /\ WF_vars(Reconnect)

-----------------------------------------------------------------------------
(* Safety.                                                                 *)

Owning == Body \union {"record", "ackFinal"}

\* The claim keeps the streams of one transfer apart: two receiving tasks
\* never work on the same file, also when a stream of a new connection
\* arrives while the task of the old one is still writing, and the
\* receiver's row is claimed exactly while some task is there to release it.
OneReceiver ==
    /\ \A s, t \in Streams : recvPc[s] \in Owning /\ recvPc[t] \in Owning => s = t
    /\ receiveClaimed => \E s \in Streams : recvPc[s] \in Body

\* The sender's claim and its query token are never left behind: a claim
\* without its task, or a token whose answer nobody awaits, would keep a
\* paused transfer from ever being resumed.
NothingLeftBehind ==
    /\ sendClaimed => sendPc \in {"open", "send", "await", "finish"}
    /\ outStatus = "paused" /\ queryToken # 0 => pendingQuery = queryToken

\* What the sender was told is kept: unless a disk loses data, the sender
\* never counts a chunk the receiver has not committed, and the receiver
\* never counts one that is not synchronised to its file.
AcknowledgedIsDurable ==
    "diskDamage" \notin Faults =>
        /\ acked <= committed
        /\ inStatus \in {"transferring", "paused"} => committed <= synced

\* The sender reports success, on the row or on the chat message, only when
\* the receiver has completed the row and put the file in its place.
CompletionAgreement ==
    outStatus = "completed" \/ outMessage = "delivered" =>
        inStatus = "completed" /\ published

\* No abort is lost: when one side has aborted and its notice is no longer
\* queued, the other has stopped too.  The receiver may still have an offer
\* that arrived after the notice, but serves no stream for it.
AbortReachesPeer ==
    /\ inStatus \in Aborted /\ inNotice = "none" => outStatus \in Aborted
    /\ outStatus \in Aborted /\ outNotice = "none" => ~receiveClaimed

\* An end is final: neither row leaves a terminal status, whatever stale
\* task, late message or restart comes after it, and a completed file stays.
EndIsFinal ==
    [][/\ outStatus \in Terminal => outStatus' = outStatus
       /\ inStatus \in Terminal => inStatus' = inStatus
       /\ inStatus = "completed" => published']_vars

\* While the receiver runs, its progress never falls: a late stream, a stale
\* decision or a start timeout never takes a committed chunk back.
ProgressIsKept ==
    [][restarts' = restarts => committed <= committed']_vars

\* The answer that the file is complete always finds its query standing and
\* completes the paused row: no other step can have moved the row since.
CompleteAnswerCompletes ==
    [][\A t \in Tokens :
          outStatus = "paused" /\ ReceiveResume(t, "completed", Chunks)
              => outStatus' = "completed"]_vars

-----------------------------------------------------------------------------
(* The contract with the two users.                                        *)

Verdict(status) ==
    IF status = "completed" THEN "completed"
    ELSE IF status \in Aborted THEN "aborted" ELSE "open"

Contract == INSTANCE TransferContract WITH
    sender <- Verdict(outStatus),
    receiver <- Verdict(inStatus),
    stored <- committed,
    shown <- acked

\* The protocol, with its tokens, claims, retries and restarts, implements
\* the contract: the receiver completes only with every chunk stored, the
\* sender only after the receiver, and the verdicts are final.
ImplementsContract == Contract!Spec

-----------------------------------------------------------------------------
(* Liveness.                                                               *)

\* Every sending task ends.  It reads its acknowledgements without a
\* timeout, so this depends on what the receiving task does.
SendTaskEnds == sendPc # "idle" ~> sendPc = "idle"

\* A lost connection gives the receiver's claim back.
ClaimIsReleased == receiveClaimed /\ ~link ~> ~receiveClaimed

\* Every notice is delivered and acknowledged, however often a connection
\* or a process is lost; AbortReachesPeer says what that means to the peer.
NoticeDelivered ==
    /\ outNotice # "none" ~> outNotice = "none"
    /\ inNotice # "none" ~> inNotice = "none"

\* A transfer the sender has started is completed or aborted, through lost
\* connections and restarts of either process: whatever the resume query
\* races with, a later connection asks again.
StartedTransferEnds ==
    outStatus \in {"transferring", "paused"} ~> outStatus \in Terminal

\* Without lost connections, restarts and cancellations, an automatically
\* accepted transfer comes to an end on both sides, and to the same one, in
\* the rows and in the chat.
BothSidesSettle ==
    [](drops = 0 /\ restarts = 0 /\ "cancelled" \notin {outStatus, inStatus}) =>
        <>[](\/ outStatus = "completed" /\ inStatus = "completed"
                /\ outMessage = "delivered" /\ chatRecord
             \/ outStatus \in Aborted /\ inStatus \in Aborted /\ outMessage = "failed")

-----------------------------------------------------------------------------
(* What the documents promise and the code does not keep.                  *)

\* README and the row's own error text: a transfer paused by a restart waits
\* for its automatic resumption.
PausedReceiveEnds == inStatus = "paused" ~> inStatus # "paused"

\* README: a received file can be opened from the chat.
ReceivedIsRecorded ==
    inStatus = "completed" /\ (\A s \in Streams : recvPc[s] # "record") => chatRecord

=============================================================================
