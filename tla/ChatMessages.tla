---------------------------- MODULE ChatMessages ----------------------------
(***************************************************************************)
(* The text messages one device sends to a friend: the row of each message *)
(* in the sender's database, the command channel to its event loop, the    *)
(* requests in flight, and the rows of the friend who receives them.       *)
(*                                                                         *)
(* A command stores the row first and queues the request afterwards; the   *)
(* answer, a failure, or the next start decides the row.  A message that   *)
(* failed may have arrived, and is sent again under the same number.       *)
(***************************************************************************)
EXTENDS Naturals, FiniteSets, Sequences

CONSTANTS
    Messages,      \* the texts the user writes
    ChannelSize,   \* room of the command channel (128 in the code)
    MaxAttempts,   \* bound: requests sent over the whole run
    MaxRestarts    \* bound: starts after the first one

VARIABLES
    row,        \* the status of each message in the sender's database
    refused,    \* messages whose last retry did not get into the channel
    queue,      \* the command channel
    flight,     \* requests under way, and answers to them
    attempts,   \* requests sent so far
    running,    \* the event loop of the sender runs
    connected,  \* the loop holds a connection to the friend
    online,     \* the sender's database shows the friend as reachable
    friends,    \* the receiver has the sender as a friend
    inbox,      \* messages in the receiver's database
    announced,  \* how often each message was announced to the receiver's user
    restarts

vars == <<row, refused, queue, flight, attempts, running, connected, online, friends,
          inbox, announced, restarts>>

sender == <<row, refused, queue, running>>
receiver == <<friends, inbox, announced>>
link == <<connected, online>>

Status == {"none", "sending", "delivered", "failed"}
Leg == {"request", "accepted", "rejected"}

TypeOK ==
    /\ row \in [Messages -> Status]
    /\ refused \subseteq Messages
    /\ queue \in Seq(Messages) /\ Len(queue) <= ChannelSize
    /\ flight \subseteq [number : 1..attempts, message : Messages, leg : Leg, awaited : BOOLEAN]
    /\ attempts \in 0..MaxAttempts
    /\ {running, connected, online, friends} \subseteq BOOLEAN
    /\ inbox \subseteq Messages
    /\ announced \in [Messages -> Nat]
    /\ restarts \in 0..MaxRestarts

Init ==
    /\ row = [m \in Messages |-> "none"]
    /\ refused = {} /\ queue = <<>> /\ flight = {} /\ attempts = 0
    /\ running = TRUE /\ connected = TRUE /\ online = TRUE
    /\ friends \in BOOLEAN
    /\ inbox = {} /\ announced = [m \in Messages |-> 0]
    /\ restarts = 0

(***************************************************************************)
(* The channel takes a command only while the loop runs and there is room. *)
(***************************************************************************)
HasRoom == running /\ Len(queue) < ChannelSize

-----------------------------------------------------------------------------
(***************************************************************************)
(* The user's commands.                                                    *)
(***************************************************************************)
\* require_online_peer: what the database says, not what the loop knows.
CanSend == online

\* The row is stored as being sent, and failed at once if the channel refuses.
SendText(m) ==
    /\ CanSend
    /\ row[m] = "none"
    /\ \/ HasRoom /\ row' = [row EXCEPT ![m] = "sending"] /\ queue' = Append(queue, m)
       \/ ~HasRoom /\ row' = [row EXCEPT ![m] = "failed"] /\ queue' = queue
    /\ UNCHANGED <<refused, running, flight, attempts, link, receiver, restarts>>

\* The command tests neither the status of the row nor whether a request is under
\* way; a full channel leaves the row as it was just written.
RetryText(m) ==
    /\ CanSend
    /\ row[m] # "none"
    /\ row' = [row EXCEPT ![m] = "sending"]
    /\ \/ HasRoom /\ queue' = Append(queue, m) /\ refused' = refused \ {m}
       \/ ~HasRoom /\ queue' = queue /\ refused' = refused \cup {m}
    /\ UNCHANGED <<running, flight, attempts, link, receiver, restarts>>

-----------------------------------------------------------------------------
(***************************************************************************)
(* The sender's event loop.                                                *)
(***************************************************************************)
Request(m) == [number |-> attempts + 1, message |-> m, leg |-> "request", awaited |-> TRUE]

\* Mutant: the message is shown as delivered as soon as its request is sent.
HandleSendOptimistic ==
    /\ running /\ queue # <<>>
    /\ queue' = Tail(queue)
    /\ \/ /\ connected /\ attempts < MaxAttempts
          /\ flight' = flight \cup {Request(Head(queue))} /\ attempts' = attempts + 1
          /\ row' = [row EXCEPT ![Head(queue)] = "delivered"]
       \/ /\ ~connected
          /\ row' = [row EXCEPT ![Head(queue)] = "failed"]
          /\ UNCHANGED <<flight, attempts>>
    /\ UNCHANGED <<refused, running, link, receiver, restarts>>

HandleSend ==
    /\ running /\ queue # <<>>
    /\ queue' = Tail(queue)
    /\ \/ /\ connected /\ attempts < MaxAttempts
          /\ flight' = flight \cup {Request(Head(queue))} /\ attempts' = attempts + 1
          /\ row' = row
       \/ /\ ~connected
          /\ row' = [row EXCEPT ![Head(queue)] = "failed"]
          /\ UNCHANGED <<flight, attempts>>
    /\ UNCHANGED <<refused, running, link, receiver, restarts>>

\* The answer to a request the loop still waits for.
HandleAnswer(f) ==
    /\ running /\ f.awaited /\ f.leg # "request"
    /\ row' = [row EXCEPT ![f.message] = IF f.leg = "accepted" THEN "delivered" ELSE "failed"]
    /\ flight' = flight \ {f}
    /\ UNCHANGED <<refused, queue, attempts, running, link, receiver, restarts>>

\* A timeout or a lost connection gives the request up; it may still arrive, and an
\* answer that is under way is dropped.
HandleOutboundFailure(f) ==
    /\ running /\ f.awaited
    /\ row' = [row EXCEPT ![f.message] = "failed"]
    /\ flight' = (flight \ {f}) \cup
                 (IF f.leg = "request" THEN {[f EXCEPT !.awaited = FALSE]} ELSE {})
    /\ UNCHANGED <<refused, queue, attempts, running, link, receiver, restarts>>

-----------------------------------------------------------------------------
(***************************************************************************)
(* The receiver stores a message once and announces it when it is new.     *)
(***************************************************************************)
HandleTextMessage(f) ==
    /\ f.leg = "request"
    /\ inbox' = IF friends THEN inbox \cup {f.message} ELSE inbox
    /\ announced' = IF friends /\ f.message \notin inbox
                    THEN [announced EXCEPT ![f.message] = @ + 1] ELSE announced
    /\ flight' = (flight \ {f}) \cup
                 (IF f.awaited
                  THEN {[f EXCEPT !.leg = IF friends THEN "accepted" ELSE "rejected"]} ELSE {})
    /\ UNCHANGED <<sender, attempts, link, friends, restarts>>

\* A request that nobody waits for any more is lost with its connection.
LoseRequest(f) ==
    /\ f.leg = "request" /\ ~f.awaited
    /\ flight' = flight \ {f}
    /\ UNCHANGED <<sender, attempts, link, receiver, restarts>>

BecomeFriend ==
    /\ ~friends /\ friends' = TRUE
    /\ UNCHANGED <<sender, flight, attempts, link, inbox, announced, restarts>>

-----------------------------------------------------------------------------
(***************************************************************************)
(* Connections, and the life of the sender's process.                      *)
(***************************************************************************)
Connect ==
    /\ running /\ ~connected
    /\ connected' = TRUE /\ online' = TRUE
    /\ UNCHANGED <<sender, flight, attempts, receiver, restarts>>

Disconnect ==
    /\ running /\ connected /\ connected' = FALSE
    /\ UNCHANGED <<sender, flight, attempts, online, receiver, restarts>>

MarkOffline ==
    /\ running /\ ~connected /\ online /\ online' = FALSE
    /\ UNCHANGED <<sender, flight, attempts, connected, receiver, restarts>>

\* What the process forgets of its requests when it ends.
Forgotten == {[f EXCEPT !.awaited = FALSE] : f \in {g \in flight : g.leg = "request"}}

\* The loop returns an error: commands are refused from now on.
StopLoop ==
    /\ running /\ running' = FALSE
    /\ queue' = <<>> /\ flight' = Forgotten /\ connected' = FALSE
    /\ UNCHANGED <<row, refused, attempts, online, receiver, restarts>>

ResetMessages == [m \in Messages |-> IF row[m] = "sending" THEN "failed" ELSE row[m]]

Restart ==
    /\ restarts < MaxRestarts /\ restarts' = restarts + 1
    /\ row' = ResetMessages
    /\ queue' = <<>> /\ flight' = Forgotten /\ refused' = {}
    /\ running' = TRUE /\ connected' = FALSE /\ online' = FALSE
    /\ UNCHANGED <<attempts, receiver>>

Next ==
    \/ \E m \in Messages : SendText(m) \/ RetryText(m)
    \/ HandleSend
    \/ \E f \in flight : \/ HandleAnswer(f) \/ HandleOutboundFailure(f)
                         \/ HandleTextMessage(f) \/ LoseRequest(f)
    \/ BecomeFriend \/ Connect \/ Disconnect \/ MarkOffline \/ StopLoop \/ Restart

Spec == Init /\ [][Next]_vars

-----------------------------------------------------------------------------
\* Something under way will still decide the row of this message.
UnderWay(m) ==
    \/ \E i \in DOMAIN queue : queue[i] = m
    \/ \E f \in flight : f.message = m /\ f.awaited

\* What the sender is shown agrees with what happened: a message shown as delivered
\* is in the friend's database, one shown as being sent is queued or under way unless
\* the loop has stopped or its last retry was refused, and however often a message is
\* sent the friend is told of it once (send_text, retry_text, handle_inbound_request,
\* handle_outbound_response, handle_outbound_failure, reset_ephemeral_state).
ChatIsHonest ==
    \A m \in Messages :
        /\ row[m] = "delivered" => m \in inbox
        /\ row[m] = "sending" /\ running => UnderWay(m) \/ m \in refused
        /\ announced[m] = (IF m \in inbox THEN 1 ELSE 0)

\* Why it is: a request that was accepted is in the friend's database before its answer
\* leaves, and an answer is always one the loop still waits for.
ChatInv ==
    /\ TypeOK
    /\ \A f \in flight :
        /\ f.leg = "accepted" => f.message \in inbox
        /\ f.leg # "request" => f.awaited
    /\ ChatIsHonest
=============================================================================
