----------------------------- MODULE Friendship -----------------------------
(***************************************************************************)
(* Friend requests between devices: the three tables each device keeps,    *)
(* the user's two commands, and the network loop that sends requests and   *)
(* decisions, answers them, and sends a queued decision again at every     *)
(* Hello until it is answered.                                             *)
(*                                                                         *)
(* The commands of a device run one at a time, beside its loop; they share *)
(* the tables and the command channel.  A control request is in `net`      *)
(* until the other loop takes it, its answer until the asking loop does;   *)
(* nothing is ordered.  The loop's count of connections follows `links`:   *)
(* what is sent after the loss and before the loop hears of it is lost as  *)
(* if it had been sent before.                                             *)
(***************************************************************************)
EXTENDS Sequences, Integers, FiniteSets

CONSTANTS
    Peers,         \* the devices
    Requests,      \* request identifiers; each is drawn once
    RateLimit,     \* FRIEND_REQUEST_LIMIT
    ChannelSize,   \* commands the channel to the loop holds
    MaxFaults      \* bound: lost connections, timeouts and restarts in all

ASSUME LimitsAssumption ==
    /\ RateLimit \in Nat \ {0}
    /\ ChannelSize \in Nat \ {0}
    /\ MaxFaults \in Nat

VARIABLES
    rows,        \* rows[p][r]: table friend_requests
    friends,     \* friends[p]: table friends
    decisions,   \* decisions[p][r]: table pending_friend_decisions
    online,      \* online[p]: the peers p may show as online
    command,     \* command[p]: the request send_friend_request is about to store
    queue,       \* queue[p]: the channel to the network loop
    running,     \* running[p]: does the loop run?
    pending,     \* pending[p]: control requests whose answer is awaited
    recent,      \* recent[p][q]: requests from q within the rate window
    links,       \* the pairs of devices that are connected
    helloDue,    \* <<p, q>>: p has q's Hello on this connection to come
    net,         \* control requests and answers under way
    asked,       \* history: who asked whom in each request
    agreed,      \* history: requests whose asked user has accepted
    faults       \* faults so far

tableVars == <<rows, friends, decisions>>
loopVars == <<queue, running, pending, recent>>
lineVars == <<links, helloDue, net>>
historyVars == <<asked, agreed>>
vars == <<tableVars, online, command, loopVars, lineVars, historyVars, faults>>

-----------------------------------------------------------------------------

NoAsk == <<>>
Idle == "idle"

NoRow == [status |-> "none"]
Outcomes == {"accepted", "rejected"}
Row(peer, direction, status) ==
    [peer |-> peer, direction |-> direction, status |-> status]
Rows == {NoRow} \union
    [peer : Peers, direction : {"outgoing", "incoming"},
     status : {"pending"} \union Outcomes]

Send(q, r) == [op |-> "send", peer |-> q, id |-> r]
Resolve(q) == [op |-> "resolve", peer |-> q]
Commands == [op : {"send"}, peer : Peers, id : Requests]
                \union [op : {"resolve"}, peer : Peers]

\* The line of a message is forgotten when its sender has given it up, and
\* closed when the connection went after the taker had read it.
Request(p, q, r) ==
    [type |-> "request", from |-> p, to |-> q, id |-> r, line |-> "open"]
Decision(p, q, r, outcome) ==
    [type |-> "decision", from |-> p, to |-> q, id |-> r, line |-> "open",
     outcome |-> outcome]
Answer(p, q, type, r, ok) ==
    [type |-> "answer", from |-> p, to |-> q, id |-> r, line |-> "open",
     of |-> type, ok |-> ok]
Lines == {"open", "forgotten", "closed"}
Messages ==
    [type : {"request"}, from : Peers, to : Peers, id : Requests, line : Lines]
        \union [type : {"decision"}, from : Peers, to : Peers, id : Requests,
                line : Lines, outcome : Outcomes]
        \union [type : {"answer"}, from : Peers, to : Peers, id : Requests,
                line : {"open"}, of : {"request", "decision"}, ok : BOOLEAN]

Await(type, q, r) == [type |-> type, peer |-> q, id |-> r]
Awaits == [type : {"request", "decision"}, peer : Peers, id : Requests]

Pairs == {{p, q} : p \in Peers, q \in Peers} \ {{p} : p \in Peers}
Linked(p, q) == {p, q} \in links
Outgoing(p, q, r, status) == rows[p][r] = Row(q, "outgoing", status)
Incoming(p, q, r, status) == rows[p][r] = Row(q, "incoming", status)

Fault ==
    /\ faults < MaxFaults
    /\ faults' = faults + 1

\* Every variable holds what its table, channel or map can hold.
TypeOK ==
    /\ rows \in [Peers -> [Requests -> Rows]]
    /\ friends \in [Peers -> SUBSET Peers]
    /\ decisions \in [Peers -> [Requests -> {"none"} \union Outcomes]]
    /\ online \in [Peers -> SUBSET Peers]
    /\ command \in [Peers -> {Idle} \union Requests]
    /\ queue \in [Peers -> Seq(Commands)]
    /\ \A p \in Peers : Len(queue[p]) <= ChannelSize
    /\ running \in [Peers -> BOOLEAN]
    /\ pending \in [Peers -> SUBSET Awaits]
    /\ recent \in [Peers -> [Peers -> 0..RateLimit]]
    /\ links \subseteq Pairs
    /\ helloDue \subseteq Peers \X Peers
    /\ net \subseteq Messages
    /\ asked \in [Requests -> {NoAsk} \union (Peers \X Peers)]
    /\ agreed \subseteq Requests
    /\ faults \in 0..MaxFaults

Init ==
    /\ rows = [p \in Peers |-> [r \in Requests |-> NoRow]]
    /\ friends = [p \in Peers |-> {}]
    /\ decisions = [p \in Peers |-> [r \in Requests |-> "none"]]
    /\ online = [p \in Peers |-> {}]
    /\ command = [p \in Peers |-> Idle]
    /\ queue = [p \in Peers |-> <<>>]
    /\ running = [p \in Peers |-> TRUE]
    /\ pending = [p \in Peers |-> {}]
    /\ recent = [p \in Peers |-> [q \in Peers |-> 0]]
    /\ links = {}
    /\ helloDue = {}
    /\ net = {}
    /\ asked = [r \in Requests |-> NoAsk]
    /\ agreed = {}
    /\ faults = 0

-----------------------------------------------------------------------------
(* The tables: each operator is one transaction on the tables of p.        *)

PutRow(p, r, row) ==
    /\ rows' = [rows EXCEPT ![p][r] = row]
    /\ UNCHANGED <<friends, decisions>>

\* Mutant: the condition on the status is missing.
RemoveOutgoing(p, r) ==
    /\ rows' = IF rows[p][r] # NoRow /\ rows[p][r].direction = "outgoing"
               THEN [rows EXCEPT ![p][r] = NoRow]
               ELSE rows
    /\ UNCHANGED <<friends, decisions>>

RemovePendingOutgoing(p, r) ==
    /\ rows' = IF rows[p][r].status = "pending" /\ rows[p][r].direction = "outgoing"
               THEN [rows EXCEPT ![p][r] = NoRow]
               ELSE rows
    /\ UNCHANGED <<friends, decisions>>

\* A row is resolved once; the same outcome again is no error.
CanResolve(p, r, outcome) == rows[p][r].status \in {"pending", outcome}

\* Mutant: the friend is recorded whatever the outcome.
ResolveAndBefriend(p, r, outcome) ==
    LET row == rows[p][r] IN
    /\ rows' = [rows EXCEPT ![p][r] = [row EXCEPT !.status = outcome]]
    /\ friends' = [friends EXCEPT ![p] = @ \union {row.peer}]
    /\ decisions' = IF row.direction = "incoming"
                    THEN [decisions EXCEPT ![p][r] = outcome]
                    ELSE decisions

\* The decision on an incoming request is queued with it.
ResolveRow(p, r, outcome) ==
    LET row == rows[p][r] IN
    /\ rows' = [rows EXCEPT ![p][r] = [row EXCEPT !.status = outcome]]
    /\ friends' = [friends EXCEPT ![p] =
                       IF outcome = "accepted" THEN @ \union {row.peer} ELSE @]
    /\ decisions' = IF row.direction = "incoming"
                    THEN [decisions EXCEPT ![p][r] = outcome]
                    ELSE decisions

\* Mutant: the request of a friend is stored as pending.
ReconcileAsPending(p, q, r) ==
    /\ q \in friends[p]
    /\ rows' = [rows EXCEPT ![p][r] = Row(q, "incoming", "pending")]
    /\ decisions' = [decisions EXCEPT ![p][r] = "accepted"]
    /\ UNCHANGED friends

\* A friend that asks has lost its half of the friendship: accept at once.
ReconcileExistingFriend(p, q, r) ==
    /\ q \in friends[p]
    /\ rows' = [rows EXCEPT ![p][r] = Row(q, "incoming", "accepted")]
    /\ decisions' = [decisions EXCEPT ![p][r] = "accepted"]
    /\ UNCHANGED friends

\* Mutant: one answer retires every decision queued for the peer.
AcknowledgePeer(p, q, r) ==
    /\ decisions' = [decisions EXCEPT ![p] =
           [s \in Requests |-> IF rows[p][s] # NoRow /\ rows[p][s].peer = q
                               THEN "none" ELSE @[s]]]
    /\ UNCHANGED <<rows, friends>>

AcknowledgeDecision(p, q, r) ==
    /\ decisions' = IF rows[p][r] # NoRow /\ rows[p][r].peer = q
                    THEN [decisions EXCEPT ![p][r] = "none"]
                    ELSE decisions
    /\ UNCHANGED <<rows, friends>>

-----------------------------------------------------------------------------
(* What the loop sends.                                                    *)

\* Mutant: only acceptances are sent.
DueAcceptances(p, q, waiting) ==
    {r \in Requests :
        /\ Linked(p, q)
        /\ decisions'[p][r] = "accepted"
        /\ rows'[p][r].peer = q
        /\ Await("decision", q, r) \notin waiting}

\* The queued decisions for q that are not in flight, after this step's
\* transaction; none is sent without a connection.
Due(p, q, waiting) ==
    {r \in Requests :
        /\ Linked(p, q)
        /\ decisions'[p][r] # "none"
        /\ rows'[p][r].peer = q
        /\ Await("decision", q, r) \notin waiting}

\* The flush of p's decisions for q, with p awaiting `waiting` and `msgs`
\* under way otherwise.
Flush(p, q, waiting, msgs) ==
    LET due == Due(p, q, waiting) IN
    /\ pending' = [pending EXCEPT ![p] =
                       waiting \union {Await("decision", q, r) : r \in due}]
    /\ net' = msgs \union {Decision(p, q, r, decisions'[p][r]) : r \in due}

\* The taken message m is answered, unless nobody waits for the answer.
Answered(p, m, ok) ==
    (net \ {m}) \union
        (IF m.line = "open" THEN {Answer(p, m.from, m.type, m.id, ok)} ELSE {})

\* The links in `cut` go.  What was under way on them is lost, except that
\* a request its taker has already read is still handled; `dead` take none.
Cut(cut, dead) ==
    LET on == {m \in net : {m.from, m.to} \in cut /\ m.line # "closed"}
        gone == {m \in net : m.to \in dead}
    IN /\ links' = links \ cut
       /\ helloDue' = {h \in helloDue : {h[1], h[2]} \notin cut}
       /\ \E read \in SUBSET {m \in on \ gone : m.type # "answer"} :
              net' = (net \ (on \union gone))
                         \union {[m EXCEPT !.line = "closed"] : m \in read}

\* The loop of p is gone, with everything it held in memory.
LoopEnds(p) ==
    /\ Cut({l \in links : p \in l}, {p})
    /\ queue' = [queue EXCEPT ![p] = <<>>]
    /\ pending' = [pending EXCEPT ![p] = {}]
    /\ recent' = [recent EXCEPT ![p] = [q \in Peers |-> 0]]

\* An answer that cannot be sent is an error that leaves the event loop.
LoopStops(p) ==
    /\ LoopEnds(p)
    /\ running' = [running EXCEPT ![p] = FALSE]

-----------------------------------------------------------------------------
(* The user's commands.                                                    *)

\* try_send: the channel may be full, or the loop gone.
CanQueue(p) == running[p] /\ Len(queue[p]) < ChannelSize

\* send_friend_request finds q online and not a friend.
BeginSend(p, q, r) ==
    /\ command[p] = Idle
    /\ p # q
    /\ asked[r] = NoAsk
    /\ q \notin friends[p]
    /\ q \in online[p]
    /\ command' = [command EXCEPT ![p] = r]
    /\ asked' = [asked EXCEPT ![r] = <<p, q>>]
    /\ UNCHANGED <<tableVars, online, loopVars, lineVars, agreed, faults>>

HasPendingOutgoing(p, q) == \E r \in Requests : Outgoing(p, q, r, "pending")

\* It then stores the request and queues it; a request that cannot be
\* queued is removed again.
StoreRequest(p) ==
    LET r == command[p] IN
    /\ r # Idle
    /\ LET q == asked[r][2] IN
       IF CanQueue(p) /\ ~HasPendingOutgoing(p, q)
       THEN /\ PutRow(p, r, Row(q, "outgoing", "pending"))
            /\ queue' = [queue EXCEPT ![p] = Append(@, Send(q, r))]
       ELSE UNCHANGED <<tableVars, queue>>
    /\ command' = [command EXCEPT ![p] = Idle]
    /\ UNCHANGED <<online, running, pending, recent, lineVars, historyVars, faults>>

\* resolve_friend_request: no loop step changes an incoming pending row, so
\* its check, its transaction and its try_send are one step.
ResolveRequest(p, r, outcome) ==
    /\ command[p] = Idle
    /\ rows[p][r].status = "pending"
    /\ rows[p][r].direction = "incoming"
    /\ CanResolve(p, r, outcome)
    /\ ResolveRow(p, r, outcome)
    /\ queue' = IF CanQueue(p)
                THEN [queue EXCEPT ![p] = Append(@, Resolve(rows[p][r].peer))]
                ELSE queue
    /\ agreed' = IF outcome = "accepted" THEN agreed \union {r} ELSE agreed
    /\ UNCHANGED <<online, command, running, pending, recent, lineVars, asked, faults>>

-----------------------------------------------------------------------------
(* The network loop.                                                       *)

\* A request whose peer is not connected is dropped with an error event:
\* handle_command_failure does nothing for it.
TakeCommand(p) ==
    /\ running[p]
    /\ queue[p] # <<>>
    /\ queue' = [queue EXCEPT ![p] = Tail(@)]
    /\ LET c == Head(queue[p]) IN
       \/ /\ c.op = "send"
          /\ Linked(p, c.peer)
          /\ net' = net \union {Request(p, c.peer, c.id)}
          /\ pending' = [pending EXCEPT ![p] = @ \union {Await("request", c.peer, c.id)}]
          /\ UNCHANGED tableVars
       \/ /\ c.op = "send"
          /\ ~Linked(p, c.peer)
          /\ UNCHANGED <<tableVars, net, pending>>
       \/ /\ c.op = "resolve"
          /\ UNCHANGED tableVars
          /\ Flush(p, c.peer, pending[p], net)
    /\ UNCHANGED <<online, command, running, recent, links, helloDue, historyVars, faults>>

\* The connection of a taken message has gone: its answer stops the loop.
TakenTooLate(p, m) ==
    /\ m.line = "closed"
    /\ LoopStops(p)

Limited(p, q) == recent[p][q] = RateLimit

\* The taken request m is answered, after a flush if its sender is a friend.
RequestTaken(p, m, ok, flushed) ==
    \/ /\ m.line # "closed"
       /\ recent' = IF Limited(p, m.from) THEN recent
                    ELSE [recent EXCEPT ![p][m.from] = @ + 1]
       /\ IF flushed
          THEN Flush(p, m.from, pending[p], Answered(p, m, ok))
          ELSE net' = Answered(p, m, ok) /\ UNCHANGED pending
       /\ UNCHANGED <<queue, running, links, helloDue>>
    \/ TakenTooLate(p, m)

RequestArrives(p, m) ==
    LET q == m.from
        r == m.id
    IN
    /\ running[p]
    /\ m \in net /\ m.to = p /\ m.type = "request"
    /\ \/ /\ Limited(p, q)
          /\ UNCHANGED tableVars
          /\ RequestTaken(p, m, FALSE, FALSE)
       \/ /\ ~Limited(p, q)
          /\ ReconcileExistingFriend(p, q, r)
          /\ RequestTaken(p, m, TRUE, TRUE)
       \/ /\ ~Limited(p, q)
          /\ q \notin friends[p]
          /\ IF rows[p][r] = NoRow
             THEN PutRow(p, r, Row(q, "incoming", "pending"))
             ELSE UNCHANGED tableVars
          /\ RequestTaken(p, m, rows[p][r] = NoRow \/ rows[p][r].peer = q, FALSE)
    /\ UNCHANGED <<online, command, historyVars, faults>>

\* May p take q's decision on r: is it p's own request to q, undecided or
\* decided the same way?
CanTakeDecision(p, q, r, outcome) ==
    /\ rows[p][r] # NoRow
    /\ rows[p][r].peer = q
    /\ rows[p][r].direction = "outgoing"
    /\ CanResolve(p, r, outcome)

DecisionArrives(p, m) ==
    LET ok == CanTakeDecision(p, m.from, m.id, m.outcome) IN
    /\ running[p]
    /\ m \in net /\ m.to = p /\ m.type = "decision"
    /\ IF ok THEN ResolveRow(p, m.id, m.outcome) ELSE UNCHANGED tableVars
    /\ \/ /\ m.line # "closed"
          /\ net' = Answered(p, m, ok)
          /\ UNCHANGED <<loopVars, links, helloDue>>
       \/ TakenTooLate(p, m)
    /\ UNCHANGED <<online, command, historyVars, faults>>

\* A decision is retired by either answer, a request removed by a refusal.
AnswerArrives(p, m) ==
    LET waiting == pending[p] \ {Await(m.of, m.from, m.id)} IN
    /\ running[p]
    /\ m \in net /\ m.to = p /\ m.type = "answer"
    /\ \/ /\ m.of = "request"
          /\ IF m.ok THEN UNCHANGED tableVars ELSE RemovePendingOutgoing(p, m.id)
          /\ pending' = [pending EXCEPT ![p] = waiting]
          /\ net' = net \ {m}
       \/ /\ m.of = "decision"
          /\ AcknowledgeDecision(p, m.from, m.id)
          /\ Flush(p, m.from, waiting, net \ {m})
    /\ UNCHANGED <<online, command, queue, running, recent, links, helloDue,
                   historyVars, faults>>

\* What is under way of the exchange w, if p still waits for it.
UnderWay(p, w) ==
    {m \in net : m.line = "open" /\ m.id = w.id
                    /\ \/ m.type = w.type /\ m.from = p /\ m.to = w.peer
                       \/ m.type = "answer" /\ m.of = w.type
                             /\ m.to = p /\ m.from = w.peer}

\* An outbound failure removes a request; a decision stays queued.
ExchangeFails(p, w) ==
    /\ running[p]
    /\ w \in pending[p]
    /\ pending' = [pending EXCEPT ![p] = @ \ {w}]
    /\ IF w.type = "request"
       THEN RemovePendingOutgoing(p, w.id)
       ELSE UNCHANGED tableVars
    /\ UNCHANGED <<online, command, queue, running, recent, links, helloDue, historyVars>>

\* The connection went with the request or its answer.
LostFails(p, w) ==
    /\ UnderWay(p, w) = {}
    /\ ExchangeFails(p, w)
    /\ UNCHANGED <<net, faults>>

\* The timeout expires first: the request may still be taken, its answer
\* goes nowhere.
TimesOut(p, w) ==
    /\ UnderWay(p, w) # {}
    /\ ExchangeFails(p, w)
    /\ \E late \in SUBSET {m \in UnderWay(p, w) : m.type # "answer"} :
           net' = (net \ UnderWay(p, w))
                      \union {[m EXCEPT !.line = "forgotten"] : m \in late}
    /\ Fault

\* Mutant: the Hello does not send the queued decisions.
RecordHelloOnly(p, q) ==
    /\ running[p]
    /\ <<p, q>> \in helloDue
    /\ helloDue' = helloDue \ {<<p, q>>}
    /\ online' = [online EXCEPT ![p] = @ \union {q}]
    /\ UNCHANGED <<tableVars, command, loopVars, links, net, historyVars, faults>>

\* record_hello, for the Hello of q or its answer.  A peer that went away
\* stays online while a discovered address of it is fresh; when none is, its
\* user only has fewer requests to begin.
RecordHello(p, q) ==
    /\ running[p]
    /\ <<p, q>> \in helloDue
    /\ helloDue' = helloDue \ {<<p, q>>}
    /\ online' = [online EXCEPT ![p] = @ \union {q}]
    /\ UNCHANGED tableVars
    /\ Flush(p, q, pending[p], net)
    /\ UNCHANGED <<command, queue, running, recent, links, historyVars, faults>>

\* The oldest request from q leaves the rate window.
WindowMoves(p, q) ==
    /\ recent[p][q] > 0
    /\ recent' = [recent EXCEPT ![p][q] = @ - 1]
    /\ UNCHANGED <<tableVars, online, command, queue, running, pending, lineVars,
                   historyVars, faults>>

-----------------------------------------------------------------------------
(* Connections and restarts.                                               *)

Connect(l) ==
    /\ l \notin links
    /\ \A p \in l : running[p]
    /\ links' = links \union {l}
    /\ helloDue' = helloDue \union {h \in l \X l : h[1] # h[2]}
    /\ UNCHANGED <<tableVars, online, command, loopVars, net, historyVars, faults>>

\* A connection nothing has used for a while is closed.
IdleCloses(l) ==
    /\ l \in links
    /\ helloDue \intersect (l \X l) = {}
    /\ \A m \in net : {m.from, m.to} = l => m.line # "open"
    /\ Cut({l}, {})
    /\ UNCHANGED <<tableVars, online, command, loopVars, historyVars, faults>>

ConnectionDrops(l) ==
    /\ l \in links
    /\ Cut({l}, {})
    /\ Fault
    /\ UNCHANGED <<tableVars, online, command, loopVars, historyVars>>

\* The tables survive; start-up marks every peer offline.
Restart(p) ==
    /\ Fault
    /\ LoopEnds(p)
    /\ running' = [running EXCEPT ![p] = TRUE]
    /\ command' = [command EXCEPT ![p] = Idle]
    /\ online' = [online EXCEPT ![p] = {}]
    /\ UNCHANGED <<tableVars, historyVars>>

-----------------------------------------------------------------------------

MessageArrives(p) ==
    \E m \in net : RequestArrives(p, m) \/ DecisionArrives(p, m) \/ AnswerArrives(p, m)
FailureArrives(p) == \E w \in pending[p] : LostFails(p, w)
HelloArrives(p) == \E q \in Peers : RecordHello(p, q)
LoopStep(p) == TakeCommand(p) \/ MessageArrives(p) \/ FailureArrives(p) \/ HelloArrives(p)

UserStep(p) ==
    \/ \E q \in Peers, r \in Requests : BeginSend(p, q, r)
    \/ StoreRequest(p)
    \/ \E r \in Requests, outcome \in Outcomes : ResolveRequest(p, r, outcome)

Next ==
    \/ \E p \in Peers : LoopStep(p) \/ UserStep(p) \/ Restart(p)
    \/ \E p \in Peers : \E w \in pending[p] : TimesOut(p, w)
    \/ \E p, q \in Peers : WindowMoves(p, q)
    \/ \E l \in Pairs : Connect(l) \/ IdleCloses(l) \/ ConnectionDrops(l)

Spec == Init /\ [][Next]_vars

\* The loop serves each of its sources of events; discovery connects devices
\* that run; an idle connection is closed.  Users, timeouts and faults owe
\* nothing.
FairSpec ==
    /\ Spec
    /\ \A p \in Peers :
        /\ WF_vars(TakeCommand(p) \/ HelloArrives(p))
        /\ WF_vars(MessageArrives(p))
        /\ WF_vars(FailureArrives(p))
    /\ \A l \in Pairs : WF_vars(Connect(l)) /\ WF_vars(IdleCloses(l))

-----------------------------------------------------------------------------
(* Properties.                                                             *)

\* Both sides tell the same story: a request its asker has as accepted is
\* accepted on the other device and both have each other as friends; one it
\* has as rejected is rejected there (resolve_friend_request, FriendDecision).
SidesAgree ==
    \A p, q \in Peers, r \in Requests :
        /\ Outgoing(p, q, r, "accepted") =>
               /\ Incoming(q, p, r, "accepted")
               /\ q \in friends[p] /\ p \in friends[q]
        /\ Outgoing(p, q, r, "rejected") => Incoming(q, p, r, "rejected")

\* The outbox loses nothing: the outcome of a request is still queued on the
\* device that decided, or has reached the asker, or the asker has removed
\* the request (pending_friend_decisions).
OutcomeQueuedOrKnown ==
    \A p, q \in Peers, r \in Requests, outcome \in Outcomes :
        Incoming(q, p, r, outcome) =>
            \/ decisions[q][r] = outcome
            \/ rows[p][r] = NoRow
            \/ Outgoing(p, q, r, outcome)

\* A resolved request is never reopened, resolved otherwise or removed, and a
\* friend is never lost, by any late answer, failure, retry or restart.
ResolvedIsFinal ==
    [][\A p \in Peers :
           /\ friends[p] \subseteq friends'[p]
           /\ \A r \in Requests :
                  rows[p][r].status \in Outcomes => rows'[p][r] = rows[p][r]]_vars

\* Users become friends only as the contract allows: one asked, the other
\* agreed, and the asker learns last.
Contract == INSTANCE FriendshipContract
ImplementsContract == Contract!Spec

\* A queued decision is delivered or refused in the end, whatever was lost,
\* unless one of the two loops has stopped.
DecisionsDrain ==
    \A p, q \in Peers, r \in Requests :
        (decisions[q][r] # "none" /\ rows[q][r].peer = p)
            ~> (decisions[q][r] = "none" \/ ~running[p] \/ ~running[q])

\* An asker whose request was decided learns the outcome, or has removed the
\* request, unless one of the two loops has stopped.
OutcomeReachesAsker ==
    \A p, q \in Peers, r \in Requests :
        (Outgoing(p, q, r, "pending") /\ rows[q][r].status \in Outcomes)
            ~> (~Outgoing(p, q, r, "pending") \/ ~running[p] \/ ~running[q])

\* A request that was not delivered does not remain falsely pending: while it
\* is pending its delivery is queued or awaited, or the other device has it.
NeverFalselyPending ==
    \A p, q \in Peers, r \in Requests :
        Outgoing(p, q, r, "pending") =>
            \/ \E i \in 1..Len(queue[p]) : queue[p][i] = Send(q, r)
            \/ Await("request", q, r) \in pending[p]
            \/ rows[q][r] # NoRow

\* Accepting a request creates the same friendship on both devices: the
\* asker has it, or the acceptance is still on its way.
FriendshipIsMutual ==
    \A p, q \in Peers : q \in friends[p] =>
        \/ p \in friends[q]
        \/ \E r \in Requests : Incoming(p, q, r, "accepted") /\ decisions[p][r] = "accepted"

=============================================================================
