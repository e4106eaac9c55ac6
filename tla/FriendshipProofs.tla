-------------------------- MODULE FriendshipProofs --------------------------
(***************************************************************************)
(* Theorems about Friendship, for every value of its constants: first that *)
(* its variables have their types, then that a request is sent once and    *)
(* decided once, both sides agree on the outcome, no outcome is lost, and  *)
(* the devices implement FriendshipContract.                               *)
(***************************************************************************)
EXTENDS Friendship, TLAPS

-----------------------------------------------------------------------------
(* What a step leaves of the messages under way.                           *)

\* m is n, or n with another line.
Inherits(m, n) ==
    /\ m.type = n.type
    /\ m.from = n.from
    /\ m.to = n.to
    /\ m.id = n.id
    /\ m.type = "decision" => m.outcome = n.outcome
    /\ m.type = "answer" => m.of = n.of

\* A request is under way at most once, whatever became of its line.
OnlyRequest(msgs) ==
    \A m, n \in msgs : m.type = "request" /\ n.type = "request" /\ m.id = n.id => m = n

\* Every message in new comes from one in old, no request twice.
ComesFrom(new, old) ==
    /\ new \subseteq Messages
    /\ \A m \in new : \E n \in old : Inherits(m, n)
    /\ OnlyRequest(old) => OnlyRequest(new)

\* A message keeps everything but its line when the line is changed.
LEMMA LineChange ==
    ASSUME NEW m \in Messages, m.type # "answer", NEW line \in Lines
    PROVE  /\ [m EXCEPT !.line = line] \in Messages
           /\ Inherits([m EXCEPT !.line = line], m)
           /\ [m EXCEPT !.line = line].line = line
BY DEF Messages, Inherits, Lines

\* A lost connection or a stopped loop adds no message and no second request.
LEMMA CutKeeps ==
    ASSUME net \subseteq Messages, NEW cut, NEW dead, Cut(cut, dead)
    PROVE  ComesFrom(net', net)
<1> DEFINE on == {m \in net : {m.from, m.to} \in cut /\ m.line # "closed"}
           gone == {m \in net : m.to \in dead}
<1>1. PICK read \in SUBSET {m \in on \ gone : m.type # "answer"} :
          net' = (net \ (on \union gone))
                     \union {[m EXCEPT !.line = "closed"] : m \in read}
    BY DEF Cut
<1>2. ASSUME NEW m \in net'
      PROVE  m \in Messages /\ \E n \in net : Inherits(m, n)
    <2>1. CASE m \in net
        BY <2>1 DEF Inherits
    <2>2. CASE m \notin net
        <3>1. PICK n \in read : m = [n EXCEPT !.line = "closed"]
            BY <1>1, <2>2
        <3>2. n \in Messages /\ n.type # "answer" /\ n \in net
            OBVIOUS
        <3> QED BY <3>1, <3>2, LineChange DEF Lines
    <2> QED BY <2>1, <2>2
<1>3. ASSUME OnlyRequest(net), NEW m \in net', NEW n \in net',
             m.type = "request", n.type = "request", m.id = n.id
      PROVE  m = n
    <2> DEFINE From(x, y) ==
            \/ x = y /\ y \notin on
            \/ y \in on /\ x = [y EXCEPT !.line = "closed"]
    <2>1. ASSUME NEW x \in net'
          PROVE  \E y \in net : From(x, y) /\ x.type = y.type /\ x.id = y.id
        <3>1. CASE x \in net \ (on \union gone)
            BY <3>1
        <3>2. CASE x \notin net \ (on \union gone)
            <4>1. PICK y \in read : x = [y EXCEPT !.line = "closed"]
                BY <1>1, <3>2
            <4>2. y \in Messages /\ y.type # "answer" /\ y \in net /\ y \in on
                OBVIOUS
            <4> QED BY <4>1, <4>2, LineChange DEF Lines, Inherits
        <3> QED BY <3>1, <3>2
    <2>2. PICK y \in net : From(m, y) /\ m.type = y.type /\ m.id = y.id
        BY <2>1
    <2>3. PICK z \in net : From(n, z) /\ n.type = z.type /\ n.id = z.id
        BY <2>1
    <2>4. y = z
        BY <1>3, <2>2, <2>3 DEF OnlyRequest
    <2> QED BY <2>2, <2>3, <2>4
<1> QED BY <1>2, <1>3 DEF ComesFrom, OnlyRequest

-----------------------------------------------------------------------------
(* Type correctness.                                                       *)

USE LimitsAssumption

TableTypeOK ==
    /\ rows \in [Peers -> [Requests -> Rows]]
    /\ friends \in [Peers -> SUBSET Peers]
    /\ decisions \in [Peers -> [Requests -> {"none"} \union Outcomes]]

\* A row is a known row once its peer, direction and status are known.
LEMMA RowType ==
    ASSUME NEW q \in Peers, NEW d \in {"outgoing", "incoming"},
           NEW s \in {"pending"} \union Outcomes
    PROVE  /\ Row(q, d, s) \in Rows
           /\ Row(q, d, s) # NoRow
           /\ Row(q, d, s).peer = q
           /\ Row(q, d, s).direction = d
           /\ Row(q, d, s).status = s
BY DEF Row, Rows, NoRow, Outcomes

\* Every row but NoRow has a peer, a direction and a status.
LEMMA RowParts ==
    ASSUME NEW row \in Rows, row # NoRow
    PROVE  /\ row.peer \in Peers
           /\ row.direction \in {"outgoing", "incoming"}
           /\ row.status \in {"pending"} \union Outcomes
           /\ row = Row(row.peer, row.direction, row.status)
           /\ \A s \in {"pending"} \union Outcomes :
                  [row EXCEPT !.status = s] = Row(row.peer, row.direction, s)
BY DEF Row, Rows, NoRow, Outcomes

\* NoRow is in no state a transaction looks for.
LEMMA NoRowStatus == NoRow \in Rows /\ NoRow.status = "none"
BY DEF NoRow, Rows

\* Each transaction keeps the types of the tables.
LEMMA TransactionTypes ==
    ASSUME TableTypeOK, NEW p \in Peers, NEW r \in Requests
    PROVE  /\ \A row \in Rows : PutRow(p, r, row) => TableTypeOK'
           /\ RemovePendingOutgoing(p, r) => TableTypeOK'
           /\ \A outcome \in Outcomes :
                  rows[p][r] # NoRow /\ ResolveRow(p, r, outcome) => TableTypeOK'
           /\ \A q \in Peers :
                  /\ ReconcileExistingFriend(p, q, r) => TableTypeOK'
                  /\ AcknowledgeDecision(p, q, r) => TableTypeOK'
           /\ UNCHANGED tableVars => TableTypeOK'
<1>1. ASSUME NEW row \in Rows, PutRow(p, r, row) PROVE TableTypeOK'
    BY <1>1 DEF PutRow, TableTypeOK
<1>2. ASSUME RemovePendingOutgoing(p, r) PROVE TableTypeOK'
    BY <1>2, NoRowStatus DEF RemovePendingOutgoing, TableTypeOK
<1>3. ASSUME NEW outcome \in Outcomes, rows[p][r] # NoRow, ResolveRow(p, r, outcome)
      PROVE  TableTypeOK'
    <2>1. rows[p][r] \in Rows
        BY DEF TableTypeOK
    <2> DEFINE row == rows[p][r]
    <2>2. row.peer \in Peers /\ [row EXCEPT !.status = outcome] \in Rows
        BY <1>3, <2>1, RowParts, RowType
    <2> QED BY <1>3, <2>2 DEF ResolveRow, TableTypeOK
<1>4. ASSUME NEW q \in Peers, ReconcileExistingFriend(p, q, r) PROVE TableTypeOK'
    BY <1>4, RowType DEF ReconcileExistingFriend, TableTypeOK, Outcomes
<1>5. ASSUME NEW q \in Peers, AcknowledgeDecision(p, q, r) PROVE TableTypeOK'
    BY <1>5 DEF AcknowledgeDecision, TableTypeOK
<1>6. ASSUME UNCHANGED tableVars PROVE TableTypeOK'
    BY <1>6 DEF tableVars, TableTypeOK
<1> QED BY <1>1, <1>2, <1>3, <1>4, <1>5, <1>6

\* The parts of a message.
LEMMA MessageParts ==
    ASSUME NEW m \in Messages
    PROVE  /\ m.from \in Peers /\ m.to \in Peers /\ m.id \in Requests
           /\ m.type \in {"request", "decision", "answer"}
           /\ m.type = "decision" => m.outcome \in Outcomes
           /\ m.type = "answer" => m.of \in {"request", "decision"} /\ m.ok \in BOOLEAN
BY DEF Messages

\* What the loops send are messages, and wait for are exchanges.
LEMMA SentTypes ==
    ASSUME NEW p \in Peers, NEW q \in Peers, NEW r \in Requests
    PROVE  /\ Request(p, q, r) \in Messages
           /\ \A outcome \in Outcomes : Decision(p, q, r, outcome) \in Messages
           /\ \A type \in {"request", "decision"}, ok \in BOOLEAN :
                  Answer(p, q, type, r, ok) \in Messages
           /\ \A type \in {"request", "decision"} : Await(type, q, r) \in Awaits
           /\ Send(q, r) \in Commands
           /\ Resolve(q) \in Commands
BY DEF Request, Decision, Answer, Await, Send, Resolve, Messages, Awaits, Commands, Lines

\* An answer is one more message.
LEMMA AnsweredTypes ==
    ASSUME net \subseteq Messages, NEW p \in Peers, NEW m \in net,
           m.type \in {"request", "decision"}, NEW ok \in BOOLEAN
    PROVE  Answered(p, m, ok) \subseteq Messages
<1>1. Answer(p, m.from, m.type, m.id, ok) \in Messages
    BY MessageParts, SentTypes
<1> QED BY <1>1 DEF Answered

\* A flush sends known decisions and waits for them.
LEMMA FlushTypes ==
    ASSUME pending \in [Peers -> SUBSET Awaits], TableTypeOK',
           NEW p \in Peers, NEW q \in Peers,
           NEW waiting \in SUBSET Awaits, NEW msgs \in SUBSET Messages,
           Flush(p, q, waiting, msgs)
    PROVE  pending' \in [Peers -> SUBSET Awaits] /\ net' \subseteq Messages
<1> DEFINE due == Due(p, q, waiting)
<1>1. due \subseteq Requests
    BY DEF Due
<1>2. \A r \in due : decisions'[p][r] \in Outcomes
    BY <1>1 DEF Due, TableTypeOK
<1>3. \A r \in due : /\ Await("decision", q, r) \in Awaits
                     /\ Decision(p, q, r, decisions'[p][r]) \in Messages
    BY <1>1, <1>2, SentTypes
<1> HIDE DEF due
<1> QED BY <1>3 DEF Flush, due

\* A loop that ends leaves well-typed memory and messages.
LEMMA LoopEndsTypes ==
    ASSUME TypeOK, NEW p \in Peers, LoopEnds(p)
    PROVE  /\ queue' \in [Peers -> Seq(Commands)]
           /\ \A q \in Peers : Len(queue'[q]) <= ChannelSize
           /\ pending' \in [Peers -> SUBSET Awaits]
           /\ recent' \in [Peers -> [Peers -> 0..RateLimit]]
           /\ links' \subseteq Pairs
           /\ helloDue' \subseteq Peers \X Peers
           /\ net' \subseteq Messages
           /\ queue'[p] = <<>>
           /\ \A q \in Peers \ {p} : queue'[q] = queue[q]
<1>1. net' \subseteq Messages
    BY CutKeeps DEF LoopEnds, ComesFrom, TypeOK
<1>2. links' \subseteq Pairs /\ helloDue' \subseteq Peers \X Peers
    BY DEF LoopEnds, Cut, TypeOK
<1>3. /\ queue' \in [Peers -> Seq(Commands)]
      /\ queue'[p] = <<>>
      /\ \A q \in Peers \ {p} : queue'[q] = queue[q]
    BY DEF LoopEnds, TypeOK
<1>4. ASSUME NEW q \in Peers PROVE Len(queue'[q]) <= ChannelSize
    <2>1. Len(<<>>) <= ChannelSize
        OBVIOUS
    <2> QED BY <1>3, <2>1 DEF TypeOK
<1>5. /\ pending' \in [Peers -> SUBSET Awaits]
      /\ recent' \in [Peers -> [Peers -> 0..RateLimit]]
    BY DEF LoopEnds, TypeOK
<1> QED BY <1>1, <1>2, <1>3, <1>4, <1>5

\* A message whose connection has gone stops the loop, cleanly.
LEMMA TakenTooLateTypes ==
    ASSUME TypeOK, NEW p \in Peers, NEW m, TakenTooLate(p, m), TableTypeOK',
           UNCHANGED <<online, command, historyVars, faults>>
    PROVE  TypeOK'
BY LoopEndsTypes DEF TakenTooLate, LoopStops, TypeOK, TableTypeOK, historyVars

\* A command that is under way belongs to a request of its device.
CommandAsked ==
    \A p \in Peers : command[p] # Idle =>
        asked[command[p]] # NoAsk /\ asked[command[p]][1] = p

TypeInv == TypeOK /\ CommandAsked

\* A command that fits into the channel keeps its type and its size.
LEMMA QueueTypes ==
    ASSUME TypeOK, NEW p \in Peers, NEW c \in Commands, CanQueue(p),
           queue' = [queue EXCEPT ![p] = Append(@, c)]
    PROVE  /\ queue' \in [Peers -> Seq(Commands)]
           /\ \A q \in Peers : Len(queue'[q]) <= ChannelSize
<1>1. queue[p] \in Seq(Commands) /\ Len(queue[p]) < ChannelSize
    BY DEF TypeOK, CanQueue
<1>2. Append(queue[p], c) \in Seq(Commands) /\ Len(Append(queue[p], c)) = Len(queue[p]) + 1
    BY <1>1
<1>3. Len(Append(queue[p], c)) <= ChannelSize
    BY <1>1, <1>2
<1> QED BY <1>2, <1>3 DEF TypeOK

\* Each command of the user keeps the types.
LEMMA UserStepTypes ==
    ASSUME TypeInv, NEW p \in Peers, UserStep(p)
    PROVE  TypeOK'
<1> USE DEF TypeInv
<1>1. ASSUME NEW q \in Peers, NEW r \in Requests, BeginSend(p, q, r)
      PROVE  TypeOK'
    BY <1>1 DEF BeginSend, TypeOK, tableVars, loopVars, lineVars
<1>3. CASE StoreRequest(p)
    <2> DEFINE r == command[p]
               q == asked[r][2]
    <2>1. r \in Requests /\ q \in Peers
        BY <1>3 DEF StoreRequest, TypeOK, CommandAsked
    <2>2. TableTypeOK
        BY DEF TableTypeOK, TypeOK
    <2>3. CASE CanQueue(p) /\ ~HasPendingOutgoing(p, q)
        <3>1. PutRow(p, r, Row(q, "outgoing", "pending"))
              /\ queue' = [queue EXCEPT ![p] = Append(@, Send(q, r))]
            BY <1>3, <2>3 DEF StoreRequest
        <3>2. TableTypeOK'
            BY <2>1, <2>2, <3>1, RowType, TransactionTypes
        <3>3. /\ queue' \in [Peers -> Seq(Commands)]
              /\ \A q_1 \in Peers : Len(queue'[q_1]) <= ChannelSize
            BY <2>1, <2>3, <3>1, SentTypes, QueueTypes
        <3> QED BY <1>3, <3>2, <3>3 DEF StoreRequest, TypeOK, TableTypeOK, lineVars, historyVars
    <2>4. CASE ~(CanQueue(p) /\ ~HasPendingOutgoing(p, q))
        BY <1>3, <2>4 DEF StoreRequest, TypeOK, tableVars, lineVars, historyVars
    <2> QED BY <2>3, <2>4
<1>4. ASSUME NEW r \in Requests, NEW outcome \in Outcomes, ResolveRequest(p, r, outcome)
      PROVE  TypeOK'
    <2>1. TableTypeOK /\ rows[p][r] \in Rows /\ rows[p][r] # NoRow
        BY <1>4, NoRowStatus DEF TableTypeOK, TypeOK, ResolveRequest
    <2>2. TableTypeOK'
        BY <1>4, <2>1, TransactionTypes DEF ResolveRequest
    <2>3. Resolve(rows[p][r].peer) \in Commands
        BY <2>1, RowParts, SentTypes
    <2>4. /\ queue' \in [Peers -> Seq(Commands)]
          /\ \A q \in Peers : Len(queue'[q]) <= ChannelSize
        <3>1. CASE CanQueue(p)
            BY <1>4, <2>3, <3>1, QueueTypes DEF ResolveRequest
        <3>2. CASE ~CanQueue(p)
            BY <1>4, <3>2 DEF ResolveRequest, TypeOK
        <3> QED BY <3>1, <3>2
    <2> QED BY <1>4, <2>2, <2>4 DEF ResolveRequest, TypeOK, TableTypeOK, lineVars
<1> QED BY <1>1, <1>3, <1>4 DEF UserStep

\* Taking a command keeps the types.
LEMMA TakeCommandTypes ==
    ASSUME TypeOK, NEW p \in Peers, TakeCommand(p)
    PROVE  TypeOK'
<1> DEFINE c == Head(queue[p])
<1>1. /\ queue[p] \in Seq(Commands) /\ queue[p] # <<>>
      /\ queue' = [queue EXCEPT ![p] = Tail(@)]
    BY DEF TakeCommand, TypeOK
<1>2. c \in Commands /\ Tail(queue[p]) \in Seq(Commands) /\ Len(Tail(queue[p])) <= Len(queue[p])
    BY <1>1
<1>3. /\ queue' \in [Peers -> Seq(Commands)]
      /\ \A q \in Peers : Len(queue'[q]) <= ChannelSize
    <2>1. Len(Tail(queue[p])) <= ChannelSize
        BY <1>1, <1>2 DEF TypeOK
    <2> QED BY <1>1, <1>2, <2>1 DEF TypeOK
<1>4. c.peer \in Peers /\ (c.op = "send" => c.id \in Requests)
    BY <1>2 DEF Commands
<1>5. TableTypeOK'
    BY DEF TakeCommand, TypeOK, TableTypeOK, tableVars
<1>6. pending' \in [Peers -> SUBSET Awaits] /\ net' \subseteq Messages
    <2>1. CASE c.op = "send" /\ Linked(p, c.peer)
        <3>1. /\ net' = net \union {Request(p, c.peer, c.id)}
              /\ pending' = [pending EXCEPT ![p] = @ \union {Await("request", c.peer, c.id)}]
            BY <2>1 DEF TakeCommand
        <3>2. Request(p, c.peer, c.id) \in Messages /\ Await("request", c.peer, c.id) \in Awaits
            BY <1>4, <2>1, SentTypes
        <3> QED BY <3>1, <3>2 DEF TypeOK
    <2>2. CASE c.op = "send" /\ ~Linked(p, c.peer)
        BY <2>2 DEF TakeCommand, TypeOK
    <2>3. CASE c.op # "send"
        <3>1. Flush(p, c.peer, pending[p], net)
            BY <2>3 DEF TakeCommand
        <3> QED BY <1>4, <1>5, <3>1, FlushTypes DEF TypeOK
    <2> QED BY <2>1, <2>2, <2>3
<1> QED BY <1>3, <1>5, <1>6 DEF TakeCommand, TypeOK, TableTypeOK, historyVars

\* Answering a request keeps the types once its transaction does.
LEMMA RequestTakenTypes ==
    ASSUME TypeOK, NEW p \in Peers, NEW m \in net, m.to = p, m.type = "request",
           NEW ok \in BOOLEAN, NEW flushed \in BOOLEAN, RequestTaken(p, m, ok, flushed),
           TableTypeOK', UNCHANGED <<online, command, historyVars, faults>>
    PROVE  TypeOK'
<1> DEFINE q == m.from
<1>1. q \in Peers /\ net \subseteq Messages
    BY MessageParts DEF TypeOK
<1>2. CASE m.line # "closed"
    <2>1. Answered(p, m, ok) \subseteq Messages
        BY <1>1, AnsweredTypes
    <2>2. pending' \in [Peers -> SUBSET Awaits] /\ net' \subseteq Messages
        <3>1. CASE flushed
            <4>1. Flush(p, q, pending[p], Answered(p, m, ok))
                BY <1>2, <3>1 DEF RequestTaken, TakenTooLate
            <4> QED BY <1>1, <2>1, <4>1, FlushTypes DEF TypeOK
        <3>2. CASE ~flushed
            BY <1>2, <2>1, <3>2 DEF RequestTaken, TakenTooLate, TypeOK
        <3> QED BY <3>1, <3>2
    <2>3. recent' \in [Peers -> [Peers -> 0..RateLimit]]
        <3>1. recent[p][q] \in 0..RateLimit
            BY <1>1 DEF TypeOK
        <3>2. CASE Limited(p, q)
            BY <1>2, <3>2 DEF RequestTaken, TakenTooLate, TypeOK
        <3>3. CASE ~Limited(p, q)
            <4>1. recent[p][q] + 1 \in 0..RateLimit
                BY <3>1, <3>3 DEF Limited
            <4>2. recent' = [recent EXCEPT ![p][q] = @ + 1]
                BY <1>2, <3>3 DEF RequestTaken, TakenTooLate
            <4>3. recent \in [Peers -> [Peers -> 0..RateLimit]]
                BY DEF TypeOK
            <4>4. [recent[p] EXCEPT ![q] = @ + 1] \in [Peers -> 0..RateLimit]
                BY <1>1, <4>1, <4>3
            <4> QED BY <4>2, <4>3, <4>4
        <3> QED BY <3>2, <3>3
    <2> QED BY <1>2, <2>2, <2>3 DEF RequestTaken, TakenTooLate, TypeOK, TableTypeOK, historyVars
<1>3. CASE m.line = "closed"
    BY <1>3, TakenTooLateTypes DEF RequestTaken
<1> QED BY <1>2, <1>3

\* Taking a message keeps the types.
LEMMA MessageArrivesTypes ==
    ASSUME TypeOK, NEW p \in Peers, MessageArrives(p)
    PROVE  TypeOK'
<1>1. PICK m \in net : RequestArrives(p, m) \/ DecisionArrives(p, m) \/ AnswerArrives(p, m)
    BY DEF MessageArrives
<1> DEFINE q == m.from
           r == m.id
<1>2. /\ m \in Messages /\ net \subseteq Messages /\ TableTypeOK
      /\ q \in Peers /\ r \in Requests /\ rows[p][r] \in Rows
    BY MessageParts DEF TypeOK, TableTypeOK
<1>3. CASE RequestArrives(p, m)
    <2>1. TableTypeOK'
        <3>1. PICK status \in {"pending"} : Row(q, "incoming", status) \in Rows
            BY <1>2, RowType
        <3> QED BY <1>2, <1>3, <3>1, TransactionTypes DEF RequestArrives
    <2>2. PICK ok \in BOOLEAN, flushed \in BOOLEAN : RequestTaken(p, m, ok, flushed)
        BY <1>3 DEF RequestArrives
    <2> QED BY <1>3, <2>1, <2>2, RequestTakenTypes DEF RequestArrives
<1>4. CASE DecisionArrives(p, m)
    <2> DEFINE ok == CanTakeDecision(p, q, r, m.outcome)
    <2>1. m.outcome \in Outcomes
        BY <1>2, <1>4, MessageParts DEF DecisionArrives
    <2>2. TableTypeOK'
        <3>1. CASE ok
            <4>1. rows[p][r] # NoRow /\ ResolveRow(p, r, m.outcome)
                BY <1>4, <3>1 DEF DecisionArrives, CanTakeDecision
            <4> QED BY <1>2, <2>1, <4>1, TransactionTypes
        <3>2. CASE ~ok
            BY <1>2, <1>4, <3>2, TransactionTypes DEF DecisionArrives
        <3> QED BY <3>1, <3>2
    <2>3. CASE m.line # "closed"
        <3>1. ok \in BOOLEAN
            BY DEF CanTakeDecision
        <3>2. Answered(p, m, ok) \subseteq Messages
            BY <1>2, <1>4, <3>1, AnsweredTypes DEF DecisionArrives
        <3> HIDE DEF ok
        <3> QED BY <1>4, <2>2, <2>3, <3>2
            DEF DecisionArrives, TakenTooLate, TypeOK, TableTypeOK, loopVars, historyVars, ok
    <2>4. CASE m.line = "closed"
        BY <1>4, <2>2, <2>4, TakenTooLateTypes DEF DecisionArrives
    <2> QED BY <2>3, <2>4
<1>5. CASE AnswerArrives(p, m)
    <2> DEFINE waiting == pending[p] \ {Await(m.of, q, r)}
    <2>1. waiting \in SUBSET Awaits /\ net \ {m} \in SUBSET Messages
        BY <1>2 DEF TypeOK
    <2>2. TableTypeOK'
        BY <1>2, <1>5, TransactionTypes DEF AnswerArrives
    <2>3. pending' \in [Peers -> SUBSET Awaits] /\ net' \subseteq Messages
        <3>1. CASE m.of = "request"
            <4>1. pending' = [pending EXCEPT ![p] = waiting] /\ net' = net \ {m}
                BY <1>5, <3>1 DEF AnswerArrives
            <4> HIDE DEF waiting
            <4> QED BY <2>1, <4>1 DEF TypeOK
        <3>2. CASE m.of # "request"
            <4>1. Flush(p, q, waiting, net \ {m})
                BY <1>5, <3>2 DEF AnswerArrives
            <4> HIDE DEF waiting
            <4> QED BY <1>2, <2>1, <2>2, <4>1, FlushTypes DEF TypeOK
        <3> QED BY <3>1, <3>2
    <2> QED BY <1>5, <2>2, <2>3 DEF AnswerArrives, TypeOK, TableTypeOK, historyVars
<1> QED BY <1>1, <1>3, <1>4, <1>5

\* A request given up leaves no second request either.
LEMMA TimesOutKeeps ==
    ASSUME TypeOK, NEW p \in Peers, NEW w \in pending[p], TimesOut(p, w)
    PROVE  ComesFrom(net', net)
<1> DEFINE under == UnderWay(p, w)
<1>1. PICK late \in SUBSET {m \in under : m.type # "answer"} :
          net' = (net \ under) \union {[m EXCEPT !.line = "forgotten"] : m \in late}
    BY DEF TimesOut
<1>2. under \subseteq net /\ net \subseteq Messages
    BY DEF UnderWay, TypeOK
<1> HIDE DEF under
<1> DEFINE From(x, y) ==
        \/ x = y /\ y \notin under
        \/ y \in under /\ x = [y EXCEPT !.line = "forgotten"]
<1>3. ASSUME NEW x \in net'
      PROVE  \E y \in net : From(x, y) /\ x \in Messages /\ Inherits(x, y)
    <2>1. CASE x \in net \ under
        BY <1>2, <2>1 DEF Inherits
    <2>2. CASE x \notin net \ under
        <3>1. PICK y \in late : x = [y EXCEPT !.line = "forgotten"]
            BY <1>1, <2>2
        <3>2. y \in Messages /\ y.type # "answer" /\ y \in net /\ y \in under
            BY <1>2
        <3> QED BY <3>1, <3>2, LineChange DEF Lines
    <2> QED BY <2>1, <2>2
<1>4. ASSUME OnlyRequest(net), NEW m \in net', NEW n \in net',
             m.type = "request", n.type = "request", m.id = n.id
      PROVE  m = n
    <2>1. PICK y \in net : From(m, y) /\ m.type = y.type /\ m.id = y.id
        BY <1>3 DEF Inherits
    <2>2. PICK z \in net : From(n, z) /\ n.type = z.type /\ n.id = z.id
        BY <1>3 DEF Inherits
    <2>3. y = z
        BY <1>4, <2>1, <2>2 DEF OnlyRequest
    <2> QED BY <2>1, <2>2, <2>3
<1> QED BY <1>3, <1>4 DEF ComesFrom, OnlyRequest

\* The failure of an exchange keeps the types, lost or timed out.
LEMMA FailureTypes ==
    ASSUME TypeOK, NEW p \in Peers, NEW w \in pending[p], ExchangeFails(p, w),
           net' \subseteq Messages, faults' \in 0..MaxFaults
    PROVE  TypeOK'
<1>1. w \in Awaits /\ w.id \in Requests /\ TableTypeOK
    BY DEF TypeOK, Awaits, TableTypeOK
<1>2. TableTypeOK'
    BY <1>1, TransactionTypes DEF ExchangeFails
<1> QED BY <1>2 DEF ExchangeFails, TypeOK, TableTypeOK, historyVars

\* Connections come and go between well-typed states.
LEMMA ConnectionTypes ==
    ASSUME TypeOK, NEW l \in Pairs, Connect(l) \/ IdleCloses(l) \/ ConnectionDrops(l)
    PROVE  TypeOK'
<1>1. l \subseteq Peers
    BY DEF Pairs
<1>2. CASE Connect(l)
    BY <1>1, <1>2 DEF Connect, TypeOK, tableVars, loopVars, historyVars
<1>3. CASE IdleCloses(l) \/ ConnectionDrops(l)
    <2>1. Cut({l}, {})
        BY <1>3 DEF IdleCloses, ConnectionDrops
    <2>2. net' \subseteq Messages
        BY <2>1, CutKeeps DEF ComesFrom, TypeOK
    <2>3. links' \subseteq Pairs /\ helloDue' \subseteq Peers \X Peers
        BY <2>1 DEF Cut, TypeOK
    <2>4. faults' \in 0..MaxFaults
        BY <1>3 DEF IdleCloses, ConnectionDrops, Fault, TypeOK
    <2>5. UNCHANGED <<tableVars, online, command, loopVars, historyVars>>
        BY <1>3 DEF IdleCloses, ConnectionDrops
    <2> QED BY <2>2, <2>3, <2>4, <2>5 DEF TypeOK, tableVars, loopVars, historyVars
<1> QED BY <1>2, <1>3

\* A Hello keeps the types.
LEMMA HelloTypes ==
    ASSUME TypeOK, NEW p \in Peers, HelloArrives(p)
    PROVE  TypeOK'
<1>1. PICK q \in Peers : RecordHello(p, q)
    BY DEF HelloArrives
<1>2. TableTypeOK'
    BY <1>1 DEF RecordHello, TypeOK, TableTypeOK, tableVars
<1>3. pending' \in [Peers -> SUBSET Awaits] /\ net' \subseteq Messages
    BY <1>1, <1>2, FlushTypes DEF RecordHello, TypeOK
<1>4. helloDue' \subseteq Peers \X Peers /\ online' \in [Peers -> SUBSET Peers]
    BY <1>1 DEF RecordHello, TypeOK
<1> QED BY <1>1, <1>2, <1>3, <1>4 DEF RecordHello, TypeOK, TableTypeOK, historyVars

\* The rate window moves within its limit.
LEMMA WindowTypes ==
    ASSUME TypeOK, NEW p \in Peers, NEW q \in Peers, WindowMoves(p, q)
    PROVE  TypeOK'
<1>1. recent[p][q] - 1 \in 0..RateLimit
    BY DEF WindowMoves, TypeOK
<1>2. recent \in [Peers -> [Peers -> 0..RateLimit]]
    BY DEF TypeOK
<1>3. [recent[p] EXCEPT ![q] = @ - 1] \in [Peers -> 0..RateLimit]
    BY <1>1, <1>2
<1>4. recent' \in [Peers -> [Peers -> 0..RateLimit]]
    BY <1>2, <1>3 DEF WindowMoves
<1> QED BY <1>4 DEF WindowMoves, TypeOK, tableVars, lineVars, historyVars

\* A restart keeps the types.
LEMMA RestartTypes ==
    ASSUME TypeOK, NEW p \in Peers, Restart(p)
    PROVE  TypeOK'
<1>1. faults' \in 0..MaxFaults
    BY DEF Restart, Fault, TypeOK
<1> QED BY <1>1, LoopEndsTypes DEF Restart, TypeOK, tableVars, historyVars

\* Only its own user starts a command of a device, for a request not yet
\* drawn, and the history never forgets one.
LEMMA CommandAskedKept ==
    ASSUME TypeInv, [Next]_vars
    PROVE  CommandAsked'
<1>1. ASSUME NEW p \in Peers, NEW q \in Peers, NEW r \in Requests, BeginSend(p, q, r)
      PROVE  CommandAsked'
    <2>1. command' = [command EXCEPT ![p] = r] /\ asked' = [asked EXCEPT ![r] = <<p, q>>]
        BY <1>1 DEF BeginSend
    <2>2. asked[r] = NoAsk
        BY <1>1 DEF BeginSend
    <2>3. <<p, q>> # NoAsk /\ <<p, q>>[1] = p
        BY DEF NoAsk
    <2> QED BY <2>1, <2>2, <2>3 DEF CommandAsked, TypeInv, TypeOK
<1>2. ASSUME NEW p \in Peers, \/ command' = [command EXCEPT ![p] = Idle]
                              \/ UNCHANGED command,
             UNCHANGED asked
      PROVE  CommandAsked'
    BY <1>2 DEF CommandAsked, TypeInv, TypeOK
<1>3. ASSUME UNCHANGED <<command, asked>> PROVE CommandAsked'
    BY <1>3 DEF CommandAsked, TypeInv
<1>4. ASSUME NEW p \in Peers, LoopStep(p) PROVE CommandAsked'
    <2>1. CASE TakeCommand(p)
        BY <1>3, <2>1 DEF TakeCommand, historyVars
    <2>2. CASE MessageArrives(p)
        BY <1>3, <2>2 DEF MessageArrives, RequestArrives, DecisionArrives, AnswerArrives, historyVars
    <2>3. CASE FailureArrives(p)
        BY <1>3, <2>3 DEF FailureArrives, LostFails, ExchangeFails, historyVars
    <2>4. CASE HelloArrives(p)
        BY <1>3, <2>4 DEF HelloArrives, RecordHello, historyVars
    <2> QED BY <1>4, <2>1, <2>2, <2>3, <2>4 DEF LoopStep
<1>5. ASSUME NEW p \in Peers, UserStep(p) PROVE CommandAsked'
    <2>1. CASE StoreRequest(p)
        BY <1>2, <2>1 DEF StoreRequest, historyVars
    <2>2. CASE \E r \in Requests, outcome \in Outcomes : ResolveRequest(p, r, outcome)
        BY <1>3, <2>2 DEF ResolveRequest
    <2> QED BY <1>1, <1>5, <2>1, <2>2 DEF UserStep
<1>6. ASSUME NEW p \in Peers, Restart(p) PROVE CommandAsked'
    BY <1>2, <1>6 DEF Restart, historyVars
<1>7. ASSUME NEW p \in Peers, NEW w \in pending[p], TimesOut(p, w) PROVE CommandAsked'
    BY <1>3, <1>7 DEF TimesOut, ExchangeFails, historyVars
<1>8. ASSUME NEW p \in Peers, NEW q \in Peers, WindowMoves(p, q) PROVE CommandAsked'
    BY <1>3, <1>8 DEF WindowMoves, historyVars
<1>9. ASSUME NEW l \in Pairs, Connect(l) \/ IdleCloses(l) \/ ConnectionDrops(l)
      PROVE  CommandAsked'
    BY <1>3, <1>9 DEF Connect, IdleCloses, ConnectionDrops, historyVars
<1>10. CASE UNCHANGED vars
    BY <1>3, <1>10 DEF vars, historyVars
<1> QED
    <2>1. CASE \E p \in Peers : LoopStep(p) \/ UserStep(p) \/ Restart(p)
        BY <1>4, <1>5, <1>6, <2>1
    <2>2. CASE \E l \in Pairs : Connect(l) \/ IdleCloses(l) \/ ConnectionDrops(l)
        BY <1>9, <2>2
    <2> QED BY <1>7, <1>8, <1>10, <2>1, <2>2 DEF Next

\* A step keeps the types and the command's request.
LEMMA TypeKept ==
    ASSUME TypeInv, [Next]_vars
    PROVE  TypeInv'
<1>1. TypeOK
    BY DEF TypeInv
<1>2. ASSUME NEW p \in Peers, LoopStep(p) PROVE TypeOK'
    <2>1. CASE FailureArrives(p)
        <3>1. PICK w \in pending[p] : ExchangeFails(p, w) /\ UNCHANGED <<net, faults>>
            BY <2>1 DEF FailureArrives, LostFails
        <3>2. net' \subseteq Messages /\ faults' \in 0..MaxFaults
            BY <1>1, <3>1 DEF TypeOK
        <3> QED BY <1>1, <3>1, <3>2, FailureTypes
    <2> QED BY <1>1, <1>2, <2>1, TakeCommandTypes, MessageArrivesTypes, HelloTypes DEF LoopStep
<1>3. ASSUME NEW p \in Peers, NEW w \in pending[p], TimesOut(p, w) PROVE TypeOK'
    <2>1. net' \subseteq Messages
        BY <1>1, <1>3, TimesOutKeeps DEF ComesFrom
    <2>2. faults' \in 0..MaxFaults
        BY <1>1, <1>3 DEF TimesOut, Fault, TypeOK
    <2> QED BY <1>1, <1>3, <2>1, <2>2, FailureTypes DEF TimesOut
<1>4. ASSUME UNCHANGED vars PROVE TypeOK'
    BY <1>1, <1>4 DEF vars, tableVars, loopVars, lineVars, historyVars, TypeOK
<1>5. TypeOK'
    <2>1. CASE \E p \in Peers : LoopStep(p) \/ UserStep(p) \/ Restart(p)
        BY <1>1, <1>2, <2>1, UserStepTypes, RestartTypes
    <2>2. CASE \E l \in Pairs : Connect(l) \/ IdleCloses(l) \/ ConnectionDrops(l)
        BY <1>1, <2>2, ConnectionTypes
    <2> QED BY <1>1, <1>3, <1>4, <2>1, <2>2, WindowTypes DEF Next
<1> QED BY <1>5, CommandAskedKept DEF TypeInv

\* The devices start well-typed.
LEMMA TypeAtStart == Init => TypeInv
BY NoRowStatus DEF Init, TypeInv, TypeOK, CommandAsked, Commands

\* The tables, channels and maps of the devices keep their types, and a
\* command under way its request.
LEMMA TypeInvariant == Spec => []TypeInv
<1> QED BY TypeAtStart, TypeKept, PTL DEF Spec

\* Type correctness of the friend requests (the tables, the channel and the
\* maps of the loop).
THEOREM TypeCorrect == Spec => []TypeOK
<1>1. TypeInv => TypeOK
    BY DEF TypeInv
<1> QED BY <1>1, TypeInvariant, PTL

-----------------------------------------------------------------------------
(* The inductive invariant.                                                *)

\* Nobody asks itself.
AskedOfAnother ==
    \A r \in Requests : asked[r] # NoAsk => asked[r][1] # asked[r][2]

\* Every row belongs to the request of that identifier.
RowIsAsked(p, r) ==
    rows[p][r] # NoRow =>
        asked[r] = IF rows[p][r].direction = "outgoing"
                   THEN <<p, rows[p][r].peer>>
                   ELSE <<rows[p][r].peer, p>>
RowsAreAsked == \A p \in Peers, r \in Requests : RowIsAsked(p, r)

\* A request is in one place on its way: with the command, in the channel,
\* on the wire or with the other device.
Wired(r) == \E m \in net : m.type = "request" /\ m.id = r
QueuedAt(p, i, r) ==
    i \in 1..Len(queue[p]) /\ queue[p][i].op = "send" /\ queue[p][i].id = r

CommandIsFirst ==
    \A p \in Peers : command[p] # Idle =>
        /\ \A q \in Peers : rows[q][command[p]] = NoRow
        /\ ~Wired(command[p])
        /\ \A q \in Peers, i \in Nat : ~QueuedAt(q, i, command[p])

QueuedOnce ==
    \A p \in Peers, i \in Nat, r \in Requests : QueuedAt(p, i, r) =>
        /\ asked[r] = <<p, queue[p][i].peer>>
        /\ rows[queue[p][i].peer][r] = NoRow
        /\ ~Wired(r)
        /\ \A j \in Nat : QueuedAt(p, j, r) => i = j

WiredOnce ==
    /\ OnlyRequest(net)
    /\ \A m \in net : m.type = "request" =>
           asked[m.id] = <<m.from, m.to>> /\ rows[m.to][m.id] = NoRow

\* A queued decision, and one on its way, is the one that was recorded.
DecisionsRecorded ==
    \A p \in Peers, r \in Requests : decisions[p][r] # "none" =>
        /\ rows[p][r] # NoRow
        /\ rows[p][r].direction = "incoming"
        /\ rows[p][r].status = decisions[p][r]
DecisionsTrue ==
    \A m \in net : m.type = "decision" => Incoming(m.from, m.to, m.id, m.outcome)

AcceptedAreFriends ==
    \A p \in Peers, r \in Requests :
        rows[p][r].status = "accepted" => rows[p][r].peer \in friends[p]

\* The answer to a decision comes from an asker that has the outcome, or has
\* removed the request.
Told(p, q, r) ==
    \E outcome \in Outcomes :
        /\ Incoming(q, p, r, outcome)
        /\ rows[p][r] = NoRow \/ Outgoing(p, q, r, outcome)
AnswersTrue ==
    \A m \in net : m.type = "answer" /\ m.of = "decision" => Told(m.from, m.to, m.id)

WayInv == AskedOfAnother /\ RowsAreAsked /\ CommandIsFirst /\ QueuedOnce /\ WiredOnce
OutcomeInv ==
    /\ DecisionsRecorded /\ DecisionsTrue /\ AcceptedAreFriends /\ AnswersTrue
    /\ SidesAgree /\ OutcomeQueuedOrKnown
FriendInv == TypeInv /\ WayInv /\ OutcomeInv

-----------------------------------------------------------------------------
(* What the invariant asks of a step.                                      *)

\* No request appears on the wire.
NoRequestAdded ==
    /\ OnlyRequest(net')
    /\ \A m \in net' : m.type = "request" => \E n \in net : Inherits(m, n)

\* What is said besides requests is what is recorded.
NewsIsTrue ==
    \A m \in net' :
        \/ m.type = "request"
        \/ \E n \in net : Inherits(m, n)
        \/ /\ m.type = "decision"
           /\ decisions'[m.from][m.id] = m.outcome
           /\ rows'[m.from][m.id].peer = m.to
        \/ m.type = "answer" /\ (m.of = "decision" => Told(m.from, m.to, m.id)')

\* No request enters a channel or a command.
NoRequestQueued ==
    /\ \A p \in Peers : command'[p] \in {command[p], Idle}
    /\ \A p \in Peers :
           \/ queue'[p] = queue[p]
           \/ queue[p] # <<>> /\ queue'[p] = Tail(queue[p])
           \/ queue'[p] = <<>>
           \/ \E q \in Peers : queue'[p] = Append(queue[p], Resolve(q))

SameRequest(p, r) ==
    /\ rows[p][r] # NoRow /\ rows'[p][r] # NoRow
    /\ rows'[p][r].peer = rows[p][r].peer
    /\ rows'[p][r].direction = rows[p][r].direction

\* The row of a request that was taken from the wire.
Delivered(p, r) ==
    /\ \E m \in net : /\ m.type = "request" /\ m.id = r /\ m.to = p
                      /\ rows'[p][r].peer = m.from
    /\ rows'[p][r] # NoRow /\ rows'[p][r].direction = "incoming"
    /\ ~Wired(r)'

WayStep ==
    /\ NoRequestAdded /\ NoRequestQueued
    /\ UNCHANGED asked
    /\ \A p \in Peers, r \in Requests :
           rows'[p][r] = NoRow \/ SameRequest(p, r) \/ Delivered(p, r)

\* No outcome changes, and each new one is recorded where it must be.
ResolvedStays ==
    \A p \in Peers, r \in Requests :
        rows[p][r].status \in Outcomes => rows'[p][r] = rows[p][r]
FriendsStay == \A p \in Peers : friends[p] \subseteq friends'[p]
NewIsRecorded ==
    \A p \in Peers, r \in Requests :
        rows'[p][r].status \in Outcomes =>
            \/ rows'[p][r] = rows[p][r]
            \/ /\ rows'[p][r].status = "accepted" => rows'[p][r].peer \in friends'[p]
               /\ IF rows'[p][r].direction = "incoming"
                  THEN decisions'[p][r] = rows'[p][r].status
                  ELSE Incoming(rows'[p][r].peer, p, r, rows'[p][r].status)
QueueIsTrue ==
    \A p \in Peers, r \in Requests :
        \/ decisions'[p][r] = decisions[p][r]
        \/ decisions'[p][r] = "none" /\ rows[p][r].peer \in Peers /\ Told(rows[p][r].peer, p, r)
        \/ /\ rows'[p][r] # NoRow
           /\ rows'[p][r].direction = "incoming"
           /\ rows'[p][r].status = decisions'[p][r]
RemovedStays ==
    \A p, q \in Peers, r \in Requests, outcome \in Outcomes :
        Incoming(q, p, r, outcome) /\ rows[p][r] = NoRow => rows'[p][r] = NoRow

OutcomeStep ==
    ResolvedStays /\ FriendsStay /\ NewIsRecorded /\ QueueIsTrue /\ RemovedStays

\* The parts of a row.
LEMMA RowFields ==
    \A q, d, s :
        /\ Row(q, d, s).peer = q
        /\ Row(q, d, s).direction = d
        /\ Row(q, d, s).status = s
        /\ s \in {"pending"} \union Outcomes => Row(q, d, s) # NoRow
BY DEF Row, NoRow, Outcomes

\* A row of the tables by its parts.
LEMMA RowIs ==
    ASSUME TypeOK, NEW p \in Peers, NEW r \in Requests
    PROVE  /\ rows[p][r] \in Rows
           /\ \A q \in Peers, d \in {"outgoing", "incoming"}, s \in {"pending"} \union Outcomes :
                  rows[p][r] = Row(q, d, s) <=>
                      /\ rows[p][r] # NoRow
                      /\ rows[p][r].peer = q
                      /\ rows[p][r].direction = d
                      /\ rows[p][r].status = s
           /\ rows[p][r] = NoRow => rows[p][r].status = "none"
           /\ rows[p][r] # NoRow =>
                  /\ rows[p][r].peer \in Peers
                  /\ rows[p][r].direction \in {"outgoing", "incoming"}
                  /\ rows[p][r].status \in {"pending"} \union Outcomes
<1>1. rows[p][r] \in Rows
    BY DEF TypeOK
<1>2. ASSUME NEW q \in Peers, NEW d \in {"outgoing", "incoming"},
             NEW s \in {"pending"} \union Outcomes
      PROVE  rows[p][r] = Row(q, d, s) <=>
                      /\ rows[p][r] # NoRow
                      /\ rows[p][r].peer = q
                      /\ rows[p][r].direction = d
                      /\ rows[p][r].status = s
    BY <1>1, RowType, RowParts
<1> QED BY <1>1, <1>2, RowParts, NoRowStatus

\* A step that adds no request keeps each where it is, or delivers it.
LEMMA WayKept ==
    ASSUME TypeInv, TypeInv', WayInv, WayStep
    PROVE  WayInv'
<1> USE DEF WayInv, WayStep
<1>1. \A r \in Requests : Wired(r)' => Wired(r)
    BY DEF NoRequestAdded, Wired, Inherits
<1>2. \A p \in Peers, r \in Requests :
          rows'[p][r] # NoRow => rows[p][r] # NoRow \/ (Wired(r) /\ ~Wired(r)')
    BY DEF SameRequest, Delivered, Wired
<1>3. ASSUME NEW p \in Peers
      PROVE  \/ \A i \in Nat, r \in Requests :
                    QueuedAt(p, i, r)' => QueuedAt(p, i, r) /\ queue'[p][i] = queue[p][i]
             \/ \A i \in Nat, r \in Requests :
                    QueuedAt(p, i, r)' => QueuedAt(p, i + 1, r) /\ queue'[p][i] = queue[p][i + 1]
    <2>1. CASE queue'[p] = queue[p] \/ queue'[p] = <<>>
        BY <2>1 DEF QueuedAt
    <2>2. CASE queue[p] # <<>> /\ queue'[p] = Tail(queue[p])
        <3>1. queue[p] \in Seq(Commands) /\ queue[p] # <<>>
            BY <2>2 DEF TypeInv, TypeOK
        <3>2. \A i \in 1..Len(Tail(queue[p])) :
                  i + 1 \in 1..Len(queue[p]) /\ Tail(queue[p])[i] = queue[p][i + 1]
            BY <3>1
        <3> QED BY <2>2, <3>2 DEF QueuedAt
    <2>3. ASSUME NEW q \in Peers, queue'[p] = Append(queue[p], Resolve(q))
          PROVE  \A i \in Nat, r \in Requests :
                     QueuedAt(p, i, r)' => QueuedAt(p, i, r) /\ queue'[p][i] = queue[p][i]
        <3>1. queue[p] \in Seq(Commands)
            BY DEF TypeInv, TypeOK
        <3>2. /\ \A i \in 1..Len(queue'[p]) :
                     i \in 1..Len(queue[p]) \/ queue'[p][i] = Resolve(q)
              /\ \A i \in 1..Len(queue[p]) : queue'[p][i] = queue[p][i]
            BY <2>3, <3>1, SentTypes
        <3>3. Resolve(q).op # "send"
            BY DEF Resolve
        <3> QED BY <3>2, <3>3 DEF QueuedAt
    <2> QED BY <2>1, <2>2, <2>3 DEF NoRequestQueued
<1>4. AskedOfAnother' /\ RowsAreAsked'
    <2>1. AskedOfAnother'
        BY DEF AskedOfAnother
    <2>2. ASSUME NEW p \in Peers, NEW r \in Requests PROVE RowIsAsked(p, r)'
        <3>1. CASE SameRequest(p, r)
            BY <3>1 DEF SameRequest, RowIsAsked, RowsAreAsked
        <3>2. CASE Delivered(p, r)
            BY <3>2 DEF Delivered, RowIsAsked, WiredOnce
        <3> QED BY <3>1, <3>2 DEF RowIsAsked
    <2> QED BY <2>1, <2>2 DEF RowsAreAsked
<1>5. CommandIsFirst'
    <2> SUFFICES ASSUME NEW p \in Peers, command'[p] # Idle
                 PROVE  /\ \A q \in Peers : rows'[q][command'[p]] = NoRow
                        /\ ~Wired(command[p])'
                        /\ \A q \in Peers, i \in Nat : ~QueuedAt(q, i, command[p])'
        BY DEF CommandIsFirst
    <2>1. command'[p] = command[p] /\ command[p] \in Requests
        BY DEF NoRequestQueued, TypeInv, TypeOK
    <2>2. /\ \A q \in Peers : rows[q][command[p]] = NoRow
          /\ ~Wired(command[p])
          /\ \A q \in Peers, i \in Nat : ~QueuedAt(q, i, command[p])
        BY <2>1 DEF CommandIsFirst
    <2>3. ASSUME NEW q \in Peers, NEW i \in Nat, QueuedAt(q, i, command[p])' PROVE FALSE
        <3>1. PICK k \in Nat : QueuedAt(q, k, command[p])
            BY <1>3, <2>1, <2>3 DEF QueuedAt
        <3> QED BY <2>2, <3>1
    <2>4. ~Wired(command[p])'
        BY <1>1, <2>1, <2>2 DEF Wired
    <2> QED BY <1>2, <2>1, <2>2, <2>3, <2>4
<1>6. QueuedOnce'
    <2> SUFFICES ASSUME NEW p \in Peers, NEW i \in Nat, NEW r \in Requests, QueuedAt(p, i, r)'
                 PROVE  /\ asked[r] = <<p, queue'[p][i].peer>>
                        /\ rows'[queue'[p][i].peer][r] = NoRow
                        /\ ~Wired(r)'
                        /\ \A j \in Nat : QueuedAt(p, j, r)' => i = j
        BY DEF QueuedOnce
    <2>1. PICK k \in Nat : QueuedAt(p, k, r) /\ queue'[p][i] = queue[p][k]
        BY <1>3
    <2>2. /\ asked[r] = <<p, queue[p][k].peer>>
          /\ rows[queue[p][k].peer][r] = NoRow
          /\ ~Wired(r)
          /\ \A j \in Nat : QueuedAt(p, j, r) => k = j
        BY <2>1 DEF QueuedOnce
    <2>3. queue[p][k].peer \in Peers
        <3>1. queue[p] \in Seq(Commands) /\ k \in 1..Len(queue[p])
            BY <2>1 DEF TypeInv, TypeOK, QueuedAt
        <3>2. queue[p][k] \in Commands
            BY <3>1
        <3> QED BY <3>2 DEF Commands
    <2>4. \A j \in Nat : QueuedAt(p, j, r)' => i = j
        BY <1>3, <2>2
    <2> QED BY <1>1, <1>2, <2>1, <2>2, <2>3, <2>4
<1>7. WiredOnce'
    <2>1. ASSUME NEW m \in net', m.type = "request"
          PROVE  asked[m.id] = <<m.from, m.to>> /\ rows'[m.to][m.id] = NoRow
        <3>1. PICK n \in net : Inherits(m, n)
            BY <2>1 DEF NoRequestAdded
        <3>2. asked[m.id] = <<m.from, m.to>> /\ rows[m.to][m.id] = NoRow
            BY <2>1, <3>1 DEF WiredOnce, Inherits
        <3>3. m.to \in Peers /\ m.id \in Requests
            BY MessageParts DEF TypeInv, TypeOK
        <3>4. Wired(m.id)'
            BY <2>1 DEF Wired
        <3> QED BY <1>2, <3>2, <3>3, <3>4
    <2> QED BY <2>1 DEF WiredOnce, NoRequestAdded
<1> QED BY <1>4, <1>5, <1>6, <1>7

\* What was told stays told.
LEMMA ToldStays ==
    ASSUME TypeOK, ResolvedStays, RemovedStays,
           NEW p \in Peers, NEW q \in Peers, NEW r \in Requests, Told(p, q, r)
    PROVE  Told(p, q, r)'
<1>1. PICK outcome \in Outcomes :
          Incoming(q, p, r, outcome) /\ (rows[p][r] = NoRow \/ Outgoing(p, q, r, outcome))
    BY DEF Told
<1>2. rows'[q][r] = rows[q][r]
    BY <1>1, RowFields DEF ResolvedStays, Incoming
<1>3. rows'[p][r] = NoRow \/ rows'[p][r] = Row(q, "outgoing", outcome)
    <2>1. CASE rows[p][r] = NoRow
        BY <1>1, <2>1 DEF RemovedStays
    <2>2. CASE Outgoing(p, q, r, outcome)
        BY <2>2, RowFields DEF ResolvedStays, Outgoing
    <2> QED BY <1>1, <2>1, <2>2
<1> QED BY <1>1, <1>2, <1>3 DEF Told, Incoming, Outgoing

\* Outcomes that are recorded, queued, told and believed stay in agreement.
LEMMA OutcomeKept ==
    ASSUME TypeInv, TypeInv', OutcomeInv, NewsIsTrue, OutcomeStep
    PROVE  OutcomeInv'
<1> USE DEF TypeInv, OutcomeInv, OutcomeStep
<1>1. DecisionsRecorded'
    <2> SUFFICES ASSUME NEW p \in Peers, NEW r \in Requests, decisions'[p][r] # "none"
                 PROVE  /\ rows'[p][r] # NoRow
                        /\ rows'[p][r].direction = "incoming"
                        /\ rows'[p][r].status = decisions'[p][r]
        BY DEF DecisionsRecorded
    <2>1. CASE decisions'[p][r] = decisions[p][r]
        <3>1. rows[p][r].status = decisions[p][r] /\ decisions[p][r] \in Outcomes
            BY <2>1 DEF DecisionsRecorded, TypeOK
        <3> QED BY <2>1, <3>1 DEF DecisionsRecorded, ResolvedStays
    <2> QED BY <2>1 DEF QueueIsTrue
<1>2. DecisionsTrue'
    <2> SUFFICES ASSUME NEW m \in net', m.type = "decision"
                 PROVE  rows'[m.from][m.id] = Row(m.to, "incoming", m.outcome)
        BY DEF DecisionsTrue, Incoming
    <2>1. /\ m.from \in Peers /\ m.to \in Peers /\ m.id \in Requests
          /\ m.outcome \in Outcomes
        BY MessageParts DEF TypeOK
    <2>2. CASE \E n \in net : Inherits(m, n)
        <3>1. rows[m.from][m.id] = Row(m.to, "incoming", m.outcome)
            BY <2>2 DEF DecisionsTrue, Incoming, Inherits
        <3> QED BY <2>1, <3>1, RowFields DEF ResolvedStays
    <2>3. CASE decisions'[m.from][m.id] = m.outcome /\ rows'[m.from][m.id].peer = m.to
        <3>1. m.outcome # "none"
            BY <2>1 DEF Outcomes
        <3>2. /\ rows'[m.from][m.id] # NoRow
              /\ rows'[m.from][m.id].direction = "incoming"
              /\ rows'[m.from][m.id].status = m.outcome
            BY <1>1, <2>1, <2>3, <3>1 DEF DecisionsRecorded
        <3>3. rows'[m.from][m.id] \in Rows
            BY <2>1 DEF TypeOK
        <3> QED BY <2>3, <3>2, <3>3, RowParts
    <2> QED BY <2>2, <2>3 DEF NewsIsTrue
<1>3. AcceptedAreFriends'
    <2> SUFFICES ASSUME NEW p \in Peers, NEW r \in Requests, rows'[p][r].status = "accepted"
                 PROVE  rows'[p][r].peer \in friends'[p]
        BY DEF AcceptedAreFriends
    <2>1. CASE rows'[p][r] = rows[p][r]
        BY <2>1 DEF AcceptedAreFriends, FriendsStay
    <2> QED BY <2>1 DEF NewIsRecorded, Outcomes
<1>4. AnswersTrue'
    <2> SUFFICES ASSUME NEW m \in net', m.type = "answer", m.of = "decision"
                 PROVE  Told(m.from, m.to, m.id)'
        BY DEF AnswersTrue
    <2>1. CASE \E n \in net : Inherits(m, n)
        <3>1. Told(m.from, m.to, m.id)
            BY <2>1 DEF AnswersTrue, Inherits
        <3>2. m.from \in Peers /\ m.to \in Peers /\ m.id \in Requests
            BY MessageParts DEF TypeOK
        <3> QED BY <3>1, <3>2, ToldStays
    <2> QED BY <2>1 DEF NewsIsTrue
<1>5. SidesAgree'
    <2> SUFFICES ASSUME NEW p \in Peers, NEW q \in Peers, NEW r \in Requests,
                        NEW outcome \in Outcomes,
                        rows'[p][r] = Row(q, "outgoing", outcome)
                 PROVE  /\ rows'[q][r] = Row(p, "incoming", outcome)
                        /\ outcome = "accepted" => q \in friends'[p] /\ p \in friends'[q]
        BY DEF SidesAgree, Outgoing, Incoming, Outcomes
    <2>1. /\ rows'[p][r].peer = q /\ rows'[p][r].direction = "outgoing"
          /\ rows'[p][r].status = outcome
        BY RowFields
    <2>2. rows[q][r] = Row(p, "incoming", outcome)
        <3>1. CASE rows'[p][r] = rows[p][r]
            BY <3>1 DEF SidesAgree, Outgoing, Incoming, Outcomes
        <3>2. CASE rows'[p][r] # rows[p][r]
            BY <2>1, <3>2 DEF NewIsRecorded, Incoming
        <3> QED BY <3>1, <3>2
    <2>3. rows[q][r].status \in Outcomes /\ rows'[q][r] = rows[q][r]
        BY <2>2, RowFields DEF ResolvedStays
    <2>4. rows'[q][r].peer = p /\ rows'[q][r].status = outcome
        BY <2>2, <2>3, RowFields
    <2> QED BY <1>3, <2>1, <2>2, <2>3, <2>4 DEF AcceptedAreFriends
<1>6. OutcomeQueuedOrKnown'
    <2> SUFFICES ASSUME NEW p \in Peers, NEW q \in Peers, NEW r \in Requests,
                        NEW outcome \in Outcomes,
                        rows'[q][r] = Row(p, "incoming", outcome),
                        decisions'[q][r] # outcome
                 PROVE  rows'[p][r] = NoRow \/ rows'[p][r] = Row(q, "outgoing", outcome)
        BY DEF OutcomeQueuedOrKnown, Outgoing, Incoming
    <2>1. /\ rows'[q][r].peer = p /\ rows'[q][r].direction = "incoming"
          /\ rows'[q][r].status = outcome
          /\ rows'[q][r] # NoRow
        BY RowFields
    <2>2. rows'[q][r] = rows[q][r]
        BY <2>1 DEF NewIsRecorded
    <2>3. CASE decisions'[q][r] = decisions[q][r]
        <3>1. rows[p][r] = NoRow \/ rows[p][r] = Row(q, "outgoing", outcome)
            BY <2>2, <2>3 DEF OutcomeQueuedOrKnown, Outgoing, Incoming
        <3>2. CASE rows[p][r] = NoRow
            BY <2>2, <3>2 DEF RemovedStays, Incoming
        <3>3. CASE rows[p][r] = Row(q, "outgoing", outcome)
            BY <3>3, RowFields DEF ResolvedStays
        <3> QED BY <3>1, <3>2, <3>3
    <2>4. CASE decisions'[q][r] # decisions[q][r]
        <3>1. Told(p, q, r)
            BY <2>1, <2>2, <2>4 DEF QueueIsTrue
        <3>2. Told(p, q, r)'
            BY <3>1, ToldStays
        <3>3. PICK o \in Outcomes :
                  /\ rows'[q][r] = Row(p, "incoming", o)
                  /\ rows'[p][r] = NoRow \/ rows'[p][r] = Row(q, "outgoing", o)
            BY <3>2 DEF Told, Incoming, Outgoing
        <3>4. o = outcome
            BY <2>1, <3>3, RowFields
        <3> QED BY <3>3, <3>4
    <2> QED BY <2>3, <2>4
<1> QED BY <1>1, <1>2, <1>3, <1>4, <1>5, <1>6

-----------------------------------------------------------------------------
(* Steps that leave the tables alone.                                      *)

\* What is left of the messages under way is no news.
LEMMA CarriedIsNoNews ==
    ASSUME WiredOnce, ComesFrom(net', net)
    PROVE  NoRequestAdded /\ NewsIsTrue
BY DEF WiredOnce, ComesFrom, NoRequestAdded, NewsIsTrue

\* Messages left as they were, and answers that tell the truth.
Spoken(msgs) ==
    \A m \in msgs :
        \/ m \in net
        \/ m.type = "answer" /\ (m.of = "decision" => Told(m.from, m.to, m.id)')

LEMMA SpokenIsTrue ==
    ASSUME WiredOnce, Spoken(net')
    PROVE  NoRequestAdded /\ NewsIsTrue
<1>1. \A m \in net' : m \in net => \E n \in net : Inherits(m, n)
    BY DEF Inherits
<1> QED BY <1>1 DEF WiredOnce, OnlyRequest, Spoken, NoRequestAdded, NewsIsTrue

\* A flush adds to that only recorded decisions.
LEMMA FlushIsTrue ==
    ASSUME TypeOK, TypeOK', WiredOnce, NEW p \in Peers, NEW q \in Peers,
           NEW waiting, NEW msgs, Spoken(msgs), Flush(p, q, waiting, msgs)
    PROVE  /\ NoRequestAdded /\ NewsIsTrue
           /\ \A m \in net' : m.type = "request" => m \in msgs
<1> DEFINE due == Due(p, q, waiting)
<1>1. net' = msgs \union {Decision(p, q, r, decisions'[p][r]) : r \in due}
    BY DEF Flush
<1>2. ASSUME NEW m \in net', m \notin msgs
      PROVE  /\ m.type = "decision"
             /\ decisions'[m.from][m.id] = m.outcome
             /\ rows'[m.from][m.id].peer = m.to
    <2> HIDE DEF due
    <2>1. PICK r \in due : m = Decision(p, q, r, decisions'[p][r])
        BY <1>1, <1>2
    <2>2. rows'[p][r].peer = q
        BY DEF due, Due
    <2> QED BY <2>1, <2>2 DEF Decision
<1>3. ASSUME NEW m \in net', m \in net PROVE \E n \in net : Inherits(m, n)
    BY <1>3 DEF Inherits
<1>4. \A m \in net' : m.type = "request" => m \in msgs /\ m \in net
    BY <1>2 DEF Spoken
<1> QED BY <1>2, <1>3, <1>4 DEF WiredOnce, OnlyRequest, Spoken, NoRequestAdded, NewsIsTrue

\* A stopped loop takes no message.
LEMMA DeadTakeNone ==
    ASSUME net \subseteq Messages, NEW cut, NEW dead, Cut(cut, dead)
    PROVE  \A m \in net' : m.to \notin dead
<1> DEFINE on == {m \in net : {m.from, m.to} \in cut /\ m.line # "closed"}
           gone == {m \in net : m.to \in dead}
<1>1. PICK read \in SUBSET {m \in on \ gone : m.type # "answer"} :
          net' = (net \ (on \union gone))
                     \union {[m EXCEPT !.line = "closed"] : m \in read}
    BY DEF Cut
<1> SUFFICES ASSUME NEW m \in net' PROVE m.to \notin dead
    OBVIOUS
<1>2. CASE m \in net \ (on \union gone)
    BY <1>2
<1>3. CASE m \notin net \ (on \union gone)
    <2>1. PICK n \in read : m = [n EXCEPT !.line = "closed"]
        BY <1>1, <1>3
    <2>2. n \in Messages /\ n.type # "answer" /\ n.to \notin dead
        OBVIOUS
    <2> QED BY <2>1, <2>2, LineChange DEF Lines, Inherits
<1> QED BY <1>2, <1>3

\* A loop that ends leaves no news and an empty channel.
LEMMA LoopEndIsQuiet ==
    ASSUME FriendInv, NEW p \in Peers, LoopEnds(p),
           command' = command \/ command' = [command EXCEPT ![p] = Idle]
    PROVE  /\ NoRequestAdded /\ NewsIsTrue /\ NoRequestQueued
           /\ \A m \in net' : m.to # p
<1>1. net \subseteq Messages /\ WiredOnce
    BY DEF FriendInv, TypeInv, TypeOK, WayInv
<1>2. Cut({l \in links : p \in l}, {p})
    BY DEF LoopEnds
<1>3. NoRequestAdded /\ NewsIsTrue
    BY <1>1, <1>2, CutKeeps, CarriedIsNoNews
<1>4. \A m \in net' : m.to # p
    BY <1>1, <1>2, DeadTakeNone
<1>5. NoRequestQueued
    BY DEF LoopEnds, NoRequestQueued, FriendInv, TypeInv, TypeOK
<1> QED BY <1>3, <1>4, <1>5

\* Unchanged tables record nothing new.
LEMMA QuietTables ==
    ASSUME UNCHANGED tableVars
    PROVE  OutcomeStep
BY DEF tableVars, OutcomeStep, ResolvedStays, FriendsStay, NewIsRecorded, QueueIsTrue,
       RemovedStays

\* What every step shows: the invariant and the finality of outcomes.
GoodStep == FriendInv' /\ OutcomeStep

\* A step that respects the way of requests and the record of outcomes.
LEMMA StepIsGood ==
    ASSUME FriendInv, TypeInv', NoRequestAdded, NewsIsTrue, NoRequestQueued,
           UNCHANGED asked, OutcomeStep,
           \A p \in Peers, r \in Requests :
               rows'[p][r] = NoRow \/ SameRequest(p, r) \/ Delivered(p, r)
    PROVE  GoodStep
BY WayKept, OutcomeKept DEF FriendInv, WayStep, GoodStep

LEMMA QuietIsGood ==
    ASSUME FriendInv, TypeInv', NoRequestAdded, NewsIsTrue, NoRequestQueued,
           UNCHANGED <<tableVars, asked>>
    PROVE  GoodStep
<1>1. \A p \in Peers, r \in Requests : rows'[p][r] = NoRow \/ SameRequest(p, r)
    BY DEF tableVars, SameRequest
<1> QED BY <1>1, QuietTables, StepIsGood

\* Connections, windows and restarts change nothing that is recorded.
LEMMA SurroundingsAreQuiet ==
    ASSUME FriendInv, TypeInv'
    PROVE  /\ \A p \in Peers : Restart(p) => GoodStep
           /\ \A p, q \in Peers : WindowMoves(p, q) => GoodStep
           /\ \A l \in Pairs : Connect(l) \/ IdleCloses(l) \/ ConnectionDrops(l) => GoodStep
           /\ UNCHANGED vars => GoodStep
<1>1. net \subseteq Messages /\ WiredOnce
    BY DEF FriendInv, TypeInv, TypeOK, WayInv
<1>2. ASSUME UNCHANGED <<net, command, queue, tableVars, asked>> PROVE GoodStep
    <2>1. Spoken(net')
        BY <1>2 DEF Spoken
    <2>2. NoRequestQueued
        BY <1>2 DEF NoRequestQueued
    <2> QED BY <1>1, <1>2, <2>1, <2>2, SpokenIsTrue, QuietIsGood
<1>3. ASSUME NEW p \in Peers, Restart(p) PROVE GoodStep
    <2>1. /\ LoopEnds(p) /\ command' = [command EXCEPT ![p] = Idle]
          /\ UNCHANGED <<tableVars, asked>>
        BY <1>3 DEF Restart, historyVars
    <2> QED BY <2>1, LoopEndIsQuiet, QuietIsGood
<1>4. ASSUME NEW p \in Peers, NEW q \in Peers, WindowMoves(p, q) PROVE GoodStep
    BY <1>2, <1>4 DEF WindowMoves, lineVars, historyVars
<1>5. ASSUME NEW l \in Pairs, Connect(l) PROVE GoodStep
    BY <1>2, <1>5 DEF Connect, loopVars, historyVars
<1>6. ASSUME NEW l \in Pairs, IdleCloses(l) \/ ConnectionDrops(l) PROVE GoodStep
    <2>1. Cut({l}, {}) /\ UNCHANGED <<tableVars, command, queue, asked>>
        BY <1>6 DEF IdleCloses, ConnectionDrops, loopVars, historyVars
    <2>2. NoRequestAdded /\ NewsIsTrue
        BY <1>1, <2>1, CutKeeps, CarriedIsNoNews
    <2>3. NoRequestQueued
        BY <2>1 DEF NoRequestQueued
    <2> QED BY <2>1, <2>2, <2>3, QuietIsGood
<1>7. UNCHANGED vars => GoodStep
    BY <1>2 DEF vars, loopVars, lineVars, historyVars
<1> QED BY <1>3, <1>4, <1>5, <1>6, <1>7

\* A Hello sends what is queued.
LEMMA HelloIsGood ==
    ASSUME FriendInv, TypeInv', NEW p \in Peers, HelloArrives(p)
    PROVE  GoodStep
<1>1. PICK q \in Peers : RecordHello(p, q)
    BY DEF HelloArrives
<1>2. Flush(p, q, pending[p], net) /\ UNCHANGED <<tableVars, command, queue, asked>>
    BY <1>1 DEF RecordHello, historyVars
<1>3. WiredOnce /\ Spoken(net) /\ TypeOK /\ TypeOK'
    BY DEF FriendInv, WayInv, Spoken, TypeInv
<1>4. NoRequestAdded /\ NewsIsTrue
    BY <1>2, <1>3, FlushIsTrue
<1>5. NoRequestQueued
    BY <1>2 DEF NoRequestQueued
<1> QED BY <1>2, <1>4, <1>5, QuietIsGood

-----------------------------------------------------------------------------
(* Steps of the user.                                                      *)

\* Nothing is known of a request nobody has asked.
LEMMA UnaskedIsNowhere ==
    ASSUME FriendInv, NEW r \in Requests, asked[r] = NoAsk
    PROVE  /\ \A p \in Peers : rows[p][r] = NoRow
           /\ ~Wired(r)
           /\ \A p \in Peers, i \in Nat : ~QueuedAt(p, i, r)
<1>1. \A a, b : <<a, b>> # asked[r]
    BY DEF NoAsk
<1>2. \A p \in Peers : RowIsAsked(p, r)
    BY DEF FriendInv, WayInv, RowsAreAsked
<1>3. \A p \in Peers : rows[p][r] = NoRow
    BY <1>1, <1>2 DEF RowIsAsked
<1>4. ~Wired(r)
    BY <1>1 DEF FriendInv, WayInv, WiredOnce, Wired
<1>5. \A p \in Peers, i \in Nat : ~QueuedAt(p, i, r)
    BY <1>1 DEF FriendInv, WayInv, QueuedOnce
<1> QED BY <1>3, <1>4, <1>5

LEMMA BeginSendIsGood ==
    ASSUME FriendInv, TypeInv', NEW p \in Peers, NEW q \in Peers, NEW r \in Requests,
           BeginSend(p, q, r)
    PROVE  GoodStep
<1>1. /\ UNCHANGED <<tableVars, queue, net>>
      /\ asked' = [asked EXCEPT ![r] = <<p, q>>]
      /\ command' = [command EXCEPT ![p] = r]
      /\ asked[r] = NoAsk /\ p # q
    BY DEF BeginSend, loopVars, lineVars
<1>2. /\ asked \in [Requests -> {NoAsk} \union (Peers \X Peers)]
      /\ command \in [Peers -> {Idle} \union Requests]
      /\ WiredOnce /\ Spoken(net')
    BY <1>1 DEF FriendInv, TypeInv, TypeOK, WayInv, Spoken
<1>3. /\ \A x \in Peers : rows[x][r] = NoRow
      /\ ~Wired(r)
      /\ \A x \in Peers, i \in Nat : ~QueuedAt(x, i, r)
    BY <1>1, UnaskedIsNowhere
<1>4. \A s \in Requests : s # r => asked'[s] = asked[s]
    BY <1>1, <1>2
<1>5. UNCHANGED <<rows, queue, net>>
    BY <1>1 DEF tableVars
<1>6. \A s \in Requests : /\ Wired(s)' = Wired(s)
                          /\ \A x \in Peers, i \in Nat : QueuedAt(x, i, s)' = QueuedAt(x, i, s)
    BY <1>5 DEF Wired, QueuedAt
<1>7. AskedOfAnother' /\ RowsAreAsked'
    <2>1. AskedOfAnother'
        BY <1>1, <1>2, <1>4 DEF AskedOfAnother, FriendInv, WayInv
    <2>2. RowsAreAsked'
        BY <1>3, <1>4, <1>5 DEF RowsAreAsked, RowIsAsked, FriendInv, WayInv
    <2> QED BY <2>1, <2>2
<1>8. CommandIsFirst'
    <2> SUFFICES ASSUME NEW x \in Peers, command'[x] # Idle
                 PROVE  /\ \A y \in Peers : rows'[y][command'[x]] = NoRow
                        /\ ~Wired(command[x])'
                        /\ \A y \in Peers, i \in Nat : ~QueuedAt(y, i, command[x])'
        BY DEF CommandIsFirst
    <2>1. CASE x = p
        BY <1>1, <1>2, <1>3, <1>5, <2>1 DEF Wired, QueuedAt
    <2>2. CASE x # p
        <3>1. command'[x] = command[x]
            BY <1>1, <1>2, <2>2
        <3> QED BY <1>5, <3>1 DEF FriendInv, WayInv, CommandIsFirst, Wired, QueuedAt
    <2> QED BY <2>1, <2>2
<1>9. QueuedOnce'
    BY <1>3, <1>4, <1>5, <1>6 DEF FriendInv, WayInv, QueuedOnce
<1>10. WiredOnce'
    <2>1. \A m \in net : m.type = "request" => m.id # r /\ m.id \in Requests
        BY <1>3, MessageParts DEF Wired, FriendInv, TypeInv, TypeOK
    <2> QED BY <1>2, <1>4, <1>5, <2>1 DEF WiredOnce
<1>11. OutcomeStep /\ NewsIsTrue
    BY <1>1, <1>2, QuietTables, SpokenIsTrue
<1> QED BY <1>7, <1>8, <1>9, <1>10, <1>11, OutcomeKept DEF GoodStep, FriendInv, WayInv

\* A request that is stored is the only one of its identifier, and queued once.
LEMMA StoringIsGood ==
    ASSUME FriendInv, TypeInv', NEW p \in Peers, StoreRequest(p)
    PROVE  GoodStep
<1>0. PICK r \in Requests, q \in Peers : r = command[p] /\ r # Idle /\ q = asked[r][2]
    BY DEF StoreRequest, FriendInv, TypeInv, TypeOK, CommandAsked
<1>1. /\ asked[r] = <<p, q>> /\ p # q
      /\ UNCHANGED <<net, asked>>
      /\ command' = [command EXCEPT ![p] = Idle]
    BY <1>0 DEF StoreRequest, FriendInv, TypeInv, TypeOK, CommandAsked, WayInv, AskedOfAnother,
           lineVars, historyVars
<1>2. /\ \A x \in Peers : rows[x][r] = NoRow
      /\ ~Wired(r)
      /\ \A x \in Peers, i \in Nat : ~QueuedAt(x, i, r)
    BY <1>0 DEF FriendInv, WayInv, CommandIsFirst
<1>3. /\ WiredOnce /\ Spoken(net')
      /\ command \in [Peers -> {Idle} \union Requests]
      /\ rows \in [Peers -> [Requests -> Rows]]
      /\ queue \in [Peers -> Seq(Commands)]
    BY <1>1 DEF FriendInv, TypeInv, TypeOK, WayInv, Spoken
<1>4. NoRequestAdded /\ NewsIsTrue
    BY <1>3, SpokenIsTrue
<1>5. CASE UNCHANGED <<tableVars, queue>>
    <2>1. NoRequestQueued
        BY <1>1, <1>3, <1>5 DEF NoRequestQueued
    <2> QED BY <1>1, <1>4, <1>5, <2>1, QuietIsGood
<1>6. CASE /\ PutRow(p, r, Row(q, "outgoing", "pending"))
           /\ queue' = [queue EXCEPT ![p] = Append(@, Send(q, r))]
    <2>1. /\ rows' = [rows EXCEPT ![p][r] = Row(q, "outgoing", "pending")]
          /\ UNCHANGED <<friends, decisions>>
        BY <1>6 DEF PutRow
    <2>2. /\ rows'[p][r] = Row(q, "outgoing", "pending")
          /\ \A x \in Peers, s \in Requests :
                 x # p \/ s # r => rows'[x][s] = rows[x][s]
        BY <1>1, <1>3, <2>1
    <2>3. OutcomeStep
        <3>1. ResolvedStays
            BY <1>2, <2>2, NoRowStatus DEF ResolvedStays, Outcomes
        <3>2. NewIsRecorded
            BY <2>2, RowFields DEF NewIsRecorded, Outcomes
        <3>3. RemovedStays
            <4>1. \A x \in Peers, o \in Outcomes : ~Incoming(x, p, r, o)
                BY <1>2, RowFields DEF Incoming
            <4> QED BY <2>2, <4>1 DEF RemovedStays
        <3> QED BY <2>1, <3>1, <3>2, <3>3 DEF OutcomeStep, FriendsStay, QueueIsTrue
    <2>4. /\ \A x \in Peers, i \in Nat, s \in Requests : x # p =>
                 QueuedAt(x, i, s)' = QueuedAt(x, i, s) /\ queue'[x] = queue[x]
          /\ \A i \in Nat, s \in Requests : QueuedAt(p, i, s)' =>
                 \/ QueuedAt(p, i, s) /\ queue'[p][i] = queue[p][i]
                 \/ i = Len(queue[p]) + 1 /\ s = r /\ queue'[p][i] = Send(q, r)
        <3>1. queue'[p] = Append(queue[p], Send(q, r)) /\ \A x \in Peers : x # p => queue'[x] = queue[x]
            BY <1>3, <1>6
        <3>2. queue[p] \in Seq(Commands) /\ Len(queue[p]) \in Nat
            BY <1>3
        <3>3. /\ Len(queue'[p]) = Len(queue[p]) + 1
              /\ \A i \in 1..Len(queue[p]) : queue'[p][i] = queue[p][i]
              /\ queue'[p][Len(queue[p]) + 1] = Send(q, r)
            BY <1>1, <3>1, <3>2, SentTypes
        <3>4. Send(q, r).id = r
            BY DEF Send
        <3>5. ASSUME NEW x \in Peers, NEW i \in Nat, NEW s \in Requests, x # p
              PROVE  QueuedAt(x, i, s)' = QueuedAt(x, i, s) /\ queue'[x] = queue[x]
            BY <3>1, <3>5 DEF QueuedAt
        <3>6. ASSUME NEW i \in Nat, NEW s \in Requests, QueuedAt(p, i, s)'
              PROVE  \/ QueuedAt(p, i, s) /\ queue'[p][i] = queue[p][i]
                     \/ i = Len(queue[p]) + 1 /\ s = r /\ queue'[p][i] = Send(q, r)
            <4>1. i \in 1..(Len(queue[p]) + 1)
                BY <3>3, <3>6 DEF QueuedAt
            <4>2. CASE i = Len(queue[p]) + 1
                BY <3>3, <3>4, <3>6, <4>2 DEF QueuedAt
            <4>3. CASE i \in 1..Len(queue[p])
                BY <3>3, <3>6, <4>3 DEF QueuedAt
            <4> QED BY <3>2, <4>1, <4>2, <4>3
        <3> QED BY <3>5, <3>6
    <2>5. AskedOfAnother'
        BY <1>1 DEF FriendInv, WayInv, AskedOfAnother
    <2>6. RowsAreAsked'
        <3>1. RowIsAsked(p, r)'
            BY <1>1, <2>2, RowFields DEF RowIsAsked
        <3>2. \A x \in Peers, s \in Requests : RowIsAsked(x, s)
            BY DEF FriendInv, WayInv, RowsAreAsked
        <3>3. \A x \in Peers, s \in Requests : x # p \/ s # r => RowIsAsked(x, s)'
            BY <1>1, <2>2, <3>2 DEF RowIsAsked
        <3> QED BY <3>1, <3>3 DEF RowsAreAsked
    <2>7. CommandIsFirst'
        <3> SUFFICES ASSUME NEW x \in Peers, command'[x] # Idle
                     PROVE  /\ \A y \in Peers : rows'[y][command'[x]] = NoRow
                            /\ ~Wired(command[x])'
                            /\ \A y \in Peers, i \in Nat : ~QueuedAt(y, i, command[x])'
            BY DEF CommandIsFirst
        <3>1. x # p /\ command'[x] = command[x] /\ command[x] \in Requests
            BY <1>1, <1>3
        <3>2. command[x] # r
            BY <1>0, <1>1, <3>1 DEF FriendInv, TypeInv, CommandAsked
        <3>3. /\ \A y \in Peers : rows[y][command[x]] = NoRow
              /\ ~Wired(command[x])
              /\ \A y \in Peers, i \in Nat : ~QueuedAt(y, i, command[x])
            BY <3>1 DEF FriendInv, WayInv, CommandIsFirst
        <3>4. \A y \in Peers : rows'[y][command[x]] = NoRow
            BY <2>2, <3>1, <3>2, <3>3
        <3>5. ~Wired(command[x])'
            BY <1>1, <3>1, <3>3 DEF Wired
        <3>6. ASSUME NEW y \in Peers, NEW i \in Nat, QueuedAt(y, i, command[x])' PROVE FALSE
            <4> DEFINE s == command[x]
            <4>1. QueuedAt(y, i, s)'
                BY <3>1, <3>6 DEF QueuedAt
            <4>2. QueuedAt(y, i, s) \/ s = r
                BY <2>4, <3>1, <3>6 DEF QueuedAt
            <4> QED BY <3>2, <3>3, <4>2
        <3> QED BY <3>1, <3>4, <3>5, <3>6
    <2>8. QueuedOnce'
        <3> SUFFICES ASSUME NEW x \in Peers, NEW i \in Nat, NEW s \in Requests, QueuedAt(x, i, s)'
                     PROVE  /\ asked[s] = <<x, queue'[x][i].peer>>
                            /\ rows'[queue'[x][i].peer][s] = NoRow
                            /\ ~Wired(s)'
                            /\ \A j \in Nat : QueuedAt(x, j, s)' => i = j
            BY <1>1 DEF QueuedOnce
        <3>1. CASE QueuedAt(x, i, s) /\ queue'[x][i] = queue[x][i]
            <4>1. s # r
                BY <1>2, <3>1
            <4>2. /\ asked[s] = <<x, queue[x][i].peer>>
                  /\ rows[queue[x][i].peer][s] = NoRow
                  /\ ~Wired(s)
                  /\ \A j \in Nat : QueuedAt(x, j, s) => i = j
                BY <3>1 DEF FriendInv, WayInv, QueuedOnce
            <4>3. queue[x][i] \in Commands /\ queue[x][i].op = "send"
                BY <1>3, <3>1 DEF QueuedAt
            <4>4. queue[x][i].peer \in Peers
                BY <4>3 DEF Commands
            <4>5. \A j \in Nat : QueuedAt(x, j, s)' => QueuedAt(x, j, s)
                BY <2>4, <4>1
            <4>6. ~Wired(s)'
                BY <1>1, <4>2 DEF Wired
            <4> QED BY <2>2, <3>1, <4>1, <4>2, <4>4, <4>5, <4>6
        <3>2. CASE x = p /\ i = Len(queue[p]) + 1 /\ s = r /\ queue'[p][i] = Send(q, r)
            <4>1. queue'[p][i].peer = q
                BY <3>2 DEF Send
            <4>2. ~Wired(r)'
                BY <1>1, <1>2 DEF Wired
            <4>3. \A j \in Nat : QueuedAt(p, j, r)' => j = Len(queue[p]) + 1
                BY <1>1, <1>2, <2>4
            <4> QED BY <1>1, <1>2, <2>2, <3>2, <4>1, <4>2, <4>3
        <3> QED BY <2>4, <3>1, <3>2
    <2>9. WiredOnce'
        <3>1. \A m \in net : m.type = "request" =>
                  m.id # r /\ m.id \in Requests /\ m.to \in Peers
            BY <1>2, MessageParts DEF Wired, FriendInv, TypeInv, TypeOK
        <3> QED BY <1>1, <1>3, <2>2, <3>1 DEF WiredOnce
    <2> QED BY <1>4, <2>3, <2>5, <2>6, <2>7, <2>8, <2>9, OutcomeKept DEF GoodStep, FriendInv, WayInv
<1> QED BY <1>0, <1>5, <1>6 DEF StoreRequest

\* One row resolved changes no other.
LEMMA ResolveRowEffect ==
    ASSUME TypeOK, NEW p \in Peers, NEW r \in Requests, NEW outcome \in Outcomes,
           rows[p][r] # NoRow, ResolveRow(p, r, outcome)
    PROVE  /\ rows'[p][r] = Row(rows[p][r].peer, rows[p][r].direction, outcome)
           /\ \A x \in Peers, s \in Requests :
                  x # p \/ s # r => /\ rows'[x][s] = rows[x][s]
                                    /\ decisions'[x][s] = decisions[x][s]
           /\ decisions'[p][r] = IF rows[p][r].direction = "incoming"
                                 THEN outcome ELSE decisions[p][r]
           /\ FriendsStay
           /\ outcome = "accepted" => rows[p][r].peer \in friends'[p]
           /\ \A x \in Peers, s \in Requests : rows'[x][s] = NoRow \/ SameRequest(x, s)
<1> DEFINE row == rows[p][r]
<1>1. /\ rows' = [rows EXCEPT ![p][r] = [row EXCEPT !.status = outcome]]
      /\ friends' = [friends EXCEPT ![p] =
                       IF outcome = "accepted" THEN @ \union {row.peer} ELSE @]
      /\ decisions' = IF row.direction = "incoming"
                      THEN [decisions EXCEPT ![p][r] = outcome]
                      ELSE decisions
    BY DEF ResolveRow
<1>2. [row EXCEPT !.status = outcome] = Row(row.peer, row.direction, outcome)
    BY RowIs, RowParts
<1>3. /\ rows \in [Peers -> [Requests -> Rows]]
      /\ friends \in [Peers -> SUBSET Peers]
      /\ decisions \in [Peers -> [Requests -> {"none"} \union Outcomes]]
    BY DEF TypeOK
<1> HIDE DEF row
<1>4. /\ rows'[p][r] = Row(row.peer, row.direction, outcome)
      /\ \A x \in Peers, s \in Requests :
             x # p \/ s # r => /\ rows'[x][s] = rows[x][s]
                               /\ decisions'[x][s] = decisions[x][s]
      /\ decisions'[p][r] = IF row.direction = "incoming" THEN outcome ELSE decisions[p][r]
    BY <1>1, <1>2, <1>3
<1>5. FriendsStay /\ (outcome = "accepted" => row.peer \in friends'[p])
    BY <1>1, <1>3 DEF FriendsStay
<1>6. \A x \in Peers, s \in Requests : rows'[x][s] = NoRow \/ SameRequest(x, s)
    <2>1. SameRequest(p, r)
        BY <1>4, RowFields DEF SameRequest, row
    <2> QED BY <1>4, <2>1 DEF SameRequest
<1> QED BY <1>4, <1>5, <1>6 DEF row

\* The user decides an incoming request once.
LEMMA DecidingIsGood ==
    ASSUME FriendInv, TypeInv', NEW p \in Peers, NEW r \in Requests,
           NEW outcome \in Outcomes, ResolveRequest(p, r, outcome)
    PROVE  GoodStep
<1>0. /\ TypeOK /\ WiredOnce
      /\ queue \in [Peers -> Seq(Commands)]
    BY DEF FriendInv, TypeInv, TypeOK, WayInv
<1>1. /\ rows[p][r].status = "pending" /\ rows[p][r].direction = "incoming"
      /\ ResolveRow(p, r, outcome)
      /\ UNCHANGED <<command, net, asked>>
      /\ queue' = IF CanQueue(p)
                  THEN [queue EXCEPT ![p] = Append(@, Resolve(rows[p][r].peer))]
                  ELSE queue
    BY DEF ResolveRequest, lineVars
<1>2. rows[p][r] # NoRow /\ rows[p][r].peer \in Peers
    BY <1>0, <1>1, RowIs, NoRowStatus
<1>3. /\ rows'[p][r] = Row(rows[p][r].peer, "incoming", outcome)
      /\ \A x \in Peers, s \in Requests :
             x # p \/ s # r => rows'[x][s] = rows[x][s] /\ decisions'[x][s] = decisions[x][s]
      /\ decisions'[p][r] = outcome
      /\ FriendsStay
      /\ outcome = "accepted" => rows[p][r].peer \in friends'[p]
      /\ \A x \in Peers, s \in Requests : rows'[x][s] = NoRow \/ SameRequest(x, s)
    BY <1>0, <1>1, <1>2, ResolveRowEffect
<1>4. NoRequestQueued
    BY <1>0, <1>1, <1>2 DEF NoRequestQueued
<1>5. NoRequestAdded /\ NewsIsTrue
    BY <1>0, <1>1, SpokenIsTrue DEF Spoken
<1>6. OutcomeStep
    <2>1. ResolvedStays
        BY <1>1, <1>3 DEF ResolvedStays, Outcomes
    <2>2. NewIsRecorded
        BY <1>3, RowFields DEF NewIsRecorded
    <2>3. QueueIsTrue
        BY <1>3, RowFields DEF QueueIsTrue
    <2>4. RemovedStays
        BY <1>2, <1>3 DEF RemovedStays
    <2> QED BY <1>3, <2>1, <2>2, <2>3, <2>4 DEF OutcomeStep
<1> QED BY <1>1, <1>3, <1>4, <1>5, <1>6, StepIsGood

-----------------------------------------------------------------------------
(* Steps of the loop.                                                      *)

\* A request that leaves the channel is on the wire once.
LEMMA TakingIsGood ==
    ASSUME FriendInv, TypeInv', NEW p \in Peers, TakeCommand(p)
    PROVE  GoodStep
<1>0. PICK c \in Commands : c = Head(queue[p])
    BY DEF TakeCommand, FriendInv, TypeInv, TypeOK
<1>1. /\ queue[p] # <<>> /\ queue' = [queue EXCEPT ![p] = Tail(@)]
      /\ UNCHANGED <<tableVars, command, asked>>
    BY DEF TakeCommand, historyVars
<1>2. /\ TypeOK /\ TypeOK' /\ WiredOnce /\ WayInv
      /\ queue \in [Peers -> Seq(Commands)]
      /\ command \in [Peers -> {Idle} \union Requests]
    BY DEF FriendInv, TypeInv, TypeOK, WayInv
<1>3. NoRequestQueued
    BY <1>1, <1>2 DEF NoRequestQueued
<1>4. c.peer \in Peers /\ (c.op = "send" => c.id \in Requests)
    BY DEF Commands
<1>5. CASE net' = net
    BY <1>1, <1>2, <1>3, <1>5, SpokenIsTrue, QuietIsGood DEF Spoken
<1>6. CASE Flush(p, c.peer, pending[p], net)
    <2>1. NoRequestAdded /\ NewsIsTrue
        BY <1>2, <1>4, <1>6, FlushIsTrue DEF Spoken
    <2> QED BY <1>1, <1>3, <2>1, QuietIsGood
<1>7. CASE c.op = "send" /\ net' = net \union {Request(p, c.peer, c.id)}
    <2>1. PICK r \in Requests, q \in Peers : r = c.id /\ q = c.peer
        BY <1>4, <1>7
    <2>2. /\ QueuedAt(p, 1, r) /\ queue[p][1].peer = q
          /\ \A i \in 1..Len(Tail(queue[p])) :
                 i + 1 \in 1..Len(queue[p]) /\ Tail(queue[p])[i] = queue[p][i + 1]
        <3>1. /\ queue[p] \in Seq(Commands) /\ queue[p] # <<>>
            BY <1>1, <1>2
        <3>2. 1 \in 1..Len(queue[p]) /\ queue[p][1] = c
            BY <1>0, <3>1
        <3> QED BY <1>7, <2>1, <3>1, <3>2 DEF QueuedAt
    <2>3. /\ asked[r] = <<p, q>>
          /\ rows[q][r] = NoRow
          /\ ~Wired(r)
          /\ \A j \in Nat : QueuedAt(p, j, r) => j = 1
        BY <1>2, <2>2 DEF WayInv, QueuedOnce
    <2>4. /\ UNCHANGED <<rows, command, asked>>
          /\ net' = net \union {Request(p, q, r)}
          /\ Request(p, q, r).type = "request" /\ Request(p, q, r).id = r
          /\ Request(p, q, r).from = p /\ Request(p, q, r).to = q
        BY <1>1, <1>7, <2>1 DEF tableVars, Request
    <2>5. \A s \in Requests : Wired(s)' => Wired(s) \/ s = r
        BY <2>4 DEF Wired
    <2>6. /\ \A x \in Peers, i \in Nat, s \in Requests : x # p =>
                 QueuedAt(x, i, s)' = QueuedAt(x, i, s) /\ queue'[x] = queue[x]
          /\ \A i \in Nat, s \in Requests : QueuedAt(p, i, s)' =>
                 QueuedAt(p, i + 1, s) /\ queue'[p][i] = queue[p][i + 1]
        <3>1. queue'[p] = Tail(queue[p]) /\ \A x \in Peers : x # p => queue'[x] = queue[x]
            BY <1>1, <1>2
        <3> QED BY <2>2, <3>1 DEF QueuedAt
    <2>7. \A x \in Peers, i \in Nat : ~QueuedAt(x, i, r)'
        <3>1. ASSUME NEW i \in Nat, QueuedAt(p, i, r)' PROVE FALSE
            <4>1. QueuedAt(p, i + 1, r) /\ i \in 1..Len(queue'[p])
                BY <2>6, <3>1 DEF QueuedAt
            <4> QED BY <2>3, <4>1
        <3>2. ASSUME NEW x \in Peers, NEW i \in Nat, x # p, QueuedAt(x, i, r)' PROVE FALSE
            <4>1. QueuedAt(x, i, r)
                BY <2>6, <3>2
            <4>2. asked[r] = <<x, queue[x][i].peer>>
                BY <1>2, <4>1 DEF WayInv, QueuedOnce
            <4> QED BY <2>3, <3>2, <4>2
        <3> QED BY <3>1, <3>2
    <2>8. AskedOfAnother' /\ RowsAreAsked'
        BY <1>2, <2>4 DEF WayInv, AskedOfAnother, RowsAreAsked, RowIsAsked
    <2>9. CommandIsFirst'
        <3> SUFFICES ASSUME NEW x \in Peers, command'[x] # Idle
                     PROVE  /\ \A y \in Peers : rows'[y][command'[x]] = NoRow
                            /\ ~Wired(command[x])'
                            /\ \A y \in Peers, i \in Nat : ~QueuedAt(y, i, command[x])'
            BY DEF CommandIsFirst
        <3>1. PICK s \in Requests : s = command[x] /\ s = command'[x] /\ s # Idle
            BY <1>2, <2>4
        <3>2. /\ \A y \in Peers : rows[y][s] = NoRow
              /\ ~Wired(s)
              /\ \A y \in Peers, i \in Nat : ~QueuedAt(y, i, s)
            BY <1>2, <3>1 DEF WayInv, CommandIsFirst
        <3>3. s # r
            BY <2>2, <3>2
        <3>4. ~Wired(s)' /\ \A y \in Peers, i \in Nat : ~QueuedAt(y, i, s)'
            BY <2>5, <2>6, <3>2, <3>3
        <3> QED BY <2>4, <3>1, <3>2, <3>4 DEF Wired, QueuedAt
    <2>10. QueuedOnce'
        <3> SUFFICES ASSUME NEW x \in Peers, NEW i \in Nat, NEW s \in Requests, QueuedAt(x, i, s)'
                     PROVE  /\ asked[s] = <<x, queue'[x][i].peer>>
                            /\ rows[queue'[x][i].peer][s] = NoRow
                            /\ ~Wired(s)'
                            /\ \A j \in Nat : QueuedAt(x, j, s)' => i = j
            BY <2>4 DEF QueuedOnce
        <3>1. s # r
            BY <2>7
        <3>2. PICK k \in Nat : QueuedAt(x, k, s) /\ queue'[x][i] = queue[x][k]
            BY <2>6
        <3>3. /\ asked[s] = <<x, queue[x][k].peer>>
              /\ rows[queue[x][k].peer][s] = NoRow
              /\ ~Wired(s)
              /\ \A j \in Nat : QueuedAt(x, j, s) => k = j
            BY <1>2, <3>2 DEF WayInv, QueuedOnce
        <3>4. \A j \in Nat : QueuedAt(x, j, s)' => i = j
            <4>1. CASE x = p
                <5>1. \A j \in Nat : QueuedAt(p, j, s)' => j + 1 = k
                    BY <2>6, <3>3, <4>1
                <5> QED BY <4>1, <5>1
            <4>2. CASE x # p
                BY <2>6, <3>3, <4>2
            <4> QED BY <4>1, <4>2
        <3> QED BY <2>5, <3>1, <3>2, <3>3, <3>4
    <2>11. WiredOnce'
        <3>1. \A m \in net : m.type = "request" => m.id # r
            BY <2>3 DEF Wired
        <3> QED BY <1>2, <2>3, <2>4, <3>1 DEF WiredOnce, OnlyRequest
    <2>12. NewsIsTrue
        BY <2>4 DEF NewsIsTrue, Inherits
    <2> QED BY <1>1, <2>8, <2>9, <2>10, <2>11, <2>12, QuietTables, OutcomeKept
        DEF GoodStep, FriendInv, WayInv
<1> QED BY <1>0, <1>5, <1>6, <1>7 DEF TakeCommand

\* Only a pending request is removed.
LEMMA RemovalIsGood ==
    ASSUME TypeOK, NEW p \in Peers, NEW r \in Requests,
           RemovePendingOutgoing(p, r) \/ UNCHANGED tableVars
    PROVE  /\ OutcomeStep
           /\ \A x \in Peers, s \in Requests : rows'[x][s] = NoRow \/ SameRequest(x, s)
<1>1. rows \in [Peers -> [Requests -> Rows]]
    BY DEF TypeOK
<1>2. /\ \A x \in Peers, s \in Requests :
             \/ rows'[x][s] = rows[x][s]
             \/ rows'[x][s] = NoRow /\ rows[x][s].status = "pending"
      /\ UNCHANGED <<friends, decisions>>
    BY <1>1 DEF RemovePendingOutgoing, tableVars
<1>3. ResolvedStays /\ NewIsRecorded /\ RemovedStays
    BY <1>2, NoRowStatus DEF ResolvedStays, NewIsRecorded, RemovedStays, Outcomes
<1> QED BY <1>2, <1>3 DEF OutcomeStep, FriendsStay, QueueIsTrue, SameRequest

\* A failed exchange is given up.
LEMMA FailingIsGood ==
    ASSUME FriendInv, TypeInv', NEW p \in Peers, NEW w \in pending[p],
           LostFails(p, w) \/ TimesOut(p, w)
    PROVE  GoodStep
<1>1. /\ TypeOK /\ WiredOnce /\ w \in Awaits
    BY DEF FriendInv, TypeInv, TypeOK, WayInv
<1>2. w.id \in Requests
    BY <1>1 DEF Awaits
<1>3. /\ ExchangeFails(p, w)
      /\ UNCHANGED <<command, queue, asked>>
    BY DEF LostFails, TimesOut, ExchangeFails, historyVars
<1>4. NoRequestAdded /\ NewsIsTrue
    <2>1. CASE LostFails(p, w)
        BY <1>1, <2>1, SpokenIsTrue DEF LostFails, Spoken
    <2>2. CASE TimesOut(p, w)
        BY <1>1, <2>2, TimesOutKeeps, CarriedIsNoNews
    <2> QED BY <2>1, <2>2
<1>5. NoRequestQueued
    BY <1>3 DEF NoRequestQueued
<1>6. RemovePendingOutgoing(p, w.id) \/ UNCHANGED tableVars
    BY <1>3 DEF ExchangeFails
<1> QED BY <1>1, <1>2, <1>3, <1>4, <1>5, <1>6, RemovalIsGood, StepIsGood

\* A request that is taken is no longer on the wire.
LEMMA TakenIsGone ==
    ASSUME FriendInv, TypeInv', NEW p \in Peers, NEW m \in net, m.to = p, m.type = "request",
           NEW ok, NEW flushed, RequestTaken(p, m, ok, flushed), UNCHANGED command
    PROVE  NoRequestAdded /\ NewsIsTrue /\ NoRequestQueued /\ ~Wired(m.id)'
<1>0. TypeOK /\ TypeOK' /\ WiredOnce /\ m \in Messages
    BY DEF FriendInv, TypeInv, TypeOK, WayInv
<1>1. CASE /\ queue' = queue
           /\ IF flushed
              THEN Flush(p, m.from, pending[p], Answered(p, m, ok))
              ELSE net' = Answered(p, m, ok)
    <2> DEFINE msgs == Answered(p, m, ok)
    <2>1. \A n \in msgs : \/ n \in net /\ n # m
                          \/ n.type = "answer" /\ n.of = "request"
        BY DEF Answered, Answer
    <2> HIDE DEF msgs
    <2>2. Spoken(msgs)
        BY <2>1 DEF Spoken
    <2>3. /\ NoRequestAdded /\ NewsIsTrue
          /\ \A n \in net' : n.type = "request" => n \in msgs
        <3>1. CASE flushed
            <4>1. Flush(p, m.from, pending[p], msgs)
                BY <1>1, <3>1 DEF msgs
            <4>2. m.from \in Peers
                BY <1>0, MessageParts
            <4> QED BY <1>0, <2>2, <4>1, <4>2, FlushIsTrue
        <3>2. CASE ~flushed
            <4>1. net' = msgs
                BY <1>1, <3>2 DEF msgs
            <4> QED BY <1>0, <2>2, <4>1, SpokenIsTrue
        <3> QED BY <3>1, <3>2
    <2>4. ~Wired(m.id)'
        BY <1>0, <2>1, <2>3 DEF Wired, WiredOnce, OnlyRequest
    <2>5. NoRequestQueued
        BY <1>1 DEF NoRequestQueued
    <2> QED BY <2>3, <2>4, <2>5
<1>2. CASE TakenTooLate(p, m)
    <2>1. /\ NoRequestAdded /\ NewsIsTrue /\ NoRequestQueued
          /\ \A n \in net' : n.to # p
        BY <1>2, LoopEndIsQuiet DEF TakenTooLate, LoopStops
    <2>2. ~Wired(m.id)'
        BY <1>0, <2>1 DEF Wired, WiredOnce, OnlyRequest, NoRequestAdded, Inherits
    <2> QED BY <2>1, <2>2
<1> QED BY <1>1, <1>2 DEF RequestTaken

\* A request that arrives is stored once, in the name of its sender.
LEMMA RequestIsGood ==
    ASSUME FriendInv, TypeInv', NEW p \in Peers, NEW m \in net, RequestArrives(p, m)
    PROVE  GoodStep
<1>0. PICK q \in Peers, r \in Requests : q = m.from /\ r = m.id
    BY MessageParts DEF FriendInv, TypeInv, TypeOK
<1>1. /\ m.to = p /\ m.type = "request"
      /\ UNCHANGED <<command, asked>>
      /\ \E ok, flushed : RequestTaken(p, m, ok, flushed)
    BY DEF RequestArrives, historyVars
<1>2. NoRequestAdded /\ NewsIsTrue /\ NoRequestQueued /\ ~Wired(r)'
    BY <1>0, <1>1, TakenIsGone
<1>3. /\ rows[p][r] = NoRow
      /\ rows \in [Peers -> [Requests -> Rows]]
      /\ decisions \in [Peers -> [Requests -> {"none"} \union Outcomes]]
    BY <1>0, <1>1 DEF FriendInv, WayInv, WiredOnce, TypeInv, TypeOK
<1>4. CASE UNCHANGED tableVars
    BY <1>1, <1>2, <1>4, QuietIsGood
<1>5. CASE \/ ReconcileExistingFriend(p, q, r)
           \/ PutRow(p, r, Row(q, "incoming", "pending"))
    <2>1. PICK s \in {"pending", "accepted"} :
              /\ rows' = [rows EXCEPT ![p][r] = Row(q, "incoming", s)]
              /\ UNCHANGED friends
              /\ \/ s = "pending" /\ UNCHANGED decisions
                 \/ /\ s = "accepted" /\ q \in friends[p]
                    /\ decisions' = [decisions EXCEPT ![p][r] = "accepted"]
        BY <1>5 DEF ReconcileExistingFriend, PutRow
    <2>2. /\ rows'[p][r] = Row(q, "incoming", s)
          /\ \A x \in Peers, t \in Requests :
                 x # p \/ t # r => /\ rows'[x][t] = rows[x][t]
                                   /\ decisions'[x][t] = decisions[x][t]
          /\ s = "accepted" => decisions'[p][r] = "accepted"
          /\ s = "pending" => decisions'[p][r] = decisions[p][r]
        BY <1>3, <2>1
    <2>3. /\ rows'[p][r] # NoRow /\ rows'[p][r].peer = q
          /\ rows'[p][r].direction = "incoming" /\ rows'[p][r].status = s
        BY <2>2, RowFields DEF Outcomes
    <2>4. Delivered(p, r)
        BY <1>0, <1>1, <1>2, <2>3 DEF Delivered
    <2>5. \A x \in Peers, t \in Requests :
              rows'[x][t] = NoRow \/ SameRequest(x, t) \/ Delivered(x, t)
        BY <2>2, <2>4 DEF SameRequest
    <2>6. OutcomeStep
        <3>1. ResolvedStays
            BY <1>3, <2>2, NoRowStatus DEF ResolvedStays, Outcomes
        <3>2. NewIsRecorded
            BY <2>1, <2>2, <2>3 DEF NewIsRecorded, Outcomes
        <3>3. QueueIsTrue
            BY <2>1, <2>2, <2>3 DEF QueueIsTrue
        <3>4. RemovedStays
            <4> SUFFICES ASSUME NEW x \in Peers, NEW o \in Outcomes,
                                rows[x][r] = Row(p, "incoming", o)
                         PROVE  FALSE
                BY <2>2 DEF RemovedStays, Incoming
            <4>1. RowIsAsked(x, r) /\ asked[r] = <<q, p>>
                BY <1>0, <1>1 DEF FriendInv, WayInv, RowsAreAsked, WiredOnce
            <4>2. asked[r] = <<p, x>>
                BY <4>1, RowFields DEF RowIsAsked
            <4> QED BY <4>1, <4>2 DEF FriendInv, WayInv, AskedOfAnother, NoAsk
        <3> QED BY <2>1, <3>1, <3>2, <3>3, <3>4 DEF OutcomeStep, FriendsStay
    <2> QED BY <1>1, <1>2, <2>5, <2>6, StepIsGood
<1> QED BY <1>0, <1>4, <1>5 DEF RequestArrives

\* A decision that arrives is the one recorded, and its answer tells the truth.
LEMMA DecisionIsGood ==
    ASSUME FriendInv, TypeInv', NEW p \in Peers, NEW m \in net, DecisionArrives(p, m)
    PROVE  GoodStep
<1>0. PICK q \in Peers, r \in Requests, outcome \in Outcomes :
          q = m.from /\ r = m.id /\ outcome = m.outcome
    BY MessageParts DEF FriendInv, TypeInv, TypeOK, DecisionArrives
<1>1. /\ TypeOK /\ WiredOnce /\ m.to = p /\ m.type = "decision"
      /\ UNCHANGED <<command, asked>>
      /\ Incoming(q, p, r, outcome)
    BY <1>0 DEF DecisionArrives, historyVars, FriendInv, TypeInv, WayInv, OutcomeInv, DecisionsTrue
<1>2. asked[r] = <<p, q>> /\ p # q
    <2>1. RowIsAsked(q, r)
        BY DEF FriendInv, WayInv, RowsAreAsked
    <2>2. asked[r] = <<p, q>>
        BY <1>1, <2>1, RowFields DEF RowIsAsked, Incoming
    <2> QED BY <2>2 DEF FriendInv, WayInv, AskedOfAnother, NoAsk
<1>3. rows[p][r] # NoRow => /\ rows[p][r].peer = q /\ rows[p][r].direction = "outgoing"
                            /\ rows[p][r].status \in {"pending", outcome}
    <2> SUFFICES ASSUME rows[p][r] # NoRow
                 PROVE  /\ rows[p][r].peer = q /\ rows[p][r].direction = "outgoing"
                        /\ rows[p][r].status \in {"pending", outcome}
        OBVIOUS
    <2>1. RowIsAsked(p, r)
        BY DEF FriendInv, WayInv, RowsAreAsked
    <2>2. rows[p][r].peer = q /\ rows[p][r].direction = "outgoing"
        BY <1>1, <1>2, <2>1, RowIs DEF RowIsAsked
    <2>3. ASSUME NEW o \in Outcomes, rows[p][r].status = o PROVE o = outcome
        <3>1. Outgoing(p, q, r, o)
            BY <1>1, <2>2, <2>3, RowIs, RowParts DEF Outgoing
        <3>2. Incoming(q, p, r, o)
            BY <3>1 DEF FriendInv, OutcomeInv, SidesAgree, Outcomes
        <3> QED BY <1>1, <3>2, RowFields DEF Incoming
    <2>4. rows[p][r].status \in {"pending"} \union Outcomes
        BY <1>1, RowIs
    <2> QED BY <2>2, <2>3, <2>4
<1> DEFINE ok == CanTakeDecision(p, q, r, outcome)
<1>4. ok <=> rows[p][r] # NoRow
    BY <1>3 DEF CanTakeDecision, CanResolve
<1> HIDE DEF ok
<1>5. /\ OutcomeStep
      /\ \A x \in Peers, s \in Requests : rows'[x][s] = NoRow \/ SameRequest(x, s)
      /\ Told(p, q, r)'
    <2>1. CASE ok
        <3>1. ResolveRow(p, r, outcome)
            BY <1>0, <2>1 DEF DecisionArrives, ok
        <3>2. /\ rows'[p][r] = Row(q, "outgoing", outcome)
              /\ \A x \in Peers, s \in Requests :
                  x # p \/ s # r => /\ rows'[x][s] = rows[x][s]
                                    /\ decisions'[x][s] = decisions[x][s]
              /\ decisions'[p][r] = decisions[p][r]
              /\ FriendsStay
              /\ outcome = "accepted" => q \in friends'[p]
              /\ \A x \in Peers, s \in Requests : rows'[x][s] = NoRow \/ SameRequest(x, s)
            BY <1>1, <1>3, <1>4, <2>1, <3>1, ResolveRowEffect
        <3>3. ResolvedStays
            <4>1. rows[p][r].status \in Outcomes => rows[p][r] = Row(q, "outgoing", outcome)
                BY <1>1, <1>3, <1>4, <2>1, RowIs DEF Outcomes
            <4> QED BY <3>2, <4>1 DEF ResolvedStays
        <3>4. NewIsRecorded
            BY <1>1, <3>2, RowFields DEF NewIsRecorded
        <3>5. QueueIsTrue /\ RemovedStays
            BY <1>4, <2>1, <3>2 DEF QueueIsTrue, RemovedStays
        <3>6. Told(p, q, r)'
            BY <1>1, <1>2, <3>2 DEF Told, Incoming, Outgoing
        <3> QED BY <3>2, <3>3, <3>4, <3>5, <3>6 DEF OutcomeStep
    <2>2. CASE ~ok
        <3>1. UNCHANGED tableVars
            BY <1>0, <2>2 DEF DecisionArrives, ok
        <3>2. \A x \in Peers, s \in Requests : rows'[x][s] = NoRow \/ SameRequest(x, s)
            BY <3>1 DEF tableVars, SameRequest
        <3>3. Told(p, q, r)'
            BY <1>1, <1>4, <2>2, <3>1 DEF Told, Incoming, Outgoing, tableVars
        <3> QED BY <3>1, <3>2, <3>3, QuietTables
    <2> QED BY <2>1, <2>2
<1>6. NoRequestAdded /\ NewsIsTrue /\ NoRequestQueued
    <2>1. CASE net' = Answered(p, m, ok) /\ UNCHANGED loopVars
        <3>1. Spoken(net')
            BY <1>0, <1>1, <1>5, <2>1 DEF Spoken, Answered, Answer
        <3>2. NoRequestQueued
            BY <1>1, <2>1 DEF NoRequestQueued, loopVars
        <3> QED BY <1>1, <3>1, <3>2, SpokenIsTrue
    <2>2. CASE TakenTooLate(p, m)
        BY <1>1, <2>2, LoopEndIsQuiet DEF TakenTooLate, LoopStops
    <2> QED BY <1>0, <2>1, <2>2 DEF DecisionArrives, ok
<1> QED BY <1>1, <1>5, <1>6, StepIsGood

\* An answer retires the decision its sender has taken or can no longer take.
LEMMA AnswerIsGood ==
    ASSUME FriendInv, TypeInv', NEW p \in Peers, NEW m \in net, AnswerArrives(p, m)
    PROVE  GoodStep
<1>0. PICK q \in Peers, r \in Requests : q = m.from /\ r = m.id
    BY MessageParts DEF FriendInv, TypeInv, TypeOK
<1>1. /\ TypeOK /\ TypeOK' /\ WiredOnce /\ m.to = p /\ m.type = "answer"
      /\ UNCHANGED <<command, queue, asked>>
    BY DEF AnswerArrives, historyVars, FriendInv, TypeInv, WayInv
<1>2. NoRequestQueued
    BY <1>1 DEF NoRequestQueued
<1>3. Spoken(net \ {m})
    BY DEF Spoken
<1>4. CASE /\ RemovePendingOutgoing(p, r) \/ UNCHANGED tableVars
           /\ net' = net \ {m}
    <2>1. NoRequestAdded /\ NewsIsTrue
        BY <1>1, <1>3, <1>4, SpokenIsTrue
    <2> QED BY <1>1, <1>2, <1>4, <2>1, RemovalIsGood, StepIsGood
<1>5. CASE /\ m.of = "decision"
           /\ AcknowledgeDecision(p, q, r)
           /\ \E waiting : Flush(p, q, waiting, net \ {m})
    <2>1. NoRequestAdded /\ NewsIsTrue
        BY <1>1, <1>3, <1>5, FlushIsTrue
    <2>2. Told(q, p, r)
        BY <1>0, <1>1, <1>5 DEF FriendInv, OutcomeInv, AnswersTrue
    <2>3. /\ UNCHANGED <<rows, friends>>
          /\ \A x \in Peers, s \in Requests :
                 \/ decisions'[x][s] = decisions[x][s]
                 \/ x = p /\ s = r /\ decisions'[x][s] = "none" /\ rows[p][r].peer = q
        BY <1>1, <1>5 DEF AcknowledgeDecision, TypeOK
    <2>4. OutcomeStep
        BY <2>2, <2>3
        DEF OutcomeStep, ResolvedStays, FriendsStay, NewIsRecorded, QueueIsTrue, RemovedStays
    <2>5. \A x \in Peers, s \in Requests : rows'[x][s] = NoRow \/ SameRequest(x, s)
        BY <2>3 DEF SameRequest
    <2> QED BY <1>1, <1>2, <2>1, <2>4, <2>5, StepIsGood
<1> QED BY <1>0, <1>4, <1>5 DEF AnswerArrives

\* Every step keeps the invariant and the outcomes.
LEMMA EveryStepIsGood ==
    ASSUME FriendInv, [Next]_vars
    PROVE  GoodStep
<1>1. TypeInv'
    BY TypeKept DEF FriendInv
<1>2. ASSUME NEW p \in Peers, LoopStep(p) PROVE GoodStep
    <2>1. CASE MessageArrives(p)
        BY <1>1, <2>1, RequestIsGood, DecisionIsGood, AnswerIsGood DEF MessageArrives
    <2>2. CASE FailureArrives(p)
        BY <1>1, <2>2, FailingIsGood DEF FailureArrives
    <2> QED BY <1>1, <1>2, <2>1, <2>2, TakingIsGood, HelloIsGood DEF LoopStep
<1>3. ASSUME NEW p \in Peers, UserStep(p) PROVE GoodStep
    BY <1>1, <1>3, BeginSendIsGood, StoringIsGood, DecidingIsGood DEF UserStep
<1>4. ASSUME NEW p \in Peers, NEW w \in pending[p], TimesOut(p, w) PROVE GoodStep
    BY <1>1, <1>4, FailingIsGood
<1> QED BY <1>1, <1>2, <1>3, <1>4, SurroundingsAreQuiet DEF Next

\* The invariant holds of every state.
LEMMA FriendInvariant == Spec => []FriendInv
<1>1. Init => FriendInv
    <2> SUFFICES ASSUME Init PROVE FriendInv
        OBVIOUS
    <2>1. TypeInv
        BY TypeAtStart
    <2>2. /\ \A p \in Peers, r \in Requests : rows[p][r] = NoRow /\ decisions[p][r] = "none"
          /\ \A p \in Peers, i \in Nat, r \in Requests : ~QueuedAt(p, i, r)
          /\ net = {} /\ \A p \in Peers : command[p] = Idle
          /\ \A r \in Requests : asked[r] = NoAsk
        BY DEF Init, QueuedAt
    <2>3. WayInv
        BY <2>2 DEF WayInv, AskedOfAnother, RowsAreAsked, RowIsAsked, CommandIsFirst,
                    QueuedOnce, WiredOnce, OnlyRequest
    <2>4. \A q, d : \A s \in {"pending"} \union Outcomes : Row(q, d, s) # NoRow
        BY RowFields
    <2>5. OutcomeInv
        BY <2>2, <2>4, NoRowStatus
        DEF OutcomeInv, DecisionsRecorded, DecisionsTrue, AcceptedAreFriends, AnswersTrue,
            SidesAgree, OutcomeQueuedOrKnown, Incoming, Outgoing, Outcomes
    <2> QED BY <2>1, <2>3, <2>5 DEF FriendInv
<1>2. FriendInv /\ [Next]_vars => FriendInv'
    BY EveryStepIsGood DEF GoodStep
<1> QED BY <1>1, <1>2, PTL DEF Spec

-----------------------------------------------------------------------------
(* Theorems.                                                               *)

\* What the asker holds as the outcome is what the other user decided, and
\* an accepted request makes both of them friends (resolve_friend_request,
\* FriendDecision), for any devices, requests and faults.
THEOREM BothSidesAgree == Spec => []SidesAgree
<1>1. FriendInv => SidesAgree
    BY DEF FriendInv, OutcomeInv
<1> QED BY <1>1, FriendInvariant, PTL

\* No outcome is lost: it is queued, or the asker knows it, or the asker has
\* removed the request (pending_friend_decisions).
THEOREM NoOutcomeIsLost == Spec => []OutcomeQueuedOrKnown
<1>1. FriendInv => OutcomeQueuedOrKnown
    BY DEF FriendInv, OutcomeInv
<1> QED BY <1>1, FriendInvariant, PTL

\* No late answer, failure, repetition or restart reopens or changes a
\* resolved request, or loses a friend.
THEOREM OutcomesAreFinal == Spec => ResolvedIsFinal
<1>1. FriendInv /\ [Next]_vars =>
          [\A p \in Peers :
               /\ friends[p] \subseteq friends'[p]
               /\ \A r \in Requests :
                      rows[p][r].status \in Outcomes => rows'[p][r] = rows[p][r]]_vars
    BY EveryStepIsGood DEF GoodStep, OutcomeStep, ResolvedStays, FriendsStay
<1> QED BY <1>1, FriendInvariant, PTL DEF Spec, ResolvedIsFinal

-----------------------------------------------------------------------------
(* The refinement.                                                         *)

ContractStep == [Contract!Next]_(Contract!contractVars)

\* What happens to the history and the friends in a step.
Asks(p, q, r) ==
    /\ p # q /\ asked[r] = NoAsk
    /\ asked' = [asked EXCEPT ![r] = <<p, q>>]
    /\ UNCHANGED <<agreed, friends>>
Agrees(q, p, r) ==
    /\ asked[r] = <<p, q>>
    /\ agreed' = agreed \union {r}
    /\ friends' = [friends EXCEPT ![q] = @ \union {p}]
    /\ UNCHANGED asked
Learns(p, q) ==
    /\ \E r \in Requests : asked[r] = <<p, q>>
    /\ p \in friends[q]
    /\ friends' = [friends EXCEPT ![p] = @ \union {q}]
    /\ UNCHANGED <<asked, agreed>>

\* These are the steps of the contract.
LEMMA ContractSteps ==
    /\ \A p, q \in Peers, r \in Requests :
           Asks(p, q, r) \/ Agrees(q, p, r) \/ Learns(p, q) => ContractStep
    /\ UNCHANGED <<asked, agreed, friends>> => ContractStep
BY DEF ContractStep, Asks, Agrees, Learns, NoAsk, Contract!Next, Contract!Ask, Contract!Agree,
       Contract!Learn, Contract!NoAsk, Contract!contractVars

\* The user's commands ask and agree.
LEMMA UserKeepsContract ==
    ASSUME FriendInv, NEW p \in Peers, UserStep(p)
    PROVE  ContractStep
<1>1. ASSUME NEW q \in Peers, NEW r \in Requests, BeginSend(p, q, r) PROVE ContractStep
    <2>1. Asks(p, q, r)
        BY <1>1 DEF BeginSend, Asks, tableVars
    <2> QED BY <2>1, ContractSteps
<1>2. CASE StoreRequest(p)
    BY <1>2, ContractSteps DEF StoreRequest, PutRow, tableVars, historyVars
<1>3. ASSUME NEW r \in Requests, NEW outcome \in Outcomes, ResolveRequest(p, r, outcome)
      PROVE  ContractStep
    <2>1. /\ TypeOK /\ rows[p][r].status = "pending" /\ rows[p][r].direction = "incoming"
          /\ RowIsAsked(p, r)
        BY <1>3 DEF ResolveRequest, FriendInv, TypeInv, WayInv, RowsAreAsked
    <2>2. PICK q \in Peers : q = rows[p][r].peer /\ asked[r] = <<q, p>>
        BY <2>1, RowIs DEF RowIsAsked
    <2>3. /\ friends' = [friends EXCEPT ![p] = IF outcome = "accepted" THEN @ \union {q} ELSE @]
          /\ UNCHANGED asked
          /\ agreed' = IF outcome = "accepted" THEN agreed \union {r} ELSE agreed
        BY <1>3, <2>2 DEF ResolveRequest, ResolveRow
    <2>4. CASE outcome = "accepted"
        BY <2>2, <2>3, <2>4, ContractSteps DEF Agrees
    <2>5. CASE outcome # "accepted"
        <3>1. UNCHANGED friends
            BY <2>1, <2>3, <2>5 DEF TypeOK
        <3> QED BY <2>3, <2>5, <3>1, ContractSteps
    <2> QED BY <2>4, <2>5
<1> QED BY <1>1, <1>2, <1>3 DEF UserStep

\* A decision teaches the asker only what the other device has recorded.
LEMMA DecisionKeepsContract ==
    ASSUME FriendInv, NEW p \in Peers, NEW m \in net, DecisionArrives(p, m)
    PROVE  ContractStep
<1>0. PICK q \in Peers, r \in Requests, outcome \in Outcomes :
          q = m.from /\ r = m.id /\ outcome = m.outcome
    BY MessageParts DEF FriendInv, TypeInv, TypeOK, DecisionArrives
<1>1. UNCHANGED <<asked, agreed>> /\ Incoming(q, p, r, outcome) /\ TypeOK
    BY <1>0 DEF DecisionArrives, historyVars, FriendInv, TypeInv, OutcomeInv, DecisionsTrue
<1>2. CASE CanTakeDecision(p, q, r, outcome)
    <2>1. /\ friends' = [friends EXCEPT ![p] = IF outcome = "accepted" THEN @ \union {q} ELSE @]
          /\ rows[p][r] # NoRow /\ rows[p][r].peer = q /\ rows[p][r].direction = "outgoing"
        BY <1>0, <1>2 DEF DecisionArrives, ResolveRow, CanTakeDecision
    <2>2. CASE outcome = "accepted"
        <3>1. p \in friends[q]
            BY <1>1, <2>2, RowFields DEF FriendInv, OutcomeInv, AcceptedAreFriends, Incoming
        <3>2. asked[r] = <<p, q>>
            BY <2>1 DEF FriendInv, WayInv, RowsAreAsked, RowIsAsked
        <3> QED BY <1>1, <2>1, <2>2, <3>1, <3>2, ContractSteps DEF Learns
    <2>3. CASE outcome # "accepted"
        <3>1. UNCHANGED friends
            BY <1>1, <2>1, <2>3 DEF TypeOK
        <3> QED BY <1>1, <3>1, ContractSteps
    <2> QED BY <2>2, <2>3
<1>3. CASE ~CanTakeDecision(p, q, r, outcome)
    BY <1>0, <1>1, <1>3, ContractSteps DEF DecisionArrives, tableVars
<1> QED BY <1>2, <1>3

\* Nothing else touches the history or the friends.
LEMMA OthersKeepContract ==
    ASSUME [Next]_vars,
           \A p \in Peers : ~UserStep(p) /\ \A m \in net : ~DecisionArrives(p, m)
    PROVE  UNCHANGED <<asked, agreed, friends>>
<1>1. ASSUME NEW p \in Peers, LoopStep(p) PROVE UNCHANGED <<asked, agreed, friends>>
    <2>1. CASE TakeCommand(p)
        BY <2>1 DEF TakeCommand, tableVars, historyVars
    <2>2. ASSUME NEW m \in net, RequestArrives(p, m) PROVE UNCHANGED <<asked, agreed, friends>>
        BY <2>2 DEF RequestArrives, ReconcileExistingFriend, PutRow, tableVars, historyVars
    <2>3. ASSUME NEW m \in net, AnswerArrives(p, m) PROVE UNCHANGED <<asked, agreed, friends>>
        BY <2>3 DEF AnswerArrives, RemovePendingOutgoing, AcknowledgeDecision, tableVars, historyVars
    <2>4. CASE FailureArrives(p)
        BY <2>4
        DEF FailureArrives, LostFails, ExchangeFails, RemovePendingOutgoing, tableVars, historyVars
    <2>5. CASE HelloArrives(p)
        BY <2>5 DEF HelloArrives, RecordHello, tableVars, historyVars
    <2> QED BY <1>1, <2>1, <2>2, <2>3, <2>4, <2>5 DEF LoopStep, MessageArrives
<1>2. ASSUME NEW p \in Peers, Restart(p) PROVE UNCHANGED <<asked, agreed, friends>>
    BY <1>2 DEF Restart, tableVars, historyVars
<1>3. ASSUME NEW p \in Peers, NEW w \in pending[p], TimesOut(p, w)
      PROVE  UNCHANGED <<asked, agreed, friends>>
    BY <1>3 DEF TimesOut, ExchangeFails, RemovePendingOutgoing, tableVars, historyVars
<1>4. ASSUME NEW p \in Peers, NEW q \in Peers, WindowMoves(p, q)
      PROVE  UNCHANGED <<asked, agreed, friends>>
    BY <1>4 DEF WindowMoves, tableVars, historyVars
<1>5. ASSUME NEW l \in Pairs, Connect(l) \/ IdleCloses(l) \/ ConnectionDrops(l)
      PROVE  UNCHANGED <<asked, agreed, friends>>
    BY <1>5 DEF Connect, IdleCloses, ConnectionDrops, tableVars, historyVars
<1>6. CASE UNCHANGED vars
    BY <1>6 DEF vars, tableVars, historyVars
<1> QED BY <1>1, <1>2, <1>3, <1>4, <1>5, <1>6 DEF Next

\* The devices implement the contract: nobody is a friend without a request
\* of one and the consent of the other, and the asker learns last.
THEOREM DevicesImplementContract == Spec => ImplementsContract
<1>1. Init => Contract!Init
    BY DEF Init, NoAsk, Contract!Init, Contract!NoAsk
<1>2. ASSUME FriendInv, [Next]_vars PROVE ContractStep
    <2>1. CASE \E p \in Peers : UserStep(p)
        BY <1>2, <2>1, UserKeepsContract
    <2>2. CASE \E p \in Peers : \E m \in net : DecisionArrives(p, m)
        BY <1>2, <2>2, DecisionKeepsContract
    <2>3. CASE \A p \in Peers : ~UserStep(p) /\ \A m \in net : ~DecisionArrives(p, m)
        BY <1>2, <2>3, OthersKeepContract, ContractSteps
    <2> QED BY <2>1, <2>2, <2>3
<1> QED BY <1>1, <1>2, FriendInvariant, PTL
    DEF Spec, ImplementsContract, Contract!Spec, ContractStep

=============================================================================
