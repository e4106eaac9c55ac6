--------------------------- MODULE TerminalOutbox ---------------------------
(***************************************************************************)
(* How one device shares its slots for terminal notices among its friends: *)
(* the rows of `transfer_terminal_notifications` of each friend, the       *)
(* requests in flight, and the passes of the event loop that send more of  *)
(* them (what a notice does at the other side is in ResumableTransfer).    *)
(*                                                                         *)
(* Friends are numbers, ordered as the code orders their names; the        *)
(* notices of a friend are numbered from the oldest.                       *)
(***************************************************************************)
EXTENDS OutboxParameters

VARIABLES
    queued,     \* the notices of each friend still in the database
    written,    \* how many were ever written for each friend
    inFlight,   \* the notices of each friend that wait for an answer
    connected,  \* friends with an active connection
    able,       \* friends that support resumable transfers
    cursor      \* terminal_retry_cursor

vars == <<queued, written, inFlight, connected, able, cursor>>

Notices == 1..MaxNotices

TypeOK ==
    /\ queued \in [Friends -> SUBSET Notices]
    /\ written \in [Friends -> 0..MaxNotices]
    /\ inFlight \in [Friends -> SUBSET Notices]
    /\ connected \subseteq Friends /\ able \subseteq Friends
    /\ cursor \in Nat

Init ==
    /\ queued = [p \in Friends |-> {}] /\ written = [p \in Friends |-> 0]
    /\ inFlight = [p \in Friends |-> {}]
    /\ connected = {} /\ able \in SUBSET Friends /\ cursor = 0

-----------------------------------------------------------------------------
(***************************************************************************)
(* One look at one friend, and one pass over all of them.                  *)
(***************************************************************************)
\* All requests in flight, those of friends who went away included.
Total(flying) == Cardinality({x \in Friends \X Notices : x[2] \in flying[x[1]]})

\* The n oldest of a set of notices.
Oldest(S, n) == {k \in S : Cardinality({l \in S : l < k}) < n}

Least(a, b) == IF a < b THEN a ELSE b
Room(limit, used) == IF used < limit THEN limit - used ELSE 0

\* Mutant: the page holds as many rows as may be sent, the ones in flight included.
AdmittedFromShortPage(queue, flying, p, most) ==
    LET available == Least(Least(Room(Global, Total(flying)),
                                 Room(PerPeer, Cardinality(flying[p]))), most)
        page == Oldest(queue[p], available)
    IN  Oldest(page \ flying[p], available)

\* The page holds the oldest rows, enough of them to find `available` that wait.
Admitted(queue, flying, p, most) ==
    LET available == Least(Least(Room(Global, Total(flying)),
                                 Room(PerPeer, Cardinality(flying[p]))), most)
        page == Oldest(queue[p], Cardinality(flying[p]) + available)
    IN  Oldest(page \ flying[p], available)

Flushed(queue, flying, p, most) ==
    [flying EXCEPT ![p] = @ \cup Admitted(queue, flying, p, most)]

\* Connected friends in the order of their names, turned by the cursor: the place of each.
Start == cursor % Cardinality(connected)
Rank(p) == Cardinality({q \in connected : q < p})
Place(p) ==
    IF Rank(p) >= Start THEN Rank(p) - Start + 1
    ELSE Rank(p) + Cardinality(connected) - Start + 1

\* One more notice for each connected friend, in turn; those who cannot resume get nothing.
Round(queue, flying, resuming) ==
    LET turn(j) == {p \in connected \cap resuming : Place(p) = j}
        after[j \in 0..Cardinality(connected)] ==
            IF j = 0 THEN flying
            ELSE IF turn(j) = {} THEN after[j - 1]
            ELSE Flushed(queue, after[j - 1], CHOOSE p \in turn(j) : TRUE, 1)
    IN  after[Cardinality(connected)]

\* Rounds until one of them sends nothing: no more of them send anything than there are slots
\* (RoundsSettle in TerminalOutboxProofs).
Rounds(queue, flying, resuming) ==
    LET after[i \in 0..Global] ==
            IF i = 0 THEN flying ELSE Round(queue, after[i - 1], resuming)
    IN  after[Global]

\* retry_terminal_notifications_for_connected_peers, over these rows and requests.
Pass(queue, flying, resuming) ==
    /\ queued' = queue
    /\ able' = resuming
    /\ \/ connected = {} /\ inFlight' = flying /\ cursor' = 0
       \/ /\ connected # {}
          /\ inFlight' = Rounds(queue, flying, resuming)
          /\ cursor' = (Start + 1) % Cardinality(connected)
    /\ UNCHANGED <<written, connected>>

-----------------------------------------------------------------------------
(***************************************************************************)
(* What happens to the queue.                                              *)
(***************************************************************************)
\* A transfer ends by cancellation or failure: its notice is written with its row.
QueueNotice(p) ==
    /\ written[p] < MaxNotices
    /\ written' = [written EXCEPT ![p] = @ + 1]
    /\ queued' = [queued EXCEPT ![p] = @ \cup {written[p] + 1}]
    /\ UNCHANGED <<inFlight, connected, able, cursor>>

\* cancel_transfer asks the loop to send that friend all it may at once.
FlushNow(p) ==
    /\ p \in connected \cap able
    /\ inFlight' = Flushed(queued, inFlight, p, Global)
    /\ UNCHANGED <<queued, written, connected, able, cursor>>

\* The tick of every second.
Tick == Pass(queued, inFlight, able)

Without(f, p, n) == [f EXCEPT ![p] = @ \ {n}]

\* The friend acknowledged the notice, or rejected it: its row goes, and a pass follows.
Acknowledge(p, n) ==
    /\ n \in inFlight[p]
    /\ Pass(Without(queued, p, n), Without(inFlight, p, n), able)

\* No answer, or an answer to something else: only the request is forgotten.
FailNotice(p, n) ==
    /\ n \in inFlight[p]
    /\ inFlight' = Without(inFlight, p, n)
    /\ UNCHANGED <<queued, written, connected, able, cursor>>

-----------------------------------------------------------------------------
Connect(p) ==
    /\ p \notin connected /\ connected' = connected \cup {p}
    /\ UNCHANGED <<queued, written, inFlight, able, cursor>>

\* The requests in flight fail one by one, some time after the connection closed.
Disconnect(p) ==
    /\ p \in connected /\ connected' = connected \ {p}
    /\ UNCHANGED <<queued, written, inFlight, able, cursor>>

\* A Hello says whether the friend can resume transfers; if it can, a pass follows.
Hello(p) ==
    /\ p \in connected
    /\ \/ Pass(queued, inFlight, able \cup {p})
       \/ able' = able \ {p} /\ UNCHANGED <<queued, written, inFlight, connected, cursor>>

\* The process ends: what was in flight is forgotten, the rows stay.
Restart ==
    /\ inFlight' = [p \in Friends |-> {}]
    /\ connected' = {} /\ cursor' = 0
    /\ UNCHANGED <<queued, written, able>>

Next ==
    \/ \E p \in Friends :
          QueueNotice(p) \/ FlushNow(p) \/ Connect(p) \/ Disconnect(p) \/ Hello(p)
    \/ Tick
    \/ \E p \in Friends : \E n \in inFlight[p] : Acknowledge(p, n) \/ FailNotice(p, n)
    \/ Restart

Spec == Init /\ [][Next]_vars

-----------------------------------------------------------------------------
Passed ==
    \/ Tick
    \/ \E p \in Friends : \/ \E n \in inFlight[p] : Acknowledge(p, n)
                           \/ Pass(queued, inFlight, able \cup {p})

Gained(p) == Cardinality(inFlight'[p] \ inFlight[p])
Waits(p) == p \in connected \cap able' /\ queued'[p] \ inFlight'[p] # {}

\* Who waits has all its slots, or no slot is free and nobody gained two notices more; what
\* was sent is older than what waits.
Sharing ==
    /\ Total(inFlight') <= Global
    /\ \A p \in Friends : Cardinality(inFlight'[p]) <= PerPeer
    /\ \A p \in Friends : Waits(p) =>
          \/ Cardinality(inFlight'[p]) = PerPeer
          \/ /\ Total(inFlight') = Global
             /\ \A q \in Friends : Gained(q) <= Gained(p) + 1
    /\ \A p \in Friends : \A n \in inFlight'[p] \ inFlight[p] :
          \A k \in queued'[p] : k < n => k \in inFlight'[p]

\* After every pass the slots are shared: no friend holds more than its own and all of
\* them no more than there are; a friend with a notice that waits has all its slots, or
\* no slot is free; nobody gained more than one notice more than a friend left waiting
\* with slots of its own; and what was sent is older than what waits
\* (retry_terminal_notifications_for_connected_peers).
SharesSlots == Passed => Sharing
=============================================================================
