------------------------- MODULE FriendshipContract -------------------------
(***************************************************************************)
(* What friend requests promise the users: nobody becomes a friend without *)
(* a request of one and the consent of the other, and the asker learns of  *)
(* a friendship only after the other device has recorded it.               *)
(***************************************************************************)
EXTENDS Integers

CONSTANTS
    Peers,      \* the devices
    Requests    \* request identifiers (UUIDs): each names one request

VARIABLES
    asked,      \* asked[r]: who asked whom in request r
    agreed,     \* requests the asked user has accepted
    friends     \* friends[p]: the peers device p has as friends

contractVars == <<asked, agreed, friends>>

NoAsk == <<>>

Init ==
    /\ asked = [r \in Requests |-> NoAsk]
    /\ agreed = {}
    /\ friends = [p \in Peers |-> {}]

Ask(p, q, r) ==
    /\ p # q
    /\ asked[r] = NoAsk
    /\ asked' = [asked EXCEPT ![r] = <<p, q>>]
    /\ UNCHANGED <<agreed, friends>>

\* q's user accepts what p asked.
Agree(p, q, r) ==
    /\ asked[r] = <<p, q>>
    /\ agreed' = agreed \union {r}
    /\ friends' = [friends EXCEPT ![q] = @ \union {p}]
    /\ UNCHANGED asked

\* A device that has asked learns that the other one has it as a friend.
Learn(p, q) ==
    /\ \E r \in Requests : asked[r] = <<p, q>>
    /\ p \in friends[q]
    /\ friends' = [friends EXCEPT ![p] = @ \union {q}]
    /\ UNCHANGED <<asked, agreed>>

Next == \E p, q \in Peers :
    \/ \E r \in Requests : Ask(p, q, r) \/ Agree(p, q, r)
    \/ Learn(p, q)

Spec == Init /\ [][Next]_contractVars

=============================================================================
