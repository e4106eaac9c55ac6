-------------------------- MODULE OutboxParameters --------------------------
(***************************************************************************)
(* The friends a device may owe terminal notices, and the limits on the    *)
(* requests that carry them.                                               *)
(***************************************************************************)
EXTENDS Naturals, FiniteSets

CONSTANTS
    Friends,     \* numbers of the friends that may be connected
    PerPeer,     \* TERMINAL_NOTIFICATIONS_PER_PEER, 8 in the code
    Global,      \* TERMINAL_NOTIFICATIONS_GLOBAL, 32 in the code
    MaxNotices   \* bound: notices queued for one friend over the whole run

ASSUME OutboxAssumption ==
    /\ Friends \subseteq Nat /\ IsFiniteSet(Friends)
    /\ PerPeer \in Nat /\ Global \in Nat /\ MaxNotices \in Nat
=============================================================================
