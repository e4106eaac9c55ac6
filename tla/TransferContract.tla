-------------------------- MODULE TransferContract --------------------------
(***************************************************************************)
(* What one transfer promises its two users, without messages, tokens,     *)
(* claims, streams or processes: each side's verdict, the chunks the       *)
(* receiver keeps and the progress the sender shows.                       *)
(***************************************************************************)
EXTENDS TransferParameters

VARIABLES
    sender, receiver,  \* the verdict of each side
    stored,            \* chunks the receiver has committed
    shown              \* chunks the sender counts as received

contractVars == <<sender, receiver, stored, shown>>

Verdicts == {"open", "completed", "aborted"}

Init ==
    /\ sender = "open"
    /\ receiver = "open"
    /\ stored = 0
    /\ shown = 0

\* One chunk at a time, and never for a receiver that has stopped.
Store ==
    /\ receiver = "open"
    /\ stored < Chunks
    /\ stored' = stored + 1
    /\ UNCHANGED <<sender, receiver, shown>>

\* A damaged disk gives chunks back, to be sent again.
GiveBack ==
    /\ "diskDamage" \in Faults
    /\ receiver = "open"
    /\ stored' \in 0..(stored - 1)
    /\ UNCHANGED <<sender, receiver, shown>>

\* The sender shows what is stored, or less while an answer is on its way.
Show ==
    /\ sender = "open"
    /\ shown' \in 0..Chunks
    /\ shown' <= stored \/ "diskDamage" \in Faults
    /\ UNCHANGED <<sender, receiver, stored>>

\* Nothing is complete before every chunk is stored, and the receiver is
\* always the first to say so.
ReceiverCompletes ==
    /\ receiver = "open"
    /\ stored = Chunks
    /\ receiver' = "completed"
    /\ UNCHANGED <<sender, stored, shown>>

SenderCompletes ==
    /\ sender = "open"
    /\ receiver = "completed"
    /\ sender' = "completed"
    /\ shown' = Chunks
    /\ UNCHANGED <<receiver, stored>>

\* Either side may give up while it is open.  The receiver's verdict binds
\* the sender, never the other way round: a sender that gives up after the
\* last chunk may face a receiver that has the file.
SenderAborts ==
    /\ sender = "open"
    /\ sender' = "aborted"
    /\ UNCHANGED <<receiver, stored, shown>>

ReceiverAborts ==
    /\ receiver = "open"
    /\ receiver' = "aborted"
    /\ UNCHANGED <<sender, stored, shown>>

Next ==
    \/ Store \/ GiveBack \/ Show
    \/ ReceiverCompletes \/ SenderCompletes
    \/ SenderAborts \/ ReceiverAborts

Spec == Init /\ [][Next]_contractVars

=============================================================================
