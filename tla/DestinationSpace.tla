-------------------------- MODULE DestinationSpace --------------------------
(***************************************************************************)
(* The space of the volume that receives files.  It is looked at when a    *)
(* transfer is accepted, not again before its first stream, then whenever  *)
(* a paused transfer is resumed, and never reserved: several transfers,    *)
(* and other programs, share what is free.  A file is published by a link  *)
(* to its hidden part, or, where the file system has no links, by a copy   *)
(* beside it.  Space is counted in chunks.                                 *)
(***************************************************************************)
EXTENDS SpaceParameters

VARIABLES
    links,      \* filesystem_supports_hard_links
    free,       \* chunks free on the volume
    size,       \* chunks of each file
    committed,  \* chunks of each hidden part
    copied,     \* chunks of each copy
    state,      \* "offered", "accepted", "paused", "receiving", "copying", "over"
    taken       \* chunks anybody else has taken since the last look for each transfer

spaceVars == <<links, free, size, committed, copied, state, taken>>

States == {"offered", "accepted", "paused", "receiving", "copying", "over"}

TypeOK ==
    /\ links \in BOOLEAN /\ free \in Nat
    /\ size \in [Transfers -> Nat]
    /\ committed \in [Transfers -> Nat] /\ copied \in [Transfers -> Nat]
    /\ \A t \in Transfers : committed[t] <= size[t] /\ copied[t] <= size[t]
    /\ state \in [Transfers -> States]
    /\ taken \in [Transfers -> Int]

Init ==
    /\ links \in BOOLEAN /\ free \in 0..Capacity
    /\ size \in [Transfers -> 0..MaxSize]
    /\ committed = [t \in Transfers |-> 0] /\ copied = [t \in Transfers |-> 0]
    /\ state = [t \in Transfers |-> "offered"]
    /\ taken = [t \in Transfers |-> 0]

-----------------------------------------------------------------------------
\* What the transfer will still write, copied chunks included.
Needs(t) == size[t] - committed[t] + (IF links THEN 0 ELSE size[t] - copied[t])

\* Mutant: room for the copy is not asked for.
ValidForPart(t) ==
    size[t] <= MaxFile /\ size[t] - committed[t] + Reserve <= free

\* validate_volume: a transfer that is let in has no copy yet.
ValidVolume(t) ==
    /\ size[t] <= MaxFile
    /\ size[t] - committed[t] + (IF links THEN 0 ELSE size[t]) + Reserve <= free

\* Somebody took n chunks: everybody else notices (n < 0: they were given back).
TakenBy(t, n) == taken' = [u \in Transfers |-> IF u = t THEN taken[u] ELSE taken[u] + n]

Becomes(t, s) == state' = [state EXCEPT ![t] = s]

\* Manual or automatic; without room the offer stays as it is.
Accept(t) ==
    /\ state[t] = "offered" /\ ValidVolume(t)
    /\ Becomes(t, "accepted")
    /\ taken' = [taken EXCEPT ![t] = 0]
    /\ UNCHANGED <<links, free, size, committed, copied>>

\* The acceptance was not delivered in time: the offer is shown again.
ReturnToManual(t) ==
    /\ state[t] = "accepted"
    /\ Becomes(t, "offered")
    /\ UNCHANGED <<links, free, size, committed, copied, taken>>

\* claim_incoming_at_offset_with_preflight: the first stream relies on the acceptance.
ClaimFirst(t) ==
    /\ state[t] = "accepted"
    /\ Becomes(t, "receiving")
    /\ UNCHANGED <<links, free, size, committed, copied, taken>>

\* The same for a paused transfer; without room it is paused again.
Resume(t) ==
    /\ state[t] = "paused" /\ ValidVolume(t)
    /\ Becomes(t, "receiving")
    /\ taken' = [taken EXCEPT ![t] = 0]
    /\ UNCHANGED <<links, free, size, committed, copied>>

WriteChunk(t) ==
    /\ state[t] = "receiving" /\ committed[t] < size[t] /\ free > 0
    /\ committed' = [committed EXCEPT ![t] = @ + 1]
    /\ free' = free - 1 /\ TakenBy(t, 1)
    /\ UNCHANGED <<links, size, copied, state>>

\* The stream ends early, for want of space or for any other reason; a restart pauses what
\* was accepted, too.
Pause(t) ==
    /\ state[t] \in {"accepted", "receiving"}
    /\ Becomes(t, "paused")
    /\ UNCHANGED <<links, free, size, committed, copied, taken>>

\* A link needs no space.
PublishByLink(t) ==
    /\ links /\ state[t] = "receiving" /\ committed[t] = size[t]
    /\ Becomes(t, "over")
    /\ UNCHANGED <<links, free, size, committed, copied, taken>>

StartCopy(t) ==
    /\ ~links /\ state[t] = "receiving" /\ committed[t] = size[t]
    /\ Becomes(t, "copying")
    /\ UNCHANGED <<links, free, size, committed, copied, taken>>

CopyChunk(t) ==
    /\ state[t] = "copying" /\ copied[t] < size[t] /\ free > 0
    /\ copied' = [copied EXCEPT ![t] = @ + 1]
    /\ free' = free - 1 /\ TakenBy(t, 1)
    /\ UNCHANGED <<links, size, committed, state>>

\* The incomplete copy is removed.
CopyFails(t) ==
    /\ state[t] = "copying" /\ copied[t] < size[t]
    /\ Becomes(t, "paused")
    /\ copied' = [copied EXCEPT ![t] = 0]
    /\ free' = free + copied[t] /\ TakenBy(t, 0 - copied[t])
    /\ UNCHANGED <<links, size, committed>>

\* The copy is whole: the hidden part goes.
EndCopy(t) ==
    /\ state[t] = "copying" /\ copied[t] = size[t]
    /\ Becomes(t, "over")
    /\ committed' = [committed EXCEPT ![t] = 0]
    /\ free' = free + committed[t] /\ TakenBy(t, 0 - committed[t])
    /\ UNCHANGED <<links, size, copied>>

\* A transfer that is cancelled or fails between its streams leaves nothing.
GiveUp(t) ==
    /\ state[t] \in {"offered", "accepted", "paused"}
    /\ Becomes(t, "over")
    /\ committed' = [committed EXCEPT ![t] = 0]
    /\ free' = free + committed[t] /\ TakenBy(t, 0 - committed[t])
    /\ UNCHANGED <<links, size, copied>>

\* Another program writes to the volume.
OtherProgram ==
    /\ free > 0
    /\ free' = free - 1
    /\ taken' = [u \in Transfers |-> taken[u] + 1]
    /\ UNCHANGED <<links, size, committed, copied, state>>

Next ==
    \/ \E t \in Transfers :
          \/ Accept(t) \/ ReturnToManual(t) \/ ClaimFirst(t) \/ Resume(t)
          \/ WriteChunk(t) \/ Pause(t) \/ PublishByLink(t)
          \/ StartCopy(t) \/ CopyChunk(t) \/ CopyFails(t) \/ EndCopy(t) \/ GiveUp(t)
    \/ OtherProgram

Spec == Init /\ [][Next]_spaceVars

-----------------------------------------------------------------------------
Writing(t) == state[t] \in {"receiving", "copying"}

\* A stream never finds the volume full, however large its file, as long as all the others
\* together have taken no more than the reserve since the last look, which for a first stream
\* is the one of the acceptance: it asked for the hidden part and for the copy
\* (validate_volume, claim_incoming_at_offset_with_preflight).
SpaceSuffices ==
    \A t \in Transfers : Writing(t) /\ taken[t] <= Reserve => Needs(t) <= free

\* Why it does: what the others took since the look is the only thing that can be missing, of
\* an accepted transfer that waits for its first stream as well, and a transfer has a copy only
\* while it is being copied, or after, and only without links.
Covered(t) == Needs(t) + Reserve <= free + taken[t]

SpaceInv ==
    /\ TypeOK
    /\ \A t \in Transfers :
        /\ state[t] \notin {"copying", "over"} => copied[t] = 0
        /\ state[t] = "copying" => ~links
        /\ Writing(t) \/ state[t] = "accepted" => Covered(t)
=============================================================================
