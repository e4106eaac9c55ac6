-------------------------- MODULE SpaceParameters --------------------------
(***************************************************************************)
(* The parameters of DestinationSpace.  Space is counted in chunks.        *)
(***************************************************************************)
EXTENDS Integers

CONSTANTS
    Transfers,
    MaxSize,   \* bound: chunks of a file
    MaxFile,   \* the largest file the policy and the file system take
    Reserve,   \* DESTINATION_SPACE_RESERVE_CHUNKS, 16 in the code
    Capacity   \* bound: chunks free at first

ASSUME SpaceAssumption ==
    MaxSize \in Nat /\ MaxFile \in Nat /\ Reserve \in Nat /\ Capacity \in Nat
=============================================================================
