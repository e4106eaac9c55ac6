---------------------------- MODULE MCFriendship ----------------------------
(* Instances of Friendship for TLC; the .cfg files give the values.        *)
EXTENDS Friendship, TLC

\* Devices and identifiers are interchangeable; used by runs of invariants
\* and action properties only.
Symmetry == Permutations(Peers) \union Permutations(Requests)
=============================================================================
