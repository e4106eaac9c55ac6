----------------------------- MODULE MCPresence -----------------------------
(* The instance of Presence for TLC: an address in the /24 of our own, and *)
(* one in another part of the subnet, which only single probes reach.      *)
EXTENDS Presence

CONSTANTS near, far

TwoHosts == [a \in {near, far} |-> IF a = near THEN "10.0.0.2" ELSE "10.0.1.2"]
NearAndFar == [a \in {near, far} |->
    IF a = near THEN {"mdns", "sweep"} ELSE {"unicast"}]
=============================================================================
