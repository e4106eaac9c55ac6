------------------------------ MODULE Presence ------------------------------
(***************************************************************************)
(* How one device finds a peer, connects to it and shows it as online: the *)
(* addresses it has heard of, their leases, the schedule of dials, the     *)
(* connections, the Hello, and the address it remembers of a friend.       *)
(*                                                                         *)
(* The loop keeps all of this per peer, and no peer's part depends on      *)
(* another's, so the module has one peer, `at` some address or away.  Time *)
(* is left out: a lease may run out unless it is refreshed, a deadline     *)
(* passes.                                                                 *)
(***************************************************************************)
EXTENDS Integers, FiniteSets

CONSTANTS
    Addresses,       \* addresses (an IP and a port) the peer may listen on
    IpOf,            \* the IP of each, all private
    Reach,           \* what gets through between each and this device
    MaxConnections,  \* bound: connections to one address at once
    MaxFaults        \* bound: dials, connections and Hellos lost, and restarts

NoIp == "none"
Away == "away"
Ips == {IpOf[a] : a \in Addresses}

\* What can get through: multicast, broadcast beacons, the probes of every
\* host of the /24 of an interface, probes of a remembered address in the
\* whole subnet of one.
Ways == {"mdns", "broadcast", "sweep", "unicast"}

ASSUME NetworkAssumption ==
    /\ IpOf \in [Addresses -> Ips]
    /\ Reach \in [Addresses -> SUBSET Ways]
    /\ MaxConnections \in Nat \ {0}
    /\ MaxFaults \in Nat
    /\ Away \notin Addresses /\ NoIp \notin Ips

VARIABLES
    at,               \* where the peer listens
    mdnsAddresses,    \* mdns_addresses
    beaconAddresses,  \* beacon_addresses: the state of each address's lease
    deadline,         \* dial_schedule
    dialing,          \* addresses of the dial under way
    connections,      \* active_connections, by the peer's address
    greeting,         \* connections on which the peer's Hello is to come
    online,           \* table peers: online
    lastLanIp,        \* table peers: last_lan_ip
    friend,           \* is the peer in table friends?
    connectionIp,     \* authenticated_connection_ips
    remembered,       \* remembered_peer_ips
    command,          \* is ResolveFriendRequest on its way to the loop?
    faults            \* faults so far

addressVars == <<mdnsAddresses, beaconAddresses>>
dialVars == <<deadline, dialing>>
linkVars == <<connections, greeting, connectionIp>>
peerVars == <<online, lastLanIp>>
friendVars == <<friend, remembered, command>>
vars == <<at, addressVars, dialVars, linkVars, peerVars, friendVars,
          faults>>

-----------------------------------------------------------------------------

\* A lease is new until a dial of its address has been considered: that
\* takes less than a second, and a lease twelve.
LeaseStates == {"none", "new", "live"}
NoLeases == [a \in Addresses |-> "none"]
Considered == [a \in Addresses |->
    IF beaconAddresses[a] = "new" THEN "live" ELSE beaconAddresses[a]]
NoConnections == [a \in Addresses |-> 0]

\* Every address known by either source, whose lease is not swept away.
DiscoveryAddresses ==
    mdnsAddresses \union {a \in Addresses : beaconAddresses[a] # "none"}
HasFreshAddress == DiscoveryAddresses # {}
IsConnected == \E a \in Addresses : connections[a] > 0

CanConnect == at # Away /\ connections[at] < MaxConnections

Fault ==
    /\ faults < MaxFaults
    /\ faults' = faults + 1

\* Every variable holds what its map, column or channel can hold.
TypeOK ==
    /\ at \in Addresses \union {Away}
    /\ mdnsAddresses \subseteq Addresses
    /\ beaconAddresses \in [Addresses -> LeaseStates]
    /\ deadline \in {"none", "ahead", "past"}
    /\ dialing \subseteq Addresses
    /\ connections \in [Addresses -> 0..MaxConnections]
    /\ greeting \subseteq {a \in Addresses : connections[a] > 0}
    /\ online \in BOOLEAN
    /\ lastLanIp \in Ips \union {NoIp}
    /\ friend \in BOOLEAN
    /\ connectionIp \in Ips \union {NoIp}
    /\ remembered \in Ips \union {NoIp}
    /\ command \in BOOLEAN
    /\ faults \in 0..MaxFaults

Init ==
    /\ at \in Addresses \union {Away}
    /\ mdnsAddresses = {}
    /\ beaconAddresses = NoLeases
    /\ deadline = "none"
    /\ dialing = {}
    /\ connections = NoConnections
    /\ greeting = {}
    /\ online = FALSE
    /\ lastLanIp = NoIp
    /\ friend = FALSE
    /\ connectionIp = NoIp
    /\ remembered = NoIp
    /\ command = FALSE
    /\ faults = 0

-----------------------------------------------------------------------------
(* The schedule and the rows.                                              *)

\* Mutant: each hint puts the dial off.
Postpone == deadline' = "ahead"

\* queue and retry of DiscoveryDialSchedule keep an earlier deadline.
Queue == deadline' = IF deadline = "none" THEN "ahead" ELSE deadline

\* Mutant: the row is left as it is.
LeaveOnline == online' = online

\* mark_offline_if_unreachable, after this step's changes.
MarkOfflineIfUnreachable ==
    online' = (online /\ (HasFreshAddress' \/ IsConnected'))

\* activate_remembered_friend_target: only what a connection has proved.
ActivateRememberedTarget(isFriend) ==
    remembered' = IF isFriend /\ connectionIp # NoIp THEN connectionIp ELSE remembered

-----------------------------------------------------------------------------
(* Discovery.                                                              *)

\* The beacon a running peer broadcasts every three seconds.
Announced(a) == at = a /\ "broadcast" \in Reach[a]

\* Its answer to the probe of every host of the /24.
Swept(a) == at = a /\ "sweep" \in Reach[a]

\* Its answer to the probe of the address it is remembered at.
ProbedFromMemory(a) == at = a /\ "unicast" \in Reach[a] /\ remembered = IpOf[a]

\* What is repeated as long as the peer runs.
IsRepeated(a) == Announced(a) \/ Swept(a) \/ ProbedFromMemory(a)

\* A beacon, an answer or a probe of the peer's own is received; on Windows
\* its mDNS answers, too.
Heard(a) == at = a /\ Reach[a] # {}

\* handle_discovery_event: a lease, and a dial.
HandlePeerHint(a) ==
    /\ Heard(a)
    /\ beaconAddresses' = [beaconAddresses EXCEPT ![a] = "new"]
    /\ Queue
    /\ UNCHANGED <<at, mdnsAddresses, dialing, linkVars, peerVars, friendVars,
                   faults>>

\* The library reports an address once, until it has expired.
MdnsDiscovered(a) ==
    /\ at = a /\ "mdns" \in Reach[a]
    /\ a \notin mdnsAddresses
    /\ mdnsAddresses' = mdnsAddresses \union {a}
    /\ Queue
    /\ UNCHANGED <<at, beaconAddresses, dialing, linkVars, peerVars,
                   friendVars, faults>>

MdnsExpired(a) ==
    /\ a \in mdnsAddresses
    /\ mdnsAddresses' = mdnsAddresses \ {a}
    /\ UNCHANGED <<beaconAddresses, connections>>
    /\ MarkOfflineIfUnreachable
    /\ UNCHANGED <<at, dialVars, greeting, connectionIp, lastLanIp,
                   friendVars, faults>>

Expiring(expired) ==
    /\ expired # {} /\ \A a \in expired : beaconAddresses[a] = "live"
    /\ beaconAddresses' = [a \in Addresses |->
           IF a \in expired THEN "none" ELSE beaconAddresses[a]]

\* Mutant: the peer is left as it is shown.
ExpireSilently(expired) ==
    /\ Expiring(expired)
    /\ UNCHANGED <<at, mdnsAddresses, dialVars, linkVars, peerVars,
                   friendVars, faults>>

\* The tick of every second sweeps away the leases that have run out; the
\* last lease of the peer marks it.
ExpireBeaconAddresses(expired) ==
    /\ Expiring(expired)
    /\ UNCHANGED <<mdnsAddresses, connections>>
    /\ IF beaconAddresses' = NoLeases THEN MarkOfflineIfUnreachable ELSE UNCHANGED online
    /\ UNCHANGED <<at, dialVars, greeting, connectionIp, lastLanIp,
                   friendVars, faults>>

-----------------------------------------------------------------------------
(* Dials and connections.                                                  *)

DeadlinePasses ==
    /\ deadline = "ahead"
    /\ deadline' = "past"
    /\ UNCHANGED <<at, addressVars, dialing, linkVars, peerVars, friendVars,
                   faults>>

\* One dial for all addresses; none while connected or dialing.
FlushDueDials ==
    /\ deadline = "past"
    /\ deadline' = "none"
    /\ dialing' = IF IsConnected \/ dialing # {} THEN dialing ELSE DiscoveryAddresses
    /\ beaconAddresses' = Considered
    /\ UNCHANGED <<at, mdnsAddresses, linkVars, peerVars, friendVars, faults>>

\* ConnectionEstablished: both sides send their Hello.
Established(a) ==
    /\ connections' = [connections EXCEPT ![a] = @ + 1]
    /\ deadline' = "none"
    /\ beaconAddresses' = Considered
    /\ connectionIp' = IpOf[a]
    /\ greeting' = greeting \union {a}

\* The swarm adds older addresses to the dial, so it may reach the peer at
\* one that has expired.
DialSucceeds ==
    /\ dialing # {}
    /\ CanConnect
    /\ Established(at)
    /\ dialing' = {}
    /\ UNCHANGED <<at, mdnsAddresses, peerVars, friendVars, faults>>

PeerConnects ==
    /\ CanConnect
    /\ Established(at)
    /\ UNCHANGED <<at, mdnsAddresses, dialing, peerVars, friendVars, faults>>

\* Mutant: a failed dial waits for the next hint.
GiveUpDial ==
    /\ dialing # {}
    /\ dialing' = {}
    /\ UNCHANGED <<at, addressVars, deadline, linkVars, peerVars, friendVars>>

\* OutgoingConnectionError: tried again while an address is known.
DialError ==
    /\ dialing # {}
    /\ dialing' = {}
    /\ IF HasFreshAddress THEN Queue ELSE UNCHANGED deadline
    /\ UNCHANGED <<at, addressVars, linkVars, peerVars, friendVars>>

DialFails ==
    /\ DialError
    /\ IF at \in dialing THEN Fault ELSE UNCHANGED faults

\* A connection closes when it was idle, when the peer is no longer there,
\* or when it is lost, a fault; a Hello on its way is lost with the last.
ConnectionClosed(a) ==
    /\ connections[a] > 0
    /\ connections' = [connections EXCEPT ![a] = @ - 1]
    /\ greeting' = IF connections[a] = 1 THEN greeting \ {a} ELSE greeting
    /\ UNCHANGED addressVars
    /\ MarkOfflineIfUnreachable
    /\ IF at = a /\ a \in greeting THEN Fault ELSE UNCHANGED faults
    /\ UNCHANGED <<at, dialVars, connectionIp, lastLanIp, friendVars>>

IdleCloses(a) == a \notin greeting /\ ConnectionClosed(a)

\* record_hello, for the peer's Hello or its answer.
RecordHello(a) ==
    /\ a \in greeting
    /\ greeting' = greeting \ {a}
    /\ online' = TRUE
    /\ lastLanIp' = connectionIp
    /\ ActivateRememberedTarget(friend)
    /\ UNCHANGED <<at, addressVars, dialVars, connections, connectionIp,
                   friend, command, faults>>

\* The exchange times out, and is not repeated on this connection.
HelloFails(a) ==
    /\ a \in greeting
    /\ greeting' = greeting \ {a}
    /\ Fault
    /\ UNCHANGED <<at, addressVars, dialVars, connections, connectionIp,
                   peerVars, friendVars>>

\* The peer's user changes the profile: another Hello on each connection.
ProfilePushed(a) ==
    /\ at = a /\ connections[a] > 0
    /\ greeting' = greeting \union {a}
    /\ UNCHANGED <<at, addressVars, dialVars, connections, connectionIp,
                   peerVars, friendVars, faults>>

-----------------------------------------------------------------------------
(* Friends, restarts, and the peer.                                        *)

\* The peer accepts our user's request (FriendDecision).
PeerAccepts ==
    /\ ~friend /\ IsConnected
    /\ friend' = TRUE
    /\ ActivateRememberedTarget(TRUE)
    /\ UNCHANGED <<at, addressVars, dialVars, linkVars, peerVars, command,
                   faults>>

\* Our user accepts the peer's; the loop hears of it unless its channel is
\* full.
UserAccepts ==
    /\ ~friend
    /\ friend' = TRUE
    /\ command' \in BOOLEAN
    /\ UNCHANGED <<at, addressVars, dialVars, linkVars, peerVars, remembered,
                   faults>>

HandleResolve ==
    /\ command
    /\ command' = FALSE
    /\ ActivateRememberedTarget(friend)
    /\ UNCHANGED <<at, addressVars, dialVars, linkVars, peerVars, friend,
                   faults>>

\* Mutant: the remembered address is forgotten.
LoadNoTargets == remembered' = NoIp

\* list_friend_lan_targets
LoadTargets == remembered' = IF friend THEN lastLanIp ELSE NoIp

Restart ==
    /\ Fault
    /\ LoadTargets
    /\ online' = FALSE
    /\ mdnsAddresses' = {}
    /\ beaconAddresses' = NoLeases
    /\ deadline' = "none"
    /\ dialing' = {}
    /\ connections' = NoConnections
    /\ greeting' = {}
    /\ connectionIp' = NoIp
    /\ command' = FALSE
    /\ UNCHANGED <<at, lastLanIp, friend>>

\* The peer comes, on any port and network address, or goes.
PeerMoves ==
    /\ at' \in (Addresses \union {Away}) \ {at}
    /\ at = Away \/ at' = Away
    /\ UNCHANGED <<addressVars, dialVars, linkVars, peerVars, friendVars,
                   faults>>

-----------------------------------------------------------------------------

AddressStep(a) ==
    \/ HandlePeerHint(a) \/ MdnsDiscovered(a) \/ MdnsExpired(a)
    \/ ConnectionClosed(a) \/ RecordHello(a) \/ HelloFails(a) \/ ProfilePushed(a)

Next ==
    \/ \E a \in Addresses : AddressStep(a)
    \/ \E expired \in SUBSET Addresses : ExpireBeaconAddresses(expired)
    \/ DeadlinePasses \/ FlushDueDials \/ DialSucceeds \/ DialFails \/ PeerConnects
    \/ PeerAccepts \/ UserAccepts \/ HandleResolve
    \/ Restart \/ PeerMoves

Spec == Init /\ [][Next]_vars

\* A dial ends: with success where the peer can be reached.
DialEnds == DialSucceeds \/ (DialFails /\ at \notin dialing)

\* What nobody refreshes or answers runs out.
Forgets(a) ==
    /\ at # a
    /\ MdnsExpired(a) \/ ExpireBeaconAddresses({a}) \/ ConnectionClosed(a)

\* The loop serves its sources; beacons and probes are repeated; what nobody
\* refreshes runs out; an idle or dead connection is closed.  Users, faults,
\* the peer's own dials and its moves owe nothing.
FairSpec ==
    /\ Spec
    /\ WF_vars(DeadlinePasses \/ FlushDueDials) /\ WF_vars(DialEnds)
    /\ WF_vars(\E a \in Addresses : IsRepeated(a) /\ HandlePeerHint(a))
    /\ WF_vars(\E a \in Addresses : Forgets(a))
    /\ WF_vars(\E a \in Addresses : RecordHello(a) \/ IdleCloses(a))

-----------------------------------------------------------------------------
(* Properties.                                                             *)

\* A peer is shown as online only while it is connected or an address of it
\* is known, so that the end of the last of these can take it back
\* (mark_offline_if_unreachable).
OnlineHasReason == online => HasFreshAddress \/ IsConnected

\* No known peer is left alone: while an address of it is known, it is
\* connected, being dialled or to be dialled, and only the end of a
\* connection stops this (DiscoveryDialSchedule, OutgoingConnectionError).
IsTried == IsConnected \/ dialing # {} \/ deadline # "none"
ConnectionEnds == \E a \in Addresses : connections'[a] < connections[a]
KnownIsTried == [][
    HasFreshAddress' /\ ~IsTried' => ConnectionEnds \/ (HasFreshAddress /\ ~IsTried)]_vars

\* The remembered address of a friend that has once said Hello is never
\* lost, by no restart and no later connection (list_friend_lan_targets).
RememberedIsKept == [][remembered # NoIp /\ lastLanIp # NoIp => remembered' # NoIp]_vars

\* A running peer is found, unless it goes again: one whose beacons or
\* answers to the sweep come through, and a friend at its remembered address,
\* which a single probe reaches; whatever stale addresses, stale dials and
\* dead connections there are.
IsHeard == \E a \in Addresses : IsRepeated(a)
PeerIsFound == IsHeard ~> (online \/ ~IsHeard)

\* A peer that has gone is shown as offline in the end, unless it returns.
GoneIsShown == (at = Away) ~> (~online \/ at # Away)

=============================================================================
