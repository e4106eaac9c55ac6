--------------------------- MODULE PresenceProofs ---------------------------
(***************************************************************************)
(* Theorems about Presence, for any set of addresses, any network and any  *)
(* number of connections and faults.                                       *)
(***************************************************************************)
EXTENDS Presence, TLAPS

-----------------------------------------------------------------------------
(* Types.                                                                  *)

\* A loop starts without leases and connections.
LEMMA NothingTyped ==
  /\ NoLeases \in [Addresses -> LeaseStates]
  /\ NoConnections \in [Addresses -> 0..MaxConnections]
<1>1. 0 \in 0..MaxConnections
  BY NetworkAssumption DEF NetworkAssumption
<1> QED
  BY <1>1 DEF NoLeases, NoConnections, LeaseStates

LEMMA InitTyped == Init => TypeOK
<1>1. 0 \in 0..MaxFaults
  BY NetworkAssumption DEF NetworkAssumption
<1> QED
  BY <1>1, NothingTyped DEF Init, TypeOK

\* The addresses considered for a dial keep their leases.
LEMMA ConsideredLeases ==
  ASSUME beaconAddresses \in [Addresses -> LeaseStates]
  PROVE  /\ Considered \in [Addresses -> LeaseStates]
         /\ \A a \in Addresses : Considered[a] = "none" <=> beaconAddresses[a] = "none"
  BY DEF Considered, LeaseStates

\* A new connection counts, and a Hello is to come on it.
LEMMA EstablishedTyped ==
  ASSUME TypeOK, CanConnect, Established(at)
  PROVE  /\ beaconAddresses' \in [Addresses -> LeaseStates]
         /\ connections' \in [Addresses -> 0..MaxConnections]
         /\ greeting' \subseteq {a \in Addresses : connections'[a] > 0}
         /\ connectionIp' \in Ips \union {NoIp}
         /\ deadline' = "none"
<1>1. at \in Addresses /\ connections[at] \in 0..MaxConnections
  BY DEF TypeOK, CanConnect
<1>2. connections[at] + 1 \in 0..MaxConnections
  BY <1>1, NetworkAssumption DEF NetworkAssumption, CanConnect
<1>3. beaconAddresses' \in [Addresses -> LeaseStates] /\ deadline' = "none"
  BY ConsideredLeases DEF TypeOK, Established
<1>4. connections' \in [Addresses -> 0..MaxConnections]
  BY <1>2 DEF TypeOK, Established
<1>5. greeting' \subseteq {a \in Addresses : connections'[a] > 0}
  BY <1>1, <1>2 DEF TypeOK, Established
<1>6. connectionIp' \in Ips \union {NoIp}
  BY <1>1 DEF Established, Ips
<1> QED
  BY <1>3, <1>4, <1>5, <1>6

LEMMA TypeStep == TypeOK /\ [Next]_vars => TypeOK'
<1> SUFFICES ASSUME TypeOK, [Next]_vars PROVE TypeOK'
  OBVIOUS
<1> USE NetworkAssumption DEF NetworkAssumption
<1>1. CASE UNCHANGED vars
  BY <1>1 DEF TypeOK, vars, addressVars, dialVars, linkVars, peerVars, friendVars
<1>2. ASSUME NEW a \in Addresses, AddressStep(a) PROVE TypeOK'
  <2>1. CASE HandlePeerHint(a)
    BY <2>1 DEF TypeOK, LeaseStates, HandlePeerHint, Queue, linkVars, peerVars, friendVars
  <2>2. CASE MdnsDiscovered(a)
    BY <2>2 DEF TypeOK, MdnsDiscovered, Queue, linkVars, peerVars, friendVars
  <2>3. CASE MdnsExpired(a)
    BY <2>3 DEF TypeOK, MdnsExpired, MarkOfflineIfUnreachable, dialVars, friendVars
  <2>4. CASE ConnectionClosed(a)
    <3>1. connections[a] \in 0..MaxConnections /\ connections[a] > 0
      BY <2>4 DEF TypeOK, ConnectionClosed
    <3>2. connections' \in [Addresses -> 0..MaxConnections]
      BY <2>4, <3>1 DEF TypeOK, ConnectionClosed
    <3>3. greeting' \subseteq {b \in Addresses : connections'[b] > 0}
      BY <2>4, <3>1 DEF TypeOK, ConnectionClosed
    <3>4. faults' \in 0..MaxFaults
      BY <2>4 DEF TypeOK, ConnectionClosed, Fault
    <3>5. online' \in BOOLEAN
      BY <2>4 DEF ConnectionClosed, MarkOfflineIfUnreachable
    <3> QED
      BY <2>4, <3>2, <3>3, <3>4, <3>5
      DEF TypeOK, ConnectionClosed, addressVars, dialVars, friendVars
  <2>5. CASE RecordHello(a)
    BY <2>5 DEF TypeOK, RecordHello, ActivateRememberedTarget, addressVars, dialVars
  <2>6. CASE HelloFails(a)
    BY <2>6 DEF TypeOK, HelloFails, Fault, addressVars, dialVars, peerVars, friendVars
  <2>7. CASE ProfilePushed(a)
    BY <2>7 DEF TypeOK, ProfilePushed, addressVars, dialVars, peerVars, friendVars
  <2> QED
    BY <1>2, <2>1, <2>2, <2>3, <2>4, <2>5, <2>6, <2>7 DEF AddressStep
<1>3. ASSUME NEW expired \in SUBSET Addresses, ExpireBeaconAddresses(expired) PROVE TypeOK'
  BY <1>3 DEF TypeOK, LeaseStates, ExpireBeaconAddresses, Expiring,
    MarkOfflineIfUnreachable, dialVars, friendVars
<1>4. CASE DeadlinePasses
  BY <1>4 DEF TypeOK, DeadlinePasses, addressVars, linkVars, peerVars, friendVars
<1>5. CASE FlushDueDials
  BY <1>5, ConsideredLeases
  DEF TypeOK, FlushDueDials, DiscoveryAddresses, linkVars, peerVars, friendVars
<1>6. CASE DialSucceeds
  BY <1>6, EstablishedTyped DEF TypeOK, DialSucceeds, peerVars, friendVars
<1>7. CASE PeerConnects
  BY <1>7, EstablishedTyped DEF TypeOK, PeerConnects, peerVars, friendVars
<1>8. CASE DialFails
  BY <1>8 DEF TypeOK, DialFails, DialError, Queue, Fault, addressVars, linkVars,
    peerVars, friendVars
<1>9. CASE PeerAccepts
  BY <1>9 DEF TypeOK, PeerAccepts, ActivateRememberedTarget, addressVars, dialVars,
    linkVars, peerVars
<1>10. CASE UserAccepts
  BY <1>10 DEF TypeOK, UserAccepts, addressVars, dialVars, linkVars, peerVars
<1>11. CASE HandleResolve
  BY <1>11 DEF TypeOK, HandleResolve, ActivateRememberedTarget, addressVars, dialVars,
    linkVars, peerVars
<1>12. CASE Restart
  <2>1. /\ beaconAddresses' \in [Addresses -> LeaseStates]
        /\ connections' \in [Addresses -> 0..MaxConnections]
    BY <1>12, NothingTyped DEF Restart
  <2>2. /\ greeting' \subseteq {a \in Addresses : connections'[a] > 0}
        /\ dialing' \subseteq Addresses
        /\ mdnsAddresses' \subseteq Addresses
    BY <1>12 DEF Restart
  <2>3. faults' \in 0..MaxFaults
    BY <1>12 DEF TypeOK, Restart, Fault
  <2>4. remembered' \in Ips \union {NoIp}
    BY <1>12 DEF TypeOK, Restart, LoadTargets
  <2> QED
    BY <1>12, <2>1, <2>2, <2>3, <2>4 DEF TypeOK, Restart
<1>13. CASE PeerMoves
  BY <1>13 DEF TypeOK, PeerMoves, addressVars, dialVars, linkVars, peerVars, friendVars
<1> QED
  BY <1>1, <1>2, <1>3, <1>4, <1>5, <1>6, <1>7, <1>8, <1>9, <1>10, <1>11, <1>12, <1>13
  DEF Next

\* Every reachable state is well typed: no Hello is awaited on a connection
\* that is gone, and no lease, connection or fault is out of range.
THEOREM TypeCorrect == Spec => []TypeOK
<1>1. Init => TypeOK
  BY InitTyped
<1>2. TypeOK /\ [Next]_vars => TypeOK'
  BY TypeStep
<1> QED
  BY <1>1, <1>2, PTL DEF Spec

-----------------------------------------------------------------------------
(* Online.                                                                 *)

\* Neither a dial considered nor a connection takes an address away.
LEMMA AddressesRemain ==
  ASSUME TypeOK, beaconAddresses' = Considered, UNCHANGED mdnsAddresses
  PROVE  HasFreshAddress' <=> HasFreshAddress
  BY ConsideredLeases DEF TypeOK, HasFreshAddress, DiscoveryAddresses

LEMMA EstablishedConnects ==
  ASSUME TypeOK, CanConnect, Established(at)
  PROVE  IsConnected'
<1>1. at \in Addresses /\ connections[at] \in Nat
  BY NetworkAssumption DEF NetworkAssumption, TypeOK, CanConnect
<1>2. connections'[at] > 0
  BY <1>1 DEF TypeOK, Established
<1> QED
  BY <1>1, <1>2 DEF IsConnected

LEMMA OnlineStep ==
  ASSUME TypeOK, OnlineHasReason, [Next]_vars
  PROVE  OnlineHasReason'
<1>1. CASE UNCHANGED vars
  BY <1>1 DEF OnlineHasReason, HasFreshAddress, DiscoveryAddresses, IsConnected, vars,
    addressVars, linkVars, peerVars
<1>2. ASSUME NEW a \in Addresses, AddressStep(a) PROVE OnlineHasReason'
  <2>1. CASE HandlePeerHint(a)
    <3>1. a \in DiscoveryAddresses'
      BY <2>1 DEF TypeOK, HandlePeerHint, DiscoveryAddresses
    <3> QED
      BY <3>1 DEF OnlineHasReason, HasFreshAddress
  <2>2. CASE MdnsDiscovered(a)
    BY <2>2 DEF OnlineHasReason, HasFreshAddress, DiscoveryAddresses, MdnsDiscovered
  <2>3. CASE MdnsExpired(a)
    BY <2>3 DEF OnlineHasReason, MdnsExpired, MarkOfflineIfUnreachable
  <2>4. CASE ConnectionClosed(a)
    BY <2>4 DEF OnlineHasReason, ConnectionClosed, MarkOfflineIfUnreachable
  <2>5. CASE RecordHello(a)
    <3>1. IsConnected'
      BY <2>5 DEF TypeOK, RecordHello, IsConnected
    <3> QED
      BY <3>1 DEF OnlineHasReason
  <2>6. CASE HelloFails(a) \/ ProfilePushed(a)
    BY <2>6 DEF OnlineHasReason, HasFreshAddress, DiscoveryAddresses, IsConnected,
      HelloFails, ProfilePushed, addressVars, peerVars
  <2> QED
    BY <1>2, <2>1, <2>2, <2>3, <2>4, <2>5, <2>6 DEF AddressStep
<1>3. ASSUME NEW expired \in SUBSET Addresses, ExpireBeaconAddresses(expired)
      PROVE  OnlineHasReason'
  <2>1. CASE beaconAddresses' = NoLeases
    BY <1>3, <2>1 DEF OnlineHasReason, ExpireBeaconAddresses, MarkOfflineIfUnreachable
  <2>2. CASE beaconAddresses' # NoLeases
    <3>1. PICK a \in Addresses : beaconAddresses'[a] # "none"
      BY <1>3, <2>2 DEF ExpireBeaconAddresses, Expiring, NoLeases
    <3> QED
      BY <3>1 DEF OnlineHasReason, HasFreshAddress, DiscoveryAddresses
  <2> QED
    BY <2>1, <2>2
<1>4. CASE FlushDueDials
  <2>1. HasFreshAddress' <=> HasFreshAddress
    BY <1>4, AddressesRemain DEF FlushDueDials
  <2> QED
    BY <1>4, <2>1 DEF OnlineHasReason, FlushDueDials, IsConnected, linkVars, peerVars
<1>5. CASE DialSucceeds \/ PeerConnects
  BY <1>5, EstablishedConnects DEF OnlineHasReason, DialSucceeds, PeerConnects
<1>6. CASE Restart
  BY <1>6 DEF OnlineHasReason, Restart
<1>7. CASE DeadlinePasses \/ DialFails \/ PeerAccepts \/ UserAccepts \/ HandleResolve
           \/ PeerMoves
  BY <1>7 DEF OnlineHasReason, HasFreshAddress, DiscoveryAddresses, IsConnected,
    DeadlinePasses, DialFails, DialError, PeerAccepts, UserAccepts, HandleResolve,
    PeerMoves, addressVars, linkVars, peerVars
<1> QED
  BY <1>1, <1>2, <1>3, <1>4, <1>5, <1>6, <1>7 DEF Next

\* A peer is online only while it is connected or an address of it is known:
\* whichever reason is the last to go has taken it offline.
THEOREM OnlineForAReason == Spec => []OnlineHasReason
<1>1. Init => OnlineHasReason
  BY DEF Init, OnlineHasReason
<1>2. TypeOK /\ OnlineHasReason /\ [Next]_vars => OnlineHasReason'
  BY OnlineStep
<1> QED
  BY <1>1, <1>2, TypeCorrect, PTL DEF Spec

-----------------------------------------------------------------------------
(* Dials.                                                                  *)

\* What a single step may not do, TypeOK given.
GivesUp ==
    HasFreshAddress' /\ ~IsTried' /\ ~ConnectionEnds /\ ~(HasFreshAddress /\ ~IsTried)

LEMMA DialStep ==
  ASSUME TypeOK, [Next]_vars
  PROVE  ~GivesUp
<1>1. ASSUME UNCHANGED <<mdnsAddresses, beaconAddresses, deadline, dialing, connections>>
      PROVE  ~GivesUp
  BY <1>1 DEF GivesUp, IsTried, HasFreshAddress, DiscoveryAddresses, IsConnected
<1>2. ASSUME deadline' # "none" \/ IsConnected' \/ ~HasFreshAddress'
      PROVE  ~GivesUp
  BY <1>2 DEF GivesUp, IsTried
\* Addresses only go, and nothing else changes.
<1>3. ASSUME UNCHANGED <<deadline, dialing, connections>>,
             DiscoveryAddresses' \subseteq DiscoveryAddresses
      PROVE  ~GivesUp
  BY <1>3 DEF GivesUp, IsTried, HasFreshAddress, IsConnected
<1>4. ASSUME NEW a \in Addresses, AddressStep(a) PROVE ~GivesUp
  <2>1. CASE HandlePeerHint(a) \/ MdnsDiscovered(a)
    BY <1>2, <2>1 DEF TypeOK, HandlePeerHint, MdnsDiscovered, Queue
  <2>2. CASE MdnsExpired(a)
    BY <1>3, <2>2 DEF MdnsExpired, DiscoveryAddresses, dialVars
  <2>3. CASE ConnectionClosed(a)
    <3>1. ConnectionEnds
      BY <2>3 DEF TypeOK, ConnectionClosed, ConnectionEnds
    <3> QED
      BY <3>1 DEF GivesUp
  <2>4. CASE RecordHello(a) \/ HelloFails(a) \/ ProfilePushed(a)
    BY <1>1, <2>4 DEF RecordHello, HelloFails, ProfilePushed, addressVars, dialVars
  <2> QED
    BY <1>4, <2>1, <2>2, <2>3, <2>4 DEF AddressStep
<1>5. ASSUME NEW expired \in SUBSET Addresses, ExpireBeaconAddresses(expired)
      PROVE  ~GivesUp
  <2>1. DiscoveryAddresses' \subseteq DiscoveryAddresses
    BY <1>5 DEF ExpireBeaconAddresses, Expiring, DiscoveryAddresses
  <2> QED
    BY <1>3, <1>5, <2>1 DEF ExpireBeaconAddresses, dialVars
<1>6. CASE DeadlinePasses
  BY <1>2, <1>6 DEF DeadlinePasses
<1>7. CASE FlushDueDials
  <2>1. HasFreshAddress' <=> HasFreshAddress
    BY <1>7, AddressesRemain DEF FlushDueDials
  <2>2. CASE IsConnected
    BY <1>2, <1>7, <2>2 DEF FlushDueDials, IsConnected, linkVars
  <2>3. CASE ~IsConnected /\ HasFreshAddress
    <3>1. dialing' # {}
      BY <1>7, <2>3 DEF FlushDueDials, HasFreshAddress
    <3> QED
      BY <3>1 DEF GivesUp, IsTried
  <2>4. CASE ~HasFreshAddress
    BY <1>2, <2>1, <2>4
  <2> QED
    BY <2>2, <2>3, <2>4
<1>8. CASE DialSucceeds \/ PeerConnects
  BY <1>2, <1>8, EstablishedConnects DEF DialSucceeds, PeerConnects
<1>9. CASE DialFails
  <2>1. HasFreshAddress' <=> HasFreshAddress
    BY <1>9 DEF DialFails, DialError, HasFreshAddress, DiscoveryAddresses, addressVars
  <2>2. HasFreshAddress => deadline' # "none"
    BY <1>9 DEF DialFails, DialError, Queue
  <2> QED
    BY <1>2, <2>1, <2>2
<1>10. CASE Restart
  BY <1>2, <1>10 DEF Restart, HasFreshAddress, DiscoveryAddresses, NoLeases
<1>11. CASE PeerAccepts \/ UserAccepts \/ HandleResolve \/ PeerMoves \/ UNCHANGED vars
  BY <1>1, <1>11 DEF PeerAccepts, UserAccepts, HandleResolve, PeerMoves, vars,
    addressVars, dialVars, linkVars
<1> QED
  BY <1>4, <1>5, <1>6, <1>7, <1>8, <1>9, <1>10, <1>11 DEF Next

\* Only the end of a connection leaves a known peer alone: no failed dial,
\* no expiry and no dial that is dropped does.
THEOREM KnownStaysTried == Spec => KnownIsTried
<1>1. TypeOK /\ [Next]_vars =>
        [HasFreshAddress' /\ ~IsTried' => ConnectionEnds \/ (HasFreshAddress /\ ~IsTried)]_vars
  BY DialStep DEF GivesUp
<1> QED
  BY <1>1, TypeCorrect, PTL DEF Spec, KnownIsTried

-----------------------------------------------------------------------------
(* The remembered address.                                                 *)

\* Only friends are remembered, so a restart finds the row again.
RememberedIsFriend == remembered # NoIp => friend

LEMMA RememberedStep == RememberedIsFriend /\ [Next]_vars => RememberedIsFriend'
<1> SUFFICES ASSUME RememberedIsFriend, [Next]_vars PROVE RememberedIsFriend'
  OBVIOUS
<1>1. ASSUME UNCHANGED <<friend, remembered>> PROVE RememberedIsFriend'
  BY <1>1 DEF RememberedIsFriend
<1>2. ASSUME NEW a \in Addresses, RecordHello(a) PROVE RememberedIsFriend'
  BY <1>2 DEF RememberedIsFriend, RecordHello, ActivateRememberedTarget
<1>3. CASE PeerAccepts \/ UserAccepts \/ HandleResolve \/ Restart
  BY <1>3 DEF RememberedIsFriend, PeerAccepts, UserAccepts, HandleResolve, Restart,
    ActivateRememberedTarget, LoadTargets
<1> QED
  BY <1>1, <1>2, <1>3 DEF Next, AddressStep, HandlePeerHint, MdnsDiscovered, MdnsExpired,
    ConnectionClosed, HelloFails, ProfilePushed, ExpireBeaconAddresses, DeadlinePasses,
    FlushDueDials, DialSucceeds, DialFails, DialError, PeerConnects, PeerMoves, friendVars,
    vars

LEMMA MemoryStep ==
  RememberedIsFriend /\ [Next]_vars =>
    [remembered # NoIp /\ lastLanIp # NoIp => remembered' # NoIp]_vars
<1> SUFFICES ASSUME RememberedIsFriend, Next, remembered # NoIp, lastLanIp # NoIp
             PROVE  remembered' # NoIp
  OBVIOUS
<1>1. ASSUME NEW a \in Addresses, RecordHello(a) PROVE remembered' # NoIp
  BY <1>1 DEF RecordHello, ActivateRememberedTarget
<1>2. CASE PeerAccepts \/ UserAccepts \/ HandleResolve
  BY <1>2 DEF PeerAccepts, UserAccepts, HandleResolve, ActivateRememberedTarget
<1>3. CASE Restart
  BY <1>3 DEF RememberedIsFriend, Restart, LoadTargets
<1> QED
  BY <1>1, <1>2, <1>3 DEF Next, AddressStep, HandlePeerHint, MdnsDiscovered, MdnsExpired,
    ConnectionClosed, HelloFails, ProfilePushed, ExpireBeaconAddresses, DeadlinePasses,
    FlushDueDials, DialSucceeds, DialFails, DialError, PeerConnects, PeerMoves, friendVars

\* The remembered address of a friend that has said Hello survives every
\* restart and every later connection.
THEOREM MemoryIsKept == Spec => RememberedIsKept
<1>1. Init => RememberedIsFriend
  BY DEF Init, RememberedIsFriend
<1> QED
  BY <1>1, RememberedStep, MemoryStep, PTL DEF Spec, RememberedIsKept

=============================================================================
