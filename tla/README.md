# Weline Localnet in TLA+

Weline Localnet is a desktop application (Rust and Tauri, with a TypeScript
interface) that finds other copies of itself on the local network, makes friends
with them and exchanges text, images and files of up to 100 GiB without a server.
This directory holds its formal models, their TLC configurations and the proofs
about them.

The heart of the application is the resumable file transfer (protocol 2): two durable
rows, two processes, the messages and byte streams between them, lost connections and
restarts. Beside it are modelled: the bytes of that transfer, its files in the receive
directory and the space they take; the older protocol of one stream; the outbox of
terminal notices; friend requests; text messages; how a device finds a peer, connects
to it and shows it as online; the migration of the database; saved copies, update
downloads, the identity and the settings of a device; and the snapshot its window shows.

All paths below are relative to `src/`; `rust/` abbreviates `src-tauri/src/`.

## 1. Inventory

Each process runs one network loop (`rust/network/runtime.rs`, `event_loop`) that
handles the commands of the user interface, the events of libp2p and a tick of one
second; one task per byte stream (`rust/network/transfer.rs`); and the commands
of the user interface (`rust/commands.rs`) on threads of their own. They share a
SQLite database behind a mutex (`rust/storage.rs`), and almost nothing else: every
rule about who may do what is the WHERE clause of an UPDATE, and each of those is
a transaction. The loops of two processes exchange *control requests*, each
answered or failed once (15 seconds, or the connection's end).

| Component | State | Operations | Talks to | What is hard | What makes it correct |
|---|---|---|---|---|---|
| Outgoing transfer (`storage.rs`, `transfer.rs`) | row: status, claim, query token, acknowledged bytes; message; queued notice | offer, first stream, commit progress, pause, fail, complete, query, resumed claim, cancel, reset at start | loop, sending task, user | stale tasks, answers that come after the row moved on, crash between two statements | success only if the receiver has the file; no claim or token left behind; ends are final |
| Incoming transfer (`storage.rs`, `transfer.rs`, `resumable_transfer.rs`) | row: status, claim, committed bytes; decision token; notice; partial and final file; chat message | store offer, accept, decide, roll back, claim, write, commit, publish, complete, cancel, recover | loop, receiving tasks, user | two streams for one file, a timeout racing a claim, crash between file and row | one writer; what was acknowledged is on disk; progress never falls |
| Control protocol of transfers (`runtime.rs`, `protocol.rs`) | requests awaiting answers, start timers | offer, decision, resume query, terminal notice, and their failures | both rows | lost, late and reordered requests and answers | both sides end, and agree |
| Terminal outbox (`storage.rs`, `runtime.rs`) | queued notices, requests in flight, cursor | queue, flush, acknowledge, retry each second | rows, loop | limits of 8 per peer and 32 in total, round robin | every notice is delivered, no peer starves |
| Recovery at start (`storage.rs`) | rows, chunk rows, files | reset, reconcile each partial, clean up owned files | rows, disk | crash during recovery, lost or damaged data | never trust more than the disk holds |
| Acceptance and cleanup (`storage.rs`, `commands.rs`) | reservations, cleanup records | reserve, accept, fall back, stage cleanup | user, disk | a failure between a file and its row | no file without a record, no record of a foreign file |
| Receive paths (`receive_paths.rs`) | owned and published files | reserve a name, open, finalise by rename | receiving task | concurrent reservations of one name | nothing is overwritten |
| Manifest and geometry (`transfer_manifest.rs`, `transfer_policy.rs`) | none | chunk count, boundaries, hashes | both tasks | the short last chunk, widths | offsets are boundaries, counts agree |
| Legacy transfer (`transfer.rs`) | row and file | one stream, no resumption | loop | a row left in mid-stream | complete or failed |
| Save-as (`commands.rs`) | source, temporary, destination | copy, check, replace | user, other programs | the source or the temporary changes meanwhile | a whole copy, or nothing changed, unless the look at what was replaced fails |
| Volume preflight (`volume_preflight.rs`, `storage.rs`) | free space | look at acceptance and at each resumption, not before the first stream | disk | nothing is reserved | a stream finds room while the others stay within the reserve from the last look on |
| Friendship (`commands.rs`, `runtime.rs`, `storage.rs`) | requests, friends, queued decisions, rate limit | request, decide, flush decisions, reconcile | loop, user | crossing requests, decisions repeated | both sides become friends or neither |
| Text messages | messages | send, retry, receive, acknowledge | loop, user | retry of what was received | shown once, status true |
| Presence, discovery, dialling (`network/discovery.rs`, `runtime.rs`, `src/presence.ts`) | addresses with expiry, connection counts, dial schedule | beacon, mDNS, dial, expire, mark offline | libp2p, interface | expiry against connection events | online while reachable, redialled while known |
| Schema and migration (`storage.rs`) | tables, columns, cleanup tokens, queued decisions | open the database of any earlier release | disk | a crash between two statements, an opening that repeats an earlier one | nothing lost, nothing queued twice |
| Update download (`update.rs`) | cached installer, hidden files | look, download, check, link, open | HTTP, disk | overlapping calls, damaged cache | only the published installer is linked or opened |
| Identity (`identity.rs`) | credential store, fallback file | load or create at each start | operating system | a store that does not answer, a crash between two places | one identity for ever |
| Settings (`storage.rs`, `commands.rs`) | nickname, receive preferences, language, installer's marker | save, tell the loop, take back, import | loop, installer | a full channel, a marker that stays or cannot be read | what the user was told is what is stored |
| User interface (`src/main.tsx`, `src/presence.ts`) | snapshot of the database | bootstrap, events, delayed refresh, poll, commands | commands, events | answers read in mid-change, events in mid-read | at rest the window shows the database |

## 2. Modules

| Module | Contents |
|---|---|
| `TransferParameters` | constants, faults, statuses |
| `OutgoingTransfer` | the statements on the sender's row: `CanX` is a WHERE clause, `X` its SET list |
| `IncomingTransfer` | the statements on the receiver's row, its files, and the recovery at start |
| `ResumableTransfer` | composes both rows with messages, streams, tasks, timers, connection and processes; properties |
| `TransferContract` | what a transfer promises its two users: two verdicts, chunks stored, chunks shown |
| `MCResumableTransfer` | the module TLC runs |
| `ResumableTransferProofs` | theorems and their proofs: types, agreement, finality |
| `TransferSafetyProofs` | the other safety properties of a transfer, and its refinement, proved |
| `Friendship` | the three tables of each device, the user's commands and the loops that exchange requests and decisions; properties |
| `FriendshipContract` | what friend requests promise the users: who asked, who agreed, who is whose friend |
| `MCFriendship` | the module TLC runs, with its symmetry |
| `FriendshipProofs` | the types and the safety properties of friend requests, and their refinement, proved |
| `Presence` | one device's view of one peer: addresses and leases, dial schedule, connections, Hello, the online column, the address remembered of a friend; properties |
| `MCPresence` | the module TLC runs, with its two addresses |
| `PresenceProofs` | theorems and their proofs |
| `ReceiveFile` | the files of one incoming transfer in the receive directory: reservation, partial, marker, journal, published file; the row, the cleanup record, the user; properties |
| `MCReceiveFile` | the module TLC runs |
| `ReceiveFileProofs` | the safety properties of a received file, proved |
| `ChunkGeometry` | chunk counts, lengths, offsets and frames of a file: constant operators |
| `ChunkStream` | the bytes of a resumable transfer: source, manifest, frames, partial; uses `ChunkGeometry` |
| `ChunkStreamProofs` | theorems about the geometry, and what the stream stores, proved |
| `LegacyTransfer` | one transfer of the first protocol |
| `OutboxParameters`, `TerminalOutbox` | the slots for notices, shared among many friends |
| `TerminalOutboxProofs` | that they are shared fairly, proved |
| `ChatMessages` | text messages to one friend |
| `SpaceParameters`, `DestinationSpace` | the volume that receives files, shared by several transfers |
| `SaveCopy` | "save as" |
| `SchemaMigration` | how a release opens the database of an earlier one |
| `UpdateDownload` | downloading and opening an installer |
| `DeviceIdentity` | the key pair of a device |
| `LocalSettings` | nickname, preferences, language and the installer's marker |
| `InterfaceView` | what the window shows of the database |
| `MCParts` | the module TLC runs for the eleven state machines after `MCReceiveFile`, which share no state |
| `PartsProofs` | the properties of all eleven, proved |

How the state corresponds to the code:

- `outStatus`, `sendClaimed`, `queryToken`, `acked` are columns of the sender's row,
  `outMessage` the status of its chat message, `outNotice` its row of
  `transfer_terminal_notifications`.
- `inStatus`, `receiveClaimed`, `committed`, `decision`, `inNotice` are the
  receiver's. `synced` and `published` are its two files: how many chunks are
  synchronised to the partial file, and whether it was renamed to the destination.
- Offsets are counted in chunks. The code admits no other offset
  (`validate_resume_offset`), and a chunk row and the byte count are written by one
  transaction (`commit_received_chunk`).
- `net` is the set of control requests that no loop has handled yet, and of resume
  answers under way. It is a set: requests are handled in any order. The answer to
  an offer or a decision carries nothing, so only its arrival is modelled
  (`OfferAnswered`, `DecisionAnswered`) or its failure (`FailOffer`, `FailDecision`).
- A query's token is a UUID on the sender's row; the wire does not carry it, the
  answer is matched to its request. The model puts the token in the request, which
  is that matching. Decision tokens likewise name one acceptance. A new token is
  chosen unlike every one still in use, so tokens can be used again and a bound of
  2 hides nothing about older ones.
- `sendPc` and `recvPc` are the points between two effects of a task: every row
  statement, write to a stream and await lies in a step of its own. A task
  authorised on one read of the row claims it in a later step. `recvPc` has an
  entry per stream, so the task of a dead stream runs beside the task of its
  successor.
- `IdleClose` is libp2p's idle timeout of 120 seconds; it, discovery and the Hello of
  every new connection are how a transfer that missed its moment gets another.

For `Friendship`:

- `rows`, `friends`, `decisions` are the tables `friend_requests`, `friends` and
  `pending_friend_decisions` of each device; `decisions[p][r]` takes its peer from
  the row it refers to. Each operator of the second section is one transaction.
- `command` is a `send_friend_request` between its tests and the row it stores: the loop
  may make the peer a friend in between. Commands run one at a time, and the loop
  changes no incoming pending row, so `resolve_friend_request` is one step.
- `queue` is the channel to the loop, `pending` the map of requests whose answer is
  awaited, `recent` the rate window of each peer (its oldest entry leaves it in
  `WindowMoves`).
- `net` holds requests and answers. The `line` of a message says what became of the way
  back: `open`; `forgotten`, when the asking loop has given it up after 15 seconds; or
  `closed`, when its connection went after the taking device had read it. The answer
  on a closed line is an error that leaves `event_loop` (`LoopStops`): until a restart
  the device has its tables and its commands, and no network.
- `online` is what `require_online_peer` reads. A peer that went away stays online while a
  discovered address is fresh, which is longer than its connection lives; the model
  never takes it out before a restart, since that only leaves users less to do.
- `asked` and `agreed` are history, for the contract.

For `Presence`:

- The loop keeps a map from peers to each of `mdnsAddresses`, `beaconAddresses`, the
  `deadline` of `DiscoveryDialSchedule`, `connections` and `connectionIp`; no entry of
  one peer depends on another's, so the module has one peer. `online` and `lastLanIp`
  are columns of its row in `peers`, `friend` its row in `friends`.
- `Reach` says what gets through from an address. The probes of `probe_peers` go to the
  /24 of each interface, those of `probe_remembered_peers` to one address anywhere in
  its subnet, so the two reach different peers.
- A lease is `new` from its refreshment to the next dial considered, then `live`. It
  lasts twelve seconds and a dial is considered within a tenth of one, so a `new` lease
  does not run out. That is the only use the model makes of the length of a delay.
- `dialing` holds the addresses of the dial under way. The condition
  `DisconnectedAndNotDialing` and `is_connected` are the guard of `FlushDueDials`.
- `greeting` holds the connections on which the peer's Hello, or its answer to ours, is
  to come. A Hello on a connection that is gone does not arrive: the library reports
  the events of a connection before its end.
- The port is known from the start, and hints are handled when they come.

For `ReceiveFile`, which says what `synced` and `published` of `ResumableTransfer` stand for:

- `entry` is the directory: the file under each numbered name of the transfer's file;
  `partial` the hidden files, `content` what a file holds. A file keeps its identity for
  ever and no identity is used again, which is what volume and file numbers are for the
  code. `reservation`, `marker` and `journal` are the hidden files that say whose a name, a
  partial and a published file are; `torn` is a record of the journal that was cut off and
  swallows the next one (`receive_paths.rs`, 2501 to 2523).
- `attempt` is one call of `accept_incoming_transfer` for each token, with `lock` the
  database transaction it holds while it creates files; `task` the receiving task up to
  `Complete`; `cleaner` one run of `cleanup_pending_terminal_artifact`, which works
  from what it read of its record; `phase` the two steps of `Storage::open`.
- `lost` remembers the tokens whose holder was cut off before it could record what it
  owned: an acceptance the process did not survive, an automatic one that the user's
  overtook, a task whose peer gave up. Their hidden files stay (see section 5).

The other modules, each named for the function or table it follows:

- `ChunkStream`: `source` is the file with its modification time, `chunks` the manifest,
  `frame` and `answer` the stream, `partial`, `synced`, `recorded` and `committed` the
  receiver's file and chunk rows. A hash is the bytes it is taken of.
- `LegacyTransfer`: a block of the file is the version of the source it was read from;
  `wire` is the stream, `directory` the names the receiver tries.
- `TerminalOutbox`: `queued`, `inFlight` and `cursor` are the table, the requests in flight
  and `terminal_retry_cursor`; a pass of `retry_terminal_notifications_for_connected_peers`
  is one step. `Round` is the inner loop, `Rounds` the outer one: the code leaves it when a
  round sends nothing, the model after as many rounds as there are slots, which is the same
  (`RoundsSettle`).
- `ChatMessages`: `row` and `inbox` are the `messages` of both devices, `queue` the command
  channel, `flight` the requests and answers; `announced` counts what the friend was told.
- `DestinationSpace`: space is counted in chunks; `taken` is what everybody else has taken
  since the last look for a transfer: at its acceptance, and then each time a paused one is
  resumed (`rust/resumable_transfer.rs:60`). The claim of a first stream does not look again.
- `SchemaMigration`: `db` is the file, `work` what the open transaction sees, `at` the
  statement that comes next.
- `SaveCopy`, `UpdateDownload`, `DeviceIdentity`, `LocalSettings`: the variables are the files,
  stores and columns named in them, and the point each call has reached. `failed` and `kept`
  record which looks at the call's own file and which removals of it have failed.
- `InterfaceView`: `db` counts the changes of each table, and as `progress` those of a
  transfer that the code makes without an event (a claim that begins the stream of a paused
  row, a chunk committed at the receiver, one acknowledged between two gated events of the
  sender); `silent` says that there was one since a refresh was last asked for; `screen` is
  what of all this the window has, `calls` the commands under way with what they have read so far, `events` what the
  window has not handled yet, `timer` the refresh 80 ms after an event, `polling` the poll
  every three seconds.

`MCParts` instantiates these modules over one set of variables, `s1` to `s18`. The first
state chooses a part and the part never changes, so a behaviour is a behaviour of that
module, with its variables in the first slots and 0 in the others. That is sound because
they share no state: the network, the rows and the files each of them uses are its own, or
are seen by it as an environment that may do anything the code lets it do.

Steps merged on purpose: `FailSend`, `PauseSend` and the receiver's error ends are
one transaction in the code. Acceptance rolled back by
`return_pending_incoming_decision_to_manual` takes the claim and gives it back in
two transactions; the model has one, because every statement that could come
between them needs the claim. Handlers of the loop are atomic: the loop runs one at
a time and reaches the peer only through messages, and the row statements a handler
combines are the ones the model combines; tasks and user commands interleave with
handlers only between them.

## 3. What is checked

| Run | Question | Instance | Result |
|---|---|---|---|
| `core` | safety of all interleavings and every error path, and the contract | 2 chunks, 2 streams, 2 queries, 2 decisions, automatic acceptance or, when it fails (`acceptError`), the user's, both users may cancel, `sourceChange`, `corruption`, `preflight`, `diskError`, `lateTimeout`, 1 lost connection, 1 restart | 1,917,641 states, holds |
| `liveness` | notices delivered, claims released, a started transfer ends, both sides the same way; the contract when received data is lost | 2 chunks, 2 streams, automatic acceptance that succeeds, `sourceChange`, `corruption`, `diskDamage`, 1 lost connection, 1 restart, fair | 88,058 states, holds |
| `friendship` | safety of friend requests, and the contract | 2 devices, 2 requests, a channel of 1, a rate limit of 1, 2 faults | 890,874 states up to symmetry, holds |
| `friendship_liveness` | outcomes are delivered | 1 request, 3 faults, fair | 18,712 states, holds |
| `presence` | a peer is found, dialled and shown | a near address (`mdns`, `sweep`) and a far one (`unicast`), 1 connection to each, 1 fault, fair | 423,546 states, holds |
| `receive_file` | no file without a record, none of the user's touched | 2 acceptances (automatic, user's), 2 names, 2 partials, 4 files, 1 step of the user or another transfer, 1 failing call or end of the process, with and without hard links | 3,963,890 states, holds |
| `parts` | the eleven parts that share no state | see below | 2,324,700 states, holds |
| `stranded_receiver`, `image_resume`, `lost_record`, `falsely_pending`, `one_sided_friendship` | see section 5 | smallest instance that shows it | violated |

Safety properties of a transfer:

- `OneReceiver`: two receiving tasks never work on one file, and the receiver's row
  is claimed only while a task is there to release it.
- `NothingLeftBehind`: no claim without its sending task, no query token whose
  answer nobody awaits. Either would block a transfer for the life of the process.
- `AcknowledgedIsDurable`: sender's count <= committed <= synchronised, unless a disk
  loses data.
- `CompletionAgreement`: the sender's row or message says success only when the
  receiver's row is completed and its file is in place.
- `AbortReachesPeer`: an abort whose notice is no longer queued has reached the
  other side. It is one-sided for a reason the runs found: the sender may give up
  before the receiver has taken the offer, the notice is acknowledged for a row that
  does not exist, and the offer then creates a row that awaits the user for nothing.
- `EndIsFinal`, `ProgressIsKept`, `CompleteAnswerCompletes`: what no step may do.
- `ImplementsContract`: the protocol refines `TransferContract` with the verdict of
  each status, `committed` and `acked`. The contract says that the receiver
  completes first and only with every chunk, that the sender completes only after
  it, and that verdicts are final. It also says what is *not* promised: a sender that
  is told of a failure after the last chunk may face a receiver that has the file.

Liveness properties of a transfer: `NoticeDelivered`, `ClaimIsReleased`,
`StartedTransferEnds`, `SendTaskEnds`, `BothSidesSettle`.

Properties of friend requests:

- `SidesAgree`: a request its asker has as accepted is accepted on the other device, and
  both have each other as friends; one it has as rejected is rejected there.
- `OutcomeQueuedOrKnown`: the outcome of a request is queued on the device that decided,
  or known to the asker, or the asker has removed the request. The last case is
  finding `one_sided_friendship`.
- `ResolvedIsFinal`: no late answer, failure, retry or restart reopens a resolved request
  or loses a friend.
- `ImplementsContract`: friendship comes only from one user's request and the other's
  consent, and the asker records it last. Crossing requests and the reconciliation
  with an existing friend are covered: a second request needs no second consent.
- `DecisionsDrain`, `OutcomeReachesAsker`: with fair loops, a queued decision is answered
  and the asker learns the outcome, unless one of the loops has stopped.

Properties of presence:

- `OnlineHasReason`: a peer is online only while it is connected or an address of it is
  known, so the last of these to go takes it offline.
- `KnownIsTried`: a known peer is connected, being dialled or to be dialled; no failed or
  dropped dial and no expiry ends this, only the end of a connection, after which the
  next hint starts again.
- `RememberedIsKept`: the remembered address of a friend that has said Hello survives
  restarts and later connections.
- `PeerIsFound`, `GoneIsShown`: a peer that is heard again and again is shown as online,
  and one that has gone as offline.

Properties of the received file (`receive_file`):

- `ForeignKept`: nothing the user put into the directory, and no reservation of another
  transfer, is removed or replaced except by the user or that transfer.
- `PublishedIsWhole`: under the name a completed transfer shows there is its whole file.
- `OwnedOrDue`: what the row owns is never due for removal, whatever acceptances failed and
  were repeated.
- `AcceptedIsBacked`: an open transfer has the reservation and the partial its row names;
  no late clean-up of an earlier acceptance takes them away.
- `NothingOrphaned`: each hidden file has its token in a row or in the hands of who is still
  at work, except those in `lost`.

Properties of the parts (`parts`):

- `ChatIsHonest`: a message shown as delivered is in the friend's database, one shown as
  being sent is under way, and the friend is told of it once.
- `SlotsAreShared`: after every pass no friend holds more than its 8 slots and all of them
  no more than 32; nobody gained more than one notice more than a friend who waits; the
  oldest go first.
- `StoredIsOriginal`: what is committed is what the manifest was built from and is on the
  medium up to a boundary; and as long as the source is not touched, no test of the
  geometry refuses anything, for every file of 0 to 5 bytes in chunks of 2 and wherever
  the stream is lost.
- `LegacyIsWhole`: a completed receive holds what the sender hashed; "delivered" is said
  only of such a file; a claimed row has its task.
- `MigrationIsSound`: wherever earlier openings ended, a running program has all columns,
  each hash and each token, and each friend decision queued or acknowledged, never both.
- `CopiesAreWhole`: the destination of "save as" is what it was or a whole copy, and a call
  that fails has changed nothing and left nothing, unless the look at the replaced
  destination, the first look at its temporary file or its removal failed; only the published
  installer is linked and opened, and a call that is over leaves a hidden file only when its
  last look, or the removal, failed.
- `SpaceIsEnough`: a stream never finds the volume full while all others together have taken
  no more than the reserve of 64 MiB since the last look: for a first stream that is the one
  of the acceptance, however long ago.
- `SettingsAreKept`: one identity; the language chosen last; settings as the user was told
  they are saved, and told to the peers.
- `ScreenIsCurrent`: with no event, call or timer left, the window shows the requests,
  messages, transfers and friends of the database, and after a poll who is online; apart from
  what no event told it since it last asked.

What is not promised, and not stated: a peer known by mDNS alone is reported once, so
after an idle connection has closed nothing dials it until a message is sent to it; and
a Hello that timed out is not repeated on its connection.

### Bounds

Constants in the guards: `MaxDrops` and `MaxRestarts` bound how often the environment
interferes, `MaxStreams`, `MaxQueries` and `MaxDecisions` how many streams and tokens
are in use *at once* (they are reused), `HellosPerLink` how many Hello messages one
connection brings to the sender. Two chunks are the smallest file with a first
chunk, a last chunk and an offset in between. Two streams are the old one
and the new one after one lost connection, the situation the claim is for. Two
decision tokens let the timer or the failed request of one acceptance meet the next
acceptance. One lost connection and one restart can both fall at any step. The
liveness runs are smaller because TLC must keep the whole behaviour graph. Cancellation
is left to `core`: with it the liveness properties hold as well, in a graph three times the size.

In `Friendship`, `MaxFaults` bounds lost connections, timeouts and restarts together;
idle connections close and come back without a bound. Two requests are what crossing,
reconciliation and one answer beside another decision need; a third would repeat one
of these. A channel of 1 and a rate limit of 1 are reached by the first request, so
both limits are met. A flush sends at most 16 decisions, which two requests never reach.
With one request the liveness run still has every way of losing a decision.

In `Presence`, two addresses are what a stale address beside the current one needs, and
the two connections are then the old one and the new one. `MaxFaults` bounds failed
dials of the right address, Hellos lost and restarts together; stale dials fail, idle
and dead connections close, leases run out and the peer comes and goes without a bound.

In `ReceiveFile`, two acceptances let each kind meet what the other left; two names and two
partials are a name that is taken and the next one. One step of the user and one fault can
fall between any two steps of the code. One clean-up runs at a time; a second one would
find its record gone or compare the same tokens again.

In `MCParts` each part has the bounds that its question needs: two messages and a channel
of one; two friends with 3 slots each of 4 in total and up to 3 notices each, so the slots run out
both ways; every size up to two and a half chunks, one change of the source and two losses;
two names, one file of the user's and one restart; two openings, each ending anywhere; two
overlapping downloads and one damage; three identities and two ends of the process; two
installations, three saves and two mishaps; two calls of the window, two changes and one
failure; two transfers of three chunks on a volume of eight with a reserve of one.

Where a bound disables an action the system may stop, and a state with everything
done has no successor: hence `CHECK_DEADLOCK FALSE`; progress is asked for by the
liveness properties instead.

### Fairness

`FairSpec` is weakly fair to the handlers of both loops, to every task, to the timers
and failures of requests, to the repetition of notices, to `IdleClose` and to
`Reconnect`. The code justifies each: the loop is a `select!` that never stops while
the process runs; every request fails after 15 seconds or with its connection;
the start timer is a task; notices are retried every second; discovery goes on
beaconing and dials a friend that is not connected. Users, faults, lost connections
and restarts get no fairness: the properties hold whether they happen or not. No
strong fairness is assumed.

In `Friendship` each loop is fair to each of its sources: messages, failures, and
commands with Hellos. One condition on the whole loop would not do, and the run that
tried it showed why: when the Hello of a new connection is handled before the
failure of a decision on the old one, the decision counts as in flight and is not sent,
and after the failure nothing sends it until the next connection. That is also why
`IdleCloses` must be fair: a decision that timed out is sent again only after the
connection has closed and come back. A loop that has stopped owes nothing; the
liveness properties except it openly.

In `Presence` the ticks and events of the loop are fair, a dial to where the peer is not
fails in the end, the peer's beacons and answers are repeated, and what is not refreshed
runs out. The peer's own dials, profile changes and moves, and mDNS reports, owe nothing.

## 4. What is proved

`ResumableTransferProofs` proves, for every value of the constants (any number of
chunks, streams, tokens, lost connections and restarts, any set of faults, either
kind of message):

- `TypeCorrect`: `Spec => []TypeOK`. The invariant is `TypeInv`, which adds that a task
  that has written a chunk is not at the end of the file.
- `SenderAgrees`: `Spec => []CompletionAgreement`.
- `EndsAreFinal`: `Spec => EndIsFinal`.

The assumptions are the four named ones on the constants; TLC evaluates them in every
run.

`CompletionAgreement` relates two rows in two processes, and no single step sees both,
so it is not inductive. `AgreementInv` follows the verdict along the way it takes:
the receiver's row is completed only by a task that has renamed the file
(`FilePublished`); a task past completion, the final acknowledgement on the wire, a
"completed" answer under way and a sending task past its last acknowledgement each
imply that the receiver's row is completed (`TaskCompleted`, `FinalAckCompleted`,
`AnswerCompleted`, `SendTaskCompleted`); and so does the sender's own success
(`SenderCompleted`). Two lemmas keep the proof short: of the receiver's statements
only its completion completes the row and only recovery takes the published file
back, and of the sender's only its two completions report success. Everything else
is "undisturbed". `AgreementInv` was checked with TLC on the safety instances
before it was proved.

`EndsAreFinal` goes statement by statement: each of them tests the status in its WHERE
clause or is reached only past such a test. The third part, that a completed file
stays published, comes from `AgreementInv`.

`TransferSafetyProofs` proves the rest of what is safe about a transfer, also for every
value of the constants:

- `OneTaskReceives` (`[]OneReceiver`) and `ProgressStays` (`ProgressIsKept`) rest on
  `ReceiverInv`, which follows the claim on the receiver's row: only the task that holds it
  writes (`BodyHasClaim`), it writes where the row says it is (`BodyAtOffset`), and what
  is committed was synchronised before (`CommittedIsSynced`), also across a restart.
- `NothingStaysBehind` (`[]NothingLeftBehind`) needs `SenderInv`: a query's token is set only
  while a query is under way or its answer awaited, so that no end leaves one behind.
- `CompleteAnswerCounts` (`CompleteAnswerCompletes`), for messages of kind `file`. For an
  image it is false: see `image_resume` in section 5.
- `AcknowledgedIsKept` (`[]AcknowledgedIsDurable`) rests on `AckInv`: while no file was damaged,
  every acknowledgement on its way, every offset in an answer and the sender's own count
  are at most what the receiver has committed.
- `AbortsReachThePeer` (`[]AbortReachesPeer`) rests on `AbortInv`: each notice in the
  outbox and each one on its way tells the truth about the row it comes from, and a row
  that is aborted has told the other side, still tells it, or had nobody to tell.
- `ProtocolImplementsContract` (`ImplementsContract`): every step of the two devices is a step
  of `TransferContract` or none. The lemmas take the rows one at a time: no step but the end
  of a restart changes both, and each change of one of them is a step of the contract
  because of `ReceiverInv` and `AgreementInv`.

`SenderInv`, `AckInv` and `AbortInv` were checked with TLC on the safety instances first.

`FriendshipProofs` proves, for any number of devices and requests, any capacity and rate
limit and any number of faults:

- `TypeCorrect` (`[]TypeOK`), which holds the limits: no channel over its capacity, no rate
  window over its limit. Its invariant adds that a command under way names a request its
  device has asked for. The only assumption is `LimitsAssumption`;
- `BothSidesAgree` (`[]SidesAgree`) and `NoOutcomeIsLost` (`[]OutcomeQueuedOrKnown`);
- `OutcomesAreFinal` (`ResolvedIsFinal`);
- `DevicesImplementContract` (`ImplementsContract`).

The last four come from one invariant of two parts. `WayInv` says that a request is in one
place on its way: with the command, once in the channel, once on the wire, or with
the other device; so a request arrives where no row of it is yet, and every row belongs
to who asked. Without it a second copy of a request could reopen what was decided.
`OutcomeInv` says that a decision queued or on its way is the one recorded
(`DecisionsRecorded`, `DecisionsTrue`), and that an answer to a decision, of either kind,
comes from an asker that has the outcome or has removed the request (`AnswersTrue`): that is
why an answer may retire the decision. The two lemmas `WayKept` and `OutcomeKept` name
what they need of a step, and each action is shown to give it. The invariant was
checked with TLC on the instance of `friendship` first.

`PresenceProofs` proves, from `NetworkAssumption` only, for any addresses, any network and
any number of connections and faults: `TypeCorrect`; `OnlineForAReason`
(`[]OnlineHasReason`), which needs of `TypeOK` that no Hello is awaited on a connection
that is gone; `KnownStaysTried` (`KnownIsTried`), step by step, where the dial that is
dropped is the case that matters: its deadline is removed, so it must be dropped only
for a connection, a dial under way or want of an address; and `MemoryIsKept`
(`RememberedIsKept`), from the invariant that only friends are remembered.

`ChunkStreamProofs` proves, for every size and every chunk length: `ChunksTile` (the chunks
lie one after the other and the last one ends at the size), `ResumeIsAligned` (an offset is
resumable exactly at the start of a chunk or at the size, and its index counts the chunks
before it), `NextIsResumable` (a resumable offset plus the chunk read there is resumable,
so no commit leaves a row that cannot be resumed) and `HonestFrameFits` (the frame the
sender builds passes the receiver's tests). They rest on one lemma about division: for
a < b times c the quotient is below c. The empty file, which has no chunk, and the last
short one are the cases.

With them it proves `StoredWhole` (`Spec => []StoredIsOriginal` of `ChunkStream`), for any
sizes, edits of the source and losses of the stream. `StreamInv`, at the end of `ChunkStream`,
has the reason:

- `ManifestFits`: each chunk of the manifest has the length of its place, and before the
  manifest is saved nothing moves.
- `ManifestIsSource`: as long as the source is not touched the manifest is cut from it, so
  that no test of a chunk against it can fail.
- `SenderAt`, `ReceiverAt`: the sender is where the receiver is or one chunk behind, and what
  is on the stream is the chunk of that place, or the offset the sender waits for. A frame
  therefore always continues the partial, and an acknowledgement never runs ahead of it.

Byte `k` of the file is `Original(k)`, a byte of the chunk that `k` falls in; that the chunks
written one after the other are the file is then no induction over them but a fact about
one offset at a time, which `ChunksTile` and `ResumeIsAligned` give.

`TerminalOutboxProofs` proves `SlotsShared` (`Spec => [][SharesSlots]_vars` of `TerminalOutbox`)
for any number of friends and notices and any limits, from `OutboxAssumption` (friends are
finitely many, and numbered; the limits are numbers). A pass is a loop of rounds, a round a
loop of turns, and both are recursive functions:

- `SetInduction` is induction stated for a set of numbers instead of an operator, and
  `Recursion` says with it that a function defined by recursion exists. Both come from the
  library's theorem that every set of naturals has a least element.
- `TurnsDone` is what holds after each turn of a round, `RoundsDone` after each round of a pass:
  who is left waiting with slots of its own has got one notice in every round so far, or all
  slots are taken and nobody got two more.
- A look admits one notice if there is one to admit and a slot for it (`AdmittedOne`),
  because the page it reads is longer than what it may skip: a pigeonhole over the oldest
  rows (`OldestBound`, `RankGrows`).
- Each connected friend has a place of its own in the order the cursor has turned (`Places`).
- The invariant between the passes, `OutboxInv`, is that the limits hold.

`RoundsSettle` shows that the bound on the rounds cuts nothing off.

`ReceiveFileProofs` proves, for any number of names, partials, files, acceptances, cleaners,
moves of the user and crashes, and with or without hard links:

- `TypeCorrect` (`[]TypeOK`);
- `PublishedWhole` (`[]PublishedIsWhole`): what a completed row names is the whole file;
- `OwnedIsNotDue` (`[]OwnedOrDue`): what the row owns is never due for removal, although
  acceptances fail and are repeated and cleanups are late;
- `AcceptedBacked` (`[]AcceptedIsBacked`): an open row that owns files has its name, its partial
  and the marker of it, unless somebody outside took them;
- `NothingIsOrphaned` (`[]NothingOrphaned`): no hidden file is left of which nobody knows;
- `ForeignIsKept` (`ForeignKept`): no step of ours takes a name, or a partial's name, away
  from a file that is not ours, nor a reservation from another transfer.

The first five come from one invariant, `IInv`, in named parts:

- `LockHeld`, `AttemptShape`, `RowShape`, `TaskShape`, `CleanupShape`, `PhaseShape` say which
  fields go with which step. The one that matters is in `TaskShape`: a task at work holds the
  row with the ownership it was started with, or its row has ended under it and its token is
  in `lost`.
- `FilesUsed`, `FilesOurs`, `CopiesApart`: an identity in use is never taken again, what our
  markers and journal name is ours, and the copy of a finalisation is never the partial.
- `WholeInTime`: from the moment a task finalises, the file its marker names is whole, then
  the one it holds, then the one under the name. This is what makes `PublishedIsWhole` hold
  across links, copies and names that are taken.
- `NamesKept`, `PartialsKept`: while nobody outside has moved, a name reserved for an
  acceptance or a task is still its own, and so is its partial.
- `Begun`, `OneMarker`, `Swept`, `AllInHand`: every token that is found in the directory is in
  somebody's hand (an acceptance at work, the row, the cleanup record, or it is lost), no
  acceptance that has not begun has left anything, a token has one marker, and a cleaner that
  is past a step has left nothing of it. `NothingOrphaned` is `AllInHand` read from the
  directory's side.

Each action has two lemmas, one for the types and one for the rest; `Frames` and `Advances`
state once what is kept by a step that leaves a part's variables alone, so that each of the
second lemmas speaks only of the parts its action disturbs. The invariant was checked with
TLC on the instance of `receive_file` first. `ForeignIsKept` goes action by
action and needs of the invariant which files are ours (`FilesOurs`): what each action
removes it has compared with one of them.

`PartsProofs` proves, of each part that `MCParts` runs, its property for every value of its
constants, from the named assumptions (capacities, sizes and bounds are numbers, chunks are
not empty, friends are finitely many, "no nickname" is not a nickname). A behaviour of
`MCParts` is one of a single part, so `PartsInvariant` puts the eleven invariants side by side.
Each but `OutboxInv` is stated at the end of its part's module, where a reader of the module
finds the reason why the property holds, and was checked with TLC on the `parts` run before
it was proved:

- `HonestChat` (`[]ChatIsHonest`), from `ChatInv`: a request that was accepted is in the
  friend's database before its answer leaves, and an answer is always one the loop awaits.
- `WholeLegacy` (`[]LegacyIsWhole`), from `LegacyInv`: what is published was compared with a
  hash that cannot change any more, only a claimed row has a task, and only the task
  completes the row and answers yes.
- `SoundMigration` (`[]MigrationIsSound`), from `MigrationInv`: what the statements so far have
  done holds of what the open transaction sees (`After`, `Consistent`), and until the
  decisions were queued once none has been acknowledged.
- `WholeCopies` (`[]CopiesAreWhole`), from `SaveInv` for "save as" (only a rename puts the
  temporary file under the destination, and only as long as the source was) and `UpdateInv`
  for the update (only a verified file is linked, and without damage no call finds a file to
  discard). Every call of the operating system may fail in both, the removals included.
- `EnoughSpace` (`[]SpaceIsEnough`), from `SpaceInv`: what a writing transfer still needs, plus
  the reserve, is at most what is free plus what others have taken since the last look; so
  it is for an accepted one that waits for its first stream, which is not looked at again.
- `KeptSettings` (`[]SettingsAreKept`), from `IdentityInv` (one place at most holds an
  identity, and it is the one that was used, unless one was hidden) and `SettingsInv` (a
  marker not imported yet has the language chosen last; a command holds what was confirmed
  and told until it has stored or told otherwise).
- `CurrentScreen` (`[]ScreenIsCurrent`), from `ViewInv`: unless a refresh is still to come, one
  was asked for since the last change an event told of, and it and every later call show, or
  have yet to read, what the database has (`EntriesAreComing`, `PresenceIsComing`).
- `StoredOriginal` (`[]StoredIsOriginal`) and `SharedSlots` (`SlotsAreShared`): the theorems of
  `ChunkStreamProofs` and `TerminalOutboxProofs`, carried to the slots of this run. Lemmas
  show that every step of the instance checked is one of the instance proved about.

The type invariants of the core, of `Friendship`, `Presence` and `ReceiveFile` are proved, not
run; those of the parts are the first conjunct of the part's invariant.

Only model-checked is liveness: it rests on fairness and ENABLED, and these are beyond the
prover. Every invariant and every action property of a passing run is a theorem.

## 5. Where the code and its documents disagree

- `image_resume`: the transaction that completes a resumed transfer requires a message
  of kind `file` (`rust/storage.rs:1662`). For an image whose last acknowledgement was
  lost it is rolled back after every "completed" answer, so the sender's row
  stays paused. The design promises that it is marked completed.
- `stranded_receiver`: the receiver accepts and restarts before the decision has reached
  the sender. Its row is paused with the text "waiting for automatic recovery", but the
  sender, still awaiting acceptance, never asks for a resumption, and the timer that
  would give the row back to the user is gone with the old process.
- `lost_record`: the chat message of a received file is written after, and apart from,
  the completion of its row. A crash in between leaves a complete file that the chat
  never shows.

- `falsely_pending`: `send_friend_request` takes a peer whose row says online. When the
  connection has gone meanwhile, the loop refuses the queued command, and
  `handle_command_failure` does nothing for it (`rust/network/runtime.rs:693`): the row stays
  pending, and every further request to that peer is refused as already sent. The
  design says a failed request "does not remain falsely pending".
- `one_sided_friendship`: a request arrives and its answer does not, so the asker
  removes it (`rust/network/runtime.rs:1684`). The other user accepts. The asker answers the
  decision with "not found", and that answer too retires the decision
  (`rust/network/runtime.rs:1494`): one device has a friend, the other has not, and nothing is
  left to send. The design says that only an acceptance retires it, and that both
  devices end with the same friendship. A new request of the former asker heals it;
  one of the other user is not sent, as the peer is already a friend.

The following are no contradictions with a document, but a reader of the code should know
them. Where a property has an exception, it is for one of these.

- A crash, an automatic acceptance overtaken by the user's, or the end of the peer's
  transfer under a finalisation leaves a hidden reservation that nothing removes (`lost` in
  `NothingOrphaned`). The marker of a partial stays when the user removes or replaces the
  partial.
- An automatic acceptance that fails late compensates by giving the row back to the user
  (`rust/network/runtime.rs:2981`), also when the user has accepted it meanwhile.
- Without hard links, a copy that was interrupted and whose transfer is then cancelled is
  left incomplete under its visible name (`rust/receive_paths.rs:1680`): it is no longer known
  to be ours. `PublishedIsWhole` is about completed transfers.
- `retry_text` does not test the status of the row: two retries that overlap can turn a
  delivered message into a failed one. A retry the channel refuses leaves "sending" until
  the next start (`refused` in `ChatIsHonest`).
- In the first protocol `set_transfer_failed` overwrites whatever the row says, and
  `update_progress` writes back the row it started with; a sender whose wait for the
  verdict ends may fail a file the receiver has; a crash leaves the `.part` file.
- A call of `download_update` that found a damaged installer may remove the good one that
  another has linked meanwhile; an error in the look that follows a failed link, and a
  restart, leave a hidden file.
- "Save as" checks its temporary file and renames it afterwards: a file exchanged in
  between is what replaces the destination. It may report an error although the rename has
  replaced the destination, when the look at what is there then fails
  (`rust/commands.rs:885`; `"confirmation"` in `failed`). Its temporary stays when it cannot be
  identified after its creation (`rust/commands.rs:757`; `"identity"`) or not be removed
  (`rust/commands.rs:892`; `"removal"`), and the directory of the temporary when that cannot
  be created.
- `remove_partial` of the update only logs a failure (`rust/update.rs:387`): the hidden file
  stays (`kept`).
- Nothing of the volume is reserved, so transfers let in together may overcommit it. A first
  stream is not preceded by a look of its own (`rust/resumable_transfer.rs:89`): what others
  took since the acceptance, however long it waited, may be missing. Where
  the file system has no links the code asks for the whole copy besides the rest
  (`rust/volume_preflight.rs:113`), which is more than the design asks.
- A start at which the credential store that has the identity does not answer makes a new
  one (`rust/identity.rs:53`), as the plan prescribes; the next start finds the old one
  (`hidden` in `IdentityIsKept`).
- An installer's marker that one start could not read is imported by the next, over a newer
  choice (`rust/storage.rs:180`; `unread`). A rollback of settings that itself fails is only
  logged (`rust/commands.rs:123`; `unsettled`).
- The window asks for its first snapshot before it listens, so an event in between shows
  at the next refresh only; a refresh that failed is not repeated (`behind` in
  `ScreenIsCurrent`). A storage error between a row and its event loses the event, with the
  same effect (`HandlerFails`).
- A transfer can change without an event: `try_claim_incoming_transfer` begins the stream of a
  paused row (`rust/storage.rs:990`) and `commit_received_chunk` counts a chunk
  (`rust/network/transfer.rs:1003`) without one, and the sender's progress events are gated
  (`rust/network/transfer.rs:68`). A receive that was resumed is shown as paused until an event
  or a command of the user makes the window ask for a snapshot (`silent` in
  `ScreenIsCurrent`).
- The 80 ms before a refresh start anew at each event, so many transfers that progress at
  once can postpone a refresh for as long as they run.

## 6. Plan

What would add most next, in order of weight:

1. The composition of `ReceiveFile` with `ResumableTransfer`: `synced` and `published` as the
   image of `partial` and `entry`. Each alone has millions of states, so it needs the
   refinement by proof rather than by a run; `IInv` of `ReceiveFileProofs` is its first half.
2. Liveness of `ChatMessages` and `InterfaceView`.

## 7. Not modelled, and why

- The queries of the operating system in `volume_preflight.rs` and `receive_paths.rs` (free
  space, file systems, file identities) are external: the models say what the code does
  with their answers. A symbolic link on the way to the directory is one of them.
- On macOS a verified removal goes through a quarantine directory; `ReceiveFile` has the
  removal through one handle, as on Windows.
- A receive that an earlier release left at its legacy stage; a downgrade of the database
  and a later upgrade.
- The lookup of a release over HTTP and the choice of an asset; rendering, translations,
  notifications and the update dialogue; validation of names and paths.
- Hashing is modelled by its verdict: a damaged chunk or manifest is found
  (`IntegrityFails`, `SourceChanged`), as the code finds it; in `ChunkStream` two chunks have
  one hash only if they are the same.
- Several transfers share nothing but the connection, the outbox's limits
  (`TerminalOutbox`), names in the directory (`Others` in `ReceiveFile`) and the volume
  (`DestinationSpace`).
- Statements that follow each other directly, and whose intermediate states no property
  tells apart, are one step: a row and the status of its message
  (`rust/network/runtime.rs:1628`), the row of a friend request, the place in the channel and
  the removal when it is full (`rust/commands.rs:188`), the completion of a receive of the
  first protocol with its message, verdict and claim (`rust/network/transfer.rs:1231`; a
  claim whose release fails is only logged, and the row is complete by then), in
  `InterfaceView` a row and its event (but for `HandlerFails`). A Hello whose row was written
  and whose event a later storage error suppressed is left out.
- A crash of the friend between storing a text message and telling its window; a crash in
  the middle of the copy of a finalisation in `DestinationSpace` (in `ReceiveFile` it is).
- `update_nickname` and `update_transfer_preferences` are not called by the interface.
- `InterfaceView` takes it from Tauri and the webview that the window's commands are served,
  and their answers handled, in order.
- Progress published to the interface is not part of the protocol.
