------------------------------ MODULE MCParts ------------------------------
(***************************************************************************)
(* The parts that share no state, checked in one run: which part a         *)
(* behaviour is of is chosen at first.  A state of the run is a state of   *)
(* that part; its variables are in the first of the slots s1 .. s18, and   *)
(* the other slots are 0.                                                  *)
(***************************************************************************)
EXTENDS ChunkGeometry, SpaceParameters, OutboxParameters

CONSTANTS
    Messages, ChannelSize, MaxAttempts,                  \* ChatMessages
    Sizes, MaxEdits, MaxLosses,                          \* ChunkStream
    Names, MaxForeign,                                   \* LegacyTransfer
    MaxRestarts,                                         \* ChatMessages, LegacyTransfer
    Requests, Columns, Cleanups, MaxTokens, MaxOpenings, \* SchemaMigration
    MaxLength, MaxOutside,                               \* SaveCopy
    Calls, InstallerSize, MaxDamages,                    \* UpdateDownload
    MaxIdentities, MaxAbandons,                          \* DeviceIdentity
    Nicknames, Languages, MaxInstallations, MaxSaves, MaxMishaps,  \* LocalSettings
    MaxCalls, MaxChanges, MaxFailures                    \* InterfaceView

ASSUME PartsAssumption ==
    /\ ChannelSize \in Nat /\ MaxAttempts \in Nat /\ MaxRestarts \in Nat
    /\ Sizes \subseteq Nat
    /\ "cleanup_token" \in Columns
    /\ MaxLength \in Nat /\ MaxOutside \in Nat
    /\ InstallerSize \in Nat /\ MaxDamages \in Nat
    /\ MaxIdentities \in Nat /\ MaxAbandons \in Nat
    /\ "none" \notin Nicknames
    /\ MaxInstallations \in Nat /\ MaxSaves \in Nat /\ MaxMishaps \in Nat
    /\ MaxChanges \in Nat /\ MaxFailures \in Nat

VARIABLES
    part,
    s1, s2, s3, s4, s5, s6, s7, s8, s9, s10, s11, s12, s13, s14, s15, s16, s17, s18

slots ==
    <<part, s1, s2, s3, s4, s5, s6, s7, s8, s9, s10, s11, s12, s13, s14, s15, s16, s17, s18>>

Chat == INSTANCE ChatMessages WITH
    row <- s1, refused <- s2, queue <- s3, flight <- s4, attempts <- s5, running <- s6,
    connected <- s7, online <- s8, friends <- s9, inbox <- s10, announced <- s11,
    restarts <- s12

Outbox == INSTANCE TerminalOutbox WITH
    queued <- s1, written <- s2, inFlight <- s3, connected <- s4, able <- s5, cursor <- s6

Stream == INSTANCE ChunkStream WITH
    source <- s1, edits <- s2, prepared <- s3, snapshot <- s4, chunks <- s5, sending <- s6,
    position <- s7, acked <- s8, frame <- s9, answer <- s10, partial <- s11, synced <- s12,
    recorded <- s13, committed <- s14, receiving <- s15, outcome <- s16, losses <- s17

Legacy == INSTANCE LegacyTransfer WITH
    source <- s1, hashed <- s2, outStatus <- s3, outMessage <- s4, offer <- s5, inStatus <- s6,
    claimed <- s7, pending <- s8, wire <- s9, sending <- s10, sent <- s11, receiving <- s12,
    got <- s13, ack <- s14, directory <- s15, held <- s16, savedAs <- s17, restarts <- s18

Schema == INSTANCE SchemaMigration WITH
    db <- s1, work <- s2, at <- s3, acked <- s4, tokens <- s5, received <- s6, openings <- s7

Save == INSTANCE SaveCopy WITH
    source <- s1, destination <- s2, temporary <- s3, length <- s4, opened <- s5, before <- s6,
    at <- s7, outside <- s8, exchanged <- s9, failed <- s10

Update == INSTANCE UpdateDownload WITH
    cached <- s1, part <- s2, step <- s3, opener <- s4, given <- s5, kept <- s6,
    damages <- s7

Identity == INSTANCE DeviceIdentity WITH
    keyring <- s1, file <- s2, useKeyring <- s3, at <- s4, found <- s5, made <- s6, used <- s7,
    hidden <- s8, abandons <- s9

LocalSet == INSTANCE LocalSettings WITH
    nickname <- s1, preferences <- s2, language <- s3, imported <- s4, marker <- s5, at <- s6,
    profile <- s7, queue <- s8, stopped <- s9, command <- s10, confirmed <- s11,
    unsettled <- s12, choice <- s13, unread <- s14, saves <- s15, mishaps <- s16

View == INSTANCE InterfaceView WITH
    db <- s1, events <- s2, listening <- s3, calls <- s4, timer <- s5, polling <- s6,
    screen <- s7, acting <- s8, behind <- s9, polled <- s10, changes <- s11, failures <- s12, silent <- s13

Space == INSTANCE DestinationSpace WITH
    links <- s1, free <- s2, size <- s3, committed <- s4, copied <- s5, state <- s6, taken <- s7

Init ==
    \/ part = "chat" /\ Chat!Init
       /\ s13 = 0 /\ s14 = 0 /\ s15 = 0 /\ s16 = 0 /\ s17 = 0 /\ s18 = 0
    \/ part = "outbox" /\ Outbox!Init
       /\ s7 = 0 /\ s8 = 0 /\ s9 = 0 /\ s10 = 0 /\ s11 = 0 /\ s12 = 0 /\ s13 = 0 /\ s14 = 0
       /\ s15 = 0 /\ s16 = 0 /\ s17 = 0 /\ s18 = 0
    \/ part = "stream" /\ Stream!Init
       /\ s18 = 0
    \/ part = "legacy" /\ Legacy!Init
    \/ part = "schema" /\ Schema!Init
       /\ s8 = 0 /\ s9 = 0 /\ s10 = 0 /\ s11 = 0 /\ s12 = 0 /\ s13 = 0 /\ s14 = 0 /\ s15 = 0
       /\ s16 = 0 /\ s17 = 0 /\ s18 = 0
    \/ part = "save" /\ Save!Init
       /\ s11 = 0 /\ s12 = 0 /\ s13 = 0 /\ s14 = 0 /\ s15 = 0 /\ s16 = 0
       /\ s17 = 0 /\ s18 = 0
    \/ part = "update" /\ Update!Init
       /\ s8 = 0 /\ s9 = 0 /\ s10 = 0 /\ s11 = 0 /\ s12 = 0 /\ s13 = 0 /\ s14 = 0
       /\ s15 = 0 /\ s16 = 0 /\ s17 = 0 /\ s18 = 0
    \/ part = "identity" /\ Identity!Init
       /\ s10 = 0 /\ s11 = 0 /\ s12 = 0 /\ s13 = 0 /\ s14 = 0 /\ s15 = 0 /\ s16 = 0
       /\ s17 = 0 /\ s18 = 0
    \/ part = "settings" /\ LocalSet!Init
       /\ s17 = 0 /\ s18 = 0
    \/ part = "view" /\ View!Init
       /\ s14 = 0 /\ s15 = 0 /\ s16 = 0 /\ s17 = 0 /\ s18 = 0
    \/ part = "space" /\ Space!Init
       /\ s8 = 0 /\ s9 = 0 /\ s10 = 0 /\ s11 = 0 /\ s12 = 0 /\ s13 = 0 /\ s14 = 0 /\ s15 = 0
       /\ s16 = 0 /\ s17 = 0 /\ s18 = 0

ChatStep ==
    /\ part = "chat" /\ Chat!Next
    /\ UNCHANGED <<part, s13, s14, s15, s16, s17, s18>>
OutboxStep ==
    /\ part = "outbox" /\ Outbox!Next
    /\ UNCHANGED <<part, s7, s8, s9, s10, s11, s12, s13, s14, s15, s16, s17, s18>>
StreamStep ==
    /\ part = "stream" /\ Stream!Next
    /\ UNCHANGED <<part, s18>>
LegacyStep ==
    /\ part = "legacy" /\ Legacy!Next
    /\ UNCHANGED part
SchemaStep ==
    /\ part = "schema" /\ Schema!Next
    /\ UNCHANGED <<part, s8, s9, s10, s11, s12, s13, s14, s15, s16, s17, s18>>
SaveStep ==
    /\ part = "save" /\ Save!Next
    /\ UNCHANGED <<part, s11, s12, s13, s14, s15, s16, s17, s18>>
UpdateStep ==
    /\ part = "update" /\ Update!Next
    /\ UNCHANGED <<part, s8, s9, s10, s11, s12, s13, s14, s15, s16, s17, s18>>
IdentityStep ==
    /\ part = "identity" /\ Identity!Next
    /\ UNCHANGED <<part, s10, s11, s12, s13, s14, s15, s16, s17, s18>>
SettingsStep ==
    /\ part = "settings" /\ LocalSet!Next
    /\ UNCHANGED <<part, s17, s18>>
ViewStep ==
    /\ part = "view" /\ View!Next
    /\ UNCHANGED <<part, s14, s15, s16, s17, s18>>
SpaceStep ==
    /\ part = "space" /\ Space!Next
    /\ UNCHANGED <<part, s8, s9, s10, s11, s12, s13, s14, s15, s16, s17, s18>>

Next ==
    \/ ChatStep \/ OutboxStep \/ StreamStep \/ LegacyStep
    \/ SchemaStep \/ SaveStep \/ UpdateStep \/ SpaceStep
    \/ IdentityStep \/ SettingsStep \/ ViewStep

Spec == Init /\ [][Next]_slots

-----------------------------------------------------------------------------
\* What the sender is shown of a chat message agrees with what happened to it at the
\* friend, through refused, lost and repeated sends and restarts (ChatMessages).
ChatIsHonest == part = "chat" => Chat!ChatIsHonest

\* Every pass over the terminal notices shares the slots fairly among the friends and
\* sends the oldest first (TerminalOutbox).
SlotsAreShared == [][part = "outbox" => Outbox!SharesSlots]_slots

\* What the receiver committed is what the sender's manifest was built from, and an
\* untouched source is never refused (ChunkStream).
StoredIsOriginal == part = "stream" => Stream!StoredIsOriginal

\* A completed transfer of the first protocol holds the bytes that were offered, and the
\* sender calls delivered only what is complete at the receiver (LegacyTransfer).
LegacyIsWhole == part = "legacy" => Legacy!FileIsWhole

\* A migrated database has all this release needs, lost nothing, and has each friend
\* decision queued or acknowledged, wherever earlier openings ended (SchemaMigration).
MigrationIsSound == part = "schema" => Schema!MigrationIsSound

\* The files made for the user are whole or not there, and a call that fails undoes what it
\* can: a saved copy is as long as its source was, and an installer is linked or opened only
\* if it is the published one (SaveCopy, UpdateDownload).
CopiesAreWhole ==
    /\ part = "save" => Save!CopyIsWhole
    /\ part = "update" => Update!InstallerIsGenuine

\* A device keeps its identity, the language is the one chosen last, and the settings are
\* those the user was told are saved (DeviceIdentity, LocalSettings).
SettingsAreKept ==
    /\ part = "identity" => Identity!IdentityIsKept
    /\ part = "settings" =>
        LocalSet!LanguageIsLastChosen /\ LocalSet!SettingsAreConfirmed

\* At rest the window shows what the database has and an event or an answer has told it
\* (InterfaceView).
ScreenIsCurrent == part = "view" => View!ScreenIsCurrent

\* A stream does not find the volume full while the others stay within the reserve from the
\* last look on (DestinationSpace).
SpaceIsEnough == part = "space" => Space!SpaceSuffices
=============================================================================
