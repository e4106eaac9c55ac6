----------------------------- MODULE ReceiveFile -----------------------------
(***************************************************************************)
(* The files of one incoming transfer: the name reserved for it in the     *)
(* receive directory, the hidden partial file, the journal of the          *)
(* finalisation, the file the user gets, and the two rows of the database  *)
(* that say which of these the transfer owns or has yet to remove.         *)
(*                                                                         *)
(* Nothing in the directory is this program's by its name alone.  A        *)
(* reservation (a hidden file beside the name) carries the token of one    *)
(* acceptance, and the marker beside a partial the token and the identity  *)
(* of the file; whatever is removed is opened, compared and removed        *)
(* through the same handle, in one step, as on Windows.                    *)
(*                                                                         *)
(* The transfer meets the user, who adds and removes files, the other      *)
(* transfers, which reserve names, failing calls and the end of the        *)
(* process.  Of the bytes the module keeps whether a file is empty, partly *)
(* written or whole.                                                       *)
(***************************************************************************)
EXTENDS Integers, FiniteSetsExt

CONSTANTS
    Tokens,      \* acceptances of the transfer, by their reservation token
    Automatic,   \* those of the automatic acceptance, which picks the name
    MaxNames,    \* bound: numbered names of the file, in their order
    MaxSlots,    \* bound: numbered names of the partial
    MaxFiles,    \* bound: files created, whose identity is never used again
    Cleaners,    \* bound: runs of the clean-up at one time
    MaxMoves,    \* bound: steps of the user and of other transfers
    MaxFaults,   \* bound: failing calls and ends of the process
    Others,      \* the token of every other transfer
    None         \* no token, name, slot or file

Names == 1..MaxNames
Slots == 1..MaxSlots
Files == 1..MaxFiles

ASSUME ReceiveAssumption ==
    /\ Automatic \subseteq Tokens
    /\ MaxNames \in Nat /\ MaxSlots \in Nat /\ MaxFiles \in Nat
    /\ MaxMoves \in Nat /\ MaxFaults \in Nat
    /\ Others \notin Tokens /\ None \notin Tokens \union {Others}
    /\ None \notin Names \union Slots \union Files

VARIABLES
    links,        \* does the volume know hard links?
    entry,        \* the visible file of each name
    content,      \* what each file holds
    reservation,  \* the token beside each name
    partial,      \* the hidden file of each slot
    marker,       \* the token and the file in its .owner
    journal,      \* the last readable record of the finalisation
    torn,         \* does the journal end in half a record?
    row,          \* table transfers
    cleanup,      \* table transfer_cleanup
    lock,         \* the acceptance that holds the database
    attempt,      \* accept_incoming_transfer, per token
    task,         \* the receiving task
    cleaner,      \* cleanup_pending_terminal_artifact, per run
    phase,        \* of the process: running, or in Storage::open
    lost,         \* tokens whose holder was cut off before it could release
    moves, faults

dirVars == <<entry, content, reservation, partial, marker, journal, torn>>
dbVars == <<row, cleanup, lock>>
vars == <<links, dirVars, dbVars, attempt, task, cleaner, phase, lost, moves, faults>>

-----------------------------------------------------------------------------

Contents == {"free", "empty", "part", "whole", "foreign"}
Markers == [token : Tokens, file : Files]
NoMarker == [token |-> None, file |-> None]
Records == [token : Tokens, name : Names, file : Files,
            state : {"prepared", "copyPrepared", "created"}]
NoRecord == [token |-> None, name |-> None, file |-> None, state |-> "none"]

\* What a row says the transfer owns.
Ownerships == [dest : Names \union {None}, token : Tokens \union {None},
               slot : Slots \union {None}]
Nothing == [dest |-> None, token |-> None, slot |-> None]

Open == {"awaitingAcceptance", "transferring", "paused"}
Ended == {"completed", "cancelled", "failed"}

AttemptSteps == {"idle", "reserved", "created", "marked", "refused",
                 "unpersisted", "releasing", "accepted", "over"}
TaskSteps == {"idle", "receiving", "finalising", "journalling", "linking", "linked",
              "replacing", "switching", "releasing", "preparing", "created",
              "copying", "filling", "copied", "completing"}
CleanerSteps == {"idle", "reservations", "partial", "marker", "journal", "row"}

NoAttempt == [at |-> "idle", name |-> None, slot |-> None, file |-> None]
NoTask == [at |-> "idle", token |-> None, slot |-> None, part |-> None,
           name |-> None, from |-> None, copy |-> None]
NoCleaner == [at |-> "idle", own |-> Nothing]

TypeOK ==
    /\ links \in BOOLEAN
    /\ entry \in [Names -> Files \union {None}]
    /\ content \in [Files -> Contents]
    /\ reservation \in [Names -> Tokens \union {None, Others}]
    /\ partial \in [Slots -> Files \union {None}]
    /\ marker \in [Slots -> Markers \union {NoMarker}]
    /\ journal \in Records \union {NoRecord}
    /\ torn \in BOOLEAN
    /\ row \in [status : Open \union Ended, own : Ownerships,
                claimed : BOOLEAN, whole : BOOLEAN]
    /\ cleanup \in [due : BOOLEAN, own : Ownerships]
    /\ lock \in Tokens \union {None}
    /\ attempt \in [Tokens -> [at : AttemptSteps, name : Names \union {None},
                               slot : Slots \union {None}, file : Files \union {None}]]
    /\ task \in [at : TaskSteps, token : Tokens \union {None}, slot : Slots \union {None},
                 part : Files \union {None}, name : Names \union {None},
                 from : Names \union {None}, copy : Files \union {None}]
    /\ cleaner \in [Cleaners -> [at : CleanerSteps, own : Ownerships]]
    /\ phase \in {"running", "reconcile", "sweep"}
    /\ lost \subseteq Tokens
    /\ moves \in 0..MaxMoves
    /\ faults \in 0..MaxFaults

NoCleanup == [due |-> FALSE, own |-> Nothing]

Init ==
    /\ links \in BOOLEAN
    /\ entry = [n \in Names |-> None]
    /\ content = [f \in Files |-> "free"]
    /\ reservation \in [Names -> {None, Others}]
    /\ \A n \in Names : reservation[n] = Others => n = 1
    /\ partial = [s \in Slots |-> None]
    /\ marker = [s \in Slots |-> NoMarker]
    /\ journal = NoRecord
    /\ torn = FALSE
    /\ row = [status |-> "awaitingAcceptance", own |-> Nothing,
              claimed |-> FALSE, whole |-> FALSE]
    /\ cleanup = NoCleanup
    /\ lock = None
    /\ attempt = [k \in Tokens |-> NoAttempt]
    /\ task = NoTask
    /\ cleaner = [c \in Cleaners |-> NoCleaner]
    /\ phase = "running"
    /\ lost = {}
    /\ moves = 0
    /\ faults = 0

-----------------------------------------------------------------------------
(* The directory.                                                          *)

Fault ==
    /\ faults < MaxFaults
    /\ faults' = faults + 1

\* reserve_receive_path.  A file that appears before the second look at the
\* name undoes the reservation: it might as well have been there before.
Reservable(n) == entry[n] = None /\ reservation[n] = None

\* reserve_available_receive_path, which counts on for ever.
SomeAvailable == \E n \in Names : Reservable(n)

Available == Min({n \in Names : Reservable(n)})

\* Mutant: any reservation beside the name is taken for ours.
AnyReservation(n, token) == reservation[n] # None

\* reservation_is_owned.
ReservationIsOwned(n, token) == reservation[n] = token

\* remove_exact_verified_file: what is not recognised stays.
Removed(files, at, recognised) == IF recognised THEN [files EXCEPT ![at] = None] ELSE files

\* remove_owned_reservation.
WithoutReservation(n, token) == Removed(reservation, n, ReservationIsOwned(n, token))

\* open_identity_verified_partial: the marker names the token and the file.
PartialIsOwned(s, token) ==
    /\ s \in Slots
    /\ partial[s] # None
    /\ marker[s] = [token |-> token, file |-> partial[s]]

\* Where reserve_resumable_partial goes: its own partial, or the first slot
\* with neither a partial nor a marker.
FreeSlots == {s \in Slots : partial[s] = None /\ marker[s] = NoMarker}
OwnSlots(token) == {s \in Slots : PartialIsOwned(s, token)}

FreeFiles == {f \in Files : content[f] = "free"}
NewFile == Min(FreeFiles)

\* append_finalization_record.  Records are read line by line, with a
\* checksum: after half a line the next record cannot be read either.
Append(record) ==
    /\ journal' = IF torn THEN journal ELSE record
    /\ torn' = FALSE

-----------------------------------------------------------------------------
(* The rows.                                                               *)

AwaitingRow == [status |-> "awaitingAcceptance", own |-> Nothing,
                claimed |-> FALSE, whole |-> FALSE]

\* Mutant: a clean-up that is still due does not stand in the way.
AcceptsDespiteCleanup ==
    /\ row.status = "awaitingAcceptance"
    /\ ~row.claimed

\* The UPDATE of try_accept_incoming_transfer.
StillAccepts ==
    /\ row.status = "awaitingAcceptance"
    /\ ~row.claimed
    /\ ~cleanup.due

\* persist_incoming_acceptance_fallback: the clean-up is staged and the row
\* goes back to the user in one transaction, or neither.
CanStageFallback(own) ==
    cleanup.due => /\ cleanup.own.dest = own.dest
                   /\ cleanup.own.token = own.token
CanReturn(own) ==
    /\ ~row.claimed
    /\ ~row.whole
    /\ \/ row.status = "awaitingAcceptance" /\ row.own = Nothing
       \/ row.status = "transferring" /\ row.own = own
CanFallBack(own) == CanStageFallback(own) /\ CanReturn(own)

\* Mutant: the row goes back to the user, and nothing is to be removed.
ForgetFiles(own) ==
    /\ row' = AwaitingRow
    /\ UNCHANGED cleanup

FallBack(own) ==
    /\ cleanup' = [due |-> TRUE,
                   own |-> IF own.slot = None /\ cleanup.due THEN cleanup.own ELSE own]
    /\ row' = AwaitingRow

\* stage_owned_cleanup.
CanStage == row.status \in Ended /\ row.own.token # None

Stage ==
    /\ cleanup' = IF cleanup.due THEN cleanup ELSE [due |-> TRUE, own |-> row.own]
    /\ row' = [row EXCEPT !.own.token = None, !.own.slot = None]

TaskHoldsRow == row.status = "transferring" /\ row.claimed

-----------------------------------------------------------------------------
(* The acceptance: by the user, who picks a name, or automatic.            *)

IsRunning == phase = "running"
UnchangedOutside == UNCHANGED <<links, phase, moves>>
Advance(k, at) == attempt' = [attempt EXCEPT ![k].at = at]
Leave(k, at) == attempt' = [attempt EXCEPT ![k] = [NoAttempt EXCEPT !.at = at]]

\* drain_incoming_cleanup_before_acceptance finds nothing left to remove,
\* and the name is reserved.
Reserve(k) ==
    /\ IsRunning
    /\ attempt[k].at = "idle"
    /\ row.status = "awaitingAcceptance"
    /\ ~cleanup.due
    /\ \E n \in Names :
        /\ Reservable(n)
        /\ k \in Automatic => n = Available
        /\ reservation' = [reservation EXCEPT ![n] = k]
        /\ attempt' = [attempt EXCEPT ![k].at = "reserved", ![k].name = n]
    /\ UNCHANGED <<entry, content, partial, marker, journal, torn, dbVars,
                   task, cleaner, lost, faults>>
    /\ UnchangedOutside

\* The transaction begins, and under it the partial is created,
CreatePartial(k) ==
    /\ attempt[k].at = "reserved"
    /\ lock = None
    /\ ReservationIsOwned(attempt[k].name, k)
    /\ FreeSlots # {} /\ FreeFiles # {}
    /\ LET s == Min(FreeSlots) IN
        /\ partial' = [partial EXCEPT ![s] = NewFile]
        /\ content' = [content EXCEPT ![NewFile] = "empty"]
        /\ attempt' = [attempt EXCEPT ![k].at = "created", ![k].slot = s,
                                     ![k].file = NewFile]
    /\ lock' = k
    /\ UNCHANGED <<entry, reservation, marker, journal, torn, row, cleanup,
                   task, cleaner, lost, faults>>
    /\ UnchangedOutside

\* then its marker,
MarkPartial(k) ==
    /\ attempt[k].at = "created"
    /\ marker' = [marker EXCEPT ![attempt[k].slot] =
                    [token |-> k, file |-> attempt[k].file]]
    /\ Advance(k, "marked")
    /\ UNCHANGED <<entry, content, reservation, partial, journal, torn, dbVars,
                   task, cleaner, lost, faults>>
    /\ UnchangedOutside

Ownership(k) ==
    [dest |-> attempt[k].name, token |-> k, slot |-> attempt[k].slot]

\* and the row is updated, if it still waits for an answer.
Persist(k) ==
    /\ attempt[k].at = "marked"
    /\ lock' = None
    /\ IF StillAccepts
       THEN /\ row' = [status |-> "transferring", own |-> Ownership(k),
                       claimed |-> FALSE, whole |-> FALSE]
            /\ Leave(k, "accepted")
       ELSE /\ UNCHANGED row
            /\ Advance(k, "refused")
    /\ UNCHANGED <<dirVars, cleanup, task, cleaner, lost, faults>>
    /\ UnchangedOutside

\* The reservation is gone when the partial is to be created.
LosesReservation(k) ==
    /\ attempt[k].at = "reserved"
    /\ lock = None
    /\ ~ReservationIsOwned(attempt[k].name, k)
    /\ Advance(k, "refused")
    /\ UNCHANGED <<dirVars, dbVars, task, cleaner, lost, faults>>
    /\ UnchangedOutside

\* A call fails before the commit.  A partial without marker stays.
AcceptFails(k) ==
    /\ Fault
    /\ attempt[k].at \in {"reserved", "created", "marked"}
    /\ lock \in {None, k}
    /\ lock' = None
    /\ attempt' = [attempt EXCEPT ![k].at = "refused",
                                 ![k].slot = IF attempt[k].at = "created" THEN None ELSE @]
    /\ UNCHANGED <<dirVars, row, cleanup, task, cleaner, lost>>
    /\ UnchangedOutside

FallBackAfterRefusal(k) ==
    /\ attempt[k].at = "refused"
    /\ lock = None
    /\ IF CanFallBack(Ownership(k))
       THEN /\ FallBack(Ownership(k))
            /\ Advance(k, "releasing")
       ELSE /\ UNCHANGED <<row, cleanup>>
            /\ Advance(k, "unpersisted")
    /\ UNCHANGED <<dirVars, lock, task, cleaner, lost, faults>>
    /\ UnchangedOutside

\* cleanup_unpersisted_resumable_partial; beside another file than the one
\* it names, the marker stays.
RemoveUnpersisted(k) ==
    /\ attempt[k].at = "unpersisted"
    /\ LET s == attempt[k].slot IN
        IF s # None /\ (PartialIsOwned(s, k) \/ partial[s] = None)
        THEN /\ partial' = [partial EXCEPT ![s] = None]
             /\ marker' = [marker EXCEPT ![s] = IF @.token = k THEN NoMarker ELSE @]
        ELSE UNCHANGED <<partial, marker>>
    /\ Advance(k, "releasing")
    /\ UNCHANGED <<entry, content, reservation, journal, torn, dbVars,
                   task, cleaner, lost, faults>>
    /\ UnchangedOutside

\* cleanup_manual_reservation ends the command.
ReleaseName(k) ==
    /\ attempt[k].at = "releasing"
    /\ k \notin Automatic
    /\ reservation' = WithoutReservation(attempt[k].name, k)
    /\ Leave(k, "over")
    /\ UNCHANGED <<entry, content, partial, marker, journal, torn, dbVars,
                   task, cleaner, lost, faults>>
    /\ UnchangedOutside

\* compensate_automatic_acceptance_setup falls back once more, for what the
\* row owns by now, and else gives up its own reservation to nobody.
Compensate(k) ==
    /\ attempt[k].at = "releasing"
    /\ k \in Automatic
    /\ lock = None
    /\ LET own == IF row.own.token = None
                  THEN [dest |-> IF row.own.dest = None THEN attempt[k].name
                                                       ELSE row.own.dest,
                        token |-> k, slot |-> row.own.slot]
                  ELSE row.own
           isOurs == own.token = k /\ own.dest = attempt[k].name
       IN IF CanFallBack(own)
          THEN /\ FallBack(own)
               /\ lost' = IF isOurs THEN lost ELSE lost \union {k}
          ELSE /\ lost' = lost \union {k}
               /\ UNCHANGED <<row, cleanup>>
    /\ Leave(k, "over")
    /\ UNCHANGED <<dirVars, lock, task, cleaner, faults>>
    /\ UnchangedOutside

\* return_pending_incoming_decision_to_manual: the decision cannot be sent.
ReturnToManual(k) ==
    /\ Fault
    /\ attempt[k].at = "accepted"
    /\ lock = None
    /\ row.status = "transferring" /\ ~row.claimed /\ ~row.whole
    /\ ~cleanup.due
    /\ FallBack(row.own)
    /\ Leave(k, "over")
    /\ UNCHANGED <<dirVars, lock, task, cleaner, lost>>
    /\ UnchangedOutside

\* A cancellation by the user, of a row no task has claimed; the notice of
\* the peer, failed or cancelled, ends a claimed one as well, and the task
\* goes on for a while.
Cancel ==
    /\ IsRunning
    /\ lock = None
    /\ row.status \in Open /\ ~row.claimed
    /\ row' = [row EXCEPT !.status = "cancelled"]
    /\ UNCHANGED <<dirVars, cleanup, lock, attempt, task, cleaner, lost, faults>>
    /\ UnchangedOutside

RemoteEnds ==
    /\ IsRunning
    /\ lock = None
    /\ row.status \in Open
    /\ row' = [row EXCEPT !.status = "failed", !.claimed = FALSE]
    /\ lost' = IF task.at = "idle" THEN lost ELSE lost \union {task.token}
    /\ UNCHANGED <<dirVars, cleanup, lock, attempt, task, cleaner, faults>>
    /\ UnchangedOutside

-----------------------------------------------------------------------------
(* The task: receives, finalises, completes.                               *)

TaskTo(at) == task' = [task EXCEPT !.at = at]
UnchangedByTask == UNCHANGED <<links, cleanup, lock, attempt, cleaner, phase, lost, moves>>

\* The row of a task that ends: it may have been ended before.
EndRow(status) ==
    row' = IF TaskHoldsRow THEN [row EXCEPT !.status = status, !.claimed = FALSE]
                           ELSE row
TaskEnds(status) == task' = NoTask /\ EndRow(status)

Claim ==
    /\ IsRunning
    /\ lock = None
    /\ task.at = "idle"
    /\ row.status \in {"transferring", "paused"} /\ ~row.claimed
    /\ row' = [row EXCEPT !.status = "transferring", !.claimed = TRUE]
    /\ task' = [NoTask EXCEPT !.at = "receiving", !.token = row.own.token,
                             !.slot = row.own.slot, !.name = row.own.dest]
    /\ UNCHANGED <<dirVars, faults>>
    /\ UnchangedByTask

\* receive_resumable_body opens the partial, writes and commits the chunks.
Receive ==
    /\ task.at = "receiving"
    /\ lock = None
    /\ IF PartialIsOwned(task.slot, task.token)
       THEN /\ content' = [content EXCEPT ![partial[task.slot]] = "whole"]
            /\ IF TaskHoldsRow
               THEN row' = [row EXCEPT !.whole = TRUE] /\ TaskTo("finalising")
               ELSE TaskEnds("failed")
       ELSE UNCHANGED content /\ TaskEnds("failed")
    /\ UNCHANGED <<entry, reservation, partial, marker, journal, torn, faults>>
    /\ UnchangedByTask

\* finalize_reserved_receive_durable: a copy that was begun goes on.
Finalise ==
    /\ task.at = "finalising"
    /\ LET kept == ReservationIsOwned(task.name, task.token)
           name == IF kept THEN task.name ELSE Available
           copying == journal.token = task.token /\ journal.state = "copyPrepared"
           resumes == /\ copying
                      /\ ReservationIsOwned(journal.name, task.token)
                      /\ entry[journal.name] = journal.file
       IN IF ~PartialIsOwned(task.slot, task.token)
          THEN TaskEnds("failed") /\ UNCHANGED reservation
          ELSE /\ kept \/ SomeAvailable
               /\ reservation' = [reservation EXCEPT ![name] = task.token]
               /\ task' = [task EXCEPT
                    !.part = partial[task.slot],
                    !.name = IF copying THEN journal.name ELSE name,
                    !.copy = IF resumes THEN journal.file ELSE None,
                    !.at = IF resumes THEN "copying"
                           ELSE IF copying THEN "preparing" ELSE "journalling"]
               /\ UNCHANGED row
    /\ UNCHANGED <<entry, content, partial, marker, journal, torn, faults>>
    /\ UnchangedByTask

JournalPrepared ==
    /\ task.at = "journalling"
    /\ Append([token |-> task.token, name |-> task.name, file |-> task.part,
               state |-> "prepared"])
    /\ IF partial[task.slot] = task.part
       THEN TaskTo("linking") /\ UNCHANGED row
       ELSE TaskEnds("failed")
    /\ UNCHANGED <<entry, content, reservation, partial, marker, faults>>
    /\ UnchangedByTask

\* The link names whatever is under the partial's name by now.
Link ==
    /\ task.at = "linking"
    /\ IF ~links
       THEN TaskTo("preparing") /\ UNCHANGED <<entry, row>>
       ELSE IF entry[task.name] # None
       THEN TaskTo("replacing") /\ UNCHANGED <<entry, row>>
       ELSE IF partial[task.slot] = None
       THEN TaskEnds("paused") /\ UNCHANGED entry
       ELSE /\ entry' = [entry EXCEPT ![task.name] = partial[task.slot]]
            /\ TaskTo("linked")
            /\ UNCHANGED row
    /\ UNCHANGED <<content, reservation, partial, marker, journal, torn, faults>>
    /\ UnchangedByTask

JournalLinked ==
    /\ task.at = "linked"
    /\ IF entry[task.name] = task.part
       THEN /\ Append([token |-> task.token, name |-> task.name, file |-> task.part,
                       state |-> "created"])
            /\ TaskTo("completing")
            /\ UNCHANGED row
       ELSE TaskEnds("failed") /\ UNCHANGED <<journal, torn>>
    /\ UNCHANGED <<entry, content, reservation, partial, marker, faults>>
    /\ UnchangedByTask

\* The name is taken: the next one that is free, in the journal, in the row,
\* and only then the old reservation is given up.
Replace ==
    /\ task.at = "replacing"
    /\ SomeAvailable
    /\ reservation' = [reservation EXCEPT ![Available] = task.token]
    /\ task' = [task EXCEPT !.at = "switching", !.from = task.name, !.name = Available]
    /\ Append([token |-> task.token, name |-> Available, file |-> task.part,
               state |-> "prepared"])
    /\ UNCHANGED <<entry, content, partial, marker, row, faults>>
    /\ UnchangedByTask

\* try_switch_claimed_incoming_destination.
Switch ==
    /\ task.at = "switching"
    /\ lock = None
    /\ IF /\ TaskHoldsRow
          /\ row.own.token = task.token /\ row.own.dest = task.from
       THEN row' = [row EXCEPT !.own.dest = task.name] /\ TaskTo("releasing")
       ELSE TaskEnds("failed")
    /\ UNCHANGED <<dirVars, faults>>
    /\ UnchangedByTask

ReleaseOld ==
    /\ task.at = "releasing"
    /\ reservation' = WithoutReservation(task.from, task.token)
    /\ task' = [task EXCEPT !.from = None,
                           !.at = IF task.copy = None THEN "journalling" ELSE "copying"]
    /\ UNCHANGED <<entry, content, partial, marker, journal, torn, row, faults>>
    /\ UnchangedByTask

\* prepare_copy_candidate creates the file under a name that is reserved.
PrepareCopy ==
    /\ task.at = "preparing"
    /\ IF ~ReservationIsOwned(task.name, task.token)
       THEN TaskEnds("failed") /\ UNCHANGED <<entry, content, reservation>>
       ELSE IF entry[task.name] = None
       THEN /\ FreeFiles # {}
            /\ entry' = [entry EXCEPT ![task.name] = NewFile]
            /\ content' = [content EXCEPT ![NewFile] = "empty"]
            /\ task' = [task EXCEPT !.at = "created", !.copy = NewFile]
            /\ UNCHANGED <<reservation, row>>
       ELSE /\ SomeAvailable
            /\ reservation' = [reservation EXCEPT ![Available] = task.token]
            /\ task' = [task EXCEPT !.name = Available,
                        !.from = IF task.from = None THEN task.name ELSE task.from]
            /\ UNCHANGED <<entry, content, row>>
    /\ UNCHANGED <<partial, marker, journal, torn, faults>>
    /\ UnchangedByTask

JournalCopy ==
    /\ task.at = "created"
    /\ IF ReservationIsOwned(task.name, task.token)
       THEN /\ Append([token |-> task.token, name |-> task.name, file |-> task.copy,
                       state |-> "copyPrepared"])
            /\ TaskTo(IF task.from = None THEN "copying" ELSE "switching")
            /\ UNCHANGED row
       ELSE TaskEnds("failed") /\ UNCHANGED <<journal, torn>>
    /\ UNCHANGED <<entry, content, reservation, partial, marker, faults>>
    /\ UnchangedByTask

\* materialize_copy_candidate.
StartCopy ==
    /\ task.at = "copying"
    /\ IF ReservationIsOwned(task.name, task.token)
       THEN /\ content' = [content EXCEPT ![task.copy] = "part"]
            /\ TaskTo("filling")
            /\ UNCHANGED row
       ELSE TaskEnds("failed") /\ UNCHANGED content
    /\ UNCHANGED <<entry, reservation, partial, marker, journal, torn, faults>>
    /\ UnchangedByTask

\* Mutant: the length of the copy is not compared.
FillCopyShort ==
    /\ task.at = "filling"
    /\ TaskTo("copied")
    /\ UNCHANGED <<dirVars, row, faults>>
    /\ UnchangedByTask

FillCopy ==
    /\ task.at = "filling"
    /\ content' = [content EXCEPT ![task.copy] = "whole"]
    /\ TaskTo("copied")
    /\ UNCHANGED <<entry, reservation, partial, marker, journal, torn, row, faults>>
    /\ UnchangedByTask

JournalCopied ==
    /\ task.at = "copied"
    /\ IF /\ ReservationIsOwned(task.name, task.token)
          /\ entry[task.name] = task.copy
       THEN /\ Append([token |-> task.token, name |-> task.name, file |-> task.copy,
                       state |-> "created"])
            /\ TaskTo("completing")
       ELSE /\ task' = [task EXCEPT !.at = "preparing", !.copy = None]
            /\ UNCHANGED <<journal, torn>>
    /\ UNCHANGED <<entry, content, reservation, partial, marker, row, faults>>
    /\ UnchangedByTask

\* Mutant: the file under the name is removed, whichever it is.
RetireAny == entry' = [entry EXCEPT ![task.name] = None]

\* retire_incomplete_copy_candidate removes the file it has open.
Retire == entry' = Removed(entry, task.name, entry[task.name] = task.copy)

VolumeFull ==
    /\ Fault
    /\ task.at \in {"copying", "filling"}
    /\ Retire
    /\ TaskEnds(IF entry[task.name] = task.copy THEN "paused" ELSE "failed")
    /\ UNCHANGED <<content, reservation, partial, marker, journal, torn>>
    /\ UnchangedByTask

\* try_complete_claimed_incoming_transfer.
Complete ==
    /\ task.at = "completing"
    /\ lock = None
    /\ task' = NoTask
    /\ row' = IF TaskHoldsRow
              THEN [status |-> "completed", claimed |-> FALSE, whole |-> TRUE,
                    own |-> [dest |-> task.name, token |-> task.token, slot |-> task.slot]]
              ELSE row
    /\ UNCHANGED <<dirVars, faults>>
    /\ UnchangedByTask

\* The connection or the volume is lost, or another call fails.
TaskFails ==
    /\ Fault
    /\ task.at # "idle"
    /\ lock = None
    /\ \E status \in {"paused", "failed"} : TaskEnds(status)
    /\ UNCHANGED dirVars
    /\ UnchangedByTask

-----------------------------------------------------------------------------
(* The clean-up: what an ended transfer, or a refused acceptance, owned.   *)

UnchangedByCleaner == UNCHANGED <<links, entry, content, lock, attempt, task, phase, lost, moves>>
CleanerTo(c, at) == cleaner' = [cleaner EXCEPT ![c].at = at]
CleanerRests(c) == cleaner' = [cleaner EXCEPT ![c] = NoCleaner]

\* Of a row that has ended, at once or when the process starts again.
StageOwned ==
    /\ CanStage
    /\ lock = None
    /\ Stage
    /\ UNCHANGED <<reservation, partial, marker, journal, torn, cleaner, faults>>
    /\ UnchangedByCleaner

\* After the row is staged, before an acceptance, when the process starts.
StartCleaner(c) ==
    /\ cleaner[c].at = "idle"
    /\ cleanup.due
    /\ lock = None
    /\ cleaner' = [cleaner EXCEPT ![c] = [at |-> "reservations", own |-> cleanup.own]]
    /\ UNCHANGED <<reservation, partial, marker, journal, torn, row, cleanup, faults>>
    /\ UnchangedByCleaner

\* Those of the journal, then every one of the directory with the token.
CleanReservations(c) ==
    /\ cleaner[c].at = "reservations"
    /\ LET token == cleaner[c].own.token
           mine == {n \in Names : ReservationIsOwned(n, token)}
       IN IF mine = {}
          THEN CleanerTo(c, "partial") /\ UNCHANGED reservation
          ELSE /\ \E n \in mine : reservation' = WithoutReservation(n, token)
               /\ UNCHANGED cleaner
    /\ UNCHANGED <<partial, marker, journal, torn, row, cleanup, faults>>
    /\ UnchangedByCleaner

\* remove_owned_partial: one that is not ours stops the clean-up.
CleanPartial(c) ==
    /\ cleaner[c].at = "partial"
    /\ LET s == cleaner[c].own.slot IN
        IF s = None
        THEN CleanerTo(c, "journal") /\ UNCHANGED partial
        ELSE IF partial[s] = None
        THEN CleanerTo(c, "marker") /\ UNCHANGED partial
        ELSE IF PartialIsOwned(s, cleaner[c].own.token)
        THEN /\ partial' = [partial EXCEPT ![s] = None]
             /\ CleanerTo(c, "marker")
        ELSE CleanerRests(c) /\ UNCHANGED partial
    /\ UNCHANGED <<reservation, marker, journal, torn, row, cleanup, faults>>
    /\ UnchangedByCleaner

CleanMarker(c) ==
    /\ cleaner[c].at = "marker"
    /\ LET s == cleaner[c].own.slot IN
        IF partial[s] = None /\ marker[s].token \in {None, cleaner[c].own.token}
        THEN /\ marker' = [marker EXCEPT ![s] = NoMarker]
             /\ CleanerTo(c, "journal")
        ELSE CleanerRests(c) /\ UNCHANGED marker
    /\ UNCHANGED <<reservation, partial, journal, torn, row, cleanup, faults>>
    /\ UnchangedByCleaner

\* remove_owned_finalization_marker.
CleanJournal(c) ==
    /\ cleaner[c].at = "journal"
    /\ IF journal.token = cleaner[c].own.token /\ journal # NoRecord
       THEN journal' = NoRecord /\ torn' = FALSE
       ELSE UNCHANGED <<journal, torn>>
    /\ CleanerTo(c, "row")
    /\ UNCHANGED <<reservation, partial, marker, row, cleanup, faults>>
    /\ UnchangedByCleaner

\* The row is removed if it is still the one that was read.
CleanRow(c) ==
    /\ cleaner[c].at = "row"
    /\ lock = None
    /\ cleanup' = IF cleanup.own = cleaner[c].own THEN NoCleanup ELSE cleanup
    /\ CleanerRests(c)
    /\ UNCHANGED <<reservation, partial, marker, journal, torn, row, faults>>
    /\ UnchangedByCleaner

CleanerFails(c) ==
    /\ Fault
    /\ cleaner[c].at # "idle"
    /\ CleanerRests(c)
    /\ UNCHANGED <<reservation, partial, marker, journal, torn, row, cleanup>>
    /\ UnchangedByCleaner

-----------------------------------------------------------------------------
(* The end of the process, and Storage::open of the next.                  *)

Live(k) == attempt[k].at \notin {"idle", "accepted", "over"}
Appending == task.at \in {"journalling", "linked", "replacing", "created", "copied"}

Crash ==
    /\ Fault
    /\ phase' = "reconcile"
    /\ row' = [row EXCEPT
        !.status = IF row.status = "transferring" THEN "paused" ELSE row.status,
        !.claimed = FALSE]
    /\ lock' = None
    /\ lost' = lost \union {k \in Tokens : Live(k)}
    /\ attempt' = [k \in Tokens |->
        IF attempt[k].at = "idle" THEN NoAttempt ELSE [NoAttempt EXCEPT !.at = "over"]]
    /\ task' = NoTask
    /\ cleaner' = [c \in Cleaners |-> NoCleaner]
    /\ torn' \in IF Appending THEN BOOLEAN ELSE {torn}
    /\ UNCHANGED <<links, entry, content, reservation, partial, marker, journal,
                   cleanup, moves>>

\* owned_finalized_receive_path.
FinalisedIsOwned ==
    /\ journal # NoRecord
    /\ journal.token = row.own.token
    /\ journal.state # "copyPrepared"
    /\ ReservationIsOwned(journal.name, row.own.token)
    /\ entry[journal.name] = journal.file

\* complete_claimed_finalized_incoming compares the hash.
ReconcileFinalised ==
    /\ row' = IF content[journal.file] = "whole"
              THEN [row EXCEPT !.status = "completed", !.own.dest = journal.name]
              ELSE [row EXCEPT !.status = "failed"]
    /\ UNCHANGED dirVars

\* The partial that is missing or replaced begins anew in a slot of its own.
ReconcilePartial ==
    IF PartialIsOwned(row.own.slot, row.own.token)
    THEN UNCHANGED <<row, dirVars>>
    ELSE /\ ReservationIsOwned(row.own.dest, row.own.token)
         /\ UNCHANGED <<entry, reservation, journal, torn>>
         /\ IF OwnSlots(row.own.token) # {}
            THEN /\ row' = [row EXCEPT !.whole = FALSE,
                            !.own.slot = Min(OwnSlots(row.own.token))]
                 /\ UNCHANGED <<partial, marker, content>>
            ELSE /\ FreeSlots # {} /\ FreeFiles # {}
                 /\ LET s == Min(FreeSlots) IN
                    /\ row' = [row EXCEPT !.whole = FALSE, !.own.slot = s]
                    /\ partial' = [partial EXCEPT ![s] = NewFile]
                    /\ marker' = [marker EXCEPT ![s] =
                                    [token |-> row.own.token, file |-> NewFile]]
                    /\ content' = [content EXCEPT ![NewFile] = "empty"]

\* reconcile_resumable_partials; what cannot be read stays paused.
Reconcile ==
    /\ phase = "reconcile"
    /\ phase' = "sweep"
    /\ IF row.status # "paused"
       THEN UNCHANGED <<row, dirVars>>
       ELSE IF row.whole /\ FinalisedIsOwned
       THEN ReconcileFinalised
       ELSE ReconcilePartial \/ UNCHANGED <<row, dirVars>>
    /\ UNCHANGED <<links, cleanup, lock, attempt, task, cleaner, lost, moves, faults>>

\* cleanup_stale_owned_artifacts, by the steps above, before anything else.
Opened ==
    /\ phase = "sweep"
    /\ ~CanStage
    /\ \A c \in Cleaners : cleaner[c].at = "idle"
    /\ phase' = "running"
    /\ UNCHANGED <<links, dirVars, dbVars, attempt, task, cleaner, lost, moves, faults>>

-----------------------------------------------------------------------------
(* The user and the other transfers.                                       *)

Move ==
    /\ moves < MaxMoves
    /\ moves' = moves + 1
UnchangedByMove == UNCHANGED <<links, marker, journal, torn, dbVars, attempt, task,
                               cleaner, phase, lost, faults>>

PutFile(n) ==
    /\ Move
    /\ entry[n] = None /\ FreeFiles # {}
    /\ entry' = [entry EXCEPT ![n] = NewFile]
    /\ content' = [content EXCEPT ![NewFile] = "foreign"]
    /\ UNCHANGED <<reservation, partial>>
    /\ UnchangedByMove

TakeFile(n) ==
    /\ Move
    /\ entry[n] # None
    /\ entry' = [entry EXCEPT ![n] = None]
    /\ UNCHANGED <<content, reservation, partial>>
    /\ UnchangedByMove

TakePartial(s) ==
    /\ Move
    /\ partial[s] # None
    /\ partial' = [partial EXCEPT ![s] = None]
    /\ UNCHANGED <<entry, content, reservation>>
    /\ UnchangedByMove

\* A program of the user saves a file in two steps: another takes its name.
SwapFile(n) ==
    /\ Move
    /\ entry[n] # None /\ FreeFiles # {}
    /\ entry' = [entry EXCEPT ![n] = NewFile]
    /\ content' = [content EXCEPT ![NewFile] = "foreign"]
    /\ UNCHANGED <<reservation, partial>>
    /\ UnchangedByMove

SwapPartial(s) ==
    /\ Move
    /\ partial[s] # None /\ FreeFiles # {}
    /\ partial' = [partial EXCEPT ![s] = NewFile]
    /\ content' = [content EXCEPT ![NewFile] = "foreign"]
    /\ UNCHANGED <<entry, reservation>>
    /\ UnchangedByMove

\* The reservations are hidden files like any other.
TakeReservation(n) ==
    /\ Move
    /\ reservation[n] \in Tokens
    /\ reservation' = [reservation EXCEPT ![n] = None]
    /\ UNCHANGED <<entry, content, partial>>
    /\ UnchangedByMove

OthersReserve(n) ==
    /\ Move
    /\ Reservable(n)
    /\ reservation' = [reservation EXCEPT ![n] = Others]
    /\ UNCHANGED <<entry, content, partial>>
    /\ UnchangedByMove

OthersRelease(n) ==
    /\ Move
    /\ reservation[n] = Others
    /\ reservation' = [reservation EXCEPT ![n] = None]
    /\ UNCHANGED <<entry, content, partial>>
    /\ UnchangedByMove

-----------------------------------------------------------------------------

AttemptStep(k) ==
    \/ Reserve(k) \/ CreatePartial(k) \/ MarkPartial(k) \/ Persist(k)
    \/ LosesReservation(k) \/ AcceptFails(k) \/ FallBackAfterRefusal(k)
    \/ RemoveUnpersisted(k) \/ ReleaseName(k) \/ Compensate(k) \/ ReturnToManual(k)

TaskStep ==
    \/ Claim \/ Receive \/ Finalise \/ JournalPrepared \/ Link \/ JournalLinked
    \/ Replace \/ Switch \/ ReleaseOld \/ PrepareCopy \/ JournalCopy \/ StartCopy
    \/ FillCopy \/ JournalCopied \/ VolumeFull \/ Complete \/ TaskFails

CleanerStep(c) ==
    \/ StartCleaner(c) \/ CleanReservations(c) \/ CleanPartial(c) \/ CleanMarker(c)
    \/ CleanJournal(c) \/ CleanRow(c) \/ CleanerFails(c)

MoveStep ==
    \/ \E n \in Names : PutFile(n) \/ TakeFile(n) \/ SwapFile(n)
                        \/ TakeReservation(n) \/ OthersReserve(n) \/ OthersRelease(n)
    \/ \E s \in Slots : TakePartial(s) \/ SwapPartial(s)

Next ==
    \/ \E k \in Tokens : AttemptStep(k)
    \/ TaskStep
    \/ Cancel \/ RemoteEnds
    \/ StageOwned
    \/ \E c \in Cleaners : CleanerStep(c)
    \/ Crash \/ Reconcile \/ Opened
    \/ MoveStep

Spec == Init /\ [][Next]_vars

-----------------------------------------------------------------------------
(* Properties.                                                             *)

\* Only the user takes away or replaces what the user put into the
\* directory, and nobody else removes the reservation of another transfer:
\* receive_paths.rs removes what it has opened and recognised.
ForeignKept ==
    [][moves' = moves =>
        /\ \A n \in Names :
            /\ entry[n] # None /\ content[entry[n]] = "foreign" => entry'[n] = entry[n]
            /\ reservation[n] = Others => reservation'[n] = Others
        /\ \A s \in Slots :
            partial[s] # None /\ content[partial[s]] = "foreign" =>
                partial'[s] = partial[s]]_vars

\* Under the name a completed transfer shows there is its whole file, or
\* what the user made of it; never a copy that was interrupted.
PublishedIsWhole ==
    row.status = "completed" =>
        LET file == entry[row.own.dest] IN
        IF moves = 0 THEN file # None /\ content[file] = "whole"
                     ELSE file # None => content[file] \in {"whole", "foreign"}

\* What the row owns is never due for removal, although acceptances fail
\* and are repeated, answers overtake each other and clean-ups are late.
OwnedOrDue == row.own.token # None => ~cleanup.due

\* As long as nobody else touches the directory, an open transfer has the
\* reservation and the partial its row names: no late clean-up of an
\* earlier acceptance, and no switch of names, takes them away.
AcceptedIsBacked ==
    moves = 0 /\ row.own.token # None /\ row.status \in Open =>
        /\ ReservationIsOwned(row.own.dest, row.own.token)
        /\ PartialIsOwned(row.own.slot, row.own.token)

\* No reservation, marker or journal is left of which nobody knows: each
\* has its token in a row or in the hands of who is still at work; except
\* that of an acceptance the process did not survive, of an automatic one
\* that was overtaken, and of a task whose peer gave up.  The marker of a
\* partial that the user took away or replaced stays as well.
Known(k) ==
    \/ k \in lost \union {row.own.token, task.token}
    \/ cleanup.due /\ k = cleanup.own.token
    \/ Live(k)
    \/ \E c \in Cleaners : cleaner[c].at # "idle" /\ cleaner[c].own.token = k
NothingOrphaned ==
    \A k \in Tokens :
        \/ \E n \in Names : reservation[n] = k
        \/ moves = 0 /\ \E s \in Slots : marker[s].token = k
        \/ journal.token = k
        => Known(k)

=============================================================================
