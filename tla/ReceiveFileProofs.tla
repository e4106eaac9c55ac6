-------------------------- MODULE ReceiveFileProofs --------------------------
(***************************************************************************)
(* The safety of a received file, for any number of names, partials,       *)
(* files, acceptances, cleaners, moves of the user and ends of the         *)
(* process, with hard links or without.                                    *)
(*                                                                         *)
(* None of the properties is inductive: a completed row has the whole file *)
(* under its name because the task that completed it held a whole file,    *)
(* the task held it because the marker it compared named it, and the       *)
(* marker names it because only this transfer writes what it names.  IInv  *)
(* says all of this, in parts that each speak of few variables, and has    *)
(* three of the properties as its own conjuncts.  A part is kept by an     *)
(* action that leaves its variables alone (Frames); for the parts an       *)
(* action disturbs, its lemma has a step each.                             *)
(*                                                                         *)
(* The parts that only hold as long as nobody else touches the directory   *)
(* say moves = 0; the others survive whatever the user does.               *)
(***************************************************************************)
EXTENDS ReceiveFile, FiniteSetTheorems, WellFoundedInduction, TLAPS

-----------------------------------------------------------------------------
(* The invariant. *)

\* What only this transfer makes: a file is foreign, free, or one of these.
Ours == {"empty", "part", "whole"}

\* The transaction is held by the acceptance that has created files in it.
LockHeld == \A k \in Tokens : attempt[k].at \in {"created", "marked"} <=> lock = k

\* Which acceptances are over for the row, and what each has at which step.
Settled == {"accepted", "over"}
AttemptShape == \A k \in Tokens :
    /\ attempt[k].at = "idle" => attempt[k] = NoAttempt
    /\ attempt[k].at \notin {"idle", "accepted", "over"} => attempt[k].name \in Names
    /\ attempt[k].at \in {"created", "marked"} => attempt[k].slot \in Slots
    /\ attempt[k].at = "created" => attempt[k].file \in Files
    /\ attempt[k].at \in {"idle", "reserved"} => attempt[k].slot = None

\* A task at work holds the row with what the row owned when it began; or the row has ended
\* under it, and what it still does is lost.
Holds == /\ TaskHoldsRow
         /\ row.own.token = task.token /\ row.own.slot = task.slot
Outlived == /\ row.status \in {"cancelled", "failed"}
            /\ ~row.claimed
            /\ task.token \in lost
TaskShape ==
    /\ task.at = "idle" => task = NoTask
    /\ task.at # "idle" =>
        /\ task.token \in Tokens /\ task.slot \in Slots /\ task.name \in Names
        /\ attempt[task.token].at \in Settled
        /\ Holds \/ Outlived
    /\ task.at \notin {"idle", "receiving", "finalising"} => task.part \in Files
    /\ task.at \in {"created", "copying", "filling", "copied"} => task.copy \in Files
    /\ task.at \in {"switching", "releasing"} => task.from \in Names
    /\ task.from # None => task.at \in {"preparing", "created", "switching", "releasing"}

\* What the row owns comes from an acceptance that is settled, and a claim from a task.
RowShape ==
    /\ row.status = "awaitingAcceptance" => row = AwaitingRow
    /\ row.status \in {"transferring", "paused"} => row.own.token # None
    /\ row.own.token # None =>
        /\ row.own.dest \in Names /\ row.own.slot \in Slots
        /\ attempt[row.own.token].at \in Settled
    /\ row.claimed => row.status = "transferring" /\ task.at # "idle"
    /\ row.status = "completed" => row.own.dest \in Names /\ task.at = "idle"

\* What is due for removal is no longer accepted by anybody, and no cleaner works on what
\* the row owns.
CleanupShape ==
    /\ cleanup.due =>
        /\ cleanup.own.token \in Tokens
        /\ attempt[cleanup.own.token].at \in Settled \union {"releasing"}
    /\ \A c \in Cleaners : cleaner[c].at # "idle" =>
        /\ cleaner[c].own.token \in Tokens
        /\ attempt[cleaner[c].own.token].at \in Settled \union {"releasing"}
        /\ row.own.token # cleaner[c].own.token

\* While a process starts, nothing of the last one is at work.
PhaseShape == phase # "running" =>
    /\ task.at = "idle"
    /\ \A k \in Tokens : attempt[k].at \in {"idle", "over"}

\* An identity in use is never taken for a new file.
FilesUsed ==
    /\ \A n \in Names : entry[n] # None => content[entry[n]] # "free"
    /\ \A s \in Slots : partial[s] # None => content[partial[s]] # "free"

\* What a marker, an acceptance, the journal and the task name is ours.
FilesOurs ==
    /\ \A s \in Slots : marker[s] # NoMarker => content[marker[s].file] \in Ours
    /\ \A k \in Tokens : attempt[k].at = "created" => content[attempt[k].file] \in Ours
    /\ journal # NoRecord => content[journal.file] \in Ours
    /\ task.part # None => content[task.part] \in Ours
    /\ task.copy # None => content[task.copy] \in Ours

\* The copy that finalises a transfer is never its partial.
IsPart(f) ==
    \/ \E s \in Slots : marker[s] # NoMarker /\ marker[s].file = f
    \/ \E k \in Tokens : attempt[k].at = "created" /\ attempt[k].file = f
    \/ task.part = f
IsCopy(f) ==
    \/ journal.state = "copyPrepared" /\ journal.file = f
    \/ task.copy = f
CopiesApart == \A f \in Files : IsCopy(f) => ~IsPart(f)

\* From its finalisation on, the file a task is about is whole: the one its marker names, the
\* one it holds, its copy, and in the end the one under the name.
Published(file) ==
    IF moves = 0 THEN file # None /\ content[file] = "whole"
                 ELSE file # None => content[file] \in {"whole", "foreign"}
WholeInTime ==
    /\ task.at \notin {"idle", "receiving"} /\ marker[task.slot].token = task.token =>
            content[marker[task.slot].file] = "whole"
    /\ task.part # None => content[task.part] = "whole"
    /\ task.at = "copied" => content[task.copy] = "whole"
    /\ task.at = "completing" => Published(entry[task.name])

\* While nobody else has moved, the name of an acceptance or a task is reserved for it.
NamesKept == moves = 0 =>
    /\ \A k \in Tokens : attempt[k].at \in {"created", "marked"} =>
                             reservation[attempt[k].name] = k
    /\ task.at = "switching" /\ Holds => reservation[task.name] = task.token
    /\ task.at = "replacing" => entry[task.name] # None
    /\ task.at \in {"preparing", "created"} /\ task.from # None => entry[task.from] # None
    /\ task.from # None => task.from # task.name
    /\ task.at = "releasing" /\ Holds => row.own.dest = task.name

\* Likewise its partial is in its slot, under its marker.
PartialsKept ==
    /\ \A k \in Tokens : attempt[k].at = "created" => marker[attempt[k].slot] = NoMarker
    /\ moves = 0 =>
        /\ \A k \in Tokens :
            /\ attempt[k].at = "created" => partial[attempt[k].slot] = attempt[k].file
            /\ attempt[k].at = "marked" => PartialIsOwned(attempt[k].slot, k)
        /\ \A s \in Slots : marker[s] # NoMarker /\ partial[s] # None =>
                                marker[s].file = partial[s]

\* What there is of a token in the directory.
NoMarkerOf(k) == \A s \in Slots : marker[s].token # k
NoReservationOf(k) == \A n \in Names : reservation[n] # k
MarkersAt(k, s) == \A t \in Slots : marker[t].token = k => t = s
Due(k) == cleanup.due /\ cleanup.own.token = k

\* An acceptance has left nothing before it began, and one marker, one name, later.
Begun == \A k \in Tokens :
    /\ attempt[k].at = "idle" => NoReservationOf(k)
    /\ attempt[k].at \in {"idle", "reserved", "created"} => NoMarkerOf(k)
    /\ attempt[k].at \notin Settled => journal.token # k /\ k \notin lost
    /\ Live(k) => \A n \in Names : reservation[n] = k => n = attempt[k].name
    /\ attempt[k].at = "releasing" => Due(k) \/ (moves = 0 => NoMarkerOf(k))
OneMarker == moves = 0 => 
    /\ \A k \in Tokens : Live(k) => MarkersAt(k, attempt[k].slot)
    /\ row.own.token # None => MarkersAt(row.own.token, row.own.slot)
    /\ cleanup.due => MarkersAt(cleanup.own.token, cleanup.own.slot)
    /\ \A c \in Cleaners : cleaner[c].at # "idle" =>
            MarkersAt(cleaner[c].own.token, cleaner[c].own.slot)

\* A cleaner has left nothing of its token behind it.
Swept == \A c \in Cleaners : cleaner[c].own.token \notin lost =>
    /\ cleaner[c].at \in {"partial", "marker", "journal", "row"} =>
            NoReservationOf(cleaner[c].own.token)
    /\ cleaner[c].at \in {"journal", "row"} /\ moves = 0 => NoMarkerOf(cleaner[c].own.token)
    /\ cleaner[c].at = "row" => journal.token # cleaner[c].own.token

\* Whatever is found in the directory is lost, or an acceptance, the row or the record of the
\* cleanup knows it.
InHand(k) ==
    \/ k \in lost \union {row.own.token}
    \/ Due(k)
    \/ Live(k)
AllInHand == \A k \in Tokens :
        \/ \E n \in Names : reservation[n] = k
        \/ moves = 0 /\ \E s \in Slots : marker[s].token = k
        \/ journal.token = k
        => InHand(k)

IInv ==
    /\ TypeOK
    /\ LockHeld /\ AttemptShape /\ RowShape /\ TaskShape /\ CleanupShape /\ PhaseShape
    /\ FilesUsed /\ FilesOurs /\ CopiesApart /\ WholeInTime
    /\ NamesKept /\ PartialsKept
    /\ Begun /\ OneMarker /\ Swept /\ AllInHand
    /\ OwnedOrDue /\ AcceptedIsBacked /\ PublishedIsWhole

\* Of the row most parts speak only of what it owns.
RowOwnsTheSame ==
    /\ row'.own = row.own
    /\ row'.status \in Open => row.status \in Open
    /\ row'.status = "completed" => row.status = "completed"

\* The sets of TypeOK, by name.
Rows == [status : Open \union Ended, own : Ownerships, claimed : BOOLEAN, whole : BOOLEAN]
Attempts == [at : AttemptSteps, name : Names \union {None},
             slot : Slots \union {None}, file : Files \union {None}]
Tasks == [at : TaskSteps, token : Tokens \union {None}, slot : Slots \union {None},
          part : Files \union {None}, name : Names \union {None},
          from : Names \union {None}, copy : Files \union {None}]

-----------------------------------------------------------------------------
(* What is picked, and what is left alone. *)

\* Min of a set of numbers is one of them, and the least.
LEMMA LeastOf ==
  ASSUME NEW N \in Nat, NEW S \in SUBSET (1..N), S # {}
  PROVE  Min(S) \in S /\ \A y \in S : Min(S) <= y
<1> DEFINE Upto(n) == {m \in S : m <= n}
           All == {Upto(n) : n \in S}
<1>1. IsFiniteSet(S)
  <2>1. IsFiniteSet(1..N)
    BY FS_Interval
  <2> QED BY <2>1, FS_Subset
<1>2. IsWellFoundedOn(StrictSubsetOrdering(S), FiniteSubsetsOf(S))
  BY FS_StrictSubsetOrderingWellFounded
<1>3. All \subseteq FiniteSubsetsOf(S)
  <2>1. FiniteSubsetsOf(S) = SUBSET S
    BY <1>1, FS_FiniteSubsetsOfFinite
  <2> QED BY <2>1
<1>4. All # {}
  OBVIOUS
<1>5. PICK X \in All : \A Y \in All : ~(<<Y, X>> \in StrictSubsetOrdering(S))
  <2> HIDE DEF All
  <2> QED BY <1>2, <1>3, <1>4, WFMin
<1>6. PICK x \in S : X = Upto(x)
  OBVIOUS
<1>7. ASSUME NEW y \in S, y < x PROVE FALSE
  <2>1. Upto(y) \in All
    OBVIOUS
  <2>2. Upto(y) \subseteq X
    <3>1. S \subseteq Int
      OBVIOUS
    <3>2. ASSUME NEW m \in S, m <= y PROVE m <= x
      BY <1>7, <3>1, <3>2
    <3>3. Upto(y) \subseteq Upto(x)
      BY <3>2
    <3> QED BY <1>6, <3>3
  <2>3. x \in X /\ x \notin Upto(y)
    BY <1>6, <1>7
  <2>4. Upto(y) \in SUBSET S /\ X \in SUBSET S
    BY <1>6
  <2>5. <<Upto(y), X>> \in StrictSubsetOrdering(S)
    <3> HIDE DEF Upto
    <3> QED BY <2>2, <2>3, <2>4 DEF StrictSubsetOrdering
  <2> QED BY <1>5, <2>1, <2>5
<1>8. \A y \in S : x <= y
  BY <1>7
<1> QED BY <1>8 DEF Min

\* The name, file and slot that are picked are ones that may be picked (reserve_receive_path,
\* reserve_resumable_partial).
LEMMA Picked ==
  /\ SomeAvailable => Available \in Names /\ Reservable(Available)
  /\ FreeFiles # {} => NewFile \in Files /\ content[NewFile] = "free"
  /\ FreeSlots # {} => Min(FreeSlots) \in Slots
       /\ partial[Min(FreeSlots)] = None /\ marker[Min(FreeSlots)] = NoMarker
  /\ \A k : OwnSlots(k) # {} =>
         Min(OwnSlots(k)) \in Slots /\ PartialIsOwned(Min(OwnSlots(k)), k)
<1> USE ReceiveAssumption DEF ReceiveAssumption
<1>1. SomeAvailable => Available \in Names /\ Reservable(Available)
  <2> DEFINE R == {n \in Names : Reservable(n)}
  <2>1. R \subseteq 1..MaxNames
    BY DEF Names
  <2>2. R # {} => Min(R) \in R
    BY <2>1, LeastOf
  <2> QED BY <2>2 DEF SomeAvailable, Available
<1>2. FreeFiles # {} => NewFile \in FreeFiles
  <2>1. FreeFiles \subseteq 1..MaxFiles
    BY DEF FreeFiles, Files
  <2> QED BY <2>1, LeastOf DEF NewFile
<1>3. FreeSlots # {} => Min(FreeSlots) \in FreeSlots
  <2>1. FreeSlots \subseteq 1..MaxSlots
    BY DEF FreeSlots, Slots
  <2> QED BY <2>1, LeastOf
<1>4. \A k : OwnSlots(k) # {} => Min(OwnSlots(k)) \in OwnSlots(k)
  <2> TAKE k
  <2>1. OwnSlots(k) \subseteq 1..MaxSlots
    BY DEF OwnSlots, Slots
  <2> QED BY <2>1, LeastOf
<1> QED BY <1>1, <1>2, <1>3, <1>4 DEF FreeFiles, FreeSlots, OwnSlots

\* Each part is kept by a step that leaves alone the variables it speaks of.
LEMMA Frames ==
  /\ LockHeld /\ UNCHANGED <<attempt, lock>> => LockHeld'
  /\ AttemptShape /\ UNCHANGED attempt => AttemptShape'
  /\ RowShape /\ UNCHANGED <<row, attempt, task>> => RowShape'
  /\ TaskShape /\ UNCHANGED <<task, attempt, row, lost>> => TaskShape'
  /\ CleanupShape /\ UNCHANGED <<cleanup, attempt, cleaner>>
        /\ row'.own.token = row.own.token => CleanupShape'
  /\ PhaseShape /\ UNCHANGED <<phase, task, attempt>> => PhaseShape'
  /\ FilesUsed /\ UNCHANGED <<entry, content, partial>> => FilesUsed'
  /\ FilesOurs /\ UNCHANGED <<marker, content, attempt, journal, task>> => FilesOurs'
  /\ CopiesApart /\ UNCHANGED <<journal, marker, attempt, task>> => CopiesApart'
  /\ WholeInTime /\ UNCHANGED <<task, marker, content, moves, entry>> => WholeInTime'
  /\ NamesKept /\ UNCHANGED <<moves, attempt, reservation, task, row, entry>> => NamesKept'
  /\ PartialsKept /\ UNCHANGED <<attempt, marker, moves, partial>> => PartialsKept'
  /\ Begun /\ UNCHANGED <<attempt, reservation, marker, journal, lost, cleanup,
                          moves>> => Begun'
  /\ OneMarker /\ UNCHANGED <<moves, attempt, marker, cleanup,
                              cleaner>> /\ row'.own = row.own => OneMarker'
  /\ Swept /\ UNCHANGED <<cleaner, lost, reservation, moves, marker, journal>> => Swept'
  /\ AllInHand /\ UNCHANGED <<reservation, moves, marker, journal, lost, cleanup, attempt>>
        /\ row'.own.token = row.own.token => AllInHand'
  /\ OwnedOrDue /\ UNCHANGED cleanup /\ row'.own.token = row.own.token => OwnedOrDue'
  /\ AcceptedIsBacked /\ UNCHANGED <<moves, reservation, partial,
                                     marker>> /\ RowOwnsTheSame => AcceptedIsBacked'
  /\ PublishedIsWhole /\ UNCHANGED <<entry, moves,
                                     content>> /\ RowOwnsTheSame => PublishedIsWhole'
  BY DEF LockHeld, AttemptShape, NoAttempt, RowShape, AwaitingRow, Nothing, Settled,
      TaskShape, NoTask, Holds, TaskHoldsRow, Outlived, CleanupShape, PhaseShape, FilesUsed,
      FilesOurs, NoMarker, NoRecord, CopiesApart, IsCopy, IsPart, WholeInTime, Published,
      NamesKept, PartialsKept, PartialIsOwned, Begun, NoReservationOf, NoMarkerOf, Due,
      OneMarker, MarkersAt, Swept, AllInHand, InHand, OwnedOrDue, AcceptedIsBacked,
      ReservationIsOwned, PublishedIsWhole, RowOwnsTheSame, Live

\* An acceptance that goes on keeps what it holds, and the others are left alone.
LEMMA Advances ==
  ASSUME TypeOK, NEW k \in Tokens, NEW at, Advance(k, at)
  PROVE  /\ attempt'[k].at = at /\ attempt'[k].name = attempt[k].name
         /\ attempt'[k].slot = attempt[k].slot /\ attempt'[k].file = attempt[k].file
         /\ \A j \in Tokens : j # k => attempt'[j] = attempt[j]
  BY DEF TypeOK, Advance

\* An acceptance that ends holds nothing, and the others are left alone.
LEMMA Leaves ==
  ASSUME TypeOK, NEW k \in Tokens, NEW at, Leave(k, at)
  PROVE  /\ attempt'[k].at = at /\ attempt'[k].name = None
         /\ attempt'[k].slot = None /\ attempt'[k].file = None
         /\ \A j \in Tokens : j # k => attempt'[j] = attempt[j]
  BY DEF TypeOK, Leave, NoAttempt

-----------------------------------------------------------------------------
(* Types. *)

\* The records of a typed state, one by one.
LEMMA Typed ==
  ASSUME TypeOK
  PROVE  /\ row \in Rows /\ attempt \in [Tokens -> Attempts] /\ task \in Tasks
         /\ row.own \in Ownerships /\ cleanup.own \in Ownerships
         /\ \A k \in Tokens : Ownership(k) \in Ownerships
         /\ AwaitingRow \in Rows /\ Nothing \in Ownerships /\ NoTask \in Tasks
<1>1. /\ row \in Rows /\ attempt \in [Tokens -> Attempts] /\ task \in Tasks
      /\ row.own \in Ownerships /\ cleanup.own \in Ownerships
  BY DEF TypeOK, Rows, Attempts, Tasks
<1>2. \A k \in Tokens : Ownership(k) \in Ownerships
  BY <1>1 DEF Attempts, Ownership, Ownerships
<1>3. Nothing \in Ownerships /\ NoTask \in Tasks
  BY DEF Nothing, Ownerships, NoTask, Tasks, TaskSteps
<1>4. AwaitingRow \in Rows
  BY <1>3 DEF AwaitingRow, Rows, Open
<1> QED BY <1>1, <1>2, <1>3, <1>4

\* The step of an acceptance is typed.
LEMMA AttemptTyped ==
  ASSUME TypeOK, NEW k \in Tokens, NEW at \in AttemptSteps, Advance(k, at) \/ Leave(k, at)
  PROVE  attempt' \in [Tokens -> Attempts]
  BY Typed DEF Attempts, Advance, Leave, NoAttempt

\* The step of a task, and its end, are typed.
LEMMA TaskTyped ==
  ASSUME TypeOK
  PROVE  /\ \A at \in TaskSteps : TaskTo(at) => task' \in Tasks
         /\ \A status \in {"paused", "failed"} : TaskEnds(status) =>
                task' \in Tasks /\ row' \in Rows
<1>1. task \in Tasks /\ NoTask \in Tasks /\ row \in Rows
  BY Typed
<1>2. \A at \in TaskSteps : TaskTo(at) => task' \in Tasks
  BY <1>1 DEF Tasks, TaskTo
<1>3. \A status \in {"paused", "failed"} : EndRow(status) => row' \in Rows
  BY <1>1 DEF EndRow, Rows, Open, Ended
<1> QED BY <1>1, <1>2, <1>3 DEF TaskEnds

\* What the journal has after an append is a record, or nothing readable.
LEMMA RecordTyped ==
  ASSUME TypeOK, NEW r \in Records, Append(r)
  PROVE  journal' \in Records \union {NoRecord} /\ torn' \in BOOLEAN
  BY DEF Append, TypeOK

\* The step of a cleaner, and its end, are typed.
LEMMA CleanerTyped ==
  ASSUME TypeOK
  PROVE  /\ NoCleaner \in [at : CleanerSteps, own : Ownerships]
         /\ \A c \in Cleaners : CleanerRests(c) =>
                cleaner' \in [Cleaners -> [at : CleanerSteps, own : Ownerships]]
         /\ \A c \in Cleaners, at \in CleanerSteps : CleanerTo(c, at) =>
                cleaner' \in [Cleaners -> [at : CleanerSteps, own : Ownerships]]
<1>1. cleaner \in [Cleaners -> [at : CleanerSteps, own : Ownerships]]
  BY DEF TypeOK
<1>2. NoCleaner \in [at : CleanerSteps, own : Ownerships]
  BY Typed DEF NoCleaner, CleanerSteps
<1>3. \A c \in Cleaners : CleanerRests(c) =>
                cleaner' \in [Cleaners -> [at : CleanerSteps, own : Ownerships]]
  BY <1>1, <1>2 DEF CleanerRests
<1>4. \A c \in Cleaners, at \in CleanerSteps : CleanerTo(c, at) =>
                cleaner' \in [Cleaners -> [at : CleanerSteps, own : Ownerships]]
  BY <1>1 DEF CleanerTo
<1> QED BY <1>2, <1>3, <1>4

\* The row that is given back, and what is then due, are typed.
LEMMA FallBackTyped ==
  ASSUME TypeOK, NEW own \in Ownerships, FallBack(own)
  PROVE  cleanup' \in [due : BOOLEAN, own : Ownerships] /\ row' \in Rows
<1>1. cleanup.own \in Ownerships /\ AwaitingRow \in Rows
  BY Typed
<1>2. (IF own.slot = None /\ cleanup.due THEN cleanup.own ELSE own) \in Ownerships
  BY <1>1
<1> QED BY <1>1, <1>2 DEF FallBack

\* A row written anew is typed.
LEMMA RowTyped ==
  ASSUME NEW own \in Ownerships, NEW status \in Open \union Ended, NEW whole \in BOOLEAN
  PROVE  [status |-> status, own |-> own, claimed |-> FALSE, whole |-> whole] \in Rows
  BY DEF Rows

\* Reserve leaves the state well typed.
LEMMA ReserveTyped ==
  ASSUME IInv, NEW k \in Tokens, Reserve(k) PROVE TypeOK'
<1> USE DEF IInv
<1>1. UNCHANGED <<links, entry, content, partial, marker, journal, torn, row, cleanup, lock,
                  task, cleaner, phase, lost, moves, faults>>
  BY DEF Reserve, dbVars, UnchangedByCleaner, UnchangedByMove, UnchangedOutside
<1>2. reservation' \in [Names -> Tokens \union {None, Others}]
  BY DEF Reserve, TypeOK, TaskShape
<1>3. attempt' \in [Tokens -> Attempts]
  BY Typed, ZenonT(40) DEF Reserve, Attempts, AttemptSteps
<1> QED BY <1>1, <1>2, <1>3 DEF TypeOK, Attempts

\* CreatePartial leaves the state well typed.
LEMMA CreatePartialTyped ==
  ASSUME IInv, NEW k \in Tokens, CreatePartial(k) PROVE TypeOK'
<1> USE DEF IInv
<1>1. UNCHANGED <<links, entry, reservation, marker, journal, torn, row, cleanup, task,
                  cleaner, phase, lost, moves, faults>>
  BY DEF CreatePartial, Fault, Retire, UnchangedByMove, UnchangedOutside
<1>2. content' \in [Files -> Contents]
  BY Picked, ReceiveAssumption DEF CreatePartial, TypeOK, Contents
<1>3. partial' \in [Slots -> Files \union {None}]
  BY <1>1, Picked, ReceiveAssumption DEF CreatePartial, TypeOK
<1>4. lock' \in Tokens \union {None}
  BY <1>1, Picked, ReceiveAssumption DEF CreatePartial, TypeOK
<1>5. attempt' \in [Tokens -> Attempts]
  <2>1. PICK s \in Slots, f \in Files :
           attempt' = [attempt EXCEPT ![k].at = "created", ![k].slot = s, ![k].file = f]
    BY Picked DEF CreatePartial
  <2>2. attempt \in [Tokens -> Attempts]
    BY Typed
  <2> QED BY <2>1, <2>2, ZenonT(40) DEF Attempts, AttemptSteps
<1> QED BY <1>1, <1>2, <1>3, <1>4, <1>5 DEF TypeOK, Attempts

\* MarkPartial leaves the state well typed.
LEMMA MarkPartialTyped ==
  ASSUME IInv, NEW k \in Tokens, MarkPartial(k) PROVE TypeOK'
<1> USE DEF IInv
<1>1. UNCHANGED <<links, entry, content, reservation, partial, journal, torn, row, cleanup,
                  lock, task, cleaner, phase, lost, moves, faults>>
  BY DEF MarkPartial, dbVars, UnchangedByCleaner, UnchangedByMove, UnchangedOutside
<1>2. marker' \in [Slots -> Markers \union {NoMarker}]
  BY DEF MarkPartial, TypeOK, Markers, NoMarker, AttemptShape
<1>3. attempt' \in [Tokens -> Attempts]
  BY <1>1, ReceiveAssumption, Typed, AttemptTyped
    DEF MarkPartial, TypeOK, Attempts, AttemptSteps, NoAttempt, Advance
<1> QED BY <1>1, <1>2, <1>3 DEF TypeOK, Attempts

\* Persist leaves the state well typed.
LEMMA PersistTyped ==
  ASSUME IInv, NEW k \in Tokens, Persist(k) PROVE TypeOK'
<1> USE DEF IInv
<1>1. UNCHANGED <<links, entry, content, reservation, partial, marker, journal, torn,
                  cleanup, task, cleaner, phase, lost, moves, faults>>
  BY DEF Persist, ReconcilePartial, dirVars, UnchangedByMove, UnchangedOutside
<1>2. row' \in Rows
  <2>1. row' = row \/ row' = [status |-> "transferring", own |-> Ownership(k),
                              claimed |-> FALSE, whole |-> FALSE]
    BY DEF Persist
  <2> QED BY <2>1, Typed, RowTyped DEF Open
<1>3. lock' \in Tokens \union {None}
  BY <1>1, ReceiveAssumption DEF Persist, TypeOK
<1>4. attempt' \in [Tokens -> Attempts]
  <2>1. Advance(k, "refused") \/ Leave(k, "accepted")
    BY DEF Persist
  <2> QED BY <2>1, AttemptTyped DEF AttemptSteps
<1> QED BY <1>1, <1>2, <1>3, <1>4 DEF TypeOK, Rows, Attempts

\* LosesReservation leaves the state well typed.
LEMMA LosesReservationTyped ==
  ASSUME IInv, NEW k \in Tokens, LosesReservation(k) PROVE TypeOK'
<1> USE DEF IInv
<1>1. UNCHANGED <<links, entry, content, reservation, partial, marker, journal, torn, row,
                  cleanup, lock, task, cleaner, phase, lost, moves, faults>>
  BY DEF LosesReservation, dirVars, dbVars, UnchangedByMove, UnchangedOutside
<1>2. attempt' \in [Tokens -> Attempts]
  BY <1>1, ReceiveAssumption, Typed, AttemptTyped
    DEF LosesReservation, TypeOK, Attempts, AttemptSteps, NoAttempt, Advance
<1> QED BY <1>1, <1>2 DEF TypeOK, Attempts, Tasks

\* AcceptFails leaves the state well typed.
LEMMA AcceptFailsTyped ==
  ASSUME IInv, NEW k \in Tokens, AcceptFails(k) PROVE TypeOK'
<1> USE DEF IInv
<1>1. UNCHANGED <<links, entry, content, reservation, partial, marker, journal, torn, row,
                  cleanup, task, cleaner, phase, lost, moves>>
  BY DEF AcceptFails, ReconcilePartial, dirVars, UnchangedByMove, UnchangedOutside
<1>2. lock' \in Tokens \union {None}
  BY <1>1, ReceiveAssumption DEF AcceptFails, TypeOK
<1>3. attempt' \in [Tokens -> Attempts]
  <2>1. attempt[k] \in Attempts
    BY Typed
  <2>2. PICK s \in {attempt[k].slot, None} : attempt' = [attempt EXCEPT ![k] =
                            [[attempt[k] EXCEPT !.at = "refused"] EXCEPT !.slot = s]]
    BY DEF AcceptFails
  <2>3. [[attempt[k] EXCEPT !.at = "refused"] EXCEPT !.slot = s] \in Attempts
    BY <2>1 DEF Attempts, AttemptSteps
  <2> QED BY <2>2, <2>3, Typed
<1>4. faults' \in 0..MaxFaults
  BY <1>1, ReceiveAssumption DEF AcceptFails, TypeOK, Fault
<1> QED BY <1>1, <1>2, <1>3, <1>4 DEF TypeOK, Attempts

\* FallBackAfterRefusal leaves the state well typed.
LEMMA FallBackAfterRefusalTyped ==
  ASSUME IInv, NEW k \in Tokens, FallBackAfterRefusal(k) PROVE TypeOK'
<1> USE DEF IInv
<1>1. UNCHANGED <<links, entry, content, reservation, partial, marker, journal, torn, lock,
                  task, cleaner, phase, lost, moves, faults>>
  BY DEF FallBackAfterRefusal, ReconcilePartial, dirVars, UnchangedByMove, UnchangedOutside
<1>2. row' \in Rows
  BY Typed, TaskTyped DEF FallBackAfterRefusal, TypeOK, FallBack
<1>3. cleanup' \in [due : BOOLEAN, own : Ownerships]
  <2>1. UNCHANGED cleanup \/ FallBack(Ownership(k))
    BY DEF FallBackAfterRefusal
  <2> QED BY <2>1, Typed, FallBackTyped DEF TypeOK
<1>4. attempt' \in [Tokens -> Attempts]
  <2>1. Advance(k, "releasing") \/ Advance(k, "unpersisted")
    BY DEF FallBackAfterRefusal
  <2> QED BY <2>1, AttemptTyped DEF AttemptSteps
<1> QED BY <1>1, <1>2, <1>3, <1>4 DEF TypeOK, Rows, Attempts

\* RemoveUnpersisted leaves the state well typed.
LEMMA RemoveUnpersistedTyped ==
  ASSUME IInv, NEW k \in Tokens, RemoveUnpersisted(k) PROVE TypeOK'
<1> USE DEF IInv
<1>1. UNCHANGED <<links, entry, content, reservation, journal, torn, row, cleanup, lock,
                  task, cleaner, phase, lost, moves, faults>>
  BY DEF RemoveUnpersisted, dbVars, UnchangedByCleaner, UnchangedByMove, UnchangedOutside
<1>2. partial' \in [Slots -> Files \union {None}]
  BY <1>1, Picked, ReceiveAssumption DEF RemoveUnpersisted, TypeOK
<1>3. marker' \in [Slots -> Markers \union {NoMarker}]
  BY ReceiveAssumption DEF RemoveUnpersisted, TypeOK, Markers, NoMarker
<1>4. attempt' \in [Tokens -> Attempts]
  BY <1>1, ReceiveAssumption, Typed, AttemptTyped
    DEF RemoveUnpersisted, TypeOK, Attempts, AttemptSteps, NoAttempt, Advance
<1> QED BY <1>1, <1>2, <1>3, <1>4 DEF TypeOK, Attempts

\* ReleaseName leaves the state well typed.
LEMMA ReleaseNameTyped ==
  ASSUME IInv, NEW k \in Tokens, ReleaseName(k) PROVE TypeOK'
<1> USE DEF IInv
<1>1. UNCHANGED <<links, entry, content, partial, marker, journal, torn, row, cleanup, lock,
                  task, cleaner, phase, lost, moves, faults>>
  BY DEF ReleaseName, dbVars, UnchangedByCleaner, UnchangedByMove, UnchangedOutside
<1>2. reservation' \in [Names -> Tokens \union {None, Others}]
  BY <1>1, ReceiveAssumption
    DEF ReleaseName, TypeOK, TaskShape, Reservable, WithoutReservation, Removed
<1>3. attempt' \in [Tokens -> Attempts]
  BY <1>1, ReceiveAssumption, Typed, AttemptTyped
    DEF ReleaseName, TypeOK, Attempts, AttemptSteps, NoAttempt, Leave
<1> QED BY <1>1, <1>2, <1>3 DEF TypeOK, Attempts

\* Compensate leaves the state well typed.
LEMMA CompensateTyped ==
  ASSUME IInv, NEW k \in Tokens, Compensate(k) PROVE TypeOK'
<1> USE DEF IInv
<1>1. UNCHANGED <<links, entry, content, reservation, partial, marker, journal, torn, lock,
                  task, cleaner, phase, moves, faults>>
  BY DEF Compensate, ReconcilePartial, dirVars, UnchangedByMove, UnchangedOutside
<1>2. row' \in Rows
  BY Typed, TaskTyped DEF Compensate, TypeOK, FallBack
<1>3. cleanup' \in [due : BOOLEAN, own : Ownerships]
  <2> DEFINE dest == IF row.own.dest = None THEN attempt[k].name ELSE row.own.dest
             own == IF row.own.token = None
                    THEN [dest |-> dest, token |-> k, slot |-> row.own.slot]
                    ELSE row.own
  <2>1. own \in Ownerships
    BY Typed DEF Attempts, Ownerships
  <2> HIDE DEF own
  <2>2. cleanup' = cleanup \/ FallBack(own)
    BY DEF Compensate, own
  <2> QED BY <2>1, <2>2, FallBackTyped DEF TypeOK
<1>4. attempt' \in [Tokens -> Attempts]
  BY <1>1, ReceiveAssumption, Typed, AttemptTyped
    DEF Compensate, TypeOK, Attempts, AttemptSteps, NoAttempt, Leave
<1>5. lost' \in SUBSET Tokens
  BY <1>1, ReceiveAssumption DEF Compensate, TypeOK
<1> QED BY <1>1, <1>2, <1>3, <1>4, <1>5 DEF TypeOK, Rows, Attempts

\* ReturnToManual leaves the state well typed.
LEMMA ReturnToManualTyped ==
  ASSUME IInv, NEW k \in Tokens, ReturnToManual(k) PROVE TypeOK'
<1> USE DEF IInv
<1>1. UNCHANGED <<links, entry, content, reservation, partial, marker, journal, torn, lock,
                  task, cleaner, phase, lost, moves>>
  BY DEF ReturnToManual, ReconcilePartial, dirVars, UnchangedByMove, UnchangedOutside
<1>2. row' \in Rows
  BY Typed, TaskTyped DEF ReturnToManual, TypeOK, FallBack
<1>3. cleanup' \in [due : BOOLEAN, own : Ownerships]
  BY Typed DEF ReturnToManual, TypeOK, FallBack
<1>4. attempt' \in [Tokens -> Attempts]
  BY <1>1, ReceiveAssumption, Typed, AttemptTyped
    DEF ReturnToManual, TypeOK, Attempts, AttemptSteps, NoAttempt, Leave
<1>5. faults' \in 0..MaxFaults
  BY <1>1, ReceiveAssumption DEF ReturnToManual, TypeOK, Fault
<1> QED BY <1>1, <1>2, <1>3, <1>4, <1>5 DEF TypeOK, Rows, Attempts

\* Claim leaves the state well typed.
LEMMA ClaimTyped ==
  ASSUME IInv, Claim PROVE TypeOK'
<1> USE DEF IInv
<1>1. UNCHANGED <<links, entry, content, reservation, partial, marker, journal, torn,
                  cleanup, lock, attempt, cleaner, phase, lost, moves, faults>>
  BY DEF Claim, dirVars, dbVars, UnchangedByTask, UnchangedByCleaner
<1>2. row' \in Rows
  BY Typed DEF Claim, Rows, Open
<1>3. task' \in Tasks
  <2>1. /\ row.own.token \in Tokens \union {None} /\ row.own.slot \in Slots \union {None}
        /\ row.own.dest \in Names \union {None}
    BY Typed, TaskTyped DEF Ownerships
  <2> QED BY <1>1, Picked, ReceiveAssumption, Typed, TaskTyped, <2>1
    DEF Claim, NoTask, Tasks, TaskSteps
<1> QED BY <1>1, <1>2, <1>3 DEF TypeOK, Rows, Tasks

\* Receive leaves the state well typed.
LEMMA ReceiveTyped ==
  ASSUME IInv, Receive PROVE TypeOK'
<1> USE DEF IInv
<1>1. UNCHANGED <<links, entry, reservation, partial, marker, journal, torn, cleanup, lock,
                  attempt, cleaner, phase, lost, moves, faults>>
  BY DEF Receive, Retire, dbVars, UnchangedByTask, UnchangedByCleaner
<1>2. content' \in [Files -> Contents]
  BY <1>1, ReceiveAssumption DEF Receive, TypeOK, Contents
<1>3. row' \in Rows
  <2>1. CASE TaskEnds("failed")
    BY TaskTyped, <2>1 DEF TaskEnds, Ended
  <2>2. CASE row' = [row EXCEPT !.whole = TRUE]
    BY <1>1, Picked, ReceiveAssumption, Typed, TaskTyped, <2>2 DEF Rows
  <2> QED BY <2>1, <2>2 DEF Receive
<1>4. task' \in Tasks
  BY TaskTyped DEF Receive, Tasks, TaskSteps, TaskEnds
<1> QED BY <1>1, <1>2, <1>3, <1>4 DEF TypeOK, Rows, Tasks

\* Finalise leaves the state well typed.
LEMMA FinaliseTyped ==
  ASSUME IInv, Finalise PROVE TypeOK'
<1> USE DEF IInv
<1>1. UNCHANGED <<links, entry, content, partial, marker, journal, torn, cleanup, lock,
                  attempt, cleaner, phase, lost, moves, faults>>
  BY DEF Finalise, Retire, dbVars, UnchangedByTask, UnchangedByCleaner
<1>2. reservation' \in [Names -> Tokens \union {None, Others}]
  BY DEF Finalise, TypeOK, TaskShape
<1>3. row' \in Rows
  BY Typed, TaskTyped DEF Finalise, Ended, TaskEnds
<1>4. task' \in Tasks
  <2>1. CASE TaskEnds("failed")
    BY Typed, TaskTyped, <2>1 DEF TaskEnds
  <2>2. CASE ~TaskEnds("failed")
    <3>1. /\ PartialIsOwned(task.slot, task.token)
          /\ (ReservationIsOwned(task.name, task.token) \/ SomeAvailable)
      BY <2>2 DEF Finalise
    <3>2. partial[task.slot] \in Files /\ task.name \in Names
      BY <3>1 DEF PartialIsOwned, TypeOK, TaskShape, Finalise
    <3>3. journal.state = "copyPrepared" => journal.name \in Names /\ journal.file \in Files
      BY DEF TypeOK, Records, NoRecord
    <3>4. Available \in Names \/ ReservationIsOwned(task.name, task.token)
      BY Picked, ReceiveAssumption, Typed, TaskTyped, <3>1
    <3>5. \E n \in Names, a \in {"copying", "preparing", "journalling"},
            c \in Files \union {None} :
             task' = [task EXCEPT !.part = partial[task.slot], !.name = n, !.copy = c,
                      !.at = a]
      BY <2>2, <3>2, <3>3, <3>4, Typed DEF Finalise
    <3> QED BY Typed, <3>2, <3>5 DEF Tasks, TaskSteps
  <2> QED BY <2>1, <2>2
<1> QED BY <1>1, <1>2, <1>3, <1>4 DEF TypeOK, Rows, Tasks

\* JournalPrepared leaves the state well typed.
LEMMA JournalPreparedTyped ==
  ASSUME IInv, JournalPrepared PROVE TypeOK'
<1> USE DEF IInv
<1>1. UNCHANGED <<links, entry, content, reservation, partial, marker, cleanup, lock,
                  attempt, cleaner, phase, lost, moves, faults>>
  BY DEF JournalPrepared, Retire, dbVars, UnchangedByTask, UnchangedByCleaner
<1>2. journal' \in Records \union {NoRecord}
  BY DEF JournalPrepared, TypeOK, Records, TaskShape, Append
<1>3. torn' \in BOOLEAN
  BY <1>1, ReceiveAssumption, RecordTyped
    DEF JournalPrepared, TypeOK, Records, TaskShape, Append
<1>4. row' \in Rows
  BY TaskTyped DEF JournalPrepared, TypeOK, Rows, Ended
<1>5. task' \in Tasks
  BY TaskTyped DEF JournalPrepared, Tasks, TaskSteps, TaskEnds
<1> QED BY <1>1, <1>2, <1>3, <1>4, <1>5 DEF TypeOK, Rows, Tasks

\* Link leaves the state well typed.
LEMMA LinkTyped ==
  ASSUME IInv, Link PROVE TypeOK'
<1> USE DEF IInv
<1>1. UNCHANGED <<links, content, reservation, partial, marker, journal, torn, cleanup,
                  lock, attempt, cleaner, phase, lost, moves, faults>>
  BY DEF Link, Retire, dbVars, UnchangedByTask, UnchangedByCleaner
<1>2. entry' \in [Names -> Files \union {None}]
  BY ReceiveAssumption DEF Link, TypeOK, TaskShape, PartialIsOwned
<1>3. row' \in Rows
  BY TaskTyped DEF Link, TypeOK, Rows, Ended
<1>4. task' \in Tasks
  BY TaskTyped DEF Link, Tasks, TaskSteps, TaskEnds
<1> QED BY <1>1, <1>2, <1>3, <1>4 DEF TypeOK, Rows, Tasks

\* JournalLinked leaves the state well typed.
LEMMA JournalLinkedTyped ==
  ASSUME IInv, JournalLinked PROVE TypeOK'
<1> USE DEF IInv
<1>1. UNCHANGED <<links, entry, content, reservation, partial, marker, cleanup, lock,
                  attempt, cleaner, phase, lost, moves, faults>>
  BY DEF JournalLinked, Retire, dbVars, UnchangedByTask, UnchangedByCleaner
<1>2. journal' \in Records \union {NoRecord}
  BY DEF JournalLinked, TypeOK, Records, TaskShape, Append
<1>3. torn' \in BOOLEAN
  BY <1>1, ReceiveAssumption, RecordTyped
    DEF JournalLinked, TypeOK, Records, TaskShape, Append
<1>4. row' \in Rows
  BY TaskTyped DEF JournalLinked, TypeOK, Rows, Ended
<1>5. task' \in Tasks
  BY TaskTyped DEF JournalLinked, Tasks, TaskSteps, TaskEnds
<1> QED BY <1>1, <1>2, <1>3, <1>4, <1>5 DEF TypeOK, Rows, Tasks

\* Replace leaves the state well typed.
LEMMA ReplaceTyped ==
  ASSUME IInv, Replace PROVE TypeOK'
<1> USE DEF IInv
<1>1. UNCHANGED <<links, entry, content, partial, marker, row, cleanup, lock, attempt,
                  cleaner, phase, lost, moves, faults>>
  BY DEF Replace, Retire, dbVars, UnchangedByTask, UnchangedByCleaner
<1>2. reservation' \in [Names -> Tokens \union {None, Others}]
  BY Picked, ReceiveAssumption DEF Replace, TypeOK, TaskShape
<1>3. journal' \in Records \union {NoRecord}
  BY Picked DEF Replace, TypeOK, Records, TaskShape, Append
<1>4. torn' \in BOOLEAN
  BY <1>1, Picked, ReceiveAssumption, RecordTyped
    DEF Replace, TypeOK, Records, TaskShape, Append
<1>5. task' \in Tasks
  BY <1>1, Picked, ReceiveAssumption, Typed, TaskTyped DEF Replace, TypeOK, Tasks, TaskSteps
<1> QED BY <1>1, <1>2, <1>3, <1>4, <1>5 DEF TypeOK, Tasks

\* Switch leaves the state well typed.
LEMMA SwitchTyped ==
  ASSUME IInv, Switch PROVE TypeOK'
<1> USE DEF IInv
<1>1. UNCHANGED <<links, entry, content, reservation, partial, marker, journal, torn,
                  cleanup, lock, attempt, cleaner, phase, lost, moves, faults>>
  BY DEF Switch, dirVars, dbVars, UnchangedByTask, UnchangedByCleaner
<1>2. row' \in Rows
  <2>1. CASE TaskEnds("failed")
    BY Typed, TaskTyped, <2>1
  <2>2. CASE row' = [row EXCEPT !.own.dest = task.name]
    BY Typed, <2>2 DEF Rows, Ownerships, Tasks
  <2> QED BY <2>1, <2>2 DEF Switch
<1>3. task' \in Tasks
  BY TaskTyped DEF Switch, Tasks, TaskSteps, TaskEnds
<1> QED BY <1>1, <1>2, <1>3 DEF TypeOK, Rows, Tasks

\* ReleaseOld leaves the state well typed.
LEMMA ReleaseOldTyped ==
  ASSUME IInv, ReleaseOld PROVE TypeOK'
<1> USE DEF IInv
<1>1. UNCHANGED <<links, entry, content, partial, marker, journal, torn, row, cleanup, lock,
                  attempt, cleaner, phase, lost, moves, faults>>
  BY DEF ReleaseOld, Retire, dbVars, UnchangedByTask, UnchangedByCleaner
<1>2. reservation' \in [Names -> Tokens \union {None, Others}]
  BY DEF ReleaseOld, TypeOK, TaskShape, WithoutReservation, Removed
<1>3. task' \in Tasks
  BY <1>1, Picked, ReceiveAssumption, Typed, TaskTyped, ZenonT(40)
    DEF ReleaseOld, Tasks, TaskSteps
<1> QED BY <1>1, <1>2, <1>3 DEF TypeOK, Tasks

\* PrepareCopy leaves the state well typed.
LEMMA PrepareCopyTyped ==
  ASSUME IInv, PrepareCopy PROVE TypeOK'
<1> USE DEF IInv
<1>1. UNCHANGED <<links, partial, marker, journal, torn, cleanup, lock, attempt, cleaner,
                  phase, lost, moves, faults>>
  BY DEF PrepareCopy, Retire, dbVars, UnchangedByTask, UnchangedByCleaner
<1>2. entry' \in [Names -> Files \union {None}]
  BY Picked, ReceiveAssumption DEF PrepareCopy, TypeOK, TaskShape
<1>3. content' \in [Files -> Contents]
  BY DEF PrepareCopy, TypeOK, Contents
<1>4. reservation' \in [Names -> Tokens \union {None, Others}]
  BY DEF PrepareCopy, TypeOK, TaskShape
<1>5. row' \in Rows
  BY Typed, TaskTyped DEF PrepareCopy, Ended, TaskEnds
<1>6. task' \in Tasks
  <2>1. CASE TaskEnds("failed")
    BY Typed, TaskTyped, <2>1 DEF TaskEnds
  <2>2. CASE FreeFiles # {} /\ task' = [task EXCEPT !.at = "created", !.copy = NewFile]
    BY <1>1, Picked, ReceiveAssumption, Typed, TaskTyped, <2>2 DEF Tasks, TaskSteps
  <2>3. CASE SomeAvailable /\ task' = [task EXCEPT !.name = Available,
                        !.from = IF task.from = None THEN task.name ELSE task.from]
    BY <1>1, Picked, ReceiveAssumption, Typed, TaskTyped, <2>3 DEF Tasks
  <2> QED BY <2>1, <2>2, <2>3 DEF PrepareCopy
<1> QED BY <1>1, <1>2, <1>3, <1>4, <1>5, <1>6 DEF TypeOK, Rows, Tasks

\* JournalCopy leaves the state well typed.
LEMMA JournalCopyTyped ==
  ASSUME IInv, JournalCopy PROVE TypeOK'
<1> USE DEF IInv
<1>1. UNCHANGED <<links, entry, content, reservation, partial, marker, cleanup, lock,
                  attempt, cleaner, phase, lost, moves, faults>>
  BY DEF JournalCopy, Retire, dbVars, UnchangedByTask, UnchangedByCleaner
<1>2. journal' \in Records \union {NoRecord}
  BY DEF JournalCopy, TypeOK, Records, TaskShape, Append
<1>3. torn' \in BOOLEAN
  BY <1>1, ReceiveAssumption, RecordTyped
    DEF JournalCopy, TypeOK, Records, TaskShape, Append
<1>4. row' \in Rows
  BY TaskTyped DEF JournalCopy, TypeOK, Rows, Ended
<1>5. task' \in Tasks
  BY TaskTyped DEF JournalCopy, Tasks, TaskSteps, TaskEnds
<1> QED BY <1>1, <1>2, <1>3, <1>4, <1>5 DEF TypeOK, Rows, Tasks

\* StartCopy leaves the state well typed.
LEMMA StartCopyTyped ==
  ASSUME IInv, StartCopy PROVE TypeOK'
<1> USE DEF IInv
<1>1. UNCHANGED <<links, entry, reservation, partial, marker, journal, torn, cleanup, lock,
                  attempt, cleaner, phase, lost, moves, faults>>
  BY DEF StartCopy, Retire, dbVars, UnchangedByTask, UnchangedByCleaner
<1>2. content' \in [Files -> Contents]
  BY <1>1, ReceiveAssumption DEF StartCopy, TypeOK, Contents
<1>3. row' \in Rows
  BY TaskTyped DEF StartCopy, TypeOK, Rows, Ended
<1>4. task' \in Tasks
  BY TaskTyped DEF StartCopy, Tasks, TaskSteps, TaskEnds
<1> QED BY <1>1, <1>2, <1>3, <1>4 DEF TypeOK, Rows, Tasks

\* FillCopy leaves the state well typed.
LEMMA FillCopyTyped ==
  ASSUME IInv, FillCopy PROVE TypeOK'
<1> USE DEF IInv
<1>1. UNCHANGED <<links, entry, reservation, partial, marker, journal, torn, row, cleanup,
                  lock, attempt, cleaner, phase, lost, moves, faults>>
  BY DEF FillCopy, Retire, dbVars, UnchangedByTask, UnchangedByCleaner
<1>2. content' \in [Files -> Contents]
  BY <1>1, ReceiveAssumption DEF FillCopy, TypeOK, Contents
<1>3. task' \in Tasks
  BY TaskTyped DEF FillCopy, TypeOK, Tasks, TaskSteps
<1> QED BY <1>1, <1>2, <1>3 DEF TypeOK, Tasks

\* JournalCopied leaves the state well typed.
LEMMA JournalCopiedTyped ==
  ASSUME IInv, JournalCopied PROVE TypeOK'
<1> USE DEF IInv
<1>1. UNCHANGED <<links, entry, content, reservation, partial, marker, row, cleanup, lock,
                  attempt, cleaner, phase, lost, moves, faults>>
  BY DEF JournalCopied, Retire, dbVars, UnchangedByTask, UnchangedByCleaner
<1>2. journal' \in Records \union {NoRecord}
  BY DEF JournalCopied, TypeOK, Records, TaskShape, Append
<1>3. torn' \in BOOLEAN
  BY <1>1, ReceiveAssumption, RecordTyped
    DEF JournalCopied, TypeOK, Records, TaskShape, Append
<1>4. task' \in Tasks
  BY <1>1, Picked, ReceiveAssumption, Typed, TaskTyped, ZenonT(40)
    DEF JournalCopied, Tasks, TaskSteps
<1> QED BY <1>1, <1>2, <1>3, <1>4 DEF TypeOK, Tasks

\* VolumeFull leaves the state well typed.
LEMMA VolumeFullTyped ==
  ASSUME IInv, VolumeFull PROVE TypeOK'
<1> USE DEF IInv
<1>1. UNCHANGED <<links, content, reservation, partial, marker, journal, torn, cleanup,
                  lock, attempt, cleaner, phase, lost, moves>>
  BY DEF VolumeFull, Retire, dbVars, UnchangedByTask, UnchangedByCleaner
<1>2. entry' \in [Names -> Files \union {None}]
  BY DEF VolumeFull, TypeOK, TaskShape, Removed, Retire
<1>3. row' \in Rows
  BY TaskTyped DEF VolumeFull, TypeOK, TaskEnds
<1>4. task' \in Tasks
  BY TaskTyped DEF VolumeFull, TypeOK
<1>5. faults' \in 0..MaxFaults
  BY <1>1, ReceiveAssumption DEF VolumeFull, TypeOK, Fault
<1> QED BY <1>1, <1>2, <1>3, <1>4, <1>5 DEF TypeOK, Rows, Tasks

\* Complete leaves the state well typed.
LEMMA CompleteTyped ==
  ASSUME IInv, Complete PROVE TypeOK'
<1> USE DEF IInv
<1>1. UNCHANGED <<links, entry, content, reservation, partial, marker, journal, torn,
                  cleanup, lock, attempt, cleaner, phase, lost, moves, faults>>
  BY DEF Complete, dirVars, dbVars, UnchangedByTask, UnchangedByCleaner
<1>2. row' \in Rows
  <2>1. CASE row' = row
    BY <2>1, Typed
  <2>2. CASE /\ task.at = "completing"
             /\ row' = [status |-> "completed", claimed |-> FALSE, whole |-> TRUE,
                own |-> [dest |-> task.name, token |-> task.token, slot |-> task.slot]]
    <3>1. [dest |-> task.name, token |-> task.token, slot |-> task.slot] \in Ownerships
      BY <2>2 DEF TaskShape, Ownerships
    <3> QED BY <2>2, <3>1, RowTyped DEF Ended
  <2> QED BY <2>1, <2>2 DEF Complete
<1>3. task' \in Tasks
  BY Typed, TaskTyped DEF Complete, TypeOK
<1> QED BY <1>1, <1>2, <1>3 DEF TypeOK, Rows, Tasks

\* TaskFails leaves the state well typed.
LEMMA TaskFailsTyped ==
  ASSUME IInv, TaskFails PROVE TypeOK'
<1> USE DEF IInv
<1>1. UNCHANGED <<links, entry, content, reservation, partial, marker, journal, torn,
                  cleanup, lock, attempt, cleaner, phase, lost, moves>>
  BY DEF TaskFails, dirVars, dbVars, UnchangedByTask, UnchangedByCleaner
<1>2. row' \in Rows
  BY TaskTyped DEF TaskFails, TypeOK, TaskEnds
<1>3. task' \in Tasks
  BY TaskTyped DEF TaskFails, TypeOK
<1>4. faults' \in 0..MaxFaults
  BY <1>1, ReceiveAssumption DEF TaskFails, TypeOK, Fault
<1> QED BY <1>1, <1>2, <1>3, <1>4 DEF TypeOK, Rows, Tasks

\* Cancel leaves the state well typed.
LEMMA CancelTyped ==
  ASSUME IInv, Cancel PROVE TypeOK'
<1> USE DEF IInv
<1>1. UNCHANGED <<links, entry, content, reservation, partial, marker, journal, torn,
                  cleanup, lock, attempt, task, cleaner, phase, lost, moves, faults>>
  BY DEF Cancel, ReconcilePartial, dirVars, UnchangedByMove, UnchangedOutside
<1>2. row' \in Rows
  BY DEF Cancel, TypeOK, Rows, Open, Ended
<1> QED BY <1>1, <1>2 DEF TypeOK, Rows, Tasks

\* RemoteEnds leaves the state well typed.
LEMMA RemoteEndsTyped ==
  ASSUME IInv, RemoteEnds PROVE TypeOK'
<1> USE DEF IInv
<1>1. UNCHANGED <<links, entry, content, reservation, partial, marker, journal, torn,
                  cleanup, lock, attempt, task, cleaner, phase, moves, faults>>
  BY DEF RemoteEnds, ReconcilePartial, dirVars, UnchangedByMove, UnchangedOutside
<1>2. row' \in Rows
  BY <1>1, ReceiveAssumption, Typed, TaskTyped DEF RemoteEnds, TypeOK, Rows, Open, Ended
<1>3. lost' \in SUBSET Tokens
  BY DEF RemoteEnds, TypeOK, TaskShape
<1> QED BY <1>1, <1>2, <1>3 DEF TypeOK, Rows

\* StageOwned leaves the state well typed.
LEMMA StageOwnedTyped ==
  ASSUME IInv, StageOwned PROVE TypeOK'
<1> USE DEF IInv
<1>1. UNCHANGED <<links, entry, content, reservation, partial, marker, journal, torn, lock,
                  attempt, task, cleaner, phase, lost, moves, faults>>
  BY DEF StageOwned, Retire, dbVars, UnchangedByTask, UnchangedByCleaner
<1>2. row' \in Rows
  <2>1. [row.own EXCEPT !.token = None, !.slot = None] \in Ownerships
    BY <1>1, Picked, ReceiveAssumption, Typed, TaskTyped DEF Ownerships
  <2> QED BY <1>1, Picked, ReceiveAssumption, Typed, TaskTyped, <2>1
    DEF StageOwned, Stage, Rows
<1>3. cleanup' \in [due : BOOLEAN, own : Ownerships]
  BY DEF StageOwned, TypeOK, FallBack, Stage, NoCleanup
<1> QED BY <1>1, <1>2, <1>3 DEF TypeOK, Rows

\* StartCleaner leaves the state well typed.
LEMMA StartCleanerTyped ==
  ASSUME IInv, NEW c \in Cleaners, StartCleaner(c) PROVE TypeOK'
<1> USE DEF IInv
<1>1. UNCHANGED <<links, entry, content, reservation, partial, marker, journal, torn, row,
                  cleanup, lock, attempt, task, phase, lost, moves, faults>>
  BY DEF StartCleaner, Retire, dbVars, UnchangedByTask, UnchangedByCleaner
<1>2. cleaner' \in [Cleaners -> [at : CleanerSteps, own : Ownerships]]
  BY ReceiveAssumption DEF StartCleaner, TypeOK, CleanerSteps, NoCleaner
<1> QED BY <1>1, <1>2 DEF TypeOK

\* CleanReservations leaves the state well typed.
LEMMA CleanReservationsTyped ==
  ASSUME IInv, NEW c \in Cleaners, CleanReservations(c) PROVE TypeOK'
<1> USE DEF IInv
<1>1. UNCHANGED <<links, entry, content, partial, marker, journal, torn, row, cleanup, lock,
                  attempt, task, phase, lost, moves, faults>>
  BY DEF CleanReservations, Retire, dbVars, UnchangedByTask, UnchangedByCleaner
<1>2. reservation' \in [Names -> Tokens \union {None, Others}]
  BY DEF CleanReservations, TypeOK, WithoutReservation, Removed
<1>3. cleaner' \in [Cleaners -> [at : CleanerSteps, own : Ownerships]]
  <2>1. UNCHANGED cleaner \/ (\E at \in CleanerSteps : CleanerTo(c, at)) \/ CleanerRests(c)
    BY DEF CleanReservations, CleanerSteps
  <2> QED BY <2>1, CleanerTyped DEF TypeOK
<1> QED BY <1>1, <1>2, <1>3 DEF TypeOK, Attempts

\* CleanPartial leaves the state well typed.
LEMMA CleanPartialTyped ==
  ASSUME IInv, NEW c \in Cleaners, CleanPartial(c) PROVE TypeOK'
<1> USE DEF IInv
<1>1. UNCHANGED <<links, entry, content, reservation, marker, journal, torn, row, cleanup,
                  lock, attempt, task, phase, lost, moves, faults>>
  BY DEF CleanPartial, Retire, dbVars, UnchangedByTask, UnchangedByCleaner
<1>2. partial' \in [Slots -> Files \union {None}]
  BY <1>1, ReceiveAssumption DEF CleanPartial, TypeOK
<1>3. cleaner' \in [Cleaners -> [at : CleanerSteps, own : Ownerships]]
  <2>1. UNCHANGED cleaner \/ (\E at \in CleanerSteps : CleanerTo(c, at)) \/ CleanerRests(c)
    BY DEF CleanPartial, CleanerSteps
  <2> QED BY <2>1, CleanerTyped DEF TypeOK
<1> QED BY <1>1, <1>2, <1>3 DEF TypeOK, Attempts

\* CleanMarker leaves the state well typed.
LEMMA CleanMarkerTyped ==
  ASSUME IInv, NEW c \in Cleaners, CleanMarker(c) PROVE TypeOK'
<1> USE DEF IInv
<1>1. UNCHANGED <<links, entry, content, reservation, partial, journal, torn, row, cleanup,
                  lock, attempt, task, phase, lost, moves, faults>>
  BY DEF CleanMarker, Retire, dbVars, UnchangedByTask, UnchangedByCleaner
<1>2. marker' \in [Slots -> Markers \union {NoMarker}]
  BY ReceiveAssumption DEF CleanMarker, TypeOK, Markers, NoMarker
<1>3. cleaner' \in [Cleaners -> [at : CleanerSteps, own : Ownerships]]
  <2>1. UNCHANGED cleaner \/ (\E at \in CleanerSteps : CleanerTo(c, at)) \/ CleanerRests(c)
    BY DEF CleanMarker, CleanerSteps
  <2> QED BY <2>1, CleanerTyped DEF TypeOK
<1> QED BY <1>1, <1>2, <1>3 DEF TypeOK, Attempts

\* CleanJournal leaves the state well typed.
LEMMA CleanJournalTyped ==
  ASSUME IInv, NEW c \in Cleaners, CleanJournal(c) PROVE TypeOK'
<1> USE DEF IInv
<1>1. UNCHANGED <<links, entry, content, reservation, partial, marker, row, cleanup, lock,
                  attempt, task, phase, lost, moves, faults>>
  BY DEF CleanJournal, Retire, dbVars, UnchangedByTask, UnchangedByCleaner
<1>2. journal' \in Records \union {NoRecord}
  BY DEF CleanJournal, TypeOK, Records, TaskShape
<1>3. torn' \in BOOLEAN
  BY <1>1, ReceiveAssumption, RecordTyped DEF CleanJournal, TypeOK, Records, TaskShape
<1>4. cleaner' \in [Cleaners -> [at : CleanerSteps, own : Ownerships]]
  <2>1. UNCHANGED cleaner \/ (\E at \in CleanerSteps : CleanerTo(c, at)) \/ CleanerRests(c)
    BY DEF CleanJournal, CleanerSteps
  <2> QED BY <2>1, CleanerTyped DEF TypeOK
<1> QED BY <1>1, <1>2, <1>3, <1>4 DEF TypeOK

\* CleanRow leaves the state well typed.
LEMMA CleanRowTyped ==
  ASSUME IInv, NEW c \in Cleaners, CleanRow(c) PROVE TypeOK'
<1> USE DEF IInv
<1>1. UNCHANGED <<links, entry, content, reservation, partial, marker, journal, torn, row,
                  lock, attempt, task, phase, lost, moves, faults>>
  BY DEF CleanRow, Retire, dbVars, UnchangedByTask, UnchangedByCleaner
<1>2. cleanup' \in [due : BOOLEAN, own : Ownerships]
  BY Typed DEF CleanRow, TypeOK, Stage, NoCleanup
<1>3. cleaner' \in [Cleaners -> [at : CleanerSteps, own : Ownerships]]
  <2>1. UNCHANGED cleaner \/ (\E at \in CleanerSteps : CleanerTo(c, at)) \/ CleanerRests(c)
    BY DEF CleanRow, CleanerSteps
  <2> QED BY <2>1, CleanerTyped DEF TypeOK
<1> QED BY <1>1, <1>2, <1>3 DEF TypeOK, Attempts

\* CleanerFails leaves the state well typed.
LEMMA CleanerFailsTyped ==
  ASSUME IInv, NEW c \in Cleaners, CleanerFails(c) PROVE TypeOK'
<1> USE DEF IInv
<1>1. UNCHANGED <<links, entry, content, reservation, partial, marker, journal, torn, row,
                  cleanup, lock, attempt, task, phase, lost, moves>>
  BY DEF CleanerFails, Retire, dbVars, UnchangedByTask, UnchangedByCleaner
<1>2. cleaner' \in [Cleaners -> [at : CleanerSteps, own : Ownerships]]
  <2>1. UNCHANGED cleaner \/ (\E at \in CleanerSteps : CleanerTo(c, at)) \/ CleanerRests(c)
    BY DEF CleanerFails, CleanerSteps
  <2> QED BY <2>1, CleanerTyped DEF TypeOK
<1>3. faults' \in 0..MaxFaults
  BY <1>1, ReceiveAssumption DEF CleanerFails, TypeOK, Fault
<1> QED BY <1>1, <1>2, <1>3 DEF TypeOK, Attempts

\* Crash leaves the state well typed.
LEMMA CrashTyped ==
  ASSUME IInv, Crash PROVE TypeOK'
<1> USE DEF IInv
<1>1. UNCHANGED <<links, entry, content, reservation, partial, marker, journal, cleanup,
                  moves>>
  BY DEF Crash, Fault, Retire, UnchangedByMove, UnchangedOutside
<1>2. torn' \in BOOLEAN
  BY DEF Crash, TypeOK, Records
<1>3. row' \in Rows
  BY <1>1, ReceiveAssumption, Typed, TaskTyped DEF Crash, TypeOK, Rows, Open, Ended
<1>4. lock' \in Tokens \union {None}
  BY <1>1, ReceiveAssumption DEF Crash, TypeOK
<1>5. attempt' \in [Tokens -> Attempts]
  BY DEF Crash, TypeOK, Attempts, AttemptSteps, NoAttempt
<1>6. task' \in Tasks
  BY Typed, TaskTyped DEF Crash, TypeOK
<1>7. cleaner' \in [Cleaners -> [at : CleanerSteps, own : Ownerships]]
  BY CleanerTyped DEF Crash
<1>8. phase' \in {"running", "reconcile", "sweep"}
  BY <1>1, ReceiveAssumption DEF Crash, TypeOK
<1>9. lost' \in SUBSET Tokens
  BY <1>1, ReceiveAssumption DEF Crash, TypeOK
<1>10. faults' \in 0..MaxFaults
  BY ReceiveAssumption DEF Crash, TypeOK, Fault, Appending
<1> QED BY <1>1, <1>2, <1>3, <1>4, <1>5, <1>6, <1>7, <1>8, <1>9, <1>10
  DEF TypeOK, Rows, Attempts, Tasks

\* Reconcile leaves the state well typed.
LEMMA ReconcileTyped ==
  ASSUME IInv, Reconcile PROVE TypeOK'
<1> USE DEF IInv
<1>1. UNCHANGED <<links, entry, reservation, journal, torn, cleanup, lock, attempt, task,
                  cleaner, lost, moves, faults>>
  BY DEF Reconcile, Retire, ReconcileFinalised, ReconcilePartial, dirVars
<1>2. \/ UNCHANGED <<row, partial, marker, content>>
      \/ UNCHANGED <<partial, marker, content>> /\ FinalisedIsOwned /\ ReconcileFinalised
      \/ UNCHANGED <<partial, marker, content>> /\ OwnSlots(row.own.token) # {}
         /\ row' = [row EXCEPT !.whole = FALSE, !.own.slot = Min(OwnSlots(row.own.token))]
      \/ /\ row.status = "paused" /\ FreeSlots # {} /\ FreeFiles # {}
         /\ row' = [row EXCEPT !.whole = FALSE, !.own.slot = Min(FreeSlots)]
         /\ partial' = [partial EXCEPT ![Min(FreeSlots)] = NewFile]
         /\ marker' = [marker EXCEPT ![Min(FreeSlots)] = [token |-> row.own.token,
                                                          file |-> NewFile]]
         /\ content' = [content EXCEPT ![NewFile] = "empty"]
  BY DEF Reconcile, ReconcilePartial, ReconcileFinalised, dirVars
<1>3. row.status = "paused" => row.own.token \in Tokens
  BY Typed DEF RowShape, Ownerships
<1>4. content' \in [Files -> Contents]
  BY <1>2, <1>3 DEF TypeOK, Contents
<1>5. partial' \in [Slots -> Files \union {None}]
  BY Picked, ReceiveAssumption, <1>2, <1>3 DEF TypeOK
<1>6. marker' \in [Slots -> Markers \union {NoMarker}]
  BY Picked, <1>2, <1>3 DEF TypeOK, Markers
<1>7. row' \in Rows
  <2>1. CASE FinalisedIsOwned /\ ReconcileFinalised
    <3>1. journal.name \in Names
      BY <2>1 DEF FinalisedIsOwned, TypeOK, Records
    <3> QED BY Typed, <2>1, <3>1 DEF ReconcileFinalised, Rows, Ownerships, Ended
  <2>2. CASE \E s \in Slots : row' = [row EXCEPT !.whole = FALSE, !.own.slot = s]
    <3>1. PICK s \in Slots : row' = [row EXCEPT !.whole = FALSE, !.own.slot = s]
      BY <2>2
    <3>2. [row.own EXCEPT !.slot = s] \in Ownerships
      BY Typed DEF Ownerships
    <3> QED BY Typed, <3>1, <3>2 DEF Rows
  <2> QED BY <1>1, Picked, ReceiveAssumption, <1>2, <1>3, Typed, TaskTyped, <2>1, <2>2
<1>8. phase' \in {"running", "reconcile", "sweep"}
  BY <1>3 DEF Reconcile, TypeOK
<1> QED BY <1>1, <1>4, <1>5, <1>6, <1>7, <1>8 DEF TypeOK, Rows

\* Opened leaves the state well typed.
LEMMA OpenedTyped ==
  ASSUME IInv, Opened PROVE TypeOK'
<1> USE DEF IInv
<1>1. UNCHANGED <<links, entry, content, reservation, partial, marker, journal, torn, row,
                  cleanup, lock, attempt, task, cleaner, lost, moves, faults>>
  BY DEF Opened, dirVars, dbVars, UnchangedByTask, UnchangedByCleaner
<1>2. phase' \in {"running", "reconcile", "sweep"}
  BY <1>1, ReceiveAssumption DEF Opened, TypeOK
<1> QED BY <1>1, <1>2 DEF TypeOK

\* PutFile leaves the state well typed.
LEMMA PutFileTyped ==
  ASSUME IInv, NEW n \in Names, PutFile(n) PROVE TypeOK'
<1> USE DEF IInv
<1>1. UNCHANGED <<links, reservation, partial, marker, journal, torn, row, cleanup, lock,
                  attempt, task, cleaner, phase, lost, faults>>
  BY DEF PutFile, dbVars, UnchangedByCleaner, UnchangedByMove, UnchangedOutside
<1>2. entry' \in [Names -> Files \union {None}]
  BY Picked, ReceiveAssumption DEF PutFile, TypeOK, TaskShape
<1>3. content' \in [Files -> Contents]
  BY Picked, ReceiveAssumption DEF PutFile, TypeOK, Contents
<1>4. moves' \in 0..MaxMoves
  BY Picked, ReceiveAssumption DEF PutFile, TypeOK, Move
<1> QED BY <1>1, <1>2, <1>3, <1>4 DEF TypeOK

\* TakeFile leaves the state well typed.
LEMMA TakeFileTyped ==
  ASSUME IInv, NEW n \in Names, TakeFile(n) PROVE TypeOK'
<1> USE DEF IInv
<1>1. UNCHANGED <<links, content, reservation, partial, marker, journal, torn, row, cleanup,
                  lock, attempt, task, cleaner, phase, lost, faults>>
  BY DEF TakeFile, dbVars, UnchangedByCleaner, UnchangedByMove, UnchangedOutside
<1>2. entry' \in [Names -> Files \union {None}]
  BY ReceiveAssumption DEF TakeFile, TypeOK, TaskShape, PartialIsOwned
<1>3. moves' \in 0..MaxMoves
  BY <1>1, ReceiveAssumption DEF TakeFile, TypeOK, Move
<1> QED BY <1>1, <1>2, <1>3 DEF TypeOK, Attempts

\* SwapFile leaves the state well typed.
LEMMA SwapFileTyped ==
  ASSUME IInv, NEW n \in Names, SwapFile(n) PROVE TypeOK'
<1> USE DEF IInv
<1>1. UNCHANGED <<links, reservation, partial, marker, journal, torn, row, cleanup, lock,
                  attempt, task, cleaner, phase, lost, faults>>
  BY DEF SwapFile, dbVars, UnchangedByCleaner, UnchangedByMove, UnchangedOutside
<1>2. entry' \in [Names -> Files \union {None}]
  BY Picked, ReceiveAssumption DEF SwapFile, TypeOK, TaskShape
<1>3. content' \in [Files -> Contents]
  BY Picked, ReceiveAssumption DEF SwapFile, TypeOK, Contents
<1>4. moves' \in 0..MaxMoves
  BY Picked, ReceiveAssumption DEF SwapFile, TypeOK, Move
<1> QED BY <1>1, <1>2, <1>3, <1>4 DEF TypeOK

\* TakeReservation leaves the state well typed.
LEMMA TakeReservationTyped ==
  ASSUME IInv, NEW n \in Names, TakeReservation(n) PROVE TypeOK'
<1> USE DEF IInv
<1>1. UNCHANGED <<links, entry, content, partial, marker, journal, torn, row, cleanup, lock,
                  attempt, task, cleaner, phase, lost, faults>>
  BY DEF TakeReservation, dbVars, UnchangedByCleaner, UnchangedByMove, UnchangedOutside
<1>2. reservation' \in [Names -> Tokens \union {None, Others}]
  BY DEF TakeReservation, TypeOK, WithoutReservation, Removed
<1>3. moves' \in 0..MaxMoves
  BY <1>1, ReceiveAssumption DEF TakeReservation, TypeOK, Move
<1> QED BY <1>1, <1>2, <1>3 DEF TypeOK, Attempts

\* OthersReserve leaves the state well typed.
LEMMA OthersReserveTyped ==
  ASSUME IInv, NEW n \in Names, OthersReserve(n) PROVE TypeOK'
<1> USE DEF IInv
<1>1. UNCHANGED <<links, entry, content, partial, marker, journal, torn, row, cleanup, lock,
                  attempt, task, cleaner, phase, lost, faults>>
  BY DEF OthersReserve, dbVars, UnchangedByCleaner, UnchangedByMove, UnchangedOutside
<1>2. reservation' \in [Names -> Tokens \union {None, Others}]
  BY DEF OthersReserve, TypeOK, WithoutReservation, Removed
<1>3. moves' \in 0..MaxMoves
  BY <1>1, ReceiveAssumption DEF OthersReserve, TypeOK, Move
<1> QED BY <1>1, <1>2, <1>3 DEF TypeOK, Attempts

\* OthersRelease leaves the state well typed.
LEMMA OthersReleaseTyped ==
  ASSUME IInv, NEW n \in Names, OthersRelease(n) PROVE TypeOK'
<1> USE DEF IInv
<1>1. UNCHANGED <<links, entry, content, partial, marker, journal, torn, row, cleanup, lock,
                  attempt, task, cleaner, phase, lost, faults>>
  BY DEF OthersRelease, dbVars, UnchangedByCleaner, UnchangedByMove, UnchangedOutside
<1>2. reservation' \in [Names -> Tokens \union {None, Others}]
  BY DEF OthersRelease, TypeOK, WithoutReservation, Removed
<1>3. moves' \in 0..MaxMoves
  BY <1>1, ReceiveAssumption DEF OthersRelease, TypeOK, Move
<1> QED BY <1>1, <1>2, <1>3 DEF TypeOK, Attempts

\* TakePartial leaves the state well typed.
LEMMA TakePartialTyped ==
  ASSUME IInv, NEW s \in Slots, TakePartial(s) PROVE TypeOK'
<1> USE DEF IInv
<1>1. UNCHANGED <<links, entry, content, reservation, marker, journal, torn, row, cleanup,
                  lock, attempt, task, cleaner, phase, lost, faults>>
  BY DEF TakePartial, dbVars, UnchangedByCleaner, UnchangedByMove, UnchangedOutside
<1>2. partial' \in [Slots -> Files \union {None}]
  BY <1>1, ReceiveAssumption DEF TakePartial, TypeOK
<1>3. moves' \in 0..MaxMoves
  BY <1>1, ReceiveAssumption DEF TakePartial, TypeOK, Move
<1> QED BY <1>1, <1>2, <1>3 DEF TypeOK, Attempts

\* SwapPartial leaves the state well typed.
LEMMA SwapPartialTyped ==
  ASSUME IInv, NEW s \in Slots, SwapPartial(s) PROVE TypeOK'
<1> USE DEF IInv
<1>1. UNCHANGED <<links, entry, reservation, marker, journal, torn, row, cleanup, lock,
                  attempt, task, cleaner, phase, lost, faults>>
  BY DEF SwapPartial, dbVars, UnchangedByCleaner, UnchangedByMove, UnchangedOutside
<1>2. content' \in [Files -> Contents]
  BY Picked, ReceiveAssumption DEF SwapPartial, TypeOK, Contents
<1>3. partial' \in [Slots -> Files \union {None}]
  BY <1>1, Picked, ReceiveAssumption DEF SwapPartial, TypeOK
<1>4. moves' \in 0..MaxMoves
  BY Picked, ReceiveAssumption DEF SwapPartial, TypeOK, Move
<1> QED BY <1>1, <1>2, <1>3, <1>4 DEF TypeOK

-----------------------------------------------------------------------------
(* Each action keeps the invariant. *)

\* What the end of a task keeps: it touches nothing but the row, if that is still its own.
LEMMA TaskEndsKept ==
  ASSUME IInv, NEW status \in {"paused", "failed"}, TaskEnds(status), UnchangedByTask
  PROVE  /\ RowOwnsTheSame
         /\ LockHeld' /\ AttemptShape' /\ RowShape' /\ TaskShape' /\ CleanupShape'
         /\ PhaseShape'
         /\ OneMarker' \/ ~UNCHANGED marker
         /\ OwnedOrDue'
<1> USE DEF IInv
<1>1. UNCHANGED <<cleanup, lock, attempt, cleaner, phase, lost, moves>> /\ task' = NoTask
  BY DEF UnchangedByTask, TaskEnds
<1>2. /\ row'.own = row.own
      /\ \/ row' = row /\ ~TaskHoldsRow
         \/ TaskHoldsRow /\ row'.status = status /\ ~row'.claimed
  BY DEF TaskEnds, EndRow, TypeOK, TaskHoldsRow
<1>3. RowOwnsTheSame
  BY <1>2 DEF RowOwnsTheSame, TaskHoldsRow, Open
<1>4. LockHeld' /\ AttemptShape' /\ CleanupShape' /\ OwnedOrDue'
  BY <1>1, <1>2, Frames
<1>5. RowShape'
  BY <1>1, <1>2 DEF RowShape, TaskHoldsRow, NoTask
<1>6. TaskShape' /\ PhaseShape'
  BY <1>1, ReceiveAssumption DEF TaskShape, PhaseShape, NoTask
<1>7. UNCHANGED marker => OneMarker'
  BY <1>1, <1>2, Frames
<1> QED BY <1>3, <1>4, <1>5, <1>6, <1>7

\* Reserve takes a name that is free, for a token of which nothing was left.
LEMMA ReserveKept ==
  ASSUME IInv, NEW k \in Tokens, Reserve(k) PROVE IInv'
<1> USE DEF IInv
<1>1. UNCHANGED <<links, entry, content, partial, marker, journal, torn, row, cleanup, lock,
                  task, cleaner, phase, lost, moves, faults>>
  BY DEF Reserve, dbVars, UnchangedByCleaner, UnchangedByMove, UnchangedOutside
<1>2. FilesUsed' /\ WholeInTime' /\ OwnedOrDue' /\ PublishedIsWhole'
  BY <1>1, Frames DEF RowOwnsTheSame
<1>3. LockHeld'
  BY ReceiveAssumption DEF TypeOK, Reserve, AttemptShape, NoAttempt
<1>4. AttemptShape'
  BY DEF TypeOK, Reserve, IsRunning, UnchangedOutside, AttemptShape
<1>5. RowShape'
  BY DEF Reserve, dbVars, RowShape, AwaitingRow, Nothing
<1>6. TaskShape'
  BY DEF Reserve, TaskShape, Holds, TaskHoldsRow, Outlived
<1>7. CleanupShape'
  BY ReceiveAssumption
    DEF TypeOK, NoMarker, NoRecord, Reserve, IsRunning, AttemptShape, NoAttempt, Live, Ours,
        Open, Ended
<1>8. PhaseShape'
  BY DEF Reserve, IsRunning, UnchangedOutside, PhaseShape, LockHeld
<1>9. FilesOurs'
  BY ReceiveAssumption DEF TypeOK, Reserve, AttemptShape, NoAttempt
<1>10. CopiesApart'
  BY ReceiveAssumption DEF TypeOK, Reserve, AttemptShape, NoAttempt
<1>11. NamesKept'
  BY ReceiveAssumption DEF TypeOK, Reserve, AttemptShape, NoAttempt
<1>12. PartialsKept'
  BY <1>1, Picked, ReceiveAssumption
    DEF TypeOK, NoMarker, NoRecord, Reserve, IsRunning, Reservable, dbVars,
        UnchangedOutside, PartialsKept, PartialIsOwned, LockHeld, AttemptShape, NoAttempt,
        RowShape, AwaitingRow, Nothing, Settled, TaskShape, NoTask, Holds, TaskHoldsRow,
        Outlived, CleanupShape, PhaseShape, OwnedOrDue, FilesUsed, Live, Ours, Open, Ended
<1>13. Begun'
  BY Picked, ReceiveAssumption
    DEF TypeOK, NoMarker, NoRecord, Reserve, IsRunning, Reservable, dbVars,
        UnchangedOutside, Begun, NoReservationOf, NoMarkerOf, Settled, Due, LockHeld,
        AttemptShape, Live, Ours, Open
<1>14. OneMarker'
  BY Picked, ReceiveAssumption
    DEF TypeOK, Reserve, IsRunning, Reservable, MarkersAt, LockHeld, AttemptShape,
        NoAttempt, RowShape, AwaitingRow
<1>15. Swept'
  BY <1>1, Picked, ReceiveAssumption, SMTT(40)
    DEF TypeOK, NoMarker, NoRecord, Reserve, IsRunning, Reservable, dbVars,
        UnchangedOutside, Swept, NoReservationOf, NoMarkerOf, LockHeld, AttemptShape,
        NoAttempt, RowShape, AwaitingRow, Nothing, Settled, TaskShape, NoTask, Holds,
        TaskHoldsRow, Outlived, CleanupShape, PhaseShape, OwnedOrDue, Begun, Due, OneMarker,
        MarkersAt, Live, Ours, Open, Ended
<1>16. AllInHand'
  BY ReceiveAssumption DEF TypeOK, Reserve, Reservable, AttemptShape, NoAttempt, RowShape
<1>17. AcceptedIsBacked'
  BY DEF Reserve, Reservable, dbVars, UnchangedOutside, AcceptedIsBacked,
      ReservationIsOwned, PartialIsOwned, LockHeld
<1>18. TypeOK'
  BY ReserveTyped
<1> QED BY <1>2, <1>3, <1>4, <1>5, <1>6, <1>7, <1>8, <1>9, <1>10, <1>11, <1>12, <1>13,
   <1>14, <1>15, <1>16, <1>17, <1>18

\* CreatePartial takes a file nobody uses, in a free slot, and the lock.
LEMMA CreatePartialKept ==
  ASSUME IInv, NEW k \in Tokens, CreatePartial(k) PROVE IInv'
<1> USE DEF IInv
<1>1. UNCHANGED <<links, entry, reservation, marker, journal, torn, row, cleanup, task,
                  cleaner, phase, lost, moves, faults>>
  BY DEF CreatePartial, Fault, Retire, UnchangedByMove, UnchangedOutside
<1>2. Swept' /\ OwnedOrDue'
  BY <1>1, Frames DEF RowOwnsTheSame
<1>3. LockHeld'
  BY ReceiveAssumption DEF TypeOK, CreatePartial, UnchangedOutside, LockHeld
<1>4. AttemptShape'
  BY Picked DEF TypeOK, CreatePartial, UnchangedOutside, AttemptShape
<1>5. RowShape'
  BY Picked, ReceiveAssumption DEF TypeOK, CreatePartial, AttemptShape, NoAttempt
<1>6. TaskShape'
  BY Picked, ReceiveAssumption DEF TypeOK, CreatePartial, AttemptShape
<1>7. CleanupShape'
  BY <1>1, Picked, ReceiveAssumption
    DEF TypeOK, NoMarker, NoRecord, CreatePartial, ReservationIsOwned, UnchangedOutside,
        CleanupShape, Settled, LockHeld, AttemptShape, NoAttempt, RowShape, AwaitingRow,
        Nothing, TaskShape, NoTask, Holds, TaskHoldsRow, Outlived, PhaseShape, OwnedOrDue,
        Live, Ours, Open, Ended
<1>8. PhaseShape'
  BY DEF CreatePartial, ReservationIsOwned, UnchangedOutside, PhaseShape
<1>9. FilesUsed'
  BY DEF TypeOK, CreatePartial, ReservationIsOwned, UnchangedOutside, FilesUsed
<1>10. FilesOurs'
  BY Picked DEF TypeOK, CreatePartial, FilesOurs, Ours, Open
<1>11. CopiesApart'
  BY Picked, ReceiveAssumption DEF TypeOK, CreatePartial, LockHeld, AttemptShape
<1>12. WholeInTime'
  BY Picked DEF CreatePartial, UnchangedOutside, WholeInTime, Published
<1>13. NamesKept'
  BY DEF TypeOK, CreatePartial, ReservationIsOwned, UnchangedOutside, NamesKept, Holds,
      TaskHoldsRow
<1>14. PartialsKept'
  BY <1>1, Picked, ReceiveAssumption, SMTT(40)
    DEF TypeOK, NoMarker, NoRecord, CreatePartial, ReservationIsOwned, UnchangedOutside,
        PartialsKept, PartialIsOwned, LockHeld, AttemptShape, NoAttempt, RowShape,
        AwaitingRow, Nothing, Settled, TaskShape, NoTask, Holds, TaskHoldsRow, Outlived,
        CleanupShape, PhaseShape, OwnedOrDue, FilesUsed, Live, Ours, Open, Ended
<1>15. Begun'
  BY Picked, ReceiveAssumption
    DEF TypeOK, CreatePartial, UnchangedOutside, AttemptShape, NoAttempt, RowShape
<1>16. OneMarker'
  BY DEF TypeOK, CreatePartial, ReservationIsOwned, UnchangedOutside, OneMarker, MarkersAt,
      Outlived, Due, Live
<1>17. AllInHand'
  BY DEF TypeOK, CreatePartial, UnchangedOutside, AllInHand, InHand, Due, Live, Ours, Open
<1>18. AcceptedIsBacked'
  BY ReceiveAssumption
    DEF TypeOK, CreatePartial, ReservationIsOwned, UnchangedOutside, AcceptedIsBacked,
        PartialIsOwned, LockHeld, AttemptShape, NoAttempt
<1>19. PublishedIsWhole'
  BY Picked DEF CreatePartial, ReservationIsOwned, UnchangedOutside, PublishedIsWhole
<1>20. TypeOK'
  BY CreatePartialTyped
<1> QED BY <1>2, <1>3, <1>4, <1>5, <1>6, <1>7, <1>8, <1>9, <1>10, <1>11, <1>12, <1>13,
   <1>14, <1>15, <1>16, <1>17, <1>18, <1>19, <1>20

\* MarkPartial puts the marker of a token that had none beside the partial it created.
LEMMA MarkPartialKept ==
  ASSUME IInv, NEW k \in Tokens, MarkPartial(k) PROVE IInv'
<1> USE DEF IInv
<1>1. UNCHANGED <<links, entry, content, reservation, partial, journal, torn, row, cleanup,
                  lock, task, cleaner, phase, lost, moves, faults>>
  BY DEF MarkPartial, dbVars, UnchangedOutside
<1>2. /\ attempt[k].at = "created" /\ lock = k /\ attempt'[k].at = "marked"
      /\ attempt'[k].slot = attempt[k].slot
      /\ attempt[k].slot \in Slots /\ attempt[k].file \in Files
      /\ \A j \in Tokens : j # k => attempt'[j] = attempt[j]
  BY Advances DEF MarkPartial, LockHeld, AttemptShape
<1>3. FilesUsed' /\ OwnedOrDue' /\ PublishedIsWhole'
  BY <1>1, Frames DEF RowOwnsTheSame
<1>4. LockHeld'
  BY DEF MarkPartial, Advance, dbVars, LockHeld
<1>5. AttemptShape'
  BY DEF MarkPartial, Advance, AttemptShape
<1>6. RowShape'
  BY DEF MarkPartial, Advance, dbVars, RowShape, Settled
<1>7. TaskShape'
  BY DEF MarkPartial, Advance, dbVars, TaskShape, Settled, Holds, TaskHoldsRow, Outlived
<1>8. CleanupShape'
  BY DEF MarkPartial, Advance, dbVars, CleanupShape, Settled
<1>9. PhaseShape'
  BY DEF MarkPartial, UnchangedOutside, PhaseShape
<1>10. FilesOurs'
  BY DEF MarkPartial, Advance, FilesOurs
<1>11. CopiesApart'
  BY DEF MarkPartial, Advance, CopiesApart, IsCopy, IsPart
<1>12. WholeInTime'
  BY DEF MarkPartial, UnchangedOutside, WholeInTime, Published, Settled, TaskShape
<1>13. NamesKept'
  BY DEF MarkPartial, Advance, dbVars, UnchangedOutside, NamesKept, Holds, TaskHoldsRow
<1>14. PartialsKept'
  <2>1. \A j \in Tokens : attempt'[j].at # "created"
    BY <1>2 DEF LockHeld
  <2>2. \A j \in Tokens : j # k => attempt'[j].at # "marked"
    BY <1>2 DEF LockHeld
  <2>3. marker' = [marker EXCEPT ![attempt[k].slot] = [token |-> k,
                                                       file |-> attempt[k].file]]
    BY DEF MarkPartial
  <2>4. \A s \in Slots :
            marker'[s] = IF s = attempt[k].slot THEN [token |-> k, file |-> attempt[k].file]
                ELSE marker[s]
    BY <2>3 DEF TypeOK
  <2>5. CASE moves = 0
    <3>1. partial[attempt[k].slot] = attempt[k].file
      BY <1>2, <2>5 DEF PartialsKept
    <3>2. partial'[attempt'[k].slot] # None
      BY <1>1, <1>2, <3>1, ReceiveAssumption
    <3>3. marker'[attempt'[k].slot] = [token |-> k, file |-> partial'[attempt'[k].slot]]
      BY <1>1, <1>2, <2>4, <3>1
    <3> QED
      BY <1>1, <1>2, <2>1, <2>2, <2>4, <3>2, <3>3 DEF PartialsKept, PartialIsOwned
  <2> QED BY <1>1, <2>1, <2>5 DEF PartialsKept
<1>15. Begun'
  BY DEF TypeOK, MarkPartial, Advance, dbVars, UnchangedOutside, Begun, NoReservationOf,
      NoMarkerOf, Settled, Due, Live
<1>16. OneMarker'
  BY DEF MarkPartial, Advance, dbVars, UnchangedOutside, OneMarker, MarkersAt, RowShape,
      Settled, CleanupShape, Live
<1>17. Swept'
  BY DEF MarkPartial, UnchangedOutside, Swept, NoReservationOf, NoMarkerOf, Settled,
      CleanupShape
<1>18. AllInHand'
  BY DEF MarkPartial, Advance, dbVars, UnchangedOutside, AllInHand, InHand, Due, Live
<1>19. AcceptedIsBacked'
  BY DEF NoMarker, MarkPartial, dbVars, UnchangedOutside, AcceptedIsBacked,
      ReservationIsOwned, PartialIsOwned, PartialsKept
<1>20. TypeOK'
  BY MarkPartialTyped
<1> QED BY <1>3, <1>4, <1>5, <1>6, <1>7, <1>8, <1>9, <1>10, <1>11, <1>12, <1>13, <1>14,
   <1>15, <1>16, <1>17, <1>18, <1>19, <1>20

\* Persist gives the row what the acceptance reserved, if the row still waits.
LEMMA PersistKept ==
  ASSUME IInv, NEW k \in Tokens, Persist(k) PROVE IInv'
<1> USE DEF IInv
<1>1. UNCHANGED <<links, entry, content, reservation, partial, marker, journal, torn,
                  cleanup, task, cleaner, phase, lost, moves, faults>>
  BY DEF Persist, ReconcilePartial, dirVars, UnchangedByMove, UnchangedOutside
<1>2. attempt[k].at = "marked" /\ lock = k
      /\ attempt[k].name \in Names /\ attempt[k].slot \in Slots
      /\ attempt'[k].at \in {"accepted", "refused"}
      /\ \A j \in Tokens : j # k => attempt'[j] = attempt[j]
  BY Advances, Leaves DEF Persist, LockHeld, AttemptShape
<1>3. \/ /\ StillAccepts /\ attempt'[k].at = "accepted"
         /\ row' = [status |-> "transferring", own |-> Ownership(k), claimed |-> FALSE,
                    whole |-> FALSE]
      \/ row' = row /\ attempt'[k].at = "refused"
  BY Advances, Leaves DEF Persist
<1>4. FilesUsed' /\ WholeInTime' /\ Swept'
  BY <1>1, Frames DEF RowOwnsTheSame
<1>5. LockHeld'
  BY ReceiveAssumption DEF TypeOK, Persist, Leave, NoAttempt, Advance, LockHeld
<1>6. AttemptShape'
  BY <1>1, Picked, ReceiveAssumption, SMTT(40)
    DEF TypeOK, NoMarker, Persist, StillAccepts, Ownership, Leave, NoAttempt, Advance,
        AttemptShape
<1>7. RowShape'
  <2>1. row.own.token # None => row.own.token \in Tokens
    BY DEF TypeOK, Ownerships
  <2>2. CASE row' = row
    BY <1>1, <1>2, <2>1, <2>2 DEF RowShape, Settled
  <2>3. CASE /\ attempt'[k].at = "accepted"
             /\ row' = [status |-> "transferring", own |-> Ownership(k), claimed |-> FALSE,
                        whole |-> FALSE]
    BY <1>2, <2>3, ReceiveAssumption DEF RowShape, Ownership, Settled
  <2> QED BY <1>3, <2>2, <2>3
<1>8. TaskShape'
  BY <1>1, Picked, ReceiveAssumption
    DEF TypeOK, NoMarker, NoRecord, Persist, StillAccepts, NoAttempt, Advance, TaskShape,
        NoTask, Settled, Holds, TaskHoldsRow, Outlived
<1>9. CleanupShape'
  BY <1>1, <1>2, <1>3 DEF CleanupShape, Ownership, Settled
<1>10. PhaseShape'
  BY DEF NoRecord, Persist, UnchangedOutside, PhaseShape
<1>11. FilesOurs'
  BY <1>1, Picked
    DEF TypeOK, Persist, StillAccepts, Ownership, Leave, NoAttempt, Advance, FilesOurs,
        Settled
<1>12. CopiesApart'
  BY <1>1, <1>2 DEF CopiesApart, IsCopy, IsPart
<1>13. NamesKept'
  BY <1>1, ReceiveAssumption
    DEF TypeOK, Persist, StillAccepts, Ownership, Leave, NoAttempt, Advance, dirVars,
        UnchangedOutside, NamesKept, Holds, TaskHoldsRow, LockHeld
<1>14. PartialsKept'
  BY <1>1, <1>2 DEF PartialsKept, PartialIsOwned, LockHeld
<1>15. Begun'
  BY DEF TypeOK, Persist, StillAccepts, Ownership, Leave, NoAttempt, Advance, dirVars,
      UnchangedOutside, Begun, NoReservationOf, NoMarkerOf, Settled, Due, LockHeld,
      AttemptShape, Live, Ours, Open
<1>16. OneMarker'
  BY ReceiveAssumption
    DEF TypeOK, NoMarker, NoRecord, Persist, StillAccepts, Ownership, Leave, NoAttempt,
        Advance, dirVars, UnchangedOutside, OneMarker, MarkersAt, LockHeld, AttemptShape,
        Due, Live, Ours
<1>17. AllInHand'
  BY ReceiveAssumption
    DEF TypeOK, NoMarker, NoRecord, Persist, StillAccepts, Ownership, Leave, NoAttempt,
        Advance, dirVars, UnchangedOutside, AllInHand, InHand, Due, LockHeld, AttemptShape,
        RowShape, AwaitingRow, Nothing, Settled, TaskShape, Swept, Live, Ours
<1>18. OwnedOrDue'
  BY DEF Persist, StillAccepts, Ownership, UnchangedOutside, OwnedOrDue
<1>19. AcceptedIsBacked'
  BY DEF Persist, Ownership, dirVars, UnchangedOutside, AcceptedIsBacked,
      ReservationIsOwned, PartialIsOwned, LockHeld, OwnedOrDue, NamesKept, PartialsKept
<1>20. PublishedIsWhole'
  BY DEF Persist, Ownership, dirVars, UnchangedOutside, PublishedIsWhole
<1>21. TypeOK'
  BY PersistTyped
<1> QED BY <1>4, <1>5, <1>6, <1>7, <1>8, <1>9, <1>10, <1>11, <1>12, <1>13, <1>14, <1>15,
   <1>16, <1>17, <1>18, <1>19, <1>20, <1>21

\* LosesReservation gives up before anything but the name was taken.
LEMMA LosesReservationKept ==
  ASSUME IInv, NEW k \in Tokens, LosesReservation(k) PROVE IInv'
<1> USE DEF IInv
<1>1. UNCHANGED <<links, entry, content, reservation, partial, marker, journal, torn, row,
                  cleanup, lock, task, cleaner, phase, lost, moves, faults>>
  BY DEF LosesReservation, dirVars, dbVars, UnchangedByMove, UnchangedOutside
<1>2. /\ FilesUsed' /\ WholeInTime' /\ Swept' /\ OwnedOrDue' /\ AcceptedIsBacked'
      /\ PublishedIsWhole'
  BY <1>1, Frames DEF RowOwnsTheSame
<1>3. LockHeld'
  BY DEF LosesReservation, Advance, dbVars, UnchangedOutside, LockHeld
<1>4. AttemptShape'
  BY DEF LosesReservation, ReservationIsOwned, Advance, UnchangedOutside, AttemptShape
<1>5. RowShape'
  BY DEF LosesReservation, Advance, dbVars, UnchangedOutside, RowShape, Settled, LockHeld
<1>6. TaskShape'
  BY DEF LosesReservation, Advance, dbVars, UnchangedOutside, TaskShape, NoTask, Settled,
      Holds, TaskHoldsRow, Outlived, LockHeld
<1>7. CleanupShape'
  BY DEF LosesReservation, Advance, dbVars, CleanupShape, Settled, LockHeld
<1>8. PhaseShape'
  BY DEF NoRecord, LosesReservation, UnchangedOutside, PhaseShape
<1>9. FilesOurs'
  BY DEF LosesReservation, Advance, dirVars, UnchangedOutside, FilesOurs
<1>10. CopiesApart'
  BY DEF LosesReservation, Advance, dirVars, CopiesApart, IsCopy, IsPart
<1>11. NamesKept'
  BY DEF LosesReservation, Advance, dirVars, dbVars, UnchangedOutside, NamesKept, Holds,
      TaskHoldsRow
<1>12. PartialsKept'
  BY DEF LosesReservation, Advance, dirVars, UnchangedOutside, PartialsKept, PartialIsOwned,
      LockHeld
<1>13. Begun'
  BY DEF LosesReservation, Advance, dirVars, dbVars, UnchangedOutside, Begun,
      NoReservationOf, NoMarkerOf, Settled, Due, LockHeld, PartialIsOwned, Live, Ours
<1>14. OneMarker'
  BY DEF LosesReservation, Advance, dirVars, dbVars, UnchangedOutside, OneMarker, MarkersAt,
      LockHeld, Live, Ours, Open
<1>15. AllInHand'
  BY DEF LosesReservation, Advance, dirVars, dbVars, UnchangedOutside, AllInHand, InHand,
      Due, Live, Ours, Open
<1>16. TypeOK'
  BY LosesReservationTyped
<1> QED BY <1>2, <1>3, <1>4, <1>5, <1>6, <1>7, <1>8, <1>9, <1>10, <1>11, <1>12, <1>13,
   <1>14, <1>15, <1>16

\* AcceptFails keeps the name, and the marker if there is one, in the acceptance's hand.
LEMMA AcceptFailsKept ==
  ASSUME IInv, NEW k \in Tokens, AcceptFails(k) PROVE IInv'
<1> USE DEF IInv
<1>1. UNCHANGED <<links, entry, content, reservation, partial, marker, journal, torn, row,
                  cleanup, task, cleaner, phase, lost, moves>>
  BY DEF AcceptFails, ReconcilePartial, dirVars, UnchangedByMove, UnchangedOutside
<1>2. /\ attempt[k].at \in {"reserved", "created", "marked"} /\ attempt'[k].at = "refused"
      /\ \A j \in Tokens : j # k => attempt'[j] = attempt[j]
  BY DEF AcceptFails, TypeOK
<1>3. /\ FilesUsed' /\ WholeInTime' /\ Swept' /\ OwnedOrDue' /\ AcceptedIsBacked'
      /\ PublishedIsWhole'
  BY <1>1, Frames DEF RowOwnsTheSame
<1>4. LockHeld'
  BY ReceiveAssumption DEF TypeOK, AcceptFails, LockHeld, AttemptShape
<1>5. AttemptShape'
  BY DEF TypeOK, AcceptFails, Fault, AttemptShape, NoAttempt
<1>6. RowShape'
  BY <1>1, <1>2, ReceiveAssumption DEF RowShape, Settled, TypeOK, Ownerships
<1>7. TaskShape'
  BY DEF TypeOK, AcceptFails, TaskShape, NoTask, Settled, Holds, TaskHoldsRow, Outlived
<1>8. CleanupShape'
  BY DEF TypeOK, AcceptFails, CleanupShape, Settled, LockHeld, AttemptShape
<1>9. PhaseShape'
  BY DEF AcceptFails, dirVars, UnchangedOutside, PhaseShape, LockHeld
<1>10. FilesOurs'
  BY DEF TypeOK, AcceptFails, dirVars, FilesOurs, LockHeld
<1>11. CopiesApart'
  BY DEF TypeOK, AcceptFails, dirVars, UnchangedOutside, CopiesApart, IsCopy, IsPart,
      LockHeld
<1>12. NamesKept'
  BY DEF TypeOK, AcceptFails, dirVars, UnchangedOutside, NamesKept, Holds, TaskHoldsRow,
      LockHeld
<1>13. PartialsKept'
  BY <1>1, Picked, ReceiveAssumption
    DEF TypeOK, NoMarker, NoRecord, AcceptFails, Fault, dirVars, UnchangedOutside,
        PartialsKept, PartialIsOwned, LockHeld, AttemptShape, NoAttempt, RowShape,
        AwaitingRow, Nothing, Settled, TaskShape, NoTask, Holds, TaskHoldsRow, Outlived,
        CleanupShape, PhaseShape, OwnedOrDue, FilesUsed, Live, Ours, Open, Ended
<1>14. Begun'
  BY DEF TypeOK, AcceptFails, Fault, dirVars, UnchangedOutside, Begun, NoReservationOf,
      NoMarkerOf, Settled, Due, PartialsKept, PartialIsOwned, Live
<1>15. OneMarker'
  BY DEF TypeOK, AcceptFails, Fault, dirVars, UnchangedOutside, OneMarker, MarkersAt, Live,
      Ours
<1>16. AllInHand'
  BY DEF TypeOK, AcceptFails, Fault, dirVars, UnchangedOutside, AllInHand, InHand, Due,
      LockHeld, AttemptShape, Swept, Live, Ours
<1>17. TypeOK'
  BY AcceptFailsTyped
<1> QED BY <1>3, <1>4, <1>5, <1>6, <1>7, <1>8, <1>9, <1>10, <1>11, <1>12, <1>13, <1>14,
   <1>15, <1>16, <1>17

\* FallBackAfterRefusal leaves what was reserved to the cleanup, or to RemoveUnpersisted.
LEMMA FallBackAfterRefusalKept ==
  ASSUME IInv, NEW k \in Tokens, FallBackAfterRefusal(k) PROVE IInv'
<1> USE DEF IInv
<1>1. UNCHANGED <<links, entry, content, reservation, partial, marker, journal, torn, lock,
                  task, cleaner, phase, lost, moves, faults>>
  BY DEF FallBackAfterRefusal, ReconcilePartial, dirVars, UnchangedByMove, UnchangedOutside
<1>2. /\ attempt[k].at = "refused" /\ attempt'[k].at \in {"releasing", "unpersisted"}
      /\ attempt'[k].slot = attempt[k].slot
      /\ attempt'[k].name = attempt[k].name
      /\ \A j \in Tokens : j # k => attempt'[j] = attempt[j]
  BY Advances DEF FallBackAfterRefusal
<1>3. row.own.token # k
  BY <1>2, ReceiveAssumption DEF RowShape, Settled
<1>4. \/ /\ CanStageFallback(Ownership(k)) /\ row = AwaitingRow /\ row' = row
         /\ cleanup' = [due |-> TRUE,
                        own |-> IF attempt[k].slot = None /\ cleanup.due THEN cleanup.own
                            ELSE Ownership(k)]
         /\ attempt'[k].at = "releasing"
      \/ row' = row /\ cleanup' = cleanup /\ attempt'[k].at = "unpersisted"
  BY <1>3, Advances
    DEF FallBackAfterRefusal, FallBack, CanFallBack, CanReturn, RowShape, Ownership
<1>5. FilesUsed' /\ WholeInTime' /\ Swept'
  BY <1>1, Frames DEF RowOwnsTheSame
<1>6. LockHeld'
  BY Picked, ReceiveAssumption
    DEF TypeOK, FallBackAfterRefusal, CanFallBack, Nothing, Ownership, Advance, dirVars,
        UnchangedOutside, LockHeld, AttemptShape, NoAttempt
<1>7. AttemptShape'
  BY <1>2 DEF AttemptShape
<1>8. RowShape'
  BY <1>1, <1>2, <1>4 DEF RowShape, Settled, TypeOK, Ownerships
<1>9. TaskShape'
  BY <1>1, <1>2, <1>4 DEF TaskShape, Settled, Holds, Outlived, TaskHoldsRow
<1>10. CleanupShape'
  BY <1>1, <1>2, <1>4 DEF CleanupShape, Settled, Ownership
<1>11. PhaseShape'
  BY DEF NoRecord, FallBackAfterRefusal, UnchangedOutside, PhaseShape
<1>12. FilesOurs'
  BY <1>1, <1>2, <1>4, ReceiveAssumption DEF FilesOurs
<1>13. CopiesApart'
  BY <1>1, <1>2 DEF CopiesApart, IsCopy, IsPart
<1>14. NamesKept'
  BY Picked, ReceiveAssumption
    DEF TypeOK, NoMarker, NoRecord, FallBackAfterRefusal, CanFallBack, CanStageFallback,
        CanReturn, Nothing, Ownership, FallBack, AwaitingRow, Advance, dirVars,
        UnchangedOutside, NamesKept, Holds, TaskHoldsRow, LockHeld, AttemptShape, NoAttempt,
        RowShape, Open, Ended
<1>15. PartialsKept'
  BY <1>1, <1>2, ReceiveAssumption DEF PartialsKept, PartialIsOwned
<1>16. Begun'
  BY DEF TypeOK, NoMarker, NoRecord, FallBackAfterRefusal, CanFallBack, CanStageFallback,
      CanReturn, Nothing, Ownership, FallBack, AwaitingRow, Advance, dirVars,
      UnchangedOutside, Begun, NoReservationOf, NoMarkerOf, Settled, Due, LockHeld,
      AttemptShape, Live, Ours
<1>17. OneMarker'
  BY <1>1, <1>2, <1>4 DEF OneMarker, MarkersAt, Live, Ownership
<1>18. AllInHand'
  BY DEF TypeOK, NoRecord, FallBackAfterRefusal, CanFallBack, CanStageFallback, CanReturn,
      Nothing, Ownership, FallBack, AwaitingRow, Advance, dirVars, UnchangedOutside,
      AllInHand, InHand, Due, LockHeld, Swept, Live, Ours
<1>19. OwnedOrDue'
  BY DEF FallBackAfterRefusal, Nothing, FallBack, AwaitingRow, Advance, OwnedOrDue, LockHeld
<1>20. AcceptedIsBacked'
  BY DEF FallBackAfterRefusal, Nothing, FallBack, AwaitingRow, Advance, dirVars,
      UnchangedOutside, AcceptedIsBacked, ReservationIsOwned, PartialIsOwned, LockHeld
<1>21. PublishedIsWhole'
  BY DEF FallBackAfterRefusal, FallBack, AwaitingRow, dirVars, UnchangedOutside,
      PublishedIsWhole
<1>22. TypeOK'
  BY FallBackAfterRefusalTyped
<1> QED BY <1>5, <1>6, <1>7, <1>8, <1>9, <1>10, <1>11, <1>12, <1>13, <1>14, <1>15, <1>16,
   <1>17, <1>18, <1>19, <1>20, <1>21, <1>22

\* RemoveUnpersisted takes the marker away, so that only the name is left.
LEMMA RemoveUnpersistedKept ==
  ASSUME IInv, NEW k \in Tokens, RemoveUnpersisted(k) PROVE IInv'
<1> USE DEF IInv
<1>1. UNCHANGED <<links, entry, content, reservation, journal, torn, row, cleanup, lock,
                  task, cleaner, phase, lost, moves, faults>>
  BY DEF RemoveUnpersisted, dbVars, UnchangedOutside
<1>2. /\ attempt[k].at = "unpersisted" /\ attempt'[k].at = "releasing"
      /\ attempt'[k].slot = attempt[k].slot
      /\ attempt'[k].name = attempt[k].name
      /\ \A j \in Tokens : j # k => attempt'[j] = attempt[j]
  BY Advances DEF RemoveUnpersisted
<1>3. \A s \in Slots :
         /\ marker'[s] \in {marker[s], NoMarker} /\ partial'[s] \in {partial[s], None}
         /\ marker'[s] # marker[s] => marker[s].token = k
         /\ partial'[s] # partial[s] => PartialIsOwned(s, k)
  BY DEF RemoveUnpersisted, TypeOK
<1>4. moves = 0 => \A s \in Slots : marker'[s].token # k
  <2> SUFFICES ASSUME moves = 0, NEW s \in Slots, marker[s].token = k
               PROVE  marker'[s] = NoMarker
    BY <1>3, ReceiveAssumption DEF NoMarker
  <2>1. s = attempt[k].slot
    BY <1>2 DEF OneMarker, Live, MarkersAt
  <2>2. marker[s] # NoMarker /\ s # None
    BY ReceiveAssumption DEF NoMarker
  <2>3. PartialIsOwned(s, k) \/ partial[s] = None
    BY <2>2 DEF PartialsKept, PartialIsOwned, TypeOK, Markers
  <2> QED BY <2>1, <2>2, <2>3 DEF RemoveUnpersisted, TypeOK
<1>5. OwnedOrDue' /\ PublishedIsWhole'
  BY <1>1, Frames DEF RowOwnsTheSame
<1>6. LockHeld'
  BY DEF RemoveUnpersisted, Advance, dbVars, LockHeld
<1>7. AttemptShape'
  BY DEF RemoveUnpersisted, Advance, AttemptShape
<1>8. RowShape'
  BY DEF RemoveUnpersisted, Advance, dbVars, RowShape, Settled
<1>9. TaskShape'
  BY DEF RemoveUnpersisted, Advance, dbVars, TaskShape, Settled, Holds, TaskHoldsRow,
      Outlived
<1>10. CleanupShape'
  BY DEF RemoveUnpersisted, Advance, dbVars, CleanupShape
<1>11. PhaseShape'
  BY DEF RemoveUnpersisted, UnchangedOutside, PhaseShape
<1>12. FilesUsed'
  BY DEF TypeOK, RemoveUnpersisted, FilesUsed
<1>13. FilesOurs'
  BY <1>1, <1>2, <1>3 DEF FilesOurs
<1>14. CopiesApart'
  BY <1>1, <1>2, <1>3 DEF CopiesApart, IsCopy, IsPart
<1>15. WholeInTime'
  BY ReceiveAssumption
    DEF TypeOK, NoMarker, RemoveUnpersisted, UnchangedOutside, WholeInTime, Published,
        TaskShape
<1>16. NamesKept'
  BY DEF RemoveUnpersisted, Advance, dbVars, UnchangedOutside, NamesKept, Holds,
      TaskHoldsRow
<1>17. PartialsKept'
  <2>1. ASSUME NEW s \in Slots, marker[s].token # k
        PROVE  marker'[s] = marker[s] /\ partial'[s] = partial[s]
    <3>1. ~PartialIsOwned(s, k)
      BY <2>1 DEF PartialIsOwned
    <3> QED BY <1>3, <2>1, <3>1
  <2>2. \A j \in Tokens : attempt'[j].at \in {"created", "marked"} =>
            j # k /\ attempt[j].slot \in Slots
    BY <1>2 DEF AttemptShape
  <2>3. \A j \in Tokens : attempt'[j].at = "created" => marker'[attempt[j].slot] = NoMarker
    BY <1>2, <1>3, <2>2 DEF PartialsKept
  <2>4. CASE moves = 0
    <3>1. \A j \in Tokens : attempt'[j].at = "created" =>
              partial'[attempt[j].slot] = attempt[j].file
      BY <1>2, <2>1, <2>2, <2>4, ReceiveAssumption DEF PartialsKept, NoMarker
    <3>2. ASSUME NEW j \in Tokens, attempt'[j].at = "marked"
          PROVE  PartialIsOwned(attempt[j].slot, j)'
      <4>1. /\ PartialIsOwned(attempt[j].slot, j) /\ attempt'[j].slot = attempt[j].slot
            /\ j # k
        BY <1>2, <2>4, <3>2 DEF PartialsKept
      <4>2. marker[attempt[j].slot].token = j
        BY <4>1 DEF PartialIsOwned
      <4>3. /\ marker'[attempt[j].slot] = marker[attempt[j].slot]
            /\ partial'[attempt[j].slot] = partial[attempt[j].slot]
        BY <2>1, <2>2, <3>2, <4>2
      <4> QED BY <4>1, <4>3 DEF PartialIsOwned
    <3> QED BY <1>1, <1>2, <1>3, <2>2, <3>1, <3>2 DEF PartialsKept
  <2> QED BY <1>1, <1>2, <2>3, <2>4 DEF PartialsKept
<1>18. Begun'
  BY <1>1, <1>2, <1>3, <1>4, ReceiveAssumption
    DEF Begun, NoMarkerOf, NoReservationOf, Due, Live, Settled, NoMarker
<1>19. OneMarker'
  BY <1>1, <1>2, <1>3, <1>4, ReceiveAssumption
    DEF OneMarker, MarkersAt, Live, NoMarker, CleanupShape, TypeOK
<1>20. Swept'
  BY <1>1, <1>3, ReceiveAssumption
    DEF Swept, NoMarkerOf, NoReservationOf, NoMarker, CleanupShape
<1>21. AllInHand'
  BY ReceiveAssumption
    DEF TypeOK, NoMarker, NoRecord, RemoveUnpersisted, PartialIsOwned, Advance, dbVars,
        UnchangedOutside, AllInHand, InHand, Due, LockHeld, AttemptShape, Begun, OneMarker,
        Live
<1>22. AcceptedIsBacked'
  BY DEF TypeOK, RemoveUnpersisted, PartialIsOwned, dbVars, UnchangedOutside,
      AcceptedIsBacked, ReservationIsOwned, RowShape, Settled
<1>23. TypeOK'
  BY RemoveUnpersistedTyped
<1> QED BY <1>5, <1>6, <1>7, <1>8, <1>9, <1>10, <1>11, <1>12, <1>13, <1>14, <1>15, <1>16,
   <1>17, <1>18, <1>19, <1>20, <1>21, <1>22, <1>23

\* ReleaseName takes the last that no cleanup is going to remove.
LEMMA ReleaseNameKept ==
  ASSUME IInv, NEW k \in Tokens, ReleaseName(k) PROVE IInv'
<1> USE DEF IInv
<1>1. UNCHANGED <<links, entry, content, partial, marker, journal, torn, row, cleanup, lock,
                  task, cleaner, phase, lost, moves, faults>>
  BY DEF ReleaseName, dbVars, UnchangedByCleaner, UnchangedByMove, UnchangedOutside
<1>2. FilesUsed' /\ WholeInTime' /\ OwnedOrDue' /\ PublishedIsWhole'
  BY <1>1, Frames DEF RowOwnsTheSame
<1>3. LockHeld'
  BY DEF ReleaseName, Leave, dbVars, UnchangedOutside, LockHeld
<1>4. AttemptShape'
  BY DEF ReleaseName, ReservationIsOwned, Leave, UnchangedOutside, AttemptShape
<1>5. RowShape'
  BY DEF ReleaseName, Leave, dbVars, UnchangedOutside, RowShape, Settled, LockHeld
<1>6. TaskShape'
  BY DEF ReleaseName, Leave, dbVars, UnchangedOutside, TaskShape, NoTask, Settled, Holds,
      TaskHoldsRow, Outlived
<1>7. CleanupShape'
  BY DEF ReleaseName, Leave, dbVars, UnchangedOutside, CleanupShape, Settled, LockHeld
<1>8. PhaseShape'
  BY DEF NoRecord, ReleaseName, UnchangedOutside, PhaseShape
<1>9. FilesOurs'
  BY DEF ReleaseName, ReservationIsOwned, Leave, UnchangedOutside, FilesOurs
<1>10. CopiesApart'
  BY DEF ReleaseName, Leave, CopiesApart, IsCopy, IsPart, LockHeld
<1>11. NamesKept'
  BY DEF ReleaseName, WithoutReservation, Removed, ReservationIsOwned, Leave, NoAttempt,
      dbVars, UnchangedOutside, NamesKept, Holds, TaskHoldsRow, Nothing, Settled, TaskShape,
      NoTask
<1>12. PartialsKept'
  BY DEF ReleaseName, Leave, UnchangedOutside, PartialsKept, PartialIsOwned, LockHeld
<1>13. Begun'
  BY ReceiveAssumption
    DEF ReleaseName, WithoutReservation, Removed, ReservationIsOwned, Leave, NoAttempt,
        dbVars, UnchangedOutside, Begun, NoReservationOf, NoMarkerOf, Settled, Due,
        LockHeld, AttemptShape, Live, Ours, Open
<1>14. OneMarker'
  BY DEF ReleaseName, Leave, dbVars, UnchangedOutside, OneMarker, MarkersAt, LockHeld,
      AttemptShape, Due, Live, Ours
<1>15. Swept'
  BY ReceiveAssumption
    DEF ReleaseName, WithoutReservation, Removed, dbVars, UnchangedOutside, Swept,
        NoReservationOf, NoMarkerOf, LockHeld, Outlived, CleanupShape, PhaseShape
<1>16. AllInHand'
  BY <1>1, Picked, ReceiveAssumption
    DEF TypeOK, NoMarker, NoRecord, ReleaseName, WithoutReservation, Removed,
        ReservationIsOwned, Leave, NoAttempt, dbVars, UnchangedOutside, AllInHand, InHand,
        Due, LockHeld, Nothing, Settled, TaskShape, OwnedOrDue, Begun, NoReservationOf,
        NoMarkerOf, OneMarker, MarkersAt, Swept, Live, Ours
<1>17. AcceptedIsBacked'
  BY DEF ReleaseName, WithoutReservation, Removed, ReservationIsOwned, dbVars,
      UnchangedOutside, AcceptedIsBacked, PartialIsOwned, LockHeld, AttemptShape, RowShape,
      AwaitingRow, Nothing, Settled, TaskShape, NoTask
<1>18. TypeOK'
  BY ReleaseNameTyped
<1> QED BY <1>2, <1>3, <1>4, <1>5, <1>6, <1>7, <1>8, <1>9, <1>10, <1>11, <1>12, <1>13,
   <1>14, <1>15, <1>16, <1>17, <1>18

\* Compensate makes what the row owns due, or what the acceptance reserved lost.
LEMMA CompensateKept ==
  ASSUME IInv, NEW k \in Tokens, Compensate(k) PROVE IInv'
<1> USE DEF IInv
<1>1. UNCHANGED <<links, entry, content, reservation, partial, marker, journal, torn, lock,
                  task, cleaner, phase, moves, faults>>
  BY DEF Compensate, dirVars, UnchangedOutside
<1>2. /\ attempt[k].at = "releasing" /\ attempt'[k].at = "over"
      /\ \A j \in Tokens : j # k => attempt'[j] = attempt[j]
  BY Leaves DEF Compensate
<1>3. FilesUsed' /\ WholeInTime'
  BY <1>1, Frames
<1>4. LockHeld'
  BY DEF Compensate, Leave, LockHeld
<1>5. AttemptShape'
  BY DEF Compensate, Leave, AttemptShape
<1>6. RowShape'
  BY DEF Compensate, Nothing, FallBack, AwaitingRow, Leave, RowShape, Settled
<1>7. TaskShape'
  BY DEF Compensate, CanFallBack, CanReturn, Leave, TaskShape, Settled, Holds, TaskHoldsRow,
      Outlived
<1>8. CleanupShape'
  <2>1. row'.own.token \in {row.own.token, None}
    BY DEF Compensate, FallBack, AwaitingRow, Nothing
  <2>2. cleanup'.due => \/ cleanup' = cleanup
                        \/ cleanup'.own = cleanup.own /\ cleanup.due
                        \/ cleanup'.own.token \in {k, row.own.token} \ {None}
    BY ReceiveAssumption DEF Compensate, FallBack
  <2>3. row.own.token # None =>
            attempt[row.own.token].at \in Settled /\ row.own.token \in Tokens
    BY DEF RowShape, TypeOK, Ownerships
  <2> QED BY <1>1, <1>2, <2>1, <2>2, <2>3, ReceiveAssumption DEF CleanupShape, Settled
<1>9. PhaseShape'
  BY DEF Compensate, UnchangedOutside, PhaseShape
<1>10. FilesOurs'
  BY DEF Compensate, Leave, dirVars, FilesOurs
<1>11. CopiesApart'
  BY DEF Compensate, Leave, dirVars, CopiesApart, IsCopy, IsPart
<1>12. NamesKept'
  BY DEF Compensate, FallBack, AwaitingRow, Leave, dirVars, UnchangedOutside, NamesKept,
      Holds, TaskHoldsRow
<1>13. PartialsKept'
  BY DEF Compensate, Leave, dirVars, UnchangedOutside, PartialsKept, PartialIsOwned
<1>14. Begun'
  BY DEF TypeOK, Compensate, CanFallBack, CanStageFallback, Leave, dirVars,
      UnchangedOutside, Begun, NoReservationOf, NoMarkerOf, Settled, Due, RowShape, Live
<1>15. OneMarker'
  BY DEF Compensate, CanFallBack, CanReturn, Nothing, FallBack, AwaitingRow, Leave, dirVars,
      UnchangedOutside, OneMarker, MarkersAt, LockHeld, Begun, NoMarkerOf, Due, Live
<1>16. Swept'
  BY DEF Compensate, dirVars, UnchangedOutside, Swept, NoReservationOf, NoMarkerOf
<1>17. AllInHand'
  BY DEF Compensate, CanFallBack, CanStageFallback, Nothing, FallBack, AwaitingRow, Leave,
      dirVars, UnchangedOutside, AllInHand, InHand, Due, Live
<1>18. OwnedOrDue'
  BY DEF Compensate, Nothing, FallBack, AwaitingRow, OwnedOrDue
<1>19. AcceptedIsBacked'
  BY DEF Compensate, Nothing, FallBack, AwaitingRow, dirVars, UnchangedOutside,
      AcceptedIsBacked, ReservationIsOwned, PartialIsOwned
<1>20. PublishedIsWhole'
  BY DEF Compensate, FallBack, AwaitingRow, dirVars, UnchangedOutside, PublishedIsWhole
<1>21. TypeOK'
  BY CompensateTyped
<1> QED BY <1>3, <1>4, <1>5, <1>6, <1>7, <1>8, <1>9, <1>10, <1>11, <1>12, <1>13, <1>14,
   <1>15, <1>16, <1>17, <1>18, <1>19, <1>20, <1>21

\* ReturnToManual makes due what the row owned, and the row owns nothing.
LEMMA ReturnToManualKept ==
  ASSUME IInv, NEW k \in Tokens, ReturnToManual(k) PROVE IInv'
<1> USE DEF IInv
<1>1. UNCHANGED <<links, entry, content, reservation, partial, marker, journal, torn, lock,
                  task, cleaner, phase, lost, moves>>
  BY DEF ReturnToManual, ReconcilePartial, dirVars, UnchangedByMove, UnchangedOutside
<1>2. /\ attempt[k].at = "accepted" /\ attempt'[k].at = "over"
      /\ \A j \in Tokens : j # k => attempt'[j] = attempt[j]
  BY Leaves DEF ReturnToManual
<1>3. /\ row.status = "transferring" /\ row.own.token # None /\ row'.own = Nothing
      /\ cleanup' = [due |-> TRUE, own |-> row.own]
  BY DEF ReturnToManual, FallBack, AwaitingRow, RowShape
<1>4. FilesUsed' /\ WholeInTime' /\ Swept'
  BY <1>1, Frames DEF RowOwnsTheSame
<1>5. LockHeld'
  BY DEF ReturnToManual, Leave, NoAttempt, LockHeld, AttemptShape
<1>6. AttemptShape'
  BY DEF ReturnToManual, Leave, NoAttempt, AttemptShape, LockHeld
<1>7. RowShape'
  BY DEF ReturnToManual, FallBack, AwaitingRow, Nothing, RowShape, Settled
<1>8. TaskShape'
  BY DEF ReturnToManual, TaskShape, Holds, TaskHoldsRow, Outlived, LockHeld
<1>9. CleanupShape'
  <2>1. row.own.token \in Tokens
    BY <1>3 DEF TypeOK, Ownerships
  <2> QED BY <1>1, <1>2, <1>3, <2>1, ReceiveAssumption
    DEF CleanupShape, RowShape, Settled, Nothing
<1>10. PhaseShape'
  BY DEF ReturnToManual, dirVars, UnchangedOutside, PhaseShape, LockHeld
<1>11. FilesOurs'
  BY DEF ReturnToManual, Leave, dirVars, FilesOurs, LockHeld
<1>12. CopiesApart'
  BY DEF ReturnToManual, Leave, dirVars, CopiesApart, IsCopy, IsPart
<1>13. NamesKept'
  BY DEF ReturnToManual, FallBack, AwaitingRow, Nothing, Leave, NoAttempt, dirVars,
      UnchangedOutside, NamesKept, Holds, TaskHoldsRow, LockHeld
<1>14. PartialsKept'
  BY DEF ReturnToManual, Leave, dirVars, UnchangedOutside, PartialsKept, PartialIsOwned
<1>15. Begun'
  BY DEF ReturnToManual, Nothing, Leave, NoAttempt, dirVars, UnchangedOutside, Begun,
      NoReservationOf, NoMarkerOf, Settled, Due, LockHeld, PartialIsOwned, Live, Ours
<1>16. OneMarker'
  BY DEF ReturnToManual, FallBack, AwaitingRow, Nothing, Leave, NoAttempt, dirVars,
      UnchangedOutside, OneMarker, MarkersAt, LockHeld, AttemptShape, RowShape, Settled,
      Live, Ours, Open
<1>17. AllInHand'
  BY DEF ReturnToManual, FallBack, Leave, NoAttempt, dirVars, UnchangedOutside, AllInHand,
      InHand, Due, Live, Ours, Open
<1>18. OwnedOrDue'
  BY DEF ReturnToManual, FallBack, AwaitingRow, Nothing, OwnedOrDue, LockHeld
<1>19. AcceptedIsBacked'
  BY DEF ReturnToManual, FallBack, AwaitingRow, Nothing, AcceptedIsBacked
<1>20. PublishedIsWhole'
  BY DEF ReturnToManual, Fault, FallBack, AwaitingRow, PublishedIsWhole
<1>21. TypeOK'
  BY ReturnToManualTyped
<1> QED BY <1>4, <1>5, <1>6, <1>7, <1>8, <1>9, <1>10, <1>11, <1>12, <1>13, <1>14, <1>15,
   <1>16, <1>17, <1>18, <1>19, <1>20, <1>21

\* Claim gives the task what the row owns.
LEMMA ClaimKept ==
  ASSUME IInv, Claim PROVE IInv'
<1> USE DEF IInv
<1>1. UnchangedByTask /\ UNCHANGED <<links, cleanup, lock, attempt, cleaner, phase, lost,
                                     moves>>
  BY DEF Claim, UnchangedByTask
<1>2. TypeOK'
  BY ClaimTyped
<1>3. CASE /\ task.at = "idle" /\ phase = "running"
           /\ row.status \in {"transferring", "paused"} /\ ~row.claimed
           /\ row' = [row EXCEPT !.status = "transferring", !.claimed = TRUE]
           /\ task' = [NoTask EXCEPT !.at = "receiving", !.token = row.own.token,
                                    !.slot = row.own.slot, !.name = row.own.dest]
           /\ UNCHANGED <<entry, content, reservation, partial, marker, journal>>
  <2>1. RowOwnsTheSame
    BY <1>3 DEF RowOwnsTheSame, TypeOK, TaskHoldsRow, Open
  <2>2. /\ row.own.token \in Tokens /\ row.own.slot \in Slots /\ row.own.dest \in Names
        /\ attempt[row.own.token].at \in Settled
    BY <1>3, <2>1 DEF RowShape, TypeOK, Ownerships
  <2>3. /\ task' = [at |-> "receiving", token |-> row.own.token, slot |-> row.own.slot,
                    name |-> row.own.dest,
                  part |-> None, from |-> None, copy |-> None]
        /\ row'.status = "transferring" /\ row'.claimed /\ row'.own = row.own
    BY <1>1, <1>3, <2>1, <2>2 DEF NoTask, TypeOK
  <2>4. /\ LockHeld' /\ AttemptShape' /\ FilesUsed' /\ PartialsKept' /\ Begun' /\ OneMarker'
        /\ Swept' /\ AllInHand' /\ OwnedOrDue' /\ AcceptedIsBacked' /\ PublishedIsWhole'
    BY <1>1, <1>3, <2>1, <2>3, Frames
  <2>5. RowShape'
    BY <1>1, <1>3, <2>3 DEF RowShape
  <2>6. TaskShape'
    BY <1>1, <2>2, <2>3 DEF TaskShape, Holds, TaskHoldsRow
  <2>7. CleanupShape'
    BY <1>1, <1>3, <2>3 DEF CleanupShape
  <2>8. PhaseShape'
    BY <1>1, <1>3, <2>3 DEF PhaseShape
  <2>9. FilesOurs'
    BY <1>1, <1>3, <2>3 DEF FilesOurs, NoTask
  <2>10. CopiesApart'
    BY <1>1, <1>3
      DEF CopiesApart, IsCopy, IsPart, LockHeld, AttemptShape, Nothing, Settled, TaskShape
  <2>11. WholeInTime'
    BY <2>3, Picked DEF NoRecord, WholeInTime, Published
  <2>12. NamesKept'
    BY <1>1, <1>3 DEF NamesKept, TaskShape, NoTask
  <2> QED BY <2>4, <2>5, <2>6, <2>7, <2>8, <2>9, <2>10, <2>11, <2>12, <1>2
<1> QED BY <1>3 DEF Claim, Removed, dirVars, IsRunning

\* Receive makes the partial whole before it says so in the row.
LEMMA ReceiveKept ==
  ASSUME IInv, Receive PROVE IInv'
<1> USE DEF IInv
<1>1. UnchangedByTask /\ UNCHANGED <<links, cleanup, lock, attempt, cleaner, phase, lost,
                                     moves>>
  BY DEF Receive, UnchangedByTask
<1>2. TypeOK'
  BY ReceiveTyped
<1>3. CASE /\ TaskEnds("failed")
           /\ UNCHANGED <<entry, content, reservation, partial, marker, journal>>
  <2>1. /\ LockHeld' /\ AttemptShape' /\ RowShape' /\ TaskShape' /\ CleanupShape'
        /\ PhaseShape' /\ OwnedOrDue' /\ RowOwnsTheSame /\ task' = NoTask
    BY <1>1, <1>3, TaskEndsKept DEF TaskEnds
  <2>2. /\ FilesUsed' /\ PartialsKept' /\ Begun' /\ OneMarker' /\ Swept' /\ AllInHand'
        /\ AcceptedIsBacked' /\ PublishedIsWhole'
    BY <1>1, <1>3, <2>1, Frames DEF RowOwnsTheSame
  <2>3. FilesOurs'
    BY <1>1, <1>3, <2>1 DEF FilesOurs, NoTask
  <2>4. CopiesApart'
    BY <1>1, <1>3, <2>1, ReceiveAssumption DEF CopiesApart, IsCopy, IsPart, NoTask
  <2>5. WholeInTime'
    BY <2>1 DEF WholeInTime, NoTask
  <2>6. NamesKept'
    BY <1>1, <1>3, <2>1 DEF NamesKept, NoTask
  <2> QED BY <2>2, <2>1, <2>3, <2>4, <2>5, <2>6, <1>2
<1>4. CASE /\ TaskEnds("failed")
           /\ task.at = "receiving" /\ PartialIsOwned(task.slot, task.token)
           /\ content' = [content EXCEPT ![partial[task.slot]] = "whole"]
           /\ UNCHANGED <<entry, reservation, partial, marker, journal>>
  <2>1. /\ LockHeld' /\ AttemptShape' /\ RowShape' /\ TaskShape' /\ CleanupShape'
        /\ PhaseShape' /\ OwnedOrDue' /\ RowOwnsTheSame /\ task' = NoTask
    BY <1>1, <1>4, TaskEndsKept DEF TaskEnds
  <2>2. PartialsKept' /\ Begun' /\ OneMarker' /\ Swept' /\ AllInHand' /\ AcceptedIsBacked'
    BY <1>1, <1>4, <2>1, Frames DEF RowOwnsTheSame
  <2>3. FilesUsed'
    BY <1>4 DEF FilesUsed
  <2>4. FilesOurs'
    BY <1>1, <1>4, <2>1 DEF FilesOurs, NoTask, Ours
  <2>5. CopiesApart'
    BY <1>1, <1>4, <2>1, ReceiveAssumption DEF CopiesApart, IsCopy, IsPart, NoTask
  <2>6. WholeInTime'
    BY <2>1 DEF WholeInTime, NoTask
  <2>7. NamesKept'
    BY <1>1, <1>4, <2>1 DEF NamesKept, NoTask
  <2>8. PublishedIsWhole'
    BY <1>4, <2>1 DEF PublishedIsWhole, RowOwnsTheSame, RowShape
  <2> QED BY <2>2, <2>1, <2>3, <2>4, <2>5, <2>6, <2>7, <2>8, <1>2
<1>5. CASE /\ task.at = "receiving" /\ PartialIsOwned(task.slot, task.token) /\ TaskHoldsRow
           /\ content' = [content EXCEPT ![partial[task.slot]] = "whole"]
           /\ row' = [row EXCEPT !.whole = TRUE]
           /\ TaskTo("finalising")
           /\ UNCHANGED <<entry, reservation, partial, marker, journal>>
  <2>1. RowOwnsTheSame
    BY <1>5 DEF RowOwnsTheSame
  <2>2. /\ LockHeld' /\ AttemptShape' /\ PartialsKept' /\ Begun' /\ OneMarker' /\ Swept'
        /\ AllInHand' /\ OwnedOrDue' /\ AcceptedIsBacked'
    BY <1>1, <1>5, <2>1, Frames
  <2>3. RowShape'
    BY <1>1, <1>5 DEF RowShape, TaskHoldsRow, TaskTo
  <2>4. TaskShape'
    BY <1>1, <1>5 DEF TaskShape, Holds, TaskHoldsRow, Outlived, TaskTo
  <2>5. CleanupShape'
    BY <1>1, <1>5 DEF CleanupShape
  <2>6. PhaseShape'
    BY <1>1, <1>5 DEF PhaseShape
  <2>7. FilesUsed'
    BY <1>5 DEF FilesUsed
  <2>8. FilesOurs'
    BY <1>1, <1>5 DEF FilesOurs, TaskTo, Ours
  <2>9. CopiesApart'
    BY <1>1, <1>5 DEF CopiesApart, IsCopy, IsPart, TaskTo
  <2>10. WholeInTime'
    BY <1>5 DEF TypeOK, WholeInTime, TaskTo, PartialIsOwned
  <2>11. NamesKept'
    BY <1>1, <1>5 DEF NamesKept, TaskTo
  <2>12. PublishedIsWhole'
    BY <1>1, <1>5 DEF PublishedIsWhole
  <2> QED BY <2>2, <2>3, <2>4, <2>5, <2>6, <2>7, <2>8, <2>9, <2>10, <2>11, <2>12, <1>2
<1> QED BY <1>3, <1>4, <1>5 DEF Receive

\* Finalise holds the file that its marker names, and that is whole.
LEMMA FinaliseKept ==
  ASSUME IInv, Finalise PROVE IInv'
<1> USE DEF IInv
<1>1. UnchangedByTask /\ UNCHANGED <<links, cleanup, lock, attempt, cleaner, phase, lost,
                                     moves>>
  BY DEF Finalise, UnchangedByTask
<1>2. TypeOK'
  BY FinaliseTyped
<1>3. CASE /\ TaskEnds("failed")
           /\ UNCHANGED <<entry, content, reservation, partial, marker, journal>>
  <2>1. /\ LockHeld' /\ AttemptShape' /\ RowShape' /\ TaskShape' /\ CleanupShape'
        /\ PhaseShape' /\ OwnedOrDue' /\ RowOwnsTheSame /\ task' = NoTask
    BY <1>1, <1>3, TaskEndsKept DEF TaskEnds
  <2>2. /\ FilesUsed' /\ PartialsKept' /\ Begun' /\ OneMarker' /\ Swept' /\ AllInHand'
        /\ AcceptedIsBacked' /\ PublishedIsWhole'
    BY <1>1, <1>3, <2>1, Frames DEF RowOwnsTheSame
  <2>3. FilesOurs'
    BY <1>1, <1>3, <2>1 DEF FilesOurs, NoTask
  <2>4. CopiesApart'
    BY <1>1, <1>3, <2>1, ReceiveAssumption DEF CopiesApart, IsCopy, IsPart, NoTask
  <2>5. WholeInTime'
    BY <2>1 DEF WholeInTime, NoTask
  <2>6. NamesKept'
    BY <1>1, <1>3, <2>1 DEF NamesKept, NoTask
  <2> QED BY <2>2, <2>1, <2>3, <2>4, <2>5, <2>6, <1>2
<1>4. CASE /\ task.at = "finalising" /\ PartialIsOwned(task.slot, task.token)
           /\ ReservationIsOwned(task.name, task.token) \/ SomeAvailable
           /\ LET kept == ReservationIsOwned(task.name, task.token)
                  name == IF kept THEN task.name ELSE Available
                  copying == journal.token = task.token /\ journal.state = "copyPrepared"
                  resumes == /\ copying
                             /\ ReservationIsOwned(journal.name, task.token)
                             /\ entry[journal.name] = journal.file
              IN /\ reservation' = [reservation EXCEPT ![name] = task.token]
                 /\ task' = [task EXCEPT
                      !.part = partial[task.slot],
                      !.name = IF copying THEN journal.name ELSE name,
                      !.copy = IF resumes THEN journal.file ELSE None,
                      !.at = IF resumes THEN "copying"
                             ELSE IF copying THEN "preparing" ELSE "journalling"]
           /\ UNCHANGED <<entry, content, partial, marker, journal, row>>
  <2>1. /\ task.token \in Tokens /\ task.slot \in Slots /\ task.name \in Names
        /\ task.from = None
        /\ partial[task.slot] \in Files /\ attempt[task.token].at \in Settled
        /\ (Holds \/ Outlived)
    BY <1>4 DEF TaskShape, PartialIsOwned, TypeOK
  <2>2. /\ task'.token = task.token /\ task'.slot = task.slot /\ task'.from = None
        /\ task'.part = partial[task.slot]
        /\ task'.at \in {"journalling", "copying", "preparing"}
        /\ task'.at = "copying" => task'.copy = journal.file
        /\ \/ /\ task'.at \in {"copying", "preparing"} /\ task'.name = journal.name
              /\ journal.state = "copyPrepared"
           \/ task'.name = (IF ReservationIsOwned(task.name, task.token)
                            THEN task.name ELSE Available)
    BY <1>4, <2>1
  <2>3. journal.state = "copyPrepared" => journal.name \in Names /\ journal.file \in Files
    BY DEF TypeOK, Records, NoRecord
  <2>4. Available \in Names \/ ReservationIsOwned(task.name, task.token)
    BY <1>4, Picked
  <2>5. \A n \in Names : reservation[n] # None => reservation'[n] = reservation[n]
    BY <1>4, Picked DEF Reservable, ReservationIsOwned
  <2>6. /\ LockHeld' /\ AttemptShape' /\ CleanupShape' /\ FilesUsed' /\ PartialsKept'
        /\ OneMarker' /\ OwnedOrDue' /\ PublishedIsWhole'
    BY <1>1, <1>4, Frames DEF RowOwnsTheSame
  <2>7. RowShape'
    BY <1>1, <1>4 DEF RowShape
  <2>8. TaskShape'
    BY <1>1, <1>4, <2>1, <2>3, <2>4 DEF TaskShape, Holds, Outlived, TaskHoldsRow
  <2>9. PhaseShape'
    BY <1>1, <1>4 DEF PhaseShape
  <2>10. FilesOurs'
    BY <1>1, <1>4 DEF NoMarker, NoRecord, FilesOurs, PartialIsOwned
  <2>11. CopiesApart'
    BY <1>1, <1>4, ReceiveAssumption
      DEF NoMarker, CopiesApart, IsCopy, IsPart, PartialIsOwned
  <2>12. WholeInTime'
    BY <1>4 DEF WholeInTime, PartialIsOwned
  <2>13. NamesKept'
    <3>1. moves = 0 => \A k \in Tokens : attempt[k].at \in {"created", "marked"} =>
              reservation'[attempt[k].name] = k
      BY <2>5, ReceiveAssumption DEF NamesKept, AttemptShape
    <3> QED BY <1>1, <2>2, <3>1 DEF NamesKept
  <2>14. Begun'
    BY <1>1, <1>4, <2>1, <2>2, <2>3, <2>4, <2>5, Picked, ReceiveAssumption
      DEF TypeOK, NoMarker, NoRecord, Begun, NoReservationOf, NoMarkerOf, Settled, Due,
          LockHeld, AttemptShape, NoAttempt, RowShape, AwaitingRow, Nothing, TaskShape,
          NoTask, Holds, TaskHoldsRow, Outlived, CleanupShape, PhaseShape, OwnedOrDue,
          OneMarker, MarkersAt, AllInHand, InHand, PartialsKept, PartialIsOwned, TaskTo,
          Append, Live, Ours, Open, Ended, ReservationIsOwned
  <2>15. Swept'
    BY <1>1, <1>4, <2>1, <2>2, <2>3, <2>4, <2>5, Picked, ReceiveAssumption
      DEF TypeOK, NoMarker, NoRecord, Swept, NoReservationOf, NoMarkerOf, LockHeld,
          AttemptShape, NoAttempt, RowShape, AwaitingRow, Nothing, Settled, TaskShape,
          NoTask, Holds, TaskHoldsRow, Outlived, CleanupShape, PhaseShape, OwnedOrDue,
          Begun, Due, OneMarker, MarkersAt, TaskTo, Append, Live, Ours, Open, Ended,
          ReservationIsOwned, PartialIsOwned
  <2>16. AllInHand'
    BY <1>1, <1>4 DEF AllInHand, InHand, Due, TaskShape, Holds, Outlived, Live
  <2>17. AcceptedIsBacked'
    BY <1>1, <1>4, <2>5, Picked DEF AcceptedIsBacked, ReservationIsOwned, PartialIsOwned
  <2> QED BY <2>6, <2>7, <2>8, <2>9, <2>10, <2>11, <2>12, <2>13, <2>14, <2>15, <2>16, <2>17,
     <1>2
<1> QED BY <1>3, <1>4 DEF Finalise

\* JournalPrepared writes down the partial and the name.
LEMMA JournalPreparedKept ==
  ASSUME IInv, JournalPrepared PROVE IInv'
<1> USE DEF IInv
<1>1. UnchangedByTask /\ UNCHANGED <<links, cleanup, lock, attempt, cleaner, phase, lost,
                                     moves>>
  BY DEF JournalPrepared, UnchangedByTask
<1>2. TypeOK'
  BY JournalPreparedTyped
<1>3. CASE /\ TaskEnds("failed")
           /\ task.at = "journalling"
           /\ Append([token |-> task.token, name |-> task.name, file |-> task.part,
                      state |-> "prepared"])
           /\ UNCHANGED <<entry, content, reservation, partial, marker>>
  <2>1. /\ LockHeld' /\ AttemptShape' /\ RowShape' /\ TaskShape' /\ CleanupShape'
        /\ PhaseShape' /\ OwnedOrDue' /\ RowOwnsTheSame /\ task' = NoTask
    BY <1>1, <1>3, TaskEndsKept DEF TaskEnds
  <2>2. /\ task.token \in Tokens /\ task.token \in lost \union {row.own.token}
        /\ task.token # None
    BY <1>3, ReceiveAssumption DEF TaskShape, Holds, Outlived
  <2>3. journal'.token \in {journal.token, task.token}
    BY <1>3 DEF Append
  <2>4. FilesUsed' /\ PartialsKept' /\ OneMarker' /\ AcceptedIsBacked' /\ PublishedIsWhole'
    BY <1>1, <1>3, <2>1, Frames DEF RowOwnsTheSame
  <2>5. FilesOurs'
    BY <1>1, <1>3, <2>1, ReceiveAssumption DEF FilesOurs, TaskShape, NoTask, Append
  <2>6. CopiesApart'
    BY <1>1, <1>3, <2>1, <2>2, <2>3, Picked, ReceiveAssumption
      DEF TypeOK, NoMarker, NoRecord, CopiesApart, IsCopy, IsPart, LockHeld, AttemptShape,
          NoAttempt, RowShape, AwaitingRow, Nothing, Settled, TaskShape, NoTask, Holds,
          TaskHoldsRow, Outlived, CleanupShape, PhaseShape, OwnedOrDue, FilesOurs,
          FilesUsed, TaskTo, Append, Live, Ours, Open, Ended, ReservationIsOwned,
          PartialIsOwned
  <2>7. WholeInTime'
    BY <2>1 DEF WholeInTime, NoTask
  <2>8. NamesKept'
    BY <1>1, <1>3, <2>1 DEF NamesKept, NoTask
  <2>9. Begun'
    BY <1>1, <1>3, <2>1, <2>2, <2>3, Picked, ReceiveAssumption
      DEF TypeOK, NoMarker, NoRecord, Begun, NoReservationOf, NoMarkerOf, Settled, Due,
          LockHeld, AttemptShape, NoAttempt, RowShape, AwaitingRow, Nothing, TaskShape,
          NoTask, Holds, TaskHoldsRow, Outlived, CleanupShape, PhaseShape, OwnedOrDue,
          OneMarker, MarkersAt, AllInHand, InHand, PartialsKept, PartialIsOwned, TaskTo,
          Append, Live, Ours, Open, Ended, ReservationIsOwned
  <2>10. Swept'
    BY <1>1, <1>3, <2>2, <2>3 DEF Swept, NoReservationOf, NoMarkerOf, CleanupShape
  <2>11. AllInHand'
    BY <1>1, <1>3, <2>1, <2>2, <2>3 DEF AllInHand, InHand, Due, Live, RowOwnsTheSame
  <2> QED BY <2>4, <2>1, <2>5, <2>6, <2>7, <2>8, <2>9, <2>10, <2>11, <1>2
<1>4. CASE /\ task.at = "journalling" /\ TaskTo("linking")
           /\ partial[task.slot] = task.part
           /\ Append([token |-> task.token, name |-> task.name, file |-> task.part,
                      state |-> "prepared"])
           /\ UNCHANGED <<entry, content, reservation, partial, marker, row>>
  <2>1. /\ LockHeld' /\ AttemptShape' /\ CleanupShape' /\ FilesUsed' /\ PartialsKept'
        /\ OneMarker' /\ OwnedOrDue' /\ AcceptedIsBacked' /\ PublishedIsWhole'
    BY <1>1, <1>4, Frames DEF RowOwnsTheSame
  <2>2. RowShape'
    BY <1>1, <1>4 DEF RowShape, TaskTo
  <2>3. TaskShape'
    BY <1>1, <1>4 DEF TaskShape, Holds, TaskHoldsRow, Outlived, TaskTo
  <2>4. PhaseShape'
    BY <1>1, <1>4 DEF PhaseShape
  <2>5. FilesOurs'
    BY <1>1, <1>4, ReceiveAssumption DEF FilesOurs, TaskShape, TaskTo, Append
  <2>6. CopiesApart'
    BY <1>1, <1>4 DEF CopiesApart, IsCopy, IsPart, TaskTo, Append
  <2>7. WholeInTime'
    BY <1>4 DEF WholeInTime, TaskTo
  <2>8. NamesKept'
    BY <1>1, <1>4 DEF NamesKept, TaskTo
  <2>9. Begun'
    BY <1>1, <1>4 DEF Begun, NoReservationOf, NoMarkerOf, Due, TaskShape, Append, Live
  <2>10. Swept'
    BY <1>1, <1>4
      DEF Swept, NoReservationOf, NoMarkerOf, TaskShape, Holds, Outlived, CleanupShape,
          Append
  <2>11. AllInHand'
    BY <1>1, <1>4 DEF AllInHand, InHand, Due, TaskShape, Holds, Outlived, Append, Live
  <2> QED BY <2>1, <2>2, <2>3, <2>4, <2>5, <2>6, <2>7, <2>8, <2>9, <2>10, <2>11, <1>2
<1> QED BY <1>3, <1>4 DEF JournalPrepared

\* Link puts the whole partial under the name that is taken by nobody.
LEMMA LinkKept ==
  ASSUME IInv, Link PROVE IInv'
<1> USE DEF IInv
<1>1. UnchangedByTask /\ UNCHANGED <<links, cleanup, lock, attempt, cleaner, phase, lost,
                                     moves>>
  BY DEF Link, UnchangedByTask
<1>2. TypeOK'
  BY LinkTyped
<1>3. CASE /\ TaskEnds("paused")
           /\ UNCHANGED <<entry, content, reservation, partial, marker, journal>>
  <2>1. /\ LockHeld' /\ AttemptShape' /\ RowShape' /\ TaskShape' /\ CleanupShape'
        /\ PhaseShape' /\ OwnedOrDue' /\ RowOwnsTheSame /\ task' = NoTask
    BY <1>1, <1>3, TaskEndsKept DEF TaskEnds
  <2>2. /\ FilesUsed' /\ PartialsKept' /\ Begun' /\ OneMarker' /\ Swept' /\ AllInHand'
        /\ AcceptedIsBacked' /\ PublishedIsWhole'
    BY <1>1, <1>3, <2>1, Frames DEF RowOwnsTheSame
  <2>3. FilesOurs'
    BY <1>1, <1>3, <2>1 DEF FilesOurs, NoTask
  <2>4. CopiesApart'
    BY <1>1, <1>3, <2>1, ReceiveAssumption DEF CopiesApart, IsCopy, IsPart, NoTask
  <2>5. WholeInTime'
    BY <2>1 DEF WholeInTime, NoTask
  <2>6. NamesKept'
    BY <1>1, <1>3, <2>1 DEF NamesKept, NoTask
  <2> QED BY <2>2, <2>1, <2>3, <2>4, <2>5, <2>6, <1>2
<1>4. CASE /\ task.at = "linking" /\ TaskTo("preparing")
           /\ UNCHANGED <<entry, content, reservation, partial, marker, journal, row>>
  <2>1. /\ LockHeld' /\ AttemptShape' /\ CleanupShape' /\ FilesUsed' /\ PartialsKept'
        /\ Begun' /\ OneMarker' /\ Swept' /\ AllInHand' /\ OwnedOrDue' /\ AcceptedIsBacked'
        /\ PublishedIsWhole'
    BY <1>1, <1>4, Frames DEF RowOwnsTheSame
  <2>2. RowShape'
    BY <1>1, <1>4 DEF RowShape, TaskTo
  <2>3. TaskShape'
    BY <1>1, <1>4 DEF TaskShape, Holds, TaskHoldsRow, Outlived, TaskTo
  <2>4. PhaseShape'
    BY <1>1, <1>4 DEF PhaseShape
  <2>5. FilesOurs'
    BY <1>1, <1>4 DEF FilesOurs, TaskTo
  <2>6. CopiesApart'
    BY <1>1, <1>4 DEF CopiesApart, IsCopy, IsPart, TaskTo
  <2>7. WholeInTime'
    BY <1>4 DEF WholeInTime, TaskTo
  <2>8. NamesKept'
    BY <1>1, <1>4 DEF NamesKept, TaskShape, TaskTo
  <2> QED BY <2>1, <2>2, <2>3, <2>4, <2>5, <2>6, <2>7, <2>8, <1>2
<1>5. CASE /\ task.at = "linking" /\ TaskTo("replacing") /\ entry[task.name] # None
           /\ UNCHANGED <<entry, content, reservation, partial, marker, journal, row>>
  <2>1. /\ LockHeld' /\ AttemptShape' /\ CleanupShape' /\ FilesUsed' /\ PartialsKept'
        /\ Begun' /\ OneMarker' /\ Swept' /\ AllInHand' /\ OwnedOrDue' /\ AcceptedIsBacked'
        /\ PublishedIsWhole'
    BY <1>1, <1>5, Frames DEF RowOwnsTheSame
  <2>2. RowShape'
    BY <1>1, <1>5 DEF RowShape, TaskTo
  <2>3. TaskShape'
    BY <1>1, <1>5 DEF TaskShape, Holds, TaskHoldsRow, Outlived, TaskTo
  <2>4. PhaseShape'
    BY <1>1, <1>5 DEF PhaseShape
  <2>5. FilesOurs'
    BY <1>1, <1>5 DEF FilesOurs, TaskTo
  <2>6. CopiesApart'
    BY <1>1, <1>5 DEF CopiesApart, IsCopy, IsPart, TaskTo
  <2>7. WholeInTime'
    BY <1>5 DEF WholeInTime, TaskTo
  <2>8. NamesKept'
    BY <1>1, <1>5 DEF NamesKept, TaskTo
  <2> QED BY <2>1, <2>2, <2>3, <2>4, <2>5, <2>6, <2>7, <2>8, <1>2
<1>6. CASE /\ task.at = "linking" /\ TaskTo("linked")
           /\ entry[task.name] = None /\ partial[task.slot] # None
           /\ entry' = [entry EXCEPT ![task.name] = partial[task.slot]]
           /\ UNCHANGED <<content, reservation, partial, marker, journal, row>>
  <2>1. /\ LockHeld' /\ AttemptShape' /\ CleanupShape' /\ PartialsKept' /\ Begun'
        /\ OneMarker' /\ Swept' /\ AllInHand' /\ OwnedOrDue' /\ AcceptedIsBacked'
    BY <1>1, <1>6, Frames DEF RowOwnsTheSame
  <2>2. RowShape'
    BY <1>1, <1>6 DEF RowShape, TaskTo
  <2>3. TaskShape'
    BY <1>1, <1>6 DEF TaskShape, Holds, TaskHoldsRow, Outlived, TaskTo
  <2>4. PhaseShape'
    BY <1>1, <1>6 DEF PhaseShape
  <2>5. FilesUsed'
    BY <1>6 DEF FilesUsed, TaskShape
  <2>6. FilesOurs'
    BY <1>1, <1>6 DEF FilesOurs, TaskTo
  <2>7. CopiesApart'
    BY <1>1, <1>6 DEF CopiesApart, IsCopy, IsPart, TaskTo
  <2>8. WholeInTime'
    BY <1>6 DEF WholeInTime, TaskTo
  <2>9. NamesKept'
    BY <1>1, <1>6 DEF NamesKept, TaskTo
  <2>10. PublishedIsWhole'
    BY <1>6 DEF PublishedIsWhole, RowShape
  <2> QED BY <2>1, <2>2, <2>3, <2>4, <2>5, <2>6, <2>7, <2>8, <2>9, <2>10, <1>2
<1> QED BY <1>3, <1>4, <1>5, <1>6 DEF Link

\* JournalLinked writes down what is under the name.
LEMMA JournalLinkedKept ==
  ASSUME IInv, JournalLinked PROVE IInv'
<1> USE DEF IInv
<1>1. UnchangedByTask /\ UNCHANGED <<links, cleanup, lock, attempt, cleaner, phase, lost,
                                     moves>>
  BY DEF JournalLinked, UnchangedByTask
<1>2. TypeOK'
  BY JournalLinkedTyped
<1>3. CASE /\ TaskEnds("failed")
           /\ UNCHANGED <<entry, content, reservation, partial, marker, journal>>
  <2>1. /\ LockHeld' /\ AttemptShape' /\ RowShape' /\ TaskShape' /\ CleanupShape'
        /\ PhaseShape' /\ OwnedOrDue' /\ RowOwnsTheSame /\ task' = NoTask
    BY <1>1, <1>3, TaskEndsKept DEF TaskEnds
  <2>2. /\ FilesUsed' /\ PartialsKept' /\ Begun' /\ OneMarker' /\ Swept' /\ AllInHand'
        /\ AcceptedIsBacked' /\ PublishedIsWhole'
    BY <1>1, <1>3, <2>1, Frames DEF RowOwnsTheSame
  <2>3. FilesOurs'
    BY <1>1, <1>3, <2>1 DEF FilesOurs, NoTask, Holds
  <2>4. CopiesApart'
    BY <1>1, <1>3, <2>1, ReceiveAssumption
      DEF CopiesApart, IsCopy, IsPart, LockHeld, TaskShape, NoTask, Holds
  <2>5. WholeInTime'
    BY <2>1 DEF WholeInTime, NoTask, Holds, TaskHoldsRow
  <2>6. NamesKept'
    BY <1>1, <1>3, <2>1 DEF NamesKept, NoTask
  <2> QED BY <2>2, <2>1, <2>3, <2>4, <2>5, <2>6, <1>2
<1>4. CASE /\ task.at = "linked" /\ TaskTo("completing")
           /\ entry[task.name] = task.part
           /\ Append([token |-> task.token, name |-> task.name, file |-> task.part,
                      state |-> "created"])
           /\ UNCHANGED <<entry, content, reservation, partial, marker, row>>
  <2>1. /\ LockHeld' /\ AttemptShape' /\ CleanupShape' /\ FilesUsed' /\ PartialsKept'
        /\ OneMarker' /\ OwnedOrDue' /\ AcceptedIsBacked' /\ PublishedIsWhole'
    BY <1>1, <1>4, Frames DEF RowOwnsTheSame
  <2>2. RowShape'
    BY <1>1, <1>4 DEF RowShape, TaskTo, Append
  <2>3. TaskShape'
    BY <1>1, <1>4 DEF TaskShape, Holds, TaskHoldsRow, Outlived, LockHeld, OwnedOrDue, TaskTo
  <2>4. PhaseShape'
    BY <1>1, <1>4 DEF NoRecord, PhaseShape
  <2>5. FilesOurs'
    BY <1>1, <1>4, Picked, ReceiveAssumption
      DEF NoRecord, FilesOurs, TaskShape, NoTask, FilesUsed, TaskTo, Append, Live, Ended
  <2>6. CopiesApart'
    BY <1>1, <1>4 DEF CopiesApart, IsCopy, IsPart, FilesUsed, TaskTo, Append, Live
  <2>7. WholeInTime'
    BY <1>4, ReceiveAssumption
      DEF TypeOK, NoMarker, NoRecord, WholeInTime, Published, Settled, TaskShape, NoTask,
          IsCopy, IsPart, TaskTo
  <2>8. NamesKept'
    BY <1>1, <1>4 DEF NamesKept, PartialIsOwned, TaskTo
  <2>9. Begun'
    BY <1>1, <1>4
      DEF Begun, NoReservationOf, NoMarkerOf, Settled, Due, TaskShape, NoTask, Holds,
          Append, Live, Ours
  <2>10. Swept'
    BY <1>1, <1>4, Picked
      DEF NoRecord, Swept, NoReservationOf, NoMarkerOf, LockHeld, AttemptShape, Nothing,
          Settled, TaskShape, NoTask, Holds, TaskHoldsRow, Outlived, CleanupShape,
          PhaseShape, Append, Live, Ours
  <2>11. AllInHand'
    BY <1>1, <1>4, Picked
      DEF NoRecord, AllInHand, InHand, Due, LockHeld, AttemptShape, Nothing, Settled,
          TaskShape, NoTask, Holds, TaskHoldsRow, Outlived, CleanupShape, PhaseShape, Swept,
          TaskTo, Append, Live, Ours, Open
  <2> QED BY <2>1, <2>2, <2>3, <2>4, <2>5, <2>6, <2>7, <2>8, <2>9, <2>10, <2>11, <1>2
<1> QED BY <1>1, <1>3, <1>4 DEF JournalLinked

\* Replace reserves the next name while the old one is kept.
LEMMA ReplaceKept ==
  ASSUME IInv, Replace PROVE IInv'
<1> USE DEF IInv
<1>1. UnchangedByTask /\ UNCHANGED <<links, cleanup, lock, attempt, cleaner, phase, lost,
                                     moves>>
  BY DEF Replace, UnchangedByTask
<1>2. TypeOK'
  BY ReplaceTyped
<1>3. CASE /\ task.at = "replacing" /\ SomeAvailable
           /\ reservation' = [reservation EXCEPT ![Available] = task.token]
           /\ task' = [task EXCEPT !.at = "switching", !.from = task.name,
                       !.name = Available]
           /\ Append([token |-> task.token, name |-> Available, file |-> task.part,
                      state |-> "prepared"])
           /\ UNCHANGED <<entry, content, partial, marker, row>>
  <2>1. /\ Available \in Names /\ Reservable(Available)
        /\ task'.at = "switching" /\ task'.from = task.name /\ task'.name = Available
        /\ task'.token = task.token /\ task'.slot = task.slot /\ task'.copy = task.copy
    BY <1>1, <1>3, Picked DEF TypeOK
  <2>2. /\ \A n \in Names : reservation[n] # None => reservation'[n] = reservation[n]
        /\ reservation'[Available] = task.token
        /\ \A n \in Names : reservation'[n] \in {reservation[n], task.token}
    BY <1>3, <2>1, Picked DEF TypeOK, Reservable
  <2>3. /\ LockHeld' /\ AttemptShape' /\ CleanupShape' /\ FilesUsed' /\ PartialsKept'
        /\ OneMarker' /\ OwnedOrDue' /\ PublishedIsWhole'
    BY <1>1, <1>3, <2>2, Frames DEF RowOwnsTheSame
  <2>4. RowShape'
    BY <1>1, <1>3 DEF NoRecord, RowShape
  <2>5. TaskShape'
    BY <1>1, <1>3, Picked DEF TaskShape, Holds, TaskHoldsRow, Outlived
  <2>6. PhaseShape'
    BY <1>1, <1>3 DEF NoRecord, PhaseShape
  <2>7. FilesOurs'
    BY <1>1, <1>3, Picked, ReceiveAssumption
      DEF NoRecord, FilesOurs, TaskShape, NoTask, TaskTo, Append
  <2>8. CopiesApart'
    BY <1>1, <1>3 DEF CopiesApart, IsCopy, IsPart, Append, Ours
  <2>9. WholeInTime'
    BY <1>3, <2>1 DEF WholeInTime, Published, LockHeld
  <2>10. NamesKept'
    <3> SUFFICES ASSUME moves = 0 PROVE NamesKept'
      BY <1>1, <1>3, <2>1, <2>2 DEF NamesKept
    <3>1. task.name # Available
      BY <1>3, <2>1, <2>2 DEF NamesKept, Reservable
    <3>2. \A k \in Tokens : attempt[k].at \in {"created", "marked"} =>
              reservation'[attempt[k].name] = k
      BY <2>2, ReceiveAssumption DEF NamesKept, AttemptShape
    <3>3. \A k \in Tokens : attempt'[k].at \in {"created", "marked"} =>
              reservation'[attempt'[k].name] = k
      BY <1>1, <1>3, <2>1, <2>2, <3>2
    <3>4. reservation'[task'.name] = task'.token
      BY <1>1, <1>3, <2>1, <2>2
    <3> QED BY <2>1, <3>1, <3>3, <3>4 DEF NamesKept
  <2>11. Begun'
    BY <1>1, <1>3, <2>1
      DEF Begun, NoReservationOf, NoMarkerOf, Settled, Due, LockHeld, AwaitingRow, Nothing,
          TaskShape, PartialIsOwned, TaskTo, Append, Live, Ours, Open
  <2>12. Swept'
    BY <1>1, <1>3, <2>1
      DEF Swept, NoReservationOf, NoMarkerOf, Settled, TaskShape, NoTask, Holds,
          TaskHoldsRow, Outlived, CleanupShape, PhaseShape, OwnedOrDue, MarkersAt, TaskTo,
          Append
  <2>13. AllInHand'
    BY <1>1, <1>3
      DEF AllInHand, InHand, Due, Settled, TaskShape, NoTask, Holds, TaskHoldsRow, Outlived,
          TaskTo, Append, Live
  <2>14. AcceptedIsBacked'
    BY <1>1, <1>3, <2>1, <2>2 DEF AcceptedIsBacked, ReservationIsOwned, PartialIsOwned
  <2> QED BY <2>3, <2>4, <2>5, <2>6, <2>7, <2>8, <2>9, <2>10, <2>11, <2>12, <2>13, <2>14,
     <1>2
<1> QED BY <1>1, <1>3 DEF Replace, IsRunning

\* Switch puts the new name into the row, if the row is still the task's.
LEMMA SwitchKept ==
  ASSUME IInv, Switch PROVE IInv'
<1> USE DEF IInv
<1>1. UnchangedByTask /\ UNCHANGED <<links, cleanup, lock, attempt, cleaner, phase, lost,
                                     moves>>
  BY DEF Switch, UnchangedByTask
<1>2. TypeOK'
  BY SwitchTyped
<1>3. CASE /\ TaskEnds("failed")
           /\ UNCHANGED <<entry, content, reservation, partial, marker, journal>>
  <2>1. /\ LockHeld' /\ AttemptShape' /\ RowShape' /\ TaskShape' /\ CleanupShape'
        /\ PhaseShape' /\ OwnedOrDue' /\ RowOwnsTheSame /\ task' = NoTask
    BY <1>1, <1>3, TaskEndsKept DEF TaskEnds
  <2>2. /\ FilesUsed' /\ PartialsKept' /\ Begun' /\ OneMarker' /\ Swept' /\ AllInHand'
        /\ AcceptedIsBacked' /\ PublishedIsWhole'
    BY <1>1, <1>3, <2>1, Frames DEF RowOwnsTheSame
  <2>3. FilesOurs'
    BY <1>1, <1>3, <2>1 DEF FilesOurs, NoTask, Holds
  <2>4. CopiesApart'
    BY <1>1, <1>3, <2>1, ReceiveAssumption
      DEF CopiesApart, IsCopy, IsPart, LockHeld, TaskShape, NoTask, Holds
  <2>5. WholeInTime'
    BY <2>1 DEF WholeInTime, NoTask, Holds, TaskHoldsRow
  <2>6. NamesKept'
    BY <1>1, <1>3, <2>1 DEF NamesKept, NoTask
  <2> QED BY <2>2, <2>1, <2>3, <2>4, <2>5, <2>6, <1>2
<1>4. CASE /\ task.at = "switching" /\ TaskHoldsRow
           /\ row.own.token = task.token /\ row.own.dest = task.from
           /\ row' = [row EXCEPT !.own.dest = task.name] /\ TaskTo("releasing")
           /\ UNCHANGED <<entry, content, reservation, partial, marker, journal>>
  <2>1. /\ row'.own = [row.own EXCEPT !.dest = task.name] /\ row'.status = row.status
        /\ row'.claimed = row.claimed
    BY <1>1, <1>4 DEF TypeOK
  <2>2. /\ row'.own.token = row.own.token /\ row'.own.slot = row.own.slot
        /\ row'.own.dest = task.name
        /\ row.own.token \in Tokens /\ task.name \in Names /\ row.own.dest # None
        /\ task.from # None
    BY <1>4, ReceiveAssumption DEF TypeOK, Ownerships, TaskShape
  <2>3. /\ task'.at = "releasing" /\ task'.token = task.token /\ task'.slot = task.slot
        /\ task'.name = task.name
        /\ task'.from = task.from /\ task'.part = task.part /\ task'.copy = task.copy
    BY <1>4, <2>1, <2>2 DEF TaskTo, TypeOK
  <2>4. LockHeld' /\ AttemptShape' /\ FilesUsed' /\ PartialsKept' /\ Begun' /\ Swept'
    BY <1>1, <1>4, <2>2, <2>3, Frames
  <2>5. RowShape'
    BY <1>1, <1>4, <2>2, <2>3 DEF RowShape, TaskHoldsRow
  <2>6. TaskShape'
    BY <1>1, <1>4, <2>2, <2>3 DEF TaskShape, Holds, Outlived, TaskHoldsRow
  <2>7. CleanupShape'
    BY <1>1, <2>1, <2>2, <2>3 DEF CleanupShape
  <2>8. PhaseShape'
    BY <1>1, <1>4, <2>3 DEF PhaseShape
  <2>9. FilesOurs'
    BY <1>1, <1>4, <2>3 DEF FilesOurs
  <2>10. CopiesApart'
    BY <1>1, <1>4, <2>3 DEF CopiesApart, IsCopy, IsPart, LockHeld, AttemptShape
  <2>11. WholeInTime'
    BY <1>4, <2>3 DEF NoRecord, WholeInTime, Published
  <2>12. NamesKept'
    BY <1>1, <1>4, <2>2, <2>3 DEF NamesKept
  <2>13. OneMarker'
    BY <1>1, <1>4, <2>2 DEF OneMarker, MarkersAt, Live
  <2>14. AllInHand'
    BY <1>1, <1>4, <2>2 DEF AllInHand, InHand, Due, Live
  <2>15. OwnedOrDue'
    BY <1>1, <2>1, <2>2, <2>3 DEF OwnedOrDue
  <2>16. AcceptedIsBacked'
    BY <1>1, <1>4, <2>2
      DEF AcceptedIsBacked, NamesKept, TaskHoldsRow, TaskShape, Outlived,
          ReservationIsOwned, PartialIsOwned
  <2>17. PublishedIsWhole'
    BY <1>4 DEF PublishedIsWhole, TaskHoldsRow, Outlived, CleanupShape
  <2> QED BY <2>4, <2>5, <2>6, <2>7, <2>8, <2>9, <2>10, <2>11, <2>12, <2>13, <2>14, <2>15,
     <2>16, <2>17, <1>2
<1> QED BY <1>3, <1>4 DEF Switch, dirVars, IsRunning

\* ReleaseOld gives up the name the row has left.
LEMMA ReleaseOldKept ==
  ASSUME IInv, ReleaseOld PROVE IInv'
<1> USE DEF IInv
<1>1. UnchangedByTask /\ UNCHANGED <<links, cleanup, lock, attempt, cleaner, phase, lost,
                                     moves>>
  BY DEF ReleaseOld, UnchangedByTask
<1>2. TypeOK'
  BY ReleaseOldTyped
<1>3. CASE /\ task.at = "releasing"
           /\ reservation' = WithoutReservation(task.from, task.token)
           /\ task' = [task EXCEPT !.from = None,
                          !.at = IF task.copy = None THEN "journalling" ELSE "copying"]
           /\ UNCHANGED <<entry, content, partial, marker, journal, row>>
  <2>1. \A n \in Names :
            reservation'[n] = IF n = task.from /\ reservation[n] = task.token THEN None
                ELSE reservation[n]
    BY <1>3 DEF WithoutReservation, Removed, ReservationIsOwned, TypeOK
  <2>2. /\ task'.at \in {"journalling", "copying"} /\ task'.token = task.token
        /\ task'.slot = task.slot
        /\ task'.name = task.name /\ task'.from = None
    BY <1>1, <1>3, <2>1 DEF TypeOK
  <2>3. moves = 0 /\ Holds => row.own.dest = task.name /\ task.name # task.from
    BY <1>3, <2>2, ReceiveAssumption DEF NamesKept, TaskShape
  <2>4. /\ LockHeld' /\ AttemptShape' /\ CleanupShape' /\ FilesUsed' /\ PartialsKept'
        /\ OneMarker' /\ OwnedOrDue' /\ PublishedIsWhole'
    BY <1>1, <1>3, <2>3, Frames DEF RowOwnsTheSame
  <2>5. RowShape'
    BY <1>1, <1>3, <2>3 DEF RowShape
  <2>6. TaskShape'
    BY <1>1, <1>3 DEF TypeOK, TaskShape, NoTask, Settled, Holds, TaskHoldsRow, Outlived
  <2>7. PhaseShape'
    BY <1>1, <1>3, <2>3 DEF PhaseShape
  <2>8. FilesOurs'
    BY <1>1, <1>3, <2>3 DEF FilesOurs
  <2>9. CopiesApart'
    BY <1>1, <1>3 DEF CopiesApart, IsCopy, IsPart, AttemptShape
  <2>10. WholeInTime'
    BY <1>3, <2>1 DEF NoRecord, WholeInTime, Published
  <2>11. NamesKept'
    <3> SUFFICES ASSUME moves = 0 PROVE NamesKept'
      BY <1>1, <2>1, <2>2, <2>3 DEF NamesKept
    <3>1. ASSUME NEW k \in Tokens, attempt[k].at \in {"created", "marked"}
          PROVE  reservation'[attempt[k].name] = k
      <4>1. reservation[attempt[k].name] = k /\ attempt[k].name \in Names
        BY <3>1 DEF NamesKept, AttemptShape
      <4>2. attempt[task.token].at \in Settled
        BY <1>3, <2>1, <2>2, <2>3 DEF TaskShape
      <4>3. k # task.token
        BY <3>1, <4>2 DEF Settled
      <4> QED BY <2>1, <2>2, <2>3, <4>1, <4>3
    <3> QED BY <1>1, <2>2, <2>3, <3>1 DEF NamesKept
  <2>12. Begun'
    BY <1>1, <1>3, <2>1, ReceiveAssumption DEF Begun, NoReservationOf, NoMarkerOf, Due, Live
  <2>13. Swept'
    BY <1>1, <1>3, <2>1, ReceiveAssumption
      DEF Swept, NoReservationOf, NoMarkerOf, CleanupShape
  <2>14. AllInHand'
    BY <1>1, <1>3, <2>1, ReceiveAssumption DEF AllInHand, InHand, Due, Live
  <2>15. AcceptedIsBacked'
    BY <1>1, <1>3, <2>1, <2>3
      DEF AcceptedIsBacked, TaskShape, Outlived, Open, ReservationIsOwned, PartialIsOwned
  <2> QED BY <2>4, <2>5, <2>6, <2>7, <2>8, <2>9, <2>10, <2>11, <2>12, <2>13, <2>14, <2>15,
     <1>2
<1> QED BY <1>1, <1>3 DEF ReleaseOld, IsRunning

\* PrepareCopy takes a file nobody uses, so that the copy is not the partial.
LEMMA PrepareCopyKept ==
  ASSUME IInv, PrepareCopy PROVE IInv'
<1> USE DEF IInv
<1>1. UnchangedByTask /\ UNCHANGED <<links, cleanup, lock, attempt, cleaner, phase, lost,
                                     moves>>
  BY DEF PrepareCopy, UnchangedByTask
<1>2. TypeOK'
  BY PrepareCopyTyped
<1>3. CASE /\ TaskEnds("failed")
           /\ UNCHANGED <<entry, content, reservation, partial, marker, journal>>
  <2>1. /\ LockHeld' /\ AttemptShape' /\ RowShape' /\ TaskShape' /\ CleanupShape'
        /\ PhaseShape' /\ OwnedOrDue' /\ RowOwnsTheSame /\ task' = NoTask
    BY <1>1, <1>3, TaskEndsKept DEF TaskEnds
  <2>2. /\ FilesUsed' /\ PartialsKept' /\ Begun' /\ OneMarker' /\ Swept' /\ AllInHand'
        /\ AcceptedIsBacked' /\ PublishedIsWhole'
    BY <1>1, <1>3, <2>1, Frames DEF RowOwnsTheSame
  <2>3. FilesOurs'
    BY <1>1, <1>3, <2>1 DEF FilesOurs, NoTask
  <2>4. CopiesApart'
    BY <1>1, <1>3, <2>1, ReceiveAssumption DEF CopiesApart, IsCopy, IsPart, NoTask
  <2>5. WholeInTime'
    BY <2>1 DEF WholeInTime, NoTask
  <2>6. NamesKept'
    BY <1>1, <1>3, <2>1 DEF NamesKept, NoTask
  <2> QED BY <2>2, <2>1, <2>3, <2>4, <2>5, <2>6, <1>2
<1>4. CASE /\ task.at = "preparing" /\ ReservationIsOwned(task.name, task.token)
           /\ entry[task.name] = None /\ FreeFiles # {}
           /\ entry' = [entry EXCEPT ![task.name] = NewFile]
           /\ content' = [content EXCEPT ![NewFile] = "empty"]
           /\ task' = [task EXCEPT !.at = "created", !.copy = NewFile]
           /\ UNCHANGED <<reservation, partial, marker, journal, row>>
  <2>1. /\ NewFile \in Files /\ content[NewFile] = "free" /\ task'.copy = NewFile
        /\ task'.part = task.part
    BY <1>4, Picked
  <2>2. /\ LockHeld' /\ AttemptShape' /\ CleanupShape' /\ PartialsKept' /\ Begun'
        /\ OneMarker' /\ Swept' /\ AllInHand' /\ OwnedOrDue' /\ AcceptedIsBacked'
    BY <1>1, <1>4, Frames DEF RowOwnsTheSame
  <2>3. RowShape'
    BY <1>1, <1>4 DEF RowShape
  <2>4. TaskShape'
    BY <1>1, <1>4, <2>1 DEF TaskShape, Holds, TaskHoldsRow, Outlived
  <2>5. PhaseShape'
    BY <1>1, <1>4 DEF PhaseShape
  <2>6. FilesUsed'
    BY <1>4, Picked DEF TypeOK, FilesUsed
  <2>7. FilesOurs'
    BY <1>1, <1>4, Picked DEF TypeOK, FilesOurs, Ours
  <2>8. CopiesApart'
    <3>1. ~IsPart(NewFile)
      BY <2>1, ReceiveAssumption DEF IsPart, FilesOurs, Ours
    <3>2. \A f \in Files : IsPart(f)' => IsPart(f)
      BY <1>1, <1>4 DEF IsPart
    <3>3. \A f \in Files : IsCopy(f)' => IsCopy(f) \/ f = NewFile
      BY <1>4 DEF IsCopy
    <3> QED BY <3>1, <3>2, <3>3 DEF CopiesApart
  <2>9. WholeInTime'
    BY <1>4, Picked DEF WholeInTime
  <2>10. NamesKept'
    BY <1>1, <1>4 DEF NamesKept
  <2>11. PublishedIsWhole'
    BY <1>4 DEF PublishedIsWhole, RowShape
  <2> QED BY <2>2, <2>3, <2>4, <2>5, <2>6, <2>7, <2>8, <2>9, <2>10, <2>11, <1>2
<1>5. CASE /\ task.at = "preparing" /\ ReservationIsOwned(task.name, task.token)
           /\ entry[task.name] # None /\ SomeAvailable
           /\ reservation' = [reservation EXCEPT ![Available] = task.token]
           /\ task' = [task EXCEPT !.name = Available,
                          !.from = IF task.from = None THEN task.name ELSE task.from]
           /\ UNCHANGED <<entry, content, partial, marker, journal, row>>
  <2>1. Available \in Names /\ Reservable(Available)
    BY <1>5, Picked
  <2>2. /\ \A n \in Names : reservation[n] # None => reservation'[n] = reservation[n]
        /\ reservation'[Available] = task.token
        /\ \A n \in Names : reservation'[n] \in {reservation[n], task.token}
    BY <1>5, <2>1 DEF TypeOK, Reservable
  <2>3. /\ LockHeld' /\ AttemptShape' /\ CleanupShape' /\ FilesUsed' /\ PartialsKept'
        /\ OneMarker' /\ OwnedOrDue' /\ PublishedIsWhole'
    BY <1>1, <1>5, Frames DEF RowOwnsTheSame
  <2>4. RowShape'
    BY <1>1, <1>5 DEF RowShape
  <2>5. TaskShape'
    BY <1>1, <1>5, <2>1 DEF TaskShape, Holds, TaskHoldsRow, Outlived
  <2>6. PhaseShape'
    BY <1>1, <1>5 DEF PhaseShape
  <2>7. FilesOurs'
    BY <1>1, <1>5 DEF FilesOurs
  <2>8. CopiesApart'
    BY <1>1, <1>5 DEF CopiesApart, IsCopy, IsPart
  <2>9. WholeInTime'
    BY <1>5 DEF WholeInTime
  <2>10. NamesKept'
    <3> SUFFICES ASSUME moves = 0 PROVE NamesKept'
      BY <1>1 DEF NamesKept
    <3>1. \A k \in Tokens : attempt[k].at \in {"created", "marked"} =>
              reservation'[attempt[k].name] = k
      BY <2>2, ReceiveAssumption DEF NamesKept, AttemptShape
    <3> QED BY <1>1, <1>5, <2>1, <3>1 DEF NamesKept, Reservable
  <2>11. Begun'
    BY <1>1, <1>5 DEF Begun, NoReservationOf, NoMarkerOf, Settled, Due, TaskShape, Live
  <2>12. Swept'
    BY <1>1, <1>5
      DEF Swept, NoReservationOf, NoMarkerOf, TaskShape, Holds, Outlived, CleanupShape
  <2>13. AllInHand'
    BY <1>1, <1>5 DEF AllInHand, InHand, Due, TaskShape, Holds, Outlived, Live
  <2>14. AcceptedIsBacked'
    BY <1>1, <1>5, <2>2, Picked DEF AcceptedIsBacked, ReservationIsOwned, PartialIsOwned
  <2> QED BY <2>3, <2>4, <2>5, <2>6, <2>7, <2>8, <2>9, <2>10, <2>11, <2>12, <2>13, <2>14,
     <1>2
<1> QED BY <1>3, <1>4, <1>5 DEF PrepareCopy

\* JournalCopy writes down the copy before anything is in it.
LEMMA JournalCopyKept ==
  ASSUME IInv, JournalCopy PROVE IInv'
<1> USE DEF IInv
<1>1. UnchangedByTask /\ UNCHANGED <<links, cleanup, lock, attempt, cleaner, phase, lost,
                                     moves>>
  BY DEF JournalCopy, UnchangedByTask
<1>2. TypeOK'
  BY JournalCopyTyped
<1>3. CASE /\ TaskEnds("failed")
           /\ UNCHANGED <<entry, content, reservation, partial, marker, journal>>
  <2>1. /\ LockHeld' /\ AttemptShape' /\ RowShape' /\ TaskShape' /\ CleanupShape'
        /\ PhaseShape' /\ OwnedOrDue' /\ RowOwnsTheSame /\ task' = NoTask
    BY <1>1, <1>3, TaskEndsKept DEF TaskEnds
  <2>2. /\ FilesUsed' /\ PartialsKept' /\ Begun' /\ OneMarker' /\ Swept' /\ AllInHand'
        /\ AcceptedIsBacked' /\ PublishedIsWhole'
    BY <1>1, <1>3, <2>1, Frames DEF RowOwnsTheSame
  <2>3. FilesOurs'
    BY <1>1, <1>3, <2>1 DEF FilesOurs, NoTask, Holds
  <2>4. CopiesApart'
    BY <1>1, <1>3, <2>1, ReceiveAssumption
      DEF CopiesApart, IsCopy, IsPart, LockHeld, TaskShape, NoTask, Holds
  <2>5. WholeInTime'
    BY <2>1 DEF WholeInTime, NoTask, Holds, TaskHoldsRow
  <2>6. NamesKept'
    BY <1>1, <1>3, <2>1 DEF NamesKept, NoTask
  <2> QED BY <2>2, <2>1, <2>3, <2>4, <2>5, <2>6, <1>2
<1>4. CASE /\ task.at = "created" /\ ReservationIsOwned(task.name, task.token)
           /\ TaskTo(IF task.from = None THEN "copying" ELSE "switching")
           /\ Append([token |-> task.token, name |-> task.name, file |-> task.copy,
                      state |-> "copyPrepared"])
           /\ UNCHANGED <<entry, content, reservation, partial, marker, row>>
  <2>1. /\ LockHeld' /\ AttemptShape' /\ CleanupShape' /\ FilesUsed' /\ PartialsKept'
        /\ OneMarker' /\ OwnedOrDue' /\ AcceptedIsBacked' /\ PublishedIsWhole'
    BY <1>1, <1>4, Frames DEF RowOwnsTheSame
  <2>2. RowShape'
    BY <1>1, <1>4 DEF RowShape, TaskTo, Append
  <2>3. TaskShape'
    BY <1>1, <1>4
      DEF TypeOK, NoMarker, NoRecord, TaskShape, Holds, TaskHoldsRow, Outlived, LockHeld,
          OwnedOrDue, TaskTo
  <2>4. PhaseShape'
    BY <1>1, <1>4 DEF NoRecord, PhaseShape
  <2>5. FilesOurs'
    BY <1>1, <1>4, Picked, ReceiveAssumption
      DEF NoRecord, FilesOurs, TaskShape, NoTask, FilesUsed, TaskTo, Append, Live, Ended
  <2>6. CopiesApart'
    BY <1>1, <1>4 DEF CopiesApart, IsCopy, IsPart, FilesUsed, TaskTo, Append, Live
  <2>7. WholeInTime'
    BY <1>4 DEF WholeInTime, IsCopy, IsPart, TaskTo
  <2>8. NamesKept'
    BY <1>1, <1>4 DEF NamesKept, ReservationIsOwned, PartialIsOwned, TaskTo, Append
  <2>9. Begun'
    BY <1>1, <1>4
      DEF Begun, NoReservationOf, NoMarkerOf, Settled, Due, TaskShape, NoTask, Holds,
          Append, Live, Ours
  <2>10. Swept'
    BY <1>1, <1>4
      DEF Swept, NoReservationOf, NoMarkerOf, LockHeld, AttemptShape, Nothing, Settled,
          TaskShape, Append, Live, Ours, Open, Ended, ReservationIsOwned
  <2>11. AllInHand'
    BY <1>1, <1>4
      DEF NoRecord, AllInHand, InHand, Due, LockHeld, AttemptShape, Nothing, Settled,
          TaskShape, Swept, TaskTo, Append, Live, Ours, Open, Ended, ReservationIsOwned,
          PartialIsOwned
  <2> QED BY <2>1, <2>2, <2>3, <2>4, <2>5, <2>6, <2>7, <2>8, <2>9, <2>10, <2>11, <1>2
<1> QED BY <1>1, <1>3, <1>4 DEF JournalCopy

\* StartCopy goes on only with the file of the record, under its name.
LEMMA StartCopyKept ==
  ASSUME IInv, StartCopy PROVE IInv'
<1> USE DEF IInv
<1>1. UnchangedByTask /\ UNCHANGED <<links, cleanup, lock, attempt, cleaner, phase, lost,
                                     moves>>
  BY DEF StartCopy, UnchangedByTask
<1>2. TypeOK'
  BY StartCopyTyped
<1>3. CASE /\ TaskEnds("failed")
           /\ UNCHANGED <<entry, content, reservation, partial, marker, journal>>
  <2>1. /\ LockHeld' /\ AttemptShape' /\ RowShape' /\ TaskShape' /\ CleanupShape'
        /\ PhaseShape' /\ OwnedOrDue' /\ RowOwnsTheSame /\ task' = NoTask
    BY <1>1, <1>3, TaskEndsKept DEF TaskEnds
  <2>2. /\ FilesUsed' /\ PartialsKept' /\ Begun' /\ OneMarker' /\ Swept' /\ AllInHand'
        /\ AcceptedIsBacked' /\ PublishedIsWhole'
    BY <1>1, <1>3, <2>1, Frames DEF RowOwnsTheSame
  <2>3. FilesOurs'
    BY <1>1, <1>3, <2>1, Picked DEF FilesOurs, LockHeld, TaskShape, NoTask
  <2>4. CopiesApart'
    BY <1>1, <1>3, <2>1, Picked, ReceiveAssumption
      DEF TypeOK, NoMarker, NoRecord, CopiesApart, IsCopy, IsPart, LockHeld, AttemptShape,
          NoAttempt, RowShape, AwaitingRow, Nothing, Settled, TaskShape, NoTask, Holds,
          TaskHoldsRow, Outlived, CleanupShape, PhaseShape, OwnedOrDue, FilesOurs,
          FilesUsed, TaskTo, Append, Live, Ours, Open, Ended, ReservationIsOwned,
          PartialIsOwned
  <2>5. WholeInTime'
    BY <1>1, <1>3, <2>1, Picked, ReceiveAssumption
      DEF TypeOK, NoMarker, NoRecord, WholeInTime, Published, LockHeld, AttemptShape,
          NoAttempt, RowShape, AwaitingRow, Nothing, Settled, TaskShape, NoTask, Holds,
          TaskHoldsRow, Outlived, CleanupShape, PhaseShape, OwnedOrDue, FilesUsed,
          FilesOurs, CopiesApart, IsCopy, IsPart, TaskTo, Append, Live, Ours, Open, Ended,
          ReservationIsOwned, PartialIsOwned
  <2>6. NamesKept'
    BY <1>1, <1>3, <2>1 DEF NamesKept, Holds, NoTask
  <2> QED BY <2>2, <2>1, <2>3, <2>4, <2>5, <2>6, <1>2
<1>4. CASE /\ task.at = "copying" /\ TaskTo("filling")
           /\ content' = [content EXCEPT ![task.copy] = "part"]
           /\ UNCHANGED <<entry, reservation, partial, marker, journal, row>>
  <2>1. /\ LockHeld' /\ AttemptShape' /\ CleanupShape' /\ PartialsKept' /\ Begun'
        /\ OneMarker' /\ Swept' /\ AllInHand' /\ OwnedOrDue' /\ AcceptedIsBacked'
    BY <1>1, <1>4, Frames DEF RowOwnsTheSame
  <2>2. RowShape'
    BY <1>1, <1>4 DEF RowShape, TaskTo, Append
  <2>3. TaskShape'
    BY <1>1, <1>4 DEF TaskShape, Holds, TaskHoldsRow, Outlived, LockHeld, OwnedOrDue, TaskTo
  <2>4. PhaseShape'
    BY <1>1, <1>4 DEF NoRecord, PhaseShape
  <2>5. FilesUsed'
    BY <1>1, <1>4 DEF NoRecord, FilesUsed
  <2>6. FilesOurs'
    BY <1>1, <1>4 DEF FilesOurs, TaskTo, Append, Live, Ours
  <2>7. CopiesApart'
    BY <1>1, <1>4 DEF CopiesApart, IsCopy, IsPart, FilesUsed, TaskTo
  <2>8. WholeInTime'
    BY <1>4, ReceiveAssumption
      DEF TypeOK, NoMarker, NoRecord, WholeInTime, Published, Settled, TaskShape, NoTask,
          FilesUsed, FilesOurs, CopiesApart, IsCopy, IsPart, TaskTo
  <2>9. NamesKept'
    BY <1>1, <1>4 DEF NamesKept, PartialIsOwned, TaskTo
  <2>10. PublishedIsWhole'
    BY <1>4 DEF PublishedIsWhole, TaskShape, NoTask, Holds, TaskHoldsRow, Outlived
  <2> QED BY <2>1, <2>2, <2>3, <2>4, <2>5, <2>6, <2>7, <2>8, <2>9, <2>10, <1>2
<1> QED BY <1>1, <1>3, <1>4 DEF StartCopy

\* FillCopy makes the copy whole.
LEMMA FillCopyKept ==
  ASSUME IInv, FillCopy PROVE IInv'
<1> USE DEF IInv
<1>1. UnchangedByTask /\ UNCHANGED <<links, cleanup, lock, attempt, cleaner, phase, lost,
                                     moves>>
  BY DEF FillCopy, UnchangedByTask
<1>2. TypeOK'
  BY FillCopyTyped
<1>3. CASE /\ task.at = "filling" /\ TaskTo("copied")
           /\ content' = [content EXCEPT ![task.copy] = "whole"]
           /\ UNCHANGED <<entry, reservation, partial, marker, journal, row>>
  <2>1. /\ LockHeld' /\ AttemptShape' /\ CleanupShape' /\ PartialsKept' /\ Begun'
        /\ OneMarker' /\ Swept' /\ AllInHand' /\ OwnedOrDue' /\ AcceptedIsBacked'
    BY <1>1, <1>3, Frames DEF RowOwnsTheSame
  <2>2. RowShape'
    BY <1>1, <1>3 DEF RowShape, TaskTo, Append
  <2>3. TaskShape'
    BY <1>1, <1>3 DEF TaskShape, Holds, TaskHoldsRow, Outlived, LockHeld, OwnedOrDue, TaskTo
  <2>4. PhaseShape'
    BY <1>1, <1>3 DEF NoRecord, PhaseShape
  <2>5. FilesUsed'
    BY <1>1, <1>3 DEF NoRecord, FilesUsed
  <2>6. FilesOurs'
    BY <1>1, <1>3 DEF FilesOurs, TaskTo, Append, Live, Ours
  <2>7. CopiesApart'
    BY <1>1, <1>3 DEF CopiesApart, IsCopy, IsPart, FilesUsed, TaskTo
  <2>8. WholeInTime'
    BY <1>3
      DEF TypeOK, NoMarker, NoRecord, WholeInTime, Published, Settled, TaskShape, NoTask,
          IsCopy, IsPart, TaskTo
  <2>9. NamesKept'
    BY <1>1, <1>3 DEF NamesKept, PartialIsOwned, TaskTo
  <2>10. PublishedIsWhole'
    BY <1>1, <1>3 DEF NoRecord, PublishedIsWhole
  <2> QED BY <2>1, <2>2, <2>3, <2>4, <2>5, <2>6, <2>7, <2>8, <2>9, <2>10, <1>2
<1> QED BY <1>1, <1>3 DEF FillCopy, IsRunning

\* JournalCopied writes down a copy that is whole.
LEMMA JournalCopiedKept ==
  ASSUME IInv, JournalCopied PROVE IInv'
<1> USE DEF IInv
<1>1. UnchangedByTask /\ UNCHANGED <<links, cleanup, lock, attempt, cleaner, phase, lost,
                                     moves>>
  BY DEF JournalCopied, UnchangedByTask
<1>2. TypeOK'
  BY JournalCopiedTyped
<1>3. CASE /\ task.at = "copied" /\ TaskTo("completing")
           /\ entry[task.name] = task.copy
           /\ Append([token |-> task.token, name |-> task.name, file |-> task.copy,
                      state |-> "created"])
           /\ UNCHANGED <<entry, content, reservation, partial, marker, row>>
  <2>1. /\ LockHeld' /\ AttemptShape' /\ CleanupShape' /\ FilesUsed' /\ PartialsKept'
        /\ OneMarker' /\ OwnedOrDue' /\ AcceptedIsBacked' /\ PublishedIsWhole'
    BY <1>1, <1>3, Frames DEF RowOwnsTheSame
  <2>2. RowShape'
    BY <1>1, <1>3 DEF RowShape, TaskTo
  <2>3. TaskShape'
    BY <1>1, <1>3 DEF TaskShape, Holds, TaskHoldsRow, Outlived, TaskTo
  <2>4. PhaseShape'
    BY <1>1, <1>3 DEF PhaseShape
  <2>5. FilesOurs'
    BY <1>1, <1>3, ReceiveAssumption DEF FilesOurs, TaskShape, TaskTo, Append
  <2>6. CopiesApart'
    BY <1>1, <1>3 DEF CopiesApart, IsCopy, IsPart, TaskTo, Append
  <2>7. WholeInTime'
    BY <1>3, ReceiveAssumption DEF WholeInTime, Published, TaskShape, TaskTo
  <2>8. NamesKept'
    BY <1>1, <1>3 DEF NamesKept, TaskTo
  <2>9. Begun'
    BY <1>1, <1>3 DEF Begun, NoReservationOf, NoMarkerOf, Due, TaskShape, Append, Live
  <2>10. Swept'
    BY <1>1, <1>3
      DEF Swept, NoReservationOf, NoMarkerOf, TaskShape, Holds, Outlived, CleanupShape,
          Append
  <2>11. AllInHand'
    BY <1>1, <1>3 DEF AllInHand, InHand, Due, TaskShape, Holds, Outlived, Append, Live
  <2> QED BY <2>1, <2>2, <2>3, <2>4, <2>5, <2>6, <2>7, <2>8, <2>9, <2>10, <2>11, <1>2
<1>4. CASE /\ task.at = "copied"
           /\ ReservationIsOwned(task.name, task.token) => entry[task.name] # task.copy
           /\ task' = [task EXCEPT !.at = "preparing", !.copy = None]
           /\ UNCHANGED <<entry, content, reservation, partial, marker, journal, row>>
  <2>1. /\ LockHeld' /\ AttemptShape' /\ CleanupShape' /\ FilesUsed' /\ PartialsKept'
        /\ Begun' /\ OneMarker' /\ Swept' /\ AllInHand' /\ OwnedOrDue' /\ AcceptedIsBacked'
        /\ PublishedIsWhole'
    BY <1>1, <1>4, Frames DEF RowOwnsTheSame
  <2>2. RowShape'
    BY <1>1, <1>4 DEF RowShape
  <2>3. TaskShape'
    BY <1>1, <1>4 DEF TaskShape, Holds, TaskHoldsRow, Outlived
  <2>4. PhaseShape'
    BY <1>1, <1>4 DEF PhaseShape
  <2>5. FilesOurs'
    BY <1>1, <1>4 DEF FilesOurs
  <2>6. CopiesApart'
    BY <1>1, <1>4, ReceiveAssumption DEF CopiesApart, IsCopy, IsPart
  <2>7. WholeInTime'
    BY <1>4 DEF WholeInTime
  <2>8. NamesKept'
    BY <1>1, <1>4 DEF NamesKept, TaskShape
  <2> QED BY <2>1, <2>2, <2>3, <2>4, <2>5, <2>6, <2>7, <2>8, <1>2
<1> QED BY <1>3, <1>4 DEF JournalCopied

\* VolumeFull removes the file under the name only if it is the copy.
LEMMA VolumeFullKept ==
  ASSUME IInv, VolumeFull PROVE IInv'
<1> USE DEF IInv
<1>1. UnchangedByTask /\ UNCHANGED <<links, cleanup, lock, attempt, cleaner, phase, lost,
                                     moves>>
  BY DEF VolumeFull, UnchangedByTask
<1>2. TypeOK'
  BY VolumeFullTyped
<1>3. CASE /\ TaskEnds(IF entry[task.name] = task.copy THEN "paused" ELSE "failed")
           /\ task.at \in {"copying", "filling"}
           /\ Retire
           /\ UNCHANGED <<content, reservation, partial, marker, journal>>
  <2>1. /\ LockHeld' /\ AttemptShape' /\ RowShape' /\ TaskShape' /\ CleanupShape'
        /\ PhaseShape' /\ OwnedOrDue' /\ RowOwnsTheSame /\ task' = NoTask
    BY <1>1, <1>3, TaskEndsKept DEF TaskEnds
  <2>2. \A n \in Names : entry'[n] \in {entry[n], None}
    BY <1>3, <2>1 DEF Retire, Removed, TypeOK
  <2>3. PartialsKept' /\ Begun' /\ OneMarker' /\ Swept' /\ AllInHand' /\ AcceptedIsBacked'
    BY <1>1, <1>3, <2>1, Frames DEF RowOwnsTheSame
  <2>4. FilesUsed'
    BY <1>3, <2>1, <2>2 DEF NoRecord, FilesUsed
  <2>5. FilesOurs'
    BY <1>1, <1>3, <2>1 DEF FilesOurs, TaskShape, NoTask
  <2>6. CopiesApart'
    BY <1>1, <1>3, <2>1, ReceiveAssumption
      DEF CopiesApart, IsCopy, IsPart, Settled, TaskShape, NoTask
  <2>7. WholeInTime'
    BY <2>1 DEF WholeInTime, TaskShape, NoTask, Holds
  <2>8. NamesKept'
    BY <1>1, <1>3, <2>1 DEF NamesKept, NoTask, Outlived
  <2>9. PublishedIsWhole'
    BY <1>3, <2>1 DEF PublishedIsWhole, RowOwnsTheSame, RowShape
  <2> QED BY <2>3, <2>1, <2>4, <2>5, <2>6, <2>7, <2>8, <2>9, <1>2
<1> QED BY <1>1, <1>3 DEF VolumeFull, IsRunning

\* Complete names in the row what the task has put under the name.
LEMMA CompleteKept ==
  ASSUME IInv, Complete PROVE IInv'
<1> USE DEF IInv
<1>1. UnchangedByTask /\ UNCHANGED <<links, cleanup, lock, attempt, cleaner, phase, lost,
                                     moves>>
  BY DEF Complete, UnchangedByTask
<1>2. TypeOK'
  BY CompleteTyped
<1>3. CASE /\ task.at = "completing" /\ task' = NoTask /\ ~TaskHoldsRow
           /\ UNCHANGED <<entry, content, reservation, partial, marker, journal, row>>
  <2>1. /\ LockHeld' /\ AttemptShape' /\ CleanupShape' /\ FilesUsed' /\ PartialsKept'
        /\ Begun' /\ OneMarker' /\ Swept' /\ AllInHand' /\ OwnedOrDue' /\ AcceptedIsBacked'
        /\ PublishedIsWhole'
    BY <1>1, <1>3, Frames DEF RowOwnsTheSame
  <2>2. RowShape'
    BY <1>1, <1>3 DEF RowShape, TaskHoldsRow
  <2>3. TaskShape'
    BY <1>3 DEF TaskShape, NoTask
  <2>4. PhaseShape'
    BY <1>1, <1>3 DEF PhaseShape
  <2>5. FilesOurs'
    BY <1>1, <1>3 DEF FilesOurs, NoTask
  <2>6. CopiesApart'
    BY <1>1, <1>3, ReceiveAssumption DEF CopiesApart, IsCopy, IsPart, NoTask
  <2>7. WholeInTime'
    BY <1>3 DEF WholeInTime, NoTask
  <2>8. NamesKept'
    BY <1>1, <1>3 DEF NamesKept, NoTask
  <2> QED BY <2>1, <2>2, <2>3, <2>4, <2>5, <2>6, <2>7, <2>8, <1>2
<1>4. CASE /\ task.at = "completing" /\ task' = NoTask /\ TaskHoldsRow
           /\ row' = [status |-> "completed", claimed |-> FALSE, whole |-> TRUE,
                      own |-> [dest |-> task.name, token |-> task.token,
                               slot |-> task.slot]]
           /\ UNCHANGED <<entry, content, reservation, partial, marker, journal>>
  <2>1. LockHeld' /\ AttemptShape' /\ FilesUsed' /\ PartialsKept' /\ Begun' /\ Swept'
    BY <1>1, <1>4, Frames
  <2>2. RowShape'
    BY <1>1, <1>4 DEF RowShape, TaskShape, NoTask
  <2>3. TaskShape'
    BY <1>4 DEF TaskShape, NoTask
  <2>4. CleanupShape'
    BY <1>1, <1>4 DEF CleanupShape, TaskShape, Holds, TaskHoldsRow, Outlived
  <2>5. PhaseShape'
    BY <1>1, <1>4 DEF PhaseShape
  <2>6. FilesOurs'
    BY <1>1, <1>4 DEF FilesOurs, NoTask
  <2>7. CopiesApart'
    BY <1>1, <1>4, ReceiveAssumption DEF CopiesApart, IsCopy, IsPart, NoTask
  <2>8. WholeInTime'
    BY <1>4 DEF WholeInTime, NoTask
  <2>9. NamesKept'
    BY <1>1, <1>4 DEF NamesKept, NoTask
  <2>10. OneMarker'
    BY <1>1, <1>4 DEF OneMarker, MarkersAt, TaskShape, Holds, TaskHoldsRow, Outlived, Live
  <2>11. AllInHand'
    BY <1>1, <1>4 DEF AllInHand, InHand, Due, TaskShape, Holds, TaskHoldsRow, Outlived, Live
  <2>12. OwnedOrDue'
    BY <1>1, <1>4 DEF OwnedOrDue, TaskShape, Holds, TaskHoldsRow, Outlived
  <2>13. AcceptedIsBacked'
    BY <1>4 DEF AcceptedIsBacked, Open
  <2>14. PublishedIsWhole'
    BY <1>1, <1>4 DEF PublishedIsWhole, WholeInTime, Published
  <2> QED BY <2>1, <2>2, <2>3, <2>4, <2>5, <2>6, <2>7, <2>8, <2>9, <2>10, <2>11, <2>12,
     <2>13, <2>14, <1>2
<1> QED BY <1>3, <1>4 DEF Complete, dirVars

\* TaskFails leaves the files to the row.
LEMMA TaskFailsKept ==
  ASSUME IInv, TaskFails PROVE IInv'
<1> USE DEF IInv
<1>1. UnchangedByTask /\ UNCHANGED <<links, cleanup, lock, attempt, cleaner, phase, lost,
                                     moves>>
  BY DEF TaskFails, UnchangedByTask
<1>2. TypeOK'
  BY TaskFailsTyped
<1>3. CASE /\ (TaskEnds("paused") \/ TaskEnds("failed"))
           /\ UNCHANGED <<entry, content, reservation, partial, marker, journal>>
  <2>1. /\ LockHeld' /\ AttemptShape' /\ RowShape' /\ TaskShape' /\ CleanupShape'
        /\ PhaseShape' /\ OwnedOrDue' /\ RowOwnsTheSame /\ task' = NoTask
    BY <1>1, <1>3, TaskEndsKept DEF TaskEnds
  <2>2. /\ FilesUsed' /\ PartialsKept' /\ Begun' /\ OneMarker' /\ Swept' /\ AllInHand'
        /\ AcceptedIsBacked' /\ PublishedIsWhole'
    BY <1>1, <1>3, <2>1, Frames DEF RowOwnsTheSame
  <2>3. FilesOurs'
    BY <1>1, <1>3, <2>1 DEF FilesOurs, NoTask, Holds
  <2>4. CopiesApart'
    BY <1>1, <1>3, <2>1, ReceiveAssumption
      DEF CopiesApart, IsCopy, IsPart, LockHeld, TaskShape, NoTask, Holds
  <2>5. WholeInTime'
    BY <2>1 DEF WholeInTime, NoTask, Holds, TaskHoldsRow
  <2>6. NamesKept'
    BY <1>1, <1>3, <2>1 DEF NamesKept, NoTask
  <2> QED BY <2>2, <2>1, <2>3, <2>4, <2>5, <2>6, <1>2
<1> QED BY <1>3 DEF TaskFails, Retire, Removed, dirVars

\* Cancel ends a row no task has claimed.
LEMMA CancelKept ==
  ASSUME IInv, Cancel PROVE IInv'
<1> USE DEF IInv
<1>1. UNCHANGED <<links, entry, content, reservation, partial, marker, journal, torn,
                  cleanup, lock, attempt, task, cleaner, phase, lost, moves, faults>>
  BY DEF Cancel, ReconcilePartial, dirVars, UnchangedByMove, UnchangedOutside
<1>2. /\ LockHeld' /\ AttemptShape' /\ PhaseShape' /\ FilesUsed' /\ FilesOurs'
      /\ CopiesApart' /\ WholeInTime' /\ PartialsKept' /\ Begun' /\ Swept'
  BY <1>1, Frames DEF RowOwnsTheSame
<1>3. RowShape'
  BY DEF Cancel, IsRunning, RowShape, AwaitingRow
<1>4. TaskShape'
  BY DEF Cancel, TaskShape, Holds, TaskHoldsRow, Outlived
<1>5. CleanupShape'
  BY DEF Cancel, IsRunning, CleanupShape, Settled
<1>6. NamesKept'
  BY DEF Cancel, dirVars, UnchangedOutside, NamesKept, Holds, TaskHoldsRow
<1>7. OneMarker'
  BY DEF Cancel, dirVars, UnchangedOutside, OneMarker, MarkersAt, LockHeld, Due, Live
<1>8. AllInHand'
  BY DEF Cancel, dirVars, UnchangedOutside, AllInHand, InHand, Due, LockHeld, AttemptShape,
      Swept, Live, Ours
<1>9. OwnedOrDue'
  BY DEF Cancel, IsRunning, OwnedOrDue, LockHeld
<1>10. AcceptedIsBacked'
  BY DEF Cancel, UnchangedOutside, AcceptedIsBacked, Ours, Open
<1>11. PublishedIsWhole'
  BY DEF NoRecord, Cancel, UnchangedOutside, PublishedIsWhole
<1>12. TypeOK'
  BY CancelTyped
<1> QED BY <1>2, <1>3, <1>4, <1>5, <1>6, <1>7, <1>8, <1>9, <1>10, <1>11, <1>12

\* RemoteEnds ends the row under its task, whose token is lost from then on.
LEMMA RemoteEndsKept ==
  ASSUME IInv, RemoteEnds PROVE IInv'
<1> USE DEF IInv
<1>1. UNCHANGED <<links, entry, content, reservation, partial, marker, journal, torn,
                  cleanup, lock, attempt, task, cleaner, phase, moves, faults>>
  BY DEF RemoteEnds, ReconcilePartial, dirVars, UnchangedByMove, UnchangedOutside
<1>2. /\ LockHeld' /\ AttemptShape' /\ PhaseShape' /\ FilesUsed' /\ FilesOurs'
      /\ CopiesApart' /\ WholeInTime' /\ PartialsKept'
  BY <1>1, Frames DEF RowOwnsTheSame
<1>3. RowShape'
  BY DEF RemoteEnds, IsRunning, RowShape, AwaitingRow
<1>4. TaskShape'
  BY DEF RemoteEnds, TaskShape, NoTask, TaskHoldsRow, Outlived
<1>5. CleanupShape'
  BY DEF RemoteEnds, IsRunning, CleanupShape, Settled
<1>6. NamesKept'
  BY DEF RemoteEnds, dirVars, UnchangedOutside, NamesKept, Holds, TaskHoldsRow
<1>7. Begun'
  BY DEF RemoteEnds, dirVars, UnchangedOutside, Begun, NoReservationOf, NoMarkerOf, Settled,
      Due, TaskShape, NoTask, Holds, PartialsKept, PartialIsOwned, Live
<1>8. OneMarker'
  BY DEF RemoteEnds, dirVars, UnchangedOutside, OneMarker, MarkersAt, LockHeld, Due, Live
<1>9. Swept'
  BY DEF RemoteEnds, dirVars, UnchangedOutside, Swept, NoReservationOf, NoMarkerOf
<1>10. AllInHand'
  BY DEF RemoteEnds, dirVars, UnchangedOutside, AllInHand, InHand, Due, LockHeld,
      AttemptShape, Swept, Live, Ours
<1>11. OwnedOrDue'
  BY DEF RemoteEnds, IsRunning, OwnedOrDue, LockHeld
<1>12. AcceptedIsBacked'
  BY DEF RemoteEnds, UnchangedOutside, AcceptedIsBacked, Ours, Open
<1>13. PublishedIsWhole'
  BY DEF NoRecord, RemoteEnds, UnchangedOutside, PublishedIsWhole
<1>14. TypeOK'
  BY RemoteEndsTyped
<1> QED BY <1>2, <1>3, <1>4, <1>5, <1>6, <1>7, <1>8, <1>9, <1>10, <1>11, <1>12, <1>13, <1>14

\* StageOwned makes due what a row owns that has ended.
LEMMA StageOwnedKept ==
  ASSUME IInv, StageOwned PROVE IInv'
<1> USE DEF IInv
<1>1. UNCHANGED <<links, entry, content, reservation, partial, marker, journal, torn, lock,
                  attempt, task, cleaner, phase, lost, moves, faults>>
  BY DEF StageOwned, Retire, dbVars, UnchangedByTask, UnchangedByCleaner
<1>2. row.status \in Ended /\ row.own.token # None /\ ~cleanup.due
  BY DEF StageOwned, CanStage, OwnedOrDue
<1>3. /\ row'.status = row.status /\ row'.claimed = row.claimed
      /\ row'.own = [row.own EXCEPT !.token = None, !.slot = None]
      /\ cleanup' = [due |-> TRUE, own |-> row.own]
  BY <1>2 DEF StageOwned, Stage, TypeOK
<1>4. /\ row'.own.token = None /\ row'.own.slot = None /\ row'.own.dest = row.own.dest
      /\ cleanup'.due /\ cleanup'.own = row.own
      /\ row.own.token \in Tokens /\ attempt[row.own.token].at \in Settled
  BY <1>2, <1>3 DEF TypeOK, Ownerships, RowShape
<1>5. row.status \notin {"awaitingAcceptance", "transferring", "paused"} /\ ~row.claimed
  BY <1>2 DEF Ended, RowShape
<1>6. /\ LockHeld' /\ AttemptShape' /\ PhaseShape' /\ FilesUsed' /\ FilesOurs'
      /\ CopiesApart' /\ WholeInTime' /\ PartialsKept' /\ Swept'
  BY <1>1, Frames DEF RowOwnsTheSame
<1>7. RowShape'
  BY <1>1, <1>3, <1>5, ReceiveAssumption DEF RowShape
<1>8. TaskShape'
  BY <1>1, <1>3, <1>5 DEF TaskShape, Holds, Outlived, TaskHoldsRow
<1>9. CleanupShape'
  BY <1>1, <1>4, ReceiveAssumption DEF CleanupShape, Settled
<1>10. NamesKept'
  BY <1>1, <1>3, <1>5 DEF NamesKept, Holds, TaskHoldsRow
<1>11. Begun'
  BY <1>1, <1>2 DEF Begun, NoReservationOf, NoMarkerOf, Live, Due
<1>12. OneMarker'
  BY <1>1, <1>2, <1>3 DEF OneMarker, MarkersAt, Live
<1>13. AllInHand'
  BY <1>1, <1>2, <1>3 DEF AllInHand, InHand, Due, Live
<1>14. OwnedOrDue'
  BY <1>4, <1>5, ReceiveAssumption DEF OwnedOrDue
<1>15. AcceptedIsBacked'
  BY <1>4, <1>5, ReceiveAssumption DEF AcceptedIsBacked
<1>16. PublishedIsWhole'
  BY <1>1, <1>2, <1>3 DEF PublishedIsWhole
<1>17. TypeOK'
  BY StageOwnedTyped
<1> QED BY <1>6, <1>7, <1>8, <1>9, <1>10, <1>11, <1>12, <1>13, <1>14, <1>15, <1>16, <1>17

\* StartCleaner works on what is due.
LEMMA StartCleanerKept ==
  ASSUME IInv, NEW c \in Cleaners, StartCleaner(c) PROVE IInv'
<1> USE DEF IInv
<1>1. UNCHANGED <<links, entry, content, reservation, partial, marker, journal, torn, row,
                  cleanup, lock, attempt, task, phase, lost, moves, faults>>
  BY DEF StartCleaner, Retire, dbVars, UnchangedByTask, UnchangedByCleaner
<1>2. /\ LockHeld' /\ AttemptShape' /\ RowShape' /\ TaskShape' /\ PhaseShape' /\ FilesUsed'
      /\ FilesOurs' /\ CopiesApart' /\ WholeInTime' /\ NamesKept' /\ PartialsKept' /\ Begun'
      /\ AllInHand' /\ OwnedOrDue' /\ AcceptedIsBacked' /\ PublishedIsWhole'
  BY <1>1, Frames DEF RowOwnsTheSame
<1>3. CleanupShape'
  BY ReceiveAssumption
    DEF StartCleaner, UnchangedByCleaner, CleanupShape, PhaseShape, OwnedOrDue
<1>4. OneMarker'
  BY DEF StartCleaner, UnchangedByCleaner, OneMarker, MarkersAt, Live
<1>5. Swept'
  BY DEF StartCleaner, UnchangedByCleaner, Swept, NoReservationOf, NoMarkerOf
<1>6. TypeOK'
  BY StartCleanerTyped
<1> QED BY <1>2, <1>3, <1>4, <1>5, <1>6

\* CleanReservations removes the reservations of its token only.
LEMMA CleanReservationsKept ==
  ASSUME IInv, NEW c \in Cleaners, CleanReservations(c) PROVE IInv'
<1> USE DEF IInv
<1>1. UNCHANGED <<links, entry, content, partial, marker, journal, torn, row, cleanup, lock,
                  attempt, task, phase, lost, moves, faults>>
  BY DEF CleanReservations, Retire, dbVars, UnchangedByTask, UnchangedByCleaner
<1>2. /\ LockHeld' /\ AttemptShape' /\ RowShape' /\ TaskShape' /\ PhaseShape' /\ FilesUsed'
      /\ FilesOurs' /\ CopiesApart' /\ WholeInTime' /\ PartialsKept' /\ OwnedOrDue'
      /\ PublishedIsWhole'
  BY <1>1, Frames DEF RowOwnsTheSame
<1>3. CleanupShape'
  BY DEF TypeOK, CleanReservations, CleanerTo, Removed, UnchangedByCleaner, CleanupShape,
      Settled
<1>4. NamesKept'
  BY ReceiveAssumption
    DEF TypeOK, CleanReservations, ReservationIsOwned, CleanerTo, WithoutReservation,
        Removed, UnchangedByCleaner, NamesKept, Holds, TaskHoldsRow, LockHeld, AttemptShape,
        NoAttempt, Nothing, Settled, TaskShape, NoTask, Outlived, CleanupShape, PhaseShape,
        OwnedOrDue, AcceptedIsBacked, PartialIsOwned
<1>5. Begun'
  BY ReceiveAssumption
    DEF TypeOK, NoMarker, NoRecord, CleanReservations, ReservationIsOwned, CleanerTo,
        WithoutReservation, Removed, UnchangedByCleaner, Begun, NoReservationOf, NoMarkerOf,
        Settled, Due, LockHeld, PartialIsOwned, Live, Ours
<1>6. OneMarker'
  BY <1>1 DEF OneMarker, MarkersAt, Live, CleanReservations, CleanerTo, TypeOK
<1>7. Swept'
  BY ReceiveAssumption
    DEF TypeOK, NoMarker, NoRecord, CleanReservations, ReservationIsOwned, CleanerTo,
        WithoutReservation, Removed, UnchangedByCleaner, Swept, NoReservationOf, NoMarkerOf,
        CleanupShape, PhaseShape, OwnedOrDue
<1>8. AllInHand'
  BY ReceiveAssumption
    DEF TypeOK, NoMarker, NoRecord, CleanReservations, ReservationIsOwned, CleanerTo,
        WithoutReservation, Removed, UnchangedByCleaner, AllInHand, InHand, Due, Live, Ours,
        Open
<1>9. AcceptedIsBacked'
  BY ReceiveAssumption
    DEF TypeOK, CleanReservations, ReservationIsOwned, CleanerTo, WithoutReservation,
        Removed, UnchangedByCleaner, AcceptedIsBacked, PartialIsOwned, NoAttempt, RowShape,
        Outlived, CleanupShape, PhaseShape, OwnedOrDue, NamesKept
<1>10. TypeOK'
  BY CleanReservationsTyped
<1> QED BY <1>2, <1>3, <1>4, <1>5, <1>6, <1>7, <1>8, <1>9, <1>10

\* CleanPartial removes the partial only beside the marker of its token.
LEMMA CleanPartialKept ==
  ASSUME IInv, NEW c \in Cleaners, CleanPartial(c) PROVE IInv'
<1> USE DEF IInv
<1>1. UNCHANGED <<links, entry, content, reservation, marker, journal, torn, row, cleanup,
                  lock, attempt, task, phase, lost, moves, faults>>
  BY DEF CleanPartial, Retire, dbVars, UnchangedByTask, UnchangedByCleaner
<1>2. /\ cleaner[c].own.token \in Tokens /\ row.own.token # cleaner[c].own.token
      /\ attempt[cleaner[c].own.token].at \in Settled \union {"releasing"}
      /\ cleaner[c].own.slot \in Slots \union {None}
  BY DEF CleanPartial, CleanupShape, TypeOK, Ownerships
<1>3. /\ \A d \in Cleaners : d # c => cleaner'[d] = cleaner[d]
      /\ cleaner'[c].at = "idle" \/ cleaner'[c].own = cleaner[c].own
  BY DEF CleanPartial, CleanerTo, CleanerRests, TypeOK, NoCleaner
<1>4. /\ \A s \in Slots : partial'[s] \in {partial[s], None}
      /\ \A s \in Slots : partial'[s] # partial[s] =>
             PartialIsOwned(s, cleaner[c].own.token)
  BY DEF CleanPartial, TypeOK
<1>5. /\ cleaner[c].at = "partial" /\ cleaner'[c].at \in {"idle", "marker", "journal"}
      /\ cleaner'[c].at = "journal" => cleaner[c].own.slot = None
  BY DEF CleanPartial, CleanerTo, CleanerRests, NoCleaner, TypeOK
<1>6. /\ LockHeld' /\ AttemptShape' /\ RowShape' /\ TaskShape' /\ PhaseShape' /\ FilesOurs'
      /\ CopiesApart' /\ WholeInTime' /\ NamesKept' /\ Begun' /\ AllInHand' /\ OwnedOrDue'
      /\ PublishedIsWhole'
  BY <1>1, Frames DEF RowOwnsTheSame
<1>7. CleanupShape'
  BY ReceiveAssumption
    DEF TypeOK, CleanPartial, CleanerTo, PartialIsOwned, CleanerRests, NoCleaner, Nothing,
        UnchangedByCleaner, CleanupShape, TaskShape, NoTask, Holds, TaskHoldsRow, Outlived,
        PhaseShape, OwnedOrDue, Live, Ours, Open, Ended
<1>8. FilesUsed'
  BY DEF TypeOK, CleanPartial, CleanerTo, UnchangedByCleaner, FilesUsed
<1>9. PartialsKept'
  <2>1. ASSUME NEW s \in Slots, marker[s].token # cleaner[c].own.token
        PROVE  partial'[s] = partial[s]
    <3>1. ~PartialIsOwned(s, cleaner[c].own.token)
      BY <2>1 DEF PartialIsOwned
    <3> QED BY <1>4, <3>1
  <2>2. ASSUME NEW k \in Tokens, attempt[k].at \in {"created", "marked"}
        PROVE  attempt[k].slot \in Slots /\ k # cleaner[c].own.token
    BY <1>2, <2>2 DEF AttemptShape, Settled
  <2>3. CASE moves = 0
    <3>1. ASSUME NEW k \in Tokens, attempt[k].at = "created"
          PROVE  partial'[attempt[k].slot] = attempt[k].file
      <4>1. marker[attempt[k].slot] = NoMarker /\ partial[attempt[k].slot] = attempt[k].file
        BY <2>3, <3>1 DEF PartialsKept
      <4> QED BY <1>2, <2>1, <2>2, <3>1, <4>1, ReceiveAssumption DEF NoMarker
    <3>2. ASSUME NEW k \in Tokens, attempt[k].at = "marked"
          PROVE  PartialIsOwned(attempt[k].slot, k)'
      <4>1. PartialIsOwned(attempt[k].slot, k)
        BY <2>3, <3>2 DEF PartialsKept
      <4>2. partial'[attempt[k].slot] = partial[attempt[k].slot]
        BY <2>1, <2>2, <3>2, <4>1 DEF PartialIsOwned
      <4> QED BY <1>1, <4>1, <4>2 DEF PartialIsOwned
    <3>3. \A s \in Slots : marker[s] # NoMarker /\ partial'[s] # None =>
              marker[s].file = partial'[s]
      BY <1>4, <2>3 DEF PartialsKept
    <3> QED BY <1>1, <3>1, <3>2, <3>3 DEF PartialsKept
  <2> QED BY <1>1, <2>3 DEF PartialsKept
<1>10. OneMarker'
  BY <1>1, <1>3, <1>5 DEF OneMarker, MarkersAt, Live
<1>11. Swept'
  <2>1. cleaner'[c].at = "journal" /\ moves = 0 => NoMarkerOf(cleaner[c].own.token)
    BY <1>5, ReceiveAssumption DEF OneMarker, MarkersAt, NoMarkerOf
  <2> QED BY <1>1, <1>3, <1>5, <2>1 DEF Swept, NoMarkerOf, NoReservationOf
<1>12. AcceptedIsBacked'
  BY DEF TypeOK, CleanPartial, CleanerTo, PartialIsOwned, CleanerRests, UnchangedByCleaner,
      AcceptedIsBacked, ReservationIsOwned, Outlived, CleanupShape, PhaseShape
<1>13. TypeOK'
  BY CleanPartialTyped
<1> QED BY <1>6, <1>7, <1>8, <1>9, <1>10, <1>11, <1>12, <1>13

\* CleanMarker removes a marker whose partial is gone.
LEMMA CleanMarkerKept ==
  ASSUME IInv, NEW c \in Cleaners, CleanMarker(c) PROVE IInv'
<1> USE DEF IInv
<1>1. UNCHANGED <<links, entry, content, reservation, partial, journal, torn, row, cleanup,
                  lock, attempt, task, phase, lost, moves, faults>>
  BY DEF CleanMarker, Retire, dbVars, UnchangedByTask, UnchangedByCleaner
<1>2. /\ cleaner[c].own.token \in Tokens /\ row.own.token # cleaner[c].own.token
      /\ attempt[cleaner[c].own.token].at \in Settled \union {"releasing"}
      /\ cleaner[c].own.slot \in Slots \union {None}
  BY DEF CleanMarker, CleanupShape, TypeOK, Ownerships
<1>3. /\ \A d \in Cleaners : d # c => cleaner'[d] = cleaner[d]
      /\ cleaner'[c].at = "idle" \/ cleaner'[c].own = cleaner[c].own
  BY DEF CleanMarker, CleanerTo, CleanerRests, TypeOK, NoCleaner
<1>4. \A s \in Slots :
      /\ marker'[s] \in {marker[s], NoMarker}
      /\ marker'[s] # marker[s] =>
             marker[s].token = cleaner[c].own.token /\ partial[s] = None
  <2> SUFFICES ASSUME NEW s \in Slots, marker'[s] # marker[s]
               PROVE  /\ marker'[s] = NoMarker /\ marker[s].token = cleaner[c].own.token
                      /\ partial[s] = None
    OBVIOUS
  <2>1. /\ s = cleaner[c].own.slot /\ marker'[s] = NoMarker /\ partial[s] = None
        /\ marker[s].token \in {None, cleaner[c].own.token}
    BY DEF CleanMarker, TypeOK
  <2>2. marker[s].token # None
    BY <2>1, ReceiveAssumption DEF TypeOK, Markers, NoMarker
  <2> QED BY <2>1, <2>2
<1>5. /\ cleaner[c].at = "marker" /\ cleaner'[c].at \in {"idle", "journal"}
      /\ cleaner'[c].at = "journal" => \A s \in Slots :
             s = cleaner[c].own.slot => marker'[s] = NoMarker
  BY DEF CleanMarker, CleanerTo, CleanerRests, NoCleaner, TypeOK
<1>6. /\ LockHeld' /\ AttemptShape' /\ RowShape' /\ TaskShape' /\ PhaseShape' /\ FilesUsed'
      /\ NamesKept' /\ OwnedOrDue' /\ PublishedIsWhole'
  BY <1>1, Frames DEF RowOwnsTheSame
<1>7. CleanupShape'
  BY ReceiveAssumption
    DEF TypeOK, NoMarker, NoRecord, CleanMarker, CleanerTo, CleanerRests, NoCleaner,
        Nothing, UnchangedByCleaner, CleanupShape, Settled, LockHeld, AttemptShape,
        AwaitingRow, TaskShape, TaskHoldsRow, Outlived
<1>8. FilesOurs'
  BY <1>1, <1>4 DEF FilesOurs
<1>9. CopiesApart'
  BY <1>1, <1>4 DEF CopiesApart, IsCopy, IsPart
<1>10. WholeInTime'
  <2>1. task.at # "idle" /\ marker'[task.slot].token = task.token =>
            marker'[task.slot] = marker[task.slot]
    BY <1>4, ReceiveAssumption DEF TaskShape, NoMarker
  <2> QED BY <1>1, <2>1 DEF WholeInTime, Published
<1>11. PartialsKept'
  <2>1. \A k \in Tokens : attempt[k].at \in {"created", "marked"} =>
            attempt[k].slot \in Slots
    BY DEF AttemptShape
  <2> QED BY <1>1, <1>4, <2>1 DEF PartialsKept, PartialIsOwned
<1>12. Begun'
  BY <1>1, <1>4, ReceiveAssumption
    DEF Begun, NoMarkerOf, NoReservationOf, Due, Live, NoMarker
<1>13. OneMarker'
  <2>1. \A k, s : k # None /\ MarkersAt(k, s) => MarkersAt(k, s)'
    BY <1>4 DEF MarkersAt, NoMarker
  <2>2. \A d \in Cleaners : cleaner'[d].at # "idle" =>
            cleaner[d].at # "idle" /\ cleaner'[d].own = cleaner[d].own
    BY <1>3, <1>5
  <2>3. \A d \in Cleaners : cleaner[d].at # "idle" => cleaner[d].own.token # None
    BY ReceiveAssumption DEF CleanupShape
  <2>4. cleanup.due => cleanup.own.token # None
    BY ReceiveAssumption DEF CleanupShape
  <2> QED BY <1>1, <2>1, <2>2, <2>3, <2>4, ReceiveAssumption DEF OneMarker, Live
<1>14. Swept'
  <2>1. \A k : k # None /\ NoMarkerOf(k) => NoMarkerOf(k)'
    BY <1>4 DEF NoMarkerOf, NoMarker
  <2>2. cleaner'[c].at = "journal" /\ moves = 0 => NoMarkerOf(cleaner[c].own.token)'
    <3>1. moves = 0 => MarkersAt(cleaner[c].own.token, cleaner[c].own.slot)
      BY <1>5 DEF OneMarker
    <3>2. ASSUME moves = 0, cleaner'[c].at = "journal", NEW s \in Slots
          PROVE  marker'[s].token # cleaner[c].own.token
      <4>1. CASE s = cleaner[c].own.slot
        BY <1>2, <1>5, <3>2, <4>1, ReceiveAssumption DEF NoMarker
      <4>2. CASE s # cleaner[c].own.slot
        BY <1>4, <3>1, <3>2, <4>2 DEF MarkersAt
      <4> QED BY <4>1, <4>2
    <3> QED BY <1>3, <3>2 DEF NoMarkerOf
  <2>3. \A d \in Cleaners : cleaner[d].at # "idle" => cleaner[d].own.token # None
    BY ReceiveAssumption DEF CleanupShape
  <2> QED BY <1>1, <1>3, <1>5, <2>1, <2>2, <2>3 DEF Swept, NoReservationOf
<1>15. AllInHand'
  BY <1>1, <1>4, ReceiveAssumption DEF AllInHand, InHand, Due, Live, NoMarker
<1>16. AcceptedIsBacked'
  BY <1>1, <1>4 DEF AcceptedIsBacked, PartialIsOwned, ReservationIsOwned
<1>17. TypeOK'
  BY CleanMarkerTyped
<1> QED BY <1>6, <1>7, <1>8, <1>9, <1>10, <1>11, <1>12, <1>13, <1>14, <1>15, <1>16, <1>17

\* CleanJournal removes the journal of its token.
LEMMA CleanJournalKept ==
  ASSUME IInv, NEW c \in Cleaners, CleanJournal(c) PROVE IInv'
<1> USE DEF IInv
<1>1. UNCHANGED <<links, entry, content, reservation, partial, marker, row, cleanup, lock,
                  attempt, task, phase, lost, moves, faults>>
  BY DEF CleanJournal, Retire, dbVars, UnchangedByTask, UnchangedByCleaner
<1>2. /\ LockHeld' /\ AttemptShape' /\ RowShape' /\ TaskShape' /\ PhaseShape' /\ FilesUsed'
      /\ WholeInTime' /\ NamesKept' /\ PartialsKept' /\ OwnedOrDue' /\ AcceptedIsBacked'
      /\ PublishedIsWhole'
  BY <1>1, Frames DEF RowOwnsTheSame
<1>3. CleanupShape'
  BY DEF CleanJournal, CleanerTo, UnchangedByCleaner, CleanupShape
<1>4. FilesOurs'
  BY DEF NoRecord, CleanJournal, CleanerTo, UnchangedByCleaner, FilesOurs
<1>5. CopiesApart'
  BY DEF NoRecord, CleanJournal, UnchangedByCleaner, CopiesApart, IsCopy, IsPart
<1>6. Begun'
  BY ReceiveAssumption
    DEF NoMarker, NoRecord, CleanJournal, CleanerTo, UnchangedByCleaner, Begun,
        NoReservationOf, NoMarkerOf, Settled, Due, LockHeld, PartialIsOwned, Live, Ours
<1>7. OneMarker'
  BY DEF CleanJournal, CleanerTo, UnchangedByCleaner, OneMarker, MarkersAt, Live
<1>8. Swept'
  BY ReceiveAssumption
    DEF TypeOK, NoMarker, NoRecord, CleanJournal, CleanerTo, UnchangedByCleaner, Swept,
        NoReservationOf, NoMarkerOf, Outlived, CleanupShape
<1>9. AllInHand'
  BY ReceiveAssumption
    DEF NoRecord, CleanJournal, UnchangedByCleaner, AllInHand, InHand, Due, Live, Ours, Open
<1>10. TypeOK'
  BY CleanJournalTyped
<1> QED BY <1>2, <1>3, <1>4, <1>5, <1>6, <1>7, <1>8, <1>9, <1>10

\* CleanRow removes the record once nothing of the token is left.
LEMMA CleanRowKept ==
  ASSUME IInv, NEW c \in Cleaners, CleanRow(c) PROVE IInv'
<1> USE DEF IInv
<1>1. UNCHANGED <<links, entry, content, reservation, partial, marker, journal, torn, row,
                  lock, attempt, task, phase, lost, moves, faults>>
  BY DEF CleanRow, Retire, dbVars, UnchangedByTask, UnchangedByCleaner
<1>2. \/ cleanup' = cleanup
      \/ cleanup' = NoCleanup /\ cleanup.own = cleaner[c].own
  BY DEF CleanRow
<1>3. cleaner[c].at = "row" /\ cleaner'[c].at = "idle"
  BY DEF CleanRow, CleanerRests, NoCleaner, TypeOK
<1>4. /\ LockHeld' /\ AttemptShape' /\ RowShape' /\ TaskShape' /\ PhaseShape' /\ FilesUsed'
      /\ FilesOurs' /\ CopiesApart' /\ WholeInTime' /\ NamesKept' /\ PartialsKept'
      /\ AcceptedIsBacked' /\ PublishedIsWhole'
  BY <1>1, Frames DEF RowOwnsTheSame
<1>5. CleanupShape'
  BY DEF CleanRow, NoCleanup, CleanerRests, NoCleaner, UnchangedByCleaner, CleanupShape
<1>6. Begun'
  <2>1. ASSUME NEW k \in Tokens, attempt[k].at = "releasing", Due(k), ~Due(k)', moves = 0
        PROVE  NoMarkerOf(k)
    <3>1. cleaner[c].own.token = k
      BY <1>2, <2>1 DEF Due, NoCleanup
    <3>2. k \notin lost
      BY <2>1 DEF Begun, Settled
    <3> QED BY <1>3, <2>1, <3>1, <3>2 DEF Swept
  <2>2. ASSUME NEW k \in Tokens, attempt[k].at = "releasing"
        PROVE  Due(k)' \/ (moves = 0 => NoMarkerOf(k))
    BY <2>1, <2>2 DEF Begun
  <2> QED BY <1>1, <2>2 DEF Begun, NoMarkerOf, NoReservationOf, Live
<1>7. OneMarker'
  BY DEF CleanRow, NoCleanup, CleanerRests, NoCleaner, UnchangedByCleaner, OneMarker,
      MarkersAt, LockHeld, NoMarkerOf, Due, Live
<1>8. Swept'
  BY DEF CleanRow, CleanerRests, NoCleaner, UnchangedByCleaner, Swept, NoReservationOf,
      NoMarkerOf
<1>9. AllInHand'
  BY DEF CleanRow, UnchangedByCleaner, AllInHand, InHand, Due, NoReservationOf, NoMarkerOf,
      OneMarker, MarkersAt, Swept, Live
<1>10. OwnedOrDue'
  BY DEF CleanRow, NoCleanup, Nothing, UnchangedByCleaner, OwnedOrDue
<1>11. TypeOK'
  BY CleanRowTyped
<1> QED BY <1>4, <1>5, <1>6, <1>7, <1>8, <1>9, <1>10, <1>11

\* CleanerFails leaves the rest to a later run.
LEMMA CleanerFailsKept ==
  ASSUME IInv, NEW c \in Cleaners, CleanerFails(c) PROVE IInv'
<1> USE DEF IInv
<1>1. UNCHANGED <<links, entry, content, reservation, partial, marker, journal, torn, row,
                  cleanup, lock, attempt, task, phase, lost, moves>>
  BY DEF CleanerFails, Retire, dbVars, UnchangedByTask, UnchangedByCleaner
<1>2. /\ LockHeld' /\ AttemptShape' /\ RowShape' /\ TaskShape' /\ PhaseShape' /\ FilesUsed'
      /\ FilesOurs' /\ CopiesApart' /\ WholeInTime' /\ NamesKept' /\ PartialsKept' /\ Begun'
      /\ AllInHand' /\ OwnedOrDue' /\ AcceptedIsBacked' /\ PublishedIsWhole'
  BY <1>1, Frames DEF RowOwnsTheSame
<1>3. CleanupShape'
  BY DEF CleanerFails, CleanerRests, NoCleaner, UnchangedByCleaner, CleanupShape
<1>4. OneMarker'
  BY DEF CleanerFails, CleanerRests, NoCleaner, UnchangedByCleaner, OneMarker, MarkersAt,
      LockHeld, NoMarkerOf, Due, Live
<1>5. Swept'
  BY DEF CleanerFails, CleanerRests, NoCleaner, UnchangedByCleaner, Swept, NoReservationOf,
      NoMarkerOf
<1>6. TypeOK'
  BY CleanerFailsTyped
<1> QED BY <1>2, <1>3, <1>4, <1>5, <1>6

\* Crash loses the tokens that were in an acceptance's hand only.
LEMMA CrashKept ==
  ASSUME IInv, Crash PROVE IInv'
<1> USE DEF IInv
<1>1. UNCHANGED <<links, entry, content, reservation, partial, marker, journal, cleanup,
                  moves>>
  BY DEF Crash
<1>2. /\ row'.own = row.own /\ ~row'.claimed
      /\ row'.status = IF row.status = "transferring" THEN "paused" ELSE row.status
      /\ \A k \in Tokens : /\ attempt'[k].at \in {"idle", "over"} /\ attempt'[k].slot = None
                           /\ attempt'[k].at = "idle" <=> attempt[k].at = "idle"
                           /\ attempt'[k].at = "idle" => attempt'[k] = NoAttempt
      /\ task' = NoTask /\ task'.at = "idle"
  BY DEF Crash, NoAttempt, NoTask
<1>3. FilesUsed'
  BY <1>1, Frames
<1>4. LockHeld'
  BY ReceiveAssumption DEF Crash, NoAttempt, LockHeld
<1>5. AttemptShape'
  BY DEF Crash, AttemptShape
<1>6. RowShape'
  <2>1. row.own.token # None => row.own.token \in Tokens
    BY DEF TypeOK, Ownerships
  <2>2. row.own.token # None => attempt'[row.own.token].at \in Settled
    BY <1>2, <2>1 DEF RowShape, Settled
  <2>3. row = AwaitingRow => row' = AwaitingRow
    <3> SUFFICES ASSUME row = AwaitingRow PROVE row' = AwaitingRow
      OBVIOUS
    <3>1. row' = [AwaitingRow EXCEPT !.status = AwaitingRow.status,
                  !.claimed = AwaitingRow.claimed]
      BY DEF Crash, AwaitingRow
    <3> QED BY <3>1 DEF AwaitingRow
  <2> QED BY <1>2, <2>2, <2>3 DEF RowShape
<1>7. TaskShape'
  BY DEF Crash, NoTask, TaskShape
<1>8. CleanupShape'
  BY DEF Crash, NoCleaner, CleanupShape, Settled
<1>9. PhaseShape'
  BY DEF Crash, NoAttempt, NoTask, PhaseShape
<1>10. FilesOurs'
  BY DEF Crash, NoAttempt, NoTask, FilesOurs
<1>11. CopiesApart'
  <2>1. \A f \in Files : IsCopy(f)' => IsCopy(f)
    BY <1>1, <1>2, ReceiveAssumption DEF IsCopy, NoTask
  <2>2. \A f \in Files : IsPart(f)' => IsPart(f)
    BY <1>1, <1>2, ReceiveAssumption DEF IsPart, NoTask
  <2> QED BY <2>1, <2>2 DEF CopiesApart
<1>12. WholeInTime'
  BY DEF Crash, NoTask, WholeInTime
<1>13. NamesKept'
  BY DEF Crash, NoAttempt, NoTask, NamesKept
<1>14. PartialsKept'
  BY DEF Crash, NoAttempt, PartialsKept
<1>15. Begun'
  BY DEF Crash, Begun, NoReservationOf, NoMarkerOf, Settled, Live
<1>16. OneMarker'
  BY DEF Crash, NoAttempt, NoCleaner, OneMarker, MarkersAt, Live
<1>17. Swept'
  BY DEF Crash, NoCleaner, Swept
<1>18. AllInHand'
  BY DEF Crash, AllInHand, InHand, Due
<1>19. OwnedOrDue'
  BY DEF Crash, OwnedOrDue
<1>20. AcceptedIsBacked'
  BY DEF Crash, AcceptedIsBacked, ReservationIsOwned, PartialIsOwned, Open
<1>21. PublishedIsWhole'
  BY DEF Crash, PublishedIsWhole
<1>22. TypeOK'
  BY CrashTyped
<1> QED BY <1>3, <1>4, <1>5, <1>6, <1>7, <1>8, <1>9, <1>10, <1>11, <1>12, <1>13, <1>14,
   <1>15, <1>16, <1>17, <1>18, <1>19, <1>20, <1>21, <1>22

\* Opened lets the process go on.
LEMMA OpenedKept ==
  ASSUME IInv, Opened PROVE IInv'
<1> USE DEF IInv
<1>1. UNCHANGED <<links, entry, content, reservation, partial, marker, journal, torn, row,
                  cleanup, lock, attempt, task, cleaner, lost, moves, faults>>
  BY DEF Opened, dirVars, dbVars, UnchangedByTask, UnchangedByCleaner
<1>2. /\ LockHeld' /\ AttemptShape' /\ RowShape' /\ TaskShape' /\ CleanupShape'
      /\ FilesUsed' /\ FilesOurs' /\ CopiesApart' /\ WholeInTime' /\ NamesKept'
      /\ PartialsKept' /\ Begun' /\ OneMarker' /\ Swept' /\ AllInHand' /\ OwnedOrDue'
      /\ AcceptedIsBacked' /\ PublishedIsWhole'
  BY <1>1, Frames DEF RowOwnsTheSame
<1>3. PhaseShape'
  BY DEF Opened, CanStage, PhaseShape, LockHeld
<1>4. TypeOK'
  BY OpenedTyped
<1> QED BY <1>2, <1>3, <1>4

\* Reconcile completes only with the whole file, and begins a partial anew in a free slot.
LEMMA ReconcileKept ==
  ASSUME IInv, Reconcile PROVE IInv'
<1> USE DEF IInv
<1>1. UNCHANGED <<links, cleanup, lock, attempt, task, cleaner, lost, moves, faults>>
  BY DEF Reconcile
<1>2. TypeOK'
  BY ReconcileTyped
<1>3. CASE /\ phase = "reconcile" /\ phase' = "sweep"
           /\ UNCHANGED <<entry, content, reservation, partial, marker, journal, row>>
  <2>1. /\ LockHeld' /\ AttemptShape' /\ RowShape' /\ TaskShape' /\ CleanupShape'
        /\ FilesUsed' /\ FilesOurs' /\ CopiesApart' /\ WholeInTime' /\ NamesKept'
        /\ PartialsKept' /\ Begun' /\ OneMarker' /\ Swept' /\ AllInHand' /\ OwnedOrDue'
        /\ AcceptedIsBacked' /\ PublishedIsWhole'
    BY <1>1, <1>3, Frames DEF RowOwnsTheSame
  <2>2. PhaseShape'
    BY <1>1, <1>3 DEF PhaseShape
  <2> QED BY <2>1, <2>2, <1>2
<1>4. CASE /\ phase = "reconcile" /\ phase' = "sweep" /\ row.status = "paused"
           /\ FinalisedIsOwned /\ ReconcileFinalised
           /\ UNCHANGED <<entry, content, reservation, partial, marker, journal>>
  <2>1. /\ row.own.token \in Tokens /\ row.own.slot \in Slots /\ row.own.dest \in Names
        /\ attempt[row.own.token].at \in Settled /\ ~cleanup.due /\ task = NoTask
        /\ ~row.claimed
    BY <1>4 DEF RowShape, TypeOK, Ownerships, PhaseShape, TaskShape, OwnedOrDue
  <2>2. /\ journal.token = row.own.token /\ journal.name \in Names /\ journal.file \in Files
        /\ entry[journal.name] = journal.file
    BY <1>4 DEF FinalisedIsOwned, Records, TypeOK
  <2>3. /\ row'.own.token = row.own.token /\ row'.own.slot = row.own.slot
        /\ row'.claimed = row.claimed
        /\ \/ /\ row'.status = "completed" /\ content[journal.file] = "whole"
              /\ row'.own.dest = journal.name
           \/ row'.status = "failed" /\ row'.own.dest = row.own.dest
    BY <1>4 DEF ReconcileFinalised
  <2>4. /\ LockHeld' /\ AttemptShape' /\ FilesUsed' /\ FilesOurs' /\ CopiesApart'
        /\ WholeInTime' /\ PartialsKept' /\ Begun' /\ Swept'
    BY <1>1, <1>4, Frames
  <2>5. RowShape'
    BY <1>1, <2>1, <2>2, <2>3 DEF RowShape, NoTask
  <2>6. TaskShape'
    BY <1>1, <2>1 DEF TaskShape, NoTask
  <2>7. CleanupShape'
    BY <1>1, <2>3 DEF CleanupShape
  <2>8. PhaseShape'
    BY <1>1, <1>4 DEF PhaseShape
  <2>9. NamesKept'
    BY <1>1, <1>4, <2>3 DEF NamesKept, Holds, TaskHoldsRow
  <2>10. OneMarker'
    BY <1>1, <1>4, <2>3 DEF OneMarker, MarkersAt, Live
  <2>11. AllInHand'
    BY <1>1, <1>4, <2>3 DEF AllInHand, InHand, Due, Live
  <2>12. OwnedOrDue'
    BY <1>1, <2>1 DEF OwnedOrDue
  <2>13. AcceptedIsBacked'
    BY <2>3 DEF AcceptedIsBacked, Open
  <2>14. PublishedIsWhole'
    BY <1>4, <2>2, <2>3, ReceiveAssumption DEF PublishedIsWhole
  <2> QED BY <2>4, <2>5, <2>6, <2>7, <2>8, <2>9, <2>10, <2>11, <2>12, <2>13, <2>14, <1>2
<1>5. CASE /\ phase = "reconcile" /\ phase' = "sweep" /\ row.status = "paused"
           /\ ~PartialIsOwned(row.own.slot, row.own.token)
           /\ OwnSlots(row.own.token) # {}
           /\ row' = [row EXCEPT !.whole = FALSE, !.own.slot = Min(OwnSlots(row.own.token))]
           /\ UNCHANGED <<entry, content, reservation, partial, marker, journal>>
  <2>1. /\ row.own.token \in Tokens /\ row.own.slot \in Slots /\ row.own.dest \in Names
        /\ attempt[row.own.token].at \in Settled /\ ~cleanup.due /\ task = NoTask
        /\ ~row.claimed
    BY <1>5 DEF RowShape, TypeOK, Ownerships, PhaseShape, TaskShape, OwnedOrDue
  <2>2. moves # 0
    BY <1>5, <2>1, ReceiveAssumption DEF AcceptedIsBacked, Open
  <2>3. /\ row'.own.token = row.own.token /\ row'.own.slot \in Slots
        /\ row'.own.dest = row.own.dest
        /\ row'.claimed = row.claimed /\ row'.status = row.status
    BY <1>5, Picked DEF TypeOK, Ownerships
  <2>4. /\ LockHeld' /\ AttemptShape' /\ FilesUsed' /\ FilesOurs' /\ CopiesApart'
        /\ WholeInTime' /\ PartialsKept' /\ Begun' /\ Swept'
    BY <1>1, <1>5, Frames
  <2>5. RowShape'
    BY <1>1, <1>5, <2>3 DEF RowShape
  <2>6. TaskShape'
    BY <1>1, <2>1 DEF TaskShape, NoTask
  <2>7. CleanupShape'
    BY <1>1, <2>3 DEF CleanupShape
  <2>8. PhaseShape'
    BY <1>1, <1>5 DEF PhaseShape
  <2>9. NamesKept'
    BY <1>1, <1>5 DEF NamesKept, Holds, TaskHoldsRow
  <2>10. OneMarker'
    BY <1>1, <2>2 DEF OneMarker
  <2>11. AllInHand'
    BY <1>1, <1>5, <2>3 DEF AllInHand, InHand, Due, Live
  <2>12. OwnedOrDue'
    BY <1>1, <2>1 DEF OwnedOrDue
  <2>13. AcceptedIsBacked'
    BY <1>1, <1>5, <2>3 DEF AcceptedIsBacked
  <2>14. PublishedIsWhole'
    BY <1>5 DEF PublishedIsWhole
  <2> QED BY <2>4, <2>5, <2>6, <2>7, <2>8, <2>9, <2>10, <2>11, <2>12, <2>13, <2>14, <1>2
<1>6. CASE /\ phase = "reconcile" /\ phase' = "sweep" /\ row.status = "paused"
           /\ ~PartialIsOwned(row.own.slot, row.own.token)
           /\ FreeSlots # {} /\ FreeFiles # {}
           /\ LET s == Min(FreeSlots) IN
              /\ row' = [row EXCEPT !.whole = FALSE, !.own.slot = s]
              /\ partial' = [partial EXCEPT ![s] = NewFile]
              /\ marker' = [marker EXCEPT ![s] = [token |-> row.own.token,
                                                  file |-> NewFile]]
              /\ content' = [content EXCEPT ![NewFile] = "empty"]
           /\ UNCHANGED <<entry, reservation, journal>>
  <2>1. /\ row.own.token \in Tokens /\ row.own.slot \in Slots /\ row.own.dest \in Names
        /\ attempt[row.own.token].at \in Settled /\ ~cleanup.due /\ task = NoTask
        /\ ~row.claimed
    BY <1>6 DEF RowShape, TypeOK, Ownerships, PhaseShape, TaskShape, OwnedOrDue
  <2>2. moves # 0
    BY <1>6, <2>1, ReceiveAssumption DEF AcceptedIsBacked, Open
  <2>3. NewFile \in Files /\ content[NewFile] = "free" /\ Min(FreeSlots) \in Slots
    BY <1>6, Picked
  <2>4. /\ row'.own.token = row.own.token /\ row'.own.slot \in Slots
        /\ row'.own.dest = row.own.dest
        /\ row'.claimed = row.claimed /\ row'.status = row.status
    BY <1>6, Picked DEF TypeOK, Ownerships
  <2>5. /\ \A t \in Slots : \/ partial'[t] = partial[t] /\ marker'[t] = marker[t]
                            \/ /\ partial'[t] = NewFile
                               /\ marker'[t] = [token |-> row.own.token, file |-> NewFile]
        /\ \A f \in Files : f # NewFile => content'[f] = content[f]
        /\ content'[NewFile] = "empty"
    BY <1>6, <2>3 DEF TypeOK
  <2>6. LockHeld' /\ AttemptShape'
    BY <1>1, Frames
  <2>7. RowShape'
    BY <1>1, <1>6, <2>4 DEF RowShape
  <2>8. TaskShape'
    BY <1>1, <2>1 DEF TaskShape, NoTask
  <2>9. CleanupShape'
    BY <1>1, <2>4 DEF CleanupShape
  <2>10. PhaseShape'
    BY <1>1, <1>6 DEF PhaseShape
  <2>11. FilesUsed'
    BY <1>6, <2>5 DEF FilesUsed
  <2>12. FilesOurs'
    BY <1>1, <1>6, <2>5 DEF FilesOurs, Ours
  <2>13. CopiesApart'
    <3>1. ~IsCopy(NewFile)
      BY <2>3, ReceiveAssumption DEF IsCopy, FilesOurs, Ours, NoRecord
    <3>2. \A f \in Files : IsCopy(f)' => IsCopy(f)
      BY <1>1, <1>6 DEF IsCopy
    <3>3. \A f \in Files : IsPart(f)' => IsPart(f) \/ f = NewFile
      BY <1>1, <2>5 DEF IsPart
    <3> QED BY <3>1, <3>2, <3>3 DEF CopiesApart
  <2>14. WholeInTime'
    BY <1>1, <2>1 DEF WholeInTime, NoTask
  <2>15. NamesKept'
    BY <1>1, <1>6 DEF NamesKept, Holds, TaskHoldsRow
  <2>16. PartialsKept'
    BY <1>1, <1>6, <2>5 DEF PartialsKept, PhaseShape
  <2>17. Begun'
    BY <1>1, <1>6, <2>1 DEF Begun, NoMarkerOf, NoReservationOf, Due, Live, Settled
  <2>18. OneMarker'
    BY <1>1, <2>2 DEF OneMarker
  <2>19. Swept'
    BY <1>1, <1>6, <2>2 DEF Swept, NoReservationOf
  <2>20. AllInHand'
    BY <1>1, <1>6, <2>4 DEF AllInHand, InHand, Due, Live
  <2>21. OwnedOrDue'
    BY <1>1, <2>1 DEF OwnedOrDue
  <2>22. AcceptedIsBacked'
    BY <1>1, <1>6, <2>1, ReceiveAssumption DEF AcceptedIsBacked
  <2>23. PublishedIsWhole'
    BY <1>6 DEF PublishedIsWhole
  <2> QED BY <2>6, <2>7, <2>8, <2>9, <2>10, <2>11, <2>12, <2>13, <2>14, <2>15, <2>16, <2>17,
     <2>18, <2>19, <2>20, <2>21, <2>22, <2>23, <1>2
<1> QED BY <1>3, <1>4, <1>5, <1>6
  DEF Reconcile, ReconcilePartial, ReconcileFinalised, dirVars

\* PutFile is the user's: what is under a name afterwards is foreign.
LEMMA PutFileKept == ASSUME IInv, NEW n \in Names, PutFile(n) PROVE IInv'
<1> USE DEF IInv
<1>1. UNCHANGED <<links, reservation, partial, marker, journal, torn, row, cleanup, lock,
                  attempt, task, cleaner, phase, lost, faults>>
  BY DEF PutFile, dbVars, UnchangedByCleaner, UnchangedByMove, UnchangedOutside
<1>2. /\ LockHeld' /\ AttemptShape' /\ RowShape' /\ TaskShape' /\ CleanupShape'
      /\ PhaseShape' /\ CopiesApart' /\ OwnedOrDue'
  BY <1>1, Frames DEF RowOwnsTheSame
<1>3. FilesUsed'
  BY Picked DEF TypeOK, PutFile, FilesUsed, LockHeld
<1>4. FilesOurs'
  BY <1>1, Picked DEF PutFile, Move, FilesOurs, LockHeld, Ours, Open
<1>5. WholeInTime'
  BY Picked DEF TypeOK, PutFile, Move, UnchangedByMove, WholeInTime, Published
<1>6. NamesKept'
  BY ReceiveAssumption DEF TypeOK, PutFile, Move, NamesKept
<1>7. PartialsKept'
  BY DEF TypeOK, PutFile, Move, UnchangedByMove, PartialsKept, PartialIsOwned
<1>8. Begun'
  BY DEF TypeOK, PutFile, Move, UnchangedByMove, dbVars, Begun, NoReservationOf, NoMarkerOf,
      CleanupShape, PhaseShape, PartialIsOwned, Live, Ours
<1>9. OneMarker'
  BY ReceiveAssumption DEF TypeOK, PutFile, Move, OneMarker
<1>10. Swept'
  BY DEF TypeOK, PutFile, Move, UnchangedByMove, Swept, NoReservationOf
<1>11. AllInHand'
  BY DEF TypeOK, PutFile, Move, UnchangedByMove, dbVars, AllInHand, InHand, Due, LockHeld,
      AttemptShape, Swept, Live, Ours
<1>12. AcceptedIsBacked'
  BY ReceiveAssumption DEF TypeOK, PutFile, Move, AcceptedIsBacked
<1>13. PublishedIsWhole'
  BY <1>1, Picked DEF TypeOK, PutFile, Move, PublishedIsWhole
<1>14. TypeOK'
  BY PutFileTyped
<1> QED BY <1>2, <1>3, <1>4, <1>5, <1>6, <1>7, <1>8, <1>9, <1>10, <1>11, <1>12, <1>13, <1>14

\* TakeFile is the user's: a name is empty afterwards.
LEMMA TakeFileKept == ASSUME IInv, NEW n \in Names, TakeFile(n) PROVE IInv'
<1> USE DEF IInv
<1>1. UNCHANGED <<links, content, reservation, partial, marker, journal, torn, row, cleanup,
                  lock, attempt, task, cleaner, phase, lost, faults>>
  BY DEF TakeFile, dbVars, UnchangedByCleaner, UnchangedByMove, UnchangedOutside
<1>2. /\ LockHeld' /\ AttemptShape' /\ RowShape' /\ TaskShape' /\ CleanupShape'
      /\ PhaseShape' /\ FilesOurs' /\ CopiesApart' /\ OwnedOrDue'
  BY <1>1, Frames DEF RowOwnsTheSame
<1>3. FilesUsed'
  BY DEF NoRecord, TakeFile, dbVars, FilesUsed
<1>4. WholeInTime'
  BY DEF TypeOK, TakeFile, Move, UnchangedByMove, WholeInTime, Published
<1>5. NamesKept'
  BY ReceiveAssumption DEF TypeOK, TakeFile, Move, NamesKept
<1>6. PartialsKept'
  BY DEF TypeOK, TakeFile, Move, UnchangedByMove, PartialsKept, PartialIsOwned
<1>7. Begun'
  BY DEF TypeOK, TakeFile, Move, UnchangedByMove, dbVars, Begun, NoReservationOf,
      NoMarkerOf, CleanupShape, PhaseShape, PartialIsOwned, Live, Ours
<1>8. OneMarker'
  BY ReceiveAssumption DEF TypeOK, TakeFile, Move, OneMarker
<1>9. Swept'
  BY DEF TypeOK, TakeFile, Move, UnchangedByMove, Swept, NoReservationOf
<1>10. AllInHand'
  BY DEF TypeOK, TakeFile, Move, UnchangedByMove, dbVars, AllInHand, InHand, Due, LockHeld,
      AttemptShape, Swept, Live, Ours
<1>11. AcceptedIsBacked'
  BY ReceiveAssumption DEF TypeOK, TakeFile, Move, AcceptedIsBacked
<1>12. PublishedIsWhole'
  BY DEF TypeOK, TakeFile, Move, UnchangedByMove, dbVars, PublishedIsWhole
<1>13. TypeOK'
  BY TakeFileTyped
<1> QED BY <1>2, <1>3, <1>4, <1>5, <1>6, <1>7, <1>8, <1>9, <1>10, <1>11, <1>12, <1>13

\* SwapFile is the user's: what is under a name afterwards is foreign.
LEMMA SwapFileKept == ASSUME IInv, NEW n \in Names, SwapFile(n) PROVE IInv'
<1> USE DEF IInv
<1>1. UNCHANGED <<links, reservation, partial, marker, journal, torn, row, cleanup, lock,
                  attempt, task, cleaner, phase, lost, faults>>
  BY DEF SwapFile, dbVars, UnchangedByCleaner, UnchangedByMove, UnchangedOutside
<1>2. /\ LockHeld' /\ AttemptShape' /\ RowShape' /\ TaskShape' /\ CleanupShape'
      /\ PhaseShape' /\ CopiesApart' /\ OwnedOrDue'
  BY <1>1, Frames DEF RowOwnsTheSame
<1>3. FilesUsed'
  BY Picked DEF TypeOK, SwapFile, FilesUsed, LockHeld
<1>4. FilesOurs'
  BY <1>1, Picked DEF SwapFile, Move, FilesOurs, LockHeld, Ours, Open
<1>5. WholeInTime'
  BY Picked DEF TypeOK, SwapFile, Move, UnchangedByMove, WholeInTime, Published
<1>6. NamesKept'
  BY ReceiveAssumption DEF TypeOK, SwapFile, Move, NamesKept
<1>7. PartialsKept'
  BY DEF TypeOK, SwapFile, Move, UnchangedByMove, PartialsKept, PartialIsOwned
<1>8. Begun'
  BY DEF TypeOK, SwapFile, Move, UnchangedByMove, dbVars, Begun, NoReservationOf,
      NoMarkerOf, CleanupShape, PhaseShape, PartialIsOwned, Live, Ours
<1>9. OneMarker'
  BY ReceiveAssumption DEF TypeOK, SwapFile, Move, OneMarker
<1>10. Swept'
  BY DEF TypeOK, SwapFile, Move, UnchangedByMove, Swept, NoReservationOf
<1>11. AllInHand'
  BY DEF TypeOK, SwapFile, Move, UnchangedByMove, dbVars, AllInHand, InHand, Due, LockHeld,
      AttemptShape, Swept, Live, Ours
<1>12. AcceptedIsBacked'
  BY ReceiveAssumption DEF TypeOK, SwapFile, Move, AcceptedIsBacked
<1>13. PublishedIsWhole'
  BY <1>1, Picked DEF TypeOK, SwapFile, Move, PublishedIsWhole
<1>14. TypeOK'
  BY SwapFileTyped
<1> QED BY <1>2, <1>3, <1>4, <1>5, <1>6, <1>7, <1>8, <1>9, <1>10, <1>11, <1>12, <1>13, <1>14

\* TakeReservation is the user's: nothing is reserved that was not.
LEMMA TakeReservationKept == ASSUME IInv, NEW n \in Names, TakeReservation(n) PROVE IInv'
<1> USE DEF IInv
<1>1. UNCHANGED <<links, entry, content, partial, marker, journal, torn, row, cleanup, lock,
                  attempt, task, cleaner, phase, lost, faults>>
  BY DEF TakeReservation, dbVars, UnchangedByCleaner, UnchangedByMove, UnchangedOutside
<1>2. /\ LockHeld' /\ AttemptShape' /\ RowShape' /\ TaskShape' /\ CleanupShape'
      /\ PhaseShape' /\ FilesUsed' /\ FilesOurs' /\ CopiesApart' /\ OwnedOrDue'
  BY <1>1, Frames DEF RowOwnsTheSame
<1>3. WholeInTime'
  BY DEF TypeOK, TakeReservation, Move, UnchangedByMove, WholeInTime, Published
<1>4. NamesKept'
  BY ReceiveAssumption DEF TypeOK, TakeReservation, Move, NamesKept
<1>5. PartialsKept'
  BY DEF TypeOK, TakeReservation, Move, UnchangedByMove, PartialsKept, PartialIsOwned
<1>6. Begun'
  BY ReceiveAssumption
    DEF TypeOK, TakeReservation, Move, UnchangedByMove, dbVars, Begun, NoReservationOf,
        NoMarkerOf, CleanupShape, PhaseShape, PartialIsOwned, Live, Ours
<1>7. OneMarker'
  BY ReceiveAssumption DEF TypeOK, TakeReservation, Move, OneMarker
<1>8. Swept'
  BY ReceiveAssumption
    DEF TypeOK, TakeReservation, Move, UnchangedByMove, dbVars, Swept, NoReservationOf,
        Outlived, CleanupShape, PhaseShape
<1>9. AllInHand'
  BY ReceiveAssumption
    DEF TypeOK, NoMarker, NoRecord, TakeReservation, Move, UnchangedByMove, dbVars,
        AllInHand, InHand, Due, LockHeld, AttemptShape, Swept, Live, Ours
<1>10. AcceptedIsBacked'
  BY ReceiveAssumption DEF TypeOK, TakeReservation, Move, AcceptedIsBacked
<1>11. PublishedIsWhole'
  BY DEF TypeOK, TakeReservation, Move, UnchangedByMove, dbVars, PublishedIsWhole
<1>12. TypeOK'
  BY TakeReservationTyped
<1> QED BY <1>2, <1>3, <1>4, <1>5, <1>6, <1>7, <1>8, <1>9, <1>10, <1>11, <1>12

\* OthersReserve takes a name nobody has.
LEMMA OthersReserveKept == ASSUME IInv, NEW n \in Names, OthersReserve(n) PROVE IInv'
<1> USE DEF IInv
<1>1. UNCHANGED <<links, entry, content, partial, marker, journal, torn, row, cleanup, lock,
                  attempt, task, cleaner, phase, lost, faults>>
  BY DEF OthersReserve, dbVars, UnchangedByCleaner, UnchangedByMove, UnchangedOutside
<1>2. /\ LockHeld' /\ AttemptShape' /\ RowShape' /\ TaskShape' /\ CleanupShape'
      /\ PhaseShape' /\ FilesUsed' /\ FilesOurs' /\ CopiesApart' /\ OwnedOrDue'
  BY <1>1, Frames DEF RowOwnsTheSame
<1>3. WholeInTime'
  BY DEF TypeOK, OthersReserve, Move, UnchangedByMove, WholeInTime, Published, LockHeld,
      AttemptShape
<1>4. NamesKept'
  BY DEF TypeOK, OthersReserve, Move, dbVars, NamesKept
<1>5. PartialsKept'
  BY DEF TypeOK, OthersReserve, Move, UnchangedByMove, dbVars, PartialsKept
<1>6. Begun'
  BY ReceiveAssumption
    DEF TypeOK, NoMarker, NoRecord, OthersReserve, Move, Reservable, UnchangedByMove,
        dbVars, Begun, NoReservationOf, NoMarkerOf, Settled, Live, Ours, Open
<1>7. OneMarker'
  BY DEF TypeOK, OthersReserve, Move, dbVars, OneMarker
<1>8. Swept'
  BY ReceiveAssumption
    DEF TypeOK, NoMarker, NoRecord, OthersReserve, Move, Reservable, UnchangedByMove,
        dbVars, Swept, NoReservationOf, NoMarkerOf, LockHeld, TaskHoldsRow, Outlived,
        CleanupShape
<1>9. AllInHand'
  BY ReceiveAssumption
    DEF TypeOK, NoMarker, NoRecord, OthersReserve, Move, Reservable, UnchangedByMove,
        dbVars, AllInHand, InHand, Due, LockHeld, MarkersAt, Swept, Live
<1>10. AcceptedIsBacked'
  BY DEF TypeOK, OthersReserve, Move, dbVars, AcceptedIsBacked
<1>11. PublishedIsWhole'
  BY DEF TypeOK, OthersReserve, Move, UnchangedByMove, dbVars, PublishedIsWhole
<1>12. TypeOK'
  BY OthersReserveTyped
<1> QED BY <1>2, <1>3, <1>4, <1>5, <1>6, <1>7, <1>8, <1>9, <1>10, <1>11, <1>12

\* OthersRelease gives up a name that is not ours.
LEMMA OthersReleaseKept == ASSUME IInv, NEW n \in Names, OthersRelease(n) PROVE IInv'
<1> USE DEF IInv
<1>1. UNCHANGED <<links, entry, content, partial, marker, journal, torn, row, cleanup, lock,
                  attempt, task, cleaner, phase, lost, faults>>
  BY DEF OthersRelease, dbVars, UnchangedByCleaner, UnchangedByMove, UnchangedOutside
<1>2. /\ LockHeld' /\ AttemptShape' /\ RowShape' /\ TaskShape' /\ CleanupShape'
      /\ PhaseShape' /\ FilesUsed' /\ FilesOurs' /\ CopiesApart' /\ OwnedOrDue'
  BY <1>1, Frames DEF RowOwnsTheSame
<1>3. WholeInTime'
  BY DEF TypeOK, OthersRelease, Move, UnchangedByMove, WholeInTime, Published
<1>4. NamesKept'
  BY ReceiveAssumption DEF TypeOK, OthersRelease, Move, NamesKept
<1>5. PartialsKept'
  BY DEF TypeOK, OthersRelease, Move, UnchangedByMove, PartialsKept, PartialIsOwned
<1>6. Begun'
  BY ReceiveAssumption
    DEF TypeOK, OthersRelease, Move, UnchangedByMove, dbVars, Begun, NoReservationOf,
        NoMarkerOf, CleanupShape, PhaseShape, PartialIsOwned, Live, Ours
<1>7. OneMarker'
  BY ReceiveAssumption DEF TypeOK, OthersRelease, Move, OneMarker
<1>8. Swept'
  BY ReceiveAssumption
    DEF TypeOK, OthersRelease, Move, UnchangedByMove, dbVars, Swept, NoReservationOf,
        Outlived, CleanupShape, PhaseShape
<1>9. AllInHand'
  BY ReceiveAssumption
    DEF TypeOK, NoMarker, NoRecord, OthersRelease, Move, UnchangedByMove, dbVars, AllInHand,
        InHand, Due, LockHeld, AttemptShape, Swept, Live, Ours
<1>10. AcceptedIsBacked'
  BY ReceiveAssumption DEF TypeOK, OthersRelease, Move, AcceptedIsBacked
<1>11. PublishedIsWhole'
  BY DEF TypeOK, OthersRelease, Move, UnchangedByMove, dbVars, PublishedIsWhole
<1>12. TypeOK'
  BY OthersReleaseTyped
<1> QED BY <1>2, <1>3, <1>4, <1>5, <1>6, <1>7, <1>8, <1>9, <1>10, <1>11, <1>12

\* TakePartial is the user's: a slot is empty afterwards.
LEMMA TakePartialKept == ASSUME IInv, NEW s \in Slots, TakePartial(s) PROVE IInv'
<1> USE DEF IInv
<1>1. UNCHANGED <<links, entry, content, reservation, marker, journal, torn, row, cleanup,
                  lock, attempt, task, cleaner, phase, lost, faults>>
  BY DEF TakePartial, dbVars, UnchangedByCleaner, UnchangedByMove, UnchangedOutside
<1>2. /\ LockHeld' /\ AttemptShape' /\ RowShape' /\ TaskShape' /\ CleanupShape'
      /\ PhaseShape' /\ FilesOurs' /\ CopiesApart' /\ OwnedOrDue'
  BY <1>1, Frames DEF RowOwnsTheSame
<1>3. FilesUsed'
  BY DEF NoRecord, TakePartial, dbVars, FilesUsed
<1>4. WholeInTime'
  BY DEF TypeOK, TakePartial, Move, UnchangedByMove, WholeInTime, Published
<1>5. NamesKept'
  BY ReceiveAssumption DEF TypeOK, TakePartial, Move, NamesKept
<1>6. PartialsKept'
  BY DEF TypeOK, TakePartial, Move, UnchangedByMove, PartialsKept, PartialIsOwned
<1>7. Begun'
  BY DEF TypeOK, TakePartial, Move, UnchangedByMove, dbVars, Begun, NoReservationOf,
      NoMarkerOf, CleanupShape, PhaseShape, PartialIsOwned, Live, Ours
<1>8. OneMarker'
  BY ReceiveAssumption DEF TypeOK, TakePartial, Move, OneMarker
<1>9. Swept'
  BY DEF TypeOK, TakePartial, Move, UnchangedByMove, Swept, NoReservationOf
<1>10. AllInHand'
  BY DEF TypeOK, TakePartial, Move, UnchangedByMove, dbVars, AllInHand, InHand, Due,
      LockHeld, AttemptShape, Swept, Live, Ours
<1>11. AcceptedIsBacked'
  BY ReceiveAssumption DEF TypeOK, TakePartial, Move, AcceptedIsBacked
<1>12. PublishedIsWhole'
  BY DEF TypeOK, TakePartial, Move, UnchangedByMove, dbVars, PublishedIsWhole
<1>13. TypeOK'
  BY TakePartialTyped
<1> QED BY <1>2, <1>3, <1>4, <1>5, <1>6, <1>7, <1>8, <1>9, <1>10, <1>11, <1>12, <1>13

\* SwapPartial is the user's: what is in a slot afterwards is foreign.
LEMMA SwapPartialKept == ASSUME IInv, NEW s \in Slots, SwapPartial(s) PROVE IInv'
<1> USE DEF IInv
<1>1. UNCHANGED <<links, entry, reservation, marker, journal, torn, row, cleanup, lock,
                  attempt, task, cleaner, phase, lost, faults>>
  BY DEF SwapPartial, dbVars, UnchangedByCleaner, UnchangedByMove, UnchangedOutside
<1>2. /\ LockHeld' /\ AttemptShape' /\ RowShape' /\ TaskShape' /\ CleanupShape'
      /\ PhaseShape' /\ CopiesApart' /\ OwnedOrDue'
  BY <1>1, Frames DEF RowOwnsTheSame
<1>3. FilesUsed'
  BY Picked DEF TypeOK, SwapPartial, FilesUsed, LockHeld
<1>4. FilesOurs'
  BY <1>1, Picked DEF SwapPartial, Move, FilesOurs, LockHeld, Ours, Open
<1>5. WholeInTime'
  BY Picked DEF TypeOK, SwapPartial, Move, UnchangedByMove, WholeInTime, Published
<1>6. NamesKept'
  BY ReceiveAssumption DEF TypeOK, SwapPartial, Move, NamesKept
<1>7. PartialsKept'
  BY DEF TypeOK, SwapPartial, Move, UnchangedByMove, PartialsKept, PartialIsOwned
<1>8. Begun'
  BY DEF TypeOK, SwapPartial, Move, UnchangedByMove, dbVars, Begun, NoReservationOf,
      NoMarkerOf, CleanupShape, PhaseShape, PartialIsOwned, Live, Ours
<1>9. OneMarker'
  BY ReceiveAssumption DEF TypeOK, SwapPartial, Move, OneMarker
<1>10. Swept'
  BY DEF TypeOK, SwapPartial, Move, UnchangedByMove, Swept, NoReservationOf
<1>11. AllInHand'
  BY DEF TypeOK, SwapPartial, Move, UnchangedByMove, dbVars, AllInHand, InHand, Due,
      LockHeld, AttemptShape, Swept, Live, Ours
<1>12. AcceptedIsBacked'
  BY ReceiveAssumption DEF TypeOK, SwapPartial, Move, AcceptedIsBacked
<1>13. PublishedIsWhole'
  BY DEF TypeOK, SwapPartial, Move, UnchangedByMove, dbVars, PublishedIsWhole
<1>14. TypeOK'
  BY SwapPartialTyped
<1> QED BY <1>2, <1>3, <1>4, <1>5, <1>6, <1>7, <1>8, <1>9, <1>10, <1>11, <1>12, <1>13, <1>14

\* The invariant holds at first: nothing is reserved, and the row waits for an answer.
LEMMA InitKept == Init => IInv
<1> SUFFICES ASSUME Init PROVE IInv
  OBVIOUS
<1> USE ReceiveAssumption
<1>1. /\ attempt = [k \in Tokens |-> NoAttempt] /\ task = NoTask /\ row = AwaitingRow
      /\ marker = [s \in Slots |-> NoMarker] /\ journal = NoRecord /\ cleanup = NoCleanup
      /\ partial = [s \in Slots |-> None] /\ entry = [n \in Names |-> None]
      /\ cleaner = [c \in Cleaners |-> NoCleaner] /\ lock = None /\ phase = "running"
      /\ lost = {}
      /\ \A n \in Names : reservation[n] \notin Tokens
  BY DEF Init, AwaitingRow
<1>2. TypeOK
  <2>1. AwaitingRow \in [status : Open \union Ended, own : Ownerships, claimed : BOOLEAN,
                         whole : BOOLEAN]
    BY DEF AwaitingRow, Open, Ownerships, Nothing
  <2>2. /\ NoAttempt \in Attempts
        /\ NoTask \in Tasks
        /\ NoCleaner \in [at : CleanerSteps, own : Ownerships]
        /\ NoCleanup \in [due : BOOLEAN, own : Ownerships]
    BY DEF NoAttempt, Attempts, NoTask, Tasks, TaskSteps, AttemptSteps, NoCleaner,
        CleanerSteps, NoCleanup, Ownerships, Nothing
  <2>3. /\ content \in [Files -> Contents]
        /\ reservation \in [Names -> Tokens \union {None, Others}]
    BY DEF Init, Contents
  <2>4. moves \in 0..MaxMoves /\ faults \in 0..MaxFaults
    BY DEF Init
  <2>5. links \in BOOLEAN /\ torn \in BOOLEAN
    BY DEF Init
  <2> QED BY <1>1, <2>1, <2>2, <2>3, <2>4, <2>5 DEF TypeOK, Attempts, Tasks
<1>3. LockHeld /\ AttemptShape /\ PhaseShape
  BY <1>1 DEF LockHeld, AttemptShape, PhaseShape, NoAttempt
<1>4. RowShape /\ TaskShape /\ CleanupShape
  BY <1>1
    DEF RowShape, TaskShape, CleanupShape, AwaitingRow, NoTask, NoCleanup, NoCleaner,
        Nothing
<1>5. FilesUsed /\ FilesOurs /\ CopiesApart /\ WholeInTime
  BY <1>1
    DEF FilesUsed, FilesOurs, CopiesApart, IsCopy, WholeInTime, NoAttempt, NoTask, NoRecord
<1>6. NamesKept /\ PartialsKept
  BY <1>1 DEF NamesKept, PartialsKept, NoAttempt, NoTask
<1>7. Begun /\ OneMarker /\ Swept /\ AllInHand
  BY <1>1
    DEF Begun, OneMarker, Swept, AllInHand, NoReservationOf, NoMarkerOf, MarkersAt,
        NoMarker, NoRecord, NoCleanup, NoCleaner
<1>8. OwnedOrDue /\ AcceptedIsBacked /\ PublishedIsWhole
  BY <1>1 DEF OwnedOrDue, AcceptedIsBacked, PublishedIsWhole, AwaitingRow, Nothing
<1> QED BY <1>2, <1>3, <1>4, <1>5, <1>6, <1>7, <1>8 DEF IInv

\* Every step keeps the invariant.
LEMMA StepKept == ASSUME IInv, [Next]_vars PROVE IInv'
<1>1. ASSUME NEW k \in Tokens, AttemptStep(k) PROVE IInv'
  BY <1>1, ReserveKept, CreatePartialKept, MarkPartialKept, PersistKept,
     LosesReservationKept, AcceptFailsKept, FallBackAfterRefusalKept, RemoveUnpersistedKept,
     ReleaseNameKept, CompensateKept, ReturnToManualKept
    DEF AttemptStep
<1>2. ASSUME TaskStep PROVE IInv'
  BY <1>2, ClaimKept, ReceiveKept, FinaliseKept, JournalPreparedKept, LinkKept,
     JournalLinkedKept, ReplaceKept, SwitchKept, ReleaseOldKept, PrepareCopyKept,
     JournalCopyKept, StartCopyKept, FillCopyKept, JournalCopiedKept, VolumeFullKept,
     CompleteKept, TaskFailsKept
    DEF TaskStep
<1>3. ASSUME NEW c \in Cleaners, CleanerStep(c) PROVE IInv'
  BY <1>3, StartCleanerKept, CleanReservationsKept, CleanPartialKept, CleanMarkerKept,
     CleanJournalKept, CleanRowKept, CleanerFailsKept
    DEF CleanerStep
<1>4. ASSUME MoveStep PROVE IInv'
  BY <1>4, PutFileKept, TakeFileKept, SwapFileKept, TakeReservationKept, OthersReserveKept,
     OthersReleaseKept, TakePartialKept, SwapPartialKept
    DEF MoveStep
<1>5. CASE UNCHANGED vars
  <2>1. UNCHANGED <<links, entry, content, reservation, partial, marker, journal, torn, row,
          cleanup,
                    lock, attempt, task, cleaner, phase, lost, moves, faults>>
    BY <1>5 DEF vars, dirVars, dbVars
  <2>2. TypeOK'
    BY <2>1 DEF IInv, TypeOK
  <2> QED BY <2>1, <2>2, Frames DEF IInv, RowOwnsTheSame
<1> QED BY <1>1, <1>2, <1>3, <1>4, <1>5, CancelKept, RemoteEndsKept, StageOwnedKept,
   CrashKept, ReconcileKept, OpenedKept
  DEF Next

-----------------------------------------------------------------------------
(* The theorems. *)

\* Every reachable state has the invariant, for every value of the constants.
THEOREM Invariant == Spec => []IInv
<1>1. Init => IInv
  BY InitKept
<1>2. IInv /\ [Next]_vars => IInv'
  BY StepKept
<1> QED BY <1>1, <1>2, PTL DEF Spec

\* Every reachable state is well typed (TypeOK).
THEOREM TypeCorrect == Spec => []TypeOK
<1>1. IInv => TypeOK
  BY DEF IInv
<1> QED BY <1>1, Invariant, PTL

\* What a completed transfer shows under its name is the whole file, whichever of the links,
\* the copy and the restarts has put it there (PublishedIsWhole).
THEOREM PublishedWhole == Spec => []PublishedIsWhole
<1>1. IInv => PublishedIsWhole
  BY DEF IInv
<1> QED BY <1>1, Invariant, PTL

\* What the row owns is never due for removal, in any order of acceptances that fail, answers
\* that overtake each other and cleanups that are late (OwnedOrDue).
THEOREM OwnedIsNotDue == Spec => []OwnedOrDue
<1>1. IInv => OwnedOrDue
  BY DEF IInv
<1> QED BY <1>1, Invariant, PTL

\* An open row that owns files has its reservation and its partial, as long as nobody else
\* touches the directory: no late cleanup and no switch of names takes them (AcceptedIsBacked).
THEOREM AcceptedBacked == Spec => []AcceptedIsBacked
<1>1. IInv => AcceptedIsBacked
  BY DEF IInv
<1> QED BY <1>1, Invariant, PTL

\* Nothing hidden is left of which nobody knows (NothingOrphaned): AllInHand, from the
\* directory's side.
THEOREM NothingIsOrphaned == Spec => []NothingOrphaned
<1>1. IInv => NothingOrphaned
  BY DEF IInv, AllInHand, InHand, Due, NothingOrphaned, Known
<1> QED BY <1>1, Invariant, PTL

-----------------------------------------------------------------------------
(* What is somebody else's. *)

\* A step of ours changes what is under a name only where there is nothing, or a file of ours.
LEMMA FilesUntouched ==
  ASSUME IInv, Next, moves' = moves, NEW n \in Names
  PROVE  \/ entry'[n] = entry[n]
         \/ entry[n] = None
         \/ entry[n] \in Files /\ content[entry[n]] \in Ours
<1> USE DEF IInv
<1>1. CASE Link
  BY <1>1 DEF Link, TypeOK
<1>2. CASE PrepareCopy
  BY <1>2 DEF PrepareCopy, TypeOK
<1>3. CASE VolumeFull
  <2>1. task.copy \in Files /\ content[task.copy] \in Ours
    BY <1>3, ReceiveAssumption DEF VolumeFull, TaskShape, FilesOurs
  <2> QED BY <1>3, <2>1 DEF VolumeFull, Retire, Removed
<1>4. CASE MoveStep
  BY <1>4
    DEF MoveStep, Move, PutFile, TakeFile, SwapFile, TakeReservation, OthersReserve,
        OthersRelease, TakePartial, SwapPartial, TypeOK
<1>5. CASE ~Link /\ ~PrepareCopy /\ ~VolumeFull /\ ~MoveStep
  <2>1. ASSUME NEW k \in Tokens, AttemptStep(k) PROVE entry' = entry
    BY <2>1
      DEF AttemptStep, dirVars, Reserve, CreatePartial, MarkPartial, Persist,
          LosesReservation, AcceptFails, FallBackAfterRefusal, RemoveUnpersisted,
          ReleaseName, Compensate, ReturnToManual
  <2>2. ASSUME TaskStep PROVE entry' = entry
    BY <1>5, <2>2
      DEF TaskStep, dirVars, Claim, Receive, Finalise, JournalPrepared, JournalLinked,
          Replace, Switch, ReleaseOld, JournalCopy, StartCopy, FillCopy, JournalCopied,
          Complete, TaskFails
  <2>3. ASSUME NEW c \in Cleaners, CleanerStep(c) PROVE entry' = entry
    BY <2>3
      DEF CleanerStep, UnchangedByCleaner, StartCleaner, CleanReservations, CleanPartial,
          CleanMarker, CleanJournal, CleanRow, CleanerFails
  <2>4. ASSUME Cancel \/ RemoteEnds \/ StageOwned \/ Crash \/ Reconcile \/ Opened
        PROVE  entry' = entry
    BY <2>4
      DEF Cancel, RemoteEnds, StageOwned, UnchangedByCleaner, Crash, Reconcile,
          ReconcileFinalised, ReconcilePartial, Opened, dirVars
  <2> QED BY <1>5, <2>1, <2>2, <2>3, <2>4 DEF Next
<1> QED BY <1>1, <1>2, <1>3, <1>4, <1>5

\* A step of ours leaves the reservations of other transfers alone.
LEMMA ReservationsUntouched ==
  ASSUME IInv, Next, moves' = moves, NEW n \in Names, reservation[n] = Others
  PROVE  reservation'[n] = Others
<1> USE ReceiveAssumption DEF IInv
<1>1. reservation \in [Names -> Tokens \union {None, Others}]
  BY DEF TypeOK
<1>2. ASSUME NEW k \in Tokens, AttemptStep(k) PROVE reservation'[n] = Others
  <2>1. CASE Reserve(k)
    BY <1>1, <2>1 DEF Reserve, Reservable
  <2>2. CASE ReleaseName(k)
    BY <2>2 DEF ReleaseName, WithoutReservation, Removed, ReservationIsOwned
  <2>3. CASE ~Reserve(k) /\ ~ReleaseName(k)
    BY <1>2, <2>3
      DEF AttemptStep, dirVars, CreatePartial, MarkPartial, Persist, LosesReservation,
          AcceptFails, FallBackAfterRefusal, RemoveUnpersisted, Compensate, ReturnToManual
  <2> QED BY <2>1, <2>2, <2>3
<1>3. ASSUME TaskStep PROVE reservation'[n] = Others
  <2>1. CASE Finalise
    <3> QED BY <1>1, <2>1, Picked DEF Finalise, Reservable, ReservationIsOwned
  <2>2. CASE Replace
    BY <1>1, <2>2, Picked DEF Replace, Reservable
  <2>3. CASE ReleaseOld
    <3>1. task.token \in Tokens
      BY <2>3 DEF ReleaseOld, TaskShape
    <3> QED BY <2>3, <3>1 DEF ReleaseOld, WithoutReservation, Removed, ReservationIsOwned
  <2>4. CASE PrepareCopy
    BY <1>1, <2>4, Picked DEF PrepareCopy, Reservable
  <2>5. CASE ~Finalise /\ ~Replace /\ ~ReleaseOld /\ ~PrepareCopy
    BY <1>3, <2>5
      DEF TaskStep, dirVars, Claim, Receive, JournalPrepared, Link, JournalLinked, Switch,
          JournalCopy, StartCopy, FillCopy, JournalCopied, VolumeFull, Complete, TaskFails
  <2> QED BY <2>1, <2>2, <2>3, <2>4, <2>5
<1>4. ASSUME NEW c \in Cleaners, CleanerStep(c) PROVE reservation'[n] = Others
  <2>1. CASE CleanReservations(c)
    <3>1. cleaner[c].own.token \in Tokens
      BY <2>1 DEF CleanReservations, CleanupShape
    <3> QED BY <1>1, <2>1, <3>1
      DEF CleanReservations, WithoutReservation, Removed, ReservationIsOwned
  <2>2. CASE ~CleanReservations(c)
    BY <1>4, <2>2
      DEF CleanerStep, StartCleaner, CleanPartial, CleanMarker, CleanJournal, CleanRow,
          CleanerFails
  <2> QED BY <2>1, <2>2
<1>5. ASSUME Cancel \/ RemoteEnds \/ StageOwned \/ Crash \/ Reconcile \/ Opened
      PROVE  reservation'[n] = Others
  BY <1>5
    DEF Cancel, RemoteEnds, StageOwned, Crash, Reconcile, ReconcileFinalised,
        ReconcilePartial, Opened, dirVars
<1>6. ASSUME MoveStep PROVE FALSE
  BY <1>6
    DEF MoveStep, Move, PutFile, TakeFile, SwapFile, TakeReservation, OthersReserve,
        OthersRelease, TakePartial, SwapPartial, TypeOK
<1> QED BY <1>2, <1>3, <1>4, <1>5, <1>6 DEF Next

\* A step of ours changes a slot only where there is nothing, or a file of ours.
LEMMA PartialsUntouched ==
  ASSUME IInv, Next, moves' = moves, NEW s \in Slots
  PROVE  \/ partial'[s] = partial[s]
         \/ partial[s] = None
         \/ partial[s] \in Files /\ content[partial[s]] \in Ours
<1> USE DEF IInv
<1>1. \A k : PartialIsOwned(s, k) => partial[s] \in Files /\ content[partial[s]] \in Ours
  BY ReceiveAssumption DEF PartialIsOwned, FilesOurs, NoMarker, TypeOK
<1>2. ASSUME NEW k \in Tokens, AttemptStep(k), partial'[s] # partial[s], partial[s] # None
      PROVE  PartialIsOwned(s, k)
  <2>1. CASE CreatePartial(k)
    BY <1>2, <2>1, Picked DEF CreatePartial, TypeOK
  <2>2. CASE RemoveUnpersisted(k)
    BY <1>2, <2>2 DEF RemoveUnpersisted, TypeOK
  <2>3. CASE ~CreatePartial(k) /\ ~RemoveUnpersisted(k)
    BY <1>2, <2>3
      DEF AttemptStep, dirVars, Reserve, MarkPartial, Persist, LosesReservation,
          AcceptFails, FallBackAfterRefusal, ReleaseName, Compensate, ReturnToManual
  <2> QED BY <2>1, <2>2, <2>3
<1>3. ASSUME TaskStep PROVE partial' = partial
  BY <1>3
    DEF TaskStep, dirVars, Claim, Receive, Finalise, JournalPrepared, Link, JournalLinked,
        Replace, Switch, ReleaseOld, PrepareCopy, JournalCopy, StartCopy, FillCopy,
        JournalCopied, VolumeFull, Complete, TaskFails
<1>4. ASSUME NEW c \in Cleaners, CleanerStep(c), partial'[s] # partial[s]
      PROVE  PartialIsOwned(s, cleaner[c].own.token)
  BY <1>4
    DEF CleanerStep, StartCleaner, CleanReservations, CleanPartial, CleanMarker,
        CleanJournal, CleanRow, CleanerFails, TypeOK
<1>5. ASSUME Cancel \/ RemoteEnds \/ StageOwned \/ Crash \/ Opened PROVE partial' = partial
  BY <1>5 DEF Cancel, RemoteEnds, StageOwned, Crash, Opened, dirVars
<1>6. CASE Reconcile
  BY <1>6, Picked DEF Reconcile, ReconcileFinalised, ReconcilePartial, dirVars, TypeOK
<1>7. ASSUME MoveStep PROVE FALSE
  BY <1>7
    DEF MoveStep, Move, PutFile, TakeFile, SwapFile, TakeReservation, OthersReserve,
        OthersRelease, TakePartial, SwapPartial, TypeOK
<1> QED BY <1>1, <1>2, <1>3, <1>4, <1>5, <1>6, <1>7 DEF Next

\* Only the user takes away or replaces what the user put there, and nobody else removes the
\* reservation of another transfer (ForeignKept).
THEOREM ForeignIsKept == Spec => ForeignKept
<1> DEFINE Kept ==
      moves' = moves =>
        /\ \A n \in Names :
            /\ entry[n] # None /\ content[entry[n]] = "foreign" => entry'[n] = entry[n]
            /\ reservation[n] = Others => reservation'[n] = Others
        /\ \A s \in Slots :
            partial[s] # None /\ content[partial[s]] = "foreign" => partial'[s] = partial[s]
<1>1. ASSUME IInv, Next PROVE Kept
  <2> "foreign" \notin Ours
    BY DEF Ours
  <2> QED BY <1>1, FilesUntouched, ReservationsUntouched, PartialsUntouched
<1>2. IInv /\ [Next]_vars => [Kept]_vars
  BY <1>1
<1> QED BY <1>2, Invariant, PTL DEF Spec, ForeignKept

=============================================================================
