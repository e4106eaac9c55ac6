------------------------------ MODULE SaveCopy ------------------------------
(***************************************************************************)
(* "Save as": a delivered file is copied to a place the user names.  The   *)
(* bytes go to a temporary file of its own directory first, which is then  *)
(* renamed over the destination.  Meanwhile other programs may write to    *)
(* the delivered file, exchange the temporary one or use the destination.  *)
(*                                                                         *)
(* A file is known by its identity (volume and file number); the length is *)
(* all the model keeps of its bytes, 0..MaxLength.  Every call of the      *)
(* operating system may fail.                                              *)
(***************************************************************************)
EXTENDS Naturals

CONSTANTS
    MaxLength,   \* bound: length of a file
    MaxOutside   \* bound: interferences of other programs

VARIABLES
    source,       \* length of the delivered file
    destination,  \* the identity under the destination's path
    temporary,    \* the identity under the temporary path
    length,       \* length of our temporary file
    opened,       \* length of the delivered file when it was opened
    before,       \* the destination when the call began, or when another program set it
    at,           \* the next step of the call, or its outcome "saved", "error"
    outside,      \* interferences so far
    exchanged,    \* another program exchanged the temporary file
    failed        \* which looks at our file, and removals of it, have failed

vars == <<source, destination, temporary, length, opened, before, at, outside, exchanged,
          failed>>

None == "none"
Ours == "ours"       \* the file the call created, wherever it was renamed to
Theirs == "theirs"   \* a file of another program
Original == "source" \* the delivered file itself
Destinations == {None, Theirs, Original, "directory"}

TypeOK ==
    /\ source \in 0..MaxLength /\ length \in 0..MaxLength /\ opened \in 0..MaxLength
    /\ destination \in Destinations \cup {Ours} /\ before \in Destinations \cup {Ours}
    /\ temporary \in {None, Ours, Theirs}
    /\ at \in {"check", "create", "copy", "identify", "rename", "confirm", "identifyToRemove",
               "remove", "saved", "error"}
    /\ outside \in 0..MaxOutside /\ exchanged \in BOOLEAN
    /\ failed \subseteq {"identity", "confirmation", "removal"}

Init ==
    /\ source \in 0..MaxLength /\ destination \in Destinations
    /\ temporary = None /\ length = 0 /\ opened = 0 /\ before = destination
    /\ at = "check" /\ outside = 0 /\ exchanged = FALSE /\ failed = {}

-----------------------------------------------------------------------------
Goes(from, to) == at = from /\ at' = to

\* The operating system refuses an answer about our file, or its removal.
Misses(call) == failed' = failed \cup {call}

\* The file is opened and its length taken; saving it over itself is done already.
CheckDestination ==
    /\ at = "check"
    /\ opened' = source
    /\ at' \in {"error", CASE destination = "directory" -> "error"
                           [] destination = Original -> "saved"
                           [] OTHER -> "create"}
    /\ UNCHANGED <<source, destination, temporary, length, before, outside, exchanged, failed>>

\* create_save_temporary: a new file, in a directory only this user may enter.  Without its
\* identity the call ends here, and nobody removes what was created.
CreateTemporary ==
    /\ \/ Goes("create", "copy") /\ temporary' = Ours /\ UNCHANGED failed
       \/ Goes("create", "error") /\ UNCHANGED <<temporary, failed>>
       \/ Goes("create", "error") /\ temporary' = Ours /\ Misses("identity")
    /\ UNCHANGED <<source, destination, length, opened, before, outside, exchanged>>

\* Mutant: an early return, past the removal of the temporary file.
CopyBytesReturning ==
    /\ \/ /\ length < source
          /\ length' = length + 1 /\ UNCHANGED at
       \/ /\ length >= source /\ UNCHANGED length
          /\ at' = IF length = opened THEN "identify" ELSE "error"
       \/ at' = "identifyToRemove" /\ UNCHANGED length
    /\ at = "copy"
    /\ UNCHANGED <<source, destination, temporary, opened, before, outside, exchanged, failed>>

\* std::io::copy reads to the end of the file as it is by then; another length than at the
\* opening is an error.  Writing may fail at any point.
CopyBytes ==
    /\ \/ /\ length < source
          /\ length' = length + 1 /\ UNCHANGED at
       \/ /\ length >= source /\ UNCHANGED length
          /\ at' = IF length = opened THEN "identify" ELSE "identifyToRemove"
       \/ at' = "identifyToRemove" /\ UNCHANGED length
    /\ at = "copy"
    /\ UNCHANGED <<source, destination, temporary, opened, before, outside, exchanged, failed>>

\* The temporary path must still lead to the file that was written.
IdentifyTemporary ==
    /\ \/ temporary = Ours /\ Goes("identify", "rename")
       \/ Goes("identify", "identifyToRemove")
    /\ UNCHANGED <<source, destination, temporary, length, opened, before, outside, exchanged,
                   failed>>

\* replace_saved_copy: a rename by path, which replaces what is there; it may fail.
Rename ==
    /\ \/ /\ temporary # None /\ destination # "directory"
          /\ Goes("rename", "confirm")
          /\ destination' = temporary /\ temporary' = None
       \/ Goes("rename", "identifyToRemove") /\ UNCHANGED <<destination, temporary>>
    /\ UNCHANGED <<source, length, opened, before, outside, exchanged, failed>>

\* The destination must now be the file that was written.  A look that fails is an error
\* too, although the destination has been replaced.
Confirm ==
    /\ \/ Goes("confirm", IF destination = Ours THEN "saved" ELSE "identifyToRemove")
          /\ UNCHANGED failed
       \/ Goes("confirm", "identifyToRemove") /\ Misses("confirmation")
    /\ UNCHANGED <<source, destination, temporary, length, opened, before, outside, exchanged>>

\* remove_save_temporary_if_owned: a look at the identity, then a removal by path.  Neither is
\* repeated or reported when it fails.
IdentifyToRemove ==
    /\ \/ Goes("identifyToRemove", IF temporary = Ours THEN "remove" ELSE "error")
          /\ UNCHANGED failed
       \/ Goes("identifyToRemove", "error") /\ Misses("removal")
    /\ UNCHANGED <<source, destination, temporary, length, opened, before, outside, exchanged>>

Remove ==
    /\ Goes("remove", "error")
    /\ \/ temporary' = None /\ UNCHANGED failed
       \/ Misses("removal") /\ UNCHANGED temporary
    /\ UNCHANGED <<source, destination, length, opened, before, outside, exchanged>>

-----------------------------------------------------------------------------
(***************************************************************************)
(* Other programs.                                                         *)
(***************************************************************************)
Interfere == outside < MaxOutside /\ outside' = outside + 1

WriteSource ==
    /\ Interfere
    /\ source' \in 0..MaxLength \ {source}
    /\ UNCHANGED <<destination, temporary, length, opened, before, at, exchanged, failed>>

ExchangeTemporary ==
    /\ Interfere
    /\ temporary = Ours
    /\ temporary' \in {None, Theirs} /\ exchanged' = TRUE
    /\ UNCHANGED <<source, destination, length, opened, before, at, failed>>

UseDestination ==
    /\ Interfere
    /\ destination' \in {None, Theirs} \ {destination}
    /\ before' = destination'
    /\ UNCHANGED <<source, temporary, length, opened, at, exchanged, failed>>

Next ==
    \/ CheckDestination \/ CreateTemporary \/ CopyBytes \/ IdentifyTemporary \/ Rename \/ Confirm
    \/ IdentifyToRemove \/ Remove
    \/ WriteSource \/ ExchangeTemporary \/ UseDestination

Spec == Init /\ [][Next]_vars

-----------------------------------------------------------------------------
Quiet == ~exchanged

\* Whatever is written to the delivered file meanwhile: the destination is either what it was
\* or a copy as long as the file was when it was opened.  While nobody exchanges its temporary
\* file, a call that fails has changed nothing, unless the look at the replaced destination
\* failed, and leaves no file behind, unless the file could not be identified when it was
\* created, or not be removed (save_message_file_as_with_storage_and_hook).
CopyIsWhole ==
    /\ destination = Ours => length = opened
    /\ Quiet => destination \in {before, Ours}
    /\ Quiet /\ at = "error" =>
        /\ destination = before \/ "confirmation" \in failed
        /\ temporary = None \/ "identity" \in failed \/ "removal" \in failed
    /\ at = "saved" /\ Quiet /\ outside = 0 => destination \in {Ours, Original}

\* Why it is: the temporary file is renamed only as long as the delivered one was opened with,
\* only a rename puts it under the destination, and unless somebody exchanges it, it is there
\* from its creation until it is renamed or removed.
SaveInv ==
    /\ TypeOK
    /\ before # Ours
    /\ destination = Ours =>
        /\ temporary # Ours
        /\ at \in {"confirm", "saved"} \/ "confirmation" \in failed
        /\ at \in {"confirm", "saved", "identifyToRemove", "error"}
    /\ at \in {"identify", "rename"} \/ destination = Ours => length = opened
    /\ at \in {"check", "create"} => temporary = None /\ failed = {}
    /\ at = "remove" => destination # Ours
    /\ Quiet =>
        /\ destination \in {before, Ours}
        /\ temporary \in {None, Ours}
        /\ at \in {"copy", "identify", "rename", "remove"} => temporary = Ours
        /\ at \in {"confirm", "saved"} => temporary = None
        /\ at = "error" => temporary = None \/ "identity" \in failed \/ "removal" \in failed
        /\ at = "saved" /\ outside = 0 => destination \in {Ours, Original}
=============================================================================
