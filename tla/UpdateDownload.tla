--------------------------- MODULE UpdateDownload ---------------------------
(***************************************************************************)
(* Downloading and opening an installer.  Any number of calls may overlap: *)
(* each writes a hidden file of its own and links it under the name of the *)
(* installer, where all of them look for one that is there already.  The   *)
(* process may end at any point, and what is cached may be damaged.        *)
(*                                                                         *)
(* The content of a file is a record of its length and of whether its      *)
(* bytes are the ones that were published.                                 *)
(***************************************************************************)
EXTENDS Naturals, FiniteSets

CONSTANTS
    Calls,      \* calls of download_update
    InstallerSize,       \* the length of the published installer
    MaxDamages  \* bound: damages of the cached file

VARIABLES
    cached,    \* the file under the installer's name, or NoFile
    part,      \* the hidden file of each call, or NoFile
    step,      \* what each call does next, or its outcome: "done", "error", or
               \* "abandoned", an error that leaves the hidden file
    opener,    \* open_downloaded_update: "idle", "discard", "open", "opened", "refused"
    given,     \* calls that linked what they downloaded
    kept,      \* calls whose hidden file could not be removed
    damages

vars == <<cached, part, step, opener, given, kept, damages>>

NoFile == [length |-> 0, genuine |-> FALSE]
Whole == [length |-> InstallerSize, genuine |-> TRUE]
\* A stream may be longer than what was published, by as much as tells it apart.
Contents == [length : 0..InstallerSize + 1, genuine : BOOLEAN]
Looks == {"look", "lookAgain", "lookInstead"}
Discards == {"discard", "discardAgain", "discardInstead"}
Running == Looks \cup Discards \cup {"ask", "create", "stream", "link", "fail", "clear"}

TypeOK ==
    /\ cached \in Contents
    /\ part \in [Calls -> Contents \cup {[length |-> 0, genuine |-> TRUE]}]
    /\ step \in [Calls -> Running \cup {"idle", "done", "error", "abandoned"}]
    /\ opener \in {"idle", "discard", "open", "opened", "refused"}
    /\ given \subseteq Calls /\ kept \subseteq Calls /\ damages \in 0..MaxDamages

Init ==
    /\ cached \in {NoFile, Whole}
    /\ part = [c \in Calls |-> NoFile]
    /\ step = [c \in Calls |-> "idle"]
    /\ opener = "idle" /\ given = {} /\ kept = {} /\ damages = 0

-----------------------------------------------------------------------------
(***************************************************************************)
(* verified_cached_update: the file that is there is used only if its      *)
(* length and its hash are the published ones; otherwise it is removed, by *)
(* its name, and some time after it was read.                              *)
(***************************************************************************)
Verified(file) == file = Whole

Goes(c, from, to) == step[c] = from /\ step' = [step EXCEPT ![c] = to]
Writes(c, file) == part' = [part EXCEPT ![c] = file]

\* A request with a bad version, name, address, size or digest goes no further.
Start(c) ==
    /\ Goes(c, "idle", "look") \/ Goes(c, "idle", "error")
    /\ UNCHANGED <<cached, part, opener, given, kept, damages>>

\* A look goes one way if the file can be used, another if there is none.
LookFor(c, from, found, absent, discard, error) ==
    /\ \/ Goes(c, from, IF Verified(cached) THEN found ELSE
                        IF cached = NoFile THEN absent ELSE discard)
       \/ Goes(c, from, error)
    /\ UNCHANGED <<cached, part, opener, given, kept, damages>>

\* Another call may have removed it, or put a good one there: the first is an error, as is
\* a removal that fails, the other is not noticed.
Discard(c, from, absent, error) ==
    /\ \/ cached # NoFile /\ Goes(c, from, absent) /\ cached' = NoFile
       \/ Goes(c, from, error) /\ UNCHANGED cached
    /\ UNCHANGED <<part, opener, given, kept, damages>>

Look(c) == LookFor(c, "look", "done", "ask", "discard", "error")
DiscardFirst(c) == Discard(c, "discard", "ask", "error")

\* The request to the server, its status and the length it announces.
Ask(c) ==
    /\ Goes(c, "ask", "lookAgain") \/ Goes(c, "ask", "error")
    /\ UNCHANGED <<cached, part, opener, given, kept, damages>>

\* persist_verified_update_chunks looks once more: another call may have been faster.
LookAgain(c) == LookFor(c, "lookAgain", "done", "create", "discardAgain", "error")
DiscardAgain(c) == Discard(c, "discardAgain", "create", "error")

CreatePart(c) ==
    /\ \/ Goes(c, "create", "stream") /\ Writes(c, [length |-> 0, genuine |-> TRUE])
       \/ Goes(c, "create", "error") /\ UNCHANGED part
    /\ UNCHANGED <<cached, opener, given, kept, damages>>

\* Bytes come, the published ones or not.
Chunk(c) ==
    /\ Goes(c, "stream", "stream") /\ part[c].length < InstallerSize
    /\ \E good \in BOOLEAN :
          Writes(c, [length |-> part[c].length + 1, genuine |-> part[c].genuine /\ good])
    /\ UNCHANGED <<cached, opener, given, kept, damages>>

\* The stream breaks off, a write or the sync fails, or there are more bytes than published.
StreamFails(c) ==
    /\ Goes(c, "stream", "fail")
    /\ UNCHANGED <<cached, part, opener, given, kept, damages>>

\* The end of the stream: length and hash are compared after the file is synced.
EndStream(c) ==
    /\ Goes(c, "stream", IF Verified(part[c]) THEN "link" ELSE "fail")
    /\ UNCHANGED <<cached, part, opener, given, kept, damages>>

\* hard_link fails when the name is taken, and may fail anyway.
Link(c) ==
    /\ \/ /\ cached = NoFile /\ Goes(c, "link", "clear")
          /\ cached' = part[c] /\ given' = given \cup {c}
       \/ Goes(c, "link", "lookInstead") /\ UNCHANGED <<cached, given>>
    /\ UNCHANGED <<part, opener, kept, damages>>

\* Then the file of another call is as good, if it is the published one; an error of this
\* look ends the call before the hidden file is removed.
LookInstead(c) == LookFor(c, "lookInstead", "clear", "fail", "discardInstead", "abandoned")
DiscardInstead(c) == Discard(c, "discardInstead", "fail", "abandoned")

\* remove_partial, which only logs a failure, and the outcome.
Clear(c) ==
    /\ Goes(c, "clear", "done") \/ Goes(c, "fail", "error")
    /\ \/ Writes(c, NoFile) /\ UNCHANGED kept
       \/ kept' = kept \cup {c} /\ UNCHANGED part
    /\ UNCHANGED <<cached, opener, given, damages>>

-----------------------------------------------------------------------------
\* open_downloaded_update: the file is verified again before it is opened.
VerifyToOpen ==
    /\ opener = "idle"
    /\ opener' = IF Verified(cached) THEN "open" ELSE
                 IF cached = NoFile THEN "refused" ELSE "discard"
    /\ UNCHANGED <<cached, part, step, given, kept, damages>>

DiscardUnopened ==
    /\ opener = "discard" /\ opener' = "refused"
    /\ cached' \in {NoFile, cached}
    /\ UNCHANGED <<part, step, given, kept, damages>>

OpenInstaller ==
    /\ opener = "open" /\ opener' = "opened"
    /\ UNCHANGED <<cached, part, step, given, kept, damages>>

\* The cache is damaged, but not while the installer is being opened: nothing looks then.
Damage ==
    /\ damages < MaxDamages /\ damages' = damages + 1
    /\ opener # "open"
    /\ cached' \in Contents \ {cached, Whole}
    /\ given' = {}
    /\ UNCHANGED <<part, step, opener, kept>>

\* The process ends; hidden files of its calls stay behind, under names nothing looks for.
Restart ==
    /\ step' = [c \in Calls |-> "idle"] /\ part' = [c \in Calls |-> NoFile]
    /\ opener' = "idle" /\ kept' = {}
    /\ UNCHANGED <<cached, given, damages>>

Next ==
    \/ \E c \in Calls :
          \/ Start(c) \/ Look(c) \/ DiscardFirst(c) \/ Ask(c) \/ LookAgain(c) \/ DiscardAgain(c)
          \/ CreatePart(c) \/ Chunk(c) \/ StreamFails(c) \/ EndStream(c) \/ Link(c)
          \/ LookInstead(c) \/ DiscardInstead(c) \/ Clear(c)
    \/ VerifyToOpen \/ DiscardUnopened \/ OpenInstaller \/ Damage \/ Restart

Spec == Init /\ [][Next]_vars

-----------------------------------------------------------------------------
\* However calls overlap: only the published installer is linked and only it is opened, as
\* long as it is there (a call that found a damaged file may remove the good one that has
\* replaced it); while nothing is damaged, what a call reported as downloaded is there; and
\* a call that is over has no hidden file, unless its last look or the removal of that file
\* failed (download_update, open_downloaded_update).
InstallerIsGenuine ==
    /\ given # {} => cached \in {Whole, NoFile}
    /\ opener = "open" => cached \in {Whole, NoFile}
    /\ damages = 0 => \A c \in Calls : step[c] = "done" => cached = Whole
    /\ \A c \in Calls \ kept : part[c] # NoFile => step[c] \in Running \cup {"abandoned"}

\* Why it is: only a file that was verified is linked, and without damage nobody finds a file
\* to discard, so that what a call has linked, or found, stays.
Sound == cached \in {Whole, NoFile}

UpdateInv ==
    /\ TypeOK
    /\ given # {} \/ opener = "open" \/ damages = 0 => Sound
    /\ \A c \in Calls :
        /\ step[c] = "link" => part[c] = Whole
        /\ c \in kept => step[c] \in {"done", "error"}
        /\ part[c] # NoFile =>
              \/ step[c] \in {"stream", "link", "lookInstead", "discardInstead", "clear", "fail",
                              "abandoned"}
              \/ c \in kept
    /\ damages = 0 =>
        /\ opener # "discard"
        /\ \A c \in Calls :
            step[c] \notin Discards /\ (step[c] \in {"clear", "done"} => cached = Whole)
=============================================================================
