--------------------------- MODULE LocalSettings ----------------------------
(***************************************************************************)
(* What the user and the installer set: the nickname and the receive       *)
(* preferences (update_settings), the profile the network loop tells the   *)
(* peers, and the language of the interface, which an installer leaves in  *)
(* a marker file for the next start.                                       *)
(*                                                                         *)
(* A setting is stored first and sent to the loop second; where the        *)
(* channel refuses it, the old settings are stored again.  The marker is   *)
(* removed after it was imported, which may fail, so the number of the     *)
(* installation is stored with the language.  The installer ends the       *)
(* application before it runs.                                             *)
(***************************************************************************)
EXTENDS Integers, Sequences

CONSTANTS
    Nicknames, Languages,
    MaxInstallations,  \* bound: runs of an installer
    MaxSaves,          \* bound: saved settings
    MaxMishaps         \* bound: failing calls and ends of the process in mid-step

Preferences == BOOLEAN   \* auto_receive_files; the directory is saved with it
None == "none"
Auto == "auto"

VARIABLES
    nickname, preferences, language,
    imported,   \* the installation whose marker was imported last
    marker,     \* the marker file: an installation and its language
    at,         \* the process: off, starting, or running
    profile,    \* what the loop tells the peers; None before it is started
    queue,      \* SetProfile commands on their way to it
    stopped,    \* has the loop left?
    command,    \* update_settings or complete_onboarding, and what it replaces
    confirmed,  \* the settings the user was last told are saved
    unsettled,  \* did storing the old settings again fail since?
    choice,     \* the language chosen last, by the user or an installer
    unread,     \* could a start not read a marker?
    saves, mishaps

vars == <<nickname, preferences, language, imported, marker, at, profile, queue, stopped,
          command, confirmed, unsettled, choice, unread, saves, mishaps>>
languageVars == <<language, imported, marker, choice, unread>>
networkVars == <<profile, queue, stopped>>
settingVars == <<nickname, preferences, command, confirmed, unsettled, saves>>

NoMarker == [installation |-> 0, language |-> None]
Idle == [at |-> "idle", nickname |-> None, preferences |-> FALSE]
Settings == <<nickname, preferences>>

TypeOK ==
    /\ nickname \in Nicknames \union {None}
    /\ preferences \in Preferences
    /\ language \in Languages \union {Auto}
    /\ imported \in 0..MaxInstallations
    /\ marker \in [installation : 0..MaxInstallations, language : Languages \union {None}]
    /\ at \in {"off", "import", "remove", "load", "running"}
    /\ profile \in Nicknames \union {None}
    /\ queue \in Seq(Nicknames)
    /\ {stopped, unread, unsettled} \subseteq BOOLEAN
    /\ command \in [at : {"idle", "onboarding", "saved", "refused"},
                    nickname : Nicknames \union {None}, preferences : Preferences]
    /\ confirmed \in (Nicknames \union {None}) \X Preferences
    /\ choice \in Languages \union {Auto}
    /\ saves \in 0..MaxSaves
    /\ mishaps \in 0..MaxMishaps

Init ==
    /\ nickname = None /\ preferences = FALSE
    /\ language = Auto /\ imported = 0 /\ marker = NoMarker
    /\ at = "off"
    /\ profile = None /\ queue = <<>> /\ stopped = FALSE
    /\ command = Idle /\ confirmed = Settings /\ unsettled = FALSE
    /\ choice = Auto /\ unread = FALSE
    /\ saves = 0 /\ mishaps = 0

Mishap == mishaps < MaxMishaps /\ mishaps' = mishaps + 1

-----------------------------------------------------------------------------
(* The start: import_installer_locale_marker, load_transfer_preferences,   *)
(* start_network_if_ready.                                                 *)

\* An installer writes the language chosen in it, over a marker not read yet.
Install(l) ==
    /\ at = "off"
    /\ \E i \in 1..MaxInstallations :
        /\ i > imported /\ i > marker.installation
        /\ marker' = [installation |-> i, language |-> l]
    /\ choice' = l
    /\ UNCHANGED <<language, imported, at, unread, networkVars, settingVars, mishaps>>

Start ==
    /\ at = "off" /\ at' = "import"
    /\ UNCHANGED <<languageVars, networkVars, settingVars, mishaps>>

\* There is no marker, or none that can be read: the start goes on.
PassOver ==
    /\ at = "import" /\ at' = "load"
    /\ \/ marker = NoMarker /\ UNCHANGED <<unread, mishaps>>
       \/ marker # NoMarker /\ Mishap /\ unread' = TRUE
    /\ UNCHANGED <<language, imported, marker, choice, networkVars, settingVars>>

\* A marker that was not written whole is removed.
DropMarker ==
    /\ at = "import" /\ marker # NoMarker /\ Mishap
    /\ marker' = NoMarker /\ unread' = TRUE /\ at' = "load"
    /\ UNCHANGED <<language, imported, choice, networkVars, settingVars>>

\* Mutant: the installation is not compared.
ImportsAgain == marker # NoMarker

IsNew == marker # NoMarker /\ marker.installation # imported

\* The language and the installation are stored in one transaction.
Import ==
    /\ at = "import" /\ IsNew
    /\ language' = marker.language /\ imported' = marker.installation
    /\ at' = "remove"
    /\ UNCHANGED <<marker, choice, unread, networkVars, settingVars, mishaps>>

\* A marker that was imported before is only removed.
Skip ==
    /\ at = "import" /\ marker # NoMarker /\ ~IsNew
    /\ at' = "remove"
    /\ UNCHANGED <<languageVars, networkVars, settingVars, mishaps>>

RemoveMarker ==
    /\ at = "remove" /\ at' = "load"
    /\ \/ marker' = NoMarker /\ UNCHANGED mishaps
       \/ Mishap /\ UNCHANGED marker
    /\ UNCHANGED <<language, imported, choice, unread, networkVars, settingVars>>

\* The network is started once there is a nickname.
StartNetwork ==
    /\ at = "load" /\ at' = "running"
    /\ profile' = nickname
    /\ UNCHANGED <<languageVars, queue, stopped, settingVars, mishaps>>

-----------------------------------------------------------------------------
(* The commands, one at a time.                                            *)

CanSave == at = "running" /\ command = Idle /\ saves < MaxSaves /\ saves' = saves + 1

\* update_language_preference: the screen has changed already; a failure changes no row.
ChooseLanguage(l) ==
    /\ CanSave
    /\ language' = l /\ choice' = l
    /\ UNCHANGED <<imported, marker, at, unread, networkVars, nickname, preferences, command,
                   confirmed, unsettled, mishaps>>

\* complete_onboarding: save_profile.
Onboard(n) ==
    /\ CanSave /\ nickname = None
    /\ nickname' = n
    /\ command' = [Idle EXCEPT !.at = "onboarding"]
    /\ UNCHANGED <<preferences, confirmed, unsettled, at, languageVars, networkVars, mishaps>>

\* update_settings: save_profile_and_transfer_preferences.
SaveSettings(n, p) ==
    /\ CanSave /\ nickname # None
    /\ nickname' = n /\ preferences' = p
    /\ command' = [at |-> "saved", nickname |-> nickname, preferences |-> preferences]
    /\ UNCHANGED <<confirmed, unsettled, at, languageVars, networkVars, mishaps>>

\* start_network_if_ready: the loop is started, or told.
StartOrTell ==
    /\ command.at \in {"onboarding", "saved"}
    /\ \/ profile = None /\ profile' = nickname /\ UNCHANGED queue
       \/ profile # None /\ ~stopped
          /\ queue' = Append(queue, nickname) /\ UNCHANGED profile
    /\ command' = Idle /\ confirmed' = Settings /\ unsettled' = FALSE
    /\ UNCHANGED <<stopped, nickname, preferences, saves, at, languageVars, mishaps>>

\* The channel is full of other commands, or closed.
TellFails ==
    /\ command.at \in {"onboarding", "saved"} /\ profile # None
    /\ IF stopped THEN UNCHANGED mishaps ELSE Mishap
    /\ command' = [command EXCEPT !.at = "refused"]
    /\ UNCHANGED <<nickname, preferences, confirmed, unsettled, saves, at, languageVars,
                   networkVars>>

RollBack ==
    /\ command.at = "refused"
    /\ nickname' = command.nickname /\ preferences' = command.preferences
    /\ command' = Idle
    /\ UNCHANGED <<confirmed, unsettled, saves, at, languageVars, networkVars, mishaps>>

\* That the old settings could not be stored again is only logged.
RollBackFails ==
    /\ command.at = "refused" /\ Mishap
    /\ command' = Idle /\ unsettled' = TRUE
    /\ UNCHANGED <<nickname, preferences, confirmed, saves, at, languageVars, networkVars>>

-----------------------------------------------------------------------------

\* SetProfile, which is also told to the connected peers.
HandleSetProfile ==
    /\ queue # <<>> /\ ~stopped
    /\ profile' = Head(queue) /\ queue' = Tail(queue)
    /\ UNCHANGED <<stopped, at, languageVars, settingVars, mishaps>>

LoopStops ==
    /\ at = "running" /\ profile # None /\ ~stopped
    /\ Mishap /\ stopped' = TRUE /\ queue' = <<>>
    /\ UNCHANGED <<profile, at, languageVars, settingVars>>

\* The process ends.  What a command under way had stored is what the user finds.
Quit ==
    /\ at # "off" /\ at' = "off"
    /\ IF at = "running" /\ command = Idle THEN UNCHANGED mishaps ELSE Mishap
    /\ profile' = None /\ queue' = <<>> /\ stopped' = FALSE
    /\ command' = Idle /\ confirmed' = Settings /\ unsettled' = FALSE
    /\ UNCHANGED <<nickname, preferences, saves, languageVars>>

Next ==
    \/ \E l \in Languages : Install(l) \/ ChooseLanguage(l)
    \/ Start \/ PassOver \/ DropMarker \/ Import \/ Skip \/ RemoveMarker \/ StartNetwork
    \/ \E n \in Nicknames : Onboard(n) \/ \E p \in Preferences : SaveSettings(n, p)
    \/ StartOrTell \/ TellFails \/ RollBack \/ RollBackFails
    \/ HandleSetProfile \/ LoopStops \/ Quit

Spec == Init /\ [][Next]_vars

-----------------------------------------------------------------------------

\* The language is the one chosen last, in the installer or by the user, and no start
\* brings back an earlier one; unless a start could not read the marker, which the next
\* one will import (storage.rs:180).
LanguageIsLastChosen == at \in {"load", "running"} /\ ~unread => language = choice

\* Between commands the settings are those the user was told are saved, and the peers are
\* told the nickname the user sees; unless the old settings could not be stored again.
SettingsAreConfirmed ==
    command = Idle /\ ~unsettled =>
        /\ Settings = confirmed
        /\ at = "running" /\ ~stopped =>
            nickname = IF queue = <<>> THEN profile ELSE queue[Len(queue)]

\* The nickname the peers are told, now or when the loop has come so far.
Told == IF queue = <<>> THEN profile ELSE queue[Len(queue)]

\* Why they are: a marker not imported yet has the language chosen last; and a command holds
\* the settings that were confirmed, and told, until it has stored or told others.
MarkerHasChoice ==
    /\ marker # NoMarker => marker.language \in Languages
    /\ ~unread =>
        /\ IF IsNew THEN choice = marker.language ELSE language = choice
        /\ at \in {"remove", "load", "running"} => ~IsNew

CommandHasConfirmed ==
    /\ command.at = "idle" => command = Idle
    /\ command # Idle => at = "running" /\ nickname # None
    /\ command.at \in {"saved", "refused"} => command.nickname # None
    /\ at # "running" => profile = None
    /\ profile = None \/ stopped => queue = <<>>
    /\ nickname = None \/ command.at = "onboarding" => profile = None /\ preferences = FALSE
    /\ ~unsettled =>
        /\ confirmed = IF command = Idle THEN Settings
                                         ELSE <<command.nickname, command.preferences>>
        /\ at = "running" /\ ~stopped => Told = confirmed[1]

SettingsInv == TypeOK /\ MarkerHasChoice /\ CommandHasConfirmed
=============================================================================
