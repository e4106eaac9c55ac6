--------------------------- MODULE InterfaceView ----------------------------
(***************************************************************************)
(* What the window shows of the database (main.tsx, presence.ts): a        *)
(* snapshot read by `bootstrap`, patched by the events of the network, and *)
(* corrected every three seconds by `presence`.                            *)
(*                                                                         *)
(* The commands of the window are served in their order on one thread, but *)
(* each reads table after table while the network writes, and its answer   *)
(* comes to the window among the events.  Events are for who listens: the  *)
(* first snapshot is asked for before the window does.  One peer is        *)
(* followed; requests and entries (messages, transfers) are counted by     *)
(* their changes, and what the code changes of a transfer without an event *)
(* is counted on its own: its progress.                                    *)
(***************************************************************************)
EXTENDS Integers, Sequences

CONSTANTS
    MaxCalls,     \* bound: commands under way at once
    MaxChanges,   \* bound: changes of the database
    MaxFailures   \* bound: failing reads and user commands

VARIABLES
    db,         \* the tables
    events,     \* emitted, on their way to the window
    listening,
    calls,      \* bootstrap and presence commands under way
    timer,      \* is a refresh scheduled?
    polling,    \* `running` of startSnapshotReconciliation
    screen,     \* the snapshot the window shows
    acting,     \* is a command of the user under way?
    behind,     \* was an event unheard or missing, or a refresh missing or failed, since a
                \* refresh was asked for?
    silent,     \* was a transfer changed without an event since a refresh was asked for?
    polled,     \* was presence asked for since it changed?
    changes, failures

vars == <<db, events, listening, calls, timer, polling, screen, acting, behind, silent, polled,
          changes, failures>>
windowVars == <<listening, calls, timer, polling, screen>>

Shown == [online : BOOLEAN, friend : BOOLEAN, friendOnline : BOOLEAN,
          requests : 0..MaxChanges, entries : 0..MaxChanges, progress : 0..MaxChanges]
Empty == [online |-> FALSE, friend |-> FALSE, friendOnline |-> FALSE,
          requests |-> 0, entries |-> 0, progress |-> 0]
Tables == {"peers", "requests", "friends", "entries"}

\* The order in which snapshot and presence_snapshot read.
Reads(kind) ==
    IF kind = "bootstrap" THEN <<"peers", "requests", "friends", "entries">>
                          ELSE <<"peers", "friends">>

CallOf(kind) == [kind |-> kind, left |-> Reads(kind), seen |-> Empty]

TypeOK ==
    /\ db \in [online : BOOLEAN, friend : BOOLEAN,
               requests : 0..MaxChanges, entries : 0..MaxChanges, progress : 0..MaxChanges]
    /\ events \in Seq({"discovered", "offline", "resolved", "changed"})
    /\ calls \in Seq([kind : {"bootstrap", "poll", "presence"}, left : Seq(Tables), seen : Shown])
    /\ {listening, timer, polling, acting, behind, silent, polled} \subseteq BOOLEAN
    /\ screen \in Shown
    /\ changes \in 0..MaxChanges
    /\ failures \in 0..MaxFailures

\* The effect of the mounted window: refresh, then listen.
Init ==
    /\ db \in [online : {FALSE}, friend : BOOLEAN, requests : {0}, entries : {0},
               progress : {0}]
    /\ events = <<>> /\ listening = FALSE
    /\ calls = <<CallOf("bootstrap")>>
    /\ timer = FALSE /\ polling = FALSE
    /\ screen = Empty /\ acting = FALSE
    /\ behind = FALSE /\ silent = FALSE /\ polled = FALSE
    /\ changes = 0 /\ failures = 0

Change == changes < MaxChanges /\ changes' = changes + 1
Fail == failures < MaxFailures /\ failures' = failures + 1

-----------------------------------------------------------------------------
(* The network: it writes a row and emits the event of it.                 *)

Emit(event) == events' = IF listening THEN Append(events, event) ELSE events

RecordHello ==
    /\ Change
    /\ db' = [db EXCEPT !.online = TRUE]
    /\ Emit("discovered") /\ polled' = FALSE
    /\ UNCHANGED <<behind, silent, acting, failures, windowVars>>

MarkOffline ==
    /\ Change
    /\ db' = [db EXCEPT !.online = FALSE]
    /\ Emit("offline") /\ polled' = FALSE
    /\ UNCHANGED <<behind, silent, acting, failures, windowVars>>

\* A decision of the peer.
ResolveRequest ==
    /\ Change
    /\ db' = [db EXCEPT !.friend = TRUE, !.requests = @ + 1]
    /\ Emit("resolved") /\ polled' = FALSE
    /\ behind' = (behind \/ ~listening)
    /\ UNCHANGED <<silent, acting, failures, windowVars>>

\* A message, a request, the offer, the pause or the end of a transfer.
ChangeLog ==
    /\ Change
    /\ \/ db' = [db EXCEPT !.requests = @ + 1]
       \/ db' = [db EXCEPT !.entries = @ + 1]
    /\ Emit("changed")
    /\ behind' = (behind \/ ~listening)
    /\ UNCHANGED <<silent, polled, acting, failures, windowVars>>

\* The stream of a paused transfer begins, a chunk is committed at the receiver, or one is
\* acknowledged between two events of the sender.
ChangeSilently ==
    /\ Change
    /\ db' = [db EXCEPT !.progress = @ + 1]
    /\ silent' = TRUE
    /\ UNCHANGED <<events, behind, polled, acting, failures, windowVars>>

\* Storage fails after a row was written and before its event is emitted.
HandlerFails ==
    /\ Change /\ Fail
    /\ \/ db' = [db EXCEPT !.friend = TRUE, !.requests = @ + 1] /\ polled' = FALSE
       \/ db' = [db EXCEPT !.entries = @ + 1] /\ UNCHANGED polled
    /\ behind' = TRUE
    /\ UNCHANGED <<events, silent, acting, windowVars>>

-----------------------------------------------------------------------------
(* The commands of the window.                                             *)

Call(kind) == Len(calls) < MaxCalls /\ calls' = Append(calls, CallOf(kind))
Refresh == Call("bootstrap") /\ behind' = FALSE /\ silent' = FALSE

\* The first call that is not read to its end is being served.
Served(i) == calls[i].left # <<>> /\ \A j \in 1..(i - 1) : calls[j].left = <<>>

\* One list_ function: a table is read as it is now.
Read(table, seen) ==
    CASE table = "peers"    -> [seen EXCEPT !.online = db.online]
      [] table = "requests" -> [seen EXCEPT !.requests = db.requests]
      [] table = "friends"  -> [seen EXCEPT !.friend = db.friend,
                                            !.friendOnline = db.friend /\ db.online]
      [] table = "entries"  -> [seen EXCEPT !.entries = db.entries, !.progress = db.progress]

ReadTable ==
    /\ \E i \in DOMAIN calls :
        /\ Served(i)
        /\ calls' = [calls EXCEPT ![i].left = Tail(@),
                                  ![i].seen = Read(Head(calls[i].left), @)]
    /\ UNCHANGED <<db, events, listening, timer, polling, screen, acting, behind, silent,
                   polled, changes, failures>>

\* setSnapshot: bootstrap replaces everything, presence the peers and the friends.
TakePresenceOfPeers(call) == [screen EXCEPT !.online = call.seen.online]

TakePresence(call) ==
    [screen EXCEPT !.online = call.seen.online, !.friend = call.seen.friend,
                   !.friendOnline = call.seen.friendOnline]

\* The last poll asked for ends the run of the reconciliation.
EndsPoll(call) ==
    call.kind = "poll" /\ \A i \in DOMAIN Tail(calls) : Tail(calls)[i].kind # "poll"

Answer ==
    /\ calls # <<>> /\ Head(calls).left = <<>>
    /\ screen' = IF Head(calls).kind = "bootstrap" THEN Head(calls).seen
                                                  ELSE TakePresence(Head(calls))
    /\ calls' = Tail(calls)
    /\ polling' = (polling /\ ~EndsPoll(Head(calls)))
    /\ UNCHANGED <<db, events, listening, timer, acting, behind, silent, polled,
                   changes, failures>>

\* A table could not be read.  Nothing is shown of the call, and it is not repeated.
ReadFails ==
    /\ calls # <<>> /\ Head(calls).left # <<>> /\ Fail
    /\ calls' = Tail(calls)
    /\ polling' = (polling /\ ~EndsPoll(Head(calls)))
    /\ behind' = (behind \/ Head(calls).kind = "bootstrap")
    /\ polled' = FALSE
    /\ UNCHANGED <<db, events, listening, timer, screen, acting, silent, changes>>

-----------------------------------------------------------------------------
(* The window.                                                             *)

Listen ==
    /\ ~listening /\ listening' = TRUE
    /\ UNCHANGED <<db, events, calls, timer, polling, screen, acting, behind, silent, polled,
                   changes, failures>>

\* mergePeerDiscoverySnapshot, mergePeerOfflineSnapshot, mergeResolvedFriendSnapshot
Patched(event) ==
    CASE event = "discovered" -> [screen EXCEPT !.online = TRUE, !.friendOnline = screen.friend]
      [] event = "offline"    -> [screen EXCEPT !.online = FALSE, !.friendOnline = FALSE]
      [] event = "resolved"   -> [screen EXCEPT !.friend = TRUE, !.friendOnline = TRUE]
      [] event = "changed"    -> screen

\* handleNetworkEvent; scheduleRefresh starts the delay anew.
HandleEvent ==
    /\ events # <<>> /\ events' = Tail(events)
    /\ screen' = Patched(Head(events))
    /\ timer' = (timer \/ Head(events) \in {"resolved", "changed"})
    /\ UNCHANGED <<db, listening, calls, polling, acting, behind, silent, polled, changes,
                   failures>>

FireTimer ==
    /\ timer /\ timer' = FALSE
    /\ Refresh
    /\ UNCHANGED <<db, events, listening, polling, screen, acting, polled, changes, failures>>

\* The interval; nothing is asked while the last poll runs.
Poll ==
    /\ ~polling /\ polling' = TRUE
    /\ Call("poll") /\ polled' = TRUE
    /\ UNCHANGED <<db, events, listening, timer, screen, acting, behind, silent, changes,
                   failures>>

\* The race is lost; the answer is still taken when it comes.
PollTimesOut ==
    /\ polling /\ polling' = FALSE
    /\ UNCHANGED <<db, events, listening, calls, timer, screen, acting, behind, silent,
                   polled, changes, failures>>

\* refreshNearby
RefreshNearby ==
    /\ Call("presence")
    /\ UNCHANGED <<db, events, listening, timer, polling, screen, acting, behind, silent,
                   polled, changes, failures>>

-----------------------------------------------------------------------------
(* A command of the user, and the refresh that follows it (act).           *)

UserActs ==
    /\ ~acting /\ acting' = TRUE
    /\ \/ Change /\ db' = [db EXCEPT !.friend = TRUE, !.requests = @ + 1] /\ polled' = FALSE
       \/ Change /\ db' = [db EXCEPT !.entries = @ + 1] /\ UNCHANGED polled
       \/ UNCHANGED <<db, polled, changes>>
    /\ UNCHANGED <<events, behind, silent, failures, windowVars>>

CommandSucceeds ==
    /\ acting /\ acting' = FALSE
    /\ Refresh
    /\ UNCHANGED <<db, events, listening, timer, polling, screen, polled, changes, failures>>

\* A failure is shown, and no refresh is asked for.
CommandFails ==
    /\ acting /\ acting' = FALSE /\ Fail
    /\ behind' = TRUE
    /\ UNCHANGED <<db, events, silent, polled, changes, windowVars>>

Next ==
    \/ RecordHello \/ MarkOffline \/ ResolveRequest \/ ChangeLog
    \/ ChangeSilently \/ HandlerFails
    \/ ReadTable \/ Answer \/ ReadFails
    \/ Listen \/ HandleEvent \/ FireTimer \/ Poll \/ PollTimesOut \/ RefreshNearby
    \/ UserActs \/ CommandSucceeds \/ CommandFails

Spec == Init /\ [][Next]_vars

-----------------------------------------------------------------------------

\* When nothing is under way, the window shows the friends, requests, messages and
\* transfers as the database has them, whatever was read in the middle of a change or
\* patched in the middle of a read; and once presence was asked for since it changed, it
\* shows who is online.  Excepted are changes whose event came before the window listened or
\* never came, and those whose refresh failed or was left out after a failed command, until
\* the next; and of a transfer what changed without an event since the last refresh was
\* asked for (bootstrap, handleNetworkEvent, try_claim_incoming_transfer).
AtRest == events = <<>> /\ calls = <<>> /\ ~timer /\ ~acting

ScreenIsCurrent ==
    AtRest =>
        /\ ~behind =>
            /\ screen.requests = db.requests /\ screen.entries = db.entries
            /\ screen.friend = db.friend
            /\ silent \/ screen.progress = db.progress
        /\ polled =>
            /\ screen.online = db.online /\ screen.friend = db.friend
            /\ screen.friendOnline = (db.friend /\ db.online)

\* Why it does: unless a refresh is still to come, one was asked for since the last change,
\* and it and all later calls show, or have yet to read, what the database has; so does every
\* call since the presence was asked for; and the last event agrees with who is online.
Rests(kind) ==
    IF kind = "bootstrap"
    THEN {Reads(kind), <<"requests", "friends", "entries">>, <<"friends", "entries">>,
          <<"entries">>, <<>>}
    ELSE {Reads(kind), <<"friends">>, <<>>}

Unread(call, table) == \E i \in DOMAIN call.left : call.left[i] = table

\* Of the progress only what is known to be current counts.
ShowsEntries(call, d, quiet) ==
    /\ Unread(call, "friends") \/ call.seen.friend = d.friend
    /\ call.kind = "bootstrap" =>
        /\ Unread(call, "requests") \/ call.seen.requests = d.requests
        /\ Unread(call, "entries") \/
            /\ call.seen.entries = d.entries
            /\ quiet \/ call.seen.progress = d.progress

ShowsPresence(call, d) ==
    /\ Unread(call, "peers") \/ call.seen.online = d.online
    /\ Unread(call, "friends") \/
        /\ call.seen.friend = d.friend
        /\ call.seen.friendOnline = (d.friend /\ d.online)

HasEntries(shown, d, quiet) ==
    /\ shown.requests = d.requests /\ shown.entries = d.entries /\ shown.friend = d.friend
    /\ quiet \/ shown.progress = d.progress

HasPresence(shown, d) ==
    /\ shown.online = d.online /\ shown.friend = d.friend
    /\ shown.friendOnline = (d.friend /\ d.online)

ToRefresh == timer \/ \E i \in DOMAIN events : events[i] \in {"resolved", "changed"}

EntriesAreComing ==
    \E i \in 0..Len(calls) :
        /\ IF i = 0 THEN HasEntries(screen, db, silent) ELSE calls[i].kind = "bootstrap"
        /\ \A j \in DOMAIN calls : j >= i => ShowsEntries(calls[j], db, silent)

PresenceIsComing ==
    \E i \in 0..Len(calls) :
        /\ i = 0 => /\ screen.friend = db.friend
                    /\ events = <<>> => HasPresence(screen, db)
        /\ \A j \in DOMAIN calls : j >= i => ShowsPresence(calls[j], db)

EventsAgree ==
    /\ ~listening => events = <<>>
    /\ events # <<>> =>
        /\ events[Len(events)] = "discovered" => db.online
        /\ events[Len(events)] = "offline" => ~db.online

ViewInv ==
    /\ TypeOK
    /\ db.requests <= changes /\ db.entries <= changes /\ db.progress <= changes
    /\ \A i \in DOMAIN calls : calls[i].left \in Rests(calls[i].kind)
    /\ EventsAgree
    /\ ~behind /\ ~acting /\ ~ToRefresh => EntriesAreComing
    /\ polled /\ ~ToRefresh => PresenceIsComing
=============================================================================
