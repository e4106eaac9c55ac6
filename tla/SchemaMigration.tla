-------------------------- MODULE SchemaMigration --------------------------
(***************************************************************************)
(* How a release of the program opens the database an older one may have   *)
(* left: one transaction that creates the tables, adds the columns that    *)
(* are missing, names the cleanup rows, rebuilds the table of chunk hashes *)
(* and queues, once, the friend decisions that were made before decisions  *)
(* were queued.  The process may end at any point of it.                   *)
(*                                                                         *)
(* Only the tables whose old rows need something are modelled.  A column   *)
(* with a constant default is a member of a set: what reading an old row   *)
(* gives is that default.                                                  *)
(***************************************************************************)
EXTENDS Naturals, FiniteSets

CONSTANTS
    Requests,    \* friend requests
    Columns,     \* the columns older releases did not have, "cleanup_token" among them
    Cleanups,    \* rows of transfer_cleanup
    MaxTokens,   \* bound: tokens drawn before no more cleanup rows are queued
    MaxOpenings  \* bound: times the database is opened

VARIABLES
    db,        \* what the database file holds
    work,      \* what the open transaction sees
    at,        \* the step of the migration, or "closed", "running", "refused"
    acked,     \* requests whose requester acknowledged our decision
    tokens,    \* cleanup tokens drawn so far
    received,  \* chunk hashes that were ever stored
    openings

vars == <<db, work, at, acked, tokens, received, openings>>

NoToken == 0
Hashes == {"blob", "text"}     \* a hash of 32 bytes, and anything else
Status == {"none", "pending", "accepted", "rejected"}
Resolved == {"accepted", "rejected"}
Steps == {"tables", "columns", "tokens", "chunks", "seed", "commit"}

\* What a file may hold: nothing, or what a release without some of the columns and without
\* the queue of decisions wrote; its table of hashes had no CHECK.
Empty == [tables |-> FALSE, columns |-> {}, cleanup |-> [c \in {} |-> NoToken],
          checked |-> FALSE, hashes |-> {}, requests |-> [r \in Requests |-> "none"],
          queue |-> {}, seeded |-> FALSE]

Older ==
    [tables : {TRUE}, columns : SUBSET (Columns \ {"cleanup_token"}),
     cleanup : UNION {[C -> {NoToken}] : C \in SUBSET Cleanups},
     checked : {FALSE}, hashes : SUBSET Hashes, requests : [Requests -> Status],
     queue : {{}}, seeded : {FALSE}]

TypeOK ==
    /\ db.columns \subseteq Columns /\ db.queue \subseteq Requests
    /\ DOMAIN db.cleanup \subseteq Cleanups
    /\ at \in Steps \cup {"closed", "running", "refused"}
    /\ tokens \in Nat

Init ==
    /\ db \in {Empty} \cup Older
    /\ work = db /\ at = "closed"
    /\ acked = {} /\ tokens = NoToken /\ received = db.hashes /\ openings = 0

-----------------------------------------------------------------------------
(***************************************************************************)
(* The transaction: everything it does is seen by nobody until it commits. *)
(***************************************************************************)
Step(from, to) ==
    at = from /\ at' = to /\ UNCHANGED <<db, acked, received, openings>>

\* Storage::open.
Open ==
    /\ at = "closed" /\ openings < MaxOpenings
    /\ openings' = openings + 1
    /\ work' = db /\ at' = "tables"
    /\ UNCHANGED <<db, acked, tokens, received>>

\* CREATE TABLE IF NOT EXISTS: tables that are there keep their form and their rows.
CreateTables ==
    /\ Step("tables", "columns")
    /\ work' = IF work.tables THEN work
               ELSE [work EXCEPT !.tables = TRUE, !.columns = Columns, !.checked = TRUE]
    /\ UNCHANGED tokens

\* Each column is looked for in the table's description and added when it is not there.
AddColumn ==
    /\ at = "columns"
    /\ \E c \in Columns \ work.columns : work' = [work EXCEPT !.columns = @ \cup {c}]
    /\ UNCHANGED <<db, at, acked, tokens, received, openings>>

ColumnsAdded ==
    /\ work.columns = Columns
    /\ Step("columns", "tokens")
    /\ UNCHANGED <<work, tokens>>

\* Each row without a token gets one of its own (randomblob is drawn row by row).
FillToken ==
    /\ at = "tokens"
    /\ \E c \in DOMAIN work.cleanup :
          /\ work.cleanup[c] = NoToken
          /\ work' = [work EXCEPT !.cleanup[c] = tokens + 1]
    /\ tokens' = tokens + 1
    /\ UNCHANGED <<db, at, acked, received, openings>>

TokensFilled ==
    /\ \A c \in DOMAIN work.cleanup : work.cleanup[c] # NoToken
    /\ Step("tokens", "chunks")
    /\ UNCHANGED <<work, tokens>>

\* A table without the CHECK is copied into one that has it.
RebuildChunks ==
    /\ work.checked \/ work.hashes \subseteq {"blob"}
    /\ Step("chunks", "seed")
    /\ work' = [work EXCEPT !.checked = TRUE]
    /\ UNCHANGED tokens

\* One hash the CHECK would not take: the migration ends and all of it is rolled back.
RefuseChunks ==
    /\ ~work.checked /\ ~ work.hashes \subseteq {"blob"}
    /\ at = "chunks" /\ at' = "refused" /\ work' = db
    /\ UNCHANGED <<db, acked, tokens, received, openings>>

Decided(requests) == {r \in Requests : requests[r] \in Resolved}

\* Mutant: the decisions are queued at every opening.
SeedAlways ==
    /\ Step("seed", "commit")
    /\ work' = [work EXCEPT !.queue = @ \cup Decided(work.requests), !.seeded = TRUE]
    /\ UNCHANGED tokens

\* Once in the life of the file: the marker is written in the same transaction.
SeedDecisions ==
    /\ Step("seed", "commit")
    /\ work' = IF work.seeded THEN work
               ELSE [work EXCEPT !.queue = @ \cup Decided(work.requests), !.seeded = TRUE]
    /\ UNCHANGED tokens

Commit ==
    /\ at = "commit" /\ at' = "running" /\ db' = work
    /\ UNCHANGED <<work, acked, tokens, received, openings>>

\* The process ends: what was not committed is gone.
Crash ==
    /\ at # "closed" /\ at' = "closed"
    /\ work' = db
    /\ UNCHANGED <<db, acked, tokens, received, openings>>

-----------------------------------------------------------------------------
(***************************************************************************)
(* The program at work on the migrated database, as far as these rows go.  *)
(***************************************************************************)
Write(new) == at = "running" /\ db' = new /\ work' = new /\ UNCHANGED <<at, openings>>

ReceiveRequest(r) ==
    /\ db.requests[r] = "none"
    /\ Write([db EXCEPT !.requests[r] = "pending"])
    /\ UNCHANGED <<acked, tokens, received>>

\* The row and its queued decision are one transaction.
ResolveRequest(r) ==
    /\ db.requests[r] = "pending"
    /\ \E s \in Resolved : Write([db EXCEPT !.requests[r] = s, !.queue = @ \cup {r}])
    /\ UNCHANGED <<acked, tokens, received>>

AcknowledgeDecision(r) ==
    /\ r \in db.queue
    /\ Write([db EXCEPT !.queue = @ \ {r}])
    /\ acked' = acked \cup {r}
    /\ UNCHANGED <<tokens, received>>

\* The table takes no other hash any more.
StoreChunk ==
    /\ Write([db EXCEPT !.hashes = @ \cup {"blob"}])
    /\ received' = received \cup {"blob"}
    /\ UNCHANGED <<acked, tokens>>

QueueCleanup(c) ==
    /\ c \notin DOMAIN db.cleanup /\ tokens < MaxTokens
    /\ tokens' = tokens + 1
    /\ Write([db EXCEPT !.cleanup = [d \in DOMAIN @ \cup {c} |-> IF d = c THEN tokens + 1 ELSE @[d]]])
    /\ UNCHANGED <<acked, received>>

FinishCleanup(c) ==
    /\ c \in DOMAIN db.cleanup
    /\ Write([db EXCEPT !.cleanup = [d \in DOMAIN @ \ {c} |-> @[d]]])
    /\ UNCHANGED <<acked, tokens, received>>

Next ==
    \/ Open \/ CreateTables \/ AddColumn \/ ColumnsAdded \/ FillToken \/ TokensFilled
    \/ RebuildChunks \/ RefuseChunks \/ SeedDecisions \/ Commit \/ Crash
    \/ \E r \in Requests : ReceiveRequest(r) \/ ResolveRequest(r) \/ AcknowledgeDecision(r)
    \/ StoreChunk
    \/ \E c \in Cleanups : QueueCleanup(c) \/ FinishCleanup(c)

Spec == Init /\ [][Next]_vars

-----------------------------------------------------------------------------
\* However often the program ended on the way: once it runs, it has every column, each
\* cleanup row has a token no other row has, every hash is one the table takes, and each
\* decision is queued or was acknowledged; an acknowledged one is never queued again; and no
\* hash that was stored is lost, a migration that was refused included (migrate).
MigrationIsSound ==
    /\ at = "running" =>
          /\ db.columns = Columns /\ db.checked /\ db.hashes \subseteq {"blob"}
          /\ \A c, d \in DOMAIN db.cleanup :
                db.cleanup[c] # NoToken /\ (c # d => db.cleanup[c] # db.cleanup[d])
          /\ Decided(db.requests) \subseteq db.queue \cup acked
    /\ db.queue \cap acked = {}
    /\ db.hashes = received

\* Why it is: what the transaction has done so far holds of what it sees, and until the
\* decisions were queued once, none has been acknowledged.
Databases ==
    [tables : BOOLEAN, columns : SUBSET Columns,
     cleanup : UNION {[C -> 0..tokens] : C \in SUBSET Cleanups},
     checked : BOOLEAN, hashes : SUBSET Hashes, requests : [Requests -> Status],
     queue : SUBSET Requests, seeded : BOOLEAN]

After(step) ==
    CASE step = "columns" -> {"tokens", "chunks", "seed", "commit", "running"}
      [] step = "tokens" -> {"chunks", "seed", "commit", "running"}
      [] step = "chunks" -> {"seed", "commit", "running"}
      [] step = "seed" -> {"commit", "running"}

Named(d) == \A c \in DOMAIN d.cleanup : d.cleanup[c] # NoToken

Consistent(d) ==
    /\ d \in Databases
    /\ ~d.tables \/ d.checked => d.hashes \subseteq {"blob"}
    /\ \A b, c \in DOMAIN d.cleanup :
        d.cleanup[b] # NoToken /\ b # c => d.cleanup[b] # d.cleanup[c]
    /\ IF d.seeded THEN Decided(d.requests) \subseteq d.queue \cup acked
                   ELSE d.queue = {} /\ acked = {}
    /\ d.queue \cup acked \subseteq Decided(d.requests)
    /\ d.queue \cap acked = {}
    /\ d.hashes = received

MigrationInv ==
    /\ tokens \in Nat /\ at \in Steps \cup {"closed", "running", "refused"}
    /\ Consistent(db) /\ Consistent(work)
    /\ at \in {"closed", "running", "refused"} => work = db
    /\ at \in After("columns") => work.columns = Columns
    /\ at \in After("tokens") => Named(work)
    /\ at \in After("chunks") => work.checked
    /\ at \in After("seed") => work.seeded
=============================================================================
