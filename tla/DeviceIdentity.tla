--------------------------- MODULE DeviceIdentity ---------------------------
(***************************************************************************)
(* The key pair a device is known by (identity.rs): made at the first      *)
(* start, kept in the credential store of the system or, where that does   *)
(* not work, in a file, and looked for in both at every later start.       *)
(*                                                                         *)
(* The store may not answer at one start and answer at the next, storing   *)
(* may fail, the process may end between two steps, and what is stored may *)
(* be damaged.                                                             *)
(***************************************************************************)
EXTENDS Integers

CONSTANTS
    MaxIdentities,  \* bound: key pairs that are made
    MaxAbandons       \* bound: ends of the process before it has its identity, and damages

Identities == 1..MaxIdentities
None == 0
Damaged == -1

VARIABLES
    keyring,  \* the secret in the credential store
    file,     \* the fallback file; it appears by a rename, so it is whole
    useKeyring,
    at,       \* load_or_create
    found,    \* the identity it has in hand
    made,     \* identities made so far
    used,     \* identities a start has ended with
    hidden,   \* has the store kept an identity from a start?
    abandons

vars == <<keyring, file, useKeyring, at, found, made, used, hidden, abandons>>
stores == <<keyring, file>>

TypeOK ==
    /\ {keyring, file} \subseteq Identities \union {None, Damaged}
    /\ useKeyring \in BOOLEAN /\ hidden \in BOOLEAN
    /\ at \in {"off", "secret", "write", "rename", "running"}
    /\ found \in Identities \union {None}
    /\ made \in 0..MaxIdentities
    /\ used \subseteq Identities
    /\ abandons \in 0..MaxAbandons

Init ==
    /\ keyring = None /\ file = None
    /\ useKeyring \in BOOLEAN
    /\ at = "off" /\ found = None
    /\ made = 0 /\ used = {}
    /\ hidden = FALSE /\ abandons = 0

-----------------------------------------------------------------------------

\* The start goes on with an identity that was stored; with a damaged one it is refused.
Decode(stored) ==
    /\ IF stored = Damaged
         THEN UNCHANGED <<at, found, used>>
         ELSE at' = "running" /\ found' = stored /\ used' = used \union {stored}
    /\ UNCHANGED made

MakeNew(next) ==
    /\ made < MaxIdentities
    /\ made' = made + 1 /\ found' = made'
    /\ at' = next /\ UNCHANGED used

\* The identity in the file, or a new one, which is to be stored next.
LoadOrMake(next) ==
    \/ file # None /\ Decode(file)
    \/ file = None /\ MakeNew(next)

\* The store answers: it has the identity, or none.
KeyringAnswers ==
    /\ at = "off" /\ useKeyring
    /\ \/ keyring # None /\ Decode(keyring)
       \/ keyring = None /\ LoadOrMake("secret")
    /\ UNCHANGED <<stores, useKeyring, hidden, abandons>>

\* The store cannot be opened or read, whatever it has.
KeyringFails ==
    /\ at = "off" /\ useKeyring
    /\ LoadOrMake("write")
    /\ hidden' = (hidden \/ keyring # None)
    /\ UNCHANGED <<stores, useKeyring, abandons>>

\* A debug build with a data directory of its own.
WithoutKeyring ==
    /\ at = "off" /\ ~useKeyring
    /\ LoadOrMake("write")
    /\ UNCHANGED <<stores, useKeyring, hidden, abandons>>

\* set_secret; where it fails, the file is written.
SetSecret ==
    /\ at = "secret"
    /\ \/ keyring' = found /\ at' = "running" /\ used' = used \union {found}
       \/ at' = "write" /\ UNCHANGED <<keyring, used>>
    /\ UNCHANGED <<file, useKeyring, found, made, hidden, abandons>>

\* write_file: a temporary file of a name of its own is written and synchronised, ...
WriteTemporary ==
    /\ at = "write" /\ at' = "rename"
    /\ UNCHANGED <<stores, useKeyring, found, made, used, hidden, abandons>>

\* ... and renamed.
RenameTemporary ==
    /\ at = "rename"
    /\ file' = found /\ at' = "running" /\ used' = used \union {found}
    /\ UNCHANGED <<keyring, useKeyring, found, made, hidden, abandons>>

Quit ==
    /\ at = "running"
    /\ at' = "off" /\ found' = None
    /\ UNCHANGED <<stores, useKeyring, made, used, hidden, abandons>>

\* A call fails, or the process ends, before the identity is stored.
Abandon ==
    /\ abandons < MaxAbandons /\ abandons' = abandons + 1
    /\ at \in {"secret", "write", "rename"}
    /\ at' = "off" /\ found' = None
    /\ UNCHANGED <<stores, useKeyring, made, used, hidden>>

Damage ==
    /\ abandons < MaxAbandons /\ abandons' = abandons + 1
    /\ \/ keyring # None /\ keyring' = Damaged /\ UNCHANGED file
       \/ file # None /\ file' = Damaged /\ UNCHANGED keyring
    /\ UNCHANGED <<useKeyring, at, found, made, used, hidden>>

Next ==
    \/ KeyringAnswers \/ KeyringFails \/ WithoutKeyring
    \/ SetSecret \/ WriteTemporary \/ RenameTemporary
    \/ Quit \/ Abandon \/ Damage

Spec == Init /\ [][Next]_vars

-----------------------------------------------------------------------------

\* A device keeps the identity its friends know it by, whichever place took it, and
\* rather refuses to start than make another: as long as no start finds the store mute
\* that has the identity (identity.rs:53 then makes another).
IdentityIsKept == ~hidden => \A i, j \in used : i = j

\* Why it does: as long as nothing was hidden, one place at most holds an identity, it holds
\* the one that was used, and another is made only while there is none.
IdentityInv ==
    /\ TypeOK
    /\ ~useKeyring => keyring = None /\ at # "secret"
    /\ at \in {"secret", "write", "rename"} => found # None
    /\ ~hidden =>
        /\ keyring = None \/ file = None
        /\ used # {} => keyring # None \/ file # None
        /\ {keyring, file} \subseteq used \union {None, Damaged}
        /\ at \in {"secret", "write", "rename"} => keyring = None /\ file = None
        /\ IdentityIsKept
=============================================================================
