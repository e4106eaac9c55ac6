----------------------------- MODULE PartsProofs ----------------------------
(***************************************************************************)
(* The parts that share no state, for every value of their constants.      *)
(*                                                                         *)
(* Each part's module ends with the invariant that says why the part keeps *)
(* its property.  Here it is shown, part by part, to hold at first and to  *)
(* be kept by every step; a behaviour of MCParts is of one part, so that   *)
(* the invariant of that part holds in all of it.  The names are those of  *)
(* MCParts: a part's variables are the first of its slots.                 *)
(*                                                                         *)
(* The arguments for the stream and the outbox are modules of their own,   *)
(* ChunkStreamProofs and TerminalOutboxProofs.                             *)
(***************************************************************************)
EXTENDS MCParts, FiniteSets, SequenceTheorems, TLAPS

-----------------------------------------------------------------------------
(* ChatMessages: a request the friend accepted is stored there, and an answer is one
   the loop still waits for. *)

\* ChatInv holds at first: no message is stored, queued or under way (Init).
LEMMA ChatStarts == ASSUME Chat!Init PROVE Chat!ChatInv
<1>1. Chat!TypeOK
  BY PartsAssumption DEF Chat!Init, Chat!TypeOK, Chat!Status
<1>2. Chat!ChatIsHonest
  BY DEF Chat!Init, Chat!ChatIsHonest
<1> QED
  BY <1>1, <1>2 DEF Chat!Init, Chat!ChatInv

\* Every step keeps ChatInv (Next).
LEMMA ChatKept ==
  ASSUME Chat!ChatInv, Chat!Next \/ UNCHANGED Chat!vars
  PROVE  Chat!ChatInv'
<1> USE PartsAssumption
  DEF Chat!ChatInv, Chat!TypeOK, Chat!ChatIsHonest, Chat!UnderWay, Chat!Status, Chat!Leg,
      Chat!sender, Chat!receiver, Chat!link, Chat!CanSend, Chat!HasRoom
<1>1. ASSUME NEW m \in Messages PROVE
        /\ Len(Append(s3, m)) = Len(s3) + 1 /\ Append(s3, m) \in Seq(Messages)
        /\ \A n : (n = m \/ \E i \in DOMAIN s3 : s3[i] = n)
                    => \E i \in DOMAIN Append(s3, m) : Append(s3, m)[i] = n
  <2>1. s3 \in Seq(Messages)
    OBVIOUS
  <2>2. /\ Len(Append(s3, m)) = Len(s3) + 1 /\ Append(s3, m) \in Seq(Messages)
        /\ DOMAIN Append(s3, m) = 1..Len(s3) + 1 /\ DOMAIN s3 = 1..Len(s3)
        /\ Len(s3) \in Nat
        /\ Append(s3, m)[Len(s3) + 1] = m
        /\ \A i \in 1..Len(s3) : Append(s3, m)[i] = s3[i]
    BY <2>1, Z3
  <2>3. ASSUME NEW n, n = m \/ \E i \in DOMAIN s3 : s3[i] = n
        PROVE  \E i \in DOMAIN Append(s3, m) : Append(s3, m)[i] = n
    <3>1. CASE n = m
      BY <2>2, <3>1
    <3>2. CASE \E i \in DOMAIN s3 : s3[i] = n
      BY <2>2, <3>2
    <3> QED
      BY <2>3, <3>1, <3>2
  <2> QED
    BY <2>2, <2>3
<1>2. ASSUME NEW m \in Messages, Chat!SendText(m) PROVE Chat!ChatInv'
  <2>1. CASE Chat!HasRoom /\ s1' = [s1 EXCEPT ![m] = "sending"] /\ s3' = Append(s3, m)
    <3>1. s3' \in Seq(Messages) /\ Len(s3') <= ChannelSize
      BY <2>1, <1>1
    <3>2. Chat!TypeOK'
      BY <1>2, <2>1, <3>1 DEF Chat!SendText
    <3>3. \A n \in Messages : n = m \/ Chat!UnderWay(n) => Chat!UnderWay(n)'
      BY <1>2, <2>1, <1>1 DEF Chat!SendText
    <3> QED
      BY <1>2, <2>1, <3>2, <3>3 DEF Chat!SendText
  <2>2. CASE s1' = [s1 EXCEPT ![m] = "failed"] /\ s3' = s3
    BY <1>2, <2>2 DEF Chat!SendText
  <2> QED
    BY <1>2, <2>1, <2>2 DEF Chat!SendText
<1>3. ASSUME NEW m \in Messages, Chat!RetryText(m) PROVE Chat!ChatInv'
  <2>1. CASE Chat!HasRoom /\ s3' = Append(s3, m) /\ s2' = s2 \ {m}
    <3>1. s3' \in Seq(Messages) /\ Len(s3') <= ChannelSize
      BY <2>1, <1>1
    <3>2. Chat!TypeOK'
      BY <1>3, <2>1, <3>1 DEF Chat!RetryText
    <3>3. \A n \in Messages : n = m \/ Chat!UnderWay(n) => Chat!UnderWay(n)'
      BY <1>3, <2>1, <1>1, ZenonT(40) DEF Chat!RetryText
    <3> QED
      BY <1>3, <2>1, <3>2, <3>3 DEF Chat!RetryText
  <2>2. CASE s3' = s3 /\ s2' = s2 \cup {m}
    BY <1>3, <2>2 DEF Chat!RetryText
  <2> QED
    BY <1>3, <2>1, <2>2 DEF Chat!RetryText
<1>4. CASE Chat!HandleSend
  <2>1. /\ s3 # <<>> /\ Head(s3) \in Messages /\ Tail(s3) \in Seq(Messages) 
        /\ Len(Tail(s3)) = Len(s3) - 1 /\ Head(s3) = s3[1]
        /\ \A i \in DOMAIN s3 :
               i = 1 \/ (i - 1 \in DOMAIN Tail(s3) /\ Tail(s3)[i - 1] = s3[i])
    BY <1>4 DEF Chat!HandleSend
  <2> DEFINE f == Chat!Request(Head(s3))
  <2>2. CASE s4' = s4 \cup {f} /\ s5' = s5 + 1 /\ s1' = s1 /\ s5 < MaxAttempts
    <3>1. f \in [number : 1..s5', message : Messages, leg : Chat!Leg, awaited : BOOLEAN]
      BY <2>1, <2>2 DEF Chat!Request
    <3>2. f.message = Head(s3) /\ f.awaited = TRUE /\ f.leg = "request"
      BY DEF Chat!Request
    <3> HIDE DEF f
    <3>3. Chat!TypeOK'
      BY <1>4, <2>1, <2>2, <3>1, SMTT(40) DEF Chat!HandleSend
    <3>4. ASSUME NEW n \in Messages, Chat!UnderWay(n) PROVE Chat!UnderWay(n)'
      <4>1. CASE \E i \in DOMAIN s3 : s3[i] = n
        <5>1. PICK i \in DOMAIN s3 : s3[i] = n
          BY <4>1
        <5>2. CASE i = 1
          BY <2>1, <2>2, <3>2, <5>1, <5>2
        <5>3. CASE i - 1 \in DOMAIN s3' /\ s3'[i - 1] = n
          BY <5>3
        <5> QED
          BY <1>4, <2>1, <5>1, <5>2, <5>3 DEF Chat!HandleSend
      <4>2. CASE \E h \in s4 : h.message = n /\ h.awaited
        BY <2>2, <4>2
      <4> QED
        BY <3>4, <4>1, <4>2
    <3> QED
      BY <1>4, <2>2, <3>2, <3>3, <3>4 DEF Chat!HandleSend
  <2>3. CASE s1' = [s1 EXCEPT ![Head(s3)] = "failed"] /\ UNCHANGED <<s4, s5>>
    <3>1. Chat!TypeOK'
      BY <1>4, <2>1, <2>3 DEF Chat!HandleSend
    <3>2. ASSUME NEW n \in Messages, Chat!UnderWay(n), n # Head(s3) PROVE Chat!UnderWay(n)'
      <4>1. CASE \E i \in DOMAIN s3 : s3[i] = n
        <5>1. PICK i \in DOMAIN s3 : s3[i] = n
          BY <4>1
        <5>2. i - 1 \in DOMAIN s3' /\ s3'[i - 1] = n
          BY <1>4, <2>1, <3>2, <5>1 DEF Chat!HandleSend
        <5> QED
          BY <5>2
      <4>2. CASE \E h \in s4 : h.message = n /\ h.awaited
        BY <2>3, <4>2
      <4> QED
        BY <3>2, <4>1, <4>2
    <3> QED
      BY <1>4, <2>3, <3>1, <3>2 DEF Chat!HandleSend
  <2> QED
    BY <1>4, <2>2, <2>3 DEF Chat!HandleSend
<1>5. ASSUME NEW f \in s4, Chat!HandleAnswer(f) PROVE Chat!ChatInv'
  BY <1>5 DEF Chat!HandleAnswer
<1>6. ASSUME NEW f \in s4, Chat!HandleOutboundFailure(f) PROVE Chat!ChatInv'
  BY <1>6 DEF Chat!HandleOutboundFailure
<1>7. ASSUME NEW f \in s4, Chat!HandleTextMessage(f) PROVE Chat!ChatInv'
  <2> DEFINE g == [f EXCEPT !.leg = IF s9 THEN "accepted" ELSE "rejected"]
  <2>1. /\ f.message \in Messages /\ f.awaited \in BOOLEAN
        /\ g \in [number : 1..s5, message : Messages, leg : Chat!Leg, awaited : BOOLEAN]
        /\ g.message = f.message /\ g.awaited = f.awaited
        /\ g.leg = (IF s9 THEN "accepted" ELSE "rejected")
    OBVIOUS
  <2>2. s4' = (s4 \ {f}) \cup (IF f.awaited THEN {g} ELSE {})
    BY <1>7 DEF Chat!HandleTextMessage
  <2> HIDE DEF g
  <2>3. /\ s10' = IF s9 THEN s10 \cup {f.message} ELSE s10
        /\ s11' = IF s9 /\ f.message \notin s10 THEN [s11 EXCEPT ![f.message] = @ + 1]
               ELSE s11
    BY <1>7 DEF Chat!HandleTextMessage
  <2>4. s10' \subseteq Messages /\ s11' \in [Messages -> Nat]
    <3>1. s11 \in [Messages -> Nat] /\ s10 \subseteq Messages
      OBVIOUS
    <3> QED
      BY <2>1, <2>3, <3>1
  <2>5. Chat!TypeOK'
    BY <1>7, <2>1, <2>2, <2>4 DEF Chat!HandleTextMessage
  <2>6. \A h \in s4' : /\ h.leg = "accepted" => h.message \in s10'
                       /\ h.leg # "request" => h.awaited
    BY <1>7, <2>1, <2>2 DEF Chat!HandleTextMessage
  <2>7. ASSUME NEW n \in Messages, s1[n] = "sending", s6 PROVE Chat!UnderWay(n)' \/ n \in s2
    BY <1>7, <2>1, <2>2, <2>7 DEF Chat!HandleTextMessage
  <2>8. \A n \in Messages : s11'[n] = IF n \in s10' THEN 1 ELSE 0
    <3>1. /\ s11 \in [Messages -> Nat] /\ s10 \subseteq Messages
          /\ \A n \in Messages : s11[n] = IF n \in s10 THEN 1 ELSE 0
      OBVIOUS
    <3>2. CASE s9 /\ f.message \notin s10
      <4>1. s11[f.message] = 0
        BY <2>1, <3>1, <3>2
      <4>2. \A n \in Messages : s11'[n] = IF n = f.message THEN 1 ELSE s11[n]
        BY <2>3, <3>1, <3>2, <4>1
      <4>3. \A n \in Messages : n \in s10' <=> n \in s10 \/ n = f.message
        BY <2>3, <3>2
      <4> QED
        BY <3>1, <4>2, <4>3
    <3>3. CASE ~(s9 /\ f.message \notin s10)
      BY <2>3, <3>1, <3>3
    <3> QED
      BY <3>2, <3>3
  <2> QED
    BY <1>7, <2>5, <2>6, <2>7, <2>8 DEF Chat!HandleTextMessage
<1>8. ASSUME NEW f \in s4, Chat!LoseRequest(f) PROVE Chat!ChatInv'
  BY <1>8 DEF Chat!LoseRequest
<1>9. CASE Chat!BecomeFriend
  BY <1>9 DEF Chat!BecomeFriend
<1>10. CASE Chat!Connect \/ Chat!Disconnect \/ Chat!MarkOffline
  BY <1>10 DEF Chat!Connect, Chat!Disconnect, Chat!MarkOffline
<1>11. /\ Chat!Forgotten
            \subseteq [number : 1..s5, message : Messages, leg : Chat!Leg,
                       awaited : BOOLEAN]
      /\ \A h \in Chat!Forgotten : h.leg = "request"
  <2> SUFFICES ASSUME NEW h \in Chat!Forgotten
               PROVE  /\ h \in [number : 1..s5, message : Messages, leg : Chat!Leg,
                               awaited : BOOLEAN]
                      /\ h.leg = "request"
    OBVIOUS
  <2> PICK g \in s4 : g.leg = "request" /\ h = [g EXCEPT !.awaited = FALSE]
    BY DEF Chat!Forgotten
  <2> QED
    OBVIOUS
<1>12. <<>> \in Seq(Messages) /\ Len(<<>>) = 0
  OBVIOUS
<1>13. CASE Chat!StopLoop
  <2>1. s3' \in Seq(Messages) /\ Len(s3') <= ChannelSize
    BY <1>13, <1>12 DEF Chat!StopLoop
  <2>2. Chat!TypeOK'
    BY <1>13, <1>11, <2>1 DEF Chat!StopLoop
  <2> QED
    BY <1>13, <1>11, <2>2 DEF Chat!StopLoop
<1>14. CASE Chat!Restart
  <2>1. s1' \in [Messages -> Chat!Status] /\ \A m \in Messages : s1'[m] # "sending"
          /\ (s1'[m] = "delivered" => s1[m] = "delivered")
    BY <1>14 DEF Chat!Restart, Chat!ResetMessages
  <2>2. s3' \in Seq(Messages) /\ Len(s3') <= ChannelSize
    BY <1>14, <1>12 DEF Chat!Restart
  <2>3. s12' \in 0..MaxRestarts
    BY <1>14 DEF Chat!Restart
  <2>4. {s6', s7', s8', s9'} \subseteq BOOLEAN
    BY <1>14 DEF Chat!Restart
  <2>5. Chat!TypeOK'
    BY <1>14, <1>11, <2>2, <2>1, <2>3, <2>4, SMT DEF Chat!Restart
  <2> QED
    BY <1>14, <1>11, <2>1, <2>5 DEF Chat!Restart
<1>15. CASE UNCHANGED Chat!vars
  BY <1>15 DEF Chat!vars
<1> QED
  BY <1>2, <1>3, <1>4, <1>5, <1>6, <1>7, <1>8, <1>9, <1>10, <1>13, <1>14, <1>15
    DEF Chat!Next

-----------------------------------------------------------------------------
(* SchemaMigration: what the transaction has done so far holds of what it sees. *)

\* MigrationInv holds at first, whatever release wrote the file (Init).
LEMMA MigrationStarts == ASSUME Schema!Init PROVE Schema!MigrationInv
<1>1. ASSUME s1 = Schema!Empty PROVE Schema!Consistent(s1)
  <2> DEFINE none == [c \in {} |-> Schema!NoToken]
  <2>1. none \in [{} -> 0..s5] /\ DOMAIN none = {}
    OBVIOUS
  <2>2. \E C \in SUBSET Cleanups : none \in [C -> 0..s5]
    BY <2>1
  <2>3. [r \in Requests |-> "none"] \in [Requests -> Schema!Status]
    BY DEF Schema!Status
  <2> HIDE DEF none
  <2>4. s1 \in Schema!Databases /\ s1.cleanup = none /\ s1.hashes = {}
        /\ s1.queue = {} /\ ~s1.seeded
    BY <1>1, <2>2, <2>3 DEF Schema!Empty, Schema!Databases, none
  <2>5. s4 = {} /\ s6 = s1.hashes
    BY DEF Schema!Init
  <2> QED
    BY <2>1, <2>4, <2>5 DEF Schema!Consistent
<1>2. ASSUME s1 \in Schema!Older PROVE Schema!Consistent(s1)
  <2>1. PICK C \in SUBSET Cleanups : s1.cleanup \in [C -> {Schema!NoToken}]
    BY <1>2 DEF Schema!Older
  <2>2. s1.cleanup \in [C -> 0..s5]
    BY <2>1 DEF Schema!Init, Schema!NoToken
  <2>3. s1 \in Schema!Databases
    BY <1>2, <2>2 DEF Schema!Older, Schema!Databases
  <2>4. s1.tables /\ ~s1.checked /\ ~s1.seeded /\ s1.queue = {}
    BY <1>2 DEF Schema!Older
  <2>5. \A c \in DOMAIN s1.cleanup : s1.cleanup[c] = Schema!NoToken
    BY <2>1
  <2>6. s4 = {} /\ s6 = s1.hashes
    BY DEF Schema!Init
  <2> QED
    BY <2>3, <2>4, <2>5, <2>6 DEF Schema!Consistent
<1>3. Schema!Consistent(s1)
  <2>1. s1 \in {Schema!Empty} \cup Schema!Older
    BY DEF Schema!Init
  <2> QED
    BY <1>1, <1>2, <2>1
<1> QED
  BY <1>3 DEF Schema!Init, Schema!MigrationInv, Schema!After, Schema!Steps, Schema!NoToken

\* Every step keeps MigrationInv (Next).
LEMMA MigrationKept ==
  ASSUME Schema!MigrationInv, Schema!Next \/ UNCHANGED Schema!vars
  PROVE  Schema!MigrationInv'
<1> USE PartsAssumption
  DEF Schema!MigrationInv, Schema!Consistent, Schema!Databases, Schema!After, Schema!Named,
      Schema!Steps, Schema!Status, Schema!Hashes, Schema!NoToken, Schema!Decided,
      Schema!Resolved, Schema!Step, Schema!Write
<1>1. CASE Schema!Open
  BY <1>1 DEF Schema!Open
<1>2. CASE Schema!CreateTables
  <2>1. s2 \in Schema!Databases
    OBVIOUS
  <2>2. CASE s2.tables
    BY <1>2, <2>2 DEF Schema!CreateTables
  <2>3. CASE ~s2.tables
    <3>1. s2' = [s2 EXCEPT !.tables = TRUE, !.columns = Columns, !.checked = TRUE]
      BY <1>2, <2>3 DEF Schema!CreateTables
    <3>2. /\ s2'.tables = TRUE /\ s2'.columns = Columns
          /\ s2'.checked = TRUE /\ s2'.cleanup = s2.cleanup
          /\ s2'.hashes = s2.hashes /\ s2'.requests = s2.requests
          /\ s2'.queue = s2.queue /\ s2'.seeded = s2.seeded
      BY <2>1, <3>1
    <3>3. s2' \in Schema!Databases
      BY <2>1, <3>1
    <3> QED
      BY <1>2, <2>3, <3>2, <3>3 DEF Schema!CreateTables
  <2> QED
    BY <2>2, <2>3
<1>3. CASE Schema!AddColumn
  BY <1>3 DEF Schema!AddColumn
<1>4. CASE Schema!ColumnsAdded
  BY <1>4 DEF Schema!ColumnsAdded
<1>5. CASE Schema!FillToken
  BY <1>5 DEF Schema!FillToken
<1>6. CASE Schema!TokensFilled
  BY <1>6 DEF Schema!TokensFilled
<1>7. CASE Schema!RebuildChunks
  <2>1. s2 \in Schema!Databases
    OBVIOUS
  <2>2. s2' = [s2 EXCEPT !.checked = TRUE]
    BY <1>7 DEF Schema!RebuildChunks
  <2>3. /\ s2'.tables = s2.tables /\ s2'.columns = s2.columns
        /\ s2'.checked = TRUE /\ s2'.cleanup = s2.cleanup
        /\ s2'.hashes = s2.hashes /\ s2'.requests = s2.requests
        /\ s2'.queue = s2.queue /\ s2'.seeded = s2.seeded
    BY <2>1, <2>2
  <2>4. s2' \in Schema!Databases
    BY <2>1, <2>2
  <2>5. s2.hashes \subseteq {"blob"}
    BY <1>7 DEF Schema!RebuildChunks
  <2> QED
    BY <1>7, <2>3, <2>4, <2>5 DEF Schema!RebuildChunks
<1>8. CASE Schema!RefuseChunks
  BY <1>8 DEF Schema!RefuseChunks
<1>9. CASE Schema!SeedDecisions
  <2>1. s2 \in Schema!Databases
    OBVIOUS
  <2>2. CASE s2.seeded
    BY <1>9, <2>2 DEF Schema!SeedDecisions
  <2>3. CASE ~s2.seeded
    <3>1. s2' = [s2 EXCEPT !.queue = @ \cup Schema!Decided(s2.requests), !.seeded = TRUE]
      BY <1>9, <2>3 DEF Schema!SeedDecisions
    <3>2. /\ s2'.tables = s2.tables /\ s2'.columns = s2.columns
          /\ s2'.checked = s2.checked /\ s2'.cleanup = s2.cleanup
          /\ s2'.hashes = s2.hashes /\ s2'.requests = s2.requests /\ s2'.seeded
          /\ s2'.queue = s2.queue \cup Schema!Decided(s2.requests)
      BY <2>1, <3>1
    <3>3. s2' \in Schema!Databases
      BY <2>1, <3>1
    <3>4. Schema!Consistent(s2)'
      <4>1. s4' = {} /\ s2.queue = {} /\ s6' = s6 /\ s5' = s5
        BY <1>9, <2>3 DEF Schema!SeedDecisions
      <4>2. s2'.queue = Schema!Decided(s2'.requests)
        BY <3>2, <4>1
      <4> QED
        BY <3>2, <3>3, <4>1, <4>2
    <3>5. Schema!Consistent(s1)'
      BY <1>9 DEF Schema!SeedDecisions
    <3>6. s3 = "seed" /\ s3' = "commit" /\ s5' = s5
      BY <1>9 DEF Schema!SeedDecisions
    <3>7. s2'.columns = Columns /\ Schema!Named(s2)' /\ s2'.checked
      BY <3>2, <3>6
    <3> HIDE DEF Schema!Consistent, Schema!Named
    <3> QED
      BY <3>2, <3>4, <3>5, <3>6, <3>7
  <2> QED
    BY <2>2, <2>3
<1>10. CASE Schema!Commit
  BY <1>10 DEF Schema!Commit
<1>11. CASE Schema!Crash
  BY <1>11 DEF Schema!Crash
<1>12. ASSUME NEW r \in Requests, Schema!ReceiveRequest(r) PROVE Schema!MigrationInv'
  <2>1. s1 \in Schema!Databases
    OBVIOUS
  <2>2. /\ s1.requests[r] = "none" /\ s3 = "running"
        /\ s1' = [s1 EXCEPT !.requests[r] = "pending"]
        /\ s2' = s1' /\ UNCHANGED <<s3, s4, s5, s6>>
    BY <1>12 DEF Schema!ReceiveRequest
  <2>3. /\ s1'.tables = s1.tables /\ s1'.columns = s1.columns
        /\ s1'.checked = s1.checked /\ s1'.cleanup = s1.cleanup
        /\ s1'.hashes = s1.hashes /\ s1'.requests = [s1.requests EXCEPT ![r] = "pending"]
        /\ s1'.seeded = s1.seeded /\ s1'.queue = s1.queue
    BY <2>1, <2>2
  <2>4. s1' \in Schema!Databases
    BY <2>1, <2>2, ZenonT(40)
  <2>5. Schema!Decided(s1'.requests) = Schema!Decided(s1.requests)
    BY <2>2, <2>3
  <2>6. Schema!Consistent(s1)'
    BY <2>2, <2>3, <2>4, <2>5
  <2>7. Schema!Consistent(s2)'
    BY <2>2, <2>3, <2>4, <2>5
  <2> HIDE DEF Schema!Consistent
  <2> QED
    BY <2>2, <2>3, <2>6, <2>7
<1>13. ASSUME NEW r \in Requests, Schema!ResolveRequest(r) PROVE Schema!MigrationInv'
  <2>1. s1 \in Schema!Databases
    OBVIOUS
  <2>2. PICK s \in Schema!Resolved :
            s1' = [s1 EXCEPT !.requests[r] = s, !.queue = @ \cup {r}]
    BY <1>13 DEF Schema!ResolveRequest
  <2>3. /\ s1'.tables = s1.tables /\ s1'.columns = s1.columns
        /\ s1'.checked = s1.checked /\ s1'.cleanup = s1.cleanup
        /\ s1'.hashes = s1.hashes /\ s1'.requests = [s1.requests EXCEPT ![r] = s]
        /\ s1'.seeded = s1.seeded
        /\ s1'.queue = s1.queue \cup {r}
    BY <2>1, <2>2
  <2>4. s1' \in Schema!Databases
    BY <2>1, <2>2, ZenonT(40)
  <2>5. s1.seeded = TRUE /\ r \notin s4
    BY <1>13 DEF Schema!ResolveRequest
  <2>6. Schema!Decided(s1'.requests) \subseteq s1'.queue \cup s4
    BY <2>3, <2>5
  <2> QED
    BY <1>13, <2>2, <2>3, <2>4, <2>5, <2>6 DEF Schema!ResolveRequest
<1>14. ASSUME NEW r \in Requests, Schema!AcknowledgeDecision(r) PROVE Schema!MigrationInv'
  BY <1>14 DEF Schema!AcknowledgeDecision
<1>15. CASE Schema!StoreChunk
  BY <1>15 DEF Schema!StoreChunk
<1>16. ASSUME NEW c \in Cleanups, Schema!QueueCleanup(c) PROVE Schema!MigrationInv'
  <2> DEFINE old == s1.cleanup
             added == [d \in DOMAIN old \cup {c} |-> IF d = c THEN s5 + 1 ELSE old[d]]
  <2>1. /\ s1 \in Schema!Databases /\ s5 \in Nat
        /\ DOMAIN old \in SUBSET Cleanups /\ \A d \in DOMAIN old : old[d] \in 0..s5
    OBVIOUS
  <2>2. /\ c \notin DOMAIN old /\ s3 = "running" /\ s1' = [s1 EXCEPT !.cleanup = added]
        /\ s2' = s1' /\ s5' = s5 + 1 /\ UNCHANGED <<s3, s4, s6>>
    BY <1>16 DEF Schema!QueueCleanup
  <2>3. /\ DOMAIN added = DOMAIN old \cup {c} /\ added[c] = s5 + 1
        /\ \A d \in DOMAIN old : added[d] = old[d]
    BY <2>2
  <2>4. added \in [DOMAIN old \cup {c} -> 0..s5'] /\ DOMAIN old \cup {c} \in SUBSET Cleanups
    BY <2>1, <2>2
  <2> HIDE DEF added
  <2>5. /\ s1'.tables = s1.tables /\ s1'.columns = s1.columns /\ s1'.checked = s1.checked
        /\ s1'.hashes = s1.hashes /\ s1'.requests = s1.requests /\ s1'.queue = s1.queue
        /\ s1'.seeded = s1.seeded /\ s1'.cleanup = added
    BY <2>1, <2>2
  <2>6. added \in UNION {[C -> 0..s5'] : C \in SUBSET Cleanups}
    BY <2>4
  <2>7. s1' \in Schema!Databases'
    BY <2>1, <2>2, <2>6
  <2>8. \A b, d \in DOMAIN added : added[b] # Schema!NoToken /\ b # d => added[b] # added[d]
    BY <2>1, <2>2, <2>3
  <2>9. \A d \in DOMAIN old : old[d] # Schema!NoToken
    BY <2>2
  <2>10. Schema!Consistent(s1)'
    BY <2>2, <2>5, <2>7, <2>8
  <2>11. s2'.columns = Columns /\ Schema!Named(s2)' /\ s2'.checked /\ s2'.seeded
    BY <2>1, <2>2, <2>3, <2>5, <2>9
  <2> HIDE DEF Schema!Consistent, Schema!Named
  <2>12. Schema!Consistent(s2)'
    BY <2>2, <2>10 DEF Schema!Consistent
  <2> QED
    BY <2>1, <2>2, <2>10, <2>11, <2>12
<1>17. ASSUME NEW c \in Cleanups, Schema!FinishCleanup(c) PROVE Schema!MigrationInv'
  BY <1>17, SMTT(40) DEF Schema!FinishCleanup
<1>18. CASE UNCHANGED Schema!vars
  BY <1>18 DEF Schema!vars
<1> QED
  BY <1>1, <1>2, <1>3, <1>4, <1>5, <1>6, <1>7, <1>8, <1>9, <1>10, <1>11, <1>12, <1>13,
     <1>14, <1>15, <1>16, <1>17, <1>18
    DEF Schema!Next

-----------------------------------------------------------------------------
(* LegacyTransfer: one claim, one task, and one completion of the row. *)

\* LegacyInv holds at first: nothing is offered and the directory is empty (Init).
LEMMA LegacyStarts == ASSUME Legacy!Init PROVE Legacy!LegacyInv
<1>1. s1 \in Legacy!Blocks /\ s13 \in Legacy!Blocks /\ <<>> \in Legacy!Blocks
  BY DEF Legacy!Init, Legacy!Blocks
<1>2. s15 \in [Names -> Legacy!Blocks]
  BY <1>1 DEF Legacy!Init, Legacy!Free
<1> QED
  BY <1>1, <1>2 DEF Legacy!Init, Legacy!LegacyInv, Legacy!FileIsWhole

\* Every step keeps LegacyInv (Next).
LEMMA LegacyKept ==
  ASSUME Legacy!LegacyInv, Legacy!Next \/ UNCHANGED Legacy!vars
  PROVE  Legacy!LegacyInv'
<1> USE DEF Legacy!LegacyInv, Legacy!FileIsWhole, Legacy!FileSize, Legacy!fileVars,
    Legacy!outVars, Legacy!inVars, Legacy!streamVars, Legacy!diskVars
<1>1. CASE Legacy!EditSource
  <2>1. <<"new", "new">> \in Legacy!Blocks /\ <<"old">> \in Legacy!Blocks
    BY DEF Legacy!Blocks
  <2> QED
    BY <1>1, <2>1 DEF Legacy!EditSource
<1>2. CASE Legacy!HashBlock
  BY <1>2 DEF Legacy!HashBlock
<1>3. CASE Legacy!SendFile
  BY <1>3 DEF Legacy!SendFile
<1>4. CASE Legacy!OfferFails
  BY <1>4 DEF Legacy!OfferFails
<1>5. CASE Legacy!ReceiveOffer
  BY <1>5 DEF Legacy!ReceiveOffer
<1>6. CASE Legacy!Accept
  BY <1>6 DEF Legacy!Accept, Legacy!FirstAvailable, Legacy!Available
<1>7. CASE Legacy!ReturnToManual
  BY <1>7 DEF Legacy!ReturnToManual
<1>8. CASE Legacy!Decline
  BY <1>8 DEF Legacy!Decline
<1>9. CASE Legacy!TakeDecision
  BY <1>9 DEF Legacy!TakeDecision
<1>10. CASE Legacy!CancelBySender
  BY <1>10 DEF Legacy!CancelBySender
<1>11. CASE Legacy!TakeCancel
  BY <1>11 DEF Legacy!TakeCancel, Legacy!OpenStatus
<1>12. CASE Legacy!LoseMessage
  BY <1>12 DEF Legacy!LoseMessage
<1>13. CASE Legacy!SendFails
  BY <1>13 DEF Legacy!SendFails
<1>14. CASE Legacy!SendBlock
  <2>1. s13' \in Legacy!Blocks
    BY <1>14 DEF Legacy!SendBlock, Legacy!Blocks
  <2> QED
    BY <1>14, <2>1 DEF Legacy!SendBlock
<1>15. CASE Legacy!AwaitVerdict
  BY <1>15 DEF Legacy!AwaitVerdict
<1>16. CASE Legacy!CompleteSend
  BY <1>16 DEF Legacy!CompleteSend
<1>17. CASE Legacy!ClaimStream
  <2>1. <<>> \in Legacy!Blocks
    BY DEF Legacy!Blocks
  <2> QED
    BY <1>17, <2>1 DEF Legacy!ClaimStream, Legacy!Free
<1>18. CASE Legacy!Verify
  BY <1>18 DEF Legacy!Verify
<1>19. CASE Legacy!TakeOtherName
  BY <1>19 DEF Legacy!TakeOtherName, Legacy!FirstAvailable, Legacy!Available
<1>20. CASE Legacy!Publish
  <2>1. <<>> \in Legacy!Blocks
    BY DEF Legacy!Blocks
  <2> QED
    BY <1>20, <2>1 DEF Legacy!Publish, Legacy!Completed, Legacy!Free
<1>21. CASE Legacy!StartCopy
  <2>1. s13 \in Seq({"old", "new", "foreign"}) /\ Len(s13) = 2
    BY <1>21 DEF Legacy!StartCopy, Legacy!Blocks
  <2>2. s13[1] \in {"old", "new", "foreign"}
    <3>1. 1 \in 1..Len(s13)
      BY <2>1
    <3> QED
      BY <2>1, <3>1, ElementOfSeq, Zenon
  <2>3. <<s13[1]>> \in Legacy!Blocks
    BY <2>2 DEF Legacy!Blocks
  <2> QED
    BY <1>21, <2>3 DEF Legacy!StartCopy
<1>22. CASE Legacy!EndCopy
  <2>1. <<>> \in Legacy!Blocks
    BY DEF Legacy!Blocks
  <2> QED
    BY <1>22, <2>1 DEF Legacy!EndCopy, Legacy!Completed, Legacy!Free
<1>23. CASE Legacy!ReceiveFails
  <2>1. <<>> \in Legacy!Blocks
    BY DEF Legacy!Blocks
  <2> QED
    BY <1>23, <2>1 DEF Legacy!ReceiveFails, Legacy!Free
<1>24. CASE Legacy!AddForeign
  <2>1. PICK n \in Names : s15[n] = <<>> /\ s15' = [s15 EXCEPT ![n] = <<"foreign">>]
    BY <1>24 DEF Legacy!AddForeign, Legacy!Free, Legacy!Foreign
  <2>2. <<"foreign">> \in Legacy!Blocks
    BY DEF Legacy!Blocks
  <2>3. s6 = "completed" => s15[s17] # <<>>
    <3>1. Len(<<>>) # 2
      OBVIOUS
    <3> QED
      BY <3>1
  <2> QED
    BY <1>24, <2>1, <2>2, <2>3 DEF Legacy!AddForeign
<1>25. CASE Legacy!RestartSender
  BY <1>25 DEF Legacy!RestartSender, Legacy!Failed
<1>26. CASE Legacy!RestartReceiver
  <2>1. <<>> \in Legacy!Blocks
    BY DEF Legacy!Blocks
  <2> QED
    BY <1>26, <2>1 DEF Legacy!RestartReceiver, Legacy!Failed, Legacy!Free
<1>27. CASE UNCHANGED Legacy!vars
  BY <1>27 DEF Legacy!vars
<1> QED
  BY <1>1, <1>2, <1>3, <1>4, <1>5, <1>6, <1>7, <1>8, <1>9, <1>10, <1>11, <1>12, <1>13,
     <1>14, <1>15, <1>16, <1>17, <1>18, <1>19, <1>20, <1>21, <1>22, <1>23, <1>24, <1>25,
     <1>26, <1>27
    DEF Legacy!Next

-----------------------------------------------------------------------------
(* SaveCopy: only the rename puts the temporary file under the destination. *)

\* SaveInv holds at first: there is no copy yet (Init).
LEMMA SaveStarts == ASSUME Save!Init PROVE Save!SaveInv
<1>1. s9 \in BOOLEAN
  BY DEF Save!Init
<1>2. Save!TypeOK
  BY <1>1, PartsAssumption, SMT
    DEF Save!Init, Save!TypeOK, Save!Destinations, Save!None, Save!Theirs, Save!Original,
        Save!Ours
<1> QED
  BY <1>2
    DEF Save!Init, Save!SaveInv, Save!Destinations, Save!None, Save!Theirs, Save!Original,
        Save!Ours

\* Every step keeps SaveInv (Next).
LEMMA SaveKept ==
  ASSUME Save!SaveInv, Save!Next \/ UNCHANGED Save!vars
  PROVE  Save!SaveInv'
<1> USE PartsAssumption
  DEF Save!SaveInv, Save!TypeOK, Save!Quiet, Save!Destinations, Save!None, Save!Theirs,
      Save!Original, Save!Ours, Save!Goes, Save!Misses
<1>1. CASE Save!CheckDestination
  BY <1>1 DEF Save!CheckDestination
<1>2. CASE Save!CreateTemporary
  BY <1>2 DEF Save!CreateTemporary
<1>3. CASE Save!CopyBytes
  BY <1>3 DEF Save!CopyBytes
<1>4. CASE Save!IdentifyTemporary
  BY <1>4 DEF Save!IdentifyTemporary
<1>5. CASE Save!Rename
  BY <1>5 DEF Save!Rename
<1>6. CASE Save!Confirm
  BY <1>6 DEF Save!Confirm
<1>7. CASE Save!IdentifyToRemove
  BY <1>7 DEF Save!IdentifyToRemove
<1>8. CASE Save!Remove
  BY <1>8 DEF Save!Remove
<1>9. CASE Save!WriteSource
  BY <1>9 DEF Save!WriteSource, Save!Interfere
<1>10. CASE Save!ExchangeTemporary
  BY <1>10 DEF Save!ExchangeTemporary, Save!Interfere
<1>11. CASE Save!UseDestination
  BY <1>11 DEF Save!UseDestination, Save!Interfere
<1>12. CASE UNCHANGED Save!vars
  BY <1>12 DEF Save!vars
<1> QED
  BY <1>1, <1>2, <1>3, <1>4, <1>5, <1>6, <1>7, <1>8, <1>9, <1>10, <1>11, <1>12 DEF Save!Next

-----------------------------------------------------------------------------
(* UpdateDownload: only a file that was verified is linked. *)

\* UpdateInv holds at first (Init).
LEMMA UpdateStarts == ASSUME Update!Init PROVE Update!UpdateInv
<1>1. Update!NoFile \in Update!Contents /\ Update!Whole \in Update!Contents
  BY PartsAssumption DEF Update!Contents, Update!NoFile, Update!Whole
<1>2. Update!TypeOK
  BY <1>1, PartsAssumption, SMT DEF Update!Init, Update!TypeOK, Update!Running
<1> QED
  BY <1>2 DEF Update!Init, Update!UpdateInv, Update!Sound, Update!Discards

\* Every step keeps UpdateInv (Next).
LEMMA UpdateKept ==
  ASSUME Update!UpdateInv, Update!Next \/ UNCHANGED Update!vars
  PROVE  Update!UpdateInv'
<1> USE PartsAssumption
  DEF Update!UpdateInv, Update!TypeOK, Update!Contents, Update!NoFile, Update!Whole,
      Update!Running, Update!Looks, Update!Discards, Update!Sound, Update!Goes,
      Update!Writes, Update!Verified
\* The three removals of a file that was found damaged differ in where they go.
<1>0. ASSUME NEW c \in Calls, NEW from, NEW absent, NEW error,
             \/ from = "discard" /\ absent = "ask" /\ error = "error"
             \/ from = "discardAgain" /\ absent = "create" /\ error = "error"
             \/ from = "discardInstead" /\ absent = "fail" /\ error = "abandoned",
             Update!Discard(c, from, absent, error)
      PROVE  Update!UpdateInv'
  <2>1. s3[c] = from /\ s7 # 0 /\ UNCHANGED <<s2, s4, s5, s6, s7>>
    BY <1>0 DEF Update!Discard
  <2>2. s1' \in {Update!NoFile, s1} /\ Update!NoFile \in Update!Contents
    BY <1>0 DEF Update!Discard
  <2>3. PICK next \in {absent, error} : s3' = [s3 EXCEPT ![c] = next]
    BY <1>0 DEF Update!Discard
  <2>4. Update!TypeOK' /\ (Update!Sound => Update!Sound')
    BY <1>0, <2>1, <2>2, <2>3
  <2>5. \A d \in Calls :
          /\ s3'[d] = "link" => s2'[d] = Update!Whole
          /\ d \in s6' => s3'[d] \in {"done", "error"}
          /\ s2'[d] # Update!NoFile =>
                \/ s3'[d] \in {"stream", "link", "lookInstead", "discardInstead", "clear",
                               "fail", "abandoned"}
                \/ d \in s6'
    BY <1>0, <2>1, <2>3
  <2> QED
    BY <2>1, <2>4, <2>5
<1>1. ASSUME NEW c \in Calls, Update!Start(c) PROVE Update!UpdateInv'
  BY <1>1 DEF Update!Start
<1>2. ASSUME NEW c \in Calls, Update!Look(c) PROVE Update!UpdateInv'
  BY <1>2 DEF Update!Look, Update!LookFor
<1>3. ASSUME NEW c \in Calls, Update!DiscardFirst(c) PROVE Update!UpdateInv'
  BY <1>0, <1>3 DEF Update!DiscardFirst
<1>4. ASSUME NEW c \in Calls, Update!Ask(c) PROVE Update!UpdateInv'
  BY <1>4 DEF Update!Ask
<1>5. ASSUME NEW c \in Calls, Update!LookAgain(c) PROVE Update!UpdateInv'
  BY <1>5 DEF Update!LookAgain, Update!LookFor
<1>6. ASSUME NEW c \in Calls, Update!DiscardAgain(c) PROVE Update!UpdateInv'
  BY <1>0, <1>6 DEF Update!DiscardAgain
<1>7. ASSUME NEW c \in Calls, Update!CreatePart(c) PROVE Update!UpdateInv'
  BY <1>7 DEF Update!CreatePart
<1>8. ASSUME NEW c \in Calls, Update!Chunk(c) PROVE Update!UpdateInv'
  <2>1. PICK good \in BOOLEAN :
          s2' = [s2 EXCEPT ![c] = [length |-> s2[c].length + 1,
                                   genuine |-> s2[c].genuine /\ good]]
    BY <1>8 DEF Update!Chunk
  <2>2. /\ s3[c] = "stream" /\ s3' = s3 /\ s2[c].length < InstallerSize
        /\ UNCHANGED <<s1, s4, s5, s6, s7>>
    BY <1>8 DEF Update!Chunk
  <2>3. s2[c].length \in Nat /\ s2[c].length + 1 \in 0..InstallerSize + 1
    BY <2>2
  <2>4. (s2[c].genuine /\ good) \in BOOLEAN
    OBVIOUS
  <2>5. s2' \in [Calls -> Update!Contents \cup {[length |-> 0, genuine |-> TRUE]}]
    BY <2>1, <2>3, <2>4, Zenon
  <2>6. \A d \in Calls \ {c} : s2'[d] = s2[d]
    BY <2>1
  <2> QED
    BY <2>2, <2>5, <2>6
<1>9. ASSUME NEW c \in Calls, Update!StreamFails(c) PROVE Update!UpdateInv'
  BY <1>9 DEF Update!StreamFails
<1>10. ASSUME NEW c \in Calls, Update!EndStream(c) PROVE Update!UpdateInv'
  BY <1>10 DEF Update!EndStream
<1>11. ASSUME NEW c \in Calls, Update!Link(c) PROVE Update!UpdateInv'
  <2>1. CASE s1 = Update!NoFile /\ Update!Goes(c, "link", "clear") /\ s1' = s2[c]
    <3>1. s2[c] = Update!Whole
      BY <2>1
    <3>2. s1' = Update!Whole
      BY <2>1, <3>1
    <3>3. Update!TypeOK' /\ Update!Sound'
      BY <1>11, <2>1, <3>2 DEF Update!Link
    <3> QED
      BY <1>11, <2>1, <3>2, <3>3 DEF Update!Link
  <2>2. CASE Update!Goes(c, "link", "lookInstead") /\ UNCHANGED <<s1, s5>>
    BY <1>11, <2>2 DEF Update!Link
  <2> QED
    BY <1>11, <2>1, <2>2 DEF Update!Link
<1>12. ASSUME NEW c \in Calls, Update!LookInstead(c) PROVE Update!UpdateInv'
  BY <1>12 DEF Update!LookInstead, Update!LookFor
<1>13. ASSUME NEW c \in Calls, Update!DiscardInstead(c) PROVE Update!UpdateInv'
  BY <1>0, <1>13 DEF Update!DiscardInstead
<1>14. ASSUME NEW c \in Calls, Update!Clear(c) PROVE Update!UpdateInv'
  <2>1. /\ Update!NoFile \in Update!Contents
        /\ s3' \in [Calls -> Update!Running \cup {"idle", "done", "error", "abandoned"}]
    BY <1>14 DEF Update!Clear
  <2>2. /\ s3[c] \in {"clear", "fail"} /\ s3'[c] \in {"done", "error"}
        /\ s3[c] = "clear" \/ s3'[c] # "done"
        /\ \A d \in Calls \ {c} : s3'[d] = s3[d]
        /\ UNCHANGED <<s1, s4, s5, s7>>
    BY <1>14 DEF Update!Clear
  <2>3. CASE s2' = [s2 EXCEPT ![c] = Update!NoFile] /\ UNCHANGED s6
    <3>1. Update!TypeOK'
      BY <2>1, <2>2, <2>3
    <3>2. s2'[c] = Update!NoFile /\ \A d \in Calls \ {c} : s2'[d] = s2[d]
      BY <2>3
    <3> QED
      BY <2>2, <2>3, <3>1, <3>2, ZenonT(40)
  <2>4. CASE s6' = s6 \cup {c} /\ UNCHANGED s2
    <3>1. Update!TypeOK'
      BY <2>1, <2>2, <2>4
    <3> QED
      BY <2>2, <2>4, <3>1, ZenonT(40)
  <2> QED
    BY <1>14, <2>3, <2>4 DEF Update!Clear
<1>15. CASE Update!VerifyToOpen
  BY <1>15 DEF Update!VerifyToOpen
<1>16. CASE Update!DiscardUnopened
  <2>1. /\ s4' = "refused" /\ s7 # 0 /\ UNCHANGED <<s2, s3, s5, s6, s7>>
        /\ s1' \in {Update!NoFile, s1}
    BY <1>16 DEF Update!DiscardUnopened
  <2>2. s1' \in Update!Contents
    <3>1. Update!NoFile \in Update!Contents
      OBVIOUS
    <3>2. s1 \in Update!Contents
      OBVIOUS
    <3> QED
      BY <2>1, <3>1, <3>2, Zenon
  <2>3. Update!TypeOK'
    BY <2>1, <2>2
  <2>4. Update!Sound => Update!Sound'
    BY <2>1
  <2> QED
    BY <2>1, <2>3, <2>4
<1>17. CASE Update!OpenInstaller
  BY <1>17 DEF Update!OpenInstaller
<1>18. CASE Update!Damage
  BY <1>18 DEF Update!Damage
<1>19. CASE Update!Restart
  BY <1>19 DEF Update!Restart
<1>20. CASE UNCHANGED Update!vars
  BY <1>20 DEF Update!vars
<1> QED
  BY <1>1, <1>2, <1>3, <1>4, <1>5, <1>6, <1>7, <1>8, <1>9, <1>10, <1>11, <1>12, <1>13,
     <1>14, <1>15, <1>16, <1>17, <1>18, <1>19, <1>20
    DEF Update!Next

-----------------------------------------------------------------------------
(* DeviceIdentity: at most one place holds an identity. *)

\* IdentityInv holds at first: nothing is stored (Init).
LEMMA IdentityStarts == ASSUME Identity!Init PROVE Identity!IdentityInv
<1>1. s8 \in BOOLEAN
  BY DEF Identity!Init
<1>2. s3 \in BOOLEAN
  BY DEF Identity!Init
<1>3. s6 \in 0..MaxIdentities /\ s9 \in 0..MaxAbandons
  BY PartsAssumption DEF Identity!Init
<1>4. Identity!TypeOK
  BY <1>1, <1>2, <1>3
    DEF Identity!Init, Identity!TypeOK, Identity!Identities, Identity!None, Identity!Damaged
<1> QED
  BY <1>4 DEF Identity!Init, Identity!IdentityInv, Identity!IdentityIsKept, Identity!None

\* Every step keeps IdentityInv (Next).
LEMMA IdentityKept ==
  ASSUME Identity!IdentityInv, Identity!Next \/ UNCHANGED Identity!vars
  PROVE  Identity!IdentityInv'
<1> USE PartsAssumption
  DEF Identity!IdentityInv, Identity!TypeOK, Identity!IdentityIsKept, Identity!Identities,
      Identity!None, Identity!Damaged, Identity!stores, Identity!Decode, Identity!MakeNew,
      Identity!LoadOrMake
<1>1. CASE Identity!KeyringAnswers
  <2>1. CASE s1 # 0 /\ Identity!Decode(s1)
    BY <1>1, <2>1 DEF Identity!KeyringAnswers
  <2>2. CASE s1 = 0 /\ s2 # 0 /\ Identity!Decode(s2)
    BY <1>1, <2>2 DEF Identity!KeyringAnswers
  <2>3. CASE s1 = 0 /\ s2 = 0 /\ Identity!MakeNew("secret")
    BY <1>1, <2>3 DEF Identity!KeyringAnswers
  <2> QED
    BY <1>1, <2>1, <2>2, <2>3 DEF Identity!KeyringAnswers
<1>2. CASE Identity!KeyringFails
  <2>1. CASE s2 # 0 /\ Identity!Decode(s2)
    BY <1>2, <2>1 DEF Identity!KeyringFails
  <2>2. CASE s2 = 0 /\ Identity!MakeNew("write")
    <3>1. s8' \in BOOLEAN
      BY <1>2 DEF Identity!KeyringFails
    <3>2. ~s8' => ~s8 /\ s1 = 0
      BY <1>2 DEF Identity!KeyringFails
    <3>3. UNCHANGED <<s1, s2, s3, s9>>
      BY <1>2 DEF Identity!KeyringFails
    <3> QED
      BY <2>2, <3>1, <3>2, <3>3
  <2> QED
    BY <1>2, <2>1, <2>2 DEF Identity!KeyringFails
<1>3. CASE Identity!WithoutKeyring
  <2>1. CASE s2 # 0 /\ Identity!Decode(s2)
    BY <1>3, <2>1 DEF Identity!WithoutKeyring
  <2>2. CASE s2 = 0 /\ Identity!MakeNew("write")
    BY <1>3, <2>2 DEF Identity!WithoutKeyring
  <2> QED
    BY <1>3, <2>1, <2>2 DEF Identity!WithoutKeyring
<1>4. CASE Identity!SetSecret
  BY <1>4 DEF Identity!SetSecret
<1>5. CASE Identity!WriteTemporary
  BY <1>5 DEF Identity!WriteTemporary
<1>6. CASE Identity!RenameTemporary
  BY <1>6 DEF Identity!RenameTemporary
<1>7. CASE Identity!Quit
  BY <1>7 DEF Identity!Quit
<1>8. CASE Identity!Abandon
  BY <1>8 DEF Identity!Abandon
<1>9. CASE Identity!Damage
  BY <1>9 DEF Identity!Damage
<1>10. CASE UNCHANGED Identity!vars
  BY <1>10 DEF Identity!vars
<1> QED
  BY <1>1, <1>2, <1>3, <1>4, <1>5, <1>6, <1>7, <1>8, <1>9, <1>10 DEF Identity!Next

-----------------------------------------------------------------------------
(* LocalSettings: a marker holds the language chosen last, and a command the settings
   that were confirmed. *)

\* SettingsInv holds at first: nothing is set (Init).
LEMMA SettingsStart == ASSUME LocalSet!Init PROVE LocalSet!SettingsInv
<1>1. s4 \in 0..MaxInstallations /\ s15 \in 0..MaxSaves /\ s16 \in 0..MaxMishaps
  BY PartsAssumption DEF LocalSet!Init
<1>2. s2 \in BOOLEAN /\ s9 \in BOOLEAN /\ s12 \in BOOLEAN /\ s14 \in BOOLEAN
  BY DEF LocalSet!Init
<1>3. LocalSet!NoMarker \in
        [installation : 0..MaxInstallations, language : Languages \union {"none"}]
  BY PartsAssumption DEF LocalSet!NoMarker, LocalSet!None
<1>4. LocalSet!Idle \in [at : {"idle", "onboarding", "saved", "refused"},
                    nickname : Nicknames \union {"none"}, preferences : BOOLEAN]
  BY DEF LocalSet!Idle, LocalSet!None
<1>5. LocalSet!TypeOK
  BY <1>1, <1>2, <1>3, <1>4
    DEF LocalSet!Init, LocalSet!TypeOK, LocalSet!None, LocalSet!Settings,
        LocalSet!Preferences
<1> QED
  BY <1>5
    DEF LocalSet!Init, LocalSet!SettingsInv, LocalSet!MarkerHasChoice,
        LocalSet!CommandHasConfirmed, LocalSet!IsNew, LocalSet!Idle

\* Every step keeps SettingsInv (Next).
LEMMA SettingsKept ==
  ASSUME LocalSet!SettingsInv, LocalSet!Next \/ UNCHANGED LocalSet!vars
  PROVE  LocalSet!SettingsInv'
<1> USE PartsAssumption DEF LocalSet!SettingsInv
<1>1. ASSUME NEW l \in Languages, LocalSet!Install(l) PROVE LocalSet!SettingsInv'
  <2>1. LocalSet!TypeOK'
    BY <1>1
      DEF LocalSet!Install, LocalSet!TypeOK, LocalSet!networkVars, LocalSet!settingVars
  <2>2. LocalSet!MarkerHasChoice'
    BY <1>1
      DEF LocalSet!Install, LocalSet!MarkerHasChoice, LocalSet!IsNew, LocalSet!NoMarker
  <2>3. LocalSet!CommandHasConfirmed'
    BY <1>1
      DEF LocalSet!Install, LocalSet!CommandHasConfirmed, LocalSet!Settings,
          LocalSet!networkVars, LocalSet!settingVars
  <2> QED
    BY <2>1, <2>2, <2>3
<1>2. CASE LocalSet!Start
  <2>1. LocalSet!TypeOK'
    BY <1>2
      DEF LocalSet!Start, LocalSet!TypeOK, LocalSet!languageVars, LocalSet!networkVars,
          LocalSet!settingVars
  <2>2. LocalSet!MarkerHasChoice'
    BY <1>2
      DEF LocalSet!Start, LocalSet!MarkerHasChoice, LocalSet!IsNew, LocalSet!languageVars
  <2>3. LocalSet!CommandHasConfirmed'
    BY <1>2
      DEF LocalSet!Start, LocalSet!CommandHasConfirmed, LocalSet!Settings,
          LocalSet!networkVars, LocalSet!settingVars
  <2> QED
    BY <2>1, <2>2, <2>3
<1>3. CASE LocalSet!PassOver
  <2>1. LocalSet!TypeOK'
    <3>1. s1' \in Nicknames \union {"none"}
      BY <1>3 DEF LocalSet!PassOver, LocalSet!TypeOK, LocalSet!None, LocalSet!settingVars
    <3>2. s2' \in BOOLEAN
      BY <1>3
        DEF LocalSet!PassOver, LocalSet!TypeOK, LocalSet!Preferences, LocalSet!settingVars
    <3>3. s3' \in Languages \union {"auto"}
      BY <1>3 DEF LocalSet!PassOver, LocalSet!TypeOK, LocalSet!Auto, LocalSet!Settings
    <3>4. s4' \in 0..MaxInstallations
      BY <1>3
        DEF LocalSet!PassOver, LocalSet!MarkerHasChoice, LocalSet!IsNew, LocalSet!TypeOK
    <3>5. s5' \in [installation : 0..MaxInstallations, language : Languages \union {"none"}]
      BY <1>3 DEF LocalSet!PassOver, LocalSet!TypeOK, LocalSet!NoMarker, LocalSet!None
    <3>6. s6' \in {"off", "import", "remove", "load", "running"}
      BY <1>3
        DEF LocalSet!PassOver, LocalSet!MarkerHasChoice, LocalSet!IsNew, LocalSet!TypeOK
    <3>7. s7' \in Nicknames \union {"none"}
      BY <1>3 DEF LocalSet!PassOver, LocalSet!TypeOK, LocalSet!None, LocalSet!networkVars
    <3>8. s8' \in Seq(Nicknames)
      BY <1>3
        DEF LocalSet!PassOver, LocalSet!TypeOK, LocalSet!languageVars, LocalSet!networkVars
    <3>9. {s9', s14', s12'} \subseteq BOOLEAN
      BY <1>3
        DEF LocalSet!PassOver, LocalSet!MarkerHasChoice, LocalSet!IsNew, LocalSet!TypeOK,
            LocalSet!Idle, LocalSet!NoMarker, LocalSet!None, LocalSet!Auto,
            LocalSet!Settings, LocalSet!Preferences, LocalSet!CanSave, LocalSet!Mishap,
            LocalSet!languageVars, LocalSet!networkVars, LocalSet!settingVars
    <3>10. s10' \in [at : {"idle", "onboarding", "saved", "refused"},
                       nickname : Nicknames \union {"none"}, preferences : BOOLEAN]
      BY <1>3
        DEF LocalSet!PassOver, LocalSet!TypeOK, LocalSet!None, LocalSet!Preferences,
            LocalSet!settingVars
    <3>11. s11' \in (Nicknames \union {"none"}) \X BOOLEAN
      BY <1>3
        DEF LocalSet!PassOver, LocalSet!TypeOK, LocalSet!None, LocalSet!Preferences,
            LocalSet!settingVars
    <3>12. s13' \in Languages \union {"auto"}
      BY <1>3 DEF LocalSet!PassOver, LocalSet!TypeOK, LocalSet!Auto, LocalSet!Settings
    <3>13. s15' \in 0..MaxSaves
      BY <1>3 DEF LocalSet!PassOver, LocalSet!TypeOK, LocalSet!settingVars
    <3>14. s16' \in 0..MaxMishaps
      BY <1>3 DEF LocalSet!PassOver, LocalSet!TypeOK, LocalSet!CanSave, LocalSet!Mishap
    <3> QED
      BY <3>1, <3>2, <3>3, <3>4, <3>5, <3>6, <3>7, <3>8, <3>9, <3>10, <3>11, <3>12, <3>13,
         <3>14
        DEF LocalSet!TypeOK, LocalSet!None, LocalSet!Auto, LocalSet!Preferences
  <2>2. LocalSet!MarkerHasChoice'
    BY <1>3 DEF LocalSet!PassOver, LocalSet!MarkerHasChoice, LocalSet!IsNew, LocalSet!TypeOK
  <2>3. LocalSet!CommandHasConfirmed'
    BY <1>3
      DEF LocalSet!PassOver, LocalSet!CommandHasConfirmed, LocalSet!Settings,
          LocalSet!networkVars, LocalSet!settingVars
  <2> QED
    BY <2>1, <2>2, <2>3
<1>4. CASE LocalSet!DropMarker
  <2>1. LocalSet!TypeOK'
    BY <1>4
      DEF LocalSet!DropMarker, LocalSet!TypeOK, LocalSet!NoMarker, LocalSet!Mishap,
          LocalSet!networkVars, LocalSet!settingVars
  <2>2. LocalSet!MarkerHasChoice'
    BY <1>4
      DEF LocalSet!DropMarker, LocalSet!MarkerHasChoice, LocalSet!IsNew, LocalSet!TypeOK
  <2>3. LocalSet!CommandHasConfirmed'
    BY <1>4
      DEF LocalSet!DropMarker, LocalSet!CommandHasConfirmed, LocalSet!Settings,
          LocalSet!networkVars, LocalSet!settingVars
  <2> QED
    BY <2>1, <2>2, <2>3
<1>5. CASE LocalSet!Import
  <2>1. LocalSet!TypeOK'
    <3>1. s1' \in Nicknames \union {"none"}
      BY <1>5 DEF LocalSet!Import, LocalSet!TypeOK, LocalSet!None, LocalSet!settingVars
    <3>2. s2' \in BOOLEAN
      BY <1>5
        DEF LocalSet!Import, LocalSet!TypeOK, LocalSet!Preferences, LocalSet!settingVars
    <3>3. s3' \in Languages \union {"auto"}
      BY <1>5 DEF LocalSet!Import, LocalSet!MarkerHasChoice, LocalSet!IsNew, LocalSet!TypeOK
    <3>4. s4' \in 0..MaxInstallations
      BY <1>5 DEF LocalSet!Import, LocalSet!MarkerHasChoice, LocalSet!IsNew, LocalSet!TypeOK
    <3>5. s5' \in [installation : 0..MaxInstallations, language : Languages \union {"none"}]
      BY <1>5 DEF LocalSet!Import, LocalSet!MarkerHasChoice, LocalSet!IsNew, LocalSet!TypeOK
    <3>6. s6' \in {"off", "import", "remove", "load", "running"}
      BY <1>5 DEF LocalSet!Import, LocalSet!MarkerHasChoice, LocalSet!IsNew, LocalSet!TypeOK
    <3>7. s7' \in Nicknames \union {"none"}
      BY <1>5 DEF LocalSet!Import, LocalSet!TypeOK, LocalSet!None, LocalSet!networkVars
    <3>8. s8' \in Seq(Nicknames)
      BY <1>5
        DEF LocalSet!Import, LocalSet!TypeOK, LocalSet!languageVars, LocalSet!networkVars
    <3>9. {s9', s14', s12'} \subseteq BOOLEAN
      BY <1>5
        DEF LocalSet!Import, LocalSet!TypeOK, LocalSet!networkVars, LocalSet!settingVars
    <3>10. s10' \in [at : {"idle", "onboarding", "saved", "refused"},
                       nickname : Nicknames \union {"none"}, preferences : BOOLEAN]
      BY <1>5
        DEF LocalSet!Import, LocalSet!TypeOK, LocalSet!None, LocalSet!Preferences,
            LocalSet!settingVars
    <3>11. s11' \in (Nicknames \union {"none"}) \X BOOLEAN
      BY <1>5
        DEF LocalSet!Import, LocalSet!TypeOK, LocalSet!None, LocalSet!Preferences,
            LocalSet!settingVars
    <3>12. s13' \in Languages \union {"auto"}
      BY <1>5 DEF LocalSet!Import, LocalSet!TypeOK, LocalSet!Auto, LocalSet!Settings
    <3>13. s15' \in 0..MaxSaves
      BY <1>5 DEF LocalSet!Import, LocalSet!TypeOK, LocalSet!settingVars
    <3>14. s16' \in 0..MaxMishaps
      BY <1>5 DEF LocalSet!Import, LocalSet!MarkerHasChoice, LocalSet!IsNew, LocalSet!TypeOK
    <3> QED
      BY <3>1, <3>2, <3>3, <3>4, <3>5, <3>6, <3>7, <3>8, <3>9, <3>10, <3>11, <3>12, <3>13,
         <3>14
        DEF LocalSet!TypeOK, LocalSet!None, LocalSet!Auto, LocalSet!Preferences
  <2>2. LocalSet!MarkerHasChoice'
    BY <1>5 DEF LocalSet!Import, LocalSet!MarkerHasChoice, LocalSet!IsNew, LocalSet!TypeOK
  <2>3. LocalSet!CommandHasConfirmed'
    BY <1>5
      DEF LocalSet!Import, LocalSet!CommandHasConfirmed, LocalSet!Settings,
          LocalSet!networkVars, LocalSet!settingVars
  <2> QED
    BY <2>1, <2>2, <2>3
<1>6. CASE LocalSet!Skip
  <2>1. LocalSet!TypeOK'
    BY <1>6
      DEF LocalSet!Skip, LocalSet!TypeOK, LocalSet!languageVars, LocalSet!networkVars,
          LocalSet!settingVars
  <2>2. LocalSet!MarkerHasChoice'
    BY <1>6
      DEF LocalSet!Skip, LocalSet!MarkerHasChoice, LocalSet!IsNew, LocalSet!languageVars
  <2>3. LocalSet!CommandHasConfirmed'
    BY <1>6
      DEF LocalSet!Skip, LocalSet!CommandHasConfirmed, LocalSet!Settings,
          LocalSet!networkVars, LocalSet!settingVars
  <2> QED
    BY <2>1, <2>2, <2>3
<1>7. CASE LocalSet!RemoveMarker
  <2>1. LocalSet!TypeOK'
    BY <1>7
      DEF LocalSet!RemoveMarker, LocalSet!TypeOK, LocalSet!NoMarker, LocalSet!Mishap,
          LocalSet!networkVars, LocalSet!settingVars
  <2>2. LocalSet!MarkerHasChoice'
    BY <1>7
      DEF LocalSet!RemoveMarker, LocalSet!MarkerHasChoice, LocalSet!IsNew, LocalSet!TypeOK
  <2>3. LocalSet!CommandHasConfirmed'
    BY <1>7
      DEF LocalSet!RemoveMarker, LocalSet!CommandHasConfirmed, LocalSet!Settings,
          LocalSet!networkVars, LocalSet!settingVars
  <2> QED
    BY <2>1, <2>2, <2>3
<1>8. CASE LocalSet!StartNetwork
  <2>1. LocalSet!TypeOK'
    BY <1>8
      DEF LocalSet!StartNetwork, LocalSet!TypeOK, LocalSet!languageVars,
          LocalSet!settingVars
  <2>2. LocalSet!MarkerHasChoice'
    BY <1>8
      DEF LocalSet!StartNetwork, LocalSet!MarkerHasChoice, LocalSet!IsNew,
          LocalSet!languageVars
  <2>3. LocalSet!CommandHasConfirmed'
    BY <1>8
      DEF LocalSet!StartNetwork, LocalSet!CommandHasConfirmed, LocalSet!Told, LocalSet!Idle,
          LocalSet!Settings, LocalSet!settingVars
  <2> QED
    BY <2>1, <2>2, <2>3
<1>9. ASSUME NEW l \in Languages, LocalSet!ChooseLanguage(l) PROVE LocalSet!SettingsInv'
  <2>1. LocalSet!TypeOK'
    BY <1>9
      DEF LocalSet!ChooseLanguage, LocalSet!TypeOK, LocalSet!CanSave, LocalSet!networkVars
  <2>2. LocalSet!MarkerHasChoice'
    BY <1>9
      DEF LocalSet!ChooseLanguage, LocalSet!MarkerHasChoice, LocalSet!IsNew,
          LocalSet!CanSave
  <2>3. LocalSet!CommandHasConfirmed'
    BY <1>9
      DEF LocalSet!ChooseLanguage, LocalSet!CommandHasConfirmed, LocalSet!Told,
          LocalSet!Settings, LocalSet!networkVars
  <2> QED
    BY <2>1, <2>2, <2>3
<1>10. ASSUME NEW n \in Nicknames, LocalSet!Onboard(n) PROVE LocalSet!SettingsInv'
  <2>1. LocalSet!TypeOK'
    <3>1. s1' \in Nicknames \union {"none"}
      BY <1>10
        DEF LocalSet!Onboard, LocalSet!MarkerHasChoice, LocalSet!IsNew, LocalSet!TypeOK
    <3>2. s2' \in BOOLEAN
      BY <1>10 DEF LocalSet!Onboard, LocalSet!TypeOK, LocalSet!Preferences
    <3>3. s3' \in Languages \union {"auto"}
      BY <1>10 DEF LocalSet!Onboard, LocalSet!TypeOK, LocalSet!Auto, LocalSet!languageVars
    <3>4. s4' \in 0..MaxInstallations
      BY <1>10
        DEF LocalSet!Onboard, LocalSet!TypeOK, LocalSet!languageVars, LocalSet!networkVars
    <3>5. s5' \in [installation : 0..MaxInstallations, language : Languages \union {"none"}]
      BY <1>10 DEF LocalSet!Onboard, LocalSet!TypeOK, LocalSet!None, LocalSet!languageVars
    <3>6. s6' \in {"off", "import", "remove", "load", "running"}
      BY <1>10
        DEF LocalSet!Onboard, LocalSet!MarkerHasChoice, LocalSet!IsNew, LocalSet!TypeOK
    <3>7. s7' \in Nicknames \union {"none"}
      BY <1>10 DEF LocalSet!Onboard, LocalSet!TypeOK, LocalSet!None, LocalSet!networkVars
    <3>8. s8' \in Seq(Nicknames)
      BY <1>10
        DEF LocalSet!Onboard, LocalSet!TypeOK, LocalSet!languageVars, LocalSet!networkVars
    <3>9. {s9', s14', s12'} \subseteq BOOLEAN
      BY <1>10
        DEF LocalSet!Onboard, LocalSet!TypeOK, LocalSet!languageVars, LocalSet!networkVars
    <3>10. s10' \in [at : {"idle", "onboarding", "saved", "refused"},
                       nickname : Nicknames \union {"none"}, preferences : BOOLEAN]
      BY <1>10
        DEF LocalSet!Onboard, LocalSet!MarkerHasChoice, LocalSet!IsNew, LocalSet!TypeOK,
            LocalSet!Idle, LocalSet!NoMarker, LocalSet!None, LocalSet!Auto,
            LocalSet!Settings, LocalSet!Preferences, LocalSet!CanSave, LocalSet!Mishap,
            LocalSet!languageVars, LocalSet!networkVars, LocalSet!settingVars
    <3>11. s11' \in (Nicknames \union {"none"}) \X BOOLEAN
      BY <1>10 DEF LocalSet!Onboard, LocalSet!TypeOK, LocalSet!None, LocalSet!Preferences
    <3>12. s13' \in Languages \union {"auto"}
      BY <1>10 DEF LocalSet!Onboard, LocalSet!TypeOK, LocalSet!Auto, LocalSet!languageVars
    <3>13. s15' \in 0..MaxSaves
      BY <1>10, SMTT(40) DEF LocalSet!Onboard, LocalSet!TypeOK, LocalSet!CanSave
    <3>14. s16' \in 0..MaxMishaps
      BY <1>10
        DEF LocalSet!Onboard, LocalSet!MarkerHasChoice, LocalSet!IsNew, LocalSet!TypeOK
    <3> QED
      BY <3>1, <3>2, <3>3, <3>4, <3>5, <3>6, <3>7, <3>8, <3>9, <3>10, <3>11, <3>12, <3>13,
         <3>14
        DEF LocalSet!TypeOK, LocalSet!None, LocalSet!Auto, LocalSet!Preferences
  <2>2. LocalSet!MarkerHasChoice'
    BY <1>10
      DEF LocalSet!Onboard, LocalSet!MarkerHasChoice, LocalSet!IsNew, LocalSet!languageVars
  <2>3. LocalSet!CommandHasConfirmed'
    BY <1>10
      DEF LocalSet!Onboard, LocalSet!CommandHasConfirmed, LocalSet!Told, LocalSet!TypeOK,
          LocalSet!Idle, LocalSet!NoMarker, LocalSet!None, LocalSet!Auto, LocalSet!Settings,
          LocalSet!Preferences, LocalSet!CanSave, LocalSet!Mishap, LocalSet!languageVars,
          LocalSet!networkVars, LocalSet!settingVars
  <2> QED
    BY <2>1, <2>2, <2>3
<1>11. ASSUME NEW n \in Nicknames, NEW p \in LocalSet!Preferences, LocalSet!SaveSettings(n,
                                                                                         p)
       PROVE  LocalSet!SettingsInv'
  <2>1. LocalSet!TypeOK'
    BY <1>11
      DEF LocalSet!SaveSettings, LocalSet!TypeOK, LocalSet!CanSave, LocalSet!languageVars,
          LocalSet!networkVars
  <2>2. LocalSet!MarkerHasChoice'
    BY <1>11
      DEF LocalSet!SaveSettings, LocalSet!MarkerHasChoice, LocalSet!IsNew,
          LocalSet!languageVars
  <2>3. LocalSet!CommandHasConfirmed'
    BY <1>11
      DEF LocalSet!SaveSettings, LocalSet!CommandHasConfirmed, LocalSet!Told, LocalSet!Idle,
          LocalSet!None, LocalSet!Settings, LocalSet!Preferences, LocalSet!CanSave,
          LocalSet!networkVars
  <2> QED
    BY <2>1, <2>2, <2>3
<1>12. CASE LocalSet!StartOrTell
  <2>1. LocalSet!TypeOK'
    <3>1. s1' \in Nicknames \union {"none"}
      BY <1>12 DEF LocalSet!StartOrTell, LocalSet!TypeOK, LocalSet!NoMarker, LocalSet!None
    <3>2. s2' \in BOOLEAN
      BY <1>12 DEF LocalSet!StartOrTell, LocalSet!TypeOK, LocalSet!Preferences
    <3>3. s3' \in Languages \union {"auto"}
      BY <1>12
        DEF LocalSet!StartOrTell, LocalSet!TypeOK, LocalSet!Auto, LocalSet!languageVars
    <3>4. s4' \in 0..MaxInstallations
      BY <1>12
        DEF LocalSet!StartOrTell, LocalSet!TypeOK, LocalSet!languageVars,
            LocalSet!networkVars
    <3>5. s5' \in [installation : 0..MaxInstallations, language : Languages \union {"none"}]
      BY <1>12
        DEF LocalSet!StartOrTell, LocalSet!TypeOK, LocalSet!None, LocalSet!languageVars
    <3>6. s6' \in {"off", "import", "remove", "load", "running"}
      BY <1>12
        DEF LocalSet!StartOrTell, LocalSet!MarkerHasChoice, LocalSet!IsNew, LocalSet!TypeOK
    <3>7. s7' \in Nicknames \union {"none"}
      BY <1>12 DEF LocalSet!StartOrTell, LocalSet!TypeOK, LocalSet!NoMarker, LocalSet!None
    <3>8. s8' \in Seq(Nicknames)
      <4>1. s10.at # "idle" /\ s1 # "none"
        BY <1>12
          DEF LocalSet!StartOrTell, LocalSet!CommandHasConfirmed, LocalSet!Idle,
              LocalSet!None
      <4>2. s1 \in Nicknames /\ s8 \in Seq(Nicknames)
        BY <4>1 DEF LocalSet!TypeOK, LocalSet!None
      <4>3. Append(s8, s1) \in Seq(Nicknames)
        BY <4>2
      <4> QED
        BY <1>12, <4>2, <4>3 DEF LocalSet!StartOrTell
    <3>9. {s9', s14', s12'} \subseteq BOOLEAN
      BY <1>12
        DEF LocalSet!StartOrTell, LocalSet!MarkerHasChoice, LocalSet!IsNew, LocalSet!TypeOK,
            LocalSet!Idle, LocalSet!NoMarker, LocalSet!None, LocalSet!Auto,
            LocalSet!Settings, LocalSet!Preferences, LocalSet!CanSave, LocalSet!Mishap,
            LocalSet!languageVars, LocalSet!networkVars, LocalSet!settingVars
    <3>10. s10' \in [at : {"idle", "onboarding", "saved", "refused"},
                       nickname : Nicknames \union {"none"}, preferences : BOOLEAN]
      BY <1>12 DEF LocalSet!StartOrTell, LocalSet!Idle, LocalSet!NoMarker, LocalSet!None
    <3>11. s11' \in (Nicknames \union {"none"}) \X BOOLEAN
      BY <1>12
        DEF LocalSet!StartOrTell, LocalSet!TypeOK, LocalSet!None, LocalSet!Settings,
            LocalSet!Preferences
    <3>12. s13' \in Languages \union {"auto"}
      BY <1>12
        DEF LocalSet!StartOrTell, LocalSet!TypeOK, LocalSet!Auto, LocalSet!languageVars
    <3>13. s15' \in 0..MaxSaves
      BY <1>12
        DEF LocalSet!StartOrTell, LocalSet!MarkerHasChoice, LocalSet!IsNew, LocalSet!TypeOK
    <3>14. s16' \in 0..MaxMishaps
      BY <1>12
        DEF LocalSet!StartOrTell, LocalSet!MarkerHasChoice, LocalSet!IsNew, LocalSet!TypeOK
    <3> QED
      BY <3>1, <3>2, <3>3, <3>4, <3>5, <3>6, <3>7, <3>8, <3>9, <3>10, <3>11, <3>12, <3>13,
         <3>14
        DEF LocalSet!TypeOK, LocalSet!None, LocalSet!Auto, LocalSet!Preferences
  <2>2. LocalSet!MarkerHasChoice'
    BY <1>12
      DEF LocalSet!StartOrTell, LocalSet!MarkerHasChoice, LocalSet!IsNew,
          LocalSet!languageVars
  <2>3. LocalSet!CommandHasConfirmed'
    BY <1>12
      DEF LocalSet!StartOrTell, LocalSet!CommandHasConfirmed, LocalSet!Told, LocalSet!Idle,
          LocalSet!Settings
  <2> QED
    BY <2>1, <2>2, <2>3
<1>13. CASE LocalSet!TellFails
  <2>1. LocalSet!TypeOK'
    <3>1. s1' \in Nicknames \union {"none"}
      BY <1>13 DEF LocalSet!TellFails, LocalSet!TypeOK, LocalSet!NoMarker, LocalSet!None
    <3>2. s2' \in BOOLEAN
      BY <1>13 DEF LocalSet!TellFails, LocalSet!TypeOK, LocalSet!Preferences
    <3>3. s3' \in Languages \union {"auto"}
      BY <1>13 DEF LocalSet!TellFails, LocalSet!TypeOK, LocalSet!Auto, LocalSet!languageVars
    <3>4. s4' \in 0..MaxInstallations
      BY <1>13
        DEF LocalSet!TellFails, LocalSet!TypeOK, LocalSet!languageVars, LocalSet!networkVars
    <3>5. s5' \in [installation : 0..MaxInstallations, language : Languages \union {"none"}]
      BY <1>13 DEF LocalSet!TellFails, LocalSet!TypeOK, LocalSet!None, LocalSet!languageVars
    <3>6. s6' \in {"off", "import", "remove", "load", "running"}
      BY <1>13
        DEF LocalSet!TellFails, LocalSet!MarkerHasChoice, LocalSet!IsNew, LocalSet!TypeOK
    <3>7. s7' \in Nicknames \union {"none"}
      BY <1>13
        DEF LocalSet!TellFails, LocalSet!TypeOK, LocalSet!languageVars, LocalSet!networkVars
    <3>8. s8' \in Seq(Nicknames)
      BY <1>13
        DEF LocalSet!TellFails, LocalSet!TypeOK, LocalSet!languageVars, LocalSet!networkVars
    <3>9. {s9', s14', s12'} \subseteq BOOLEAN
      BY <1>13
        DEF LocalSet!TellFails, LocalSet!TypeOK, LocalSet!languageVars, LocalSet!networkVars
    <3>10. s10' \in [at : {"idle", "onboarding", "saved", "refused"},
                       nickname : Nicknames \union {"none"}, preferences : BOOLEAN]
      BY <1>13
        DEF LocalSet!TellFails, LocalSet!MarkerHasChoice, LocalSet!IsNew, LocalSet!TypeOK,
            LocalSet!Idle, LocalSet!NoMarker, LocalSet!None, LocalSet!Auto,
            LocalSet!Settings, LocalSet!Preferences, LocalSet!CanSave, LocalSet!Mishap,
            LocalSet!languageVars, LocalSet!networkVars, LocalSet!settingVars
    <3>11. s11' \in (Nicknames \union {"none"}) \X BOOLEAN
      BY <1>13 DEF LocalSet!TellFails, LocalSet!TypeOK, LocalSet!None, LocalSet!Preferences
    <3>12. s13' \in Languages \union {"auto"}
      BY <1>13 DEF LocalSet!TellFails, LocalSet!TypeOK, LocalSet!Auto, LocalSet!languageVars
    <3>13. s15' \in 0..MaxSaves
      BY <1>13
        DEF LocalSet!TellFails, LocalSet!MarkerHasChoice, LocalSet!IsNew, LocalSet!TypeOK
    <3>14. s16' \in 0..MaxMishaps
      BY <1>13, SMTT(40) DEF LocalSet!TellFails, LocalSet!TypeOK, LocalSet!Mishap
    <3> QED
      BY <3>1, <3>2, <3>3, <3>4, <3>5, <3>6, <3>7, <3>8, <3>9, <3>10, <3>11, <3>12, <3>13,
         <3>14
        DEF LocalSet!TypeOK, LocalSet!None, LocalSet!Auto, LocalSet!Preferences
  <2>2. LocalSet!MarkerHasChoice'
    BY <1>13
      DEF LocalSet!TellFails, LocalSet!MarkerHasChoice, LocalSet!IsNew,
          LocalSet!languageVars
  <2>3. LocalSet!CommandHasConfirmed'
    <3>1. LocalSet!Told' = LocalSet!Told
      BY <1>13 DEF LocalSet!TellFails, LocalSet!Told, LocalSet!networkVars
    <3>2. /\ s1' = s1 /\ s2' = s2 /\ s6' = s6 /\ s7' = s7 /\ s8' = s8 /\ s9' = s9
          /\ s11' = s11 /\ s12' = s12
      BY <1>13 DEF LocalSet!TellFails, LocalSet!networkVars
    <3>3. /\ s10.at \in {"onboarding", "saved"} /\ s10'.at = "refused"
          /\ s10'.nickname = s10.nickname /\ s10'.preferences = s10.preferences
      BY <1>13 DEF LocalSet!TellFails, LocalSet!TypeOK
    <3>4. s7 # "none" /\ s10 # LocalSet!Idle /\ s10' # LocalSet!Idle
      BY <1>13, <3>3 DEF LocalSet!TellFails, LocalSet!Idle, LocalSet!None
    <3>5. s10.at = "saved"
      BY <1>13, <3>3, <3>4 DEF LocalSet!CommandHasConfirmed, LocalSet!None
    <3> QED
      BY <3>1, <3>2, <3>3, <3>4, <3>5
        DEF LocalSet!CommandHasConfirmed, LocalSet!Settings, LocalSet!None
  <2> QED
    BY <2>1, <2>2, <2>3
<1>14. CASE LocalSet!RollBack
  <2>1. LocalSet!TypeOK'
    BY <1>14
      DEF LocalSet!RollBack, LocalSet!TypeOK, LocalSet!Idle, LocalSet!Preferences,
          LocalSet!languageVars, LocalSet!networkVars
  <2>2. LocalSet!MarkerHasChoice'
    BY <1>14
      DEF LocalSet!RollBack, LocalSet!MarkerHasChoice, LocalSet!IsNew, LocalSet!languageVars
  <2>3. LocalSet!CommandHasConfirmed'
    <3>1. /\ s10.at = "refused" /\ s10 # LocalSet!Idle /\ s10' = LocalSet!Idle
          /\ s1' = s10.nickname /\ s2' = s10.preferences
           /\ UNCHANGED <<s11, s12, s15, s6, s7, s8, s9>>
      BY <1>14 DEF LocalSet!RollBack, LocalSet!Idle, LocalSet!networkVars
    <3>2. LocalSet!Idle.at = "idle"
      BY DEF LocalSet!Idle
    <3> QED
      BY <3>1, <3>2 DEF LocalSet!CommandHasConfirmed, LocalSet!Told, LocalSet!Settings
  <2> QED
    BY <2>1, <2>2, <2>3
<1>15. CASE LocalSet!RollBackFails
  <2>1. LocalSet!TypeOK'
    BY <1>15
      DEF LocalSet!RollBackFails, LocalSet!TypeOK, LocalSet!Idle, LocalSet!Preferences,
          LocalSet!Mishap, LocalSet!languageVars, LocalSet!networkVars
  <2>2. LocalSet!MarkerHasChoice'
    BY <1>15
      DEF LocalSet!RollBackFails, LocalSet!MarkerHasChoice, LocalSet!IsNew,
          LocalSet!languageVars
  <2>3. LocalSet!CommandHasConfirmed'
    BY <1>15
      DEF LocalSet!RollBackFails, LocalSet!CommandHasConfirmed, LocalSet!Idle,
          LocalSet!networkVars
  <2> QED
    BY <2>1, <2>2, <2>3
<1>16. CASE LocalSet!HandleSetProfile
  <2>1. LocalSet!TypeOK'
    BY <1>16
      DEF LocalSet!HandleSetProfile, LocalSet!TypeOK, LocalSet!languageVars,
          LocalSet!settingVars
  <2>2. LocalSet!MarkerHasChoice'
    BY <1>16
      DEF LocalSet!HandleSetProfile, LocalSet!MarkerHasChoice, LocalSet!IsNew,
          LocalSet!languageVars
  <2>3. LocalSet!CommandHasConfirmed'
    <3>1. s8 \in Seq(Nicknames) /\ s8 # <<>> /\ s7' = Head(s8) /\ s8' = Tail(s8)
      BY <1>16 DEF LocalSet!HandleSetProfile, LocalSet!TypeOK
    <3>2. Head(s8) \in Nicknames /\ Head(s8) = s8[1] /\ Len(s8) \in Nat /\ Len(s8) > 0
          /\ Len(Tail(s8)) = Len(s8) - 1
      BY <3>1
    <3>3. \A i \in 1..(Len(s8) - 1) : Tail(s8)[i] = s8[i + 1]
      BY <3>1, <3>2
    <3>4. s8' = <<>> <=> Len(s8) = 1
      <4>1. s8' \in Seq(Nicknames) /\ Len(s8') = Len(s8) - 1
        BY <3>1, <3>2
      <4>2. \A q \in Seq(Nicknames) : Len(q) = 0 <=> q = <<>>
        BY SMTT(40)
      <4> QED
        BY <3>2, <4>1, <4>2
    <3>5. LocalSet!Told' = LocalSet!Told
      BY <3>1, <3>2, <3>3, <3>4 DEF LocalSet!Told
    <3>6. \A n \in Nicknames : n # "none"
      BY PartsAssumption, Zenon
    <3>7. s7' # "none"
      BY <3>1, <3>2, <3>6
    <3> QED
      BY <1>16, <3>5, <3>7
        DEF LocalSet!HandleSetProfile, LocalSet!CommandHasConfirmed, LocalSet!settingVars,
            LocalSet!None, LocalSet!Settings
  <2> QED
    BY <2>1, <2>2, <2>3
<1>17. CASE LocalSet!LoopStops
  <2>1. LocalSet!TypeOK'
    BY <1>17
      DEF LocalSet!LoopStops, LocalSet!TypeOK, LocalSet!Mishap, LocalSet!languageVars,
          LocalSet!settingVars
  <2>2. LocalSet!MarkerHasChoice'
    BY <1>17
      DEF LocalSet!LoopStops, LocalSet!MarkerHasChoice, LocalSet!IsNew,
          LocalSet!languageVars
  <2>3. LocalSet!CommandHasConfirmed'
    BY <1>17
      DEF LocalSet!LoopStops, LocalSet!CommandHasConfirmed, LocalSet!Settings,
          LocalSet!settingVars
  <2> QED
    BY <2>1, <2>2, <2>3
<1>18. CASE LocalSet!Quit
  <2>1. LocalSet!TypeOK'
    <3>1. s1' \in Nicknames \union {"none"}
      BY <1>18 DEF LocalSet!Quit, LocalSet!TypeOK, LocalSet!NoMarker, LocalSet!None
    <3>2. s2' \in BOOLEAN
      BY <1>18 DEF LocalSet!Quit, LocalSet!TypeOK, LocalSet!Preferences
    <3>3. s3' \in Languages \union {"auto"}
      BY <1>18 DEF LocalSet!Quit, LocalSet!TypeOK, LocalSet!Auto, LocalSet!languageVars
    <3>4. s4' \in 0..MaxInstallations
      BY <1>18
        DEF LocalSet!Quit, LocalSet!TypeOK, LocalSet!languageVars, LocalSet!networkVars
    <3>5. s5' \in [installation : 0..MaxInstallations, language : Languages \union {"none"}]
      BY <1>18 DEF LocalSet!Quit, LocalSet!TypeOK, LocalSet!None, LocalSet!languageVars
    <3>6. s6' \in {"off", "import", "remove", "load", "running"}
      BY <1>18 DEF LocalSet!Quit, LocalSet!MarkerHasChoice, LocalSet!IsNew, LocalSet!TypeOK
    <3>7. s7' \in Nicknames \union {"none"}
      BY <1>18 DEF LocalSet!Quit, LocalSet!NoMarker, LocalSet!None
    <3>8. s8' \in Seq(Nicknames)
      BY <1>18 DEF LocalSet!Quit, LocalSet!MarkerHasChoice, LocalSet!IsNew, LocalSet!TypeOK
    <3>9. {s9', s14', s12'} \subseteq BOOLEAN
      BY <1>18
        DEF LocalSet!Quit, LocalSet!MarkerHasChoice, LocalSet!IsNew, LocalSet!TypeOK,
            LocalSet!Idle, LocalSet!NoMarker, LocalSet!None, LocalSet!Auto,
            LocalSet!Settings, LocalSet!Preferences, LocalSet!CanSave, LocalSet!Mishap,
            LocalSet!languageVars, LocalSet!networkVars, LocalSet!settingVars
    <3>10. s10' \in [at : {"idle", "onboarding", "saved", "refused"},
                       nickname : Nicknames \union {"none"}, preferences : BOOLEAN]
      BY <1>18 DEF LocalSet!Quit, LocalSet!Idle, LocalSet!NoMarker, LocalSet!None
    <3>11. s11' \in (Nicknames \union {"none"}) \X BOOLEAN
      BY <1>18
        DEF LocalSet!Quit, LocalSet!TypeOK, LocalSet!None, LocalSet!Settings,
            LocalSet!Preferences
    <3>12. s13' \in Languages \union {"auto"}
      BY <1>18 DEF LocalSet!Quit, LocalSet!TypeOK, LocalSet!Auto, LocalSet!languageVars
    <3>13. s15' \in 0..MaxSaves
      BY <1>18 DEF LocalSet!Quit, LocalSet!MarkerHasChoice, LocalSet!IsNew, LocalSet!TypeOK
    <3>14. s16' \in 0..MaxMishaps
      BY <1>18 DEF LocalSet!Quit, LocalSet!TypeOK, LocalSet!CanSave, LocalSet!Mishap
    <3> QED
      BY <3>1, <3>2, <3>3, <3>4, <3>5, <3>6, <3>7, <3>8, <3>9, <3>10, <3>11, <3>12, <3>13,
         <3>14
        DEF LocalSet!TypeOK, LocalSet!None, LocalSet!Auto, LocalSet!Preferences
  <2>2. LocalSet!MarkerHasChoice'
    BY <1>18
      DEF LocalSet!Quit, LocalSet!MarkerHasChoice, LocalSet!IsNew, LocalSet!languageVars
  <2>3. LocalSet!CommandHasConfirmed'
    BY <1>18
      DEF LocalSet!Quit, LocalSet!CommandHasConfirmed, LocalSet!Idle, LocalSet!Settings
  <2> QED
    BY <2>1, <2>2, <2>3
<1>19. CASE UNCHANGED LocalSet!vars
  BY <1>19
    DEF LocalSet!vars, LocalSet!MarkerHasChoice, LocalSet!IsNew,
        LocalSet!CommandHasConfirmed, LocalSet!Told, LocalSet!TypeOK, LocalSet!Settings
<1> QED
  BY <1>1, <1>2, <1>3, <1>4, <1>5, <1>6, <1>7, <1>8, <1>9, <1>10, <1>11, <1>12, <1>13,
     <1>14, <1>15, <1>16, <1>17, <1>18, <1>19
    DEF LocalSet!Next

-----------------------------------------------------------------------------
(* InterfaceView: a call in the queue shows, or will still read, what the database has. *)

\* A command of the window under way (InterfaceView).
ViewCalls ==
    [kind : {"bootstrap", "poll", "presence"}, left : Seq(View!Tables), seen : View!Shown]

\* A new call has everything still to read (snapshot, presence_snapshot).
LEMMA ViewCallOf ==
  ASSUME NEW kind \in {"bootstrap", "poll", "presence"}, NEW d, NEW q
  PROVE  /\ View!CallOf(kind) \in ViewCalls /\ View!CallOf(kind).kind = kind
         /\ View!CallOf(kind).left \in View!Rests(kind)
         /\ View!ShowsEntries(View!CallOf(kind), d, q)
         /\ View!ShowsPresence(View!CallOf(kind), d)
<1> DEFINE c == View!CallOf(kind)
<1>1. c.kind = kind /\ c.left = View!Reads(kind) /\ c.seen = View!Empty
  BY DEF View!CallOf
<1>2. View!Empty \in View!Shown
  BY PartsAssumption DEF View!Empty, View!Shown
<1>3. View!Reads(kind) \in Seq(View!Tables)
  <2>1. <<"peers", "requests", "friends", "entries">> \in Seq(View!Tables)
    BY DEF View!Tables
  <2>2. <<"peers", "friends">> \in Seq(View!Tables)
    BY DEF View!Tables
  <2> QED
    BY <2>1, <2>2 DEF View!Reads
<1>4. c \in ViewCalls
  BY <1>2, <1>3 DEF View!CallOf, ViewCalls
<1>5. c.left \in View!Rests(kind)
  BY <1>1 DEF View!Rests
<1>6. CASE kind = "bootstrap"
  <2>1. c.left = <<"peers", "requests", "friends", "entries">>
    BY <1>1, <1>6 DEF View!Reads
  <2>2. \A t \in View!Tables : View!Unread(c, t)
    <3>1. /\ 1 \in DOMAIN c.left /\ c.left[1] = "peers" /\ 2 \in DOMAIN c.left
          /\ c.left[2] = "requests" /\ 3 \in DOMAIN c.left /\ c.left[3] = "friends"
          /\ 4 \in DOMAIN c.left /\ c.left[4] = "entries"
      BY <2>1
    <3> QED
      BY <3>1 DEF View!Unread, View!Tables
  <2> QED
    BY <1>1, <1>4, <1>5, <2>2 DEF View!ShowsEntries, View!ShowsPresence, View!Tables
<1>7. CASE kind # "bootstrap"
  <2>1. c.left = <<"peers", "friends">>
    BY <1>1, <1>7 DEF View!Reads
  <2>2. View!Unread(c, "peers") /\ View!Unread(c, "friends")
    <3>1. /\ 1 \in DOMAIN c.left /\ c.left[1] = "peers" /\ 2 \in DOMAIN c.left
          /\ c.left[2] = "friends"
      BY <2>1
    <3> QED
      BY <3>1 DEF View!Unread
  <2> QED
    BY <1>1, <1>4, <1>5, <1>7, <2>2 DEF View!ShowsEntries, View!ShowsPresence
<1> QED
  BY <1>6, <1>7

\* A table is shown as it is once it is read (list_peers, list_friend_requests, list_friends).
LEMMA ViewReads ==
  ASSUME View!TypeOK, NEW c \in ViewCalls, c.left \in View!Rests(c.kind), c.left # <<>>,
         NEW e, e = [c EXCEPT !.left = Tail(@), !.seen = View!Read(Head(c.left), @)]
  PROVE  /\ e \in ViewCalls /\ e.kind = c.kind /\ e.left \in View!Rests(e.kind)
         /\ View!ShowsEntries(c, s1, s13) => View!ShowsEntries(e, s1, s13)
         /\ View!ShowsPresence(c, s1) => View!ShowsPresence(e, s1)
<1>1. e.kind = c.kind /\ e.left = Tail(c.left) /\ e.seen = View!Read(Head(c.left), c.seen)
  BY DEF ViewCalls
<1>2. Tail(c.left) \in Seq(View!Tables) /\ Head(c.left) \in View!Tables
  BY DEF ViewCalls
<1>3. View!Read(Head(c.left), c.seen) \in View!Shown
  BY <1>2 DEF ViewCalls, View!Read, View!Shown, View!Tables, View!TypeOK
<1>4. e \in ViewCalls
  BY <1>1, <1>2, <1>3 DEF ViewCalls
<1>5. e.left \in View!Rests(e.kind)
  <2> DEFINE all == <<"peers", "requests", "friends", "entries">>
             three == <<"requests", "friends", "entries">>
             two == <<"friends", "entries">>
             last == <<"entries">>
             both == <<"peers", "friends">>
             one == <<"friends">>
             none == <<>>
  <2>1. /\ Tail(all) = three /\ Tail(three) = two /\ Tail(two) = last /\ Tail(last) = none
        /\ Tail(both) = one /\ Tail(one) = none
    OBVIOUS
  <2>2. /\ View!Rests("bootstrap") = {all, three, two, last, none}
        /\ \A k : k # "bootstrap" => View!Rests(k) = {both, one, none}
    BY DEF View!Rests, View!Reads
  <2>3. c.left # none
    OBVIOUS
  <2> HIDE DEF all, three, two, last, both, one, none
  <2>4. CASE c.kind = "bootstrap"
    <3>1. c.left \in {all, three, two, last}
      BY <2>2, <2>3, <2>4
    <3>2. Tail(c.left) \in {all, three, two, last, none}
      BY <2>1, <3>1
    <3> QED
      BY <1>1, <2>2, <2>4, <3>2
  <2>5. CASE c.kind # "bootstrap"
    <3>1. c.left \in {both, one}
      BY <2>2, <2>3, <2>5
    <3>2. Tail(c.left) \in {both, one, none}
      BY <2>1, <3>1
    <3> QED
      BY <1>1, <2>2, <2>5, <3>2
  <2> QED
    BY <2>4, <2>5
<1>6. \A t : View!Unread(c, t) => t = Head(c.left) \/ View!Unread(e, t)
  <2> SUFFICES ASSUME NEW i \in DOMAIN c.left
               PROVE  c.left[i] = Head(c.left) \/ \E j \in DOMAIN e.left :
                          e.left[j] = c.left[i]
    BY DEF View!Unread
  <2>1. c.left \in Seq(View!Tables)
    BY DEF ViewCalls
  <2>2. CASE i = 1
    BY <2>1, <2>2
  <2>3. CASE i # 1
    <3>1. i - 1 \in DOMAIN Tail(c.left) /\ Tail(c.left)[i - 1] = c.left[i]
      BY <2>1, <2>3
    <3> QED
      BY <1>1, <3>1
  <2> QED
    BY <2>2, <2>3
<1>7. ASSUME View!ShowsEntries(c, s1, s13) PROVE View!ShowsEntries(e, s1, s13)
  BY <1>1, <1>2, <1>6, <1>7
    DEF View!ShowsEntries, View!Read, View!Tables, ViewCalls, View!Shown
<1>8. ASSUME View!ShowsPresence(c, s1) PROVE View!ShowsPresence(e, s1)
  BY <1>1, <1>2, <1>6, <1>8
    DEF View!ShowsPresence, View!Read, View!Tables, ViewCalls, View!Shown
<1> QED
  BY <1>1, <1>4, <1>5, <1>7, <1>8
\* The first snapshot is asked for and reads everything (Init).
LEMMA ViewStarts == ASSUME View!Init PROVE View!ViewInv
<1>1. /\ View!CallOf("bootstrap") \in ViewCalls
      /\ View!CallOf("bootstrap").kind = "bootstrap"
      /\ View!CallOf("bootstrap").left \in View!Rests("bootstrap")
      /\ View!ShowsEntries(View!CallOf("bootstrap"), s1, s13)
  BY ViewCallOf
<1>2. /\ s4 \in Seq(ViewCalls) /\ Len(s4) = 1 /\ DOMAIN s4 = {1}
      /\ s4[1] = View!CallOf("bootstrap")
  BY <1>1 DEF View!Init
<1>3. View!TypeOK
  <2>1. s7 \in View!Shown
    BY PartsAssumption DEF View!Init, View!Empty, View!Shown
  <2>2. s1 \in [online : BOOLEAN, friend : BOOLEAN,
                requests : 0..MaxChanges, entries : 0..MaxChanges,
                  progress : 0..MaxChanges]
    <3>1. s1 \in [online : {FALSE}, friend : BOOLEAN, requests : {0}, entries : {0},
                progress : {0}]
      BY DEF View!Init
    <3>2. 0 \in 0..MaxChanges
      BY PartsAssumption
    <3> QED
      BY <3>1, <3>2
  <2>3. s2 \in Seq({"discovered", "offline", "resolved", "changed"})
    BY DEF View!Init
  <2>4. s11 \in 0..MaxChanges /\ s12 \in 0..MaxFailures
    BY PartsAssumption DEF View!Init
  <2>5. {s3, s5, s6, s8, s9, s10, s13} \subseteq BOOLEAN
    BY DEF View!Init
  <2> QED
    BY <1>2, <2>1, <2>2, <2>3, <2>4, <2>5, Zenon DEF View!TypeOK, ViewCalls
<1>4. View!EntriesAreComing
  BY <1>1, <1>2 DEF View!EntriesAreComing
<1>5. View!EventsAgree
  BY DEF View!Init, View!EventsAgree
<1>6. s1.requests <= s11 /\ s1.entries <= s11 /\ s1.progress <= s11
  BY DEF View!Init
<1>7. ~s10
  BY DEF View!Init
<1> QED
  BY <1>1, <1>2, <1>3, <1>4, <1>5, <1>6, <1>7 DEF View!ViewInv

\* A call asked for now comes last and reads everything (refresh, presence).
LEMMA ViewAsks ==
  ASSUME View!ViewInv, NEW kind \in {"bootstrap", "poll", "presence"},
         s4' = Append(s4, View!CallOf(kind)), UNCHANGED <<s1, s2, s7>>,
         kind = "bootstrap" \/ UNCHANGED s13
  PROVE  /\ s4' \in Seq(ViewCalls)
         /\ \A i \in DOMAIN s4' : s4'[i].left \in View!Rests(s4'[i].kind)
         /\ View!PresenceIsComing'
         /\ View!EntriesAreComing \/ kind = "bootstrap" => View!EntriesAreComing'
<1> DEFINE c == View!CallOf(kind)
<1>1. /\ c \in ViewCalls /\ c.kind = kind /\ c.left \in View!Rests(kind)
      /\ View!ShowsEntries(c, s1, s13') /\ View!ShowsPresence(c, s1)
  BY ViewCallOf
<1> HIDE DEF c
<1>2. s4 \in Seq(ViewCalls) /\ Len(s4) \in Nat /\ DOMAIN s4 = 1..Len(s4)
  BY DEF View!ViewInv, View!TypeOK, ViewCalls
<1>3. /\ s4' \in Seq(ViewCalls) /\ Len(s4') = Len(s4) + 1 /\ DOMAIN s4' = 1..Len(s4) + 1
      /\ s4'[Len(s4) + 1] = c /\ \A i \in 1..Len(s4) : s4'[i] = s4[i]
  BY <1>1, <1>2 DEF c
<1>4. \A i \in DOMAIN s4' : s4'[i].left \in View!Rests(s4'[i].kind)
  BY <1>1, <1>2, <1>3 DEF View!ViewInv
<1>5. View!PresenceIsComing'
  BY <1>1, <1>2, <1>3 DEF View!PresenceIsComing
<1>6. ASSUME kind = "bootstrap" PROVE View!EntriesAreComing'
  BY <1>1, <1>2, <1>3, <1>6 DEF View!EntriesAreComing
<1>7. ASSUME View!EntriesAreComing, kind # "bootstrap" PROVE View!EntriesAreComing'
  <2>1. PICK i \in 0..Len(s4) :
          /\ IF i = 0 THEN View!HasEntries(s7, s1, s13) ELSE s4[i].kind = "bootstrap"
          /\ \A j \in DOMAIN s4 : j >= i => View!ShowsEntries(s4[j], s1, s13)
    BY <1>7 DEF View!EntriesAreComing
  <2>2. i \in 0..Len(s4') /\ (i # 0 => s4'[i] = s4[i])
    BY <1>2, <1>3
  <2>3. \A j \in DOMAIN s4' : j >= i => View!ShowsEntries(s4'[j], s1, s13)
    BY <1>1, <1>2, <1>3, <1>7, <2>1
  <2> QED
    BY <1>7, <2>1, <2>2, <2>3 DEF View!EntriesAreComing
<1> QED
  BY <1>3, <1>4, <1>5, <1>6, <1>7

\* What the calls after the first show is not changed by taking the first (setSnapshot).
LEMMA ViewDrops ==
  ASSUME View!ViewInv, s4 # <<>>, s4' = Tail(s4)
  PROVE  /\ s4' \in Seq(ViewCalls) /\ Len(s4') = Len(s4) - 1 /\ Head(s4) = s4[1]
         /\ Head(s4) \in ViewCalls /\ Len(s4) \in Nat \ {0} /\ DOMAIN s4 = 1..Len(s4)
         /\ \A j \in DOMAIN s4' : s4'[j] = s4[j + 1] /\ j + 1 \in DOMAIN s4
         /\ \A i \in DOMAIN s4' : s4'[i].left \in View!Rests(s4'[i].kind)
<1>1. s4 \in Seq(ViewCalls)
  BY DEF View!ViewInv, View!TypeOK, ViewCalls
<1>2. /\ s4' \in Seq(ViewCalls) /\ Len(s4') = Len(s4) - 1 /\ Head(s4) = s4[1]
      /\ Head(s4) \in ViewCalls /\ Len(s4) \in Nat \ {0} /\ DOMAIN s4 = 1..Len(s4)
  BY <1>1
<1>3. \A j \in DOMAIN s4' : s4'[j] = s4[j + 1] /\ j + 1 \in DOMAIN s4
  BY <1>1, <1>2
<1> QED
  BY <1>2, <1>3 DEF View!ViewInv
\* Every step keeps ViewInv (Next).
LEMMA ViewKept ==
  ASSUME View!ViewInv, View!Next \/ UNCHANGED View!vars
  PROVE  View!ViewInv'
<1> DEFINE Db == [online : BOOLEAN, friend : BOOLEAN,
                  requests : 0..MaxChanges, entries : 0..MaxChanges,
                  progress : 0..MaxChanges]
           Event == {"discovered", "offline", "resolved", "changed"}
           Served == \A i \in DOMAIN s4 : s4[i].left \in View!Rests(s4[i].kind)
<1>1. /\ s1 \in Db /\ s2 \in Seq(Event) /\ s4 \in Seq(ViewCalls)
      /\ {s3, s5, s6, s8, s9, s10, s13} \subseteq BOOLEAN
      /\ s7 \in View!Shown /\ s11 \in 0..MaxChanges /\ s12 \in 0..MaxFailures
  BY DEF View!ViewInv, View!TypeOK, ViewCalls
<1>2. /\ s1.requests <= s11 /\ s1.entries <= s11 /\ s1.progress <= s11 /\ Served
      /\ View!EventsAgree
      /\ ~s9 /\ ~s8 /\ ~View!ToRefresh => View!EntriesAreComing
      /\ s10 /\ ~View!ToRefresh => View!PresenceIsComing
  BY DEF View!ViewInv
<1>3. ASSUME NEW e \in Event
      PROVE  /\ Append(s2, e) \in Seq(Event) /\ Append(s2, e) # <<>>
             /\ Append(s2, e)[Len(Append(s2, e))] = e
             /\ \E i \in DOMAIN Append(s2, e) : Append(s2, e)[i] = e
             /\ \A i \in DOMAIN s2 : \E j \in DOMAIN Append(s2, e) :
                    Append(s2, e)[j] = s2[i]
  <2>1. s2 \in Seq(Event)
    BY <1>1
  <2>2. /\ Append(s2, e) \in Seq(Event) /\ Append(s2, e) # <<>> /\ Len(s2) \in Nat
        /\ Len(Append(s2, e)) = Len(s2) + 1 /\ DOMAIN s2 = 1..Len(s2)
        /\ DOMAIN Append(s2, e) = 1..Len(s2) + 1 /\ Append(s2, e)[Len(s2) + 1] = e
        /\ \A i \in 1..Len(s2) : Append(s2, e)[i] = s2[i]
    BY <2>1
  <2> HIDE DEF Event
  <2> QED
    BY <2>2
<1> HIDE DEF Db, Event, Served
  \* What the steps leave alone stays typed.
<1>4. ASSUME s1' \in Db, s2' \in Seq(Event), s4' \in Seq(ViewCalls),
             {s3', s5', s6', s8', s9', s10', s13'} \subseteq BOOLEAN,
             s7' \in View!Shown, s11' \in 0..MaxChanges, s12' \in 0..MaxFailures,
             s1'.requests <= s11', s1'.entries <= s11', s1'.progress <= s11',
             Served', View!EventsAgree',
             ~s9' /\ ~s8' /\ ~View!ToRefresh' => View!EntriesAreComing',
             s10' /\ ~View!ToRefresh' => View!PresenceIsComing'
      PROVE  View!ViewInv'
  BY <1>4, Zenon DEF View!ViewInv, View!TypeOK, ViewCalls, Db, Event, Served
<1>5. CASE View!RecordHello \/ View!MarkOffline
  <2>1. PICK e \in {"discovered", "offline"} :
          /\ s2' = (IF s3 THEN Append(s2, e) ELSE s2)
          /\ s1' = [s1 EXCEPT !.online = (e = "discovered")]
    BY <1>5 DEF View!RecordHello, View!MarkOffline, View!Emit
  <2>2. /\ s1' \in Db /\ s1'.online = (e = "discovered") /\ s1'.friend = s1.friend
        /\ s1'.requests = s1.requests /\ s1'.entries = s1.entries
        /\ s1'.progress = s1.progress
    BY <1>1, <2>1 DEF Db
  <2>3. /\ s11 < MaxChanges /\ s11' = s11 + 1 /\ ~s10'
        /\ UNCHANGED <<s3, s4, s5, s6, s7, s8, s9, s12, s13>>
    BY <1>5 DEF View!RecordHello, View!MarkOffline, View!Change, View!windowVars
  <2>4. /\ s11' \in 0..MaxChanges /\ s1'.requests <= s11' /\ s1'.entries <= s11'
        /\ s1'.progress <= s11'
    <3>1. /\ s11 \in Nat /\ s1.requests \in Nat /\ s1.entries \in Nat
        /\ s1.progress \in Nat /\ MaxChanges \in Nat
      BY <1>1, PartsAssumption DEF Db
    <3> QED
      BY <1>2, <2>2, <2>3, <3>1
  <2>5. e \in Event
    BY DEF Event
  <2>6. /\ s2' \in Seq(Event) /\ View!EventsAgree'
    BY <1>1, <1>2, <1>3, <2>1, <2>2, <2>3, <2>5 DEF View!EventsAgree
  <2>7. Served'
    BY <1>2, <2>3 DEF Served
  <2>8. ~View!ToRefresh' => ~View!ToRefresh
    BY <1>3, <2>1, <2>3, <2>5, SMTT(40) DEF View!ToRefresh
  <2>9. View!EntriesAreComing => View!EntriesAreComing'
    <3>1. \A c : View!ShowsEntries(c, s1, s13) => View!ShowsEntries(c, s1', s13')
      BY <2>2, <2>3, Zenon DEF View!ShowsEntries
    <3>2. \A c : View!HasEntries(c, s1, s13) => View!HasEntries(c, s1', s13')
      BY <2>2, <2>3, Zenon DEF View!HasEntries
    <3> QED
      BY <2>3, <3>1, <3>2 DEF View!EntriesAreComing
  <2>10. ~s9' /\ ~s8' /\ ~View!ToRefresh' => View!EntriesAreComing'
    BY <1>2, <2>3, <2>8, <2>9
  <2>11. /\ s4' \in Seq(ViewCalls) /\ {s3', s5', s6', s8', s9', s13'} \subseteq BOOLEAN
         /\ s7' \in View!Shown /\ s12' \in 0..MaxFailures
    BY <1>1, <2>3
  <2>12. s10' \in BOOLEAN
    BY <1>5 DEF View!RecordHello, View!MarkOffline
  <2> QED
    BY <1>4, <2>12, <2>2, <2>3, <2>4, <2>6, <2>7, <2>10, <2>11, Zenon
<1>6. CASE View!ResolveRequest \/ View!ChangeLog
  <2>1. PICK e \in {"resolved", "changed"} : s2' = (IF s3 THEN Append(s2, e) ELSE s2)
    BY <1>6 DEF View!ResolveRequest, View!ChangeLog, View!Emit
  <2>2. /\ s11 < MaxChanges /\ s11' = s11 + 1 /\ s9' = (s9 \/ ~s3)
        /\ UNCHANGED <<s3, s4, s5, s6, s7, s8, s12, s13>>
    BY <1>6 DEF View!ResolveRequest, View!ChangeLog, View!Change, View!windowVars
  <2>3. /\ s11 \in Nat /\ s1.requests \in Nat /\ s1.entries \in Nat
        /\ s1.progress \in Nat /\ MaxChanges \in Nat
    BY <1>1, PartsAssumption DEF Db
  <2>4. /\ s1' \in Db /\ s1'.online = s1.online
        /\ s1'.requests <= s11' /\ s1'.entries <= s11' /\ s1'.progress <= s11'
        /\ s11' \in 0..MaxChanges
    <3>1. CASE s1' = [s1 EXCEPT !.friend = TRUE, !.requests = @ + 1]
      <4>1. s1.requests + 1 \in 0..MaxChanges
        BY <1>2, <2>2, <2>3
      <4>2. s1' \in Db
        BY <1>1, <3>1, <4>1 DEF Db
      <4>3. s1'.online = s1.online
        BY <1>1, <3>1 DEF Db
      <4>4. /\ s1'.requests = s1.requests + 1 /\ s1'.entries = s1.entries
            /\ s1'.progress = s1.progress
        BY <1>1, <3>1 DEF Db
      <4> QED
        BY <1>2, <2>2, <2>3, <4>2, <4>3, <4>4
    <3>2. CASE s1' = [s1 EXCEPT !.requests = @ + 1]
      <4>1. s1.requests + 1 \in 0..MaxChanges
        BY <1>2, <2>2, <2>3
      <4>2. s1' \in Db /\ s1'.online = s1.online
        BY <1>1, <3>2, <4>1 DEF Db
      <4>3. /\ s1'.requests = s1.requests + 1 /\ s1'.entries = s1.entries
            /\ s1'.progress = s1.progress
        BY <1>1, <3>2 DEF Db
      <4> QED
        BY <1>2, <2>2, <2>3, <4>2, <4>3
    <3>3. CASE s1' = [s1 EXCEPT !.entries = @ + 1]
      <4>1. s1.entries + 1 \in 0..MaxChanges
        BY <1>2, <2>2, <2>3
      <4>2. s1' \in Db /\ s1'.online = s1.online
        BY <1>1, <3>3, <4>1 DEF Db
      <4>3. /\ s1'.requests = s1.requests /\ s1'.entries = s1.entries + 1
            /\ s1'.progress = s1.progress
        BY <1>1, <3>3 DEF Db
      <4> QED
        BY <1>2, <2>2, <2>3, <4>2, <4>3
    <3> QED
      BY <1>6, <3>1, <3>2, <3>3 DEF View!ResolveRequest, View!ChangeLog
  <2>5. e \in Event
    BY DEF Event
  <2>6. s2' \in Seq(Event) /\ View!EventsAgree'
    BY <1>1, <1>2, <1>3, <2>1, <2>2, <2>4, <2>5 DEF View!EventsAgree
  <2>7. Served'
    BY <1>2, <2>2 DEF Served
  <2>8. s3 => View!ToRefresh'
    BY <1>3, <2>1, <2>2, <2>5 DEF View!ToRefresh
  <2>9. ~View!ToRefresh' => s9'
    BY <1>1, <2>2, <2>8
  <2>10. ASSUME s10', ~View!ToRefresh' PROVE View!PresenceIsComing'
    <3>1. View!ChangeLog /\ s10
      BY <1>6, <2>10 DEF View!ResolveRequest, View!ChangeLog
    <3>2. ~s3 /\ s2' = s2
      BY <2>1, <2>8, <2>10
    <3>3. ~View!ToRefresh
      BY <2>2, <2>10, <3>2 DEF View!ToRefresh
    <3>4. s1'.online = s1.online /\ s1'.friend = s1.friend
      BY <1>1, <3>1 DEF View!ChangeLog, Db
    <3>5. \A c : View!ShowsPresence(c, s1) => View!ShowsPresence(c, s1')
      BY <3>4, Zenon DEF View!ShowsPresence
    <3>6. \A c : View!HasPresence(c, s1) => View!HasPresence(c, s1')
      BY <3>4, Zenon DEF View!HasPresence
    <3> QED
      BY <1>2, <2>2, <3>1, <3>2, <3>3, <3>4, <3>5, <3>6 DEF View!PresenceIsComing
  <2>11. /\ s4' \in Seq(ViewCalls) /\ {s3', s5', s6', s8', s9', s13'} \subseteq BOOLEAN
         /\ s7' \in View!Shown /\ s12' \in 0..MaxFailures
    BY <1>1, <2>2
  <2>12. s10' \in BOOLEAN
    BY <1>1, <1>6 DEF View!ResolveRequest, View!ChangeLog
  <2> QED
    BY <1>4, <2>4, <2>6, <2>7, <2>9, <2>10, <2>11, <2>12, Zenon
<1>7. CASE View!ReadTable
  <2>1. PICK i \in DOMAIN s4 :
          /\ s4[i].left # <<>>
          /\ s4' = [s4 EXCEPT ![i].left = Tail(@), ![i].seen = View!Read(Head(s4[i].left),
                                                                         @)]
    BY <1>7 DEF View!ReadTable, View!Served
  <2>2. UNCHANGED <<s1, s2, s3, s5, s6, s7, s8, s9, s10, s11, s12, s13>>
    BY <1>7 DEF View!ReadTable
  <2> DEFINE c == s4[i]
             e == [c EXCEPT !.left = Tail(@), !.seen = View!Read(Head(c.left), @)]
  <2>3. s4' = [s4 EXCEPT ![i] = e]
    BY <1>1, <2>1
  <2>4. c \in ViewCalls /\ c.left \in View!Rests(c.kind) /\ c.left # <<>> /\ View!TypeOK
    BY <1>1, <1>2, <2>1 DEF Served, View!ViewInv
  <2>5. /\ e \in ViewCalls /\ e.kind = c.kind /\ e.left \in View!Rests(e.kind)
        /\ View!ShowsEntries(c, s1, s13) => View!ShowsEntries(e, s1, s13)
        /\ View!ShowsPresence(c, s1) => View!ShowsPresence(e, s1)
    BY <2>4, ViewReads
  <2> HIDE DEF e
  <2>6. /\ s4' \in Seq(ViewCalls) /\ Len(s4') = Len(s4) /\ DOMAIN s4' = DOMAIN s4
        /\ s4'[i] = e /\ \A j \in DOMAIN s4 : j # i => s4'[j] = s4[j]
    BY <1>1, <2>3, <2>5
  <2>7. Served'
    BY <1>2, <2>5, <2>6 DEF Served
  <2>8. View!EntriesAreComing => View!EntriesAreComing'
    BY <1>1, <2>2, <2>5, <2>6, SMTT(40) DEF View!EntriesAreComing
  <2>9. View!PresenceIsComing => View!PresenceIsComing'
    BY <1>1, <2>2, <2>5, <2>6 DEF View!PresenceIsComing
  <2>10. View!EventsAgree' /\ (~View!ToRefresh' => ~View!ToRefresh)
    BY <1>2, <2>2 DEF View!EventsAgree, View!ToRefresh
  <2> QED
    BY <1>1, <1>2, <1>4, <2>2, <2>6, <2>7, <2>8, <2>9, <2>10
<1>8. CASE View!Answer
  <2>1. /\ s4 # <<>> /\ Head(s4).left = <<>> /\ s4' = Tail(s4)
        /\ UNCHANGED <<s1, s2, s3, s5, s8, s9, s10, s11, s12, s13>>
    BY <1>8 DEF View!Answer
  <2>2. /\ s4' \in Seq(ViewCalls) /\ Len(s4') = Len(s4) - 1 /\ Head(s4) = s4[1]
        /\ Head(s4) \in ViewCalls /\ Len(s4) \in Nat \ {0} /\ DOMAIN s4 = 1..Len(s4)
        /\ \A j \in DOMAIN s4' : s4'[j] = s4[j + 1] /\ j + 1 \in DOMAIN s4
        /\ \A i \in DOMAIN s4' : s4'[i].left \in View!Rests(s4'[i].kind)
    BY <2>1, ViewDrops
  <2> DEFINE h == Head(s4)
  <2>3. /\ h.kind = "bootstrap" => s7' = h.seen
        /\ h.kind # "bootstrap" =>
              s7' = [s7 EXCEPT !.online = h.seen.online, !.friend = h.seen.friend,
                               !.friendOnline = h.seen.friendOnline]
    BY <1>8 DEF View!Answer, View!TakePresence
  <2>4. h \in ViewCalls /\ h.left = <<>> /\ h = s4[1] /\ DOMAIN h.left = {}
    BY <2>1, <2>2
  <2> HIDE DEF h
  <2>5. s7' \in View!Shown /\ s6' \in BOOLEAN
    <3>1. s6' \in BOOLEAN
      BY <1>8 DEF View!Answer
    <3>2. s7' \in View!Shown
      BY <1>1, <2>3, <2>4, ZenonT(40) DEF ViewCalls, View!Shown
    <3> QED
      BY <3>1, <3>2
  <2>6. ASSUME View!ShowsEntries(h, s1, s13),
               h.kind = "bootstrap" \/ View!HasEntries(s7, s1, s13)
        PROVE  View!HasEntries(s7', s1, s13)
    <3>1. h.seen.friend = s1.friend
      BY <2>4, <2>6 DEF View!ShowsEntries, View!Unread
    <3>2. CASE h.kind = "bootstrap"
      <4>1. /\ h.seen.requests = s1.requests /\ h.seen.entries = s1.entries
            /\ s13 \/ h.seen.progress = s1.progress
        BY <2>4, <2>6, <3>2 DEF View!ShowsEntries, View!Unread
      <4> QED
        BY <2>3, <3>1, <3>2, <4>1 DEF View!HasEntries
    <3>3. CASE h.kind # "bootstrap"
      <4>1. /\ s7'.requests = s7.requests /\ s7'.entries = s7.entries
            /\ s7'.friend = h.seen.friend /\ s7'.progress = s7.progress
        BY <1>1, <2>3, <3>3 DEF View!Shown
      <4> QED
        BY <2>6, <3>1, <3>3, <4>1, Zenon DEF View!HasEntries
    <3> QED
      BY <3>2, <3>3
  <2>7. ASSUME View!ShowsPresence(h, s1) PROVE View!HasPresence(s7', s1)
    <3>1. /\ h.seen.online = s1.online /\ h.seen.friend = s1.friend
          /\ h.seen.friendOnline = (s1.friend /\ s1.online)
      BY <2>4, <2>7 DEF View!ShowsPresence, View!Unread
    <3>2. /\ s7'.online = h.seen.online /\ s7'.friend = h.seen.friend
          /\ s7'.friendOnline = h.seen.friendOnline
      BY <1>1, <2>3 DEF View!Shown
    <3> QED
      BY <3>1, <3>2, Zenon DEF View!HasPresence
  <2>8. ASSUME View!EntriesAreComing PROVE View!EntriesAreComing'
    <3>1. PICK i \in 0..Len(s4) :
            /\ IF i = 0 THEN View!HasEntries(s7, s1, s13) ELSE s4[i].kind = "bootstrap"
            /\ \A j \in DOMAIN s4 : j >= i => View!ShowsEntries(s4[j], s1, s13)
      BY <2>8 DEF View!EntriesAreComing
    <3>2. \A j \in DOMAIN s4' : j >= i - 1 => View!ShowsEntries(s4'[j], s1, s13)
      BY <2>2, <3>1
    <3>3. CASE i \in {0, 1}
      <4>1. View!HasEntries(s7', s1, s13)
        BY <2>2, <2>4, <2>6, <3>1, <3>3
      <4>2. \A j \in DOMAIN s4' : View!ShowsEntries(s4'[j], s1, s13)
        BY <2>2, <3>2, <3>3
      <4> QED
        BY <2>1, <2>2, <4>1, <4>2 DEF View!EntriesAreComing
    <3>4. CASE i \notin {0, 1}
      <4>1. i - 1 \in 1..Len(s4') /\ s4'[i - 1].kind = "bootstrap"
        BY <2>2, <3>1, <3>4
      <4> QED
        BY <2>1, <2>2, <3>2, <4>1 DEF View!EntriesAreComing
    <3> QED
      BY <3>3, <3>4
  <2>9. ASSUME View!PresenceIsComing PROVE View!PresenceIsComing'
    <3>1. PICK i \in 0..Len(s4) :
            \A j \in DOMAIN s4 : j >= i => View!ShowsPresence(s4[j], s1)
      BY <2>9 DEF View!PresenceIsComing
    <3>2. \A j \in DOMAIN s4' : j >= i - 1 => View!ShowsPresence(s4'[j], s1)
      BY <2>2, <3>1
    <3>3. CASE i \in {0, 1}
      <4>1. View!HasPresence(s7', s1) /\ s7'.friend = s1.friend
        BY <2>2, <2>4, <2>7, <3>1, <3>3 DEF View!HasPresence
      <4>2. \A j \in DOMAIN s4' : View!ShowsPresence(s4'[j], s1)
        BY <2>2, <3>2, <3>3
      <4> QED
        BY <2>1, <2>2, <4>1, <4>2 DEF View!PresenceIsComing
    <3>4. CASE i \notin {0, 1}
      <4>1. i - 1 \in 1..Len(s4') /\ i - 1 # 0
        BY <2>2, <3>1, <3>4
      <4> QED
        BY <2>1, <2>2, <3>2, <4>1 DEF View!PresenceIsComing
    <3> QED
      BY <3>3, <3>4
  <2>10. View!EventsAgree' /\ (~View!ToRefresh' => ~View!ToRefresh) /\ Served'
    BY <1>2, <2>1, <2>2 DEF View!EventsAgree, View!ToRefresh, Served
  <2> QED
    BY <1>1, <1>2, <1>4, <2>1, <2>2, <2>5, <2>8, <2>9, <2>10
<1>9. CASE View!ReadFails
  <2>1. /\ s4 # <<>> /\ s4' = Tail(s4) /\ s10' = FALSE
        /\ s9' = (s9 \/ Head(s4).kind = "bootstrap")
        /\ UNCHANGED <<s1, s2, s3, s5, s7, s8, s11, s13>>
    BY <1>9 DEF View!ReadFails
  <2>2. /\ s4' \in Seq(ViewCalls) /\ Len(s4') = Len(s4) - 1 /\ Head(s4) = s4[1]
        /\ Len(s4) \in Nat \ {0}
        /\ \A j \in DOMAIN s4' : s4'[j] = s4[j + 1] /\ j + 1 \in DOMAIN s4
        /\ \A i \in DOMAIN s4' : s4'[i].left \in View!Rests(s4'[i].kind)
    BY <2>1, ViewDrops
  <2>3. s6' \in BOOLEAN /\ s9' \in BOOLEAN
    BY <1>9, <2>1 DEF View!ReadFails
  <2>4. s12' \in 0..MaxFailures
    BY <1>9, <1>1, PartsAssumption DEF View!ReadFails, View!Fail
  <2>5. ASSUME View!EntriesAreComing, s4[1].kind # "bootstrap" PROVE View!EntriesAreComing'
    <3>1. PICK i \in 0..Len(s4) :
            /\ IF i = 0 THEN View!HasEntries(s7, s1, s13) ELSE s4[i].kind = "bootstrap"
            /\ \A j \in DOMAIN s4 : j >= i => View!ShowsEntries(s4[j], s1, s13)
      BY <2>5 DEF View!EntriesAreComing
    <3>2. \A j \in DOMAIN s4' : j >= i - 1 => View!ShowsEntries(s4'[j], s1, s13)
      BY <2>2, <3>1
    <3>3. CASE i = 0
      <4>1. \A j \in DOMAIN s4' : View!ShowsEntries(s4'[j], s1, s13)
        BY <2>2, <3>2, <3>3
      <4> QED
        BY <2>1, <2>2, <3>1, <3>3, <4>1 DEF View!EntriesAreComing
    <3>4. CASE i # 0
      <4>1. i - 1 \in 1..Len(s4') /\ s4'[i - 1].kind = "bootstrap"
        BY <2>2, <2>5, <3>1, <3>4
      <4> QED
        BY <2>1, <2>2, <3>2, <4>1 DEF View!EntriesAreComing
    <3> QED
      BY <3>3, <3>4
  <2>6. View!EventsAgree' /\ (~View!ToRefresh' => ~View!ToRefresh) /\ Served'
    BY <1>2, <2>1, <2>2 DEF View!EventsAgree, View!ToRefresh, Served
  <2>7. ~s9' /\ ~s8' /\ ~View!ToRefresh' => View!EntriesAreComing'
    BY <1>2, <2>1, <2>2, <2>5, <2>6
  <2> QED
    BY <1>1, <1>2, <1>4, <2>1, <2>2, <2>3, <2>4, <2>6, <2>7
<1>10. CASE View!Listen \/ View!PollTimesOut
  <2>1. /\ UNCHANGED <<s1, s2, s4, s5, s7, s8, s9, s10, s11, s12, s13>>
        /\ s3 => s3'
    BY <1>10 DEF View!Listen, View!PollTimesOut
  <2>2. s3' \in BOOLEAN /\ s6' \in BOOLEAN
    BY <1>1, <1>10 DEF View!Listen, View!PollTimesOut
  <2>3. View!EventsAgree' /\ Served'
    BY <1>2, <2>1 DEF View!EventsAgree, Served
  <2>4. /\ View!EntriesAreComing => View!EntriesAreComing'
        /\ View!PresenceIsComing => View!PresenceIsComing'
        /\ ~View!ToRefresh' => ~View!ToRefresh
    BY <2>1 DEF View!EntriesAreComing, View!PresenceIsComing, View!ToRefresh
  <2> QED
    BY <1>1, <1>2, <1>4, <2>1, <2>2, <2>3, <2>4
<1>11. CASE View!HandleEvent
  <2> DEFINE e == Head(s2)
  <2>1. /\ s2 # <<>> /\ s2' = Tail(s2) /\ s5' = (s5 \/ e \in {"resolved", "changed"})
        /\ UNCHANGED <<s1, s3, s4, s6, s8, s9, s10, s11, s12, s13>>
    BY <1>11 DEF View!HandleEvent
  <2>2. /\ e = "discovered" => s7' = [s7 EXCEPT !.online = TRUE, !.friendOnline = s7.friend]
        /\ e = "offline" => s7' = [s7 EXCEPT !.online = FALSE, !.friendOnline = FALSE]
        /\ e = "resolved" => s7' = [s7 EXCEPT !.friend = TRUE, !.friendOnline = TRUE]
        /\ e = "changed" => s7' = s7
    BY <1>11 DEF View!HandleEvent, View!Patched
  <2>3. /\ e \in Event /\ s2' \in Seq(Event) /\ Len(s2') = Len(s2) - 1 /\ e = s2[1]
        /\ Len(s2) \in Nat \ {0} /\ DOMAIN s2 = 1..Len(s2) /\ DOMAIN s2' = 1..Len(s2')
        /\ \A i \in DOMAIN s2' : s2'[i] = s2[i + 1]
        /\ s2' # <<>> <=> Len(s2) # 1
    <3>1. s2 \in Seq(Event) /\ s2 # <<>>
      BY <1>1, <2>1
    <3>2. /\ Head(s2) \in Event /\ Tail(s2) \in Seq(Event) /\ Len(Tail(s2)) = Len(s2) - 1
          /\ Head(s2) = s2[1] /\ Len(s2) \in Nat \ {0} /\ DOMAIN s2 = 1..Len(s2)
      BY <3>1
    <3>3. \A i \in 1..Len(s2) - 1 : Tail(s2)[i] = s2[i + 1]
      BY <3>1
    <3>4. DOMAIN Tail(s2) = 1..Len(s2) - 1
      BY <3>2
    <3>5. Tail(s2) = <<>> <=> Len(Tail(s2)) = 0
      BY <3>2, EmptySeq
    <3>6. DOMAIN Tail(s2) = 1..Len(s2) - 1 /\ (Tail(s2) # <<>> <=> Len(s2) # 1)
      BY <3>2, <3>4, <3>5
    <3> QED
      BY <2>1, <3>2, <3>3, <3>6
  <2> HIDE DEF e
  <2>4. s7' \in View!Shown
    BY <1>1, <2>2, <2>3 DEF View!Shown, Event
  <2>5. s5' \in BOOLEAN
    BY <2>1
  <2>6. View!EventsAgree'
    <3>1. s3
      BY <1>2, <2>1 DEF View!EventsAgree
    <3>2. s2' # <<>> => s2'[Len(s2')] = s2[Len(s2)]
      BY <2>3
    <3> QED
      BY <1>2, <2>1, <3>1, <3>2 DEF View!EventsAgree
  <2>7. Served'
    BY <1>2, <2>1 DEF Served
  <2>8. ASSUME ~View!ToRefresh'
        PROVE  /\ e \in {"discovered", "offline"} /\ ~View!ToRefresh
               /\ s7'.friend = s7.friend /\ s7'.requests = s7.requests
               /\ s7'.entries = s7.entries /\ s7'.progress = s7.progress
    <3>1. ~s5 /\ e \in {"discovered", "offline"}
      BY <2>1, <2>3, <2>8 DEF View!ToRefresh, Event
    <3>2. \A i \in DOMAIN s2 : i = 1 \/ (i - 1 \in DOMAIN s2' /\ s2'[i - 1] = s2[i])
      BY <2>3
    <3>3. ~View!ToRefresh
      BY <2>3, <2>8, <3>1, <3>2 DEF View!ToRefresh
    <3>4. s7'.friend = s7.friend
      BY <1>1, <2>2, <3>1 DEF View!Shown
    <3>5. /\ s7'.requests = s7.requests /\ s7'.entries = s7.entries
          /\ s7'.progress = s7.progress
      BY <1>1, <2>2, <3>1 DEF View!Shown
    <3> QED
      BY <3>1, <3>3, <3>4, <3>5
  <2>9. ASSUME ~View!ToRefresh', View!EntriesAreComing PROVE View!EntriesAreComing'
    <3>1. View!HasEntries(s7, s1, s13) => View!HasEntries(s7', s1, s13)
      BY <2>8, <2>9, Zenon DEF View!HasEntries
    <3> QED
      BY <2>1, <2>9, <3>1 DEF View!EntriesAreComing
  <2>10. ASSUME ~View!ToRefresh', View!PresenceIsComing PROVE View!PresenceIsComing'
    <3>1. ASSUME s7.friend = s1.friend, s2' = <<>> PROVE View!HasPresence(s7', s1)
      <4>1. e = s2[Len(s2)] /\ s2 # <<>>
        BY <2>1, <2>3, <3>1
      <4>2. CASE e = "discovered"
        <5>1. s1.online
          BY <1>2, <4>1, <4>2 DEF View!EventsAgree
        <5>2. s7'.online = TRUE /\ s7'.friendOnline = s7.friend /\ s7'.friend = s7.friend
          BY <1>1, <2>2, <4>2 DEF View!Shown
        <5> QED
          BY <1>1, <3>1, <5>1, <5>2 DEF View!HasPresence, Db
      <4>3. CASE e = "offline"
        <5>1. ~s1.online
          BY <1>2, <4>1, <4>3 DEF View!EventsAgree
        <5>2. s7'.online = FALSE /\ s7'.friendOnline = FALSE /\ s7'.friend = s7.friend
          BY <1>1, <2>2, <4>3 DEF View!Shown
        <5> QED
          BY <1>1, <3>1, <5>1, <5>2 DEF View!HasPresence, Db
      <4> QED
        BY <2>8, <2>10, <4>2, <4>3
    <3>2. s7'.friend = s7.friend
      BY <2>8, <2>10
    <3> QED
      BY <2>1, <2>10, <3>1, <3>2 DEF View!PresenceIsComing
  <2> QED
    BY <1>1, <1>2, <1>4, <2>1, <2>3, <2>4, <2>5, <2>6, <2>7, <2>8, <2>9, <2>10
<1>12. ASSUME NEW kind \in {"bootstrap", "poll", "presence"},
             s4' = Append(s4, View!CallOf(kind)), UNCHANGED <<s1, s2, s3, s7, s11, s12>>,
             s5' \in BOOLEAN, s6' \in BOOLEAN, s8' \in BOOLEAN, s9' \in BOOLEAN,
             s10' \in BOOLEAN, s13' \in BOOLEAN,
             kind = "bootstrap" \/ UNCHANGED <<s5, s8, s9, s13>>
      PROVE  View!ViewInv'
  <2>1. UNCHANGED <<s1, s2, s7>>
    BY <1>12
  <2>2. /\ s4' \in Seq(ViewCalls)
        /\ \A i \in DOMAIN s4' : s4'[i].left \in View!Rests(s4'[i].kind)
        /\ View!PresenceIsComing'
        /\ View!EntriesAreComing \/ kind = "bootstrap" => View!EntriesAreComing'
    BY <1>12, <2>1, ViewAsks
  <2>3. View!EventsAgree'
    BY <1>2, <1>12 DEF View!EventsAgree
  <2>4. ~s9' /\ ~s8' /\ ~View!ToRefresh' => View!EntriesAreComing'
    BY <1>2, <1>12, <2>2 DEF View!ToRefresh
  <2> QED
    BY <1>1, <1>2, <1>4, <1>12, <2>2, <2>3, <2>4 DEF Served
<1>13. CASE View!FireTimer
  BY <1>1, <1>12, <1>13 DEF View!FireTimer, View!Refresh, View!Call
<1>14. CASE View!Poll
  BY <1>1, <1>12, <1>14 DEF View!Poll, View!Call
<1>15. CASE View!RefreshNearby
  BY <1>1, <1>12, <1>15 DEF View!RefreshNearby, View!Call
<1>16. CASE View!CommandSucceeds
  BY <1>1, <1>12, <1>16 DEF View!CommandSucceeds, View!Refresh, View!Call
<1>17. CASE View!UserActs
  <2>1. s8' = TRUE /\ UNCHANGED <<s2, s3, s4, s5, s6, s7, s9, s12, s13>>
    BY <1>17 DEF View!UserActs, View!windowVars
  <2>2. /\ s11 \in Nat /\ s1.requests \in Nat /\ s1.entries \in Nat
        /\ s1.progress \in Nat /\ MaxChanges \in Nat
    BY <1>1, PartsAssumption DEF Db
  <2>3. Served' /\ s10' \in BOOLEAN
    BY <1>1, <1>2, <1>17, <2>1 DEF Served, View!UserActs
  <2>4. CASE View!Change /\ ~s10' /\ s1' = [s1 EXCEPT !.friend = TRUE, !.requests = @ + 1]
    <3>1. s11 < MaxChanges /\ s11' = s11 + 1
      BY <2>4 DEF View!Change
    <3>2. s1.requests + 1 \in 0..MaxChanges
      BY <1>2, <2>2, <3>1
    <3>3. s1' \in Db
      BY <1>1, <2>4, <3>2 DEF Db
    <3>4. s1'.online = s1.online
      BY <1>1, <2>4 DEF Db
    <3>5. /\ s1'.requests = s1.requests + 1 /\ s1'.entries = s1.entries
          /\ s1'.progress = s1.progress
      BY <1>1, <2>4 DEF Db
    <3>6. /\ s1'.requests <= s11' /\ s1'.entries <= s11' /\ s1'.progress <= s11'
          /\ s11' \in 0..MaxChanges
      BY <1>2, <2>2, <3>1, <3>5
    <3>7. View!EventsAgree'
      BY <1>2, <2>1, <3>4 DEF View!EventsAgree
    <3> QED
      BY <1>1, <1>4, <2>1, <2>3, <2>4, <3>3, <3>6, <3>7
  <2>5. CASE View!Change /\ s1' = [s1 EXCEPT !.entries = @ + 1] /\ UNCHANGED s10
    <3>1. s11 < MaxChanges /\ s11' = s11 + 1
      BY <2>5 DEF View!Change
    <3>2. s1.entries + 1 \in 0..MaxChanges
      BY <1>2, <2>2, <3>1
    <3>3. s1' \in Db
      BY <1>1, <2>5, <3>2 DEF Db
    <3>4. s1'.online = s1.online /\ s1'.friend = s1.friend
      BY <1>1, <2>5 DEF Db
    <3>5. /\ s1'.requests = s1.requests /\ s1'.entries = s1.entries + 1
          /\ s1'.progress = s1.progress
      BY <1>1, <2>5 DEF Db
    <3>6. /\ s1'.requests <= s11' /\ s1'.entries <= s11' /\ s1'.progress <= s11'
          /\ s11' \in 0..MaxChanges
      BY <1>2, <2>2, <3>1, <3>5
    <3>7. View!EventsAgree' /\ (~View!ToRefresh' => ~View!ToRefresh)
      BY <1>2, <2>1, <3>4 DEF View!EventsAgree, View!ToRefresh
    <3>8. View!PresenceIsComing => View!PresenceIsComing'
      <4>1. \A c : View!ShowsPresence(c, s1) => View!ShowsPresence(c, s1')
        BY <3>4, Zenon DEF View!ShowsPresence
      <4>2. \A c : View!HasPresence(c, s1) => View!HasPresence(c, s1')
        BY <3>4, Zenon DEF View!HasPresence
      <4> QED
        BY <2>1, <3>4, <4>1, <4>2 DEF View!PresenceIsComing
    <3> QED
      BY <1>1, <1>2, <1>4, <2>1, <2>3, <2>5, <3>3, <3>6, <3>7, <3>8
  <2>6. CASE UNCHANGED <<s1, s10, s11>>
    <3>1. View!EventsAgree' /\ (~View!ToRefresh' => ~View!ToRefresh)
      BY <1>2, <2>1, <2>6 DEF View!EventsAgree, View!ToRefresh
    <3>2. View!PresenceIsComing => View!PresenceIsComing'
      BY <2>1, <2>6 DEF View!PresenceIsComing
    <3> QED
      BY <1>1, <1>2, <1>4, <2>1, <2>3, <2>6, <3>1, <3>2
  <2> QED
    BY <1>17, <2>4, <2>5, <2>6 DEF View!UserActs
<1>18. CASE View!CommandFails
  <2>1. s9' = TRUE /\ s8' = FALSE /\ UNCHANGED <<s1, s2, s3, s4, s5, s6, s7, s10, s11, s13>>
    BY <1>18 DEF View!CommandFails, View!windowVars
  <2>2. s12' \in 0..MaxFailures
    BY <1>18, <1>1, PartsAssumption DEF View!CommandFails, View!Fail
  <2>3. View!EventsAgree' /\ Served' /\ (~View!ToRefresh' => ~View!ToRefresh)
    BY <1>2, <2>1 DEF View!EventsAgree, View!ToRefresh, Served
  <2>4. View!PresenceIsComing => View!PresenceIsComing'
    BY <2>1 DEF View!PresenceIsComing
  <2> QED
    BY <1>1, <1>2, <1>4, <2>1, <2>2, <2>3, <2>4
<1>19. CASE View!ChangeSilently
  <2>1. /\ s1' = [s1 EXCEPT !.progress = @ + 1] /\ s13' = TRUE
        /\ s11 < MaxChanges /\ s11' = s11 + 1
        /\ UNCHANGED <<s2, s3, s4, s5, s6, s7, s8, s9, s10, s12>>
    BY <1>19 DEF View!ChangeSilently, View!Change, View!windowVars
  <2>2. s11 \in Nat /\ MaxChanges \in Nat
    BY <1>1, PartsAssumption
  <2>3. /\ s1.requests \in Nat /\ s1.entries \in Nat /\ s1.progress \in Nat
        /\ s1'.requests = s1.requests /\ s1'.entries = s1.entries
        /\ s1'.progress = s1.progress + 1
    BY <1>1, <2>1, PartsAssumption DEF Db
  <2>4. /\ s1'.requests <= s11' /\ s1'.entries <= s11' /\ s1'.progress <= s11'
        /\ s11' \in 0..MaxChanges /\ s1.progress + 1 \in 0..MaxChanges
    BY <1>2, <2>1, <2>2, <2>3
  <2>5. s1' \in Db /\ s1'.online = s1.online /\ s1'.friend = s1.friend
    BY <1>1, <2>1, <2>4 DEF Db
  <2>6. View!EventsAgree' /\ (~View!ToRefresh' => ~View!ToRefresh)
    BY <1>2, <2>1, <2>5 DEF View!EventsAgree, View!ToRefresh
  <2>7. View!EntriesAreComing => View!EntriesAreComing'
    <3>1. \A c : View!ShowsEntries(c, s1, s13) => View!ShowsEntries(c, s1', s13')
      BY <2>1, <2>3, <2>5, Zenon DEF View!ShowsEntries
    <3>2. \A c : View!HasEntries(c, s1, s13) => View!HasEntries(c, s1', s13')
      BY <2>1, <2>3, <2>5, Zenon DEF View!HasEntries
    <3> QED
      BY <2>1, <3>1, <3>2 DEF View!EntriesAreComing
  <2>8. View!PresenceIsComing => View!PresenceIsComing'
    <3>1. \A c : View!ShowsPresence(c, s1) => View!ShowsPresence(c, s1')
      BY <2>5, Zenon DEF View!ShowsPresence
    <3>2. \A c : View!HasPresence(c, s1) => View!HasPresence(c, s1')
      BY <2>5, Zenon DEF View!HasPresence
    <3> QED
      BY <2>1, <2>5, <3>1, <3>2 DEF View!PresenceIsComing
  <2>9. Served'
    BY <1>2, <2>1 DEF Served
  <2>10. /\ s4' \in Seq(ViewCalls) /\ {s3', s5', s6', s8', s9', s10', s13'} \subseteq BOOLEAN
         /\ s2' \in Seq(Event) /\ s7' \in View!Shown /\ s12' \in 0..MaxFailures
    BY <1>1, <2>1
  <2>11. /\ ~s9' /\ ~s8' /\ ~View!ToRefresh' => View!EntriesAreComing'
         /\ s10' /\ ~View!ToRefresh' => View!PresenceIsComing'
    BY <1>2, <2>1, <2>6, <2>7, <2>8
  <2> QED
    BY <1>4, <2>4, <2>5, <2>6, <2>9, <2>10, <2>11, Zenon
<1>20. CASE View!HandlerFails
  <2>1. /\ s9' = TRUE /\ s11 < MaxChanges /\ s11' = s11 + 1
        /\ UNCHANGED <<s2, s3, s4, s5, s6, s7, s8, s13>>
    BY <1>20 DEF View!HandlerFails, View!Change, View!windowVars
  <2>2. s11 \in Nat /\ MaxChanges \in Nat
    BY <1>1, PartsAssumption
  <2>3. s1.requests \in Nat /\ s1.entries \in Nat /\ s1.progress \in Nat
    BY <1>1, PartsAssumption DEF Db
  <2>4. /\ s1' \in Db /\ s1'.online = s1.online /\ s10' \in BOOLEAN
        /\ s1'.requests <= s11' /\ s1'.entries <= s11' /\ s1'.progress <= s11'
        /\ s10' => s10 /\ s1'.friend = s1.friend
    <3>1. CASE s1' = [s1 EXCEPT !.friend = TRUE, !.requests = @ + 1] /\ s10' = FALSE
      <4>1. s1.requests + 1 \in 0..MaxChanges
        BY <1>2, <2>1, <2>2, <2>3
      <4>2. s1' \in Db /\ s1'.online = s1.online
        BY <1>1, <3>1, <4>1 DEF Db
      <4>3. /\ s1'.requests = s1.requests + 1 /\ s1'.entries = s1.entries
            /\ s1'.progress = s1.progress
        BY <1>1, <3>1 DEF Db
      <4>4. s1'.requests <= s11' /\ s1'.entries <= s11' /\ s1'.progress <= s11'
        BY <1>2, <2>1, <2>2, <2>3, <4>3
      <4> QED
        BY <3>1, <4>2, <4>4
    <3>2. CASE s1' = [s1 EXCEPT !.entries = @ + 1] /\ UNCHANGED s10
      <4>1. s1.entries + 1 \in 0..MaxChanges
        BY <1>2, <2>1, <2>2, <2>3
      <4>2. s1' \in Db /\ s1'.online = s1.online /\ s1'.friend = s1.friend
        BY <1>1, <3>2, <4>1 DEF Db
      <4>3. /\ s1'.requests = s1.requests /\ s1'.entries = s1.entries + 1
            /\ s1'.progress = s1.progress
        BY <1>1, <3>2 DEF Db
      <4>4. s1'.requests <= s11' /\ s1'.entries <= s11' /\ s1'.progress <= s11'
        BY <1>2, <2>1, <2>2, <2>3, <4>3
      <4>5. s10' \in BOOLEAN
        BY <1>1, <3>2
      <4> QED
        BY <3>2, <4>2, <4>4, <4>5
    <3> QED
      BY <1>20, <3>1, <3>2 DEF View!HandlerFails
  <2>5. s12' \in 0..MaxFailures
    <3>1. s12 < MaxFailures /\ s12' = s12 + 1
      BY <1>20 DEF View!HandlerFails, View!Fail
    <3>2. s12 \in Nat /\ MaxFailures \in Nat
      BY <1>1, PartsAssumption
    <3> QED
      BY <3>1, <3>2
  <2>6. View!EventsAgree' /\ (~View!ToRefresh' => ~View!ToRefresh) /\ Served'
    BY <1>2, <2>1, <2>4 DEF View!EventsAgree, View!ToRefresh, Served
  <2>7. ASSUME s10', ~View!ToRefresh' PROVE View!PresenceIsComing'
    <3>1. View!PresenceIsComing /\ s1'.friend = s1.friend /\ s1'.online = s1.online
      BY <1>2, <2>4, <2>6, <2>7
    <3>2. \A c : View!ShowsPresence(c, s1) => View!ShowsPresence(c, s1')
      BY <3>1, Zenon DEF View!ShowsPresence
    <3>3. \A c : View!HasPresence(c, s1) => View!HasPresence(c, s1')
      BY <3>1, Zenon DEF View!HasPresence
    <3> QED
      BY <2>1, <3>1, <3>2, <3>3 DEF View!PresenceIsComing
  <2>8. /\ s4' \in Seq(ViewCalls) /\ {s3', s5', s6', s8', s9', s10', s13'} \subseteq BOOLEAN
        /\ s2' \in Seq(Event) /\ s7' \in View!Shown /\ s11' \in 0..MaxChanges
    BY <1>1, <2>1, <2>2, <2>4
  <2> QED
    BY <1>4, <2>1, <2>4, <2>5, <2>6, <2>7, <2>8, Zenon
<1>21. CASE UNCHANGED View!vars
  BY <1>21
    DEF View!vars, View!ViewInv, View!TypeOK, View!EventsAgree, View!ToRefresh,
        View!EntriesAreComing, View!PresenceIsComing
<1> QED
  BY <1>5, <1>6, <1>7, <1>8, <1>9, <1>10, <1>11, <1>13, <1>14, <1>15, <1>16, <1>17, <1>18,
     <1>19, <1>20, <1>21
    DEF View!Next

\* At rest nothing is on its way that could change the screen (ScreenIsCurrent).
LEMMA ViewShown == ASSUME View!ViewInv PROVE View!ScreenIsCurrent
<1> SUFFICES ASSUME View!AtRest
             PROVE  /\ ~s9 => /\ s7.requests = s1.requests /\ s7.entries = s1.entries
                              /\ s7.friend = s1.friend
                              /\ s13 \/ s7.progress = s1.progress
                    /\ s10 => /\ s7.online = s1.online /\ s7.friend = s1.friend
                              /\ s7.friendOnline = (s1.friend /\ s1.online)
  BY DEF View!ScreenIsCurrent
<1>1. s2 = <<>> /\ s4 = <<>> /\ ~s5 /\ ~s8
  BY DEF View!AtRest
<1>2. ~View!ToRefresh /\ 0..Len(s4) = {0}
  BY <1>1 DEF View!ToRefresh
<1>3. ~s9 => View!HasEntries(s7, s1, s13)
  BY <1>1, <1>2 DEF View!ViewInv, View!EntriesAreComing
<1>4. s10 => View!HasPresence(s7, s1)
  BY <1>1, <1>2 DEF View!ViewInv, View!PresenceIsComing
<1> QED
  BY <1>3, <1>4, Zenon DEF View!HasEntries, View!HasPresence

-----------------------------------------------------------------------------
(* DestinationSpace: what the others took is the only thing that can be missing. *)

\* SpaceInv holds at first: nothing is written yet (Init).
LEMMA SpaceStarts == ASSUME Space!Init PROVE Space!SpaceInv
<1>1. Space!TypeOK
  BY SpaceAssumption DEF Space!Init, Space!TypeOK, Space!States
<1> QED
  BY <1>1 DEF Space!Init, Space!SpaceInv, Space!Writing

\* Every step keeps SpaceInv: what a transfer writes is taken from all the others (Next).
LEMMA SpaceKept ==
  ASSUME Space!SpaceInv, Space!Next \/ UNCHANGED Space!spaceVars
  PROVE  Space!SpaceInv'
<1> USE SpaceAssumption
  DEF Space!SpaceInv, Space!TypeOK, Space!States, Space!Writing, Space!Covered, Space!Needs
<1>1. ASSUME NEW t \in Transfers, Space!Accept(t) PROVE Space!SpaceInv'
  BY <1>1 DEF Space!Accept, Space!Becomes, Space!ValidVolume
<1>2. ASSUME NEW t \in Transfers, Space!Resume(t) PROVE Space!SpaceInv'
  BY <1>2 DEF Space!Resume, Space!Becomes, Space!ValidVolume
<1>3. ASSUME NEW t \in Transfers, Space!ClaimFirst(t) PROVE Space!SpaceInv'
  BY <1>3 DEF Space!ClaimFirst, Space!Becomes
<1>4. ASSUME NEW t \in Transfers, Space!WriteChunk(t) PROVE Space!SpaceInv'
  BY <1>4 DEF Space!WriteChunk, Space!TakenBy
<1>5. ASSUME NEW t \in Transfers, Space!Pause(t) PROVE Space!SpaceInv'
  BY <1>5 DEF Space!Pause, Space!Becomes
<1>6. ASSUME NEW t \in Transfers, Space!PublishByLink(t) PROVE Space!SpaceInv'
  BY <1>6 DEF Space!PublishByLink, Space!Becomes
<1>7. ASSUME NEW t \in Transfers, Space!StartCopy(t) PROVE Space!SpaceInv'
  BY <1>7 DEF Space!StartCopy, Space!Becomes
<1>8. ASSUME NEW t \in Transfers, Space!CopyChunk(t) PROVE Space!SpaceInv'
  BY <1>8 DEF Space!CopyChunk, Space!TakenBy
<1>9. ASSUME NEW t \in Transfers, Space!CopyFails(t) PROVE Space!SpaceInv'
  BY <1>9 DEF Space!CopyFails, Space!Becomes, Space!TakenBy
<1>10. ASSUME NEW t \in Transfers, Space!EndCopy(t) PROVE Space!SpaceInv'
  BY <1>10 DEF Space!EndCopy, Space!Becomes, Space!TakenBy
<1>11. ASSUME NEW t \in Transfers, Space!GiveUp(t) PROVE Space!SpaceInv'
  BY <1>11 DEF Space!GiveUp, Space!Becomes, Space!TakenBy
<1>12. CASE Space!OtherProgram
  BY <1>12 DEF Space!OtherProgram
<1>13. ASSUME NEW t \in Transfers, Space!ReturnToManual(t) PROVE Space!SpaceInv'
  BY <1>13 DEF Space!ReturnToManual, Space!Becomes
<1>14. CASE UNCHANGED Space!spaceVars
  BY <1>14 DEF Space!spaceVars
<1> QED
  BY <1>1, <1>2, <1>3, <1>4, <1>5, <1>6, <1>7, <1>8, <1>9, <1>10, <1>11, <1>12, <1>13, <1>14
    DEF Space!Next

-----------------------------------------------------------------------------
(* ChunkStream: what is committed is what the manifest was built from.  The argument is in
   ChunkStreamProofs; here its lemmas are carried to the slots of this run. *)
StreamProofs == INSTANCE ChunkStreamProofs WITH
    source <- s1, edits <- s2, prepared <- s3, snapshot <- s4, chunks <- s5, sending <- s6,
    position <- s7, acked <- s8, frame <- s9, answer <- s10, partial <- s11, synced <- s12,
    recorded <- s13, committed <- s14, receiving <- s15, outcome <- s16, losses <- s17

\* StreamInv holds at first: nothing is read of the file (Init).
LEMMA StreamStarts == ASSUME Stream!Init PROVE StreamProofs!StreamInv
<1>1. StreamProofs!Init
  BY DEF Stream!Init, StreamProofs!Init, Stream!Byte, StreamProofs!Byte, Stream!NoAnswer,
        StreamProofs!NoAnswer
<1> QED
  BY <1>1, PartsAssumption, ChunkBytesAssumption, StreamProofs!StreamStarts

\* A step of the run is one of the stream the argument is about (Next).
LEMMA StreamSteps == ASSUME Stream!Next PROVE StreamProofs!Next
<1> USE DEF Stream!Byte, StreamProofs!Byte, Stream!Front, StreamProofs!Front, Stream!manifest,
      StreamProofs!manifest, Stream!sender, StreamProofs!sender, Stream!wire,
      StreamProofs!wire, Stream!receiver, StreamProofs!receiver, Stream!ChunkCount,
      StreamProofs!ChunkCount, Stream!Size, StreamProofs!Size, Stream!ChunkLength,
      StreamProofs!ChunkLength, Stream!CanRead, StreamProofs!CanRead, Stream!SourceChunk,
      StreamProofs!SourceChunk, Stream!file, StreamProofs!file, Stream!SourceIsSnapshot,
      StreamProofs!SourceIsSnapshot, Stream!GeometryIsValid, StreamProofs!GeometryIsValid,
      Stream!SenderMayStart, StreamProofs!SenderMayStart, Stream!OpenPartial,
      StreamProofs!OpenPartial, Stream!NoAnswer, StreamProofs!NoAnswer, Stream!IsResumeOffset,
      StreamProofs!IsResumeOffset, Stream!LastSent, StreamProofs!LastSent, Stream!NextChunk,
      StreamProofs!NextChunk, Stream!IsFrameOf, StreamProofs!IsFrameOf, Stream!ResumeIndex,
      StreamProofs!ResumeIndex, Stream!Expected, StreamProofs!Expected, Stream!Ended,
      StreamProofs!Ended, Stream!Torn, StreamProofs!Torn
<1>1. ASSUME Stream!EditSource PROVE StreamProofs!EditSource
  BY <1>1 DEF Stream!EditSource, StreamProofs!EditSource
<1>2. ASSUME Stream!ReadForManifest PROVE StreamProofs!ReadForManifest
  BY <1>2 DEF Stream!ReadForManifest, StreamProofs!ReadForManifest
<1>3. ASSUME Stream!SaveManifest PROVE StreamProofs!SaveManifest
  BY <1>3 DEF Stream!SaveManifest, StreamProofs!SaveManifest
<1>4. ASSUME Stream!OpenStream PROVE StreamProofs!OpenStream
  BY <1>4 DEF Stream!OpenStream, StreamProofs!OpenStream
<1>5. ASSUME Stream!SendChunk PROVE StreamProofs!SendChunk
  BY <1>5 DEF Stream!SendChunk, StreamProofs!SendChunk
<1>6. ASSUME Stream!AwaitEnd PROVE StreamProofs!AwaitEnd
  BY <1>6 DEF Stream!AwaitEnd, StreamProofs!AwaitEnd
<1>7. ASSUME Stream!TakeAnswer PROVE StreamProofs!TakeAnswer
  BY <1>7 DEF Stream!TakeAnswer, StreamProofs!TakeAnswer
<1>8. ASSUME Stream!ReceiveChunk PROVE StreamProofs!ReceiveChunk
  BY <1>8 DEF Stream!ReceiveChunk, StreamProofs!ReceiveChunk
<1>9. ASSUME Stream!SyncChunk PROVE StreamProofs!SyncChunk
  BY <1>9 DEF Stream!SyncChunk, StreamProofs!SyncChunk
<1>10. ASSUME Stream!CommitChunk PROVE StreamProofs!CommitChunk
  BY <1>10 DEF Stream!CommitChunk, StreamProofs!CommitChunk
<1>11. ASSUME Stream!FinishReceive PROVE StreamProofs!FinishReceive
  BY <1>11 DEF Stream!FinishReceive, StreamProofs!FinishReceive
<1>12. ASSUME Stream!LoseStream PROVE StreamProofs!LoseStream
  BY <1>12 DEF Stream!LoseStream, StreamProofs!LoseStream
<1>13. ASSUME Stream!StopReceiver PROVE StreamProofs!StopReceiver
  BY <1>13 DEF Stream!StopReceiver, StreamProofs!StopReceiver
<1> QED
  BY <1>1, <1>2, <1>3, <1>4, <1>5, <1>6, <1>7, <1>8, <1>9, <1>10, <1>11, <1>12, <1>13
    DEF Stream!Next, StreamProofs!Next

\* Every step keeps StreamInv (Next).
LEMMA StreamKept ==
  ASSUME StreamProofs!StreamInv, Stream!Next \/ UNCHANGED Stream!vars
  PROVE  StreamProofs!StreamInv'
<1>1. ASSUME UNCHANGED Stream!vars PROVE UNCHANGED StreamProofs!vars
  BY <1>1 DEF Stream!vars, StreamProofs!vars
<1> QED
  BY <1>1, StreamSteps, ChunkBytesAssumption, StreamProofs!StreamKept

\* What the argument shows of a stream is what the run checks of it (StoredIsOriginal).
LEMMA StreamStored == ASSUME StreamProofs!StreamInv PROVE Stream!StoredIsOriginal
<1>1. StreamProofs!StoredIsOriginal
  BY DEF StreamProofs!StreamInv
<1> QED
  BY <1>1
    DEF Stream!StoredIsOriginal, StreamProofs!StoredIsOriginal, Stream!Original,
        StreamProofs!Original, Stream!ResumeIndex, StreamProofs!ResumeIndex, Stream!Size,
        StreamProofs!Size, Stream!IsResumeOffset, StreamProofs!IsResumeOffset,
        Stream!ChunkCount, StreamProofs!ChunkCount

-----------------------------------------------------------------------------
(* TerminalOutbox: every pass shares the slots.  The argument is in TerminalOutboxProofs, and
   carried over like the stream's. *)
OutboxProofs == INSTANCE TerminalOutboxProofs WITH
    queued <- s1, written <- s2, inFlight <- s3, connected <- s4, able <- s5, cursor <- s6

\* OutboxInv holds at first: nothing is queued or in flight (Init).
LEMMA OutboxStarts == ASSUME Outbox!Init PROVE OutboxProofs!OutboxInv
<1>1. OutboxProofs!Init
  BY DEF Outbox!Init, OutboxProofs!Init
<1>2. OutboxProofs!IsFiniteSet(Friends)
  BY OutboxAssumption DEF IsFiniteSet, OutboxProofs!IsFiniteSet
<1> QED
  BY <1>1, <1>2, OutboxAssumption, OutboxProofs!OutboxStarts

\* A step of this run's outbox is one of the outbox proved about, and a pass a pass (Next).
LEMMA OutboxSteps ==
  (Outbox!Next => OutboxProofs!Next) /\ (Outbox!Passed => OutboxProofs!Passed)
<1> USE DEF Outbox!Cardinality, OutboxProofs!Cardinality, Outbox!Notices, OutboxProofs!Notices,
      Outbox!Total, OutboxProofs!Total, Outbox!Oldest, OutboxProofs!Oldest, Outbox!Least,
      OutboxProofs!Least, Outbox!Room, OutboxProofs!Room, Outbox!Admitted,
      OutboxProofs!Admitted, Outbox!Flushed, OutboxProofs!Flushed, Outbox!Start,
      OutboxProofs!Start, Outbox!Rank, OutboxProofs!Rank, Outbox!Place, OutboxProofs!Place,
      Outbox!Round, OutboxProofs!Round, Outbox!Rounds, OutboxProofs!Rounds, Outbox!Without,
      OutboxProofs!Without, Outbox!Pass, OutboxProofs!Pass
<1>1. ASSUME NEW p \in Friends, Outbox!QueueNotice(p) PROVE OutboxProofs!QueueNotice(p)
  BY <1>1 DEF Outbox!QueueNotice, OutboxProofs!QueueNotice
<1>2. ASSUME NEW p \in Friends, Outbox!FlushNow(p) PROVE OutboxProofs!FlushNow(p)
  BY <1>2 DEF Outbox!FlushNow, OutboxProofs!FlushNow
<1>3. ASSUME NEW p \in Friends, Outbox!Connect(p) PROVE OutboxProofs!Connect(p)
  BY <1>3 DEF Outbox!Connect, OutboxProofs!Connect
<1>4. ASSUME NEW p \in Friends, Outbox!Disconnect(p) PROVE OutboxProofs!Disconnect(p)
  BY <1>4 DEF Outbox!Disconnect, OutboxProofs!Disconnect
<1>5. ASSUME NEW p \in Friends, Outbox!Hello(p) PROVE OutboxProofs!Hello(p)
  BY <1>5 DEF Outbox!Hello, OutboxProofs!Hello
<1>6. ASSUME Outbox!Tick PROVE OutboxProofs!Tick
  BY <1>6 DEF Outbox!Tick, OutboxProofs!Tick
<1>7. ASSUME NEW p \in Friends, NEW n \in s3[p], Outbox!Acknowledge(p, n)
      PROVE  OutboxProofs!Acknowledge(p, n)
  BY <1>7 DEF Outbox!Acknowledge, OutboxProofs!Acknowledge
<1>8. ASSUME NEW p \in Friends, NEW n \in s3[p], Outbox!FailNotice(p, n)
      PROVE  OutboxProofs!FailNotice(p, n)
  BY <1>8 DEF Outbox!FailNotice, OutboxProofs!FailNotice
<1>9. ASSUME Outbox!Restart PROVE OutboxProofs!Restart
  BY <1>9 DEF Outbox!Restart, OutboxProofs!Restart
<1>10. ASSUME NEW p \in Friends, Outbox!Pass(s1, s3, s5 \cup {p})
       PROVE  OutboxProofs!Pass(s1, s3, s5 \cup {p})
  BY <1>10
<1> HIDE DEF Outbox!Pass, OutboxProofs!Pass
<1>11. Outbox!Next => OutboxProofs!Next
  BY <1>1, <1>2, <1>3, <1>4, <1>5, <1>6, <1>7, <1>8, <1>9, Zenon
    DEF Outbox!Next, OutboxProofs!Next
<1>12. Outbox!Passed => OutboxProofs!Passed
  BY <1>6, <1>7, <1>10, Zenon DEF Outbox!Passed, OutboxProofs!Passed
<1> QED
  BY <1>11, <1>12

\* Every step keeps OutboxInv (Next).
LEMMA OutboxKept ==
  ASSUME OutboxProofs!OutboxInv, Outbox!Next \/ UNCHANGED Outbox!vars
  PROVE  OutboxProofs!OutboxInv'
<1>1. ASSUME UNCHANGED Outbox!vars PROVE UNCHANGED OutboxProofs!vars
  BY <1>1 DEF Outbox!vars, OutboxProofs!vars
<1>2. OutboxProofs!IsFiniteSet(Friends)
  BY OutboxAssumption DEF IsFiniteSet, OutboxProofs!IsFiniteSet
<1> QED
  BY <1>1, <1>2, OutboxSteps, OutboxAssumption, OutboxProofs!OutboxSteps

\* What the argument shows of a pass is what the run checks of it (SharesSlots).
LEMMA OutboxShares == ASSUME OutboxProofs!OutboxInv PROVE Outbox!SharesSlots
<1>1. OutboxProofs!IsFiniteSet(Friends)
  BY OutboxAssumption DEF IsFiniteSet, OutboxProofs!IsFiniteSet
<1>2. OutboxProofs!SharesSlots
  BY <1>1, OutboxAssumption, OutboxProofs!OutboxShares
<1>3. OutboxProofs!Sharing => Outbox!Sharing
  BY DEF Outbox!Sharing, OutboxProofs!Sharing, Outbox!Waits, OutboxProofs!Waits,
         Outbox!Gained, OutboxProofs!Gained, Outbox!Total, OutboxProofs!Total,
         Outbox!Notices, OutboxProofs!Notices, Outbox!Cardinality, OutboxProofs!Cardinality
<1> QED
  BY <1>2, <1>3, OutboxSteps, Zenon DEF Outbox!SharesSlots, OutboxProofs!SharesSlots

-----------------------------------------------------------------------------
(* The run: each behaviour is of one part, whose invariant holds. *)

\* The run's behaviours: each is of one part, and keeps that part's invariant.
PartsInv ==
    /\ part = "chat" => Chat!ChatInv
    /\ part = "schema" => Schema!MigrationInv
    /\ part = "save" => Save!SaveInv
    /\ part = "update" => Update!UpdateInv
    /\ part = "identity" => Identity!IdentityInv
    /\ part = "settings" => LocalSet!SettingsInv
    /\ part = "legacy" => Legacy!LegacyInv
    /\ part = "view" => View!ViewInv
    /\ part = "space" => Space!SpaceInv
    /\ part = "stream" => StreamProofs!StreamInv
    /\ part = "outbox" => OutboxProofs!OutboxInv

\* PartsInv holds at first, whichever part the behaviour is of (Init).
LEMMA PartsStart == Init => PartsInv
<1> SUFFICES ASSUME Init PROVE PartsInv
  OBVIOUS
<1>1. part = "chat" => Chat!ChatInv
  BY ChatStarts, Zenon DEF Init
<1>2. part = "schema" => Schema!MigrationInv
  BY MigrationStarts, Zenon DEF Init
<1>3. part = "save" => Save!SaveInv
  BY SaveStarts, Zenon DEF Init
<1>4. part = "update" => Update!UpdateInv
  BY UpdateStarts, Zenon DEF Init
<1>5. part = "identity" => Identity!IdentityInv
  BY IdentityStarts, Zenon DEF Init
<1>6. part = "settings" => LocalSet!SettingsInv
  BY SettingsStart, Zenon DEF Init
<1>7. part = "space" => Space!SpaceInv
  BY SpaceStarts, Zenon DEF Init
<1>8. part = "legacy" => Legacy!LegacyInv
  BY LegacyStarts, Zenon DEF Init
<1>9. part = "view" => View!ViewInv
  BY ViewStarts, Zenon DEF Init
<1>10. part = "stream" => StreamProofs!StreamInv
  BY StreamStarts, Zenon DEF Init
<1>11. part = "outbox" => OutboxProofs!OutboxInv
  BY OutboxStarts, Zenon DEF Init
<1> QED
  BY <1>1, <1>2, <1>3, <1>4, <1>5, <1>6, <1>7, <1>8, <1>9, <1>10, <1>11 DEF PartsInv

\* Every step keeps PartsInv: it is a step of the behaviour's own part, or changes nothing
\* (Next).
LEMMA PartsKept == PartsInv /\ [Next]_slots => PartsInv'
<1> SUFFICES ASSUME PartsInv, Next \/ UNCHANGED slots PROVE PartsInv'
  OBVIOUS
<1>1. UNCHANGED part
  <2>1. ASSUME Next PROVE UNCHANGED part
    BY <2>1, Zenon
      DEF Next, ChatStep, OutboxStep, StreamStep, LegacyStep, SchemaStep, SaveStep,
          UpdateStep, IdentityStep, SettingsStep, ViewStep, SpaceStep
  <2>2. ASSUME UNCHANGED slots PROVE UNCHANGED part
    BY <2>2 DEF slots
  <2> QED
    BY <2>1, <2>2
<1>2. ASSUME part = "chat" PROVE Chat!ChatInv'
  <2>1. ASSUME Next PROVE Chat!Next
    BY <1>2, <2>1
      DEF Next, ChatStep, OutboxStep, StreamStep, LegacyStep, SchemaStep, SaveStep,
          UpdateStep, IdentityStep, SettingsStep, ViewStep, SpaceStep
  <2>2. ASSUME UNCHANGED slots PROVE UNCHANGED Chat!vars
    BY <2>2 DEF slots, Chat!vars
  <2>3. Chat!ChatInv
    BY <1>2, Zenon DEF PartsInv
  <2> QED
    BY <2>1, <2>2, <2>3, ChatKept, Zenon
<1>3. ASSUME part = "schema" PROVE Schema!MigrationInv'
  <2>1. ASSUME Next PROVE Schema!Next
    BY <1>3, <2>1
      DEF Next, ChatStep, OutboxStep, StreamStep, LegacyStep, SchemaStep, SaveStep,
          UpdateStep, IdentityStep, SettingsStep, ViewStep, SpaceStep
  <2>2. ASSUME UNCHANGED slots PROVE UNCHANGED Schema!vars
    BY <2>2 DEF slots, Schema!vars
  <2>3. Schema!MigrationInv
    BY <1>3, Zenon DEF PartsInv
  <2> QED
    BY <2>1, <2>2, <2>3, MigrationKept, Zenon
<1>4. ASSUME part = "save" PROVE Save!SaveInv'
  <2>1. ASSUME Next PROVE Save!Next
    BY <1>4, <2>1
      DEF Next, ChatStep, OutboxStep, StreamStep, LegacyStep, SchemaStep, SaveStep,
          UpdateStep, IdentityStep, SettingsStep, ViewStep, SpaceStep
  <2>2. ASSUME UNCHANGED slots PROVE UNCHANGED Save!vars
    BY <2>2 DEF slots, Save!vars
  <2>3. Save!SaveInv
    BY <1>4, Zenon DEF PartsInv
  <2> QED
    BY <2>1, <2>2, <2>3, SaveKept, Zenon
<1>5. ASSUME part = "update" PROVE Update!UpdateInv'
  <2>1. ASSUME Next PROVE Update!Next
    BY <1>5, <2>1
      DEF Next, ChatStep, OutboxStep, StreamStep, LegacyStep, SchemaStep, SaveStep,
          UpdateStep, IdentityStep, SettingsStep, ViewStep, SpaceStep
  <2>2. ASSUME UNCHANGED slots PROVE UNCHANGED Update!vars
    BY <2>2 DEF slots, Update!vars
  <2>3. Update!UpdateInv
    BY <1>5, Zenon DEF PartsInv
  <2> QED
    BY <2>1, <2>2, <2>3, UpdateKept, Zenon
<1>6. ASSUME part = "identity" PROVE Identity!IdentityInv'
  <2>1. ASSUME Next PROVE Identity!Next
    BY <1>6, <2>1
      DEF Next, ChatStep, OutboxStep, StreamStep, LegacyStep, SchemaStep, SaveStep,
          UpdateStep, IdentityStep, SettingsStep, ViewStep, SpaceStep
  <2>2. ASSUME UNCHANGED slots PROVE UNCHANGED Identity!vars
    BY <2>2 DEF slots, Identity!vars
  <2>3. Identity!IdentityInv
    BY <1>6, Zenon DEF PartsInv
  <2> QED
    BY <2>1, <2>2, <2>3, IdentityKept, Zenon
<1>7. ASSUME part = "settings" PROVE LocalSet!SettingsInv'
  <2>1. ASSUME Next PROVE LocalSet!Next
    BY <1>7, <2>1
      DEF Next, ChatStep, OutboxStep, StreamStep, LegacyStep, SchemaStep, SaveStep,
          UpdateStep, IdentityStep, SettingsStep, ViewStep, SpaceStep
  <2>2. ASSUME UNCHANGED slots PROVE UNCHANGED LocalSet!vars
    BY <2>2 DEF slots, LocalSet!vars
  <2>3. LocalSet!SettingsInv
    BY <1>7, Zenon DEF PartsInv
  <2> QED
    BY <2>1, <2>2, <2>3, SettingsKept, Zenon
<1>8. ASSUME part = "legacy" PROVE Legacy!LegacyInv'
  <2>1. ASSUME Next PROVE Legacy!Next
    BY <1>8, <2>1
      DEF Next, ChatStep, OutboxStep, StreamStep, LegacyStep, SchemaStep, SaveStep,
          UpdateStep, IdentityStep, SettingsStep, ViewStep, SpaceStep
  <2>2. ASSUME UNCHANGED slots PROVE UNCHANGED Legacy!vars
    BY <2>2 DEF slots, Legacy!vars
  <2>3. Legacy!LegacyInv
    BY <1>8, Zenon DEF PartsInv
  <2> QED
    BY <2>1, <2>2, <2>3, LegacyKept, Zenon
<1>9. ASSUME part = "view" PROVE View!ViewInv'
  <2>1. ASSUME Next PROVE View!Next
    BY <1>9, <2>1
      DEF Next, ChatStep, OutboxStep, StreamStep, LegacyStep, SchemaStep, SaveStep,
          UpdateStep, IdentityStep, SettingsStep, ViewStep, SpaceStep
  <2>2. ASSUME UNCHANGED slots PROVE UNCHANGED View!vars
    BY <2>2 DEF slots, View!vars
  <2>3. View!ViewInv
    BY <1>9, Zenon DEF PartsInv
  <2> QED
    BY <2>1, <2>2, <2>3, ViewKept, Zenon
<1>10. ASSUME part = "space" PROVE Space!SpaceInv'
  <2>1. ASSUME Next PROVE Space!Next
    BY <1>10, <2>1
      DEF Next, ChatStep, OutboxStep, StreamStep, LegacyStep, SchemaStep, SaveStep,
          UpdateStep, IdentityStep, SettingsStep, ViewStep, SpaceStep
  <2>2. ASSUME UNCHANGED slots PROVE UNCHANGED Space!spaceVars
    BY <2>2 DEF slots, Space!spaceVars
  <2>3. Space!SpaceInv
    BY <1>10, Zenon DEF PartsInv
  <2> QED
    BY <2>1, <2>2, <2>3, SpaceKept, Zenon
<1>11. ASSUME part = "stream" PROVE StreamProofs!StreamInv'
  <2>1. ASSUME Next PROVE Stream!Next
    BY <1>11, <2>1
      DEF Next, ChatStep, OutboxStep, StreamStep, LegacyStep, SchemaStep, SaveStep,
          UpdateStep, IdentityStep, SettingsStep, ViewStep, SpaceStep
  <2>2. ASSUME UNCHANGED slots PROVE UNCHANGED Stream!vars
    BY <2>2 DEF slots, Stream!vars
  <2>3. StreamProofs!StreamInv
    BY <1>11, Zenon DEF PartsInv
  <2> QED
    BY <2>1, <2>2, <2>3, StreamKept, Zenon
<1>12. ASSUME part = "outbox" PROVE OutboxProofs!OutboxInv'
  <2>1. ASSUME Next PROVE Outbox!Next
    BY <1>12, <2>1
      DEF Next, ChatStep, OutboxStep, StreamStep, LegacyStep, SchemaStep, SaveStep,
          UpdateStep, IdentityStep, SettingsStep, ViewStep, SpaceStep
  <2>2. ASSUME UNCHANGED slots PROVE UNCHANGED Outbox!vars
    BY <2>2 DEF slots, Outbox!vars
  <2>3. OutboxProofs!OutboxInv
    BY <1>12, Zenon DEF PartsInv
  <2> QED
    BY <2>1, <2>2, <2>3, OutboxKept, Zenon
<1> QED
  BY <1>1, <1>2, <1>3, <1>4, <1>5, <1>6, <1>7, <1>8, <1>9, <1>10, <1>11, <1>12, Zenon
    DEF PartsInv

\* PartsInv is an invariant of the composed specification.
THEOREM PartsInvariant == Spec => []PartsInv
<1> QED
  BY PartsStart, PartsKept, PTL DEF Spec

-----------------------------------------------------------------------------
\* What the sender is shown of a chat message is what happened to it at the friend, for any
\* number of messages, whatever is refused, lost or sent again, and over restarts
\* (send_text_message, retry_text_message, reset_transient_messages).
THEOREM HonestChat == Spec => []ChatIsHonest
<1>1. PartsInv => ChatIsHonest
  BY DEF PartsInv, ChatIsHonest, Chat!ChatInv
<1> QED
  BY <1>1, PartsInvariant, PTL

\* The file the user finds under the name asked for is as long as its source was when it was
\* opened, or the one that was there, also when any of the calls fails; only the published
\* installer is linked and opened; what a call that is over leaves is left by an identity, a
\* removal or a last look that failed: for any number of calls and any sizes
\* (save_message_file_as_with_storage_and_hook, download_update).
THEOREM WholeCopies == Spec => []CopiesAreWhole
<1>1. ASSUME Save!SaveInv PROVE Save!CopyIsWhole
  BY <1>1
    DEF Save!SaveInv, Save!CopyIsWhole, Save!TypeOK, Save!Quiet, Save!Destinations,
        Save!None, Save!Theirs, Save!Original, Save!Ours
<1>2. ASSUME Update!UpdateInv PROVE Update!InstallerIsGenuine
  BY <1>2
    DEF Update!UpdateInv, Update!InstallerIsGenuine, Update!Sound, Update!TypeOK,
        Update!Whole, Update!NoFile
<1>3. PartsInv => CopiesAreWhole
  BY <1>1, <1>2 DEF PartsInv, CopiesAreWhole
<1> QED
  BY <1>3, PartsInvariant, PTL

\* A device keeps its identity, the language is the one chosen last, and the settings are
\* those the user was told are saved, however often the program ends or a write fails
\* (load_or_create_identity, save_settings, import_installer_language).
THEOREM KeptSettings == Spec => []SettingsAreKept
<1>1. ASSUME LocalSet!SettingsInv PROVE LocalSet!LanguageIsLastChosen
  BY <1>1 DEF LocalSet!SettingsInv, LocalSet!MarkerHasChoice, LocalSet!LanguageIsLastChosen
<1>2. ASSUME LocalSet!SettingsInv PROVE LocalSet!SettingsAreConfirmed
  BY <1>2
    DEF LocalSet!SettingsInv, LocalSet!TypeOK, LocalSet!CommandHasConfirmed,
        LocalSet!SettingsAreConfirmed, LocalSet!Told, LocalSet!Settings
<1>3. ASSUME Identity!IdentityInv PROVE Identity!IdentityIsKept
  BY <1>3
    DEF Identity!IdentityInv, Identity!IdentityIsKept, Identity!TypeOK, Identity!Identities,
        Identity!None, Identity!Damaged
<1>4. PartsInv => SettingsAreKept
  BY <1>1, <1>2, <1>3, Zenon DEF PartsInv, SettingsAreKept
<1> QED
  BY <1>4, PartsInvariant, PTL

\* A migrated database has all this release needs and lost nothing, and each friend decision
\* is queued or acknowledged, wherever the openings before it ended, for any number of
\* requests, columns and cleanups (migrate_schema).
THEOREM SoundMigration == Spec => []MigrationIsSound
<1>1. ASSUME Schema!MigrationInv PROVE Schema!MigrationIsSound
  <2>1. /\ s1.queue \cap s4 = {} /\ s1.hashes = s6
        /\ \A b, c \in DOMAIN s1.cleanup :
              s1.cleanup[b] # Schema!NoToken /\ b # c => s1.cleanup[b] # s1.cleanup[c]
    BY <1>1 DEF Schema!MigrationInv, Schema!Consistent
  <2>2. ASSUME s3 = "running"
        PROVE  /\ s1.columns = Columns /\ Schema!Named(s1) /\ s1.checked
               /\ s1.hashes \subseteq {"blob"}
               /\ Schema!Decided(s1.requests) \subseteq s1.queue \cup s4
    BY <1>1, <2>2 DEF Schema!MigrationInv, Schema!Consistent, Schema!After
  <2> QED
    BY <2>1, <2>2 DEF Schema!MigrationIsSound, Schema!Named
<1>2. PartsInv => MigrationIsSound
  BY <1>1 DEF PartsInv, MigrationIsSound
<1> QED
  BY <1>2, PartsInvariant, PTL

\* A file received by the first protocol holds the bytes that were offered, under a name that
\* was nobody else's, and the sender says delivered only of such a file, with any names and
\* foreign files and over any number of restarts (receive_body, send_legacy_transfer).
THEOREM WholeLegacy == Spec => []LegacyIsWhole
<1>1. PartsInv => LegacyIsWhole
  BY DEF PartsInv, LegacyIsWhole, Legacy!LegacyInv
<1> QED
  BY <1>1, PartsInvariant, PTL

\* What the receiver committed is what the sender's manifest was built from, byte by byte and on
\* the medium, and an untouched source is never refused: for any sizes of files and chunks, and
\* however often the source changes, the stream is lost or the receiver stops
\* (send_acknowledged_chunks, receive_acknowledged_chunks, open_owned_resumable_partial).
THEOREM StoredOriginal == Spec => []StoredIsOriginal
<1>1. PartsInv => StoredIsOriginal
  BY StreamStored, Zenon DEF PartsInv, StoredIsOriginal
<1> QED
  BY <1>1, PartsInvariant, PTL

\* Every pass over the terminal notices shares the slots, for any number of friends and any
\* limits: a friend that is left waiting has all its slots, or none is free and nobody gained
\* two notices more (retry_terminal_notifications_for_connected_peers).
THEOREM SharedSlots == Spec => SlotsAreShared
<1>1. PartsInv => (part = "outbox" => Outbox!SharesSlots)
  BY OutboxShares, Zenon DEF PartsInv
<1> QED
  BY <1>1, PartsInvariant, PTL DEF Spec, SlotsAreShared

\* At rest the window shows what the database has, however many calls, events and changes
\* were under way at once and in whatever order they came, apart from what no event told it
\* since it last asked (startSnapshotReconciliation, handleNetworkEvent, scheduleRefresh).
THEOREM CurrentScreen == Spec => []ScreenIsCurrent
<1>1. PartsInv => ScreenIsCurrent
  BY ViewShown DEF PartsInv, ScreenIsCurrent
<1> QED
  BY <1>1, PartsInvariant, PTL

\* A stream does not run out of space while the others stay within the reserve from the last
\* look on, the one of the acceptance or of the latest resumption, for any number of
\* transfers and any sizes (validate_volume, claim_incoming_at_offset_with_preflight).
THEOREM EnoughSpace == Spec => []SpaceIsEnough
<1>1. ASSUME Space!SpaceInv PROVE Space!SpaceSuffices
  BY <1>1, SpaceAssumption
    DEF Space!SpaceInv, Space!TypeOK, Space!SpaceSuffices, Space!Covered, Space!Needs
<1>2. PartsInv => SpaceIsEnough
  BY <1>1 DEF PartsInv, SpaceIsEnough
<1> QED
  BY <1>2, PartsInvariant, PTL
=============================================================================
