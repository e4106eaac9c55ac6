------------------------ MODULE TerminalOutboxProofs ------------------------
(***************************************************************************)
(* The slots for terminal notices are shared fairly, for any friends and   *)
(* limits.                                                                 *)
(*                                                                         *)
(* A pass is a loop of rounds, a round a loop of turns.  What a loop keeps *)
(* is shown by induction; the library's induction theorems take an         *)
(* operator, so it is stated here for sets of numbers, and derived from    *)
(* the well-foundedness of the naturals.                                   *)
(***************************************************************************)
EXTENDS TerminalOutbox, FiniteSetTheorems, WellFoundedInduction, TLAPS

-----------------------------------------------------------------------------
(* Induction and recursion over the naturals. *)

\* A set of natural numbers that is not empty has a least one.
LEMMA Smallest0 == ASSUME NEW S \in SUBSET Nat, S # {} PROVE \E n \in S : \A m \in S : ~(m < n)
<1> DEFINE R == OpToRel(<, Nat)
<1>1. IsWellFoundedOn(R, Nat)
  BY NatLessThanWellFounded
<1>2. \A x, y \in Nat : x < y => <<x, y>> \in R
  BY DEF OpToRel
<1> HIDE DEF R
<1>3. PICK x \in S : \A y \in S : ~ (<<y, x>> \in R)
  BY <1>1, WFMin
<1> QED
  BY <1>2, <1>3

\* The same with an order that arithmetic knows.
LEMMA Smallest == ASSUME NEW S \in SUBSET Nat, S # {} PROVE \E n \in S : \A m \in S : n <= m
<1>1. PICK n \in S : \A m \in S : ~(m < n)
  BY Smallest0
<1>2. n \in Nat /\ \A m \in S : m \in Nat
  OBVIOUS
<1> QED
  BY <1>1, <1>2

\* Induction over the numbers of a set.
LEMMA SetInduction ==
  ASSUME NEW S, 0 \in S, \A n \in Nat : n \in S => n + 1 \in S
  PROVE  Nat \subseteq S
<1> SUFFICES ASSUME Nat \ S # {} PROVE FALSE
  OBVIOUS
<1>1. PICK n \in Nat \ S : \A m \in Nat \ S : n <= m
  BY Smallest
<1>2. n # 0 /\ n - 1 \in Nat /\ n - 1 \notin Nat \ S
  BY <1>1
<1> QED
  BY <1>1, <1>2

\* The functions that take a first value and a step from each value to the next.
Runs(X, a, step, n) ==
    {f \in [0..n -> X] : f[0] = a /\ \A j \in 1..n : f[j] = step[<<j, f[j - 1]>>]}

\* Such functions exist.
LEMMA Recursion ==
  ASSUME NEW X, NEW a \in X, NEW step \in [Nat \X X -> X], NEW n \in Nat
  PROVE  Runs(X, a, step, n) # {}
<1> DEFINE S == {m \in Nat : Runs(X, a, step, m) # {}}
<1>1. 0 \in S
  <2> DEFINE f == [j \in 0..0 |-> a]
  <2>1. f \in [0..0 -> X] /\ f[0] = a /\ \A j \in 1..0 : f[j] = step[<<j, f[j - 1]>>]
    OBVIOUS
  <2> HIDE DEF f
  <2> QED
    BY <2>1 DEF Runs
<1>2. ASSUME NEW m \in Nat, m \in S PROVE m + 1 \in S
  <2>1. PICK f \in [0..m -> X] : f[0] = a /\ \A j \in 1..m : f[j] = step[<<j, f[j - 1]>>]
    BY <1>2 DEF Runs
  <2>2. f[m] \in X /\ step[<<m + 1, f[m]>>] \in X
    BY <2>1
  <2> DEFINE g == [j \in 0..m + 1 |-> IF j \in 0..m THEN f[j] ELSE step[<<m + 1, f[m]>>]]
  <2>3. g \in [0..m + 1 -> X] /\ g[0] = a
    BY <2>1, <2>2
  <2>4. ASSUME NEW j \in 1..m + 1 PROVE g[j] = step[<<j, g[j - 1]>>]
    <3>1. CASE j \in 1..m
      BY <2>1, <3>1
    <3>2. CASE j = m + 1
      <4>1. j - 1 = m /\ j \notin 0..m /\ m \in 0..m /\ m \in 0..m + 1
        BY <3>2
      <4>2. g[j] = step[<<m + 1, f[m]>>] /\ g[j - 1] = f[m]
        BY <4>1
      <4> QED
        BY <3>2, <4>2
    <3> QED
      BY <3>1, <3>2
  <2> HIDE DEF g
  <2>5. m + 1 \in Nat
    OBVIOUS
  <2> QED
    BY <2>3, <2>4, <2>5 DEF Runs
<1> HIDE DEF S
<1>3. Nat \subseteq S
  BY <1>1, <1>2, SetInduction
<1> QED
  BY <1>3 DEF S

-----------------------------------------------------------------------------
(* Sets of numbers and their ranks. *)

\* Of two numbers the smaller has fewer of a set before it.
LEMMA RankGrows ==
  ASSUME NEW S, IsFiniteSet(S), S \subseteq Nat, NEW k \in S, NEW m \in Nat, k < m
  PROVE  /\ Cardinality({l \in S : l < k}) \in Nat /\ Cardinality({l \in S : l < m}) \in Nat
         /\ Cardinality({l \in S : l < k}) < Cardinality({l \in S : l < m})
<1> DEFINE A == {l \in S : l < k}
           B == {l \in S : l < m}
<1>1. A \in SUBSET B /\ B \in SUBSET S /\ k \in B /\ k \notin A
  <2>1. \A l \in S : l < k => l < m
    OBVIOUS
  <2>2. ~(k < k)
    OBVIOUS
  <2> QED
    BY <2>1, <2>2
<1> HIDE DEF A, B
<1>2. IsFiniteSet(B) /\ IsFiniteSet(A) /\ Cardinality(A) <= Cardinality(B)
      /\ (Cardinality(A) = Cardinality(B) => A = B)
  <2>1. IsFiniteSet(B)
    BY <1>1, FS_Subset
  <2> QED
    BY <1>1, <2>1, FS_Subset
<1>3. Cardinality(A) \in Nat /\ Cardinality(B) \in Nat /\ Cardinality(A) # Cardinality(B)
  BY <1>1, <1>2, FS_CardinalityType
<1>4. Cardinality(A) < Cardinality(B)
  BY <1>2, <1>3
<1> QED
  BY <1>3, <1>4 DEF A, B

\* A set of notices is finite.
LEMMA NoticesFinite ==
  ASSUME NEW S \in SUBSET Notices
  PROVE  IsFiniteSet(S) /\ Cardinality(S) \in Nat /\ S \subseteq Nat
<1>1. IsFiniteSet(Notices)
  BY OutboxAssumption, FS_Interval DEF Notices
<1>2. IsFiniteSet(S)
  BY <1>1, FS_Subset
<1> QED
  BY <1>2, FS_CardinalityType, OutboxAssumption DEF Notices

\* There are at most n of the n oldest (list_pending_terminal_notifications_page).
LEMMA OldestBound ==
  ASSUME NEW S \in SUBSET Notices, NEW n \in Nat
  PROVE  Oldest(S, n) \subseteq S /\ Cardinality(Oldest(S, n)) <= n
<1> DEFINE O == Oldest(S, n)
           rank == [k \in O |-> Cardinality({l \in S : l < k})]
<1>1. O \subseteq S /\ \A k \in O : Cardinality({l \in S : l < k}) < n
  BY DEF Oldest
<1>2. IsFiniteSet(S) /\ S \subseteq Nat
  BY NoticesFinite
<1> HIDE DEF O
<1>3. \A k \in O : Cardinality({l \in S : l < k}) \in Nat
  <2> TAKE k \in O
  <2>1. {l \in S : l < k} \in SUBSET Notices
    OBVIOUS
  <2> HIDE DEF rank
  <2> QED
    BY <2>1, NoticesFinite
<1>4. rank \in [O -> 0..(n - 1)]
  BY <1>1, <1>3
<1>5. \A k, m \in O : rank[k] = rank[m] => k = m
  <2> SUFFICES ASSUME NEW k \in O, NEW m \in O, k < m PROVE rank[k] # rank[m]
    BY <1>1, <1>2
  <2>1. k \in S /\ m \in Nat
    BY <1>1, <1>2
  <2>2. /\ Cardinality({l \in S : l < k}) \in Nat /\ Cardinality({l \in S : l < m}) \in Nat
        /\ Cardinality({l \in S : l < k}) < Cardinality({l \in S : l < m})
    BY <1>2, <2>1, RankGrows
  <2>3. rank[k] < rank[m] /\ rank[k] \in Nat /\ rank[m] \in Nat
    BY <2>2
  <2> QED
    BY <2>3
<1>6. rank \in Injection(O, 0..(n - 1))
  BY <1>4, <1>5 DEF Injection, IsInjective
<1>7. IsFiniteSet(0..(n - 1)) /\ Cardinality(0..(n - 1)) = n
  BY FS_Interval
<1> HIDE DEF rank
<1>8. Cardinality(O) <= n
  BY <1>6, <1>7, FS_Injection
<1> QED
  BY <1>1, <1>8 DEF O

-----------------------------------------------------------------------------
(* One look at one friend. *)

\* The notices of each friend, queued or in flight, and the pairs of a friend and a notice.
Table == [Friends -> SUBSET Notices]
Pairs(flying) == {x \in Friends \X Notices : x[2] \in flying[x[1]]}

\* All requests are finitely many, and each friend's are some of them.
LEMMA TotalType ==
  ASSUME NEW flying \in Table
  PROVE  /\ IsFiniteSet(Pairs(flying)) /\ Total(flying) = Cardinality(Pairs(flying))
         /\ Total(flying) \in Nat
<1>1. IsFiniteSet(Friends \X Notices)
  <2>1. IsFiniteSet(Notices) /\ IsFiniteSet(Friends)
    BY OutboxAssumption, NoticesFinite
  <2> QED
    BY <2>1, FS_Product
<1>2. Pairs(flying) \in SUBSET (Friends \X Notices)
  BY DEF Pairs
<1>3. IsFiniteSet(Pairs(flying))
  BY <1>1, <1>2, FS_Subset
<1>4. Total(flying) = Cardinality(Pairs(flying))
  BY DEF Total, Pairs
<1> QED
  BY <1>3, <1>4, FS_CardinalityType

\* What is added for one friend is added to the whole.
LEMMA TotalAdds ==
  ASSUME NEW flying \in Table, NEW p \in Friends, NEW A \in SUBSET Notices,
         A \cap flying[p] = {}
  PROVE  /\ [flying EXCEPT ![p] = @ \cup A] \in Table
         /\ Total([flying EXCEPT ![p] = @ \cup A]) = Total(flying) + Cardinality(A)
         /\ Cardinality(flying[p] \cup A) = Cardinality(flying[p]) + Cardinality(A)
         /\ Cardinality(flying[p]) \in Nat /\ Cardinality(A) \in Nat
<1> DEFINE new == [flying EXCEPT ![p] = @ \cup A]
<1>1. /\ flying[p] \in SUBSET Notices /\ new \in Table
      /\ \A q \in Friends : new[q] = IF q = p THEN flying[p] \cup A ELSE flying[q]
  BY DEF Table
<1>2. /\ IsFiniteSet(A) /\ Cardinality(A) \in Nat
      /\ IsFiniteSet(flying[p]) /\ Cardinality(flying[p]) \in Nat
  BY <1>1, NoticesFinite
<1>3. Cardinality(flying[p] \cup A) = Cardinality(flying[p]) + Cardinality(A)
  <2>1. flying[p] \cap A = {} /\ Cardinality({}) = 0
    BY FS_EmptySet
  <2>2. Cardinality(flying[p] \cup A)
          = Cardinality(flying[p]) + Cardinality(A) - Cardinality(flying[p] \cap A)
    BY <1>2, FS_Union
  <2>3. Cardinality(flying[p] \cap A) = 0
    BY <2>1, Zenon
  <2> QED
    BY <1>2, <2>2, <2>3
<1>4. Pairs(new) = Pairs(flying) \cup ({p} \X A)
  <2>1. ASSUME NEW q \in Friends, NEW n \in Notices
        PROVE  n \in new[q] <=> (n \in flying[q] \/ <<q, n>> \in {p} \X A)
    BY <1>1
  <2> QED
    BY <2>1 DEF Pairs
<1>5. Pairs(flying) \cap ({p} \X A) = {}
  BY DEF Pairs
<1>6. IsFiniteSet({p} \X A) /\ Cardinality({p} \X A) = Cardinality(A)
  <2>1. IsFiniteSet({p}) /\ Cardinality({p}) = 1
    BY FS_Singleton
  <2>2. IsFiniteSet({p} \X A) /\ Cardinality({p} \X A) = 1 * Cardinality(A)
    BY <1>2, <2>1, FS_Product
  <2> QED
    BY <1>2, <2>2
<1>7. /\ IsFiniteSet(Pairs(flying)) /\ Total(flying) = Cardinality(Pairs(flying))
      /\ Total(flying) \in Nat /\ Total(new) = Cardinality(Pairs(new))
  BY <1>1, TotalType
<1> HIDE DEF new
<1>8. Cardinality(Pairs(new)) = Cardinality(Pairs(flying)) + Cardinality({p} \X A) - 0
  BY <1>4, <1>5, <1>6, <1>7, FS_Union, FS_EmptySet
<1>9. Total(new) = Total(flying) + Cardinality(A)
  BY <1>2, <1>6, <1>7, <1>8
<1> QED
  BY <1>1, <1>2, <1>3, <1>9 DEF new

\* No friend has more in flight than there are requests.
LEMMA TotalBounds ==
  ASSUME NEW flying \in Table, NEW p \in Friends
  PROVE  Cardinality(flying[p]) \in Nat /\ Cardinality(flying[p]) <= Total(flying)
<1>1. flying[p] \in SUBSET Notices
  BY DEF Table
<1>2. IsFiniteSet(flying[p]) /\ Cardinality(flying[p]) \in Nat
  BY <1>1, NoticesFinite
<1>3. IsFiniteSet({p}) /\ Cardinality({p}) = 1
  BY FS_Singleton
<1>4. Cardinality({p} \X flying[p]) = 1 * Cardinality(flying[p])
  BY <1>2, <1>3, FS_Product
<1>5. {p} \X flying[p] \in SUBSET Pairs(flying)
  BY <1>1 DEF Pairs
<1>6. Cardinality({p} \X flying[p]) <= Cardinality(Pairs(flying))
  BY <1>5, TotalType, FS_Subset
<1> QED
  BY <1>2, <1>4, <1>6, TotalType

\* How many one look may send (flush_terminal_notifications_for_peer_up_to).
Available(flying, p, most) ==
    Least(Least(Room(Global, Total(flying)), Room(PerPeer, Cardinality(flying[p]))), most)

\* What is admitted waits in the queue, and there is room for it
\* (flush_terminal_notifications_for_peer_up_to).
LEMMA AdmittedFits ==
  ASSUME NEW queue \in Table, NEW flying \in Table, NEW p \in Friends, NEW most \in Nat
  PROVE  /\ Admitted(queue, flying, p, most) \subseteq queue[p] \ flying[p]
         /\ Admitted(queue, flying, p, most) \in SUBSET Notices
         /\ Cardinality(Admitted(queue, flying, p, most)) \in Nat
         /\ Cardinality(Admitted(queue, flying, p, most)) <= Available(flying, p, most)
         /\ Available(flying, p, most) \in Nat
<1> DEFINE n == Available(flying, p, most)
           page == Oldest(queue[p], Cardinality(flying[p]) + n)
<1>1. queue[p] \in SUBSET Notices /\ flying[p] \in SUBSET Notices
  BY DEF Table
<1>2. Cardinality(flying[p]) \in Nat /\ Total(flying) \in Nat
  BY <1>1, NoticesFinite, TotalType
<1>3. n \in Nat
  BY <1>2, OutboxAssumption DEF Available, Least, Room
<1>4. Admitted(queue, flying, p, most) = Oldest(page \ flying[p], n)
  BY DEF Admitted, Available
<1> HIDE DEF n
<1>5. page \subseteq queue[p]
  BY <1>1, <1>2, <1>3, OldestBound
<1> HIDE DEF page
<1>6. page \ flying[p] \in SUBSET Notices
  BY <1>1, <1>5
<1>7. /\ Oldest(page \ flying[p], n) \subseteq page \ flying[p]
      /\ Cardinality(Oldest(page \ flying[p], n)) <= n
  BY <1>3, <1>6, OldestBound
<1>8. Admitted(queue, flying, p, most) \in SUBSET Notices
  BY <1>4, <1>6, <1>7
<1> QED
  BY <1>3, <1>4, <1>5, <1>7, <1>8, NoticesFinite DEF n

\* One notice at a time: the oldest that waits, as long as there is room.
LEMMA AdmittedOne ==
  ASSUME NEW queue \in Table, NEW flying \in Table, NEW p \in Friends
  PROVE  \/ /\ Admitted(queue, flying, p, 1) = {}
            /\ \/ queue[p] \subseteq flying[p]
               \/ Total(flying) >= Global
               \/ Cardinality(flying[p]) >= PerPeer
         \/ /\ Total(flying) < Global /\ Cardinality(flying[p]) < PerPeer
            /\ \E m \in queue[p] \ flying[p] :
                  /\ Admitted(queue, flying, p, 1) = {m}
                  /\ \A k \in queue[p] : k < m => k \in flying[p]
<1> DEFINE n == Available(flying, p, 1)
           A == Admitted(queue, flying, p, 1)
           page == Oldest(queue[p], Cardinality(flying[p]) + n)
<1>1. /\ queue[p] \in SUBSET Notices /\ flying[p] \in SUBSET Notices
      /\ IsFiniteSet(flying[p]) /\ Cardinality(flying[p]) \in Nat /\ Total(flying) \in Nat
      /\ Global \in Nat /\ PerPeer \in Nat
  <2>1. queue[p] \in SUBSET Notices /\ flying[p] \in SUBSET Notices
    BY DEF Table
  <2> QED
    BY <2>1, NoticesFinite, TotalType, OutboxAssumption
<1>2. /\ A \subseteq queue[p] \ flying[p] /\ A \in SUBSET Notices
      /\ Cardinality(A) \in Nat /\ Cardinality(A) <= n
  BY AdmittedFits
<1>3. n = IF Total(flying) < Global /\ Cardinality(flying[p]) < PerPeer THEN 1 ELSE 0
  BY <1>1 DEF Available, Least, Room
<1>4. A = Oldest(page \ flying[p], n)
  BY DEF Admitted, Available
<1> HIDE DEF n, A, page
<1>5. IsFiniteSet(A) /\ (Cardinality(A) = 0 => A = {})
  BY <1>2, NoticesFinite, FS_EmptySet
<1>6. CASE Total(flying) >= Global \/ Cardinality(flying[p]) >= PerPeer
  <2>1. n = 0
    BY <1>1, <1>3, <1>6
  <2>2. A = {}
    BY <1>2, <1>5, <2>1
  <2> QED
    BY <1>6, <2>2 DEF A
<1>7. CASE queue[p] \subseteq flying[p]
  BY <1>2, <1>7 DEF A
<1>8. CASE /\ Total(flying) < Global /\ Cardinality(flying[p]) < PerPeer
           /\ ~(queue[p] \subseteq flying[p])
  <2>1. n = 1
    BY <1>3, <1>8
  <2>2. PICK m \in queue[p] \ flying[p] : \A k \in queue[p] \ flying[p] : m <= k
    <3>1. queue[p] \ flying[p] \in SUBSET Nat /\ queue[p] \ flying[p] # {}
      BY <1>1, <1>8, NoticesFinite
    <3> QED
      BY <3>1, Smallest
  <2>3. m \in Nat /\ \A k \in queue[p] : k \in Nat
    BY <1>1, NoticesFinite
  <2>4. \A k \in queue[p] : k < m => k \in flying[p]
    BY <2>2, <2>3
  <2>5. m \in page
    <3>1. {l \in queue[p] : l < m} \in SUBSET flying[p]
      BY <2>4
    <3>2. Cardinality({l \in queue[p] : l < m}) <= Cardinality(flying[p])
      BY <1>1, <3>1, FS_Subset
    <3>3. {l \in queue[p] : l < m} \in SUBSET Notices
      BY <1>1
    <3>4. Cardinality({l \in queue[p] : l < m}) \in Nat
      BY <3>3, NoticesFinite
    <3>5. Cardinality({l \in queue[p] : l < m}) < Cardinality(flying[p]) + n
      BY <1>1, <2>1, <3>2, <3>4
    <3> QED
      BY <3>5 DEF page, Oldest
  <2>6. page \subseteq queue[p]
    BY DEF page, Oldest
  <2>7. m \in A
    <3>1. {l \in page \ flying[p] : l < m} = {}
      BY <2>4, <2>6
    <3>2. Cardinality({l \in page \ flying[p] : l < m}) < n
      BY <2>1, <3>1, FS_EmptySet
    <3> QED
      BY <1>4, <2>2, <2>5, <3>2 DEF Oldest
  <2>8. A = {m}
    <3>1. {m} \in SUBSET A /\ Cardinality({m}) = 1
      BY <2>7, FS_Singleton
    <3>2. Cardinality({m}) <= Cardinality(A) /\ (Cardinality(A) = Cardinality({m}) => A = {m})
      BY <1>5, <3>1, FS_Subset
    <3> QED
      BY <1>2, <2>1, <3>1, <3>2
  <2> QED
    BY <1>8, <2>4, <2>8 DEF A
<1> QED
  BY <1>1, <1>6, <1>7, <1>8

\* The limits, what stays in flight, and the order of what is sent: the parts of what a look,
\* a round and a pass keep.
Within(flying) ==
    Total(flying) <= Global /\ \A q \in Friends : Cardinality(flying[q]) <= PerPeer
Kept(old, new) == \A q \in Friends : old[q] \subseteq new[q]
OldestFirst(queue, old, new) ==
    \A q \in Friends : \A n \in new[q] \ old[q] :
        n \in queue[q] /\ \A k \in queue[q] : k < n => k \in new[q]

\* A look keeps the limits (flush_terminal_notifications_for_peer_up_to).
LEMMA FlushedFits ==
  ASSUME NEW queue \in Table, NEW flying \in Table, NEW p \in Friends, NEW most \in Nat
  PROVE  /\ Flushed(queue, flying, p, most) \in Table
         /\ Kept(flying, Flushed(queue, flying, p, most))
         /\ Total(flying) \in Nat /\ Total(Flushed(queue, flying, p, most)) \in Nat
         /\ Total(flying) <= Total(Flushed(queue, flying, p, most))
         /\ Within(flying) => Within(Flushed(queue, flying, p, most))
<1> DEFINE A == Admitted(queue, flying, p, most)
           new == Flushed(queue, flying, p, most)
           n == Available(flying, p, most)
<1>1. /\ A \subseteq queue[p] \ flying[p] /\ A \in SUBSET Notices
      /\ Cardinality(A) \in Nat /\ Cardinality(A) <= n /\ n \in Nat
  BY AdmittedFits
<1>2. n <= Room(Global, Total(flying)) /\ n <= Room(PerPeer, Cardinality(flying[p]))
  <2>1. /\ Cardinality(flying[p]) \in Nat /\ Total(flying) \in Nat
        /\ Global \in Nat /\ PerPeer \in Nat
    BY TotalBounds, TotalType, OutboxAssumption
  <2> QED
    BY <2>1 DEF Available, Least, Room
<1>3. new = [flying EXCEPT ![p] = @ \cup A]
  BY DEF Flushed
<1> HIDE DEF A, new, n
<1>4. /\ new \in Table /\ Total(new) = Total(flying) + Cardinality(A)
      /\ Cardinality(flying[p] \cup A) = Cardinality(flying[p]) + Cardinality(A)
      /\ Cardinality(flying[p]) \in Nat /\ Total(flying) \in Nat
  <2>1. A \cap flying[p] = {}
    BY <1>1
  <2> QED
    BY <1>1, <1>3, <2>1, TotalAdds, TotalType
<1>5. \A q \in Friends : new[q] = IF q = p THEN flying[p] \cup A ELSE flying[q]
  BY <1>3 DEF Table
<1>6. Kept(flying, new)
  BY <1>5 DEF Kept
<1>7. Total(new) \in Nat /\ Total(flying) <= Total(new)
  BY <1>1, <1>4
<1>8. ASSUME Within(flying) PROVE Within(new)
  <2>1. Total(new) <= Global /\ Cardinality(flying[p] \cup A) <= PerPeer
    BY <1>1, <1>2, <1>4, <1>8, OutboxAssumption DEF Within, Room
  <2>2. \A q \in Friends : Cardinality(new[q]) <= PerPeer
    BY <1>5, <1>8, <2>1 DEF Within
  <2> QED
    BY <2>1, <2>2 DEF Within
<1> QED
  BY <1>4, <1>6, <1>7, <1>8 DEF new

\* One turn: one notice at most, the oldest that waits, unless there is no room.
LEMMA TurnTaken ==
  ASSUME NEW queue \in Table, NEW flying \in Table, NEW p \in Friends,
         NEW new, new = Flushed(queue, flying, p, 1)
  PROVE  /\ \A q \in Friends : q # p => new[q] = flying[q]
         /\ Cardinality(new[p] \ flying[p]) \in 0..1
         /\ OldestFirst(queue, flying, new)
         /\ Total(flying) >= Global => new = flying
         /\ ~(queue[p] \subseteq new[p]) /\ Cardinality(new[p]) < PerPeer =>
               Cardinality(new[p] \ flying[p]) = 1 \/ Total(new) >= Global
<1> DEFINE A == Admitted(queue, flying, p, 1)
<1>1. new = [flying EXCEPT ![p] = @ \cup A]
  BY DEF Flushed
<1>2. /\ A \subseteq queue[p] \ flying[p] /\ Total(flying) \in Nat /\ Global \in Nat
  BY AdmittedFits, TotalType, OutboxAssumption
<1>3. \/ /\ A = {}
         /\ \/ queue[p] \subseteq flying[p]
            \/ Total(flying) >= Global
            \/ Cardinality(flying[p]) >= PerPeer
      \/ /\ Total(flying) < Global /\ Cardinality(flying[p]) < PerPeer
         /\ \E m \in queue[p] \ flying[p] :
               A = {m} /\ \A k \in queue[p] : k < m => k \in flying[p]
  BY AdmittedOne
<1> HIDE DEF A
<1>4. \A q \in Friends : new[q] = IF q = p THEN flying[p] \cup A ELSE flying[q]
  BY <1>1 DEF Table
<1>5. new[p] \ flying[p] = A /\ \A q \in Friends : q # p => new[q] \ flying[q] = {}
  BY <1>2, <1>4
<1>6. CASE /\ A = {}
           /\ \/ queue[p] \subseteq flying[p]
              \/ Total(flying) >= Global
              \/ Cardinality(flying[p]) >= PerPeer
  <2>1. new = flying
    <3>1. \A q \in Friends : new[q] = flying[q]
      BY <1>4, <1>6
    <3>2. new \in Table
      BY FlushedFits
    <3> QED
      BY <3>1, <3>2 DEF Table
  <2>2. Cardinality(A) = 0
    BY <1>6, FS_EmptySet
  <2>3. OldestFirst(queue, flying, new)
    BY <2>1 DEF OldestFirst
  <2>4. Cardinality(flying[p]) \in Nat /\ PerPeer \in Nat
    BY TotalBounds, OutboxAssumption
  <2> QED
    BY <1>2, <1>5, <1>6, <2>1, <2>2, <2>3, <2>4
<1>7. CASE Total(flying) < Global /\ \E m \in queue[p] \ flying[p] :
               A = {m} /\ \A k \in queue[p] : k < m => k \in flying[p]
  <2>1. PICK m \in queue[p] \ flying[p] :
               A = {m} /\ \A k \in queue[p] : k < m => k \in flying[p]
    BY <1>7
  <2>2. Cardinality(A) = 1
    BY <2>1, FS_Singleton
  <2>3. OldestFirst(queue, flying, new)
    BY <1>4, <1>5, <2>1 DEF OldestFirst
  <2> QED
    BY <1>2, <1>4, <1>5, <1>7, <2>2, <2>3
<1> QED
  BY <1>3, <1>6, <1>7

-----------------------------------------------------------------------------
(* One round. *)

\* Each connected friend has a place of its own
\* (retry_terminal_notifications_for_connected_peers).
LEMMA Places ==
  ASSUME connected \subseteq Friends, connected # {}, cursor \in Nat
  PROVE  /\ Cardinality(connected) \in Nat
         /\ \A p \in connected : Place(p) \in 1..Cardinality(connected)
         /\ \A p, q \in connected : Place(p) = Place(q) => p = q
<1> DEFINE n == Cardinality(connected)
<1>1. IsFiniteSet(connected) /\ connected \subseteq Nat
  BY OutboxAssumption, FS_Subset
<1>2. n \in Nat /\ n # 0
  BY <1>1, FS_CardinalityType, FS_EmptySet
<1>3. Start \in 0..(n - 1)
  BY <1>2 DEF Start
<1>4. ASSUME NEW p \in connected PROVE Rank(p) \in 0..(n - 1)
  <2> DEFINE S == {q \in connected : q < p}
  <2>1. S \in SUBSET connected /\ p \notin S
    BY <1>1
  <2> HIDE DEF S
  <2>2. IsFiniteSet(S) /\ Cardinality(S) <= n /\ Cardinality(S) # n
    BY <1>1, <2>1, FS_Subset
  <2>3. Cardinality(S) \in Nat
    BY <2>2, FS_CardinalityType
  <2> QED
    BY <1>2, <2>2, <2>3 DEF Rank, S
<1>5. ASSUME NEW p \in connected, NEW q \in connected, p < q PROVE Rank(p) < Rank(q)
  BY <1>1, <1>5, RankGrows DEF Rank
<1>6. ASSUME NEW p \in connected, NEW q \in connected, p # q PROVE Rank(p) # Rank(q)
  <2>1. Rank(p) \in Nat /\ Rank(q) \in Nat
    BY <1>2, <1>4
  <2>2. p < q \/ q < p
    BY <1>1, <1>6
  <2> QED
    BY <1>5, <2>1, <2>2
<1> HIDE DEF n
<1>7. ASSUME NEW p \in connected, NEW q \in connected
      PROVE  Place(p) \in 1..n /\ (Place(p) = Place(q) => Rank(p) = Rank(q))
  <2>1. Rank(p) \in 0..(n - 1) /\ Rank(q) \in 0..(n - 1)
    BY <1>4
  <2>2. /\ Place(p) = IF Rank(p) >= Start THEN Rank(p) - Start + 1 ELSE Rank(p) + n - Start + 1
        /\ Place(q) = IF Rank(q) >= Start THEN Rank(q) - Start + 1 ELSE Rank(q) + n - Start + 1
    BY DEF Place, n
  <2> QED
    BY <1>2, <1>3, <2>1, <2>2
<1> QED
  BY <1>2, <1>6, <1>7 DEF n

\* The friend whose turn is at place j, and what it leaves in flight.
Turn(resuming, j) == {p \in connected \cap resuming : Place(p) = j}
AfterTurn(queue, flying, resuming, j) ==
    IF Turn(resuming, j) = {} THEN flying
    ELSE Flushed(queue, flying, CHOOSE p \in Turn(resuming, j) : TRUE, 1)

\* The tables after each turn of a round.
RoundRuns(queue, flying, resuming) ==
    {after \in [0..Cardinality(connected) -> Table] :
        /\ after[0] = flying
        /\ \A j \in 1..Cardinality(connected) :
              after[j] = AfterTurn(queue, after[j - 1], resuming, j)
        /\ Round(queue, flying, resuming) = after[Cardinality(connected)]}

\* A round has such turns (retry_terminal_notifications_for_connected_peers).
LEMMA RoundByTurns ==
  ASSUME NEW queue \in Table, NEW flying \in Table, NEW resuming,
         connected \subseteq Friends, Cardinality(connected) \in Nat
  PROVE  RoundRuns(queue, flying, resuming) # {}
<1> DEFINE n == Cardinality(connected)
           step == [x \in Nat \X Table |-> AfterTurn(queue, x[2], resuming, x[1])]
<1>1. ASSUME NEW j \in Nat, NEW f \in Table
      PROVE  AfterTurn(queue, f, resuming, j) \in Table
  <2>1. CASE Turn(resuming, j) = {}
    BY <2>1 DEF AfterTurn
  <2>2. CASE Turn(resuming, j) # {}
    <3> DEFINE p == CHOOSE p \in Turn(resuming, j) : TRUE
    <3>1. p \in Turn(resuming, j)
      BY <2>2
    <3>2. p \in Friends
      BY <3>1 DEF Turn
    <3> HIDE DEF p
    <3>3. Flushed(queue, f, p, 1) \in Table
      BY <3>2, FlushedFits
    <3> QED
      BY <2>2, <3>3 DEF AfterTurn, p
  <2> QED
    BY <2>1, <2>2
<1>2. step \in [Nat \X Table -> Table]
  BY <1>1
<1>3. PICK f \in [0..n -> Table] :
         f[0] = flying /\ \A j \in 1..n : f[j] = step[<<j, f[j - 1]>>]
  <2> HIDE DEF step
  <2>1. Runs(Table, flying, step, n) # {}
    BY <1>2, Recursion
  <2> QED
    BY <2>1 DEF Runs
<1>4. ASSUME NEW j \in 1..n PROVE f[j] = AfterTurn(queue, f[j - 1], resuming, j)
  <2>1. j \in Nat /\ j - 1 \in 0..n
    OBVIOUS
  <2>2. f[j - 1] \in Table /\ step[<<j, f[j - 1]>>] = AfterTurn(queue, f[j - 1], resuming, j)
    BY <2>1
  <2> HIDE DEF step
  <2> QED
    BY <1>3, <2>2
<1> HIDE DEF step
<1> DEFINE IsRun(g) == g = [j \in 0..n |->
               IF j = 0 THEN flying
               ELSE IF {p \in connected \cap resuming : Place(p) = j} = {} THEN g[j - 1]
               ELSE LET turn == {p \in connected \cap resuming : Place(p) = j}
                    IN  Flushed(queue, g[j - 1], CHOOSE p \in turn : TRUE, 1)]
           after == CHOOSE g : IsRun(g)
<1>5. Round(queue, flying, resuming) = after[n]
  BY DEF Round
<1>6. \A g : IsRun(g) <=>
         g = [j \in 0..n |-> IF j = 0 THEN flying ELSE AfterTurn(queue, g[j - 1], resuming, j)]
  BY DEF AfterTurn, Turn
<1> HIDE DEF IsRun
<1>7. f = [j \in 0..n |-> IF j = 0 THEN flying ELSE AfterTurn(queue, f[j - 1], resuming, j)]
  BY <1>3, <1>4
<1>8. IsRun(after)
  BY <1>6, <1>7
<1>9. after = [j \in 0..n |->
                  IF j = 0 THEN flying ELSE AfterTurn(queue, after[j - 1], resuming, j)]
  BY <1>6, <1>8
<1> HIDE DEF after
<1>10. /\ after[0] = flying
       /\ \A j \in 1..n : after[j] = AfterTurn(queue, after[j - 1], resuming, j)
  BY <1>9
<1> DEFINE J == {j \in Nat : j <= n => after[j] = f[j]}
<1>11. 0 \in J
  BY <1>3, <1>10
<1>12. ASSUME NEW j \in Nat, j \in J PROVE j + 1 \in J
  <2>1. ASSUME j + 1 <= n PROVE after[j + 1] = f[j + 1]
    <3>1. j + 1 \in 1..n /\ (j + 1) - 1 = j /\ after[j] = f[j]
      BY <1>12, <2>1
    <3> QED
      BY <1>4, <1>10, <3>1
  <2> QED
    BY <2>1
<1>13. \A j \in 0..n : after[j] = f[j]
  <2> HIDE DEF J
  <2>1. Nat \subseteq J
    BY <1>11, <1>12, SetInduction
  <2> QED
    BY <2>1 DEF J
<1>14. Round(queue, flying, resuming) = f[n]
  BY <1>5, <1>13 DEF after
<1>15. f \in RoundRuns(queue, flying, resuming)
  BY <1>3, <1>4, <1>14 DEF RoundRuns
<1> QED
  BY <1>15

\* Who waits with slots of its own gained `most`, unless no slot is free.
Shared(queue, old, new, p, most) ==
    ~(queue[p] \subseteq new[p]) /\ Cardinality(new[p]) < PerPeer =>
        Cardinality(new[p] \ old[p]) = most \/ Total(new) >= Global

\* What a round does: nobody gets more than one notice, the oldest first, and who waits with
\* slots of its own gets one unless all are taken.
RoundDone(queue, old, new, resuming) ==
    /\ new \in Table /\ Kept(old, new)
    /\ Within(old) => Within(new)
    /\ OldestFirst(queue, old, new)
    /\ \A q \in Friends : Cardinality(new[q] \ old[q]) \in 0..1
    /\ Total(old) >= Global => new = old
    /\ \A p \in connected \cap resuming : Shared(queue, old, new, p, 1)

\* The same of the turns up to the one at place j.
TurnsDone(queue, old, new, resuming, j) ==
    /\ new \in Table /\ Kept(old, new)
    /\ Within(old) => Within(new)
    /\ OldestFirst(queue, old, new)
    /\ \A q \in Friends : Cardinality(new[q] \ old[q]) \in 0..1
    /\ \A q \in connected \cap resuming : Place(q) > j => new[q] = old[q]
    /\ Total(old) >= Global => new = old
    /\ \A p \in connected \cap resuming :
          Place(p) <= j => Shared(queue, old, new, p, 1)

\* One turn more.
LEMMA TurnsGoOn ==
  ASSUME NEW queue \in Table, NEW old \in Table, NEW mid, NEW new, NEW resuming, NEW j \in Nat,
         connected \subseteq Friends, connected # {}, cursor \in Nat,
         TurnsDone(queue, old, mid, resuming, j),
         new = AfterTurn(queue, mid, resuming, j + 1)
  PROVE  TurnsDone(queue, old, new, resuming, j + 1)
<1>1. /\ mid \in Table /\ Kept(old, mid) /\ (Within(old) => Within(mid))
      /\ OldestFirst(queue, old, mid)
      /\ \A q \in Friends : Cardinality(mid[q] \ old[q]) \in 0..1
      /\ \A q \in connected \cap resuming : Place(q) > j => mid[q] = old[q]
      /\ Total(old) >= Global => mid = old
      /\ \A p \in connected \cap resuming :
            Place(p) <= j => Shared(queue, old, mid, p, 1)
  BY DEF TurnsDone
<1>2. \A q \in connected : Place(q) \in Nat
  BY Places
<1>3. CASE Turn(resuming, j + 1) = {}
  <2>1. new = mid
    BY <1>3 DEF AfterTurn
  <2>2. \A q \in connected \cap resuming : Place(q) # j + 1
    BY <1>3 DEF Turn
  <2>3. \A q \in connected \cap resuming :
           /\ (Place(q) > j + 1 => Place(q) > j)
           /\ (Place(q) <= j + 1 => Place(q) <= j)
    BY <1>2, <2>2
  <2> QED
    BY <1>1, <2>1, <2>3 DEF TurnsDone
<1>4. CASE Turn(resuming, j + 1) # {}
  <2> DEFINE p == CHOOSE p \in Turn(resuming, j + 1) : TRUE
  <2>1. p \in connected \cap resuming /\ p \in Friends /\ Place(p) = j + 1
    <3>1. p \in Turn(resuming, j + 1)
      BY <1>4
    <3> QED
      BY <3>1 DEF Turn
  <2>2. new = Flushed(queue, mid, p, 1)
    BY <1>4 DEF AfterTurn
  <2> HIDE DEF p
  <2>3. mid[p] = old[p]
    BY <1>1, <2>1
  <2>4. /\ new \in Table /\ Kept(mid, new) /\ Total(mid) \in Nat /\ Total(new) \in Nat
        /\ Total(mid) <= Total(new) /\ (Within(mid) => Within(new))
    BY <1>1, <2>1, <2>2, FlushedFits
  <2>5. /\ \A q \in Friends : q # p => new[q] = mid[q]
        /\ Cardinality(new[p] \ mid[p]) \in 0..1
        /\ OldestFirst(queue, mid, new)
        /\ Total(mid) >= Global => new = mid
        /\ ~(queue[p] \subseteq new[p]) /\ Cardinality(new[p]) < PerPeer =>
              Cardinality(new[p] \ mid[p]) = 1 \/ Total(new) >= Global
    BY <1>1, <2>1, <2>2, TurnTaken
  <2>6. Kept(old, new)
    BY <1>1, <2>4 DEF Kept
  <2>7. OldestFirst(queue, old, new)
    BY <1>1, <2>3, <2>5 DEF OldestFirst
  <2>8. \A q \in Friends : Cardinality(new[q] \ old[q]) \in 0..1
    BY <1>1, <2>3, <2>5
  <2>9. \A q \in connected \cap resuming : Place(q) > j + 1 => new[q] = old[q]
    BY <1>1, <1>2, <2>1, <2>5
  <2>10. Total(old) >= Global => new = old
    BY <1>1, <2>5
  <2>11. ASSUME NEW q \in connected \cap resuming, Place(q) <= j + 1
         PROVE  Shared(queue, old, new, q, 1)
    <3>1. CASE q = p
      BY <2>3, <2>5, <3>1 DEF Shared
    <3>2. CASE q # p
      <4>1. Place(q) # j + 1
        BY <2>1, <2>11, <3>2, Places
      <4>2. Shared(queue, old, mid, q, 1)
        BY <1>1, <1>2, <2>11, <4>1
      <4>3. new[q] = mid[q]
        BY <2>5, <3>2
      <4>4. Total(mid) >= Global => Total(new) >= Global
        BY <2>4, OutboxAssumption
      <4> QED
        BY <4>2, <4>3, <4>4, Zenon DEF Shared
    <3> QED
      BY <3>1, <3>2
  <2> QED
    BY <1>1, <2>4, <2>6, <2>7, <2>8, <2>9, <2>10, <2>11 DEF TurnsDone
<1> QED
  BY <1>3, <1>4

\* A round (retry_terminal_notifications_for_connected_peers).
LEMMA RoundShares ==
  ASSUME NEW queue \in Table, NEW flying \in Table, NEW resuming,
         connected \subseteq Friends, connected # {}, cursor \in Nat
  PROVE  RoundDone(queue, flying, Round(queue, flying, resuming), resuming)
<1> DEFINE n == Cardinality(connected)
<1>1. n \in Nat /\ \A p \in connected : Place(p) \in 1..n
  BY Places
<1>2. PICK after \in [0..n -> Table] :
         /\ after[0] = flying
         /\ \A j \in 1..n : after[j] = AfterTurn(queue, after[j - 1], resuming, j)
         /\ Round(queue, flying, resuming) = after[n]
  <2>1. RoundRuns(queue, flying, resuming) # {}
    BY <1>1, RoundByTurns
  <2>2. PICK after \in RoundRuns(queue, flying, resuming) : TRUE
    BY <2>1
  <2> QED
    BY <2>2 DEF RoundRuns
<1> HIDE DEF n
<1> DEFINE J == {j \in Nat : j <= n => TurnsDone(queue, flying, after[j], resuming, j)}
<1>3. 0 \in J
  <2>1. \A q \in Friends : Cardinality(flying[q] \ flying[q]) = 0
    BY FS_EmptySet
  <2>2. \A p \in connected : ~(Place(p) <= 0)
    BY <1>1
  <2>3. Kept(flying, flying) /\ OldestFirst(queue, flying, flying)
    BY DEF Kept, OldestFirst
  <2>4. TurnsDone(queue, flying, flying, resuming, 0)
    BY <2>1, <2>2, <2>3 DEF TurnsDone
  <2> QED
    BY <1>2, <2>4
<1>4. ASSUME NEW j \in Nat, j \in J PROVE j + 1 \in J
  <2> SUFFICES ASSUME j + 1 <= n
               PROVE  TurnsDone(queue, flying, after[j + 1], resuming, j + 1)
    OBVIOUS
  <2>1. j <= n /\ j + 1 \in 1..n /\ (j + 1) - 1 = j
    BY <1>1
  <2>2. TurnsDone(queue, flying, after[j], resuming, j)
    BY <1>4, <2>1
  <2>3. after[j + 1] = AfterTurn(queue, after[j], resuming, j + 1)
    BY <1>2, <2>1
  <2> QED
    BY <2>2, <2>3, TurnsGoOn
<1>5. TurnsDone(queue, flying, after[n], resuming, n)
  <2> HIDE DEF J
  <2>1. Nat \subseteq J
    BY <1>3, <1>4, SetInduction
  <2> QED
    BY <1>1, <2>1 DEF J
<1>6. \A p \in connected : Place(p) <= n
  BY <1>1
<1> QED
  BY <1>2, <1>5, <1>6 DEF RoundDone, TurnsDone
-----------------------------------------------------------------------------
(* The rounds of a pass. *)

\* The tables after each round.
RoundsRuns(queue, flying, resuming) ==
    {after \in [0..Global -> Table] :
        /\ after[0] = flying
        /\ \A i \in 1..Global : after[i] = Round(queue, after[i - 1], resuming)
        /\ Rounds(queue, flying, resuming) = after[Global]}

\* A pass has such a run.
LEMMA RoundsByRounds ==
  ASSUME NEW queue \in Table, NEW flying \in Table, NEW resuming,
         connected \subseteq Friends, connected # {}, cursor \in Nat
  PROVE  RoundsRuns(queue, flying, resuming) # {}
<1> DEFINE step == [x \in Nat \X Table |-> Round(queue, x[2], resuming)]
<1>1. step \in [Nat \X Table -> Table]
  <2>1. ASSUME NEW f \in Table PROVE Round(queue, f, resuming) \in Table
    BY <2>1, RoundShares DEF RoundDone
  <2> QED
    BY <2>1
<1>2. Global \in Nat
  BY OutboxAssumption
<1>3. PICK f \in [0..Global -> Table] :
         f[0] = flying /\ \A i \in 1..Global : f[i] = step[<<i, f[i - 1]>>]
  <2> HIDE DEF step
  <2>1. Runs(Table, flying, step, Global) # {}
    BY <1>1, <1>2, Recursion
  <2> QED
    BY <2>1 DEF Runs
<1>4. ASSUME NEW i \in 1..Global PROVE f[i] = Round(queue, f[i - 1], resuming)
  <2>1. i \in Nat /\ i - 1 \in 0..Global
    BY <1>2
  <2>2. f[i - 1] \in Table /\ step[<<i, f[i - 1]>>] = Round(queue, f[i - 1], resuming)
    BY <2>1
  <2> HIDE DEF step
  <2> QED
    BY <1>3, <2>2
<1> HIDE DEF step
<1> DEFINE IsRun(g) == g = [i \in 0..Global |->
               IF i = 0 THEN flying ELSE Round(queue, g[i - 1], resuming)]
           after == CHOOSE g : IsRun(g)
<1>5. Rounds(queue, flying, resuming) = after[Global]
  BY DEF Rounds
<1>6. IsRun(f)
  BY <1>2, <1>3, <1>4
<1>7. IsRun(after)
  <2> HIDE DEF IsRun
  <2> QED
    BY <1>6
<1> HIDE DEF after
<1>8. after[0] = flying /\ \A i \in 1..Global : after[i] = Round(queue, after[i - 1], resuming)
  BY <1>2, <1>7
<1> HIDE DEF IsRun
<1> DEFINE I == {i \in Nat : i <= Global => after[i] = f[i]}
<1>9. 0 \in I
  BY <1>3, <1>8
<1>10. ASSUME NEW i \in Nat, i \in I PROVE i + 1 \in I
  <2>1. ASSUME i + 1 <= Global PROVE after[i + 1] = f[i + 1]
    <3>1. i + 1 \in 1..Global /\ (i + 1) - 1 = i /\ after[i] = f[i]
      BY <1>2, <1>10, <2>1
    <3> QED
      BY <1>4, <1>8, <3>1
  <2> QED
    BY <2>1
<1>11. after[Global] = f[Global]
  <2> HIDE DEF I
  <2>1. Nat \subseteq I
    BY <1>9, <1>10, SetInduction
  <2> QED
    BY <1>2, <2>1 DEF I
<1>12. f \in RoundsRuns(queue, flying, resuming)
  BY <1>3, <1>4, <1>5, <1>11 DEF RoundsRuns
<1> QED
  BY <1>12

\* Two rounds add up: what each gained is gained by both.
LEMMA GainsAdd ==
  ASSUME NEW old \in SUBSET Notices, NEW mid \in SUBSET Notices, NEW new \in SUBSET Notices,
         old \subseteq mid, mid \subseteq new
  PROVE  /\ Cardinality(mid \ old) \in Nat /\ Cardinality(new \ mid) \in Nat
         /\ Cardinality(new \ old) = Cardinality(mid \ old) + Cardinality(new \ mid)
<1>1. /\ IsFiniteSet(mid \ old) /\ IsFiniteSet(new \ mid)
      /\ Cardinality(mid \ old) \in Nat /\ Cardinality(new \ mid) \in Nat
  BY NoticesFinite
<1>2. new \ old = (mid \ old) \cup (new \ mid) /\ (mid \ old) \cap (new \ mid) = {}
  OBVIOUS
<1>3. Cardinality((mid \ old) \cup (new \ mid))
        = Cardinality(mid \ old) + Cardinality(new \ mid) - Cardinality({})
  <2>1. Cardinality((mid \ old) \cup (new \ mid))
          = Cardinality(mid \ old) + Cardinality(new \ mid)
            - Cardinality((mid \ old) \cap (new \ mid))
    BY <1>1, FS_Union
  <2> QED
    BY <1>2, <2>1
<1>4. Cardinality({}) = 0
  BY FS_EmptySet
<1>5. Cardinality(new \ old) = Cardinality((mid \ old) \cup (new \ mid))
  BY <1>2
<1> QED
  BY <1>1, <1>3, <1>4, <1>5

\* Whether p, left waiting with slots of its own, was treated as well as anybody.
FairTo(old, new, p) ==
    \A q \in Friends : Cardinality(new[q] \ old[q]) <= Cardinality(new[p] \ old[p]) + 1

\* What the first i rounds do: nobody gains more than i notices, the oldest first; who is left
\* waiting with slots of its own gained i, or all slots are taken and nobody gained two more.
RoundsDone(queue, old, new, resuming, i) ==
    /\ new \in Table /\ Kept(old, new)
    /\ Within(old) => Within(new)
    /\ OldestFirst(queue, old, new)
    /\ \A q \in Friends : Cardinality(new[q] \ old[q]) \in 0..i
    /\ \A p \in connected \cap resuming :
          ~(queue[p] \subseteq new[p]) /\ Cardinality(new[p]) < PerPeer =>
              Cardinality(new[p] \ old[p]) = i \/ (Total(new) >= Global /\ FairTo(old, new, p))

\* One round more.
LEMMA RoundsGoOn ==
  ASSUME NEW queue \in Table, NEW old \in Table, NEW mid, NEW new, NEW resuming, NEW i \in Nat,
         connected \subseteq Friends, connected # {}, cursor \in Nat,
         RoundsDone(queue, old, mid, resuming, i),
         new = Round(queue, mid, resuming)
  PROVE  RoundsDone(queue, old, new, resuming, i + 1)
<1>1. /\ mid \in Table /\ Kept(old, mid) /\ (Within(old) => Within(mid))
      /\ OldestFirst(queue, old, mid)
      /\ \A q \in Friends : Cardinality(mid[q] \ old[q]) \in 0..i
      /\ \A p \in connected \cap resuming :
            ~(queue[p] \subseteq mid[p]) /\ Cardinality(mid[p]) < PerPeer =>
                \/ Cardinality(mid[p] \ old[p]) = i
                \/ Total(mid) >= Global /\ FairTo(old, mid, p)
  BY DEF RoundsDone
<1>2. RoundDone(queue, mid, new, resuming)
  BY <1>1, RoundShares
<1>3. /\ new \in Table /\ Kept(mid, new) /\ (Within(mid) => Within(new))
      /\ OldestFirst(queue, mid, new)
      /\ \A q \in Friends : Cardinality(new[q] \ mid[q]) \in 0..1
      /\ Total(mid) >= Global => new = mid
      /\ \A p \in connected \cap resuming : Shared(queue, mid, new, p, 1)
  BY <1>2 DEF RoundDone
<1>4. ASSUME NEW q \in Friends
      PROVE  /\ Cardinality(mid[q] \ old[q]) \in 0..i /\ Cardinality(new[q] \ mid[q]) \in 0..1
             /\ Cardinality(new[q] \ old[q])
                  = Cardinality(mid[q] \ old[q]) + Cardinality(new[q] \ mid[q])
             /\ Cardinality(mid[q]) \in Nat /\ Cardinality(new[q]) \in Nat
             /\ Cardinality(mid[q]) <= Cardinality(new[q])
  <2>1. old[q] \in SUBSET Notices /\ mid[q] \in SUBSET Notices /\ new[q] \in SUBSET Notices
    BY <1>1, <1>3, <1>4 DEF Table
  <2>2. old[q] \subseteq mid[q] /\ mid[q] \subseteq new[q]
    BY <1>1, <1>3 DEF Kept
  <2>3. Cardinality(new[q] \ old[q])
          = Cardinality(mid[q] \ old[q]) + Cardinality(new[q] \ mid[q])
    BY <2>1, <2>2, GainsAdd
  <2>4. IsFiniteSet(new[q]) /\ Cardinality(mid[q]) \in Nat /\ Cardinality(new[q]) \in Nat
    BY <2>1, NoticesFinite
  <2>5. Cardinality(mid[q]) <= Cardinality(new[q])
    BY <2>2, <2>4, FS_Subset
  <2> QED
    BY <1>1, <1>3, <2>3, <2>4, <2>5
<1>5. Kept(old, new) /\ (Within(old) => Within(new))
  BY <1>1, <1>3 DEF Kept
<1>6. OldestFirst(queue, old, new)
  BY <1>1, <1>3 DEF OldestFirst, Kept
<1>7. ASSUME NEW q \in Friends
      PROVE  /\ Cardinality(new[q] \ old[q]) \in 0..i + 1
             /\ Cardinality(new[q] \ old[q]) >= Cardinality(mid[q] \ old[q])
  <2> DEFINE a == Cardinality(mid[q] \ old[q])
             b == Cardinality(new[q] \ mid[q])
             c == Cardinality(new[q] \ old[q])
  <2>1. a \in 0..i /\ b \in 0..1 /\ c = a + b
    BY <1>4
  <2> HIDE DEF a, b, c
  <2>2. c \in 0..i + 1 /\ c >= a
    BY <2>1
  <2> QED
    BY <2>2 DEF a, c
<1>8. ASSUME NEW p \in connected \cap resuming,
             ~(queue[p] \subseteq new[p]), Cardinality(new[p]) < PerPeer
      PROVE  \/ Cardinality(new[p] \ old[p]) = i + 1
             \/ Total(new) >= Global /\ FairTo(old, new, p)
  <2>1. p \in Friends /\ mid[p] \subseteq new[p]
    BY <1>3 DEF Kept
  <2>2. ~(queue[p] \subseteq mid[p]) /\ Cardinality(mid[p]) < PerPeer
    <3>1. Cardinality(mid[p]) < PerPeer
      <4> DEFINE a == Cardinality(mid[p])
                 b == Cardinality(new[p])
      <4>1. a \in Nat /\ b \in Nat /\ a <= b /\ b < PerPeer /\ PerPeer \in Nat
        BY <1>4, <1>8, <2>1, OutboxAssumption
      <4> HIDE DEF a, b
      <4>2. a < PerPeer
        BY <4>1
      <4> QED
        BY <4>2 DEF a
    <3> QED
      BY <1>8, <2>1, <3>1
  <2>3. \/ Cardinality(mid[p] \ old[p]) = i
        \/ Total(mid) >= Global /\ FairTo(old, mid, p)
    BY <1>1, <2>2
  <2>4. Total(mid) \in Nat
    BY <1>1, TotalType
  <2>5. CASE Total(mid) >= Global
    <3>1. new = mid
      BY <1>3, <2>5
    <3>2. CASE FairTo(old, mid, p)
      BY <2>5, <3>1, <3>2
    <3>3. CASE Cardinality(mid[p] \ old[p]) = i
      <4>1. \A q \in Friends :
               Cardinality(new[q] \ old[q]) <= Cardinality(new[p] \ old[p]) + 1
        BY <1>1, <3>1, <3>3
      <4> QED
        BY <2>5, <3>1, <4>1 DEF FairTo
    <3> QED
      BY <2>3, <3>2, <3>3
  <2>6. CASE ~(Total(mid) >= Global)
    <3>1. Cardinality(mid[p] \ old[p]) = i
      BY <2>3, <2>6
    <3>2. Cardinality(new[p] \ mid[p]) = 1 \/ Total(new) >= Global
      BY <1>3, <1>8 DEF Shared
    <3>3. CASE Cardinality(new[p] \ mid[p]) = 1
      BY <1>4, <2>1, <3>1, <3>3
    <3>4. CASE Total(new) >= Global
      <4> DEFINE c == Cardinality(new[p] \ old[p])
      <4>1. c \in 0..i + 1 /\ c >= i
        BY <1>7, <2>1, <3>1
      <4> HIDE DEF c
      <4>2. ASSUME NEW q \in Friends PROVE Cardinality(new[q] \ old[q]) <= c + 1
        <5> DEFINE d == Cardinality(new[q] \ old[q])
        <5>1. d \in 0..i + 1
          BY <1>7
        <5> HIDE DEF d
        <5>2. d <= c + 1
          BY <4>1, <5>1
        <5> QED
          BY <5>2 DEF d
      <4> QED
        BY <3>4, <4>2 DEF FairTo, c
    <3> QED
      BY <3>2, <3>3, <3>4
  <2> QED
    BY <2>5, <2>6
<1> QED
  BY <1>3, <1>5, <1>6, <1>7, <1>8 DEF RoundsDone

\* All rounds of a pass: who is left waiting with slots of its own finds all slots taken.
PassDone(queue, old, new, resuming) ==
    /\ new \in Table /\ Kept(old, new)
    /\ Within(old) => Within(new)
    /\ OldestFirst(queue, old, new)
    /\ \A p \in connected \cap resuming :
          ~(queue[p] \subseteq new[p]) /\ Cardinality(new[p]) < PerPeer =>
              Total(new) >= Global /\ FairTo(old, new, p)

\* A whole pass does that (retry_terminal_notifications_for_connected_peers).
LEMMA RoundsShare ==
  ASSUME NEW queue \in Table, NEW flying \in Table, NEW resuming,
         connected \subseteq Friends, connected # {}, cursor \in Nat
  PROVE  PassDone(queue, flying, Rounds(queue, flying, resuming), resuming)
<1>1. Global \in Nat /\ PerPeer \in Nat
  BY OutboxAssumption
<1>2. PICK after :
         /\ after \in [0..Global -> Table] /\ after[0] = flying
         /\ \A i \in 1..Global : after[i] = Round(queue, after[i - 1], resuming)
         /\ Rounds(queue, flying, resuming) = after[Global]
  <2>1. RoundsRuns(queue, flying, resuming) # {}
    BY RoundsByRounds
  <2>2. PICK after \in RoundsRuns(queue, flying, resuming) : TRUE
    BY <2>1
  <2> QED
    BY <2>2 DEF RoundsRuns
<1> DEFINE I == {i \in Nat : i <= Global => RoundsDone(queue, flying, after[i], resuming, i)}
<1>3. 0 \in I
  <2>1. \A q \in Friends : Cardinality(flying[q] \ flying[q]) = 0
    BY FS_EmptySet
  <2>2. Kept(flying, flying) /\ OldestFirst(queue, flying, flying)
    BY DEF Kept, OldestFirst
  <2>3. RoundsDone(queue, flying, flying, resuming, 0)
    BY <2>1, <2>2 DEF RoundsDone
  <2> QED
    BY <1>2, <2>3
<1>4. ASSUME NEW i \in Nat, i \in I PROVE i + 1 \in I
  <2> SUFFICES ASSUME i + 1 <= Global
               PROVE  RoundsDone(queue, flying, after[i + 1], resuming, i + 1)
    OBVIOUS
  <2>1. i <= Global /\ i + 1 \in 1..Global /\ (i + 1) - 1 = i
    BY <1>1
  <2>2. RoundsDone(queue, flying, after[i], resuming, i)
    BY <1>4, <2>1
  <2>3. after[i + 1] = Round(queue, after[i], resuming)
    BY <1>2, <2>1
  <2> QED
    BY <2>2, <2>3, RoundsGoOn
<1> DEFINE new == after[Global]
<1>5. RoundsDone(queue, flying, new, resuming, Global)
  <2> HIDE DEF I
  <2>1. Nat \subseteq I
    BY <1>3, <1>4, SetInduction
  <2> QED
    BY <1>1, <2>1 DEF I
<1> HIDE DEF new
<1>6. /\ new \in Table /\ Kept(flying, new) /\ (Within(flying) => Within(new))
      /\ OldestFirst(queue, flying, new)
      /\ \A q \in Friends : Cardinality(new[q] \ flying[q]) \in 0..Global
      /\ \A p \in connected \cap resuming :
            ~(queue[p] \subseteq new[p]) /\ Cardinality(new[p]) < PerPeer =>
                \/ Cardinality(new[p] \ flying[p]) = Global
                \/ Total(new) >= Global /\ FairTo(flying, new, p)
  BY <1>5 DEF RoundsDone
<1>7. ASSUME NEW p \in connected \cap resuming, Cardinality(new[p] \ flying[p]) = Global
      PROVE  Total(new) >= Global /\ FairTo(flying, new, p)
  <2>1. p \in Friends /\ new[p] \in SUBSET Notices
    BY <1>6 DEF Table
  <2>2. IsFiniteSet(new[p]) /\ Cardinality(new[p]) \in Nat
    BY <2>1, NoticesFinite
  <2>3. Cardinality(new[p] \ flying[p]) <= Cardinality(new[p])
    BY <2>2, FS_Subset
  <2>4. Cardinality(new[p]) <= Total(new) /\ Total(new) \in Nat
    BY <1>6, <2>1, TotalBounds, TotalType
  <2>5. Total(new) >= Global
    BY <1>1, <1>7, <2>2, <2>3, <2>4
  <2>6. \A q \in Friends : Cardinality(new[q] \ flying[q]) <= Global + 1
    BY <1>1, <1>6
  <2> QED
    BY <1>7, <2>5, <2>6 DEF FairTo
<1> QED
  BY <1>2, <1>6, <1>7 DEF PassDone, new

\* A round that changes the requests adds to them.
LEMMA RoundAdds ==
  ASSUME NEW old \in Table, NEW new \in Table, Kept(old, new), new # old
  PROVE  Total(new) >= Total(old) + 1
<1>1. PICK q \in Friends : new[q] # old[q]
  <2> SUFFICES ASSUME \A q \in Friends : new[q] = old[q] PROVE new = old
    OBVIOUS
  <2> QED
    BY DEF Table
<1>2. PICK n \in Notices : n \in new[q] /\ n \notin old[q]
  BY <1>1 DEF Table, Kept
<1>3. Pairs(old) \in SUBSET Pairs(new) /\ <<q, n>> \in Pairs(new) /\ <<q, n>> \notin Pairs(old)
  BY <1>2 DEF Pairs, Kept
<1>4. /\ IsFiniteSet(Pairs(new))
      /\ Total(old) = Cardinality(Pairs(old)) /\ Total(new) = Cardinality(Pairs(new))
      /\ Total(old) \in Nat /\ Total(new) \in Nat
  BY TotalType
<1>5. Cardinality(Pairs(old)) <= Cardinality(Pairs(new))
      /\ (Cardinality(Pairs(old)) = Cardinality(Pairs(new)) => Pairs(old) = Pairs(new))
  BY <1>3, <1>4, FS_Subset
<1>6. Total(old) <= Total(new) /\ Total(old) # Total(new)
  BY <1>3, <1>4, <1>5
<1> QED
  BY <1>4, <1>6

\* As many rounds as slots are enough: one more would send nothing, so that the loop of the
\* code, which goes on until a round sends nothing, ends with the same requests
\* (retry_terminal_notifications_for_connected_peers).
THEOREM RoundsSettle ==
  ASSUME NEW queue \in Table, NEW flying \in Table, NEW resuming,
         connected \subseteq Friends, connected # {}, cursor \in Nat
  PROVE  Round(queue, Rounds(queue, flying, resuming), resuming)
           = Rounds(queue, flying, resuming)
<1>1. Global \in Nat
  BY OutboxAssumption
<1>2. PICK after :
         /\ after \in [0..Global -> Table] /\ after[0] = flying
         /\ \A i \in 1..Global : after[i] = Round(queue, after[i - 1], resuming)
         /\ Rounds(queue, flying, resuming) = after[Global]
  <2>1. RoundsRuns(queue, flying, resuming) # {}
    BY RoundsByRounds
  <2>2. PICK after \in RoundsRuns(queue, flying, resuming) : TRUE
    BY <2>1
  <2> QED
    BY <2>2 DEF RoundsRuns
<1> DEFINE Settled(i) == Round(queue, after[i], resuming) = after[i]
           I == {i \in Nat : i <= Global => Settled(i) \/ Total(after[i]) >= i}
<1>3. 0 \in I
  <2>1. Total(after[0]) \in Nat
    BY <1>2, TotalType
  <2> QED
    BY <2>1
<1>4. ASSUME NEW i \in Nat, i \in I, i + 1 <= Global
      PROVE  Settled(i + 1) \/ Total(after[i + 1]) >= i + 1
  <2>1. /\ i <= Global /\ i \in 0..Global /\ i + 1 \in 1..Global /\ i + 1 \in 0..Global
        /\ (i + 1) - 1 = i
    BY <1>1, <1>4
  <2>2. after[i + 1] = Round(queue, after[i], resuming)
    BY <1>2, <2>1
  <2>3. after[i] \in Table /\ after[i + 1] \in Table
    BY <1>2, <2>1
  <2>4. Settled(i) \/ Total(after[i]) >= i
    BY <1>4, <2>1
  <2>5. CASE Settled(i)
    <3>1. after[i + 1] = after[i]
      BY <2>2, <2>5
    <3> QED
      BY <2>5, <3>1
  <2>6. CASE ~Settled(i)
    <3>1. after[i + 1] # after[i]
      BY <2>2, <2>6
    <3>2. Kept(after[i], after[i + 1])
      BY <2>2, <2>3, RoundShares DEF RoundDone
    <3>3. Total(after[i + 1]) >= Total(after[i]) + 1
      BY <2>3, <3>1, <3>2, RoundAdds
    <3>4. Total(after[i]) >= i /\ Total(after[i]) \in Nat /\ Total(after[i + 1]) \in Nat
      BY <2>3, <2>4, <2>6, TotalType
    <3> QED
      BY <3>3, <3>4
  <2> QED
    BY <2>5, <2>6
<1> HIDE DEF Settled
<1>5. \A i \in Nat : i \in I => i + 1 \in I
  BY <1>4
<1>6. Settled(Global) \/ Total(after[Global]) >= Global
  <2> HIDE DEF I
  <2>1. Nat \subseteq I
    BY <1>3, <1>5, SetInduction
  <2> QED
    BY <1>1, <2>1 DEF I
<1>7. ASSUME Total(after[Global]) >= Global PROVE Settled(Global)
  <2>1. after[Global] \in Table
    BY <1>1, <1>2
  <2> QED
    BY <1>7, <2>1, RoundShares DEF RoundDone, Settled
<1> QED
  BY <1>2, <1>6, <1>7 DEF Settled

-----------------------------------------------------------------------------
(* The steps of the outbox. *)

\* The limits hold in every state, between the passes too.
OutboxInv == TypeOK /\ Within(inFlight)

\* What is removed leaves the limits kept.
LEMMA WithoutFits ==
  ASSUME NEW flying \in Table, NEW p \in Friends, NEW n
  PROVE  /\ Without(flying, p, n) \in Table
         /\ Within(flying) => Within(Without(flying, p, n))
         /\ \A q \in Friends :
               Without(flying, p, n)[q] = IF q = p THEN flying[q] \ {n} ELSE flying[q]
<1> DEFINE new == Without(flying, p, n)
<1>1. new \in Table /\ \A q \in Friends : new[q] = IF q = p THEN flying[q] \ {n} ELSE flying[q]
  BY DEF Without, Table
<1> HIDE DEF new
<1>2. \A q \in Friends : new[q] \subseteq flying[q]
  BY <1>1
<1>3. Total(new) <= Total(flying) /\ Total(new) \in Nat /\ Total(flying) \in Nat
  <2>1. Pairs(new) \in SUBSET Pairs(flying)
    BY <1>2 DEF Pairs
  <2> QED
    BY <1>1, <2>1, TotalType, FS_Subset
<1>4. ASSUME NEW q \in Friends
      PROVE  /\ Cardinality(new[q]) \in Nat /\ Cardinality(flying[q]) \in Nat
             /\ Cardinality(new[q]) <= Cardinality(flying[q])
  <2>1. flying[q] \in SUBSET Notices /\ new[q] \in SUBSET Notices
    BY <1>1 DEF Table
  <2> QED
    BY <1>2, <2>1, NoticesFinite, FS_Subset
<1>5. ASSUME Within(flying) PROVE Within(new)
  <2>1. Total(new) <= Global
    BY <1>3, <1>5, OutboxAssumption DEF Within
  <2>2. ASSUME NEW q \in Friends PROVE Cardinality(new[q]) <= PerPeer
    <3>1. Cardinality(flying[q]) <= PerPeer /\ PerPeer \in Nat
      BY <1>5, OutboxAssumption DEF Within
    <3> QED
      BY <1>4, <3>1
  <2> QED
    BY <2>1, <2>2 DEF Within
<1> QED
  BY <1>1, <1>5 DEF new

\* Nothing in flight is within every limit.
LEMMA NothingWithin ==
  ASSUME NEW flying \in Table, \A q \in Friends : flying[q] = {}
  PROVE  Within(flying)
<1>1. Pairs(flying) = {}
  BY DEF Pairs
<1>2. Total(flying) = 0
  BY <1>1, TotalType, FS_EmptySet
<1>3. \A q \in Friends : Cardinality(flying[q]) = 0
  BY FS_EmptySet
<1> QED
  BY <1>2, <1>3, OutboxAssumption DEF Within

\* A pass over rows and requests that the answer of a friend may just have changed
\* (retry_terminal_notifications_for_connected_peers).
LEMMA PassShares ==
  ASSUME NEW queue \in Table, NEW flying \in Table, NEW resuming \in SUBSET Friends,
         TypeOK, Within(flying), Pass(queue, flying, resuming),
         \A q \in Friends : flying[q] \subseteq inFlight[q],
         \A q \in Friends : queue[q] \cap inFlight[q] \subseteq flying[q]
  PROVE  OutboxInv' /\ Sharing
<1>1. /\ queued' = queue /\ able' = resuming /\ written' = written /\ connected' = connected
      /\ connected \subseteq Friends /\ cursor \in Nat
  BY DEF Pass, TypeOK
<1>2. /\ cursor' \in Nat /\ inFlight' \in Table /\ Kept(flying, inFlight') /\ Within(inFlight')
      /\ OldestFirst(queue, flying, inFlight')
      /\ \A p \in connected \cap resuming :
            ~(queue[p] \subseteq inFlight'[p]) /\ Cardinality(inFlight'[p]) < PerPeer =>
                Total(inFlight') >= Global /\ FairTo(flying, inFlight', p)
  <2>1. CASE connected = {}
    <3>1. inFlight' = flying /\ cursor' = 0
      BY <2>1 DEF Pass
    <3> QED
      BY <2>1, <3>1 DEF Kept, OldestFirst
  <2>2. CASE connected # {}
    <3>1. inFlight' = Rounds(queue, flying, resuming)
          /\ cursor' = (Start + 1) % Cardinality(connected)
      BY <2>2 DEF Pass
    <3>2. PassDone(queue, flying, inFlight', resuming)
      BY <1>1, <2>2, <3>1, RoundsShare
    <3>3. cursor' \in Nat
      <4>1. IsFiniteSet(connected)
        BY <1>1, OutboxAssumption, FS_Subset
      <4> DEFINE n == Cardinality(connected)
      <4>2. n \in Nat /\ n # 0
        BY <2>2, <4>1, FS_CardinalityType, FS_EmptySet
      <4>3. Start = cursor % n /\ cursor' = (Start + 1) % n
        BY <3>1 DEF Start
      <4> HIDE DEF n
      <4>4. Start \in Nat
        BY <1>1, <4>2, <4>3
      <4> QED
        BY <4>2, <4>3, <4>4
    <3> QED
      BY <3>2, <3>3 DEF PassDone
  <2> QED
    BY <2>1, <2>2
<1>3. OutboxInv'
  <2>1. TypeOK'
    BY <1>1, <1>2 DEF TypeOK, Table
  <2> QED
    BY <1>2, <2>1 DEF OutboxInv
<1>4. Total(inFlight') <= Global /\ \A p \in Friends : Cardinality(inFlight'[p]) <= PerPeer
  BY <1>2 DEF Within
<1>5. ASSUME NEW q \in Friends
      PROVE  inFlight'[q] \ inFlight[q] = inFlight'[q] \ flying[q]
  <2>1. inFlight'[q] \ flying[q] \subseteq queue[q]
    BY <1>2 DEF OldestFirst
  <2> QED
    BY <2>1
<1>6. ASSUME NEW p \in Friends, Waits(p), Cardinality(inFlight'[p]) # PerPeer
      PROVE  Total(inFlight') = Global /\ \A q \in Friends : Gained(q) <= Gained(p) + 1
  <2>1. p \in connected \cap resuming /\ ~(queue[p] \subseteq inFlight'[p])
    BY <1>1, <1>6 DEF Waits
  <2>2. Cardinality(inFlight'[p]) \in Nat /\ Total(inFlight') \in Nat
    BY <1>2, TotalBounds, TotalType
  <2>3. Cardinality(inFlight'[p]) < PerPeer
    BY <1>4, <1>6, <2>2, OutboxAssumption
  <2>4. Total(inFlight') >= Global /\ FairTo(flying, inFlight', p)
    BY <1>2, <2>1, <2>3
  <2>5. Total(inFlight') = Global
    BY <1>4, <2>2, <2>4, OutboxAssumption
  <2> QED
    BY <1>5, <2>4, <2>5 DEF FairTo, Gained
<1>7. ASSUME NEW p \in Friends, NEW n \in inFlight'[p] \ inFlight[p],
             NEW k \in queued'[p], k < n
      PROVE  k \in inFlight'[p]
  BY <1>1, <1>2, <1>5, <1>7 DEF OldestFirst
<1> QED
  BY <1>3, <1>4, <1>6, <1>7 DEF Sharing

\* A pass that follows an acknowledgement.
LEMMA AcknowledgeShares ==
  ASSUME OutboxInv, NEW p \in Friends, NEW n \in inFlight[p], Acknowledge(p, n)
  PROVE  OutboxInv' /\ Sharing
<1> DEFINE queue == Without(queued, p, n)
           flying == Without(inFlight, p, n)
<1>1. /\ TypeOK /\ queued \in Table /\ inFlight \in Table
      /\ Within(inFlight) /\ able \in SUBSET Friends
  BY DEF OutboxInv, TypeOK, Table
<1>2. queue \in Table /\ flying \in Table /\ Within(flying)
  BY <1>1, WithoutFits
<1>3. /\ \A q \in Friends : queue[q] = IF q = p THEN queued[q] \ {n} ELSE queued[q]
      /\ \A q \in Friends : flying[q] = IF q = p THEN inFlight[q] \ {n} ELSE inFlight[q]
  <2>1. \A q \in Friends : queue[q] = IF q = p THEN queued[q] \ {n} ELSE queued[q]
    BY <1>1, WithoutFits
  <2>2. \A q \in Friends : flying[q] = IF q = p THEN inFlight[q] \ {n} ELSE inFlight[q]
    BY <1>1, WithoutFits
  <2> QED
    BY <2>1, <2>2
<1>4. Pass(queue, flying, able)
  BY DEF Acknowledge
<1> HIDE DEF queue, flying
<1>5. /\ \A q \in Friends : flying[q] \subseteq inFlight[q]
      /\ \A q \in Friends : queue[q] \cap inFlight[q] \subseteq flying[q]
  BY <1>3
<1> QED
  BY <1>1, <1>2, <1>4, <1>5, PassShares

\* A pass over the rows and requests as they are.
LEMMA PlainPassShares ==
  ASSUME OutboxInv, NEW resuming \in SUBSET Friends, Pass(queued, inFlight, resuming)
  PROVE  OutboxInv' /\ Sharing
<1>1. TypeOK /\ queued \in Table /\ inFlight \in Table /\ Within(inFlight)
  BY DEF OutboxInv, TypeOK, Table
<1> QED
  BY <1>1, PassShares

\* The limits hold at first (Init).
LEMMA OutboxStarts == Init => OutboxInv
<1> SUFFICES ASSUME Init PROVE OutboxInv
  OBVIOUS
<1>1. TypeOK
  BY OutboxAssumption DEF Init, TypeOK
<1>2. inFlight \in Table /\ \A p \in Friends : inFlight[p] = {}
  BY DEF Init, Table
<1>3. Within(inFlight)
  BY <1>2, NothingWithin
<1> QED
  BY <1>1, <1>3 DEF OutboxInv

\* Every step keeps the limits (Next).
LEMMA OutboxSteps == OutboxInv /\ [Next]_vars => OutboxInv'
<1> SUFFICES ASSUME OutboxInv, [Next]_vars PROVE OutboxInv'
  OBVIOUS
<1>1. /\ TypeOK /\ queued \in Table /\ inFlight \in Table
      /\ Within(inFlight) /\ able \in SUBSET Friends
  BY DEF OutboxInv, TypeOK, Table
<1>2. ASSUME NEW p \in Friends, QueueNotice(p) PROVE OutboxInv'
  <2>1. TypeOK'
    BY <1>1, <1>2, OutboxAssumption DEF QueueNotice, TypeOK, Notices
  <2> QED
    BY <1>1, <1>2, <2>1 DEF OutboxInv, QueueNotice
<1>3. ASSUME NEW p \in Friends, FlushNow(p) PROVE OutboxInv'
  <2>1. inFlight' \in Table /\ Within(inFlight')
    BY <1>1, <1>3, FlushedFits, OutboxAssumption DEF FlushNow
  <2>2. TypeOK'
    BY <1>1, <1>3, <2>1 DEF FlushNow, TypeOK, Table
  <2> QED
    BY <2>1, <2>2 DEF OutboxInv
<1>4. ASSUME NEW p \in Friends, Connect(p) \/ Disconnect(p) PROVE OutboxInv'
  <2>1. TypeOK'
    BY <1>1, <1>4 DEF Connect, Disconnect, TypeOK
  <2> QED
    BY <1>1, <1>4, <2>1 DEF OutboxInv, Connect, Disconnect
<1>5. ASSUME NEW p \in Friends, Hello(p) PROVE OutboxInv'
  <2>1. CASE Pass(queued, inFlight, able \cup {p})
    <3>1. able \cup {p} \in SUBSET Friends
      BY <1>1
    <3> QED
      BY <2>1, <3>1, PlainPassShares
  <2>2. CASE able' = able \ {p} /\ UNCHANGED <<queued, written, inFlight, connected, cursor>>
    BY <1>1, <2>2 DEF OutboxInv, TypeOK
  <2> QED
    BY <1>5, <2>1, <2>2 DEF Hello
<1>6. ASSUME Tick PROVE OutboxInv'
  BY <1>1, <1>6, PlainPassShares DEF Tick
<1>7. ASSUME NEW p \in Friends, NEW n \in inFlight[p], Acknowledge(p, n) PROVE OutboxInv'
  BY <1>7, AcknowledgeShares
<1>8. ASSUME NEW p \in Friends, NEW n \in inFlight[p], FailNotice(p, n) PROVE OutboxInv'
  <2>1. inFlight' \in Table /\ Within(inFlight')
    BY <1>1, <1>8, WithoutFits DEF FailNotice
  <2>2. TypeOK'
    BY <1>1, <1>8, <2>1 DEF FailNotice, TypeOK, Table
  <2> QED
    BY <2>1, <2>2 DEF OutboxInv
<1>9. ASSUME Restart PROVE OutboxInv'
  <2>1. inFlight' \in Table /\ \A p \in Friends : inFlight'[p] = {}
    BY <1>9 DEF Restart, Table
  <2>2. Within(inFlight')
    BY <2>1, NothingWithin
  <2>3. TypeOK'
    BY <1>1, <1>9, <2>1 DEF Restart, TypeOK, Table
  <2> QED
    BY <2>2, <2>3 DEF OutboxInv
<1>10. ASSUME UNCHANGED vars PROVE OutboxInv'
  BY <1>1, <1>10 DEF OutboxInv, TypeOK, vars
<1> QED
  BY <1>2, <1>3, <1>4, <1>5, <1>6, <1>7, <1>8, <1>9, <1>10 DEF Next

\* Every pass shares the slots.
LEMMA OutboxShares == OutboxInv => SharesSlots
<1> SUFFICES ASSUME OutboxInv, Passed PROVE Sharing
  BY DEF SharesSlots
<1>1. CASE Tick
  <2>1. able \in SUBSET Friends
    BY DEF OutboxInv, TypeOK
  <2> QED
    BY <1>1, <2>1, PlainPassShares DEF Tick
<1>2. ASSUME NEW p \in Friends, NEW n \in inFlight[p], Acknowledge(p, n) PROVE Sharing
  BY <1>2, AcknowledgeShares
<1>3. ASSUME NEW p \in Friends, Pass(queued, inFlight, able \cup {p}) PROVE Sharing
  <2>1. able \cup {p} \in SUBSET Friends
    BY DEF OutboxInv, TypeOK
  <2> QED
    BY <1>3, <2>1, PlainPassShares
<1> QED
  BY <1>1, <1>2, <1>3 DEF Passed

\* In every behaviour, for any friends and limits, every pass shares the slots
\* (retry_terminal_notifications_for_connected_peers).
THEOREM SlotsShared == Spec => [][SharesSlots]_vars
<1>1. OutboxInv /\ [Next]_vars => OutboxInv' /\ SharesSlots
  BY OutboxSteps, OutboxShares
<1> QED
  BY OutboxStarts, <1>1, PTL DEF Spec
=============================================================================
