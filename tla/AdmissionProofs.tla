--------------------------- MODULE AdmissionProofs ---------------------------
(***************************************************************************)
(* Theorems about Admission, for any settings and any sets of users,       *)
(* threads and tokens: the counters agree with the leases, the rate gate   *)
(* counts right although it forgets, Retry-After suffices, and admission   *)
(* implements the pool of slots.                                           *)
(***************************************************************************)
EXTENDS Admission, FiniteSetTheorems, SequenceTheorems, TLAPS

-----------------------------------------------------------------------------
(* What purging does to a queue of request times.                           *)

\* A set of naturals that is not empty has a least member.
LEMMA LeastNatural ==
  ASSUME NEW S \in SUBSET Nat, S # {}
  PROVE  \E n \in S : \A m \in S : n <= m
  <1> DEFINE Less == {p \in Nat \X Nat : p[1] < p[2]}
  <1>1. IsWellFoundedOn(Less, Nat)
    BY NatLessThanWellFounded DEF OpToRel
  <1> HIDE DEF Less
  <1>2. PICK n \in S : \A m \in S : ~ (<<m, n>> \in Less)
    BY <1>1, WFMin
  <1>3. \A m \in S : m < n => <<m, n>> \in Less
    BY DEF Less
  <1>4. \A m \in S : ~ (m < n)
    BY <1>2, <1>3
  <1>5. \A m \in S : m \in Nat /\ n \in Nat
    OBVIOUS
  <1>6. QED
    BY <1>4, <1>5

\* Purge drops expired requests from the front, and stops at the first that
\* has not expired.
LEMMA PurgeDrops ==
  ASSUME NEW s \in Seq(Nat), NEW at \in Int
  PROVE  \E n \in 0 .. Len(s) :
           /\ Purge(s, at) \in Seq(Nat)
           /\ Len(Purge(s, at)) = Len(s) - n
           /\ \A i \in 1 .. Len(s) - n : Purge(s, at)[i] = s[n + i]
           /\ \A i \in 1 .. n : Expired(s[i], at)
           /\ n < Len(s) => ~ Expired(s[n + 1], at)
  <1> DEFINE leading == {i \in 1 .. Len(s) : \A j \in 1 .. i : Expired(s[j], at)}
             kept == {i \in Nat : i >= 1 /\ i \notin leading}
  <1>1. Len(s) \in Nat /\ kept \in SUBSET Nat /\ Len(s) + 1 \in kept
    OBVIOUS
  <1>2. PICK m \in kept : \A i \in kept : m <= i
    BY <1>1, LeastNatural
  <1> DEFINE n == m - 1
  <1>3. n \in 0 .. Len(s) /\ m = n + 1
    BY <1>1, <1>2
  <1>4. \A i \in 1 .. n : i \in leading
    BY <1>1, <1>2, <1>3
  <1>5. \A i \in 1 .. n : Expired(s[i], at)
    BY <1>3, <1>4
  <1>6. n < Len(s) => ~ Expired(s[n + 1], at)
    <2> SUFFICES ASSUME n < Len(s), Expired(s[n + 1], at)
                 PROVE  FALSE
      OBVIOUS
    <2>1. \A j \in 1 .. m : Expired(s[j], at)
      BY <1>3, <1>5
    <2>2. m \in leading
      BY <1>3, <2>1
    <2>3. QED
      BY <1>2, <2>2
  <1>7. leading = 1 .. n
    <2>1. ASSUME NEW i \in leading, i > n
          PROVE  FALSE
      <3>1. m \in 1 .. i /\ m \in 1 .. Len(s)
        BY <1>3, <2>1
      <3>2. m \in leading
        BY <3>1
      <3>3. QED
        BY <1>2, <3>2
    <2>2. QED
      BY <1>3, <1>4, <2>1
  <1>8. Cardinality(leading) = n
    <2> HIDE DEF n, leading
    <2>1. n \in Nat
      BY <1>1, <1>3
    <2>2. Cardinality(1 .. n) = IF 1 > n THEN 0 ELSE n - 1 + 1
      BY <2>1, FS_Interval
    <2>3. QED
      BY <1>7, <2>1, <2>2
  <1>9. Purge(s, at) = SubSeq(s, n + 1, Len(s))
    BY <1>8 DEF Purge
  <1> HIDE DEF n, leading, kept
  <1>10. \A i \in n + 1 .. Len(s) : s[i] \in Nat
    BY <1>3, ElementOfSeq
  <1>11. /\ Purge(s, at) \in Seq(Nat)
         /\ Len(Purge(s, at)) = Len(s) - n
         /\ \A i \in 1 .. Len(s) - n : Purge(s, at)[i] = s[n + i]
    <2>1. /\ SubSeq(s, n + 1, Len(s)) \in Seq(Nat)
          /\ Len(SubSeq(s, n + 1, Len(s)))
               = IF n + 1 <= Len(s) THEN Len(s) - (n + 1) + 1 ELSE 0
          /\ \A i \in 1 .. Len(s) - (n + 1) + 1 :
               SubSeq(s, n + 1, Len(s))[i] = s[n + 1 + i - 1]
      BY <1>1, <1>3, <1>10, SubSeqProperties
    <2>2. \A i \in Int : n + 1 + i - 1 = n + i
      BY <1>3
    <2>3. QED
      BY <1>1, <1>3, <1>9, <2>1, <2>2
  <1>12. QED
    BY <1>3, <1>5, <1>6, <1>11

\* So it leaves a queue that is not longer.
LEMMA PurgeType ==
  ASSUME NEW s \in Seq(Nat), NEW at \in Int
  PROVE  Purge(s, at) \in Seq(Nat) /\ Len(Purge(s, at)) <= Len(s)
  <1>1. PICK n \in 0 .. Len(s) :
          Purge(s, at) \in Seq(Nat) /\ Len(Purge(s, at)) = Len(s) - n
    BY PurgeDrops
  <1>2. Len(s) \in Nat
    OBVIOUS
  <1>3. QED
    BY <1>1, <1>2

\* Dividing and rounding up: the least number of whole seconds that covers x.
LEMMA CeilingCovers ==
  ASSUME NEW x \in Int, NEW d \in Nat \ {0}
  PROVE  LET q == (x + d - 1) \div d
         IN  q \in Int /\ q * d >= x /\ (q - 1) * d < x /\ (x >= 1 => q >= 1)
  <1> DEFINE y == x + d - 1
             q == y \div d
  <1>1. y \in Int
    OBVIOUS
  <1>2. q \in Int /\ d * q <= y /\ y < d * q + d
    BY <1>1
  <1>3. x >= 1 => d * q > 0
    BY <1>1, <1>2
  <1>4. d * q > 0 => q >= 1
    BY <1>2
  <1>5. QED
    BY <1>2, <1>3, <1>4

-----------------------------------------------------------------------------
(* The counters and the leases.                                             *)

\* Inductive: a user some lease is charged to is known.
LeaseInv ==
  /\ LeaseAccounting
  /\ \A u \in Users : active[u] > 0 => u \in known

\* What a step of acquire does before it decides keeps the types.
LEMMA TimesType ==
  ASSUME TypeOK, NEW u \in Users
  PROVE  /\ Times(u) \in Seq(Nat)
         /\ Len(Times(u)) \in Nat /\ Len(Times(u)) <= Len(requestTimes[u])
  <1>1. requestTimes[u] \in Seq(Nat) /\ now \in Int
    BY DEF TypeOK
  <1>2. QED
    BY <1>1, PurgeType DEF Times

\* Counting a request keeps them, too.
LEMMA CountType ==
  ASSUME TypeOK, NEW u \in Users, Count(u)
  PROVE  /\ known' \subseteq Users
         /\ requestTimes' \in [Users -> Seq(Nat)]
         /\ \A v \in Users : Len(requestTimes'[v]) <= RateLimit
         /\ lastSeen' \in [Users -> Nat]
         /\ passed' \in [Users -> Seq(Nat)]
  <1>1. Len(Times(u)) < RateLimit
    BY TimesType, SettingsArePositive DEF Count, OverRate, ValidSettings
  <1>2. now \in Nat
    BY SettingsArePositive DEF TypeOK, ValidSettings
  <1>3. /\ Append(Times(u), now) \in Seq(Nat)
        /\ Len(Append(Times(u), now)) = Len(Times(u)) + 1
    BY <1>2, TimesType
  <1>4. passed[u] \in Seq(Nat) /\ Append(passed[u], now) \in Seq(Nat)
    BY <1>2 DEF TypeOK
  <1> DEFINE s == Append(Times(u), now)
  <1>5. s \in Seq(Nat) /\ Len(s) <= RateLimit
    BY <1>1, <1>3, TimesType, SettingsArePositive DEF ValidSettings
  <1>6. requestTimes' = [requestTimes EXCEPT ![u] = s]
    BY DEF Count
  <1> HIDE DEF s
  <1>7. QED
    BY <1>2, <1>4, <1>5, <1>6 DEF Count, Touch, TypeOK

\* Distinct leases have distinct threads.
LEMMA OneThreadEach ==
  ASSUME LeaseAccounting, NEW k \in Outstanding, NEW l \in Outstanding,
         handle[k].thread = handle[l].thread
  PROVE  k = l
  BY DEF LeaseAccounting, Outstanding, TypeOK, Lease

\* An outstanding lease is a lease.
LEMMA OutstandingIs ==
  ASSUME TypeOK, NEW k \in Outstanding
  PROVE  k \in Tokens /\ handle[k] \in Lease /\ ~ handle[k].released
  BY DEF Outstanding, TypeOK

\* There are finitely many, and each user has finitely many.
LEMMA OutstandingFinite ==
  /\ IsFiniteSet(Outstanding)
  /\ \A u \in Users : IsFiniteSet(OutstandingOf(u))
  <1>1. Outstanding \in SUBSET Tokens
    BY DEF Outstanding
  <1>2. IsFiniteSet(Outstanding)
    BY <1>1, FiniteNames, FS_Subset
  <1>3. \A u \in Users : OutstandingOf(u) \in SUBSET Outstanding
    BY DEF OutstandingOf
  <1>4. QED
    BY <1>2, <1>3, FS_Subset

\* A step that leaves the leases and the counters alone.
LEMMA LeasesStay ==
  ASSUME LeaseInv, TypeOK', UNCHANGED <<active, slotVars>>, known \subseteq known'
  PROVE  LeaseInv'
  <1>1. Outstanding' = Outstanding /\ \A u \in Users : OutstandingOf(u)' = OutstandingOf(u)
    BY DEF slotVars, Outstanding, OutstandingOf
  <1>2. QED
    BY <1>1 DEF slotVars, LeaseInv, LeaseAccounting

\* acquire that admits the task: one more lease, charged to its user.
LEMMA AdmitAdds ==
  ASSUME TypeOK, NEW u \in Users, NEW t \in Threads, NEW k \in Tokens,
         Admit(u, t, k)
  PROVE  /\ handle' = [handle EXCEPT
                         ![k] = [user |-> u, thread |-> t, released |-> FALSE]]
         /\ handle'[k] = [user |-> u, thread |-> t, released |-> FALSE]
         /\ handle'[k] \in Lease /\ handle'[k] # None
         /\ k \notin Outstanding /\ Outstanding' = Outstanding \cup {k}
         /\ OutstandingOf(u)' = OutstandingOf(u) \cup {k}
         /\ \A v \in Users \ {u} : OutstandingOf(v)' = OutstandingOf(v)
  <1> DEFINE l == [user |-> u, thread |-> t, released |-> FALSE]
  <1>1. l \in Lease /\ l.user = u /\ l.thread = t /\ ~ l.released
    BY DEF Lease
  <1>2. handle' = [handle EXCEPT ![k] = l] /\ k \notin Outstanding
    BY DEF Admit
  <1> HIDE DEF l
  <1>3. handle'[k] = l /\ l # None
    BY <1>1, <1>2, NoneIsNoLease DEF TypeOK
  <1>4. \A m \in Tokens : m # k => handle'[m] = handle[m]
    BY <1>2 DEF TypeOK
  <1>5. Outstanding' = Outstanding \cup {k}
    BY <1>1, <1>3, <1>4 DEF Outstanding
  <1>6. \A m \in Outstanding : m # k /\ m \in Tokens
    BY <1>2 DEF Outstanding
  <1>7. /\ OutstandingOf(u)' = OutstandingOf(u) \cup {k}
        /\ \A v \in Users \ {u} : OutstandingOf(v)' = OutstandingOf(v)
    BY <1>1, <1>3, <1>4, <1>5, <1>6 DEF OutstandingOf
  <1>8. QED
    BY <1>1, <1>2, <1>3, <1>5, <1>7 DEF l

\* release, the first time: one lease less.
LEMMA ReleaseRemoves ==
  ASSUME TypeOK, NEW k \in Tokens, Release(k)
  PROVE  /\ k \in Outstanding /\ handle[k] \in Lease
         /\ handle'[k] \in Lease
         /\ \A m \in Tokens : m # k => handle'[m] = handle[m]
         /\ Outstanding' = Outstanding \ {k}
         /\ \A v \in Users : OutstandingOf(v)' = IF v = handle[k].user
                                                THEN OutstandingOf(v) \ {k}
                                                ELSE OutstandingOf(v)
  <1>1. /\ handle[k] # None /\ ~ handle[k].released
        /\ handle' = [handle EXCEPT ![k] = [handle[k] EXCEPT !.released = TRUE]]
    BY DEF Release, AlreadyReleased
  <1>2. k \in Outstanding /\ handle[k] \in Lease
    BY <1>1 DEF Outstanding, TypeOK
  <1> DEFINE l == [handle[k] EXCEPT !.released = TRUE]
  <1>3. l \in Lease /\ l.released
    BY <1>2 DEF Lease
  <1>4. handle'[k] = l /\ l # None
    BY <1>1, <1>3, NoneIsNoLease DEF TypeOK
  <1> HIDE DEF l
  <1>5. \A m \in Tokens : m # k => handle'[m] = handle[m]
    BY <1>1 DEF TypeOK
  <1>6. Outstanding' = Outstanding \ {k}
    BY <1>3, <1>4, <1>5 DEF Outstanding
  <1>7. \A m \in Outstanding : m \in Tokens
    BY DEF Outstanding
  <1>8. ASSUME NEW v \in Users
        PROVE  OutstandingOf(v)' = IF v = handle[k].user THEN OutstandingOf(v) \ {k}
                                                         ELSE OutstandingOf(v)
    <2>1. \A m : m \in OutstandingOf(v)' <=>
                   m \in Outstanding /\ m # k /\ handle[m].user = v
      BY <1>5, <1>6, <1>7 DEF OutstandingOf
    <2>2. QED
      BY <2>1, <1>2 DEF OutstandingOf
  <1>9. QED
    BY <1>2, <1>3, <1>4, <1>5, <1>6, <1>8

\* The step of acquire that admits a task.
LEMMA AdmitKeeps ==
  ASSUME LeaseInv, NEW u \in Users, NEW t \in Threads, NEW k \in Tokens,
         Admit(u, t, k)
  PROVE  LeaseInv'
  <1>1. TypeOK /\ Count(u)
    BY DEF LeaseInv, LeaseAccounting, Admit
  <1> DEFINE l == [user |-> u, thread |-> t, released |-> FALSE]
  <1>2. /\ handle' = [handle EXCEPT ![k] = l] /\ l \in Lease /\ l.thread = t
        /\ handle \in [Tokens -> Lease \cup {None}]
        /\ k \notin Outstanding /\ Outstanding' = Outstanding \cup {k}
        /\ OutstandingOf(u)' = OutstandingOf(u) \cup {k}
        /\ \A v \in Users \ {u} : OutstandingOf(v)' = OutstandingOf(v)
    BY <1>1, AdmitAdds DEF TypeOK
  <1> HIDE DEF l
  <1>3. /\ active[u] \in Nat /\ active[u] < MaxActivePerUser
        /\ activeProcess \in Nat /\ activeProcess < MaxActiveProcess
        /\ activeThreads[t] = None
    BY <1>1, SettingsArePositive DEF Admit, Conflict, TypeOK, ValidSettings
  <1>4. /\ active' = [active EXCEPT ![u] = active[u] + 1]
        /\ activeProcess' = activeProcess + 1
        /\ activeThreads' = [activeThreads EXCEPT ![t] = k]
        /\ leases' = leases \cup {k} /\ now' = now
    BY DEF Admit
  <1>5. /\ active \in [Users -> Nat] /\ leases = Outstanding
        /\ activeProcess = Cardinality(Outstanding)
        /\ \A v \in Users : active[v] = Cardinality(OutstandingOf(v))
        /\ activeThreads \in [Threads -> Tokens \cup {None}]
    BY SettingsArePositive DEF LeaseInv, LeaseAccounting, TypeOK, ValidSettings
  <1>6. TypeOK'
    <2>1. /\ active' \in [Users -> 0 .. MaxActivePerUser]
          /\ activeProcess' \in 0 .. MaxActiveProcess
      BY <1>1, <1>3, <1>4, SettingsArePositive DEF TypeOK, ValidSettings
    <2>2. /\ handle' \in [Tokens -> Lease \cup {None}] /\ leases' \subseteq Tokens
          /\ activeThreads' \in [Threads -> Tokens \cup {None}]
      BY <1>1, <1>2, <1>4 DEF TypeOK
    <2>3. /\ known' \subseteq Users /\ requestTimes' \in [Users -> Seq(Nat)]
          /\ \A v \in Users : Len(requestTimes'[v]) <= RateLimit
          /\ lastSeen' \in [Users -> Nat] /\ passed' \in [Users -> Seq(Nat)]
      BY <1>1, CountType
    <2>4. QED
      BY <1>1, <1>4, <2>1, <2>2, <2>3 DEF TypeOK
  <1>7. leases' = Outstanding'
    BY <1>2, <1>4, <1>5
  <1>8. activeProcess' = Cardinality(Outstanding')
    <2>1. Cardinality(Outstanding \cup {k}) = Cardinality(Outstanding) + 1
      BY <1>2, OutstandingFinite, FS_AddElement
    <2>2. QED
      BY <1>2, <1>4, <1>5, <2>1
  <1>9. ASSUME NEW v \in Users
        PROVE  active'[v] = Cardinality(OutstandingOf(v)')
    <2>1. CASE v = u
      <3>1. k \notin OutstandingOf(u)
        BY <1>2 DEF OutstandingOf
      <3>2. Cardinality(OutstandingOf(u) \cup {k}) = Cardinality(OutstandingOf(u)) + 1
        BY <3>1, OutstandingFinite, FS_AddElement
      <3>3. QED
        BY <1>2, <1>4, <1>5, <2>1, <3>2
    <2>2. CASE v # u
      BY <1>2, <1>4, <1>5, <2>2
    <2>3. QED
      BY <2>1, <2>2
  <1>10. ASSUME NEW w \in Threads, NEW m \in Tokens
         PROVE  activeThreads'[w] = m <=> m \in Outstanding' /\ handle'[m].thread = w
    <2>1. activeThreads[w] = m <=> m \in Outstanding /\ handle[m].thread = w
      BY DEF LeaseInv, LeaseAccounting
    <2>2. activeThreads'[w] = IF w = t THEN k ELSE activeThreads[w]
      BY <1>4, <1>5
    <2>3. CASE m = k
      <3>1. handle'[m] = l /\ m \in Outstanding'
        BY <1>2, <2>3
      <3>2. QED
        BY <1>2, <2>1, <2>2, <2>3, <3>1
    <2>4. CASE m # k
      <3>1. handle'[m] = handle[m] /\ (m \in Outstanding' <=> m \in Outstanding)
        BY <1>2, <2>4
      <3>2. QED
        BY <1>3, <2>1, <2>2, <2>4, <3>1, NoneIsNoLease
    <2>5. QED
      BY <2>3, <2>4
  <1>11. \A v \in Users : active'[v] > 0 => v \in known'
    BY <1>1, <1>4, <1>5 DEF LeaseInv, Count, Touch
  <1>12. QED
    BY <1>6, <1>7, <1>8, <1>9, <1>10, <1>11 DEF LeaseInv, LeaseAccounting

\* The step that gives a lease back.
LEMMA ReleaseKeeps ==
  ASSUME LeaseInv, NEW k \in Tokens, Release(k)
  PROVE  LeaseInv'
  <1> DEFINE u == handle[k].user
             t == handle[k].thread
  <1>1. /\ TypeOK /\ k \in leases /\ k \in Outstanding
        /\ u \in Users /\ t \in Threads
    BY ReleaseRemoves DEF LeaseInv, LeaseAccounting, Lease
  <1>2. k \in OutstandingOf(u)
    BY <1>1 DEF OutstandingOf
  <1>3. /\ Cardinality(Outstanding) \in Nat \ {0}
        /\ Cardinality(Outstanding \ {k}) = Cardinality(Outstanding) - 1
    BY <1>1, OutstandingFinite, FS_RemoveElement, FS_CardinalityType, FS_EmptySet
  <1>4. /\ Cardinality(OutstandingOf(u)) \in Nat \ {0}
        /\ Cardinality(OutstandingOf(u) \ {k}) = Cardinality(OutstandingOf(u)) - 1
    BY <1>1, <1>2, OutstandingFinite, FS_RemoveElement, FS_CardinalityType, FS_EmptySet
  <1>5. /\ active[u] \in Nat \ {0} /\ u \in known
        /\ activeProcess \in Nat \ {0} /\ activeThreads[t] = k
    BY <1>1, <1>3, <1>4 DEF LeaseInv, LeaseAccounting
  <1>6. /\ active' = [active EXCEPT ![u] = active[u] - 1]
        /\ lastSeen' = [lastSeen EXCEPT ![u] = now]
        /\ leases' = leases \ {k}
        /\ activeThreads' = [activeThreads EXCEPT ![t] = None]
        /\ activeProcess' = activeProcess - 1
        /\ UNCHANGED <<now, known, requestTimes, passed>>
    BY <1>1, <1>5 DEF Release, LessOne, ThreadFreed
  <1>7. /\ Outstanding' = Outstanding \ {k}
        /\ \A v \in Users : OutstandingOf(v)' = IF v = u THEN OutstandingOf(v) \ {k}
                                                       ELSE OutstandingOf(v)
        /\ \A m \in Tokens : m # k => handle'[m] = handle[m]
        /\ handle'[k] \in Lease
    BY <1>1, ReleaseRemoves
  <1> HIDE DEF u, t
  <1>8. TypeOK'
    <2>1. handle' \in [Tokens -> Lease \cup {None}]
      BY <1>1, <1>7 DEF Release, TypeOK
    <2>2. now \in Nat
      BY <1>1, SettingsArePositive DEF TypeOK, ValidSettings
    <2>3. active' \in [Users -> 0 .. MaxActivePerUser] /\ lastSeen' \in [Users -> Nat]
      <3>1. active[u] - 1 \in 0 .. MaxActivePerUser
        BY <1>1, <1>5, SettingsArePositive DEF TypeOK, ValidSettings
      <3>2. QED
        BY <1>1, <1>6, <2>2, <3>1 DEF TypeOK
    <2>4. activeProcess' \in 0 .. MaxActiveProcess
      BY <1>1, <1>5, <1>6, SettingsArePositive DEF TypeOK, ValidSettings
    <2>5. activeThreads' \in [Threads -> Tokens \cup {None}] /\ leases' \subseteq Tokens
      BY <1>1, <1>6 DEF TypeOK
    <2>6. QED
      BY <1>1, <1>6, <2>1, <2>3, <2>4, <2>5 DEF TypeOK
  <1>9. leases' = Outstanding' /\ activeProcess' = Cardinality(Outstanding')
    BY <1>3, <1>6, <1>7 DEF LeaseInv, LeaseAccounting
  <1>10. ASSUME NEW v \in Users
         PROVE  active'[v] = Cardinality(OutstandingOf(v)')
    <2>1. /\ active[v] = Cardinality(OutstandingOf(v))
          /\ active'[v] = IF v = u THEN active[u] - 1 ELSE active[v]
      BY <1>1, <1>6 DEF LeaseInv, LeaseAccounting, TypeOK
    <2>2. CASE v = u
      BY <1>4, <1>7, <2>1, <2>2
    <2>3. CASE v # u
      BY <1>7, <2>1, <2>3
    <2>4. QED
      BY <2>2, <2>3
  <1>11. ASSUME NEW w \in Threads, NEW m \in Tokens
         PROVE  activeThreads'[w] = m <=> m \in Outstanding' /\ handle'[m].thread = w
    <2>1. activeThreads[w] = m <=> m \in Outstanding /\ handle[m].thread = w
      BY DEF LeaseInv, LeaseAccounting
    <2>2. activeThreads[w] = k <=> w = t
      BY <1>1, <1>5 DEF LeaseInv, LeaseAccounting, t
    <2>3. QED
      BY <1>1, <1>5, <1>6, <1>7, <2>1, <2>2, NoneIsNoLease DEF TypeOK
  <1>12. \A v \in Users : active'[v] > 0 => v \in known'
    BY <1>1, <1>5, <1>6 DEF LeaseInv, TypeOK
  <1>13. QED
    BY <1>8, <1>9, <1>10, <1>11, <1>12 DEF LeaseInv, LeaseAccounting

\* Forgetting the idle users: they have no lease.
LEMMA CleanupKeeps ==
  ASSUME LeaseInv, CleanupIdle
  PROVE  LeaseInv'
  <1> DEFINE gone == {u \in known : Idle(u)}
  <1>1. TypeOK
    BY DEF LeaseInv, LeaseAccounting
  <1>2. \A u \in gone : active[u] = 0
    BY DEF Idle
  <1>3. active' = active
    BY <1>1, <1>2 DEF CleanupIdle, TypeOK
  <1>4. \A u \in Users : /\ requestTimes'[u] \in Seq(Nat)
                         /\ Len(requestTimes'[u]) <= RateLimit
    <2> SUFFICES ASSUME NEW u \in Users
                 PROVE  /\ requestTimes'[u] \in Seq(Nat)
                        /\ Len(requestTimes'[u]) <= RateLimit
      OBVIOUS
    <2>1. requestTimes'[u] \in {<<>>, Times(u), requestTimes[u]}
      <3>1. requestTimes'[u] = CASE u \in gone -> <<>>
                                 [] u \in known \ gone -> Times(u)
                                 [] OTHER -> requestTimes[u]
        BY DEF CleanupIdle
      <3>2. QED
        BY <3>1
    <2>2. /\ Times(u) \in Seq(Nat) /\ Len(Times(u)) \in Nat
          /\ Len(Times(u)) <= Len(requestTimes[u])
      BY <1>1, TimesType
    <2>3. /\ requestTimes[u] \in Seq(Nat) /\ Len(requestTimes[u]) \in Nat
          /\ Len(requestTimes[u]) <= RateLimit
      BY <1>1 DEF TypeOK
    <2>4. <<>> \in Seq(Nat) /\ Len(<<>>) <= RateLimit
      BY SettingsArePositive DEF ValidSettings
    <2>5. CASE requestTimes'[u] = <<>>
      BY <2>4, <2>5
    <2>6. CASE requestTimes'[u] = Times(u)
      BY <2>2, <2>3, <2>6, SettingsArePositive DEF ValidSettings
    <2>7. CASE requestTimes'[u] = requestTimes[u]
      BY <2>3, <2>7
    <2>8. QED
      BY <2>1, <2>5, <2>6, <2>7
  <1>5. requestTimes' = [u \in Users |-> requestTimes'[u]]
    BY DEF CleanupIdle
  <1>6. /\ known' \subseteq Users
        /\ lastSeen' \in [Users -> Nat]
        /\ UNCHANGED <<now, passed, slotVars>>
    BY <1>1 DEF CleanupIdle, TypeOK
  <1>7. TypeOK'
    BY <1>1, <1>3, <1>4, <1>5, <1>6 DEF TypeOK, slotVars
  <1>8. Outstanding' = Outstanding /\ \A u \in Users : OutstandingOf(u)' = OutstandingOf(u)
    BY <1>6 DEF slotVars, Outstanding, OutstandingOf
  <1>9. \A u \in Users : active'[u] > 0 => u \in known'
    BY <1>2, <1>3 DEF CleanupIdle, LeaseInv
  <1>10. QED
    BY <1>3, <1>6, <1>7, <1>8, <1>9 DEF LeaseInv, LeaseAccounting, slotVars

\* A server that has just started has no lease.
LEMMA LeaseInit == Init => LeaseInv
  <1> SUFFICES ASSUME Init
               PROVE  LeaseInv
    OBVIOUS
  <1>1. Outstanding = {} /\ \A u \in Users : OutstandingOf(u) = {}
    BY DEF Init, Outstanding, OutstandingOf
  <1>2. Len(<<>>) = 0 /\ <<>> \in Seq(Nat)
    OBVIOUS
  <1>3. TypeOK
    BY <1>2, SettingsArePositive DEF Init, TypeOK, ValidSettings
  <1>4. Cardinality({}) = 0
    BY FS_EmptySet
  <1>5. \A t \in Threads : \A k \in Tokens :
          activeThreads[t] # k /\ k \notin Outstanding
    BY <1>1, NoneIsNoLease DEF Init
  <1>6. ASSUME NEW u \in Users
        PROVE  active[u] = 0 /\ active[u] = Cardinality(OutstandingOf(u))
    BY <1>1, <1>4 DEF Init
  <1>7. leases = Outstanding /\ activeProcess = Cardinality(Outstanding)
    BY <1>1, <1>4 DEF Init
  <1>8. QED
    BY <1>3, <1>5, <1>6, <1>7 DEF LeaseInv, LeaseAccounting

\* Every step keeps the counters right.
LEMMA LeaseStep == LeaseInv /\ [Next]_vars => LeaseInv'
  <1> SUFFICES ASSUME LeaseInv, [Next]_vars
               PROVE  LeaseInv'
    OBVIOUS
  <1>0. TypeOK
    BY DEF LeaseInv, LeaseAccounting
  <1>1. ASSUME NEW u \in Users, RateLimited(u)
        PROVE  LeaseInv'
    <2>1. now \in Nat
      BY <1>0, SettingsArePositive DEF TypeOK, ValidSettings
    <2>2. /\ Times(u) \in Seq(Nat) /\ Len(Times(u)) <= RateLimit
      BY <1>0, TimesType, SettingsArePositive DEF TypeOK, ValidSettings
    <2>3. TypeOK'
      BY <1>0, <1>1, <2>1, <2>2 DEF TypeOK, RateLimited, Touch, slotVars
    <2>4. QED
      BY <1>1, <2>3, LeasesStay DEF RateLimited, Touch
  <1>2. ASSUME NEW u \in Users, NEW t \in Threads, Refused(u, t)
        PROVE  LeaseInv'
    <2>1. TypeOK'
      BY <1>0, <1>2, CountType DEF TypeOK, Refused, slotVars
    <2>2. QED
      BY <1>2, <2>1, LeasesStay DEF Refused, Count, Touch
  <1>3. CASE Tick
    <2>1. TypeOK'
      BY <1>0, <1>3, SettingsArePositive DEF TypeOK, Tick, userVars, slotVars, ValidSettings
    <2>2. QED
      BY <1>3, <2>1, LeasesStay DEF Tick, userVars
  <1>4. CASE UNCHANGED vars
    <2>1. TypeOK'
      BY <1>0, <1>4 DEF TypeOK, vars, userVars, slotVars
    <2>2. QED
      BY <1>4, <2>1, LeasesStay DEF vars, userVars
  <1>5. QED
    BY <1>1, <1>2, <1>3, <1>4, AdmitKeeps, ReleaseKeeps, CleanupKeeps DEF Next

\* The counters never drift from the leases that callers really hold, in any
\* order of acquire, release and cleanup_idle_users.
THEOREM LeaseAccountingIsInvariant == Spec => []LeaseAccounting
  <1>1. LeaseInv => LeaseAccounting
    BY DEF LeaseInv
  <1>2. QED
    BY <1>1, LeaseInit, LeaseStep, PTL DEF Spec

-----------------------------------------------------------------------------
(* The rate gate.                                                           *)

\* The request times of a user over the limit are as many as the limit, and
\* the first has not expired.
LEMMA OverRateTimes ==
  ASSUME TypeOK, NEW u \in Users, OverRate(u)
  PROVE  /\ Times(u) \in Seq(Nat) /\ Len(Times(u)) = RateLimit
         /\ Times(u)[1] \in Nat /\ Times(u)[1] + Window - now >= 1
  <1> DEFINE s == requestTimes[u]
  <1>1. /\ s \in Seq(Nat) /\ Len(s) \in Nat /\ Len(s) <= RateLimit
        /\ now \in Int /\ RateLimit \in Nat \ {0} /\ Window \in Nat
    BY SettingsArePositive DEF TypeOK, ValidSettings
  <1>2. Times(u) \in Seq(Nat) /\ Len(Times(u)) = RateLimit
    BY <1>1, TimesType DEF OverRate
  <1>3. PICK n \in 0 .. Len(s) :
          /\ Len(Times(u)) = Len(s) - n
          /\ \A i \in 1 .. Len(s) - n : Times(u)[i] = s[n + i]
          /\ n < Len(s) => ~ Expired(s[n + 1], now)
    BY <1>1, PurgeDrops DEF Times
  <1>4. n = 0
    BY <1>1, <1>2, <1>3
  <1>5. Times(u)[1] = s[1] /\ ~ Expired(s[1], now)
    BY <1>1, <1>2, <1>3, <1>4
  <1>6. s[1] \in Nat
    BY <1>1, <1>2, <1>3, <1>4
  <1>7. QED
    BY <1>1, <1>2, <1>5, <1>6 DEF Expired

\* The Retry-After of a 429 is right for every clock and every resolution.
LEMMA RetryAfterIsRight == TypeOK => RetryAfterSuffices
  <1> SUFFICES ASSUME TypeOK, NEW u \in Users, OverRate(u)
               PROVE  LET s == Times(u)
                          wait == RetryAfter(s, now)
                      IN  /\ Len(Purge(s, now + wait * SecondTicks)) < RateLimit
                          /\ wait > 1 =>
                               Len(Purge(s, now + (wait - 1) * SecondTicks)) >= RateLimit
    BY DEF RetryAfterSuffices
  <1> DEFINE s == Times(u)
             x == s[1] + Window - now
             wait == (x + SecondTicks - 1) \div SecondTicks
  <1>1. /\ s \in Seq(Nat) /\ Len(s) = RateLimit /\ s[1] \in Nat /\ x >= 1
    BY OverRateTimes
  <1>2. /\ now \in Int /\ RateLimit \in Nat \ {0} /\ Window \in Nat /\ x \in Int
        /\ SecondTicks \in Nat \ {0}
    BY <1>1, SettingsArePositive DEF TypeOK, ValidSettings
  <1> HIDE DEF s
  <1>3. /\ wait \in Int /\ wait >= 1
        /\ wait * SecondTicks >= x /\ (wait - 1) * SecondTicks < x
    <2> HIDE DEF x
    <2>1. QED
      BY <1>1, <1>2, CeilingCovers
  <1>4. RetryAfter(s, now) = wait
    BY <1>3 DEF RetryAfter
  <1> HIDE DEF wait
  <1>5. wait * SecondTicks \in Int /\ (wait - 1) * SecondTicks \in Int
    BY <1>2, <1>3
  <1>6. Len(Purge(s, now + wait * SecondTicks)) < RateLimit
    <2> DEFINE at == now + wait * SecondTicks
    <2>1. at \in Int /\ Expired(s[1], at)
      BY <1>1, <1>2, <1>3, <1>5 DEF Expired
    <2> HIDE DEF at
    <2>2. PICK n \in 0 .. Len(s) :
            /\ Len(Purge(s, at)) = Len(s) - n
            /\ n < Len(s) => ~ Expired(s[n + 1], at)
      BY <1>1, <2>1, PurgeDrops
    <2>3. n # 0
      BY <1>1, <1>2, <2>1, <2>2
    <2>4. QED
      BY <1>1, <1>2, <2>2, <2>3 DEF at
  <1>7. Len(Purge(s, now + (wait - 1) * SecondTicks)) >= RateLimit
    <2> DEFINE at == now + (wait - 1) * SecondTicks
    <2>1. at \in Int /\ ~ Expired(s[1], at)
      BY <1>1, <1>2, <1>3, <1>5 DEF Expired
    <2> HIDE DEF at
    <2>2. PICK n \in 0 .. Len(s) :
            /\ Len(Purge(s, at)) = Len(s) - n
            /\ \A i \in 1 .. n : Expired(s[i], at)
      BY <1>1, <2>1, PurgeDrops
    <2>3. n = 0
      BY <1>1, <1>2, <2>1, <2>2
    <2>4. QED
      BY <1>1, <1>2, <2>2, <2>3 DEF at
  <1>8. QED
    BY <1>4, <1>6, <1>7 DEF s

\* A user turned away with a 429 who waits as long as it says is let through
\* the rate gate, and no shorter whole number of seconds would have done.
THEOREM RetryAfterSufficesIsInvariant == Spec => []RetryAfterSuffices
  <1>1. LeaseInv => RetryAfterSuffices
    BY RetryAfterIsRight DEF LeaseInv, LeaseAccounting
  <1>2. QED
    BY <1>1, LeaseInit, LeaseStep, PTL DEF Spec

-----------------------------------------------------------------------------
(* The rate gate forgets only what no longer counts.  r stands for the      *)
(* request times of a user and p for every request the gate let through.    *)

\* r is p without some requests from the front, which have expired.
Keeps(p, r, at) ==
  \E n \in 0 .. Len(p) :
    /\ Len(r) = Len(p) - n
    /\ \A i \in 1 .. Len(p) - n : r[i] = p[n + i]
    /\ \A i \in 1 .. n : Expired(p[i], at)

InWindow(p, at) == {i \in DOMAIN p : p[i] <= at /\ p[i] > at - Window}

\* What has expired stays so.
LEMMA KeepsLater ==
  ASSUME NEW p \in Seq(Nat), NEW r, NEW at \in Int, NEW then \in Int,
         Keeps(p, r, at), at <= then
  PROVE  Keeps(p, r, then)
  <1>1. PICK n \in 0 .. Len(p) :
          /\ Len(r) = Len(p) - n
          /\ \A i \in 1 .. Len(p) - n : r[i] = p[n + i]
          /\ \A i \in 1 .. n : Expired(p[i], at)
    BY DEF Keeps
  <1>2. ASSUME NEW i \in 1 .. n
        PROVE  Expired(p[i], then)
    <2>1. p[i] \in Nat /\ Window \in Nat
      BY <1>1, ElementOfSeq, SettingsArePositive DEF ValidSettings
    <2>2. QED
      BY <1>1, <2>1 DEF Expired
  <1>3. QED
    BY <1>1, <1>2 DEF Keeps

\* Purging keeps what counts.
LEMMA KeepsPurged ==
  ASSUME NEW p \in Seq(Nat), NEW r \in Seq(Nat), NEW at \in Int, Keeps(p, r, at)
  PROVE  Keeps(p, Purge(r, at), at)
  <1>1. PICK n \in 0 .. Len(p) :
          /\ Len(r) = Len(p) - n
          /\ \A i \in 1 .. Len(p) - n : r[i] = p[n + i]
          /\ \A i \in 1 .. n : Expired(p[i], at)
    BY DEF Keeps
  <1>2. PICK m \in 0 .. Len(r) :
          /\ Len(Purge(r, at)) = Len(r) - m
          /\ \A i \in 1 .. Len(r) - m : Purge(r, at)[i] = r[m + i]
          /\ \A i \in 1 .. m : Expired(r[i], at)
    BY PurgeDrops
  <1> DEFINE q == Purge(r, at)
  <1> HIDE DEF q
  <1>3. /\ Len(p) \in Nat /\ n \in Nat /\ m \in Nat
        /\ n + m \in 0 .. Len(p) /\ Len(q) = Len(p) - (n + m)
    BY <1>1, <1>2 DEF q
  <1>4. ASSUME NEW i \in 1 .. Len(p) - (n + m)
        PROVE  q[i] = p[n + m + i]
    <2>1. q[i] = r[m + i]
      BY <1>1, <1>2, <1>3 DEF q
    <2>2. m + i \in 1 .. Len(p) - n
      BY <1>3
    <2>3. r[m + i] = p[n + (m + i)]
      BY <1>1, <2>2
    <2>4. n + (m + i) = n + m + i
      BY <1>3
    <2>5. QED
      BY <2>1, <2>3, <2>4
  <1>5. ASSUME NEW i \in 1 .. n + m
        PROVE  Expired(p[i], at)
    <2>1. CASE i <= n
      BY <1>1, <1>3, <2>1
    <2>2. CASE i > n
      <3>1. i - n \in 1 .. m /\ i - n \in 1 .. Len(p) - n /\ n + (i - n) = i
        BY <1>1, <1>3, <2>2
      <3>2. r[i - n] = p[n + (i - n)] /\ Expired(r[i - n], at)
        BY <1>1, <1>2, <3>1
      <3>3. QED
        BY <3>1, <3>2
    <2>3. QED
      BY <1>3, <2>1, <2>2
  <1>6. Keeps(p, q, at)
    BY <1>3, <1>4, <1>5 DEF Keeps
  <1>7. QED
    BY <1>6 DEF q

\* A request that is let through counts.
LEMMA KeepsAppended ==
  ASSUME NEW p \in Seq(Nat), NEW r \in Seq(Nat), NEW at \in Nat, Keeps(p, r, at)
  PROVE  Keeps(Append(p, at), Append(r, at), at)
  <1>1. PICK n \in 0 .. Len(p) :
          /\ Len(r) = Len(p) - n
          /\ \A i \in 1 .. Len(p) - n : r[i] = p[n + i]
          /\ \A i \in 1 .. n : Expired(p[i], at)
    BY DEF Keeps
  <1> DEFINE p1 == Append(p, at)
             r1 == Append(r, at)
  <1>2. /\ Len(p1) = Len(p) + 1 /\ p1[Len(p) + 1] = at
        /\ \A i \in 1 .. Len(p) : p1[i] = p[i]
        /\ Len(r1) = Len(r) + 1 /\ r1[Len(r) + 1] = at
        /\ \A i \in 1 .. Len(r) : r1[i] = r[i]
    BY AppendProperties
  <1> HIDE DEF p1, r1
  <1>3. Len(p) \in Nat /\ n \in 0 .. Len(p1) /\ Len(r1) = Len(p1) - n
    BY <1>1, <1>2
  <1>4. ASSUME NEW i \in 1 .. Len(p1) - n
        PROVE  r1[i] = p1[n + i]
    <2>1. CASE i = Len(r) + 1
      <3>1. n + i = Len(p) + 1
        BY <1>1, <1>3, <2>1
      <3>2. QED
        BY <1>2, <2>1, <3>1
    <2>2. CASE i # Len(r) + 1
      <3>1. i \in 1 .. Len(r) /\ i \in 1 .. Len(p) - n /\ n + i \in 1 .. Len(p)
        BY <1>1, <1>2, <1>3, <2>2
      <3>2. QED
        BY <1>1, <1>2, <3>1
    <2>3. QED
      BY <2>1, <2>2
  <1>5. ASSUME NEW i \in 1 .. n
        PROVE  Expired(p1[i], at)
    <2>1. i \in 1 .. Len(p)
      BY <1>3
    <2>2. p1[i] = p[i]
      BY <1>2, <2>1
    <2>3. QED
      BY <1>1, <2>2
  <1>6. Keeps(p1, r1, at)
    BY <1>3, <1>4, <1>5 DEF Keeps
  <1>7. QED
    BY <1>6 DEF p1, r1

\* When all has expired all may be forgotten.
LEMMA KeepsNothing ==
  ASSUME NEW p \in Seq(Nat), NEW at, \A i \in DOMAIN p : Expired(p[i], at)
  PROVE  Keeps(p, <<>>, at)
  <1>1. Len(p) \in Nat /\ DOMAIN p = 1 .. Len(p) /\ Len(<<>>) = 0
    OBVIOUS
  <1> DEFINE n == Len(p)
  <1>2. /\ n \in 0 .. Len(p) /\ Len(<<>>) = Len(p) - n /\ 1 .. Len(p) - n = {}
        /\ \A i \in 1 .. n : Expired(p[i], at)
    BY <1>1
  <1> HIDE DEF n
  <1>3. \A i \in 1 .. Len(p) - n : <<>>[i] = p[n + i]
    BY <1>2
  <1>4. QED
    BY <1>2, <1>3 DEF Keeps

\* So the requests of the last window are among those remembered.
LEMMA KeepsCounts ==
  ASSUME NEW p \in Seq(Nat), NEW r, NEW at \in Int, Keeps(p, r, at)
  PROVE  /\ Cardinality(InWindow(p, at)) \in Nat
         /\ Cardinality(InWindow(p, at)) <= Len(r)
  <1>1. PICK n \in 0 .. Len(p) :
          Len(r) = Len(p) - n /\ \A i \in 1 .. n : Expired(p[i], at)
    BY DEF Keeps
  <1>2. /\ Len(p) \in Nat /\ DOMAIN p = 1 .. Len(p) /\ Window \in Nat
        /\ \A i \in DOMAIN p : p[i] \in Nat
    BY ElementOfSeq, SettingsArePositive DEF ValidSettings
  <1>3. InWindow(p, at) \in SUBSET (n + 1 .. Len(p))
    BY <1>1, <1>2 DEF InWindow, Expired
  <1> DEFINE a == n + 1
             kept == a .. Len(p)
  <1>4. IsFiniteSet(kept) /\ Cardinality(kept) = IF a > Len(p) THEN 0 ELSE Len(p) - a + 1
    <2>1. a \in Int /\ Len(p) \in Int
      BY <1>1, <1>2
    <2> HIDE DEF a
    <2>2. QED
      BY <2>1, FS_Interval
  <1>5. IsFiniteSet(InWindow(p, at)) /\ Cardinality(InWindow(p, at)) <= Cardinality(kept)
    <2>1. InWindow(p, at) \in SUBSET kept
      BY <1>3
    <2> HIDE DEF kept
    <2>2. QED
      BY <1>4, <2>1, FS_Subset
  <1>6. Cardinality(InWindow(p, at)) \in Nat
    BY <1>5, FS_CardinalityType
  <1>7. QED
    BY <1>1, <1>2, <1>4, <1>5, <1>6

\* A later request is in no earlier window.
LEMMA WindowStays ==
  ASSUME NEW p \in Seq(Nat), NEW at \in Nat, NEW then \in Nat, then < at
  PROVE  InWindow(Append(p, at), then) = InWindow(p, then)
  <1> DEFINE q == Append(p, at)
  <1>1. /\ DOMAIN p = 1 .. Len(p) /\ DOMAIN q = 1 .. Len(p) + 1 /\ Len(p) \in Nat
        /\ \A i \in 1 .. Len(p) : q[i] = p[i]
        /\ q[Len(p) + 1] = at
    BY AppendProperties
  <1> HIDE DEF q
  <1>2. \A i : i \in InWindow(q, then) <=> i \in InWindow(p, then)
    BY <1>1 DEF InWindow
  <1>3. QED
    BY <1>2 DEF q

\* Inductive: the gate forgets only what has expired, for an idle user has not
\* been seen since his last request.
Remembering ==
  \A u \in Users :
    /\ \A i \in DOMAIN passed[u] : passed[u][i] <= now
    /\ u \in known => \A i \in DOMAIN passed[u] : passed[u][i] <= lastSeen[u]
    /\ Keeps(passed[u], requestTimes[u], now)

RateInv ==
  /\ LeaseInv
  /\ HistoryTTL >= Window => Remembering
  /\ RateWindow

\* What a step does with the times of a user.
Passes(u) ==
  /\ requestTimes'[u] = Append(Times(u), now)
  /\ passed'[u] = Append(passed[u], now)
  /\ now' = now /\ lastSeen'[u] = now
Purges(u) ==
  /\ requestTimes'[u] \in {Times(u), requestTimes[u]}
  /\ passed'[u] = passed[u] /\ now' \in {now, now + 1}
  /\ u \in known' =>
       \/ u \in known /\ lastSeen'[u] = lastSeen[u]
       \/ lastSeen'[u] = now /\ now' = now
Forgets(u) ==
  /\ requestTimes'[u] = <<>> /\ u \in known /\ u \notin known' /\ Idle(u)
  /\ passed'[u] = passed[u] /\ now' = now

\* There is nothing else.
LEMMA TimesMove ==
  ASSUME LeaseInv, [Next]_vars, NEW u \in Users
  PROVE  Passes(u) \/ Purges(u) \/ Forgets(u)
  <1>0. /\ TypeOK /\ requestTimes \in [Users -> Seq(Nat)]
        /\ passed \in [Users -> Seq(Nat)] /\ lastSeen \in [Users -> Nat]
    BY DEF LeaseInv, LeaseAccounting, TypeOK
  <1>1. ASSUME NEW v \in Users, RateLimited(v)
        PROVE  Purges(u)
    BY <1>0, <1>1 DEF RateLimited, Touch, Purges
  <1>2. ASSUME NEW v \in Users, Count(v), now' = now
        PROVE  Passes(u) \/ Purges(u)
    BY <1>0, <1>2 DEF Count, Touch, Purges, Passes
  <1>3. ASSUME NEW k \in Tokens, Release(k)
        PROVE  Purges(u)
    <2>1. lastSeen' \in {lastSeen, [lastSeen EXCEPT ![handle[k].user] = now]}
      BY <1>3 DEF Release
    <2>2. lastSeen'[u] \in {lastSeen[u], now}
      BY <1>0, <2>1
    <2>3. QED
      BY <1>3, <2>2 DEF Release, Purges
  <1>4. CASE CleanupIdle
    <2> DEFINE gone == {v \in known : Idle(v)}
    <2>1. /\ known' = known \ gone /\ UNCHANGED <<now, passed>>
          /\ lastSeen'[u] = IF u \in gone THEN 0 ELSE lastSeen[u]
          /\ requestTimes'[u] = CASE u \in gone -> <<>>
                                  [] u \in known \ gone -> Times(u)
                                  [] OTHER -> requestTimes[u]
      BY <1>4 DEF CleanupIdle
    <2>2. CASE u \in gone
      BY <2>1, <2>2 DEF Forgets
    <2>3. CASE u \notin gone
      BY <2>1, <2>3 DEF Purges
    <2>4. QED
      BY <2>2, <2>3
  <1>5. CASE Tick \/ UNCHANGED vars
    BY <1>5 DEF Tick, vars, userVars, Purges
  <1>6. QED
    BY <1>1, <1>2, <1>3, <1>4, <1>5 DEF Next, Refused, Admit

\* Every step keeps what counts.
LEMMA RememberingStep ==
  ASSUME LeaseInv, HistoryTTL >= Window, Remembering, [Next]_vars
  PROVE  Remembering'
  <1> SUFFICES ASSUME NEW u \in Users
               PROVE  /\ \A i \in DOMAIN passed'[u] : passed'[u][i] <= now'
                      /\ u \in known' =>
                           \A i \in DOMAIN passed'[u] : passed'[u][i] <= lastSeen'[u]
                      /\ Keeps(passed'[u], requestTimes'[u], now')
    BY DEF Remembering
  <1> DEFINE p == passed[u]
             r == requestTimes[u]
  <1>1. /\ p \in Seq(Nat) /\ r \in Seq(Nat) /\ now \in Nat /\ lastSeen[u] \in Nat
        /\ DOMAIN p = 1 .. Len(p) /\ Len(p) \in Nat
        /\ \A i \in DOMAIN p : p[i] \in Nat
        /\ Window \in Nat /\ HistoryTTL \in Nat
    BY SettingsArePositive, ElementOfSeq
    DEF LeaseInv, LeaseAccounting, TypeOK, ValidSettings
  <1>2. /\ \A i \in DOMAIN p : p[i] <= now
        /\ u \in known => \A i \in DOMAIN p : p[i] <= lastSeen[u]
        /\ Keeps(p, r, now)
    BY DEF Remembering
  <1>3. Keeps(p, Times(u), now) /\ Times(u) \in Seq(Nat)
    BY <1>1, <1>2, KeepsPurged, PurgeType DEF Times
  <1> HIDE DEF p, r
  <1>4. CASE Passes(u)
    <2> DEFINE q == Append(p, now)
    <2>1. /\ DOMAIN q = 1 .. Len(p) + 1 /\ q[Len(p) + 1] = now
          /\ \A i \in 1 .. Len(p) : q[i] = p[i]
      BY <1>1, AppendProperties
    <2> HIDE DEF q
    <2>2. \A i \in DOMAIN q : q[i] <= now
      BY <1>1, <1>2, <2>1
    <2>3. Keeps(q, Append(Times(u), now), now)
      BY <1>1, <1>3, KeepsAppended DEF q
    <2>4. QED
      BY <1>4, <2>2, <2>3 DEF Passes, p, q
  <1>5. CASE Purges(u)
    <2>1. now' \in Nat /\ now <= now'
      BY <1>1, <1>5 DEF Purges
    <2>2. Keeps(p, Times(u), now') /\ Keeps(p, r, now')
      BY <1>1, <1>2, <1>3, <2>1, KeepsLater
    <2>3. \A i \in DOMAIN p : p[i] <= now'
      BY <1>1, <1>2, <2>1
    <2>4. u \in known' => \A i \in DOMAIN p : p[i] <= lastSeen'[u]
      BY <1>2, <1>5 DEF Purges
    <2>5. QED
      BY <1>5, <2>2, <2>3, <2>4 DEF Purges, p, r
  <1>6. CASE Forgets(u)
    <2>1. \A i \in DOMAIN p : Expired(p[i], now)
      BY <1>1, <1>2, <1>6 DEF Forgets, Idle, Expired
    <2>2. Keeps(p, <<>>, now)
      BY <1>1, <2>1, KeepsNothing
    <2>3. QED
      BY <1>2, <1>6, <2>2 DEF Forgets, p
  <1>7. QED
    BY <1>4, <1>5, <1>6, TimesMove

\* And no window gets too many.
LEMMA WindowStep ==
  ASSUME LeaseInv, LeaseInv', HistoryTTL >= Window, Remembering', RateWindow, [Next]_vars
  PROVE  RateWindow'
  <1> SUFFICES ASSUME NEW u \in Users, NEW at \in 0 .. now'
               PROVE  Cardinality(InWindow(passed'[u], at)) <= RateLimit
    BY DEF RateWindow, InWindow
  <1>1. /\ now \in Nat /\ now' \in Nat /\ RateLimit \in Nat
        /\ passed[u] \in Seq(Nat) /\ passed'[u] \in Seq(Nat)
        /\ Len(requestTimes'[u]) <= RateLimit /\ requestTimes'[u] \in Seq(Nat)
    BY SettingsArePositive DEF LeaseInv, LeaseAccounting, TypeOK, ValidSettings
  <1>2. CASE at = now'
    <2>1. Keeps(passed'[u], requestTimes'[u], now')
      BY DEF Remembering
    <2>2. /\ Cardinality(InWindow(passed'[u], now')) \in Nat
          /\ Cardinality(InWindow(passed'[u], now')) <= Len(requestTimes'[u])
      BY <1>1, <2>1, KeepsCounts
    <2>3. Len(requestTimes'[u]) \in Nat
      BY <1>1
    <2>4. QED
      BY <1>1, <1>2, <2>2, <2>3
  <1>3. CASE at # now'
    <2>1. at \in 0 .. now /\ (now' = now => at < now)
      BY <1>1, <1>3, TimesMove DEF Passes, Purges, Forgets
    <2>2. Cardinality(InWindow(passed[u], at)) <= RateLimit
      BY <2>1 DEF RateWindow, InWindow
    <2>3. InWindow(passed'[u], at) = InWindow(passed[u], at)
      <3>1. CASE Passes(u)
        <4>1. at \in Nat /\ at < now /\ passed'[u] = Append(passed[u], now)
          BY <1>1, <2>1, <3>1 DEF Passes
        <4>2. QED
          BY <1>1, <4>1, WindowStays
      <3>2. CASE Purges(u) \/ Forgets(u)
        BY <3>2 DEF Purges, Forgets
      <3>3. QED
        BY <3>1, <3>2, TimesMove
    <2>4. QED
      BY <2>2, <2>3
  <1>4. QED
    BY <1>2, <1>3

\* At the start nobody has asked for anything.
LEMMA RateInit == Init => RateInv
  <1> SUFFICES ASSUME Init
               PROVE  RateInv
    OBVIOUS
  <1>1. LeaseInv
    BY LeaseInit
  <1>2. ASSUME NEW u \in Users
        PROVE  /\ passed[u] = <<>> /\ requestTimes[u] = <<>> /\ DOMAIN passed[u] = {}
               /\ Keeps(passed[u], requestTimes[u], now)
    <2>1. passed[u] = <<>> /\ requestTimes[u] = <<>> /\ <<>> \in Seq(Nat)
      BY DEF Init
    <2>2. \A i \in DOMAIN <<>> : FALSE
      OBVIOUS
    <2>3. Keeps(<<>>, <<>>, now)
      BY <2>1, <2>2, KeepsNothing
    <2>4. QED
      BY <2>1, <2>2, <2>3
  <1>3. Remembering
    BY <1>2 DEF Remembering
  <1>4. RateWindow
    <2> SUFFICES ASSUME NEW u \in Users, NEW at \in 0 .. now
                 PROVE  Cardinality(InWindow(passed[u], at)) <= RateLimit
      BY DEF RateWindow, InWindow
    <2>1. InWindow(passed[u], at) = {}
      BY <1>2 DEF InWindow
    <2>2. QED
      BY <2>1, FS_EmptySet, SettingsArePositive DEF ValidSettings
  <1>5. QED
    BY <1>1, <1>3, <1>4 DEF RateInv

\* Every step keeps the gate right.
LEMMA RateStep == RateInv /\ [Next]_vars => RateInv'
  <1> SUFFICES ASSUME RateInv, [Next]_vars
               PROVE  RateInv'
    OBVIOUS
  <1>1. LeaseInv'
    BY LeaseStep DEF RateInv
  <1>2. CASE HistoryTTL >= Window
    BY <1>1, <1>2, RememberingStep, WindowStep DEF RateInv
  <1>3. CASE ~ (HistoryTTL >= Window)
    BY <1>1, <1>3 DEF RateInv, RateWindow
  <1>4. QED
    BY <1>2, <1>3

\* No window holds more of a user's requests than the limit, although the gate
\* forgets the idle users, as long as it remembers them for a window.
THEOREM RateWindowIsInvariant == Spec => []RateWindow
  <1>1. RateInv => RateWindow
    BY DEF RateInv
  <1>2. QED
    BY <1>1, RateInit, RateStep, PTL DEF Spec

-----------------------------------------------------------------------------
(* Admission implements the pool of slots.                                  *)

SlotOf(k) == [user |-> handle[k].user, thread |-> handle[k].thread]
Held == {SlotOf(k) : k \in Outstanding}

\* The slots in use are no more than the leases, in all and of each user.
LEMMA SlotsAreLeases ==
  ASSUME LeaseInv, NEW u \in Users
  PROVE  /\ IsFiniteSet(Held) /\ Cardinality(Held) \in Nat
         /\ Cardinality(Held) <= activeProcess
         /\ Cardinality({s \in Held : s.user = u}) \in Nat
         /\ Cardinality({s \in Held : s.user = u}) <= active[u]
  <1> DEFINE Mine == {s \in Held : s.user = u}
             f == [k \in Outstanding |-> SlotOf(k)]
             g == [k \in OutstandingOf(u) |-> SlotOf(k)]
  <1>1. f \in Surjection(Outstanding, Held)
    BY DEF Held, Surjection
  <1>2. g \in Surjection(OutstandingOf(u), Mine)
    <2>1. \A k \in OutstandingOf(u) : SlotOf(k) \in Mine
      BY DEF OutstandingOf, Held, SlotOf
    <2>2. \A s \in Mine : \E k \in OutstandingOf(u) : SlotOf(k) = s
      BY DEF OutstandingOf, Held, SlotOf
    <2>3. QED
      BY <2>1, <2>2 DEF Surjection
  <1> HIDE DEF f, g, Mine
  <1>3. IsFiniteSet(Outstanding) /\ IsFiniteSet(OutstandingOf(u))
    BY OutstandingFinite
  <1>4. IsFiniteSet(Held) /\ Cardinality(Held) <= Cardinality(Outstanding)
    BY <1>1, <1>3, FS_Surjection
  <1>5. IsFiniteSet(Mine) /\ Cardinality(Mine) <= Cardinality(OutstandingOf(u))
    BY <1>2, <1>3, FS_Surjection
  <1>6. /\ activeProcess = Cardinality(Outstanding)
        /\ active[u] = Cardinality(OutstandingOf(u))
    BY DEF LeaseInv, LeaseAccounting
  <1>7. Cardinality(Held) \in Nat /\ Cardinality(Mine) \in Nat
    BY <1>4, <1>5, FS_CardinalityType
  <1>8. QED
    BY <1>4, <1>5, <1>6, <1>7 DEF Mine

\* The pool counts as the rest of the module does.
LEMMA PoolCounts ==
  ASSUME NEW S
  PROVE  Pool!Cardinality(S) = Cardinality(S)
  BY Zenon DEF Pool!Cardinality, Cardinality

\* acquire that admits a task grants a slot.
LEMMA AdmitGrants ==
  ASSUME LeaseInv, NEW u \in Users, NEW t \in Threads, NEW k \in Tokens,
         Admit(u, t, k)
  PROVE  Pool!Grant(u, t)
  <1>1. TypeOK /\ ~ Conflict(u, t)
    BY DEF LeaseInv, LeaseAccounting, Admit
  <1>2. /\ handle'[k] = [user |-> u, thread |-> t, released |-> FALSE]
        /\ Outstanding' = Outstanding \cup {k} /\ k \notin Outstanding
        /\ \A m \in Tokens : m # k => handle'[m] = handle[m]
    BY <1>1, AdmitAdds DEF TypeOK
  <1>3. ASSUME NEW m \in Outstanding
        PROVE  m # k /\ handle'[m] = handle[m] /\ SlotOf(m)' = SlotOf(m)
    BY <1>1, <1>2, OutstandingIs DEF SlotOf
  <1>4. SlotOf(k)' = [user |-> u, thread |-> t]
    BY <1>2 DEF SlotOf
  <1>5. Held' = Held \cup {[user |-> u, thread |-> t]}
    BY <1>2, <1>3, <1>4 DEF Held
  <1>6. \A s \in Held : s.thread # t
    <2> SUFFICES ASSUME NEW m \in Outstanding, handle[m].thread = t
                 PROVE  FALSE
      BY DEF Held, SlotOf
    <2>1. activeThreads[t] = m
      BY <1>1, OutstandingIs DEF LeaseInv, LeaseAccounting
    <2>2. QED
      BY <1>1, <2>1, OutstandingIs, NoneIsNoLease DEF Conflict
  <1>7. /\ active[u] \in Nat /\ active[u] < MaxActivePerUser
        /\ activeProcess \in Nat /\ activeProcess < MaxActiveProcess
    BY <1>1, SettingsArePositive DEF Conflict, TypeOK, ValidSettings
  <1>8. /\ Cardinality({s \in Held : s.user = u}) < MaxActivePerUser
        /\ Cardinality(Held) < MaxActiveProcess
    BY <1>7, SlotsAreLeases, SettingsArePositive DEF ValidSettings
  <1>9. Pool!Grant(u, t) <=>
          /\ \A s \in Held : s.thread # t
          /\ Pool!Cardinality({s \in Held : s.user = u}) < MaxActivePerUser
          /\ Pool!Cardinality(Held) < MaxActiveProcess
          /\ Held' = Held \cup {[user |-> u, thread |-> t]}
    BY Zenon DEF Pool!Grant, Pool!HeldBy, Held, SlotOf
  <1>10. /\ Pool!Cardinality({s \in Held : s.user = u}) < MaxActivePerUser
         /\ Pool!Cardinality(Held) < MaxActiveProcess
    BY <1>8, PoolCounts
  <1>11. QED
    BY <1>5, <1>6, <1>9, <1>10

\* release returns one.
LEMMA ReleaseReturns ==
  ASSUME LeaseInv, NEW k \in Tokens, Release(k),
         NEW u, NEW t, handle[k].user = u, handle[k].thread = t
  PROVE  Pool!Return(u, t)
  <1>1. TypeOK
    BY DEF LeaseInv, LeaseAccounting
  <1>2. /\ k \in Outstanding /\ Outstanding' = Outstanding \ {k}
        /\ \A m \in Tokens : m # k => handle'[m] = handle[m]
    BY <1>1, ReleaseRemoves
  <1>3. ASSUME NEW m \in Outstanding, m # k
        PROVE  SlotOf(m)' = SlotOf(m) /\ SlotOf(m) # SlotOf(k)
    <2>1. handle'[m] = handle[m]
      BY <1>1, <1>2, <1>3, OutstandingIs
    <2>2. handle[m].thread # handle[k].thread
      BY <1>2, <1>3, OneThreadEach DEF LeaseInv
    <2>3. QED
      BY <2>1, <2>2 DEF SlotOf
  <1>4. Held' = Held \ {SlotOf(k)} /\ SlotOf(k) \in Held
    BY <1>2, <1>3 DEF Held
  <1>5. SlotOf(k) = [user |-> u, thread |-> t]
    BY DEF SlotOf
  <1>6. QED
    BY <1>4, <1>5 DEF Pool!Return, Held, SlotOf

\* Nothing else changes the slots in use.
LEMMA PoolStep == LeaseInv /\ [Next]_vars => [Pool!Next]_Held
  <1> SUFFICES ASSUME LeaseInv, [Next]_vars
               PROVE  [Pool!Next]_Held
    OBVIOUS
  <1>1. ASSUME NEW u \in Users, NEW t \in Threads, NEW k \in Tokens, Admit(u, t, k)
        PROVE  Pool!Next
    BY <1>1, AdmitGrants DEF Pool!Next
  <1>2. ASSUME NEW k \in Tokens, Release(k)
        PROVE  Pool!Next
    <2>1. handle[k].user \in Users /\ handle[k].thread \in Threads
      BY <1>2, ReleaseRemoves DEF LeaseInv, LeaseAccounting, Lease
    <2>2. PICK u \in Users, t \in Threads : handle[k].user = u /\ handle[k].thread = t
      BY <2>1
    <2>3. Pool!Return(u, t)
      BY <1>2, <2>2, ReleaseReturns
    <2>4. QED
      BY <2>3 DEF Pool!Next
  <1>3. ASSUME UNCHANGED handle
        PROVE  UNCHANGED Held
    BY <1>3 DEF Held, SlotOf, Outstanding
  <1>4. QED
    BY <1>1, <1>2, <1>3 DEF Next, RateLimited, Refused, CleanupIdle, Tick,
                            vars, slotVars

\* No sequence of requests, releases and cleanups lets more tasks run than
\* the settings allow, nor two on one thread: admission implements the pool.
THEOREM ImplementsLeasePool == Spec => IsLeasePool
  <1>1. Init => Pool!Init
    BY DEF Init, Pool!Init, Outstanding
  <1>2. LeaseInv /\ [Next]_vars => [Pool!Next]_Held
    BY PoolStep
  <1>3. QED
    BY <1>1, <1>2, LeaseInit, LeaseStep, PTL
    DEF Spec, IsLeasePool, Pool!Spec, Held, SlotOf
=============================================================================
