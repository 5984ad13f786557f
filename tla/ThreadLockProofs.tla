--------------------------- MODULE ThreadLockProofs ---------------------------
(***************************************************************************)
(* Theorems about ThreadLock, for any finite set of coroutines and any     *)
(* sets of threads and entries.  Mutual exclusion is not inductive: an     *)
(* entry must not be dropped from the table while a coroutine uses it,     *)
(* which needs the exact count of its users.  At the end, that it is one   *)
(* first-come first-served lock per thread.                                *)
(***************************************************************************)
EXTENDS ThreadLock, FiniteSetTheorems, SequenceTheorems, TLAPS

\* A coroutine that uses an entry has it from the table under its thread.
UsesCurrent ==
  \A p \in Procs :
    /\ pc[p] = "idle" <=> entry[p] = None
    /\ pc[p] # "idle" => thread[p] \in Threads /\ locks[thread[p]] = entry[p]

\* Threads do not share entries.
OneThreadPerEntry ==
  \A t, u \in Threads : locks[t] # None /\ locks[t] = locks[u] => t = u

\* A lock is locked while a coroutine is inside, and one is inside at most.
LockedByOne ==
  /\ \A p \in Procs : pc[p] = "inside" => locked[entry[p]]
  /\ \A p, q \in Procs :
       pc[p] = "inside" /\ pc[q] = "inside" /\ entry[p] = entry[q] => p = q

Inv == TypeOK /\ UsesCurrent /\ OneThreadPerEntry /\ LockedByOne /\ UsersExact

-----------------------------------------------------------------------------
\* What is left of a queue: all but the one at i.
AllBut(r, s, i) ==
  /\ Len(r) = Len(s) - 1
  /\ \A j \in DOMAIN r : r[j] = s[IF j < i THEN j ELSE j + 1]

\* RemoveAt leaves all but the one.
LEMMA RemovedIsAllBut ==
  ASSUME NEW S, NEW s \in Seq(S), NEW i \in DOMAIN s
  PROVE  RemoveAt(s, i) \in Seq(S) /\ AllBut(RemoveAt(s, i), s, i)
  <1> DEFINE a == SubSeq(s, 1, i - 1)
             b == SubSeq(s, i + 1, Len(s))
  <1>1. Len(s) \in Nat /\ i \in 1 .. Len(s)
    BY LenProperties
  <1>2. /\ a \in Seq(S) /\ Len(a) = i - 1
        /\ \A j \in 1 .. i - 1 : a[j] = s[j]
    BY <1>1
  <1>3. /\ b \in Seq(S) /\ Len(b) = Len(s) - i
        /\ \A j \in 1 .. Len(s) - i : b[j] = s[i + j]
    BY <1>1
  <1>4. /\ a \o b \in Seq(S) /\ Len(a \o b) = Len(a) + Len(b)
        /\ \A j \in 1 .. Len(a) + Len(b) :
             (a \o b)[j] = IF j <= Len(a) THEN a[j] ELSE b[j - Len(a)]
    BY <1>2, <1>3, ConcatProperties
  <1>5. RemoveAt(s, i) = a \o b
    BY DEF RemoveAt
  <1> HIDE DEF a, b
  <1> DEFINE r == a \o b
  <1>6. Len(r) = Len(s) - 1 /\ DOMAIN r = 1 .. Len(s) - 1
    BY <1>1, <1>2, <1>3, <1>4, LenProperties
  <1>7. \A j \in 1 .. Len(s) - 1 : r[j] = s[IF j < i THEN j ELSE j + 1]
    <2> SUFFICES ASSUME NEW j \in 1 .. Len(s) - 1
                 PROVE  r[j] = s[IF j < i THEN j ELSE j + 1]
      OBVIOUS
    <2>1. CASE j < i
      <3>1. /\ j \in 1 .. Len(a) + Len(b) /\ j <= Len(a) /\ j \in 1 .. i - 1
        BY <1>1, <1>2, <1>3, <2>1
      <3>2. r[j] = a[j]
        BY <1>4, <3>1
      <3>3. QED
        BY <1>2, <2>1, <3>1, <3>2
    <2>2. CASE ~ (j < i)
      <3> DEFINE k == j - Len(a)
      <3>1. /\ j \in 1 .. Len(a) + Len(b) /\ ~ (j <= Len(a))
            /\ k \in 1 .. Len(s) - i /\ i + k = j + 1
        BY <1>1, <1>2, <1>3, <2>2
      <3>2. r[j] = b[k]
        BY <1>4, <3>1
      <3> HIDE DEF k
      <3>3. b[k] = s[i + k]
        BY <1>3, <3>1
      <3>4. QED
        BY <2>2, <3>1, <3>2, <3>3
    <2>3. QED
      BY <2>1, <2>2
  <1>8. QED
    BY <1>4, <1>5, <1>6, <1>7 DEF AllBut

\* So does Tail, with the first one.
LEMMA TailIsAllBut ==
  ASSUME NEW S, NEW s \in Seq(S), s # <<>>
  PROVE  Tail(s) \in Seq(S) /\ AllBut(Tail(s), s, 1)
  BY HeadTailProperties, LenProperties DEF AllBut

-----------------------------------------------------------------------------
\* The users of an entry are finitely many, and counted.
LEMMA UsersFinite ==
  ASSUME NEW e \in Entries
  PROVE  IsFiniteSet(UsersOf(e)) /\ Cardinality(UsersOf(e)) \in Nat
  <1>1. UsersOf(e) \subseteq Procs
    BY DEF UsersOf
  <1>2. IsFiniteSet(UsersOf(e))
    BY <1>1, FiniteProcs, FS_Subset
  <1>3. QED
    BY <1>2, FS_CardinalityType

\* Coming to use an entry adds one to the number of its users, and to that of
\* no other entry.
LEMMA UserJoins ==
  ASSUME TypeOK, NEW p \in Procs, NEW e \in Entries, entry[p] = None,
         entry' = [entry EXCEPT ![p] = e]
  PROVE  \A f \in Entries :
           Cardinality(UsersOf(f)') =
             Cardinality(UsersOf(f)) + (IF f = e THEN 1 ELSE 0)
  <1> SUFFICES ASSUME NEW f \in Entries
               PROVE  Cardinality(UsersOf(f)') =
                        Cardinality(UsersOf(f)) + (IF f = e THEN 1 ELSE 0)
    OBVIOUS
  <1>1. p \notin UsersOf(f)
    BY NoneIsNoName DEF UsersOf
  <1>2. CASE f = e
    <2>1. UsersOf(f)' = UsersOf(f) \cup {p}
      BY <1>2 DEF UsersOf, TypeOK
    <2>2. QED
      BY <2>1, <1>1, <1>2, UsersFinite, FS_AddElement
  <1>3. CASE f # e
    <2>1. UsersOf(f)' = UsersOf(f)
      BY <1>3, NoneIsNoName DEF UsersOf, TypeOK
    <2>2. QED
      BY <2>1, <1>3, UsersFinite
  <1>4. QED
    BY <1>2, <1>3

\* Ceasing to use it takes one away.
LEMMA UserLeaves ==
  ASSUME TypeOK, NEW p \in Procs, entry[p] \in Entries,
         entry' = [entry EXCEPT ![p] = None]
  PROVE  \A f \in Entries :
           Cardinality(UsersOf(f)') =
             Cardinality(UsersOf(f)) - (IF f = entry[p] THEN 1 ELSE 0)
  <1> SUFFICES ASSUME NEW f \in Entries
               PROVE  Cardinality(UsersOf(f)') =
                        Cardinality(UsersOf(f)) - (IF f = entry[p] THEN 1 ELSE 0)
    OBVIOUS
  <1>1. CASE f = entry[p]
    <2>1. UsersOf(f)' = UsersOf(f) \ {p} /\ p \in UsersOf(f)
      BY <1>1, NoneIsNoName DEF UsersOf, TypeOK
    <2>2. QED
      BY <2>1, <1>1, UsersFinite, FS_RemoveElement
  <1>2. CASE f # entry[p]
    <2>1. UsersOf(f)' = UsersOf(f)
      BY <1>2, NoneIsNoName DEF UsersOf, TypeOK
    <2>2. QED
      BY <2>1, <1>2, UsersFinite
  <1>3. QED
    BY <1>1, <1>2

\* The last user of an entry is its only one.
LEMMA LastUserIsAlone ==
  ASSUME Inv, NEW p \in Procs, entry[p] \in Entries, LastUser(entry[p]),
         NEW q \in Procs, entry[q] = entry[p]
  PROVE  q = p
  <1> DEFINE S == UsersOf(entry[p])
  <1>1. IsFiniteSet(S) /\ Cardinality(S) \in Nat
    BY UsersFinite
  <1>2. Cardinality(S) <= 1
    BY <1>1 DEF Inv, UsersExact, LastUser, TypeOK
  <1>3. p \in S /\ q \in S
    BY DEF UsersOf
  <1>4. IsFiniteSet(S \ {p}) /\ Cardinality(S \ {p}) = Cardinality(S) - 1
    BY <1>1, <1>3, FS_RemoveElement
  <1>5. S \ {p} = {}
    <2>1. Cardinality(S \ {p}) = 0
      BY <1>1, <1>2, <1>4, FS_CardinalityType
    <2>2. QED
      BY <2>1, <1>4, FS_EmptySet
  <1>6. QED
    BY <1>3, <1>5

-----------------------------------------------------------------------------
\* Type correctness of each step.
LEMMA TypeStep == Inv /\ [Next]_vars => TypeOK'
  <1> SUFFICES ASSUME Inv, [Next]_vars
               PROVE  TypeOK'
    OBVIOUS
  <1> USE DEF TypeOK
  <1>1. TypeOK
    BY DEF Inv
  <1>2. ASSUME NEW p \in Procs, NEW t \in Threads, NEW e \in Entries,
               Enter(p, t, e)
        PROVE  TypeOK'
    BY <1>1, <1>2 DEF Enter, LookUp
  <1>3. ASSUME NEW p \in Procs, NEW t \in Threads, NEW e \in Entries,
               EnterAndWait(p, t, e)
        PROVE  TypeOK'
    BY <1>1, <1>3 DEF EnterAndWait, LookUp
  <1>4. ASSUME NEW p \in Procs, Resume(p)
        PROVE  TypeOK'
    <2>1. entry[p] \in Entries
      BY <1>1, <1>4, NoneIsNoName DEF Resume, Inv, UsesCurrent
    <2>2. Tail(waiters[entry[p]]) \in Seq(Procs)
      BY <1>1, <1>4, <2>1 DEF Resume
    <2>3. QED
      BY <1>1, <1>4, <2>1, <2>2 DEF Resume
  <1>5. ASSUME NEW p \in Procs, Exit(p)
        PROVE  TypeOK'
    <2>1. entry[p] \in Entries
      BY <1>1, <1>5, NoneIsNoName DEF Exit, Inv, UsesCurrent
    <2>2. users[entry[p]] \in Nat /\ users[entry[p]] >= 1
      <3>1. locks[thread[p]] = entry[p] /\ thread[p] \in Threads
        BY <1>5 DEF Exit, Inv, UsesCurrent
      <3>2. users[locks[thread[p]]] > 0
        BY <2>1, <3>1, NoneIsNoName DEF Inv, UsersExact
      <3>3. users[entry[p]] \in Nat
        BY <1>1, <2>1
      <3>4. QED
        BY <3>1, <3>2, <3>3
    <2>3. locks' \in [Threads -> Entries \cup {None}]
      BY <1>1, <1>5 DEF Exit, Dropped, LastUser
    <2>4. users' \in [Entries -> Nat] /\ locked' \in [Entries -> BOOLEAN]
      BY <1>1, <1>5, <2>1, <2>2 DEF Exit
    <2>5. /\ pc' \in [Procs -> {"idle", "waiting", "inside"}]
          /\ thread' \in [Procs -> Threads \cup {None}]
          /\ entry' \in [Procs -> Entries \cup {None}]
      BY <1>1, <1>5 DEF Exit
    <2>6. waiters' \in [Entries -> Seq(Procs)] /\ abandoned' \in [Entries -> Nat]
      BY <1>1, <1>5 DEF Exit
    <2>7. QED
      BY <2>3, <2>4, <2>5, <2>6
  <1>6. ASSUME NEW p \in Procs, Cancel(p)
        PROVE  TypeOK'
    <2>1. entry[p] \in Entries
      BY <1>1, <1>6, NoneIsNoName DEF Cancel, Inv, UsesCurrent
    <2>2. PICK i \in DOMAIN waiters[entry[p]] :
            waiters' = [waiters EXCEPT ![entry[p]] = RemoveAt(waiters[entry[p]], i)]
      BY <1>6 DEF Cancel
    <2>3. waiters[entry[p]] \in Seq(Procs)
      BY <1>1, <2>1
    <2>4. RemoveAt(waiters[entry[p]], i) \in Seq(Procs)
      BY <2>3, RemovedIsAllBut
    <2>5. waiters' \in [Entries -> Seq(Procs)]
      BY <1>1, <2>2, <2>4
    <2>6. abandoned' \in [Entries -> Nat]
      BY <1>1, <1>6, <2>1 DEF Cancel
    <2>7. QED
      BY <1>1, <1>6, <2>5, <2>6 DEF Cancel
  <1>7. CASE UNCHANGED vars
    BY <1>1, <1>7 DEF vars
  <1>8. QED
    BY <1>2, <1>3, <1>4, <1>5, <1>6, <1>7 DEF Next

-----------------------------------------------------------------------------
\* A coroutine that looks up its entry keeps the table and the count right,
\* whether it then goes inside or waits.
LEMMA LookUpKeeps ==
  ASSUME Inv, NEW p \in Procs, NEW t \in Threads, NEW e \in Entries,
         LookUp(p, t, e), NEW where \in {"waiting", "inside"},
         pc' = [pc EXCEPT ![p] = where], abandoned' = abandoned
  PROVE  UsesCurrent' /\ OneThreadPerEntry' /\ UsersExact'
  <1> USE DEF LookUp
  <1>1. TypeOK /\ pc[p] = "idle" /\ entry[p] = None
    BY DEF Inv, UsesCurrent
  <1>2. \A u \in Threads : u # t => locks[u] # e
    BY NoneIsNoName
      DEF SetDefault, New, Inv, OneThreadPerEntry
  <1>3. \A q \in Procs : pc[q] # "idle" /\ thread[q] = t => entry[q] = e
    <2> SUFFICES ASSUME NEW q \in Procs, pc[q] # "idle", thread[q] = t
                 PROVE  entry[q] = e
      OBVIOUS
    <2>1. locks[t] = entry[q] /\ entry[q] # None
      BY DEF Inv, UsesCurrent
    <2>2. QED
      BY <2>1 DEF SetDefault
  <1>4. UsesCurrent'
    <2> SUFFICES ASSUME NEW q \in Procs
                 PROVE  /\ pc'[q] = "idle" <=> entry'[q] = None
                        /\ pc'[q] # "idle" => /\ thread'[q] \in Threads
                                              /\ locks'[thread'[q]] = entry'[q]
      BY DEF UsesCurrent
    <2>1. CASE q = p
      BY <1>1, <2>1, NoneIsNoName DEF TypeOK
    <2>2. CASE q # p
      <3>1. pc'[q] = pc[q] /\ entry'[q] = entry[q] /\ thread'[q] = thread[q]
        BY <1>1, <2>2 DEF TypeOK
      <3>2. /\ pc[q] = "idle" <=> entry[q] = None
            /\ pc[q] # "idle" => /\ thread[q] \in Threads
                                 /\ locks[thread[q]] = entry[q]
        BY DEF Inv, UsesCurrent
      <3>3. pc[q] # "idle" => locks'[thread[q]] = entry[q]
        BY <1>1, <1>3, <3>2 DEF TypeOK
      <3>4. QED
        BY <3>1, <3>2, <3>3
    <2>3. QED
      BY <2>1, <2>2
  <1>5. OneThreadPerEntry'
    BY <1>1, <1>2 DEF OneThreadPerEntry, Inv, TypeOK
  <1>6. UsersExact'
    <2>1. \A f \in Entries :
            Cardinality(UsersOf(f)') =
              Cardinality(UsersOf(f)) + (IF f = e THEN 1 ELSE 0)
      BY <1>1, UserJoins
    <2>2. \A f \in Entries : users'[f] = users[f] + (IF f = e THEN 1 ELSE 0)
      BY <1>1 DEF TypeOK
    <2>3. \A f \in Entries :
            users'[f] = Cardinality(UsersOf(f)') + abandoned'[f]
      <3> SUFFICES ASSUME NEW f \in Entries
                   PROVE  users'[f] = Cardinality(UsersOf(f)') + abandoned'[f]
        OBVIOUS
      <3>1. /\ users[f] = Cardinality(UsersOf(f)) + abandoned[f]
            /\ abandoned[f] \in Nat
        BY <1>1 DEF Inv, UsersExact, TypeOK
      <3>2. Cardinality(UsersOf(f)) \in Nat
        BY UsersFinite
      <3>3. QED
        BY <2>1, <2>2, <3>1, <3>2
    <2>4. \A u \in Threads : locks'[u] # None => users'[locks'[u]] > 0
      <3> SUFFICES ASSUME NEW u \in Threads, locks'[u] # None
                   PROVE  users'[locks'[u]] > 0
        OBVIOUS
      <3>1. CASE u = t
        <4>1. locks'[u] = e /\ users[e] \in Nat
          BY <1>1, <3>1 DEF TypeOK
        <4>2. QED
          BY <2>2, <4>1
      <3>2. CASE u # t
        <4>1. locks'[u] = locks[u] /\ locks[u] \in Entries
          BY <1>1, <3>2 DEF TypeOK
        <4>2. users[locks[u]] > 0 /\ users[locks[u]] \in Nat
          BY <1>1, <4>1, NoneIsNoName DEF Inv, UsersExact, TypeOK
        <4>3. QED
          BY <2>2, <4>1, <4>2
      <3>3. QED
        BY <3>1, <3>2
    <2>5. QED
      BY <2>3, <2>4 DEF UsersExact, UsersOf
  <1>7. QED
    BY <1>4, <1>5, <1>6

\* Going inside an unlocked lock locks it for one.
LEMMA GoingInsideKeeps ==
  ASSUME Inv, NEW p \in Procs, NEW e \in Entries,
         pc[p] # "inside", ~ locked[e],
         entry' = [entry EXCEPT ![p] = e],
         locked' = [locked EXCEPT ![e] = TRUE],
         pc' = [pc EXCEPT ![p] = "inside"]
  PROVE  LockedByOne'
  <1>1. TypeOK
    BY DEF Inv
  <1>2. \A q \in Procs : q # p /\ pc'[q] = "inside" =>
          /\ pc[q] = "inside" /\ entry'[q] = entry[q] /\ entry[q] \in Entries
          /\ locked[entry[q]] /\ entry[q] # e
    BY <1>1, NoneIsNoName DEF Inv, LockedByOne, UsesCurrent, TypeOK
  <1>3. entry'[p] = e
    BY <1>1 DEF TypeOK
  <1>4. \A q \in Procs : pc'[q] = "inside" => locked'[entry'[q]]
    BY <1>1, <1>2, <1>3 DEF TypeOK
  <1>5. \A q, r \in Procs :
          pc'[q] = "inside" /\ pc'[r] = "inside" /\ entry'[q] = entry'[r]
            => q = r
    BY <1>2, <1>3 DEF Inv, LockedByOne
  <1>6. QED
    BY <1>4, <1>5 DEF LockedByOne

\* A coroutine that stops using its entry keeps all parts of the invariant;
\* the entry is dropped only with its last user.
LEMMA LeavingKeeps ==
  ASSUME Inv, NEW p \in Procs, pc[p] # "idle",
         pc' = [pc EXCEPT ![p] = "idle"],
         entry' = [entry EXCEPT ![p] = None],
         thread' = [thread EXCEPT ![p] = None],
         \/ locks' = locks
         \/ LastUser(entry[p]) /\ locks' = [locks EXCEPT ![thread[p]] = None]
  PROVE  UsesCurrent' /\ OneThreadPerEntry'
  <1>1. TypeOK
    BY DEF Inv
  <1>2. /\ entry[p] \in Entries
        /\ thread[p] \in Threads
        /\ locks[thread[p]] = entry[p]
    BY <1>1, NoneIsNoName DEF Inv, UsesCurrent, TypeOK
  <1>3. UsesCurrent'
    <2> SUFFICES ASSUME NEW q \in Procs
                 PROVE  /\ pc'[q] = "idle" <=> entry'[q] = None
                        /\ pc'[q] # "idle" => /\ thread'[q] \in Threads
                                              /\ locks'[thread'[q]] = entry'[q]
      BY DEF UsesCurrent
    <2>1. CASE q = p
      BY <1>1, <2>1 DEF TypeOK
    <2>2. CASE q # p
      <3>1. pc'[q] = pc[q] /\ entry'[q] = entry[q] /\ thread'[q] = thread[q]
        BY <1>1, <2>2 DEF TypeOK
      <3>2. /\ pc[q] = "idle" <=> entry[q] = None
            /\ pc[q] # "idle" => /\ thread[q] \in Threads
                                 /\ locks[thread[q]] = entry[q]
        BY DEF Inv, UsesCurrent
      <3>3. pc[q] # "idle" => locks'[thread[q]] = locks[thread[q]]
        <4>1. LastUser(entry[p]) /\ pc[q] # "idle" => thread[q] # thread[p]
          BY <1>2, <2>2, <3>2, LastUserIsAlone
        <4>2. QED
          BY <1>1, <1>2, <3>2, <4>1 DEF TypeOK
      <3>4. QED
        BY <3>1, <3>2, <3>3
    <2>3. QED
      BY <2>1, <2>2
  <1>4. OneThreadPerEntry'
    <2>1. \A u \in Threads : locks'[u] # None => locks'[u] = locks[u]
      BY <1>1, <1>2 DEF TypeOK
    <2>2. QED
      BY <2>1 DEF Inv, OneThreadPerEntry
  <1>5. QED
    BY <1>3, <1>4

-----------------------------------------------------------------------------
\* Each action keeps the invariant: entering a free lock,
LEMMA EnterKeeps ==
  ASSUME Inv, NEW p \in Procs, NEW t \in Threads, NEW e \in Entries,
         Enter(p, t, e)
  PROVE  UsesCurrent' /\ OneThreadPerEntry' /\ LockedByOne' /\ UsersExact'
  <1>1. UsesCurrent' /\ OneThreadPerEntry' /\ UsersExact'
    BY LookUpKeeps DEF Enter
  <1>2. LockedByOne'
    BY GoingInsideKeeps DEF Enter, LookUp, Free
  <1>3. QED
    BY <1>1, <1>2

\* waiting for one,
LEMMA EnterAndWaitKeeps ==
  ASSUME Inv, NEW p \in Procs, NEW t \in Threads, NEW e \in Entries,
         EnterAndWait(p, t, e)
  PROVE  UsesCurrent' /\ OneThreadPerEntry' /\ LockedByOne' /\ UsersExact'
  <1>1. UsesCurrent' /\ OneThreadPerEntry' /\ UsersExact'
    BY LookUpKeeps DEF EnterAndWait
  <1>2. LockedByOne'
    BY DEF EnterAndWait, LookUp, Inv, LockedByOne, TypeOK
  <1>3. QED
    BY <1>1, <1>2

\* waking up,
LEMMA ResumeKeeps ==
  ASSUME Inv, NEW p \in Procs, Resume(p)
  PROVE  UsesCurrent' /\ OneThreadPerEntry' /\ LockedByOne' /\ UsersExact'
  <1> USE DEF Resume
  <1>1. entry[p] \in Entries
    BY NoneIsNoName DEF Inv, UsesCurrent, TypeOK
  <1>2. UsesCurrent' /\ OneThreadPerEntry'
    BY DEF Inv, UsesCurrent, OneThreadPerEntry, TypeOK
  <1>3. LockedByOne'
    <2>1. entry' = [entry EXCEPT ![p] = entry[p]]
      BY DEF Inv, TypeOK
    <2>2. QED
      BY <1>1, <2>1, GoingInsideKeeps
  <1>4. UsersExact'
    BY DEF Inv, UsersExact, UsersOf
  <1>5. QED
    BY <1>2, <1>3, <1>4

\* leaving,
LEMMA ExitKeeps ==
  ASSUME Inv, NEW p \in Procs, Exit(p)
  PROVE  UsesCurrent' /\ OneThreadPerEntry' /\ LockedByOne' /\ UsersExact'
  <1> DEFINE e == entry[p]
  <1>1. TypeOK
    BY DEF Inv
  <1>2. /\ e \in Entries /\ thread[p] \in Threads /\ locks[thread[p]] = e
        /\ pc[p] = "inside"
    BY <1>1, NoneIsNoName DEF Inv, UsesCurrent, TypeOK, Exit
  <1>3. UsesCurrent' /\ OneThreadPerEntry'
    BY <1>2, LeavingKeeps DEF Exit, Dropped
  <1>4. LockedByOne'
    <2>1. \A q \in Procs : pc'[q] = "inside" =>
            /\ q # p /\ pc[q] = "inside" /\ entry'[q] = entry[q]
            /\ entry[q] # e /\ locked[entry[q]]
      BY <1>1, <1>2 DEF Inv, LockedByOne, TypeOK, Exit
    <2>2. \A q \in Procs : pc'[q] = "inside" => locked'[entry'[q]]
      <3> SUFFICES ASSUME NEW q \in Procs, pc'[q] = "inside"
                   PROVE  locked'[entry'[q]]
        OBVIOUS
      <3>1. entry[q] \in Entries
        BY <1>1, <2>1, NoneIsNoName DEF Inv, UsesCurrent, TypeOK
      <3>2. QED
        BY <1>1, <2>1, <3>1 DEF TypeOK, Exit
    <2>3. QED
      BY <2>1, <2>2 DEF Inv, LockedByOne
  <1>5. UsersExact'
    <2>1. \A f \in Entries :
            Cardinality(UsersOf(f)') =
              Cardinality(UsersOf(f)) - (IF f = e THEN 1 ELSE 0)
      BY <1>1, <1>2, UserLeaves DEF Exit
    <2>2. \A f \in Entries : users'[f] = users[f] - (IF f = e THEN 1 ELSE 0)
      BY <1>1, <1>2 DEF TypeOK, Exit
    <2>3. \A f \in Entries :
            users'[f] = Cardinality(UsersOf(f)') + abandoned'[f]
      <3> SUFFICES ASSUME NEW f \in Entries
                   PROVE  users'[f] = Cardinality(UsersOf(f)') + abandoned'[f]
        OBVIOUS
      <3>1. /\ users[f] = Cardinality(UsersOf(f)) + abandoned[f]
            /\ abandoned[f] \in Nat /\ abandoned' = abandoned
        BY <1>1 DEF Inv, UsersExact, TypeOK, Exit
      <3>2. Cardinality(UsersOf(f)) \in Nat
        BY UsersFinite
      <3>3. QED
        BY <2>1, <2>2, <3>1, <3>2
    <2>4. \A u \in Threads : locks'[u] # None => users'[locks'[u]] > 0
      <3> SUFFICES ASSUME NEW u \in Threads, locks'[u] # None
                   PROVE  users'[locks'[u]] > 0
        OBVIOUS
      <3>1. locks'[u] = locks[u]
        BY <1>1, <1>2 DEF TypeOK, Exit, Dropped
      <3>2. locks[u] \in Entries
        BY <1>1, <3>1 DEF TypeOK
      <3>3. users[locks[u]] > 0 /\ users[locks[u]] \in Nat
        BY <1>1, <3>1, <3>2 DEF Inv, UsersExact, TypeOK
      <3>4. locks[u] = e => users[e] # 1
        <4> SUFFICES ASSUME locks[u] = e, users[e] = 1
                     PROVE  FALSE
          OBVIOUS
        <4>1. u = thread[p]
          BY <1>2, <3>1 DEF Inv, OneThreadPerEntry
        <4>2. locks' = [locks EXCEPT ![thread[p]] = None]
          BY DEF Exit, Dropped, LastUser
        <4>3. QED
          BY <1>1, <1>2, <4>1, <4>2 DEF TypeOK
      <3>5. QED
        BY <2>2, <3>1, <3>2, <3>3, <3>4
    <2>5. QED
      BY <2>3, <2>4 DEF UsersExact, UsersOf
  <1>6. QED
    BY <1>3, <1>4, <1>5

\* and being cancelled while waiting.
LEMMA CancelKeeps ==
  ASSUME Inv, NEW p \in Procs, Cancel(p)
  PROVE  UsesCurrent' /\ OneThreadPerEntry' /\ LockedByOne' /\ UsersExact'
  <1> DEFINE e == entry[p]
  <1>1. TypeOK
    BY DEF Inv
  <1>2. e \in Entries /\ pc[p] = "waiting"
    BY <1>1, NoneIsNoName DEF Inv, UsesCurrent, TypeOK, Cancel
  <1>3. UsesCurrent' /\ OneThreadPerEntry'
    BY <1>2, LeavingKeeps DEF Cancel
  <1>4. LockedByOne'
    BY <1>1, <1>2 DEF Inv, LockedByOne, TypeOK, Cancel
  <1>5. UsersExact'
    <2>1. \A f \in Entries :
            Cardinality(UsersOf(f)') =
              Cardinality(UsersOf(f)) - (IF f = e THEN 1 ELSE 0)
      BY <1>1, <1>2, UserLeaves DEF Cancel
    <2>2. \A f \in Entries :
            abandoned'[f] = abandoned[f] + (IF f = e THEN 1 ELSE 0)
      BY <1>1, <1>2 DEF TypeOK, Cancel
    <2>3. \A f \in Entries :
            users'[f] = Cardinality(UsersOf(f)') + abandoned'[f]
      <3> SUFFICES ASSUME NEW f \in Entries
                   PROVE  users'[f] = Cardinality(UsersOf(f)') + abandoned'[f]
        OBVIOUS
      <3>1. /\ users[f] = Cardinality(UsersOf(f)) + abandoned[f]
            /\ abandoned[f] \in Nat /\ users' = users
        BY <1>1 DEF Inv, UsersExact, TypeOK, Cancel
      <3>2. Cardinality(UsersOf(f)) \in Nat
        BY UsersFinite
      <3>3. QED
        BY <2>1, <2>2, <3>1, <3>2
    <2>4. \A u \in Threads : locks'[u] # None => users'[locks'[u]] > 0
      BY DEF Inv, UsersExact, Cancel
    <2>5. QED
      BY <2>3, <2>4 DEF UsersExact, UsersOf
  <1>6. QED
    BY <1>3, <1>4, <1>5

-----------------------------------------------------------------------------
\* The invariant holds before the first call of locked()
LEMMA InitInv == Init => Inv
  <1> SUFFICES ASSUME Init
               PROVE  Inv
    OBVIOUS
  <1>1. TypeOK
    BY DEF Init, TypeOK
  <1>2. UsesCurrent /\ OneThreadPerEntry /\ LockedByOne
    BY DEF Init, UsesCurrent, OneThreadPerEntry, LockedByOne
  <1>3. \A e \in Entries : UsersOf(e) = {}
    BY NoneIsNoName DEF Init, UsersOf
  <1>4. \A e \in Entries : Cardinality(UsersOf(e)) = 0
    BY <1>3, FS_EmptySet
  <1>5. UsersExact
    BY <1>4 DEF Init, UsersExact
  <1>6. QED
    BY <1>1, <1>2, <1>5 DEF Inv

\* and after every step.
LEMMA InvStep == Inv /\ [Next]_vars => Inv'
  <1> SUFFICES ASSUME Inv, [Next]_vars
               PROVE  Inv'
    OBVIOUS
  <1>1. TypeOK'
    BY TypeStep DEF Inv
  <1>2. UsesCurrent' /\ OneThreadPerEntry' /\ LockedByOne' /\ UsersExact'
    <2>1. ASSUME NEW p \in Procs, NEW t \in Threads, NEW e \in Entries,
                 Enter(p, t, e)
          PROVE  UsesCurrent' /\ OneThreadPerEntry' /\ LockedByOne' /\ UsersExact'
      BY <2>1, EnterKeeps
    <2>2. ASSUME NEW p \in Procs, NEW t \in Threads, NEW e \in Entries,
                 EnterAndWait(p, t, e)
          PROVE  UsesCurrent' /\ OneThreadPerEntry' /\ LockedByOne' /\ UsersExact'
      BY <2>2, EnterAndWaitKeeps
    <2>3. ASSUME NEW p \in Procs, Resume(p)
          PROVE  UsesCurrent' /\ OneThreadPerEntry' /\ LockedByOne' /\ UsersExact'
      BY <2>3, ResumeKeeps
    <2>4. ASSUME NEW p \in Procs, Exit(p)
          PROVE  UsesCurrent' /\ OneThreadPerEntry' /\ LockedByOne' /\ UsersExact'
      BY <2>4, ExitKeeps
    <2>5. ASSUME NEW p \in Procs, Cancel(p)
          PROVE  UsesCurrent' /\ OneThreadPerEntry' /\ LockedByOne' /\ UsersExact'
      BY <2>5, CancelKeeps
    <2>6. CASE UNCHANGED vars
      BY <2>6 DEF vars, Inv, UsesCurrent, OneThreadPerEntry, LockedByOne,
                  UsersExact, UsersOf
    <2>7. QED
      BY <2>1, <2>2, <2>3, <2>4, <2>5, <2>6 DEF Next
  <1>3. QED
    BY <1>1, <1>2 DEF Inv

\* The inductive invariant holds in every reachable state of locked(), for
\* any number of coroutines and threads and however many waiters are
\* cancelled.
THEOREM Invariance == Spec => []Inv
  BY InitInv, InvStep, PTL DEF Spec

\* TaskService.locked keeps its table, its counters and its waiters of the
\* right kind.
THEOREM TypeCorrect == Spec => []TypeOK
  <1>1. Inv => TypeOK
    BY DEF Inv
  <1>2. QED
    BY <1>1, Invariance, PTL

\* Two coroutines are never inside locked() for one thread, whatever entries
\* were created, counted, dropped and created again meanwhile.
THEOREM MutualExclusionHolds == Spec => []MutualExclusion
  <1>1. Inv => MutualExclusion
    BY DEF Inv, UsesCurrent, LockedByOne, MutualExclusion
  <1>2. QED
    BY <1>1, Invariance, PTL

\* The entry a coroutine holds or waits for stays the one in the table, so
\* a newcomer finds it.
THEOREM EntryIsCurrentHolds == Spec => []EntryIsCurrent
  <1>1. Inv => EntryIsCurrent
    BY DEF Inv, TypeOK, UsesCurrent, EntryIsCurrent
  <1>2. QED
    BY <1>1, Invariance, PTL

\* users counts the coroutines that use the entry and the waiters that were
\* cancelled, exactly.
THEOREM UsersExactHolds == Spec => []UsersExact
  <1>1. Inv => UsersExact
    BY DEF Inv
  <1>2. QED
    BY <1>1, Invariance, PTL

-----------------------------------------------------------------------------
(* locked() implements one lock per thread, first come first served.        *)

\* Whoever is queued at an entry waits for it, once; and a locked lock has its
\* owner.
WaitersWait ==
  \A e \in Entries : \A i \in DOMAIN waiters[e] :
    pc[waiters[e][i]] = "waiting" /\ entry[waiters[e][i]] = e
WaitOnce ==
  \A e \in Entries : \A i, j \in DOMAIN waiters[e] :
    waiters[e][i] = waiters[e][j] => i = j
LockedHasOwner ==
  \A e \in Entries :
    locked[e] => \E p \in Procs : pc[p] = "inside" /\ entry[p] = e

QueueInv == Inv /\ WaitersWait /\ WaitOnce /\ LockedHasOwner

-----------------------------------------------------------------------------
\* A new or current entry that is looked up: nobody queues at it under another
\* thread, and if it is new, nobody queues at it.
LEMMA LookedUpEntry ==
  ASSUME QueueInv, NEW p \in Procs, NEW t \in Threads, NEW e \in Entries,
         LookUp(p, t, e)
  PROVE  /\ \A u \in Threads : u # t => locks[u] # e
         /\ locks[t] = None => waiters[e] = <<>> /\ ~ locked[e]
         /\ locks[t] # None => locks[t] = e
  <1>1. TypeOK
    BY DEF QueueInv, Inv
  <1>2. \A u \in Threads : u # t => locks[u] # e
    BY NoneIsNoName DEF QueueInv, LookUp, SetDefault, New, Inv, OneThreadPerEntry
  <1>3. ASSUME locks[t] = None
        PROVE  waiters[e] = <<>> /\ ~ locked[e]
    <2>1. \A q \in Procs : entry[q] # e
      BY <1>3 DEF LookUp, SetDefault, New
    <2>2. ~ locked[e]
      BY <2>1 DEF QueueInv, LockedHasOwner
    <2>3. waiters[e] \in Seq(Procs)
      BY <1>1 DEF TypeOK
    <2>4. ASSUME waiters[e] # <<>>
          PROVE  FALSE
      <3>1. 1 \in DOMAIN waiters[e] /\ waiters[e][1] \in Procs
        BY <2>3, <2>4
      <3>2. QED
        BY <2>1, <3>1 DEF QueueInv, WaitersWait
    <2>5. QED
      BY <2>2, <2>4
  <1>4. QED
    BY <1>2, <1>3 DEF LookUp, SetDefault

\* One who is not waiting is in no queue.
LEMMA NotWaiting ==
  ASSUME QueueInv, NEW p \in Procs, pc[p] # "waiting", NEW e \in Entries,
         NEW i \in DOMAIN waiters[e]
  PROVE  waiters[e][i] # p
  BY DEF QueueInv, WaitersWait

\* Queues of entries a step does not touch, when it moves p alone.
LEMMA OtherQueues ==
  ASSUME QueueInv, NEW p \in Procs, NEW e \in Entries,
         TypeOK',
         \A q \in Procs : q # p => pc'[q] = pc[q] /\ entry'[q] = entry[q],
         \A f \in Entries : f # e => waiters'[f] = waiters[f],
         pc[p] = "waiting" => entry[p] = e,
         \A i \in DOMAIN waiters'[e] :
           IF waiters'[e][i] = p
           THEN pc'[p] = "waiting" /\ entry'[p] = e
           ELSE \E j \in DOMAIN waiters[e] : waiters'[e][i] = waiters[e][j],
         \A i, j \in DOMAIN waiters'[e] : waiters'[e][i] = waiters'[e][j] => i = j
  PROVE  WaitersWait' /\ WaitOnce'
  <1>1. \A f \in Entries : waiters[f] \in Seq(Procs) /\ waiters'[f] \in Seq(Procs)
    BY DEF QueueInv, Inv, TypeOK
  <1>2. ASSUME NEW f \in Entries, NEW i \in DOMAIN waiters'[f]
        PROVE  pc'[waiters'[f][i]] = "waiting" /\ entry'[waiters'[f][i]] = f
    <2> DEFINE w == waiters'[f][i]
    <2>1. w \in Procs
      BY <1>1, <1>2
    <2>2. CASE f = e /\ w = p
      <3>1. \A k \in DOMAIN waiters'[e] :
              waiters'[e][k] = p => pc'[p] = "waiting" /\ entry'[p] = e
        OBVIOUS
      <3>2. i \in DOMAIN waiters'[e] /\ waiters'[e][i] = p
        BY <1>2, <2>2
      <3>3. QED
        BY <2>2, <3>1, <3>2
    <2>3. CASE f = e /\ w # p
      <3>1. PICK j \in DOMAIN waiters[e] : w = waiters[e][j]
        BY <2>3
      <3>2. pc[w] = "waiting" /\ entry[w] = e
        BY <3>1 DEF QueueInv, WaitersWait
      <3>3. QED
        BY <2>1, <2>3, <3>2
    <2>4. CASE f # e
      <3>1. pc[w] = "waiting" /\ entry[w] = f
        BY <1>2, <2>4 DEF QueueInv, WaitersWait
      <3>2. w # p
        BY <2>4, <3>1
      <3>3. QED
        BY <2>1, <3>1, <3>2
    <2>5. QED
      BY <2>2, <2>3, <2>4
  <1>3. ASSUME NEW f \in Entries, NEW i \in DOMAIN waiters'[f],
               NEW j \in DOMAIN waiters'[f], waiters'[f][i] = waiters'[f][j]
        PROVE  i = j
    <2>1. CASE f = e
      BY <1>3, <2>1
    <2>2. CASE f # e
      BY <1>3, <2>2 DEF QueueInv, WaitOnce
    <2>3. QED
      BY <2>1, <2>2
  <1>4. QED
    BY <1>2, <1>3 DEF WaitersWait, WaitOnce

-----------------------------------------------------------------------------
\* Joining a queue and leaving it, from its head or from its middle, keep who
\* waits there.
LEMMA QueueKept ==
  ASSUME QueueInv, TypeOK', NEW p \in Procs, NEW e \in Entries,
         \/ \E t \in Threads : EnterAndWait(p, t, e)
         \/ (Resume(p) \/ Cancel(p)) /\ entry[p] = e
  PROVE  WaitersWait' /\ WaitOnce'
  <1>1. TypeOK /\ waiters[e] \in Seq(Procs)
    BY DEF QueueInv, Inv, TypeOK
  <1>2. CASE \E t \in Threads : EnterAndWait(p, t, e)
    <2>1. PICK t \in Threads : EnterAndWait(p, t, e)
      BY <1>2
    <2>2. /\ pc' = [pc EXCEPT ![p] = "waiting"] /\ pc[p] = "idle"
          /\ entry' = [entry EXCEPT ![p] = e]
          /\ waiters' = [waiters EXCEPT ![e] = Append(waiters[e], p)]
      BY <2>1 DEF EnterAndWait, LookUp
    <2>3. /\ waiters'[e] = Append(waiters[e], p)
          /\ \A f \in Entries : f # e => waiters'[f] = waiters[f]
          /\ pc'[p] = "waiting" /\ entry'[p] = e
          /\ \A q \in Procs : q # p => pc'[q] = pc[q] /\ entry'[q] = entry[q]
      BY <1>1, <2>2 DEF TypeOK
    <2>4. /\ DOMAIN waiters'[e] = 1 .. Len(waiters[e]) + 1
          /\ DOMAIN waiters[e] = 1 .. Len(waiters[e]) /\ Len(waiters[e]) \in Nat
          /\ waiters'[e][Len(waiters[e]) + 1] = p
          /\ \A i \in 1 .. Len(waiters[e]) : waiters'[e][i] = waiters[e][i]
      BY <1>1, <2>3, AppendProperties, LenProperties
    <2>5. \A i \in DOMAIN waiters[e] : waiters[e][i] # p
      BY <2>2, NotWaiting
    <2>6. \A i \in DOMAIN waiters'[e] :
            IF waiters'[e][i] = p
            THEN pc'[p] = "waiting" /\ entry'[p] = e
            ELSE \E j \in DOMAIN waiters[e] : waiters'[e][i] = waiters[e][j]
      BY <2>3, <2>4
    <2>7. \A i, j \in DOMAIN waiters'[e] : waiters'[e][i] = waiters'[e][j] => i = j
      <3>1. \A i, j \in DOMAIN waiters[e] : waiters[e][i] = waiters[e][j] => i = j
        BY DEF QueueInv, WaitOnce
      <3>2. \A i \in DOMAIN waiters'[e] :
              \/ i = Len(waiters[e]) + 1
              \/ /\ i \in DOMAIN waiters[e] /\ waiters'[e][i] = waiters[e][i]
                 /\ waiters[e][i] # p
        BY <2>4, <2>5
      <3>3. waiters'[e][Len(waiters[e]) + 1] = p
        BY <2>4
      <3>4. QED
        BY <3>1, <3>2, <3>3
    <2>8. QED
      BY <2>2, <2>3, <2>6, <2>7, OtherQueues
  <1>3. CASE (Resume(p) \/ Cancel(p)) /\ entry[p] = e
    <2>1. PICK i \in DOMAIN waiters[e] :
            /\ waiters[e][i] = p /\ AllBut(waiters'[e], waiters[e], i)
            /\ \A f \in Entries : f # e => waiters'[f] = waiters[f]
      <3>1. CASE Resume(p)
        <4>1. /\ waiters[e] # <<>> /\ Head(waiters[e]) = p
              /\ waiters' = [waiters EXCEPT ![e] = Tail(waiters[e])]
          BY <1>3, <3>1 DEF Resume
        <4>2. AllBut(Tail(waiters[e]), waiters[e], 1)
          BY <1>1, <4>1, TailIsAllBut
        <4>3. 1 \in DOMAIN waiters[e] /\ waiters[e][1] = p
          BY <1>1, <4>1
        <4>4. waiters'[e] = Tail(waiters[e])
          BY <1>1, <4>1 DEF TypeOK
        <4>5. \A f \in Entries : f # e => waiters'[f] = waiters[f]
          BY <1>1, <4>1 DEF TypeOK
        <4>6. QED
          BY <4>2, <4>3, <4>4, <4>5
      <3>2. CASE Cancel(p)
        <4>1. PICK i \in DOMAIN waiters[e] :
                /\ waiters[e][i] = p
                /\ waiters' = [waiters EXCEPT ![e] = RemoveAt(waiters[e], i)]
          BY <1>3, <3>2 DEF Cancel
        <4>2. AllBut(RemoveAt(waiters[e], i), waiters[e], i)
          BY <1>1, RemovedIsAllBut
        <4>3. waiters'[e] = RemoveAt(waiters[e], i)
          BY <1>1, <4>1 DEF TypeOK
        <4>4. \A f \in Entries : f # e => waiters'[f] = waiters[f]
          BY <1>1, <4>1 DEF TypeOK
        <4>5. QED
          BY <4>1, <4>2, <4>3, <4>4
      <3>3. QED
        BY <1>3, <3>1, <3>2
    <2>2. /\ \A q \in Procs : q # p => pc'[q] = pc[q] /\ entry'[q] = entry[q]
          /\ pc[p] = "waiting"
      BY <1>1, <1>3 DEF Resume, Cancel, TypeOK
    <2>3. /\ Len(waiters[e]) \in Nat /\ DOMAIN waiters[e] = 1 .. Len(waiters[e])
          /\ DOMAIN waiters'[e] = 1 .. Len(waiters[e]) - 1
      <3>1. waiters'[e] \in Seq(Procs)
        BY DEF TypeOK
      <3>2. QED
        BY <1>1, <2>1, <3>1, LenProperties DEF AllBut
    <2>4. \A j, k \in DOMAIN waiters[e] : waiters[e][j] = waiters[e][k] => j = k
      BY DEF QueueInv, WaitOnce
    <2>5. \A j \in DOMAIN waiters'[e] :
            LET k == IF j < i THEN j ELSE j + 1
            IN  k \in DOMAIN waiters[e] /\ k # i /\ waiters'[e][j] = waiters[e][k]
      BY <2>1, <2>3 DEF AllBut
    <2>6. \A j \in DOMAIN waiters'[e] :
            /\ waiters'[e][j] # p
            /\ \E k \in DOMAIN waiters[e] : waiters'[e][j] = waiters[e][k]
      BY <2>1, <2>4, <2>5
    <2>7. \A j, k \in DOMAIN waiters'[e] : waiters'[e][j] = waiters'[e][k] => j = k
      BY <2>3, <2>4, <2>5
    <2>8. QED
      BY <1>3, <2>1, <2>2, <2>6, <2>7, OtherQueues
  <1>4. QED
    BY <1>2, <1>3

\* Steps that leave the queues alone move nobody who waits.
LEMMA QueueStays ==
  ASSUME QueueInv, NEW p \in Procs,
         Exit(p) \/ \E t \in Threads, e \in Entries : Enter(p, t, e)
  PROVE  WaitersWait' /\ WaitOnce'
  <1>1. TypeOK
    BY DEF QueueInv, Inv
  <1>2. /\ waiters' = waiters /\ pc[p] # "waiting"
        /\ \A q \in Procs : q # p => pc'[q] = pc[q] /\ entry'[q] = entry[q]
    BY <1>1 DEF Exit, Enter, LookUp, TypeOK
  <1>3. ASSUME NEW e \in Entries, NEW i \in DOMAIN waiters[e]
        PROVE  pc'[waiters[e][i]] = "waiting" /\ entry'[waiters[e][i]] = e
    <2>1. waiters[e][i] \in Procs
      BY <1>1 DEF TypeOK
    <2>2. pc[waiters[e][i]] = "waiting" /\ entry[waiters[e][i]] = e
      BY DEF QueueInv, WaitersWait
    <2>3. QED
      BY <1>2, <2>1, <2>2
  <1>4. QED
    BY <1>2, <1>3 DEF QueueInv, WaitersWait, WaitOnce

\* A lock is locked by the one who goes inside, and unlocked by him.
LEMMA OwnerStep ==
  ASSUME QueueInv, [Next]_vars
  PROVE  LockedHasOwner'
  <1>1. TypeOK
    BY DEF QueueInv, Inv
  <1>2. ASSUME NEW p \in Procs, NEW e \in Entries,
               pc[p] # "inside", pc' = [pc EXCEPT ![p] = "inside"],
               entry' = [entry EXCEPT ![p] = e],
               locked' = [locked EXCEPT ![e] = TRUE]
        PROVE  LockedHasOwner'
    <2>1. /\ pc'[p] = "inside" /\ entry'[p] = e
          /\ \A f \in Entries : f # e => locked'[f] = locked[f]
          /\ \A q \in Procs : q # p => pc'[q] = pc[q] /\ entry'[q] = entry[q]
      BY <1>1, <1>2 DEF TypeOK
    <2>2. QED
      BY <1>2, <2>1 DEF QueueInv, LockedHasOwner
  <1>3. ASSUME NEW p \in Procs, pc[p] # "inside", locked' = locked,
               \A q \in Procs : q # p => pc'[q] = pc[q] /\ entry'[q] = entry[q]
        PROVE  LockedHasOwner'
    BY <1>3 DEF QueueInv, LockedHasOwner
  <1>4. ASSUME NEW p \in Procs, NEW t \in Threads, NEW e \in Entries, Enter(p, t, e)
        PROVE  LockedHasOwner'
    BY <1>2, <1>4 DEF Enter, LookUp
  <1>5. ASSUME NEW p \in Procs, Resume(p)
        PROVE  LockedHasOwner'
    <2>1. entry[p] \in Entries /\ pc[p] = "waiting"
      BY <1>1, <1>5, NoneIsNoName DEF Resume, QueueInv, Inv, UsesCurrent, TypeOK
    <2>2. entry' = [entry EXCEPT ![p] = entry[p]]
      BY <1>1, <1>5 DEF Resume, TypeOK
    <2>3. QED
      BY <1>2, <1>5, <2>1, <2>2 DEF Resume
  <1>6. ASSUME NEW p \in Procs, Exit(p)
        PROVE  LockedHasOwner'
    <2>1. entry[p] \in Entries
      BY <1>1, <1>6, NoneIsNoName DEF Exit, QueueInv, Inv, UsesCurrent, TypeOK
    <2>2. /\ ~ locked'[entry[p]]
          /\ \A f \in Entries : f # entry[p] => locked'[f] = locked[f]
          /\ \A q \in Procs : q # p => pc'[q] = pc[q] /\ entry'[q] = entry[q]
      BY <1>1, <1>6, <2>1 DEF Exit, TypeOK
    <2>3. QED
      BY <2>1, <2>2 DEF QueueInv, LockedHasOwner
  <1>7. ASSUME NEW p \in Procs,
               Cancel(p) \/ \E t \in Threads, e \in Entries : EnterAndWait(p, t, e)
        PROVE  LockedHasOwner'
    <2>1. /\ pc[p] # "inside" /\ locked' = locked
          /\ \A q \in Procs : q # p => pc'[q] = pc[q] /\ entry'[q] = entry[q]
      BY <1>1, <1>7 DEF Cancel, EnterAndWait, LookUp, TypeOK
    <2>2. QED
      BY <1>3, <2>1
  <1>8. CASE UNCHANGED vars
    BY <1>8 DEF vars, QueueInv, LockedHasOwner
  <1>9. QED
    BY <1>4, <1>5, <1>6, <1>7, <1>8 DEF Next

\* At the start nobody waits.
LEMMA QueueInit == Init => QueueInv
  BY InitInv DEF Init, QueueInv, WaitersWait, WaitOnce, LockedHasOwner

\* Every step keeps the queues.
LEMMA QueueStep == QueueInv /\ [Next]_vars => QueueInv'
  <1> SUFFICES ASSUME QueueInv, [Next]_vars
               PROVE  QueueInv'
    OBVIOUS
  <1>1. Inv' /\ TypeOK'
    BY InvStep DEF QueueInv, Inv
  <1>2. WaitersWait' /\ WaitOnce'
    <2>1. ASSUME NEW p \in Procs, Resume(p) \/ Cancel(p)
          PROVE  WaitersWait' /\ WaitOnce'
      <3>1. entry[p] \in Entries
        BY <2>1, NoneIsNoName
        DEF Resume, Cancel, QueueInv, Inv, UsesCurrent, TypeOK
      <3>2. QED
        BY <1>1, <2>1, <3>1, QueueKept
    <2>2. ASSUME NEW p \in Procs, NEW t \in Threads, NEW e \in Entries,
                 EnterAndWait(p, t, e)
          PROVE  WaitersWait' /\ WaitOnce'
      BY <1>1, <2>2, QueueKept
    <2>3. CASE UNCHANGED vars
      BY <2>3 DEF vars, QueueInv, WaitersWait, WaitOnce
    <2>4. QED
      BY <2>1, <2>2, <2>3, QueueStays DEF Next
  <1>3. QED
    BY <1>1, <1>2, OwnerStep DEF QueueInv

-----------------------------------------------------------------------------
(* Every step is one of the abstract lock, or none of it.                   *)

\* The owner is the one inside; the lock is free of owners when it is unlocked.
LEMMA OwnerIs ==
  ASSUME Inv, NEW t \in Threads
  PROVE  /\ \A p \in Procs : pc[p] = "inside" /\ thread[p] = t <=> OwnerOf(t) = p
         /\ OwnerOf(t) = None <=> Inside(t) = {}
         /\ OwnerOf(t) \in Procs \cup {None}
  <1>1. \A p, q \in Inside(t) : p = q
    BY DEF Inv, UsesCurrent, LockedByOne, Inside
  <1>2. Inside(t) # {} => OwnerOf(t) \in Inside(t)
    BY DEF OwnerOf
  <1>3. Inside(t) = {} => OwnerOf(t) = None
    BY DEF OwnerOf
  <1>4. QED
    BY <1>1, <1>2, <1>3, NoneIsNoName DEF Inside

\* What waits in a queue of the abstract lock.
LEMMA QueuedIs ==
  ASSUME QueueInv, NEW t \in Threads
  PROVE  /\ QueueOf(t) \in Seq(Procs)
         /\ \A i \in DOMAIN QueueOf(t) :
              /\ pc[QueueOf(t)[i]] = "waiting"
              /\ locks[t] \in Entries /\ entry[QueueOf(t)[i]] = locks[t]
  <1>1. TypeOK
    BY DEF QueueInv, Inv
  <1>2. CASE locks[t] = None
    <2>1. QueueOf(t) = <<>>
      BY <1>2 DEF QueueOf
    <2>2. QED
      BY <2>1
  <1>3. CASE locks[t] # None
    <2>1. QueueOf(t) = waiters[locks[t]] /\ locks[t] \in Entries
      BY <1>1, <1>3 DEF QueueOf, TypeOK
    <2>2. QED
      BY <1>1, <2>1 DEF TypeOK, QueueInv, WaitersWait
  <1>4. QED
    BY <1>2, <1>3

\* A coroutine that is idle is away from every lock.
LEMMA IdleIsAway ==
  ASSUME QueueInv, NEW p \in Procs, pc[p] = "idle", NEW t \in Threads
  PROVE  OwnerOf(t) # p /\ \A i \in DOMAIN QueueOf(t) : QueueOf(t)[i] # p
  <1>1. OwnerOf(t) # p
    BY OwnerIs DEF QueueInv
  <1>2. \A i \in DOMAIN QueueOf(t) : QueueOf(t)[i] # p
    BY QueuedIs
  <1>3. QED
    BY <1>1, <1>2

\* The one inside moves in, out, or stays.
LEMMA OwnersMove ==
  ASSUME Inv, Inv', NEW p \in Procs, NEW t \in Threads,
         \A q \in Procs : q # p => pc'[q] = pc[q] /\ thread'[q] = thread[q],
         pc[p] = "inside" => thread[p] = t,
         pc'[p] = "inside" => thread'[p] = t
  PROVE  /\ \A u \in Threads : u # t => OwnerOf(u)' = OwnerOf(u)
         /\ pc'[p] = "inside" => OwnerOf(t)' = p
         /\ pc[p] = "inside" /\ pc'[p] # "inside" => OwnerOf(t)' = None
         /\ pc[p] # "inside" /\ pc'[p] # "inside" => OwnerOf(t)' = OwnerOf(t)
  <1>1. \A u \in Threads : u # t => Inside(u)' = Inside(u)
    BY DEF Inside
  <1>2. \A u \in Threads : u # t => OwnerOf(u)' = OwnerOf(u)
    <2> SUFFICES ASSUME NEW u \in Threads, u # t
                 PROVE  OwnerOf(u)' = OwnerOf(u)
      OBVIOUS
    <2>1. Inside(u)' = Inside(u)
      BY <1>1
    <2>2. QED
      BY <2>1 DEF OwnerOf
  <1>3. ASSUME pc'[p] = "inside"
        PROVE  OwnerOf(t)' = p
    <2>1. p \in Inside(t)'
      BY <1>3 DEF Inside
    <2>2. \A q \in Inside(t)' : q = p
      BY <2>1 DEF Inv, UsesCurrent, LockedByOne, Inside
    <2>3. QED
      BY <2>1, <2>2 DEF OwnerOf
  <1>4. ASSUME pc[p] = "inside", pc'[p] # "inside"
        PROVE  OwnerOf(t)' = None
    <2>1. \A q \in Inside(t) : q = p
      BY <1>4 DEF Inv, UsesCurrent, LockedByOne, Inside
    <2>2. Inside(t)' = {}
      BY <1>4, <2>1 DEF Inside
    <2>3. QED
      BY <2>2 DEF OwnerOf
  <1>5. ASSUME pc[p] # "inside", pc'[p] # "inside"
        PROVE  OwnerOf(t)' = OwnerOf(t)
    <2>1. Inside(t)' = Inside(t)
      BY <1>5 DEF Inside
    <2>2. QED
      BY <2>1 DEF OwnerOf
  <1>6. QED
    BY <1>2, <1>3, <1>4, <1>5

\* The queue of a thread follows that of its entry.
LEMMA QueuesMove ==
  ASSUME QueueInv, NEW t \in Threads, NEW e \in Entries,
         \A u \in Threads : u # t => locks'[u] = locks[u] /\ locks[u] # e,
         \A f \in Entries : f # e => waiters'[f] = waiters[f]
  PROVE  \A u \in Threads : u # t => QueueOf(u)' = QueueOf(u)
  <1> SUFFICES ASSUME NEW u \in Threads, u # t
               PROVE  QueueOf(u)' = QueueOf(u)
    OBVIOUS
  <1>1. locks'[u] = locks[u] /\ locks[u] \in Entries \cup {None} /\ locks[u] # e
    BY DEF QueueInv, Inv, TypeOK
  <1>2. CASE locks[u] = None
    BY <1>1, <1>2 DEF QueueOf
  <1>3. CASE locks[u] # None
    <2>1. locks[u] \in Entries /\ waiters'[locks[u]] = waiters[locks[u]]
      BY <1>1, <1>3
    <2>2. QED
      BY <1>1, <1>3, <2>1 DEF QueueOf
  <1>4. QED
    BY <1>2, <1>3

\* The owners change at one thread,
LEMMA OwnersExcept ==
  ASSUME NEW t \in Threads, NEW x,
         \A u \in Threads : u # t => OwnerOf(u)' = OwnerOf(u),
         OwnerOf(t)' = x
  PROVE  Owners' = [Owners EXCEPT ![t] = x]
  BY DEF Owners
\* and so do the queues.
LEMMA QueuesExcept ==
  ASSUME NEW t \in Threads, NEW x,
         \A u \in Threads : u # t => QueueOf(u)' = QueueOf(u),
         QueueOf(t)' = x
  PROVE  Queues' = [Queues EXCEPT ![t] = x]
  BY DEF Queues

\* The lock of a thread as the abstract one sees it.
LEMMA SeenAs ==
  \A t \in Threads : Owners[t] = OwnerOf(t) /\ Queues[t] = QueueOf(t)
  BY DEF Owners, Queues

-----------------------------------------------------------------------------
\* Facts about a coroutine that is not idle.
LEMMA AtItsLock ==
  ASSUME Inv, NEW p \in Procs, pc[p] # "idle"
  PROVE  /\ thread[p] \in Threads /\ entry[p] \in Entries
         /\ locks[thread[p]] = entry[p] /\ entry[p] # None
         /\ \A u \in Threads : u # thread[p] => locks[u] # entry[p]
         /\ QueueOf(thread[p]) = waiters[entry[p]]
  <1>1. /\ thread[p] \in Threads /\ entry[p] \in Entries
        /\ locks[thread[p]] = entry[p] /\ entry[p] # None
    BY NoneIsNoName DEF Inv, UsesCurrent, TypeOK
  <1>2. \A u \in Threads : u # thread[p] => locks[u] # entry[p]
    BY <1>1 DEF Inv, OneThreadPerEntry
  <1>3. QED
    BY <1>1, <1>2 DEF QueueOf

\* An unlocked lock has no owner, and a locked one has.
LEMMA OwnedIfLocked ==
  ASSUME QueueInv, NEW t \in Threads
  PROVE  /\ locks[t] = None => OwnerOf(t) = None
         /\ locks[t] \in Entries => (OwnerOf(t) # None <=> locked[locks[t]])
  <1>1. ASSUME OwnerOf(t) # None
        PROVE  locks[t] # None /\ locked[locks[t]]
    <2>1. PICK q \in Procs : pc[q] = "inside" /\ thread[q] = t
      BY <1>1, OwnerIs DEF QueueInv, Inside
    <2>2. QED
      BY <2>1, AtItsLock DEF QueueInv, Inv, LockedByOne
  <1>2. ASSUME locks[t] \in Entries, locked[locks[t]]
        PROVE  OwnerOf(t) # None
    <2>1. PICK q \in Procs : pc[q] = "inside" /\ entry[q] = locks[t]
      BY <1>2 DEF QueueInv, LockedHasOwner
    <2>2. thread[q] = t
      BY <2>1, AtItsLock DEF QueueInv
    <2>3. QED
      BY <2>1, <2>2, OwnerIs, NoneIsNoName DEF QueueInv
  <1>3. QED
    BY <1>1, <1>2

\* locked() of a free lock takes it.
LEMMA EnterTakes ==
  ASSUME QueueInv, Inv', NEW p \in Procs, NEW t \in Threads, NEW e \in Entries,
         Enter(p, t, e)
  PROVE  Locks!Take(p, t)
  <1>1. TypeOK /\ pc[p] = "idle"
    BY DEF QueueInv, Inv, Enter, LookUp
  <1>2. /\ \A u \in Threads : u # t => locks[u] # e
        /\ locks[t] # None => locks[t] = e
    BY LookedUpEntry DEF Enter
  <1>3. /\ pc'[p] = "inside" /\ thread'[p] = t
        /\ \A q \in Procs : q # p => pc'[q] = pc[q] /\ thread'[q] = thread[q]
        /\ locks'[t] = e /\ \A u \in Threads : u # t => locks'[u] = locks[u]
        /\ waiters' = waiters /\ ~ locked[e] /\ waiters[e] = <<>>
    BY <1>1 DEF Enter, LookUp, TypeOK, Free
  <1>4. Locks!Away(p)
    BY <1>1, IdleIsAway, SeenAs DEF Locks!Away
  <1>5. OwnerOf(t) = None
    BY <1>2, <1>3, OwnedIfLocked
  <1>6. QueueOf(t) = <<>>
    BY <1>2, <1>3 DEF QueueOf
  <1>7. Owners' = [Owners EXCEPT ![t] = p]
    BY <1>1, <1>3, OwnersMove, OwnersExcept DEF QueueInv
  <1>8. Queues' = Queues
    <2>1. QueueOf(t)' = QueueOf(t)
      BY <1>3, <1>6, NoneIsNoName DEF QueueOf
    <2>2. \A u \in Threads : u # t => QueueOf(u)' = QueueOf(u)
      BY <1>2, <1>3, QueuesMove
    <2>3. \A u \in Threads : QueueOf(u)' = QueueOf(u)
      BY <2>1, <2>2
    <2>4. QED
      BY <2>3 DEF Queues
  <1>9. QED
    BY <1>4, <1>5, <1>6, <1>7, <1>8, SeenAs DEF Locks!Take

\* Otherwise it queues.
LEMMA EnterQueues ==
  ASSUME QueueInv, Inv', NEW p \in Procs, NEW t \in Threads, NEW e \in Entries,
         EnterAndWait(p, t, e)
  PROVE  Locks!Wait(p, t)
  <1>1. TypeOK /\ pc[p] = "idle"
    BY DEF QueueInv, Inv, EnterAndWait, LookUp
  <1>2. /\ \A u \in Threads : u # t => locks[u] # e
        /\ locks[t] = None => waiters[e] = <<>> /\ ~ locked[e]
        /\ locks[t] # None => locks[t] = e
    BY LookedUpEntry DEF EnterAndWait
  <1>3. /\ pc'[p] = "waiting"
        /\ locked[e] \/ waiters[e] # <<>>
        /\ \A q \in Procs : q # p => pc'[q] = pc[q] /\ thread'[q] = thread[q]
        /\ locks'[t] = e /\ \A u \in Threads : u # t => locks'[u] = locks[u]
        /\ waiters'[e] = Append(waiters[e], p)
        /\ \A f \in Entries : f # e => waiters'[f] = waiters[f]
    BY <1>1 DEF EnterAndWait, LookUp, TypeOK, Free
  <1>4. Locks!Away(p)
    BY <1>1, IdleIsAway, SeenAs DEF Locks!Away
  <1>5. locks[t] = e /\ QueueOf(t) = waiters[e]
    BY <1>2, <1>3, NoneIsNoName DEF QueueOf
  <1>6. OwnerOf(t) # None \/ QueueOf(t) # <<>>
    BY <1>3, <1>5, OwnedIfLocked
  <1>7. Owners' = Owners
    <2>1. \A u \in Threads : OwnerOf(u)' = OwnerOf(u)
      BY <1>1, <1>3, OwnersMove DEF QueueInv
    <2>2. QED
      BY <2>1 DEF Owners
  <1>8. Queues' = [Queues EXCEPT ![t] = Append(QueueOf(t), p)]
    <2>1. QueueOf(t)' = Append(QueueOf(t), p)
      BY <1>3, <1>5, NoneIsNoName DEF QueueOf
    <2>2. \A u \in Threads : u # t => QueueOf(u)' = QueueOf(u)
      BY <1>2, <1>3, QueuesMove
    <2>3. QED
      BY <2>1, <2>2, QueuesExcept
  <1>9. QED
    BY <1>4, <1>6, <1>7, <1>8, SeenAs DEF Locks!Wait

\* The waiter that is woken is granted the lock.
LEMMA ResumeIsGranted ==
  ASSUME QueueInv, Inv', NEW p \in Procs, Resume(p)
  PROVE  \E t \in Threads : Locks!Grant(t)
  <1>1. TypeOK /\ pc[p] = "waiting" /\ Inv
    BY DEF QueueInv, Inv, Resume
  <1>2. PICK t \in Threads, e \in Entries :
          /\ t = thread[p] /\ e = entry[p]
          /\ locks[t] = e /\ QueueOf(t) = waiters[e]
          /\ \A u \in Threads : u # t => locks[u] # e
    BY <1>1, AtItsLock
  <1>3. /\ pc'[p] = "inside" /\ thread' = thread /\ locks' = locks
        /\ \A q \in Procs : q # p => pc'[q] = pc[q]
        /\ ~ locked[e] /\ waiters[e] # <<>> /\ Head(waiters[e]) = p
        /\ waiters'[e] = Tail(waiters[e])
        /\ \A f \in Entries : f # e => waiters'[f] = waiters[f]
    BY <1>1, <1>2 DEF Resume, TypeOK
  <1>4. OwnerOf(t) = None
    BY <1>2, <1>3, OwnedIfLocked
  <1>5. Owners' = [Owners EXCEPT ![t] = p]
    <2>1. /\ \A u \in Threads : u # t => OwnerOf(u)' = OwnerOf(u)
          /\ OwnerOf(t)' = p
      BY <1>1, <1>2, <1>3, OwnersMove
    <2>2. QED
      BY <2>1, OwnersExcept
  <1>6. Queues' = [Queues EXCEPT ![t] = Tail(QueueOf(t))]
    <2>1. QueueOf(t)' = Tail(QueueOf(t))
      BY <1>2, <1>3, NoneIsNoName DEF QueueOf
    <2>2. \A u \in Threads : u # t => QueueOf(u)' = QueueOf(u)
      BY <1>2, <1>3, QueuesMove
    <2>3. QED
      BY <2>1, <2>2, QueuesExcept
  <1>7. Locks!Grant(t)
    BY <1>2, <1>3, <1>4, <1>5, <1>6, SeenAs DEF Locks!Grant
  <1>8. QED
    BY <1>7

\* Leaving the lock gives it back, whether its entry is dropped or not: nobody
\* queues at an entry that is dropped.
LEMMA ExitLeaves ==
  ASSUME QueueInv, Inv', NEW p \in Procs, Exit(p)
  PROVE  \E t \in Threads : Locks!Leave(t)
  <1>1. TypeOK /\ pc[p] = "inside" /\ Inv
    BY DEF QueueInv, Inv, Exit
  <1>2. PICK t \in Threads, e \in Entries :
          /\ t = thread[p] /\ e = entry[p]
          /\ locks[t] = e /\ QueueOf(t) = waiters[e]
          /\ \A u \in Threads : u # t => locks[u] # e
    BY <1>1, AtItsLock
  <1>3. /\ pc'[p] = "idle" /\ waiters' = waiters
        /\ \A q \in Procs : q # p => pc'[q] = pc[q] /\ thread'[q] = thread[q]
        /\ \A u \in Threads : u # t => locks'[u] = locks[u]
        /\ locks'[t] = e \/ (locks'[t] = None /\ LastUser(e))
    BY <1>1, <1>2 DEF Exit, Dropped, TypeOK
  <1>4. OwnerOf(t) # None
    BY <1>1, <1>2, OwnerIs, NoneIsNoName
  <1>5. Owners' = [Owners EXCEPT ![t] = None]
    <2>1. /\ \A u \in Threads : u # t => OwnerOf(u)' = OwnerOf(u)
          /\ OwnerOf(t)' = None
      BY <1>1, <1>2, <1>3, OwnersMove
    <2>2. QED
      BY <2>1, OwnersExcept
  <1>6. LastUser(e) => waiters[e] = <<>>
    <2> SUFFICES ASSUME LastUser(e), waiters[e] # <<>>
                 PROVE  FALSE
      OBVIOUS
    <2>1. waiters[e] \in Seq(Procs)
      BY <1>1 DEF TypeOK
    <2>2. 1 \in DOMAIN waiters[e] /\ waiters[e][1] \in Procs
      BY <2>1
    <2>3. pc[waiters[e][1]] = "waiting" /\ entry[waiters[e][1]] = e
      BY <2>2 DEF QueueInv, WaitersWait
    <2>4. waiters[e][1] = p
      BY <1>1, <1>2, <2>2, <2>3, LastUserIsAlone
    <2>5. QED
      BY <1>1, <2>3, <2>4
  <1>7. Queues' = Queues
    <2>1. QueueOf(t)' = QueueOf(t)
      BY <1>2, <1>3, <1>6, NoneIsNoName DEF QueueOf
    <2>2. \A u \in Threads : u # t => QueueOf(u)' = QueueOf(u)
      BY <1>2, <1>3, QueuesMove
    <2>3. \A u \in Threads : QueueOf(u)' = QueueOf(u)
      BY <2>1, <2>2
    <2>4. QED
      BY <2>3 DEF Queues
  <1>8. Locks!Leave(t)
    BY <1>4, <1>5, <1>7, SeenAs DEF Locks!Leave
  <1>9. QED
    BY <1>8

\* A waiter that is cancelled gives up its place.
LEMMA CancelGivesUp ==
  ASSUME QueueInv, Inv', NEW p \in Procs, Cancel(p)
  PROVE  \E t \in Threads : Locks!GiveUp(p, t)
  <1>1. TypeOK /\ pc[p] = "waiting" /\ Inv
    BY DEF QueueInv, Inv, Cancel
  <1>2. PICK t \in Threads, e \in Entries :
          /\ t = thread[p] /\ e = entry[p]
          /\ locks[t] = e /\ QueueOf(t) = waiters[e]
          /\ \A u \in Threads : u # t => locks[u] # e
    BY <1>1, AtItsLock
  <1>3. PICK i \in DOMAIN waiters[e] :
          /\ waiters[e][i] = p
          /\ waiters' = [waiters EXCEPT ![e] = RemoveAt(waiters[e], i)]
    BY <1>2 DEF Cancel
  <1>4. /\ pc'[p] = "idle" /\ locks' = locks
        /\ \A q \in Procs : q # p => pc'[q] = pc[q] /\ thread'[q] = thread[q]
        /\ waiters'[e] = RemoveAt(waiters[e], i)
        /\ \A f \in Entries : f # e => waiters'[f] = waiters[f]
    BY <1>1, <1>2, <1>3 DEF Cancel, TypeOK
  <1>5. Owners' = Owners
    <2>1. \A u \in Threads : OwnerOf(u)' = OwnerOf(u)
      BY <1>1, <1>2, <1>4, OwnersMove
    <2>2. QED
      BY <2>1 DEF Owners
  <1>6. Queues' = [Queues EXCEPT ![t] = RemoveAt(QueueOf(t), i)]
    <2>1. QueueOf(t)' = RemoveAt(QueueOf(t), i)
      BY <1>2, <1>4, NoneIsNoName DEF QueueOf
    <2>2. \A u \in Threads : u # t => QueueOf(u)' = QueueOf(u)
      BY <1>2, <1>4, QueuesMove
    <2>3. QED
      BY <2>1, <2>2, QueuesExcept
  <1>7. Locks!RemoveAt(QueueOf(t), i) = RemoveAt(QueueOf(t), i)
    BY DEF Locks!RemoveAt, RemoveAt
  <1>8. Locks!GiveUp(p, t)
    BY <1>2, <1>3, <1>5, <1>6, <1>7, SeenAs DEF Locks!GiveUp
  <1>9. QED
    BY <1>8

-----------------------------------------------------------------------------
\* Every step is a step of the abstract lock or none of it.
LEMMA LocksStep == QueueInv /\ [Next]_vars => [Locks!Next]_<<Owners, Queues>>
  <1> SUFFICES ASSUME QueueInv, [Next]_vars
               PROVE  [Locks!Next]_<<Owners, Queues>>
    OBVIOUS
  <1>1. Inv'
    BY InvStep DEF QueueInv
  <1>2. ASSUME NEW p \in Procs, NEW t \in Threads, NEW e \in Entries,
               Enter(p, t, e) \/ EnterAndWait(p, t, e)
        PROVE  Locks!Next
    BY <1>1, <1>2, EnterTakes, EnterQueues DEF Locks!Next
  <1>3. ASSUME NEW p \in Procs, Resume(p) \/ Exit(p) \/ Cancel(p)
        PROVE  Locks!Next
    BY <1>1, <1>3, ResumeIsGranted, ExitLeaves, CancelGivesUp DEF Locks!Next
  <1>4. ASSUME UNCHANGED vars
        PROVE  UNCHANGED <<Owners, Queues>>
    BY <1>4 DEF vars, Owners, Queues, OwnerOf, QueueOf, Inside
  <1>5. QED
    BY <1>2, <1>3, <1>4 DEF Next

\* TaskService.locked, with its table of entries that come and go and its
\* counters, behaves as one first-come first-served lock per Thread that exists
\* for ever: the safety part of IsFifoLocks.
THEOREM ImplementsFifoLocks == Spec => Locks!Safety
  <1>1. Init => Locks!Init
    BY DEF Init, Locks!Init, Owners, Queues, OwnerOf, QueueOf, Inside
  <1>2. QueueInv /\ [Next]_vars => [Locks!Next]_<<Owners, Queues>>
    BY LocksStep
  <1>3. QED
    BY <1>1, <1>2, QueueInit, QueueStep, PTL DEF Spec, Locks!Safety
=============================================================================
