------------------------------ MODULE Admission ------------------------------
(***************************************************************************)
(* api/admission.py: TaskAdmission, the in-memory gate every task passes.  *)
(* acquire() applies a sliding-window rate limit per user, then three      *)
(* limits on running tasks (one per thread, some per user, some in the     *)
(* process) and hands out a TaskLease; release() gives it back.  Each      *)
(* method holds the RLock from its first read to its last write, so each   *)
(* is one action.  The clock is counted in ticks, SecondTicks to a second. *)
(*                                                                         *)
(* A token stands for the uuid4 of a lease object somebody still refers    *)
(* to: once its holder has released a lease, the object may be dropped and *)
(* the name be taken for a later lease.                                    *)
(***************************************************************************)
EXTENDS Integers, Sequences, FiniteSets

CONSTANTS
  Users, Threads, Tokens,
  None,                \* not a lease
  MaxActivePerUser, MaxActiveProcess,
  RateLimit, Window,   \* requests per user in Window ticks
  HistoryTTL,          \* idle ticks after which a user may be forgotten
  SecondTicks,         \* ticks in one second of the clock
  MaxTime              \* bound: the clock stops here

ValidSettings ==
  /\ {MaxActivePerUser, MaxActiveProcess, RateLimit} \subseteq Nat \ {0}
  /\ {Window, HistoryTTL, SecondTicks} \subseteq Nat \ {0}
  /\ MaxTime \in Nat
ASSUME SettingsArePositive == ValidSettings

ASSUME FiniteNames == IsFiniteSet(Tokens)

VARIABLES
  now,            \* the monotonic clock
  known,          \* the keys of _users
  requestTimes,   \* _UserState.request_times of each user
  active,         \* _UserState.active
  lastSeen,       \* _UserState.last_seen
  activeThreads,  \* _active_threads: the token of each thread, or None
  leases,         \* the keys of _leases
  activeProcess,  \* _active_process
  handle,         \* the TaskLease objects callers refer to, or None
  passed          \* history: every request of a user the rate gate let through

userVars == <<known, requestTimes, active, lastSeen, passed>>
slotVars == <<activeThreads, leases, activeProcess, handle>>
vars == <<now, userVars, slotVars>>

Lease == [user : Users, thread : Threads, released : BOOLEAN]

ASSUME NoneIsNoLease == None \notin Tokens \cup Lease

\* The leases whose holders have not released them.
Outstanding == {k \in Tokens : IF handle[k] = None THEN FALSE
                                                   ELSE ~ handle[k].released}
OutstandingOf(u) == {k \in Outstanding : handle[k].user = u}

TypeOK ==
  /\ now \in 0 .. MaxTime
  /\ known \subseteq Users
  /\ requestTimes \in [Users -> Seq(Nat)]
  /\ \A u \in Users : Len(requestTimes[u]) <= RateLimit
  /\ active \in [Users -> 0 .. MaxActivePerUser]
  /\ lastSeen \in [Users -> Nat]
  /\ activeThreads \in [Threads -> Tokens \cup {None}]
  /\ leases \subseteq Tokens
  /\ activeProcess \in 0 .. MaxActiveProcess
  /\ handle \in [Tokens -> Lease \cup {None}]
  /\ passed \in [Users -> Seq(Nat)]

Init ==
  /\ now = 0
  /\ known = {}
  /\ requestTimes = [u \in Users |-> <<>>]
  /\ active = [u \in Users |-> 0]
  /\ lastSeen = [u \in Users |-> 0]
  /\ activeThreads = [t \in Threads |-> None]
  /\ leases = {}
  /\ activeProcess = 0
  /\ handle = [k \in Tokens |-> None]
  /\ passed = [u \in Users |-> <<>>]

-----------------------------------------------------------------------------
(* Helpers.  Where a definition follows one whose name tells a mistake, the  *)
(* latter is a mutated form and no part of the model.                       *)

\* _purge_request_times: pop from the left while the oldest has expired.
ExpiredTooEarly(time, at) == time <= at - Window + 1
Expired(time, at) == time <= at - Window

Purge(s, at) ==
  LET leading == {i \in 1 .. Len(s) : \A j \in 1 .. i : Expired(s[j], at)}
  IN  SubSeq(s, Cardinality(leading) + 1, Len(s))

\* retry_after of the 429 answer, in whole seconds, at least one.
RetryAfterFloored(s, at) ==
  LET wait == (s[1] + Window - at) \div SecondTicks
  IN  IF wait < 1 THEN 1 ELSE wait
RetryAfter(s, at) ==
  LET wait == (s[1] + Window - at + SecondTicks - 1) \div SecondTicks
  IN  IF wait < 1 THEN 1 ELSE wait

\* max(0, n - 1)
LessOne(n) == IF n = 0 THEN 0 ELSE n - 1

-----------------------------------------------------------------------------
(* acquire: find or create the user, forget the expired requests, note the  *)
(* time, and then decide.                                                   *)

Times(u) == Purge(requestTimes[u], now)

Touch(u) ==
  /\ known' = known \cup {u}
  /\ lastSeen' = [lastSeen EXCEPT ![u] = now]

OverRate(u) == Len(Times(u)) >= RateLimit

RateLimited(u) ==
  /\ OverRate(u)
  /\ Touch(u)
  /\ requestTimes' = [requestTimes EXCEPT ![u] = Times(u)]
  /\ UNCHANGED <<now, active, passed, slotVars>>

\* A request is counted before the limits on running tasks are looked at.
Count(u) ==
  /\ ~ OverRate(u)
  /\ Touch(u)
  /\ requestTimes' = [requestTimes EXCEPT ![u] = Append(Times(u), now)]
  /\ passed' = [passed EXCEPT ![u] = Append(@, now)]

UserFullOnly(u, t) == active[u] >= MaxActivePerUser
Conflict(u, t) ==
  \/ activeThreads[t] # None
  \/ active[u] >= MaxActivePerUser
  \/ activeProcess >= MaxActiveProcess

Refused(u, t) ==
  /\ Count(u)
  /\ Conflict(u, t)
  /\ UNCHANGED <<now, active, slotVars>>

Admit(u, t, k) ==
  /\ Count(u)
  /\ ~ Conflict(u, t)
  /\ k \notin Outstanding
  /\ active' = [active EXCEPT ![u] = @ + 1]
  /\ activeProcess' = activeProcess + 1
  /\ activeThreads' = [activeThreads EXCEPT ![t] = k]
  /\ leases' = leases \cup {k}
  /\ handle' = [handle EXCEPT
                  ![k] = [user |-> u, thread |-> t, released |-> FALSE]]
  /\ UNCHANGED now

-----------------------------------------------------------------------------
(* TaskLease.release, which calls _release the first time only.             *)

AlreadyReleased(k) == handle[k].released

\* del _active_threads[thread] only while it still holds this lease's token.
ThreadKept(t, k) == activeThreads
ThreadFreed(t, k) ==
  IF activeThreads[t] = k THEN [activeThreads EXCEPT ![t] = None]
                          ELSE activeThreads

Release(k) ==
  /\ handle[k] # None
  /\ ~ AlreadyReleased(k)
  /\ LET u == handle[k].user
     IN  /\ active' = IF k \in leases /\ u \in known
                      THEN [active EXCEPT ![u] = LessOne(@)] ELSE active
         /\ lastSeen' = IF k \in leases /\ u \in known
                        THEN [lastSeen EXCEPT ![u] = now] ELSE lastSeen
  /\ handle' = [handle EXCEPT ![k].released = TRUE]
  /\ leases' = leases \ {k}
  /\ activeThreads' = IF k \in leases THEN ThreadFreed(handle[k].thread, k)
                                      ELSE activeThreads
  /\ activeProcess' = IF k \in leases THEN LessOne(activeProcess)
                                      ELSE activeProcess
  /\ UNCHANGED <<now, known, requestTimes, passed>>

\* cleanup_idle_users: every user is purged, the idle ones are forgotten.
Idle(u) == active[u] = 0 /\ now - lastSeen[u] >= HistoryTTL

CleanupIdle ==
  LET gone == {u \in known : Idle(u)}
  IN  /\ known' = known \ gone
      /\ requestTimes' = [u \in Users |->
           CASE u \in gone -> <<>>
             [] u \in known \ gone -> Times(u)
             [] OTHER -> requestTimes[u]]
      /\ active' = [u \in Users |-> IF u \in gone THEN 0 ELSE active[u]]
      /\ lastSeen' = [u \in Users |-> IF u \in gone THEN 0 ELSE lastSeen[u]]
      /\ UNCHANGED <<now, passed, slotVars>>

Tick ==
  /\ now < MaxTime
  /\ now' = now + 1
  /\ UNCHANGED <<userVars, slotVars>>

Next ==
  \/ \E u \in Users :
       \/ RateLimited(u)
       \/ \E t \in Threads :
            Refused(u, t) \/ \E k \in Tokens : Admit(u, t, k)
  \/ \E k \in Tokens : Release(k)
  \/ CleanupIdle
  \/ Tick

Spec == Init /\ [][Next]_vars

-----------------------------------------------------------------------------
(* Properties.                                                              *)

\* The counters never drift from the leases callers really hold: active,
\* _active_process, _leases and _active_threads tell of exactly the
\* outstanding handles, whatever was refused, released or cleaned up.
LeaseAccounting ==
  /\ TypeOK
  /\ leases = Outstanding
  /\ activeProcess = Cardinality(Outstanding)
  /\ \A u \in Users : active[u] = Cardinality(OutstandingOf(u))
  /\ \A t \in Threads : \A k \in Tokens :
       activeThreads[t] = k <=> k \in Outstanding /\ handle[k].thread = t

\* The rate gate counts right although it forgets: no window of Window ticks
\* ever held more than RateLimit of a user's requests, provided an idle user
\* is remembered for at least a window (nothing in the code checks that
\* rate_history_ttl_seconds is not the shorter of the two).
RateWindow ==
  HistoryTTL >= Window =>
    \A u \in Users : \A at \in 0 .. now :
      Cardinality({i \in DOMAIN passed[u] :
                     passed[u][i] <= at /\ passed[u][i] > at - Window})
        <= RateLimit

\* The Retry-After of a 429 answer is right: a user who waits so long is not
\* turned away again, and no shorter whole number of seconds would have done.
RetryAfterSuffices ==
  \A u \in Users :
    OverRate(u) =>
      LET s == Times(u)
          wait == RetryAfter(s, now)
      IN  /\ Len(Purge(s, now + wait * SecondTicks)) < RateLimit
          /\ wait > 1 =>
               Len(Purge(s, now + (wait - 1) * SecondTicks)) >= RateLimit

\* Admission implements the pool of slots: the outstanding leases are the
\* slots, acquire grants one or changes nothing, release returns one.  So no
\* sequence of requests, releases and cleanups lets more tasks run than the
\* settings allow, nor two on one thread.
Pool == INSTANCE LeasePool WITH
          held <- {[user |-> handle[k].user, thread |-> handle[k].thread] :
                     k \in Outstanding}
IsLeasePool == Pool!Spec
=============================================================================
