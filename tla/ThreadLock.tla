------------------------------ MODULE ThreadLock ------------------------------
(***************************************************************************)
(* api/task_service.py: TaskService.locked, the per-Thread lock.  The lock *)
(* of a Thread is an entry of the table _locks, created by the first       *)
(* coroutine that wants it, counted by users and dropped by the last.  A   *)
(* coroutine is a Task run (_run) or a handler of an approval decision.    *)
(*                                                                         *)
(* One event loop runs the coroutines, so what happens between two awaits  *)
(* that can really suspend is one action.  _locks_guard never suspends     *)
(* anybody: no coroutine awaits while it holds the guard.  The only point  *)
(* where a coroutine waits is entry.lock.acquire().  asyncio.Lock itself   *)
(* is external: FIFO; release() frees it and wakes the first waiter, which *)
(* takes it in a later step; nobody overtakes a waiter.                    *)
(***************************************************************************)
EXTENDS Naturals, FiniteSets, SequencesExt

CONSTANTS
  Procs, Threads,
  Entries,         \* names of _LockEntry objects
  None,
  MaxAbandoned     \* bound: cancelled waiters per entry

ASSUME FiniteProcs == IsFiniteSet(Procs)
ASSUME NoneIsNoName == None \notin Procs \cup Entries
ASSUME BoundIsNat == MaxAbandoned \in Nat

VARIABLES
  pc,          \* where each coroutine is
  thread,      \* the thread_id it called locked() with
  entry,       \* the local variable entry
  locks,       \* _locks: the entry of a thread, or None
  users,       \* _LockEntry.users
  locked,      \* asyncio.Lock.locked() of the entry's lock
  waiters,     \* the waiters of the entry's lock
  abandoned    \* history: waiters cancelled, which never decrement users

vars == <<pc, thread, entry, locks, users, locked, waiters, abandoned>>

TypeOK ==
  /\ pc \in [Procs -> {"idle", "waiting", "inside"}]
  /\ thread \in [Procs -> Threads \cup {None}]
  /\ entry \in [Procs -> Entries \cup {None}]
  /\ locks \in [Threads -> Entries \cup {None}]
  /\ users \in [Entries -> Nat]
  /\ locked \in [Entries -> BOOLEAN]
  /\ waiters \in [Entries -> Seq(Procs)]
  /\ abandoned \in [Entries -> Nat]

Init ==
  /\ pc = [p \in Procs |-> "idle"]
  /\ thread = [p \in Procs |-> None]
  /\ entry = [p \in Procs |-> None]
  /\ locks = [t \in Threads |-> None]
  /\ users = [e \in Entries |-> 0]
  /\ locked = [e \in Entries |-> FALSE]
  /\ waiters = [e \in Entries |-> <<>>]
  /\ abandoned = [e \in Entries |-> 0]

-----------------------------------------------------------------------------
\* A newly created _LockEntry: nobody refers to the name any more.
New(e) == /\ \A t \in Threads : locks[t] # e
          /\ \A p \in Procs : entry[p] # e

\* setdefault, which keeps an existing entry; the form before it does not.
AlwaysNew(t, e) == New(e)
SetDefault(t, e) == IF locks[t] = None THEN New(e) ELSE e = locks[t]

\* The lookup; the first form forgets to count the user.
LookUpUncounted(p, t, e) ==
  /\ pc[p] = "idle"
  /\ SetDefault(t, e)
  /\ locks' = [locks EXCEPT ![t] = e]
  /\ thread' = [thread EXCEPT ![p] = t]
  /\ entry' = [entry EXCEPT ![p] = e]
  /\ UNCHANGED users

LookUp(p, t, e) ==
  /\ pc[p] = "idle"
  /\ SetDefault(t, e)
  /\ locks' = [locks EXCEPT ![t] = e]
  /\ users' = [users EXCEPT ![e] = @ + 1]
  /\ thread' = [thread EXCEPT ![p] = t]
  /\ entry' = [entry EXCEPT ![p] = e]

\* asyncio.Lock.acquire without waiting.
Unlocked(e) == ~ locked[e]
Free(e) == ~ locked[e] /\ waiters[e] = <<>>

Enter(p, t, e) ==
  /\ LookUp(p, t, e)
  /\ Free(e)
  /\ locked' = [locked EXCEPT ![e] = TRUE]
  /\ pc' = [pc EXCEPT ![p] = "inside"]
  /\ UNCHANGED <<waiters, abandoned>>

EnterAndWait(p, t, e) ==
  /\ LookUp(p, t, e)
  /\ ~ Free(e)
  /\ waiters' = [waiters EXCEPT ![e] = Append(@, p)]
  /\ pc' = [pc EXCEPT ![p] = "waiting"]
  /\ UNCHANGED <<locked, abandoned>>

\* The woken waiter runs.
Resume(p) ==
  LET e == entry[p]
  IN  /\ pc[p] = "waiting"
      /\ ~ locked[e]
      /\ waiters[e] # <<>> /\ Head(waiters[e]) = p
      /\ locked' = [locked EXCEPT ![e] = TRUE]
      /\ waiters' = [waiters EXCEPT ![e] = Tail(@)]
      /\ pc' = [pc EXCEPT ![p] = "inside"]
      /\ UNCHANGED <<thread, entry, locks, users, abandoned>>

\* users == 0 and not locked(), after the release; and mistaken forms.
NotLocked(e) == TRUE
LastUser(e) == users[e] = 1

NeverDropped(p) == locks
Dropped(p) ==
  IF LastUser(entry[p]) THEN [locks EXCEPT ![thread[p]] = None] ELSE locks

\* The finally clause: release, decrement, drop the entry if it was the last
\* user.  The body may have ended, failed or been cancelled.
Exit(p) ==
  LET e == entry[p]
  IN  /\ pc[p] = "inside"
      /\ locked' = [locked EXCEPT ![e] = FALSE]
      /\ users' = [users EXCEPT ![e] = @ - 1]
      /\ locks' = Dropped(p)
      /\ pc' = [pc EXCEPT ![p] = "idle"]
      /\ thread' = [thread EXCEPT ![p] = None]
      /\ entry' = [entry EXCEPT ![p] = None]
      /\ UNCHANGED <<waiters, abandoned>>

\* Cancelled while it waits (shutdown): the CancelledError leaves locked()
\* before its try, so users keeps counting the coroutine that is gone.
Cancel(p) ==
  LET e == entry[p]
  IN  /\ pc[p] = "waiting"
      /\ abandoned[e] < MaxAbandoned
      /\ \E i \in DOMAIN waiters[e] :
           /\ waiters[e][i] = p
           /\ waiters' = [waiters EXCEPT ![e] = RemoveAt(@, i)]
      /\ abandoned' = [abandoned EXCEPT ![e] = @ + 1]
      /\ pc' = [pc EXCEPT ![p] = "idle"]
      /\ thread' = [thread EXCEPT ![p] = None]
      /\ entry' = [entry EXCEPT ![p] = None]
      /\ UNCHANGED <<locks, users, locked>>

Next ==
  \E p \in Procs :
    \/ \E t \in Threads, e \in Entries : Enter(p, t, e) \/ EnterAndWait(p, t, e)
    \/ Resume(p)
    \/ Exit(p)
    \/ Cancel(p)

Spec == Init /\ [][Next]_vars

\* The event loop runs a coroutine that can run, and the body under the lock
\* ends: a handler reads a checkpoint, a run is an agent run that stops.
FairSpec ==
  /\ Spec
  /\ \A p \in Procs : WF_vars(Resume(p)) /\ WF_vars(Exit(p))

-----------------------------------------------------------------------------
(* Properties.                                                              *)

UsersOf(e) == {p \in Procs : entry[p] = e}

\* Two coroutines are never inside the lock of one thread, however entries
\* are created, counted, dropped and created again while others wait.
MutualExclusion ==
  \A p, q \in Procs :
    pc[p] = "inside" /\ pc[q] = "inside" /\ thread[p] = thread[q] => p = q

\* An entry stays in the table while a coroutine holds it or waits for it:
\* a coroutine never works under a lock newcomers cannot find.
EntryIsCurrent ==
  \A p \in Procs : pc[p] # "idle" => locks[thread[p]] = entry[p]

\* The reference count is the number of coroutines that use the entry, plus
\* the cancelled waiters it still counts; an entry nobody uses is dropped
\* unless a waiter of it was cancelled.
UsersExact ==
  /\ \A e \in Entries : users[e] = Cardinality(UsersOf(e)) + abandoned[e]
  /\ \A t \in Threads : locks[t] # None => users[locks[t]] > 0

\* Nobody waits for ever while others come and go: the lock is handed over
\* in order of arrival, and a cancelled waiter passes its turn on.
WaitEnds == \A p \in Procs : pc[p] = "waiting" ~> pc[p] # "waiting"

\* locked() implements one FIFO lock per thread.
Inside(t) == {p \in Procs : pc[p] = "inside" /\ thread[p] = t}

OwnerOf(t) ==
  IF Inside(t) = {} THEN None ELSE CHOOSE p \in Inside(t) : TRUE
QueueOf(t) == IF locks[t] = None THEN <<>> ELSE waiters[locks[t]]

Owners == [t \in Threads |-> OwnerOf(t)]
Queues == [t \in Threads |-> QueueOf(t)]
Locks == INSTANCE FifoLocks WITH owner <- Owners, queue <- Queues
IsFifoLocks == Locks!Spec
=============================================================================
