-------------------------- MODULE TaskServiceProofs --------------------------
(***************************************************************************)
(* Theorems about TaskService, for any sets of threads, approvals,         *)
(* requests and background tasks.  The properties rest on one another: who *)
(* is inside the lock of a thread and who has its slot is settled first    *)
(* (Exclusive), and with it that nobody but the task inside moves the      *)
(* checkpoint or the row of its thread.                                    *)
(***************************************************************************)
EXTENDS TaskService, TLAPS

\* The types of what decides who runs, and of what is said and counted.
ControlTypes ==
  /\ row \in [Threads -> Columns \cup {None}]
  /\ mode \in {"up", "closing", "cancelling", "down"}
  /\ owner \in [Threads -> Handlers \cup Jobs \cup {None}]
  /\ queue \in [Threads -> Seq(Handlers \cup Jobs)]
  /\ held \subseteq Slots
  /\ handler \in [Handlers -> Requests]
  /\ job \in [Jobs -> Tasks \cup {None}]
  /\ late \in [Threads -> Threading]
control == <<row, mode, owner, queue, held, handler, job, late>>

DataTypes ==
  /\ consumed \in [Threads -> SUBSET ApprovalIds]
  /\ pending \in [Threads -> Asked]
  /\ issued \subseteq ApprovalIds
  /\ accepted \in [ApprovalIds -> Nat]
  /\ decided \in [ApprovalIds -> Nat]
  /\ {discarded, raced} \subseteq SUBSET ApprovalIds
  /\ {torn, tardy, expired} \subseteq SUBSET Threads
  /\ stops \in 0 .. MaxStops

\* A request or task that goes about a thread has a row to write to, and so
\* has a tool that has not reported yet.
RowsKept ==
  /\ \A h \in Handlers : handler[h].pc # "idle" =>
       handler[h].thread \in Threads /\ row[handler[h].thread] # None
  /\ \A j \in Jobs : job[j] # None => row[job[j].thread] # None
  /\ \A t \in Threads : late[t] # NoThreads => row[t] # None

\* Requests are served by a process that is up, and nothing outlives it.
ServedByProcess ==
  /\ mode # "up" => \A h \in Handlers : handler[h].pc = "idle"
  /\ mode = "down" => held = {} /\ \A j \in Jobs : job[j] = None

\* A thread has one task at a time, because it has one slot: a task that
\* lives has the slot of its thread, and before the cancelling of a shutdown
\* nobody else has one.
OneSlotEach ==
  /\ \A i, j \in Jobs :
       job[i] # None /\ job[j] # None /\ job[i].thread = job[j].thread => i = j
  /\ \A j \in Jobs :
       job[j] # None => [user |-> User, thread |-> job[j].thread] \in held
  /\ mode \in {"up", "closing"} =>
       \A s \in held : \E j \in Jobs : job[j] # None /\ job[j].thread = s.thread

\* The owner of a lock is a task in the locked part of its life or a decider
\* past its arrival, and each of these owns the lock of its thread.
Holding(h, t) ==
  handler[h].pc \in {"reading", "deciding"} /\ handler[h].thread = t
Inside(j, t) == At(j, LockedPcs) /\ job[j].thread = t
InLock(p, t) == (p \in Deciders /\ Holding(p, t)) \/ (p \in Jobs /\ Inside(p, t))
Lockers == Deciders \cup Jobs
LockHolders ==
  \A t \in Threads :
    /\ owner[t] \in Lockers \cup {None}
    /\ \A p \in Lockers : owner[t] = p <=> InLock(p, t)

Exclusive ==
  ControlTypes /\ RowsKept /\ ServedByProcess /\ OneSlotEach /\ LockHolders

\* A task at an interrupt has one, and a decision names an approval.
InterruptIsThere ==
  \A j \in Jobs : At(j, {"interrupted"}) => pending[job[j].thread] # None
DecisionsName ==
  \A h \in Deciders :
    handler[h].pc # "idle" => handler[h].approval \in ApprovalIds

Base == Exclusive /\ DataTypes /\ InterruptIsThere /\ DecisionsName

\* An approval belongs to the one thread whose graph asked for it.
Mentions(t, a) == pending[t] = a \/ a \in consumed[t]
OneThreadEach ==
  /\ \A t \in Threads, a \in ApprovalIds : Mentions(t, a) => a \in issued
  /\ \A t, u \in Threads, a \in ApprovalIds :
       Mentions(t, a) /\ Mentions(u, a) => t = u

\* What a decider saw is still so, for it has the lock.  A task whose input
\* the graph has not taken yet will find the approval it decides pending, and
\* a decision to spare for it.
Unfed == {"created", "locking", "entered"}
DecisionsFit ==
  /\ \A h \in Deciders :
       handler[h].pc = "deciding" => handler[h].seen = pending[handler[h].thread]
  /\ \A j \in Jobs :
       At(j, Unfed) /\ job[j].resume # None =>
         /\ pending[job[j].thread] = job[j].resume
         /\ decided[job[j].resume] < accepted[job[j].resume]

\* What a new Task may find pending was asked for behind its back.
MessagesRace ==
  /\ \A h \in Runs :
       handler[h].pc = "deciding" /\ handler[h].seen = None =>
         pending[handler[h].thread] \in raced \cup {None}
  /\ \A j \in Jobs :
       At(j, Unfed) /\ job[j].resume = None =>
         pending[job[j].thread] \in raced \cup {None}
  /\ DiscardedOnlyByRace

\* Every "accepted" is remembered as consumed, while no row is deleted.
AcceptedIsConsumed ==
  /\ AcceptedOnce
  /\ expired = {} =>
       \A a \in ApprovalIds :
         accepted[a] > 0 => \E t \in Threads : a \in consumed[t]

\* A row does not say waiting_for_approval while a task lives, and says what
\* its graph waits for otherwise; an interrupt is new when its task meets it.
WaitsForWhatIsAsked ==
  /\ \A j \in Jobs :
       job[j] # None => row[job[j].thread].status # "waiting_for_approval"
  /\ \A j \in Jobs :
       At(j, {"interrupted"}) =>
         pending[job[j].thread] \notin consumed[job[j].thread]
  /\ \A t \in Threads :
       row[t] # None /\ t \notin torn /\ row[t].status = "waiting_for_approval"
         => Decidable(t)

\* A task that is failing has left its thread at rest, too.
RestsWhenDone ==
  /\ RestingStatus
  /\ \A j \in Jobs :
       At(j, {"failing"}) /\ job[j].thread \notin tardy =>
         row[job[j].thread].status \notin Incomplete

Inv ==
  /\ Base
  /\ OneThreadEach /\ DecisionsFit /\ MessagesRace /\ AcceptedIsConsumed
  /\ WaitsForWhatIsAsked /\ RestsWhenDone

-----------------------------------------------------------------------------
\* What the operations on a row make of its columns: set_status,
LEMMA UpdatedColumns ==
  ASSUME NEW r \in Columns, NEW s \in Statuses, NEW x \in Results \cup {None},
         NEW y \in (SUBSET ApprovalIds) \cup {None}
  PROVE  /\ Updated(r, s, x, y, None) \in Columns
         /\ Updated(r, s, x, y, None).status = s
  <1>1. Updated(r, s, x, y, None) \in Columns
    BY DEF Updated, Columns, Statuses, Results
  <1>2. Updated(r, s, x, y, None).status = s
    BY DEF Updated, Columns
  <1>3. QED
    BY <1>1, <1>2

\* append_event,
LEMMA EventColumns ==
  ASSUME NEW r \in Columns, NEW q \in SUBSET ApprovalIds
  PROVE  /\ AfterEvent(r, "error", q) \in Columns
         /\ AfterEvent(r, "error", q).status = "error"
         /\ AfterEvent(r, "task_result", q) \in Columns
         /\ AfterEvent(r, "tool_start", q) \in Columns
         /\ AfterEvent(r, "tool_start", q).status = "running"
         /\ AfterEvent(r, "approval_resumed", q) \in Columns
         /\ AfterEvent(r, "approval_resumed", q).status = "running"
         /\ AfterEvent(r, "waiting_for_approval", q) \in Columns
         /\ AfterEvent(r, "waiting_for_approval", q).approvals = q
  <1>1. /\ AfterEvent(r, "error", q) \in Columns
        /\ AfterEvent(r, "task_result", q) \in Columns
        /\ AfterEvent(r, "tool_start", q) \in Columns
        /\ AfterEvent(r, "approval_resumed", q) \in Columns
        /\ AfterEvent(r, "waiting_for_approval", q) \in Columns
    BY DEF AfterEvent, ResumesTask, Columns, Statuses, Results
  <1>2. /\ AfterEvent(r, "error", q).status = "error"
        /\ AfterEvent(r, "tool_start", q).status = "running"
        /\ AfterEvent(r, "approval_resumed", q).status = "running"
        /\ AfterEvent(r, "waiting_for_approval", q).approvals = q
    BY DEF AfterEvent, ResumesTask, Columns
  <1>3. QED
    BY <1>1, <1>2

\* create_task and reconcile_incomplete.
LEMMA RestartColumns ==
  ASSUME NEW r \in Columns
  PROVE  /\ Restarted(r) \in Columns
         /\ Restarted(r).status = "started"
         /\ Reconciled(r) \in Columns
         /\ Reconciled(r).status \notin Incomplete
         /\ Reconciled(r).approvals = r.approvals
         /\ Reconciled(r).status = "waiting_for_approval"
              => r.status = "waiting_for_approval"
  <1>1. Restarted(r) \in Columns /\ Reconciled(r) \in Columns
    BY DEF Restarted, Reconciled, Columns, Statuses, Results
  <1>2. /\ Restarted(r).status = "started"
        /\ Reconciled(r).status \notin Incomplete
        /\ Reconciled(r).approvals = r.approvals
        /\ Reconciled(r).status = "waiting_for_approval"
             => r.status = "waiting_for_approval"
    BY DEF Restarted, Reconciled, Columns, Incomplete
  <1>3. QED
    BY <1>1, <1>2

\* A live task is a task, with a row; so has an active request.
LEMMA TaskFacts ==
  ASSUME Exclusive, NEW j \in Jobs, job[j] # None
  PROVE  /\ job[j] \in Tasks
         /\ job[j].thread \in Threads /\ job[j].resume \in Asked
         /\ row[job[j].thread] \in Columns
         /\ [user |-> User, thread |-> job[j].thread] \in held
  <1>1. job[j] \in Tasks
    BY DEF Exclusive, ControlTypes
  <1>2. job[j].thread \in Threads /\ job[j].resume \in Asked
    BY <1>1 DEF Tasks
  <1>3. QED
    BY <1>1, <1>2 DEF Exclusive, ControlTypes, RowsKept, OneSlotEach

\* A request under way has a thread, whose row is there.
LEMMA RequestFacts ==
  ASSUME Exclusive, NEW h \in Handlers, handler[h].pc # "idle"
  PROVE  /\ handler[h] \in Requests
         /\ handler[h].thread \in Threads /\ handler[h].seen \in Asked
         /\ row[handler[h].thread] \in Columns
         /\ mode = "up"
  BY DEF Exclusive, ControlTypes, RowsKept, ServedByProcess, Requests

\* A step that changes nothing of it.
LEMMA ControlUnchanged ==
  ASSUME Exclusive, UNCHANGED control
  PROVE  Exclusive'
  BY DEF Exclusive, ControlTypes, RowsKept, ServedByProcess, OneSlotEach,
         LockHolders, InLock, Holding, Inside, At, control

\* A task that ends and takes its slot away leaves the others theirs.
LEMMA SlotLeaves ==
  ASSUME ControlTypes, OneSlotEach, NEW j \in Jobs, job[j] # None,
         job' = [job EXCEPT ![j] = None],
         held' = held \ {[user |-> User, thread |-> job[j].thread]},
         UNCHANGED mode
  PROVE  OneSlotEach'
  <1>1. \A i \in Jobs : job'[i] # None => i # j /\ job'[i] = job[i]
    BY DEF ControlTypes
  <1>2. \A i, k \in Jobs :
          job'[i] # None /\ job'[k] # None /\ job'[i].thread = job'[k].thread
            => i = k
    BY <1>1 DEF OneSlotEach
  <1>3. \A i \in Jobs :
          job'[i] # None => [user |-> User, thread |-> job'[i].thread] \in held'
    BY <1>1 DEF OneSlotEach
  <1>4. ASSUME mode \in {"up", "closing"}, NEW x \in held'
        PROVE  \E i \in Jobs : job'[i] # None /\ job'[i].thread = x.thread
    <2>1. PICK i \in Jobs : job[i] # None /\ job[i].thread = x.thread
      BY <1>4 DEF OneSlotEach
    <2>2. x = [user |-> User, thread |-> x.thread]
      BY DEF ControlTypes, Slots
    <2>3. i # j
      BY <2>1, <2>2
    <2>4. QED
      BY <2>1, <2>3 DEF ControlTypes
  <1>5. QED
    BY <1>2, <1>3, <1>4 DEF OneSlotEach

\* One that leaves the lock it is in leaves it to nobody, and the other
\* locks to their owners.
LEMMA LockIsLeft ==
  ASSUME ControlTypes, LockHolders, NEW t \in Threads, NEW p \in Lockers,
         InLock(p, t), owner' = [owner EXCEPT ![t] = None],
         \A q \in Lockers \ {p}, u \in Threads : InLock(q, u)' <=> InLock(q, u),
         \A u \in Threads : ~ InLock(p, u)'
  PROVE  LockHolders'
  <1>1. owner[t] = p
    BY DEF LockHolders
  <1>2. \A u \in Threads : u # t => owner[u] # p
    <2> SUFFICES ASSUME NEW u \in Threads, u # t, owner[u] = p
                 PROVE  FALSE
      OBVIOUS
    <2>1. InLock(p, u)
      BY DEF LockHolders
    <2>2. QED
      BY <2>1, NamesDiffer DEF InLock, Holding, Inside, Lockers, Handlers
  <1>3. \A u \in Threads : u # t => owner'[u] = owner[u]
    BY DEF ControlTypes
  <1>4. owner'[t] = None /\ None \notin Lockers
    BY NamesDiffer DEF ControlTypes, Lockers, Handlers
  <1>5. \A q \in Lockers \ {p} : ~ InLock(q, t)
    BY <1>1 DEF LockHolders
  <1> SUFFICES ASSUME NEW u \in Threads
               PROVE  /\ owner'[u] \in Lockers \cup {None}
                      /\ \A q \in Lockers : owner'[u] = q <=> InLock(q, u)'
    BY DEF LockHolders
  <1>6. CASE u = t
    BY <1>4, <1>5, <1>6
  <1>7. CASE u # t
    BY <1>2, <1>3, <1>7 DEF LockHolders
  <1>8. QED
    BY <1>6, <1>7

\* One that takes a free lock is its owner, and the only one in it.
LEMMA LockIsTaken ==
  ASSUME ControlTypes, LockHolders, NEW t \in Threads, NEW p \in Lockers,
         owner[t] = None, owner' = [owner EXCEPT ![t] = p],
         \A q \in Lockers \ {p}, u \in Threads : InLock(q, u)' <=> InLock(q, u),
         \A u \in Threads : InLock(p, u)' <=> u = t,
         \A u \in Threads : ~ InLock(p, u)
  PROVE  LockHolders'
  <1>1. \A u \in Threads : u # t => owner'[u] = owner[u]
    BY DEF ControlTypes
  <1>2. owner'[t] = p /\ None \notin Lockers
    BY NamesDiffer DEF ControlTypes, Lockers, Handlers
  <1>3. \A q \in Lockers : ~ InLock(q, t)
    BY <1>2 DEF LockHolders
  <1> SUFFICES ASSUME NEW u \in Threads
               PROVE  /\ owner'[u] \in Lockers \cup {None}
                      /\ \A q \in Lockers : owner'[u] = q <=> InLock(q, u)'
    BY DEF LockHolders
  <1>4. CASE u = t
    BY <1>2, <1>3, <1>4
  <1>5. CASE u # t
    BY <1>1, <1>5 DEF LockHolders
  <1>6. QED
    BY <1>4, <1>5

\* A task that is not in a lock yet, and those that stay where they are.
LEMMA LocksStay ==
  ASSUME LockHolders, UNCHANGED owner,
         \A p \in Lockers, u \in Threads : InLock(p, u)' <=> InLock(p, u)
  PROVE  LockHolders'
  BY DEF LockHolders

\* To begin with, no tool is at work.
LEMMA NoneThread == NoThreads \in Threading
  BY BoundsAreNumbers DEF NoThreads, Threading

\* What a task leaves behind is still counted.
LEMMA ThreadsLeft ==
  ASSUME Exclusive, NEW t \in Threads, LeavesThreads(t)
  PROVE  \E l \in Threading : late' = [late EXCEPT ![t] = l]
  <1> DEFINE l == [own |-> 0, left |-> late[t].own + late[t].left]
  <1>1. late[t] \in Threading
    BY DEF Exclusive, ControlTypes
  <1>2. l \in Threading
    BY <1>1, BoundsAreNumbers DEF Threading
  <1>3. QED
    BY <1>2 DEF LeavesThreads

\* The end of a task.
LEMMA EndKeeps ==
  ASSUME Exclusive, NEW j \in Jobs, At(j, LockedPcs), NEW r \in Columns,
         EndJob(j, r)
  PROVE  Exclusive'
  <1> DEFINE t == job[j].thread
             s == [user |-> User, thread |-> t]
  <1>1. job[j] # None /\ t \in Threads /\ s \in held
    BY TaskFacts DEF At
  <1>2. /\ row' = [row EXCEPT ![t] = r]
        /\ owner' = [owner EXCEPT ![t] = None]
        /\ held' = held \ {s}
        /\ job' = [job EXCEPT ![j] = None]
        /\ UNCHANGED <<mode, queue, handler>>
    BY DEF EndJob, SetRow, Lock!Leave, Pool!Return
  <1>10. \E l \in Threading : late' = [late EXCEPT ![t] = l]
    BY <1>1, ThreadsLeft DEF EndJob
  <1> HIDE DEF t, s
  <1>3. ControlTypes'
    BY <1>1, <1>2, <1>10 DEF Exclusive, ControlTypes
  <1>4. RowsKept'
    <2>1. row'[t] # None /\ \A u \in Threads : row[u] # None => row'[u] # None
      BY <1>1, <1>2, NoneIsNoRecord DEF Exclusive, ControlTypes
    <2>2. \A u \in Threads : u # t => late'[u] = late[u]
      BY <1>10 DEF Exclusive, ControlTypes
    <2>3. \A i \in Jobs : job'[i] # None => job'[i] = job[i]
      BY <1>2 DEF Exclusive, ControlTypes
    <2>4. QED
      BY <1>2, <2>1, <2>2, <2>3 DEF Exclusive, RowsKept
  <1>5. ServedByProcess'
    BY <1>1, <1>2 DEF Exclusive, ControlTypes, ServedByProcess
  <1>6. OneSlotEach'
    BY <1>1, <1>2, SlotLeaves DEF Exclusive, ControlTypes, t, s
  <1>7. LockHolders'
    <2>1. InLock(j, t) /\ j \in Lockers
      BY <1>1 DEF InLock, Inside, Lockers, t
    <2>2. \A u \in Threads : ~ InLock(j, u)'
      BY <1>2, NamesDiffer
      DEF Exclusive, ControlTypes, InLock, Inside, At, Handlers
    <2>3. \A q \in Lockers \ {j}, u \in Threads : InLock(q, u)' <=> InLock(q, u)
      BY <1>2 DEF Exclusive, ControlTypes, InLock, Inside, Holding, At
    <2>4. QED
      BY <1>1, <1>2, <2>1, <2>2, <2>3, LockIsLeft DEF Exclusive
  <1>8. QED
    BY <1>3, <1>4, <1>5, <1>6, <1>7 DEF Exclusive

\* A new task on a thread whose slot was free takes it.
LEMMA SlotIsTaken ==
  ASSUME ControlTypes, OneSlotEach, NEW j \in Jobs, NEW t \in Threads,
         NEW a \in Asked, GrantSlot(t), NewJob(j, t, a), UNCHANGED mode
  PROVE  OneSlotEach'
  <1> DEFINE s == [user |-> User, thread |-> t]
  <1>1. /\ job[j] = None
        /\ job' = [job EXCEPT ![j] = [thread |-> t, resume |-> a, pc |-> "created"]]
        /\ \A x \in held : x.thread # t
        /\ held' = held \cup {s}
    BY DEF NewJob, GrantSlot, Pool!Grant
  <1>2. job'[j].thread = t /\ job'[j] # None
    <2>1. [thread |-> t, resume |-> a, pc |-> "created"] \in Tasks
      BY DEF Tasks, JobPcs
    <2>2. QED
      BY <1>1, <2>1, NoneIsNoRecord DEF ControlTypes
  <1>3. \A i \in Jobs : i # j => job'[i] = job[i]
    BY <1>1 DEF ControlTypes
  <1>4. \A i \in Jobs : i # j /\ job[i] # None =>
          /\ [user |-> User, thread |-> job[i].thread] \in held
          /\ job[i].thread # t
    BY <1>1 DEF OneSlotEach
  <1>5. \A i, k \in Jobs :
          job'[i] # None /\ job'[k] # None /\ job'[i].thread = job'[k].thread
            => i = k
    <2> SUFFICES ASSUME NEW i \in Jobs, NEW k \in Jobs, i # k, job'[i] # None,
                        job'[k] # None, job'[i].thread = job'[k].thread
                 PROVE  FALSE
      OBVIOUS
    <2>1. CASE i # j /\ k # j
      BY <1>3, <2>1 DEF OneSlotEach
    <2>2. CASE i = j
      BY <1>2, <1>3, <1>4, <2>2
    <2>3. CASE k = j
      BY <1>2, <1>3, <1>4, <2>3
    <2>4. QED
      BY <2>1, <2>2, <2>3
  <1>6. \A i \in Jobs :
          job'[i] # None => [user |-> User, thread |-> job'[i].thread] \in held'
    BY <1>1, <1>2, <1>3, <1>4
  <1>7. ASSUME mode \in {"up", "closing"}, NEW x \in held'
        PROVE  \E i \in Jobs : job'[i] # None /\ job'[i].thread = x.thread
    <2>1. CASE x = s
      BY <1>2, <2>1
    <2>2. CASE x \in held
      BY <1>1, <1>3, <1>7, <2>2 DEF OneSlotEach
    <2>3. QED
      BY <1>1, <2>1, <2>2
  <1>8. QED
    BY <1>5, <1>6, <1>7 DEF OneSlotEach

\* Tasks that live on where they are keep their slots.
LEMMA SlotsStay ==
  ASSUME OneSlotEach, UNCHANGED held,
         \A j \in Jobs : /\ job'[j] # None <=> job[j] # None
                         /\ job[j] # None => job'[j].thread = job[j].thread,
         mode' \in {"up", "closing"} => mode \in {"up", "closing"}
  PROVE  OneSlotEach'
  BY DEF OneSlotEach

\* Rows that were there stay, and newcomers find one.
LEMMA RowsStay ==
  ASSUME Exclusive,
         \A u \in Threads : row[u] # None => row'[u] # None,
         \A g \in Handlers : handler'[g].pc # "idle" =>
           \/ /\ handler[g].pc # "idle"
              /\ handler'[g].thread = handler[g].thread
           \/ /\ handler'[g].thread \in Threads
              /\ row'[handler'[g].thread] # None,
         \A i \in Jobs : job'[i] # None =>
           \/ job[i] # None /\ job'[i].thread = job[i].thread
           \/ row'[job'[i].thread] # None,
         \A u \in Threads :
           late'[u] # NoThreads => late[u] # NoThreads \/ row'[u] # None
  PROVE  RowsKept'
  <1>1. \A i \in Jobs : job[i] # None => job[i].thread \in Threads
    BY TaskFacts
  <1>2. QED
    BY <1>1 DEF Exclusive, RowsKept

-----------------------------------------------------------------------------
(* A new Task.                                                              *)

\* The handler claims the thread, and its row exists from then on.
LEMMA RunClaimsKeeps ==
  ASSUME Exclusive, NEW h \in Runs, NEW t \in Threads, RunClaims(h, t)
  PROVE  Exclusive'
  <1> DEFINE q == [Idle EXCEPT !.pc = "reading", !.thread = t]
  <1>1. /\ mode = "up" /\ h \in Handlers
        /\ IF row[t] = None
           THEN row' = [row EXCEPT ![t] =
                          [status |-> "idle", result |-> "", approvals |-> {}]]
           ELSE row' = row
        /\ handler' = [handler EXCEPT ![h] = q]
        /\ UNCHANGED <<mode, owner, queue, held, job, late>>
    BY DEF RunClaims, SetRow, Handlers, locks
  <1>2. [status |-> "idle", result |-> "", approvals |-> {}] \in Columns
    BY DEF Columns, Statuses, Results
  <1>3. q \in Requests /\ q.thread = t /\ q.pc = "reading"
    BY DEF Idle, Requests, Asked
  <1> HIDE DEF q
  <1>4. ControlTypes'
    BY <1>1, <1>2, <1>3 DEF Exclusive, ControlTypes
  <1>5. RowsKept'
    <2>1. \A u \in Threads : row[u] # None => row'[u] # None
      BY <1>1, <1>2, NoneIsNoRecord DEF Exclusive, ControlTypes
    <2>2. row'[t] # None
      BY <1>1, <1>2, NoneIsNoRecord DEF Exclusive, ControlTypes
    <2>3. \A g \in Handlers : handler'[g] = IF g = h THEN q ELSE handler[g]
      BY <1>1 DEF Exclusive, ControlTypes
    <2>4. QED
      BY <1>1, <1>3, <2>1, <2>2, <2>3, RowsStay
  <1>6. ServedByProcess'
    BY <1>1 DEF Exclusive, ServedByProcess
  <1>7. OneSlotEach'
    BY <1>1, SlotsStay DEF Exclusive
  <1>8. \A p \in Lockers, u \in Threads : InLock(p, u)' <=> InLock(p, u)
    BY <1>1, NamesDiffer
    DEF Exclusive, ControlTypes, InLock, Holding, Inside, At, Lockers, Handlers
  <1>9. QED
    BY <1>1, <1>4, <1>5, <1>6, <1>7, <1>8, LocksStay DEF Exclusive

\* A request that reads the checkpoint stays where it is, in the lock or not.
LEMMA ReadsPendingKeeps ==
  ASSUME Exclusive, NEW h \in Handlers, ReadsPending(h), DataTypes
  PROVE  Exclusive'
  <1> DEFINE q == [handler[h] EXCEPT !.pc = "deciding",
                                     !.seen = pending[handler[h].thread]]
  <1>1. /\ handler[h].pc = "reading"
        /\ handler' = [handler EXCEPT ![h] = q]
        /\ UNCHANGED <<row, mode, owner, queue, held, job, late>>
    BY DEF ReadsPending, durable, locks
  <1>2. handler[h] \in Requests /\ handler[h].thread \in Threads /\ mode = "up"
    BY <1>1, RequestFacts
  <1>3. q \in Requests /\ q.thread = handler[h].thread /\ q.pc = "deciding"
    BY <1>2 DEF DataTypes, Requests
  <1> HIDE DEF q
  <1>4. ControlTypes'
    BY <1>1, <1>3 DEF Exclusive, ControlTypes
  <1>5. RowsKept'
    BY <1>1, <1>3 DEF Exclusive, ControlTypes, RowsKept
  <1>6. ServedByProcess'
    BY <1>1, <1>2 DEF Exclusive, ServedByProcess
  <1>7. OneSlotEach'
    BY <1>1, SlotsStay DEF Exclusive
  <1>8. \A p \in Lockers, u \in Threads : InLock(p, u)' <=> InLock(p, u)
    BY <1>1, <1>3 DEF Exclusive, ControlTypes, InLock, Holding, Inside, At
  <1>9. QED
    BY <1>1, <1>4, <1>5, <1>6, <1>7, <1>8, LocksStay DEF Exclusive

\* A request of a Task that is answered is over.
LEMMA RunEnds ==
  ASSUME Exclusive, NEW h \in Runs, handler' = [handler EXCEPT ![h] = Idle]
  PROVE  /\ handler' \in [Handlers -> Requests]
         /\ \A g \in Handlers : handler'[g].pc # "idle" => handler'[g] = handler[g]
         /\ \A p \in Deciders, u \in Threads : Holding(p, u)' <=> Holding(p, u)
  <1>1. h \in Handlers /\ h \notin Deciders /\ Deciders \subseteq Handlers
    BY NamesDiffer DEF Handlers
  <1>2. Idle \in Requests /\ Idle.pc = "idle"
    BY DEF Idle, Requests, Asked
  <1>3. \A g \in Handlers : g # h => handler'[g] = handler[g]
    BY DEF Exclusive, ControlTypes
  <1>4. QED
    BY <1>1, <1>2, <1>3 DEF Exclusive, ControlTypes, Holding

\* RunTurnedAway keeps mutual exclusion, the slots and the types.
LEMMA RunTurnedAwayKeeps ==
  ASSUME Exclusive, NEW h \in Runs, RunTurnedAway(h)
  PROVE  Exclusive'
  <1>1. /\ handler' = [handler EXCEPT ![h] = Idle]
        /\ UNCHANGED <<row, mode, owner, queue, held, job, late>>
    BY DEF RunTurnedAway, durable, locks
  <1>2. ControlTypes'
    BY <1>1, RunEnds DEF Exclusive, ControlTypes
  <1>3. RowsKept' /\ ServedByProcess'
    BY <1>1, RunEnds DEF Exclusive, RowsKept, ServedByProcess
  <1>4. OneSlotEach'
    BY <1>1, SlotsStay DEF Exclusive
  <1>5. \A p \in Lockers, u \in Threads : InLock(p, u)' <=> InLock(p, u)
    BY <1>1, RunEnds DEF InLock, Inside, At
  <1>6. QED
    BY <1>1, <1>2, <1>3, <1>4, <1>5, LocksStay DEF Exclusive

\* schedule takes the slot of the thread for the task it creates.
LEMMA RunSchedulesKeeps ==
  ASSUME Exclusive, NEW h \in Runs, NEW j \in Jobs, RunSchedules(h, j)
  PROVE  Exclusive'
  <1> DEFINE t == handler[h].thread
             n == [thread |-> t, resume |-> None, pc |-> "created"]
  <1>1. /\ handler[h].pc = "deciding" /\ h \in Handlers
        /\ GrantSlot(t)
        /\ row' = [row EXCEPT ![t] = Restarted(row[t])]
        /\ job[j] = None
        /\ job' = [job EXCEPT ![j] = n]
        /\ NewJob(j, t, None)
        /\ handler' = [handler EXCEPT ![h] = Idle]
        /\ held' = held \cup {[user |-> User, thread |-> t]}
        /\ UNCHANGED <<mode, owner, queue, late>>
    BY DEF RunSchedules, SetRow, NewJob, GrantSlot, Pool!Grant, locks, Handlers
  <1>2. t \in Threads /\ row[t] \in Columns /\ mode = "up"
    BY <1>1, RequestFacts
  <1>3. Restarted(row[t]) \in Columns /\ Restarted(row[t]) # None
    BY <1>2, RestartColumns, NoneIsNoRecord
  <1>4. n \in Tasks /\ n # None /\ n.thread = t /\ n.pc = "created"
    BY <1>2, NoneIsNoRecord DEF Tasks, Asked, JobPcs
  <1>5. [user |-> User, thread |-> t] \in Slots
    BY <1>2 DEF Slots
  <1> HIDE DEF t, n
  <1>6. ControlTypes'
    BY <1>1, <1>2, <1>3, <1>4, <1>5, RunEnds DEF Exclusive, ControlTypes
  <1>7. RowsKept' /\ ServedByProcess'
    <2>1. \A u \in Threads : row[u] # None => row'[u] # None
      BY <1>1, <1>2, <1>3 DEF Exclusive, ControlTypes
    <2>2. row'[t] # None
      BY <1>1, <1>2, <1>3 DEF Exclusive, ControlTypes
    <2>3. \A i \in Jobs : job'[i] = IF i = j THEN n ELSE job[i]
      BY <1>1 DEF Exclusive, ControlTypes
    <2>4. RowsKept'
      BY <1>1, <1>4, <2>1, <2>2, <2>3, RowsStay, RunEnds
    <2>5. ServedByProcess'
      BY <1>1, <1>2 DEF Exclusive, ServedByProcess
    <2>6. QED
      BY <2>4, <2>5
  <1>8. OneSlotEach'
    BY <1>1, <1>2, SlotIsTaken DEF Exclusive, Asked
  <1>9. \A p \in Lockers, u \in Threads : InLock(p, u)' <=> InLock(p, u)
    BY <1>1, <1>4, RunEnds
    DEF Exclusive, ControlTypes, InLock, Inside, At, LockedPcs
  <1>10. QED
    BY <1>1, <1>6, <1>7, <1>8, <1>9, LocksStay DEF Exclusive

-----------------------------------------------------------------------------
(* A decision.                                                              *)

\* One decider moves, and nobody else does.
LEMMA OneDeciderMoves ==
  ASSUME Exclusive, NEW h \in Deciders, NEW q \in Requests,
         handler' = [handler EXCEPT ![h] = q]
  PROVE  /\ handler' \in [Handlers -> Requests]
         /\ \A g \in Handlers : handler'[g] = IF g = h THEN q ELSE handler[g]
         /\ h \in Handlers /\ h \in Lockers /\ h \notin Jobs
  BY NamesDiffer DEF Exclusive, ControlTypes, Handlers, Lockers

\* It arrives, and is inside the lock or in its queue.
LEMMA DeciderEntersKeeps ==
  ASSUME Exclusive, NEW h \in Deciders, NEW t \in Threads, NEW a \in ApprovalIds,
         DeciderEnters(h, t, a)
  PROVE  Exclusive'
  <1> DEFINE q(pc) == [pc |-> pc, thread |-> t, approval |-> a, seen |-> None]
  <1>1. /\ mode = "up" /\ handler[h].pc = "idle" /\ row[t] # None
        /\ UNCHANGED <<row, mode, held, job, late>>
    BY DEF DeciderEnters, durable
  <1>2. q("reading") \in Requests /\ q("locking") \in Requests
    BY DEF Requests, Asked
  <1>3. h \in Lockers /\ \A u \in Threads : ~ InLock(h, u)
    BY <1>1, NamesDiffer DEF InLock, Holding, Lockers, Handlers
  <1>4. CASE Lock!Take(h, t) /\ handler' = [handler EXCEPT ![h] = q("reading")]
    <2>1. /\ owner[t] = None /\ owner' = [owner EXCEPT ![t] = h]
          /\ UNCHANGED queue
      BY <1>4 DEF Lock!Take
    <2>2. /\ handler' \in [Handlers -> Requests] /\ h \in Handlers /\ h \notin Jobs
          /\ \A g \in Handlers : handler'[g] = IF g = h THEN q("reading")
                                               ELSE handler[g]
      BY <1>2, <1>4, OneDeciderMoves
    <2>3. ControlTypes'
      BY <1>1, <2>1, <2>2 DEF Exclusive, ControlTypes
    <2>4. RowsKept'
      BY <1>1, <2>2, RowsStay
    <2>5. ServedByProcess' /\ OneSlotEach'
      BY <1>1, SlotsStay DEF Exclusive, ServedByProcess
    <2>6. \A p \in Lockers \ {h}, u \in Threads : InLock(p, u)' <=> InLock(p, u)
      BY <1>1, <2>2 DEF InLock, Holding, Inside, At, Handlers
    <2>7. \A u \in Threads : InLock(h, u)' <=> u = t
      BY <2>2 DEF InLock, Holding
    <2>8. LockHolders'
      BY <1>3, <2>1, <2>6, <2>7, LockIsTaken DEF Exclusive
    <2>9. QED
      BY <2>3, <2>4, <2>5, <2>8 DEF Exclusive
  <1>5. CASE Lock!Wait(h, t) /\ handler' = [handler EXCEPT ![h] = q("locking")]
    <2>1. queue' = [queue EXCEPT ![t] = Append(@, h)] /\ UNCHANGED owner
      BY <1>5 DEF Lock!Wait
    <2>2. /\ handler' \in [Handlers -> Requests] /\ h \in Handlers /\ h \notin Jobs
          /\ \A g \in Handlers : handler'[g] = IF g = h THEN q("locking")
                                               ELSE handler[g]
      BY <1>2, <1>5, OneDeciderMoves
    <2>3. ControlTypes'
      BY <1>1, <2>1, <2>2 DEF Exclusive, ControlTypes
    <2>4. RowsKept'
      BY <1>1, <2>2, RowsStay
    <2>5. ServedByProcess' /\ OneSlotEach'
      BY <1>1, SlotsStay DEF Exclusive, ServedByProcess
    <2>6. \A p \in Lockers, u \in Threads : InLock(p, u)' <=> InLock(p, u)
      BY <1>1, <2>2 DEF InLock, Holding, Inside, At, Handlers
    <2>7. QED
      BY <2>1, <2>3, <2>4, <2>5, <2>6, LocksStay DEF Exclusive
  <1>6. QED
    BY <1>4, <1>5 DEF DeciderEnters

\* The lock is granted to the one at the head of its queue.
LEMMA DeciderGrantedKeeps ==
  ASSUME Exclusive, NEW h \in Deciders, DeciderGranted(h)
  PROVE  Exclusive'
  <1> DEFINE t == handler[h].thread
             q == [handler[h] EXCEPT !.pc = "reading"]
  <1>1. /\ handler[h].pc = "locking" /\ h \in Handlers
        /\ handler' = [handler EXCEPT ![h] = q]
        /\ owner[t] = None /\ queue[t] # <<>>
        /\ owner' = [owner EXCEPT ![t] = h]
        /\ queue' = [queue EXCEPT ![t] = Tail(@)]
        /\ UNCHANGED <<row, mode, held, job, late>>
    BY DEF DeciderGranted, GrantedTo, Lock!Grant, durable, Handlers
  <1>2. handler[h] \in Requests /\ t \in Threads /\ row[t] # None /\ mode = "up"
    BY <1>1, RequestFacts, NoneIsNoRecord
  <1>3. q \in Requests /\ q.thread = t /\ q.pc = "reading"
    BY <1>2 DEF Requests
  <1> HIDE DEF q, t
  <1>4. /\ handler' \in [Handlers -> Requests] /\ h \in Lockers /\ h \notin Jobs
        /\ \A g \in Handlers : handler'[g] = IF g = h THEN q ELSE handler[g]
    BY <1>1, <1>3, OneDeciderMoves
  <1>5. ControlTypes'
    BY <1>1, <1>2, <1>4 DEF Exclusive, ControlTypes
  <1>6. RowsKept'
    BY <1>1, <1>2, <1>3, <1>4, RowsStay
  <1>7. ServedByProcess' /\ OneSlotEach'
    BY <1>1, <1>2, SlotsStay DEF Exclusive, ServedByProcess
  <1>8. \A p \in Lockers \ {h}, u \in Threads : InLock(p, u)' <=> InLock(p, u)
    BY <1>1, <1>4 DEF InLock, Holding, Inside, At, Handlers
  <1>9. \A u \in Threads : ~ InLock(h, u) /\ (InLock(h, u)' <=> u = t)
    BY <1>1, <1>3, <1>4 DEF InLock, Holding, Handlers
  <1>10. LockHolders'
    BY <1>1, <1>2, <1>4, <1>8, <1>9, LockIsTaken DEF Exclusive
  <1>11. QED
    BY <1>5, <1>6, <1>7, <1>10 DEF Exclusive

\* A decider that is answered leaves the lock, which was its own.
LEMMA DeciderLeaves ==
  ASSUME Exclusive, NEW h \in Deciders, handler[h].pc = "deciding",
         Lock!Leave(handler[h].thread), handler' = [handler EXCEPT ![h] = Idle],
         \A j \in Jobs, u \in Threads : Inside(j, u)' <=> Inside(j, u)
  PROVE  /\ handler' \in [Handlers -> Requests]
         /\ \A g \in Handlers : handler'[g].pc # "idle" => handler'[g] = handler[g]
         /\ owner' \in [Threads -> Handlers \cup Jobs \cup {None}]
         /\ UNCHANGED queue
         /\ LockHolders'
  <1> DEFINE t == handler[h].thread
  <1>1. h \in Handlers /\ t \in Threads
    BY RequestFacts DEF Handlers
  <1>2. Idle \in Requests /\ Idle.pc = "idle"
    BY DEF Idle, Requests, Asked
  <1>3. /\ handler' \in [Handlers -> Requests] /\ h \in Lockers /\ h \notin Jobs
        /\ \A g \in Handlers : handler'[g] = IF g = h THEN Idle ELSE handler[g]
    BY <1>2, OneDeciderMoves
  <1>4. owner' = [owner EXCEPT ![t] = None] /\ UNCHANGED queue
    BY DEF Lock!Leave
  <1>5. InLock(h, t)
    BY DEF InLock, Holding
  <1>6. \A u \in Threads : ~ InLock(h, u)'
    BY <1>1, <1>2, <1>3 DEF InLock, Holding
  <1>7. \A p \in Lockers \ {h}, u \in Threads : InLock(p, u)' <=> InLock(p, u)
    BY <1>3 DEF InLock, Holding, Handlers
  <1> HIDE DEF t
  <1>8. LockHolders'
    BY <1>1, <1>3, <1>4, <1>5, <1>6, <1>7, LockIsLeft DEF Exclusive
  <1>9. owner' \in [Threads -> Handlers \cup Jobs \cup {None}]
    BY <1>4 DEF Exclusive, ControlTypes
  <1>10. QED
    BY <1>2, <1>3, <1>4, <1>8, <1>9

\* DeciderTurnedAway keeps mutual exclusion, the slots and the types.
LEMMA DeciderTurnedAwayKeeps ==
  ASSUME Exclusive, NEW h \in Deciders, DeciderTurnedAway(h)
  PROVE  Exclusive'
  <1>1. /\ handler[h].pc = "deciding" /\ Lock!Leave(handler[h].thread)
        /\ handler' = [handler EXCEPT ![h] = Idle]
        /\ UNCHANGED <<row, mode, held, job, late>>
    BY DEF DeciderTurnedAway, durable
  <1>2. \A j \in Jobs, u \in Threads : Inside(j, u)' <=> Inside(j, u)
    BY <1>1 DEF Inside, At
  <1>3. /\ handler' \in [Handlers -> Requests]
        /\ \A g \in Handlers : handler'[g].pc # "idle" => handler'[g] = handler[g]
        /\ owner' \in [Threads -> Handlers \cup Jobs \cup {None}]
        /\ UNCHANGED queue
        /\ LockHolders'
    BY <1>1, <1>2, DeciderLeaves
  <1>4. ControlTypes'
    BY <1>1, <1>3 DEF Exclusive, ControlTypes
  <1>5. RowsKept' /\ ServedByProcess' /\ OneSlotEach'
    BY <1>1, <1>3, SlotsStay DEF Exclusive, RowsKept, ServedByProcess
  <1>6. QED
    BY <1>3, <1>4, <1>5 DEF Exclusive

\* What schedule makes of the row when it has a decision.
LEMMA DecidedColumns ==
  ASSUME NEW r \in Columns
  PROVE  Decided(r) \in Columns /\ Decided(r).status = "started"
  <1>1. /\ "started" \in Statuses
        /\ None \in Results \cup {None}
        /\ {} \in (SUBSET ApprovalIds) \cup {None}
    BY DEF Statuses
  <1>2. QED
    BY <1>1, UpdatedColumns DEF Decided

\* schedule with a decision.
LEMMA DeciderSchedulesKeeps ==
  ASSUME Exclusive, NEW h \in Deciders, NEW j \in Jobs, DeciderSchedules(h, j)
  PROVE  Exclusive'
  <1> DEFINE t == handler[h].thread
             a == handler[h].approval
             n == [thread |-> t, resume |-> a, pc |-> "created"]
  <1>1. /\ handler[h].pc = "deciding" /\ h \in Handlers
        /\ GrantSlot(t)
        /\ row' = [row EXCEPT ![t] = Decided(row[t])]
        /\ job[j] = None
        /\ job' = [job EXCEPT ![j] = n]
        /\ NewJob(j, t, a)
        /\ handler' = [handler EXCEPT ![h] = Idle]
        /\ Lock!Leave(t)
        /\ held' = held \cup {[user |-> User, thread |-> t]}
        /\ UNCHANGED <<mode, late>>
    BY DEF DeciderSchedules, SetRow, NewJob, GrantSlot, Pool!Grant, Handlers
  <1>2. t \in Threads /\ row[t] \in Columns /\ mode = "up" /\ a \in Asked
    BY <1>1, RequestFacts DEF Requests
  <1>3. Decided(row[t]) \in Columns /\ Decided(row[t]) # None
    BY <1>2, DecidedColumns, NoneIsNoRecord
  <1>4. n \in Tasks /\ n # None /\ n.thread = t /\ n.pc = "created"
    BY <1>2, NoneIsNoRecord DEF Tasks, JobPcs
  <1>5. [user |-> User, thread |-> t] \in Slots
    BY <1>2 DEF Slots
  <1>6. \A i \in Jobs, u \in Threads : Inside(i, u)' <=> Inside(i, u)
    BY <1>1, <1>4 DEF Exclusive, ControlTypes, Inside, At, LockedPcs
  <1>7. /\ handler' \in [Handlers -> Requests]
        /\ \A g \in Handlers : handler'[g].pc # "idle" => handler'[g] = handler[g]
        /\ owner' \in [Threads -> Handlers \cup Jobs \cup {None}]
        /\ UNCHANGED queue
        /\ LockHolders'
    BY <1>1, <1>6, DeciderLeaves
  <1> HIDE DEF t, a, n
  <1>8. ControlTypes'
    BY <1>1, <1>2, <1>3, <1>4, <1>5, <1>7 DEF Exclusive, ControlTypes
  <1>9. RowsKept'
    <2>1. \A u \in Threads : row[u] # None => row'[u] # None
      BY <1>1, <1>2, <1>3 DEF Exclusive, ControlTypes
    <2>2. row'[t] # None
      BY <1>1, <1>2, <1>3 DEF Exclusive, ControlTypes
    <2>3. \A i \in Jobs : job'[i] = IF i = j THEN n ELSE job[i]
      BY <1>1 DEF Exclusive, ControlTypes
    <2>4. QED
      BY <1>1, <1>4, <1>7, <2>1, <2>2, <2>3, RowsStay
  <1>10. ServedByProcess'
    BY <1>1, <1>2 DEF Exclusive, ServedByProcess
  <1>11. OneSlotEach'
    BY <1>1, <1>2, SlotIsTaken DEF Exclusive
  <1>12. QED
    BY <1>7, <1>8, <1>9, <1>10, <1>11 DEF Exclusive

-----------------------------------------------------------------------------
(* A background task.                                                       *)

\* A task that goes on where it is, or comes to another place outside or
\* inside the lock, its row with it.
LEMMA TaskMoves ==
  ASSUME Exclusive, NEW j \in Jobs, job[j] # None, NEW pc \in JobPcs, Move(j, pc),
         NEW r \in Columns, row' = row \/ SetRow(job[j].thread, r),
         owner' \in [Threads -> Handlers \cup Jobs \cup {None}],
         queue' \in [Threads -> Seq(Handlers \cup Jobs)],
         UNCHANGED <<mode, held, handler, late>>
  PROVE  /\ ControlTypes' /\ RowsKept' /\ ServedByProcess' /\ OneSlotEach'
         /\ \A i \in Jobs : i # j => job'[i] = job[i]
         /\ job'[j] # None /\ job'[j].thread = job[j].thread /\ job'[j].pc = pc
  <1> DEFINE t == job[j].thread
             n == [job[j] EXCEPT !.pc = pc]
  <1>1. job[j] \in Tasks /\ t \in Threads
    BY TaskFacts
  <1>2. n \in Tasks /\ n # None /\ n.thread = t /\ n.pc = pc
    BY <1>1, NoneIsNoRecord DEF Tasks
  <1>3. job' = [job EXCEPT ![j] = n] /\ (row' = row \/ row' = [row EXCEPT ![t] = r])
    BY DEF Move, SetRow
  <1> HIDE DEF n, t
  <1>4. \A i \in Jobs : job'[i] = IF i = j THEN n ELSE job[i]
    BY <1>3 DEF Exclusive, ControlTypes
  <1>5. \A u \in Threads : row[u] # None => row'[u] # None
    BY <1>1, <1>3, NoneIsNoRecord DEF Exclusive, ControlTypes
  <1>6. ControlTypes'
    BY <1>1, <1>2, <1>3 DEF Exclusive, ControlTypes
  <1>7. \A i \in Jobs : job'[i] # None <=> job[i] # None
    BY <1>2, <1>4
  <1>8. \A i \in Jobs : job'[i] # None => job'[i].thread = job[i].thread
    BY <1>2, <1>4 DEF t
  <1>9. RowsKept'
    BY <1>5, <1>7, <1>8, RowsStay
  <1>10. ServedByProcess'
    BY <1>7 DEF Exclusive, ServedByProcess
  <1>11. OneSlotEach'
    BY <1>7, <1>8, SlotsStay DEF Exclusive
  <1>12. QED
    BY <1>2, <1>4, <1>6, <1>9, <1>10, <1>11 DEF t

\* The lock is taken by a task, or granted to it.
LEMMA TaskGetsLock ==
  ASSUME Exclusive, NEW j \in Jobs, At(j, {"created", "locking"}),
         NEW r \in Columns, SetRow(job[j].thread, r), Move(j, "entered"),
         owner[job[j].thread] = None,
         owner' = [owner EXCEPT ![job[j].thread] = j],
         queue' \in [Threads -> Seq(Handlers \cup Jobs)],
         UNCHANGED <<mode, held, handler, late>>
  PROVE  Exclusive'
  <1> DEFINE t == job[j].thread
  <1>1. job[j] # None /\ t \in Threads
    BY TaskFacts DEF At
  <1>2. owner' \in [Threads -> Handlers \cup Jobs \cup {None}]
    BY DEF Exclusive, ControlTypes
  <1>3. "entered" \in JobPcs /\ "entered" \in LockedPcs
    BY DEF JobPcs, LockedPcs
  <1>4. /\ ControlTypes' /\ RowsKept' /\ ServedByProcess' /\ OneSlotEach'
        /\ \A i \in Jobs : i # j => job'[i] = job[i]
        /\ job'[j] # None /\ job'[j].thread = t /\ job'[j].pc = "entered"
    BY <1>1, <1>2, <1>3, TaskMoves
  <1>5. j \in Lockers /\ j \notin Deciders
    BY NamesDiffer DEF Lockers, Handlers
  <1>6. \A p \in Lockers \ {j}, u \in Threads : InLock(p, u)' <=> InLock(p, u)
    BY <1>4 DEF InLock, Holding, Inside, At
  <1>7. \A u \in Threads : ~ InLock(j, u) /\ (InLock(j, u)' <=> u = t)
    BY <1>3, <1>4, <1>5 DEF InLock, Inside, At, LockedPcs
  <1>8. LockHolders'
    BY <1>1, <1>5, <1>6, <1>7, LockIsTaken DEF Exclusive
  <1>9. QED
    BY <1>4, <1>8 DEF Exclusive

\* What a task makes of its row when it starts.
LEMMA StartedType ==
  ASSUME NEW r \in Columns, NEW a \in Asked
  PROVE  Started(r, a) \in Columns /\ Started(r, a).status = "running"
  <1> DEFINE u == Updated(r, "running", None, None, None)
  <1>1. u \in Columns /\ u.status = "running"
    BY UpdatedColumns DEF Statuses
  <1> HIDE DEF u
  <1>2. /\ AfterEvent(u, "approval_resumed", {}) \in Columns
        /\ AfterEvent(u, "approval_resumed", {}).status = "running"
    BY <1>1, EventColumns
  <1>3. QED
    BY <1>1, <1>2 DEF Started, u

\* JobEnters keeps mutual exclusion, the slots and the types.
LEMMA JobEntersKeeps ==
  ASSUME Exclusive, NEW j \in Jobs, JobEnters(j)
  PROVE  Exclusive'
  <1> DEFINE t == job[j].thread
             r == Started(row[t], job[j].resume)
  <1>1. /\ job[j] # None /\ job[j].pc = "created"
        /\ UNCHANGED <<mode, held, handler, late>>
    BY DEF JobEnters, At
  <1>2. t \in Threads /\ r \in Columns
    BY <1>1, TaskFacts, StartedType
  <1>3. CASE Lock!Take(j, t) /\ SetRow(t, r) /\ Move(j, "entered")
    <2>1. /\ owner[t] = None /\ owner' = [owner EXCEPT ![t] = j]
          /\ UNCHANGED queue
      BY <1>3 DEF Lock!Take
    <2>2. queue' \in [Threads -> Seq(Handlers \cup Jobs)]
      BY <2>1 DEF Exclusive, ControlTypes
    <2>3. QED
      BY <1>1, <1>2, <1>3, <2>1, <2>2, TaskGetsLock DEF At
  <1>4. CASE Lock!Wait(j, t) /\ UNCHANGED row /\ Move(j, "locking")
    <2>1. queue' = [queue EXCEPT ![t] = Append(@, j)] /\ UNCHANGED owner
      BY <1>4 DEF Lock!Wait
    <2>2. /\ queue' \in [Threads -> Seq(Handlers \cup Jobs)]
          /\ owner' \in [Threads -> Handlers \cup Jobs \cup {None}]
      BY <1>2, <2>1 DEF Exclusive, ControlTypes
    <2>3. "locking" \in JobPcs
      BY DEF JobPcs
    <2>4. /\ ControlTypes' /\ RowsKept' /\ ServedByProcess' /\ OneSlotEach'
          /\ \A i \in Jobs : i # j => job'[i] = job[i]
          /\ job'[j] # None /\ job'[j].pc = "locking"
      BY <1>1, <1>2, <1>4, <2>2, <2>3, TaskMoves
    <2>5. \A p \in Lockers, u \in Threads : InLock(p, u)' <=> InLock(p, u)
      BY <1>1, <2>4 DEF InLock, Holding, Inside, At, LockedPcs
    <2>6. QED
      BY <2>1, <2>4, <2>5, LocksStay DEF Exclusive
  <1>5. QED
    BY <1>3, <1>4 DEF JobEnters

\* JobGranted keeps mutual exclusion, the slots and the types.
LEMMA JobGrantedKeeps ==
  ASSUME Exclusive, NEW j \in Jobs, JobGranted(j)
  PROVE  Exclusive'
  <1> DEFINE t == job[j].thread
             r == Started(row[t], job[j].resume)
  <1>1. /\ job[j] # None /\ job[j].pc = "locking"
        /\ SetRow(t, r) /\ Move(j, "entered")
        /\ owner[t] = None /\ queue[t] # <<>>
        /\ owner' = [owner EXCEPT ![t] = j]
        /\ queue' = [queue EXCEPT ![t] = Tail(@)]
        /\ UNCHANGED <<mode, held, handler, late>>
    BY DEF JobGranted, At, GrantedTo, Lock!Grant
  <1>2. t \in Threads /\ r \in Columns
    BY <1>1, TaskFacts, StartedType
  <1>3. queue' \in [Threads -> Seq(Handlers \cup Jobs)]
    BY <1>1, <1>2 DEF Exclusive, ControlTypes
  <1>4. QED
    BY <1>1, <1>2, <1>3, TaskGetsLock DEF At

\* The graph works inside the lock.
LEMMA WorkKeeps ==
  ASSUME Exclusive, NEW j \in Jobs, At(j, LockedPcs), NEW pc \in LockedPcs,
         Move(j, pc), UNCHANGED <<row, mode, owner, queue, held, handler, late>>
  PROVE  Exclusive'
  <1>1. job[j] # None /\ row[job[j].thread] \in Columns /\ pc \in JobPcs
    BY TaskFacts DEF At, JobPcs
  <1>2. /\ owner' \in [Threads -> Handlers \cup Jobs \cup {None}]
        /\ queue' \in [Threads -> Seq(Handlers \cup Jobs)]
    BY DEF Exclusive, ControlTypes
  <1>3. /\ ControlTypes' /\ RowsKept' /\ ServedByProcess' /\ OneSlotEach'
        /\ \A i \in Jobs : i # j => job'[i] = job[i]
        /\ job'[j] # None /\ job'[j].thread = job[j].thread /\ job'[j].pc = pc
    BY <1>1, <1>2, TaskMoves
  <1>4. \A p \in Lockers, u \in Threads : InLock(p, u)' <=> InLock(p, u)
    BY <1>3 DEF InLock, Holding, Inside, At
  <1>5. QED
    BY <1>3, <1>4, LocksStay DEF Exclusive

\* The exception that leaves the lock.
LEMMA JobRaisesKeeps ==
  ASSUME Exclusive, NEW j \in Jobs, JobRaises(j)
  PROVE  Exclusive'
  <1> DEFINE t == job[j].thread
             r == AfterEvent(row[t], "error", {})
  <1>1. /\ job[j] # None /\ job[j].pc = "entered"
        /\ SetRow(t, r) /\ Move(j, "failing")
        /\ owner' = [owner EXCEPT ![t] = None]
        /\ UNCHANGED <<mode, queue, held, handler, late>>
    BY DEF JobRaises, At, Lock!Leave
  <1>2. t \in Threads /\ row[t] \in Columns
    BY <1>1, TaskFacts
  <1>3. r \in Columns /\ "failing" \in JobPcs
    BY <1>2, EventColumns DEF JobPcs
  <1>4. /\ owner' \in [Threads -> Handlers \cup Jobs \cup {None}]
        /\ queue' \in [Threads -> Seq(Handlers \cup Jobs)]
    BY <1>1 DEF Exclusive, ControlTypes
  <1>5. /\ ControlTypes' /\ RowsKept' /\ ServedByProcess' /\ OneSlotEach'
        /\ \A i \in Jobs : i # j => job'[i] = job[i]
        /\ job'[j] # None /\ job'[j].thread = t /\ job'[j].pc = "failing"
    BY <1>1, <1>3, <1>4, TaskMoves
  <1>6. j \in Lockers /\ j \notin Deciders
    BY NamesDiffer DEF Lockers, Handlers
  <1>7. InLock(j, t)
    BY <1>1 DEF InLock, Inside, At, LockedPcs
  <1>8. \A u \in Threads : ~ InLock(j, u)'
    BY <1>5, <1>6 DEF InLock, Inside, At, LockedPcs
  <1>9. \A p \in Lockers \ {j}, u \in Threads : InLock(p, u)' <=> InLock(p, u)
    BY <1>1, <1>5 DEF InLock, Holding, Inside, At
  <1>10. LockHolders'
    BY <1>1, <1>2, <1>6, <1>7, <1>8, <1>9, LockIsLeft DEF Exclusive
  <1>11. QED
    BY <1>5, <1>10 DEF Exclusive

\* A task that is gone without having been in the lock.
LEMMA GoneOutside ==
  ASSUME Exclusive, NEW j \in Jobs, job[j] # None, job[j].pc \notin LockedPcs,
         job' = [job EXCEPT ![j] = None],
         NEW r \in Columns, row' = row \/ SetRow(job[j].thread, r),
         held' \subseteq held, OneSlotEach',
         queue' \in [Threads -> Seq(Handlers \cup Jobs)],
         UNCHANGED <<mode, owner, handler, late>>
  PROVE  Exclusive'
  <1> DEFINE t == job[j].thread
  <1>1. t \in Threads /\ (row' = row \/ row' = [row EXCEPT ![t] = r])
    BY TaskFacts DEF SetRow
  <1> HIDE DEF t
  <1>2. ControlTypes'
    BY <1>1 DEF Exclusive, ControlTypes
  <1>3. \A i \in Jobs : job'[i] = IF i = j THEN None ELSE job[i]
    BY DEF Exclusive, ControlTypes
  <1>4. \A u \in Threads : row[u] # None => row'[u] # None
    BY <1>1, NoneIsNoRecord DEF Exclusive, ControlTypes
  <1>5. RowsKept'
    BY <1>3, <1>4, RowsStay
  <1>6. held = {} => held' = {}
    OBVIOUS
  <1>7. ServedByProcess'
    BY <1>3, <1>6 DEF Exclusive, ServedByProcess
  <1>8. \A p \in Lockers, u \in Threads : InLock(p, u)' <=> InLock(p, u)
    BY <1>3 DEF InLock, Holding, Inside, At
  <1>9. QED
    BY <1>2, <1>5, <1>7, <1>8, LocksStay DEF Exclusive

\* JobReleased keeps mutual exclusion, the slots and the types.
LEMMA JobReleasedKeeps ==
  ASSUME Exclusive, NEW j \in Jobs, JobReleased(j)
  PROVE  Exclusive'
  <1>1. /\ job[j] # None /\ job[j].pc = "failing"
        /\ held' = held \ {[user |-> User, thread |-> job[j].thread]}
        /\ job' = [job EXCEPT ![j] = None]
        /\ UNCHANGED <<row, mode, owner, queue, handler, late>>
    BY DEF JobReleased, At, Pool!Return, durable, locks
  <1>2. row[job[j].thread] \in Columns
    BY <1>1, TaskFacts
  <1>3. OneSlotEach'
    BY <1>1, SlotLeaves DEF Exclusive
  <1>4. queue' \in [Threads -> Seq(Handlers \cup Jobs)]
    BY <1>1 DEF Exclusive, ControlTypes
  <1>5. held' \subseteq held /\ job[j].pc \notin LockedPcs
    BY <1>1 DEF LockedPcs
  <1>6. QED
    BY <1>1, <1>2, <1>3, <1>4, <1>5, GoneOutside

\* The slot of a task cancelled before it ran stays taken to the end.
LEMMA CancelledUnstartedKeeps ==
  ASSUME Exclusive, NEW j \in Jobs, CancelledUnstarted(j)
  PROVE  Exclusive'
  <1>1. /\ job[j] # None /\ job[j].pc = "created" /\ mode = "cancelling"
        /\ job' = [job EXCEPT ![j] = None]
        /\ UNCHANGED <<row, mode, held, owner, queue, handler, late>>
    BY DEF CancelledUnstarted, At, durable, locks
  <1>2. row[job[j].thread] \in Columns
    BY <1>1, TaskFacts
  <1>3. OneSlotEach'
    BY <1>1 DEF Exclusive, ControlTypes, OneSlotEach
  <1>4. queue' \in [Threads -> Seq(Handlers \cup Jobs)]
    BY <1>1 DEF Exclusive, ControlTypes
  <1>5. held' \subseteq held /\ job[j].pc \notin LockedPcs
    BY <1>1 DEF LockedPcs
  <1>6. QED
    BY <1>1, <1>2, <1>3, <1>4, <1>5, GoneOutside

\* interrupted is a status, and the columns stay columns.
LEMMA InterruptedType ==
  ASSUME NEW r \in Columns
  PROVE  Interrupted(r) \in Columns /\ Interrupted(r).status = "interrupted"
  <1>1. /\ "interrupted" \in Statuses
        /\ "shutdown" \in Results \cup {None}
        /\ None \in (SUBSET ApprovalIds) \cup {None}
    BY DEF Statuses, Results
  <1>2. QED
    BY <1>1, UpdatedColumns DEF Interrupted

\* CancelledWaiting keeps mutual exclusion, the slots and the types.
LEMMA CancelledWaitingKeeps ==
  ASSUME Exclusive, NEW j \in Jobs, CancelledWaiting(j)
  PROVE  Exclusive'
  <1> DEFINE t == job[j].thread
  <1>1. /\ job[j] # None /\ job[j].pc = "locking"
        /\ Lock!GiveUp(j, t)
        /\ SetRow(t, Interrupted(row[t]))
        /\ held' = held \ {[user |-> User, thread |-> t]}
        /\ job' = [job EXCEPT ![j] = None]
        /\ UNCHANGED <<mode, handler, late>>
    BY DEF CancelledWaiting, At, Pool!Return
  <1>2. t \in Threads /\ Interrupted(row[t]) \in Columns
    BY <1>1, TaskFacts, InterruptedType
  <1>3. OneSlotEach'
    BY <1>1, SlotLeaves DEF Exclusive
  <1>4. UNCHANGED owner /\ queue' \in [Threads -> Seq(Handlers \cup Jobs)]
    <2>1. PICK i \in DOMAIN queue[t] :
            queue' = [queue EXCEPT ![t] = Lock!RemoveAt(@, i)]
      BY <1>1 DEF Lock!GiveUp
    <2>2. queue \in [Threads -> Seq(Handlers \cup Jobs)]
      BY DEF Exclusive, ControlTypes
    <2> DEFINE s == queue[t]
    <2>3. Lock!RemoveAt(s, i) \in Seq(Handlers \cup Jobs)
      <3>1. s \in Seq(Handlers \cup Jobs) /\ i \in 1 .. Len(s)
        BY <1>2, <2>1, <2>2
      <3> HIDE DEF s
      <3>2. /\ SubSeq(s, 1, i - 1) \in Seq(Handlers \cup Jobs)
            /\ SubSeq(s, i + 1, Len(s)) \in Seq(Handlers \cup Jobs)
        BY <3>1
      <3>3. QED
        BY <3>2 DEF Lock!RemoveAt
    <2>4. QED
      BY <1>1, <2>1, <2>2, <2>3 DEF Lock!GiveUp
  <1>5. held' \subseteq held /\ job[j].pc \notin LockedPcs
    BY <1>1 DEF LockedPcs
  <1>6. QED
    BY <1>1, <1>2, <1>3, <1>4, <1>5, GoneOutside

-----------------------------------------------------------------------------
(* Tools, and the process.                                                  *)

\* A tool gets going in the thread of a task, or reports that it did.
LEMMA ToolsKeep ==
  ASSUME Exclusive, NEW t \in Threads, row[t] # None, NEW r \in Columns,
         row' = row \/ SetRow(t, r), NEW n \in Threading,
         late' = [late EXCEPT ![t] = n],
         UNCHANGED <<mode, owner, queue, held, handler, job>>
  PROVE  Exclusive'
  <1>1. row' = row \/ row' = [row EXCEPT ![t] = r]
    BY DEF SetRow
  <1>2. \A u \in Threads : row[u] # None => row'[u] # None
    BY <1>1, NoneIsNoRecord DEF Exclusive, ControlTypes
  <1>3. \A u \in Threads :
          late'[u] # NoThreads => late[u] # NoThreads \/ row'[u] # None
    BY <1>2 DEF Exclusive, ControlTypes
  <1>4. ControlTypes'
    BY <1>1 DEF Exclusive, ControlTypes
  <1>5. RowsKept'
    BY <1>2, <1>3, RowsStay
  <1>6. ServedByProcess' /\ OneSlotEach'
    BY SlotsStay DEF Exclusive, ServedByProcess
  <1>7. \A p \in Lockers, u \in Threads : InLock(p, u)' <=> InLock(p, u)
    BY DEF InLock, Holding, Inside, At
  <1>8. QED
    BY <1>4, <1>5, <1>6, <1>7, LocksStay DEF Exclusive

\* ToolStarts keeps mutual exclusion, the slots and the types.
LEMMA ToolStartsKeeps ==
  ASSUME Exclusive, NEW j \in Jobs, ToolStarts(j)
  PROVE  Exclusive'
  <1> DEFINE t == job[j].thread
  <1> DEFINE n == [late[t] EXCEPT !.own = @ + 1]
  <1>1. /\ job[j] # None /\ late[t].own + late[t].left < MaxLate
        /\ late' = [late EXCEPT ![t] = n]
        /\ UNCHANGED <<row, mode, owner, queue, held, handler, job>>
    BY DEF ToolStarts, At, durable, locks
  <1>2. t \in Threads /\ row[t] \in Columns
    BY <1>1, TaskFacts
  <1>3. n \in Threading
    <2>1. late[t] \in Threading
      BY <1>2 DEF Exclusive, ControlTypes
    <2> HIDE DEF t
    <2>2. QED
      BY <1>1, <2>1, BoundsAreNumbers DEF Threading
  <1>4. row[t] # None
    BY <1>2, NoneIsNoRecord
  <1>5. QED
    BY <1>1, <1>2, <1>3, <1>4, ToolsKeep

\* A thread that reports was counted.
LEMMA ThreadReports ==
  ASSUME Exclusive, NEW t \in Threads, ToolReports(t)
  PROVE  /\ late[t] # NoThreads
         /\ \E n \in Threading : late' = [late EXCEPT ![t] = n]
  <1>1. late[t] \in Threading
    BY DEF Exclusive, ControlTypes
  <1>2. CASE late[t].own > 0 /\ late' = [late EXCEPT ![t].own = @ - 1]
    <2> DEFINE n == [late[t] EXCEPT !.own = @ - 1]
    <2>1. n \in Threading /\ late[t] # NoThreads
      BY <1>1, <1>2, BoundsAreNumbers DEF Threading, NoThreads
    <2>2. late' = [late EXCEPT ![t] = n]
      BY <1>2
    <2>3. QED
      BY <2>1, <2>2
  <1>3. CASE late[t].left > 0 /\ late' = [late EXCEPT ![t].left = @ - 1]
    <2> DEFINE n == [late[t] EXCEPT !.left = @ - 1]
    <2>1. n \in Threading /\ late[t] # NoThreads
      BY <1>1, <1>3, BoundsAreNumbers DEF Threading, NoThreads
    <2>2. late' = [late EXCEPT ![t] = n]
      BY <1>3
    <2>3. QED
      BY <2>1, <2>2
  <1>4. QED
    BY <1>2, <1>3 DEF ToolReports

\* ToolReports keeps mutual exclusion, the slots and the types.
LEMMA ToolReportsKeeps ==
  ASSUME Exclusive, NEW t \in Threads, ToolReports(t)
  PROVE  Exclusive'
  <1>1. /\ SetRow(t, AfterEvent(row[t], "tool_start", {}))
        /\ UNCHANGED <<mode, owner, queue, held, handler, job>>
    BY DEF ToolReports, locks
  <1>4. /\ late[t] # NoThreads
        /\ \E n \in Threading : late' = [late EXCEPT ![t] = n]
    BY ThreadReports
  <1>2. row[t] # None /\ row[t] \in Columns
    BY <1>4 DEF Exclusive, ControlTypes, RowsKept
  <1>3. AfterEvent(row[t], "tool_start", {}) \in Columns
    BY <1>2, EventColumns
  <1>5. QED
    BY <1>1, <1>2, <1>3, <1>4, ToolsKeep

\* A shutdown begins when no request is left, and goes on.
LEMMA ShutdownKeeps ==
  ASSUME Exclusive, ShutdownBegins \/ ShutdownCancels
  PROVE  Exclusive'
  <1>1. /\ mode' \in {"closing", "cancelling"} /\ mode \in {"up", "closing"}
        /\ UNCHANGED <<row, owner, queue, held, handler, job, late>>
    BY DEF ShutdownBegins, ShutdownCancels, durable, locks
  <1>2. \A h \in Handlers : handler[h].pc = "idle"
    BY DEF ShutdownBegins, ShutdownCancels, Exclusive, ServedByProcess
  <1>3. ControlTypes' /\ RowsKept'
    BY <1>1 DEF Exclusive, ControlTypes, RowsKept
  <1>4. ServedByProcess' /\ OneSlotEach'
    BY <1>1, <1>2, SlotsStay DEF Exclusive, ServedByProcess
  <1>5. \A p \in Lockers, u \in Threads : InLock(p, u)' <=> InLock(p, u)
    BY <1>1 DEF InLock, Holding, Inside, At
  <1>6. QED
    BY <1>1, <1>3, <1>4, <1>5, LocksStay DEF Exclusive

\* The end of the process leaves no request, no task and no owner.
LEMMA DownKeeps ==
  ASSUME Down, row' \in [Threads -> Columns \cup {None}]
  PROVE  Exclusive'
  <1>1. Idle \in Requests /\ Idle.pc = "idle"
    BY DEF Idle, Requests, Asked
  <1>2. ControlTypes'
    BY <1>1, NoneThread DEF Down, ControlTypes
  <1>3. \A h \in Handlers : handler'[h].pc = "idle"
    BY <1>1 DEF Down
  <1>4. \A j \in Jobs : job'[j] = None
    BY DEF Down
  <1>5. RowsKept' /\ ServedByProcess' /\ OneSlotEach'
    BY <1>3, <1>4 DEF Down, RowsKept, ServedByProcess, OneSlotEach
  <1>6. \A p \in Lockers, u \in Threads : ~ InLock(p, u)'
    BY <1>3, <1>4 DEF InLock, Holding, Inside, At, Handlers
  <1>7. \A u \in Threads : owner'[u] = None
    BY DEF Down
  <1>8. None \notin Lockers
    BY NamesDiffer DEF Lockers, Handlers
  <1>9. LockHolders'
    BY <1>6, <1>7, <1>8 DEF LockHolders
  <1>10. QED
    BY <1>2, <1>5, <1>9 DEF Exclusive

\* Restart keeps mutual exclusion, the slots and the types.
LEMMA RestartKeeps ==
  ASSUME Exclusive, Restart
  PROVE  Exclusive'
  <1>1. /\ mode = "down" /\ mode' = "up"
        /\ row' = [t \in Threads |-> IF row[t] = None THEN None
                                     ELSE Reconciled(row[t])]
        /\ UNCHANGED <<owner, queue, held, handler, job, late>>
    BY DEF Restart, locks
  <1>2. /\ \A h \in Handlers : handler[h].pc = "idle"
        /\ \A j \in Jobs : job[j] = None
        /\ held = {}
    BY <1>1 DEF Exclusive, ServedByProcess
  <1>3. \A t \in Threads : row[t] # None =>
          /\ Reconciled(row[t]) \in Columns
          /\ Reconciled(row[t]) # None
    <2> SUFFICES ASSUME NEW t \in Threads, row[t] # None
                 PROVE  /\ Reconciled(row[t]) \in Columns
                        /\ Reconciled(row[t]) # None
      OBVIOUS
    <2>1. row[t] \in Columns
      BY DEF Exclusive, ControlTypes
    <2>2. QED
      BY <2>1, RestartColumns, NoneIsNoRecord
  <1>4. ControlTypes'
    BY <1>1, <1>3 DEF Exclusive, ControlTypes
  <1>5. RowsKept' /\ ServedByProcess' /\ OneSlotEach'
    BY <1>1, <1>2, <1>3
    DEF Exclusive, RowsKept, ServedByProcess, OneSlotEach
  <1>6. \A p \in Lockers, u \in Threads : InLock(p, u)' <=> InLock(p, u)
    BY <1>1 DEF InLock, Holding, Inside, At
  <1>7. QED
    BY <1>1, <1>4, <1>5, <1>6, LocksStay DEF Exclusive

\* The ways a task ends inside the lock, and the row each leaves.
LEMMA WaitsRow ==
  ASSUME NEW r \in Columns, NEW a \in ApprovalIds
  PROVE  LET w == Updated(AfterEvent(r, "waiting_for_approval", {a}),
                          "waiting_for_approval", None, {a}, None)
         IN  /\ w \in Columns
             /\ w.status = "waiting_for_approval"
             /\ w.approvals = {a}
  <1> DEFINE e == AfterEvent(r, "waiting_for_approval", {a})
  <1>1. e \in Columns /\ e.approvals = {a}
    BY EventColumns
  <1> HIDE DEF e
  <1>2. /\ "waiting_for_approval" \in Statuses
        /\ None \in Results \cup {None}
        /\ {a} \in (SUBSET ApprovalIds) \cup {None}
    BY DEF Statuses
  <1> DEFINE w == Updated(e, "waiting_for_approval", None, {a}, None)
  <1>3. w \in Columns /\ w.status = "waiting_for_approval"
    BY <1>1, <1>2, UpdatedColumns
  <1>4. w.approvals = {a}
    BY <1>1 DEF Updated, Columns
  <1>5. QED
    BY <1>3, <1>4 DEF e

\* The row a completed task leaves.
LEMMA CompletesRow ==
  ASSUME NEW r \in Columns
  PROVE  LET w == Updated(AfterEvent(r, "task_result", {}),
                          "completed", "answer", {}, None)
         IN  w \in Columns /\ w.status = "completed"
  <1> DEFINE e == AfterEvent(r, "task_result", {})
  <1>1. e \in Columns
    BY EventColumns
  <1> HIDE DEF e
  <1>2. /\ "completed" \in Statuses
        /\ "answer" \in Results \cup {None}
        /\ {} \in (SUBSET ApprovalIds) \cup {None}
    BY DEF Statuses, Results
  <1>3. QED
    BY <1>1, <1>2, UpdatedColumns DEF e

\* The row a failed task leaves.
LEMMA ErrorsRow ==
  ASSUME NEW r \in Columns
  PROVE  LET w == Updated(AfterEvent(r, "error", {}), "error", "failure", {}, None)
         IN  w \in Columns /\ w.status = "error"
  <1> DEFINE e == AfterEvent(r, "error", {})
  <1>1. e \in Columns
    BY EventColumns
  <1> HIDE DEF e
  <1>2. /\ "error" \in Statuses
        /\ "failure" \in Results \cup {None}
        /\ {} \in (SUBSET ApprovalIds) \cup {None}
    BY DEF Statuses, Results
  <1>3. /\ Updated(e, "error", "failure", {}, None) \in Columns
        /\ Updated(e, "error", "failure", {}, None).status = "error"
    BY <1>1, <1>2, UpdatedColumns
  <1>4. QED
    BY <1>3 DEF e

\* The four actions in which a task ends inside the lock are one.
TaskEnds(j, r) ==
  /\ At(j, LockedPcs)
  /\ r \in Columns
  /\ EndJob(j, r)
  /\ \/ /\ job[j].pc = "interrupted"
        /\ r.status = "waiting_for_approval"
        /\ r.approvals = {pending[job[j].thread]}
     \/ r.status \in {"completed", "error", "interrupted"}

\* The four ways a task ends inside the lock have one shape.
LEMMA EndsAre ==
  ASSUME Base, NEW j \in Jobs,
         JobWaits(j) \/ JobCompletes(j) \/ JobErrors(j) \/ CancelledInside(j)
  PROVE  \E r : TaskEnds(j, r)
  <1> DEFINE t == job[j].thread
  <1>1. At(j, LockedPcs)
    BY DEF JobWaits, JobCompletes, JobErrors, CancelledInside, At, LockedPcs
  <1>2. t \in Threads /\ row[t] \in Columns
    BY <1>1, TaskFacts DEF At, Base
  <1>3. CASE JobWaits(j)
    <2> DEFINE r == Updated(AfterEvent(row[t], "waiting_for_approval", {pending[t]}),
                            "waiting_for_approval", None, {pending[t]}, None)
    <2>1. EndJob(j, r) /\ job[j].pc = "interrupted"
      BY <1>3 DEF JobWaits, At
    <2>2. pending[t] \in ApprovalIds
      BY <1>2, <1>3 DEF JobWaits, Base, InterruptIsThere, DataTypes, Asked
    <2>3. r \in Columns /\ r.status = "waiting_for_approval" /\ r.approvals = {pending[t]}
      BY <1>2, <2>2, WaitsRow
    <2> HIDE DEF r
    <2>4. TaskEnds(j, r)
      BY <1>1, <2>1, <2>3 DEF TaskEnds
    <2>5. QED
      BY <2>4
  <1>4. CASE JobCompletes(j)
    <2> DEFINE r == Updated(AfterEvent(row[t], "task_result", {}),
                            "completed", "answer", {}, None)
    <2>1. EndJob(j, r) /\ r \in Columns /\ r.status = "completed"
      BY <1>2, <1>4, CompletesRow DEF JobCompletes
    <2> HIDE DEF r
    <2>2. TaskEnds(j, r)
      BY <1>1, <2>1 DEF TaskEnds
    <2>3. QED
      BY <2>2
  <1>5. CASE JobErrors(j)
    <2> DEFINE r == Updated(AfterEvent(row[t], "error", {}), "error", "failure", {},
                            None)
    <2>1. EndJob(j, r) /\ r \in Columns /\ r.status = "error"
      BY <1>2, <1>5, ErrorsRow DEF JobErrors
    <2> HIDE DEF r
    <2>2. TaskEnds(j, r)
      BY <1>1, <2>1 DEF TaskEnds
    <2>3. QED
      BY <2>2
  <1>6. CASE CancelledInside(j)
    <2> DEFINE r == Interrupted(row[t])
    <2>1. EndJob(j, r) /\ r \in Columns /\ r.status = "interrupted"
      BY <1>2, <1>6, InterruptedType DEF CancelledInside
    <2> HIDE DEF r
    <2>2. TaskEnds(j, r)
      BY <1>1, <2>1 DEF TaskEnds
    <2>3. QED
      BY <2>2
  <1>7. QED
    BY <1>3, <1>4, <1>5, <1>6

\* The steps a graph makes inside the lock leave the rows alone, and so does
\* what goes with them.
GraphMoves(j, pc) ==
  /\ At(j, LockedPcs) /\ pc \in LockedPcs
  /\ Move(j, pc)
  /\ UNCHANGED <<row, consumed, mode, owner, queue, held, handler, late,
                 accepted, torn, tardy, expired, stops>>
GraphSteps(j) ==
  \/ GraphTakesMessage(j) \/ GraphTakesDecision(j) \/ GraphSavesDecision(j)
  \/ \E a \in ApprovalIds : GraphInterrupts(j, a)

\* The steps of the graph have one shape, too.
LEMMA GraphStepsAre ==
  ASSUME NEW j \in Jobs, GraphSteps(j)
  PROVE  \E pc : GraphMoves(j, pc)
  <1>1. CASE GraphTakesMessage(j) \/ GraphSavesDecision(j)
    <2>1. GraphMoves(j, "working")
      BY <1>1 DEF GraphTakesMessage, GraphSavesDecision, GraphMoves, At, LockedPcs,
                  locks, history
    <2>2. QED
      BY <2>1
  <1>2. CASE GraphTakesDecision(j)
    <2>1. GraphMoves(j, "working") \/ GraphMoves(j, "resuming")
      BY <1>2 DEF GraphTakesDecision, GraphMoves, At, LockedPcs, locks, durable
    <2>2. QED
      BY <2>1
  <1>3. CASE \E a \in ApprovalIds : GraphInterrupts(j, a)
    <2>1. GraphMoves(j, "interrupted")
      BY <1>3 DEF GraphInterrupts, GraphMoves, At, LockedPcs, locks
    <2>2. QED
      BY <2>1
  <1>4. QED
    BY <1>1, <1>2, <1>3 DEF GraphSteps

\* The three ways the process goes down leave rows or none.
LEMMA DownsAre ==
  ASSUME Exclusive,
         \/ Crash \/ \E h \in Deciders : CrashAfterConsume(h)
         \/ \E T \in SUBSET Threads : Stopped(T)
  PROVE  Down /\ row' \in [Threads -> Columns \cup {None}]
  BY DEF Crash, CrashAfterConsume, Stopped, Forgotten, Exclusive, ControlTypes,
         durable

-----------------------------------------------------------------------------
\* Whoever runs next, each thread has one task and one owner of its lock.
LEMMA ExclusiveStep ==
  ASSUME Base, [Next]_vars
  PROVE  Exclusive'
  <1> USE DEF Base
  <1>1. CASE UNCHANGED vars
    BY <1>1, ControlUnchanged DEF vars, control, durable, locks
  <1>2. ASSUME NEW h \in Runs, NEW t \in Threads, RunClaims(h, t)
        PROVE  Exclusive'
    BY <1>2, RunClaimsKeeps
  <1>3. ASSUME NEW h \in Runs, RunSteps(h)
        PROVE  Exclusive'
    BY <1>3, ReadsPendingKeeps, RunTurnedAwayKeeps, RunSchedulesKeeps
    DEF RunSteps, Handlers
  <1>4. ASSUME NEW h \in Deciders, NEW t \in Threads, NEW a \in ApprovalIds,
               DeciderEnters(h, t, a)
        PROVE  Exclusive'
    BY <1>4, DeciderEntersKeeps
  <1>5. ASSUME NEW h \in Deciders, DeciderSteps(h)
        PROVE  Exclusive'
    BY <1>5, ReadsPendingKeeps, DeciderGrantedKeeps, DeciderTurnedAwayKeeps,
       DeciderSchedulesKeeps DEF DeciderSteps, Handlers
  <1>6. ASSUME NEW j \in Jobs, JobEnters(j) \/ JobGranted(j)
        PROVE  Exclusive'
    BY <1>6, JobEntersKeeps, JobGrantedKeeps
  <1>7. ASSUME NEW j \in Jobs, GraphSteps(j)
        PROVE  Exclusive'
    <2>1. PICK pc : GraphMoves(j, pc)
      BY <1>7, GraphStepsAre
    <2>2. QED
      BY <2>1, WorkKeeps DEF GraphMoves
  <1>8. ASSUME NEW j \in Jobs,
               \/ JobWaits(j) \/ JobCompletes(j) \/ JobErrors(j)
               \/ CancelledInside(j)
        PROVE  Exclusive'
    <2>1. PICK r : TaskEnds(j, r)
      BY <1>8, EndsAre
    <2>2. QED
      BY <2>1, EndKeeps DEF TaskEnds
  <1>9. ASSUME NEW j \in Jobs,
               \/ JobRaises(j) \/ JobReleased(j) \/ CancelledUnstarted(j)
               \/ CancelledWaiting(j)
        PROVE  Exclusive'
    BY <1>9, JobRaisesKeeps, JobReleasedKeeps, CancelledUnstartedKeeps,
       CancelledWaitingKeeps
  <1>10. ASSUME NEW j \in Jobs, ToolStarts(j)
         PROVE  Exclusive'
    BY <1>10, ToolStartsKeeps
  <1>11. ASSUME NEW t \in Threads, ToolReports(t)
         PROVE  Exclusive'
    BY <1>11, ToolReportsKeeps
  <1>12. CASE ShutdownBegins \/ ShutdownCancels
    BY <1>12, ShutdownKeeps
  <1>13. CASE \/ Crash \/ \E h \in Deciders : CrashAfterConsume(h)
              \/ \E T \in SUBSET Threads : Stopped(T)
    BY <1>13, DownsAre, DownKeeps
  <1>14. CASE Restart
    BY <1>14, RestartKeeps
  <1> HIDE DEF Base
  <1>15. QED
    BY <1>1, <1>2, <1>3, <1>4, <1>5, <1>6, <1>7, <1>8, <1>9, <1>10, <1>11,
       <1>12, <1>13, <1>14 DEF Next, JobSteps, GraphSteps

-----------------------------------------------------------------------------
(* What a step can change of what the other invariants speak about.         *)

\* Steps of a background task, and those of tools and of the process that
\* leave it running, serve no request.
TaskSteps(j) ==
  \/ JobEnters(j) \/ JobGranted(j)
  \/ GraphSteps(j)
  \/ JobWaits(j) \/ JobCompletes(j) \/ JobErrors(j) \/ CancelledInside(j)
  \/ JobRaises(j) \/ JobReleased(j)
  \/ CancelledUnstarted(j) \/ CancelledWaiting(j)
OtherSteps ==
  \/ \E j \in Jobs : ToolStarts(j)
  \/ \E t \in Threads : ToolReports(t)
  \/ ShutdownBegins \/ ShutdownCancels \/ Restart
DownSteps ==
  \/ Crash \/ \E h \in Deciders : CrashAfterConsume(h)
  \/ \E T \in SUBSET Threads : Stopped(T)
ServeSteps(h) ==
  \/ h \in Runs /\ \E t \in Threads : RunClaims(h, t)
  \/ h \in Deciders /\ \E t \in Threads, a \in ApprovalIds : DeciderEnters(h, t, a)
  \/ h \in Deciders /\ DeciderGranted(h)
  \/ h \in Runs /\ RunTurnedAway(h)
  \/ h \in Deciders /\ DeciderTurnedAway(h)
ScheduleSteps(h, j) ==
  \/ h \in Runs /\ RunSchedules(h, j)
  \/ h \in Deciders /\ DeciderSchedules(h, j)

\* The steps once more, by what they do.
LEMMA StepKinds ==
  ASSUME [Next]_vars
  PROVE  \/ UNCHANGED vars
         \/ \E h \in Handlers : ServeSteps(h) \/ ReadsPending(h)
         \/ \E h \in Handlers, j \in Jobs : ScheduleSteps(h, j)
         \/ \E j \in Jobs : TaskSteps(j)
         \/ OtherSteps \/ DownSteps
  BY DEF Next, RunSteps, DeciderSteps, JobSteps, ServeSteps, ScheduleSteps,
         TaskSteps, OtherSteps, DownSteps, Handlers, GraphSteps

\* A task never moves a request.
LEMMA TaskStepsServeNobody ==
  ASSUME NEW j \in Jobs, TaskSteps(j)
  PROVE  UNCHANGED handler
  BY DEF TaskSteps, GraphSteps, JobEnters, JobGranted, GraphTakesMessage, GraphTakesDecision,
         GraphSavesDecision, GraphInterrupts, JobWaits, JobCompletes, JobErrors,
         CancelledInside, EndJob, JobRaises, JobReleased, CancelledUnstarted,
         CancelledWaiting

\* A request decides on what it sees by then.
LEMMA RequestsDecide ==
  ASSUME Base, [Next]_vars, NEW h \in Handlers, handler'[h].pc = "deciding"
  PROVE  handler'[h] = handler[h] \/ ReadsPending(h)
  <1>1. handler \in [Handlers -> Requests]
    BY DEF Base, Exclusive, ControlTypes
  <1>2. Idle.pc = "idle" /\ \A t : [Idle EXCEPT !.pc = "reading", !.thread = t].pc = "reading"
    BY DEF Idle
  <1>3. ASSUME NEW g \in Handlers, ServeSteps(g)
        PROVE  handler'[h] = handler[h]
    <2>1. \E q : handler' = [handler EXCEPT ![g] = q] /\ q.pc # "deciding"
      <3>1. CASE \/ g \in Runs /\ \E t \in Threads : RunClaims(g, t)
                 \/ g \in Runs /\ RunTurnedAway(g)
                 \/ g \in Deciders /\ DeciderTurnedAway(g)
        BY <1>2, <3>1 DEF RunClaims, RunTurnedAway, DeciderTurnedAway
      <3>2. CASE g \in Deciders /\ \E t \in Threads, a \in ApprovalIds : DeciderEnters(g, t, a)
        <4>1. PICK t \in Threads, a \in ApprovalIds : DeciderEnters(g, t, a)
          BY <3>2
        <4> DEFINE q(pc) == [pc |-> pc, thread |-> t, approval |-> a, seen |-> None]
        <4>2. q("reading").pc # "deciding" /\ q("locking").pc # "deciding"
          OBVIOUS
        <4>3. \/ handler' = [handler EXCEPT ![g] = q("reading")]
              \/ handler' = [handler EXCEPT ![g] = q("locking")]
          BY <4>1 DEF DeciderEnters
        <4> HIDE DEF q
        <4>4. QED
          BY <4>2, <4>3
      <3>3. CASE g \in Deciders /\ DeciderGranted(g)
        <4> DEFINE q == [handler[g] EXCEPT !.pc = "reading"]
        <4>1. handler' = [handler EXCEPT ![g] = q]
          BY <3>3 DEF DeciderGranted
        <4>2. q.pc = "reading"
          BY <1>1 DEF Requests
        <4> HIDE DEF q
        <4>3. QED
          BY <4>1, <4>2
      <3>4. QED
        BY <1>3, <3>1, <3>2, <3>3 DEF ServeSteps
    <2>2. QED
      BY <1>1, <2>1
  <1>4. ASSUME NEW g \in Handlers, NEW j \in Jobs, ScheduleSteps(g, j)
        PROVE  handler'[h] = handler[h]
    BY <1>1, <1>2, <1>4 DEF ScheduleSteps, RunSchedules, DeciderSchedules
  <1>5. ASSUME NEW g \in Handlers, ReadsPending(g)
        PROVE  handler'[h] = handler[h] \/ ReadsPending(h)
    BY <1>1, <1>5 DEF ReadsPending
  <1>6. CASE DownSteps
    BY <1>2, <1>6, DownsAre DEF DownSteps, Down, Base
  <1>7. CASE OtherSteps \/ UNCHANGED vars
    BY <1>7 DEF OtherSteps, ToolStarts, ToolReports, ShutdownBegins,
                ShutdownCancels, Restart, vars
  <1>8. QED
    BY <1>3, <1>4, <1>5, <1>6, <1>7, StepKinds, TaskStepsServeNobody

\* A task is a new one, or one that was there; and one the graph has not
\* taken yet was so before, with the decision it has now.
LEMMA TasksCome ==
  ASSUME Base, [Next]_vars, NEW j \in Jobs, job'[j] # None
  PROVE  \/ \E h \in Handlers : ScheduleSteps(h, j)
         \/ /\ job[j] # None
            /\ job'[j].thread = job[j].thread /\ job'[j].resume = job[j].resume
            /\ job'[j].pc \in Unfed => job[j].pc \in Unfed
            /\ \/ job'[j] = job[j]
               \/ JobEnters(j) \/ JobGranted(j) \/ JobRaises(j)
               \/ GraphSteps(j)
  <1>1. job \in [Jobs -> Tasks \cup {None}]
    BY DEF Base, Exclusive, ControlTypes
  <1>2. ASSUME NEW i \in Jobs, TaskSteps(i), job'[j] # job[j]
        PROVE  /\ i = j /\ job[j] # None
               /\ job'[j].thread = job[j].thread /\ job'[j].resume = job[j].resume
               /\ job'[j].pc \in Unfed => job[j].pc \in Unfed
               /\ \/ JobEnters(j) \/ JobGranted(j) \/ JobRaises(j)
                  \/ GraphSteps(j)
    <2>1. CASE \/ JobWaits(i) \/ JobCompletes(i) \/ JobErrors(i) \/ CancelledInside(i)
               \/ JobReleased(i) \/ CancelledUnstarted(i) \/ CancelledWaiting(i)
      <3>1. job' = [job EXCEPT ![i] = None]
        BY <2>1 DEF JobWaits, JobCompletes, JobErrors, CancelledInside, EndJob,
                    JobReleased, CancelledUnstarted, CancelledWaiting
      <3>2. QED
        BY <1>1, <1>2, <3>1
    <2>2. CASE JobEnters(i) \/ JobGranted(i) \/ JobRaises(i)
      <3>1. /\ job[i] # None
            /\ \/ Move(i, "entered") /\ job[i].pc \in Unfed
               \/ Move(i, "locking") /\ job[i].pc \in Unfed
               \/ Move(i, "failing")
        BY <2>2 DEF JobEnters, JobGranted, JobRaises, At, Unfed
      <3>2. QED
        BY <1>1, <1>2, <2>2, <3>1 DEF Move, Tasks, Unfed
    <2>3. CASE GraphSteps(i)
      <3>1. PICK pc : GraphMoves(i, pc)
        BY <2>3, GraphStepsAre
      <3>2. Move(i, "working") \/ Move(i, "resuming") \/ Move(i, "interrupted")
        BY <2>3 DEF GraphSteps, GraphTakesMessage, GraphTakesDecision,
                    GraphSavesDecision, GraphInterrupts
      <3>3. job[i] # None
        BY <3>1 DEF GraphMoves, At
      <3>4. QED
        BY <1>1, <1>2, <2>3, <3>1, <3>2, <3>3 DEF Move, Tasks, Unfed
    <2>4. QED
      BY <1>2, <2>1, <2>2, <2>3 DEF TaskSteps
  <1>3. ASSUME NEW h \in Handlers, NEW i \in Jobs, ScheduleSteps(h, i), i # j
        PROVE  job'[j] = job[j]
    BY <1>1, <1>3 DEF ScheduleSteps, RunSchedules, DeciderSchedules, NewJob
  <1>4. CASE DownSteps
    BY <1>4, DownsAre DEF DownSteps, Down, Base
  <1>5. ASSUME NEW h \in Handlers, ServeSteps(h) \/ ReadsPending(h)
        PROVE  UNCHANGED job
    BY <1>5 DEF ServeSteps, ReadsPending, RunClaims, DeciderEnters, DeciderGranted,
                RunTurnedAway, DeciderTurnedAway
  <1>6. CASE OtherSteps \/ UNCHANGED vars
    BY <1>6 DEF OtherSteps, ToolStarts, ToolReports, ShutdownBegins,
                ShutdownCancels, Restart, vars
  <1>7. QED
    BY <1>2, <1>3, <1>4, <1>5, <1>6, StepKinds

\* A task is at an interrupt since its graph asked for an approval.
LEMMA InterruptComes ==
  ASSUME Base, [Next]_vars, NEW j \in Jobs, job'[j] # None,
         job'[j].pc = "interrupted"
  PROVE  /\ job[j] # None /\ job'[j].thread = job[j].thread
         /\ \/ job'[j] = job[j]
            \/ \E a \in ApprovalIds : GraphInterrupts(j, a)
  <1>1. job \in [Jobs -> Tasks \cup {None}]
    BY DEF Base, Exclusive, ControlTypes
  <1>2. ASSUME NEW h \in Handlers, ScheduleSteps(h, j)
        PROVE  FALSE
    BY <1>1, <1>2 DEF ScheduleSteps, RunSchedules, DeciderSchedules, NewJob
  <1>3. ASSUME job[j] # None, JobEnters(j) \/ JobGranted(j) \/ JobRaises(j)
        PROVE  FALSE
    BY <1>1, <1>3 DEF JobEnters, JobGranted, JobRaises, Move, Tasks
  <1>4. ASSUME job[j] # None,
               \/ GraphTakesMessage(j) \/ GraphTakesDecision(j)
               \/ GraphSavesDecision(j)
        PROVE  FALSE
    BY <1>1, <1>4
    DEF GraphTakesMessage, GraphTakesDecision, GraphSavesDecision, Move, Tasks
  <1>5. QED
    BY <1>2, <1>3, <1>4, TasksCome DEF GraphSteps

\* The checkpoint of a thread is only moved by the task inside its lock, and
\* never while that task waits to give the graph its input.
LEMMA CheckpointMoves ==
  ASSUME Base, [Next]_vars
  PROVE  \/ UNCHANGED <<pending, issued, raced, discarded>>
         \/ \E j \in Jobs : GraphTakesMessage(j) \/ GraphSavesDecision(j)
                            \/ \E a \in ApprovalIds : GraphInterrupts(j, a)
  <1>1. ASSUME NEW j \in Jobs, TaskSteps(j)
        PROVE  \/ UNCHANGED <<pending, issued, raced, discarded>>
               \/ GraphTakesMessage(j) \/ GraphSavesDecision(j)
               \/ \E a \in ApprovalIds : GraphInterrupts(j, a)
    BY <1>1 DEF TaskSteps, GraphSteps, JobEnters, JobGranted, GraphTakesDecision, JobWaits,
                JobCompletes, JobErrors, CancelledInside, EndJob, JobRaises,
                JobReleased, CancelledUnstarted, CancelledWaiting, durable, history
  <1>2. ASSUME NEW h \in Handlers, ServeSteps(h) \/ ReadsPending(h)
        PROVE  UNCHANGED <<pending, issued, raced, discarded>>
    BY <1>2 DEF ServeSteps, ReadsPending, RunClaims, DeciderEnters, DeciderGranted,
                RunTurnedAway, DeciderTurnedAway, durable, history
  <1>3. ASSUME NEW h \in Handlers, NEW j \in Jobs, ScheduleSteps(h, j)
        PROVE  UNCHANGED <<pending, issued, raced, discarded>>
    BY <1>3 DEF ScheduleSteps, RunSchedules, DeciderSchedules, history
  <1>4. CASE DownSteps \/ OtherSteps \/ UNCHANGED vars
    BY <1>4 DEF DownSteps, Crash, CrashAfterConsume, Stopped, OtherSteps,
                ToolStarts, ToolReports, ShutdownBegins, ShutdownCancels,
                Restart, vars, durable, history
  <1>5. QED
    BY <1>1, <1>2, <1>3, <1>4, StepKinds

\* What the graph of a thread waits for is changed by the task inside only.
LEMMA PendingMoves ==
  ASSUME Base, [Next]_vars, NEW t \in Threads, pending'[t] # pending[t]
  PROVE  \E j \in Jobs :
           /\ job[j] # None /\ job[j].thread = t /\ Inside(j, t)
           /\ At(j, LockedPcs)' /\ ~ At(j, Unfed)' /\ UNCHANGED owner
           /\ \/ GraphTakesMessage(j) /\ pending'[t] = None
              \/ GraphSavesDecision(j) /\ pending'[t] = None
              \/ \E a \in ApprovalIds : GraphInterrupts(j, a) /\ pending'[t] = a
  <1>1. PICK j \in Jobs : GraphTakesMessage(j) \/ GraphSavesDecision(j)
                          \/ \E a \in ApprovalIds : GraphInterrupts(j, a)
    BY CheckpointMoves
  <1>2. /\ At(j, LockedPcs) /\ UNCHANGED owner
        /\ Move(j, "working") \/ Move(j, "interrupted")
    BY <1>1 DEF GraphTakesMessage, GraphSavesDecision, GraphInterrupts, At,
                LockedPcs, locks
  <1>3. job[j] \in Tasks /\ job[j].thread \in Threads /\ job[j] # None
    BY <1>2, TaskFacts DEF Base, At
  <1>4. At(j, LockedPcs)' /\ ~ At(j, Unfed)'
    <2> DEFINE n(pc) == [job[j] EXCEPT !.pc = pc]
    <2>1. \A pc \in {"working", "interrupted"} : n(pc) \in Tasks /\ n(pc).pc = pc
      BY <1>3 DEF Tasks, JobPcs, LockedPcs
    <2>2. job' = [job EXCEPT ![j] = n("working")]
          \/ job' = [job EXCEPT ![j] = n("interrupted")]
      BY <1>2 DEF Move
    <2> HIDE DEF n
    <2>3. job'[j] \in Tasks /\ job'[j].pc \in {"working", "interrupted"}
      BY <2>1, <2>2 DEF Base, Exclusive, ControlTypes
    <2>4. QED
      BY <2>3, NoneIsNoRecord DEF At, LockedPcs, Unfed
  <1>5. pending \in [Threads -> Asked]
    BY DEF Base, DataTypes
  <1>6. CASE GraphTakesMessage(j) \/ GraphSavesDecision(j)
    <2>1. pending' = [pending EXCEPT ![job[j].thread] = None]
      BY <1>6 DEF GraphTakesMessage, GraphSavesDecision
    <2>2. job[j].thread = t /\ pending'[t] = None
      BY <1>3, <1>5, <2>1
    <2>3. QED
      BY <1>2, <1>3, <1>4, <1>6, <2>2 DEF Inside
  <1>7. CASE \E a \in ApprovalIds : GraphInterrupts(j, a)
    <2>1. PICK a \in ApprovalIds : GraphInterrupts(j, a)
      BY <1>7
    <2>2. pending' = [pending EXCEPT ![job[j].thread] = a]
      BY <2>1 DEF GraphInterrupts
    <2>3. job[j].thread = t /\ pending'[t] = a
      BY <1>3, <1>5, <2>2
    <2>4. QED
      BY <1>2, <1>3, <1>4, <2>1, <2>3 DEF Inside
  <1>8. QED
    BY <1>1, <1>6, <1>7

\* Approvals are consumed and accepted by schedule, and forgotten when the
\* process has stopped.
Consumes(h) ==
  /\ MayConsume(h) /\ handler[h].pc = "deciding"
  /\ Consume(handler[h].thread, handler[h].approval)
  /\ UNCHANGED <<pending, issued, decided, expired>>

\* Only a decider consumes, and with it a task starts or the process goes.
LEMMA ConsumedMoves ==
  ASSUME Base, [Next]_vars
  PROVE  \/ UNCHANGED <<consumed, accepted, expired>> /\ torn \subseteq torn'
         \/ \E h \in Deciders :
              /\ Consumes(h)
              /\ \/ UNCHANGED torn /\ \E j \in Jobs : DeciderSchedules(h, j)
                 \/ torn' = torn \cup {handler[h].thread} /\ UNCHANGED row /\ Down
         \/ \E T \in SUBSET Threads :
              Stopped(T) /\ UNCHANGED <<pending, issued, decided, accepted, torn>>
  <1>1. ASSUME NEW j \in Jobs, TaskSteps(j)
        PROVE  UNCHANGED <<consumed, accepted, expired, torn>>
    BY <1>1 DEF TaskSteps, GraphSteps, JobEnters, JobGranted, GraphTakesMessage,
                GraphTakesDecision, GraphSavesDecision, GraphInterrupts, JobWaits,
                JobCompletes, JobErrors, CancelledInside, EndJob, JobRaises,
                JobReleased, CancelledUnstarted, CancelledWaiting, durable, history
  <1>2. ASSUME NEW h \in Handlers, ServeSteps(h) \/ ReadsPending(h)
        PROVE  UNCHANGED <<consumed, accepted, expired, torn>>
    BY <1>2 DEF ServeSteps, ReadsPending, RunClaims, DeciderEnters, DeciderGranted,
                RunTurnedAway, DeciderTurnedAway, durable, history
  <1>3. ASSUME NEW h \in Runs, NEW j \in Jobs, RunSchedules(h, j)
        PROVE  UNCHANGED <<consumed, accepted, expired, torn>>
    BY <1>3 DEF RunSchedules, history
  <1>4. ASSUME NEW h \in Deciders, NEW j \in Jobs, DeciderSchedules(h, j)
        PROVE  Consumes(h) /\ UNCHANGED torn
    BY <1>4 DEF DeciderSchedules, Consumes
  <1>5. ASSUME NEW h \in Deciders, CrashAfterConsume(h)
        PROVE  /\ Consumes(h) /\ UNCHANGED row /\ Down
               /\ torn' = torn \cup {handler[h].thread}
    BY <1>5 DEF CrashAfterConsume, Consumes
  <1>6. ASSUME NEW T \in SUBSET Threads, Stopped(T)
        PROVE  UNCHANGED <<pending, issued, decided, accepted, torn>>
    BY <1>6 DEF Stopped
  <1>7. CASE Crash \/ OtherSteps \/ UNCHANGED vars
    BY <1>7 DEF Crash, OtherSteps, ToolStarts, ToolReports, ShutdownBegins,
                ShutdownCancels, Restart, vars, durable, history
  <1>8. CASE \E h \in Handlers, j \in Jobs : ScheduleSteps(h, j)
    BY <1>3, <1>4, <1>8 DEF ScheduleSteps
  <1>9. CASE DownSteps
    BY <1>5, <1>6, <1>7, <1>9 DEF DownSteps
  <1>10. QED
    BY <1>1, <1>2, <1>7, <1>8, <1>9, StepKinds

\* The graph is given a decision in one step only.
LEMMA DecidedMoves ==
  ASSUME Base, [Next]_vars
  PROVE  UNCHANGED decided \/ \E j \in Jobs : GraphTakesDecision(j)
  <1>1. ASSUME NEW j \in Jobs, TaskSteps(j), ~ GraphTakesDecision(j)
        PROVE  UNCHANGED decided
    BY <1>1 DEF TaskSteps, GraphSteps, JobEnters, JobGranted, GraphTakesMessage,
                GraphSavesDecision, GraphInterrupts, JobWaits,
                JobCompletes, JobErrors, CancelledInside, EndJob, JobRaises,
                JobReleased, CancelledUnstarted, CancelledWaiting, history
  <1>2. ASSUME NEW h \in Handlers, ServeSteps(h) \/ ReadsPending(h)
        PROVE  UNCHANGED decided
    BY <1>2 DEF ServeSteps, ReadsPending, RunClaims, DeciderEnters, DeciderGranted,
                RunTurnedAway, DeciderTurnedAway, history
  <1>3. ASSUME NEW h \in Handlers, NEW j \in Jobs, ScheduleSteps(h, j)
        PROVE  UNCHANGED decided
    BY <1>3 DEF ScheduleSteps, RunSchedules, DeciderSchedules, history
  <1>4. CASE DownSteps \/ OtherSteps \/ UNCHANGED vars
    BY <1>4 DEF DownSteps, Crash, CrashAfterConsume, Stopped, OtherSteps,
                ToolStarts, ToolReports, ShutdownBegins, ShutdownCancels,
                Restart, vars, history
  <1>5. QED
    BY <1>1, <1>2, <1>3, <1>4, StepKinds

-----------------------------------------------------------------------------
(* Approvals and decisions.                                                 *)

\* Every step keeps the types of what is said and counted.
LEMMA DataTypesStep ==
  ASSUME Base, [Next]_vars
  PROVE  DataTypes'
  <1> USE DEF DataTypes
  <1>1. ASSUME NEW j \in Jobs, TaskSteps(j)
        PROVE  DataTypes'
    <2>1. CASE \/ JobWaits(j) \/ JobCompletes(j) \/ JobErrors(j)
               \/ CancelledInside(j)
      <3>1. /\ tardy' \subseteq tardy
            /\ UNCHANGED <<consumed, pending, issued, accepted, decided, discarded,
                           raced, torn, expired, stops>>
        BY <2>1 DEF JobWaits, JobCompletes, JobErrors, CancelledInside, EndJob
      <3>2. QED
        BY <3>1 DEF Base
    <2>2. CASE \/ JobEnters(j) \/ JobGranted(j) \/ JobRaises(j) \/ JobReleased(j)
               \/ CancelledUnstarted(j) \/ CancelledWaiting(j)
      <3>1. UNCHANGED <<consumed, pending, history, stops>>
        BY <2>2 DEF JobEnters, JobGranted, JobRaises, JobReleased,
                    CancelledUnstarted, CancelledWaiting, durable
      <3>2. QED
        BY <3>1 DEF Base, history
    <2>3. CASE GraphSteps(j)
      <3>1. PICK pc : GraphMoves(j, pc)
        BY <2>3, GraphStepsAre
      <3>2. job[j].thread \in Threads
        BY <3>1, TaskFacts DEF GraphMoves, At, Base
      <3>3. pending[job[j].thread] \in Asked
        BY <3>2 DEF Base
      <3>4. /\ pending' \in [Threads -> Asked]
            /\ issued' \subseteq ApprovalIds
            /\ discarded' \subseteq ApprovalIds /\ raced' \subseteq ApprovalIds
        <4>1. CASE GraphTakesMessage(j) \/ GraphSavesDecision(j)
          BY <3>2, <3>3, <4>1
          DEF Base, GraphTakesMessage, GraphSavesDecision, Asked, history
        <4>2. CASE GraphTakesDecision(j)
          BY <4>2 DEF Base, GraphTakesDecision, durable
        <4>3. CASE \E a \in ApprovalIds : GraphInterrupts(j, a)
          BY <3>2, <4>3 DEF Base, GraphInterrupts, Asked
        <4>4. QED
          BY <2>3, <4>1, <4>2, <4>3 DEF GraphSteps
      <3>5. decided' \in [ApprovalIds -> Nat]
        <4>1. CASE UNCHANGED decided
          BY <4>1 DEF Base
        <4>2. CASE GraphTakesDecision(j)
          BY <3>3, <4>2 DEF Base, GraphTakesDecision, Asked
        <4>3. QED
          BY <2>3, <4>1, <4>2
          DEF GraphSteps, GraphTakesMessage, GraphSavesDecision, GraphInterrupts, history
      <3>6. QED
        BY <3>1, <3>4, <3>5 DEF GraphMoves, Base
    <2>4. QED
      BY <1>1, <2>1, <2>2, <2>3 DEF TaskSteps
  <1>2. ASSUME NEW h \in Handlers, ServeSteps(h) \/ ReadsPending(h)
        PROVE  DataTypes'
    <2>1. UNCHANGED <<consumed, pending, history, stops>>
      BY <1>2 DEF ServeSteps, ReadsPending, RunClaims, DeciderEnters, DeciderGranted,
                  RunTurnedAway, DeciderTurnedAway, durable
    <2>2. QED
      BY <2>1 DEF Base, history
  <1>3. ASSUME NEW h \in Runs, NEW j \in Jobs, RunSchedules(h, j)
        PROVE  DataTypes'
    BY <1>3 DEF RunSchedules, Base, history
  <1>4. ASSUME NEW h \in Deciders, Consumes(h)
        PROVE  /\ consumed' \in [Threads -> SUBSET ApprovalIds]
               /\ accepted' \in [ApprovalIds -> Nat]
               /\ pending' \in [Threads -> Asked] /\ issued' \subseteq ApprovalIds
               /\ decided' \in [ApprovalIds -> Nat] /\ expired' \subseteq Threads
    <2> DEFINE t == handler[h].thread
               a == handler[h].approval
    <2>1. h \in Handlers /\ handler[h].pc # "idle" /\ handler[h].seen = a
      BY <1>4 DEF Consumes, MayConsume, Handlers
    <2>2. t \in Threads /\ a \in Asked
      BY <2>1, RequestFacts DEF Base
    <2>3. /\ consumed' = [consumed EXCEPT ![t] = @ \cup {a}]
          /\ accepted' = [accepted EXCEPT ![a] = @ + 1]
          /\ UNCHANGED <<pending, issued, decided, expired>>
      BY <1>4 DEF Consumes, Consume
    <2>4. a \in ApprovalIds
      BY <2>1 DEF Base, DecisionsName
    <2> HIDE DEF t, a
    <2>5. QED
      BY <2>2, <2>3, <2>4 DEF Base
  <1>5. ASSUME NEW h \in Deciders, NEW j \in Jobs, DeciderSchedules(h, j)
        PROVE  DataTypes'
    <2>1. Consumes(h)
      BY <1>5 DEF DeciderSchedules, Consumes
    <2>2. UNCHANGED <<discarded, raced, torn, tardy, stops>>
      BY <1>5 DEF DeciderSchedules
    <2>3. QED
      BY <1>4, <2>1, <2>2 DEF Base
  <1>6. ASSUME NEW h \in Deciders, CrashAfterConsume(h)
        PROVE  DataTypes'
    <2>1. Consumes(h) /\ handler[h].thread \in Threads
      BY <1>6, RequestFacts DEF CrashAfterConsume, Consumes, Base, Handlers
    <2>2. /\ UNCHANGED <<discarded, raced, tardy>>
          /\ torn' = torn \cup {handler[h].thread}
          /\ stops < MaxStops /\ stops' = stops + 1
      BY <1>6 DEF CrashAfterConsume, CrashAllowed
    <2>3. stops' \in 0 .. MaxStops
      BY <2>2, BoundsAreNumbers DEF Base
    <2>4. QED
      BY <1>4, <2>1, <2>2, <2>3 DEF Base
  <1>7. ASSUME NEW T \in SUBSET Threads, Stopped(T)
        PROVE  DataTypes'
    BY <1>7 DEF Stopped, Forgotten, Base
  <1>8. CASE Crash \/ ShutdownBegins
    <2>1. /\ UNCHANGED <<consumed, pending, history>>
          /\ stops < MaxStops /\ stops' = stops + 1
      BY <1>8 DEF Crash, CrashAllowed, ShutdownBegins, durable
    <2>2. stops' \in 0 .. MaxStops
      BY <2>1, BoundsAreNumbers DEF Base
    <2>3. QED
      BY <2>1, <2>2 DEF Base, history
  <1>9. CASE \/ \E j \in Jobs : ToolStarts(j)
             \/ \E t \in Threads : ToolReports(t)
             \/ ShutdownCancels \/ Restart \/ UNCHANGED vars
    <2>1. /\ tardy' \subseteq Threads
          /\ UNCHANGED <<consumed, pending, issued, accepted, decided, discarded,
                         raced, torn, expired, stops>>
      BY <1>9 DEF ToolStarts, ToolReports, ShutdownCancels, Restart, vars,
                  durable, history, Base
    <2>2. QED
      BY <2>1 DEF Base
  <1>10. CASE DownSteps
    BY <1>6, <1>7, <1>8, <1>10 DEF DownSteps
  <1>11. CASE OtherSteps
    BY <1>8, <1>9, <1>11 DEF OtherSteps
  <1>12. CASE \E h \in Handlers, j \in Jobs : ScheduleSteps(h, j)
    BY <1>3, <1>5, <1>12 DEF ScheduleSteps
  <1> HIDE DEF DataTypes
  <1>13. QED
    BY <1>1, <1>2, <1>9, <1>10, <1>11, <1>12, StepKinds

\* A decider about an approval is about one to the end.
LEMMA DecisionsNameStep ==
  ASSUME Base, [Next]_vars
  PROVE  DecisionsName'
  <1>1. handler \in [Handlers -> Requests] /\ Deciders \subseteq Handlers
    BY DEF Base, Exclusive, ControlTypes, Handlers
  <1>2. Idle.pc = "idle"
    BY DEF Idle
  <1>3. ASSUME NEW g \in Deciders, NEW h \in Deciders, ServeSteps(g),
               handler'[h].pc # "idle"
        PROVE  handler'[h].approval \in ApprovalIds
    <2>1. CASE \E t \in Threads, a \in ApprovalIds : DeciderEnters(g, t, a)
      BY <1>1, <1>3, <2>1 DEF DeciderEnters, Base, DecisionsName
    <2>2. CASE DeciderGranted(g)
      BY <1>1, <1>3, <2>2 DEF DeciderGranted, Base, DecisionsName, Requests
    <2>3. CASE DeciderTurnedAway(g)
      BY <1>1, <1>2, <1>3, <2>3 DEF DeciderTurnedAway, Base, DecisionsName
    <2>4. QED
      BY <1>3, <2>1, <2>2, <2>3, NamesDiffer DEF ServeSteps
  <1>4. ASSUME NEW g \in Runs, NEW h \in Deciders, ServeSteps(g)
        PROVE  handler'[h] = handler[h]
    BY <1>1, <1>4, NamesDiffer DEF ServeSteps, RunClaims, RunTurnedAway
  <1>5. ASSUME NEW g \in Handlers, NEW h \in Deciders, ReadsPending(g)
        PROVE  handler'[h].approval = handler[h].approval
               /\ (handler'[h].pc # "idle" => handler[h].pc # "idle")
    BY <1>1, <1>5 DEF ReadsPending, Requests
  <1>6. ASSUME NEW g \in Handlers, NEW j \in Jobs, NEW h \in Deciders,
               ScheduleSteps(g, j), handler'[h].pc # "idle"
        PROVE  handler'[h] = handler[h]
    BY <1>1, <1>2, <1>6 DEF ScheduleSteps, RunSchedules, DeciderSchedules
  <1>7. CASE DownSteps
    BY <1>1, <1>2, <1>7, DownsAre DEF DownSteps, Down, Base, DecisionsName
  <1>8. CASE OtherSteps \/ UNCHANGED vars
    BY <1>8 DEF OtherSteps, ToolStarts, ToolReports, ShutdownBegins,
                ShutdownCancels, Restart, vars, Base, DecisionsName
  <1>9. QED
    BY <1>3, <1>4, <1>5, <1>6, <1>7, <1>8, StepKinds, TaskStepsServeNobody
    DEF Base, DecisionsName, Handlers

\* Every step keeps what a task at an interrupt has met.
LEMMA InterruptIsThereStep ==
  ASSUME Base, [Next]_vars
  PROVE  InterruptIsThere'
  <1> SUFFICES ASSUME NEW j \in Jobs, job'[j] # None, job'[j].pc = "interrupted"
               PROVE  pending'[job'[j].thread] # None
    BY DEF InterruptIsThere, At
  <1> DEFINE t == job'[j].thread
  <1>1. CASE /\ job[j] # None /\ job[j].thread = t
             /\ \E a \in ApprovalIds : GraphInterrupts(j, a)
    <2>1. t \in Threads
      BY <1>1, TaskFacts DEF Base
    <2>2. PICK a \in ApprovalIds : GraphInterrupts(j, a)
      BY <1>1
    <2>3. pending' = [pending EXCEPT ![t] = a]
      BY <1>1, <2>2 DEF GraphInterrupts
    <2> HIDE DEF t
    <2>4. pending'[t] = a
      BY <2>1, <2>3 DEF Base, DataTypes
    <2>5. QED
      BY <2>4, NamesDiffer DEF t
  <1>2. CASE job[j] # None /\ job[j].thread = t /\ job[j].pc = "interrupted"
    <2>1. t \in Threads
      BY <1>2, TaskFacts DEF Base
    <2>2. pending[t] # None
      BY <1>2 DEF Base, InterruptIsThere, At
    <2>3. CASE pending'[t] # pending[t]
      <3>1. PICK i \in Jobs : /\ Inside(i, t) /\ job[i] # None /\ job[i].thread = t
                              /\ \/ GraphTakesMessage(i) \/ GraphSavesDecision(i)
                                 \/ \E a \in ApprovalIds : GraphInterrupts(i, a)
        BY <2>1, <2>3, PendingMoves
      <3>2. i = j
        BY <1>2, <3>1 DEF Base, Exclusive, OneSlotEach
      <3>3. QED
        BY <1>2, <3>1, <3>2 DEF GraphTakesMessage, GraphSavesDecision,
                                GraphInterrupts, At
    <2>4. QED
      BY <2>2, <2>3
  <1>3. QED
    BY <1>1, <1>2, InterruptComes

\* Every step keeps the ground of the invariant.
LEMMA BaseStep ==
  ASSUME Base, [Next]_vars
  PROVE  Base'
  BY ExclusiveStep, DataTypesStep, DecisionsNameStep, InterruptIsThereStep DEF Base

\* A decider that may consume is about the approval its thread waits for.
LEMMA ConsumesPending ==
  ASSUME Base, DecisionsFit, NEW h \in Deciders, Consumes(h)
  PROVE  LET t == handler[h].thread
             a == handler[h].approval
         IN  /\ t \in Threads /\ a \in ApprovalIds
             /\ pending[t] = a /\ a \notin consumed[t]
             /\ consumed' = [consumed EXCEPT ![t] = consumed[t] \cup {a}]
             /\ accepted' = [accepted EXCEPT ![a] = accepted[a] + 1]
             /\ owner[t] = h
  <1>1. h \in Handlers /\ handler[h].pc = "deciding"
    BY DEF Consumes, Handlers
  <1>2. handler[h].thread \in Threads /\ handler[h].approval \in ApprovalIds
    BY <1>1, RequestFacts DEF Base, DecisionsName
  <1>3. owner[handler[h].thread] = h
    BY <1>1, <1>2 DEF Base, Exclusive, LockHolders, Lockers, InLock, Holding
  <1>4. QED
    BY <1>1, <1>2, <1>3 DEF Consumes, MayConsume, Consume, DecisionsFit

\* What is said of an approval is said in its thread.
LEMMA OneThreadEachStep ==
  ASSUME Base, OneThreadEach, DecisionsFit, [Next]_vars
  PROVE  OneThreadEach'
  <1>1. consumed \in [Threads -> SUBSET ApprovalIds] /\ pending \in [Threads -> Asked]
    BY DEF Base, DataTypes
  <1>2. ASSUME \A t \in Threads, a \in ApprovalIds : Mentions(t, a)' => Mentions(t, a),
               issued \subseteq issued'
        PROVE  OneThreadEach'
    BY <1>2 DEF OneThreadEach
  <1>3. CASE UNCHANGED <<pending, issued>> /\ UNCHANGED consumed
    BY <1>2, <1>3 DEF Mentions
  <1>4. ASSUME NEW j \in Jobs, GraphTakesMessage(j) \/ GraphSavesDecision(j)
        PROVE  OneThreadEach'
    <2>1. /\ pending' = [pending EXCEPT ![job[j].thread] = None]
          /\ UNCHANGED <<consumed, issued>>
      BY <1>4 DEF GraphTakesMessage, GraphSavesDecision, history
    <2>2. \A t \in Threads : pending'[t] \in {pending[t], None}
      BY <1>1, <2>1
    <2>3. QED
      BY <1>2, <2>1, <2>2, NamesDiffer DEF Mentions
  <1>5. ASSUME NEW j \in Jobs, NEW a \in ApprovalIds, GraphInterrupts(j, a)
        PROVE  OneThreadEach'
    <2> DEFINE t == job[j].thread
    <2>1. /\ pending' = [pending EXCEPT ![t] = a] /\ issued' = issued \cup {a}
          /\ a \notin issued
          /\ UNCHANGED consumed /\ job[j] # None
      BY <1>5 DEF GraphInterrupts, At
    <2>2. t \in Threads
      BY <2>1, TaskFacts DEF Base
    <2> HIDE DEF t
    <2>3. \A u \in Threads, b \in ApprovalIds :
            Mentions(u, b)' => Mentions(u, b) \/ (u = t /\ b = a)
      BY <1>1, <2>1, <2>2 DEF Mentions
    <2>4. \A u \in Threads : ~ Mentions(u, a)
      BY <2>1 DEF OneThreadEach
    <2>5. QED
      BY <2>1, <2>3, <2>4 DEF OneThreadEach
  <1>6. ASSUME NEW h \in Deciders, Consumes(h)
        PROVE  OneThreadEach'
    <2>1. UNCHANGED <<pending, issued>>
      BY <1>6 DEF Consumes
    <2>2. \A t \in Threads, a \in ApprovalIds : Mentions(t, a)' => Mentions(t, a)
      BY <1>1, <1>6, <2>1, ConsumesPending DEF Mentions
    <2>3. QED
      BY <1>2, <2>1, <2>2
  <1>7. ASSUME NEW T \in SUBSET Threads, Stopped(T), UNCHANGED <<pending, issued>>
        PROVE  OneThreadEach'
    BY <1>1, <1>2, <1>7 DEF Stopped, Forgotten, Mentions
  <1>8. CASE UNCHANGED <<consumed, accepted, expired>>
    BY <1>3, <1>4, <1>5, <1>8, CheckpointMoves
  <1>9. QED
    BY <1>6, <1>7, <1>8, ConsumedMoves

\* The decision the graph is given was accepted for it, and not given before.
LEMMA AcceptedIsConsumedStep ==
  ASSUME Base, OneThreadEach, DecisionsFit, AcceptedIsConsumed, [Next]_vars
  PROVE  AcceptedIsConsumed'
  <1> USE DEF AcceptedIsConsumed, AcceptedOnce
  <1>1. /\ accepted \in [ApprovalIds -> Nat] /\ decided \in [ApprovalIds -> Nat]
        /\ consumed \in [Threads -> SUBSET ApprovalIds]
        /\ pending \in [Threads -> Asked]
    BY DEF Base, DataTypes
  <1>2. CASE UNCHANGED <<consumed, accepted, expired>>
    <2>1. CASE UNCHANGED decided
      BY <1>2, <2>1
    <2>2. ASSUME NEW j \in Jobs, GraphTakesDecision(j)
          PROVE  AcceptedIsConsumed'
      <3> DEFINE t == job[j].thread
                 b == job[j].resume
      <3>1. /\ job[j] # None /\ job[j].pc \in Unfed /\ b # None
            /\ decided' = IF pending[t] = None THEN decided
                          ELSE [decided EXCEPT ![pending[t]] = decided[pending[t]] + 1]
        BY <2>2 DEF GraphTakesDecision, At, Unfed
      <3>2. pending[t] = b /\ decided[b] < accepted[b] /\ b \in ApprovalIds
        BY <3>1, TaskFacts DEF Base, DecisionsFit, At, Asked
      <3> HIDE DEF t, b
      <3>3. \A a \in ApprovalIds : decided'[a] <= accepted[a]
        BY <1>1, <3>1, <3>2
      <3>4. QED
        BY <1>2, <3>3
    <2>3. QED
      BY <2>1, <2>2, DecidedMoves
  <1>3. ASSUME NEW h \in Deciders, Consumes(h)
        PROVE  AcceptedIsConsumed'
    <2> DEFINE t == handler[h].thread
               a == handler[h].approval
    <2>1. /\ t \in Threads /\ a \in ApprovalIds
          /\ pending[t] = a /\ a \notin consumed[t]
          /\ consumed' = [consumed EXCEPT ![t] = consumed[t] \cup {a}]
          /\ accepted' = [accepted EXCEPT ![a] = accepted[a] + 1]
      BY <1>3, ConsumesPending
    <2>2. UNCHANGED <<decided, expired>>
      BY <1>3 DEF Consumes
    <2> HIDE DEF t, a
    <2>3. \A u \in Threads : a \notin consumed[u]
      BY <2>1 DEF OneThreadEach, Mentions
    <2>4. expired = {} => accepted[a] = 0
      BY <1>1, <2>1, <2>3
    <2>5. \A b \in ApprovalIds : accepted'[b] = IF b = a THEN accepted[a] + 1
                                                ELSE accepted[b]
      BY <1>1, <2>1
    <2>6. \A u \in Threads : consumed[u] \subseteq consumed'[u]
      BY <1>1, <2>1
    <2>7. a \in consumed'[t]
      BY <1>1, <2>1
    <2>8. \A b \in ApprovalIds : decided'[b] <= accepted'[b]
      BY <1>1, <2>1, <2>2, <2>5
    <2>9. ASSUME expired = {}, NEW b \in ApprovalIds
          PROVE  /\ accepted'[b] <= 1
                 /\ accepted'[b] > 0 => \E u \in Threads : b \in consumed'[u]
      <3>1. CASE b = a
        BY <2>1, <2>4, <2>5, <2>7, <2>9, <3>1
      <3>2. CASE b # a
        BY <2>5, <2>6, <2>9, <3>2
      <3>3. QED
        BY <3>1, <3>2
    <2>10. QED
      BY <2>2, <2>8, <2>9
  <1>4. ASSUME NEW T \in SUBSET Threads, Stopped(T), UNCHANGED <<decided, accepted>>
        PROVE  AcceptedIsConsumed'
    <2>1. /\ consumed' = [t \in Threads |-> IF t \in T THEN {} ELSE consumed[t]]
          /\ expired' = expired \cup T
      BY <1>4 DEF Stopped, Forgotten
    <2>2. expired' = {} => expired = {} /\ T = {}
      BY <2>1
    <2>3. expired' = {} => \A t \in Threads : consumed'[t] = consumed[t]
      BY <2>1, <2>2
    <2>4. QED
      BY <1>4, <2>2, <2>3
  <1>5. QED
    BY <1>2, <1>3, <1>4, ConsumedMoves

\* A decider keeps its thread's checkpoint still; and the task it schedules
\* finds the approval pending.
LEMMA DecisionsFitStep ==
  ASSUME Base, OneThreadEach, DecisionsFit, AcceptedIsConsumed, [Next]_vars
  PROVE  DecisionsFit'
  <1>1. ASSUME NEW h \in Deciders, handler'[h].pc = "deciding"
        PROVE  handler'[h].seen = pending'[handler'[h].thread]
    <2>1. CASE ReadsPending(h)
      <3>1. /\ handler[h].pc = "reading"
            /\ handler' = [handler EXCEPT ![h].pc = "deciding",
                                          ![h].seen = pending[handler[h].thread]]
            /\ UNCHANGED pending
        BY <2>1 DEF ReadsPending, durable
      <3>2. h \in Handlers /\ handler \in [Handlers -> Requests]
        BY DEF Base, Exclusive, ControlTypes, Handlers
      <3>3. QED
        BY <3>1, <3>2 DEF Requests
    <2>2. CASE handler'[h] = handler[h]
      <3> DEFINE t == handler[h].thread
      <3>1. h \in Handlers /\ handler[h].pc = "deciding" /\ t \in Threads
        BY <1>1, <2>2, RequestFacts DEF Base, Handlers
      <3>2. owner[t] = h
        BY <3>1 DEF Base, Exclusive, LockHolders, Lockers, InLock, Holding
      <3>3. CASE pending'[t] # pending[t]
        <4>1. PICK j \in Jobs : Inside(j, t)
          BY <3>1, <3>3, PendingMoves
        <4>2. owner[t] = j
          BY <3>1, <4>1 DEF Base, Exclusive, LockHolders, Lockers, InLock
        <4>3. QED
          BY <3>2, <4>2, NamesDiffer DEF Handlers
      <3>4. QED
        BY <1>1, <2>2, <3>1, <3>3 DEF DecisionsFit
    <2>3. QED
      BY <1>1, <2>1, <2>2, RequestsDecide DEF Handlers
  <1>2. ASSUME NEW j \in Jobs, job'[j] # None, job'[j].pc \in Unfed,
               job'[j].resume # None
        PROVE  /\ pending'[job'[j].thread] = job'[j].resume
               /\ decided'[job'[j].resume] < accepted'[job'[j].resume]
    <2>1. ASSUME NEW h \in Runs, RunSchedules(h, j)
          PROVE  FALSE
      BY <1>2, <2>1 DEF RunSchedules, NewJob, Base, Exclusive, ControlTypes
    <2>2. ASSUME NEW h \in Deciders, DeciderSchedules(h, j)
          PROVE  /\ pending'[job'[j].thread] = job'[j].resume
                 /\ decided'[job'[j].resume] < accepted'[job'[j].resume]
      <3> DEFINE t == handler[h].thread
                 a == handler[h].approval
      <3>1. Consumes(h) /\ UNCHANGED <<pending, decided>>
        BY <2>2 DEF DeciderSchedules, Consumes
      <3>2. /\ t \in Threads /\ a \in ApprovalIds /\ pending[t] = a
            /\ accepted' = [accepted EXCEPT ![a] = accepted[a] + 1]
        BY <3>1, ConsumesPending
      <3>3. job'[j].thread = t /\ job'[j].resume = a
        BY <2>2 DEF DeciderSchedules, NewJob, Base, Exclusive, ControlTypes
      <3> HIDE DEF t, a
      <3>4. decided[a] < accepted'[a]
        BY <3>2 DEF Base, DataTypes, AcceptedIsConsumed, AcceptedOnce
      <3>5. QED
        BY <3>1, <3>2, <3>3, <3>4
    <2>3. ASSUME job[j] # None, job[j].pc \in Unfed,
                 job'[j].thread = job[j].thread, job'[j].resume = job[j].resume
          PROVE  /\ pending'[job'[j].thread] = job'[j].resume
                 /\ decided'[job'[j].resume] < accepted'[job'[j].resume]
      <3> DEFINE t == job[j].thread
                 b == job[j].resume
      <3>1. t \in Threads /\ b \in ApprovalIds
        BY <1>2, <2>3, TaskFacts DEF Base, Asked
      <3>2. pending[t] = b /\ decided[b] < accepted[b]
        BY <1>2, <2>3 DEF DecisionsFit, At
      <3>3. pending'[t] = pending[t]
        <4> SUFFICES ASSUME pending'[t] # pending[t]
                     PROVE  FALSE
          OBVIOUS
        <4>1. PICK i \in Jobs : /\ job[i] # None /\ job[i].thread = t
                                /\ ~ At(i, Unfed)'
          BY <3>1, PendingMoves
        <4>2. i = j
          BY <2>3, <4>1 DEF Base, Exclusive, OneSlotEach
        <4>3. QED
          BY <1>2, <4>1, <4>2 DEF At
      <3>4. decided'[b] = decided[b]
        <4>1. ASSUME NEW i \in Jobs, GraphTakesDecision(i)
              PROVE  decided'[b] = decided[b]
          <5>1. /\ job[i] # None
                /\ decided' = IF pending[job[i].thread] = None THEN decided
                   ELSE [decided EXCEPT ![pending[job[i].thread]] =
                           decided[pending[job[i].thread]] + 1]
                /\ Move(i, "working") \/ Move(i, "resuming")
            BY <4>1 DEF GraphTakesDecision, At
          <5>2. i # j
            BY <1>2, <2>3, <5>1 DEF Move, Base, Exclusive, ControlTypes, Tasks, Unfed
          <5>3. job[i].thread \in Threads /\ job[i].thread # t
            BY <2>3, <5>1, <5>2, TaskFacts DEF Base, Exclusive, OneSlotEach
          <5>4. pending[job[i].thread] # b
            BY <3>1, <3>2, <5>3 DEF OneThreadEach, Mentions
          <5>5. pending[job[i].thread] \in Asked
            BY <5>3 DEF Base, DataTypes
          <5>6. QED
            BY <3>1, <5>1, <5>4, <5>5 DEF Base, DataTypes, Asked
        <4>2. QED
          BY <4>1, DecidedMoves
      <3>5. accepted'[b] >= accepted[b]
        <4>1. accepted \in [ApprovalIds -> Nat]
          BY DEF Base, DataTypes
        <4>2. ASSUME NEW h \in Deciders, Consumes(h)
              PROVE  accepted'[b] >= accepted[b]
          BY <3>1, <4>1, <4>2, ConsumesPending
        <4>3. CASE UNCHANGED accepted
          BY <3>1, <4>1, <4>3
        <4>4. QED
          BY <4>2, <4>3, ConsumedMoves
      <3>6. decided[b] \in Nat /\ accepted[b] \in Nat /\ accepted'[b] \in Nat
        BY <3>1, DataTypesStep DEF Base, DataTypes
      <3> HIDE DEF t, b
      <3>7. decided'[b] < accepted'[b]
        BY <3>2, <3>4, <3>5, <3>6
      <3>8. QED
        BY <2>3, <3>2, <3>3, <3>7 DEF t, b
    <2>4. QED
      BY <1>2, <2>1, <2>2, <2>3, TasksCome DEF ScheduleSteps
  <1>3. QED
    BY <1>1, <1>2 DEF DecisionsFit, At

-----------------------------------------------------------------------------
(* A new message, and what it makes the graph forget.                       *)

\* raced only grows, and gets the approval asked for behind the back of a
\* request that has seen none.
LEMMA RacedGrows ==
  ASSUME Base, [Next]_vars
  PROVE  /\ raced \subseteq raced'
         /\ \A j \in Jobs, a \in ApprovalIds, h \in Runs :
              /\ GraphInterrupts(j, a)
              /\ handler[h].pc = "deciding" /\ handler[h].seen = None
              /\ handler[h].thread = job[j].thread
              => a \in raced'
  BY CheckpointMoves
  DEF GraphTakesMessage, GraphSavesDecision, GraphInterrupts, history

\* Every step keeps what a new message may find pending.
LEMMA MessagesRaceStep ==
  ASSUME Base, MessagesRace, [Next]_vars
  PROVE  MessagesRace'
  <1>1. pending \in [Threads -> Asked] /\ handler \in [Handlers -> Requests]
    BY DEF Base, DataTypes, Exclusive, ControlTypes
  <1>2. ASSUME NEW h \in Runs, handler'[h].pc = "deciding", handler'[h].seen = None
        PROVE  pending'[handler'[h].thread] \in raced' \cup {None}
    <2>1. h \in Handlers
      BY DEF Handlers
    <2>2. CASE ReadsPending(h)
      <3>1. /\ handler' = [handler EXCEPT ![h].pc = "deciding",
                                          ![h].seen = pending[handler[h].thread]]
            /\ UNCHANGED pending
        BY <2>2 DEF ReadsPending, durable
      <3>2. QED
        BY <1>1, <1>2, <2>1, <3>1 DEF Requests
    <2>3. CASE handler'[h] = handler[h]
      <3> DEFINE t == handler[h].thread
      <3>1. t \in Threads /\ pending[t] \in raced \cup {None}
        BY <1>2, <2>1, <2>3, RequestFacts DEF MessagesRace, Base
      <3>2. CASE pending'[t] = pending[t]
        BY <2>3, <3>1, <3>2, RacedGrows
      <3>3. CASE pending'[t] # pending[t]
        <4>1. PICK j \in Jobs :
                /\ job[j].thread = t
                /\ \/ pending'[t] = None
                   \/ \E a \in ApprovalIds :
                        GraphInterrupts(j, a) /\ pending'[t] = a
          BY <3>1, <3>3, PendingMoves
        <4>2. QED
          BY <1>2, <2>3, <4>1, RacedGrows
      <3>4. QED
        BY <3>2, <3>3
    <2>4. QED
      BY <1>2, <2>1, <2>2, <2>3, RequestsDecide
  <1>3. ASSUME NEW j \in Jobs, job'[j] # None, job'[j].pc \in Unfed,
               job'[j].resume = None
        PROVE  pending'[job'[j].thread] \in raced' \cup {None}
    <2>1. ASSUME NEW h \in Deciders, DeciderSchedules(h, j)
          PROVE  FALSE
      <3>1. job'[j].resume = handler[h].approval /\ handler[h].pc = "deciding"
        BY <2>1 DEF DeciderSchedules, NewJob, Base, Exclusive, ControlTypes
      <3>2. QED
        BY <1>3, <3>1, NamesDiffer DEF Base, DecisionsName
    <2>2. ASSUME NEW h \in Runs, RunSchedules(h, j)
          PROVE  pending'[job'[j].thread] \in raced' \cup {None}
      <3>1. /\ job'[j].thread = handler[h].thread
            /\ handler[h].pc = "deciding" /\ handler[h].seen = None
            /\ UNCHANGED <<pending, raced>>
        BY <2>2 DEF RunSchedules, SeesNoApproval, NewJob, Base, Exclusive,
                    ControlTypes, history
      <3>2. QED
        BY <3>1 DEF MessagesRace
    <2>3. ASSUME job[j] # None, job[j].pc \in Unfed,
                 job'[j].thread = job[j].thread, job'[j].resume = job[j].resume
          PROVE  pending'[job'[j].thread] \in raced' \cup {None}
      <3> DEFINE t == job[j].thread
      <3>1. t \in Threads
        BY <2>3, TaskFacts DEF Base
      <3>2. pending'[t] = pending[t]
        <4> SUFFICES ASSUME pending'[t] # pending[t]
                     PROVE  FALSE
          OBVIOUS
        <4>1. PICK i \in Jobs : /\ job[i] # None /\ job[i].thread = t
                                /\ ~ At(i, Unfed)'
          BY <3>1, PendingMoves
        <4>2. i = j
          BY <2>3, <4>1 DEF Base, Exclusive, OneSlotEach
        <4>3. QED
          BY <1>3, <4>1, <4>2 DEF At
      <3>3. pending[t] \in raced \cup {None}
        BY <1>3, <2>3 DEF MessagesRace, At
      <3>4. QED
        BY <2>3, <3>2, <3>3, RacedGrows
    <2>4. QED
      BY <1>3, <2>1, <2>2, <2>3, TasksCome DEF ScheduleSteps
  <1>4. discarded' \subseteq raced'
    <2>1. CASE UNCHANGED discarded
      BY <2>1, RacedGrows DEF MessagesRace, DiscardedOnlyByRace
    <2>2. ASSUME NEW j \in Jobs, GraphTakesMessage(j)
          PROVE  discarded' \subseteq raced'
      <3>1. /\ At(j, Unfed) /\ job[j].resume = None
            /\ discarded' = discarded \cup ({pending[job[j].thread]} \ {None})
        BY <2>2 DEF GraphTakesMessage, At, Unfed
      <3>2. pending[job[j].thread] \in raced \cup {None}
        BY <3>1 DEF MessagesRace
      <3>3. QED
        BY <3>1, <3>2, RacedGrows DEF MessagesRace, DiscardedOnlyByRace
    <2>3. QED
      BY <2>1, <2>2, CheckpointMoves DEF GraphSavesDecision, GraphInterrupts, history
  <1>5. QED
    BY <1>2, <1>3, <1>4 DEF MessagesRace, DiscardedOnlyByRace, At

-----------------------------------------------------------------------------
(* What the rows say.                                                       *)

\* A row comes to say waiting_for_approval when its task stops at an
\* interrupt, and only then.
LEMMA WaitingComes ==
  ASSUME Base, [Next]_vars, NEW t \in Threads, row'[t] # None,
         row'[t].status = "waiting_for_approval"
  PROVE  \/ /\ row[t] # None /\ row[t].status = "waiting_for_approval"
            /\ row'[t].approvals = row[t].approvals
         \/ \E j \in Jobs : \E r :
              /\ TaskEnds(j, r) /\ job[j].thread = t /\ job[j].pc = "interrupted"
              /\ row'[t].approvals = {pending[t]}
  <1> DEFINE Was == /\ row[t] # None /\ row[t].status = "waiting_for_approval"
                    /\ row'[t].approvals = row[t].approvals
  <1>1. row \in [Threads -> Columns \cup {None}]
    BY DEF Base, Exclusive, ControlTypes
  <1>2. CASE UNCHANGED row
    BY <1>2
  <1>3. ASSUME NEW u \in Threads, NEW r, SetRow(u, r),
               r.status # "waiting_for_approval"
        PROVE  Was
    BY <1>1, <1>3 DEF SetRow
  <1>4. ASSUME NEW j \in Jobs, TaskSteps(j)
        PROVE  Was \/ \E r : /\ TaskEnds(j, r) /\ job[j].thread = t
                             /\ job[j].pc = "interrupted"
                             /\ row'[t].approvals = {pending[t]}
    <2> DEFINE u == job[j].thread
    <2>1. job[j] # None => u \in Threads /\ row[u] \in Columns /\ job[j].resume \in Asked
      BY TaskFacts DEF Base
    <2>2. CASE JobEnters(j) \/ JobGranted(j)
      <3>1. job[j] # None /\ (UNCHANGED row \/ SetRow(u, Started(row[u], job[j].resume)))
        BY <2>2 DEF JobEnters, JobGranted, At
      <3>2. QED
        BY <1>2, <1>3, <2>1, <3>1, StartedType
    <2>3. CASE GraphSteps(j)
      BY <1>2, <2>3, GraphStepsAre DEF GraphMoves
    <2>4. CASE \/ JobWaits(j) \/ JobCompletes(j) \/ JobErrors(j) \/ CancelledInside(j)
      <3>1. PICK r : TaskEnds(j, r)
        BY <2>4, EndsAre
      <3>2. u \in Threads /\ row' = [row EXCEPT ![u] = r]
        BY <2>1, <3>1 DEF TaskEnds, EndJob, SetRow, At
      <3>3. CASE u = t
        BY <1>1, <3>1, <3>2, <3>3 DEF TaskEnds
      <3>4. CASE u # t
        BY <1>1, <3>2, <3>4
      <3>5. QED
        BY <3>3, <3>4
    <2>5. CASE JobRaises(j)
      <3>1. job[j] # None /\ SetRow(u, AfterEvent(row[u], "error", {}))
        BY <2>5 DEF JobRaises, At
      <3>2. AfterEvent(row[u], "error", {}).status = "error"
        BY <2>1, <3>1, EventColumns
      <3>3. QED
        BY <1>3, <2>1, <3>1, <3>2
    <2>6. CASE JobReleased(j) \/ CancelledUnstarted(j)
      BY <1>2, <2>6 DEF JobReleased, CancelledUnstarted, durable
    <2>7. CASE CancelledWaiting(j)
      <3>1. job[j] # None /\ SetRow(u, Interrupted(row[u]))
        BY <2>7 DEF CancelledWaiting, At
      <3>2. QED
        BY <1>3, <2>1, <3>1, InterruptedType
    <2>8. QED
      BY <1>4, <2>2, <2>3, <2>4, <2>5, <2>6, <2>7 DEF TaskSteps
  <1>5. ASSUME NEW h \in Handlers, ServeSteps(h) \/ ReadsPending(h)
        PROVE  Was
    <2>1. CASE UNCHANGED row
      BY <1>2, <2>1
    <2>2. ASSUME NEW u \in Threads, RunClaims(h, u)
          PROVE  Was
      <3>1. \/ UNCHANGED row
            \/ SetRow(u, [status |-> "idle", result |-> "", approvals |-> {}])
        BY <2>2 DEF RunClaims
      <3>2. QED
        BY <1>2, <1>3, <3>1
    <2>3. QED
      BY <1>5, <2>1, <2>2 DEF ServeSteps, ReadsPending, DeciderEnters,
         DeciderGranted, RunTurnedAway, DeciderTurnedAway, durable
  <1>6. ASSUME NEW h \in Handlers, NEW j \in Jobs, ScheduleSteps(h, j)
        PROVE  Was
    <2> DEFINE u == handler[h].thread
    <2>1. /\ handler[h].pc = "deciding"
          /\ SetRow(u, Restarted(row[u])) \/ SetRow(u, Decided(row[u]))
      BY <1>6 DEF ScheduleSteps, RunSchedules, DeciderSchedules
    <2>2. u \in Threads /\ row[u] \in Columns
      BY <2>1, RequestFacts DEF Base
    <2>3. QED
      BY <1>3, <2>1, <2>2, RestartColumns, DecidedColumns
  <1>7. CASE DownSteps
    BY <1>1, <1>2, <1>7 DEF DownSteps, Crash, CrashAfterConsume, Stopped, Forgotten,
                            durable
  <1>8. ASSUME NEW u \in Threads, ToolReports(u)
        PROVE  Was
    <2>1. SetRow(u, AfterEvent(row[u], "tool_start", {}))
      BY <1>8 DEF ToolReports
    <2>2. row[u] \in Columns
      BY <1>1, <1>8, ThreadReports DEF Base, Exclusive, RowsKept
    <2>3. AfterEvent(row[u], "tool_start", {}).status = "running"
      BY <2>2, EventColumns
    <2>4. QED
      BY <1>3, <2>1, <2>3
  <1>9. CASE Restart
    <2>1. row[t] # None /\ row'[t] = Reconciled(row[t])
      BY <1>9 DEF Restart
    <2>2. row[t] \in Columns
      BY <1>1, <2>1
    <2>3. QED
      BY <2>1, <2>2, RestartColumns
  <1>10. CASE OtherSteps \/ UNCHANGED vars
    BY <1>2, <1>8, <1>9, <1>10 DEF OtherSteps, ToolStarts, ShutdownBegins,
       ShutdownCancels, vars, durable
  <1>11. QED
    BY <1>4, <1>5, <1>6, <1>7, <1>10, StepKinds

\* Every step keeps what rows wait for.
LEMMA WaitsStep ==
  ASSUME Base, OneThreadEach, DecisionsFit, WaitsForWhatIsAsked, [Next]_vars
  PROVE  WaitsForWhatIsAsked'
  <1>1. ASSUME NEW j \in Jobs, job'[j] # None,
               row'[job'[j].thread].status = "waiting_for_approval"
        PROVE  FALSE
    <2> DEFINE t == job'[j].thread
    <2>1. t \in Threads /\ row'[t] # None
      BY <1>1, BaseStep DEF Base, Exclusive, ControlTypes, RowsKept, Tasks
    <2>2. ASSUME NEW h \in Handlers, ScheduleSteps(h, j)
          PROVE  FALSE
      <3> DEFINE u == handler[h].thread
      <3>1. /\ handler[h].pc = "deciding" /\ t = u
            /\ SetRow(u, Restarted(row[u])) \/ SetRow(u, Decided(row[u]))
        BY <2>2 DEF ScheduleSteps, RunSchedules, DeciderSchedules, NewJob,
                    Base, Exclusive, ControlTypes
      <3>2. u \in Threads /\ row[u] \in Columns
        BY <3>1, RequestFacts DEF Base
      <3>3. row'[u] = Restarted(row[u]) \/ row'[u] = Decided(row[u])
        BY <3>1, <3>2 DEF SetRow, Base, Exclusive, ControlTypes
      <3>4. QED
        BY <1>1, <3>1, <3>2, <3>3, RestartColumns, DecidedColumns
    <2>3. ASSUME job[j] # None, t = job[j].thread
          PROVE  FALSE
      <3>1. row[t].status # "waiting_for_approval"
        BY <2>3 DEF WaitsForWhatIsAsked
      <3>2. PICK i \in Jobs : \E r : TaskEnds(i, r) /\ job[i].thread = t
        BY <1>1, <2>1, <3>1, WaitingComes
      <3>3. i = j
        BY <2>3, <3>2 DEF TaskEnds, At, Base, Exclusive, OneSlotEach
      <3>4. job'[i] = None
        BY <3>2 DEF TaskEnds, EndJob, Base, Exclusive, ControlTypes
      <3>5. QED
        BY <1>1, <3>3, <3>4
    <2>4. QED
      BY <1>1, <2>2, <2>3, TasksCome
  <1>2. ASSUME NEW j \in Jobs, job'[j] # None, job'[j].pc = "interrupted"
        PROVE  pending'[job'[j].thread] \notin consumed'[job'[j].thread]
    <2> DEFINE t == job[j].thread
    <2>1. job[j] # None /\ job'[j].thread = t /\ t \in Threads
      BY <1>2, InterruptComes, TaskFacts DEF Base
    <2>2. ASSUME NEW a \in ApprovalIds, GraphInterrupts(j, a)
          PROVE  pending'[t] \notin consumed'[t]
      <3>1. /\ pending' = [pending EXCEPT ![t] = a]
            /\ a \notin issued /\ UNCHANGED consumed
        BY <2>2 DEF GraphInterrupts
      <3>2. a \notin consumed[t]
        BY <2>1, <3>1 DEF OneThreadEach, Mentions
      <3>3. QED
        BY <2>1, <3>1, <3>2 DEF Base, DataTypes
    <2>3. CASE job'[j] = job[j]
      <3>1. pending[t] \notin consumed[t] /\ Inside(j, t)
        BY <1>2, <2>1, <2>3 DEF WaitsForWhatIsAsked, At, Inside, LockedPcs
      <3>2. owner[t] = j
        BY <2>1, <3>1 DEF Base, Exclusive, LockHolders, Lockers, InLock
      <3>3. CASE pending'[t] # pending[t]
        <4>1. PICK i \in Jobs : /\ job[i] # None /\ job[i].thread = t
                                /\ \/ GraphTakesMessage(i) \/ GraphSavesDecision(i)
                                   \/ \E a \in ApprovalIds : GraphInterrupts(i, a)
          BY <2>1, <3>3, PendingMoves
        <4>2. i = j
          BY <2>1, <4>1 DEF Base, Exclusive, OneSlotEach
        <4>3. QED
          BY <1>2, <2>3, <4>1, <4>2
          DEF GraphTakesMessage, GraphSavesDecision, GraphInterrupts, At
      <3>4. consumed'[t] \subseteq consumed[t]
        <4>1. ASSUME NEW h \in Deciders, Consumes(h)
              PROVE  consumed'[t] = consumed[t]
          <5>1. /\ consumed' = [consumed EXCEPT ![handler[h].thread] =
                                  consumed[handler[h].thread] \cup {handler[h].approval}]
                /\ owner[handler[h].thread] = h
            BY <4>1, ConsumesPending
          <5>2. h # j
            BY NamesDiffer DEF Handlers
          <5>3. QED
            BY <2>1, <3>2, <5>1, <5>2 DEF Base, DataTypes
        <4>2. ASSUME NEW T \in SUBSET Threads, Stopped(T)
              PROVE  FALSE
          BY <1>2, <4>2 DEF Stopped, Down
        <4>3. QED
          BY <4>1, <4>2, ConsumedMoves
      <3>5. QED
        BY <2>1, <3>1, <3>3, <3>4
    <2>4. QED
      BY <1>2, <2>1, <2>2, <2>3, InterruptComes
  <1>3. ASSUME NEW t \in Threads, row'[t] # None, t \notin torn',
               row'[t].status = "waiting_for_approval"
        PROVE  Decidable(t)'
    <2>1. consumed'[t] \subseteq consumed[t] /\ t \notin torn
      <3>1. ASSUME NEW h \in Deciders, Consumes(h),
                   \/ UNCHANGED torn /\ \E j \in Jobs : DeciderSchedules(h, j)
                   \/ torn' = torn \cup {handler[h].thread} /\ UNCHANGED row /\ Down
            PROVE  consumed'[t] \subseteq consumed[t] /\ t \notin torn
        <4> DEFINE u == handler[h].thread
        <4>1. /\ consumed' = [consumed EXCEPT ![u] = consumed[u] \cup {handler[h].approval}]
              /\ u \in Threads
          BY <3>1, ConsumesPending
        <4>2. CASE u # t
          BY <1>3, <3>1, <4>1, <4>2 DEF Base, DataTypes
        <4>3. ASSUME u = t, NEW j \in Jobs, DeciderSchedules(h, j)
              PROVE  FALSE
          <5>1. SetRow(t, Decided(row[t])) /\ handler[h].pc = "deciding"
            BY <4>3 DEF DeciderSchedules
          <5>2. row[t] \in Columns
            BY <4>3, <5>1, RequestFacts DEF Base, Handlers
          <5>3. row'[t] = Decided(row[t])
            BY <5>1 DEF SetRow, Base, Exclusive, ControlTypes
          <5>4. QED
            BY <1>3, <5>2, <5>3, DecidedColumns
        <4>4. QED
          BY <1>3, <3>1, <4>2, <4>3
      <3>2. ASSUME NEW T \in SUBSET Threads, Stopped(T), UNCHANGED torn
            PROVE  consumed'[t] \subseteq consumed[t] /\ t \notin torn
        BY <1>3, <3>2 DEF Stopped, Forgotten
      <3>3. CASE UNCHANGED <<consumed, accepted, expired>> /\ torn \subseteq torn'
        BY <1>3, <3>3
      <3>4. QED
        BY <3>1, <3>2, <3>3, ConsumedMoves
    <2>2. CASE /\ row[t] # None /\ row[t].status = "waiting_for_approval"
               /\ row'[t].approvals = row[t].approvals
      <3>1. Decidable(t)
        BY <2>1, <2>2 DEF WaitsForWhatIsAsked
      <3>2. pending'[t] = pending[t]
        BY <2>2, PendingMoves DEF WaitsForWhatIsAsked
      <3>3. QED
        BY <2>1, <2>2, <3>1, <3>2 DEF Decidable
    <2>3. ASSUME NEW j \in Jobs, NEW r, TaskEnds(j, r), job[j].thread = t,
                 job[j].pc = "interrupted", row'[t].approvals = {pending[t]}
          PROVE  Decidable(t)'
      <3>1. UNCHANGED pending
        BY <2>3 DEF TaskEnds, EndJob
      <3>2. pending[t] \notin consumed[t]
        BY <2>3 DEF WaitsForWhatIsAsked, TaskEnds, At
      <3>3. QED
        BY <2>1, <2>3, <3>1, <3>2 DEF Decidable
    <2>4. QED
      BY <1>3, <2>2, <2>3, WaitingComes
  <1>4. QED
    BY <1>1, <1>2, <1>3 DEF WaitsForWhatIsAsked, At

\* A row comes to say started or running when a task lives on its thread, or
\* by a tool that reports too late.
LEMMA IncompleteComes ==
  ASSUME Base, [Next]_vars, NEW t \in Threads, row'[t] # None,
         row'[t].status \in Incomplete
  PROVE  \/ row'[t] = row[t] /\ ~ Restart
         \/ \E j \in Jobs :
              job'[j] # None /\ job'[j].thread = t /\ job'[j].pc # "failing"
         \/ t \in tardy'
  <1> DEFINE Same == row'[t] = row[t] /\ ~ Restart
             Lives == \E j \in Jobs : /\ job'[j] # None /\ job'[j].thread = t
                                      /\ job'[j].pc # "failing"
  <1>1. /\ row \in [Threads -> Columns \cup {None}]
        /\ job \in [Jobs -> Tasks \cup {None}]
    BY DEF Base, Exclusive, ControlTypes
  <1>2. ASSUME Restart
        PROVE  FALSE
    <2>1. row[t] # None /\ row'[t] = Reconciled(row[t])
      BY <1>2 DEF Restart
    <2>2. row[t] \in Columns
      BY <1>1, <2>1
    <2>3. QED
      BY <2>1, <2>2, RestartColumns
  <1>3. ASSUME UNCHANGED row
        PROVE  Same
    BY <1>2, <1>3
  <1>4. ASSUME NEW u \in Threads, NEW r, SetRow(u, r), r.status \notin Incomplete
        PROVE  Same
    BY <1>1, <1>2, <1>4 DEF SetRow
  <1>5. ASSUME NEW u \in Threads, NEW r, SetRow(u, r), u # t
        PROVE  Same
    BY <1>1, <1>2, <1>5 DEF SetRow
  <1>6. ASSUME NEW j \in Jobs, TaskSteps(j)
        PROVE  Same \/ Lives
    <2> DEFINE u == job[j].thread
    <2>1. job[j] # None => u \in Threads /\ row[u] \in Columns
      BY TaskFacts DEF Base
    <2>2. CASE JobEnters(j) \/ JobGranted(j)
      <3>1. \/ UNCHANGED row
            \/ /\ job[j] # None /\ SetRow(u, Started(row[u], job[j].resume))
               /\ Move(j, "entered")
        BY <2>2 DEF JobEnters, JobGranted, At
      <3>2. ASSUME job[j] # None, u = t, Move(j, "entered")
            PROVE  Lives
        <4>1. job[j] \in Tasks /\ job' = [job EXCEPT ![j] = [job[j] EXCEPT !.pc = "entered"]]
          BY <1>1, <3>2 DEF Move
        <4>2. /\ [job[j] EXCEPT !.pc = "entered"] \in Tasks
              /\ [job[j] EXCEPT !.pc = "entered"].thread = t
              /\ [job[j] EXCEPT !.pc = "entered"].pc = "entered"
          BY <3>2, <4>1 DEF Tasks, JobPcs, LockedPcs
        <4>3. QED
          BY <1>1, <4>1, <4>2, NoneIsNoRecord
      <3>3. QED
        BY <1>3, <1>5, <2>1, <3>1, <3>2
    <2>3. CASE GraphSteps(j)
      BY <1>3, <2>3, GraphStepsAre DEF GraphMoves
    <2>4. CASE \/ JobWaits(j) \/ JobCompletes(j) \/ JobErrors(j) \/ CancelledInside(j)
      <3>1. PICK r : TaskEnds(j, r)
        BY <2>4, EndsAre
      <3>2. job[j] # None /\ SetRow(u, r) /\ r.status \notin Incomplete
        BY <3>1 DEF TaskEnds, EndJob, Incomplete, At
      <3>3. QED
        BY <1>4, <2>1, <3>2
    <2>5. CASE JobRaises(j)
      <3>1. job[j] # None /\ SetRow(u, AfterEvent(row[u], "error", {}))
        BY <2>5 DEF JobRaises, At
      <3>2. AfterEvent(row[u], "error", {}).status = "error"
        BY <2>1, <3>1, EventColumns
      <3>3. AfterEvent(row[u], "error", {}).status \notin Incomplete
        BY <3>2 DEF Incomplete
      <3>4. QED
        BY <1>4, <2>1, <3>1, <3>3
    <2>6. CASE JobReleased(j) \/ CancelledUnstarted(j)
      BY <1>3, <2>6 DEF JobReleased, CancelledUnstarted, durable
    <2>7. CASE CancelledWaiting(j)
      <3>1. job[j] # None /\ SetRow(u, Interrupted(row[u]))
        BY <2>7 DEF CancelledWaiting, At
      <3>2. Interrupted(row[u]).status \notin Incomplete
        BY <2>1, <3>1, InterruptedType DEF Incomplete
      <3>3. QED
        BY <1>4, <2>1, <3>1, <3>2
    <2>8. QED
      BY <1>6, <2>2, <2>3, <2>4, <2>5, <2>6, <2>7 DEF TaskSteps
  <1>7. ASSUME NEW h \in Handlers, ServeSteps(h) \/ ReadsPending(h)
        PROVE  Same
    <2>1. ASSUME NEW u \in Threads, RunClaims(h, u)
          PROVE  Same
      <3> DEFINE r == [status |-> "idle", result |-> "", approvals |-> {}]
      <3>1. UNCHANGED row \/ SetRow(u, r)
        BY <2>1 DEF RunClaims
      <3>2. r.status \notin Incomplete
        BY DEF Incomplete
      <3> HIDE DEF r
      <3>3. QED
        BY <1>3, <1>4, <3>1, <3>2
    <2>2. CASE UNCHANGED row
      BY <1>3, <2>2
    <2>3. QED
      BY <1>7, <2>1, <2>2 DEF ServeSteps, ReadsPending, DeciderEnters,
         DeciderGranted, RunTurnedAway, DeciderTurnedAway, durable
  <1>8. ASSUME NEW h \in Handlers, NEW j \in Jobs, ScheduleSteps(h, j)
        PROVE  Same \/ Lives
    <2> DEFINE u == handler[h].thread
    <2>1. /\ handler[h].pc = "deciding"
          /\ SetRow(u, Restarted(row[u])) \/ SetRow(u, Decided(row[u]))
          /\ \E a \in Asked : NewJob(j, u, a)
      <3>1. handler[h].pc = "deciding"
        BY <1>8 DEF ScheduleSteps, RunSchedules, DeciderSchedules
      <3>2. h \in Deciders => handler[h].approval \in Asked
        BY <3>1 DEF Base, DecisionsName, Asked
      <3>3. QED
        BY <1>8, <3>1, <3>2 DEF ScheduleSteps, RunSchedules, DeciderSchedules, Asked
    <2>2. u \in Threads
      BY <2>1, RequestFacts DEF Base
    <2>3. PICK a \in Asked :
            job' = [job EXCEPT ![j] = [thread |-> u, resume |-> a, pc |-> "created"]]
      BY <2>1 DEF NewJob
    <2>4. [thread |-> u, resume |-> a, pc |-> "created"] \in Tasks
      BY <2>2 DEF Tasks, JobPcs
    <2>5. job'[j] # None /\ job'[j].thread = u /\ job'[j].pc = "created"
      BY <1>1, <2>3, <2>4, NoneIsNoRecord
    <2>6. QED
      BY <1>5, <2>1, <2>2, <2>5
  <1>9. CASE DownSteps
    BY <1>1, <1>2, <1>9 DEF DownSteps, Crash, CrashAfterConsume, Stopped, Forgotten,
                            durable
  <1>10. ASSUME NEW u \in Threads, ToolReports(u)
         PROVE  Same \/ Lives \/ t \in tardy'
    <2>1. /\ SetRow(u, AfterEvent(row[u], "tool_start", {})) /\ UNCHANGED job
          /\ tardy' = IF \E j \in JobsOf(u) : job[j].pc \in LockedPcs
                      THEN tardy ELSE tardy \cup {u}
      BY <1>10 DEF ToolReports
    <2>2. CASE \E j \in JobsOf(u) : job[j].pc \in LockedPcs
      BY <1>5, <2>1, <2>2 DEF JobsOf, LiveJobs, LockedPcs
    <2>3. CASE ~ \E j \in JobsOf(u) : job[j].pc \in LockedPcs
      BY <1>5, <2>1, <2>3
    <2>4. QED
      BY <2>2, <2>3
  <1>11. CASE OtherSteps \/ UNCHANGED vars
    BY <1>2, <1>3, <1>10, <1>11 DEF OtherSteps, ToolStarts, ShutdownBegins,
       ShutdownCancels, vars, durable
  <1>12. QED
    BY <1>6, <1>7, <1>8, <1>9, <1>11, StepKinds

\* A task ends inside the lock, is released after a failure, or goes with the
\* process.
LEMMA TasksGo ==
  ASSUME Base, [Next]_vars, NEW j \in Jobs, job[j] # None, job'[j] = None
  PROVE  \/ \E r : TaskEnds(j, r)
         \/ JobReleased(j)
         \/ mode' # "up"
  <1>1. job \in [Jobs -> Tasks \cup {None}] /\ job[j] \in Tasks
    BY DEF Base, Exclusive, ControlTypes
  <1>2. ASSUME NEW i \in Jobs, TaskSteps(i)
        PROVE  (\E r : TaskEnds(j, r)) \/ JobReleased(j) \/ mode' # "up"
    <2>1. CASE \/ JobWaits(i) \/ JobCompletes(i) \/ JobErrors(i) \/ CancelledInside(i)
      <3>1. PICK r : TaskEnds(i, r)
        BY <2>1, EndsAre
      <3>2. job' = [job EXCEPT ![i] = None]
        BY <3>1 DEF TaskEnds, EndJob
      <3>3. QED
        BY <1>1, <3>1, <3>2
    <2>2. CASE JobReleased(i)
      BY <1>1, <2>2 DEF JobReleased
    <2>3. CASE CancelledUnstarted(i) \/ CancelledWaiting(i)
      BY <2>3 DEF CancelledUnstarted, CancelledWaiting
    <2>4. CASE JobEnters(i) \/ JobGranted(i) \/ JobRaises(i) \/ GraphSteps(i)
      <3>1. /\ job[i] # None
            /\ \E pc : pc \in JobPcs /\ job' = [job EXCEPT ![i] = [job[i] EXCEPT !.pc = pc]]
        BY <2>4, GraphStepsAre
        DEF JobEnters, JobGranted, JobRaises, GraphMoves, Move, At, JobPcs, LockedPcs
      <3>2. \A pc \in JobPcs : [job[i] EXCEPT !.pc = pc] \in Tasks
        BY <1>1, <3>1 DEF Tasks
      <3>3. QED
        BY <1>1, <3>1, <3>2, NoneIsNoRecord
    <2>5. QED
      BY <1>2, <2>1, <2>2, <2>3, <2>4 DEF TaskSteps
  <1>3. ASSUME NEW h \in Handlers, NEW i \in Jobs, ScheduleSteps(h, i)
        PROVE  FALSE
    BY <1>1, <1>3 DEF ScheduleSteps, RunSchedules, DeciderSchedules, NewJob
  <1>4. CASE DownSteps
    BY <1>4, DownsAre DEF DownSteps, Down, Base
  <1>5. ASSUME NEW h \in Handlers, ServeSteps(h) \/ ReadsPending(h)
        PROVE  UNCHANGED job
    BY <1>5 DEF ServeSteps, ReadsPending, RunClaims, DeciderEnters, DeciderGranted,
                RunTurnedAway, DeciderTurnedAway
  <1>6. CASE OtherSteps \/ UNCHANGED vars
    BY <1>6 DEF OtherSteps, ToolStarts, ToolReports, ShutdownBegins,
                ShutdownCancels, Restart, vars
  <1>7. QED
    BY <1>2, <1>3, <1>4, <1>5, <1>6, StepKinds

\* A tardy report is made good by the end of the thread's next task, or by a
\* restart.
LEMMA TardyGoes ==
  ASSUME Base, [Next]_vars, NEW t \in tardy, t \notin tardy'
  PROVE  \/ \E j \in Jobs : \E r : TaskEnds(j, r) /\ job[j].thread = t
         \/ Restart
  <1>1. ASSUME NEW j \in Jobs, TaskSteps(j)
        PROVE  \E r : TaskEnds(j, r) /\ job[j].thread = t
    <2>1. CASE \/ JobWaits(j) \/ JobCompletes(j) \/ JobErrors(j) \/ CancelledInside(j)
      <3>1. PICK r : TaskEnds(j, r)
        BY <2>1, EndsAre
      <3>2. QED
        BY <3>1 DEF TaskEnds, EndJob
    <2>2. CASE \/ JobEnters(j) \/ JobGranted(j) \/ JobRaises(j) \/ JobReleased(j)
               \/ CancelledUnstarted(j) \/ CancelledWaiting(j) \/ GraphSteps(j)
      BY <2>2, GraphStepsAre DEF JobEnters, JobGranted, JobRaises, JobReleased,
         CancelledUnstarted, CancelledWaiting, GraphMoves, history
    <2>3. QED
      BY <1>1, <2>1, <2>2 DEF TaskSteps
  <1>2. ASSUME NEW h \in Handlers, ServeSteps(h) \/ ReadsPending(h)
        PROVE  UNCHANGED tardy
    BY <1>2 DEF ServeSteps, ReadsPending, RunClaims, DeciderEnters, DeciderGranted,
                RunTurnedAway, DeciderTurnedAway, history
  <1>3. ASSUME NEW h \in Handlers, NEW j \in Jobs, ScheduleSteps(h, j)
        PROVE  UNCHANGED tardy
    BY <1>3 DEF ScheduleSteps, RunSchedules, DeciderSchedules, history
  <1>4. CASE DownSteps
    BY <1>4 DEF DownSteps, Crash, CrashAfterConsume, Stopped, history
  <1>5. CASE OtherSteps \/ UNCHANGED vars
    BY <1>5 DEF OtherSteps, ToolStarts, ToolReports, ShutdownBegins,
                ShutdownCancels, vars, history
  <1>6. QED
    BY <1>1, <1>2, <1>3, <1>4, <1>5, StepKinds

\* The row an ending task leaves is at rest.
LEMMA EndsAtRest ==
  ASSUME Base, NEW j \in Jobs, NEW r, TaskEnds(j, r)
  PROVE  /\ row'[job[j].thread].status \notin Incomplete
         /\ job'[j] = None
  <1>1. /\ job[j] # None /\ row' = [row EXCEPT ![job[j].thread] = r]
        /\ r.status \notin Incomplete
        /\ job' = [job EXCEPT ![j] = None]
    BY DEF TaskEnds, EndJob, SetRow, At, Incomplete
  <1>2. job[j].thread \in Threads
    BY <1>1, TaskFacts DEF Base
  <1>3. QED
    BY <1>1, <1>2 DEF Base, Exclusive, ControlTypes

\* mode is up because it was, or by a restart.
LEMMA ModeMoves ==
  ASSUME Base, [Next]_vars, mode' = "up", ~ Restart
  PROVE  mode = "up"
  <1>1. ASSUME NEW j \in Jobs, TaskSteps(j)
        PROVE  UNCHANGED mode
    BY <1>1 DEF TaskSteps, GraphSteps, JobEnters, JobGranted, GraphTakesMessage,
                GraphTakesDecision, GraphSavesDecision, GraphInterrupts, JobWaits,
                JobCompletes, JobErrors, CancelledInside, EndJob, JobRaises,
                JobReleased, CancelledUnstarted, CancelledWaiting
  <1>2. ASSUME NEW h \in Handlers, ServeSteps(h) \/ ReadsPending(h)
        PROVE  UNCHANGED mode
    BY <1>2 DEF ServeSteps, ReadsPending, RunClaims, DeciderEnters, DeciderGranted,
                RunTurnedAway, DeciderTurnedAway
  <1>3. ASSUME NEW h \in Handlers, NEW j \in Jobs, ScheduleSteps(h, j)
        PROVE  UNCHANGED mode
    BY <1>3 DEF ScheduleSteps, RunSchedules, DeciderSchedules
  <1>4. CASE DownSteps
    BY <1>4, DownsAre DEF DownSteps, Down, Base
  <1>5. CASE OtherSteps \/ UNCHANGED vars
    BY <1>5 DEF OtherSteps, ToolStarts, ToolReports, ShutdownBegins,
                ShutdownCancels, vars
  <1>6. QED
    BY <1>1, <1>2, <1>3, <1>4, <1>5, StepKinds

\* Every step keeps that a thread without a task is at rest.
LEMMA RestsStep ==
  ASSUME Base, RestsWhenDone, [Next]_vars
  PROVE  RestsWhenDone'
  <1>1. ASSUME mode' = "up", NEW t \in Threads, row'[t] # None,
               ~ \E j \in Jobs : job'[j] # None /\ job'[j].thread = t,
               t \notin tardy', row'[t].status \in Incomplete
        PROVE  FALSE
    <2>1. row'[t] = row[t] /\ ~ Restart
      BY <1>1, IncompleteComes
    <2>2. mode = "up"
      BY <1>1, <2>1, ModeMoves
    <2>3. t \notin tardy
      BY <1>1, <2>1, TardyGoes, EndsAtRest
    <2>4. PICK j \in Jobs : job[j] # None /\ job[j].thread = t
      BY <1>1, <2>1, <2>2, <2>3
      DEF RestsWhenDone, RestingStatus, JobsOf, LiveJobs
    <2>5. job'[j] = None
      <3>1. ASSUME NEW h \in Handlers, ScheduleSteps(h, j)
            PROVE  FALSE
        BY <2>4, <3>1 DEF ScheduleSteps, RunSchedules, DeciderSchedules, NewJob
      <3>2. QED
        BY <1>1, <2>4, <3>1, TasksCome
    <2>6. JobReleased(j)
      BY <1>1, <2>4, <2>5, TasksGo, EndsAtRest
    <2>7. row[t].status \notin Incomplete
      BY <2>3, <2>4, <2>6 DEF JobReleased, RestsWhenDone
    <2>8. QED
      BY <1>1, <2>1, <2>7
  <1>2. ASSUME NEW j \in Jobs, job'[j] # None, job'[j].pc = "failing",
               job'[j].thread \notin tardy', row'[job'[j].thread].status \in Incomplete
        PROVE  FALSE
    <2> DEFINE t == job'[j].thread
    <2>1. t \in Threads /\ row'[t] # None
      BY <1>2, BaseStep DEF Base, Exclusive, ControlTypes, RowsKept, Tasks
    <2>2. ASSUME NEW i \in Jobs, job'[i] # None, job'[i].thread = t,
                 job'[i].pc # "failing"
          PROVE  FALSE
      BY <1>2, <2>2, BaseStep DEF Base, Exclusive, OneSlotEach
    <2>3. row'[t] = row[t] /\ ~ Restart
      BY <1>2, <2>1, <2>2, IncompleteComes
    <2>4. job \in [Jobs -> Tasks \cup {None}]
      BY DEF Base, Exclusive, ControlTypes
    <2>5. job[j] # None /\ job[j].thread = t /\ (job'[j] = job[j] \/ JobRaises(j))
      <3>1. ASSUME NEW h \in Handlers, ScheduleSteps(h, j)
            PROVE  FALSE
        BY <1>2, <2>4, <3>1 DEF ScheduleSteps, RunSchedules, DeciderSchedules, NewJob
      <3>2. ASSUME job[j] # None, JobEnters(j) \/ JobGranted(j) \/ GraphSteps(j)
            PROVE  FALSE
        <4>1. \E pc \in JobPcs \ {"failing"} :
                job' = [job EXCEPT ![j] = [job[j] EXCEPT !.pc = pc]]
          BY <3>2, GraphStepsAre DEF JobEnters, JobGranted, GraphMoves, Move, JobPcs,
             LockedPcs
        <4>2. QED
          BY <1>2, <2>4, <3>2, <4>1 DEF Tasks
      <3>3. QED
        BY <1>2, <3>1, <3>2, TasksCome
    <2>6. CASE job'[j] = job[j]
      <3>1. t \notin tardy
        <4> SUFFICES ASSUME t \in tardy
                     PROVE  FALSE
          OBVIOUS
        <4>1. PICK i \in Jobs : \E r : TaskEnds(i, r) /\ job[i].thread = t
          BY <1>2, <2>3, TardyGoes
        <4>2. QED
          BY <1>2, <2>3, <4>1, EndsAtRest
      <3>2. QED
        BY <1>2, <2>3, <2>6, <3>1 DEF RestsWhenDone, At
    <2>7. CASE JobRaises(j)
      <3>1. SetRow(t, AfterEvent(row[t], "error", {}))
        BY <2>5, <2>7 DEF JobRaises
      <3>2. row[t] \in Columns
        BY <2>5, TaskFacts DEF Base
      <3>3. row'[t].status = "error"
        BY <2>1, <3>1, <3>2, EventColumns
        DEF SetRow, Base, Exclusive, ControlTypes
      <3>4. QED
        BY <1>2, <3>3 DEF Incomplete
    <2>8. QED
      BY <2>5, <2>6, <2>7
  <1>3. QED
    BY <1>1, <1>2 DEF RestsWhenDone, RestingStatus, JobsOf, LiveJobs, At

-----------------------------------------------------------------------------
\* A service that has just started satisfies the invariant.
LEMMA InvInit == Init => Inv
  <1> SUFFICES ASSUME Init
               PROVE  Inv
    OBVIOUS
  <1> USE DEF Init
  <1>1. Idle \in Requests /\ Idle.pc = "idle"
    BY DEF Idle, Requests, Asked
  <1>2. ControlTypes
    BY <1>1, NoneThread DEF ControlTypes
  <1>3. DataTypes
    BY BoundsAreNumbers DEF DataTypes, Asked
  <1>4. \A h \in Handlers : handler[h].pc = "idle"
    BY <1>1
  <1>5. RowsKept /\ ServedByProcess /\ OneSlotEach
    BY <1>4 DEF RowsKept, ServedByProcess, OneSlotEach
  <1>6. LockHolders
    BY <1>4, NamesDiffer
    DEF LockHolders, InLock, Holding, Inside, At, Lockers, Handlers
  <1>7. InterruptIsThere /\ DecisionsName
    BY <1>4 DEF InterruptIsThere, DecisionsName, At, Handlers
  <1>8. OneThreadEach /\ DecisionsFit /\ MessagesRace /\ AcceptedIsConsumed
    BY <1>4, NamesDiffer DEF OneThreadEach, Mentions, DecisionsFit, MessagesRace,
       DiscardedOnlyByRace, AcceptedIsConsumed, AcceptedOnce, At, Handlers
  <1>9. WaitsForWhatIsAsked /\ RestsWhenDone
    BY DEF WaitsForWhatIsAsked, RestsWhenDone, RestingStatus, At
  <1>10. QED
    BY <1>2, <1>3, <1>5, <1>6, <1>7, <1>8, <1>9 DEF Inv, Base, Exclusive

\* Every step keeps it.
LEMMA InvStep == Inv /\ [Next]_vars => Inv'
  BY BaseStep, OneThreadEachStep, DecisionsFitStep, MessagesRaceStep,
     AcceptedIsConsumedStep, WaitsStep, RestsStep DEF Inv

\* Every reachable state satisfies the inductive invariant.
THEOREM InvIsInvariant == Spec => []Inv
  <1>1. QED
    BY InvInit, InvStep, PTL DEF Spec

\* Types, and mutual exclusion: the tasks of a thread run one after another,
\* each inside the thread's lock (TaskService._run under locked()).
THEOREM SequentialTasksIsInvariant == Spec => []SequentialTasks
  <1>1. Inv => SequentialTasks
    <2> SUFFICES ASSUME Inv
                 PROVE  SequentialTasks
      OBVIOUS
    <2>1. TypeOK
      BY DEF Inv, Base, Exclusive, ControlTypes, DataTypes, TypeOK
    <2>2. ASSUME NEW t \in Threads, NEW i \in JobsOf(t), NEW j \in JobsOf(t)
          PROVE  i = j /\ (job[j].pc \in LockedPcs <=> owner[t] = j)
      <3>1. /\ i \in Jobs /\ job[i] # None /\ job[i].thread = t
            /\ j \in Jobs /\ job[j] # None /\ job[j].thread = t
        BY <2>2 DEF JobsOf, LiveJobs
      <3>2. owner[t] = j <=> InLock(j, t)
        BY <3>1 DEF Inv, Base, Exclusive, LockHolders, Lockers
      <3>3. InLock(j, t) <=> job[j].pc \in LockedPcs
        BY <3>1, NamesDiffer DEF InLock, Inside, At, Handlers
      <3>4. QED
        BY <3>1, <3>2, <3>3 DEF Inv, Base, Exclusive, OneSlotEach
    <2>3. QED
      BY <2>1, <2>2 DEF SequentialTasks
  <1>2. QED
    BY <1>1, InvIsInvariant, PTL

\* No slot of the admission is lost or given back early, whichever way out
\* of schedule or _run a task takes.
THEOREM LeasesMatchTasksIsInvariant == Spec => []LeasesMatchTasks
  <1>1. Inv => LeasesMatchTasks
    <2> SUFFICES ASSUME Inv, mode \in {"up", "closing"}
                 PROVE  held = {[user |-> User, thread |-> job[j].thread] : j \in LiveJobs}
      BY DEF LeasesMatchTasks
    <2>1. ASSUME NEW s \in held
          PROVE  \E j \in LiveJobs : s = [user |-> User, thread |-> job[j].thread]
      <3>1. PICK j \in Jobs : job[j] # None /\ job[j].thread = s.thread
        BY <2>1 DEF Inv, Base, Exclusive, OneSlotEach
      <3>2. s = [user |-> User, thread |-> s.thread]
        BY <2>1 DEF Inv, Base, Exclusive, ControlTypes, Slots
      <3>3. QED
        BY <3>1, <3>2 DEF LiveJobs
    <2>2. ASSUME NEW j \in LiveJobs
          PROVE  [user |-> User, thread |-> job[j].thread] \in held
      BY <2>2 DEF LiveJobs, Inv, Base, Exclusive, OneSlotEach
    <2>3. QED
      BY <2>1, <2>2
  <1>2. QED
    BY <1>1, InvIsInvariant, PTL

\* No decision of a user is taken twice, and none reaches the graph that was
\* not (consume_approval, and the lock decide_task_approval is held under).
THEOREM AcceptedOnceIsInvariant == Spec => []AcceptedOnce
  <1>1. Inv => AcceptedOnce
    BY DEF Inv, AcceptedIsConsumed
  <1>2. QED
    BY <1>1, InvIsInvariant, PTL

\* The row of a thread nobody works on is not left started or running.
THEOREM RestingStatusIsInvariant == Spec => []RestingStatus
  <1>1. Inv => RestingStatus
    BY DEF Inv, RestsWhenDone
  <1>2. QED
    BY <1>1, InvIsInvariant, PTL

\* A row that waits for an approval waits for one that can be decided.
THEOREM WaitingIsDecidableIsInvariant == Spec => []WaitingIsDecidable
  <1>1. Inv => WaitingIsDecidable
    BY DEF Inv, WaitsForWhatIsAsked, WaitingIsDecidable
  <1>2. QED
    BY <1>1, InvIsInvariant, PTL

\* What a new Task makes the graph forget was asked for behind its back.
THEOREM DiscardedOnlyByRaceIsInvariant == Spec => []DiscardedOnlyByRace
  <1>1. Inv => DiscardedOnlyByRace
    BY DEF Inv, MessagesRace
  <1>2. QED
    BY <1>1, InvIsInvariant, PTL
=============================================================================
