----------------------------- MODULE TaskService -----------------------------
(***************************************************************************)
(* The life of Tasks in the server: the handlers run_task and              *)
(* decide_task_approval (api/server.py), schedule, _run and shutdown       *)
(* (api/task_service.py), the outcomes of run_deep_agent                   *)
(* (agent/main_agent.py), and start and stop of the process                *)
(* (api/runtime.py), over the durable rows of the task store and the       *)
(* durable checkpoint of the agent graph.                                  *)
(*                                                                         *)
(* A step is what the event loop does between two awaits that suspend.     *)
(* The per-thread lock and the admission leases are the abstract FifoLocks *)
(* and LeasePool, which ThreadLock and Admission implement; the columns    *)
(* status, result and approvals change as TaskRow says.  Every thread has  *)
(* one owner here.  The agent graph is external: it takes an input, may    *)
(* interrupt once or more for approvals, and ends.                         *)
(***************************************************************************)
EXTENDS TaskRow, Sequences, FiniteSets

CONSTANTS
  Threads, ApprovalIds,
  Runs,           \* handlers of POST /api/task
  Deciders,       \* handlers of POST /api/task/{thread_id}/approval
  Jobs,           \* names of background tasks
  User, None,
  MaxActivePerUser, MaxActiveProcess,
  MaxLate,        \* bound: tool threads that have not reported yet
  MaxStops        \* bound: how often the process stops or crashes

Handlers == Runs \cup Deciders

\* Requests and background tasks are different things, and None is none.
ASSUME NamesDiffer ==
  /\ None \notin Threads \cup ApprovalIds \cup Handlers \cup Jobs
  /\ Runs \cap Deciders = {} /\ Handlers \cap Jobs = {}

ASSUME BoundsAreNumbers == MaxLate \in Nat /\ MaxStops \in Nat

VARIABLES
  \* durable: task store and checkpoints
  row,         \* row of the thread (status, result, approvals), or None
  consumed,    \* approvals consumed, per thread
  pending,     \* the interrupt a checkpoint waits at, or None
  \* the process
  mode,        \* "up", "closing", "cancelling" or "down"
  owner, queue,  \* FifoLocks: the lock of each thread
  held,        \* LeasePool: the task slots in use
  handler,     \* requests being handled
  job,         \* background tasks
  late,        \* tool threads about to report tool_start, of the task that
               \* runs and left over by earlier ones
  \* history
  issued,      \* approvals the graph has asked for
  accepted,    \* times an approval was answered "accepted"
  decided,     \* times the graph was given a decision for it
  discarded,   \* approvals a new input made the graph forget
  raced,       \* approvals asked for while a run handler held a stale read
  torn,        \* threads where a crash fell between consume and set_status
  tardy,       \* threads where a tool reported after its task had ended
  expired,     \* threads whose row was cleaned up
  stops        \* times the process went down

durable == <<row, consumed, pending>>
locks == <<owner, queue>>
history == <<issued, accepted, decided, discarded, raced, torn, tardy, expired>>
vars == <<durable, mode, locks, held, handler, job, late, history, stops>>

Columns == [status : Statuses, result : Results,
            approvals : SUBSET ApprovalIds]
Asked == ApprovalIds \cup {None}
Requests == [pc : {"idle", "locking", "reading", "deciding"},
             thread : Threads \cup {None}, approval : Asked, seen : Asked]
Slots == [user : {User}, thread : Threads]

\* Where a background task is: created but not yet run, waiting for the lock,
\* inside it with status running, the graph working on a decision, working,
\* stopped at an interrupt, or publishing the error that ended it.
LockedPcs == {"entered", "resuming", "working", "interrupted"}
JobPcs == {"created", "locking", "failing"} \cup LockedPcs
Tasks == [thread : Threads, resume : Asked, pc : JobPcs]

\* Tool threads that have yet to report tool_start.
Threading == {l \in [own : 0 .. MaxLate, left : 0 .. MaxLate] :
                l.own + l.left <= MaxLate}
NoThreads == [own |-> 0, left |-> 0]

ASSUME NoneIsNoRecord == None \notin Columns \cup Tasks

TypeOK ==
  /\ row \in [Threads -> Columns \cup {None}]
  /\ consumed \in [Threads -> SUBSET ApprovalIds]
  /\ pending \in [Threads -> Asked]
  /\ mode \in {"up", "closing", "cancelling", "down"}
  /\ owner \in [Threads -> Handlers \cup Jobs \cup {None}]
  /\ queue \in [Threads -> Seq(Handlers \cup Jobs)]
  /\ held \subseteq Slots
  /\ handler \in [Handlers -> Requests]
  /\ job \in [Jobs -> Tasks \cup {None}]
  /\ late \in [Threads -> Threading]
  /\ issued \subseteq ApprovalIds
  /\ accepted \in [ApprovalIds -> Nat]
  /\ decided \in [ApprovalIds -> Nat]
  /\ {discarded, raced} \subseteq SUBSET ApprovalIds
  /\ {torn, tardy, expired} \subseteq SUBSET Threads
  /\ stops \in 0 .. MaxStops

Idle == [pc |-> "idle", thread |-> None, approval |-> None, seen |-> None]

Init ==
  /\ row = [t \in Threads |-> None]
  /\ consumed = [t \in Threads |-> {}]
  /\ pending = [t \in Threads |-> None]
  /\ mode = "up"
  /\ owner = [t \in Threads |-> None]
  /\ queue = [t \in Threads |-> <<>>]
  /\ held = {}
  /\ handler = [h \in Handlers |-> Idle]
  /\ job = [j \in Jobs |-> None]
  /\ late = [t \in Threads |-> NoThreads]
  /\ issued = {} /\ discarded = {} /\ raced = {}
  /\ accepted = [a \in ApprovalIds |-> 0]
  /\ decided = [a \in ApprovalIds |-> 0]
  /\ torn = {} /\ tardy = {} /\ expired = {}
  /\ stops = 0

Lock == INSTANCE FifoLocks WITH Procs <- Handlers \cup Jobs
Pool == INSTANCE LeasePool WITH Users <- {User}

LiveJobs == {j \in Jobs : job[j] # None}
JobsOf(t) == {j \in LiveJobs : job[j].thread = t}
SetRow(t, r) == row' = [row EXCEPT ![t] = r]

-----------------------------------------------------------------------------
(* POST /api/task: run_task.                                                *)

\* claim, then the await of _get_pending_approvals begins.
RunClaims(h, t) ==
  /\ mode = "up" /\ handler[h].pc = "idle"
  /\ IF row[t] = None
     THEN SetRow(t, [status |-> "idle", result |-> "", approvals |-> {}])
     ELSE UNCHANGED row
  /\ handler' = [handler EXCEPT
                   ![h] = [Idle EXCEPT !.pc = "reading", !.thread = t]]
  /\ UNCHANGED <<consumed, pending, mode, locks, held, job, late, history,
                 stops>>

\* The checkpoint is read; the handler runs on in a later step.
ReadsPending(h) ==
  /\ handler[h].pc = "reading"
  /\ handler' = [handler EXCEPT ![h].pc = "deciding",
                                ![h].seen = pending[handler[h].thread]]
  /\ UNCHANGED <<durable, mode, locks, held, job, late, history, stops>>

\* "Task is waiting for approval", or admission refuses.
RunTurnedAway(h) ==
  /\ handler[h].pc = "deciding"
  /\ handler' = [handler EXCEPT ![h] = Idle]
  /\ UNCHANGED <<durable, mode, locks, held, job, late, history, stops>>

NewJob(j, t, resume) ==
  /\ job[j] = None
  /\ job' = [job EXCEPT
               ![j] = [thread |-> t, resume |-> resume, pc |-> "created"]]

SeesAnything(h) == TRUE
SeesNoApproval(h) == handler[h].seen = None

\* schedule without a decision: acquire, create_task, create the background
\* task.
GrantAnyThread(t) ==
  held' = held \cup {[user |-> User, thread |-> t]}
GrantSlot(t) == Pool!Grant(User, t)

RunSchedules(h, j) ==
  LET t == handler[h].thread
  IN  /\ handler[h].pc = "deciding"
      /\ SeesNoApproval(h)
      /\ GrantSlot(t)
      /\ SetRow(t, Restarted(row[t]))
      /\ NewJob(j, t, None)
      /\ handler' = [handler EXCEPT ![h] = Idle]
      /\ UNCHANGED <<consumed, pending, mode, locks, late, history, stops>>

-----------------------------------------------------------------------------
(* POST /api/task/{thread_id}/approval: decide_task_approval.               *)

\* ensure_owner, then locked(): inside at once, or in the queue.
DeciderEnters(h, t, a) ==
  /\ mode = "up" /\ handler[h].pc = "idle"
  /\ row[t] # None /\ a \in issued
  /\ \/ Lock!Take(h, t) /\ handler' = [handler EXCEPT ![h] =
          [pc |-> "reading", thread |-> t, approval |-> a, seen |-> None]]
     \/ Lock!Wait(h, t) /\ handler' = [handler EXCEPT ![h] =
          [pc |-> "locking", thread |-> t, approval |-> a, seen |-> None]]
  /\ UNCHANGED <<durable, mode, held, job, late, history, stops>>

GrantedTo(p, t) == queue[t] # <<>> /\ Head(queue[t]) = p /\ Lock!Grant(t)

DeciderGranted(h) ==
  /\ handler[h].pc = "locking"
  /\ GrantedTo(h, handler[h].thread)
  /\ handler' = [handler EXCEPT ![h].pc = "reading"]
  /\ UNCHANGED <<durable, mode, held, job, late, history, stops>>

\* already_processed, no longer pending, a wrong decision count, a decision
\* that is not allowed, an AdmissionError, or the ValueError of an approval
\* consumed before (the lease it took is released again).
DeciderTurnedAway(h) ==
  /\ handler[h].pc = "deciding"
  /\ Lock!Leave(handler[h].thread)
  /\ handler' = [handler EXCEPT ![h] = Idle]
  /\ UNCHANGED <<durable, mode, held, job, late, history, stops>>

MayConsumeAgain(h) == handler[h].seen = handler[h].approval
MayConsume(h) ==
  /\ handler[h].seen = handler[h].approval
  /\ handler[h].approval \notin consumed[handler[h].thread]

Consume(t, a) ==
  /\ consumed' = [consumed EXCEPT ![t] = @ \cup {a}]
  /\ accepted' = [accepted EXCEPT ![a] = @ + 1]

\* set_status started, with no approvals.
DecidedUnmarked(r) == r
Decided(r) == Updated(r, "started", None, {}, None)

\* schedule with a decision: acquire, consume_approval, set_status started,
\* create the background task; then the handler leaves the lock.
DeciderSchedules(h, j) ==
  LET t == handler[h].thread
      a == handler[h].approval
  IN  /\ handler[h].pc = "deciding"
      /\ MayConsume(h)
      /\ GrantSlot(t)
      /\ Consume(t, a)
      /\ SetRow(t, Decided(row[t]))
      /\ NewJob(j, t, a)
      /\ Lock!Leave(t)
      /\ handler' = [handler EXCEPT ![h] = Idle]
      /\ UNCHANGED <<pending, mode, late, issued, decided, discarded, raced,
                     torn, tardy, expired, stops>>

-----------------------------------------------------------------------------
(* _run and run_deep_agent.                                                 *)

At(j, pcs) == job[j] # None /\ job[j].pc \in pcs
Move(j, pc) == job' = [job EXCEPT ![j].pc = pc]

\* Inside the lock: set_status running, and for a decision the event
\* approval_resumed or approval_rejected, whose delivery is awaited.
Started(r, resume) ==
  LET running == Updated(r, "running", None, None, None)
  IN  IF resume = None THEN running
                       ELSE AfterEvent(running, "approval_resumed", {})

JobEnters(j) ==
  LET t == job[j].thread
  IN  /\ At(j, {"created"}) /\ mode # "cancelling"
      /\ \/ /\ Lock!Take(j, t)
            /\ SetRow(t, Started(row[t], job[j].resume))
            /\ Move(j, "entered")
         \/ /\ Lock!Wait(j, t)
            /\ UNCHANGED row
            /\ Move(j, "locking")
      /\ UNCHANGED <<consumed, pending, mode, held, handler, late, history,
                     stops>>

JobGranted(j) ==
  LET t == job[j].thread
  IN  /\ At(j, {"locking"}) /\ mode # "cancelling"
      /\ GrantedTo(j, t)
      /\ SetRow(t, Started(row[t], job[j].resume))
      /\ Move(j, "entered")
      /\ UNCHANGED <<consumed, pending, mode, held, handler, late, history,
                     stops>>

\* The graph takes its input (the checkpointer is open).  A new message makes
\* it forget the interrupt it waits at; a decision goes to the interrupt it
\* waits at, whichever that is, and the checkpoint shows it until the step
\* that handles it is saved.
GraphTakesMessage(j) ==
  LET t == job[j].thread
  IN  /\ At(j, {"entered"}) /\ job[j].resume = None /\ mode = "up"
      /\ pending' = [pending EXCEPT ![t] = None]
      /\ discarded' = discarded \cup ({pending[t]} \ {None})
      /\ Move(j, "working")
      /\ UNCHANGED <<row, consumed, mode, locks, held, handler, late, issued,
                     accepted, decided, raced, torn, tardy, expired, stops>>

GraphTakesDecision(j) ==
  LET t == job[j].thread
  IN  /\ At(j, {"entered"}) /\ job[j].resume # None /\ mode = "up"
      /\ decided' = IF pending[t] = None THEN decided
                    ELSE [decided EXCEPT ![pending[t]] = @ + 1]
      /\ Move(j, IF pending[t] = None THEN "working" ELSE "resuming")
      /\ UNCHANGED <<durable, mode, locks, held, handler, late, issued,
                     accepted, discarded, raced, torn, tardy, expired, stops>>

GraphSavesDecision(j) ==
  /\ At(j, {"resuming"}) /\ mode = "up"
  /\ pending' = [pending EXCEPT ![job[j].thread] = None]
  /\ Move(j, "working")
  /\ UNCHANGED <<row, consumed, mode, locks, held, handler, late, history,
                 stops>>

\* A tool runs in a worker thread; it reports tool_start when it gets going,
\* which nothing stops once it runs, not even the end of the task.
ToolStarts(j) ==
  LET t == job[j].thread
  IN  /\ At(j, {"working"}) /\ mode = "up"
      /\ late[t].own + late[t].left < MaxLate
      /\ late' = [late EXCEPT ![t].own = @ + 1]
      /\ UNCHANGED <<durable, mode, locks, held, handler, job, history, stops>>

ToolReports(t) ==
  /\ mode # "down"
  /\ \/ late[t].own > 0 /\ late' = [late EXCEPT ![t].own = @ - 1]
     \/ late[t].left > 0 /\ late' = [late EXCEPT ![t].left = @ - 1]
  /\ SetRow(t, AfterEvent(row[t], "tool_start", {}))
  /\ tardy' = IF \E j \in JobsOf(t) : job[j].pc \in LockedPcs
              THEN tardy ELSE tardy \cup {t}
  /\ UNCHANGED <<consumed, pending, mode, locks, held, handler, job, issued,
                 accepted, decided, discarded, raced, torn, expired, stops>>

\* The graph stops at a sensitive call, when no other tool of this task is at
\* work; the checkpoint has the interrupt before _stream_agent sees it.
GraphInterrupts(j, a) ==
  LET t == job[j].thread
  IN  /\ At(j, {"working"}) /\ mode = "up"
      /\ late[t].own = 0
      /\ a \notin issued
      /\ issued' = issued \cup {a}
      /\ pending' = [pending EXCEPT ![t] = a]
      /\ raced' = IF \E h \in Runs : /\ handler[h].pc = "deciding"
                                     /\ handler[h].thread = t
                                     /\ handler[h].seen = None
                  THEN raced \cup {a} ELSE raced
      /\ Move(j, "interrupted")
      /\ UNCHANGED <<row, consumed, mode, locks, held, handler, late,
                     accepted, decided, discarded, torn, tardy, expired, stops>>

\* The threads a task has started go on without it.
LeavesThreads(t) ==
  late' = [late EXCEPT ![t] = [own |-> 0, left |-> late[t].own + late[t].left]]

\* The end of a task: leave the lock, release the lease.  The first form
\* forgets the lock.
EndJobHolding(j, r) ==
  LET t == job[j].thread
  IN  /\ SetRow(t, r)
      /\ Pool!Return(User, t)
      /\ LeavesThreads(t)
      /\ job' = [job EXCEPT ![j] = None]
      /\ tardy' = tardy \ {t}
      /\ UNCHANGED <<consumed, pending, mode, locks, handler, issued,
                     accepted, decided, discarded, raced, torn, expired, stops>>

EndJob(j, r) ==
  LET t == job[j].thread
  IN  /\ SetRow(t, r)
      /\ Lock!Leave(t)
      /\ Pool!Return(User, t)
      /\ LeavesThreads(t)
      /\ job' = [job EXCEPT ![j] = None]
      /\ tardy' = tardy \ {t}
      /\ UNCHANGED <<consumed, pending, mode, handler, issued, accepted,
                     decided, discarded, raced, torn, expired, stops>>

JobWaits(j) ==
  LET t == job[j].thread
  IN  /\ At(j, {"interrupted"}) /\ mode # "cancelling"
      /\ EndJob(j, Updated(
           AfterEvent(row[t], "waiting_for_approval", {pending[t]}),
           "waiting_for_approval", None, {pending[t]}, None))

JobCompletes(j) ==
  LET t == job[j].thread
  IN  /\ At(j, {"working"}) /\ mode # "cancelling"
      /\ late[t].own = 0
      /\ EndJob(j, Updated(AfterEvent(row[t], "task_result", {}),
                           "completed", "answer", {}, None))

\* An exception inside run_deep_agent becomes an error event and status.
JobErrors(j) ==
  LET t == job[j].thread
  IN  /\ At(j, LockedPcs) /\ mode # "cancelling"
      /\ EndJob(j, Updated(AfterEvent(row[t], "error", {}),
                           "error", "failure", {}, None))

\* One that escapes it (the workspace cannot be prepared) leaves the lock,
\* and is published, which awaits the delivery, before the lease is released.
JobRaises(j) ==
  LET t == job[j].thread
  IN  /\ At(j, {"entered"}) /\ mode # "cancelling"
      /\ SetRow(t, AfterEvent(row[t], "error", {}))
      /\ Lock!Leave(t)
      /\ Move(j, "failing")
      /\ UNCHANGED <<consumed, pending, mode, held, handler, late, history,
                     stops>>

JobEndsUnreleased(j) ==
  /\ At(j, {"failing"})
  /\ job' = [job EXCEPT ![j] = None]
  /\ UNCHANGED <<durable, mode, locks, held, handler, late, history, stops>>

JobReleased(j) ==
  /\ At(j, {"failing"})
  /\ Pool!Return(User, job[j].thread)
  /\ job' = [job EXCEPT ![j] = None]
  /\ UNCHANGED <<durable, mode, locks, handler, late, history, stops>>

-----------------------------------------------------------------------------
(* Stop, crash and restart.                                                 *)

\* The server waits for the requests in flight; then open_app_runtime is
\* left, first the checkpointer and then the tasks.
ShutdownBegins ==
  /\ mode = "up" /\ stops < MaxStops
  /\ \A h \in Handlers : handler[h].pc = "idle"
  /\ mode' = "closing"
  /\ stops' = stops + 1
  /\ UNCHANGED <<durable, locks, held, handler, job, late, history>>

\* TaskService.shutdown cancels every task and waits for all of them.
ShutdownCancels ==
  /\ mode = "closing"
  /\ mode' = "cancelling"
  /\ UNCHANGED <<durable, locks, held, handler, job, late, history, stops>>

\* Cancelled before its first step, a task never enters the try of _run.
CancelledUnstarted(j) ==
  /\ At(j, {"created"}) /\ mode = "cancelling"
  /\ job' = [job EXCEPT ![j] = None]
  /\ UNCHANGED <<durable, mode, locks, held, handler, late, history, stops>>

Interrupted(r) == Updated(r, "interrupted", "shutdown", None, None)

CancelledWaiting(j) ==
  LET t == job[j].thread
  IN  /\ At(j, {"locking"}) /\ mode = "cancelling"
      /\ Lock!GiveUp(j, t)
      /\ SetRow(t, Interrupted(row[t]))
      /\ Pool!Return(User, t)
      /\ job' = [job EXCEPT ![j] = None]
      /\ UNCHANGED <<consumed, pending, mode, handler, late, history, stops>>

CancelledInside(j) ==
  /\ At(j, LockedPcs) /\ mode = "cancelling"
  /\ EndJob(j, Interrupted(row[job[j].thread]))

Forgotten(T) ==
  /\ row' = [t \in Threads |-> IF t \in T THEN None ELSE row[t]]
  /\ consumed' = [t \in Threads |-> IF t \in T THEN {} ELSE consumed[t]]
  /\ expired' = expired \cup T

\* The process is gone, and its memory with it.
Down ==
  /\ mode' = "down"
  /\ owner' = [t \in Threads |-> None]
  /\ queue' = [t \in Threads |-> <<>>]
  /\ held' = {}
  /\ handler' = [h \in Handlers |-> Idle]
  /\ job' = [j \in Jobs |-> None]
  /\ late' = [t \in Threads |-> NoThreads]

\* The last steps of open_app_runtime: TaskStore.cleanup deletes rows (and
\* their consumed approvals) whose time has come, then the store closes.
Stopped(T) ==
  /\ mode = "cancelling" /\ LiveJobs = {}
  /\ \A t \in T : row[t] # None /\ row[t].status \in Disposable
  /\ Forgotten(T)
  /\ Down
  /\ UNCHANGED <<pending, issued, accepted, decided, discarded, raced, torn,
                 tardy, stops>>

CrashAllowed == mode # "down" /\ stops < MaxStops

Crash ==
  /\ CrashAllowed
  /\ Down
  /\ stops' = stops + 1
  /\ UNCHANGED <<durable, history>>

\* A crash between the two transactions of schedule.
CrashAfterConsume(h) ==
  LET t == handler[h].thread
      a == handler[h].approval
  IN  /\ CrashAllowed
      /\ handler[h].pc = "deciding"
      /\ MayConsume(h)
      /\ \A s \in held : s.thread # t
      /\ Consume(t, a)
      /\ torn' = torn \cup {t}
      /\ Down
      /\ stops' = stops + 1
      /\ UNCHANGED <<row, pending, issued, decided, discarded, raced, tardy,
                     expired>>

\* open_app_runtime of the next process: reconcile_incomplete.
Restart ==
  /\ mode = "down"
  /\ mode' = "up"
  /\ row' = [t \in Threads |-> IF row[t] = None THEN None
                                                ELSE Reconciled(row[t])]
  /\ tardy' = {}
  /\ UNCHANGED <<consumed, pending, locks, held, handler, job, late, issued,
                 accepted, decided, discarded, raced, torn, expired, stops>>

-----------------------------------------------------------------------------
RunSteps(h) ==
  \/ ReadsPending(h) \/ RunTurnedAway(h) \/ \E j \in Jobs : RunSchedules(h, j)

DeciderSteps(h) ==
  \/ DeciderGranted(h) \/ ReadsPending(h) \/ DeciderTurnedAway(h)
  \/ \E j \in Jobs : DeciderSchedules(h, j)

\* What a task does to come to its end, cancelled or not.
JobSteps(j) ==
  \/ JobEnters(j) \/ JobGranted(j)
  \/ GraphTakesMessage(j) \/ GraphTakesDecision(j) \/ GraphSavesDecision(j)
  \/ JobWaits(j) \/ JobCompletes(j) \/ JobErrors(j)
  \/ JobRaises(j) \/ JobReleased(j)
  \/ CancelledUnstarted(j) \/ CancelledWaiting(j) \/ CancelledInside(j)

Next ==
  \/ \E h \in Runs, t \in Threads : RunClaims(h, t)
  \/ \E h \in Deciders, t \in Threads, a \in ApprovalIds : DeciderEnters(h, t, a)
  \/ \E h \in Runs : RunSteps(h)
  \/ \E h \in Deciders : DeciderSteps(h) \/ CrashAfterConsume(h)
  \/ \E j \in Jobs :
       \/ JobSteps(j) \/ ToolStarts(j)
       \/ \E a \in ApprovalIds : GraphInterrupts(j, a)
  \/ \E t \in Threads : ToolReports(t)
  \/ ShutdownBegins \/ ShutdownCancels \/ Crash \/ Restart
  \/ \E T \in SUBSET Threads : Stopped(T)

Spec == Init /\ [][Next]_vars

\* The event loop runs whatever can run, requests get their answers from the
\* checkpointer, the agent stops (it has a recursion limit and its tools have
\* time limits), and a shutdown that has begun goes on.
FairSpec ==
  /\ Spec
  /\ \A h \in Runs : WF_vars(RunSteps(h))
  /\ \A h \in Deciders : WF_vars(DeciderSteps(h))
  /\ \A j \in Jobs : WF_vars(JobSteps(j))
  /\ WF_vars(ShutdownCancels)
  /\ WF_vars(\E T \in SUBSET Threads : Stopped(T))

-----------------------------------------------------------------------------
(* Properties.                                                              *)

\* The Tasks of a Thread run one after another, however requests, decisions,
\* failures and restarts interleave; the graph is only run by the task that
\* holds the thread's lock.
SequentialTasks ==
  /\ TypeOK
  /\ \A t \in Threads : \A i, j \in JobsOf(t) :
       /\ i = j
       /\ job[j].pc \in LockedPcs <=> owner[t] = j

\* While the process serves, a slot is in use exactly as long as a task of
\* that thread lives: none leaks on any path out of schedule or _run, and
\* none is given back early.
LeasesMatchTasks ==
  mode \in {"up", "closing"} =>
    held = {[user |-> User, thread |-> job[j].thread] : j \in LiveJobs}

\* An approval is accepted at most once, whatever decisions race for it and
\* wherever the process crashes, as long as the thread's row is kept (a cleanup
\* forgets what was consumed, CONTEXT.md's "at most once" with it); and the
\* graph is never given a decision nobody was told "accepted" for, nor one
\* meant for another approval.
AcceptedOnce ==
  \A a \in ApprovalIds :
    /\ expired = {} => accepted[a] <= 1
    /\ decided[a] <= accepted[a]

\* When nothing runs on a thread its row says so: no row is left started or
\* running by any end of a task, crash or restart, except by a tool that
\* reported its start after its task had ended.
RestingStatus ==
  mode = "up" =>
    \A t \in Threads : row[t] # None /\ JobsOf(t) = {} /\ t \notin tardy =>
      row[t].status \notin Incomplete

\* A row that says waiting_for_approval names the approval the graph waits
\* for, and nobody has consumed it, unless a crash fell into schedule.
Decidable(t) ==
  /\ row[t].approvals = {pending[t]}
  /\ pending[t] \notin consumed[t]
WaitingIsDecidable ==
  mode = "up" =>
    \A t \in Threads : row[t] # None /\ t \notin torn =>
      (row[t].status = "waiting_for_approval" => Decidable(t))

\* A new Task makes the graph forget an approval it waits for only when the
\* request had looked before the approval was asked for.
DiscardedOnlyByRace == discarded \subseteq raced

\* Every slot taken is given back, and every request answered.
SlotsReturn ==
  \A t \in Threads : LET slot == [user |-> User, thread |-> t]
                     IN  slot \in held ~> slot \notin held
RequestsEnd ==
  \A h \in Handlers : handler[h].pc # "idle" ~> handler[h].pc = "idle"

(* A claim of the documentation the code does not keep.                      *)

\* A Thread can be continued across requests and restarts: when no task
\* runs, the approval its graph waits for can still be decided.  (While one
\* is pending, run_task turns every new Task away.)
ThreadCanContinue ==
  mode = "up" =>
    \A t \in Threads : JobsOf(t) = {} => pending[t] \notin consumed[t]
=============================================================================
