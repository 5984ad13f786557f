------------------------------ MODULE TaskStore ------------------------------
(***************************************************************************)
(* api/task_store.py: TaskStore, the SQLite tables tasks, task_events and  *)
(* consumed_approvals.  Every method takes the RLock and runs in one       *)
(* transaction, so it is one action; a method that raises TaskNotFound     *)
(* rolls back and changes nothing.  A crash loses nothing but the process: *)
(* the next one opens the same tables and calls reconcile_incomplete.      *)
(*                                                                         *)
(* An event is its kind, the approvals a waiting_for_approval event        *)
(* carries, its encoded size, and its seq.  The query, created_at and the  *)
(* text of payloads are left out: nothing branches on them.                *)
(*                                                                         *)
(* create_task, claim_thread, set_status, reconcile_incomplete and cleanup *)
(* read the clock before they wait for the lock, so what they write or     *)
(* judge by may be older than what another call wrote meanwhile; the wait  *)
(* is bounded by MaxWait.  append_event reads it under the lock.           *)
(***************************************************************************)
EXTENDS TaskRow, Integers, Sequences, FiniteSets

CONSTANTS
  Threads, Owners, ApprovalIds,
  Kinds,                 \* the kinds of event recorded
  Sizes,                 \* their encoded sizes
  None,                  \* no row
  MaxEvents, MaxBytes,   \* retention limits
  TTL,                   \* ttl_seconds
  MaxWait,               \* bound: the longest a call waits for the lock
  MaxSeq, MaxTime        \* bounds: events per thread, and the clock

ValidLimits ==
  /\ {MaxEvents, MaxBytes, TTL} \subseteq Nat \ {0}
  /\ {MaxWait, MaxSeq, MaxTime} \subseteq Nat
  /\ Sizes \subseteq Nat
  /\ Kinds \subseteq EventKinds
ASSUME LimitsArePositive == ValidLimits

VARIABLES
  now,         \* the clock
  tasks,       \* table tasks: the row of a thread, or None
  events,      \* table task_events, in order of seq
  consumed,    \* table consumed_approvals
  log,         \* history: every event since the row was inserted
  lastEvent    \* history: when the last event was appended

vars == <<now, tasks, events, consumed, log, lastEvent>>

Row == [owner : Owners, status : Statuses, result : Results,
        approvals : SUBSET ApprovalIds, nextSeq : Nat, dropped : Nat,
        updatedAt : Nat]
Event == [kind : Kinds, approvals : SUBSET ApprovalIds, bytes : Sizes,
          seq : Nat]

ASSUME NoneIsNoValue == None \notin Row \cup Owners

TypeOK ==
  /\ now \in Nat
  /\ tasks \in [Threads -> Row \cup {None}]
  /\ events \in [Threads -> Seq(Event)]
  /\ consumed \in [Threads -> SUBSET ApprovalIds]
  /\ log \in [Threads -> Seq(Event)]
  /\ lastEvent \in [Threads -> Nat]

Init ==
  /\ now = 0
  /\ tasks = [t \in Threads |-> None]
  /\ events = [t \in Threads |-> <<>>]
  /\ consumed = [t \in Threads |-> {}]
  /\ log = [t \in Threads |-> <<>>]
  /\ lastEvent = [t \in Threads |-> 0]

Exists(t) == tasks[t] # None
eventVars == <<events, log, lastEvent>>

\* What a call may have read of the clock when its turn comes.
Readings == {at \in 0 .. now : now - at <= MaxWait}

-----------------------------------------------------------------------------
(* The event log.                                                           *)

Bytes(s) ==
  LET sum[i \in 0 .. Len(s)] == IF i = 0 THEN 0 ELSE sum[i - 1] + s[i].bytes
  IN  sum[Len(s)]

\* The loop of _trim_events stops when the rows fit; an event that is too
\* large by itself goes like any other.
Fits(s) == Len(s) <= MaxEvents /\ Bytes(s) <= MaxBytes

From(s, i) == SubSeq(s, i, Len(s))

\* How many of the oldest events _trim_events deletes: it goes on while what
\* is left does not fit.  The first form looks at their number alone.
ExcessByCount(s) == IF Len(s) > MaxEvents THEN Len(s) - MaxEvents ELSE 0
Excess(s) ==
  Cardinality({i \in 1 .. Len(s) : \A j \in 1 .. i : ~ Fits(From(s, j))})

Trim(s) == From(s, Excess(s) + 1)

\* get_task and replay, as a reader sees them.
FirstAvailable(t) ==
  IF events[t] = <<>> THEN tasks[t].nextSeq ELSE events[t][1].seq

\* The rows WHERE seq > after ORDER BY seq: the table is in that order, so
\* they are the last ones.
ReplayFrom(t, after) ==
  From(events[t], Cardinality({i \in DOMAIN events[t] : events[t][i].seq < after}) + 1)
Replay(t, after) ==
  From(events[t], Cardinality({i \in DOMAIN events[t] : events[t][i].seq <= after}) + 1)

\* The columns an append changes besides status, result and approvals; the
\* first form forgets that an event makes the row a recent one.
CountedOnly(row, seq, drops) ==
  [row EXCEPT !.nextSeq = seq + 1, !.dropped = @ + drops]
Counted(row, seq, drops) ==
  [row EXCEPT !.nextSeq = seq + 1, !.dropped = @ + drops, !.updatedAt = now]

AppendEvent(t, kind, approvals, bytes) ==
  LET seq == tasks[t].nextSeq
      e == [kind |-> kind, approvals |-> approvals, bytes |-> bytes,
            seq |-> seq]
      all == Append(events[t], e)
  IN  /\ Exists(t)
      /\ seq < MaxSeq
      /\ \A i \in DOMAIN events[t] : events[t][i].seq # seq   \* PRIMARY KEY
      /\ events' = [events EXCEPT ![t] = Trim(all)]
      /\ tasks' = [tasks EXCEPT ![t] =
           Counted(AfterEvent(@, kind, approvals), seq, Excess(all))]
      /\ log' = [log EXCEPT ![t] = Append(@, e)]
      /\ lastEvent' = [lastEvent EXCEPT ![t] = now]
      /\ UNCHANGED <<now, consumed>>

\* The data of an event: only waiting_for_approval carries approvals.
Carried(kind) == IF kind = "waiting_for_approval"
                 THEN (SUBSET ApprovalIds) \ {{}} ELSE {{}}

-----------------------------------------------------------------------------
(* Rows.                                                                    *)

NewRow(owner, status, at) ==
  [owner |-> owner, status |-> status, result |-> "", approvals |-> {},
   nextSeq |-> 0, dropped |-> 0, updatedAt |-> at]

OwnedOrNew(t, owner) == Exists(t) => tasks[t].owner = owner

RowRestarted(t, owner, at) == NewRow(owner, "started", at)
RowStarted(t, owner, at) ==
  IF Exists(t) THEN [Restarted(tasks[t]) EXCEPT !.updatedAt = at]
               ELSE NewRow(owner, "started", at)

CreateTask(t, owner, at) ==
  /\ OwnedOrNew(t, owner)
  /\ tasks' = [tasks EXCEPT ![t] = RowStarted(t, owner, at)]
  /\ UNCHANGED <<now, eventVars, consumed>>

\* claim_thread; on a row of the same owner it changes nothing.
ClaimThread(t, owner, at) ==
  /\ ~ Exists(t)
  /\ tasks' = [tasks EXCEPT ![t] = NewRow(owner, "idle", at)]
  /\ UNCHANGED <<now, eventVars, consumed>>

\* The calls of set_status in api/task_service.py.
StatusUpdates ==
  {[status |-> "started", result |-> None, approvals |-> {}],
   [status |-> "running", result |-> None, approvals |-> None],
   [status |-> "completed", result |-> "answer", approvals |-> {}],
   [status |-> "error", result |-> "failure", approvals |-> {}],
   [status |-> "interrupted", result |-> "shutdown", approvals |-> None]}
  \cup {[status |-> "waiting_for_approval", result |-> None, approvals |-> A] :
          A \in SUBSET ApprovalIds}

SetStatus(t, u, at) ==
  /\ Exists(t)
  /\ tasks' = [tasks EXCEPT ![t] =
       [Updated(@, u.status, u.result, u.approvals, None)
          EXCEPT !.updatedAt = at]]
  /\ UNCHANGED <<now, eventVars, consumed>>

\* consume_approval: INSERT OR IGNORE answers True when it inserted.  On a
\* thread without a row the foreign key makes it fail.
ConsumeApproval(t, a) ==
  /\ Exists(t)
  /\ a \notin consumed[t]
  /\ consumed' = [consumed EXCEPT ![t] = @ \cup {a}]
  /\ UNCHANGED <<now, tasks, eventVars>>

\* Deleting rows takes their events and consumed approvals with them
\* (ON DELETE CASCADE).
Delete(T) ==
  /\ tasks' = [t \in Threads |-> IF t \in T THEN None ELSE tasks[t]]
  /\ events' = [t \in Threads |-> IF t \in T THEN <<>> ELSE events[t]]
  /\ consumed' = [t \in Threads |-> IF t \in T THEN {} ELSE consumed[t]]
  /\ log' = [t \in Threads |-> IF t \in T THEN <<>> ELSE log[t]]
  /\ lastEvent' = [t \in Threads |-> IF t \in T THEN 0 ELSE lastEvent[t]]
  /\ UNCHANGED now

Stale(row, at) == row.updatedAt < at - TTL /\ row.status \in Disposable

Cleanup(at) == Delete({t \in Threads : Exists(t) /\ Stale(tasks[t], at)})

Clear == Delete(Threads)

\* reconcile_incomplete, when a process opens the store.
ReconcileIncomplete(at) ==
  /\ tasks' = [t \in Threads |->
       IF Exists(t) /\ tasks[t].status \in Incomplete
       THEN [Reconciled(tasks[t]) EXCEPT !.updatedAt = at] ELSE tasks[t]]
  /\ UNCHANGED <<now, eventVars, consumed>>

Tick ==
  /\ now < MaxTime
  /\ now' = now + 1
  /\ UNCHANGED <<tasks, eventVars, consumed>>

Next ==
  \/ \E t \in Threads, at \in Readings :
       \/ \E o \in Owners : CreateTask(t, o, at) \/ ClaimThread(t, o, at)
       \/ \E u \in StatusUpdates : SetStatus(t, u, at)
  \/ \E t \in Threads :
       \/ \E k \in Kinds, b \in Sizes : \E A \in Carried(k) :
            AppendEvent(t, k, A, b)
       \/ \E a \in ApprovalIds : ConsumeApproval(t, a)
  \/ \E at \in Readings : Cleanup(at) \/ ReconcileIncomplete(at)
  \/ Clear
  \/ Tick

Spec == Init /\ [][Next]_vars

-----------------------------------------------------------------------------
(* Properties.                                                              *)

\* The stored events are always the log without its oldest events, and the
\* counters say how many: event i has seq i - 1, next_seq is the length of
\* the log and dropped_events the number deleted, across any number of tasks
\* of the thread, reconciliations and trims.  What is kept is within the
\* limits, and no less than it can be: one event more would be too much.
LogIsWindow ==
  /\ TypeOK
  /\ \A t \in Threads :
       /\ \A i \in DOMAIN log[t] : log[t][i].seq = i - 1
       /\ Fits(events[t])
       /\ Exists(t) =>
            /\ tasks[t].nextSeq = Len(log[t])
            /\ tasks[t].dropped <= Len(log[t])
            /\ events[t] = From(log[t], tasks[t].dropped + 1)
            /\ tasks[t].dropped > 0 => ~ Fits(From(log[t], tasks[t].dropped))

\* A reader that has every event up to seq a and replays after a has the
\* whole log then, unless the answer shows it a gap: first_available_seq is
\* beyond a + 1.
ReplayCompletes ==
  \A t \in Threads : Exists(t) =>
    \A a \in -1 .. tasks[t].nextSeq - 1 :
      \/ FirstAvailable(t) > a + 1
      \/ SubSeq(log[t], 1, a + 1) \o Replay(t, a) = log[t]

\* A cleanup never takes the log of a thread that recorded an event within
\* the TTL, but for the wait of a call that stamps the row, after the event,
\* with a time it read before it; nor one that waits for an approval or has a
\* task under way.
RecentHistoryKept ==
  [][(\E at \in Readings : Cleanup(at)) => \A t \in Threads :
       Exists(t) /\ ~ Exists(t)' =>
         /\ log[t] # <<>> => now - lastEvent[t] > TTL - MaxWait
         /\ tasks[t].status \notin Incomplete \cup {"waiting_for_approval"}
    ]_vars

\* The tables implement the replay log with its owner and spent approvals.
AllEvents == [kind : Kinds, approvals : SUBSET ApprovalIds, bytes : Sizes,
              seq : 0 .. MaxSeq]

Replayable == INSTANCE ReplayLog WITH
  Events <- AllEvents,
  owner <- [t \in Threads |-> IF Exists(t) THEN tasks[t].owner ELSE None],
  first <- [t \in Threads |-> IF Exists(t) THEN tasks[t].dropped ELSE 0],
  spent <- consumed
IsReplayLog == Replayable!Spec
=============================================================================
