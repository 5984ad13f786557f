---------------------------- MODULE EventDelivery ----------------------------
(***************************************************************************)
(* How the Research Events of one Thread reach its WebSockets:             *)
(* ConnectionManager (api/monitor.py) and the socket session of            *)
(* api/server.py.  Every event is first appended to the store, which gives *)
(* it the next seq; an event is its seq here.  Three paths lead to the     *)
(* socket registered for the thread:                                       *)
(*   - publish: recorded and sent by the caller itself, which awaits it;   *)
(*   - publish_from_context on the event loop: recorded and put into a     *)
(*     bounded queue, which one worker empties, a send at a time;          *)
(*   - publish_from_context in a tool's thread: recorded there, and put    *)
(*     into the queue by a callback of the loop later.                     *)
(* A socket that registers is first sent what the store can replay, one    *)
(* awaited send at a time, while live events go on.  A frame is on its way *)
(* when its send starts; the sender goes on when the send has ended.  The  *)
(* registration, store.replay and the start of the first send are one step *)
(* of the loop: nothing is awaited between them.                           *)
(***************************************************************************)
EXTENDS Naturals, Sequences, FiniteSets, SequencesExt

CONSTANTS
  Sockets,       \* connections, each registered once
  Tools,         \* worker threads of tools
  Publishers,    \* coroutines that call publish
  Loop, None,
  QueueSize,     \* queue_size
  MaxEvents,     \* how many events the store keeps
  MaxSeq         \* bound: events recorded

ValidSizes ==
  /\ {QueueSize, MaxEvents} \subseteq Nat \ {0}
  /\ MaxSeq \in Nat
ASSUME SizesArePositive == ValidSizes

\* The worker of the loop is neither a tool's thread nor a publisher.
ASSUME NamesDiffer == Loop \notin Tools \cup Publishers

Sources == Tools \cup Publishers \cup {Loop}

VARIABLES
  source,      \* who recorded each event: the log, as far as it matters
  mode,        \* "up", "draining", "joined" or "stopped"
  queue,       \* _queue
  callbacks,   \* _enqueue calls the loop has been asked for
  toolEvent,   \* recorded by a tool thread, not yet handed to the loop
  sending,     \* what the worker (Loop) and each publisher are sending
  active,      \* active_connections: the socket of the thread, or None
  status,      \* "new", "replaying", "live", "gone" or "ended"
  rest,        \* what is left of a socket's replay
  received,    \* the frames a client was sent while it was connected
  live,        \* history: those that came through the queue
  since,       \* history: the first event the socket's replay had
  latest,      \* history: the socket registered last
  dropped      \* history: events the full queue turned away

logVars == <<source>>
pathVars == <<queue, callbacks, toolEvent, sending>>
socketVars == <<active, status, rest, received, live, since, latest>>
vars == <<logVars, mode, pathVars, socketVars, dropped>>

nextSeq == Len(source)
Seqs == 0 .. MaxSeq - 1
Statuses == {"new", "replaying", "live", "gone", "ended"}
Sends == [seq : Seqs, to : Sockets]
ASSUME NoneIsNoValue == None \notin Seqs \cup Sockets \cup Sends

TypeOK ==
  /\ source \in Seq(Sources) /\ nextSeq <= MaxSeq
  /\ mode \in {"up", "draining", "joined", "stopped"}
  /\ queue \in Seq(Seqs) /\ Len(queue) <= QueueSize
  /\ callbacks \in Seq(Seqs)
  /\ toolEvent \in [Tools -> Seqs \cup {None}]
  /\ sending \in [Publishers \cup {Loop} -> Sends \cup {None}]
  /\ active \in Sockets \cup {None}
  /\ status \in [Sockets -> Statuses]
  /\ rest \in [Sockets -> Seq(Seqs)]
  /\ received \in [Sockets -> Seq(Seqs)]
  /\ live \in [Sockets -> Seq(Seqs)]
  /\ since \in [Sockets -> 0 .. MaxSeq]
  /\ latest \in Sockets \cup {None}
  /\ dropped \subseteq Seqs

Init ==
  /\ source = <<>>
  /\ mode = "up"
  /\ queue = <<>> /\ callbacks = <<>>
  /\ toolEvent = [w \in Tools |-> None]
  /\ sending = [p \in Publishers \cup {Loop} |-> None]
  /\ active = None /\ latest = None
  /\ status = [s \in Sockets |-> "new"]
  /\ rest = [s \in Sockets |-> <<>>]
  /\ received = [s \in Sockets |-> <<>>]
  /\ live = [s \in Sockets |-> <<>>]
  /\ since = [s \in Sockets |-> 0]
  /\ dropped = {}

-----------------------------------------------------------------------------
(* Recording and queueing.                                                  *)

\* _record: store.append_event.
Record(who) ==
  /\ mode # "stopped"
  /\ nextSeq < MaxSeq
  /\ source' = Append(source, who)

\* _enqueue: put_nowait, or count a drop; nothing once stop took the queue.
DroppedUnseen(n) ==
  /\ queue' = IF Len(queue) < QueueSize THEN Append(queue, n) ELSE queue
  /\ UNCHANGED dropped
Enqueue(n) ==
  CASE mode = "stopped" -> UNCHANGED <<queue, dropped>>
    [] mode # "stopped" /\ Len(queue) < QueueSize ->
         queue' = Append(queue, n) /\ UNCHANGED dropped
    [] OTHER -> dropped' = dropped \cup {n} /\ UNCHANGED queue

LoopEmits ==
  /\ Record(Loop)
  /\ Enqueue(nextSeq)
  /\ UNCHANGED <<mode, callbacks, toolEvent, sending, socketVars>>

ToolRecords(w) ==
  /\ toolEvent[w] = None
  /\ Record(w)
  /\ toolEvent' = [toolEvent EXCEPT ![w] = nextSeq]
  /\ UNCHANGED <<mode, queue, callbacks, sending, socketVars, dropped>>

\* loop.call_soon_threadsafe; it fails when stop has taken the loop.  The
\* first form calls it twice.
ToolHandsOverTwice(w) ==
  /\ toolEvent[w] # None
  /\ callbacks' = callbacks \o <<toolEvent[w], toolEvent[w]>>
  /\ toolEvent' = [toolEvent EXCEPT ![w] = None]
  /\ UNCHANGED <<logVars, mode, queue, sending, socketVars, dropped>>

ToolHandsOver(w) ==
  /\ toolEvent[w] # None
  /\ callbacks' = IF mode = "stopped" THEN callbacks
                                      ELSE Append(callbacks, toolEvent[w])
  /\ toolEvent' = [toolEvent EXCEPT ![w] = None]
  /\ UNCHANGED <<logVars, mode, queue, sending, socketVars, dropped>>

\* The loop runs its callbacks in the order of the calls.  In the first form an
\* event the queue is full for is not dropped: the callback asks for itself
\* again.
CallbackRetries ==
  LET full == Len(queue) = QueueSize
  IN  /\ callbacks # <<>>
      /\ full => UNCHANGED <<queue, dropped>>
      /\ ~ full => Enqueue(Head(callbacks))
      /\ callbacks' = IF full THEN Append(Tail(callbacks), Head(callbacks))
                              ELSE Tail(callbacks)
      /\ UNCHANGED <<logVars, mode, toolEvent, sending, socketVars>>

CallbackRuns ==
  /\ callbacks # <<>>
  /\ Enqueue(Head(callbacks))
  /\ callbacks' = Tail(callbacks)
  /\ UNCHANGED <<logVars, mode, toolEvent, sending, socketVars>>

-----------------------------------------------------------------------------
(* _deliver.                                                                *)

Connected(s) == status[s] \in {"replaying", "live"}

\* The send starts, to the socket registered at this moment, if any.
StartSend(p, n) ==
  /\ sending' = IF active = None THEN sending
                ELSE [sending EXCEPT ![p] = [seq |-> n, to |-> active]]
  /\ received' = IF active # None /\ Connected(active)
                 THEN [received EXCEPT ![active] = Append(@, n)] ELSE received

\* publish.
Publish(p) ==
  /\ sending[p] = None
  /\ Record(p)
  /\ StartSend(p, nextSeq)
  /\ UNCHANGED <<mode, queue, callbacks, toolEvent, active, status, rest, live,
                 since, latest, dropped>>

\* queue.get, in order of arrival.
NextIn(q) == 1

WorkerTakes ==
  LET n == queue[NextIn(queue)]
  IN  /\ mode # "stopped"
      /\ sending[Loop] = None /\ queue # <<>>
      /\ queue' = RemoveAt(queue, NextIn(queue))
      /\ StartSend(Loop, n)
      /\ live' = IF active # None /\ Connected(active)
                 THEN [live EXCEPT ![active] = Append(@, n)] ELSE live
      /\ UNCHANGED <<logVars, mode, callbacks, toolEvent, active, status, rest,
                     since, latest, dropped>>

\* disconnect: only if the thread's socket is still this one.
RemovedAnyway(s) == None
Removed(s) == IF active = s THEN None ELSE active

\* The send ends; if the client is gone it has failed.  In the first form
\* the failure is not caught, and the sender is never heard of again.
SendEndsUncaught(p) ==
  /\ sending[p] # None
  /\ Connected(sending[p].to)
  /\ sending' = [sending EXCEPT ![p] = None]
  /\ UNCHANGED <<logVars, mode, queue, callbacks, toolEvent, socketVars, dropped>>

SendEnds(p) ==
  LET s == sending[p].to
  IN  /\ sending[p] # None
      /\ sending' = [sending EXCEPT ![p] = None]
      /\ active' = IF Connected(s) THEN active ELSE Removed(s)
      /\ UNCHANGED <<logVars, mode, queue, callbacks, toolEvent, status, rest,
                     received, live, since, latest, dropped>>

-----------------------------------------------------------------------------
(* A socket's session: register_authenticated, receive loop, disconnect.    *)

FirstAvailable == IF nextSeq > MaxEvents THEN nextSeq - MaxEvents ELSE 0

\* The events of store.replay.
Replay == [i \in 1 .. nextSeq - FirstAvailable |-> FirstAvailable + i - 1]

Registered(s) == s

\* The socket is registered and the send of the first event starts, if there
\* is one.
Register(s) ==
  /\ mode # "stopped"
  /\ status[s] = "new"
  /\ active' = Registered(s)
  /\ latest' = s
  /\ since' = [since EXCEPT ![s] = FirstAvailable]
  /\ IF Replay = <<>>
     THEN /\ status' = [status EXCEPT ![s] = "live"]
          /\ rest' = [rest EXCEPT ![s] = <<>>]
          /\ UNCHANGED received
     ELSE /\ status' = [status EXCEPT ![s] = "replaying"]
          /\ received' = [received EXCEPT ![s] = Append(@, Head(Replay))]
          /\ rest' = [rest EXCEPT ![s] = Tail(Replay)]
  /\ UNCHANGED <<logVars, mode, pathVars, live, dropped>>

\* A send of the replay has ended, and the next one starts.
ReplaysOne(s) ==
  /\ status[s] = "replaying" /\ rest[s] # <<>>
  /\ received' = [received EXCEPT ![s] = Append(@, Head(rest[s]))]
  /\ rest' = [rest EXCEPT ![s] = Tail(@)]
  /\ UNCHANGED <<logVars, mode, pathVars, active, status, live, since, latest,
                 dropped>>

\* The last one has ended.
GoesLive(s) ==
  /\ status[s] = "replaying" /\ rest[s] = <<>>
  /\ status' = [status EXCEPT ![s] = "live"]
  /\ UNCHANGED <<logVars, mode, pathVars, active, rest, received, live, since,
                 latest, dropped>>

\* The client leaves, its connection breaks, or its token expires.
ClientGone(s) ==
  /\ Connected(s)
  /\ status' = [status EXCEPT ![s] = "gone"]
  /\ UNCHANGED <<logVars, mode, pathVars, active, rest, received, live, since,
                 latest, dropped>>

\* The endpoint notices; its finally clause disconnects.
SessionEnds(s) ==
  /\ status[s] = "gone"
  /\ status' = [status EXCEPT ![s] = "ended"]
  /\ active' = Removed(s)
  /\ UNCHANGED <<logVars, mode, pathVars, rest, received, live, since, latest,
                 dropped>>

-----------------------------------------------------------------------------
(* stop: drain, cancel the worker, forget everything.                       *)

StopBegins ==
  /\ mode = "up"
  /\ mode' = "draining"
  /\ UNCHANGED <<logVars, pathVars, socketVars, dropped>>

\* queue.join returns when every item put has been delivered.
Joined ==
  /\ mode = "draining"
  /\ queue = <<>> /\ sending[Loop] = None
  /\ mode' = "joined"
  /\ UNCHANGED <<logVars, pathVars, socketVars, dropped>>

Stopped ==
  /\ mode = "joined"
  /\ mode' = "stopped"
  /\ queue' = <<>>
  /\ sending' = [sending EXCEPT ![Loop] = None]
  /\ active' = None
  /\ UNCHANGED <<logVars, callbacks, toolEvent, status, rest, received, live,
                 since, latest, dropped>>

\* What the server does by itself, and what the sockets' endpoints do.
Delivery ==
  \/ LoopEmits \/ CallbackRuns \/ WorkerTakes
  \/ \E w \in Tools : ToolRecords(w) \/ ToolHandsOver(w)
  \/ \E p \in Publishers : Publish(p)
  \/ \E p \in Publishers \cup {Loop} : SendEnds(p)
  \/ \E s \in Sockets : ReplaysOne(s) \/ GoesLive(s)
  \/ StopBegins \/ Joined \/ Stopped

Next ==
  \/ Delivery
  \/ \E s \in Sockets : Register(s) \/ ClientGone(s) \/ SessionEnds(s)

Spec == Init /\ [][Next]_vars

-----------------------------------------------------------------------------
(* Properties.                                                              *)

InFlight ==
  ToSet(queue) \cup ToSet(callbacks) \cup
  ({toolEvent[w] : w \in Tools} \ {None})

\* A socket that is registered misses nothing: each event from the first of
\* its replay on was sent to it, is still to be replayed to it, is on its way,
\* or was turned away by the full queue and counted.
NothingMissed ==
  /\ TypeOK
  /\ \A s \in Sockets : active = s /\ Connected(s) =>
       since[s] .. nextSeq - 1 \subseteq
         ToSet(received[s]) \cup ToSet(rest[s]) \cup InFlight \cup dropped

\* The socket that registered last stays the thread's socket as long as its
\* client is there: no failing send to an older one and no ending session
\* takes its registration away.
LatestStaysActive ==
  mode # "stopped" /\ latest # None /\ Connected(latest) => active = latest

\* Whatever a reconnect overlaps with, a client gets no event more than
\* twice: once live, once replayed.
AtMostTwice ==
  \A s \in Sockets : \A n \in Seqs :
    Cardinality({i \in DOMAIN received[s] : received[s][i] = n}) <= 2

\* Events of one origin, the loop or one tool thread, come through the queue
\* in the order in which they were recorded.
OrderedPerSource ==
  \A s \in Sockets : \A i, j \in DOMAIN live[s] :
    i < j /\ source[live[s][i] + 1] = source[live[s][j] + 1]
      => live[s][i] < live[s][j]

(* A claim of the documentation the code does not keep.                     *)

\* After a reconnect the events are replayed in order: as long as an event is
\* still to be replayed to a client, it was sent none that is newer.
ReplayedInOrder ==
  \A s \in Sockets : status[s] = "replaying" =>
    \A n \in ToSet(received[s]), m \in ToSet(rest[s]) : n <= m
=============================================================================
