------------------------------ MODULE WebClient ------------------------------
(***************************************************************************)
(* static/index.html: the page of one Thread, as a state machine over its  *)
(* login, its WebSocket, its requests and the Research Events it is sent.  *)
(* Every listener and every continuation after an await is one action.     *)
(* The server is reduced to what the page can tell: the task that runs, the*)
(* interrupt in the checkpoint, the log of the events that change the      *)
(* page's state, and the socket that events go to.  A new socket is sent   *)
(* auth_ok and the whole log (what else may happen there, and the stops of *)
(* the server, are in EventDelivery and TaskService).  A request may be    *)
(* lost, so may its answer, and the token may expire at any time, which    *)
(* shows as an answer 401 or a socket closed with 1008.                    *)
(***************************************************************************)
EXTENDS Naturals, Sequences, FiniteSets

CONSTANTS
  Conns,                     \* WebSocket objects
  Submits,                   \* runs of the submit listener of the query form
  Reconnect, Decide, Login,  \* a run of the other asynchronous listeners
  None,
  MaxLog,                    \* bound: events, and ends without one
  MaxLogins                  \* bound: logins, of which one is under way

ASSUME BoundsAreNumbers == {MaxLog, MaxLogins} \subseteq Nat
ASSUME NamesDiffer ==
  /\ None \notin Conns \cup 1 .. MaxLog
  /\ Submits \cap {Reconnect, Decide, Login} = {}
  /\ Cardinality({Reconnect, Decide, Login}) = 3

Calls == Submits \cup {Reconnect, Decide, Login}

VARIABLES
  page,       \* the object state, and whether the approval buttons are enabled
  conn,       \* the life of each WebSocket
  call,       \* asynchronous listeners: what each waits for
  run,        \* the server: the task, if any, and how far it has resumed
  pending,    \* the server: the approval in the checkpoint, or None
  log,        \* the server: the state events
  registered, \* the server: the socket events go to
  wire,       \* messages on their way to each socket
  seen,       \* history: how far in the log the page has ever been
  slips,      \* history: the races below that the page has lost
  logins

server == <<run, pending, log, registered>>
history == <<seen, slips, logins>>
vars == <<page, conn, call, server, wire, history>>

Tasks == {"idle", "submitting", "running", "completed",
          "waiting_for_approval", "error"}
Active == {"submitting", "running"}
Ids == 1 .. MaxLog      \* an approval is named by the place of its event
Event == [kind : {"result", "error", "resumed"}, id : {None}]
           \cup [kind : {"asks"}, id : Ids]
Ev(kind, id) == [kind |-> kind, id |-> id]
AuthOk == Ev("auth_ok", None)

\* overtaken: an answer was handled after newer events; stranded: a
\* submission failed in the middle of a login, whose catch clause then does
\* nothing; crossed: the late close of an old socket took away the promise
\* of a newer one, or told the page, which has a newer one, that it is
\* disconnected; stray: an event came by such a second socket; silent: the
\* last Task has ended without an event.
Slips == {"overtaken", "stranded", "crossed", "stray", "silent"}
Slip(name, happens) == slips' = IF happens THEN slips \cup {name} ELSE slips

TypeOK ==
  /\ page \in [auth : {"signed_out", "authenticating", "authenticated"},
               token : BOOLEAN,
               connection : {"idle", "connecting", "authenticating", "ready",
                             "disconnected"},
               task : Tasks, approval : Ids \cup {None}, buttons : BOOLEAN,
               websocket : Conns \cup {None}, promise : Conns \cup {None}]
  /\ page.auth = "authenticated" => page.token
  /\ conn \in [Conns -> {"unused", "connecting", "authenticating", "open",
                         "closing", "closed"}]
  /\ call \in [Calls -> [pc : {"none", "connecting", "asked", "answered"},
                         on : Conns \cup {None}, approval : Ids \cup {None},
                         answer : {"none", "ok", "refused", "expired", "failed"}]]
  /\ run \in {"none", "resuming", "taking", "working"}
  /\ pending \in Ids \cup {None}
  /\ log \in Seq(Event) /\ Len(log) <= MaxLog
  /\ registered \in Conns \cup {None}
  /\ wire \in [Conns -> Seq(Event \cup {AuthOk})]
  /\ seen \in 0 .. MaxLog
  /\ slips \subseteq Slips
  /\ logins \in 0 .. MaxLogins

NoCall == [pc |-> "none", on |-> None, approval |-> None, answer |-> "none"]

\* A page loaded with a token in sessionStorage.
Loaded == [auth |-> "authenticated", token |-> TRUE, connection |-> "idle",
           task |-> "idle", approval |-> None, buttons |-> TRUE,
           websocket |-> None, promise |-> None]

Init ==
  /\ page = Loaded
  /\ conn = [c \in Conns |-> "unused"]
  /\ call = [h \in Calls |-> NoCall]
  /\ run = "none" /\ pending = None /\ log = <<>> /\ registered = None
  /\ wire = [c \in Conns |-> <<>>]
  /\ seen = 0 /\ slips = {} /\ logins = 0

-----------------------------------------------------------------------------
(* The functions that change the page's state.                              *)

\* closeCurrentSocket, for the page and for its sockets.
WithoutSocket(p) == [p EXCEPT !.websocket = None, !.promise = None]
SocketClosed(p) ==
  IF p.websocket = None THEN conn
                        ELSE [conn EXCEPT ![p.websocket] = "closing"]

\* clearSession; the first form forgets the task.
ClearedButTask(p) ==
  WithoutSocket([p EXCEPT !.auth = "signed_out", !.token = FALSE,
                          !.connection = "idle"])
Cleared(p) ==
  WithoutSocket([p EXCEPT !.auth = "signed_out", !.token = FALSE,
                          !.connection = "idle",
                          !.task = IF @ \in Active THEN "error" ELSE @])

\* A new token; the first form forgets that the socket is gone.
LoggedInAsBefore(p) ==
  WithoutSocket([p EXCEPT !.token = TRUE, !.auth = "authenticated"])
LoggedIn(p) ==
  WithoutSocket([p EXCEPT !.token = TRUE, !.auth = "authenticated",
                          !.connection = "idle"])

\* The catch clause of a submission.
Failed(p) == IF p.auth = "authenticated" THEN [p EXCEPT !.task = "error"] ELSE p
Strands(p) == p.auth # "authenticated" /\ p.task = "submitting"

\* handleMonitorEvent and renderApproval.
ResumedKeepsCard(p, e) ==
  CASE e.kind = "asks" ->
         [p EXCEPT !.approval = e.id, !.task = "waiting_for_approval"]
    [] e.kind = "resumed" -> [p EXCEPT !.task = "running"]
    [] e.kind = "result" -> [p EXCEPT !.task = "completed"]
    [] e.kind = "error" -> [p EXCEPT !.task = "error"]
Handled(p, e) ==
  CASE e.kind = "asks" ->
         [p EXCEPT !.approval = e.id, !.task = "waiting_for_approval"]
    [] e.kind = "resumed" -> [p EXCEPT !.approval = None, !.task = "running"]
    [] e.kind = "result" -> [p EXCEPT !.task = "completed"]
    [] e.kind = "error" -> [p EXCEPT !.task = "error"]

\* Who waits for the promise of a socket.
Waiting(c) == {h \in Calls : call[h].pc = "connecting" /\ call[h].on = c}
Asked(id) == [NoCall EXCEPT !.pc = "asked", !.approval = id]

-----------------------------------------------------------------------------
(* getWebSocket, called by h on the page p: use the socket that is ready,   *)
(* wait for the promise there is, or open a new socket.                     *)

SocketReady(p) ==
  p.websocket # None /\ conn[p.websocket] = "open" /\ p.connection = "ready"

SharesPromise(p) == p.promise # None

GetWebSocket(h, p) ==
  \/ /\ SocketReady(p)
     /\ page' = p
     /\ call' = [call EXCEPT ![h] = Asked(None)]
     /\ UNCHANGED conn
  \/ /\ ~ SocketReady(p) /\ SharesPromise(p)
     /\ page' = p
     /\ call' = [call EXCEPT ![h] = [NoCall EXCEPT !.pc = "connecting",
                                                   !.on = p.promise]]
     /\ UNCHANGED conn
  \/ /\ ~ SocketReady(p) /\ ~ SharesPromise(p)
     /\ \E c \in Conns :
          /\ conn[c] = "unused"
          /\ conn' = [conn EXCEPT ![c] = "connecting"]
          /\ page' = [p EXCEPT !.websocket = c, !.promise = c,
                               !.connection = "connecting"]
          /\ call' = [call EXCEPT ![h] = [NoCall EXCEPT !.pc = "connecting",
                                                        !.on = c]]

\* The submit listener of the query form.
MaySubmit(p) == p.task \notin Active /\ p.token
Submit(h) ==
  /\ call[h].pc = "none"
  /\ MaySubmit(page)
  /\ GetWebSocket(h, [page EXCEPT !.task = "submitting"])
  /\ UNCHANGED <<server, wire, history>>

\* The reconnect button, shown only when the connection was lost.
Reconnects ==
  /\ call[Reconnect].pc = "none"
  /\ page.auth = "authenticated" /\ page.token
  /\ page.connection = "disconnected"
  /\ GetWebSocket(Reconnect, page)
  /\ UNCHANGED <<server, wire, history>>

\* submitApproval.
Decides ==
  /\ call[Decide].pc = "none"
  /\ page.approval # None /\ page.token /\ page.buttons
  /\ page' = [page EXCEPT !.buttons = FALSE]
  /\ call' = [call EXCEPT ![Decide] = Asked(page.approval)]
  /\ UNCHANGED <<conn, server, wire, history>>

\* The submit listener of the login form.  One login at a time is a bound: a
\* clearSession in the middle of one enables the button again, so that two may
\* be under way in the code.
LogsIn ==
  /\ call[Login].pc = "none" /\ page.auth # "authenticating"
  /\ logins < MaxLogins
  /\ logins' = logins + 1
  /\ page' = [page EXCEPT !.auth = "authenticating"]
  /\ call' = [call EXCEPT ![Login] = Asked(None)]
  /\ UNCHANGED <<conn, server, wire, seen, slips>>

-----------------------------------------------------------------------------
(* The listeners of a WebSocket.                                            *)

Opens(c) ==
  /\ conn[c] = "connecting"
  /\ conn' = [conn EXCEPT ![c] = "authenticating"]
  /\ page' = [page EXCEPT !.connection = "authenticating"]
  /\ UNCHANGED <<call, server, wire, history>>

\* auth_ok resolves the promise: whoever waits sends its request.
Authenticated(c) ==
  /\ conn[c] = "authenticating"
  /\ wire[c] # <<>> /\ Head(wire[c]) = AuthOk
  /\ wire' = [wire EXCEPT ![c] = Tail(@)]
  /\ conn' = [conn EXCEPT ![c] = "open"]
  /\ page' = [page EXCEPT !.connection = "ready", !.promise = None]
  /\ call' = [h \in Calls |-> IF h \in Waiting(c) THEN Asked(None) ELSE call[h]]
  /\ UNCHANGED <<server, history>>

\* Where in the log the next event on the wire of c is: events are sent in
\* the order of the log, up to its end.
Position(c) == Len(log) - Len(wire[c]) + 1

IsCurrent(p, c) == p.websocket = c

Receives(c) ==
  /\ conn[c] = "open"
  /\ wire[c] # <<>>
  /\ wire' = [wire EXCEPT ![c] = Tail(@)]
  /\ page' = Handled(page, Head(wire[c]))
  /\ seen' = IF Position(c) > seen THEN Position(c) ELSE seen
  /\ Slip("stray", ~ IsCurrent(page, c))
  /\ UNCHANGED <<conn, call, server, logins>>

\* The close event.  Only the current socket's tells the page something; a
\* promise that is not settled is rejected, and its waiters go on to their
\* catch clauses when the listener is done.
AfterClose(c, expired) ==
  LET p == [page EXCEPT !.promise = None,
                        !.websocket = IF @ = c THEN None ELSE @]
  IN  IF ~ IsCurrent(page, c) THEN p
      ELSE IF expired THEN Cleared(p)
      ELSE IF p.auth = "authenticated"
           THEN [p EXCEPT !.connection = "disconnected"] ELSE p

Rejected(c, p) ==
  LET q == IF Waiting(c) \cap Submits # {} THEN Failed(p) ELSE p
  IN  IF Reconnect \in Waiting(c) /\ q.auth = "authenticated"
      THEN [q EXCEPT !.connection = "disconnected"] ELSE q

\* The close of c takes the promise of another socket, or its error reaches the
\* reconnect listener of a page that has another one.
Crosses(c, p) ==
  \/ page.promise \notin {None, c}
  \/ Reconnect \in Waiting(c) /\ p.auth = "authenticated" /\ p.websocket # None

Closes(c, expired) ==
  /\ conn[c] \in {"connecting", "authenticating", "open", "closing"}
  /\ expired => conn[c] \in {"authenticating", "open"}
  /\ conn' = [conn EXCEPT ![c] = "closed"]
  /\ page' = Rejected(c, AfterClose(c, expired))
  /\ call' = [h \in Calls |-> IF h \in Waiting(c) THEN NoCall ELSE call[h]]
  /\ slips' = slips
       \cup {s \in {"stranded"} : Waiting(c) \cap Submits # {}
                                    /\ Strands(AfterClose(c, expired))}
       \cup {s \in {"crossed"} : Crosses(c, AfterClose(c, expired))}
  /\ registered' = IF registered = c THEN None ELSE registered
  /\ wire' = [wire EXCEPT ![c] = <<>>]
  /\ UNCHANGED <<run, pending, log, seen, logins>>

-----------------------------------------------------------------------------
(* The answers.                                                             *)

Answered(h) == call[h].pc = "answered"
Answer(h) == call[h].answer
Done(h) == call' = [call EXCEPT ![h] = NoCall]

\* A submission has its answer: only "submitting" becomes "running".
RunningAnyway(p) == [p EXCEPT !.task = "running"]
Launched(p) == IF p.task = "submitting" THEN [p EXCEPT !.task = "running"] ELSE p

SubmitAnswered(h) ==
  /\ Answered(h)
  /\ Done(h)
  /\ page' = CASE Answer(h) = "ok" -> Launched(page)
               [] Answer(h) = "expired" -> Cleared(page)
               [] OTHER -> Failed(page)
  /\ conn' = IF Answer(h) = "expired" THEN SocketClosed(page) ELSE conn
  /\ Slip("stranded", Answer(h) \in {"refused", "failed"} /\ Strands(page))
  /\ UNCHANGED <<server, wire, seen, logins>>

DecisionAnswered ==
  /\ Answered(Decide)
  /\ Done(Decide)
  /\ page' = CASE Answer(Decide) = "ok" ->
                    [page EXCEPT !.approval = None, !.task = "running"]
               [] Answer(Decide) = "expired" -> Cleared(page)
               [] OTHER -> [page EXCEPT !.buttons = TRUE]
  /\ conn' = IF Answer(Decide) = "expired" THEN SocketClosed(page) ELSE conn
  /\ Slip("overtaken", Answer(Decide) = "ok" /\ seen > call[Decide].approval + 1)
  /\ UNCHANGED <<server, wire, seen, logins>>

\* refreshApproval, after a reconnect; any answer but an approval is ignored.
RefreshAnswered ==
  /\ Answered(Reconnect)
  /\ Done(Reconnect)
  /\ LET id == call[Reconnect].approval
     IN  IF Answer(Reconnect) = "ok" /\ id # None
         THEN /\ page' = Handled(page, Ev("asks", id))
              /\ Slip("overtaken", seen > id)
         ELSE UNCHANGED <<page, slips>>
  /\ UNCHANGED <<conn, server, wire, seen, logins>>

LoginAnswered ==
  /\ Answered(Login)
  /\ Done(Login)
  /\ page' = IF Answer(Login) = "ok" THEN LoggedIn(page) ELSE Cleared(page)
  /\ conn' = SocketClosed(page)
  /\ UNCHANGED <<server, wire, seen, slips, logins>>

\* The page is loaded again; its sockets and requests are gone.
Reload ==
  /\ page.token
  /\ page' = Loaded
  /\ conn' = [c \in Conns |-> IF conn[c] = "unused" THEN "unused" ELSE "closed"]
  /\ call' = [h \in Calls |-> NoCall]
  /\ registered' = None
  /\ wire' = [c \in Conns |-> <<>>]
  /\ slips' = slips \cap {"silent"} /\ seen' = 0
  /\ UNCHANGED <<run, pending, log, logins>>

-----------------------------------------------------------------------------
(* The server and the network.                                              *)

Listening(c) == conn[c] \in {"authenticating", "open"}

Authenticates(c) ==
  /\ conn[c] = "authenticating" /\ wire[c] = <<>>
  /\ registered' = c
  /\ wire' = [wire EXCEPT ![c] = <<AuthOk>> \o log]
  /\ UNCHANGED <<page, conn, call, run, pending, log, history>>

\* A silent end (below) takes the place of an event in the bound.
Happened == Len(log) + (IF "silent" \in slips THEN 1 ELSE 0)
Publish(e) ==
  /\ Happened < MaxLog
  /\ log' = Append(log, e)
  /\ wire' = IF registered # None /\ Listening(registered)
             THEN [wire EXCEPT ![registered] = Append(@, e)] ELSE wire

TaskEnds ==
  /\ run = "working"
  /\ Publish(Ev("result", None)) \/ Publish(Ev("error", None))
  /\ run' = "none"
  /\ slips' = slips \ {"silent"}
  /\ UNCHANGED <<page, conn, call, pending, registered, seen, logins>>

\* The model's last message has no text: the stream ends without an event.
TaskEndsSilently ==
  /\ run = "working" /\ Happened < MaxLog
  /\ run' = "none"
  /\ Slip("silent", TRUE)
  /\ UNCHANGED <<page, conn, call, pending, log, registered, wire, seen, logins>>

TaskAsks ==
  /\ run = "working"
  /\ Publish(Ev("asks", Len(log) + 1))
  /\ pending' = Len(log) + 1
  /\ run' = "none"
  /\ UNCHANGED <<page, conn, call, registered, history>>

\* The event approval_resumed or approval_rejected.
TaskResumes ==
  /\ run = "resuming"
  /\ Publish(Ev("resumed", None))
  /\ run' = "taking"
  /\ UNCHANGED <<page, conn, call, pending, registered, history>>

\* The graph has taken the decision; the checkpoint forgets the interrupt.
TaskTakes ==
  /\ run = "taking"
  /\ run' = "working" /\ pending' = None
  /\ UNCHANGED <<page, conn, call, log, registered, wire, history>>

Reply(h, answer) ==
  /\ call[h].pc = "asked"
  /\ call' = [call EXCEPT ![h].pc = "answered", ![h].answer = answer]
  /\ UNCHANGED <<page, conn, log, registered, wire, history>>

ServesSubmit(h) ==
  IF run = "none" /\ pending = None
  THEN Reply(h, "ok") /\ run' = "working" /\ UNCHANGED pending
  ELSE Reply(h, "refused") /\ UNCHANGED <<run, pending>>

\* Behind the thread's lock: accepted, or already_processed.
ServesDecision ==
  /\ run = "none"
  /\ Reply(Decide, "ok")
  /\ run' = IF pending = call[Decide].approval THEN "resuming" ELSE "none"
  /\ UNCHANGED pending

\* From the checkpoint, whether or not the approval has been decided.
ServesRefresh ==
  /\ call[Reconnect].pc = "asked"
  /\ call' = [call EXCEPT ![Reconnect] =
                [@ EXCEPT !.pc = "answered", !.answer = "ok", !.approval = pending]]
  /\ UNCHANGED <<page, conn, server, wire, history>>

ServesLogin == Reply(Login, "ok") /\ UNCHANGED <<run, pending>>

\* No token, an invalid one or an expired one (wrong credentials, for the login):
\* 401.  No settings to check it against, or the request lost on its way: failed.
TurnsAway(h) ==
  /\ \E answer \in {"expired", "failed"} : Reply(h, answer)
  /\ UNCHANGED <<run, pending>>

LosesAnswer(h) ==
  /\ Answered(h)
  /\ call' = [call EXCEPT ![h].answer = "failed"]
  /\ UNCHANGED <<page, conn, server, wire, history>>

Next ==
  \/ \E h \in Submits : Submit(h) \/ SubmitAnswered(h) \/ ServesSubmit(h)
  \/ Reconnects \/ Decides \/ LogsIn \/ Reload
  \/ \E c \in Conns :
       \/ Opens(c) \/ Authenticates(c) \/ Authenticated(c) \/ Receives(c)
       \/ \E expired \in BOOLEAN : Closes(c, expired)
  \/ DecisionAnswered \/ RefreshAnswered \/ LoginAnswered
  \/ TaskEnds \/ TaskEndsSilently \/ TaskAsks \/ TaskResumes \/ TaskTakes
  \/ ServesDecision \/ ServesRefresh \/ ServesLogin
  \/ \E h \in Calls : TurnsAway(h) \/ LosesAnswer(h)

Spec == Init /\ [][Next]_vars

-----------------------------------------------------------------------------
(* Properties.                                                              *)

\* The page is connected, has been told everything, and waits for nothing.
Quiet ==
  /\ page.auth = "authenticated" /\ page.websocket = registered
  /\ registered # None /\ conn[registered] = "open"
  /\ wire[registered] = <<>>
  /\ \A h \in Calls : call[h].pc = "none"

\* When everything has arrived, the card shows an approval exactly when the
\* server waits for one, and that one, after any sequence of replays, lost
\* answers, logins and closes, unless an answer was overtaken by events, or
\* some came by a second socket.
Awaited == IF run = "none" THEN pending ELSE None
CardAgrees ==
  /\ TypeOK
  /\ Quiet /\ {"overtaken", "stray"} \cap slips = {} /\ run # "resuming" =>
       page.approval = Awaited

\* A page that is told everything is not left "running" by a task that has
\* ended, unless it ended with an empty answer, of which nothing is told.
NotLeftRunning ==
  Quiet /\ run = "none" /\ {"overtaken", "stray", "silent"} \cap slips = {}
    => page.task # "running"

\* "submitting" means that a request is under way: a failure on any path
\* ends it, except one that meets a login in progress.
SubmittingIsUnderWay ==
  page.task = "submitting" /\ "stranded" \notin slips =>
    \E h \in Submits : call[h].pc # "none"

\* A page that takes itself for connected is: its socket is open, and no
\* other socket of the page is.
ReadyMeansConnected ==
  page.connection = "ready" /\ page.auth = "authenticated"
    /\ "crossed" \notin slips =>
    /\ page.websocket # None /\ conn[page.websocket] = "open"
    /\ \A c \in Conns : conn[c] = "open" => c = page.websocket

(* A claim of the page the code does not keep.                              *)

\* Reconnecting restores the progress of the session: a replay, to its end,
\* of events the page has seen before leaves a task "running" that is.
ReconnectRestores ==
  [][\A c \in Conns :
       /\ Receives(c) /\ Position(c) = Len(log) /\ Position(c) <= seen
       /\ page.task = "running" /\ run = "working"
       => page'.task = "running"]_vars
=============================================================================
