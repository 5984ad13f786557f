---------------------------- MODULE WebClientProofs ----------------------------
(***************************************************************************)
(* Theorems about WebClient, for any number of sockets and submissions and *)
(* any bounds: when everything has arrived the card shows what the server  *)
(* waits for and the page is not left "running"; what it shows as          *)
(* submitting is under way, and what it shows as connected is.             *)
(***************************************************************************)
EXTENDS WebClient, FiniteSetTheorems, SequenceTheorems, TLAPS

-----------------------------------------------------------------------------
(* Sequences.                                                               *)

\* A message at the end.
LEMMA AppendFacts ==
  ASSUME NEW S, NEW q \in Seq(S), NEW e \in S
  PROVE  /\ Append(q, e) \in Seq(S) /\ Len(Append(q, e)) = Len(q) + 1
         /\ Len(q) \in Nat /\ DOMAIN q = 1 .. Len(q)
         /\ DOMAIN Append(q, e) = 1 .. Len(q) + 1
         /\ Append(q, e)[Len(q) + 1] = e
         /\ \A i \in 1 .. Len(q) : Append(q, e)[i] = q[i]
         /\ Append(q, e) # <<>>
  <1> DEFINE a == Append(q, e)
  <1>1. /\ a \in Seq(S) /\ Len(a) = Len(q) + 1 /\ a[Len(q) + 1] = e
        /\ \A i \in 1 .. Len(q) : a[i] = q[i]
    BY AppendProperties
  <1> HIDE DEF a
  <1>2. DOMAIN a = 1 .. Len(q) + 1 /\ DOMAIN q = 1 .. Len(q) /\ Len(q) \in Nat
    BY <1>1, LenProperties
  <1>3. a # <<>>
    BY <1>1, <1>2, EmptySeq
  <1>4. QED
    BY <1>1, <1>2, <1>3 DEF a

\* The first message gone.
LEMMA TailFacts ==
  ASSUME NEW S, NEW q \in Seq(S), q # <<>>
  PROVE  /\ Tail(q) \in Seq(S) /\ Len(Tail(q)) = Len(q) - 1
         /\ Len(q) \in Nat /\ Len(q) > 0
         /\ DOMAIN q = 1 .. Len(q) /\ DOMAIN Tail(q) = 1 .. Len(q) - 1
         /\ 1 \in DOMAIN q /\ q[1] \in S /\ Head(q) = q[1]
         /\ \A i \in DOMAIN Tail(q) : i + 1 \in DOMAIN q /\ Tail(q)[i] = q[i + 1]
  <1>1. Len(q) \in Nat \ {0} /\ DOMAIN q = 1 .. Len(q)
    BY EmptySeq, LenProperties
  <1>2. /\ Tail(q) \in Seq(S) /\ Len(Tail(q)) = Len(q) - 1
        /\ \A i \in 1 .. Len(Tail(q)) : Tail(q)[i] = q[i + 1]
    BY HeadTailProperties
  <1>3. DOMAIN Tail(q) = 1 .. Len(q) - 1
    BY <1>2, LenProperties
  <1>4. 1 \in DOMAIN q /\ q[1] \in S /\ Head(q) = q[1]
    BY <1>1, ElementOfSeq
  <1>5. \A i \in DOMAIN Tail(q) : i + 1 \in DOMAIN q /\ Tail(q)[i] = q[i + 1]
    BY <1>1, <1>2, <1>3
  <1>6. QED
    BY <1>1, <1>2, <1>3, <1>4, <1>5

\* A message before the others.
LEMMA FirstFacts ==
  ASSUME NEW S, NEW q \in Seq(S), NEW e \in S
  PROVE  /\ <<e>> \o q \in Seq(S) /\ Len(<<e>> \o q) = Len(q) + 1
         /\ Len(q) \in Nat /\ DOMAIN (<<e>> \o q) = 1 .. Len(q) + 1
         /\ DOMAIN q = 1 .. Len(q)
         /\ (<<e>> \o q)[1] = e
         /\ \A i \in 1 .. Len(q) : (<<e>> \o q)[i + 1] = q[i]
  <1> DEFINE f == <<e>>
             a == f \o q
  <1>1. f \in Seq(S) /\ Len(f) = 1 /\ f[1] = e
    OBVIOUS
  <1> HIDE DEF f
  <1>2. /\ a \in Seq(S) /\ Len(a) = Len(f) + Len(q)
        /\ \A i \in 1 .. Len(a) : a[i] = IF i <= Len(f) THEN f[i] ELSE q[i - Len(f)]
    <2>1. a \in Seq(S)
      BY <1>1, ConcatProperties
    <2>2. Len(a) = Len(f) + Len(q)
      BY <1>1, ConcatProperties
    <2>3. \A i \in 1 .. Len(a) : a[i] = IF i <= Len(f) THEN f[i] ELSE q[i - Len(f)]
      BY <1>1, <2>2, ConcatProperties
    <2>4. QED
      BY <2>1, <2>2, <2>3
  <1> HIDE DEF a
  <1>3. Len(q) \in Nat /\ DOMAIN q = 1 .. Len(q) /\ DOMAIN a = 1 .. Len(a)
    BY <1>2, LenProperties
  <1>4. Len(a) = Len(q) + 1 /\ a[1] = e
    BY <1>1, <1>2, <1>3
  <1>5. ASSUME NEW i \in 1 .. Len(q)
        PROVE  a[i + 1] = q[i]
    <2>1. i + 1 \in 1 .. Len(a) /\ ~ (i + 1 <= 1) /\ (i + 1) - 1 = i
      BY <1>3, <1>4
    <2>2. QED
      BY <1>1, <1>2, <2>1
  <1>6. QED
    BY <1>2, <1>3, <1>4, <1>5 DEF a, f

-----------------------------------------------------------------------------
(* The values of the variables, and what the functions make of a page.      *)

Pages == [auth : {"signed_out", "authenticating", "authenticated"},
          token : BOOLEAN,
          connection : {"idle", "connecting", "authenticating", "ready",
                        "disconnected"},
          task : Tasks, approval : Ids \cup {None}, buttons : BOOLEAN,
          websocket : Conns \cup {None}, promise : Conns \cup {None}]
Lives == {"unused", "connecting", "authenticating", "open", "closing", "closed"}
CallRecords == [pc : {"none", "connecting", "asked", "answered"},
                on : Conns \cup {None}, approval : Ids \cup {None},
                answer : {"none", "ok", "refused", "expired", "failed"}]
Messages == Event \cup {AuthOk}

\* Which names are different.
LEMMA Names ==
  /\ None \notin Conns /\ None \notin Ids /\ MaxLog \in Nat /\ MaxLogins \in Nat
  /\ Decide \notin Submits /\ Reconnect \notin Submits /\ Login \notin Submits
  /\ Decide # Reconnect /\ Decide # Login /\ Reconnect # Login
  /\ Decide \in Calls /\ Reconnect \in Calls /\ Login \in Calls
  /\ Submits \subseteq Calls
  <1>1. /\ None \notin Conns /\ None \notin Ids /\ MaxLog \in Nat /\ MaxLogins \in Nat
        /\ Decide \notin Submits /\ Reconnect \notin Submits /\ Login \notin Submits
        /\ Decide \in Calls /\ Reconnect \in Calls /\ Login \in Calls
        /\ Submits \subseteq Calls
    BY NamesDiffer, BoundsAreNumbers DEF Ids, Calls
  <1>2. \A a, b : Cardinality({a, b}) <= 2
    <2> SUFFICES ASSUME NEW a, NEW b
                 PROVE  Cardinality({a, b}) <= 2
      OBVIOUS
    <2>1. IsFiniteSet({a}) /\ Cardinality({a}) = 1
      BY FS_Singleton
    <2>2. /\ Cardinality({a} \cup {b}) = IF b \in {a} THEN Cardinality({a})
                                                      ELSE Cardinality({a}) + 1
      BY <2>1, FS_AddElement
    <2>3. {a} \cup {b} = {a, b}
      OBVIOUS
    <2>4. QED
      BY <2>1, <2>2, <2>3
  <1>3. /\ Cardinality({Reconnect, Decide, Login}) = 3 /\ ~ (3 <= 2)
    BY NamesDiffer
  <1>4. Decide # Reconnect
    <2> SUFFICES ASSUME Decide = Reconnect
                 PROVE  FALSE
      OBVIOUS
    <2>1. {Reconnect, Decide, Login} = {Reconnect, Login}
      OBVIOUS
    <2>2. QED
      BY <1>2, <1>3, <2>1
  <1>5. Decide # Login
    <2> SUFFICES ASSUME Decide = Login
                 PROVE  FALSE
      OBVIOUS
    <2>1. {Reconnect, Decide, Login} = {Reconnect, Login}
      OBVIOUS
    <2>2. QED
      BY <1>2, <1>3, <2>1
  <1>6. Reconnect # Login
    <2> SUFFICES ASSUME Reconnect = Login
                 PROVE  FALSE
      OBVIOUS
    <2>1. {Reconnect, Decide, Login} = {Reconnect, Decide}
      OBVIOUS
    <2>2. QED
      BY <1>2, <1>3, <2>1
  <1>7. QED
    BY <1>1, <1>4, <1>5, <1>6

\* An event is one of four kinds, and none of them auth_ok.
LEMMA EventKinds ==
  ASSUME NEW e \in Event
  PROVE  /\ e.kind \in {"result", "error", "resumed", "asks"} /\ e # AuthOk
         /\ e.kind = "asks" => e.id \in Ids
  BY DEF Event, AuthOk, Ev

\* The records of the calls.
LEMMA CallFacts ==
  /\ NoCall \in CallRecords /\ NoCall.pc = "none" /\ NoCall.approval = None
  /\ \A id \in Ids \cup {None} :
       /\ Asked(id) \in CallRecords /\ Asked(id).pc = "asked"
       /\ Asked(id).approval = id
  /\ \A c \in Conns :
       LET r == [NoCall EXCEPT !.pc = "connecting", !.on = c]
       IN  /\ r \in CallRecords /\ r.pc = "connecting" /\ r.on = c
           /\ r.approval = None
  BY DEF NoCall, Asked, CallRecords

\* clearSession,
LEMMA ClearedFacts ==
  ASSUME NEW p \in Pages
  PROVE  /\ Cleared(p) \in Pages
         /\ Cleared(p).auth = "signed_out" /\ ~ Cleared(p).token
         /\ Cleared(p).connection = "idle"
         /\ Cleared(p).task = IF p.task \in Active THEN "error" ELSE p.task
         /\ Cleared(p).approval = p.approval /\ Cleared(p).buttons = p.buttons
         /\ Cleared(p).websocket = None /\ Cleared(p).promise = None
  BY DEF Cleared, WithoutSocket, Pages, Tasks, Active

\* a new token,
LEMMA LoggedInFacts ==
  ASSUME NEW p \in Pages
  PROVE  /\ LoggedIn(p) \in Pages
         /\ LoggedIn(p).auth = "authenticated" /\ LoggedIn(p).token
         /\ LoggedIn(p).connection = "idle" /\ LoggedIn(p).task = p.task
         /\ LoggedIn(p).approval = p.approval /\ LoggedIn(p).buttons = p.buttons
         /\ LoggedIn(p).websocket = None /\ LoggedIn(p).promise = None
  BY DEF LoggedIn, WithoutSocket, Pages

\* the catch clause of a submission,
LEMMA FailedFacts ==
  ASSUME NEW p \in Pages
  PROVE  /\ Failed(p) \in Pages
         /\ Failed(p).auth = p.auth /\ Failed(p).token = p.token
         /\ Failed(p).connection = p.connection
         /\ Failed(p).task = IF p.auth = "authenticated" THEN "error" ELSE p.task
         /\ Failed(p).approval = p.approval /\ Failed(p).buttons = p.buttons
         /\ Failed(p).websocket = p.websocket /\ Failed(p).promise = p.promise
  BY DEF Failed, Pages, Tasks

\* its success,
LEMMA LaunchedFacts ==
  ASSUME NEW p \in Pages
  PROVE  /\ Launched(p) \in Pages
         /\ Launched(p).auth = p.auth /\ Launched(p).token = p.token
         /\ Launched(p).connection = p.connection
         /\ Launched(p).task = IF p.task = "submitting" THEN "running" ELSE p.task
         /\ Launched(p).approval = p.approval /\ Launched(p).buttons = p.buttons
         /\ Launched(p).websocket = p.websocket /\ Launched(p).promise = p.promise
  BY DEF Launched, Pages, Tasks

\* and an event.
LEMMA HandledFacts ==
  ASSUME NEW p \in Pages, NEW e, e.kind \in {"result", "error", "resumed", "asks"},
         e.kind = "asks" => e.id \in Ids
  PROVE  /\ Handled(p, e) \in Pages
         /\ Handled(p, e).auth = p.auth /\ Handled(p, e).token = p.token
         /\ Handled(p, e).connection = p.connection
         /\ Handled(p, e).task = CASE e.kind = "asks" -> "waiting_for_approval"
                                   [] e.kind = "resumed" -> "running"
                                   [] e.kind = "result" -> "completed"
                                   [] e.kind = "error" -> "error"
         /\ Handled(p, e).approval = CASE e.kind = "asks" -> e.id
                                       [] e.kind = "resumed" -> None
                                       [] OTHER -> p.approval
         /\ Handled(p, e).buttons = p.buttons
         /\ Handled(p, e).websocket = p.websocket
         /\ Handled(p, e).promise = p.promise
  <1>1. CASE e.kind = "asks"
    BY <1>1 DEF Handled, Pages, Tasks
  <1>2. CASE e.kind = "resumed"
    BY <1>2 DEF Handled, Pages, Tasks
  <1>3. CASE e.kind = "result"
    BY <1>3 DEF Handled, Pages, Tasks
  <1>4. CASE e.kind = "error"
    BY <1>4 DEF Handled, Pages, Tasks
  <1>5. QED
    BY <1>1, <1>2, <1>3, <1>4

\* The close event of a socket, and what its waiters make of it.
LEMMA ClosedFacts ==
  ASSUME page \in Pages, page.auth = "authenticated" => page.token,
         NEW c \in Conns, NEW expired \in BOOLEAN
  PROVE  LET a == AfterClose(c, expired)
             p == Rejected(c, a)
         IN  /\ a \in Pages /\ p \in Pages
             /\ a.websocket = IF page.websocket = c THEN None ELSE page.websocket
             /\ a.promise = None /\ a.approval = page.approval
             /\ a.auth = IF page.websocket = c /\ expired THEN "signed_out"
                                                          ELSE page.auth
             /\ a.auth = "authenticated" => a.token
             /\ a.task = IF page.websocket = c /\ expired /\ page.task \in Active
                         THEN "error" ELSE page.task
             /\ p.websocket = a.websocket /\ p.promise = None
             /\ p.approval = page.approval /\ p.auth = a.auth
             /\ p.auth = "authenticated" => p.token
             /\ p.task = IF Waiting(c) \cap Submits # {} /\ a.auth = "authenticated"
                         THEN "error" ELSE a.task
             /\ a.auth = "authenticated" /\ page.websocket = c
                  => a.connection = "disconnected"
             /\ page.websocket # c => a.connection = page.connection
             /\ p.connection = IF Reconnect \in Waiting(c) /\ a.auth = "authenticated"
                               THEN "disconnected" ELSE a.connection
  <1> DEFINE w == [page EXCEPT !.promise = None,
                               !.websocket = IF @ = c THEN None ELSE @]
  <1>1. /\ w \in Pages /\ w.promise = None /\ w.approval = page.approval
        /\ w.websocket = IF page.websocket = c THEN None ELSE page.websocket
        /\ w.auth = page.auth /\ w.token = page.token /\ w.task = page.task
        /\ w.connection = page.connection /\ w.buttons = page.buttons
    BY DEF Pages
  <1>2. AfterClose(c, expired) =
          IF page.websocket # c THEN w
          ELSE IF expired THEN Cleared(w)
          ELSE IF w.auth = "authenticated"
               THEN [w EXCEPT !.connection = "disconnected"] ELSE w
    BY DEF AfterClose, IsCurrent
  <1> HIDE DEF w
  <1>3. LET d == [w EXCEPT !.connection = "disconnected"]
        IN  /\ d \in Pages /\ d.promise = w.promise /\ d.approval = w.approval
            /\ d.websocket = w.websocket /\ d.auth = w.auth /\ d.token = w.token
            /\ d.task = w.task /\ d.connection = "disconnected"
    BY <1>1 DEF Pages
  <1> DEFINE a == AfterClose(c, expired)
  <1>4. /\ a \in Pages
        /\ a.websocket = IF page.websocket = c THEN None ELSE page.websocket
        /\ a.promise = None /\ a.approval = page.approval
        /\ a.auth = IF page.websocket = c /\ expired THEN "signed_out" ELSE page.auth
        /\ a.auth = "authenticated" => a.token
        /\ a.task = IF page.websocket = c /\ expired /\ page.task \in Active
                    THEN "error" ELSE page.task
        /\ a.auth = "authenticated" /\ page.websocket = c
             => a.connection = "disconnected"
        /\ page.websocket # c => a.connection = page.connection
    <2>1. CASE page.websocket # c
      BY <1>1, <1>2, <2>1
    <2>2. CASE page.websocket = c /\ expired
      BY <1>1, <1>2, <2>2, ClearedFacts
    <2>3. CASE page.websocket = c /\ ~ expired
      BY <1>1, <1>2, <1>3, <2>3
    <2>4. QED
      BY <2>1, <2>2, <2>3
  <1> HIDE DEF a
  <1> DEFINE q == IF Waiting(c) \cap Submits # {} THEN Failed(a) ELSE a
  <1>5. /\ q \in Pages /\ q.websocket = a.websocket /\ q.promise = a.promise
        /\ q.approval = a.approval /\ q.auth = a.auth /\ q.token = a.token
        /\ q.task = IF Waiting(c) \cap Submits # {} /\ a.auth = "authenticated"
                    THEN "error" ELSE a.task
        /\ q.connection = a.connection
    BY <1>4, FailedFacts
  <1>6. Rejected(c, a) = IF Reconnect \in Waiting(c) /\ q.auth = "authenticated"
                         THEN [q EXCEPT !.connection = "disconnected"] ELSE q
    BY DEF Rejected
  <1> HIDE DEF q
  <1>7. LET d == [q EXCEPT !.connection = "disconnected"]
        IN  /\ d \in Pages /\ d.promise = q.promise /\ d.approval = q.approval
            /\ d.websocket = q.websocket /\ d.auth = q.auth /\ d.token = q.token
            /\ d.task = q.task /\ d.connection = "disconnected"
    BY <1>5 DEF Pages
  <1> DEFINE p == Rejected(c, a)
  <1>8. /\ p \in Pages /\ p.promise = q.promise /\ p.approval = q.approval
        /\ p.websocket = q.websocket /\ p.auth = q.auth /\ p.token = q.token
        /\ p.task = q.task
        /\ p.connection = IF Reconnect \in Waiting(c) /\ q.auth = "authenticated"
                          THEN "disconnected" ELSE q.connection
    BY <1>5, <1>6, <1>7
  <1> HIDE DEF p
  <1>9. QED
    BY <1>4, <1>5, <1>8 DEF a, p
-----------------------------------------------------------------------------
(* What is true between the steps, besides the types.                       *)

\* Sockets: what is on its way comes from the log, after auth_ok; and to the
\* registered socket the end of the log is on its way.
FromLog(e) == \E j \in DOMAIN log : log[j] = e
WireOf(c) ==
  /\ conn[c] \in {"unused", "connecting"} => wire[c] = <<>> /\ registered # c
  /\ Listening(c) =>
       \A i \in DOMAIN wire[c] :
         FromLog(wire[c][i]) \/ (i = 1 /\ conn[c] = "authenticating")
  /\ registered = c /\ Listening(c) =>
       /\ Len(wire[c]) <= Len(log) + 1
       /\ conn[c] = "open" => Len(wire[c]) <= Len(log)
       /\ conn[c] = "authenticating" => Len(wire[c]) = Len(log) + 1
       /\ \A i \in DOMAIN wire[c] :
            LET j == Len(log) - Len(wire[c]) + i
            IN  j >= 1 => wire[c][i] = log[j]
Wires == \A c \in Conns : WireOf(c)

\* The log: a question is the last event, or the next one is its decision;
\* and it is the last as long as the checkpoint holds it undecided.
Asking(j) == j \in DOMAIN log /\ log[j].kind = "asks"
LogInv ==
  /\ \A j \in DOMAIN log : Asking(j) =>
       log[j].id = j /\ (j # Len(log) => log[j + 1].kind = "resumed")
  /\ pending # None => Asking(pending)
  /\ pending # None /\ run \in {"none", "resuming"} => pending = Len(log)
  /\ Asking(Len(log)) => run \in {"none", "resuming"} /\ pending = Len(log)
  /\ run = "working" => pending = None
  /\ run = "resuming" => pending # None
  /\ run = "none" /\ log # <<>> /\ "silent" \notin slips =>
       log[Len(log)].kind # "resumed"

\* The approvals the page and its requests name are questions of the log, and
\* one that was accepted is not open any more.
AskInv ==
  /\ call[Decide].pc # "connecting" /\ call[Login].pc # "connecting"
  /\ call[Decide].pc # "none" => Asking(call[Decide].approval)
  /\ Answered(Decide) /\ Answer(Decide) = "ok" =>
       call[Decide].approval # Len(log) \/ run = "resuming"
  /\ call[Reconnect].approval # None => Asking(call[Reconnect].approval)
  /\ page.approval # None => Asking(page.approval)

\* The page listens to the socket events go to; how far it has been told.
Shows ==
  /\ page.websocket # None /\ page.websocket = registered
  /\ conn[page.websocket] = "open"
Told == Len(log) - Len(wire[page.websocket])

\* What the card shows is no older than what the page was told last.
CardInv ==
  Shows =>
    /\ seen >= Told
    /\ {"overtaken", "stray"} \cap slips = {} =>
         /\ page.approval # None => page.approval >= Told
         /\ wire[page.websocket] = <<>> /\ Asking(Len(log)) =>
              page.approval = Len(log) \/ run = "resuming"

\* An active task of a page that was told everything, when none runs, is due to
\* a submission of which the server knows nothing, or that it refused.
Unserved(h) ==
  \/ call[h].pc \in {"connecting", "asked"}
  \/ Answered(h) /\ Answer(h) # "ok"
TaskInv ==
  /\ Shows /\ {"overtaken", "stray", "silent"} \cap slips = {} =>
       (/\ wire[page.websocket] = <<>> /\ log # <<>>
        /\ page.auth = "authenticated" /\ run = "none" /\ page.task \in Active
        => \E h \in Submits : Unserved(h))
  /\ log = <<>> /\ run = "none" /\ "silent" \notin slips =>
       /\ page.task # "running"
       /\ \A h \in Submits : ~ (Answered(h) /\ Answer(h) = "ok")

\* A submission that is answered has an answer.
Replied == \A h \in Submits : Answered(h) => Answer(h) # "none"

\* The page's socket is alive; and, unless sockets have crossed, no other is,
\* and the state of the connection tells of it.
Alive == {"connecting", "authenticating", "open"}
SocketInv ==
  /\ page.websocket # None => conn[page.websocket] \in Alive
  /\ page.promise # None => page.promise = page.websocket
  /\ "crossed" \notin slips =>
       /\ \A c \in Conns : conn[c] \in Alive => c = page.websocket
       /\ page.websocket # None =>
            IF conn[page.websocket] = "open" THEN page.connection = "ready"
                                             ELSE page.promise = page.websocket
       /\ page.auth = "authenticated" /\ page.connection = "ready" =>
            page.websocket # None /\ conn[page.websocket] = "open"

Inv ==
  /\ TypeOK /\ Wires /\ LogInv /\ AskInv /\ CardInv /\ TaskInv
  /\ SubmittingIsUnderWay /\ Replied /\ SocketInv
-----------------------------------------------------------------------------
(* What the steps do to the page and its sockets.                           *)

\* The parts of TypeOK.
LEMMA Types ==
  ASSUME TypeOK
  PROVE  /\ page \in Pages /\ (page.auth = "authenticated" => page.token)
         /\ conn \in [Conns -> Lives] /\ call \in [Calls -> CallRecords]
         /\ log \in Seq(Event) /\ Len(log) \in Nat /\ Len(log) <= MaxLog
         /\ DOMAIN log = 1 .. Len(log)
         /\ wire \in [Conns -> Seq(Messages)]
         /\ \A c \in Conns : /\ Len(wire[c]) \in Nat
                             /\ DOMAIN wire[c] = 1 .. Len(wire[c])
         /\ MaxLog \in Nat
  <1>1. /\ page \in Pages /\ (page.auth = "authenticated" => page.token)
        /\ conn \in [Conns -> Lives] /\ call \in [Calls -> CallRecords]
        /\ log \in Seq(Event) /\ Len(log) <= MaxLog
        /\ wire \in [Conns -> Seq(Messages)]
    BY DEF TypeOK, Pages, Lives, CallRecords, Messages
  <1>2. Len(log) \in Nat /\ DOMAIN log = 1 .. Len(log)
    BY <1>1, LenProperties
  <1>3. \A c \in Conns : Len(wire[c]) \in Nat /\ DOMAIN wire[c] = 1 .. Len(wire[c])
    BY <1>1, LenProperties
  <1>4. QED
    BY <1>1, <1>2, <1>3, Names

\* A step that leaves the page's socket alone, and one that closes it.
Keeps ==
  /\ page'.websocket = page.websocket /\ page'.promise = page.promise
  /\ page'.connection = page.connection /\ page'.auth = page.auth
  /\ page'.approval = page.approval
  /\ conn' = conn
Drops ==
  /\ page'.websocket = None /\ page'.promise = None
  /\ page'.connection = "idle" /\ page'.approval = page.approval
  /\ conn' = SocketClosed(page)

\* closeCurrentSocket.
LEMMA SocketClosedFacts ==
  ASSUME TypeOK
  PROVE  /\ SocketClosed(page) \in [Conns -> Lives]
         /\ \A c \in Conns :
              SocketClosed(page)[c] = IF c = page.websocket THEN "closing" ELSE conn[c]
  <1>1. page.websocket \in Conns \cup {None} /\ None \notin Conns
    BY Types, Names DEF Pages
  <1>2. QED
    BY <1>1, Types DEF SocketClosed, Lives

\* getWebSocket: the socket and the promise stay, or there is a new one.
LEMMA GetWebSocketFacts ==
  ASSUME TypeOK, NEW h \in Calls, NEW p \in Pages, GetWebSocket(h, p)
  PROVE  /\ page' \in Pages /\ page'.auth = p.auth /\ page'.token = p.token
         /\ page'.task = p.task /\ page'.approval = p.approval
         /\ call' \in [Calls -> CallRecords]
         /\ call'[h].pc \in {"connecting", "asked"} /\ call'[h].approval = None
         /\ \A g \in Calls \ {h} : call'[g] = call[g]
         /\ \/ /\ page' = p /\ conn' = conn
            \/ /\ ~ SocketReady(p) /\ ~ SharesPromise(p)
               /\ \E c \in Conns :
                    /\ conn[c] = "unused"
                    /\ conn' = [conn EXCEPT ![c] = "connecting"]
                    /\ page'.websocket = c /\ page'.promise = c
                    /\ page'.connection = "connecting"
  <1>1. CASE /\ SocketReady(p) /\ page' = p /\ UNCHANGED conn
             /\ call' = [call EXCEPT ![h] = Asked(None)]
    BY <1>1, Types, CallFacts
  <1>2. CASE /\ SharesPromise(p) /\ page' = p /\ UNCHANGED conn
             /\ call' = [call EXCEPT ![h] = [NoCall EXCEPT !.pc = "connecting",
                                                           !.on = p.promise]]
    <2>1. p.promise \in Conns
      BY <1>2 DEF SharesPromise, Pages
    <2>2. QED
      BY <1>2, <2>1, Types, CallFacts
  <1>3. ASSUME ~ SocketReady(p), ~ SharesPromise(p), NEW c \in Conns,
               conn[c] = "unused", conn' = [conn EXCEPT ![c] = "connecting"],
               page' = [p EXCEPT !.websocket = c, !.promise = c,
                                 !.connection = "connecting"],
               call' = [call EXCEPT ![h] = [NoCall EXCEPT !.pc = "connecting",
                                                          !.on = c]]
        PROVE  /\ page' \in Pages /\ page'.auth = p.auth /\ page'.token = p.token
               /\ page'.task = p.task /\ page'.approval = p.approval
               /\ call' \in [Calls -> CallRecords]
               /\ call'[h].pc \in {"connecting", "asked"}
               /\ call'[h].approval = None
               /\ \A g \in Calls \ {h} : call'[g] = call[g]
               /\ page'.websocket = c /\ page'.promise = c
               /\ page'.connection = "connecting"
    <2>1. /\ page' \in Pages /\ page'.auth = p.auth /\ page'.token = p.token
          /\ page'.task = p.task /\ page'.approval = p.approval
          /\ page'.websocket = c /\ page'.promise = c
          /\ page'.connection = "connecting"
      BY <1>3 DEF Pages
    <2>2. /\ call' \in [Calls -> CallRecords]
          /\ call'[h].pc \in {"connecting", "asked"} /\ call'[h].approval = None
          /\ \A g \in Calls \ {h} : call'[g] = call[g]
      BY <1>3, Types, CallFacts
    <2>3. QED
      BY <2>1, <2>2
  <1>4. QED
    BY <1>1, <1>2, <1>3 DEF GetWebSocket

\* The answer to a submission,
LEMMA SubmitAnsweredFacts ==
  ASSUME TypeOK, NEW h \in Submits, SubmitAnswered(h)
  PROVE  /\ page' \in Pages /\ (page'.auth = "authenticated" => page'.token)
         /\ Answer(h) = "ok" =>
              /\ Keeps
              /\ page'.task = IF page.task = "submitting" THEN "running" ELSE page.task
         /\ Answer(h) = "expired" =>
              /\ Drops /\ page'.auth = "signed_out"
              /\ page'.task = IF page.task \in Active THEN "error" ELSE page.task
         /\ Answer(h) \notin {"ok", "expired"} =>
              /\ Keeps
              /\ page'.task = IF page.auth = "authenticated" THEN "error" ELSE page.task
  <1>1. page \in Pages /\ (page.auth = "authenticated" => page.token)
    BY Types
  <1>2. CASE Answer(h) = "ok"
    BY <1>1, <1>2, LaunchedFacts DEF SubmitAnswered, Keeps
  <1>3. CASE Answer(h) = "expired"
    BY <1>1, <1>3, ClearedFacts DEF SubmitAnswered, Drops
  <1>4. CASE Answer(h) \notin {"ok", "expired"}
    BY <1>1, <1>4, FailedFacts DEF SubmitAnswered, Keeps
  <1>5. QED
    BY <1>2, <1>3, <1>4

\* to a login,
LEMMA LoginAnsweredFacts ==
  ASSUME TypeOK, LoginAnswered
  PROVE  /\ page' \in Pages /\ (page'.auth = "authenticated" => page'.token)
         /\ Drops
         /\ page'.task \in {page.task, "error"}
  <1>1. page \in Pages
    BY Types
  <1>2. CASE Answer(Login) = "ok"
    BY <1>1, <1>2, LoggedInFacts DEF LoginAnswered, Drops
  <1>3. CASE Answer(Login) # "ok"
    BY <1>1, <1>3, ClearedFacts DEF LoginAnswered, Drops
  <1>4. QED
    BY <1>2, <1>3

\* and to a decision.
LEMMA DecisionAnsweredFacts ==
  ASSUME TypeOK, DecisionAnswered
  PROVE  /\ page' \in Pages /\ (page'.auth = "authenticated" => page'.token)
         /\ Answer(Decide) = "ok" =>
              /\ page'.approval = None /\ page'.task = "running" /\ conn' = conn
              /\ page'.websocket = page.websocket /\ page'.promise = page.promise
              /\ page'.connection = page.connection /\ page'.auth = page.auth
         /\ Answer(Decide) = "expired" =>
              /\ Drops /\ page'.auth = "signed_out"
              /\ page'.task = IF page.task \in Active THEN "error" ELSE page.task
         /\ Answer(Decide) \notin {"ok", "expired"} =>
              Keeps /\ page'.task = page.task
  <1>1. page \in Pages /\ (page.auth = "authenticated" => page.token)
    BY Types
  <1>2. CASE Answer(Decide) = "ok"
    <2>1. page' = [page EXCEPT !.approval = None, !.task = "running"] /\ conn' = conn
      BY <1>2 DEF DecisionAnswered
    <2>2. QED
      BY <1>1, <1>2, <2>1 DEF Pages, Tasks
  <1>3. CASE Answer(Decide) = "expired"
    BY <1>1, <1>3, ClearedFacts DEF DecisionAnswered, Drops
  <1>4. CASE Answer(Decide) \notin {"ok", "expired"}
    <2>1. page' = [page EXCEPT !.buttons = TRUE] /\ conn' = conn
      BY <1>4 DEF DecisionAnswered
    <2>2. QED
      BY <1>1, <1>4, <2>1 DEF Pages, Keeps
  <1>5. QED
    BY <1>2, <1>3, <1>4
\* An event.
LEMMA PublishFacts ==
  ASSUME TypeOK, NEW e \in Event, Publish(e)
  PROVE  /\ log' \in Seq(Event) /\ Len(log') = Len(log) + 1 /\ Len(log') <= MaxLog
         /\ DOMAIN log' = 1 .. Len(log) + 1
         /\ log'[Len(log) + 1] = e /\ log' # <<>>
         /\ \A j \in DOMAIN log : log'[j] = log[j]
         /\ wire' \in [Conns -> Seq(Messages)]
         /\ \A c \in Conns :
              \/ /\ c = registered /\ Listening(c)
                 /\ Len(wire'[c]) = Len(wire[c]) + 1 /\ wire'[c] # <<>>
                 /\ DOMAIN wire'[c] = 1 .. Len(wire[c]) + 1
                 /\ wire'[c][Len(wire[c]) + 1] = e
                 /\ \A i \in DOMAIN wire[c] : wire'[c][i] = wire[c][i]
              \/ ~ (c = registered /\ Listening(c)) /\ wire'[c] = wire[c]
  <1>1. Len(log) < MaxLog /\ log' = Append(log, e)
    <2>1. Happened < MaxLog /\ log' = Append(log, e)
      BY DEF Publish
    <2>2. Happened = Len(log) \/ Happened = Len(log) + 1
      <3>1. Len(log) \in Nat
        BY Types
      <3>2. QED
        BY <3>1 DEF Happened
    <2>3. QED
      BY <2>1, <2>2, Types
  <1>2. /\ log' \in Seq(Event) /\ Len(log') = Len(log) + 1 /\ Len(log') <= MaxLog
        /\ DOMAIN log' = 1 .. Len(log) + 1
        /\ log'[Len(log) + 1] = e /\ log' # <<>>
        /\ \A j \in DOMAIN log : log'[j] = log[j]
    BY <1>1, Types, AppendFacts
  <1>3. ASSUME NEW c \in Conns, c = registered, Listening(c)
        PROVE  /\ wire' \in [Conns -> Seq(Messages)]
               /\ Len(wire'[c]) = Len(wire[c]) + 1 /\ wire'[c] # <<>>
               /\ DOMAIN wire'[c] = 1 .. Len(wire[c]) + 1
               /\ wire'[c][Len(wire[c]) + 1] = e
               /\ \A i \in DOMAIN wire[c] : wire'[c][i] = wire[c][i]
               /\ \A d \in Conns \ {c} : wire'[d] = wire[d]
    <2>1. wire' = [wire EXCEPT ![c] = Append(wire[c], e)]
      BY <1>3, Names DEF Publish
    <2>2. e \in Messages /\ wire[c] \in Seq(Messages)
      BY Types DEF Messages
    <2> DEFINE a == Append(wire[c], e)
    <2>3. /\ a \in Seq(Messages) /\ Len(a) = Len(wire[c]) + 1 /\ a # <<>>
          /\ DOMAIN a = 1 .. Len(wire[c]) + 1 /\ a[Len(wire[c]) + 1] = e
          /\ \A i \in DOMAIN wire[c] : a[i] = wire[c][i]
      BY <2>2, AppendFacts
    <2>4. wire' = [wire EXCEPT ![c] = a]
      BY <2>1
    <2> HIDE DEF a
    <2>5. QED
      BY <2>3, <2>4, Types
  <1>4. CASE \A c \in Conns : ~ (c = registered /\ Listening(c))
    <2>1. wire' = wire
      BY <1>4, Types DEF Publish, TypeOK
    <2>2. QED
      BY <1>2, <1>4, <2>1, Types
  <1>5. QED
    BY <1>2, <1>3, <1>4

\* An answer leaves.
LEMMA ReplyFacts ==
  ASSUME TypeOK, NEW h \in Calls,
         NEW answer \in {"ok", "refused", "expired", "failed"}, Reply(h, answer)
  PROVE  /\ call' \in [Calls -> CallRecords]
         /\ call[h].pc = "asked" /\ call'[h].pc = "answered"
         /\ call'[h].answer = answer /\ call'[h].approval = call[h].approval
         /\ \A g \in Calls \ {h} : call'[g] = call[g]
         /\ UNCHANGED <<page, conn, log, registered, wire, history>>
  BY Types DEF Reply, CallRecords

\* An event arrives.
LEMMA ReceivesFacts ==
  ASSUME TypeOK, Wires, NEW c \in Conns, Receives(c)
  PROVE  /\ conn[c] = "open" /\ wire[c] # <<>> /\ Len(wire[c]) > 0
         /\ \E e \in Event :
              /\ e = wire[c][1] /\ FromLog(e)
              /\ page' = Handled(page, e)
         /\ wire' \in [Conns -> Seq(Messages)]
         /\ Len(wire'[c]) = Len(wire[c]) - 1
         /\ DOMAIN wire'[c] = 1 .. Len(wire[c]) - 1
         /\ \A i \in DOMAIN wire'[c] : i + 1 \in DOMAIN wire[c]
                                        /\ wire'[c][i] = wire[c][i + 1]
         /\ \A d \in Conns \ {c} : wire'[d] = wire[d]
         /\ Position(c) = Len(log) - Len(wire[c]) + 1
         /\ seen' = IF Position(c) > seen THEN Position(c) ELSE seen
         /\ slips' = IF page.websocket = c THEN slips ELSE slips \cup {"stray"}
         /\ UNCHANGED <<conn, call, run, pending, log, registered, logins>>
  <1>1. /\ conn[c] = "open" /\ wire[c] # <<>> /\ page' = Handled(page, Head(wire[c]))
        /\ wire' = [wire EXCEPT ![c] = Tail(wire[c])]
        /\ UNCHANGED <<conn, call, run, pending, log, registered, logins>>
        /\ seen' = IF Position(c) > seen THEN Position(c) ELSE seen
        /\ slips' = IF page.websocket = c THEN slips ELSE slips \cup {"stray"}
    BY DEF Receives, server, Slip, IsCurrent
  <1> DEFINE t == Tail(wire[c])
  <1>2. /\ t \in Seq(Messages) /\ Len(t) = Len(wire[c]) - 1
        /\ Len(wire[c]) > 0 /\ 1 \in DOMAIN wire[c] /\ Head(wire[c]) = wire[c][1]
        /\ DOMAIN t = 1 .. Len(wire[c]) - 1
        /\ \A i \in DOMAIN t : i + 1 \in DOMAIN wire[c] /\ t[i] = wire[c][i + 1]
    BY <1>1, Types, TailFacts
  <1>3. wire' = [wire EXCEPT ![c] = t]
    BY <1>1
  <1> HIDE DEF t
  <1>4. FromLog(wire[c][1])
    BY <1>1, <1>2 DEF Wires, WireOf, Listening
  <1>5. wire[c][1] \in Event
    BY <1>4, Types, ElementOfSeq DEF FromLog
  <1>6. QED
    BY <1>1, <1>2, <1>3, <1>4, <1>5, Types DEF Position

\* auth_ok arrives.
LEMMA AuthenticatedFacts ==
  ASSUME TypeOK, NEW c \in Conns, Authenticated(c)
  PROVE  /\ conn[c] = "authenticating" /\ wire[c] # <<>> /\ Len(wire[c]) > 0
         /\ wire' \in [Conns -> Seq(Messages)]
         /\ Len(wire'[c]) = Len(wire[c]) - 1
         /\ DOMAIN wire'[c] = 1 .. Len(wire[c]) - 1
         /\ \A i \in DOMAIN wire'[c] : i + 1 \in DOMAIN wire[c]
                                        /\ wire'[c][i] = wire[c][i + 1]
         /\ \A d \in Conns \ {c} : wire'[d] = wire[d]
         /\ conn' = [conn EXCEPT ![c] = "open"]
         /\ page' \in Pages /\ page'.connection = "ready" /\ page'.promise = None
         /\ page'.auth = page.auth /\ page'.token = page.token
         /\ page'.task = page.task /\ page'.approval = page.approval
         /\ page'.websocket = page.websocket
         /\ call' \in [Calls -> CallRecords]
         /\ \A h \in Calls :
              \/ call'[h] = call[h]
              \/ /\ call[h].pc = "connecting" /\ call'[h].pc = "asked"
                 /\ call'[h].approval = None
         /\ UNCHANGED <<run, pending, log, registered, seen, slips, logins>>
  <1>1. /\ conn[c] = "authenticating" /\ wire[c] # <<>>
        /\ page' = [page EXCEPT !.connection = "ready", !.promise = None]
        /\ wire' = [wire EXCEPT ![c] = Tail(wire[c])]
        /\ conn' = [conn EXCEPT ![c] = "open"]
        /\ call' = [h \in Calls |-> IF h \in Waiting(c) THEN Asked(None) ELSE call[h]]
        /\ UNCHANGED <<run, pending, log, registered, seen, slips, logins>>
    BY DEF Authenticated, server, history
  <1> DEFINE t == Tail(wire[c])
  <1>2. /\ t \in Seq(Messages) /\ Len(t) = Len(wire[c]) - 1 /\ Len(wire[c]) > 0
        /\ DOMAIN t = 1 .. Len(wire[c]) - 1
        /\ \A i \in DOMAIN t : i + 1 \in DOMAIN wire[c] /\ t[i] = wire[c][i + 1]
    BY <1>1, Types, TailFacts
  <1>3. wire' = [wire EXCEPT ![c] = t]
    BY <1>1
  <1> HIDE DEF t
  <1>4. /\ page' \in Pages /\ page'.connection = "ready" /\ page'.promise = None
        /\ page'.auth = page.auth /\ page'.token = page.token
        /\ page'.task = page.task /\ page'.approval = page.approval
        /\ page'.websocket = page.websocket
    BY <1>1, Types DEF Pages
  <1>5. /\ call' \in [Calls -> CallRecords]
        /\ \A h \in Calls :
             \/ call'[h] = call[h]
             \/ /\ call[h].pc = "connecting" /\ call'[h].pc = "asked"
                /\ call'[h].approval = None
    BY <1>1, Types, CallFacts DEF Waiting
  <1>6. QED
    BY <1>1, <1>2, <1>3, <1>4, <1>5, Types

\* The close event.
LEMMA ClosesFacts ==
  ASSUME TypeOK, NEW c \in Conns, NEW expired \in BOOLEAN, Closes(c, expired)
  PROVE  /\ conn[c] \in Alive \cup {"closing"} /\ conn' = [conn EXCEPT ![c] = "closed"]
         /\ page' = Rejected(c, AfterClose(c, expired))
         /\ call' \in [Calls -> CallRecords]
         /\ \A h \in Calls : IF h \in Waiting(c) THEN call'[h] = NoCall
                                                 ELSE call'[h] = call[h]
         /\ slips' \in SUBSET Slips /\ slips \subseteq slips'
         /\ Waiting(c) \cap Submits # {} /\ Strands(AfterClose(c, expired))
              => "stranded" \in slips'
         /\ Crosses(c, AfterClose(c, expired)) => "crossed" \in slips'
         /\ registered' = IF registered = c THEN None ELSE registered
         /\ wire' \in [Conns -> Seq(Messages)] /\ wire'[c] = <<>>
         /\ \A d \in Conns \ {c} : wire'[d] = wire[d]
         /\ UNCHANGED <<run, pending, log, seen, logins>>
  <1>1. /\ call' = [h \in Calls |-> IF h \in Waiting(c) THEN NoCall ELSE call[h]]
        /\ wire' = [wire EXCEPT ![c] = <<>>]
        /\ slips' = slips
             \cup {s \in {"stranded"} : Waiting(c) \cap Submits # {}
                                          /\ Strands(AfterClose(c, expired))}
             \cup {s \in {"crossed"} : Crosses(c, AfterClose(c, expired))}
    BY DEF Closes
  <1>2. slips \in SUBSET Slips /\ {"stranded", "crossed"} \subseteq Slips
    BY DEF TypeOK, Slips
  <1>3. /\ slips' \in SUBSET Slips /\ slips \subseteq slips'
        /\ Waiting(c) \cap Submits # {} /\ Strands(AfterClose(c, expired))
             => "stranded" \in slips'
        /\ Crosses(c, AfterClose(c, expired)) => "crossed" \in slips'
    BY <1>1, <1>2
  <1>4. call' \in [Calls -> CallRecords]
    BY <1>1, Types, CallFacts
  <1>5. wire' \in [Conns -> Seq(Messages)] /\ wire'[c] = <<>>
    <2>1. <<>> \in Seq(Messages)
      OBVIOUS
    <2>2. QED
      BY <1>1, <2>1, Types
  <1>6. QED
    BY <1>1, <1>3, <1>4, <1>5, Types DEF Closes, Alive
\* A step that opens a socket.
NewSocket ==
  /\ ~ SocketReady(page) /\ ~ SharesPromise(page)
  /\ \E c \in Conns :
       /\ conn[c] = "unused" /\ conn' = [conn EXCEPT ![c] = "connecting"]
       /\ page'.websocket = c /\ page'.promise = c
       /\ page'.connection = "connecting"
  /\ page'.auth = page.auth /\ page'.approval = page.approval

\* A submission,
LEMMA SubmitFacts ==
  ASSUME TypeOK, NEW h \in Submits, Submit(h)
  PROVE  /\ page' \in Pages /\ (page'.auth = "authenticated" => page'.token)
         /\ page'.task = "submitting" /\ (Keeps \/ NewSocket)
         /\ call' \in [Calls -> CallRecords]
         /\ call'[h].pc \in {"connecting", "asked"} /\ call'[h].approval = None
         /\ \A g \in Calls \ {h} : call'[g] = call[g]
         /\ UNCHANGED <<run, pending, log, registered, wire, seen, slips, logins>>
  <1> DEFINE p == [page EXCEPT !.task = "submitting"]
  <1>1. GetWebSocket(h, p)
    BY DEF Submit
  <1>2. /\ p \in Pages /\ p.task = "submitting" /\ p.auth = page.auth
        /\ p.token = page.token /\ p.approval = page.approval
        /\ p.websocket = page.websocket /\ p.promise = page.promise
        /\ p.connection = page.connection
    BY Types DEF Pages, Tasks
  <1> HIDE DEF p
  <1>3. h \in Calls
    BY Names
  <1>4. /\ page' \in Pages /\ page'.auth = p.auth /\ page'.token = p.token
        /\ page'.task = p.task /\ page'.approval = p.approval
        /\ call' \in [Calls -> CallRecords]
        /\ call'[h].pc \in {"connecting", "asked"} /\ call'[h].approval = None
        /\ \A g \in Calls \ {h} : call'[g] = call[g]
        /\ \/ /\ page' = p /\ conn' = conn
           \/ /\ ~ SocketReady(p) /\ ~ SharesPromise(p)
              /\ \E c \in Conns :
                   /\ conn[c] = "unused"
                   /\ conn' = [conn EXCEPT ![c] = "connecting"]
                   /\ page'.websocket = c /\ page'.promise = c
                   /\ page'.connection = "connecting"
    BY <1>1, <1>2, <1>3, GetWebSocketFacts
  <1>5. /\ SocketReady(p) <=> SocketReady(page)
        /\ SharesPromise(p) <=> SharesPromise(page)
    BY <1>2 DEF SocketReady, SharesPromise
  <1>6. Keeps \/ NewSocket
    BY <1>2, <1>4, <1>5 DEF Keeps, NewSocket
  <1>7. UNCHANGED <<run, pending, log, registered, wire, seen, slips, logins>>
    BY DEF Submit, server, history
  <1>8. QED
    BY <1>2, <1>4, <1>6, <1>7, Types

\* and a reconnect.
LEMMA ReconnectsFacts ==
  ASSUME TypeOK, Reconnects
  PROVE  /\ page' \in Pages /\ (page'.auth = "authenticated" => page'.token)
         /\ page'.task = page.task /\ (Keeps \/ NewSocket)
         /\ call' \in [Calls -> CallRecords]
         /\ call'[Reconnect].pc \in {"connecting", "asked"}
         /\ call'[Reconnect].approval = None
         /\ \A g \in Calls \ {Reconnect} : call'[g] = call[g]
         /\ UNCHANGED <<run, pending, log, registered, wire, seen, slips, logins>>
  <1> DEFINE p == page
  <1>1. GetWebSocket(Reconnect, p)
    BY DEF Reconnects
  <1>2. p = page /\ p \in Pages
    BY Types
  <1> HIDE DEF p
  <1>3. Reconnect \in Calls
    BY Names
  <1>4. /\ page' \in Pages /\ page'.auth = p.auth /\ page'.token = p.token
        /\ page'.task = p.task /\ page'.approval = p.approval
        /\ call' \in [Calls -> CallRecords]
        /\ call'[Reconnect].pc \in {"connecting", "asked"}
        /\ call'[Reconnect].approval = None
        /\ \A g \in Calls \ {Reconnect} : call'[g] = call[g]
        /\ \/ /\ page' = p /\ conn' = conn
           \/ /\ ~ SocketReady(p) /\ ~ SharesPromise(p)
              /\ \E c \in Conns :
                   /\ conn[c] = "unused"
                   /\ conn' = [conn EXCEPT ![c] = "connecting"]
                   /\ page'.websocket = c /\ page'.promise = c
                   /\ page'.connection = "connecting"
    BY <1>1, <1>2, <1>3, GetWebSocketFacts
  <1>5. Keeps \/ NewSocket
    BY <1>2, <1>4 DEF Keeps, NewSocket
  <1>6. UNCHANGED <<run, pending, log, registered, wire, seen, slips, logins>>
    BY DEF Reconnects, server, history
  <1>7. QED
    BY <1>2, <1>4, <1>5, <1>6, Types

\* A request ends.
LEMMA DoneFacts ==
  ASSUME TypeOK, NEW h \in Calls, Done(h)
  PROVE  /\ call' \in [Calls -> CallRecords] /\ call'[h] = NoCall
         /\ \A g \in Calls \ {h} : call'[g] = call[g]
  BY Types, CallFacts DEF Done

\* Types are kept: of what a page is,
LEMMA PageTypes ==
  ASSUME TypeOK, Wires, Next
  PROVE  page' \in Pages /\ (page'.auth = "authenticated" => page'.token)
  <1>1. /\ page \in Pages /\ (page.auth = "authenticated" => page.token)
    BY Types
  <1>2. ASSUME NEW h \in Submits, Submit(h) \/ SubmitAnswered(h)
        PROVE  page' \in Pages /\ (page'.auth = "authenticated" => page'.token)
    BY <1>2, SubmitFacts, SubmitAnsweredFacts
  <1>3. CASE Reconnects \/ LoginAnswered \/ DecisionAnswered
    BY <1>3, ReconnectsFacts, LoginAnsweredFacts, DecisionAnsweredFacts
  <1>4. CASE Decides
    <2>1. page' = [page EXCEPT !.buttons = FALSE]
      BY <1>4 DEF Decides
    <2>2. QED
      BY <1>1, <2>1 DEF Pages
  <1>5. CASE LogsIn
    <2>1. page' = [page EXCEPT !.auth = "authenticating"]
      BY <1>5 DEF LogsIn
    <2>2. QED
      BY <1>1, <2>1 DEF Pages
  <1>6. CASE RefreshAnswered
    <2>1. CASE page' = page
      BY <1>1, <2>1
    <2>2. CASE /\ call[Reconnect].approval # None
               /\ page' = Handled(page, Ev("asks", call[Reconnect].approval))
      <3>1. PICK id \in Ids : id = call[Reconnect].approval
        BY <2>2, Types, Names DEF CallRecords
      <3> DEFINE e == Ev("asks", id)
      <3>2. e.kind = "asks" /\ e.id = id
        BY DEF Ev
      <3>3. page' = Handled(page, e)
        BY <2>2, <3>1
      <3> HIDE DEF e
      <3>4. QED
        BY <1>1, <3>1, <3>2, <3>3, HandledFacts
    <2>3. QED
      BY <1>6, <2>1, <2>2 DEF RefreshAnswered
  <1>7. CASE Reload
    BY <1>7 DEF Reload, Loaded, Pages, Tasks
  <1>8. ASSUME NEW c \in Conns, Opens(c)
        PROVE  page' \in Pages /\ (page'.auth = "authenticated" => page'.token)
    <2>1. page' = [page EXCEPT !.connection = "authenticating"]
      BY <1>8 DEF Opens
    <2>2. QED
      BY <1>1, <2>1 DEF Pages
  <1>9. ASSUME NEW c \in Conns, Authenticated(c)
        PROVE  page' \in Pages /\ (page'.auth = "authenticated" => page'.token)
    BY <1>1, <1>9, AuthenticatedFacts
  <1>10. ASSUME NEW c \in Conns, Receives(c)
         PROVE  page' \in Pages /\ (page'.auth = "authenticated" => page'.token)
    <2>1. PICK e \in Event : page' = Handled(page, e)
      BY <1>10, ReceivesFacts
    <2>2. QED
      BY <1>1, <2>1, EventKinds, HandledFacts
  <1>11. ASSUME NEW c \in Conns, NEW expired \in BOOLEAN, Closes(c, expired)
         PROVE  page' \in Pages /\ (page'.auth = "authenticated" => page'.token)
    BY <1>1, <1>11, ClosesFacts, ClosedFacts
  <1>12. ASSUME page' = page
         PROVE  page' \in Pages /\ (page'.auth = "authenticated" => page'.token)
    BY <1>1, <1>12
  <1>13. ASSUME \/ \E c \in Conns : Authenticates(c)
                \/ TaskEnds \/ TaskEndsSilently \/ TaskAsks \/ TaskResumes
                \/ TaskTakes \/ ServesDecision \/ ServesRefresh \/ ServesLogin
                \/ \E h \in Submits : ServesSubmit(h)
                \/ \E h \in Calls : TurnsAway(h) \/ LosesAnswer(h)
         PROVE  page' = page
    BY <1>13 DEF Authenticates, TaskEnds, TaskEndsSilently, TaskAsks, TaskResumes,
                 TaskTakes, ServesDecision, ServesRefresh, ServesLogin, ServesSubmit,
                 TurnsAway, LosesAnswer, Reply
  <1>14. QED
    BY <1>2, <1>3, <1>4, <1>5, <1>6, <1>7, <1>8, <1>9, <1>10, <1>11, <1>12, <1>13
       DEF Next
\* and of the others.
Others ==
  /\ conn \in [Conns -> Lives] /\ call \in [Calls -> CallRecords]
  /\ run \in {"none", "resuming", "taking", "working"}
  /\ pending \in Ids \cup {None}
  /\ log \in Seq(Event) /\ Len(log) <= MaxLog
  /\ registered \in Conns \cup {None}
  /\ wire \in [Conns -> Seq(Messages)]
  /\ seen \in 0 .. MaxLog
  /\ slips \subseteq Slips
  /\ logins \in 0 .. MaxLogins

\* They are kept by every step,
LEMMA OtherTypes ==
  ASSUME TypeOK, Wires, Next
  PROVE  Others'
  <1> USE Types
  <1>1. /\ Others /\ None \notin Ids
    BY Names DEF Others, TypeOK
  <1>2. SocketClosed(page) \in [Conns -> Lives]
    BY SocketClosedFacts
  <1>3. ASSUME NEW h \in Submits, Submit(h)
        PROVE  Others'
    <2>1. conn' \in [Conns -> Lives]
      BY <1>3, SubmitFacts DEF Keeps, NewSocket, Lives
    <2>2. QED
      BY <1>1, <1>3, <2>1, SubmitFacts DEF Others
  <1>4. CASE Reconnects
    <2>1. conn' \in [Conns -> Lives]
      BY <1>4, ReconnectsFacts DEF Keeps, NewSocket, Lives
    <2>2. QED
      BY <1>1, <1>4, <2>1, ReconnectsFacts DEF Others
  <1>5. CASE Decides
    <2>1. page.approval \in Ids \cup {None} /\ call' \in [Calls -> CallRecords]
      BY <1>5, CallFacts DEF Decides, Pages
    <2>2. QED
      BY <1>1, <1>5, <2>1 DEF Others, Decides, server, history
  <1>6. CASE LogsIn
    <2>1. call' \in [Calls -> CallRecords]
      BY <1>6, CallFacts DEF LogsIn
    <2>2. logins' \in 0 .. MaxLogins
      BY <1>1, <1>6, Names DEF LogsIn, Others
    <2>3. QED
      BY <1>1, <1>6, <2>1, <2>2 DEF Others, LogsIn, server
  <1>7. ASSUME NEW h \in Submits, SubmitAnswered(h)
        PROVE  Others'
    <2>1. h \in Calls /\ Done(h) /\ conn' \in [Conns -> Lives]
      BY <1>2, <1>7, Names DEF SubmitAnswered
    <2>2. slips' \subseteq Slips
      BY <1>1, <1>7 DEF SubmitAnswered, Slip, Slips, Others
    <2>3. UNCHANGED <<run, pending, log, registered, wire, seen, logins>>
      BY <1>7 DEF SubmitAnswered, server
    <2>4. QED
      BY <1>1, <2>1, <2>2, <2>3, DoneFacts DEF Others
  <1>8. CASE DecisionAnswered
    <2>1. Done(Decide) /\ conn' \in [Conns -> Lives]
      BY <1>2, <1>8 DEF DecisionAnswered
    <2>2. slips' \subseteq Slips
      BY <1>1, <1>8 DEF DecisionAnswered, Slip, Slips, Others
    <2>3. UNCHANGED <<run, pending, log, registered, wire, seen, logins>>
      BY <1>8 DEF DecisionAnswered, server
    <2>4. QED
      BY <1>1, <2>1, <2>2, <2>3, DoneFacts, Names DEF Others
  <1>9. CASE RefreshAnswered
    <2>1. Done(Reconnect) /\ slips' \subseteq Slips
      BY <1>1, <1>9 DEF RefreshAnswered, Slip, Slips, Others
    <2>2. UNCHANGED <<conn, run, pending, log, registered, wire, seen, logins>>
      BY <1>9 DEF RefreshAnswered, server
    <2>3. QED
      BY <1>1, <2>1, <2>2, DoneFacts, Names DEF Others
  <1>10. CASE LoginAnswered
    <2>1. Done(Login) /\ conn' \in [Conns -> Lives]
      BY <1>2, <1>10 DEF LoginAnswered
    <2>2. UNCHANGED <<run, pending, log, registered, wire, seen, slips, logins>>
      BY <1>10 DEF LoginAnswered, server
    <2>3. QED
      BY <1>1, <2>1, <2>2, DoneFacts, Names DEF Others
  <1>11. CASE Reload
    <2>1. conn' \in [Conns -> Lives] /\ call' \in [Calls -> CallRecords]
      BY <1>11, CallFacts DEF Reload, Lives
    <2>2. <<>> \in Seq(Messages)
      OBVIOUS
    <2>3. wire' \in [Conns -> Seq(Messages)]
      BY <1>11, <2>2 DEF Reload
    <2>4. slips' \subseteq Slips /\ seen' \in 0 .. MaxLog
      BY <1>1, <1>11, Names DEF Reload, Others
    <2>5. QED
      BY <1>1, <1>11, <2>1, <2>3, <2>4 DEF Others, Reload
  <1>12. ASSUME NEW c \in Conns, Opens(c)
         PROVE  Others'
    BY <1>1, <1>12 DEF Opens, Others, Lives, server, history
  <1>13. ASSUME NEW c \in Conns, Authenticated(c)
         PROVE  Others'
    <2>1. conn' \in [Conns -> Lives]
      BY <1>13, AuthenticatedFacts DEF Lives
    <2>2. QED
      BY <1>1, <1>13, <2>1, AuthenticatedFacts DEF Others
  <1>14. ASSUME NEW c \in Conns, Receives(c)
         PROVE  Others'
    <2>1. seen' \in 0 .. MaxLog
      BY <1>1, <1>14, ReceivesFacts DEF Others
    <2>2. slips' \subseteq Slips
      BY <1>1, <1>14, ReceivesFacts DEF Slips, Others
    <2>3. QED
      BY <1>1, <1>14, <2>1, <2>2, ReceivesFacts DEF Others
  <1>15. ASSUME NEW c \in Conns, NEW expired \in BOOLEAN, Closes(c, expired)
         PROVE  Others'
    <2>1. conn' \in [Conns -> Lives]
      BY <1>15, ClosesFacts DEF Lives
    <2>2. QED
      BY <1>1, <1>15, <2>1, ClosesFacts DEF Others
  <1>16. ASSUME NEW c \in Conns, Authenticates(c)
         PROVE  Others'
    <2> DEFINE s == <<AuthOk>> \o log
    <2>1. log \in Seq(Messages) /\ AuthOk \in Messages
      BY DEF Messages
    <2>2. s \in Seq(Messages)
      BY <2>1, FirstFacts
    <2>3. wire' = [wire EXCEPT ![c] = s]
      BY <1>16 DEF Authenticates
    <2> HIDE DEF s
    <2>4. wire' \in [Conns -> Seq(Messages)]
      BY <2>2, <2>3
    <2>5. QED
      BY <1>1, <1>16, <2>4 DEF Others, Authenticates, history
  <1>17. ASSUME TaskEnds \/ TaskAsks \/ TaskResumes
         PROVE  Others'
    <2>1. PICK e \in Event : Publish(e)
      BY <1>17, PublishFacts DEF TaskEnds, TaskAsks, TaskResumes, Event, Ev, Ids,
           Publish, Happened
    <2>2. pending' \in Ids \cup {None}
      BY <1>1, <1>17, <2>1, PublishFacts DEF TaskEnds, TaskAsks, TaskResumes, Ids, Others
    <2>3. slips' \subseteq Slips /\ run' \in {"none", "resuming", "taking", "working"}
      BY <1>1, <1>17 DEF TaskEnds, TaskAsks, TaskResumes, Others, history
    <2>4. UNCHANGED <<conn, call, registered, seen, logins>>
      BY <1>17 DEF TaskEnds, TaskAsks, TaskResumes, Others, history
    <2>5. QED
      BY <1>1, <2>1, <2>2, <2>3, <2>4, PublishFacts DEF Others
  <1>18. CASE TaskEndsSilently
    BY <1>1, <1>18 DEF TaskEndsSilently, Slip, Slips, Others
  <1>19. CASE TaskTakes
    BY <1>1, <1>19 DEF TaskTakes, Others, history
  <1>20. ASSUME NEW h \in Calls, NEW answer \in {"ok", "refused", "expired", "failed"},
                Reply(h, answer), pending' = pending, run' \in {run, "working", "resuming"}
         PROVE  Others'
    <2>1. /\ call' \in [Calls -> CallRecords]
          /\ UNCHANGED <<conn, log, registered, wire, seen, slips, logins>>
      BY <1>20, ReplyFacts DEF history
    <2>2. QED
      BY <1>1, <1>20, <2>1 DEF Others
  <1>21. ASSUME NEW h \in Submits, ServesSubmit(h)
         PROVE  Others'
    BY <1>20, <1>21, Names DEF ServesSubmit
  <1>22. CASE ServesDecision
    BY <1>20, <1>22, Names DEF ServesDecision
  <1>23. CASE ServesLogin
    BY <1>20, <1>23, Names DEF ServesLogin
  <1>24. ASSUME NEW h \in Calls, TurnsAway(h)
         PROVE  Others'
    BY <1>20, <1>24 DEF TurnsAway
  <1>25. CASE ServesRefresh
    <2>1. pending \in Ids \cup {None}
      BY <1>1 DEF Others
    <2> DEFINE r == [call[Reconnect] EXCEPT !.pc = "answered", !.answer = "ok",
                                            !.approval = pending]
    <2>2. call' = [call EXCEPT ![Reconnect] = r]
      BY <1>25 DEF ServesRefresh
    <2>5. PICK q \in CallRecords : q = call[Reconnect]
      BY Names
    <2>6. r \in CallRecords
      <3>1. [q EXCEPT !.pc = "answered", !.answer = "ok", !.approval = pending]
              \in CallRecords
        BY <2>1 DEF CallRecords
      <3>2. QED
        BY <2>5, <3>1
    <2> HIDE DEF r
    <2>3. call' \in [Calls -> CallRecords]
      BY <2>2, <2>6
    <2>4. UNCHANGED <<conn, run, pending, log, registered, wire, seen, slips, logins>>
      BY <1>25 DEF ServesRefresh, server, history
    <2>7. QED
      BY <1>1, <2>3, <2>4 DEF Others
  <1>26. ASSUME NEW h \in Calls, LosesAnswer(h)
         PROVE  Others'
    <2> DEFINE r == [call[h] EXCEPT !.answer = "failed"]
    <2>1. r \in CallRecords /\ call' = [call EXCEPT ![h] = r]
      BY <1>26 DEF LosesAnswer, CallRecords
    <2> HIDE DEF r
    <2>2. call' \in [Calls -> CallRecords]
      BY <2>1
    <2>3. UNCHANGED <<conn, run, pending, log, registered, wire, seen, slips, logins>>
      BY <1>26 DEF LosesAnswer, server, history
    <2>4. QED
      BY <1>1, <2>2, <2>3 DEF Others
  <1>27. QED
    BY <1>3, <1>4, <1>5, <1>6, <1>7, <1>8, <1>9, <1>10, <1>11, <1>12, <1>13, <1>14,
       <1>15, <1>16, <1>17, <1>18, <1>19, <1>21, <1>22, <1>23, <1>24, <1>25, <1>26
       DEF Next

\* and so is TypeOK.
LEMMA TypeStep ==
  ASSUME TypeOK, Wires, [Next]_vars
  PROVE  TypeOK'
  <1>1. CASE Next
    <2>1. /\ page' \in Pages /\ (page'.auth = "authenticated" => page'.token)
          /\ Others'
      BY <1>1, PageTypes, OtherTypes
    <2>2. QED
      BY <2>1 DEF TypeOK, Others, Pages, Lives, CallRecords, Messages
  <1>2. CASE UNCHANGED vars
    BY <1>2 DEF vars, server, history, TypeOK
  <1>3. QED
    BY <1>1, <1>2
-----------------------------------------------------------------------------
(* The wires.                                                               *)

\* How the life of a socket goes on when nothing is sent or received.
GoesOn(c) ==
  \/ conn'[c] = conn[c]
  \/ conn'[c] \in {"closing", "closed"}
  \/ conn[c] = "unused" /\ conn'[c] = "connecting"

\* Then what is on its way is still right,
LEMMA WiresGoOn ==
  ASSUME TypeOK, Wires, NEW c \in Conns, GoesOn(c), wire'[c] = wire[c],
         log' = log, registered' = c => registered = c
  PROVE  WireOf(c)'
  <1>1. WireOf(c)
    BY DEF Wires
  <1>2. CASE conn'[c] = conn[c]
    BY <1>1, <1>2 DEF WireOf, Listening, FromLog
  <1>3. CASE conn'[c] \in {"closing", "closed"}
    BY <1>3 DEF WireOf, Listening
  <1>4. CASE conn[c] = "unused" /\ conn'[c] = "connecting"
    BY <1>1, <1>4 DEF WireOf, Listening
  <1>5. QED
    BY <1>2, <1>3, <1>4 DEF GoesOn

\* and so it is after every step.
LEMMA WiresStep ==
  ASSUME TypeOK, Wires, [Next]_vars
  PROVE  Wires'
  <1> SUFFICES ASSUME NEW c \in Conns
               PROVE  WireOf(c)'
    BY DEF Wires
  <1>1. /\ WireOf(c) /\ conn \in [Conns -> Lives]
        /\ Len(log) \in Nat /\ DOMAIN log = 1 .. Len(log)
        /\ Len(wire[c]) \in Nat /\ DOMAIN wire[c] = 1 .. Len(wire[c])
    BY Types DEF Wires
  <1>2. ASSUME Keeps \/ Drops \/ NewSocket, UNCHANGED <<wire, log, registered>>
        PROVE  WireOf(c)'
    <2>1. CASE Keeps
      BY <1>2, <2>1, WiresGoOn DEF Keeps, GoesOn
    <2>2. CASE Drops
      BY <1>2, <2>2, WiresGoOn, SocketClosedFacts DEF Drops, GoesOn
    <2>3. CASE NewSocket
      BY <1>1, <1>2, <2>3, WiresGoOn DEF NewSocket, GoesOn
    <2>4. QED
      BY <1>2, <2>1, <2>2, <2>3
  <1>3. ASSUME UNCHANGED <<wire, log, registered, conn>>
        PROVE  WireOf(c)'
    BY <1>3, WiresGoOn DEF GoesOn
  <1>4. ASSUME NEW h \in Submits, Submit(h) \/ SubmitAnswered(h)
        PROVE  WireOf(c)'
    <2>1. Keeps \/ Drops \/ NewSocket
      BY <1>4, SubmitFacts, SubmitAnsweredFacts
    <2>2. UNCHANGED <<wire, log, registered>>
      BY <1>4 DEF Submit, SubmitAnswered, server
    <2>3. QED
      BY <1>2, <2>1, <2>2
  <1>5. CASE Reconnects \/ LoginAnswered
    <2>1. Keeps \/ Drops \/ NewSocket
      BY <1>5, ReconnectsFacts, LoginAnsweredFacts
    <2>2. UNCHANGED <<wire, log, registered>>
      BY <1>5 DEF Reconnects, LoginAnswered, server
    <2>3. QED
      BY <1>2, <2>1, <2>2
  <1>6. CASE DecisionAnswered
    <2>1. conn' = conn \/ Drops
      BY <1>6, DecisionAnsweredFacts DEF Keeps
    <2>2. UNCHANGED <<wire, log, registered>>
      BY <1>6 DEF DecisionAnswered, server
    <2>3. QED
      BY <1>2, <1>3, <2>1, <2>2
  <1>7. CASE Reload
    <2>1. conn'[c] \in {"unused", "closed"} /\ wire'[c] = <<>> /\ registered' = None
      BY <1>7 DEF Reload
    <2>2. QED
      BY <2>1, Names DEF WireOf, Listening
  <1>8. ASSUME NEW d \in Conns, Opens(d)
        PROVE  WireOf(c)'
    <2>1. /\ conn[d] = "connecting" /\ conn' = [conn EXCEPT ![d] = "authenticating"]
          /\ UNCHANGED <<wire, log, registered>>
      BY <1>8 DEF Opens, server
    <2>2. CASE c = d
      <3>1. wire'[c] = <<>> /\ registered' # c /\ conn'[c] = "authenticating"
        BY <1>1, <2>1, <2>2 DEF WireOf
      <3>2. DOMAIN wire'[c] = {}
        BY <3>1
      <3>3. QED
        BY <3>1, <3>2 DEF WireOf, Listening
    <2>3. CASE c # d
      BY <1>1, <2>1, <2>3, WiresGoOn DEF GoesOn
    <2>4. QED
      BY <2>2, <2>3
  <1>9. ASSUME NEW d \in Conns, Authenticates(d)
        PROVE  WireOf(c)'
    <2> DEFINE s == <<AuthOk>> \o log
    <2>1. /\ conn[d] = "authenticating" /\ conn' = conn /\ log' = log
          /\ registered' = d /\ wire' = [wire EXCEPT ![d] = s]
      BY <1>9 DEF Authenticates
    <2>2. /\ Len(s) = Len(log) + 1 /\ DOMAIN s = 1 .. Len(log) + 1
          /\ \A i \in DOMAIN log : s[i + 1] = log[i]
      <3>1. log \in Seq(Messages) /\ AuthOk \in Messages
        BY Types DEF Messages
      <3>2. QED
        BY <1>1, <3>1, FirstFacts
    <2> HIDE DEF s
    <2>3. CASE c = d
      <3>1. /\ wire'[c] = s /\ conn'[c] = "authenticating" /\ Len(log') = Len(log)
        BY <2>1, <2>3, Types
      <3>2. ASSUME NEW i \in DOMAIN s
            PROVE  i = 1 \/ (i - 1 \in DOMAIN log /\ s[i] = log[i - 1])
        <4>1. i = 1 \/ (i - 1 \in 1 .. Len(log) /\ i = (i - 1) + 1)
          BY <1>1, <2>2, <3>2
        <4>2. QED
          BY <1>1, <2>2, <4>1
      <3>3. \A i \in DOMAIN s : (\E j \in DOMAIN log : log[j] = s[i]) \/ i = 1
        BY <3>2
      <3>4. ASSUME NEW i \in DOMAIN s, Len(log) - Len(s) + i >= 1
            PROVE  s[i] = log[Len(log) - Len(s) + i]
        <4>1. Len(log) - Len(s) + i = i - 1
          BY <1>1, <2>2, <3>4
        <4>2. i # 1
          BY <1>1, <2>2, <3>4
        <4>3. QED
          BY <3>2, <4>1, <4>2
      <3>5. Len(s) <= Len(log) + 1
        BY <1>1, <2>2
      <3>6. QED
        BY <2>1, <2>2, <3>1, <3>3, <3>4, <3>5 DEF WireOf, Listening, FromLog
    <2>4. CASE c # d
      BY <1>1, <2>1, <2>4, Types, WiresGoOn DEF GoesOn
    <2>5. QED
      BY <2>3, <2>4
  <1>10. ASSUME NEW d \in Conns, Authenticated(d) \/ Receives(d)
         PROVE  WireOf(c)'
    <2>1. UNCHANGED <<log, registered>>
      BY <1>10, AuthenticatedFacts, ReceivesFacts
    <2>2. CASE c = d
      <3>0. /\ Len(wire[c]) > 0 /\ Len(wire'[c]) = Len(wire[c]) - 1
            /\ DOMAIN wire'[c] = 1 .. Len(wire[c]) - 1
            /\ \A i \in DOMAIN wire'[c] : i + 1 \in DOMAIN wire[c]
                                           /\ wire'[c][i] = wire[c][i + 1]
        <4>1. CASE Authenticated(c)
          BY <4>1, AuthenticatedFacts
        <4>2. CASE Receives(c)
          BY <4>2, ReceivesFacts
        <4>3. QED
          BY <1>10, <2>2, <4>1, <4>2
      <3>1. Listening(c) /\ conn'[c] = "open"
        <4>1. CASE Authenticated(c)
          BY <1>1, <4>1, AuthenticatedFacts DEF Listening
        <4>2. CASE Receives(c)
          BY <4>2, ReceivesFacts DEF Listening
        <4>3. QED
          BY <1>10, <2>2, <4>1, <4>2
      <3>2. ASSUME NEW i \in DOMAIN wire'[c]
            PROVE  \E j \in DOMAIN log' : log'[j] = wire'[c][i]
        <4>1. i \in 1 .. Len(wire[c]) - 1
          BY <3>0, <3>1, <3>2
        <4>2. i + 1 \in DOMAIN wire[c] /\ wire'[c][i] = wire[c][i + 1] /\ i + 1 # 1
          BY <1>1, <3>0, <3>1, <3>2, <4>1
        <4>3. FromLog(wire[c][i + 1])
          BY <1>1, <3>0, <3>1, <4>2 DEF WireOf
        <4>4. QED
          BY <2>1, <4>2, <4>3 DEF FromLog
      <3>3. ASSUME registered' = c
            PROVE  /\ Len(wire'[c]) <= Len(log) /\ Len(wire'[c]) <= Len(log) + 1
                   /\ \A i \in DOMAIN wire'[c] :
                        Len(log) - Len(wire'[c]) + i >= 1
                          => wire'[c][i] = log[Len(log) - Len(wire'[c]) + i]
        <4> DEFINE n == Len(log)
                   w == Len(wire[c])
                   v == Len(wire'[c])
        <4>1. /\ w <= n + 1
              /\ \A i \in DOMAIN wire[c] :
                   n - w + i >= 1 => wire[c][i] = log[n - w + i]
          BY <1>1, <2>1, <3>1, <3>3 DEF WireOf
        <4>2. n \in Nat /\ w \in Nat /\ v = w - 1
          BY <1>1, <3>0
        <4>3. DOMAIN wire'[c] = 1 .. w - 1
          BY <3>0
        <4> HIDE DEF n, w, v
        <4>4. ASSUME NEW i \in DOMAIN wire'[c], n - v + i >= 1
              PROVE  wire'[c][i] = log[n - v + i]
          <5>1. i \in Nat /\ n - w + (i + 1) = n - v + i
            BY <4>2, <4>3
          <5>2. i + 1 \in DOMAIN wire[c] /\ wire'[c][i] = wire[c][i + 1]
            BY <3>0
          <5>3. n - w + (i + 1) >= 1
            BY <4>4, <5>1
          <5>4. wire[c][i + 1] = log[n - w + (i + 1)]
            BY <4>1, <5>2, <5>3
          <5>5. QED
            BY <5>1, <5>2, <5>4
        <4>5. v <= n /\ v <= n + 1
          BY <4>1, <4>2
        <4>6. QED
          BY <4>4, <4>5 DEF n, v
      <3>4. ASSUME registered' = c
            PROVE  /\ Len(wire'[c]) <= Len(log') /\ Len(wire'[c]) <= Len(log') + 1
                   /\ \A i \in DOMAIN wire'[c] :
                        Len(log') - Len(wire'[c]) + i >= 1
                          => wire'[c][i] = log'[Len(log') - Len(wire'[c]) + i]
        BY <2>1, <3>3, <3>4
      <3>5. QED
        BY <3>1, <3>2, <3>4 DEF WireOf, Listening, FromLog
    <2>3. CASE c # d
      <3>1. conn'[c] = conn[c] /\ wire'[c] = wire[c]
        <4>1. CASE Authenticated(d)
          BY <1>1, <2>3, <4>1, AuthenticatedFacts
        <4>2. CASE Receives(d)
          BY <2>3, <4>2, ReceivesFacts
        <4>3. QED
          BY <1>10, <4>1, <4>2
      <3>2. QED
        BY <2>1, <3>1, WiresGoOn DEF GoesOn
    <2>4. QED
      BY <2>2, <2>3
  <1>11. ASSUME NEW d \in Conns, NEW expired \in BOOLEAN, Closes(d, expired)
         PROVE  WireOf(c)'
    <2>1. CASE c = d
      <3>1. conn'[c] = "closed"
        BY <1>1, <1>11, <2>1, ClosesFacts
      <3>2. QED
        BY <3>1 DEF WireOf, Listening
    <2>2. CASE c # d
      <3>1. /\ conn'[c] = conn[c] /\ wire'[c] = wire[c] /\ log' = log
            /\ registered' = c => registered = c
        BY <1>1, <1>11, <2>2, ClosesFacts, Names
      <3>2. QED
        BY <3>1, WiresGoOn DEF GoesOn
    <2>3. QED
      BY <2>1, <2>2
  <1>12. ASSUME TaskEnds \/ TaskAsks \/ TaskResumes
         PROVE  WireOf(c)'
    <2>1. PICK e \in Event : Publish(e)
      BY <1>12, Types, Names DEF TaskEnds, TaskAsks, TaskResumes, Event, Ev, Ids,
           Publish, Happened
    <2>2. conn' = conn /\ registered' = registered
      BY <1>12 DEF TaskEnds, TaskAsks, TaskResumes
    <2>3. /\ Len(log') = Len(log) + 1 /\ DOMAIN log' = 1 .. Len(log) + 1
          /\ log'[Len(log) + 1] = e /\ \A j \in DOMAIN log : log'[j] = log[j]
      BY <2>1, PublishFacts
    <2>4. ASSUME NEW m, FromLog(m)
          PROVE  \E j \in DOMAIN log' : log'[j] = m
      BY <1>1, <2>3, <2>4 DEF FromLog
    <2>5. CASE c = registered /\ Listening(c)
      <3>1. /\ Len(wire'[c]) = Len(wire[c]) + 1
            /\ DOMAIN wire'[c] = 1 .. Len(wire[c]) + 1
            /\ wire'[c][Len(wire[c]) + 1] = e
            /\ \A i \in DOMAIN wire[c] : wire'[c][i] = wire[c][i]
        BY <2>1, <2>5, PublishFacts
      <3>2. ASSUME NEW i \in DOMAIN wire'[c]
            PROVE  (\E j \in DOMAIN log' : log'[j] = wire'[c][i])
                     \/ (i = 1 /\ conn[c] = "authenticating")
        <4>1. CASE i = Len(wire[c]) + 1
          <5>1. Len(log) + 1 \in DOMAIN log'
            BY <1>1, <2>3
          <5>2. QED
            BY <2>3, <3>1, <4>1, <5>1
        <4>2. CASE i \in DOMAIN wire[c]
          BY <1>1, <2>4, <2>5, <3>1, <4>2 DEF WireOf
        <4>3. QED
          BY <1>1, <3>1, <3>2, <4>1, <4>2
      <3>3. ASSUME NEW i \in DOMAIN wire'[c], Len(log') - Len(wire'[c]) + i >= 1
            PROVE  wire'[c][i] = log'[Len(log') - Len(wire'[c]) + i]
        <4> DEFINE n == Len(log)
                   w == Len(wire[c])
                   j == n - w + i
        <4>0. /\ Len(log') = n + 1 /\ Len(wire'[c]) = w + 1
              /\ n \in Nat /\ w \in Nat /\ DOMAIN log = 1 .. n
              /\ DOMAIN wire[c] = 1 .. w /\ i \in 1 .. w + 1
              /\ wire'[c][w + 1] = e /\ log'[n + 1] = e
          BY <1>1, <2>3, <3>1
        <4>4. \A k \in DOMAIN wire[c] : n - w + k >= 1 => wire[c][k] = log[n - w + k]
          BY <1>1, <2>5 DEF WireOf
        <4> HIDE DEF n, w
        <4>1. j = Len(log') - Len(wire'[c]) + i
          BY <4>0
        <4>5. j >= 1
          BY <3>3, <4>1
        <4>2. CASE i = w + 1
          <5>1. j = n + 1
            BY <4>0, <4>2
          <5>2. QED
            BY <4>0, <4>1, <4>2, <5>1
        <4>3. CASE i \in DOMAIN wire[c]
          <5>1. wire[c][i] = log[j]
            BY <4>3, <4>4, <4>5
          <5>2. j \in DOMAIN log
            BY <4>0, <4>3, <4>5
          <5>3. QED
            BY <2>3, <3>1, <4>1, <4>3, <5>1, <5>2
        <4>6. QED
          BY <4>0, <4>2, <4>3
      <3>4. /\ Len(wire'[c]) <= Len(log') + 1
            /\ conn[c] = "open" => Len(wire'[c]) <= Len(log')
            /\ conn[c] = "authenticating" => Len(wire'[c]) = Len(log') + 1
        BY <1>1, <2>3, <2>5, <3>1 DEF WireOf
      <3>5. QED
        BY <2>2, <2>5, <3>2, <3>3, <3>4 DEF WireOf, Listening, FromLog
    <2>6. CASE ~ (c = registered /\ Listening(c))
      <3>1. wire'[c] = wire[c]
        BY <2>1, <2>6, PublishFacts
      <3>2. QED
        BY <1>1, <2>2, <2>4, <2>6, <3>1 DEF WireOf, Listening, FromLog
    <2>7. QED
      BY <2>5, <2>6
  <1>13. ASSUME \/ Decides \/ LogsIn \/ RefreshAnswered
                \/ TaskEndsSilently \/ TaskTakes
                \/ ServesDecision \/ ServesRefresh \/ ServesLogin
                \/ \E h \in Submits : ServesSubmit(h)
                \/ \E h \in Calls : TurnsAway(h) \/ LosesAnswer(h)
                \/ UNCHANGED vars
         PROVE  WireOf(c)'
    <2>1. UNCHANGED <<wire, log, registered, conn>>
      BY <1>13 DEF Decides, LogsIn, RefreshAnswered, TaskEndsSilently, TaskTakes,
                   ServesDecision, ServesRefresh, ServesLogin, ServesSubmit,
                   TurnsAway, LosesAnswer, Reply, vars, server
    <2>2. QED
      BY <1>3, <2>1
  <1>14. QED
    BY <1>4, <1>5, <1>6, <1>7, <1>8, <1>9, <1>10, <1>11, <1>12, <1>13 DEF Next
-----------------------------------------------------------------------------
(* The log and the approvals.                                               *)

\* A step of the page, of a socket, or of the network.
OfThePage ==
  /\ UNCHANGED <<run, pending, log>>
  /\ "silent" \in slips => "silent" \in slips'

\* Every step is one of the server's own or one of these.
LEMMA StepKinds ==
  ASSUME TypeOK, [Next]_vars
  PROVE  \/ TaskEnds \/ TaskEndsSilently \/ TaskAsks \/ TaskResumes \/ TaskTakes
         \/ ServesDecision \/ \E h \in Submits : ServesSubmit(h)
         \/ OfThePage
  <1>1. ASSUME NEW h \in Submits, Submit(h) \/ SubmitAnswered(h)
        PROVE  OfThePage
    BY <1>1 DEF Submit, SubmitAnswered, OfThePage, Slip, server, history
  <1>2. CASE Reconnects \/ Decides \/ LogsIn \/ Reload
    BY <1>2 DEF Reconnects, Decides, LogsIn, Reload, OfThePage, server, history
  <1>3. ASSUME NEW c \in Conns,
               Opens(c) \/ Authenticates(c) \/ Authenticated(c) \/ Receives(c)
        PROVE  OfThePage
    BY <1>3 DEF Opens, Authenticates, Authenticated, Receives, OfThePage, Slip,
                server, history
  <1>4. ASSUME NEW c \in Conns, NEW expired \in BOOLEAN, Closes(c, expired)
        PROVE  OfThePage
    BY <1>4, ClosesFacts DEF OfThePage
  <1>5. CASE DecisionAnswered \/ RefreshAnswered \/ LoginAnswered
    BY <1>5 DEF DecisionAnswered, RefreshAnswered, LoginAnswered, OfThePage, Slip,
                server
  <1>6. ASSUME \/ ServesRefresh \/ ServesLogin
               \/ \E h \in Calls : TurnsAway(h) \/ LosesAnswer(h)
        PROVE  OfThePage
    BY <1>6 DEF ServesRefresh, ServesLogin, TurnsAway, LosesAnswer, Reply, OfThePage,
                server, history
  <1>7. CASE UNCHANGED vars
    BY <1>7 DEF vars, server, history, OfThePage
  <1>8. QED
    BY <1>1, <1>2, <1>3, <1>4, <1>5, <1>6, <1>7 DEF Next

\* The event a Task publishes.
LEMMA TaskFacts ==
  ASSUME TypeOK
  PROVE  /\ TaskEnds =>
              \E e \in Event : Publish(e) /\ e.kind \in {"result", "error"}
         /\ TaskAsks =>
              \E e \in Event : Publish(e) /\ e.kind = "asks" /\ e.id = Len(log) + 1
         /\ TaskResumes =>
              \E e \in Event : Publish(e) /\ e.kind = "resumed"
  <1>1. ASSUME NEW kind \in {"result", "error", "resumed"}
        PROVE  Ev(kind, None) \in Event /\ Ev(kind, None).kind = kind
    BY DEF Ev, Event
  <1>2. ASSUME TaskEnds
        PROVE  \E e \in Event : Publish(e) /\ e.kind \in {"result", "error"}
    BY <1>1, <1>2 DEF TaskEnds
  <1>3. ASSUME TaskAsks
        PROVE  \E e \in Event : Publish(e) /\ e.kind = "asks" /\ e.id = Len(log) + 1
    <2>1. Happened < MaxLog /\ Len(log) \in Nat /\ MaxLog \in Nat
      BY <1>3, Types DEF TaskAsks, Publish
    <2>2. Len(log) + 1 \in Ids
      BY <2>1 DEF Happened, Ids
    <2> DEFINE e == Ev("asks", Len(log) + 1)
    <2>3. e \in Event /\ e.kind = "asks" /\ e.id = Len(log) + 1
      BY <2>2 DEF Ev, Event
    <2>4. Publish(e)
      BY <1>3 DEF TaskAsks
    <2> HIDE DEF e
    <2>5. QED
      BY <2>3, <2>4
  <1>4. ASSUME TaskResumes
        PROVE  \E e \in Event : Publish(e) /\ e.kind = "resumed"
    BY <1>1, <1>4 DEF TaskResumes
  <1>5. QED
    BY <1>2, <1>3, <1>4

\* What LogInv says of the log is kept by every step.
LEMMA LogStep ==
  ASSUME TypeOK, LogInv, AskInv, [Next]_vars
  PROVE  LogInv'
  <1>1. Len(log) \in Nat /\ DOMAIN log = 1 .. Len(log) /\ None \notin Ids
    BY Types, Names
  <1>2. ASSUME NEW e \in Event, Publish(e)
        PROVE  /\ Len(log') = Len(log) + 1 /\ Len(log) # Len(log) + 1
               /\ DOMAIN log' = 1 .. Len(log) + 1 /\ Len(log) + 1 \in DOMAIN log'
               /\ log'[Len(log) + 1] = e
               /\ \A j \in DOMAIN log : log'[j] = log[j] /\ j \in DOMAIN log'
               /\ \A j \in DOMAIN log' : j = Len(log) + 1 \/ j \in DOMAIN log
               /\ \A j \in DOMAIN log : j # Len(log) => j + 1 \in DOMAIN log
               /\ \A j \in DOMAIN log : j # Len(log) + 1
    <2>1. /\ Len(log') = Len(log) + 1 /\ DOMAIN log' = 1 .. Len(log) + 1
          /\ log'[Len(log) + 1] = e /\ \A j \in DOMAIN log : log'[j] = log[j]
      BY <1>2, PublishFacts
    <2> DEFINE n == Len(log)
    <2>2. n \in Nat /\ DOMAIN log = 1 .. n /\ DOMAIN log' = 1 .. n + 1
      BY <1>1, <2>1
    <2> HIDE DEF n
    <2>3. /\ n # n + 1 /\ n + 1 \in DOMAIN log'
          /\ \A j \in DOMAIN log : j \in DOMAIN log'
          /\ \A j \in DOMAIN log' : j = n + 1 \/ j \in DOMAIN log
          /\ \A j \in DOMAIN log : j # n => j + 1 \in DOMAIN log
          /\ \A j \in DOMAIN log : j # n + 1
      BY <2>2
    <2>4. QED
      BY <2>1, <2>3 DEF n
  <1>3. CASE TaskEnds
    <2>1. PICK e \in Event : Publish(e) /\ e.kind \in {"result", "error"}
      BY <1>3, TaskFacts
    <2>2. run = "working" /\ run' = "none" /\ pending' = pending /\ pending = None
      BY <1>3 DEF TaskEnds, LogInv
    <2>3. ~ Asking(Len(log))
      BY <2>2 DEF LogInv
    <2>4. \A j \in DOMAIN log' : Asking(j)' <=> Asking(j) /\ j \in DOMAIN log
      BY <1>2, <2>1 DEF Asking
    <2>5. ASSUME NEW j \in DOMAIN log', Asking(j)'
          PROVE  log'[j].id = j /\ (j # Len(log') => log'[j + 1].kind = "resumed")
      <3>1. j \in DOMAIN log /\ Asking(j) /\ j # Len(log)
        BY <2>3, <2>4, <2>5
      <3>2. j + 1 \in DOMAIN log /\ log[j].id = j /\ log[j + 1].kind = "resumed"
        BY <1>2, <2>1, <3>1 DEF LogInv
      <3>3. QED
        BY <1>2, <2>1, <3>1, <3>2
    <2>6. ~ Asking(Len(log))' /\ log'[Len(log')].kind # "resumed"
      BY <1>2, <2>1 DEF Asking
    <2>7. QED
      BY <2>2, <2>5, <2>6 DEF LogInv
  <1>4. CASE TaskAsks
    <2>1. PICK e \in Event : Publish(e) /\ e.kind = "asks" /\ e.id = Len(log) + 1
      BY <1>4, TaskFacts
    <2>2. /\ run = "working" /\ run' = "none" /\ pending' = Len(log) + 1
      BY <1>4 DEF TaskAsks
    <2>3. ~ Asking(Len(log))
      BY <2>2 DEF LogInv
    <2>4. ASSUME NEW j \in DOMAIN log', Asking(j)'
          PROVE  log'[j].id = j /\ (j # Len(log') => log'[j + 1].kind = "resumed")
      <3>1. CASE j = Len(log) + 1
        BY <1>2, <2>1, <3>1
      <3>2. CASE j \in DOMAIN log
        <4>1. Asking(j) /\ j # Len(log)
          BY <1>2, <2>1, <2>3, <2>4, <3>2 DEF Asking
        <4>2. j + 1 \in DOMAIN log /\ log[j].id = j /\ log[j + 1].kind = "resumed"
          BY <1>2, <2>1, <3>2, <4>1 DEF LogInv
        <4>3. QED
          BY <1>2, <2>1, <3>2, <4>2
      <3>3. QED
        BY <1>2, <2>1, <2>4, <3>1, <3>2
    <2>5. Asking(pending)' /\ pending' = Len(log') /\ log'[Len(log')].kind = "asks"
      BY <1>2, <2>1, <2>2 DEF Asking
    <2>6. QED
      BY <2>2, <2>4, <2>5 DEF LogInv
  <1>5. CASE TaskResumes
    <2>1. PICK e \in Event : Publish(e) /\ e.kind = "resumed"
      BY <1>5, TaskFacts
    <2>2. run = "resuming" /\ run' = "taking" /\ pending' = pending
      BY <1>5 DEF TaskResumes
    <2>3. pending = Len(log) /\ Asking(pending) /\ pending \in DOMAIN log
      BY <2>2 DEF LogInv, Asking
    <2>4. ASSUME NEW j \in DOMAIN log', Asking(j)'
          PROVE  log'[j].id = j /\ (j # Len(log') => log'[j + 1].kind = "resumed")
      <3>1. j \in DOMAIN log /\ Asking(j)
        BY <1>2, <2>1, <2>4 DEF Asking
      <3>2. CASE j = Len(log)
        BY <1>2, <2>1, <3>1, <3>2 DEF LogInv
      <3>3. CASE j # Len(log)
        <4>1. j + 1 \in DOMAIN log /\ log[j].id = j /\ log[j + 1].kind = "resumed"
          BY <1>2, <2>1, <3>1, <3>3 DEF LogInv
        <4>2. QED
          BY <1>2, <2>1, <3>1, <4>1
      <3>4. QED
        BY <3>2, <3>3
    <2>5. ~ Asking(Len(log))' /\ Asking(pending)'
      BY <1>2, <2>1, <2>2, <2>3 DEF Asking
    <2>6. QED
      BY <2>2, <2>4, <2>5 DEF LogInv
  <1>6. CASE TaskEndsSilently
    <2>1. /\ run = "working" /\ run' = "none" /\ log' = log /\ pending' = pending
          /\ slips' = slips \cup {"silent"}
      BY <1>6 DEF TaskEndsSilently, Slip
    <2>2. \A j : Asking(j)' <=> Asking(j)
      BY <2>1 DEF Asking
    <2>3. pending = None /\ ~ Asking(Len(log))
      BY <2>1 DEF LogInv
    <2>4. QED
      BY <2>1, <2>2, <2>3 DEF LogInv
  <1>7. CASE TaskTakes
    <2>1. /\ run = "taking" /\ run' = "working" /\ log' = log /\ pending' = None
      BY <1>7 DEF TaskTakes
    <2>2. \A j : Asking(j)' <=> Asking(j)
      BY <2>1 DEF Asking
    <2>3. ~ Asking(Len(log))
      BY <2>1 DEF LogInv
    <2>4. QED
      BY <2>1, <2>2, <2>3 DEF LogInv
  <1>8. ASSUME NEW h \in Submits, ServesSubmit(h)
        PROVE  LogInv'
    <2>1. /\ log' = log /\ pending' = pending /\ slips' = slips
          /\ run' = run \/ (run = "none" /\ pending = None /\ run' = "working")
      BY <1>8 DEF ServesSubmit, Reply, history
    <2>2. \A j : Asking(j)' <=> Asking(j)
      BY <2>1 DEF Asking
    <2>3. CASE run' = run
      BY <2>1, <2>2, <2>3 DEF LogInv
    <2>4. CASE run = "none" /\ pending = None /\ run' = "working"
      <3>1. ~ Asking(Len(log))
        <4>1. Len(log) # None \/ ~ Asking(Len(log))
          BY <1>1, Types DEF Asking, Ids
        <4>2. QED
          BY <2>4, <4>1 DEF LogInv
      <3>2. QED
        BY <2>1, <2>2, <2>4, <3>1 DEF LogInv
    <2>5. QED
      BY <2>1, <2>3, <2>4
  <1>9. CASE ServesDecision
    <2>1. /\ log' = log /\ pending' = pending /\ slips' = slips
          /\ run = "none" /\ call[Decide].pc = "asked"
          /\ run' = IF pending = call[Decide].approval THEN "resuming" ELSE "none"
      BY <1>9 DEF ServesDecision, Reply, history
    <2>2. \A j : Asking(j)' <=> Asking(j)
      BY <2>1 DEF Asking
    <2>3. Asking(call[Decide].approval) /\ call[Decide].approval # None
      <3>1. Asking(call[Decide].approval)
        BY <2>1 DEF AskInv
      <3>2. QED
        BY <1>1, <3>1, Types DEF Asking, Ids
    <2>4. run' = "none" \/ (run' = "resuming" /\ pending # None)
      BY <2>1, <2>3
    <2>5. QED
      BY <2>1, <2>2, <2>4 DEF LogInv
  <1>10. CASE OfThePage
    <2>1. \A j : Asking(j)' <=> Asking(j)
      BY <1>10 DEF Asking, OfThePage
    <2>2. QED
      BY <1>10, <2>1 DEF LogInv, OfThePage
  <1>11. QED
    BY <1>3, <1>4, <1>5, <1>6, <1>7, <1>8, <1>9, <1>10, StepKinds
\* A question, after the step.
AskedLater(j) == j \in DOMAIN log' /\ log'[j].kind = "asks"

\* A question stays in the log.
LEMMA AskingStays ==
  ASSUME TypeOK, [Next]_vars, NEW j, Asking(j)
  PROVE  Asking(j)' /\ AskedLater(j) /\ (j # Len(log') \/ log' = log)
  <1>1. CASE log' = log
    BY <1>1 DEF Asking, AskedLater
  <1>2. ASSUME NEW e \in Event, Publish(e)
        PROVE  Asking(j)' /\ AskedLater(j) /\ j # Len(log')
    <2>1. /\ Len(log') = Len(log) + 1 /\ DOMAIN log' = 1 .. Len(log) + 1
          /\ \A k \in DOMAIN log : log'[k] = log[k]
      BY <1>2, PublishFacts
    <2>2. j \in 1 .. Len(log) /\ Len(log) \in Nat
      BY Types DEF Asking
    <2>3. j \in DOMAIN log' /\ j # Len(log')
      BY <2>1, <2>2
    <2>4. QED
      BY <2>1, <2>3 DEF Asking, AskedLater
  <1>3. CASE TaskEnds \/ TaskAsks \/ TaskResumes
    BY <1>2, <1>3, TaskFacts
  <1>4. CASE \/ TaskEndsSilently \/ TaskTakes
             \/ ServesDecision \/ (\E h \in Submits : ServesSubmit(h)) \/ OfThePage
    <2>1. log' = log
      BY <1>4 DEF TaskEndsSilently, TaskTakes, ServesDecision, ServesSubmit, Reply,
                  OfThePage
    <2>2. QED
      BY <1>1, <2>1
  <1>5. QED
    BY <1>3, <1>4, StepKinds

\* The conjuncts of AskInv that each step must keep, one by one.
CallsAsk ==
  /\ call[Decide].pc # "connecting" /\ call[Login].pc # "connecting"
  /\ call[Decide].pc # "none" => Asking(call[Decide].approval)
  /\ call[Reconnect].approval # None => Asking(call[Reconnect].approval)
Accepted ==
  Answered(Decide) /\ Answer(Decide) = "ok" =>
    call[Decide].approval # Len(log) \/ run = "resuming"
CardAsks == page.approval # None => Asking(page.approval)

\* What the calls name is kept,
LEMMA CallsAskStep ==
  ASSUME TypeOK, Wires, LogInv, AskInv, [Next]_vars
  PROVE  CallsAsk'
  <1> DEFINE Same(g) == call'[g].pc = call[g].pc /\ call'[g].approval = call[g].approval
             Idle(g) == call'[g].pc \in {"none", "asked"} /\ call'[g].approval = None
             Free(g) == call'[g].pc = "none" /\ call'[g].approval = None
  <1>1. /\ CallsAsk /\ Decide \in Calls /\ Login \in Calls /\ Reconnect \in Calls
        /\ Decide # Login /\ Decide # Reconnect /\ Login # Reconnect
        /\ Submits \subseteq Calls
        /\ \A h \in Submits : h # Decide /\ h # Login /\ h # Reconnect
        /\ call \in [Calls -> CallRecords]
    BY Names, Types DEF CallsAsk, AskInv
  <1>2. ASSUME Same(Decide) \/ Free(Decide), Same(Login) \/ Idle(Login),
               Same(Reconnect) \/ call'[Reconnect].approval = None
        PROVE  CallsAsk'
    <2>1. call'[Decide].pc # "none" => AskedLater(call'[Decide].approval)
      BY <1>1, <1>2, AskingStays DEF CallsAsk
    <2>2. call'[Reconnect].approval # None => AskedLater(call'[Reconnect].approval)
      BY <1>1, <1>2, AskingStays DEF CallsAsk
    <2>3. call'[Decide].pc # "connecting" /\ call'[Login].pc # "connecting"
      BY <1>1, <1>2 DEF CallsAsk
    <2>4. QED
      BY <2>1, <2>2, <2>3 DEF CallsAsk, Asking, AskedLater
  <1>3. ASSUME NEW h \in Calls, Done(h)
        PROVE  CallsAsk'
    <2>1. call'[h] = NoCall /\ \A g \in Calls \ {h} : call'[g] = call[g]
      BY <1>3, DoneFacts
    <2>2. \A g \in Calls : Same(g) \/ Free(g)
      BY <2>1, CallFacts
    <2>3. QED
      BY <1>1, <1>2, <2>2
  <1>4. ASSUME NEW h \in Submits, Submit(h) \/ SubmitAnswered(h) \/ ServesSubmit(h)
        PROVE  CallsAsk'
    <2>1. \A g \in Calls \ {h} : call'[g] = call[g]
      <3>1. CASE Submit(h)
        BY <3>1, SubmitFacts
      <3>2. CASE SubmitAnswered(h)
        BY <1>1, <3>2, DoneFacts DEF SubmitAnswered
      <3>3. CASE ServesSubmit(h)
        BY <1>1, <3>3, ReplyFacts DEF ServesSubmit
      <3>4. QED
        BY <1>4, <3>1, <3>2, <3>3
    <2>2. QED
      BY <1>1, <1>2, <2>1
  <1>5. CASE Reconnects
    <2>1. /\ call'[Reconnect].approval = None
          /\ \A g \in Calls \ {Reconnect} : call'[g] = call[g]
      BY <1>5, ReconnectsFacts
    <2>2. QED
      BY <1>1, <1>2, <2>1
  <1>6. CASE Decides
    <2>1. /\ page.approval # None
          /\ call' = [call EXCEPT ![Decide] = Asked(page.approval)]
      BY <1>6 DEF Decides
    <2>2. page.approval \in Ids \cup {None}
      BY Types DEF Pages
    <2>3. /\ call'[Decide].pc = "asked" /\ call'[Decide].approval = page.approval
          /\ call'[Login] = call[Login] /\ call'[Reconnect] = call[Reconnect]
      BY <1>1, <2>1, <2>2, CallFacts
    <2>4. Asking(page.approval)
      BY <2>1 DEF AskInv
    <2>5. AskedLater(call'[Decide].approval)
      BY <2>3, <2>4, AskingStays
    <2>6. call'[Reconnect].approval # None => AskedLater(call'[Reconnect].approval)
      BY <1>1, <2>3, AskingStays DEF CallsAsk
    <2>7. QED
      BY <1>1, <2>3, <2>5, <2>6 DEF CallsAsk, Asking, AskedLater
  <1>7. CASE LogsIn
    <2>1. call' = [call EXCEPT ![Login] = Asked(None)]
      BY <1>7 DEF LogsIn
    <2>2. Idle(Login) /\ Same(Decide) /\ Same(Reconnect)
      BY <1>1, <2>1, CallFacts
    <2>3. QED
      BY <1>2, <2>2
  <1>8. CASE DecisionAnswered \/ RefreshAnswered \/ LoginAnswered
    BY <1>1, <1>3, <1>8 DEF DecisionAnswered, RefreshAnswered, LoginAnswered
  <1>9. CASE Reload
    <2>1. \A g \in Calls : call'[g] = NoCall
      BY <1>9 DEF Reload
    <2>2. \A g \in Calls : Free(g)
      BY <2>1, CallFacts
    <2>3. QED
      BY <1>1, <1>2, <2>2
  <1>10. ASSUME NEW c \in Conns, Authenticated(c)
         PROVE  CallsAsk'
    <2>1. \A h \in Calls :
            \/ call'[h] = call[h]
            \/ /\ call[h].pc = "connecting" /\ call'[h].pc = "asked"
               /\ call'[h].approval = None
      BY <1>10, AuthenticatedFacts
    <2>2. Same(Decide) /\ Same(Login)
      BY <1>1, <2>1 DEF CallsAsk
    <2>3. Same(Reconnect) \/ call'[Reconnect].approval = None
      BY <1>1, <2>1
    <2>4. QED
      BY <1>2, <2>2, <2>3
  <1>11. ASSUME NEW c \in Conns, NEW expired \in BOOLEAN, Closes(c, expired)
         PROVE  CallsAsk'
    <2>1. \A h \in Calls : call'[h] = NoCall \/ call'[h] = call[h]
      BY <1>11, ClosesFacts
    <2>2. \A h \in Calls : Same(h) \/ Free(h)
      BY <2>1, CallFacts
    <2>3. QED
      BY <1>1, <1>2, <2>2
  <1>12. ASSUME \/ ServesDecision \/ ServesLogin
                \/ \E h \in Calls : TurnsAway(h) \/ LosesAnswer(h)
         PROVE  CallsAsk'
    <2>1. ASSUME NEW h \in Calls, NEW answer \in {"ok", "refused", "expired", "failed"},
                 Reply(h, answer)
          PROVE  \A g \in Calls :
                   \/ Same(g)
                   \/ /\ call[g].pc = "asked" /\ call'[g].pc = "answered"
                      /\ call'[g].approval = call[g].approval
      BY <2>1, ReplyFacts
    <2>2. ASSUME NEW h \in Calls, LosesAnswer(h)
          PROVE  \A g \in Calls : Same(g)
      BY <1>1, <2>2 DEF LosesAnswer, CallRecords
    <2>3. \A g \in Calls :
            \/ Same(g)
            \/ /\ call[g].pc = "asked" /\ call'[g].pc = "answered"
               /\ call'[g].approval = call[g].approval
      BY <1>1, <1>12, <2>1, <2>2 DEF ServesDecision, ServesLogin, TurnsAway
    <2>4. /\ call'[Decide].pc # "none" => AskedLater(call'[Decide].approval)
          /\ call'[Reconnect].approval # None => AskedLater(call'[Reconnect].approval)
      BY <1>1, <2>3, AskingStays DEF CallsAsk
    <2>5. call'[Decide].pc # "connecting" /\ call'[Login].pc # "connecting"
      BY <1>1, <2>3 DEF CallsAsk
    <2>6. QED
      BY <2>4, <2>5 DEF CallsAsk, Asking, AskedLater
  <1>13. CASE ServesRefresh
    <2>1. call' = [call EXCEPT ![Reconnect] =
                     [call[Reconnect] EXCEPT !.pc = "answered", !.answer = "ok",
                                             !.approval = pending]]
      BY <1>13 DEF ServesRefresh
    <2>2. /\ call'[Decide] = call[Decide] /\ call'[Login] = call[Login]
          /\ call'[Reconnect].approval = pending
      BY <1>1, <2>1 DEF CallRecords
    <2>3. pending # None => Asking(pending)
      BY DEF LogInv
    <2>4. /\ call'[Decide].pc # "none" => AskedLater(call'[Decide].approval)
          /\ call'[Reconnect].approval # None => AskedLater(call'[Reconnect].approval)
      BY <1>1, <2>2, <2>3, AskingStays DEF CallsAsk
    <2>5. QED
      BY <1>1, <2>2, <2>4 DEF CallsAsk, Asking, AskedLater
  <1>14. ASSUME \/ \E c \in Conns : Opens(c) \/ Authenticates(c) \/ Receives(c)
                \/ TaskEnds \/ TaskEndsSilently \/ TaskAsks \/ TaskResumes
                \/ TaskTakes \/ UNCHANGED vars
         PROVE  CallsAsk'
    <2>1. call' = call
      BY <1>14 DEF Opens, Authenticates, Receives, TaskEnds, TaskEndsSilently,
                   TaskAsks, TaskResumes, TaskTakes, vars
    <2>2. QED
      BY <1>2, <2>1
  <1>15. QED
    BY <1>4, <1>5, <1>6, <1>7, <1>8, <1>9, <1>10, <1>11, <1>12, <1>13, <1>14 DEF Next
\* Only the server makes a decision accepted.
LEMMA DecisionKinds ==
  ASSUME TypeOK, Wires, AskInv, [Next]_vars,
         call'[Decide].pc = "answered", call'[Decide].answer = "ok"
  PROVE  call'[Decide] = call[Decide] \/ ServesDecision
  <1>1. /\ Decide \in Calls /\ Login \in Calls /\ Reconnect \in Calls
        /\ Decide # Login /\ Decide # Reconnect
        /\ \A h \in Submits : h # Decide /\ h \in Calls
        /\ call \in [Calls -> CallRecords]
    BY Names, Types
  <1>2. ASSUME NEW h \in Submits, Submit(h) \/ SubmitAnswered(h) \/ ServesSubmit(h)
        PROVE  call'[Decide] = call[Decide]
    <2>1. CASE Submit(h)
      BY <1>1, <2>1, SubmitFacts
    <2>2. CASE SubmitAnswered(h)
      BY <1>1, <2>2, DoneFacts DEF SubmitAnswered
    <2>3. CASE ServesSubmit(h)
      BY <1>1, <2>3, ReplyFacts DEF ServesSubmit
    <2>4. QED
      BY <1>2, <2>1, <2>2, <2>3
  <1>3. CASE Reconnects
    BY <1>1, <1>3, ReconnectsFacts
  <1>4. CASE Decides
    <2>1. page.approval \in Ids \cup {None}
      BY Types DEF Pages
    <2>2. call'[Decide].pc = "asked"
      BY <1>1, <1>4, <2>1, CallFacts DEF Decides
    <2>3. QED
      BY <2>2
  <1>5. CASE LogsIn
    BY <1>1, <1>5 DEF LogsIn
  <1>6. CASE DecisionAnswered
    <2>1. call'[Decide].pc = "none"
      BY <1>1, <1>6, DoneFacts, CallFacts DEF DecisionAnswered
    <2>2. QED
      BY <2>1
  <1>7. CASE RefreshAnswered \/ LoginAnswered
    BY <1>1, <1>7, DoneFacts DEF RefreshAnswered, LoginAnswered
  <1>8. CASE Reload
    <2>1. call'[Decide].pc = "none"
      BY <1>1, <1>8, CallFacts DEF Reload
    <2>2. QED
      BY <2>1
  <1>9. ASSUME NEW c \in Conns, Authenticated(c)
        PROVE  call'[Decide] = call[Decide]
    BY <1>1, <1>9, AuthenticatedFacts DEF AskInv
  <1>10. ASSUME NEW c \in Conns, NEW expired \in BOOLEAN, Closes(c, expired)
         PROVE  call'[Decide] = call[Decide]
    <2>1. call'[Decide] = NoCall \/ call'[Decide] = call[Decide]
      BY <1>1, <1>10, ClosesFacts
    <2>2. QED
      BY <2>1, CallFacts
  <1>11. CASE ServesRefresh
    BY <1>1, <1>11 DEF ServesRefresh
  <1>12. CASE ServesLogin
    BY <1>1, <1>12, ReplyFacts DEF ServesLogin
  <1>13. ASSUME NEW h \in Calls, TurnsAway(h)
         PROVE  call'[Decide] = call[Decide]
    <2>1. PICK answer \in {"expired", "failed"} : Reply(h, answer)
      BY <1>13 DEF TurnsAway
    <2>2. /\ call'[h].answer = answer
          /\ \A g \in Calls \ {h} : call'[g] = call[g]
      BY <2>1, ReplyFacts
    <2>3. QED
      BY <1>1, <2>2
  <1>14. ASSUME NEW h \in Calls, LosesAnswer(h)
         PROVE  call'[Decide] = call[Decide]
    <2>1. call' = [call EXCEPT ![h].answer = "failed"]
      BY <1>14 DEF LosesAnswer
    <2>2. CASE h = Decide
      <3>1. call'[Decide].answer = "failed"
        BY <1>1, <2>1, <2>2 DEF CallRecords
      <3>2. QED
        BY <3>1
    <2>3. CASE h # Decide
      BY <1>1, <2>1, <2>3
    <2>4. QED
      BY <2>2, <2>3
  <1>15. ASSUME \/ \E c \in Conns : Opens(c) \/ Authenticates(c) \/ Receives(c)
                \/ TaskEnds \/ TaskEndsSilently \/ TaskAsks \/ TaskResumes
                \/ TaskTakes \/ UNCHANGED vars
         PROVE  call'[Decide] = call[Decide]
    BY <1>15 DEF Opens, Authenticates, Receives, TaskEnds, TaskEndsSilently,
                 TaskAsks, TaskResumes, TaskTakes, vars
  <1>16. QED
    BY <1>2, <1>3, <1>4, <1>5, <1>6, <1>7, <1>8, <1>9, <1>10, <1>11, <1>12, <1>13,
       <1>14, <1>15 DEF Next

\* An accepted one is not open: its event is in the log or still to come.
LEMMA AcceptedStep ==
  ASSUME TypeOK, Wires, LogInv, AskInv, [Next]_vars
  PROVE  Accepted'
  <1> SUFFICES ASSUME call'[Decide].pc = "answered", call'[Decide].answer = "ok"
               PROVE  call'[Decide].approval # Len(log') \/ run' = "resuming"
    BY DEF Accepted, Answered, Answer
  <1>1. CASE ServesDecision
    <2>1. /\ call[Decide].pc = "asked" /\ log' = log /\ run = "none"
          /\ call'[Decide].approval = call[Decide].approval
          /\ run' = IF pending = call[Decide].approval THEN "resuming" ELSE "none"
      BY <1>1, ReplyFacts, Names DEF ServesDecision
    <2>2. Asking(call[Decide].approval)
      BY <2>1 DEF AskInv
    <2>3. call[Decide].approval = Len(log) => pending = Len(log)
      BY <2>2 DEF LogInv
    <2>4. QED
      BY <2>1, <2>3
  <1>2. CASE call'[Decide] = call[Decide]
    <2>1. /\ Asking(call[Decide].approval)
          /\ call[Decide].approval # Len(log) \/ run = "resuming"
      BY <1>2 DEF AskInv, Answered, Answer
    <2>2. call[Decide].approval # Len(log') \/ log' = log
      BY <2>1, AskingStays
    <2>3. CASE run = "resuming" /\ ~ TaskResumes
      <3>1. run' = run
        <4>1. ~ TaskEnds /\ ~ TaskAsks /\ ~ TaskEndsSilently /\ ~ TaskTakes
              /\ ~ ServesDecision
          BY <2>3 DEF TaskEnds, TaskAsks, TaskEndsSilently, TaskTakes, ServesDecision
        <4>2. \A h \in Submits : ServesSubmit(h) => run' = run
          BY <2>3 DEF ServesSubmit
        <4>3. OfThePage => run' = run
          BY DEF OfThePage
        <4>4. QED
          BY <2>3, <4>1, <4>2, <4>3, StepKinds
      <3>2. QED
        BY <2>3, <3>1
    <2>4. CASE TaskResumes
      <3>1. log' # log
        <4>1. PICK e \in Event : Publish(e)
          BY <2>4, TaskFacts
        <4>2. Len(log') = Len(log) + 1
          BY <4>1, PublishFacts
        <4>3. QED
          BY <4>2, Types
      <3>2. QED
        BY <1>2, <2>2, <3>1
    <2>5. QED
      BY <1>2, <2>1, <2>2, <2>3, <2>4
  <1>3. QED
    BY <1>1, <1>2, DecisionKinds

\* What the card names is a question of the log.
LEMMA CardAsksStep ==
  ASSUME TypeOK, Wires, LogInv, AskInv, [Next]_vars
  PROVE  CardAsks'
  <1>1. ASSUME page'.approval = None \/ Asking(page'.approval)
        PROVE  CardAsks'
    BY <1>1, AskingStays DEF CardAsks, Asking, AskedLater
  <1>2. ASSUME page'.approval = page.approval
        PROVE  page'.approval = None \/ Asking(page'.approval)
    BY <1>2 DEF AskInv
  <1>3. ASSUME NEW h \in Submits, Submit(h) \/ SubmitAnswered(h)
        PROVE  page'.approval = page.approval
    BY <1>3, SubmitFacts, SubmitAnsweredFacts DEF Keeps, Drops, NewSocket
  <1>4. CASE Reconnects \/ LoginAnswered
    <2>1. page'.approval = page.approval
      BY <1>4, ReconnectsFacts, LoginAnsweredFacts DEF Keeps, Drops, NewSocket
    <2>2. QED
      BY <1>1, <1>2, <2>1
  <1>5. CASE DecisionAnswered
    <2>1. page'.approval \in {page.approval, None}
      BY <1>5, DecisionAnsweredFacts DEF Keeps, Drops
    <2>2. QED
      BY <1>1, <1>2, <2>1
  <1>6. CASE RefreshAnswered
    <2>1. CASE page' = page
      BY <1>1, <1>2, <2>1
    <2>2. CASE /\ call[Reconnect].approval # None
               /\ page' = Handled(page, Ev("asks", call[Reconnect].approval))
      <3>1. Asking(call[Reconnect].approval)
        BY <2>2 DEF AskInv
      <3>2. PICK id \in Ids : id = call[Reconnect].approval
        BY <2>2, Types, Names DEF CallRecords
      <3> DEFINE e == Ev("asks", id)
      <3>3. e.kind = "asks" /\ e.id = id
        BY DEF Ev
      <3>4. page' = Handled(page, e) /\ page \in Pages
        BY <2>2, <3>2, Types
      <3> HIDE DEF e
      <3>5. page'.approval = id
        BY <3>3, <3>4, HandledFacts
      <3>6. QED
        BY <1>1, <3>1, <3>2, <3>5
    <2>3. QED
      BY <1>6, <2>1, <2>2 DEF RefreshAnswered
  <1>7. CASE Reload
    BY <1>1, <1>7 DEF Reload, Loaded
  <1>8. ASSUME NEW c \in Conns, Receives(c)
        PROVE  CardAsks'
    <2>1. PICK e \in Event : FromLog(e) /\ page' = Handled(page, e)
      BY <1>8, ReceivesFacts
    <2>2. page'.approval = CASE e.kind = "asks" -> e.id
                             [] e.kind = "resumed" -> None
                             [] OTHER -> page.approval
      BY <2>1, Types, EventKinds, HandledFacts
    <2>3. e.kind = "asks" => Asking(e.id)
      BY <2>1 DEF FromLog, Asking, LogInv
    <2>4. page'.approval = None \/ Asking(page'.approval)
      BY <1>2, <2>2, <2>3
    <2>5. QED
      BY <1>1, <2>4
  <1>9. ASSUME NEW c \in Conns, NEW expired \in BOOLEAN, Closes(c, expired)
        PROVE  page'.approval = page.approval
    BY <1>9, ClosesFacts, ClosedFacts, Types
  <1>10. ASSUME NEW c \in Conns, Authenticated(c)
         PROVE  page'.approval = page.approval
    BY <1>10, AuthenticatedFacts
  <1>11. ASSUME \/ Decides \/ LogsIn \/ \E c \in Conns : Opens(c)
         PROVE  page'.approval = page.approval
    <2>1. page \in Pages
      BY Types
    <2>2. QED
      BY <1>11, <2>1 DEF Decides, LogsIn, Opens, Pages
  <1>12. ASSUME \/ \E c \in Conns : Authenticates(c)
                \/ TaskEnds \/ TaskEndsSilently \/ TaskAsks \/ TaskResumes
                \/ TaskTakes \/ ServesDecision \/ ServesRefresh \/ ServesLogin
                \/ \E h \in Submits : ServesSubmit(h)
                \/ \E h \in Calls : TurnsAway(h) \/ LosesAnswer(h)
                \/ UNCHANGED vars
         PROVE  page' = page
    BY <1>12 DEF Authenticates, TaskEnds, TaskEndsSilently, TaskAsks, TaskResumes,
                 TaskTakes, ServesDecision, ServesRefresh, ServesLogin, ServesSubmit,
                 TurnsAway, LosesAnswer, Reply, vars
  <1>13. QED
    BY <1>1, <1>2, <1>3, <1>4, <1>5, <1>6, <1>7, <1>8, <1>9, <1>10, <1>11, <1>12
       DEF Next

\* AskInv is kept by every step.
LEMMA AskStep ==
  ASSUME TypeOK, Wires, LogInv, AskInv, [Next]_vars
  PROVE  AskInv'
  <1>1. CallsAsk' /\ Accepted' /\ CardAsks'
    BY CallsAskStep, AcceptedStep, CardAsksStep
  <1>2. QED
    BY <1>1 DEF AskInv, CallsAsk, Accepted, CardAsks
-----------------------------------------------------------------------------
(* Sockets.                                                                 *)

\* Only a reload forgets a race, but for a silent end.
LEMMA SlipsGrow ==
  ASSUME TypeOK, [Next]_vars, ~ Reload
  PROVE  slips \ {"silent"} \subseteq slips'
  <1>1. ASSUME NEW h \in Submits, Submit(h) \/ SubmitAnswered(h) \/ ServesSubmit(h)
        PROVE  slips \subseteq slips'
    BY <1>1 DEF Submit, SubmitAnswered, ServesSubmit, Reply, Slip, history
  <1>2. CASE \/ Reconnects \/ Decides \/ LogsIn
             \/ DecisionAnswered \/ RefreshAnswered \/ LoginAnswered
    BY <1>2 DEF Reconnects, Decides, LogsIn, DecisionAnswered, RefreshAnswered,
                LoginAnswered, Slip, history
  <1>3. ASSUME NEW c \in Conns,
               Opens(c) \/ Authenticates(c) \/ Authenticated(c) \/ Receives(c)
        PROVE  slips \subseteq slips'
    BY <1>3 DEF Opens, Authenticates, Authenticated, Receives, Slip, history
  <1>4. ASSUME NEW c \in Conns, NEW expired \in BOOLEAN, Closes(c, expired)
        PROVE  slips \subseteq slips'
    BY <1>4, ClosesFacts
  <1>5. CASE \/ TaskEnds \/ TaskEndsSilently \/ TaskAsks \/ TaskResumes \/ TaskTakes
    BY <1>5 DEF TaskEnds, TaskEndsSilently, TaskAsks, TaskResumes, TaskTakes, Slip,
                history
  <1>6. ASSUME \/ ServesDecision \/ ServesRefresh \/ ServesLogin
               \/ \E h \in Calls : TurnsAway(h) \/ LosesAnswer(h)
               \/ UNCHANGED vars
        PROVE  slips \subseteq slips'
    BY <1>6 DEF ServesDecision, ServesRefresh, ServesLogin, TurnsAway, LosesAnswer,
                Reply, history, vars
  <1>7. QED
    BY <1>1, <1>2, <1>3, <1>4, <1>5, <1>6 DEF Next

\* The parts of SocketInv.
OwnSocket ==
  /\ page.websocket # None => conn[page.websocket] \in Alive
  /\ page.promise # None => page.promise = page.websocket
Connection ==
  /\ \A c \in Conns : conn[c] \in Alive => c = page.websocket
  /\ page.websocket # None =>
       IF conn[page.websocket] = "open" THEN page.connection = "ready"
                                        ELSE page.promise = page.websocket
  /\ page.auth = "authenticated" /\ page.connection = "ready" =>
       page.websocket # None /\ conn[page.websocket] = "open"

\* SocketInv is kept by every step.
LEMMA SocketStep ==
  ASSUME TypeOK, Wires, SocketInv, [Next]_vars
  PROVE  SocketInv'
  <1>1. /\ OwnSocket /\ (Connection \/ "crossed" \in slips)
        /\ page \in Pages /\ conn \in [Conns -> Lives] /\ None \notin Conns
        /\ page.websocket \in Conns \cup {None} /\ page.promise \in Conns \cup {None}
    BY Types, Names DEF SocketInv, OwnSocket, Connection, Pages
  <1>2. ASSUME OwnSocket', Connection' \/ "crossed" \in slips'
        PROVE  SocketInv'
    BY <1>2 DEF SocketInv, OwnSocket, Connection
  <1>3. ASSUME ~ Reload, "crossed" \in slips
        PROVE  "crossed" \in slips'
    BY <1>3, SlipsGrow
  <1>4. ASSUME page'.websocket = page.websocket, page'.promise = page.promise,
               page'.connection = page.connection, conn' = conn,
               page'.auth # "authenticated" \/ page.auth = "authenticated"
        PROVE  OwnSocket' /\ (Connection => Connection')
    BY <1>1, <1>4 DEF OwnSocket, Connection
  <1>5. ASSUME Drops
        PROVE  OwnSocket' /\ (Connection => Connection')
    <2>1. /\ page'.websocket = None /\ page'.promise = None
          /\ page'.connection = "idle"
          /\ \A c \in Conns : conn'[c] = IF c = page.websocket THEN "closing"
                                                               ELSE conn[c]
      BY <1>5, SocketClosedFacts DEF Drops
    <2>2. OwnSocket'
      BY <2>1 DEF OwnSocket
    <2>3. Connection => Connection'
      BY <2>1 DEF Connection, Alive
    <2>4. QED
      BY <2>2, <2>3
  <1>6. ASSUME NewSocket
        PROVE  OwnSocket' /\ (Connection => Connection')
    <2>1. PICK c \in Conns :
            /\ conn[c] = "unused" /\ conn' = [conn EXCEPT ![c] = "connecting"]
            /\ page'.websocket = c /\ page'.promise = c
            /\ page'.connection = "connecting"
      BY <1>6 DEF NewSocket
    <2>2. \A d \in Conns : conn'[d] = IF d = c THEN "connecting" ELSE conn[d]
      BY <1>1, <2>1
    <2>3. OwnSocket'
      BY <1>1, <2>1, <2>2 DEF OwnSocket, Alive
    <2>4. ASSUME Connection
          PROVE  Connection'
      <3>1. page.promise = None /\ ~ SocketReady(page)
        BY <1>6 DEF NewSocket, SharesPromise
      <3>2. page.websocket = None
        <4> SUFFICES ASSUME page.websocket # None
                     PROVE  FALSE
          OBVIOUS
        <4>1. conn[page.websocket] = "open" /\ page.connection = "ready"
          BY <2>4, <3>1 DEF Connection
        <4>2. QED
          BY <3>1, <4>1 DEF SocketReady
      <3>3. \A d \in Conns : conn[d] \notin Alive
        BY <1>1, <2>4, <3>2 DEF Connection
      <3>4. \A d \in Conns : conn'[d] \in Alive => d = c
        BY <2>2, <3>3
      <3>5. QED
        BY <1>1, <2>1, <2>2, <3>4 DEF Connection
    <2>5. QED
      BY <2>3, <2>4
  <1>7. ASSUME ~ Reload, OwnSocket' /\ (Connection => Connection')
        PROVE  SocketInv'
    BY <1>1, <1>2, <1>3, <1>7
  <1>8. ASSUME NEW h \in Submits, Submit(h) \/ SubmitAnswered(h)
        PROVE  OwnSocket' /\ (Connection => Connection')
    <2>1. Keeps \/ Drops \/ NewSocket
      BY <1>8, SubmitFacts, SubmitAnsweredFacts
    <2>2. QED
      BY <1>4, <1>5, <1>6, <2>1 DEF Keeps
  <1>9. ASSUME Reconnects \/ LoginAnswered
        PROVE  OwnSocket' /\ (Connection => Connection')
    <2>1. Keeps \/ Drops \/ NewSocket
      BY <1>9, ReconnectsFacts, LoginAnsweredFacts
    <2>2. QED
      BY <1>4, <1>5, <1>6, <2>1 DEF Keeps
  <1>10. ASSUME DecisionAnswered
         PROVE  OwnSocket' /\ (Connection => Connection')
    BY <1>4, <1>5, <1>10, DecisionAnsweredFacts DEF Keeps
  <1>11. ASSUME RefreshAnswered
         PROVE  OwnSocket' /\ (Connection => Connection')
    <2>1. conn' = conn
      BY <1>11 DEF RefreshAnswered
    <2>2. CASE page' = page
      BY <1>4, <2>1, <2>2
    <2>3. CASE /\ call[Reconnect].approval # None
               /\ page' = Handled(page, Ev("asks", call[Reconnect].approval))
      <3>1. PICK id \in Ids : id = call[Reconnect].approval
        BY <2>3, Types, Names DEF CallRecords
      <3> DEFINE e == Ev("asks", id)
      <3>2. e.kind = "asks" /\ e.id = id
        BY DEF Ev
      <3>3. page' = Handled(page, e)
        BY <2>3, <3>1
      <3> HIDE DEF e
      <3>4. QED
        BY <1>1, <1>4, <2>1, <3>2, <3>3, HandledFacts
    <2>4. QED
      BY <1>11, <2>2, <2>3 DEF RefreshAnswered
  <1>12. ASSUME Decides \/ LogsIn
         PROVE  OwnSocket' /\ (Connection => Connection')
    <2>1. /\ page'.websocket = page.websocket /\ page'.promise = page.promise
          /\ page'.connection = page.connection
          /\ page'.auth \in {page.auth, "authenticating"}
      BY <1>1, <1>12 DEF Decides, LogsIn, Pages
    <2>2. conn' = conn
      BY <1>12 DEF Decides, LogsIn
    <2>3. QED
      BY <1>4, <2>1, <2>2
  <1>13. ASSUME NEW c \in Conns, Receives(c)
         PROVE  OwnSocket' /\ (Connection => Connection')
    <2>1. PICK e \in Event : page' = Handled(page, e)
      BY <1>13, ReceivesFacts
    <2>2. conn' = conn
      BY <1>13, ReceivesFacts
    <2>3. QED
      BY <1>1, <1>4, <2>1, <2>2, EventKinds, HandledFacts
  <1>14. ASSUME NEW c \in Conns, Opens(c)
         PROVE  OwnSocket' /\ (Connection => Connection')
    <2>1. /\ page'.websocket = page.websocket /\ page'.promise = page.promise
          /\ page'.connection = "authenticating" /\ page'.auth = page.auth
      BY <1>1, <1>14 DEF Opens, Pages
    <2>2. /\ conn[c] = "connecting"
          /\ \A d \in Conns : conn'[d] = IF d = c THEN "authenticating" ELSE conn[d]
      BY <1>1, <1>14 DEF Opens
    <2>3. OwnSocket'
      BY <1>1, <2>1, <2>2 DEF OwnSocket, Alive
    <2>4. Connection => Connection'
      <3> SUFFICES ASSUME Connection
                   PROVE  Connection'
        OBVIOUS
      <3>1. c = page.websocket /\ page.promise = page.websocket
        BY <1>1, <2>2 DEF Connection, Alive
      <3>2. QED
        BY <1>1, <2>1, <2>2, <3>1 DEF Connection, Alive
    <2>5. QED
      BY <2>3, <2>4
  <1>15. ASSUME NEW c \in Conns, Authenticated(c)
         PROVE  OwnSocket' /\ (Connection => Connection')
    <2>1. /\ page'.websocket = page.websocket /\ page'.promise = None
          /\ page'.connection = "ready" /\ page'.auth = page.auth
      BY <1>15, AuthenticatedFacts
    <2>2. /\ conn[c] = "authenticating"
          /\ \A d \in Conns : conn'[d] = IF d = c THEN "open" ELSE conn[d]
      BY <1>1, <1>15, AuthenticatedFacts
    <2>3. OwnSocket'
      BY <1>1, <2>1, <2>2 DEF OwnSocket, Alive
    <2>4. Connection => Connection'
      <3> SUFFICES ASSUME Connection
                   PROVE  Connection'
        OBVIOUS
      <3>1. c = page.websocket
        BY <1>1, <2>2 DEF Connection, Alive
      <3>2. QED
        BY <1>1, <2>1, <2>2, <3>1 DEF Connection, Alive
    <2>5. QED
      BY <2>3, <2>4
  <1>16. ASSUME NEW c \in Conns, NEW expired \in BOOLEAN, Closes(c, expired)
         PROVE  SocketInv'
    <2> DEFINE a == AfterClose(c, expired)
    <2>1. /\ page' = Rejected(c, a)
          /\ conn[c] \in Alive \cup {"closing"}
          /\ \A d \in Conns : conn'[d] = IF d = c THEN "closed" ELSE conn[d]
          /\ slips \subseteq slips' /\ (Crosses(c, a) => "crossed" \in slips')
      BY <1>1, <1>16, ClosesFacts
    <2>2. /\ a.websocket = IF page.websocket = c THEN None ELSE page.websocket
          /\ a.auth = IF page.websocket = c /\ expired THEN "signed_out" ELSE page.auth
          /\ a.auth = "authenticated" /\ page.websocket = c
               => a.connection = "disconnected"
          /\ page.websocket # c => a.connection = page.connection
      BY Types, ClosedFacts
    <2>3. /\ page'.websocket = a.websocket /\ page'.promise = None
          /\ page'.auth = a.auth
          /\ page'.connection = IF Reconnect \in Waiting(c) /\ a.auth = "authenticated"
                                THEN "disconnected" ELSE a.connection
      BY <2>1, Types, ClosedFacts
    <2> HIDE DEF a
    <2>4. OwnSocket'
      BY <1>1, <2>1, <2>2, <2>3 DEF OwnSocket, Alive
    <2>5. ASSUME Connection, ~ Crosses(c, a)
          PROVE  Connection'
      <3>1. /\ page.promise \in {None, c}
            /\ a.auth = "authenticated" /\ a.websocket # None =>
                 Reconnect \notin Waiting(c)
        BY <2>5 DEF Crosses
      <3>2. \A d \in Conns : conn'[d] \in Alive => d = page'.websocket
        BY <2>1, <2>2, <2>3, <2>5 DEF Connection, Alive
      <3>3. CASE page.websocket = c
        <4>1. /\ page'.websocket = None
              /\ page'.auth = "authenticated" => page'.connection = "disconnected"
          BY <2>2, <2>3, <3>3
        <4>2. QED
          BY <3>2, <4>1 DEF Connection
      <3>4. CASE page.websocket # c
        <4>1. /\ page'.websocket = page.websocket /\ page'.auth = page.auth
              /\ a.connection = page.connection
          BY <2>2, <2>3, <3>4
        <4>2. CASE page.websocket = None
          <5>1. ~ (page.auth = "authenticated" /\ page.connection = "ready")
            BY <2>5, <4>2 DEF Connection
          <5>2. ~ (page'.auth = "authenticated" /\ page'.connection = "ready")
            BY <2>3, <4>1, <5>1
          <5>3. QED
            BY <3>2, <4>1, <4>2, <5>2 DEF Connection
        <4>3. CASE page.websocket # None
          <5>1. /\ conn'[page.websocket] = conn[page.websocket]
                /\ page.promise # page.websocket
            BY <1>1, <2>1, <3>1, <3>4, <4>3
          <5>2. conn[page.websocket] = "open" /\ page.connection = "ready"
            BY <2>5, <4>3, <5>1 DEF Connection
          <5>3. page'.auth = "authenticated" => page'.connection = "ready"
            BY <2>2, <2>3, <3>1, <4>1, <4>3, <5>2
          <5>4. page'.connection = "ready"
            BY <2>2, <2>3, <3>1, <4>1, <4>3, <5>2
          <5>5. QED
            BY <3>2, <4>1, <4>3, <5>1, <5>2, <5>4 DEF Connection
        <4>4. QED
          BY <4>2, <4>3
      <3>5. QED
        BY <3>3, <3>4
    <2>6. QED
      BY <1>1, <1>2, <2>1, <2>4, <2>5
  <1>17. CASE Reload
    <2>1. page' = Loaded /\ \A c \in Conns : conn'[c] \in {"unused", "closed"}
      BY <1>17 DEF Reload
    <2>2. QED
      BY <1>2, <2>1 DEF Loaded, OwnSocket, Connection, Alive
  <1>18. ASSUME \/ \E c \in Conns : Authenticates(c)
                \/ TaskEnds \/ TaskEndsSilently \/ TaskAsks \/ TaskResumes
                \/ TaskTakes \/ ServesDecision \/ ServesRefresh \/ ServesLogin
                \/ \E h \in Submits : ServesSubmit(h)
                \/ \E h \in Calls : TurnsAway(h) \/ LosesAnswer(h)
                \/ UNCHANGED vars
         PROVE  OwnSocket' /\ (Connection => Connection')
    <2>1. page' = page /\ conn' = conn
      BY <1>18 DEF Authenticates, TaskEnds, TaskEndsSilently, TaskAsks, TaskResumes,
                   TaskTakes, ServesDecision, ServesRefresh, ServesLogin, ServesSubmit,
                   TurnsAway, LosesAnswer, Reply, vars
    <2>2. QED
      BY <1>4, <2>1
  <1>19. QED
    BY <1>7, <1>8, <1>9, <1>10, <1>11, <1>12, <1>13, <1>14, <1>15, <1>16, <1>17, <1>18
       DEF Next
-----------------------------------------------------------------------------
(* Submissions.                                                             *)

\* How a submission goes on: it is made; its socket is ready; the server
\* accepts it; it is answered otherwise, or its answer is lost; it ends.
Accepts(h) ==
  /\ call[h].pc = "asked" /\ run' = "working"
  /\ call'[h].pc = "answered" /\ call'[h].answer = "ok"
GoesWrong(h) ==
  /\ call[h].pc \in {"asked", "answered"} /\ call'[h].pc = "answered"
  /\ call'[h].answer \in {"refused", "expired", "failed"}
IsRejected(h) ==
  /\ \E c \in Conns, expired \in BOOLEAN : Closes(c, expired) /\ h \in Waiting(c)
  /\ call'[h] = NoCall

\* A submission changes in these ways only.
LEMMA SubmitKinds ==
  ASSUME TypeOK, Wires, [Next]_vars, NEW h \in Submits, call'[h] # call[h]
  PROVE  \/ Submit(h) \/ SubmitAnswered(h) \/ Reload \/ IsRejected(h)
         \/ call[h].pc = "connecting" /\ call'[h].pc = "asked"
         \/ Accepts(h) \/ GoesWrong(h)
  <1>1. /\ h \in Calls /\ Decide \in Calls /\ Login \in Calls /\ Reconnect \in Calls
        /\ h # Decide /\ h # Login /\ h # Reconnect
        /\ Submits \subseteq Calls /\ call \in [Calls -> CallRecords]
    BY Names, Types
  <1>2. ASSUME NEW g \in Submits, Submit(g)
        PROVE  Submit(h)
    <2>1. CASE g = h
      BY <1>2, <2>1
    <2>2. CASE g # h
      BY <1>1, <1>2, <2>2, SubmitFacts
    <2>3. QED
      BY <2>1, <2>2
  <1>3. ASSUME NEW g \in Submits, SubmitAnswered(g)
        PROVE  SubmitAnswered(h)
    <2>1. CASE g = h
      BY <1>3, <2>1
    <2>2. CASE g # h
      BY <1>1, <1>3, <2>2, DoneFacts DEF SubmitAnswered
    <2>3. QED
      BY <2>1, <2>2
  <1>4. ASSUME NEW g \in Submits, ServesSubmit(g)
        PROVE  Accepts(h) \/ GoesWrong(h)
    <2>1. PICK answer \in {"ok", "refused"} :
            /\ Reply(g, answer) /\ (answer = "ok" => run' = "working")
      BY <1>4 DEF ServesSubmit
    <2>2. /\ call[g].pc = "asked" /\ call'[g].pc = "answered"
          /\ call'[g].answer = answer
          /\ \A f \in Calls \ {g} : call'[f] = call[f]
      BY <1>1, <2>1, ReplyFacts
    <2>3. g = h
      BY <1>1, <2>2
    <2>4. QED
      BY <2>1, <2>2, <2>3 DEF Accepts, GoesWrong
  <1>5. CASE Reconnects
    BY <1>1, <1>5, ReconnectsFacts
  <1>6. CASE Decides
    BY <1>1, <1>6 DEF Decides
  <1>7. CASE LogsIn
    BY <1>1, <1>7 DEF LogsIn
  <1>8. CASE DecisionAnswered \/ RefreshAnswered \/ LoginAnswered
    BY <1>1, <1>8, DoneFacts DEF DecisionAnswered, RefreshAnswered, LoginAnswered
  <1>9. ASSUME NEW c \in Conns, Authenticated(c)
        PROVE  call[h].pc = "connecting" /\ call'[h].pc = "asked"
    BY <1>1, <1>9, AuthenticatedFacts
  <1>10. ASSUME NEW c \in Conns, NEW expired \in BOOLEAN, Closes(c, expired)
         PROVE  IsRejected(h)
    BY <1>1, <1>10, ClosesFacts DEF IsRejected
  <1>11. CASE ServesRefresh
    BY <1>1, <1>11 DEF ServesRefresh
  <1>12. CASE ServesDecision \/ ServesLogin
    BY <1>1, <1>12, ReplyFacts DEF ServesDecision, ServesLogin
  <1>13. ASSUME NEW g \in Calls, TurnsAway(g)
         PROVE  GoesWrong(h)
    <2>1. PICK answer \in {"expired", "failed"} : Reply(g, answer)
      BY <1>13 DEF TurnsAway
    <2>2. /\ call[g].pc = "asked" /\ call'[g].pc = "answered"
          /\ call'[g].answer = answer
          /\ \A f \in Calls \ {g} : call'[f] = call[f]
      BY <2>1, ReplyFacts
    <2>3. g = h
      BY <1>1, <2>2
    <2>4. QED
      BY <2>2, <2>3 DEF GoesWrong
  <1>14. ASSUME NEW g \in Calls, LosesAnswer(g)
         PROVE  GoesWrong(h)
    <2>1. call[g].pc = "answered" /\ call' = [call EXCEPT ![g].answer = "failed"]
      BY <1>14 DEF LosesAnswer, Answered
    <2>2. g = h
      BY <1>1, <2>1
    <2>3. call'[h].pc = call[h].pc /\ call'[h].answer = "failed"
      BY <1>1, <2>1, <2>2 DEF CallRecords
    <2>4. QED
      BY <2>1, <2>2, <2>3 DEF GoesWrong
  <1>15. ASSUME \/ \E c \in Conns : Opens(c) \/ Authenticates(c) \/ Receives(c)
                \/ TaskEnds \/ TaskEndsSilently \/ TaskAsks \/ TaskResumes
                \/ TaskTakes \/ UNCHANGED vars
         PROVE  FALSE
    BY <1>15 DEF Opens, Authenticates, Receives, TaskEnds, TaskEndsSilently,
                 TaskAsks, TaskResumes, TaskTakes, vars
  <1>16. QED
    BY <1>2, <1>3, <1>4, <1>5, <1>6, <1>7, <1>8, <1>9, <1>10, <1>11, <1>12, <1>13,
       <1>14, <1>15 DEF Next

\* Every reply carries an answer.
LEMMA RepliedStep ==
  ASSUME TypeOK, Wires, Replied, [Next]_vars
  PROVE  Replied'
  <1> SUFFICES ASSUME NEW h \in Submits, call'[h].pc = "answered"
               PROVE  call'[h].answer # "none"
    BY DEF Replied, Answered, Answer
  <1>1. h \in Calls /\ call \in [Calls -> CallRecords]
    BY Names, Types
  <1>2. CASE call'[h] = call[h]
    BY <1>2 DEF Replied, Answered, Answer
  <1>3. CASE Submit(h)
    <2>1. call'[h].pc \in {"connecting", "asked"}
      BY <1>3, SubmitFacts
    <2>2. QED
      BY <2>1
  <1>4. CASE SubmitAnswered(h)
    BY <1>1, <1>4, DoneFacts, CallFacts DEF SubmitAnswered
  <1>5. CASE Reload
    BY <1>1, <1>5, CallFacts DEF Reload
  <1>6. CASE IsRejected(h)
    BY <1>6, CallFacts DEF IsRejected
  <1>7. CASE Accepts(h) \/ GoesWrong(h)
    BY <1>7 DEF Accepts, GoesWrong
  <1>8. QED
    BY <1>2, <1>3, <1>4, <1>5, <1>6, <1>7, SubmitKinds

\* What becomes of a task of the page that is submitting.
LEMMA SubmittingKinds ==
  ASSUME TypeOK, Wires, Replied, [Next]_vars, page'.task = "submitting",
         "stranded" \notin slips'
  PROVE  \/ \E h \in Submits : Submit(h)
         \/ /\ page.task = "submitting" /\ ~ Reload
            /\ \A h \in Submits : ~ SubmitAnswered(h) /\ ~ IsRejected(h)
  <1>1. page \in Pages
    BY Types
  <1>2. ASSUME NEW h \in Submits, SubmitAnswered(h)
        PROVE  FALSE
    <2>1. h \in Calls /\ Answer(h) # "none" /\ call \in [Calls -> CallRecords]
      BY <1>2, Names, Types DEF SubmitAnswered, Replied
    <2>2. CASE Answer(h) = "ok"
      BY <1>2, <2>2, SubmitAnsweredFacts
    <2>3. CASE Answer(h) = "expired"
      BY <1>2, <2>3, SubmitAnsweredFacts DEF Active
    <2>4. CASE Answer(h) \notin {"ok", "expired"}
      <3>1. Answer(h) \in {"refused", "failed"}
        BY <2>1, <2>4 DEF Answer, CallRecords
      <3>2. page'.task = IF page.auth = "authenticated" THEN "error" ELSE page.task
        BY <1>2, <2>4, SubmitAnsweredFacts
      <3>3. Strands(page)
        BY <3>2 DEF Strands
      <3>4. "stranded" \in slips'
        BY <1>2, <3>1, <3>3 DEF SubmitAnswered, Slip
      <3>5. QED
        BY <3>4
    <2>5. QED
      BY <2>2, <2>3, <2>4
  <1>3. ASSUME NEW h \in Submits, IsRejected(h)
        PROVE  FALSE
    <2>1. PICK c \in Conns, expired \in BOOLEAN :
            Closes(c, expired) /\ h \in Waiting(c)
      BY <1>3 DEF IsRejected
    <2> DEFINE a == AfterClose(c, expired)
    <2>2. Waiting(c) \cap Submits # {}
      BY <2>1
    <2>3. page'.task = IF a.auth = "authenticated" THEN "error" ELSE a.task
      BY <2>1, <2>2, Types, ClosesFacts, ClosedFacts
    <2>4. Strands(a)
      BY <2>3 DEF Strands
    <2>5. QED
      BY <2>1, <2>2, <2>4, ClosesFacts
  <1>4. ~ Reload
    BY DEF Reload, Loaded
  <1>5. ASSUME \A h \in Submits : ~ Submit(h)
        PROVE  page.task = "submitting"
    <2>1. CASE Reconnects
      BY <2>1, ReconnectsFacts
    <2>2. CASE LoginAnswered
      BY <2>2, LoginAnsweredFacts
    <2>3. CASE DecisionAnswered
      <3>1. page'.task \in {"running", "error", page.task}
        BY <2>3, DecisionAnsweredFacts
      <3>2. QED
        BY <3>1
    <2>4. CASE RefreshAnswered
      <3>1. CASE page' = page
        BY <3>1
      <3>2. CASE page' = Handled(page, Ev("asks", call[Reconnect].approval))
        BY <1>1, <3>2 DEF Handled, Ev, Pages
      <3>3. QED
        BY <2>4, <3>1, <3>2 DEF RefreshAnswered
    <2>5. CASE Decides \/ LogsIn \/ \E c \in Conns : Opens(c)
      BY <1>1, <2>5 DEF Decides, LogsIn, Opens, Pages
    <2>6. ASSUME NEW c \in Conns, Authenticated(c)
          PROVE  page.task = "submitting"
      BY <2>6, AuthenticatedFacts
    <2>7. ASSUME NEW c \in Conns, Receives(c)
          PROVE  page.task = "submitting"
      <3>1. PICK e \in Event : page' = Handled(page, e)
        BY <2>7, ReceivesFacts
      <3>2. page'.task = CASE e.kind = "asks" -> "waiting_for_approval"
                           [] e.kind = "resumed" -> "running"
                           [] e.kind = "result" -> "completed"
                           [] e.kind = "error" -> "error"
        BY <1>1, <3>1, EventKinds, HandledFacts
      <3>3. QED
        BY <3>2, EventKinds
    <2>8. ASSUME NEW c \in Conns, NEW expired \in BOOLEAN, Closes(c, expired)
          PROVE  page.task = "submitting"
      <3> DEFINE a == AfterClose(c, expired)
      <3>1. a.task \in {"error", page.task}
        BY Types, ClosedFacts
      <3>2. page'.task \in {"error", a.task}
        BY <2>8, Types, ClosesFacts, ClosedFacts
      <3>3. QED
        BY <3>1, <3>2
    <2>9. ASSUME \/ \E c \in Conns : Authenticates(c)
                 \/ TaskEnds \/ TaskEndsSilently \/ TaskAsks \/ TaskResumes
                 \/ TaskTakes \/ ServesDecision \/ ServesRefresh \/ ServesLogin
                 \/ \E h \in Submits : ServesSubmit(h)
                 \/ \E h \in Calls : TurnsAway(h) \/ LosesAnswer(h)
                 \/ UNCHANGED vars
          PROVE  page.task = "submitting"
      <3>1. page' = page
        BY <2>9 DEF Authenticates, TaskEnds, TaskEndsSilently, TaskAsks, TaskResumes,
                    TaskTakes, ServesDecision, ServesRefresh, ServesLogin,
                    ServesSubmit, TurnsAway, LosesAnswer, Reply, vars
      <3>2. QED
        BY <3>1
    <2>10. QED
      BY <1>2, <1>4, <1>5, <2>1, <2>2, <2>3, <2>4, <2>5, <2>6, <2>7, <2>8, <2>9 DEF Next
  <1>6. QED
    BY <1>2, <1>3, <1>4, <1>5

\* SubmittingIsUnderWay is kept by every step.
LEMMA SubmittingStep ==
  ASSUME TypeOK, Wires, Replied, SubmittingIsUnderWay, [Next]_vars
  PROVE  SubmittingIsUnderWay'
  <1> SUFFICES ASSUME page'.task = "submitting", "stranded" \notin slips'
               PROVE  \E h \in Submits : call'[h].pc # "none"
    BY DEF SubmittingIsUnderWay
  <1>1. ASSUME NEW h \in Submits, Submit(h)
        PROVE  call'[h].pc # "none"
    <2>1. call'[h].pc \in {"connecting", "asked"}
      BY <1>1, SubmitFacts
    <2>2. QED
      BY <2>1
  <1>2. ASSUME page.task = "submitting", ~ Reload,
               \A h \in Submits : ~ SubmitAnswered(h) /\ ~ IsRejected(h)
        PROVE  \E h \in Submits : call'[h].pc # "none"
    <2>1. "stranded" \notin slips
      BY <1>2, SlipsGrow
    <2>2. PICK h \in Submits : call[h].pc # "none"
      BY <1>2, <2>1 DEF SubmittingIsUnderWay
    <2>3. CASE call'[h] = call[h]
      BY <2>2, <2>3
    <2>4. CASE Submit(h)
      BY <1>1, <2>4
    <2>5. CASE call'[h].pc = "asked" \/ Accepts(h) \/ GoesWrong(h)
      <3>1. call'[h].pc \in {"asked", "answered"}
        BY <2>5 DEF Accepts, GoesWrong
      <3>2. QED
        BY <3>1
    <2>6. QED
      BY <1>2, <2>3, <2>4, <2>5, SubmitKinds
  <1>3. QED
    BY <1>1, <1>2, SubmittingKinds
-----------------------------------------------------------------------------
(* The card.                                                                *)

\* Nothing but the event of the decision ends a resumption.
LEMMA ResumingStays ==
  ASSUME TypeOK, [Next]_vars, run = "resuming", ~ TaskResumes
  PROVE  run' = "resuming" /\ ~ ServesDecision
  <1>1. ~ TaskEnds /\ ~ TaskAsks /\ ~ TaskEndsSilently /\ ~ TaskTakes
        /\ ~ ServesDecision
    BY DEF TaskEnds, TaskAsks, TaskEndsSilently, TaskTakes, ServesDecision
  <1>2. \A h \in Submits : ServesSubmit(h) => run' = run
    BY DEF ServesSubmit
  <1>3. OfThePage => run' = run
    BY DEF OfThePage
  <1>4. QED
    BY <1>1, <1>2, <1>3, StepKinds

\* A page listens to the socket events go to because it did so before, or
\* because that socket is ready now.
ShowsAt(c) == page.websocket = c /\ registered = c /\ conn[c] = "open"

\* It begins to listen only when auth_ok arrives.
LEMMA ShowsKinds ==
  ASSUME TypeOK, Wires, [Next]_vars, NEW c \in Conns, ShowsAt(c)'
  PROVE  \/ Authenticated(c) /\ registered = c
         \/ ShowsAt(c) /\ ~ Reload
  <1>1. /\ page \in Pages /\ conn \in [Conns -> Lives] /\ None \notin Conns /\ c # None
        /\ page'.websocket = c /\ registered' = c /\ conn'[c] = "open"
    BY Types, Names DEF ShowsAt
  <1>2. CASE Keeps /\ registered' = registered
    BY <1>1, <1>2 DEF Keeps, ShowsAt, Reload
  <1>3. ~ Drops
    BY <1>1 DEF Drops
  <1>4. ~ NewSocket
    BY <1>1 DEF NewSocket
  <1>5. ~ Reload
    BY <1>1 DEF Reload
  <1>6. ASSUME NEW h \in Submits, Submit(h) \/ SubmitAnswered(h)
        PROVE  ShowsAt(c)
    <2>1. (Keeps \/ Drops \/ NewSocket) /\ registered' = registered
      BY <1>6, SubmitFacts, SubmitAnsweredFacts DEF SubmitAnswered, server
    <2>2. QED
      BY <1>2, <1>3, <1>4, <1>1, <2>1 DEF Keeps, ShowsAt
  <1>7. ASSUME Reconnects \/ LoginAnswered
        PROVE  ShowsAt(c)
    <2>1. (Keeps \/ Drops \/ NewSocket) /\ registered' = registered
      BY <1>7, ReconnectsFacts, LoginAnsweredFacts DEF LoginAnswered, server
    <2>2. QED
      BY <1>1, <1>3, <1>4, <2>1 DEF Keeps, ShowsAt
  <1>8. ASSUME DecisionAnswered
        PROVE  ShowsAt(c)
    <2>1. registered' = registered
      BY <1>8 DEF DecisionAnswered, server
    <2>2. page'.websocket = page.websocket /\ conn' = conn
      BY <1>3, <1>8, DecisionAnsweredFacts DEF Keeps
    <2>3. QED
      BY <1>1, <2>1, <2>2 DEF ShowsAt
  <1>9. ASSUME RefreshAnswered
        PROVE  ShowsAt(c)
    <2>1. registered' = registered /\ conn' = conn
      BY <1>9 DEF RefreshAnswered, server
    <2>2. CASE page' = page
      BY <1>1, <2>1, <2>2 DEF ShowsAt
    <2>3. CASE page' = Handled(page, Ev("asks", call[Reconnect].approval))
      <3>1. page'.websocket = page.websocket
        BY <1>1, <2>3 DEF Handled, Ev, Pages
      <3>2. QED
        BY <1>1, <2>1, <3>1 DEF ShowsAt
    <2>4. QED
      BY <1>9, <2>2, <2>3 DEF RefreshAnswered
  <1>10. ASSUME Decides \/ LogsIn
         PROVE  ShowsAt(c)
    <2>1. page'.websocket = page.websocket /\ registered' = registered /\ conn' = conn
      BY <1>1, <1>10 DEF Decides, LogsIn, Pages, server
    <2>2. QED
      BY <1>1, <2>1 DEF ShowsAt
  <1>11. ASSUME NEW d \in Conns, Opens(d)
         PROVE  ShowsAt(c)
    <2>1. page'.websocket = page.websocket /\ registered' = registered
      BY <1>1, <1>11 DEF Opens, Pages, server
    <2>2. conn' = [conn EXCEPT ![d] = "authenticating"]
      BY <1>11 DEF Opens
    <2>3. QED
      BY <1>1, <2>1, <2>2 DEF ShowsAt
  <1>12. ASSUME NEW d \in Conns, Authenticated(d)
         PROVE  (Authenticated(c) /\ registered = c) \/ ShowsAt(c)
    BY <1>1, <1>12, AuthenticatedFacts DEF ShowsAt
  <1>13. ASSUME NEW d \in Conns, Receives(d)
         PROVE  ShowsAt(c)
    <2>1. PICK e \in Event : page' = Handled(page, e)
      BY <1>13, ReceivesFacts
    <2>2. page'.websocket = page.websocket
      BY <1>1, <2>1, EventKinds, HandledFacts
    <2>3. conn' = conn /\ registered' = registered
      BY <1>13, ReceivesFacts
    <2>4. QED
      BY <1>1, <2>2, <2>3 DEF ShowsAt
  <1>14. ASSUME NEW d \in Conns, NEW expired \in BOOLEAN, Closes(d, expired)
         PROVE  ShowsAt(c)
    <2> DEFINE a == AfterClose(d, expired)
    <2>1. /\ page'.websocket = a.websocket
          /\ a.websocket = IF page.websocket = d THEN None ELSE page.websocket
      BY <1>14, Types, ClosesFacts, ClosedFacts
    <2>2. page'.websocket = page.websocket
      BY <1>1, <2>1
    <2>3. /\ conn' = [conn EXCEPT ![d] = "closed"]
          /\ registered' = IF registered = d THEN None ELSE registered
      BY <1>14, ClosesFacts
    <2>4. QED
      BY <1>1, <2>2, <2>3 DEF ShowsAt
  <1>15. ASSUME NEW d \in Conns, Authenticates(d)
         PROVE  FALSE
    BY <1>1, <1>15 DEF Authenticates
  <1>16. ASSUME \/ TaskEnds \/ TaskEndsSilently \/ TaskAsks \/ TaskResumes
                \/ TaskTakes \/ ServesDecision \/ ServesRefresh \/ ServesLogin
                \/ \E h \in Submits : ServesSubmit(h)
                \/ \E h \in Calls : TurnsAway(h) \/ LosesAnswer(h)
                \/ UNCHANGED vars
         PROVE  ShowsAt(c)
    <2>1. page' = page /\ conn' = conn /\ registered' = registered
      BY <1>16 DEF TaskEnds, TaskEndsSilently, TaskAsks, TaskResumes,
                   TaskTakes, ServesDecision, ServesRefresh, ServesLogin, ServesSubmit,
                   TurnsAway, LosesAnswer, Reply, vars, server
    <2>2. QED
      BY <1>1, <2>1 DEF ShowsAt
  <1>17. QED
    BY <1>5, <1>6, <1>7, <1>8, <1>9, <1>10, <1>11, <1>12, <1>13, <1>14, <1>15, <1>16
       DEF Next
\* What a step does to a page that listens: an event comes, by its socket or by
\* another; the answer to a decision or to a refresh; an event is sent; or
\* nothing the card could tell.
NoNews(c) ==
  /\ page'.approval = page.approval /\ seen' = seen
  /\ wire'[c] = wire[c] /\ log' = log
  /\ run = "resuming" => run' = "resuming"

\* There is nothing else a step can do to it.
LEMMA CardKinds ==
  ASSUME TypeOK, Wires, [Next]_vars, NEW c \in Conns, ShowsAt(c), ShowsAt(c)', ~ Reload
  PROVE  \/ \E d \in Conns : Receives(d)
         \/ DecisionAnswered /\ Answer(Decide) = "ok"
         \/ /\ RefreshAnswered /\ Answer(Reconnect) = "ok"
            /\ call[Reconnect].approval # None
         \/ TaskEnds \/ TaskAsks \/ TaskResumes
         \/ NoNews(c)
  <1>1. /\ page \in Pages /\ conn[c] = "open" /\ registered' = c /\ registered = c
        /\ wire \in [Conns -> Seq(Messages)] /\ None \notin Conns /\ conn'[c] = "open"
    BY Types, Names DEF ShowsAt
  <1>2. ~ TaskResumes => (run = "resuming" => run' = "resuming")
    BY ResumingStays
  <1>3. ASSUME page'.approval = page.approval, seen' = seen, wire'[c] = wire[c],
               log' = log, ~ TaskResumes
        PROVE  NoNews(c)
    BY <1>2, <1>3 DEF NoNews
  <1>4. ASSUME ~ TaskResumes, ~ TaskEnds, ~ TaskAsks
        PROVE  log' = log
    BY <1>4, StepKinds DEF TaskEndsSilently, TaskTakes, ServesDecision, ServesSubmit,
                           Reply, OfThePage
  <1>5. ASSUME NEW h \in Submits, Submit(h) \/ SubmitAnswered(h)
        PROVE  page'.approval = page.approval /\ seen' = seen /\ wire'[c] = wire[c]
    BY <1>5, SubmitFacts, SubmitAnsweredFacts
       DEF Keeps, Drops, NewSocket, SubmitAnswered
  <1>6. ASSUME Reconnects \/ LoginAnswered
        PROVE  page'.approval = page.approval /\ seen' = seen /\ wire'[c] = wire[c]
    BY <1>6, ReconnectsFacts, LoginAnsweredFacts
       DEF Keeps, Drops, NewSocket, LoginAnswered
  <1>7. ASSUME DecisionAnswered, Answer(Decide) # "ok"
        PROVE  page'.approval = page.approval /\ seen' = seen /\ wire'[c] = wire[c]
    <2>1. Keeps \/ Drops
      BY <1>7, DecisionAnsweredFacts
    <2>2. QED
      BY <1>7, <2>1 DEF Keeps, Drops, DecisionAnswered
  <1>8. ASSUME RefreshAnswered,
               ~ (Answer(Reconnect) = "ok" /\ call[Reconnect].approval # None)
        PROVE  page'.approval = page.approval /\ seen' = seen /\ wire'[c] = wire[c]
    BY <1>8 DEF RefreshAnswered
  <1>9. ASSUME Decides \/ LogsIn \/ \E d \in Conns : Opens(d)
        PROVE  page'.approval = page.approval /\ seen' = seen /\ wire'[c] = wire[c]
    BY <1>1, <1>9 DEF Decides, LogsIn, Opens, Pages, history
  <1>10. ASSUME NEW d \in Conns, Authenticated(d)
         PROVE  page'.approval = page.approval /\ seen' = seen /\ wire'[c] = wire[c]
    <2>1. /\ page'.approval = page.approval /\ seen' = seen
          /\ conn[d] = "authenticating" /\ \A f \in Conns \ {d} : wire'[f] = wire[f]
      BY <1>10, AuthenticatedFacts
    <2>2. QED
      BY <1>1, <2>1
  <1>11. ASSUME NEW d \in Conns, NEW expired \in BOOLEAN, Closes(d, expired)
         PROVE  page'.approval = page.approval /\ seen' = seen /\ wire'[c] = wire[c]
    <2>1. page'.approval = page.approval
      BY <1>11, Types, ClosesFacts, ClosedFacts
    <2>2. /\ seen' = seen /\ registered' = IF registered = d THEN None ELSE registered
          /\ \A f \in Conns \ {d} : wire'[f] = wire[f]
      BY <1>11, ClosesFacts
    <2>3. QED
      BY <1>1, <2>1, <2>2
  <1>12. ASSUME NEW d \in Conns, Authenticates(d)
         PROVE  FALSE
    BY <1>1, <1>12 DEF Authenticates
  <1>13. ASSUME \/ TaskEndsSilently \/ TaskTakes
                \/ ServesDecision \/ ServesRefresh \/ ServesLogin
                \/ \E h \in Submits : ServesSubmit(h)
                \/ \E h \in Calls : TurnsAway(h) \/ LosesAnswer(h)
                \/ UNCHANGED vars
         PROVE  page'.approval = page.approval /\ seen' = seen /\ wire'[c] = wire[c]
    <2>1. page' = page /\ seen' = seen /\ wire' = wire
      BY <1>13 DEF TaskEndsSilently, TaskTakes, ServesDecision, ServesRefresh,
                   ServesLogin, ServesSubmit, TurnsAway, LosesAnswer, Reply, vars,
                   history
    <2>2. QED
      BY <2>1
  <1>14. QED
    BY <1>3, <1>4, <1>5, <1>6, <1>7, <1>8, <1>9, <1>10, <1>11, <1>12, <1>13 DEF Next

\* The next event of a page that listens, and the one before it.
LEMMA NextEvent ==
  ASSUME TypeOK, Wires, LogInv, NEW c \in Conns, ShowsAt(c), Receives(c)
  PROVE  \E n \in DOMAIN log, e \in Event :
           /\ n = Len(log) - Len(wire[c]) + 1 /\ log[n] = e
           /\ Len(log) - Len(wire'[c]) = n
           /\ page' = Handled(page, e)
           /\ seen' = IF n > seen THEN n ELSE seen
           /\ wire'[c] = <<>> <=> n = Len(log)
           /\ \A j \in Nat : Asking(j) /\ j >= n - 1 /\ e.kind # "resumed" => j >= n
           /\ slips' = slips
           /\ UNCHANGED <<conn, call, run, pending, log, registered>>
  <1> DEFINE k == Len(log)
             w == Len(wire[c])
             n == k - w + 1
  <1>1. PICK e \in Event : e = wire[c][1] /\ page' = Handled(page, e)
    BY ReceivesFacts
  <1>2. /\ w > 0 /\ Len(wire'[c]) = w - 1 /\ k \in Nat /\ w \in Nat /\ DOMAIN log = 1 .. k
        /\ DOMAIN wire[c] = 1 .. w
        /\ seen' = IF n > seen THEN n ELSE seen
        /\ slips' = slips
        /\ UNCHANGED <<conn, call, run, pending, log, registered>>
        /\ wire' \in [Conns -> Seq(Messages)]
    BY Types, ReceivesFacts DEF ShowsAt
  <1>3. /\ w <= k
        /\ \A i \in DOMAIN wire[c] : k - w + i >= 1 => wire[c][i] = log[k - w + i]
    BY DEF Wires, WireOf, ShowsAt, Listening
  <1>4. wire'[c] = <<>> <=> Len(wire'[c]) = 0
    BY <1>2, EmptySeq
  <1> HIDE DEF k, w
  <1>5. n \in DOMAIN log /\ k - Len(wire'[c]) = n /\ (Len(wire'[c]) = 0 <=> n = k)
    BY <1>2, <1>3
  <1>6. log[n] = e
    <2>1. 1 \in DOMAIN wire[c] /\ k - w + 1 >= 1
      BY <1>2, <1>3
    <2>2. QED
      BY <1>1, <1>3, <2>1
  <1>7. ASSUME NEW j \in Nat, Asking(j), j >= n - 1, e.kind # "resumed"
        PROVE  j >= n
    <2> SUFFICES ASSUME j = n - 1
                 PROVE  FALSE
      BY <1>2, <1>5, <1>7
    <2>1. j # k /\ j + 1 = n /\ j \in DOMAIN log
      BY <1>2, <1>5, <1>7 DEF Asking
    <2>2. log[j + 1].kind = "resumed"
      BY <1>7, <2>1 DEF LogInv, k
    <2>3. QED
      BY <1>6, <1>7, <2>1, <2>2
  <1>8. QED
    BY <1>1, <1>2, <1>4, <1>5, <1>6, <1>7 DEF k, w
\* CardInv, at the socket of the page.
CardAt(c) ==
  /\ seen >= Len(log) - Len(wire[c])
  /\ {"overtaken", "stray"} \cap slips = {} =>
       /\ page.approval # None => page.approval >= Len(log) - Len(wire[c])
       /\ wire[c] = <<>> /\ Asking(Len(log)) =>
            page.approval = Len(log) \/ run = "resuming"

\* It is the same.
LEMMA CardAtSocket ==
  ASSUME TypeOK
  PROVE  CardInv <=> \A c \in Conns : ShowsAt(c) => CardAt(c)
  <1>1. page.websocket \in Conns \cup {None} /\ None \notin Conns
    BY Types, Names DEF Pages
  <1>2. ASSUME CardInv, NEW c \in Conns, ShowsAt(c)
        PROVE  CardAt(c)
    BY <1>1, <1>2 DEF CardInv, Shows, Told, ShowsAt, CardAt
  <1>3. ASSUME \A c \in Conns : ShowsAt(c) => CardAt(c)
        PROVE  CardInv
    <2> SUFFICES ASSUME Shows
                 PROVE  CardAt(page.websocket)
      BY DEF CardInv, CardAt, Told
    <2>1. PICK c \in Conns : c = page.websocket
      BY <1>1 DEF Shows
    <2>2. CardAt(c)
      BY <1>3, <2>1 DEF Shows, ShowsAt
    <2>3. QED
      BY <2>1, <2>2 DEF CardAt
  <1>4. QED
    BY <1>2, <1>3

\* The answer to a decision or to a refresh, for a page that listens.
LEMMA AnsweredCard ==
  ASSUME TypeOK, LogInv, AskInv, NEW c \in Conns, CardAt(c),
         \/ DecisionAnswered /\ Answer(Decide) = "ok"
         \/ /\ RefreshAnswered /\ Answer(Reconnect) = "ok"
            /\ call[Reconnect].approval # None
  PROVE  CardAt(c)'
  <1> DEFINE k == Len(log)
             w == Len(wire[c])
  <1>1. /\ k \in Nat /\ w \in Nat /\ seen \in Nat /\ seen >= k - w
        /\ None \notin Ids /\ page \in Pages /\ DOMAIN log = 1 .. k
        /\ wire[c] = <<>> => w = 0
    BY Types, Names DEF CardAt, TypeOK
  <1> HIDE DEF k, w
  <1>2. CASE DecisionAnswered /\ Answer(Decide) = "ok"
    <2> DEFINE a == call[Decide].approval
    <2>1. /\ page'.approval = None
          /\ UNCHANGED <<log, wire, run, seen>>
          /\ "overtaken" \notin slips' => ~ (seen > a + 1)
      BY <1>2, DecisionAnsweredFacts DEF DecisionAnswered, Slip, server
    <2>2. Asking(a) /\ (a # k \/ run = "resuming")
      BY <1>2 DEF AskInv, Answered, DecisionAnswered, k
    <2>3. ASSUME "overtaken" \notin slips', w = 0, Asking(k), run # "resuming"
          PROVE  FALSE
      <3>1. a \in 1 .. k /\ a # k /\ seen <= a + 1 /\ k <= seen
        BY <1>1, <2>1, <2>2, <2>3 DEF Asking
      <3>2. a + 1 = k
        BY <1>1, <3>1
      <3>3. log[a + 1].kind = "resumed"
        BY <2>2, <3>1 DEF LogInv, k, Asking
      <3>4. QED
        BY <2>3, <3>2, <3>3 DEF Asking
    <2> HIDE DEF a
    <2>4. Asking(k)' <=> Asking(k)
      BY <2>1 DEF Asking, k
    <2>5. ASSUME "overtaken" \notin slips', wire[c] = <<>>, Asking(k)
          PROVE  run = "resuming"
      BY <1>1, <2>3, <2>5
    <2>6. QED
      BY <1>1, <2>1, <2>5 DEF CardAt, Asking, k, w
  <1>3. CASE /\ RefreshAnswered /\ Answer(Reconnect) = "ok"
             /\ call[Reconnect].approval # None
    <2>1. PICK id \in Ids : id = call[Reconnect].approval
      BY <1>3, Types, Names DEF CallRecords
    <2>2. /\ page' = Handled(page, Ev("asks", id))
          /\ "overtaken" \notin slips' => ~ (seen > id)
          /\ UNCHANGED <<log, wire, run, seen>>
      BY <1>3, <2>1 DEF RefreshAnswered, Slip, server
    <2>3. page'.approval = id
      <3> DEFINE e == Ev("asks", id)
      <3>1. e.kind = "asks" /\ e.id = id /\ page' = Handled(page, e)
        BY <2>2 DEF Ev
      <3> HIDE DEF e
      <3>2. QED
        BY <1>1, <3>1, HandledFacts
    <2>4. id \in 1 .. k /\ id # None
      <3>1. Asking(call[Reconnect].approval)
        BY <1>3 DEF AskInv
      <3>2. QED
        BY <1>1, <2>1, <3>1 DEF Asking
    <2>5. ASSUME "overtaken" \notin slips'
          PROVE  id >= k - w /\ (w = 0 => id = k)
      BY <1>1, <2>2, <2>4, <2>5
    <2>6. QED
      BY <1>1, <2>2, <2>3, <2>5 DEF CardAt, k, w
  <1>4. QED
    BY <1>2, <1>3

\* CardInv is kept by every step.
LEMMA CardStep ==
  ASSUME TypeOK, TypeOK', Wires, LogInv, AskInv, CardInv, [Next]_vars
  PROVE  CardInv'
  <1> SUFFICES ASSUME NEW c \in Conns, ShowsAt(c)'
               PROVE  CardAt(c)'
    <2>1. page'.websocket \in Conns \cup {None}
      BY DEF TypeOK
    <2> SUFFICES ASSUME Shows'
                 PROVE  CardAt(page.websocket)'
      BY DEF CardInv, CardAt, Told
    <2>2. PICK c \in Conns : c = page'.websocket
      BY <2>1 DEF Shows
    <2>3. CardAt(c)'
      BY <2>2 DEF Shows, ShowsAt
    <2>4. QED
      BY <2>2, <2>3 DEF CardAt
  <1>1. /\ Len(log) \in Nat /\ DOMAIN log = 1 .. Len(log) /\ seen \in Nat
        /\ Len(wire[c]) \in Nat /\ None \notin Ids
    BY Types, Names DEF TypeOK
  <1>2. CASE Authenticated(c) /\ registered = c
    <2>1. /\ Len(wire'[c]) = Len(log) /\ Len(log') = Len(log) /\ seen' = seen
          /\ page'.approval = page.approval /\ log' = log
      <3>1. Len(wire[c]) = Len(log) + 1
        BY <1>2, AuthenticatedFacts DEF Wires, WireOf, Listening
      <3>2. QED
        BY <1>1, <1>2, <3>1, AuthenticatedFacts
    <2>2. Asking(Len(log))' => Len(log) # 0
      BY <1>1, <2>1 DEF Asking
    <2>3. wire'[c] = <<>> => Len(wire'[c]) = 0
      OBVIOUS
    <2>4. page.approval # None => page.approval \in Nat
      BY Types DEF Pages, Ids
    <2>5. QED
      BY <1>1, <2>1, <2>2, <2>3, <2>4 DEF CardAt, Asking
  <1>3. CASE ShowsAt(c) /\ ~ Reload
    <2>1. CardAt(c)
      BY <1>3, CardAtSocket
    <2>2. {"overtaken", "stray"} \cap slips' = {} => {"overtaken", "stray"} \cap slips = {}
      BY <1>3, SlipsGrow
    <2>3. CASE Receives(c)
      <3>1. PICK n \in DOMAIN log, e \in Event :
              /\ n = Len(log) - Len(wire[c]) + 1 /\ log[n] = e
              /\ Len(log) - Len(wire'[c]) = n
              /\ page' = Handled(page, e)
              /\ seen' = IF n > seen THEN n ELSE seen
              /\ wire'[c] = <<>> <=> n = Len(log)
              /\ \A j \in Nat : Asking(j) /\ j >= n - 1 /\ e.kind # "resumed" => j >= n
              /\ log' = log
        BY <1>3, <2>3, NextEvent
      <3>2. n \in Nat /\ seen' >= n
        <4>1. n \in Nat /\ n >= n
          BY <1>1
        <4>2. seen' = IF n > seen THEN n ELSE seen
          BY <3>1
        <4>3. seen \in Nat
          BY <1>1
        <4>4. QED
          BY <4>1, <4>2, <4>3
      <3>3. page'.approval = CASE e.kind = "asks" -> e.id
                               [] e.kind = "resumed" -> None
                               [] OTHER -> page.approval
        <4>1. page \in Pages /\ page' = Handled(page, e)
          BY <3>1, Types
        <4>2. QED
          BY <4>1, EventKinds, HandledFacts
      <3>4. e.kind = "asks" => e.id = n
        BY <3>1 DEF LogInv, Asking
      <3>5. ASSUME {"overtaken", "stray"} \cap slips' = {}, page'.approval # None
            PROVE  page'.approval >= n
        <4>1. CASE e.kind = "asks"
          BY <3>2, <3>3, <3>4, <4>1
        <4>2. CASE e.kind \notin {"asks", "resumed"}
          <5>1. /\ page'.approval = page.approval
                /\ page.approval >= Len(log) - Len(wire[c])
                /\ Asking(page.approval)
            BY <2>1, <2>2, <3>3, <3>5, <4>2 DEF CardAt, AskInv
          <5>2. page.approval \in Nat
            BY <1>1, <5>1 DEF Asking
          <5>4. Len(log) - Len(wire[c]) = n - 1
            BY <1>1, <3>1
          <5>3. QED
            BY <3>1, <4>2, <5>1, <5>2, <5>4
        <4>3. QED
          BY <3>3, <3>5, <4>1, <4>2
      <3>6. n = Len(log) /\ Asking(Len(log)) => page'.approval = Len(log)
        BY <3>1, <3>3, <3>4 DEF Asking
      <3>7. /\ Len(log') - Len(wire'[c]) = n /\ (wire'[c] = <<>> => n = Len(log))
            /\ Asking(Len(log))' => Asking(Len(log)) /\ Len(log') = Len(log)
        BY <3>1 DEF Asking
      <3>8. QED
        BY <3>2, <3>5, <3>6, <3>7, <3>1 DEF CardAt, Asking
    <2>4. ASSUME NEW d \in Conns \ {c}, Receives(d)
          PROVE  CardAt(c)'
      <3>1. /\ "stray" \in slips' /\ log' = log /\ wire'[c] = wire[c]
            /\ seen' = IF Position(d) > seen THEN Position(d) ELSE seen
            /\ Position(d) = Len(log) - Len(wire[d]) + 1 /\ Len(wire[d]) \in Nat
        BY <1>3, <2>4, Types, ReceivesFacts DEF ShowsAt
      <3>2. seen' >= seen /\ seen' \in Int
        <4> DEFINE p == Position(d)
        <4>1. p \in Int /\ seen' = IF p > seen THEN p ELSE seen
          BY <1>1, <3>1
        <4> HIDE DEF p
        <4>2. QED
          BY <1>1, <4>1
      <3>3. seen' >= Len(log) - Len(wire[c])
        BY <1>1, <2>1, <3>2 DEF CardAt
      <3>4. QED
        BY <3>1, <3>3 DEF CardAt
    <2>5. ASSUME \/ DecisionAnswered /\ Answer(Decide) = "ok"
                 \/ /\ RefreshAnswered /\ Answer(Reconnect) = "ok"
                    /\ call[Reconnect].approval # None
          PROVE  CardAt(c)'
      BY <2>1, <2>5, AnsweredCard
    <2>6. CASE TaskEnds \/ TaskAsks \/ TaskResumes
      <3>1. PICK e \in Event : Publish(e)
        BY <2>6, TaskFacts
      <3>2. page' = page /\ seen' = seen
        BY <2>6 DEF TaskEnds, TaskAsks, TaskResumes, history
      <3>3. /\ Len(log') = Len(log) + 1 /\ Len(wire'[c]) = Len(wire[c]) + 1
            /\ wire'[c] # <<>>
        BY <1>3, <3>1, PublishFacts DEF ShowsAt, Listening
      <3>4. Len(log') - Len(wire'[c]) = Len(log) - Len(wire[c])
        BY <1>1, <3>3
      <3>5. QED
        BY <2>1, <2>2, <3>2, <3>3, <3>4 DEF CardAt
    <2>7. CASE NoNews(c)
      BY <2>1, <2>2, <2>7 DEF NoNews, CardAt, Asking
    <2>8. QED
      BY <1>3, <2>3, <2>4, <2>5, <2>6, <2>7, CardKinds
  <1>4. QED
    BY <1>2, <1>3, ShowsKinds
-----------------------------------------------------------------------------
(* The task of the page.                                                    *)

\* What makes a page's task active.
LEMMA TaskKinds ==
  ASSUME TypeOK, Wires, [Next]_vars
  PROVE  \/ \E h \in Submits : Submit(h) \/ (SubmitAnswered(h) /\ Answer(h) = "ok")
         \/ \E c \in Conns : Receives(c)
         \/ DecisionAnswered /\ Answer(Decide) = "ok"
         \/ page'.task = page.task \/ page'.task \notin Active
  <1>1. page \in Pages
    BY Types
  <1>2. ASSUME NEW h \in Submits, SubmitAnswered(h), Answer(h) # "ok"
        PROVE  page'.task = page.task \/ page'.task \notin Active
    <2>1. page'.task \in {page.task, "error"}
      BY <1>2, SubmitAnsweredFacts
    <2>2. QED
      BY <2>1 DEF Active
  <1>3. CASE Reconnects \/ LoginAnswered
    <2>1. page'.task \in {page.task, "error"}
      BY <1>3, ReconnectsFacts, LoginAnsweredFacts
    <2>2. QED
      BY <2>1 DEF Active
  <1>4. ASSUME DecisionAnswered, Answer(Decide) # "ok"
        PROVE  page'.task = page.task \/ page'.task \notin Active
    <2>1. page'.task \in {page.task, "error"}
      BY <1>4, DecisionAnsweredFacts
    <2>2. QED
      BY <2>1 DEF Active
  <1>5. CASE RefreshAnswered
    <2>1. CASE page' = page
      BY <2>1
    <2>2. CASE page' = Handled(page, Ev("asks", call[Reconnect].approval))
      BY <1>1, <2>2 DEF Handled, Ev, Pages, Active
    <2>3. QED
      BY <1>5, <2>1, <2>2 DEF RefreshAnswered
  <1>6. CASE Decides \/ LogsIn \/ \E c \in Conns : Opens(c)
    BY <1>1, <1>6 DEF Decides, LogsIn, Opens, Pages
  <1>7. CASE Reload
    BY <1>7 DEF Reload, Loaded, Active
  <1>8. ASSUME NEW c \in Conns, Authenticated(c)
        PROVE  page'.task = page.task
    BY <1>8, AuthenticatedFacts
  <1>9. ASSUME NEW c \in Conns, NEW expired \in BOOLEAN, Closes(c, expired)
        PROVE  page'.task = page.task \/ page'.task \notin Active
    <2> DEFINE a == AfterClose(c, expired)
    <2>1. a.task \in {"error", page.task}
      BY Types, ClosedFacts
    <2>2. page'.task \in {"error", a.task}
      BY <1>9, Types, ClosesFacts, ClosedFacts
    <2>3. QED
      BY <2>1, <2>2 DEF Active
  <1>10. ASSUME \/ \E c \in Conns : Authenticates(c)
                \/ TaskEnds \/ TaskEndsSilently \/ TaskAsks \/ TaskResumes
                \/ TaskTakes \/ ServesDecision \/ ServesRefresh \/ ServesLogin
                \/ \E h \in Submits : ServesSubmit(h)
                \/ \E h \in Calls : TurnsAway(h) \/ LosesAnswer(h)
                \/ UNCHANGED vars
         PROVE  page' = page
    BY <1>10 DEF Authenticates, TaskEnds, TaskEndsSilently, TaskAsks, TaskResumes,
                 TaskTakes, ServesDecision, ServesRefresh, ServesLogin, ServesSubmit,
                 TurnsAway, LosesAnswer, Reply, vars
  <1>11. QED
    BY <1>2, <1>3, <1>4, <1>5, <1>6, <1>7, <1>8, <1>9, <1>10 DEF Next

\* Only a login, or a reload, makes a page authenticated.
LEMMA AuthKinds ==
  ASSUME TypeOK, Wires, [Next]_vars, page'.auth = "authenticated"
  PROVE  page.auth = "authenticated" \/ LoginAnswered \/ Reload
  <1>1. page \in Pages
    BY Types
  <1>2. ASSUME NEW h \in Submits, Submit(h) \/ SubmitAnswered(h)
        PROVE  page.auth = "authenticated"
    <2>1. page'.auth \in {page.auth, "signed_out"}
      <3>1. CASE Submit(h)
        BY <3>1, SubmitFacts DEF Keeps, NewSocket
      <3>2. CASE SubmitAnswered(h)
        BY <3>2, SubmitAnsweredFacts DEF Keeps
      <3>3. QED
        BY <1>2, <3>1, <3>2
    <2>2. QED
      BY <2>1
  <1>3. CASE Reconnects
    BY <1>3, ReconnectsFacts DEF Keeps, NewSocket
  <1>4. CASE DecisionAnswered
    <2>1. page'.auth \in {page.auth, "signed_out"}
      BY <1>4, DecisionAnsweredFacts DEF Keeps
    <2>2. QED
      BY <2>1
  <1>5. CASE RefreshAnswered
    <2>1. CASE page' = page
      BY <2>1
    <2>2. CASE page' = Handled(page, Ev("asks", call[Reconnect].approval))
      BY <1>1, <2>2 DEF Handled, Ev, Pages
    <2>3. QED
      BY <1>5, <2>1, <2>2 DEF RefreshAnswered
  <1>6. CASE Decides \/ LogsIn \/ \E c \in Conns : Opens(c)
    BY <1>1, <1>6 DEF Decides, LogsIn, Opens, Pages
  <1>7. ASSUME NEW c \in Conns, Authenticated(c)
        PROVE  page.auth = "authenticated"
    BY <1>7, AuthenticatedFacts
  <1>8. ASSUME NEW c \in Conns, Receives(c)
        PROVE  page.auth = "authenticated"
    <2>1. PICK e \in Event : page' = Handled(page, e)
      BY <1>8, ReceivesFacts
    <2>2. QED
      BY <1>1, <2>1, EventKinds, HandledFacts
  <1>9. ASSUME NEW c \in Conns, NEW expired \in BOOLEAN, Closes(c, expired)
        PROVE  page.auth = "authenticated"
    <2> DEFINE a == AfterClose(c, expired)
    <2>1. a.auth \in {page.auth, "signed_out"}
      BY Types, ClosedFacts
    <2>2. page'.auth = a.auth
      BY <1>9, Types, ClosesFacts, ClosedFacts
    <2>3. QED
      BY <2>1, <2>2
  <1>10. ASSUME \/ \E c \in Conns : Authenticates(c)
                \/ TaskEnds \/ TaskEndsSilently \/ TaskAsks \/ TaskResumes
                \/ TaskTakes \/ ServesDecision \/ ServesRefresh \/ ServesLogin
                \/ \E h \in Submits : ServesSubmit(h)
                \/ \E h \in Calls : TurnsAway(h) \/ LosesAnswer(h)
                \/ UNCHANGED vars
         PROVE  page' = page
    BY <1>10 DEF Authenticates, TaskEnds, TaskEndsSilently, TaskAsks, TaskResumes,
                 TaskTakes, ServesDecision, ServesRefresh, ServesLogin, ServesSubmit,
                 TurnsAway, LosesAnswer, Reply, vars
  <1>11. QED
    BY <1>2, <1>3, <1>4, <1>5, <1>6, <1>7, <1>8, <1>9, <1>10 DEF Next

\* When no task runs after a step that publishes nothing and is not a silent
\* end, none ran before.
LEMMA NoneRan ==
  ASSUME TypeOK, [Next]_vars, run' = "none", log' = log, "silent" \notin slips'
  PROVE  run = "none" /\ "silent" \notin slips
  <1>1. ~ TaskEnds /\ ~ TaskAsks /\ ~ TaskResumes
    <2>1. ASSUME NEW e \in Event, Publish(e)
          PROVE  FALSE
      <3>1. Len(log') = Len(log) + 1 /\ Len(log) \in Nat
        BY <2>1, PublishFacts, Types
      <3>2. QED
        BY <3>1
    <2>2. QED
      BY <2>1, TaskFacts
  <1>2. ~ TaskEndsSilently
    BY DEF TaskEndsSilently, Slip
  <1>3. ~ TaskTakes
    BY DEF TaskTakes
  <1>4. CASE ServesDecision
    BY <1>4 DEF ServesDecision, Reply, history
  <1>5. ASSUME NEW h \in Submits, ServesSubmit(h)
        PROVE  run = "none" /\ "silent" \notin slips
    BY <1>5 DEF ServesSubmit, Reply, history
  <1>6. CASE OfThePage
    BY <1>6 DEF OfThePage
  <1>7. QED
    BY <1>1, <1>2, <1>3, <1>4, <1>5, <1>6, StepKinds

\* A submission of which the server knows nothing goes on so, or ends in an
\* error, or the page is not authenticated any more.
LEMMA UnservedStays ==
  ASSUME TypeOK, Wires, [Next]_vars, NEW h \in Submits, Unserved(h), ~ Reload,
         page'.auth = "authenticated", page'.task \in Active, run' # "working"
  PROVE  Unserved(h)'
  <1>1. CASE call'[h] = call[h]
    BY <1>1 DEF Unserved, Answered, Answer
  <1>2. CASE Submit(h)
    BY <1>2, SubmitFacts DEF Unserved
  <1>3. CASE SubmitAnswered(h)
    <2>1. Answer(h) # "ok"
      <3>1. call[h].pc = "answered"
        BY <1>3 DEF SubmitAnswered, Answered
      <3>2. QED
        BY <3>1 DEF Unserved
    <2>2. Answer(h) # "expired"
      BY <1>3, SubmitAnsweredFacts
    <2>3. page'.task = "error"
      BY <1>3, <2>1, <2>2, SubmitAnsweredFacts DEF Keeps
    <2>4. QED
      BY <2>3 DEF Active
  <1>4. CASE IsRejected(h)
    <2>1. PICK c \in Conns, expired \in BOOLEAN : Closes(c, expired) /\ h \in Waiting(c)
      BY <1>4 DEF IsRejected
    <2> DEFINE a == AfterClose(c, expired)
    <2>2. /\ page'.auth = a.auth
          /\ page'.task = IF Waiting(c) \cap Submits # {} /\ a.auth = "authenticated"
                          THEN "error" ELSE a.task
      BY <2>1, Types, ClosesFacts, ClosedFacts
    <2>3. page'.task = "error"
      BY <2>1, <2>2
    <2>4. QED
      BY <2>3 DEF Active
  <1>5. CASE call'[h].pc = "asked"
    BY <1>5 DEF Unserved
  <1>6. CASE GoesWrong(h)
    BY <1>6 DEF GoesWrong, Unserved, Answered, Answer
  <1>7. ~ Accepts(h)
    BY DEF Accepts
  <1>8. QED
    BY <1>1, <1>2, <1>3, <1>4, <1>5, <1>6, <1>7, SubmitKinds

\* The two parts of TaskInv, the first at the socket of the page.
TaskAt(c) ==
  /\ {"overtaken", "stray", "silent"} \cap slips = {}
  /\ wire[c] = <<>> /\ log # <<>>
  /\ page.auth = "authenticated" /\ run = "none" /\ page.task \in Active
  => \E h \in Submits : Unserved(h)
NoTaskYet ==
  log = <<>> /\ run = "none" /\ "silent" \notin slips =>
    /\ page.task # "running"
    /\ \A h \in Submits : ~ (Answered(h) /\ Answer(h) = "ok")

\* Each part of TaskInv is kept by every step,
LEMMA TaskAtStep ==
  ASSUME TypeOK, Wires, LogInv, AskInv, CardInv, TaskInv, [Next]_vars,
         NEW c \in Conns, ShowsAt(c)'
  PROVE  TaskAt(c)'
  <1> SUFFICES ASSUME {"overtaken", "stray", "silent"} \cap slips' = {},
                      wire'[c] = <<>>, log' # <<>>, page'.auth = "authenticated",
                      run' = "none", page'.task \in Active
               PROVE  \E h \in Submits : Unserved(h)'
    BY DEF TaskAt
  <1>1. /\ Len(log) \in Nat /\ DOMAIN log = 1 .. Len(log) /\ seen \in Nat
        /\ log \in Seq(Event) /\ page \in Pages
    BY Types DEF TypeOK
  <1>2. CASE Authenticated(c) /\ registered = c
    <2>1. Len(wire[c]) = Len(log) + 1
      BY <1>2, AuthenticatedFacts DEF Wires, WireOf, Listening
    <2>2. Len(wire'[c]) = Len(log) /\ log' = log
      BY <1>1, <1>2, <2>1, AuthenticatedFacts
    <2>3. Len(wire'[c]) = 0
      OBVIOUS
    <2>4. QED
      BY <1>1, <2>2, <2>3, EmptySeq
  <1>3. CASE ShowsAt(c) /\ ~ Reload
    <2>1. CardAt(c) /\ TaskAt(c)
      BY <1>3, CardAtSocket, Names DEF TaskInv, TaskAt, Shows, ShowsAt
    <2>2. {"overtaken", "stray"} \cap slips = {}
      BY <1>3, SlipsGrow
    <2>3. CASE Receives(c)
      <3>1. PICK n \in DOMAIN log, e \in Event :
              /\ log[n] = e /\ page' = Handled(page, e)
              /\ wire'[c] = <<>> <=> n = Len(log)
              /\ log' = log /\ run' = run /\ slips' = slips
        BY <1>3, <2>3, NextEvent
      <3>2. log[Len(log)] = e /\ run = "none" /\ "silent" \notin slips
        BY <3>1
      <3>3. e.kind # "resumed"
        BY <3>1, <3>2 DEF LogInv
      <3>4. page'.task = CASE e.kind = "asks" -> "waiting_for_approval"
                           [] e.kind = "resumed" -> "running"
                           [] e.kind = "result" -> "completed"
                           [] e.kind = "error" -> "error"
        <4>1. page \in Pages /\ page' = Handled(page, e)
          BY <1>1, <3>1
        <4>2. QED
          BY <4>1, EventKinds, HandledFacts
      <3>5. QED
        BY <3>3, <3>4, EventKinds DEF Active
    <2>4. ASSUME NEW d \in Conns \ {c}, Receives(d)
          PROVE  FALSE
      BY <1>3, <2>4, ReceivesFacts DEF ShowsAt
    <2>5. ASSUME DecisionAnswered, Answer(Decide) = "ok"
          PROVE  FALSE
      <3> DEFINE a == call[Decide].approval
                 k == Len(log)
      <3>1. /\ UNCHANGED <<log, wire, run>> /\ ~ (seen > a + 1)
            /\ "silent" \notin slips
        BY <2>5 DEF DecisionAnswered, Slip, server
      <3>2. Asking(a) /\ a # k
        BY <2>5, <3>1 DEF AskInv, Answered, DecisionAnswered
      <3>3. k - 0 <= seen
        <4>1. seen >= Len(log) - Len(wire[c]) /\ Len(wire[c]) = 0
          BY <2>1, <3>1 DEF CardAt
        <4>2. QED
          BY <1>1, <4>1
      <3>4. a \in 1 .. k
        BY <1>1, <3>2 DEF Asking
      <3> HIDE DEF a, k
      <3>5. a + 1 = k
        <4>0. k \in Nat
          BY <1>1 DEF k
        <4>1. a \in Nat /\ a < k
          BY <3>2, <3>4, <4>0
        <4>2. ~ (seen > a + 1) /\ seen \in Nat
          BY <1>1, <3>1
        <4>3. QED
          BY <3>3, <4>0, <4>1, <4>2
      <3>6. log[a + 1].kind = "resumed"
        BY <3>2, <3>4 DEF LogInv, Asking, k
      <3>7. log[k].kind # "resumed"
        BY <3>1 DEF LogInv, k
      <3>8. QED
        BY <3>5, <3>6, <3>7
    <2>6. ASSUME RefreshAnswered, Answer(Reconnect) = "ok", call[Reconnect].approval # None
          PROVE  FALSE
      <3>1. page' = Handled(page, Ev("asks", call[Reconnect].approval))
        BY <2>6 DEF RefreshAnswered
      <3>2. QED
        BY <1>1, <3>1 DEF Handled, Ev, Pages, Active
    <2>7. ASSUME TaskEnds \/ TaskAsks \/ TaskResumes
          PROVE  FALSE
      <3>1. PICK e \in Event : Publish(e)
        BY <2>7, TaskFacts
      <3>2. wire'[c] # <<>>
        BY <1>3, <3>1, PublishFacts DEF ShowsAt, Listening
      <3>3. QED
        BY <3>2
    <2>8. CASE NoNews(c)
      <3>1. wire[c] = <<>> /\ log = log' /\ log # <<>> /\ run = "none"
            /\ "silent" \notin slips
        BY <2>8, NoneRan DEF NoNews
      <3>2. CASE \E h \in Submits : Submit(h)
        BY <3>2, SubmitFacts DEF Unserved
      <3>3. ASSUME \A h \in Submits : ~ Submit(h)
            PROVE  \E h \in Submits : Unserved(h)'
        <4>1. ~ LoginAnswered
          <5>1. page'.websocket # None
            BY Names DEF ShowsAt
          <5>2. QED
            BY <5>1, LoginAnsweredFacts DEF Drops
        <4>2. page.auth = "authenticated"
          BY <1>3, <4>1, AuthKinds
        <4>3. page.task \in Active
          <5>1. ASSUME NEW h \in Submits, SubmitAnswered(h), Answer(h) = "ok"
                PROVE  page.task \in Active
            BY <5>1, SubmitAnsweredFacts DEF Active
          <5>2. \A d \in Conns : ~ Receives(d) \/ d = c
            BY <2>4
          <5>3. ~ Receives(c)
            <6> SUFFICES ASSUME Receives(c)
                         PROVE  FALSE
              OBVIOUS
            <6>1. wire[c] # <<>>
              BY ReceivesFacts
            <6>2. QED
              BY <3>1, <6>1
          <5>4. QED
            BY <2>5, <3>3, <5>1, <5>2, <5>3, TaskKinds
        <4>4. PICK h \in Submits : Unserved(h)
          BY <2>1, <2>2, <3>1, <4>2, <4>3 DEF TaskAt
        <4>5. run' # "working"
          OBVIOUS
        <4>6. QED
          BY <1>3, <4>4, <4>5, UnservedStays
      <3>4. QED
        BY <3>2, <3>3
    <2>9. QED
      BY <1>3, <2>3, <2>4, <2>5, <2>6, <2>7, <2>8, CardKinds
  <1>4. QED
    BY <1>2, <1>3, ShowsKinds

\* the second as well,
LEMMA NoTaskYetStep ==
  ASSUME TypeOK, Wires, AskInv, TaskInv, [Next]_vars
  PROVE  NoTaskYet'
  <1> SUFFICES ASSUME log' = <<>>, run' = "none", "silent" \notin slips'
               PROVE  /\ page'.task # "running"
                      /\ \A h \in Submits :
                           ~ (call'[h].pc = "answered" /\ call'[h].answer = "ok")
    BY DEF NoTaskYet, Answered, Answer
  <1>1. log = <<>> /\ log' = log
    <2>1. ASSUME NEW e \in Event, Publish(e)
          PROVE  FALSE
      BY <2>1, PublishFacts
    <2>2. ~ TaskEnds /\ ~ TaskAsks /\ ~ TaskResumes
      BY <2>1, TaskFacts
    <2>3. log' = log
      BY <2>2, StepKinds DEF TaskEndsSilently, TaskTakes, ServesDecision, ServesSubmit,
                             Reply, OfThePage
    <2>4. QED
      BY <2>3
  <1>2. run = "none" /\ "silent" \notin slips
    BY <1>1, NoneRan
  <1>3. /\ page.task # "running"
        /\ \A h \in Submits : ~ (Answered(h) /\ Answer(h) = "ok")
    BY <1>1, <1>2 DEF TaskInv
  <1>4. DOMAIN log = {}
    BY <1>1
  <1>5. page'.task # "running"
    <2>1. ASSUME NEW h \in Submits, Submit(h)
          PROVE  page'.task # "running"
      BY <2>1, SubmitFacts
    <2>2. ASSUME NEW h \in Submits, SubmitAnswered(h)
          PROVE  Answer(h) # "ok"
      BY <1>3, <2>2 DEF SubmitAnswered
    <2>3. ASSUME NEW c \in Conns, Receives(c)
          PROVE  FALSE
      BY <1>4, <2>3, ReceivesFacts DEF FromLog
    <2>4. ~ (DecisionAnswered /\ Answer(Decide) = "ok")
      BY <1>4 DEF DecisionAnswered, Answered, AskInv, Asking
    <2>5. page'.task \notin Active => page'.task # "running"
      BY DEF Active
    <2>6. QED
      BY <1>3, <2>1, <2>2, <2>3, <2>4, <2>5, TaskKinds
  <1>6. ASSUME NEW h \in Submits, call'[h].pc = "answered", call'[h].answer = "ok"
        PROVE  FALSE
    <2>1. h \in Calls
      BY Names
    <2>2. CASE call'[h] = call[h]
      BY <1>3, <1>6, <2>2 DEF Answered, Answer
    <2>3. CASE Submit(h)
      <3>1. call'[h].pc \in {"connecting", "asked"}
        BY <2>3, SubmitFacts
      <3>2. QED
        BY <1>6, <3>1
    <2>4. CASE SubmitAnswered(h)
      BY <1>6, <2>1, <2>4, DoneFacts, CallFacts DEF SubmitAnswered
    <2>5. CASE Reload
      BY <1>6, <2>1, <2>5, CallFacts DEF Reload
    <2>6. CASE IsRejected(h)
      BY <1>6, <2>6, CallFacts DEF IsRejected
    <2>7. CASE Accepts(h)
      BY <2>7 DEF Accepts
    <2>8. CASE GoesWrong(h)
      BY <1>6, <2>8 DEF GoesWrong
    <2>9. QED
      BY <1>6, <2>2, <2>3, <2>4, <2>5, <2>6, <2>7, <2>8, SubmitKinds
  <1>7. QED
    BY <1>5, <1>6
\* and so is TaskInv.
LEMMA TaskStep ==
  ASSUME TypeOK, TypeOK', Wires, LogInv, AskInv, CardInv, TaskInv, [Next]_vars
  PROVE  TaskInv'
  <1>1. ASSUME Shows'
        PROVE  TaskAt(page.websocket)'
    <2>1. PICK c \in Conns : c = page'.websocket
      BY <1>1 DEF Shows, TypeOK
    <2>2. ShowsAt(c)'
      BY <1>1, <2>1 DEF Shows, ShowsAt
    <2>3. TaskAt(c)'
      BY <2>2, TaskAtStep
    <2>4. QED
      BY <2>1, <2>3 DEF TaskAt
  <1>2. NoTaskYet'
    BY NoTaskYetStep
  <1>3. QED
    BY <1>1, <1>2 DEF TaskInv, TaskAt, NoTaskYet

-----------------------------------------------------------------------------
(* The theorems.                                                            *)

\* Inv holds at first, and is kept
LEMMA InitInv ==
  ASSUME Init
  PROVE  Inv
  <1>1. /\ page = Loaded /\ log = <<>> /\ run = "none" /\ pending = None
        /\ registered = None /\ seen = 0 /\ slips = {} /\ logins = 0
        /\ \A c \in Conns : conn[c] = "unused" /\ wire[c] = <<>>
        /\ \A h \in Calls : call[h] = NoCall
    BY DEF Init
  <1>2. page \in Pages /\ (page.auth = "authenticated" => page.token)
    BY <1>1 DEF Loaded, Pages, Tasks
  <1>3. conn \in [Conns -> Lives] /\ call \in [Calls -> CallRecords]
    BY CallFacts DEF Init, Lives
  <1>4. wire \in [Conns -> Seq(Messages)] /\ log \in Seq(Event) /\ Len(log) = 0
    <2>1. <<>> \in Seq(Messages) /\ <<>> \in Seq(Event) /\ Len(<<>>) = 0
      OBVIOUS
    <2>2. QED
      BY <2>1 DEF Init
  <1>5. TypeOK
    <2>1. seen \in 0 .. MaxLog /\ logins \in 0 .. MaxLogins /\ Len(log) <= MaxLog
      BY <1>1, <1>4, Names
    <2>2. QED
      BY <1>1, <1>2, <1>3, <1>4, <2>1 DEF TypeOK, Pages, Lives, CallRecords, Messages
  <1>6. DOMAIN log = {} /\ \A j : ~ Asking(j)
    BY <1>1 DEF Asking
  <1>7. Wires
    BY <1>1, Names DEF Wires, WireOf, Listening
  <1>8. LogInv
    BY <1>1, <1>6 DEF LogInv
  <1>9. AskInv
    BY <1>1, CallFacts, Names DEF AskInv, Answered, Loaded
  <1>10. CardInv /\ SocketInv
    BY <1>1 DEF CardInv, Shows, SocketInv, Loaded, Alive
  <1>11. TaskInv /\ SubmittingIsUnderWay /\ Replied
    BY <1>1, CallFacts, Names DEF TaskInv, Shows, SubmittingIsUnderWay, Loaded,
       Replied, Answered
  <1>12. QED
    BY <1>5, <1>7, <1>8, <1>9, <1>10, <1>11 DEF Inv

\* by every step.
LEMMA NextInv ==
  ASSUME Inv, [Next]_vars
  PROVE  Inv'
  <1> USE DEF Inv
  <1>1. TypeOK'
    BY TypeStep
  <1>2. Wires'
    BY WiresStep
  <1>3. LogInv' /\ AskInv'
    BY LogStep, AskStep
  <1>4. CardInv' /\ TaskInv'
    BY <1>1, CardStep, TaskStep
  <1>5. SubmittingIsUnderWay' /\ Replied' /\ SocketInv'
    BY SubmittingStep, RepliedStep, SocketStep
  <1>6. QED
    BY <1>1, <1>2, <1>3, <1>4, <1>5

\* Inv is an invariant.
LEMMA SpecInv == Spec => []Inv
  <1>1. Init => Inv
    BY InitInv
  <1>2. Inv /\ [Next]_vars => Inv'
    BY NextInv
  <1>3. QED
    BY <1>1, <1>2, PTL DEF Spec

\* index.html:986-1008, 1044-1095: when everything has arrived, the
\* card shows an approval exactly when the server waits for one, and that one,
\* unless an answer was overtaken by events or some came by a second socket.
THEOREM CardAgreesIsInvariant == Spec => []CardAgrees
  <1>1. ASSUME Inv
        PROVE  CardAgrees
    <2> SUFFICES ASSUME Quiet, {"overtaken", "stray"} \cap slips = {}, run # "resuming"
                 PROVE  page.approval = Awaited
      BY <1>1 DEF CardAgrees, Inv
    <2> DEFINE k == Len(log)
               w == Len(wire[page.websocket])
    <2>1. /\ Shows /\ wire[page.websocket] = <<>> /\ w = 0
      BY DEF Quiet, Shows
    <2>2. /\ k \in Nat /\ DOMAIN log = 1 .. k /\ page \in Pages /\ None \notin Ids
          /\ Len(log) = k
      BY <1>1, Types, Names DEF Inv
    <2>3. Told = k
      BY <2>1, <2>2 DEF Told
    <2> HIDE DEF k, w
    <2>4. /\ page.approval # None => page.approval >= k /\ Asking(page.approval)
          /\ Asking(k) => page.approval = k
      BY <1>1, <2>1, <2>2, <2>3 DEF Inv, CardInv, AskInv
    <2>5. page.approval # None => page.approval = k
      BY <2>2, <2>4 DEF Asking
    <2>6. CASE page.approval # None
      <3>1. Asking(k)
        BY <2>4, <2>5, <2>6
      <3>2. run = "none" /\ pending = k
        BY <1>1, <2>2, <3>1 DEF Inv, LogInv
      <3>3. QED
        BY <2>5, <2>6, <3>2 DEF Awaited
    <2>7. CASE page.approval = None
      <3>1. ~ Asking(k)
        <4>1. k \in 1 .. k => k # None
          <5>1. ASSUME Asking(k)
                PROVE  k \in Ids
            BY <1>1, <2>2, <5>1, Types DEF Asking, Ids, Inv
          <5>2. QED
            BY <1>1, <2>2, Types DEF Ids, Inv
        <4>2. QED
          BY <2>2, <2>4, <2>7, <4>1 DEF Asking
      <3>2. run = "none" => pending = None
        BY <1>1, <2>2, <3>1 DEF Inv, LogInv
      <3>3. QED
        BY <2>7, <3>2 DEF Awaited
    <2>8. QED
      BY <2>6, <2>7
  <1>2. QED
    BY <1>1, SpecInv, PTL

\* index.html:1056-1095: a page that was told everything is not left "running"
\* by a task that has ended, unless it ended without an event.
THEOREM NotLeftRunningIsInvariant == Spec => []NotLeftRunning
  <1>1. ASSUME Inv
        PROVE  NotLeftRunning
    <2> SUFFICES ASSUME Quiet, run = "none",
                        {"overtaken", "stray", "silent"} \cap slips = {},
                        page.task = "running"
                 PROVE  FALSE
      BY DEF NotLeftRunning
    <2>1. /\ Shows /\ wire[page.websocket] = <<>> /\ page.auth = "authenticated"
          /\ \A h \in Submits : call[h].pc = "none"
      BY Names DEF Quiet, Shows
    <2>2. page.task \in Active /\ "silent" \notin slips
      BY DEF Active
    <2>3. CASE log = <<>>
      BY <1>1, <2>2, <2>3 DEF Inv, TaskInv
    <2>4. CASE log # <<>>
      <3>1. PICK h \in Submits : Unserved(h)
        BY <1>1, <2>1, <2>2, <2>4 DEF Inv, TaskInv
      <3>2. call[h].pc \in {"connecting", "asked", "answered"}
        BY <3>1 DEF Unserved, Answered
      <3>3. QED
        BY <2>1, <3>2
    <2>5. QED
      BY <2>3, <2>4
  <1>2. QED
    BY <1>1, SpecInv, PTL

\* index.html:1215-1266: "submitting" means that a request is under way: a
\* failure on any path ends it, except one that meets a login in progress.
THEOREM SubmittingIsUnderWayIsInvariant == Spec => []SubmittingIsUnderWay
  <1>1. Inv => SubmittingIsUnderWay
    BY DEF Inv
  <1>2. QED
    BY <1>1, SpecInv, PTL

\* index.html:1097-1174: a page that takes itself for connected is: its socket
\* is open, and no other socket of the page is, unless sockets have crossed.
THEOREM ReadyMeansConnectedIsInvariant == Spec => []ReadyMeansConnected
  <1>1. ASSUME Inv
        PROVE  ReadyMeansConnected
    BY <1>1 DEF Inv, SocketInv, ReadyMeansConnected, Alive
  <1>2. QED
    BY <1>1, SpecInv, PTL
=============================================================================
