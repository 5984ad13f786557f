---------------------------- MODULE SocketSession ----------------------------
(***************************************************************************)
(* The endpoint /ws/{thread_id} of api/server.py over EventDelivery: a     *)
(* socket is accepted, has some time to send its token (api/auth.py), is   *)
(* told auth_ok, and is then registered and served until its client        *)
(* leaves or the token runs out.  Time is counted by the timers that run   *)
(* and the life left to the token, so that it needs no bound.              *)
(***************************************************************************)
EXTENDS EventDelivery, Integers

CONSTANTS
  AuthTimeout,   \* ws_auth_timeout_seconds
  TokenLife,     \* token_expire_minutes
  MaxGreeting    \* bound: how long sending auth_ok may take

ValidTimes == {AuthTimeout, TokenLife, MaxGreeting} \subseteq Nat \ {0}
ASSUME TimesArePositive == ValidTimes

VARIABLES
  phase,   \* "new", "asked", "greeting", "session" or "closed"
  timer,   \* what is left of the wait_for, or will be when it starts
  life,    \* what is left of the token; negative when it has run out
  late     \* history: how long sending auth_ok took

sessionVars == <<phase, timer, life, late>>
allVars == <<vars, sessionVars>>

SessionTypeOK ==
  /\ phase \in [Sockets -> {"new", "asked", "greeting", "session", "closed"}]
  /\ timer \in [Sockets -> Nat] /\ late \in [Sockets -> 0 .. MaxGreeting]
  /\ life \in [Sockets -> Int]
  /\ \A s \in Sockets : Connected(s) => phase[s] = "session"

SessionInit ==
  /\ Init
  /\ phase = [s \in Sockets |-> "new"]
  /\ timer = [s \in Sockets |-> 0]
  /\ life = [s \in Sockets |-> 0] /\ late = [s \in Sockets |-> 0]

Enters(s, p) == phase' = [phase EXCEPT ![s] = p]

-----------------------------------------------------------------------------
(* Before the socket is registered.                                         *)

Accepts(s) ==
  /\ phase[s] = "new"
  /\ Enters(s, "asked")
  /\ timer' = [timer EXCEPT ![s] = AuthTimeout]
  /\ UNCHANGED <<vars, life, late>>

\* No token, one that is not valid or has run out, another owner's thread; or
\* the client says nothing in time, or leaves.
Refuses(s) ==
  /\ phase[s] = "asked"
  /\ Enters(s, "closed")
  /\ UNCHANGED <<vars, timer, life, late>>

AuthTimesOut(s) ==
  /\ phase[s] = "asked" /\ timer[s] = 0
  /\ Enters(s, "closed")
  /\ UNCHANGED <<vars, timer, life, late>>

\* expires_in, of a token with r left; the first form forgets its age.
FullLife(r) == TokenLife
ExpiresIn(r) == r

\* A token carries its own end, and is good before it.
LifeOf(age) == TokenLife - age
Decodes(age) == LifeOf(age) > 0

Authenticates(s) ==
  /\ phase[s] = "asked"
  /\ \E age \in {a \in 0 .. TokenLife : Decodes(a)} :
       /\ life' = [life EXCEPT ![s] = LifeOf(age)]
       /\ timer' = [timer EXCEPT ![s] = ExpiresIn(LifeOf(age))]
  /\ Enters(s, "greeting")
  /\ UNCHANGED <<vars, late>>

\* auth_ok is sent, and wait_for begins: register_authenticated is inside it.
Greeted(s) ==
  /\ phase[s] = "greeting"
  /\ Enters(s, "session")
  /\ Register(s)
  /\ UNCHANGED <<timer, life, late>>

\* The client is gone, or the manager has stopped: an exception.
GreetingFails(s) ==
  /\ phase[s] = "greeting"
  /\ Enters(s, "closed")
  /\ UNCHANGED <<vars, timer, life, late>>

-----------------------------------------------------------------------------
(* The session, until its finally clause.                                   *)

SessionTimesOut(s) ==
  /\ phase[s] = "session" /\ timer[s] = 0
  /\ ClientGone(s)
  /\ UNCHANGED sessionVars

ClientLeaves(s) == ClientGone(s) /\ UNCHANGED sessionVars

Finally(s) ==
  /\ SessionEnds(s)
  /\ Enters(s, "closed")
  /\ UNCHANGED <<timer, life, late>>

-----------------------------------------------------------------------------
(* Time.                                                                    *)

\* What a wait_for covers.  In the first form the first message is awaited
\* for ever.
TimedOnceOpen(s) == phase[s] = "session" /\ Connected(s)
Timed(s) == phase[s] = "asked" \/ (phase[s] = "session" /\ Connected(s))

\* A timer fires before the clock goes on.
Tick ==
  /\ \A s \in Sockets :
       /\ Timed(s) => timer[s] > 0
       /\ phase[s] = "greeting" => late[s] < MaxGreeting
  /\ timer' = [s \in Sockets |-> IF Timed(s) THEN timer[s] - 1 ELSE timer[s]]
  /\ life' = [s \in Sockets |->
                IF phase[s] = "greeting" \/ Connected(s) THEN life[s] - 1
                                                         ELSE life[s]]
  /\ late' = [s \in Sockets |->
                IF phase[s] = "greeting" THEN late[s] + 1 ELSE late[s]]
  /\ UNCHANGED <<vars, phase>>

SessionNext ==
  \/ Delivery /\ UNCHANGED sessionVars
  \/ \E s \in Sockets :
       \/ Accepts(s) \/ Refuses(s) \/ AuthTimesOut(s) \/ Authenticates(s)
       \/ Greeted(s) \/ GreetingFails(s)
       \/ SessionTimesOut(s) \/ ClientLeaves(s) \/ Finally(s)
  \/ Tick

\* The loop runs what can run, threads go on, timers fire, and a send ends:
\* the server pings its sockets and breaks the connection of a stalled client.
Kept == UNCHANGED sessionVars
SessionSpec ==
  /\ SessionInit /\ [][SessionNext]_allVars
  /\ WF_allVars(CallbackRuns /\ Kept) /\ WF_allVars(WorkerTakes /\ Kept)
  /\ WF_allVars(Joined /\ Kept) /\ WF_allVars(Stopped /\ Kept)
  /\ \A w \in Tools : WF_allVars(ToolHandsOver(w) /\ Kept)
  /\ \A p \in Publishers \cup {Loop} : WF_allVars(SendEnds(p) /\ Kept)
  /\ \A s \in Sockets :
       /\ WF_allVars(ReplaysOne(s) /\ Kept) /\ WF_allVars(GoesLive(s) /\ Kept)
       /\ WF_allVars(AuthTimesOut(s)) /\ WF_allVars(Finally(s))
       /\ WF_allVars(Greeted(s) \/ GreetingFails(s))
       /\ WF_allVars(SessionTimesOut(s))
  /\ WF_allVars(Tick)

-----------------------------------------------------------------------------
(* Properties.                                                              *)

\* A connection does not outlive its token by more than the time it took to
\* send auth_ok: expires_in is computed before that, and waited for after it.
NeverOutlivesToken ==
  /\ TypeOK /\ SessionTypeOK
  /\ \A s \in Sockets : Connected(s) => life[s] + late[s] >= 0

\* Every socket that is accepted is closed in the end, whether its client
\* keeps silent, stalls in the middle of the replay, or only ever listens.
SessionsClose == \A s \in Sockets : phase[s] = "asked" ~> phase[s] = "closed"

\* Once the server stops, the queue is worked off and the manager stops.
StopEnds == mode = "draining" ~> mode = "stopped"
=============================================================================
