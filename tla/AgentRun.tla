------------------------------ MODULE AgentRun ------------------------------
(***************************************************************************)
(* What happens inside a Task: run_deep_agent and the graph it streams     *)
(* (agent/main_agent.py).  The model proposes tool calls; if one of them   *)
(* is sensitive the graph stops at one interrupt for the whole turn, and   *)
(* goes on with the decisions of the user; the calls then run at the same  *)
(* time, each in a worker thread.  A call that raises ends the Task, while *)
(* the threads of its siblings go on, perhaps into the next Task.  Tasks   *)
(* of one Thread follow each other (TaskService); how the graph keeps its  *)
(* state is modelled from how the code uses it.                            *)
(***************************************************************************)
EXTENDS Workspace

CONSTANTS
  ToolSets    \* the sets of tools a model draws from

VARIABLES
  offered,   \* the tools the model draws from
  task       \* "none", "thinking", "waiting" or "acting"

runVars == <<offered, task>>
vars == <<call, session, fileVars, runVars>>

\* The calls that need a decision.  In the first form one is forgotten.
SensitiveButMarkdown == {"pdf", "sql"}
Sensitive == {"markdown", "pdf", "sql"}

FilesOf == [k \in Kinds |-> CASE k = "markdown" -> {Md}
                              [] k = "pdf" -> {Pdf}
                              [] k = "read" -> Files
                              [] OTHER -> {None}]
Steps == {"asked", "input", "render", "open", "write", "load", "scan"}
           \cup Requests \cup Outcomes
Contents == {None, Torn, Unapproved, Approved}
              \cup {Sent(n) : n \in 1 .. MaxSent}

CallType ==
  [kind : Kinds, at : Steps, file : Files \cup {None}, text : Contents,
   met : SUBSET (Steps \X Bad), left : BOOLEAN]

\* A model draws from the tools there are; None, Torn and the user's versions
\* are told apart from each other and from what the model writes.
ASSUME ToolsKnown == ToolSets \subseteq SUBSET Kinds
ASSUME NamesDiffer ==
  /\ MaxSent \in Nat
  /\ None \notin CallType /\ None \notin Files /\ None # Torn
  /\ {None, Torn} \cap {Unapproved, Approved} = {}
  /\ \A n \in 1 .. MaxSent : Sent(n) \notin {None, Torn}

TypeOK ==
  /\ uploads \in [Files -> Contents \ {Unapproved, Approved}]
  /\ output \in [Files -> Contents] /\ base \in [Files -> Contents]
  /\ sent \in 0 .. MaxSent
  /\ touched \subseteq Files /\ excused \subseteq Files
  /\ offered \in ToolSets
  /\ task \in {"none", "thinking", "waiting", "acting"}
  /\ call \in [Calls -> CallType \cup {None}] /\ session \in [Calls -> BOOLEAN]
  /\ \A c \in Calls : call[c] # None =>
       /\ call[c].kind \in offered
       /\ call[c].file \in FilesOf[call[c].kind]
       /\ Now(c) => IF call[c].at = "asked" THEN task = "waiting"
                                            ELSE task = "acting"

Init ==
  /\ WorkspaceInit
  /\ call = [c \in Calls |-> None] /\ session = [c \in Calls |-> FALSE]
  /\ offered \in ToolSets
  /\ task = "none"

Uploads(f) ==
  /\ SavesUpload(f)
  /\ UNCHANGED <<call, session, runVars>>

-----------------------------------------------------------------------------
(* The Task begins: prepare and import, before the graph is given anything. *)

Starts ==
  /\ task = "none"
  /\ Import
  /\ task' = "thinking"
  /\ UNCHANGED <<call, session, offered>>

StartFails ==
  /\ task = "none"
  /\ ImportFails
  /\ UNCHANGED <<call, session, runVars>>

-----------------------------------------------------------------------------
(* The model's turns.                                                       *)

\* With a sensitive call among them all calls of the turn wait for the user.
Proposes(cs) ==
  /\ task = "thinking"
  /\ \A c \in cs : call[c] = None
  /\ \E k \in [cs -> offered], f \in [cs -> Files \cup {None}] :
       LET asks == \E c \in cs : k[c] \in Sensitive
           proposed(c) == Call(k[c], IF asks THEN "asked" ELSE "input", f[c],
                               Unapproved, FALSE)
       IN  /\ \A c \in cs : f[c] \in FilesOf[k[c]]
           /\ call' = [c \in Calls |-> IF c \in cs THEN proposed(c) ELSE call[c]]
           /\ task' = IF asks THEN "waiting" ELSE "acting"
  /\ UNCHANGED <<session, fileVars, offered>>

\* The decisions, one for each sensitive call, start the graph again.  Uploads
\* are imported by a new Task only: the first form imports them here too.
Deciding == {c \in Calls : At(c, {"asked"}) /\ call[c].kind \in Sensitive}
Resumed ==
  /\ task = "waiting"
  /\ \E yes \in SUBSET Deciding :
       call' = [c \in Calls |->
         CASE c \in yes -> [call[c] EXCEPT !.at = "input", !.text = Approved]
           [] c \in Deciding \ yes -> [call[c] EXCEPT !.at = "rejected"]
           [] At(c, {"asked"}) /\ c \notin Deciding -> [call[c] EXCEPT !.at = "input"]
           [] OTHER -> call[c]]
  /\ task' = "acting"
  /\ UNCHANGED <<session, offered>>

DecidesAndImports == Resumed /\ Import
Decides == Resumed /\ UNCHANGED fileVars

\* Every call of the turn has ended, and the model is told.
TurnEnds ==
  /\ task = "acting"
  /\ \A c \in Calls : Now(c) => At(c, Outcomes \ {"raised"})
  /\ task' = "thinking"
  /\ call' = [c \in Calls |-> IF Now(c) THEN None ELSE call[c]]
  /\ session' = [c \in Calls |-> session[c] /\ ~Now(c)]
  /\ UNCHANGED <<fileVars, offered>>

\* What the Task started with, and has touched, matters no more.
Over ==
  /\ task' = "none"
  /\ base' = [f \in Files |-> None] /\ touched' = {}
  /\ UNCHANGED <<uploads, output, sent, offered>>

\* An exception ends the Task; a thread that runs cannot be cancelled.
TaskFails ==
  /\ task = "acting"
  /\ \E c \in Calls : Now(c) /\ At(c, {"raised"})
  /\ Over
  /\ call' = [c \in Calls |-> IF call[c] = None \/ Ended(c) THEN None
                              ELSE [call[c] EXCEPT !.left = TRUE]]
  /\ session' = [c \in Calls |-> session[c] /\ call'[c] # None]
  /\ UNCHANGED excused

\* What is left of an earlier Task ends, or was never begun.
LeftoverEnds(c) ==
  /\ call[c] # None /\ call[c].left
  /\ At(c, Outcomes \cup {"input"})
  /\ call' = [call EXCEPT ![c] = None]
  /\ session' = [session EXCEPT ![c] = FALSE]
  /\ UNCHANGED <<fileVars, runVars>>

\* The model answers, with or without a text; it fails; or the graph has taken
\* all the steps recursion_limit allows.
Ends ==
  /\ task = "thinking"
  /\ Over
  /\ UNCHANGED <<call, session, excused>>

\* The process dies.  The graph keeps an interrupt, and nothing else; a file
\* that was being written stays as it is, and so does a session at RAGFlow,
\* which belongs to no call any more.
Crash ==
  /\ call' = [c \in Calls |-> IF At(c, {"asked"}) THEN call[c] ELSE None]
  /\ call' # call
  /\ session' = [c \in Calls |-> FALSE]
  /\ excused' = excused \cup HeldOpen
  /\ IF task = "waiting"
       THEN UNCHANGED <<uploads, output, sent, base, touched, runVars>>
       ELSE Over

-----------------------------------------------------------------------------
FileStep(c) ==
  /\ Renders(c) \/ Opens(c) \/ Writes(c) \/ Loads(c) \/ Scans(c)
  /\ UNCHANGED runVars

ServiceStep(c) ==
  /\ Begins(c) \/ \E a \in Answers : Answered(c, a)
  /\ UNCHANGED <<fileVars, runVars>>

Next ==
  \/ \E f \in Files : Uploads(f)
  \/ Starts \/ StartFails
  \/ \E cs \in SUBSET Calls \ {{}} : Proposes(cs)
  \/ Decides \/ TurnEnds \/ TaskFails \/ Ends \/ Crash
  \/ \E c \in Calls : ServiceStep(c) \/ FileStep(c) \/ LeftoverEnds(c)

Spec == Init /\ [][Next]_vars

-----------------------------------------------------------------------------
(* Properties.                                                              *)

\* Nothing a sensitive tool does goes without the user's approval: no file
\* holds a text that was not approved, and no SQL is sent, whatever else the
\* model proposed in the same turn, and after any crash or failed Task.
OnlyApprovedEffects ==
  /\ \A f \in Files : output[f] # Unapproved
  /\ \A c \in Calls : At(c, {"query"}) => call[c].text = Approved

\* A Task works on the uploads its Thread had when it began: each of them is in
\* the output directory, as uploaded, until a tool opens the file of its name.
TaskSeesUploads ==
  /\ TypeOK
  /\ task # "none" =>
       \A f \in Files : base[f] # None => output[f] = base[f] \/ f \in touched

\* What the model has made, with the user's approval, is only ever replaced by
\* a tool, or by the import of an upload of the same name when a Task begins.
ArtifactsKept ==
  [][\A f \in Files : ByAgent(output[f]) /\ output'[f] # output[f] =>
       \/ \E c \in Calls : call'[c] # call[c] /\ call[c].file = f
                          /\ At(c, {"open", "write"})
       \/ task = "none" /\ uploads[f] # None]_vars
=============================================================================
