--------------------------- MODULE AgentRunProofs ---------------------------
(***************************************************************************)
(* The properties of AgentRun for any number of calls, any tools and any   *)
(* number of uploads.  The calls are looked at one by one: CallOK is what  *)
(* the steps of a call keep whatever its siblings do, and the files are    *)
(* safe because every call that writes one is OK.                          *)
(***************************************************************************)
EXTENDS ToolCallsProofs

\* A call with an effect has been approved; only the text of a PDF that was
\* made of a torn Markdown is something else.
Cleared(r) ==
  r.kind \in Sensitive /\ r.at \notin {"asked", "rejected"} =>
    r.text = Approved \/ (r.kind = "pdf" /\ r.text = Torn)

CallOK(r, s) == r \in CallType /\ Fits(r) /\ Told(r) /\ Kept(r, s) /\ Cleared(r)

CallsOK ==
  \A c \in Calls : IF call[c] = None THEN ~session[c]
                                     ELSE CallOK(call[c], session[c])

CallsTyped ==
  call \in [Calls -> CallType \cup {None}] /\ session \in [Calls -> BOOLEAN]

\* A call belongs to its turn: it is one of the tools offered, at a file of the
\* tool, and waits exactly when the Task does.
Belongs(r, tools, t) ==
  /\ r.kind \in tools
  /\ r.file \in FilesOf[r.kind]
  /\ ~r.left => IF r.at = "asked" THEN t = "waiting" ELSE t = "acting"

CallsBelong == \A c \in Calls : call[c] # None => Belongs(call[c], offered, task)

FilesTyped ==
  /\ uploads \in [Files -> Contents \ {Unapproved, Approved}]
  /\ output \in [Files -> Contents] /\ base \in [Files -> Contents]
  /\ sent \in 0 .. MaxSent
  /\ touched \subseteq Files /\ excused \subseteq Files

RunTyped ==
  offered \in ToolSets /\ task \in {"none", "thinking", "waiting", "acting"}

\* The parts of the type invariant.
LEMMA TypeParts ==
  TypeOK <=> FilesTyped /\ RunTyped /\ CallsTyped /\ CallsBelong
  BY DEF TypeOK, FilesTyped, RunTyped, CallsTyped, CallsBelong, Belongs, Now

-----------------------------------------------------------------------------
(* The steps of one call.                                                   *)

\* The call c goes on as r, with the session s, and nothing happens to others.
Moves(c, r, s) ==
  /\ call' = [call EXCEPT ![c] = r] /\ session' = [session EXCEPT ![c] = s]
  /\ s \in BOOLEAN /\ CallOK(r, s)
  /\ r.kind = call[c].kind /\ r.file = call[c].file /\ r.left = call[c].left
  /\ call[c].at # "asked" /\ r.at # "asked" /\ r.at # call[c].at

\* Going on, as the actions say it, makes the record Gone of the call.
LEMMA GoesOnIs ==
  ASSUME CallsTyped, NEW c \in Calls, call[c] \in CallType,
         NEW x \in Steps, NEW a \in Answers, GoesOn(c, x, a)
  PROVE  call' = [call EXCEPT ![c] = Gone(call[c], x, a)]
<1> DEFINE m == IF a \in Bad THEN call[c].met \cup {<<call[c].at, a>>} ELSE call[c].met
           one == [call EXCEPT ![c].at = x]
<1>2. one = [call EXCEPT ![c] = [call[c] EXCEPT !.at = x]]
  BY DEF CallsTyped
<1>3. one[c] = [call[c] EXCEPT !.at = x] /\ one[c].met = call[c].met
  BY <1>2 DEF CallsTyped, CallType
<1>4. call' = [one EXCEPT ![c].met = IF a \in Bad THEN @ \cup {<<call[c].at, a>>} ELSE @]
  BY DEF GoesOn
<1>5. call' = [one EXCEPT ![c] = [one[c] EXCEPT !.met = m]]
  BY <1>3, <1>4
<1>6. Gone(call[c], x, a) = [one[c] EXCEPT !.met = m]
  BY <1>3 DEF Gone, CallType
<1> QED BY <1>2, <1>5, <1>6 DEF CallsTyped

\* What a call that has begun and gone on keeps of what it knows.
LEMMA GoneCleared ==
  ASSUME NEW r \in CallType, NEW x \in Steps, NEW a \in Answers, Cleared(r),
         r.at \notin {"asked", "rejected"}
  PROVE  Cleared(Gone(r, x, a))
  BY GoneIs DEF Cleared

\* The first step of a call is one of its tool.
LEMMA FirstStepIs ==
  ASSUME NEW k \in Kinds, NEW x \in FirstSteps[k]
  PROVE  /\ x \in Steps \ {"asked", "input", "rejected"}
         /\ x \in Outcomes => x \in {"final", "retry", "raised"}
         /\ x \in Requests \cup Outcomes \cup {"open", "render", "load", "scan"}
         /\ x = "open" => k = "markdown"
         /\ x = "render" => k = "pdf"
         /\ x = "load" => k = "read"
         /\ x = "scan" => k = "scan"
         /\ x = "query" => k = "sql"
         /\ x = "table" => k = "table"
         /\ x \in StockSteps => k = "stock"
         /\ x \in WeatherSteps => k = "weather"
         /\ x = "search" => k = "search"
         /\ x = "chats" => k = "chats"
         /\ x \in AskSteps => x = "list" /\ k = "ask"
<1>1. Kinds = {"weather", "stock", "search", "sql", "table", "chats", "ask",
               "markdown", "pdf", "read", "scan"}
  BY DEF Kinds, FirstSteps
<1>2. CASE k \in {"weather", "stock", "search", "sql", "table", "chats"}
  BY <1>2, RequestNames DEF FirstSteps, ResolveCnSymbol, ValidateSqlQuery,
     Steps, Outcomes, StockSteps, WeatherSteps, AskSteps
<1>3. CASE k \in {"ask", "markdown", "pdf", "read", "scan"}
  BY <1>3, RequestNames DEF FirstSteps, ResolveArtifact,
     Steps, Outcomes, StockSteps, WeatherSteps, AskSteps
<1> QED BY <1>1, <1>2, <1>3

\* A step on files, or the one at the start of a call, has no session.
LEMMA NoSessionYet ==
  ASSUME NEW r, NEW s \in BOOLEAN, Kept(r, s),
         r.at \in {"asked", "input", "render", "open", "write", "load", "scan"}
  PROVE  ~s
  BY DEF Kept, Outcomes

\* A call that begins is still OK.
LEMMA BeginsOK ==
  ASSUME CallsTyped, CallsOK, NEW c \in Calls, Begins(c)
  PROVE  \E r \in CallType : Moves(c, r, session[c])
<1> DEFINE o == call[c]
<1>1. o \in CallType /\ o.at = "input" /\ CallOK(o, session[c]) /\ session[c] \in BOOLEAN
  BY DEF Begins, At, CallsTyped, CallsOK
<1>2. o.kind \in Kinds
  BY <1>1 DEF CallType
<1>3. PICK x \in FirstSteps[o.kind] : GoesOn(c, x, FoundAtFirst(x))
  BY DEF Begins
<1> DEFINE a == FoundAtFirst(x)
           g == Gone(o, x, a)
<1>4. x \in Steps \ {"undo"} /\ a \in Answers /\ Tells(o.kind, x, a)
  <2>1. x \in Steps /\ (x \in AskSteps => x = "list")
    BY <1>2, FirstStepIs
  <2>2. a \in Answers
    BY AnswerNames DEF FoundAtFirst
  <2>3. Tells(o.kind, x, a)
    BY DEF FoundAtFirst, Tells
  <2> QED BY <2>1, <2>2, <2>3 DEF AskSteps
<1>a. GoesOn(c, x, a)
  BY <1>3
<1> HIDE DEF a
<1>5. call' = [call EXCEPT ![c] = g]
  BY <1>1, <1>4, <1>a, GoesOnIs
<1>6. g \in CallType /\ g.at = x /\ g.kind = o.kind /\ g.file = o.file
        /\ g.left = o.left
  BY <1>1, <1>4, GoneIs
<1>7. Fits(g)
  <2>1. x # "write"
    BY <1>2, FirstStepIs, RequestsAreNoEnds DEF Outcomes
  <2> QED BY <1>2, <1>6, <2>1, FirstStepIs DEF Fits
<1>8. Told(g)
  BY <1>1, <1>4, FileTold DEF CallOK
<1>9. Kept(g, session[c])
  <2>1. ~session[c]
    BY <1>1, NoSessionYet DEF CallOK
  <2> QED BY <2>1 DEF Kept
<1>10. Cleared(g)
  BY <1>1, <1>4, GoneCleared DEF CallOK
<1>11. session' = [session EXCEPT ![c] = session[c]]
  BY DEF Begins, CallsTyped
<1>12. x \notin {"asked", "input"}
  BY <1>2, FirstStepIs
<1>13. Moves(c, g, session[c])
  BY <1>1, <1>5, <1>6, <1>7, <1>8, <1>9, <1>10, <1>11, <1>12 DEF Moves, CallOK
<1> QED BY <1>6, <1>13

\* A call that is answered is still OK.
LEMMA AnsweredOK ==
  ASSUME CallsTyped, CallsOK, NEW c \in Calls, NEW a \in Answers, Answered(c, a)
  PROVE  \E r \in CallType, s \in BOOLEAN : Moves(c, r, s)
<1> DEFINE o == call[c]
<1>1. o \in CallType /\ o.at \in Requests /\ CallOK(o, session[c])
        /\ session[c] \in BOOLEAN
  BY DEF Answered, At, CallsTyped, CallsOK
<1>2. PICK x \in After[o.at][a] : GoesOn(c, x, a)
  BY DEF Answered
<1>3. PICK s \in SessionAfter(c, a) : session' = [session EXCEPT ![c] = s]
  BY DEF Answered
<1> DEFINE g == Gone(o, x, a)
<1>4. x \in Steps
  BY <1>1, AnswerIsStep DEF Steps
<1>5. call' = [call EXCEPT ![c] = g]
  BY <1>1, <1>2, <1>4, GoesOnIs
<1>6. g \in CallType /\ g.at = x /\ g.kind = o.kind /\ g.file = o.file
        /\ g.left = o.left
  <2>1. o \in CallType /\ x \in Steps /\ a \in Answers
    BY <1>1, <1>4
  <2> HIDE DEF o
  <2> QED BY <2>1, GoneIs
<1>7. Fits(g) /\ x \in Requests \cup Outcomes
  BY <1>1, <1>4, AnswerFits DEF CallOK
<1>8. Told(g)
  BY <1>1, <1>4, AnswerTold DEF CallOK
<1>9. s \in BOOLEAN /\ Kept(g, s)
  BY <1>1, <1>3, <1>4, AnswerKept DEF CallOK
<1>10. o.at \notin {"asked", "rejected"}
  BY <1>1, RequestsAreNoEnds DEF Outcomes
<1>11. Cleared(g)
  BY <1>1, <1>4, <1>10, GoneCleared DEF CallOK
<1>12. x # "asked" /\ x # o.at
  BY <1>1, <1>4, <1>7, RequestsAreNoEnds, AnswerIsStep DEF Outcomes
<1>13. Moves(c, g, s)
  BY <1>1, <1>3, <1>5, <1>6, <1>7, <1>8, <1>9, <1>10, <1>11, <1>12 DEF Moves, CallOK
<1> QED BY <1>6, <1>9, <1>13

-----------------------------------------------------------------------------
(* The steps on files.                                                      *)

\* What a call that goes on with a step on files, or ends there, keeps.
LEMMA GoneOnFile ==
  ASSUME CallsTyped, CallsOK, NEW c \in Calls, call[c] # None,
         call[c].at \in {"render", "open", "write", "load", "scan"},
         NEW x \in Outcomes \cup {"open", "write"}, NEW a \in Answers,
         x # call[c].at,
         GoesOn(c, x, a), UNCHANGED session,
         x \in {"open", "write"} => call[c].kind \in {"markdown", "pdf"},
         Tells(call[c].kind, x, a), x \notin {"rejected", "cleanup_failed"}
  PROVE  Moves(c, Gone(call[c], x, a), session[c])
<1> DEFINE o == call[c]
           g == Gone(o, x, a)
<1>1. o \in CallType /\ CallOK(o, session[c]) /\ session[c] \in BOOLEAN
  BY DEF CallsTyped, CallsOK
<1>2. x \in Steps
  BY DEF Steps
<1>3. call' = [call EXCEPT ![c] = g]
  BY <1>1, <1>2, GoesOnIs
<1>4. g \in CallType /\ g.at = x /\ g.kind = o.kind /\ g.file = o.file
        /\ g.left = o.left
  <2>1. o \in CallType
    BY <1>1
  <2> HIDE DEF o
  <2> QED BY <1>2, <2>1, GoneIs
<1>5. Fits(g)
  <2>1. /\ x \notin {"render", "load", "scan", "query", "table", "search", "chats"}
        /\ x \notin StockSteps \cup WeatherSteps \cup AskSteps
    BY DEF Outcomes, StockSteps, WeatherSteps, AskSteps
  <2> QED BY <1>4, <2>1 DEF Fits
<1>6. Told(g)
  BY <1>1, <1>2, FileTold DEF CallOK, Outcomes
<1>7. Kept(g, session[c])
  BY <1>1, NoSessionYet DEF CallOK, Kept
<1>8. Cleared(g)
  BY <1>1, <1>2, GoneCleared DEF CallOK
<1>9. session' = [session EXCEPT ![c] = session[c]]
  BY DEF CallsTyped
<1>10. x # "asked"
  BY DEF Outcomes
<1> QED
  BY <1>1, <1>3, <1>4, <1>5, <1>6, <1>7, <1>8, <1>9, <1>10 DEF Moves, CallOK

\* The kinds of the calls that work on files.
LEMMA FileKinds ==
  ASSUME CallsTyped, CallsOK, NEW c \in Calls, NEW x, At(c, {x}),
         x \in {"render", "open", "write", "load", "scan"}
  PROVE  /\ call[c] \in CallType /\ call[c] # None /\ call[c].at = x
         /\ x \in {"open", "write"} => call[c].kind \in {"markdown", "pdf"}
         /\ x = "render" => call[c].kind = "pdf"
         /\ x = "load" => call[c].kind = "read"
         /\ x = "scan" => call[c].kind = "scan"
         /\ Cleared(call[c]) /\ call[c].kind \in Sensitive \cup {"read", "scan"}
<1>1. call[c] \in CallType /\ call[c] # None /\ call[c].at = x
        /\ CallOK(call[c], session[c])
  BY DEF At, CallsTyped, CallsOK
<1> QED BY <1>1 DEF CallOK, Fits, Sensitive

\* A PDF that has been rendered goes on to open its file.
LEMMA RenderOpens ==
  ASSUME CallsTyped, CallsOK, NEW c \in Calls, At(c, {"render"}),
         NEW t \in Contents, t = Torn \/ t = call[c].text,
         call' = [call EXCEPT ![c] = [call[c] EXCEPT !.at = "open", !.text = t]],
         UNCHANGED session
  PROVE  \E r \in CallType : Moves(c, r, session[c])
<1> DEFINE o == call[c]
           g == [o EXCEPT !.at = "open", !.text = t]
<1>1. o \in CallType /\ o.at = "render" /\ o.kind = "pdf" /\ Cleared(o)
        /\ CallOK(o, session[c]) /\ session[c] \in BOOLEAN
  BY FileKinds DEF CallsOK, CallsTyped
<1>2. g.at = "open" /\ g.kind = o.kind /\ g.file = o.file /\ g.left = o.left
        /\ g.text = t /\ g.met = o.met
  BY <1>1 DEF CallType
<1>3. g \in CallType
  BY <1>1, <1>2 DEF CallType, Steps
<1>4. Fits(g)
  BY <1>1, <1>2 DEF Fits, StockSteps, WeatherSteps, AskSteps
<1>5. Told(g)
  <2>1. /\ MetBy(g, Transient) <=> MetBy(o, Transient)
        /\ MetBy(g, Unreadable) <=> MetBy(o, Unreadable)
        /\ MetBy(g, Bad) <=> MetBy(o, Bad)
    BY <1>2 DEF MetBy
  <2>2. Told(o)
    BY <1>1 DEF CallOK
  <2> QED BY <1>1, <1>2, <2>1, <2>2 DEF Told
<1>6. Kept(g, session[c])
  BY <1>1, NoSessionYet DEF CallOK, Kept
<1>7. Cleared(g)
  BY <1>1, <1>2 DEF Cleared, Sensitive
<1>8. session' = [session EXCEPT ![c] = session[c]]
  BY DEF CallsTyped
<1>9. Moves(c, g, session[c])
  BY <1>1, <1>2, <1>3, <1>4, <1>5, <1>6, <1>7, <1>8 DEF Moves, CallOK
<1> QED BY <1>3, <1>9

\* Every step on files moves its call.
LEMMA FileStepOK ==
  ASSUME CallsTyped, CallsOK, NEW c \in Calls,
         Renders(c) \/ Opens(c) \/ Writes(c) \/ Loads(c) \/ Scans(c)
  PROVE  \E r \in CallType : Moves(c, r, session[c])
<1> DEFINE o == call[c]
           Goes(x, a) == GoesOn(c, x, a) /\ Moves(c, Gone(o, x, a), session[c])
<1>0. o \in CallType /\ o # None /\ UNCHANGED session
  BY FileKinds DEF Renders, Opens, Writes, Loads, Scans
<1>1. ASSUME NEW x \in Outcomes \cup {"open", "write"}, NEW a \in Answers, Goes(x, a)
      PROVE  \E r \in CallType : Moves(c, r, session[c])
  <2>1. x \in Steps
    BY DEF Steps
  <2>2. Gone(o, x, a) \in CallType
    BY <1>0, <2>1, GoneIs
  <2> QED BY <1>1, <2>2
<1>2. ASSUME FileFails(c), o.kind \in {"markdown", "pdf"}, o.at \in {"open", "write"}
      PROVE  \E r \in CallType : Moves(c, r, session[c])
  <2> DEFINE x == FileFailure[o.kind]
  <2>1. (x = "retry" /\ o.kind = "markdown") \/ (x = "final" /\ o.kind = "pdf")
    BY <1>2 DEF FileFailure
  <2>2. GoesOn(c, x, "refused")
    BY <1>2 DEF FileFails
  <2>3. x \in Outcomes /\ "refused" \in Answers /\ "refused" # "broken"
    BY <2>1 DEF Outcomes, Answers, Bad, Transient, Unreadable
  <2> HIDE DEF x
  <2>4. x # o.at /\ x \notin {"open", "write", "raised"}
    BY <1>2, <2>1
  <2>5. Moves(c, Gone(o, x, "refused"), session[c])
    BY <1>0, <1>2, <2>1, <2>2, <2>3, <2>4, GoneOnFile DEF Tells
  <2> QED BY <1>1, <2>2, <2>3, <2>5
<1>3. CASE Renders(c)
  <2>1. o.at = "render" /\ o.kind = "pdf"
    BY <1>3, FileKinds DEF Renders
  <2>2. CASE GoesOn(c, "final", "good")
    <3>1. "final" \in Outcomes /\ "good" \in Answers
      BY DEF Outcomes, Answers, Bad, Transient, Unreadable
    <3>2. Moves(c, Gone(o, "final", "good"), session[c])
      BY <1>0, <2>1, <2>2, <3>1, GoneOnFile DEF Tells
    <3> QED BY <1>1, <2>2, <3>1, <3>2
  <2>3. CASE call' = [call EXCEPT ![c].at = "open",
                       ![c].text = IF output[Md] = Torn THEN Torn ELSE @]
    <3> DEFINE t == IF output[Md] = Torn THEN Torn ELSE o.text
               one == [call EXCEPT ![c].at = "open"]
    <3>1. one = [call EXCEPT ![c] = [o EXCEPT !.at = "open"]]
      BY DEF CallsTyped
    <3>2. one[c] = [o EXCEPT !.at = "open"] /\ one[c].text = o.text
      BY <1>0, <3>1 DEF CallsTyped, CallType
    <3>3. call' = [one EXCEPT ![c] = [one[c] EXCEPT !.text = t]]
      BY <2>3, <3>2
    <3>4. call' = [call EXCEPT ![c] = [o EXCEPT !.at = "open", !.text = t]]
      BY <1>0, <3>1, <3>2, <3>3 DEF CallsTyped, CallType
    <3>5. t \in Contents /\ (t = Torn \/ t = o.text)
      BY <1>0 DEF CallType, Contents
    <3>6. At(c, {"render"})
      BY <1>3 DEF Renders
    <3> HIDE DEF t
    <3> QED BY <1>0, <3>4, <3>5, <3>6, RenderOpens
  <2> QED BY <1>3, <2>2, <2>3 DEF Renders
<1>4. CASE Opens(c)
  <2>1. o.at = "open" /\ o.kind \in {"markdown", "pdf"}
    BY <1>4, FileKinds DEF Opens
  <2>2. CASE GoesOn(c, "write", "good")
    <3>1. "write" \in Outcomes \cup {"open", "write"} /\ "good" \in Answers
      BY DEF Answers
    <3>2. "write" \notin Outcomes
      BY DEF Outcomes
    <3>3. Moves(c, Gone(o, "write", "good"), session[c])
      BY <1>0, <2>1, <2>2, <3>1, <3>2, GoneOnFile DEF Tells
    <3> QED BY <1>1, <2>2, <3>1, <3>3
  <2>3. CASE FileFails(c)
    BY <1>2, <2>1, <2>3
  <2> QED BY <1>4, <2>2, <2>3 DEF Opens
<1>5. CASE Writes(c)
  <2>1. o.at = "write" /\ o.kind \in {"markdown", "pdf"}
    BY <1>5, FileKinds DEF Writes
  <2>2. CASE GoesOn(c, "ok", "good")
    <3>1. "ok" \in Outcomes /\ "good" \in Answers
      BY DEF Outcomes, Answers, Bad, Transient, Unreadable
    <3>2. Moves(c, Gone(o, "ok", "good"), session[c])
      BY <1>0, <2>1, <2>2, <3>1, GoneOnFile DEF Tells
    <3> QED BY <1>1, <2>2, <3>1, <3>2
  <2>3. CASE FileFails(c)
    BY <1>2, <2>1, <2>3
  <2> QED BY <1>5, <2>2, <2>3 DEF Writes
<1>6. CASE Loads(c)
  <2>1. o.at = "load"
    BY <1>6, FileKinds DEF Loads
  <2>2. ASSUME NEW x \in {"final", "ok"}, GoesOn(c, x, "good")
        PROVE  \E r \in CallType : Moves(c, r, session[c])
    <3>1. x \in Outcomes /\ "good" \in Answers
      BY DEF Outcomes, Answers, Bad, Transient, Unreadable
    <3>2. Moves(c, Gone(o, x, "good"), session[c])
      BY <1>0, <2>1, <2>2, <3>1, GoneOnFile DEF Tells
    <3> QED BY <1>1, <2>2, <3>1, <3>2
  <2>3. CASE GoesOn(c, "raised", "broken")
    <3>1. "raised" \in Outcomes /\ "broken" \in Answers
      BY DEF Outcomes, Answers, Bad, Transient, Unreadable
    <3>2. Moves(c, Gone(o, "raised", "broken"), session[c])
      BY <1>0, <2>1, <2>3, <3>1, GoneOnFile DEF Tells
    <3> QED BY <1>1, <2>3, <3>1, <3>2
  <2>4. CASE GoesOn(c, FileFailure["read"], "refused")
    <3>1. FileFailure["read"] = "retry" /\ "retry" \in Outcomes /\ "refused" \in Answers
      BY DEF FileFailure, Outcomes, Answers, Bad, Transient
    <3>2. Moves(c, Gone(o, "retry", "refused"), session[c])
      BY <1>0, <2>1, <2>4, <3>1, GoneOnFile DEF Tells
    <3> QED BY <1>1, <2>4, <3>1, <3>2
  <2> QED BY <1>6, <2>2, <2>3, <2>4 DEF Loads
<1>7. CASE Scans(c)
  <2>1. o.at = "scan"
    BY <1>7, FileKinds DEF Scans
  <2>2. CASE GoesOn(c, "ok", "good")
    <3>1. "ok" \in Outcomes /\ "good" \in Answers
      BY DEF Outcomes, Answers, Bad, Transient, Unreadable
    <3>2. Moves(c, Gone(o, "ok", "good"), session[c])
      BY <1>0, <2>1, <2>2, <3>1, GoneOnFile DEF Tells
    <3> QED BY <1>1, <2>2, <3>1, <3>2
  <2>3. CASE GoesOn(c, "raised", "broken")
    <3>1. "raised" \in Outcomes /\ "broken" \in Answers
      BY DEF Outcomes, Answers, Bad, Transient, Unreadable
    <3>2. Moves(c, Gone(o, "raised", "broken"), session[c])
      BY <1>0, <2>1, <2>3, <3>1, GoneOnFile DEF Tells
    <3> QED BY <1>1, <2>3, <3>1, <3>2
  <2> QED BY <1>7, <2>2, <2>3 DEF Scans
<1> QED BY <1>3, <1>4, <1>5, <1>6, <1>7

-----------------------------------------------------------------------------
(* The calls of a run, whatever step it takes.                              *)

\* One call, with its session, is as it should be for the tools and the Task.
EachOK(r, s, tools, t) ==
  /\ s \in BOOLEAN
  /\ r = None => ~s
  /\ r # None => CallOK(r, s) /\ Belongs(r, tools, t)

CallsInv == CallsTyped /\ CallsOK /\ CallsBelong

\* From all calls to one, and back.
LEMMA EachOfCalls ==
  ASSUME CallsInv, NEW c \in Calls
  PROVE  EachOK(call[c], session[c], offered, task)
  BY DEF CallsInv, CallsTyped, CallsOK, CallsBelong, EachOK

\* A step that leaves every call OK keeps the invariant.
LEMMA CallsOfEach ==
  ASSUME call' = [c \in Calls |-> call'[c]],
         session' = [c \in Calls |-> session'[c]],
         \A c \in Calls : EachOK(call'[c], session'[c], offered', task')
  PROVE  CallsInv'
<1>1. \A c \in Calls : call'[c] \in CallType \cup {None} /\ session'[c] \in BOOLEAN
  BY DEF EachOK, CallOK
<1>2. CallsTyped'
  BY <1>1 DEF CallsTyped
<1>3. CallsOK'
  BY DEF CallsOK, EachOK
<1>4. CallsBelong'
  BY DEF CallsBelong, EachOK
<1> QED BY <1>2, <1>3, <1>4 DEF CallsInv

\* A call that moves leaves the others as they were.
LEMMA MovesKeep ==
  ASSUME CallsInv, NEW c \in Calls, call[c] # None,
         NEW r \in CallType, NEW s \in BOOLEAN, Moves(c, r, s),
         UNCHANGED <<offered, task>>
  PROVE  CallsInv'
<1>1. /\ call' = [d \in Calls |-> IF d = c THEN r ELSE call[d]]
      /\ session' = [d \in Calls |-> IF d = c THEN s ELSE session[d]]
  BY DEF Moves, CallsInv, CallsTyped
<1>2. Belongs(r, offered, task)
  <2>1. Belongs(call[c], offered, task)
    BY EachOfCalls DEF EachOK
  <2> QED BY <2>1 DEF Belongs, Moves
<1>3. ASSUME NEW d \in Calls
      PROVE  EachOK(call'[d], session'[d], offered', task')
  <2>1. CASE d = c
    <3>1. call'[d] = r /\ session'[d] = s /\ CallOK(r, s) /\ r # None
      BY <1>1, <2>1, NamesDiffer DEF Moves
    <3> QED BY <1>2, <3>1 DEF EachOK
  <2>2. CASE d # c
    <3>1. call'[d] = call[d] /\ session'[d] = session[d]
      BY <1>1, <2>2
    <3> QED BY <3>1, EachOfCalls
  <2> QED BY <2>1, <2>2
<1> QED
  <2>1. call' = [d \in Calls |-> call'[d]] /\ session' = [d \in Calls |-> session'[d]]
    BY <1>1
  <2> QED BY <1>3, <2>1, CallsOfEach

\* The steps of a call, at a service or on a file.
LEMMA CallStepKeeps ==
  ASSUME CallsInv, NEW c \in Calls, ServiceStep(c) \/ FileStep(c)
  PROVE  CallsInv'
<1>1. CallsTyped /\ CallsOK /\ UNCHANGED <<offered, task>>
  BY DEF CallsInv, ServiceStep, FileStep, runVars
<1>2. CASE Begins(c)
  <2>1. call[c] # None /\ session[c] \in BOOLEAN
    BY <1>1, <1>2 DEF Begins, At, CallsTyped
  <2>2. PICK r \in CallType : Moves(c, r, session[c])
    BY <1>1, <1>2, BeginsOK
  <2> QED BY <1>1, <2>1, <2>2, MovesKeep
<1>3. ASSUME NEW a \in Answers, Answered(c, a)
      PROVE  CallsInv'
  <2>1. call[c] # None
    BY <1>3 DEF Answered, At
  <2>2. PICK r \in CallType, s \in BOOLEAN : Moves(c, r, s)
    BY <1>1, <1>3, AnsweredOK
  <2> QED BY <1>1, <2>1, <2>2, MovesKeep
<1>4. CASE FileStep(c)
  <2>1. Renders(c) \/ Opens(c) \/ Writes(c) \/ Loads(c) \/ Scans(c)
    BY <1>4 DEF FileStep
  <2>2. call[c] # None /\ session[c] \in BOOLEAN
    BY <1>1, <2>1 DEF Renders, Opens, Writes, Loads, Scans, At, CallsTyped
  <2>3. PICK r \in CallType : Moves(c, r, session[c])
    BY <1>1, <2>1, FileStepOK
  <2> QED BY <1>1, <2>2, <2>3, MovesKeep
<1> QED BY <1>2, <1>3, <1>4 DEF ServiceStep

\* While the model thinks, and while nothing runs, no call is of the turn.
LEMMA NobodyNow ==
  ASSUME CallsInv, task \in {"none", "thinking"}, NEW c \in Calls, call[c] # None
  PROVE  call[c] \in CallType /\ call[c].left
<1>1. Belongs(call[c], offered, task) /\ CallOK(call[c], session[c])
  BY EachOfCalls DEF EachOK
<1> QED BY <1>1 DEF Belongs, CallOK, CallType

\* A call left over belongs to no Task.
LEMMA LeftBelongs ==
  ASSUME NEW r, NEW tools, NEW t, NEW u, Belongs(r, tools, t), r.left
  PROVE  Belongs(r, tools, u)
  BY DEF Belongs

\* New calls know nothing yet, and wait exactly when one is sensitive.
LEMMA ProposesKeeps ==
  ASSUME CallsInv, RunTyped, NEW cs \in SUBSET Calls, Proposes(cs)
  PROVE  CallsInv'
<1>1. PICK k \in [cs -> offered], f \in [cs -> Files \cup {None}] :
        LET asks == \E c \in cs : k[c] \in Sensitive
            proposed(c) == Call(k[c], IF asks THEN "asked" ELSE "input", f[c],
                                Unapproved, FALSE)
        IN  /\ \A c \in cs : f[c] \in FilesOf[k[c]]
            /\ call' = [c \in Calls |-> IF c \in cs THEN proposed(c) ELSE call[c]]
            /\ task' = IF asks THEN "waiting" ELSE "acting"
  BY DEF Proposes
<1>2. task = "thinking" /\ (\A c \in cs : call[c] = None)
        /\ UNCHANGED <<session, offered>>
  BY DEF Proposes
<1> DEFINE asks == \E c \in cs : k[c] \in Sensitive
           at == IF asks THEN "asked" ELSE "input"
<1>3. /\ at \in {"asked", "input"}
      /\ at = "asked" => task' = "waiting"
      /\ at = "input" => task' = "acting" /\ \A c \in cs : k[c] \notin Sensitive
  BY <1>1
<1>4. \A c \in cs : f[c] \in FilesOf[k[c]] /\ call'[c] = Call(k[c], at, f[c], Unapproved, FALSE)
  BY <1>1
<1>5. \A c \in Calls \ cs : call'[c] = call[c]
  BY <1>1
<1>6. call' = [c \in Calls |-> call'[c]]
  BY <1>1
<1> HIDE DEF asks, at
<1>7. ASSUME NEW c \in Calls
      PROVE  EachOK(call'[c], session'[c], offered', task')
  <2>0. EachOK(call[c], session[c], offered, task)
    BY EachOfCalls
  <2>1. CASE c \in cs
    <3> DEFINE r == Call(k[c], at, f[c], Unapproved, FALSE)
    <3>1. call'[c] = r /\ ~session[c] /\ session'[c] = session[c]
            /\ session[c] \in BOOLEAN
      BY <1>2, <1>4, <2>0, <2>1 DEF EachOK
    <3>2. r.kind = k[c] /\ r.at = at /\ r.file = f[c] /\ r.text = Unapproved
            /\ r.met = {} /\ r.left = FALSE
      BY DEF Call
    <3>3. k[c] \in offered /\ k[c] \in Kinds /\ f[c] \in Files \cup {None}
      BY <2>1, ToolsKnown DEF RunTyped
    <3>4. r \in CallType
      <4>1. at \in Steps /\ Unapproved \in Contents
        BY <1>3 DEF Steps, Contents
      <4> QED BY <3>3, <4>1 DEF Call, CallType
    <3>5. r # None
      BY <3>4, NamesDiffer
    <3> HIDE DEF r
    <3>6. Fits(r)
      BY <1>3, <3>2, RequestNames DEF Fits, StockSteps, WeatherSteps, AskSteps
    <3>7. Told(r)
      BY <1>3, <3>2 DEF Told, MetBy
    <3>8. Kept(r, session[c])
      BY <3>1 DEF Kept
    <3>9. Cleared(r)
      BY <1>3, <2>1, <3>2 DEF Cleared
    <3>10. Belongs(r, offered, task')
      BY <1>3, <1>4, <2>1, <3>2, <3>3 DEF Belongs
    <3> QED
      BY <1>2, <3>1, <3>4, <3>5, <3>6, <3>7, <3>8, <3>9, <3>10 DEF EachOK, CallOK
  <2>2. CASE c \notin cs
    <3>1. call'[c] = call[c] /\ session'[c] = session[c] /\ offered' = offered
      BY <1>2, <1>5, <2>2
    <3>2. call[c] # None => Belongs(call[c], offered, task')
      BY <1>2, <2>0, NobodyNow, LeftBelongs DEF EachOK
    <3> QED BY <2>0, <3>1, <3>2 DEF EachOK
  <2> QED BY <2>1, <2>2
<1> QED
  <2>1. session' = [c \in Calls |-> session'[c]]
    BY <1>2 DEF CallsInv, CallsTyped
  <2> QED BY <1>6, <1>7, <2>1, CallsOfEach

\* Approved calls carry the approved text; nothing else begins that needs it.
LEMMA DecidesKeeps ==
  ASSUME CallsInv, Decides
  PROVE  CallsInv'
<1>1. task = "waiting" /\ task' = "acting" /\ UNCHANGED <<session, offered>>
  BY DEF Decides, Resumed
<1>2. PICK yes \in SUBSET Deciding :
       call' = [c \in Calls |->
         CASE c \in yes -> [call[c] EXCEPT !.at = "input", !.text = Approved]
           [] c \in Deciding \ yes -> [call[c] EXCEPT !.at = "rejected"]
           [] At(c, {"asked"}) /\ c \notin Deciding -> [call[c] EXCEPT !.at = "input"]
           [] OTHER -> call[c]]
  BY DEF Decides, Resumed
<1>3. \A c \in yes : c \in Calls /\ At(c, {"asked"}) /\ call[c].kind \in Sensitive
  BY <1>2 DEF Deciding
<1>4. ASSUME NEW c \in Calls
      PROVE  EachOK(call'[c], session'[c], offered', task')
  <2>0. EachOK(call[c], session[c], offered, task)
    BY EachOfCalls
  <2>1. CASE At(c, {"asked"})
    <3> DEFINE o == call[c]
    <3>1. o # None /\ o \in CallType /\ o.at = "asked" /\ CallOK(o, session[c])
            /\ Belongs(o, offered, task) /\ session[c] \in BOOLEAN
      BY <2>0, <2>1 DEF At, EachOK, CallOK
    <3>2. PICK x \in {"input", "rejected"}, t \in {Approved, o.text} :
            /\ call'[c] = [o EXCEPT !.at = x, !.text = t]
            /\ x = "input" /\ o.kind \in Sensitive => t = Approved
      <4>1. CASE c \in yes
        BY <1>2, <4>1
      <4>2. CASE c \in Deciding \ yes
        <5>1. call'[c] = [o EXCEPT !.at = "rejected"]
          BY <1>2, <4>2
        <5>2. call'[c] = [o EXCEPT !.at = "rejected", !.text = o.text]
          BY <3>1, <5>1 DEF CallType
        <5> QED BY <5>2
      <4>3. CASE c \notin Deciding
        <5>1. call'[c] = [o EXCEPT !.at = "input"]
          BY <1>2, <2>1, <4>3
        <5>2. call'[c] = [o EXCEPT !.at = "input", !.text = o.text]
          BY <3>1, <5>1 DEF CallType
        <5>3. o.kind \notin Sensitive
          BY <2>1, <4>3 DEF Deciding
        <5> QED BY <5>2, <5>3
      <4> QED BY <4>1, <4>2, <4>3
    <3> DEFINE r == [o EXCEPT !.at = x, !.text = t]
    <3>3. r.kind = o.kind /\ r.at = x /\ r.file = o.file /\ r.text = t
            /\ r.met = o.met /\ r.left = o.left
      BY <3>1 DEF CallType
    <3>4. r \in CallType
      <4>1. x \in Steps /\ t \in Contents
        BY <3>1 DEF Steps, Outcomes, Contents, CallType
      <4> QED BY <3>1, <4>1 DEF CallType
    <3>5. r # None
      BY <3>4, NamesDiffer
    <3>6. call'[c] = r
      BY <3>2
    <3> HIDE DEF r
    <3>7. Fits(r)
      BY <3>3 DEF Fits, StockSteps, WeatherSteps, AskSteps
    <3>8. Told(r)
      <4>1. \A S : MetBy(r, S) <=> MetBy(o, S)
        BY <3>3 DEF MetBy
      <4> QED BY <3>1, <3>3, <4>1 DEF CallOK, Told
    <3>9. Kept(r, session[c])
      BY <3>1, NoSessionYet DEF CallOK, Kept
    <3>10. Cleared(r)
      BY <3>2, <3>3 DEF Cleared
    <3>11. Belongs(r, offered, task')
      BY <1>1, <3>1, <3>3 DEF Belongs
    <3> QED
      BY <1>1, <3>1, <3>4, <3>5, <3>6, <3>7, <3>8, <3>9, <3>10, <3>11
         DEF EachOK, CallOK
  <2>2. CASE ~At(c, {"asked"})
    <3>1. call'[c] = call[c]
      BY <1>2, <1>3, <2>2 DEF Deciding
    <3>2. call[c] # None => call[c].left \in BOOLEAN /\ call[c].left
      BY <1>1, <2>0, <2>2 DEF EachOK, Belongs, At, CallOK, CallType
    <3> QED BY <1>1, <2>0, <3>1, <3>2, LeftBelongs DEF EachOK
  <2> QED BY <2>1, <2>2
<1> QED
  <2>1. call' = [c \in Calls |-> call'[c]] /\ session' = [c \in Calls |-> session'[c]]
    BY <1>1, <1>2 DEF CallsInv, CallsTyped
  <2> QED BY <1>4, <2>1, CallsOfEach

\* What ends with its turn is forgotten, and the rest was left over before.
LEMMA TurnEndsKeeps ==
  ASSUME CallsInv, TurnEnds
  PROVE  CallsInv'
<1>1. /\ task' = "thinking" /\ offered' = offered
      /\ call' = [c \in Calls |-> IF Now(c) THEN None ELSE call[c]]
      /\ session' = [c \in Calls |-> session[c] /\ ~Now(c)]
  BY DEF TurnEnds
<1>2. ASSUME NEW c \in Calls
      PROVE  EachOK(call'[c], session'[c], offered', task')
  <2>0. EachOK(call[c], session[c], offered, task)
    BY EachOfCalls
  <2>1. CASE Now(c)
    <3>1. call'[c] = None /\ session'[c] = FALSE
      BY <1>1, <2>1
    <3> QED BY <3>1 DEF EachOK
  <2>2. CASE ~Now(c)
    <3>1. call'[c] = call[c] /\ session'[c] = session[c]
      BY <1>1, <2>0, <2>2 DEF EachOK
    <3>2. call[c] # None => call[c].left
      BY <2>2 DEF Now
    <3> QED BY <1>1, <2>0, <3>1, <3>2, LeftBelongs DEF EachOK
  <2> QED BY <2>1, <2>2
<1> QED
  <2>1. call' = [c \in Calls |-> call'[c]] /\ session' = [c \in Calls |-> session'[c]]
    BY <1>1
  <2> QED BY <1>2, <2>1, CallsOfEach

\* What goes on when a Task fails is left over.
LEMMA TaskFailsKeeps ==
  ASSUME CallsInv, TaskFails
  PROVE  CallsInv'
<1>1. /\ task' = "none" /\ offered' = offered
      /\ call' = [c \in Calls |-> IF call[c] = None \/ Ended(c) THEN None
                                  ELSE [call[c] EXCEPT !.left = TRUE]]
      /\ session' = [c \in Calls |-> session[c] /\ call'[c] # None]
  BY DEF TaskFails, Over
<1>2. ASSUME NEW c \in Calls
      PROVE  EachOK(call'[c], session'[c], offered', task')
  <2>0. EachOK(call[c], session[c], offered, task)
    BY EachOfCalls
  <2>1. CASE call[c] = None \/ Ended(c)
    <3>1. call'[c] = None
      BY <1>1, <2>1
    <3>2. session'[c] = FALSE
      BY <1>1, <3>1
    <3> QED BY <3>1, <3>2 DEF EachOK
  <2>2. CASE ~(call[c] = None \/ Ended(c))
    <3> DEFINE o == call[c]
               r == [o EXCEPT !.left = TRUE]
    <3>1. o \in CallType /\ CallOK(o, session[c]) /\ Belongs(o, offered, task)
            /\ session[c] \in BOOLEAN
      BY <2>0, <2>2 DEF EachOK, CallOK
    <3>2. r.kind = o.kind /\ r.at = o.at /\ r.file = o.file /\ r.text = o.text
            /\ r.met = o.met /\ r.left = TRUE
      BY <3>1 DEF CallType
    <3>3. r \in CallType
      BY <3>1 DEF CallType
    <3>4. r # None /\ call'[c] = r
      BY <1>1, <2>2, <3>3, NamesDiffer
    <3>5. session'[c] = session[c]
      BY <1>1, <3>1, <3>4
    <3> HIDE DEF r
    <3>6. \A S : MetBy(r, S) <=> MetBy(o, S)
      BY <3>2 DEF MetBy
    <3>7. Fits(r) /\ Told(r)
      BY <3>1, <3>2, <3>6 DEF CallOK, Fits, Told
    <3>8. Kept(r, session[c]) /\ Cleared(r)
      BY <3>1, <3>2 DEF CallOK, Kept, Cleared
    <3>9. Belongs(r, offered, task')
      BY <3>1, <3>2 DEF Belongs
    <3> QED BY <1>1, <3>1, <3>3, <3>4, <3>5, <3>7, <3>8, <3>9 DEF EachOK, CallOK
  <2> QED BY <2>1, <2>2
<1> QED
  <2>1. call' = [c \in Calls |-> call'[c]] /\ session' = [c \in Calls |-> session'[c]]
    BY <1>1
  <2> QED BY <1>2, <2>1, CallsOfEach

\* A leftover that ends concerns no other call.
LEMMA LeftoverEndsKeeps ==
  ASSUME CallsInv, NEW c \in Calls, LeftoverEnds(c)
  PROVE  CallsInv'
<1>1. /\ call' = [call EXCEPT ![c] = None]
      /\ session' = [session EXCEPT ![c] = FALSE]
      /\ UNCHANGED <<offered, task>>
  BY DEF LeftoverEnds, runVars
<1>2. /\ call' = [d \in Calls |-> IF d = c THEN None ELSE call[d]]
      /\ session' = [d \in Calls |-> IF d = c THEN FALSE ELSE session[d]]
  BY <1>1 DEF CallsInv, CallsTyped
<1>3. ASSUME NEW d \in Calls
      PROVE  EachOK(call'[d], session'[d], offered', task')
  <2>0. EachOK(call[d], session[d], offered, task)
    BY EachOfCalls
  <2>1. CASE d = c
    BY <1>2, <2>1 DEF EachOK
  <2>2. CASE d # c
    BY <1>1, <1>2, <2>0, <2>2
  <2> QED BY <2>1, <2>2
<1> QED
  <2>1. call' = [d \in Calls |-> call'[d]] /\ session' = [d \in Calls |-> session'[d]]
    BY <1>2
  <2> QED BY <1>3, <2>1, CallsOfEach

\* A step that leaves the calls alone, and begins or ends a Task that has none.
LEMMA QuietKeeps ==
  ASSUME CallsInv, UNCHANGED <<call, session, offered>>,
         task' = task \/ task \in {"none", "thinking"}
  PROVE  CallsInv'
<1>1. ASSUME NEW c \in Calls
      PROVE  EachOK(call'[c], session'[c], offered', task')
  <2>0. EachOK(call[c], session[c], offered, task)
    BY EachOfCalls
  <2>1. call[c] # None => Belongs(call[c], offered, task')
    BY <2>0, NobodyNow, LeftBelongs DEF EachOK
  <2> QED BY <2>0, <2>1 DEF EachOK
<1> QED
  <2>1. call' = [c \in Calls |-> call'[c]] /\ session' = [c \in Calls |-> session'[c]]
    BY DEF CallsInv, CallsTyped
  <2> QED BY <1>1, <2>1, CallsOfEach

\* Only what waits for a decision survives, and has no session.
LEMMA CrashKeeps ==
  ASSUME CallsInv, Crash
  PROVE  CallsInv'
<1>1. /\ call' = [c \in Calls |-> IF At(c, {"asked"}) THEN call[c] ELSE None]
      /\ session' = [c \in Calls |-> FALSE]
      /\ offered' = offered
      /\ task' = task \/ task # "waiting"
  BY DEF Crash, Over, runVars
<1>2. ASSUME NEW c \in Calls
      PROVE  EachOK(call'[c], session'[c], offered', task')
  <2>0. EachOK(call[c], session[c], offered, task)
    BY EachOfCalls
  <2>1. CASE At(c, {"asked"})
    <3>1. call'[c] = call[c] /\ session'[c] = FALSE
      BY <1>1, <2>1
    <3>2. call[c] # None /\ call[c].at = "asked" /\ CallOK(call[c], session[c])
            /\ Belongs(call[c], offered, task)
      BY <2>0, <2>1 DEF At, EachOK
    <3>3. CallOK(call[c], FALSE)
      BY <3>2 DEF CallOK, Kept
    <3>4. Belongs(call[c], offered, task')
      BY <1>1, <3>2 DEF Belongs
    <3> QED BY <1>1, <3>1, <3>2, <3>3, <3>4 DEF EachOK
  <2>2. CASE ~At(c, {"asked"})
    BY <1>1, <2>2 DEF EachOK
  <2> QED BY <2>1, <2>2
<1> QED
  <2>1. call' = [c \in Calls |-> call'[c]] /\ session' = [c \in Calls |-> session'[c]]
    BY <1>1
  <2> QED BY <1>2, <2>1, CallsOfEach

\* The calls are OK after every step.
LEMMA NextKeepsCalls ==
  ASSUME CallsInv, RunTyped, [Next]_vars
  PROVE  CallsInv' /\ RunTyped'
<1>1. ASSUME NEW f \in Files, Uploads(f)
      PROVE  CallsInv' /\ RunTyped'
  <2>1. UNCHANGED <<call, session, offered, task>>
    BY <1>1 DEF Uploads, runVars
  <2> QED BY <2>1, QuietKeeps DEF RunTyped
<1>2. CASE Starts
  <2>1. UNCHANGED <<call, session, offered>> /\ task = "none" /\ task' = "thinking"
    BY <1>2 DEF Starts
  <2> QED BY <2>1, QuietKeeps DEF RunTyped
<1>3. CASE StartFails
  <2>1. UNCHANGED <<call, session, offered, task>>
    BY <1>3 DEF StartFails, runVars
  <2> QED BY <2>1, QuietKeeps DEF RunTyped
<1>4. ASSUME NEW cs \in SUBSET Calls \ {{}}, Proposes(cs)
      PROVE  CallsInv' /\ RunTyped'
  <2>1. offered' = offered /\ task' \in {"waiting", "acting"}
    BY <1>4 DEF Proposes
  <2> QED BY <1>4, <2>1, ProposesKeeps DEF RunTyped
<1>5. CASE Decides
  BY <1>5, DecidesKeeps DEF RunTyped, Decides, Resumed
<1>6. CASE TurnEnds
  BY <1>6, TurnEndsKeeps DEF RunTyped, TurnEnds
<1>7. CASE TaskFails
  BY <1>7, TaskFailsKeeps DEF RunTyped, TaskFails, Over
<1>8. CASE Ends
  <2>1. UNCHANGED <<call, session, offered>> /\ task = "thinking" /\ task' = "none"
    BY <1>8 DEF Ends, Over
  <2> QED BY <2>1, QuietKeeps DEF RunTyped
<1>9. CASE Crash
  BY <1>9, CrashKeeps DEF RunTyped, Crash, Over, runVars
<1>10. ASSUME NEW c \in Calls, ServiceStep(c) \/ FileStep(c)
       PROVE  CallsInv' /\ RunTyped'
  BY <1>10, CallStepKeeps DEF RunTyped, ServiceStep, FileStep, runVars
<1>11. ASSUME NEW c \in Calls, LeftoverEnds(c)
       PROVE  CallsInv' /\ RunTyped'
  BY <1>11, LeftoverEndsKeeps DEF RunTyped, LeftoverEnds, runVars
<1>12. CASE UNCHANGED vars
  <2>1. UNCHANGED <<call, session, offered, task>>
    BY <1>12 DEF vars, runVars
  <2> QED BY <2>1, QuietKeeps DEF RunTyped
<1> QED
  BY <1>1, <1>2, <1>3, <1>4, <1>5, <1>6, <1>7, <1>8, <1>9, <1>10, <1>11, <1>12
     DEF Next

-----------------------------------------------------------------------------
(* The files.                                                               *)

Sees ==
  task # "none" =>
    \A f \in Files : base[f] # None => output[f] = base[f] \/ f \in touched

FilesInv ==
  /\ FilesTyped
  /\ \A f \in Files : output[f] # Unapproved
  /\ Sees
  /\ TornIsTold

\* What a file may hold is told apart.
LEMMA ContentsApart ==
  /\ {None, Torn, Unapproved, Approved} \subseteq Contents
  /\ Unapproved # Approved /\ None # Torn
  /\ {None, Torn} \cap {Unapproved, Approved} = {}
  /\ \A n \in 1 .. MaxSent :
       Sent(n) \in Contents \ {None, Torn, Unapproved, Approved}
<1>1. Unapproved # Approved
  BY DEF Unapproved, Approved
<1>2. \A n \in 1 .. MaxSent : Sent(n) # Unapproved /\ Sent(n) # Approved
  BY DEF Sent, Unapproved, Approved
<1> QED BY <1>1, <1>2, NamesDiffer DEF Contents

\* A writer that stays at its file keeps it held.
LEMMA HeldStays ==
  ASSUME NEW C \in SUBSET Calls, \A c \in C : At(c, {"write"}) =>
           call'[c] # None /\ call'[c].at = "write" /\ call'[c].file = call[c].file
  PROVE  \A f \in Files : (\E c \in C : c \in Holding(f)) => f \in HeldOpen'
<1> SUFFICES ASSUME NEW f \in Files, NEW c \in C, c \in Holding(f)
             PROVE  f \in HeldOpen'
  OBVIOUS
<1>1. At(c, {"write"}) /\ call[c].file = f
  BY DEF Holding
<1>2. c \in Holding(f)'
  BY <1>1 DEF Holding, At
<1> QED BY <1>2 DEF HeldOpen

\* When all writers stay, no file is let go.
LEMMA AllHeldStay ==
  ASSUME \A c \in Calls : At(c, {"write"}) =>
           call'[c] # None /\ call'[c].at = "write" /\ call'[c].file = call[c].file
  PROVE  HeldOpen \subseteq HeldOpen'
<1>1. \A f \in Files : (\E c \in Calls : c \in Holding(f)) => f \in HeldOpen'
  BY HeldStays
<1> QED BY <1>1 DEF HeldOpen, Holding

\* A step that leaves the output alone, and knows of what is torn as before.
LEMMA OutputStill ==
  ASSUME FilesInv, UNCHANGED output,
         uploads' \in [Files -> Contents \ {Unapproved, Approved}],
         sent' \in 0 .. MaxSent,
         excused \subseteq excused', excused' \subseteq Files,
         HeldOpen \subseteq HeldOpen' \cup excused',
         \/ UNCHANGED <<base, touched>> /\ (task = "none" => task' = "none")
         \/ base' = [f \in Files |-> None] /\ touched' = {}
  PROVE  FilesInv'
<1>1. FilesTyped'
  BY ContentsApart DEF FilesInv, FilesTyped
<1>2. Sees'
  BY DEF FilesInv, Sees, FilesTyped
<1>3. TornIsTold'
  BY DEF FilesInv, TornIsTold
<1> QED BY <1>1, <1>2, <1>3 DEF FilesInv

\* An upload is cut short only with its failure told.
LEMMA UploadsKeepsFiles ==
  ASSUME FilesInv, NEW f \in Files, Uploads(f)
  PROVE  FilesInv'
<1>1. /\ sent < MaxSent /\ sent' = sent + 1 /\ UNCHANGED <<output, base, touched, call, task>>
      /\ \/ uploads' = [uploads EXCEPT ![f] = Sent(sent')] /\ UNCHANGED excused
         \/ uploads' = [uploads EXCEPT ![f] = Torn] /\ excused' = excused \cup {f}
  BY DEF Uploads, SavesUpload, runVars
<1>2. sent' \in 1 .. MaxSent
  BY <1>1, NamesDiffer DEF FilesInv, FilesTyped
<1>3. uploads' \in [Files -> Contents \ {Unapproved, Approved}]
  <2>1. Sent(sent') \in Contents \ {Unapproved, Approved}
    BY <1>2, ContentsApart
  <2>2. Torn \in Contents \ {Unapproved, Approved}
    BY ContentsApart
  <2> QED BY <1>1, <2>1, <2>2 DEF FilesInv, FilesTyped
<1>4. HeldOpen' = HeldOpen
  BY <1>1 DEF HeldOpen, Holding, At
<1>5. excused \subseteq excused' /\ excused' \subseteq Files
  BY <1>1 DEF FilesInv, FilesTyped
<1>6. sent' \in 0 .. MaxSent
  BY <1>2
<1> QED BY <1>1, <1>3, <1>4, <1>5, <1>6, OutputStill

\* An import brings uploads, or leaves what is there.
LEMMA ImportedIs ==
  ASSUME FilesInv, NEW f \in Files
  PROVE  /\ Imported(f) \in Contents \ {Unapproved}
         /\ uploads[f] # None => Imported(f) = uploads[f]
         /\ Imported(f) = Torn => f \in excused \cup HeldOpen \cup CutShort
  BY DEF FilesInv, FilesTyped, Imported, TornIsTold, CutShort

\* After an import every upload is in the output directory.
LEMMA StartsKeepsFiles ==
  ASSUME FilesInv, Starts
  PROVE  FilesInv'
<1>1. /\ output' = [f \in Files |-> Imported(f)] /\ base' = uploads
      /\ touched' = HeldOpen /\ excused' = excused \cup HeldOpen \cup CutShort
      /\ UNCHANGED <<uploads, sent, call>>
  BY DEF Starts, Import
<1>2. FilesTyped'
  BY <1>1, ImportedIs DEF FilesInv, FilesTyped, HeldOpen, CutShort
<1>3. \A f \in Files : output'[f] # Unapproved
  BY <1>1, ImportedIs
<1>4. Sees'
  BY <1>1, ImportedIs DEF Sees
<1>5. TornIsTold'
  BY <1>1, ImportedIs DEF TornIsTold
<1> QED BY <1>2, <1>3, <1>4, <1>5 DEF FilesInv

\* An import that fails has told what it tore.
LEMMA StartFailsKeepsFiles ==
  ASSUME FilesInv, StartFails
  PROVE  FilesInv'
<1>1. PICK done \in SUBSET Files : \E f \in Files \ done :
       /\ uploads[f] # None
       /\ output' = [g \in Files |-> CASE g = f -> Torn
                                       [] g \in done -> Imported(g)
                                       [] OTHER -> output[g]]
       /\ excused' = excused \cup HeldOpen \cup CutShort \cup {f}
  BY DEF StartFails, ImportFails
<1>2. PICK f \in Files \ done :
       /\ uploads[f] # None
       /\ output' = [g \in Files |-> CASE g = f -> Torn
                                       [] g \in done -> Imported(g)
                                       [] OTHER -> output[g]]
       /\ excused' = excused \cup HeldOpen \cup CutShort \cup {f}
  BY <1>1
<1>3. task = "none" /\ UNCHANGED <<uploads, sent, base, touched, task, call>>
  BY DEF StartFails, ImportFails, runVars
<1>4. ASSUME NEW g \in Files
      PROVE  /\ output'[g] \in Contents \ {Unapproved}
             /\ output'[g] = Torn => g \in excused'
  <2>1. CASE g = f
    <3>1. output'[g] = Torn
      BY <1>2, <2>1
    <3> QED BY <1>2, <2>1, <3>1, ContentsApart
  <2>2. CASE g \in done
    <3>1. output'[g] = Imported(g)
      BY <1>2, <2>2
    <3> QED BY <1>2, <3>1, ImportedIs
  <2>3. CASE g # f /\ g \notin done
    <3>1. output'[g] = output[g]
      BY <1>2, <2>3
    <3> QED BY <1>2, <3>1 DEF FilesInv, FilesTyped, TornIsTold
  <2> QED BY <2>1, <2>2, <2>3
<1>5. output' = [g \in Files |-> output'[g]] /\ excused' \subseteq Files
  BY <1>2 DEF FilesInv, FilesTyped, HeldOpen, CutShort
<1>6. FilesTyped'
  BY <1>3, <1>4, <1>5 DEF FilesInv, FilesTyped
<1>7. Sees' /\ TornIsTold'
  BY <1>3, <1>4 DEF Sees, TornIsTold
<1> QED BY <1>4, <1>6, <1>7 DEF FilesInv

\* What a call that writes holds, and where.
LEMMA WriterIs ==
  ASSUME CallsInv, NEW c \in Calls, NEW x \in {"open", "write"}, At(c, {x})
  PROVE  /\ call[c] \in CallType /\ call[c] # None /\ call[c].at = x
         /\ call[c].kind \in {"markdown", "pdf"} /\ call[c].file \in Files
         /\ call[c].text \in {Approved, Torn}
<1>1. CallsTyped /\ CallsOK
  BY DEF CallsInv
<1>2. /\ call[c] \in CallType /\ call[c] # None /\ call[c].at = x
      /\ call[c].kind \in {"markdown", "pdf"} /\ Cleared(call[c])
  BY <1>1, FileKinds
<1>3. call[c].file \in FilesOf[call[c].kind]
  BY <1>2, EachOfCalls DEF EachOK, Belongs
<1>4. {"markdown", "pdf"} \subseteq Kinds
  BY DEF Kinds, FirstSteps
<1>5. call[c].file \in Files
  BY <1>2, <1>3, <1>4 DEF FilesOf, Files
<1> QED BY <1>2, <1>5 DEF Cleared, Sensitive

\* The others hold what they held when one call goes on.
LEMMA OthersHold ==
  ASSUME CallsInv, NEW c \in Calls, NEW r, call' = [call EXCEPT ![c] = r],
         NEW f \in Files, f \in HeldOpen, c \notin Holding(f)
  PROVE  f \in HeldOpen'
<1>1. \A d \in Calls \ {c} : call'[d] = call[d]
  BY DEF CallsInv, CallsTyped
<1>2. PICK d \in Calls \ {c} : d \in Holding(f)
  BY DEF HeldOpen, Holding
<1>3. \A d2 \in Calls \ {c} : At(d2, {"write"}) =>
        call'[d2] # None /\ call'[d2].at = "write" /\ call'[d2].file = call[d2].file
  BY <1>1 DEF At
<1> QED BY <1>2, <1>3, HeldStays

\* A file is emptied by a writer that then holds it.
LEMMA OpensKeepsFiles ==
  ASSUME CallsInv, FilesInv, NEW c \in Calls, Opens(c), UNCHANGED task
  PROVE  FilesInv'
<1> DEFINE f == call[c].file
<1>1. /\ call[c] \in CallType /\ call[c].at = "open"
      /\ call[c].kind \in {"markdown", "pdf"} /\ f \in Files /\ CallsTyped
  BY WriterIs DEF Opens, CallsInv
<1>2. UNCHANGED <<uploads, sent, base>>
  BY DEF Opens
<1>3. \A g : c \notin Holding(g)
  BY <1>1 DEF Holding, At
<1>4. CASE /\ GoesOn(c, "write", "good")
           /\ output' = [output EXCEPT ![f] = Torn]
           /\ touched' = touched \cup {f}
           /\ excused' = IF f \in HeldOpen THEN excused \cup {f}
                                           ELSE excused \ {f}
  <2> DEFINE r == Gone(call[c], "write", "good")
  <2>1. "write" \in Steps /\ "good" \in Answers
    BY DEF Steps, Answers
  <2>2. call' = [call EXCEPT ![c] = r] /\ r.at = "write" /\ r.file = f
          /\ r \in CallType
    <3>1. call' = [call EXCEPT ![c] = r]
      BY <1>1, <1>4, <2>1, GoesOnIs
    <3>2. r.at = "write" /\ r.file = f /\ r \in CallType
      BY <1>1, <2>1, GoneIs
    <3> QED BY <3>1, <3>2
  <2>3. call'[c] = r /\ r # None
    BY <2>2, <1>1, NamesDiffer DEF CallsTyped
  <2>4. f \in HeldOpen'
    BY <1>1, <2>2, <2>3 DEF HeldOpen, Holding, At
  <2>5. \A g \in Files : g \in HeldOpen => g \in HeldOpen'
    BY <1>3, <2>2, OthersHold
  <2>6. /\ output'[f] = Torn /\ \A g \in Files \ {f} : output'[g] = output[g]
        /\ output' \in [Files -> Contents]
    BY <1>1, <1>4, ContentsApart DEF FilesInv, FilesTyped
  <2>7. FilesTyped'
    BY <1>1, <1>2, <1>4, <2>6 DEF FilesInv, FilesTyped
  <2>8. \A g \in Files : output'[g] # Unapproved
    BY <2>6, ContentsApart DEF FilesInv
  <2>9. Sees'
    BY <1>2, <1>4, <2>6 DEF FilesInv, Sees
  <2>10. TornIsTold'
    BY <1>4, <2>4, <2>5, <2>6 DEF FilesInv, TornIsTold
  <2> QED BY <2>7, <2>8, <2>9, <2>10 DEF FilesInv
<1>5. CASE FileFails(c) /\ UNCHANGED <<output, touched, excused>>
  <2>1. PICK x \in Outcomes : GoesOn(c, x, "refused")
    BY <1>1, <1>5 DEF FileFails, FileFailure, Outcomes
  <2>2. x \in Steps /\ "refused" \in Answers
    BY DEF Steps, Answers, Bad, Transient
  <2>3. call' = [call EXCEPT ![c] = Gone(call[c], x, "refused")]
    BY <1>1, <2>1, <2>2, GoesOnIs
  <2>4. HeldOpen \subseteq HeldOpen'
    BY <1>3, <2>3, OthersHold DEF HeldOpen
  <2> QED BY <1>2, <1>5, <2>4, OutputStill DEF FilesInv, FilesTyped
<1> QED BY <1>4, <1>5 DEF Opens

\* A writer writes an approved text, or tears the file and says so.
LEMMA WritesKeepsFiles ==
  ASSUME CallsInv, FilesInv, NEW c \in Calls, Writes(c), UNCHANGED task
  PROVE  FilesInv'
<1> DEFINE f == call[c].file
           alone == output[f] = Torn /\ f \notin excused
           whole == IF alone THEN {call[c].text} ELSE {call[c].text, Torn}
<1>1. /\ call[c] \in CallType /\ call[c].at = "write"
      /\ call[c].kind \in {"markdown", "pdf"} /\ f \in Files /\ CallsTyped
      /\ call[c].text \in {Approved, Torn}
  BY WriterIs DEF Writes, CallsInv
<1>2. UNCHANGED <<uploads, sent, base>> /\ touched' = touched \cup {f}
  BY DEF Writes
<1>3. PICK x \in Outcomes, a \in Answers : GoesOn(c, x, a)
  <2>1. {"ok", "retry", "final"} \subseteq Outcomes /\ {"good", "refused"} \subseteq Answers
    BY DEF Outcomes, Answers, Bad, Transient
  <2>2. FileFailure[call[c].kind] \in {"retry", "final"}
    BY <1>1 DEF FileFailure
  <2> QED BY <2>1, <2>2 DEF Writes, FileFails
<1>4. call' = [call EXCEPT ![c] = Gone(call[c], x, a)]
  BY <1>1, <1>3, GoesOnIs DEF Steps
<1>5. \A g \in Files \ {f} : g \in HeldOpen => g \in HeldOpen'
  BY <1>4, OthersHold DEF Holding
<1>6. PICK t \in {Approved, Torn} :
        /\ output' = [output EXCEPT ![f] = t]
        /\ excused' = excused \/ excused' = excused \cup {f}
        /\ t = Torn => excused' = excused \cup {f}
  <2>1. CASE /\ output' \in {[output EXCEPT ![f] = y] : y \in whole}
             /\ excused' = IF alone /\ call[c].text # Torn THEN excused
                                                     ELSE excused \cup {f}
    <3>1. PICK y \in whole : output' = [output EXCEPT ![f] = y]
      BY <2>1
    <3>2. y \in {Approved, Torn}
      BY <1>1
    <3>3. y = Torn => ~(alone /\ call[c].text # Torn)
      OBVIOUS
    <3> HIDE DEF alone, whole
    <3> QED BY <2>1, <3>1, <3>2, <3>3
  <2>2. CASE /\ output' = [output EXCEPT ![f] = Torn]
             /\ excused' = IF FileFailure[call[c].kind] = "ok" THEN excused
                                                     ELSE excused \cup {f}
    <3>1. FileFailure[call[c].kind] # "ok"
      BY <1>1 DEF FileFailure
    <3> QED BY <2>2, <3>1
  <2> QED BY <2>1, <2>2 DEF Writes
<1>7. /\ output'[f] = t /\ \A g \in Files \ {f} : output'[g] = output[g]
      /\ output' \in [Files -> Contents]
  BY <1>1, <1>6, ContentsApart DEF FilesInv, FilesTyped
<1>8. FilesTyped'
  BY <1>1, <1>2, <1>6, <1>7 DEF FilesInv, FilesTyped
<1>9. \A g \in Files : output'[g] # Unapproved
  BY <1>7, ContentsApart DEF FilesInv
<1>10. Sees'
  BY <1>2, <1>7 DEF FilesInv, Sees
<1>11. TornIsTold'
  <2> SUFFICES ASSUME NEW g \in Files, output'[g] = Torn
               PROVE  g \in excused' \cup HeldOpen'
    BY DEF TornIsTold
  <2>1. CASE g = f
    BY <1>6, <1>7, <2>1, ContentsApart
  <2>2. CASE g # f
    BY <1>5, <1>6, <1>7, <2>2 DEF FilesInv, TornIsTold
  <2> QED BY <2>1, <2>2
<1> QED BY <1>8, <1>9, <1>10, <1>11 DEF FilesInv

\* A step that leaves the output alone, and what the Task started with.
LEMMA FilesStay ==
  ASSUME FilesInv, UNCHANGED <<uploads, output, sent, base, touched>>,
         excused \subseteq excused', excused' \subseteq Files,
         HeldOpen \subseteq HeldOpen' \cup excused',
         task = "none" => task' = "none"
  PROVE  FilesInv'
<1>1. uploads' \in [Files -> Contents \ {Unapproved, Approved}] /\ sent' \in 0 .. MaxSent
  BY DEF FilesInv, FilesTyped
<1> QED BY <1>1, OutputStill

\* A Task that is over takes its history along.
LEMMA OverKeepsFiles ==
  ASSUME FilesInv, Over, excused \subseteq excused', excused' \subseteq Files,
         HeldOpen \subseteq HeldOpen' \cup excused'
  PROVE  FilesInv'
<1>1. /\ UNCHANGED <<uploads, output, sent>>
      /\ base' = [f \in Files |-> None] /\ touched' = {}
  BY DEF Over
<1>2. uploads' \in [Files -> Contents \ {Unapproved, Approved}] /\ sent' \in 0 .. MaxSent
  BY <1>1 DEF FilesInv, FilesTyped
<1> QED BY <1>1, <1>2, OutputStill

\* A call that does not write goes on, and leaves the files alone.
LEMMA QuietCallKeepsFiles ==
  ASSUME CallsInv, FilesInv, NEW c \in Calls, ~At(c, {"write"}),
         NEW r, call' = [call EXCEPT ![c] = r], UNCHANGED <<fileVars, task>>
  PROVE  FilesInv'
<1>1. c \notin UNION {Holding(f) : f \in Files}
  BY DEF Holding
<1>2. HeldOpen \subseteq HeldOpen'
  BY <1>1, OthersHold DEF HeldOpen
<1> QED BY <1>2, FilesStay DEF fileVars, FilesInv, FilesTyped

\* The files are as they should be after every step.
LEMMA NextKeepsFiles ==
  ASSUME CallsInv, RunTyped, FilesInv, [Next]_vars
  PROVE  FilesInv'
<1>0. excused \subseteq Files /\ CallsTyped /\ CallsOK
  BY DEF FilesInv, FilesTyped, CallsInv
<1>1. ASSUME NEW f \in Files, Uploads(f)
      PROVE  FilesInv'
  BY <1>1, UploadsKeepsFiles
<1>2. CASE Starts
  BY <1>2, StartsKeepsFiles
<1>3. CASE StartFails
  BY <1>3, StartFailsKeepsFiles
<1>4. ASSUME NEW cs \in SUBSET Calls, Proposes(cs)
      PROVE  FilesInv'
  <2>1. UNCHANGED fileVars /\ task = "thinking" /\ \A c \in cs : call[c] = None
    BY <1>4 DEF Proposes
  <2>2. \A c \in Calls \ cs : call'[c] = call[c]
    BY <1>4 DEF Proposes
  <2>3. HeldOpen \subseteq HeldOpen'
    BY <2>1, <2>2, AllHeldStay DEF At
  <2> QED BY <1>0, <2>1, <2>3, FilesStay DEF fileVars
<1>5. CASE Decides
  <2>1. UNCHANGED fileVars /\ task = "waiting"
    BY <1>5 DEF Decides, Resumed
  <2>2. PICK yes \in SUBSET Deciding :
       call' = [c \in Calls |->
         CASE c \in yes -> [call[c] EXCEPT !.at = "input", !.text = Approved]
           [] c \in Deciding \ yes -> [call[c] EXCEPT !.at = "rejected"]
           [] At(c, {"asked"}) /\ c \notin Deciding -> [call[c] EXCEPT !.at = "input"]
           [] OTHER -> call[c]]
    BY <1>5 DEF Decides, Resumed
  <2>3. \A c \in Calls : At(c, {"write"}) => call'[c] = call[c]
    BY <2>2 DEF Deciding, At
  <2>4. HeldOpen \subseteq HeldOpen'
    BY <2>3, AllHeldStay DEF At
  <2> QED BY <1>0, <2>1, <2>4, FilesStay DEF fileVars
<1>6. CASE TurnEnds
  <2>1. UNCHANGED fileVars /\ task = "acting"
          /\ \A c \in Calls : Now(c) => At(c, Outcomes \ {"raised"})
    BY <1>6 DEF TurnEnds
  <2>2. \A c \in Calls : At(c, {"write"}) => call'[c] = call[c]
    BY <1>6, <2>1 DEF TurnEnds, At, Outcomes
  <2>3. HeldOpen \subseteq HeldOpen'
    BY <2>2, AllHeldStay DEF At
  <2> QED BY <1>0, <2>1, <2>3, FilesStay DEF fileVars
<1>7. CASE TaskFails
  <2>1. Over /\ UNCHANGED excused
    BY <1>7 DEF TaskFails
  <2>2. ASSUME NEW c \in Calls, At(c, {"write"})
        PROVE  call'[c] # None /\ call'[c].at = "write" /\ call'[c].file = call[c].file
    <3>1. call[c] # None /\ call[c].at = "write" /\ ~Ended(c) /\ call[c] \in CallType
      BY <1>0, <2>2 DEF At, Ended, Outcomes, CallsTyped
    <3>2. call'[c] = [call[c] EXCEPT !.left = TRUE]
      BY <1>7, <3>1 DEF TaskFails
    <3>3. call'[c] \in CallType
      BY <3>1, <3>2 DEF CallType
    <3> QED BY <3>1, <3>2, <3>3, NamesDiffer DEF CallType
  <2>3. HeldOpen \subseteq HeldOpen'
    BY <2>2, AllHeldStay
  <2> QED BY <1>0, <2>1, <2>3, OverKeepsFiles
<1>8. CASE Ends
  <2>1. Over /\ UNCHANGED <<call, excused>>
    BY <1>8 DEF Ends
  <2>2. HeldOpen \subseteq HeldOpen'
    BY <2>1, AllHeldStay DEF At
  <2> QED BY <1>0, <2>1, <2>2, OverKeepsFiles
<1>9. CASE Crash
  <2>1. excused' = excused \cup HeldOpen /\ HeldOpen \subseteq Files
    BY <1>9 DEF Crash, HeldOpen
  <2>2. CASE Over
    BY <1>0, <2>1, <2>2, OverKeepsFiles
  <2>3. CASE UNCHANGED <<uploads, output, sent, base, touched, runVars>>
    BY <1>0, <2>1, <2>3, FilesStay DEF runVars
  <2> QED BY <1>9, <2>2, <2>3 DEF Crash
<1>10. ASSUME NEW c \in Calls, ServiceStep(c)
       PROVE  FilesInv'
  <2>1. UNCHANGED <<fileVars, task>>
    BY <1>10 DEF ServiceStep, runVars
  <2>2. ~At(c, {"write"})
    BY <1>10, RequestsAreNoEnds DEF ServiceStep, Begins, Answered, At
  <2>3. \E r : call' = [call EXCEPT ![c] = r]
    BY <1>0, <1>10, BeginsOK, AnsweredOK DEF ServiceStep, Moves
  <2> QED BY <2>1, <2>2, <2>3, QuietCallKeepsFiles
<1>11. ASSUME NEW c \in Calls, FileStep(c)
       PROVE  FilesInv'
  <2>1. UNCHANGED task
    BY <1>11 DEF FileStep, runVars
  <2>2. CASE Opens(c)
    BY <2>1, <2>2, OpensKeepsFiles
  <2>3. CASE Writes(c)
    BY <2>1, <2>3, WritesKeepsFiles
  <2>4. CASE Renders(c) \/ Loads(c) \/ Scans(c)
    <3>1. UNCHANGED fileVars /\ ~At(c, {"write"})
      BY <2>4 DEF Renders, Loads, Scans, At
    <3>2. \E r : call' = [call EXCEPT ![c] = r]
      BY <1>0, <2>4, FileStepOK DEF Moves
    <3> QED BY <2>1, <3>1, <3>2, QuietCallKeepsFiles
  <2> QED BY <1>11, <2>2, <2>3, <2>4 DEF FileStep
<1>12. ASSUME NEW c \in Calls, LeftoverEnds(c)
       PROVE  FilesInv'
  <2>1. UNCHANGED <<fileVars, task>> /\ call' = [call EXCEPT ![c] = None]
    BY <1>12 DEF LeftoverEnds, runVars
  <2>2. ~At(c, {"write"})
    BY <1>12 DEF LeftoverEnds, At, Outcomes
  <2> QED BY <2>1, <2>2, QuietCallKeepsFiles
<1>13. CASE UNCHANGED vars
  <2>1. UNCHANGED <<call, fileVars, task>>
    BY <1>13 DEF vars, runVars
  <2>2. HeldOpen \subseteq HeldOpen'
    BY <2>1, AllHeldStay DEF At
  <2> QED BY <1>0, <2>1, <2>2, FilesStay DEF fileVars
<1> QED
  BY <1>1, <1>2, <1>3, <1>4, <1>5, <1>6, <1>7, <1>8, <1>9, <1>10, <1>11, <1>12,
     <1>13 DEF Next

-----------------------------------------------------------------------------
(* The theorems.                                                            *)

IInv == CallsInv /\ RunTyped /\ FilesInv

\* At the beginning there is nothing.
LEMMA InitHolds ==
  ASSUME Init
  PROVE  IInv
<1>1. CallsInv
  BY DEF Init, CallsInv, CallsTyped, CallsOK, CallsBelong
<1>2. RunTyped
  BY DEF Init, RunTyped
<1>3. FilesInv
  <2>1. FilesTyped
    <3>1. None \in Contents \ {Unapproved, Approved}
      BY ContentsApart
    <3>2. 0 \in 0 .. MaxSent
      BY NamesDiffer
    <3> QED BY <3>1, <3>2 DEF Init, WorkspaceInit, FilesTyped
  <2>2. \A f \in Files : output[f] = None
    BY DEF Init, WorkspaceInit
  <2> QED
    BY <2>1, <2>2, ContentsApart DEF Init, FilesInv, Sees, TornIsTold
<1> QED BY <1>1, <1>2, <1>3 DEF IInv

\* The inductive invariant.
LEMMA Invariance == Spec => []IInv
<1>1. Init => IInv
  BY InitHolds
<1>2. IInv /\ [Next]_vars => IInv'
  BY NextKeepsCalls, NextKeepsFiles DEF IInv
<1> QED BY <1>1, <1>2, PTL DEF Spec

\* No file ever holds a text of the model that the user has not approved, and
\* no SQL is sent without approval: whatever calls the model proposes together,
\* and whenever a Task fails or the process dies (interrupt_on and the
\* decisions of decide_task_approval).
THEOREM Approval == Spec => []OnlyApprovedEffects
<1>1. IInv => OnlyApprovedEffects
  <2> SUFFICES ASSUME IInv PROVE OnlyApprovedEffects
    OBVIOUS
  <2>1. \A f \in Files : output[f] # Unapproved
    BY DEF IInv, FilesInv
  <2>2. ASSUME NEW c \in Calls, At(c, {"query"})
        PROVE  call[c].text = Approved
    <3>1. CallOK(call[c], session[c]) /\ call[c].at = "query"
      BY <2>2 DEF IInv, CallsInv, CallsOK, At
    <3> QED BY <3>1 DEF CallOK, Fits, Cleared, Sensitive
  <2> QED BY <2>1, <2>2 DEF OnlyApprovedEffects
<1> QED BY <1>1, Invariance, PTL

\* The types are right, and a Task finds every upload its Thread had when it
\* began, as uploaded, until a tool opens the file of that name (import_uploads
\* before the graph is given anything).
THEOREM UploadsSeen == Spec => []TaskSeesUploads
<1>1. IInv => TaskSeesUploads
  BY TypeParts DEF IInv, CallsInv, FilesInv, Sees, TaskSeesUploads
<1> QED BY <1>1, Invariance, PTL

\* Half a file never counts as made: one that is cut short is about to be
\* written, or its failure was told, or two writers or a crash explain it
\* (generate_markdown, convert_md_to_pdf, save_upload, import_uploads).
THEOREM TornFilesTold == Spec => []TornIsTold
<1>1. IInv => TornIsTold
  BY DEF IInv, FilesInv
<1> QED BY <1>1, Invariance, PTL

\* What a call ends with says what has happened to it on the way: the contract
\* of tools/outcomes.py, through every request of every tool.
THEOREM FailuresTold == Spec => []FailuresAreTold
<1>1. IInv => FailuresAreTold
  <2> SUFFICES ASSUME IInv, NEW c \in Calls, Ended(c)
               PROVE  /\ call[c].at = "raised" => Met(c, Unreadable)
                      /\ call[c].at = "retry" => Met(c, Transient)
                      /\ call[c].at = "final" /\ call[c].kind \notin {"stock", "pdf"}
                           => ~Met(c, Transient)
                      /\ call[c].at = "ok" /\ call[c].kind # "stock" => ~Met(c, Bad)
    BY DEF FailuresAreTold
  <2>1. Told(call[c])
    BY DEF IInv, CallsInv, CallsOK, CallOK, Ended, At
  <2>2. \A S : MetBy(call[c], S) <=> Met(c, S)
    BY DEF MetBy, Met
  <2> DEFINE met(S) == Met(c, S)
  <2>3. /\ call[c].at = "raised" => met(Unreadable)
        /\ call[c].at = "retry" => met(Transient)
        /\ met(Transient) /\ call[c].kind \notin {"stock", "pdf"} =>
             call[c].at \in {"retry", "undo", "cleanup_failed"}
        /\ met(Bad) /\ call[c].kind # "stock" => call[c].at # "ok"
    BY <2>1, <2>2 DEF Told
  <2> QED BY <2>3
<1> QED BY <1>1, Invariance, PTL

\* After a call has ended RAGFlow holds no temporary session of it, unless the
\* making or the deletion of the session went wrong, and then the call does not
\* claim success (create_ask_delete).
THEOREM SessionsGone == Spec => []SessionsDeleted
<1>1. IInv => SessionsDeleted
  <2> SUFFICES ASSUME IInv, NEW c \in Calls, Ended(c), session[c]
               PROVE  /\ call[c].at # "ok"
                      /\ \E a \in Answers \ {"good"} :
                           \E at \in {"create", "undo", "abandon", "delete"} :
                             <<at, a>> \in call[c].met
    BY DEF SessionsDeleted
  <2>1. Kept(call[c], session[c]) /\ call[c].at \in Outcomes
    BY DEF IInv, CallsInv, CallsOK, CallOK, Ended, At
  <2>2. Bad \subseteq Answers \ {"good"}
    BY DEF Answers, Bad, Transient, Unreadable
  <2> QED BY <2>1, <2>2 DEF Kept, Outcomes
<1> QED BY <1>1, Invariance, PTL

-----------------------------------------------------------------------------
(* What happens to an artifact, step by step.                               *)

KeepsArtifacts ==
  \A f \in Files : ByAgent(output[f]) /\ output'[f] # output[f] =>
    \/ \E c \in Calls : call'[c] # call[c] /\ call[c].file = f
                       /\ At(c, {"open", "write"})
    \/ task = "none" /\ uploads[f] # None

\* Whoever opens or writes a file has moved on.
LEMMA WriterChanges ==
  ASSUME CallsInv, NEW c \in Calls, Opens(c) \/ Writes(c)
  PROVE  call'[c] # call[c]
<1>1. CallsTyped /\ CallsOK
  BY DEF CallsInv
<1>2. PICK r \in CallType : Moves(c, r, session[c])
  BY <1>1, FileStepOK
<1> QED BY <1>1, <1>2 DEF Moves, CallsTyped

\* What the model has made is only replaced by a tool that is at that file, or
\* by an upload of the same name when a Task begins: no step of another call,
\* no failure and no crash takes an artifact away.
THEOREM ArtifactsStay == Spec => ArtifactsKept
<1>1. IInv /\ [Next]_vars => KeepsArtifacts \/ UNCHANGED vars
  <2> SUFFICES ASSUME IInv, Next, NEW f \in Files, output'[f] # output[f]
               PROVE  \/ \E c \in Calls : call'[c] # call[c] /\ call[c].file = f
                                          /\ At(c, {"open", "write"})
                      \/ task = "none" /\ uploads[f] # None
    BY DEF KeepsArtifacts
  <2>0. output \in [Files -> Contents]
    BY DEF IInv, FilesInv, FilesTyped
  <2>1. CASE Starts
    BY <2>1 DEF Starts, Import, Imported
  <2>2. CASE StartFails
    <3>1. PICK done \in SUBSET Files, g \in Files :
            /\ uploads[g] # None
            /\ output' = [h \in Files |-> CASE h = g -> Torn
                                            [] h \in done -> Imported(h)
                                            [] OTHER -> output[h]]
            /\ g \notin done
      BY <2>2 DEF StartFails, ImportFails
    <3>2. f = g \/ (f \in done /\ output'[f] = Imported(f))
      BY <3>1
    <3> QED BY <2>2, <3>1, <3>2 DEF StartFails, Imported
  <2>3. ASSUME NEW c \in Calls, Opens(c) \/ Writes(c)
        PROVE  \E d \in Calls : call'[d] # call[d] /\ call[d].file = f
                                /\ At(d, {"open", "write"})
    <3>1. \E t : output' = [output EXCEPT ![call[c].file] = t]
      BY <2>3 DEF Opens, Writes
    <3>2. call[c].file = f
      BY <2>0, <3>1
    <3>3. At(c, {"open", "write"})
      BY <2>3 DEF Opens, Writes, At
    <3> QED BY <2>3, <3>2, <3>3, WriterChanges DEF IInv
  <2>4. \/ Starts \/ StartFails \/ UNCHANGED output
        \/ \E c \in Calls : Opens(c) \/ Writes(c)
    BY DEF Next, Uploads, SavesUpload, Proposes, Decides, TurnEnds, TaskFails,
           Ends, Over, Crash, ServiceStep, FileStep, Renders, Loads, Scans,
           LeftoverEnds, fileVars
  <2> QED BY <2>1, <2>2, <2>3, <2>4
<1> QED BY <1>1, Invariance, PTL DEF Spec, ArtifactsKept, KeepsArtifacts
=============================================================================
