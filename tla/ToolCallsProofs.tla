--------------------------- MODULE ToolCallsProofs ---------------------------
(***************************************************************************)
(* What the tables of ToolCalls say, request by request, and what follows  *)
(* for one call that is answered.  A call is looked at by itself, as a     *)
(* record, so that the proofs about runs need not open the tables again.   *)
(***************************************************************************)
EXTENDS AgentRun, TLAPS

-----------------------------------------------------------------------------
(* The tables.                                                              *)

\* The requests of each tool.
LEMMA RequestsOfTools ==
  /\ DOMAIN GetWeather = {"geocode", "forecast"}
  /\ DOMAIN GetStockQuote = {"hint", "tencent", "yahoo"}
  /\ DOMAIN InternetSearch = {"search"}
  /\ DOMAIN ExecuteSqlQuery = {"query"}
  /\ DOMAIN GetTableData = {"table"}
  /\ DOMAIN GetAssistantList = {"chats"}
  /\ DOMAIN CreateAskDelete
       = {"list", "create", "ask", "undo", "abandon", "delete"}
  BY DEF GetWeather, GetStockQuote, InternetSearch, ExecuteSqlQuery,
         GetTableData, GetAssistantList, CreateAskDelete

AskSteps == {"list", "create", "ask", "undo", "abandon", "delete"}
StockSteps == {"hint", "tencent", "yahoo"}
WeatherSteps == {"geocode", "forecast"}

\* All requests there are.
LEMMA RequestNames ==
  Requests = WeatherSteps \cup StockSteps \cup AskSteps
               \cup {"search", "query", "table", "chats"}
  BY RequestsOfTools DEF Requests, WeatherSteps, StockSteps, AskSteps

\* No request has the name of an outcome or of a step on files.
LEMMA RequestsAreNoEnds ==
  /\ Requests \cap Outcomes = {}
  /\ Requests \cap {"asked", "input", "render", "open", "write", "load", "scan"} = {}
  BY RequestNames DEF Outcomes, WeatherSteps, StockSteps, AskSteps

\* The rows of get_weather.
LEMMA WeatherRows ==
  /\ After["geocode"]
       = Row({"forecast"}, {"ok"}, {"retry"}, {"raised"}, {"raised"})
  /\ After["forecast"] = Row({"ok"}, {"ok"}, {"retry"}, {"raised"}, {"raised"})
<1>1. {"geocode", "forecast"} \subseteq Requests
  BY RequestNames DEF WeatherSteps
<1>2. /\ After["geocode"] = GetWeather["geocode"]
      /\ After["forecast"] = GetWeather["forecast"]
  BY <1>1, RequestsOfTools DEF After
<1> QED BY <1>2 DEF GetWeather

\* The rows of get_stock_quote.
LEMMA StockRows ==
  /\ After["hint"]
       = Row({"tencent"}, {"tencent"}, {"tencent"}, {"raised"}, {"tencent"})
  /\ After["tencent"]
       = Row({"ok"}, {"yahoo"}, {"yahoo"}, {"raised"}, {"yahoo", "raised"})
  /\ After["yahoo"]
       = Row({"ok"}, {"final"}, {"final"}, {"raised"}, {"final", "raised"})
<1>1. {"hint", "tencent", "yahoo"} \subseteq Requests
  BY RequestNames DEF StockSteps
<1>2. /\ After["hint"] = GetStockQuote["hint"]
      /\ After["tencent"] = GetStockQuote["tencent"]
      /\ After["yahoo"] = GetStockQuote["yahoo"]
  BY <1>1, RequestsOfTools DEF After
<1> QED BY <1>2 DEF GetStockQuote

\* The rows of the tools with one request.
LEMMA SingleRows ==
  /\ After["search"] = Row({"ok"}, {"ok"}, {"retry"}, {"final"}, {"final"})
  /\ After["query"] = Row({"ok"}, {"ok"}, {"retry"}, {"final", "raised"},
                          {"final", "raised"})
  /\ After["table"] = After["query"]
  /\ After["chats"] = Row({"ok"}, {"ok"}, {"retry"}, {"final"}, {"raised"})
<1>1. {"search", "query", "table", "chats"} \subseteq Requests
  BY RequestNames
<1>2. /\ After["search"] = InternetSearch["search"]
      /\ After["query"] = ExecuteSqlQuery["query"]
      /\ After["table"] = GetTableData["table"]
      /\ After["chats"] = GetAssistantList["chats"]
  BY <1>1, RequestsOfTools DEF After
<1> QED
  BY <1>2 DEF InternetSearch, ExecuteSqlQuery, GetTableData, GetAssistantList

\* The rows of create_ask_delete.
LEMMA AskRows ==
  /\ After["list"]
       = Row({"create"}, {"final"}, {"retry"}, {"final"}, {"final"})
  /\ After["create"]
       = Row({"ask"}, {"final"}, {"retry"}, {"final"}, {"final"})
  /\ After["ask"]
       = Row({"delete"}, {"delete"}, {"undo"}, {"abandon"}, {"abandon"})
  /\ After["undo"] = Anyway({"retry"})
  /\ After["abandon"] = Anyway({"final"})
  /\ After["delete"]
       = Row({"ok"}, {"ok"}, {"cleanup_failed"}, {"cleanup_failed"},
             {"cleanup_failed"})
<1>1. AskSteps \subseteq Requests
  BY RequestNames
<1>2. \A r \in AskSteps : After[r] = CreateAskDelete[r]
  BY <1>1, RequestsOfTools DEF After, AskSteps
<1> QED BY <1>2 DEF CreateAskDelete, AskSteps

\* What a row says of an answer.
LEMMA RowAnswers ==
  ASSUME NEW g, NEW e, NEW t, NEW b, NEW u
  PROVE  /\ Row(g, e, t, b, u)["good"] = g /\ Row(g, e, t, b, u)["empty"] = e
         /\ Row(g, e, t, b, u)["timeout"] = t
         /\ Row(g, e, t, b, u)["refused"] = t
         /\ Row(g, e, t, b, u)["broken"] = b
         /\ Row(g, e, t, b, u)["garbled"] = u
  BY DEF Row, Answers, Bad, Transient, Unreadable

\* All answers there are.
LEMMA AnswerNames ==
  Answers = {"good", "empty", "timeout", "refused", "broken", "garbled"}
  BY DEF Answers, Bad, Transient, Unreadable

-----------------------------------------------------------------------------
(* One call, as a record.                                                   *)

\* The call r after it has gone on to x, as GoesOn has it.
Gone(r, x, a) ==
  [r EXCEPT !.at = x,
            !.met = IF a \in Bad THEN r.met \cup {<<r.at, a>>} ELSE r.met]

MetBy(r, answers) ==
  \E m \in r.met : m[1] \notin {"undo", "abandon"} /\ m[2] \in answers

\* Each step belongs to the tools that have it.
Fits(r) ==
  /\ r.at \in {"open", "write"} => r.kind \in {"markdown", "pdf"}
  /\ r.at = "render" => r.kind = "pdf"
  /\ r.at = "load" => r.kind = "read"
  /\ r.at = "scan" => r.kind = "scan"
  /\ r.at = "query" => r.kind = "sql"
  /\ r.at = "table" => r.kind = "table"
  /\ r.at \in StockSteps => r.kind = "stock"
  /\ r.at \in WeatherSteps => r.kind = "weather"
  /\ r.at = "search" => r.kind = "search"
  /\ r.at = "chats" => r.kind = "chats"
  /\ r.at \in AskSteps => r.kind = "ask"

\* What has failed decides where the call is, and the other way round.
Told(r) ==
  /\ r.at = "raised" => MetBy(r, Unreadable)
  /\ r.at \in {"undo", "retry"} => MetBy(r, Transient)
  /\ MetBy(r, Transient) /\ r.kind \notin {"stock", "pdf"} =>
       r.at \in {"retry", "undo", "cleanup_failed"}
  /\ MetBy(r, Bad) /\ r.kind # "stock" =>
       r.at \in {"raised", "retry", "final", "cleanup_failed", "undo", "abandon"}

\* A session is there while the call works with it, and after the call only
\* when its making or its deletion went wrong.
Kept(r, s) ==
  s => \/ r.at \in {"ask", "undo", "abandon", "delete"}
       \/ /\ r.at \in Outcomes \ {"ok"}
          /\ \E a \in Bad, at \in {"create", "undo", "abandon", "delete"} :
               <<at, a>> \in r.met

\* What a call that goes on has met.
LEMMA GoneMet ==
  ASSUME NEW r \in CallType, NEW x, NEW a
  PROVE  /\ a \in Bad => Gone(r, x, a).met = r.met \cup {<<r.at, a>>}
         /\ a \notin Bad => Gone(r, x, a).met = r.met
<1>1. Gone(r, x, a).met = IF a \in Bad THEN r.met \cup {<<r.at, a>>} ELSE r.met
  BY DEF Gone, CallType
<1> QED BY <1>1

\* Going on changes the place and what was met, and nothing else.
LEMMA GoneIs ==
  ASSUME NEW r \in CallType, NEW x \in Steps, NEW a \in Answers
  PROVE  /\ Gone(r, x, a) \in CallType
         /\ Gone(r, x, a).at = x /\ Gone(r, x, a).kind = r.kind
         /\ Gone(r, x, a).file = r.file /\ Gone(r, x, a).text = r.text
         /\ Gone(r, x, a).left = r.left
<1> DEFINE met == IF a \in Bad THEN r.met \cup {<<r.at, a>>} ELSE r.met
<1>1. r.at \in Steps /\ r.met \subseteq Steps \X Bad
  BY DEF CallType
<1>2. met \in SUBSET (Steps \X Bad)
  BY <1>1
<1>3. Gone(r, x, a) = [r EXCEPT !.at = x, !.met = met]
  BY DEF Gone
<1> HIDE DEF met
<1> DEFINE g == [r EXCEPT !.at = x, !.met = met]
<1>4. g.at = x /\ g.kind = r.kind /\ g.file = r.file /\ g.text = r.text
        /\ g.left = r.left
  BY DEF CallType
<1>5. g \in CallType
  BY <1>2 DEF CallType
<1> QED BY <1>3, <1>4, <1>5

\* What was met by a call that has gone on.
LEMMA MetGrows ==
  ASSUME NEW r \in CallType, NEW x \in Steps, NEW a \in Answers, NEW S
  PROVE  MetBy(Gone(r, x, a), S) <=>
           \/ MetBy(r, S)
           \/ a \in Bad \cap S /\ r.at \notin {"undo", "abandon"}
<1>1. CASE a \in Bad
  <2>1. Gone(r, x, a).met = r.met \cup {<<r.at, a>>}
    BY GoneMet, <1>1
  <2> DEFINE m0 == <<r.at, a>>
  <2>2. m0[1] = r.at /\ m0[2] = a
    OBVIOUS
  <2> HIDE DEF m0
  <2>3. \A m : m \in Gone(r, x, a).met <=> m \in r.met \/ m = m0
    BY <2>1 DEF m0
  <2> QED BY <2>2, <2>3, <1>1 DEF MetBy
<1>2. CASE a \notin Bad
  <2>1. Gone(r, x, a).met = r.met
    BY GoneMet, <1>2
  <2> QED BY <2>1, <1>2 DEF MetBy
<1> QED BY <1>1, <1>2

\* How the first step of a call, and a step on files, tell what they have met.
Tells(k, x, a) ==
  \/ a = "good" /\ x \notin {"raised", "retry"}
  \/ a = "broken" /\ x = "raised"
  \/ a = "refused" /\ (x = "retry" \/ (x = "final" /\ k = "pdf"))

\* These steps keep Told.
LEMMA FileTold ==
  ASSUME NEW r \in CallType, Told(r),
         r.at \in {"input", "render", "open", "write", "load", "scan"},
         NEW x \in Steps \ {"undo"}, NEW a \in Answers, Tells(r.kind, x, a)
  PROVE  Told(Gone(r, x, a))
<1> DEFINE g == Gone(r, x, a)
<1>1. g.at = x /\ g.kind = r.kind
  BY GoneIs
<1>2. \A S : MetBy(g, S) <=> MetBy(r, S) \/ a \in Bad \cap S
  BY MetGrows
<1>3. SUFFICES Told(g)
  OBVIOUS
<1> HIDE DEF g
<1>4. /\ MetBy(g, Transient) <=> MetBy(r, Transient) \/ a \in {"timeout", "refused"}
      /\ MetBy(g, Unreadable) <=> MetBy(r, Unreadable) \/ a \in {"broken", "garbled"}
      /\ MetBy(g, Bad) <=> MetBy(r, Bad) \/ a \notin {"good", "empty"}
  <2>1. /\ Bad \cap Transient = {"timeout", "refused"}
        /\ Bad \cap Unreadable = {"broken", "garbled"}
        /\ a \in Bad \cap Bad <=> a \notin {"good", "empty"}
    BY AnswerNames DEF Bad, Transient, Unreadable
  <2> QED BY <1>2, <2>1
<1> QED BY <1>1, <1>4 DEF Told, Tells

\* An answer leads to another step.
LEMMA AnswerIsStep ==
  ASSUME NEW r \in Requests, NEW a \in Answers, NEW x \in After[r][a]
  PROVE  x \in Requests \cup Outcomes /\ x # r
<1>1. CASE r \in WeatherSteps
  BY <1>1, WeatherRows, RowAnswers, AnswerNames, RequestNames
     DEF WeatherSteps, Outcomes
<1>2. CASE r \in StockSteps
  BY <1>2, StockRows, RowAnswers, AnswerNames, RequestNames
     DEF StockSteps, Outcomes
<1>3. CASE r \in {"search", "query", "table", "chats"}
  BY <1>3, SingleRows, RowAnswers, AnswerNames DEF Outcomes
<1>4. CASE r \in AskSteps
  BY <1>4, AskRows, RowAnswers, AnswerNames, RequestNames
     DEF AskSteps, Outcomes, Anyway
<1> QED BY <1>1, <1>2, <1>3, <1>4, RequestNames

\* An answer leads to steps of the same tool, none of them one on files.
LEMMA AnswerFits ==
  ASSUME NEW r \in CallType, r.at \in Requests, Fits(r),
         NEW a \in Answers, NEW x \in After[r.at][a], x \in Steps
  PROVE  Fits(Gone(r, x, a)) /\ x \in Requests \cup Outcomes
<1> DEFINE g == Gone(r, x, a)
<1>1. g.at = x /\ g.kind = r.kind
  BY GoneIs
<1>2. CASE r.at \in WeatherSteps
  BY <1>1, <1>2, WeatherRows, RowAnswers, AnswerNames, RequestNames
     DEF Fits, WeatherSteps, StockSteps, AskSteps, Outcomes
<1>3. CASE r.at \in StockSteps
  BY <1>1, <1>3, StockRows, RowAnswers, AnswerNames, RequestNames
     DEF Fits, WeatherSteps, StockSteps, AskSteps, Outcomes
<1>4. CASE r.at \in {"search", "query", "table", "chats"}
  BY <1>1, <1>4, SingleRows, RowAnswers, AnswerNames, RequestNames
     DEF Fits, WeatherSteps, StockSteps, AskSteps, Outcomes
<1>5. CASE r.at \in AskSteps
  BY <1>1, <1>5, AskRows, RowAnswers, AnswerNames, RequestNames
     DEF Fits, WeatherSteps, StockSteps, AskSteps, Outcomes, Anyway
<1> QED BY <1>2, <1>3, <1>4, <1>5, RequestNames

\* An answer keeps Told.
LEMMA AnswerTold ==
  ASSUME NEW r \in CallType, r.at \in Requests, Fits(r), Told(r),
         NEW a \in Answers, NEW x \in After[r.at][a], x \in Steps
  PROVE  Told(Gone(r, x, a))
<1> DEFINE g == Gone(r, x, a)
<1>1. g.at = x /\ g.kind = r.kind
  BY GoneIs
<1>2. \A S : MetBy(g, S) <=>
        \/ MetBy(r, S)
        \/ a \in Bad \cap S /\ r.at \notin {"undo", "abandon"}
  BY MetGrows
<1>0. SUFFICES Told(g)
  OBVIOUS
<1> HIDE DEF g
<1>3. /\ MetBy(g, Transient) <=> \/ MetBy(r, Transient)
                                \/ /\ a \in {"timeout", "refused"}
                                   /\ r.at \notin {"undo", "abandon"}
      /\ MetBy(g, Unreadable) <=> \/ MetBy(r, Unreadable)
                                 \/ /\ a \in {"broken", "garbled"}
                                    /\ r.at \notin {"undo", "abandon"}
      /\ MetBy(g, Bad) <=> \/ MetBy(r, Bad)
                          \/ /\ a \notin {"good", "empty"}
                             /\ r.at \notin {"undo", "abandon"}
  <2>1. /\ Bad \cap Transient = {"timeout", "refused"}
        /\ Bad \cap Unreadable = {"broken", "garbled"}
        /\ a \in Bad \cap Bad <=> a \notin {"good", "empty"}
    BY AnswerNames DEF Bad, Transient, Unreadable
  <2> QED BY <1>2, <2>1
<1>4. CASE r.at \in WeatherSteps
  BY <1>1, <1>3, <1>4, WeatherRows, RowAnswers, AnswerNames
     DEF Fits, Told, WeatherSteps
<1>5. CASE r.at \in StockSteps
  BY <1>1, <1>3, <1>5, StockRows, RowAnswers, AnswerNames
     DEF Fits, Told, StockSteps
<1>6. CASE r.at \in {"search", "query", "table", "chats"}
  BY <1>1, <1>3, <1>6, SingleRows, RowAnswers, AnswerNames DEF Fits, Told
<1>7. CASE r.at \in AskSteps
  BY <1>1, <1>3, <1>7, AskRows, RowAnswers, AnswerNames
     DEF Fits, Told, AskSteps, Anyway
<1> QED BY <1>4, <1>5, <1>6, <1>7, RequestNames

\* The session after an answer, request by request.
LEMMA SessionIs ==
  ASSUME NEW c \in Calls, session[c] \in BOOLEAN, NEW a \in Answers
  PROVE  SessionAfter(c, a) \subseteq BOOLEAN
<1>1. (call[c].at = "create") \in BOOLEAN
  OBVIOUS
<1> QED BY <1>1 DEF SessionAfter

\* It stays as it was.
LEMMA SessionStays ==
  ASSUME NEW c \in Calls, NEW a \in Answers, NEW s \in SessionAfter(c, a),
         \/ call[c].at \notin {"create", "undo", "abandon", "delete"}
         \/ call[c].at = "create" /\ a = "empty"
  PROVE  s = session[c]
  BY DEF SessionAfter

\* It is deleted.
LEMMA SessionGoes ==
  ASSUME NEW c \in Calls, NEW a \in Answers, NEW s \in SessionAfter(c, a),
         call[c].at \in {"undo", "abandon", "delete"}, a \in {"good", "empty"}
  PROVE  s = FALSE
<1>1. a \notin Bad
  BY DEF Bad, Transient, Unreadable
<1>3. SessionAfter(c, a) = {call[c].at = "create"}
  BY <1>1 DEF SessionAfter
<1>2. (call[c].at = "create") = FALSE
  OBVIOUS
<1> QED BY <1>2, <1>3

\* What an answer does to the session RAGFlow holds keeps Kept.
LEMMA AnswerKept ==
  ASSUME NEW c \in Calls, call[c] \in CallType, session[c] \in BOOLEAN,
         call[c].at \in Requests, Kept(call[c], session[c]),
         NEW a \in Answers, NEW x \in After[call[c].at][a], x \in Steps,
         NEW s \in SessionAfter(c, a)
  PROVE  s \in BOOLEAN /\ Kept(Gone(call[c], x, a), s)
<1> DEFINE r == call[c]
           g == Gone(r, x, a)
<1>1. g.at = x /\ (a \in Bad => <<r.at, a>> \in g.met)
  <2>1. g.at = x
    BY GoneIs
  <2>2. a \in Bad => g.met = r.met \cup {<<r.at, a>>}
    BY GoneMet
  <2> QED BY <2>1, <2>2
<1>0. s \in BOOLEAN
  BY SessionIs
<1>2. CASE r.at \notin AskSteps
  <2>1. s = session[c]
    <3>1. r.at \notin {"create", "undo", "abandon", "delete"}
      BY <1>2 DEF AskSteps
    <3> QED BY <3>1, SessionStays
  <2>2. ~session[c]
    BY <1>2, RequestsAreNoEnds DEF Kept, AskSteps
  <2> QED BY <1>0, <2>1, <2>2 DEF Kept
<1>3. CASE r.at = "list"
  <2>1. s = session[c]
    BY <1>3, SessionStays
  <2>2. ~session[c]
    BY <1>3 DEF Kept, Outcomes
  <2> QED BY <1>0, <2>1, <2>2 DEF Kept
<1>4. CASE r.at = "create"
  <2>1. ~session[c]
    BY <1>4 DEF Kept, Outcomes
  <2>2. CASE a = "good"
    <3>1. x = "ask"
      BY <1>4, <2>2, AskRows, RowAnswers
    <3> QED BY <1>0, <1>1, <3>1 DEF Kept
  <2>3. CASE a = "empty"
    <3>1. s = session[c]
      BY <1>4, <2>3, SessionStays
    <3> QED BY <1>0, <2>1, <3>1 DEF Kept
  <2>4. CASE a \in Bad
    <3>1. x \in {"retry", "final"}
      BY <1>4, <2>4, AskRows, RowAnswers DEF Bad, Transient, Unreadable
    <3>2. <<"create", a>> \in g.met /\ a \in Bad
      BY <1>1, <1>4, <2>4
    <3> QED BY <1>0, <1>1, <3>1, <3>2 DEF Kept, Outcomes
  <2> QED BY <2>2, <2>3, <2>4 DEF Answers
<1>5. CASE r.at = "ask"
  <2>1. x \in {"delete", "undo", "abandon"}
    BY <1>5, AskRows, RowAnswers, AnswerNames
  <2> QED BY <1>0, <1>1, <2>1 DEF Kept
<1>6. CASE r.at \in {"undo", "abandon", "delete"}
  <2>1. CASE a \in {"good", "empty"}
    <3>1. s = FALSE
      BY <1>6, <2>1, SessionGoes
    <3> QED BY <1>0, <3>1 DEF Kept
  <2>2. CASE a \in Bad
    <3>1. x \in {"retry", "final", "cleanup_failed"}
      <4>1. a \in {"timeout", "refused", "broken", "garbled"}
        BY <2>2 DEF Bad, Transient, Unreadable
      <4>2. CASE r.at = "undo"
        BY <4>1, <4>2, AskRows, RowAnswers DEF Anyway
      <4>3. CASE r.at = "abandon"
        BY <4>1, <4>3, AskRows, RowAnswers DEF Anyway
      <4>4. CASE r.at = "delete"
        BY <4>1, <4>4, AskRows, RowAnswers
      <4> QED BY <1>6, <4>2, <4>3, <4>4
    <3>2. <<r.at, a>> \in g.met
      BY <1>1, <2>2
    <3> QED BY <1>0, <1>1, <1>6, <2>2, <3>1, <3>2 DEF Kept, Outcomes
  <2> QED BY <2>1, <2>2 DEF Answers
<1> QED BY <1>2, <1>3, <1>4, <1>5, <1>6 DEF AskSteps
=============================================================================
