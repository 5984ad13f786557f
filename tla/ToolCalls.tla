------------------------------ MODULE ToolCalls ------------------------------
(***************************************************************************)
(* The tools that ask services outside: get_weather, get_stock_quote,      *)
(* internet_search, execute_sql_query and RAGFlow's create_ask_delete      *)
(* (src/tools), with the outcomes of tools/outcomes.py.  A call runs in a  *)
(* worker thread and makes one request after another; every request may    *)
(* be answered well, emptily, too late, not at all, or in a way nobody can *)
(* read.  What the model is told is abstracted to what it can do about it: *)
(* a result, a ToolFailure it may retry or not, or nothing, because the    *)
(* exception was not mapped and ends the Task.  The tools of a subagent    *)
(* count as calls of the turn that delegated to it.                        *)
(***************************************************************************)
EXTENDS Naturals, FiniteSets, TLC

CONSTANTS
  Calls,   \* tool calls in progress
  None

VARIABLES
  call,     \* what each call does, or None
  session   \* whether RAGFlow holds a temporary session made for the call

\* "timeout" and "refused" are exceptions of the kind the service's library has
\* for its errors; "broken" is any other it lets through; "garbled" is an answer
\* it hands over and the tool cannot read.
Transient == {"timeout", "refused"}
Unreadable == {"broken", "garbled"}
Bad == Transient \cup Unreadable
Answers == Bad \cup {"good", "empty"}

\* How a call ends: a result; a ToolFailure, retryable or not; cleanup_failed;
\* rejected by the user; or an exception that no tool failure stands for.
Outcomes == {"ok", "retry", "final", "cleanup_failed", "rejected", "raised"}

\* What follows an answer, by the kind of answer.
Row(good, empty, transient, broken, garbled) ==
  [a \in Answers |-> CASE a = "good" -> good
                       [] a = "empty" -> empty
                       [] a \in Transient -> transient
                       [] a = "broken" -> broken
                       [] a = "garbled" -> garbled]
Anyway(x) == Row(x, x, x, x, x)

-----------------------------------------------------------------------------
(* The requests of each tool.  A first form is one with a mistake.          *)

\* An unknown city is a result; what is no error of requests is not mapped,
\* and neither is a body that is no JSON, which is read outside the try.
GetWeatherUnmapped ==
  [geocode  |-> Row({"forecast"}, {"ok"}, {"raised"}, {"raised"}, {"raised"}),
   forecast |-> Row({"ok"}, {"ok"}, {"retry"}, {"raised"}, {"raised"})]
GetWeather ==
  [geocode  |-> Row({"forecast"}, {"ok"}, {"retry"}, {"raised"}, {"raised"}),
   forecast |-> Row({"ok"}, {"ok"}, {"retry"}, {"raised"}, {"raised"})]

\* Each source that has nothing, or fails with an error of requests, gives way
\* to the next; a quote in an unknown form may count as none.
GetStockQuote ==
  [hint    |-> Row({"tencent"}, {"tencent"}, {"tencent"}, {"raised"}, {"tencent"}),
   tencent |-> Row({"ok"}, {"yahoo"}, {"yahoo"}, {"raised"}, {"yahoo", "raised"}),
   yahoo   |-> Row({"ok"}, {"final"}, {"final"}, {"raised"}, {"final", "raised"})]

InternetSearchFinal ==
  [search |-> Row({"ok"}, {"ok"}, {"final"}, {"final"}, {"final"})]
InternetSearch ==
  [search |-> Row({"ok"}, {"ok"}, {"retry"}, {"final"}, {"final"})]

\* Every error of mysql.connector, also one in the statement, may be tried
\* again; a ValueError, wherever it comes from, is told as a configuration that
\* is missing; nothing else is mapped.  So it is for the tools that list tables
\* and show their first rows.
ExecuteSqlQuery ==
  [query |-> Row({"ok"}, {"ok"}, {"retry"}, {"final", "raised"},
                 {"final", "raised"})]
GetTableData ==
  [table |-> Row({"ok"}, {"ok"}, {"retry"}, {"final", "raised"},
                 {"final", "raised"})]

\* The assistants are asked for inside the try, and read outside.
GetAssistantList ==
  [chats |-> Row({"ok"}, {"ok"}, {"retry"}, {"final"}, {"raised"})]

\* A question that fails is followed by the deletion of the session, whose own
\* failure is only logged (undo keeps the failure retryable, abandon not).
CreateAskLeave ==
  [list    |-> Row({"create"}, {"final"}, {"retry"}, {"final"}, {"final"}),
   create  |-> Row({"ask"}, {"final"}, {"retry"}, {"final"}, {"final"}),
   ask     |-> Row({"delete"}, {"delete"}, {"retry"}, {"final"}, {"final"}),
   delete  |-> Row({"ok"}, {"ok"}, {"cleanup_failed"}, {"cleanup_failed"},
                   {"cleanup_failed"})]
CreateAskDelete ==
  [list    |-> Row({"create"}, {"final"}, {"retry"}, {"final"}, {"final"}),
   create  |-> Row({"ask"}, {"final"}, {"retry"}, {"final"}, {"final"}),
   ask     |-> Row({"delete"}, {"delete"}, {"undo"}, {"abandon"}, {"abandon"}),
   undo    |-> Anyway({"retry"}),
   abandon |-> Anyway({"final"}),
   delete  |-> Row({"ok"}, {"ok"}, {"cleanup_failed"}, {"cleanup_failed"},
                   {"cleanup_failed"})]

Requests ==
  DOMAIN GetWeather \cup DOMAIN GetStockQuote \cup DOMAIN InternetSearch
    \cup DOMAIN ExecuteSqlQuery \cup DOMAIN GetTableData
    \cup DOMAIN GetAssistantList \cup DOMAIN CreateAskDelete
After ==
  [r \in Requests |->
     CASE r \in DOMAIN GetWeather -> GetWeather[r]
       [] r \in DOMAIN GetStockQuote -> GetStockQuote[r]
       [] r \in DOMAIN InternetSearch -> InternetSearch[r]
       [] r \in DOMAIN ExecuteSqlQuery -> ExecuteSqlQuery[r]
       [] r \in DOMAIN GetTableData -> GetTableData[r]
       [] r \in DOMAIN GetAssistantList -> GetAssistantList[r]
       [] r \in DOMAIN CreateAskDelete -> CreateAskDelete[r]]

\* What a call does first: its first request, or it refuses its input (a SQL
\* tool also if its configuration is incomplete).  A name that is no path at all
\* makes pathlib raise a ValueError, which is not mapped; the tools that write
\* may fail at the file system even before, which is.
ResolveCnSymbol == {"hint", "tencent"}
ValidateSqlQuery == {"query", "final"}
ResolveArtifact == {"load", "final", "raised"}
FirstSteps ==
  [weather |-> {"geocode"}, stock |-> ResolveCnSymbol \cup {"final"},
   search |-> {"search"}, sql |-> ValidateSqlQuery,
   table |-> {"table", "final"}, chats |-> {"chats"}, ask |-> {"list"},
   markdown |-> {"open", "final", "retry", "raised"},
   pdf |-> {"render", "final", "retry", "raised"},
   read |-> ResolveArtifact, scan |-> {"scan", "final"}]
Kinds == DOMAIN FirstSteps

-----------------------------------------------------------------------------
(* The life of a call.                                                      *)

Call(kind, at, file, text, left) ==
  [kind |-> kind, at |-> at, file |-> file, text |-> text, met |-> {},
   left |-> left]

At(c, steps) == call[c] # None /\ call[c].at \in steps
Ended(c) == At(c, Outcomes)
Now(c) == call[c] # None /\ ~call[c].left

\* The call goes on to x; what has failed on the way is remembered.
GoesOn(c, x, a) ==
  call' = [call EXCEPT
             ![c].at = x,
             ![c].met = IF a \in Bad THEN @ \cup {<<call[c].at, a>>} ELSE @]

\* The thread starts: report_tool, and a look at the arguments, in the order
\* each tool has.
FoundAtFirst(x) == CASE x = "raised" -> "broken"
                     [] x = "retry"  -> "refused"
                     [] OTHER        -> "good"
Begins(c) ==
  /\ At(c, {"input"})
  /\ \E x \in FirstSteps[call[c].kind] : GoesOn(c, x, FoundAtFirst(x))
  /\ UNCHANGED session

\* RAGFlow makes or deletes the session when it answers; of an answer that
\* never came or cannot be read, nobody knows.
SessionAfter(c, a) ==
  LET creates == call[c].at = "create"
      still == \/ call[c].at \notin {"create", "undo", "abandon", "delete"}
               \/ creates /\ a = "empty"
  IN  CASE still -> {session[c]}
        [] ~still /\ a \in Bad -> {session[c], creates}
        [] OTHER -> {creates}

Answered(c, a) ==
  /\ At(c, Requests)
  /\ \E x \in After[call[c].at][a] : GoesOn(c, x, a)
  /\ \E s \in SessionAfter(c, a) : session' = [session EXCEPT ![c] = s]

-----------------------------------------------------------------------------
(* Properties.                                                              *)

\* The clean-up after a failed question does not change what is told of it.
Met(c, answers) ==
  \E m \in call[c].met : m[1] \notin {"undo", "abandon"} /\ m[2] \in answers

\* The contract of tool results, over all requests of a call: the model is told
\* to try again when, and only when, a service or a file failed it for now (a
\* session that was not deleted is told in its own way); only an answer, a file
\* or a name nobody can read ends the Task; and no failure on the way ends as a
\* result.  Two tools differ: get_stock_quote goes on to its next source and at
\* last says not_found, convert_md_to_pdf takes what fails in the renderer for
\* conversion_failed.
FailuresAreTold ==
  \A c \in Calls : Ended(c) =>
    /\ call[c].at = "raised" => Met(c, Unreadable)
    /\ call[c].at = "retry" => Met(c, Transient)
    /\ call[c].at = "final" /\ call[c].kind \notin {"stock", "pdf"}
         => ~Met(c, Transient)
    /\ call[c].at = "ok" /\ call[c].kind # "stock" => ~Met(c, Bad)

\* "Ask once in a temporary session and delete it when done": after a call has
\* ended its session is gone, unless making or deleting it went wrong; and
\* then the call does not claim success.
SessionsDeleted ==
  \A c \in Calls : Ended(c) /\ session[c] =>
    /\ call[c].at # "ok"
    /\ \E a \in Answers \ {"good"} :
         \E at \in {"create", "undo", "abandon", "delete"} :
           <<at, a>> \in call[c].met
=============================================================================
