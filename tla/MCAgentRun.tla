----------------------------- MODULE MCAgentRun -----------------------------
(* Small instances of AgentRun for TLC.                                     *)
EXTENDS AgentRun

CONSTANTS c1, c2

TwoCalls == {c1, c2}

\* Tools that write, tools that look at what is written, tools of services.
Writing == {"markdown", "pdf"}
Looking == {"pdf", "read", "scan"}
Asking == {"weather", "stock", "search", "sql", "table", "chats", "ask"}
Drawn == {Writing, Looking, Asking}

\* The calls are interchangeable.
Interchangeable == Permutations(TwoCalls)
=============================================================================
