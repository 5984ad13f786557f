----------------------------- MODULE MCWebClient -----------------------------
(* Small instances of WebClient for TLC.                                    *)
EXTENDS WebClient, TLC

CONSTANTS c1, c2, h1

TwoConns == {c1, c2}
OneSubmit == {h1}

\* Sockets are interchangeable.
Interchangeable == Permutations(TwoConns)
=============================================================================
