------------------------------ MODULE MCPipelines ------------------------------
(* Pipelines with small texts, windows and search results.                  *)
EXTENDS Pipelines, TLC

CONSTANTS q1, q2, e1, e2, d1, s1, s2

TwoSnippets == {s1, s2}

\* Every length to past two windows, every overlap, the illegal ones too.
AllCalls == {call \in [length : 0 .. 5, size : 0 .. 3, overlap : -1 .. 3] :
                call.overlap <= call.size}

TwoQueries == (q1 :> QueryPayload(1, TRUE)) @@ (q2 :> QueryPayload(1, TRUE))

Document(call) == e1 :> DocumentPayload(d1, call, TRUE)

\* Two jobs that name one document: five characters and two, in windows of two.
Text(length) == [length |-> length, size |-> 2, overlap |-> 1]
TwoVersions ==
    (e1 :> DocumentPayload(d1, Text(5), TRUE)) @@ (e2 :> DocumentPayload(d1, Text(2), TRUE))

Malformed == (q1 :> QueryPayload(1, FALSE)) @@ (e1 :> DocumentPayload(d1, Text(2), FALSE))

SmallWorkloads ==
    {TwoQueries, TwoVersions, Malformed} \cup {Document(call) : call \in AllCalls}
=============================================================================
