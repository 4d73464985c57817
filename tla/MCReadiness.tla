------------------------------ MODULE MCReadiness ------------------------------
(* Readiness for a worker, with three calls of its pipelines, and for an    *)
(* API process with two probes and a publish.                               *)
EXTENDS Readiness

CONSTANTS c1, c2, c3

ThreeCalls == {c1, c2, c3}

To(p1, p2, p3) == [c \in ThreeCalls |-> CASE c = c1 -> p1 [] c = c2 -> p2 [] c = c3 -> p3]

Workers == {To("embed", "search", "put"), To("complete", "query", "upsert")}
Api == {To("head", "head", "publish")}
Processes == Workers \cup Api
=============================================================================
