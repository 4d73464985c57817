------------------------------- MODULE MCEngine -------------------------------
(* InferenceEngine with model values for the jobs and the workers.          *)
EXTENDS InferenceEngine, TLC

CONSTANTS j1, j2, w1, w2

OneJob == {j1}
TwoJobs == {j1, j2}
OneWorker == {w1}
TwoWorkers == {w1, w2}

\* Jobs, and workers, are interchangeable: nothing in the code orders them.
Symmetry == Permutations({j1, j2}) \cup Permutations({w1, w2})
=============================================================================
