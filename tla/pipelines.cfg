SPECIFICATION PipelineSpec
CONSTANTS
    q1 = q1
    q2 = q2
    e1 = e1
    e2 = e2
    d1 = d1
    s1 = s1
    s2 = s2
    Workloads <- SmallWorkloads
    Snippets <- TwoSnippets
    MaxRuns = 2
INVARIANTS
    PipelineInv
    ChunkingOK
    ManifestIsIndexed
    ManifestIsDeterministic
    GroundedInOwnSearch
\* Every run returns or raises, and then nothing is left to do.
CHECK_DEADLOCK FALSE
