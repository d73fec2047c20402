SPECIFICATION FairSpec
CONSTANTS
    Files <- MCFiles
    Entry = "main"
    Stdlib <- MCStdlib
    Sources <- MCSources
    \* a walk over three files with two imports each is complete after seven steps
    MaxWalk = 7
INVARIANTS
    VerdictIsRight
    InlinedDepthFirst
\* The loader stops when it has an outcome.
CHECK_DEADLOCK FALSE
