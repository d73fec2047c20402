SPECIFICATION Spec
CONSTANTS
    N = 3
    Labels <- MCLabels
    Label <- MCLabel
    Bound <- MCBound
    Params <- MCParams
    ArgLists <- MCArgLists
    MaxRuns = 2
INVARIANTS
    HonestOutcome
    EnvTellsTruth
    ArgsBoundOnce
\* The program ends when it has made its last run.
CHECK_DEADLOCK FALSE
