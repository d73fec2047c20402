SPECIFICATION FairSpec
CONSTANTS
    N = 4
    StepNames <- MCStepNames
    StepName <- MCStepName
    Clauses <- MCClauses
    HasUndo <- MCHasUndo
    MaxInvocations = 2
    MaxCalls = 2
INVARIANTS
    ReverseCompensation
    HonestResult
    KeysTellStepsApart
PROPERTIES
    ImplementsContract
    Returns
\* The program ends when it has made its last call.
CHECK_DEADLOCK FALSE
