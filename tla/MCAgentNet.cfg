SPECIFICATION Spec
CONSTANTS
    Node <- MCNode
    Flows <- MCFlows
    Kind <- MCKind
    Accept <- MCAccept
    Produce <- MCProduce
    Retries <- MCRetries
    Model <- MCModel
    NoModel = "none"
    Outside = "outside"
INVARIANTS
    OrderIsRight
    InputFromUpstream
    HonestResult
PROPERTY
    EndsWithinBudget
\* An invocation ends.
CHECK_DEADLOCK FALSE
