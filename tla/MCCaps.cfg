SPECIFICATION CapSpec
CONSTANTS
    Manifests <- MCManifests
    Narrowings <- MCNarrowings
    Signatures <- MCSignatures
    Calls <- MCCalls
    Policies <- MCPolicies
    ActiveNames <- MCActiveNames
    Backend <- MCBackend
    MaxFrames = 3
    MaxRetries = 2
    NotACap = NotACap
    Undeclared = Undeclared
INVARIANTS
    EffectsGranted
    PoliciesHold
    ReturnedIsRecorded
    NamedReachParameters
