SPECIFICATION CheckSpec
CONSTANTS
    Modules <- MCModules
    Manifests <- MCManifests
    Targets <- MCTargets
    Texts <- MCTexts
    MaxNesting = 3
INVARIANTS
    AcceptedRunsHold
    NarrowingKeeps
    CyclesAreFound
\* A checked module is looked at no further.
CHECK_DEADLOCK FALSE
