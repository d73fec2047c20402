SPECIFICATION ReplaySpec
CONSTANTS
    Numbers = {n1, n2}
    Texts = {yes, no}
    Uses <- MCUses
    Escaped = "escaped"
    MaxLive = 3
    MaxStray = 1
SYMMETRY MCSymmetry
INVARIANTS
    FaithfulReplay
    OnlyOffTapeContacts
\* A program ends when it has made its last call.
CHECK_DEADLOCK FALSE
