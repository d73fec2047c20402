SPECIFICATION Spec
CONSTANTS
    Clock <- MCClock
    Base = 2
    Width = 2
    Outcomes <- MCOutcomes
    Name <- MCName
    MaxEvents = 5
INVARIANTS
    EventsTellTimeAndPlace
    DiffTellsTruth
\* The run ends when it has recorded its last event.
CHECK_DEADLOCK FALSE
