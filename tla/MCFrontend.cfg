SPECIFICATION Spec
CONSTANTS
  Digits <- MCDigits
  Huge <- MCHuge
  Versions <- MCVersions
  Pascal <- MCPascal
  Programs <- MCPrograms
  Pieces <- MCPieces
  MaxPieces = 3
\* A file on which a command has been run is looked at no further.
CHECK_DEADLOCK FALSE
INVARIANTS
  RoundTrip
  RecoveryIsSound
  DocsFollowItems
