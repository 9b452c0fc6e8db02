CONSTANTS
  Keys <- MCKeys
  ScanCode <- MCScanCode
  ButtonValue <- MCButtonValue
SPECIFICATION Spec
INVARIANT TypeOK
INVARIANT KeysSyncedWhileAnyHeld
