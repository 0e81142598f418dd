SPECIFICATION FairSpec
CONSTANTS
  Unit <- MCUnit
  Utype <- MCUtype
  Name <- MCName
  Requires <- MCRequires
  Recover = {2, 3, 4, 7, 9}
  Timed = {3, 4, 6, 7, 9}
  Impatient = {6, 9}
  BootTimeout = TRUE
INVARIANTS PhaseOrder RequireKept TimersSound
PROPERTY StartReturns
CHECK_DEADLOCK FALSE
