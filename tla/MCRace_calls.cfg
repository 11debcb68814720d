CONSTANTS
  Name = {n1, n2, n3}
  Time = {0, 1}
  NOID = NOID
  JUNK = JUNK
  NULL = NULL
  MaxGates = 2
  MaxTeams = 2
  MaxAttempts = 2
  MaxAcls = 1
SPECIFICATION Spec
INVARIANTS TypeOK FaultsExplained NextAfterFinish PassedOnce
PROPERTIES PastUnchanged
SYMMETRY Symmetry
ACTION_CONSTRAINT OneTeamRuns
CHECK_DEADLOCK FALSE
