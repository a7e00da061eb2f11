SPECIFICATION ASpec
CONSTANTS
  MaxAttempt = 2
  MaxTries = 1
  MaxJob = 2
  MaxChances = 3
  MaxFaults = 1
  MaxSwitch = 3
  MaxActs = 4
  MaxTrouble = 2
  Pid = {1, 2, 3}
  MaxEvents = 3
  MaxRuns = 3
INVARIANTS
  AppTypeOK
  ShownIsSo
  SwitchIsSo
  ProcessesAreOurs
CHECK_DEADLOCK FALSE
