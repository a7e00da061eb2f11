SPECIFICATION Spec
CONSTANTS
  Proc = {p1,p2,p3}
  Token = {t1,t2}
  s1 = s1
  Absent = Absent
  App = App
  Keep = Keep
  NoToken = NoToken
  Nobody = Nobody
  NoFile = NoFile
  Free = Free
  UserSettings <- MCUserSettings
  MaxAttempts = 2
  Faults = {}
  QuietStart = FALSE
  Legacy = FALSE
SYMMETRY Symmetry
CHECK_DEADLOCK FALSE
INVARIANTS
  SomeoneWillRestore
PROPERTIES
  LiveSnapshotUntouched
  StartsRecovered
