SPECIFICATION FairSpec
CONSTANTS
  Proc = {p1,p2}
  Token = {t1,t2}
  s1 = s1
  Absent = Absent
  App = App
  Keep = Keep
  NoToken = NoToken
  Nobody = Nobody
  NoFile = NoFile
  Free = Free
  UserSettings <- MCUserSettings
  MaxAttempts = 2
  Faults = {"write"}
  QuietStart = TRUE
  Legacy = TRUE
CHECK_DEADLOCK FALSE
INVARIANTS
  UserSettingKept
PROPERTIES
  ImplementsPromise
  CrashIsRepaired
