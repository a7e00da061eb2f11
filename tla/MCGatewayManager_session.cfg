SPECIFICATION Spec
CONSTANTS
  Thread = {a, b}
  Device = {d}
  Responder = Responder
  Discovery = Discovery
  None = None
  Free = Free
  MaxSession = 2
  MaxRequests = 3
  Requests = {"enable", "disable", "connect", "disconnect", "tun on", "tun off"}
  Faults = {"setup", "restore", "engine", "tun", "arp", "previous"}
CHECK_DEADLOCK FALSE
SYMMETRY Symmetry
INVARIANTS
  TypeOK
  SessionOnDisk
  AlteredIsRecorded
  SessionHasLease
  TunHasAWanter
  AnswersInSession
