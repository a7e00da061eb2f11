SPECIFICATION FairSpec
CONSTANTS
  Thread = {a, b}
  Device = {d}
  Responder = Responder
  Discovery = Discovery
  None = None
  Free = Free
  MaxSession = 2
  MaxRequests = 2
  Requests = {"enable", "disable", "tun on", "tun off"}
  Faults = {"restore", "forwarder", "expire", "socks"}
CHECK_DEADLOCK FALSE
PROPERTIES
  StopReturns
  FilterIsRepaired
  UserTunKept
