SPECIFICATION FairSpec
CONSTANTS
  Thread = {a}
  Device = {d}
  Responder = Responder
  Discovery = Discovery
  None = None
  Free = Free
  MaxSession = 1
  MaxRequests = 2
  Requests = {"enable", "disable"}
  Faults = {"arp"}
CHECK_DEADLOCK FALSE
PROPERTY StopReturns
