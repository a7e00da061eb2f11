SPECIFICATION Spec
CONSTANTS
  Thread = {a}
  Device = {d}
  Responder = Responder
  Discovery = Discovery
  None = None
  Free = Free
  MaxSession = 1
  MaxRequests = 2
  Requests = {"enable", "disable"}
  Faults = {}
CHECK_DEADLOCK FALSE
INVARIANT CleanAtRest
