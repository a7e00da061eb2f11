SPECIFICATION GSpec
CONSTANTS
  MaxInstance = 2
  MaxToken = 2
  MaxTries = 3
  MaxFaults = 2
  Interface = {"lan"}
  Faults = {"crash", "power", "unread", "script", "timeout", "arp", "setup"}
  None = None
  Socket = {s1}
  MaxFilter = 3
  BlockQuic = TRUE
  NoServer = NoServer
  MaxOptions = 3
  Byte = {0, 1, 2, 3, 4}
INVARIANTS
  RTypeOK
  NetworkIsRecorded
  ActiveInForce
  PTypeOK
  
  DnsContract
  MssContract
PROPERTIES
  NetworkComesBack
CHECK_DEADLOCK FALSE
