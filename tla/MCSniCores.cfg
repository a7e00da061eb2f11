SPECIFICATION SSpec
CONSTANTS
  Client = {c1, c2}
  NumEdges = 2
  Strategies = {"wrong_seq", "tls_sni_records"}
  MaxSessions = 2
  MaxStarts = 1
  WireBound = 2
  InjectorFaults = TRUE
  Nobody = Nobody
  Clients = {c1, c2}
  CarrierModes = {"irancell", "auto"}
  Races = {TRUE}
  Slots = 2
  Host = {1, 3}
  NoOne = NoOne
  MaxHello = 12
  Modulus = 16
INVARIANTS
  TypeOK
  HandedOverSpoofed
  PreferredHealthy
  
  FTypeOK
  PreferredHostHealthy
  
  PiecesAreTheData
  DecoyOutOfWindow

  
CHECK_DEADLOCK FALSE
