SPECIFICATION FairSpec
CONSTANTS
  r1 = r1
  r2 = r2
  r3 = r3
  v1 = v1
  v2 = v2
  None = None
  Paths = {1}
  Values = {v1}
  Reqs = {r1}
  Ops = {"ActionCall", "StateObserve"}
  IdMod = 4
  ConnMod = 2
  MaxConns = 2
  MaxQueue = 1
  MaxPings = 1
  Faults = {"close", "reset", "mute", "close_fails", "exit"}
  MaxPushes = 0
  CallIds = {}
PROPERTIES
  ExitStops
  DeadPeerNoticed
  SetupSucceeds
  RequestsEnd
