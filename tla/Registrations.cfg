SPECIFICATION Spec
CONSTANTS
  r1 = r1
  r2 = r2
  r3 = r3
  v1 = v1
  v2 = v2
  None = None
  Paths = {1}
  Values = {v1, v2}
  Reqs = {r1, r2, r3}
  Ops = {"ActionRegister", "StateRegister", "StateChanged", "StateObserve", "EventRegister", "EventListen"}
  IdMod = 16
  ConnMod = 4
  MaxConns = 2
  MaxQueue = 1
  MaxPings = 0
  Faults = {"close", "refuse"}
  MaxPushes = 0
  CallIds = {}
SYMMETRY Symmetry
INVARIANT
  PublishedArrives
PROPERTIES
  MainMeansRestored
  IdentityKept
