SPECIFICATION Spec
CONSTANTS
  r1 = r1
  r2 = r2
  r3 = r3
  v1 = v1
  v2 = v2
  None = None
  Paths = {1}
  Values = {v1}
  Reqs = {r1}
  Ops = {"StateObserve"}
  IdMod = 8
  ConnMod = 4
  MaxConns = 2
  MaxQueue = 1
  MaxPings = 0
  Faults = {"disconnect"}
  MaxPushes = 1
  CallIds = {}
INVARIANT
  ObserverIsCurrent
