SPECIFICATION Spec
CONSTANTS
  r1 = r1
  r2 = r2
  r3 = r3
  v1 = v1
  v2 = v2
  None = None
  Paths = {1}
  Values = {v1}
  Reqs = {r1, r2}
  Ops = {"ActionCall"}
  IdMod = 3
  ConnMod = 2
  MaxConns = 1
  MaxQueue = 1
  MaxPings = 1
  Faults = {}
  MaxPushes = 0
  CallIds = {}
INVARIANT
  NoRequestForgotten
