SPECIFICATION Spec
CONSTANTS
  r1 = r1
  r2 = r2
  r3 = r3
  v1 = v1
  v2 = v2
  None = None
  Paths = {1}
  Values = {v1,v2}
  Reqs = {r1}
  Ops = {"ActionCall", "ActionRegister", "StateRegister", "StateChanged",
         "StateObserve", "EventRegister", "EventEmit", "EventListen",
         "Get", "Set"}
  IdMod = 4
  ConnMod = 2
  MaxConns = 3
  MaxQueue = 1
  MaxPings = 1
  Faults = {"close", "reset", "close_fails", "refuse", "exit"}
  MaxPushes = 3
  CallIds = {1}
SYMMETRY ValueSymmetry
INVARIANTS
  ObserverForgets
  ObserverIsNearlyCurrent
  TypeOK
  RepliesAreAwaited
  ProtocolErrorExplained
