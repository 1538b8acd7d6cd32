SPECIFICATION Spec
CONSTANTS
  IdlePing = 15
  PingTimeout = 5
  MinDelay = 1
  MaxDelay = 30
  ResetThresh = 10
  RoundTrip = 4
  MaxGone = 25
  MaxWaits = 6
  Never = Never
INVARIANTS
  GoneNoticedInTime
  PresentPeerKept
  BackoffDoubles
