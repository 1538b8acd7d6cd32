SPECIFICATION Spec
CONSTANTS
  Base = 3
  Magic = 71
  MaxSent = 2
  MaxBreaks = 1
  Torn = TRUE
  Missing = {}
  SizeMod = 1024
  Packs <- Objects
  ValueOf <- Values
  Hellos <- Greetings
  ToClient <- Changes
  ToServer = {}
  Malformed = {}
INVARIANT
  StreamAccepted
CHECK_DEADLOCK FALSE
