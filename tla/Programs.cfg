SPECIFICATION Spec
CONSTANTS
  RunPrograms = {"call", "listen", "observe", "get", "set", "publish", "emit", "complete"}
  Values <- TwoValues
  Lines <- AllLines
  Words <- SomeWords
  Listings <- SomeListings
  None = None
  MaxArgs = 2
  MaxLines = 3
  MaxPushes = 2
INVARIANTS
  SentInOrder
  OneResultAtATime
  StatusHonest
  PrintedInOrder
  CompletesTheWord
PROPERTIES
  ProgramsEnd
  EverythingPrinted
CHECK_DEADLOCK FALSE
