SPECIFICATION Spec
CONSTANTS
  RunPrograms = {"complete"}
  Values <- TwoValues
  Lines <- AllLines
  Words <- SomeWords
  Listings <- AsDocumented
  None = None
  MaxArgs = 2
  MaxLines = 3
  MaxPushes = 2
INVARIANT
  NamesOffered
CHECK_DEADLOCK FALSE
