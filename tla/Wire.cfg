SPECIFICATION Spec
CONSTANTS
  Base = 3
  Magic = 71
  MaxSent = 3
  MaxBreaks = 1
  Torn = FALSE
  Missing = {1, 4}
  SizeMod = 1024
  Packs <- Objects
  ValueOf <- Values
  Hellos <- Greetings
  ToClient <- FromServer
  ToServer <- FromClient
  Malformed <- NoMessages
INVARIANTS
  NoByteLost
  OnlySpoiledFails
  NoOverread
  ReadAsWritten
  NothingElseAccepted
  LoggedAsJson
PROPERTIES
  CompleteMessages
  MessagesArrive
CHECK_DEADLOCK FALSE
