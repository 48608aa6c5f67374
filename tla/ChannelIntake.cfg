\* Two channels that are listed, deleted and listed again, around a restart; a message of any kind at any time.
CONSTANTS
  NoPair = NoPair
  NotRead = NotRead
  NoChannel = NoChannel
  Channels = {"c1", "c2"}
  Chats = {"x1", "x2"}
  Chat <- TwoChats
  Messages = {m1}
  Contents <- SomeContents
  Fallback = TRUE
  Keys = {"anthropic", "groq"}
  MaxRows = 3
  MaxRestarts = 1
CHECK_DEADLOCK FALSE
SPECIFICATION IntakeSpec
INVARIANTS
  HeardAsListed
  NoSignalUnseen
PROPERTIES
  JudgedByItsChannel
