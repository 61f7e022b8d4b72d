\* One message or two on a connection that may break after any byte.
CONSTANTS
  Kinds <- MCKinds
  Desc <- MCDesc
  ReaderDescs <- MCReaders
  Messages <- MCMessages
  Rooms <- MCRooms
  Modes <- MCModes
  MaxMessages = 2
  MaxNesting = 1
SPECIFICATION ExchangeSpec
INVARIANTS
  MessagesArrive
  NothingInvented
  BufferHeld
CHECK_DEADLOCK FALSE
