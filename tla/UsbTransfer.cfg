SPECIFICATION FairSpec
CONSTANTS
  Length = 5
  UrbLength = 4
  PacketSize = 2
  Rounds = 2
  Modes = {"whole", "continuation", "plain"}
INVARIANTS NoUseAfterFree BytesInOrder CompleteIsComplete TimeOutIsTold
PROPERTIES TransferEnds BulkSpec
CHECK_DEADLOCK FALSE
