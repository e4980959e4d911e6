SPECIFICATION FairIoSpec
CONSTANTS
  MaxClients = 1
  MaxIndex = 2
  Msg = {1, 2}
  HasRecvTimeout = FALSE
  QueueBound = 1
INVARIANTS SentInOrder SilentLossOnlyByClose
PROPERTY EveryMessageEnds
