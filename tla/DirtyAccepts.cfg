SPECIFICATION FairDirtySpec
CONSTANTS
  MaxClients = 1
  MaxIndex = 2
  Msg = {m1}
  HasRecvTimeout = TRUE
  QueueBound = 1
  Period = 2
PROPERTY AcceptsAgain
