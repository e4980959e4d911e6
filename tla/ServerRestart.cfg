SPECIFICATION FairSpec
CONSTANTS
  MaxClients = 1
  MaxIndex = 3
  Msg = {m1}
  HasRecvTimeout = FALSE
  QueueBound = 1
PROPERTY CloseAllowsRestart
