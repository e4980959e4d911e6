SPECIFICATION FairSpec
CONSTANTS
  MaxClients = 1
  MaxIndex = 3
  Msg = {m1}
  HasRecvTimeout = TRUE
  QueueBound = 1
INVARIANT CapacityRespected
PROPERTIES
  CloseCompletes
  DisconnectCompletes
  LostConnEvicted
  StepsOfLifecycle
  ImplementsLifecycle
