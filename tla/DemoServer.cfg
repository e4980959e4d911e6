SPECIFICATION DemoSpec
CONSTANTS
  MaxClients = 1
  MaxIndex = 2
  Msg = {m1}
  HasRecvTimeout = TRUE
  QueueBound = 1
INVARIANTS
  SendersAreKnown
  EveryEndIsAnError
PROPERTY BroadcastEvictsLost
