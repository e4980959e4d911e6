SPECIFICATION DirtySpec
CONSTANTS
  MaxClients = 1
  MaxIndex = 3
  Msg = {m1}
  HasRecvTimeout = TRUE
  QueueBound = 1
  Period = 2
INVARIANTS DirtyTypeOK GhostsAreReported ErrorsAreDeserved
PROPERTIES RunsStartClean
