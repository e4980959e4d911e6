SPECIFICATION Spec
CONSTANTS
  MaxClients = 2
  MaxIndex = 3
  Msg = {m1}
  HasRecvTimeout = FALSE
  QueueBound = 1
CONSTRAINT OneMessage
INVARIANTS
  TypeOK
  InsertIsFresh
  LoopsAreOwned
  ClosedMeansQuiet
  HealthUnwrapsSucceed
  CleanEndWasRequested
  AnnouncedOnce
PROPERTIES
  RemovedOnlyWhenOver
