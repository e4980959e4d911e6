SPECIFICATION FairAppSpec
CONSTANTS
  Msg = {m1}
  QueueBound = 2
  Period = 3
INVARIANTS
  AppTypeOK
  RestartNotRefused
  RenetInStep
PROPERTIES
  RunsStartClean
  LoopEndEndsRun
  DisconnectRestarts
