SPECIFICATION FairSpec
CONSTANTS
  Msg = {m1, m2}
  QueueBound = 2
INVARIANTS
  ClosedMeansQuiet
  LoopsAreOwned
  CleanEndWasRequested
PROPERTIES
  DisconnectAllowsRestart
  LossIsKnown
  DisconnectCompletes
  LostConnEnds
