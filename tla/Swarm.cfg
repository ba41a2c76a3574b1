SPECIFICATION FairSpec
CONSTANTS
  MaxAgents = 2
  MaxOps = 4
  Names = {s}
  Panics = TRUE
INVARIANTS NoLostWakeup BailIsSound ChildrenJoined
PROPERTIES ImplementsMailbox RunEnds SignalAnswersWait
