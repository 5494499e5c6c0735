SPECIFICATION Spec
CONSTANTS
  Item <- MCItem
  Capacity = 4
  Files <- MCFiles
  Comment = Comment
  Malformed = Malformed
INVARIANTS
  PipelineTypeOK
  NoDataRace
  ViewsBracketQueue
  EveryEventAccountedFor
PROPERTIES
  FifoSpec
  Terminates
