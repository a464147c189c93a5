SPECIFICATION FairSpec
CONSTANTS
  None = None
  N = 3
  MaxBlobs = 3
  Share = 4
  Events = {"edit", "wipe", "disk", "giveup", "crash"}
  MaxEvents = 1
INVARIANTS
  TypeOK
  CleanMeansSaved
PROPERTY ComesRound
