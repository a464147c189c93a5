SPECIFICATION FairSpec
CONSTANTS
  None = None
  N = 2
  MaxBlobs = 1
  Share = 4
  Events = {}
  MaxEvents = 0
PROPERTY ComesRound
