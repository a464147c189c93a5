SPECIFICATION FairSpec
CONSTANTS
  None = None
  Token = {t1, t2, t3, t4}
  Reported = {"same", "other"}
  Events = {"time", "offline", "lost", "disk", "revoke", "restart"}
  MaxEvents = 2
INVARIANTS TypeOK ClientIsStored DeadOnlyUnreachable
PROPERTIES KeepsPairing PairsAgain
