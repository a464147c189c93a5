SPECIFICATION FairSpec
CONSTANTS
  v1 = v1
  v2 = v2
  v3 = v3
  v4 = v4
  v5 = v5
  None = None
  Self = Self
  Release = {v1, v2, v3, v4, v5}
  First = v1
  Healthy = {v1, v2, v3}
  Keep = 3
  Events = {"install", "stop", "link", "start", "slow", "kill", "reboot"}
  MaxEvents = 2
INVARIANTS
  TypeOK
  CurrentInstalled
  CanRollBack
  EndsChecked
 
