SPECIFICATION Spec
CONSTANTS
  p1 = p1
  p2 = p2
  e1 = e1
  e2 = e2
  panel = panel
  tiny = tiny
  frontend = frontend
  probe = probe
  NoEntry = NoEntry
  NoBlob = NoBlob
  NoGeometry = NoGeometry
  NoPhoto = NoPhoto
  NoETag = NoETag
  Size <- MCSize
  Asks <- MCAsks
  Panel = panel
  Photo = {p1, p2}
  ETag = {p1, p2}
  FirstETag <- MCFirstETag
  Geometry = {panel, tiny}
  Handler = {frontend, probe}
  Guest = {probe}
  Decodable = {p1, p2}
  Events = {"guest", "download", "offline", "stop", "move"}
  MaxEvents = 2
  Budget = 1
SYMMETRY PhotoSymmetry
INVARIANTS StrongInv WithinBudget AsleepMeansDone ServedFits CleanMeansSaved
