SPECIFICATION FairSpec
CONSTANTS
  p1 = p1
  p2 = p2
  e1 = e1
  e2 = e2
  panel = panel
  tiny = tiny
  frontend = frontend
  probe = probe
  NoEntry = NoEntry
  NoBlob = NoBlob
  NoGeometry = NoGeometry
  NoPhoto = NoPhoto
  NoETag = NoETag
  Size <- MCSize
  Asks <- MCAsks
  Panel = panel
  Photo = {p1}
  ETag = {p1}
  FirstETag <- MCFirstETag
  Geometry = {panel, tiny}
  Handler = {frontend, probe}
  Guest = {probe}
  Decodable = {p1}
  Events = {"guest", "offline"}
  MaxEvents = 2
  Budget = 2
PROPERTY KeepsServing
