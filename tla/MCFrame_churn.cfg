SPECIFICATION Spec
CONSTANTS
  p1 = p1
  p2 = p2
  e1 = e1
  e2 = e2
  panel = panel
  tiny = tiny
  frontend = frontend
  probe = probe
  NoEntry = NoEntry
  NoBlob = NoBlob
  NoGeometry = NoGeometry
  NoPhoto = NoPhoto
  NoETag = NoETag
  Size <- MCSize
  Asks <- MCAsks
  Panel = panel
  Photo = {p1, p2}
  ETag = {p1, p2, e1, e2}
  FirstETag <- MCFirstETag
  Geometry = {panel}
  Handler = {frontend}
  Guest = {}
  Decodable <- AllButFirst
  Events = {"select", "edit", "delete", "move", "subfolder", "list", "offline", "crash", "revoke", "disk"}
  MaxEvents = 2
  Budget = 1
INVARIANTS RecordsOwnRender NoDangling
