SPECIFICATION FairSpec
CONSTANTS
  a = a
  b = b
  f = f
  g = g
  v = v
  Folder = {a, b}
  Image = {f, g}
  Other = {v}
  Album <- AlbumHref
  Shelf <- Albums
  Favored <- TaggedAlbums
  MaxDepth = 1
  MaxFiles = 3
  Events = {"mark", "unmark", "move", "delete", "untag", "fail", "revoke", "stop"}
  MaxEvents = 2
INVARIANT TypeOK
PROPERTIES KeepsWhatStayed TracksSelection
