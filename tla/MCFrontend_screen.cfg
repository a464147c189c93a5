SPECIFICATION FairSpec
CONSTANTS
  Photo = {p1, p2}
  Url = {u1, u2}
  Text = {t1}
  Slot = {s1, s2, s3}
  Full = 2
  None = None
INVARIANTS TypeOK NoDanglingSource CacheFresh MappingsBounded
PROPERTIES ShowsReplies KeepsAsking StopsInTheEnd
