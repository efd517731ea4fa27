SPECIFICATION CatalogueSpec
CONSTANTS
  p1 = p1
  p2 = p2
  g1 = g1
  g2 = g2
  o1 = o1
  o2 = o2
  u1 = u1
  r1 = r1
  r2 = r2
  MaxRequests = 2
  Products = {p1, p2}
  Categories = {g1, g2}
  Orders = {o1, o2}
  Users = {u1}
  OrderUser <- MCOrderUser
  Callers = {r1, r2}
CHECK_DEADLOCK FALSE
INVARIANTS
  CacheTypeOK
  StaleOnlyByRace
PROPERTIES
  ShowsCommitted
