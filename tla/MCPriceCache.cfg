SPECIFICATION CacheSpec
CONSTANTS
  Clients = {c1, c2}
  PriceKeys = {k1, k2}
  Prices = {p1, p2}
  c1 = c1
  c2 = c2
  k1 = k1
  k2 = k2
  p1 = p1
  p2 = p2
  NoPrice = NoPrice
  Junk = Junk
  Ttls = {0, 1}
  Jitter = 2
  MaxAge = 4
SYMMETRY Interchangeable
INVARIANTS
  CacheTypeOK
  HitsAreGood
