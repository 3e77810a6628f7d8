SPECIFICATION Spec
CONSTANTS
  Keys = {btc, eth}
  Values = {low, high}
  Readers = {r1, r2}
  Writers = {source}
  Absent = Absent
  MaxMaps = 3
INVARIANTS
  TypeOK
  NoWriteUnderAReader
PROPERTIES
  ImplementsAtomicMap
