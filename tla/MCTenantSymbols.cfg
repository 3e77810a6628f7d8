SPECIFICATION Spec
CONSTANTS
  Callers = {c1, c2}
  c1 = c1
  c2 = c2
  Rows <- MCRows
  MaxInserts = 2
SYMMETRY AnyCaller
INVARIANTS
  TypeOK
  ToldAsDone
  ListsExact
