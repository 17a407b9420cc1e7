CONSTANTS
  Sessions = {s1, s2}
  Importers = {i1, i2}
  Free = Free
  Closed = Closed
  MaxUpdates = 4
SPECIFICATION Spec
INVARIANTS AndroidStorageInv AckedKept RefusedGone
SYMMETRY Interchangeable
