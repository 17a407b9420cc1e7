CONSTANTS
  Data = {d1, d2, d3}
  Absent = Absent
  Closed = Closed
SPECIFICATION Spec
INVARIANTS StorageInv SessionHoldsFile ExistingContainerKept
PROPERTIES ImplementsAtomicFile
