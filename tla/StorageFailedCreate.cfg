CONSTANTS
  Data = {d1, d2}
  Absent = Absent
  Closed = Closed
SPECIFICATION Spec
INVARIANTS FailedCreateLeavesNothing
