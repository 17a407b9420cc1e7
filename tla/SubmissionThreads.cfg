CONSTANTS
  Submitters = {s1}
  Publishers = {p1}
  Rotators = {r1}
  Nonces = {n1, n2}
  Free = Free
  Other = Other
  Rotation = Rotation
  MaxStates = 1
SPECIFICATION Spec
INVARIANTS SubmissionInv WritesSerialized SignerUsable OneWritePerNonce ReportsAreTrue OnlySignerBlocks
SYMMETRY Interchangeable
CHECK_DEADLOCK FALSE
