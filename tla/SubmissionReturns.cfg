CONSTANTS
  Submitters = {s1}
  Publishers = {}
  Rotators = {r1}
  Nonces = {n1}
  Free = Free
  Other = Other
  Rotation = Rotation
  MaxStates = 1
SPECIFICATION FairSpec
PROPERTIES CallsReturn
CHECK_DEADLOCK FALSE
