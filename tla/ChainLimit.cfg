CONSTANTS
  owner = owner
  left = left
  right = right
  k1 = k1
  k2 = k2
  s0 = s0
  s1 = s1
  s2 = s2
  Owners = {k1, k2}
  Ids = {owner, left, right}
  SignerSets <- Proposals
  MaxEpoch = 2
  Depth = 2
  MaxStates = 4
  NoId = NoId
  Zero = Zero
SPECIFICATION Spec
INVARIANTS BundlesWithinLimit
SYMMETRY Interchangeable
CHECK_DEADLOCK FALSE
