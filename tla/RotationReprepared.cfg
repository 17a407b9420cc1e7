CONSTANTS
  Keys = {k1, k2}
  FirstKey = k1
  Publications = {p1, p2}
  Realms = {"home"}
  AdapterRealm = "home"
  None = None
  Locked = Locked
  MaxSeq = 2
  HostReprepares = TRUE
SPECIFICATION Spec
INVARIANTS DispatchedSuccessorHeld
