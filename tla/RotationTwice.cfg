CONSTANTS
  Keys = {k1, k2, k3}
  FirstKey = k1
  Publications = {p1}
  Realms = {"home", "away"}
  AdapterRealm = "home"
  None = None
  Locked = Locked
  MaxSeq = 3
  HostReprepares = FALSE
SPECIFICATION Spec
INVARIANTS RotationInv RegisteredKeyHeld DispatchedSuccessorHeld SessionMirrorsDisk
PROPERTIES ImplementsHandover WriteUnderDurableLatch NoSecondWrite PromotionObserved
SYMMETRY Interchangeable
