CONSTANTS
  Keys = {k1, k2, k3}
  FirstKey = k1
  Publications = {p1, p2}
  Realms = {"home", "away"}
  AdapterRealm = "home"
  None = None
  Locked = Locked
  MaxSeq = 2
  HostReprepares = FALSE
SPECIFICATION FairSpec
PROPERTIES NoSecondWrite AcceptedIsPromoted
