SPECIFICATION Spec
CONSTANTS
  k2 = k2
  k3 = k3
  FirstKey = k1
  Keys = {k1, k2, k3}
  Sessions = {s1, s2}
  Publications = {p1, p2}
  Logins = {l1, l2}
  Challenges = {c1}
  HistoryPeers <- MCHistoryPeers
  ReadbackPeer = "readback"
  None = None
  Locked = Locked
  MaxSeq = 2
SYMMETRY Symmetry
INVARIANTS AndroidRotationInv SentSuccessorHeld
PROPERTIES ImplementsHandover PutOncePerPeer FanOutNotResumed ProofOncePerChallenge ProofByUnrotatedKey
