CONSTANTS
  t1 = t1
  t2 = t2
  t3 = t3
  p1 = p1
  p2 = p2
  Threads = {t1, t2, t3}
  Processes = {p1, p2}
  ProcessOf <- TwoAndOne
  Digests = {d1, d2, d3}
  Garbage = Garbage
  Free = Free
  MaxRecords = 2
SPECIFICATION Spec
INVARIANTS TypeOK GrantedOnce GrantIsRemembered
SYMMETRY Interchangeable
