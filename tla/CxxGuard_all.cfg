SPECIFICATION Spec
CONSTANTS
  t1 = t1  t2 = t2  t3 = t3  g1 = g1
  Threads = {t1, t2, t3}
  Guards = {g1}
  None = None
  MaxSession = 2
SYMMETRY Symmetry
INVARIANTS InitialisedOnce NoLostNotify
CHECK_DEADLOCK FALSE
