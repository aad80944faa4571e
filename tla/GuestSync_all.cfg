SPECIFICATION Spec
CONSTANTS
  t1 = t1  t2 = t2  t3 = t3  m1 = m1  c1 = c1
  Threads = {t1, t2, t3}
  Mutexes = {m1}
  Conds = {c1}
  None = None
  Kinds = {"errorcheck", "recursive"}
  MaxDepth = 2
  MaxSession = 2
SYMMETRY Symmetry
INVARIANTS TypeOK HeldIsOwned NoLostUnlock OneSessionGrace
CHECK_DEADLOCK FALSE
