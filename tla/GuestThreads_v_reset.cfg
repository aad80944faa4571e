\* A detached thread that has exited, and then a teardown.
SPECIFICATION Spec
CONSTANTS
  t1 = t1  t2 = t2  s1 = s1  s2 = s2
  Main = Main  None = None
  Threads = {t1, t2}
  Slots = {s1, s2}
  MainOps = {"create", "detach", "reset"}
  BodyOps = {}
INVARIANTS
  NoUndefinedBehaviour
CHECK_DEADLOCK FALSE
