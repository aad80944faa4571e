\* Every guest thread makes every call.
SPECIFICATION Spec
CONSTANTS
  t1 = t1  t2 = t2  s1 = s1  s2 = s2
  Main = Main  None = None
  Threads = {t1, t2}
  Slots = {s1, s2}
  MainOps = {"create", "createDetached", "createBadSlot", "join", "joinBadOut", "detach", "attrGet", "self", "exit"}
  BodyOps = {"create", "createDetached", "createBadSlot", "join", "joinBadOut", "detach", "attrGet", "self", "exit"}
INVARIANTS
  LiveHandlesAreAllocated
  NoDeleteUnderRunningBody
  DeletedOnce
  UsesCounted
  ResourcesAccounted
PROPERTIES
  ImplementsHandles
SYMMETRY Symmetry
CHECK_DEADLOCK FALSE
