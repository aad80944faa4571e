\* Main creates, joins and inspects threads over several sessions.
SPECIFICATION FairSpec
CONSTANTS
  t1 = t1  t2 = t2  s1 = s1  s2 = s2
  Main = Main  None = None
  Threads = {t1, t2}
  Slots = {s1, s2}
  MainOps = {"create", "createBadSlot", "join", "joinBadOut", "attrGet", "exit", "reset"}
  BodyOps = {"exit"}
INVARIANTS
  NoUndefinedBehaviour
  JoinWaitsForBody
  NothingSurvivesReset
PROPERTIES
  ResetTerminates
  JoinReturns
CHECK_DEADLOCK FALSE
