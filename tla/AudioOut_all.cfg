SPECIFICATION AudioFairSpec
CONSTANTS
  t1 = t1  t2 = t2
  Threads = {t1, t2}
  NumPorts = 2
  Lengths = {1, 2}
  RingUnits = 4
  Target = 2
  MaxLate = 1
  MaxCall = 2
  None = None
INVARIANTS PlayedPortsStayOpen
PROPERTY OutputReturns
