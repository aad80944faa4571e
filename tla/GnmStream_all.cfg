SPECIFICATION StreamSpec
CONSTANTS
  Values = {1, 2}
  Amounts = {1}
  MaxDrawLog = 1
  MaxDispatchLog = 1
  MaxNamedWriteLog = 2
  MaxOps = 8
  MaxStream = 2
  MaxPackets = 5
INVARIANTS IrIsHistory CountsExact PassesAreRegions
CHECK_DEADLOCK FALSE
