SPECIFICATION FairSpec
CONSTANTS
  a1 = a1  a2 = a2  v1 = v1  v2 = v2
  Apps = {a1, a2}
  Values = {v1}
  Default = Default
  None = None
  MaxPolls = 1
  CoreUp = TRUE
INVARIANTS ContextOutlivesRun ChildRebuildsEngine ReportIsRead
PROPERTY VerdictComes
