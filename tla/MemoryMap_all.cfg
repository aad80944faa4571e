SPECIFICATION Spec
CONSTANTS
  loader = loader
  PageSize = 2
  Base = 2
  Limit = 8
  Sizes = {1, 3, 6}
  Breaks = {2, 5}
  FlagSets <- MCFlagSets
  Tags = {loader}
  BrkTag = brk
  Cap = 2
  Nothing = Nothing
INVARIANTS RecordsAgree
PROPERTIES SnapshotIsPublished LostCodeIsReported ImplementsPageTable
