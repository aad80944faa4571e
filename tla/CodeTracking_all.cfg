SPECIFICATION Spec
CONSTANTS
  t1 = t1  t2 = t2
  Threads = {t1, t2}
  NumPages = 2
  None = None
  MaxOps = 2
SYMMETRY Permuted
INVARIANTS TranslatedIsClosed RegisteredIsTranslated FaultsAreResumed
