SPECIFICATION Spec
CONSTANTS
  t1 = t1
  t2 = t2
  Tags = {t1}
  Sets = {0, 1}
  NumWays = 2
  NumBeats = 2
  NumValues = 2
  AccessLockCycles = 2
  Ops = {"LOAD", "STORE", "LR", "AMO"}
  Uncached <- UncachedOne
  Faults = {"ok", "fault", "wait", "bad"}
  Written <- WrittenUncached
  Stalls = {"a", "c", "e"}
INVARIANTS
  OneCopyPerLine
  LoadsAreCurrent
  NoMoreThanGranted
