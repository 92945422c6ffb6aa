SPECIFICATION Spec
CONSTANTS
  t1 = t1
  t2 = t2
  Tags = {t1, t2}
  Sets = {0}
  NumWays = 1
  NumBeats = 2
  NumValues = 2
  AccessLockCycles = 2
  Ops = {"LOAD", "STORE", "AMO", "LR", "SC"}
  Uncached <- UncachedNone
  Faults = {"ok"}
  Written <- WrittenLast
  Stalls = {"a", "c", "e"}
INVARIANTS
  CopyIsCurrent
  StoresReachMemory
  LoadsAreCurrent
  LockExclusive
  ScIsAtomic
  RefillFifoFits
