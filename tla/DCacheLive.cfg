SPECIFICATION FairSpec
CONSTANTS
  t1 = t1
  t2 = t2
  Tags = {t1, t2}
  Sets = {0}
  NumWays = 1
  NumBeats = 2
  NumValues = 1
  AccessLockCycles = 2
  Ops = {"LOAD", "STORE", "LR"}
  Uncached <- UncachedNone
  Faults = {"ok"}
  Written <- WrittenNone
  Stalls = {"a", "c", "e"}
PROPERTIES
  EveryRequestAnswered
  EveryProbeAnswered
