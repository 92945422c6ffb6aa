SPECIFICATION Spec
CONSTANTS
  t1 = t1
  t2 = t2
  Tags = {t1, t2}
  Sets = {0}
  NumWays = 1
  NumHosts = 2
  NumValues = 2
  PowerUpValid = FALSE
  Scenes <- SharedAndEvicted
INVARIANTS
  SingleWriter
  CopiesAreCurrent
  DirectoryCoversHosts
  ReleaseFindsLine
PROPERTIES
  GetsAreCurrent
