SPECIFICATION FairSpec
CONSTANTS
  t1 = t1
  t2 = t2
  Tags = {t1}
  Sets = {0}
  NumWays = 1
  NumHosts = 2
  NumValues = 2
  PowerUpValid = FALSE
  Scenes <- ProbedFromBelow
INVARIANTS
  CopiesAreCurrent
  DirectoryCoversHosts
PROPERTIES
  RequestsAnswered
  ReleasesAnswered
  DevProbesAnswered
