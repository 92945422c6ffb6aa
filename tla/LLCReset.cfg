SPECIFICATION Spec
CONSTANTS
  t1 = t1
  t2 = t2
  Tags = {t1}
  Sets = {0, 1}
  NumWays = 1
  NumHosts = 1
  NumValues = 1
  PowerUpValid = TRUE
  Scenes <- Shared
PROPERTIES
  ResetInvalidates
