SPECIFICATION FairSpec
CONSTANTS
  l1 = l1
  l2 = l2
  NumHosts = 2
  Lines = {l1}
  NumValues = 1
  HostOps = {"AcquireBlock"}
  DmaOps = {"PutFullData"}
  DevDepth = 2
  Ordered = FALSE
PROPERTIES
  RequestsAnswered
