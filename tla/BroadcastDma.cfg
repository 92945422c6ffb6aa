SPECIFICATION Spec
CONSTANTS
  l1 = l1
  l2 = l2
  NumHosts = 3
  Lines = {l1}
  NumValues = 2
  HostOps = {"AcquireBlock", "AcquirePerm"}
  DmaOps = {"Get", "PutFullData"}
  DevDepth = 2
  Ordered = TRUE
INVARIANTS
  TypeOK
  SingleWriter
  CopiesAreCurrent
  ProbesAccounted
PROPERTIES
  ReadsAreCurrent
