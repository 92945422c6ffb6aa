SPECIFICATION CoreSpec
CHECK_DEADLOCK FALSE
CONSTANTS
  Ports = {"main", "io"}
  Latency = 1
  Data = {}
  Codes = {}
  None = None
  Unset = Unset
  Byte = {}
  MaxAddress = 79
  CommandLines <- SomeCommandLines
  Files <- SomeFiles
  stoi <- Numbers
  ArgumentSpace = 64
  DefaultTimeout = 1
  Requests <- SomeRequests
INVARIANTS
  CommandLineObeyed
  ImageLoaded
  ArgvReadable
  DataNextCycle
PROPERTIES
  IoWriteMasked
  Terminates
