SPECIFICATION Spec
CONSTANTS
  Unset = Unset
  PageSize = 2
  MaxAddress = 5
  Wrap = 9
  Widths = {1, 2}
  Byte = {0, 1}
  Host = {4, 8}
  Starts <- EdgeStarts
  Blocks <- SomeBlocks
PROPERTIES
  FlatSpec
