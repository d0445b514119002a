SPECIFICATION Spec
CONSTANTS
  Key <- Keys
  Topic <- Topics
  Value = {0, 1}
  Default = 0
  Empty = ""
  Single = "+"
  Multi = "#"
INVARIANT TypeOK FindIsMatching NoRedundantNodes
PROPERTY ImplementsStore
