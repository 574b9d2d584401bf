SPECIFICATION Spec
CONSTANTS
  Hierarchies <- MCHierarchies
  OramBase = 16
  OramSize = 16
INVARIANTS NothingLost TagsUnique
CHECK_DEADLOCK FALSE
