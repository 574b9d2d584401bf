CONSTANTS
  MemLines = 10
  bucketsz = 2
  stashsz = 5
  tree_height <- MCHeight
  tree_leaves <- MCLeaves
  Path <- MCPath
  num_of_blocks <- MCBlocks
  Lines <- MCLines
SPECIFICATION Spec
CHECK_DEADLOCK FALSE
INVARIANTS BlockIsFound NodesHoldOwnBlocks
