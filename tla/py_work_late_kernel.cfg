SPECIFICATION Spec
CONSTANTS
  Outputs = {o1}
  Depth = 1
  MaxKernels = 3
  KernelsFirst = FALSE
INVARIANTS
  PublishedIsMarked
CHECK_DEADLOCK FALSE
