SPECIFICATION Spec
CONSTANTS
  Bindings = {b1, b2}
  Dirs = {cuda, old}
  Names = {add, copy}
  MaxVersion = 3
INVARIANT
  AllInSync
CHECK_DEADLOCK FALSE
