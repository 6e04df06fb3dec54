SPECIFICATION Spec
CONSTANTS
  Capacity = 3
  Item = {"a", "b", "c"}
  Moved = "moved"
PROPERTY
  ImplementsKeepNewest
