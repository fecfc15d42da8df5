\* exit ends shell_loop and shell_main returns: the shell stops for good.
CONSTANTS
  Slots <- MCSlots
  Paths <- MCPaths
  Lines <- MCLines
SPECIFICATION Spec
INVARIANT TypeOK
PROPERTY ReadLineInBounds
INVARIANT TreeWellFormed
INVARIANT FindResolves
PROPERTY PrintfFits
CHECK_DEADLOCK FALSE
