\* The foreground's text and the key bound end every behaviour; the kernel
\* itself goes on printing, so end states are not deadlocks.
CONSTANTS
  Width <- MCWidth
  Height <- MCHeight
  FgText <- MCFgText
  Keys <- MCKeys
  MaxKeys <- MCMaxKeys
SPECIFICATION Spec
INVARIANT WritesOnScreen
CHECK_DEADLOCK FALSE
