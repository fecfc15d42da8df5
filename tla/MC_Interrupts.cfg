CONSTANTS
  Lines <- MCLines
  MaxRaises <- MCMaxRaises
SPECIFICATION Spec
INVARIANT IrqDispatchedToItsHandler
PROPERTY IrqEventuallyHandled
