CONSTANTS
  WordBits <- MCWordBits
  MsArgs <- MCMsArgs
  IFInSyscall = TRUE
SPECIFICATION Spec
PROPERTY SleepReturns
