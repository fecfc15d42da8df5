CONSTANTS
  a = a
  b = b
  bs = bs
  nul = nul
  Keys <- MCKeys
  BS <- bs
  NUL <- nul
  BufSize <- MCBufSize
  MaxPresses <- MCMaxPresses
  IFInSyscall = FALSE
SPECIFICATION Spec
PROPERTY GetcharReturns
CHECK_DEADLOCK FALSE
