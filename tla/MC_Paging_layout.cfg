CONSTANTS
  TotalPages <- MCTotalPages
  KernelPages <- MCCodeKernelPages
  Entries <- MCEntries
  BitmapFrame <- MCCodeBitmapFrame
  EarlyFrame <- MCCodeEarlyFrame
  HeapFrames <- MCCodeHeapFrames
  WordBits <- MCWordBits
  MapArgs <- MCMapArgs
  MaxHeld <- MCMaxHeld
  NoMap = NoMap
SPECIFICATION Spec
INVARIANT LayoutSound
