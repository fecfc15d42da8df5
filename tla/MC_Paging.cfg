CONSTANTS
  TotalPages <- MCTotalPages
  KernelPages <- MCSaneKernelPages
  Entries <- MCEntries
  BitmapFrame <- MCSaneBitmapFrame
  EarlyFrame <- MCSaneEarlyFrame
  HeapFrames <- MCSaneHeapFrames
  WordBits <- MCWordBits
  MapArgs <- MCMapArgs
  MaxHeld <- MCMaxHeld
  NoMap = NoMap
SPECIFICATION Spec
INVARIANT TypeOK
INVARIANT CountersMatchBitmap
INVARIANT MappingsAsRequested
