CONSTANTS
  HeapStart <- MCHeapStart
  HeapSize <- MCHeapSize
  HeaderSize <- MCHeaderSize
  SplitSlack <- MCSplitSlack
  WordBits <- MCWordBits
  Requests <- MCRequests
  MaxLive <- MCMaxLive
SPECIFICATION Spec
INVARIANT TypeOK
INVARIANT HeapTiled
 
INVARIANT UsedSizeAccounted
INVARIANT LiveAllocations
INVARIANT AllocationCoversRequest
INVARIANT HeapRoundTrip
PROPERTY AllocatorRefined
