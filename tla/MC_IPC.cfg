CONSTANTS
  HeapStart <- MCHeapStart
  HeapSize <- MCHeapSize
  HeaderSize <- MCHeaderSize
  SplitSlack <- MCSplitSlack
  WordBits <- MCWordBits
  MsgSize <- MCMsgSize
  Pids <- MCPids
  Dests <- MCDests
  Lengths <- MCLengths
  BufSizes <- MCBufSizes
  MaxSends <- MCMaxSends
SPECIFICATION Spec
INVARIANT TypeOK
 
PROPERTY ReceiveNewestFirst
PROPERTY MailboxRefined
