-------------------------------- MODULE MC_IPC --------------------------------
(* IPC instantiated for TLC on the heap of MC_Heap's 8-bit word, with a    *)
(* larger arena so that a few messages fit: a Message is 24 bytes (six     *)
(* 32-bit fields).  Payloads of 4 bytes and of 40 bytes, the latter larger *)
(* than the 8-byte receive buffer; two processes, and a pid nobody runs as  *)
(* so that messages can wait for ever.                                      *)
EXTENDS IPC

MCHeapStart == 16
MCHeapSize == 224
MCHeaderSize == 16
MCSplitSlack == 16
MCWordBits == 8
MCMsgSize == 24
MCPids == {1, 2}
MCDests == {1, 2, 3}
MCLengths == {4, 40}
MCBufSizes == {8}
MCMaxSends == 3
=============================================================================
