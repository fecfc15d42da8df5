------------------------------ MODULE MC_Heap ------------------------------
(* Heap instantiated for TLC on an 8-bit word: a 128-byte arena with       *)
(* 16-byte headers, the kernel's 16-byte split slack, and request sizes    *)
(* that do and do not trigger a split.                                     *)
EXTENDS Heap

MCHeapStart == 16
MCHeapSize == 128
MCHeaderSize == 16
MCSplitSlack == 16
MCWordBits == 8
\* 4 always splits the first block, 40 splits it only while it is large,
\* 9 is rounded up to 12.
MCRequests == {4, 9, 40}
MCMaxLive == 3
=============================================================================
