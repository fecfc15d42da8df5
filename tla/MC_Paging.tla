------------------------------ MODULE MC_Paging ------------------------------
(***************************************************************************)
(* Instances of Paging for TLC.  One frame stands for 1MB (256 pages) and  *)
(* a table has 4 entries, so a table maps 4MB as in the code: the first    *)
(* 1MB is frame 0, the bitmap at 0x200000 is frame 2, kmalloc_early's      *)
(* 0x300000 is frame 3, the heap [0x100000, 0x1100000) is frames 1..16,    *)
(* and the identity map covers frames 0..3.  RAM is cut to 8 frames so    *)
(* that tables for further directory entries, and exhaustion, are reached. *)
(***************************************************************************)
EXTENDS Paging

MCTotalPages == 8
MCEntries == 4
MCWordBits == 8
MCMaxHeld == 2
\* pages in directory entries 0 to 3: the fourth table runs out of frames
MCMapArgs == {2, 5, 9, 13}

\* The layout of memory.c.
MCCodeKernelPages == 1
MCCodeBitmapFrame == 2
MCCodeEarlyFrame == 3
MCCodeHeapFrames == 1..16

\* A layout with the bitmap and the directory inside the reserved first
\* frames, to check the allocator and map_page on their own.
MCSaneKernelPages == 3
MCSaneBitmapFrame == 1
MCSaneEarlyFrame == 2
MCSaneHeapFrames == {}

=============================================================================
