------------------------------- MODULE Paging -------------------------------
(***************************************************************************)
(* The physical page allocator and the page tables of                      *)
(* kernel/memory/memory.c: init_physical_memory, init_paging (with         *)
(* kmalloc_early and enable_paging), allocate_physical_page,               *)
(* free_physical_page, map_page and unmap_page.                            *)
(*                                                                         *)
(* Frames are numbered; a frame of physical memory that serves as a page   *)
(* directory or page table holds Entries entries, each NoMap or the frame  *)
(* it points to (the present bit set).  `mem' is the content of the frames *)
(* the code uses as paging structures, so two directory entries that point *)
(* to the same frame share one table, as they do in memory.  The bitmap is *)
(* the set `used'.  Virtual page v has directory index v \div Entries and  *)
(* table index v % Entries.                                                *)
(*                                                                         *)
(* The fixed addresses of the code (the bitmap at 0x200000, kmalloc_early  *)
(* at 0x300000, HEAP_START) are constants in frame units, so the layout is *)
(* checked as the code has it and separately from the allocator logic.     *)
(***************************************************************************)
EXTENDS Integers, FiniteSets, FiniteSetsExt

CONSTANTS
  TotalPages,     \* pmm.total_pages: the RAM the code assumes, in frames
  KernelPages,    \* frames init_physical_memory marks used (the first 1MB)
  Entries,        \* entries of a page directory or table (1024)
  BitmapFrame,    \* frame of pmm.bitmap (0x200000)
  EarlyFrame,     \* frame of early_malloc_ptr's start (0x300000)
  HeapFrames,     \* frames of [HEAP_START, HEAP_START + HEAP_SIZE)
  WordBits,       \* width of unsigned int
  MapArgs,        \* virtual pages callers pass to map_page / unmap_page
  MaxHeld,        \* bound on the frames callers hold at once
  NoMap           \* an entry without the present bit

Frames == 0..(TotalPages - 1)
Idx    == 0..(Entries - 1)
VPages == 0..(Entries * Entries - 1)

ASSUME KernelPages < Entries /\ Entries <= TotalPages /\ NoMap \notin Frames
ASSUME MapArgs \subseteq VPages

\* unsigned int arithmetic
U(n) == n % 2^WordBits

Dir(v) == v \div Entries
Tab(v) == v % Entries

VARIABLES
  used,                    \* frames whose bitmap bit is set
  free_pages, used_pages,  \* pmm's counters
  pdir,                    \* vmm.page_directory, as a frame
  mem,                     \* [frame -> [index -> entry]] of paging structures
  phase,                   \* "off", "pmm" or "paging": how far boot has got
  held,                    \* frames callers got from allocate_physical_page
  expect                   \* what each caller-mapped virtual page should map to

vars == <<used, free_pages, used_pages, pdir, mem, phase, held, expect>>

Empty == [i \in Idx |-> NoMap]

\* allocate_physical_page: the lowest frame whose bit is clear, or 0 when
\* there is none (the caller cannot tell 0 from frame 0).
\* Faulty variant: the search runs to i <= total_pages.
FreeFramesPastEnd == {f \in 0..TotalPages : f \notin used}
FreeFrames == {f \in Frames : f \notin used}
Allocated == IF FreeFrames = {} THEN 0 ELSE Min(FreeFrames)
AllocUsed == IF FreeFrames = {} THEN used ELSE used \cup {Allocated}
AllocFree == IF FreeFrames = {} THEN free_pages ELSE U(free_pages - 1)
AllocCount == IF FreeFrames = {} THEN used_pages ELSE U(used_pages + 1)

\* The frame virtual page v translates to through directory d.
Translate(m, d, v) ==
  IF m[d][Dir(v)] = NoMap THEN NoMap ELSE m[m[d][Dir(v)]][Tab(v)]

-----------------------------------------------------------------------------
Init ==
  /\ used = {} /\ free_pages = 0 /\ used_pages = 0
  /\ pdir = 0 /\ mem = [f \in Frames |-> Empty]
  /\ phase = "off" /\ held = {}
  /\ expect = [v \in VPages |-> NoMap]

\* init_physical_memory: counters reset, bitmap cleared, then 256 calls of
\* allocate_physical_page on the empty bitmap mark the first 1MB used.
InitPhysicalMemory ==
  /\ phase = "off"
  /\ used' = 0..(KernelPages - 1)
  /\ free_pages' = U(TotalPages - KernelPages)
  /\ used_pages' = KernelPages
  /\ phase' = "pmm"
  /\ UNCHANGED <<pdir, mem, held, expect>>

\* init_paging: the directory comes from kmalloc_early and is cleared; the
\* first Entries frames are identity mapped, the first map_page creating
\* directory entry 0's table from allocate_physical_page; enable_paging.
InitPaging ==
  /\ phase = "pmm"
  /\ LET t == Allocated
     IN  /\ pdir' = EarlyFrame
         /\ mem' = [mem EXCEPT ![EarlyFrame] = [Empty EXCEPT ![0] = t],
                               ![t] = [i \in Idx |-> i]]
  /\ used' = AllocUsed /\ free_pages' = AllocFree /\ used_pages' = AllocCount
  /\ phase' = "paging"
  /\ expect' = [v \in VPages |-> IF v < Entries THEN v ELSE NoMap]
  /\ UNCHANGED held

\* A caller takes a frame.  When none is free the call returns 0 and
\* changes nothing, which is no step.
AllocatePage ==
  /\ phase = "paging" /\ Cardinality(held) < MaxHeld
  /\ FreeFrames # {}
  /\ held' = held \cup {Allocated}
  /\ used' = AllocUsed /\ free_pages' = AllocFree /\ used_pages' = AllocCount
  /\ UNCHANGED <<pdir, mem, phase, expect>>

\* Faulty variant: the counters are not updated.
FreePageNoCount(p) ==
  /\ phase = "paging"
  /\ \A v \in VPages : Translate(mem, pdir, v) # p
  /\ used' = used \ {p}
  /\ held' = held \ {p}
  /\ UNCHANGED <<free_pages, used_pages, pdir, mem, phase, expect>>

\* free_physical_page(p) by the caller holding p, once p is unmapped:
\* clear the bit, free_pages++, used_pages-- (no check that it was set).
FreePage(p) ==
  /\ phase = "paging"
  /\ \A v \in VPages : Translate(mem, pdir, v) # p
  /\ used' = used \ {p}
  /\ free_pages' = U(free_pages + 1) /\ used_pages' = U(used_pages - 1)
  /\ held' = held \ {p}
  /\ UNCHANGED <<pdir, mem, phase, expect>>

\* Faulty variant: a new table is created whether or not the directory
\* entry is present.
MapPageAlwaysNewTable(v, p) ==
  LET d == Dir(v)
      t == Allocated
  IN  /\ phase = "paging"
      /\ mem' = [mem EXCEPT ![pdir][d] = t, ![t] = [Empty EXCEPT ![Tab(v)] = p]]
      /\ used' = AllocUsed /\ free_pages' = AllocFree /\ used_pages' = AllocCount
      /\ expect' = [expect EXCEPT ![v] = p]
      /\ UNCHANGED <<pdir, phase, held>>

\* map_page(v, p, flags) for a frame p the caller holds.  Without a present
\* directory entry, the table is a frame from allocate_physical_page, whose
\* result is not checked, stored in the directory and cleared; then the
\* entry is set.  The stores go to memory in this order, so a table placed on
\* the directory's own frame, or on a frame another table uses, overwrites it.
MapPage(v, p) ==
  LET d == Dir(v)
  IN  /\ phase = "paging"
      /\ IF mem[pdir][d] # NoMap
         THEN /\ mem' = [mem EXCEPT ![mem[pdir][d]][Tab(v)] = p]
              /\ UNCHANGED <<used, free_pages, used_pages>>
         ELSE LET t  == Allocated
                  m1 == [mem EXCEPT ![pdir][d] = t]
                  m2 == [m1 EXCEPT ![t] = Empty]
              IN  /\ mem' = [m2 EXCEPT ![t][Tab(v)] = p]
                  /\ used' = AllocUsed /\ free_pages' = AllocFree
                  /\ used_pages' = AllocCount
      /\ expect' = [expect EXCEPT ![v] = p]
      /\ UNCHANGED <<pdir, phase, held>>

\* unmap_page(v): clear the entry if the directory entry is present (the
\* invlpg has no effect on this state).
UnmapPage(v) ==
  /\ phase = "paging"
  /\ mem[pdir][Dir(v)] # NoMap
  /\ mem' = [mem EXCEPT ![mem[pdir][Dir(v)]][Tab(v)] = NoMap]
  /\ expect' = [expect EXCEPT ![v] = NoMap]
  /\ UNCHANGED <<used, free_pages, used_pages, pdir, phase, held>>

Next ==
  \/ InitPhysicalMemory
  \/ InitPaging
  \/ AllocatePage
  \/ \E p \in held : FreePage(p)
  \/ \E v \in MapArgs, p \in held : MapPage(v, p)
  \/ \E v \in MapArgs : UnmapPage(v)

Spec == Init /\ [][Next]_vars

-----------------------------------------------------------------------------
\* The frames the paging structures occupy.
TableFrames == {mem[pdir][d] : d \in {e \in Idx : mem[pdir][e] # NoMap}}
PagingFrames == {BitmapFrame, pdir} \cup TableFrames

TypeOK ==
  /\ used \subseteq Frames /\ held \subseteq Frames
  /\ free_pages \in 0..(2^WordBits - 1) /\ used_pages \in 0..(2^WordBits - 1)
  /\ pdir \in Frames /\ mem \in [Frames -> [Idx -> Frames \cup {NoMap}]]
  /\ phase \in {"off", "pmm", "paging"}
  /\ expect \in [VPages -> Frames \cup {NoMap}]

(* The counters agree with the bitmap after any sequence of allocations,  *)
(* frees and map_page calls that create tables: used_pages is the number  *)
(* of set bits and free_pages the rest.                                    *)
CountersMatchBitmap ==
  phase # "off" =>
    /\ used_pages = Cardinality(used)
    /\ free_pages = TotalPages - Cardinality(used)

(* Every virtual page translates to what the last map_page or unmap_page   *)
(* for it asked (the identity map for the first 4MB until a caller remaps  *)
(* it): creating a table for one directory entry never disturbs the       *)
(* mappings of another.                                                    *)
MappingsAsRequested ==
  phase = "paging" => \A v \in VPages : Translate(mem, pdir, v) = expect[v]

(* The kernel's memory layout is sound once paging is on: the bitmap, the *)
(* page directory and every page table are marked used, so the allocator  *)
(* never hands them out, and none of them lies in the heap arena, which   *)
(* itself lies inside the identity-mapped first 4MB the kernel runs in.    *)
LayoutSound ==
  phase = "paging" =>
    /\ PagingFrames \subseteq used
    /\ PagingFrames \cap HeapFrames = {}
    /\ HeapFrames \subseteq Idx

=============================================================================
