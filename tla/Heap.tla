-------------------------------- MODULE Heap --------------------------------
(***************************************************************************)
(* The kernel heap of kernel/memory/memory.c: a doubly linked list of      *)
(* HeapBlock headers embedded in the arena [HEAP_START, HEAP_START +       *)
(* HEAP_SIZE), first-fit malloc with splitting, free with coalescing.      *)
(*                                                                         *)
(* The list is contiguous and address ordered (a split puts the new header *)
(* right after the allocated payload, a merge absorbs a neighbour), so it  *)
(* is modelled as the sequence of blocks in address order; next and prev   *)
(* are the neighbours in the sequence and a block's address is the sum of  *)
(* the headers and payloads before it.  `live' is the set of pointers the  *)
(* callers hold, with the size they asked for.                             *)
(***************************************************************************)
EXTENDS Integers, Sequences, SequencesExt, FiniteSets

CONSTANTS
  HeapStart,   \* HEAP_START
  HeapSize,    \* HEAP_SIZE
  HeaderSize,  \* sizeof(HeapBlock)
  SplitSlack,  \* the 16 spare bytes malloc's split test asks for
  WordBits,    \* width of unsigned int
  Requests,    \* the sizes callers pass to malloc
  MaxLive      \* bound on the allocations outstanding at once

ASSUME HeaderSize > 0 /\ HeapSize > HeaderSize /\ MaxLive \in Nat
ASSUME Requests \subseteq 1..(2^WordBits - 1)

Word == 2^WordBits

\* unsigned int arithmetic
U(n) == n % Word

VARIABLES blocks, used_size, live
vars == <<blocks, used_size, live>>

Block == [size : 0..(Word - 1), free : BOOLEAN]

\* Header address of the i-th block: the headers and payloads before it.
Addr(bs, i) ==
  HeapStart + FoldLeft(LAMBDA acc, b : acc + HeaderSize + b.size, 0, SubSeq(bs, 1, i - 1))

\* Faulty variant: a pointer past the payload instead of to its start.
PayloadPastBlock(bs, i) == Addr(bs, i) + HeaderSize + bs[i].size

\* The pointer malloc hands out for block i (header + sizeof(HeapBlock)).
Payload(bs, i) == Addr(bs, i) + HeaderSize

\* Faulty variant: rounding down instead of up.
Align4Down(n) == LET m == U(n) IN m - (m % 4)

\* size = (size + 3) & ~3
Align4(n) == LET m == U(n + 3) IN m - (m % 4)

\* The first block of the list that is free and large enough.
FirstFit(bs, size) == SelectInSeq(bs, LAMBDA b : b.free /\ b.size >= size)

ShouldSplit(b, size) == b.size > U(size + HeaderSize + SplitSlack)

\* Faulty variant: the new block's size leaves out the header it takes.
SplitNoHeader(bs, i, size) ==
  InsertAt([bs EXCEPT ![i].size = size], i + 1,
           [size |-> U(bs[i].size - size), free |-> TRUE])

\* Carve a free block right after the first `size' bytes of block i.
Split(bs, i, size) ==
  InsertAt([bs EXCEPT ![i].size = size], i + 1,
           [size |-> U(bs[i].size - size - HeaderSize), free |-> TRUE])

\* Faulty variant: the next block is absorbed whether or not it is free.
MergesWithNextAlways(bs, i) == i < Len(bs)

MergesWithNext(bs, i) == i < Len(bs) /\ bs[i + 1].free

\* Faulty variant: the previous block is absorbed whether or not it is free.
MergesWithPrevAlways(bs, i) == i > 1

MergesWithPrev(bs, i) == i > 1 /\ bs[i - 1].free

\* Faulty variant: the absorbed block's header is not added.
MergeNextNoHeader(bs, i) ==
  RemoveAt([bs EXCEPT ![i].size = U(@ + bs[i + 1].size)], i + 1)

\* block->size += block->next->size + sizeof(HeapBlock); unlink next
MergeNext(bs, i) ==
  RemoveAt([bs EXCEPT ![i].size = U(@ + bs[i + 1].size + HeaderSize)], i + 1)

\* block->prev->size += block->size + sizeof(HeapBlock); unlink block
MergePrev(bs, i) ==
  RemoveAt([bs EXCEPT ![i - 1].size = U(@ + bs[i].size + HeaderSize)], i)

\* free's two merges, forward first and then backward.
Coalesce(bs, i) ==
  LET fwd == IF MergesWithNext(bs, i) THEN MergeNext(bs, i) ELSE bs
  IN  IF MergesWithPrev(fwd, i) THEN MergePrev(fwd, i) ELSE fwd

\* The list after malloc(req) has taken block FirstFit: split if it is
\* large enough, and marked used.
MallocBlocks(bs, req) ==
  LET size == Align4(req)
      i    == FirstFit(bs, size)
      s    == IF ShouldSplit(bs[i], size) THEN Split(bs, i, size) ELSE bs
  IN  [s EXCEPT ![i].free = FALSE]

\* The list after free() of the payload of block i: marked free, merged.
FreeBlocks(bs, i) == Coalesce([bs EXCEPT ![i].free = TRUE], i)

-----------------------------------------------------------------------------
\* init_heap: the whole arena is one free block; used_size starts at one
\* header's worth.
Init ==
  /\ blocks = << [size |-> HeapSize - HeaderSize, free |-> TRUE] >>
  /\ used_size = HeaderSize
  /\ live = {}

\* malloc(size).  A zero size and a failed first-fit search return 0 and
\* change nothing, so they are not steps.
Malloc(req) ==
  LET size == Align4(req)
      i    == FirstFit(blocks, size)
      bs   == IF ShouldSplit(blocks[i], size) THEN Split(blocks, i, size) ELSE blocks
  IN  /\ Cardinality(live) < MaxLive
      /\ i # 0
      /\ blocks' = MallocBlocks(blocks, req)
      /\ used_size' = U(used_size + bs[i].size)
      /\ live' = live \cup {[ptr |-> Payload(bs, i), req |-> req]}

\* Faulty variant: used_size is decreased after the forward merge, by the
\* size the block has once it has absorbed a free next block.
FreeCountsMerged(a) ==
  \E i \in 1..Len(blocks) :
    LET marked == [blocks EXCEPT ![i].free = TRUE]
        grown  == IF MergesWithNext(marked, i) THEN MergeNext(marked, i)[i].size
                  ELSE blocks[i].size
    IN  /\ Payload(blocks, i) = a.ptr
        /\ blocks' = FreeBlocks(blocks, i)
        /\ used_size' = U(used_size - grown)
        /\ live' = live \ {a}

\* free(ptr) on a pointer a caller holds: the header is found at a fixed
\* offset before ptr, marked free, its size taken off used_size, and the
\* block merged with a free next and then a free previous neighbour.
Free(a) ==
  \E i \in 1..Len(blocks) :
    /\ Payload(blocks, i) = a.ptr
    /\ blocks' = FreeBlocks(blocks, i)
    /\ used_size' = U(used_size - blocks[i].size)
    /\ live' = live \ {a}

Next ==
  \/ \E req \in Requests : Malloc(req)
  \/ \E a \in live : Free(a)

Spec == Init /\ [][Next]_vars

-----------------------------------------------------------------------------
\* The index of the block whose payload is at ptr (0 if there is none).
BlockAt(ptr) == SelectInSeq([j \in 1..Len(blocks) |-> Payload(blocks, j)], LAMBDA p : p = ptr)

TypeOK ==
  /\ blocks \in Seq(Block)
  /\ used_size \in 0..(Word - 1)
  /\ live \subseteq [ptr : (HeapStart + HeaderSize)..(HeapStart + HeapSize - 1), req : Requests]

(* The blocks tile the arena: every split and merge keeps the headers plus *)
(* payloads summing to HEAP_SIZE, so no byte of the arena is lost or       *)
(* counted twice by malloc's split arithmetic or free's merges.            *)
HeapTiled == Addr(blocks, Len(blocks) + 1) = HeapStart + HeapSize

UsedSizeAccounted ==
  used_size = HeaderSize + FoldLeft(LAMBDA acc, b : acc + (IF b.free THEN 0 ELSE b.size), 0, blocks)

(* The pointers callers hold are exactly the payloads of the used blocks,  *)
(* one caller per block: free never absorbs a block still in use and       *)
(* malloc never hands out a block twice.                                   *)
LiveAllocations ==
  /\ \A a, b \in live : a.ptr = b.ptr => a = b
  /\ {a.ptr : a \in live} = {Payload(blocks, i) : i \in {j \in 1..Len(blocks) : ~blocks[j].free}}

(* Every pointer malloc returned has at least the bytes asked for behind   *)
(* it.                                                                     *)
AllocationCoversRequest ==
  \A a \in live : BlockAt(a.ptr) # 0 /\ blocks[BlockAt(a.ptr)].size >= a.req

(* Spec 8, heap round trip: from every reachable heap, malloc(n) followed  *)
(* by free of the pointer it returned gives back exactly the same block    *)
(* list, whatever the request: free's forward merge re-absorbs the         *)
(* remainder malloc's split carved, with the header the split took.         *)
HeapRoundTrip ==
  \A req \in Requests :
    LET i == FirstFit(blocks, Align4(req))
    IN  i # 0 => FreeBlocks(MallocBlocks(blocks, req), i) = blocks

-----------------------------------------------------------------------------
(* Refinement: each pointer a caller holds is the range of its block's     *)
(* payload, [ptr, ptr + size), with the size the caller asked for.         *)
Held == {[ptr |-> a.ptr, len |-> blocks[BlockAt(a.ptr)].size, req |-> a.req] : a \in live}

\* Align4 makes every size, and so every payload address, a multiple of 4.
Abstract ==
  INSTANCE Allocator WITH Base <- HeapStart, Size <- HeapSize, Grain <- 4, held <- Held

(* malloc and free implement the abstract allocator: malloc returns a      *)
(* payload of at least the requested bytes inside the arena and clear of   *)
(* every payload still in use, and no split or merge of free moves or      *)
(* resizes a payload a caller holds.                                       *)
AllocatorRefined == Abstract!Spec

=============================================================================
