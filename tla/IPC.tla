--------------------------------- MODULE IPC ---------------------------------
(***************************************************************************)
(* The message queue of kernel/process/ipc.c (bundled in                   *)
(* kernel/core/syscall.c): send_message and receive_message, on top of the *)
(* kernel heap they allocate from.                                         *)
(*                                                                         *)
(* The heap is the block list of module Heap; its first-fit, split and     *)
(* coalescing operators are applied here to the blocks, so a send's two    *)
(* kmalloc calls, the kfree of its failure path and the two kfree calls of *)
(* a receive act on the real allocator.  The queue is the list from        *)
(* message_queue, head first; an entry keeps the two heap pointers.        *)
(* `cur' is the pid get_current_process() returns; the scheduler that     *)
(* changes it is the action Switch.                                        *)
(*                                                                         *)
(* Ghost state: `pending' holds every message sent and not yet received,   *)
(* with a send sequence number, and `ret' the last call's result.          *)
(***************************************************************************)
EXTENDS Integers, Sequences, SequencesExt, FiniteSets

CONSTANTS
  HeapStart, HeapSize, HeaderSize, SplitSlack, WordBits,  \* as in Heap
  MsgSize,    \* sizeof(Message)
  Pids,       \* pids of the processes that can be current
  Dests,      \* dest_pid arguments of send_message
  Lengths,    \* length arguments of send_message
  BufSizes,   \* buffer_size arguments of receive_message
  MaxSends    \* bound on the number of send_message calls

ASSUME MsgSize > 0 /\ Lengths \subseteq 0..(2^WordBits - 1)

VARIABLES
  blocks, used_size,  \* the heap, as in Heap
  queue,              \* message_queue, head first
  cur,                \* get_current_process()->pid
  pending,            \* ghost: messages sent and not yet received
  sends,              \* ghost: send_message calls so far
  ret,                \* ghost: what the last call returned
  got                 \* ghost: the last message received, its copy size and buffer

vars == <<blocks, used_size, queue, cur, pending, sends, ret, got>>

H == INSTANCE Heap WITH live <- {}, Requests <- {1}, MaxLive <- 0

\* kmalloc(req) succeeds: a non-zero size and a first-fit block.
Fits(bs, req) == req # 0 /\ H!FirstFit(bs, H!Align4(req)) # 0

\* The block malloc(req) takes, and the list after its split and marking.
AllocIdx(bs, req) == H!FirstFit(bs, H!Align4(req))
AllocSplit(bs, req) ==
  LET size == H!Align4(req)
      i    == AllocIdx(bs, req)
  IN  IF H!ShouldSplit(bs[i], size) THEN H!Split(bs, i, size) ELSE bs
AllocIn(bs, req) == [AllocSplit(bs, req) EXCEPT ![AllocIdx(bs, req)].free = FALSE]
AllocPtr(bs, req) == H!Payload(AllocSplit(bs, req), AllocIdx(bs, req))
AllocSize(bs, req) == AllocSplit(bs, req)[AllocIdx(bs, req)].size

\* free(ptr): the block whose payload is ptr, marked free and coalesced.
FreeIdx(bs, ptr) ==
  SelectInSeq([j \in 1..Len(bs) |-> H!Payload(bs, j)], LAMBDA q : q = ptr)
FreeIn(bs, ptr) == H!Coalesce([bs EXCEPT ![FreeIdx(bs, ptr)].free = TRUE], FreeIdx(bs, ptr))
FreeSize(bs, ptr) == bs[FreeIdx(bs, ptr)].size

\* Faulty variant: the message is appended at the tail of the queue.
PushTail(q, msg) == Append(q, msg)

\* msg->next = message_queue; message_queue = msg;
Push(q, msg) == <<msg>> \o q

\* A message as the receiver sees it: the heap pointers left out.
Sent(m) == [m EXCEPT !.mptr = 0, !.dptr = 0]

\* got's message before any receive.
NoMsg == [id |-> -1, from |-> 0, to |-> 0, len |-> 0, mptr |-> 0, dptr |-> 0]

Msg == [id : Nat, from : Pids, to : Dests, len : Lengths, mptr : Nat, dptr : Nat]

-----------------------------------------------------------------------------
Init ==
  /\ blocks = << [size |-> HeapSize - HeaderSize, free |-> TRUE] >>
  /\ used_size = HeaderSize
  /\ queue = << >>
  /\ cur \in Pids
  /\ pending = {}
  /\ sends = 0
  /\ ret = 0
  /\ got = [msg |-> NoMsg, copied |-> 0, bsz |-> 0]

Send(dest, len) ==
  /\ sends < MaxSends
  /\ sends' = sends + 1
  /\ IF ~Fits(blocks, MsgSize)
     THEN /\ ret' = -1
          /\ UNCHANGED <<blocks, used_size, queue, pending>>
     ELSE LET b1 == AllocIn(blocks, MsgSize)
              m  == AllocPtr(blocks, MsgSize)
              u1 == H!U(used_size + AllocSize(blocks, MsgSize))
          IN  IF ~Fits(b1, len)
              THEN /\ ret' = -1
                   /\ blocks' = FreeIn(b1, m)
                   /\ used_size' = H!U(u1 - FreeSize(b1, m))
                   /\ UNCHANGED <<queue, pending>>
              ELSE LET msg == [id |-> sends, from |-> cur, to |-> dest, len |-> len,
                               mptr |-> m, dptr |-> AllocPtr(b1, len)]
                   IN  /\ blocks' = AllocIn(b1, len)
                       /\ used_size' = H!U(u1 + AllocSize(b1, len))
                       /\ queue' = Push(queue, msg)
                       /\ pending' = pending \cup {Sent(msg)}
                       /\ ret' = 0
  /\ UNCHANGED <<cur, got>>

\* The message receive_message finds for pid p.
\* Faulty variant: the scan takes the last match, as a tail-inserting queue
\* would.
FindOldest(q, p) == SelectLastInSeq(q, LAMBDA m : m.to = p)

\* The scan from message_queue's head: the first message for p, or 0.
Find(q, p) == SelectInSeq(q, LAMBDA m : m.to = p)

\* Faulty variant: the whole message length is copied, whatever the buffer.
ReceiveNoClamp(bsz) ==
  LET i == Find(queue, cur)
  IN  /\ IF i = 0
         THEN /\ ret' = -1
              /\ UNCHANGED <<blocks, used_size, queue, pending, got>>
         ELSE LET msg == queue[i]
                  b1  == FreeIn(blocks, msg.dptr)
                  u1  == H!U(used_size - FreeSize(blocks, msg.dptr))
              IN  /\ blocks' = FreeIn(b1, msg.mptr)
                  /\ used_size' = H!U(u1 - FreeSize(b1, msg.mptr))
                  /\ queue' = RemoveAt(queue, i)
                  /\ pending' = pending \ {Sent(msg)}
                  /\ ret' = msg.len
                  /\ got' = [msg |-> Sent(msg), copied |-> ret', bsz |-> bsz]
      /\ UNCHANGED <<cur, sends>>

\* receive_message(&sender, &type, buffer, buffer_size) by the current
\* process: the first message for it in the queue is copied out (up to
\* buffer_size bytes), unlinked, and its data and then the Message freed;
\* -1 if there is none.
Receive(bsz) ==
  LET i == Find(queue, cur)
  IN  /\ IF i = 0
         THEN /\ ret' = -1
              /\ UNCHANGED <<blocks, used_size, queue, pending, got>>
         ELSE LET msg == queue[i]
                  b1  == FreeIn(blocks, msg.dptr)
                  u1  == H!U(used_size - FreeSize(blocks, msg.dptr))
              IN  /\ blocks' = FreeIn(b1, msg.mptr)
                  /\ used_size' = H!U(u1 - FreeSize(b1, msg.mptr))
                  /\ queue' = RemoveAt(queue, i)
                  /\ pending' = pending \ {Sent(msg)}
                  /\ ret' = IF msg.len < bsz THEN msg.len ELSE bsz
                  /\ got' = [msg |-> Sent(msg), copied |-> ret', bsz |-> bsz]
      /\ UNCHANGED <<cur, sends>>

\* The scheduler makes another process current.
Switch(p) ==
  /\ p # cur
  /\ cur' = p
  /\ UNCHANGED <<blocks, used_size, queue, pending, sends, ret, got>>

Next ==
  \/ \E d \in Dests, l \in Lengths : Send(d, l)
  \/ \E b \in BufSizes : Receive(b)
  \/ \E p \in Pids : Switch(p)

Spec == Init /\ [][Next]_vars

-----------------------------------------------------------------------------

TypeOK ==
  /\ blocks \in Seq(H!Block) /\ used_size \in 0..(2^WordBits - 1)
  /\ queue \in Seq(Msg) /\ cur \in Pids
  /\ sends \in 0..MaxSends
  /\ ret \in -1..Max(BufSizes)
  /\ got.msg \in {NoMsg} \cup [id : Nat, from : Pids, to : Dests, len : Lengths, mptr : {0}, dptr : {0}]
  /\ got.copied \in Nat /\ got.bsz \in BufSizes \cup {0}

ReceiveNewestFirst ==
  [][pending' # pending /\ sends' = sends =>
       LET mine == {m \in pending : m.to = cur}
       IN  /\ got'.msg \in mine
           /\ \A m \in mine : m.id <= got'.msg.id
           /\ ret' = got'.copied
           /\ got'.copied = IF got'.msg.len < got'.bsz THEN got'.msg.len ELSE got'.bsz]_vars

-----------------------------------------------------------------------------
\* The refinement mapping to Mailbox: a message without its id, addressee
\* and heap pointers, and each pid's mailbox the messages addressed to it
\* in queue order.
AsLetter(m) == [from |-> m.from, len |-> m.len]

Mailboxes ==
  [d \in Dests |->
     LET mine == SelectSeq(queue, LAMBDA m : m.to = d)
     IN  [i \in 1..Len(mine) |-> AsLetter(mine[i])]]

AM == INSTANCE Mailbox
        WITH boxes <- Mailboxes,
             got <- [msg |-> AsLetter(got.msg), copied |-> got.copied]

(* send_message and receive_message on the shared queue implement the     *)
(* per-receiver mailboxes of spec 4.4 (Mailbox): a send either adds its   *)
(* message in front of its addressee's mailbox or changes none, and a     *)
(* receive takes the front of the caller's own mailbox and leaves every   *)
(* other pid's messages, and their order, as they were.                   *)
MailboxRefined == AM!Spec

=============================================================================
