------------------------------- MODULE Mailbox -------------------------------
(***************************************************************************)
(* What the IPC message queue promises its callers (spec 4.4), with no     *)
(* shared list, heap blocks or pointers: every receiver pid has a mailbox *)
(* of the messages sent to it and not yet received, newest first.  A send *)
(* by the current process either puts its message in front of the         *)
(* destination's mailbox and returns 0, or changes nothing and returns -1 *)
(* (the heap may refuse, so a send may always fail).  A receive by the    *)
(* current process takes the front of its own mailbox and returns         *)
(* min(length, buffer size), or returns -1 when its mailbox is empty.     *)
(* Mailboxes of other pids are never touched by a receive.                 *)
(*                                                                         *)
(* kernel/process/ipc.c (module IPC) implements this; IPC maps its queue  *)
(* to the mailboxes by keeping, for each pid, the messages addressed to   *)
(* it in queue order.                                                      *)
(***************************************************************************)
EXTENDS Integers, Sequences

CONSTANTS
  Pids,       \* pids that can be current
  Dests,      \* pids messages can be addressed to
  Lengths,    \* payload lengths
  BufSizes    \* receive buffer sizes

VARIABLES
  boxes,  \* boxes[d]: the messages for d not yet received, newest first
  cur,    \* the current process
  ret,    \* what the last call returned
  got     \* the last message received and the bytes copied from it

avars == <<boxes, cur, ret, got>>

Letter == [from : Pids, len : Lengths]

NoLetter == [from |-> 0, len |-> 0]

Init ==
  /\ boxes = [d \in Dests |-> << >>]
  /\ cur \in Pids
  /\ ret = 0
  /\ got = [msg |-> NoLetter, copied |-> 0]

\* A send of `l' bytes to d is queued in front of d's mailbox.
Post(d, l) ==
  /\ boxes' = [boxes EXCEPT ![d] = << [from |-> cur, len |-> l] >> \o @]
  /\ ret' = 0
  /\ UNCHANGED <<cur, got>>

\* A send is refused and leaves every mailbox as it was.
Refuse ==
  /\ ret' = -1
  /\ UNCHANGED <<boxes, cur, got>>

\* The current process takes its newest message.
Take(bsz) ==
  /\ boxes[cur] # << >>
  /\ LET m == Head(boxes[cur])
         n == IF m.len < bsz THEN m.len ELSE bsz
     IN  /\ boxes' = [boxes EXCEPT ![cur] = Tail(@)]
         /\ ret' = n
         /\ got' = [msg |-> m, copied |-> n]
  /\ UNCHANGED cur

\* A receive with nothing addressed to the current process.
Miss ==
  /\ boxes[cur] = << >>
  /\ ret' = -1
  /\ UNCHANGED <<boxes, cur, got>>

\* Another process becomes current.
Switch(p) ==
  /\ p # cur
  /\ cur' = p
  /\ UNCHANGED <<boxes, ret, got>>

Next ==
  \/ \E d \in Dests, l \in Lengths : Post(d, l)
  \/ Refuse
  \/ \E b \in BufSizes : Take(b)
  \/ Miss
  \/ \E p \in Pids : Switch(p)

Spec == Init /\ [][Next]_avars

=============================================================================
